------------------------ MODULE CandleStream_proofs ------------------------
(***************************************************************************)
(* The safety properties of CandleStream, for any set of assets, any       *)
(* number of candles, broken sockets and restarts.  The invariant adds to  *)
(* them what the next candle of an asset can be: whatever the daemon has   *)
(* not seen yet is lost to the socket or waits on it, and while a          *)
(* reconciliation is yielded its window still waits in the queue.          *)
(***************************************************************************)
EXTENDS CandleStream, TLAPS

USE StreamAssumption
USE DEF StreamAssumption, Times, Candle

Socket ==
    /\ phase # "open" => wire = Silent
    /\ \A a \in Assets : \A t \in wire[a] : last[a] < t /\ t <= clock
    /\ \A a \in Assets : \A t \in Times :
          last[a] < t /\ t <= clock => t \in lost[a] \cup wire[a]

Reconciliation ==
    /\ asked <= clock
    /\ \A c \in queue : c.time <= asked
    /\ queue # {} => phase = "drain"
    /\ phase = "drain" =>
          \A a \in Assets : \A t \in Times :
             t \in {asked - 1, asked} /\ last[a] < t
                => [asset |-> a, time |-> t] \in queue

Behind == \A a \in Assets : last[a] <= clock

IInv == /\ TypeOK /\ Socket /\ Reconciliation /\ Behind
        /\ FeedAccounted /\ GapsAreOutages /\ CaughtUp

-----------------------------------------------------------------------------
LEMMA InitInv == Init => IInv
  BY DEF Init, IInv, TypeOK, Socket, Reconciliation, Behind, FeedAccounted,
         GapsAreOutages, CaughtUp, Silent

\* What accepting candle t of an asset does to the buffer.
LEMMA Accepting ==
    ASSUME IInv, NEW a \in Assets, NEW t \in Times, t <= clock,
           Accepts(a, t, "closed"), Offer(a, t, "closed")
    PROVE  /\ last[a] < t
           /\ last' = [last EXCEPT ![a] = t]
           /\ missing' = [missing EXCEPT ![a] = @ \cup ((last[a] + 1)..(t - 1))]
           /\ processed' = [processed EXCEPT ![a] = @ \cup {t}]
           /\ last' \in [Assets -> 0..MaxClock]
           /\ missing' \in [Assets -> SUBSET Times]
           /\ processed' \in [Assets -> SUBSET Times]
           /\ FeedAccounted'
<1>1. /\ last[a] < t
      /\ last' = [last EXCEPT ![a] = t]
      /\ missing' = [missing EXCEPT ![a] = @ \cup ((last[a] + 1)..(t - 1))]
      /\ processed' = [processed EXCEPT ![a] = @ \cup {t}]
  BY DEF Accepts, Offer, Skipped, IInv, TypeOK
<1>2. /\ last' \in [Assets -> 0..MaxClock]
      /\ missing' \in [Assets -> SUBSET Times]
      /\ processed' \in [Assets -> SUBSET Times]
  BY <1>1 DEF IInv, TypeOK
<1>3. FeedAccounted'
  <2>. SUFFICES ASSUME NEW b \in Assets
                PROVE  /\ processed'[b] \cup missing'[b] = 1..last'[b]
                       /\ processed'[b] \cap missing'[b] = {}
    BY DEF FeedAccounted
  <2>1. CASE b = a
    BY <1>1, <2>1 DEF IInv, TypeOK, FeedAccounted
  <2>2. CASE b # a
    BY <1>1, <2>2 DEF IInv, TypeOK, FeedAccounted
  <2>. QED
    BY <2>1, <2>2
<1>. QED
  BY <1>1, <1>2, <1>3

\* A candle read from the socket.
LEMMA ReceiveStep ==
    ASSUME IInv, NEW a \in Assets, Receive(a)
    PROVE  IInv'
<1>. USE DEF IInv, TypeOK, Socket, Reconciliation, Behind, GapsAreOutages, CaughtUp
<1>1. UNCHANGED <<clock, phase, queue, asked, reconnects, deaths, lost>>
      /\ phase = "open"
  BY DEF Receive
<1>2. CASE ReadOpen(a)
  <2>1. UNCHANGED <<buffer, wire>>
    BY <1>2 DEF ReadOpen, Offer, Accepts
  <2>. QED
    BY <1>1, <2>1 DEF buffer, FeedAccounted
<1>3. ASSUME NEW t \in wire[a], \A u \in wire[a] : t <= u,
             wire' = [wire EXCEPT ![a] = @ \ {t}], Offer(a, t, "closed")
      PROVE  IInv'
  <2>1. t \in Times /\ t <= clock /\ Accepts(a, t, "closed")
    BY <1>3 DEF Accepts
  <2>2. /\ last[a] < t
        /\ last' = [last EXCEPT ![a] = t]
        /\ missing' = [missing EXCEPT ![a] = @ \cup ((last[a] + 1)..(t - 1))]
        /\ last' \in [Assets -> 0..MaxClock]
        /\ missing' \in [Assets -> SUBSET Times]
        /\ processed' \in [Assets -> SUBSET Times]
        /\ FeedAccounted'
    BY <1>3, <2>1, Accepting
  <2>3. (last[a] + 1)..(t - 1) \subseteq lost[a]
    BY <1>3, <2>1, <2>2
  <2>4. GapsAreOutages'
    BY <1>1, <2>2, <2>3
  <2>5. Socket'
    <3>1. \A b \in Assets : \A u \in wire'[b] : last'[b] < u /\ u <= clock'
      BY <1>1, <1>3, <2>2
    <3>2. \A b \in Assets : \A u \in Times :
             last'[b] < u /\ u <= clock' => u \in lost'[b] \cup wire'[b]
      BY <1>1, <1>3, <2>2
    <3>. QED
      BY <1>1, <3>1, <3>2
  <2>6. TypeOK'
    BY <1>1, <1>3, <2>2
  <2>7. Reconciliation' /\ CaughtUp'
    BY <1>1
  <2>8. Behind'
    BY <1>1, <2>1, <2>2
  <2>. QED
    BY <2>2, <2>4, <2>5, <2>6, <2>7, <2>8
<1>. QED
  BY <1>2, <1>3 DEF Receive, ReadClosed

\* A candle that the reconciliation fetched; it skips nothing of the window.
LEMMA YieldStep ==
    ASSUME IInv, Yield
    PROVE  IInv' /\ FillsItsWindow
<1>. USE DEF IInv, TypeOK, Socket, Reconciliation, Behind, GapsAreOutages, CaughtUp
<1>1. UNCHANGED <<clock, phase, wire, asked, reconnects, deaths, lost>>
      /\ phase = "drain" /\ wire = Silent
  BY DEF Yield
<1>2. PICK c \in queue : IsNext(c) /\ queue' = queue \ {c}
                         /\ Offer(c.asset, c.time, "closed")
  BY DEF Yield
<1>3. /\ c.asset \in Assets /\ c.time \in Times /\ c.time <= clock /\ c.time <= asked
      /\ c = [asset |-> c.asset, time |-> c.time]
      /\ \A d \in queue : c.time <= d.time
  BY <1>2 DEF IsNext
<1>. DEFINE a == c.asset  t == c.time
<1>4. CASE ~Accepts(a, t, "closed")
  <2>1. UNCHANGED buffer /\ t <= last[a]
    BY <1>2, <1>3, <1>4 DEF Offer, Accepts
  <2>2. Reconciliation'
    BY <1>1, <1>2, <1>3, <2>1 DEF buffer
  <2>. QED
    BY <1>1, <1>2, <2>1, <2>2 DEF buffer, FeedAccounted, FillsItsWindow
<1>5. CASE Accepts(a, t, "closed")
  <2>1. /\ last[a] < t
        /\ last' = [last EXCEPT ![a] = t]
        /\ missing' = [missing EXCEPT ![a] = @ \cup ((last[a] + 1)..(t - 1))]
        /\ last' \in [Assets -> 0..MaxClock]
        /\ missing' \in [Assets -> SUBSET Times]
        /\ processed' \in [Assets -> SUBSET Times]
        /\ FeedAccounted'
    BY <1>2, <1>3, <1>5, Accepting
  <2>2. (last[a] + 1)..(t - 1) \subseteq lost[a]
    BY <1>1, <1>3, <2>1 DEF Silent
  <2>3. (last[a] + 1)..(t - 1) \subseteq 1..(asked - 2)
    <3>. SUFFICES ASSUME NEW u \in (last[a] + 1)..(t - 1)
                  PROVE  u \in 1..(asked - 2)
      OBVIOUS
    <3>1. u \in Times /\ last[a] < u /\ u < t
      BY <1>3
    <3>2. u \notin {asked - 1, asked}
      <4>. SUFFICES ASSUME u \in {asked - 1, asked} PROVE FALSE
        OBVIOUS
      <4>1. [asset |-> a, time |-> u] \in queue
        BY <1>1, <1>3, <3>1
      <4>. QED
        BY <1>3, <3>1, <4>1
    <3>. QED
      BY <1>3, <3>1, <3>2
  <2>4. FillsItsWindow
    BY <2>1, <2>3 DEF FillsItsWindow
  <2>5. GapsAreOutages'
    BY <1>1, <2>1, <2>2
  <2>6. Socket'
    BY <1>1, <2>1 DEF Silent
  <2>7. Reconciliation'
    <3>1. \A b \in Assets : \A u \in Times :
             u \in {asked - 1, asked} /\ last'[b] < u
                => [asset |-> b, time |-> u] \in queue'
      <4>. SUFFICES ASSUME NEW b \in Assets, NEW u \in Times,
                           u \in {asked - 1, asked}, last'[b] < u
                    PROVE  [asset |-> b, time |-> u] \in queue'
        OBVIOUS
      <4>1. last[b] < u /\ (b = a => t < u)
        BY <1>3, <2>1
      <4>2. [asset |-> b, time |-> u] \in queue
        BY <1>1, <1>3, <4>1
      <4>3. [asset |-> b, time |-> u] # c
        BY <1>3, <4>1
      <4>. QED
        BY <1>2, <4>2, <4>3
    <3>. QED
      BY <1>1, <1>2, <3>1
  <2>8. TypeOK' /\ CaughtUp'
    BY <1>1, <1>2, <2>1
  <2>9. Behind'
    BY <1>1, <1>3, <2>1
  <2>. QED
    BY <2>1, <2>4, <2>5, <2>6, <2>7, <2>8, <2>9
<1>. QED
  BY <1>4, <1>5

LEMMA StepInv == IInv /\ [Next]_vars => IInv'
<1>. SUFFICES ASSUME IInv, [Next]_vars PROVE IInv'
  OBVIOUS
<1>. USE DEF IInv, TypeOK, Socket, Reconciliation, Behind, GapsAreOutages, CaughtUp,
             FeedAccounted, Silent
<1>1. CASE CandleCloses
  <2>1. clock' = clock + 1 /\ clock' \in Times
        /\ UNCHANGED <<phase, queue, asked, reconnects, buffer, deaths>>
    BY <1>1 DEF CandleCloses
  <2>2. CASE phase = "open"
    BY <1>1, <2>1, <2>2 DEF CandleCloses, buffer
  <2>3. CASE phase # "open"
    BY <1>1, <2>1, <2>3 DEF CandleCloses, buffer
  <2>. QED
    BY <2>2, <2>3
<1>2. CASE Connect \/ SocketCloses \/ FetchFails \/ Wake \/ Start
  BY <1>2 DEF Connect, SocketCloses, FetchFails, Wake, Start, buffer
<1>3. CASE SocketBreaks \/ Die
  BY <1>3 DEF SocketBreaks, Die, AfterBreak, Unread, buffer
<1>4. CASE Fetch
  <2>1. PICK n \in Windows : queue' = Fetchable(n)
    BY <1>4 DEF Fetch
  <2>2. phase' = "drain" /\ n \in {2, 3}
        /\ UNCHANGED <<clock, wire, asked, reconnects, buffer, deaths, lost>>
    BY <1>4 DEF Fetch, Windows
  <2>3. Reconciliation'
    BY <2>1, <2>2 DEF Fetchable, buffer
  <2>4. TypeOK'
    BY <1>4, <2>1, <2>2 DEF Fetchable, buffer, Fetch
  <2>. QED
    BY <1>4, <2>2, <2>3, <2>4 DEF buffer, Fetch
<1>5. CASE Drained
  BY <1>5 DEF Drained, buffer
<1>6. CASE UNCHANGED vars
  BY <1>6 DEF vars, buffer
<1>. QED
  BY <1>1, <1>2, <1>3, <1>4, <1>5, <1>6, ReceiveStep, YieldStep DEF Next

LEMMA Invariance == Spec => []IInv
  BY InitInv, StepInv, PTL DEF Spec

\* The variables keep their types.
THEOREM TypeCorrect == Spec => []TypeOK
  BY Invariance, PTL DEF IInv

\* Every candle up to the latest processed one is processed or on record as
\* missing.
THEOREM Accounted == Spec => []FeedAccounted
  BY Invariance, PTL DEF IInv

\* The daemon never skips a candle it could have read from the socket.
THEOREM Outages == Spec => []GapsAreOutages
  BY Invariance, PTL DEF IInv

\* A reconciliation brings every asset up to the moment it asked.
THEOREM CatchesUp == Spec => []CaughtUp
  BY Invariance, PTL DEF IInv

\* No candle in progress is ever processed.
THEOREM OnlyClosed == Spec => []OnlyClosedCandles
<1>1. IInv => OnlyClosedCandles
  BY DEF IInv, TypeOK, Behind, FeedAccounted, OnlyClosedCandles
<1>. QED
  BY Invariance, <1>1, PTL

\* Yielding a reconciliation leaves no hole in its window.
THEOREM FillsWindow == Spec => ReconcileFillsWindow
<1>1. IInv /\ [Next]_vars => [FillsItsWindow]_vars
  <2>. SUFFICES ASSUME IInv, Next PROVE FillsItsWindow
    OBVIOUS
  <2>1. CASE Yield
    BY <2>1, YieldStep
  <2>2. CASE ~Yield /\ phase = "drain"
    <3>1. UNCHANGED missing
      BY <2>2 DEF Next, CandleCloses, Connect, SocketCloses, SocketBreaks, Receive,
                  Fetch, FetchFails, Drained, Wake, Die, Start, buffer
    <3>. QED
      BY <3>1 DEF FillsItsWindow
  <2>3. CASE phase # "drain"
    BY <2>3 DEF FillsItsWindow
  <2>. QED
    BY <2>1, <2>2, <2>3
<1>. QED
  BY Invariance, <1>1, PTL DEF Spec, ReconcileFillsWindow
=============================================================================
