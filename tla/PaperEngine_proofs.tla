------------------------ MODULE PaperEngine_proofs ------------------------
(***************************************************************************)
(* Proofs about PaperEngine, for every set of assets and every bound,      *)
(* MaxCrashes included: the theorems hold however often the process dies.  *)
(*                                                                         *)
(* The inductive invariant IInv relates four things the code keeps apart:  *)
(* the candles in the buffer and in the journal, the cycles and their      *)
(* candles, the orders that wait in memory and in the snapshot, and the    *)
(* account together with what those orders may still do to it.             *)
(***************************************************************************)
EXTENDS PaperEngine, FiniteSetTheorems, TLAPS

InCycle == pc \in {"execute", "fill", "decide", "record", "persist"}

-----------------------------------------------------------------------------
(* The inductive invariant *)

\* The buffer's latest candle is the latest one in the journal.
Candles ==
    \A a \in Assets :
        \/ last[a] = 0 /\ closed[a] = {}
        \/ last[a] \in closed[a] /\ \A t \in closed[a] : t <= last[a]

\* A cycle works on the latest candle of its asset; only journaled candles
\* had a cycle and only candles that had a cycle were decided.
Cycles ==
    /\ InCycle => bar.time = last[bar.asset] /\ bar \in started
    /\ decisions \subseteq started
    /\ \A b \in started : b.time \in closed[b.asset]

\* An order waits under its own asset; no order is younger than the latest
\* candle, and until a cycle decides, those of its asset are older than it.
Orders ==
    /\ \A a \in Assets : \A o \in Waiting(a) : o \in orders /\ o.asset = a
    /\ \A o \in orders : o.time <= last[o.asset]
    /\ pc \in {"execute", "fill", "decide"} =>
          \A o \in orders : o.asset = bar.asset => o.time < bar.time
    /\ pc = "fill" => job.order \in orders /\ job.order.asset = bar.asset
    /\ pc \in {"fill", "decide"} => pending[bar.asset] = None
    /\ NextBarExecution

\* What an order of quantity q asks of a holding of h lots is there to have.
Fits(o, q, h) == IF o.side = "SELL" THEN q <= h ELSE h + q <= MaxLot

Stock ==
    /\ \A a \in Assets :
          /\ pending[a] # None => Fits(pending[a], pending[a].qty, position[a])
          /\ snap.pending[a] # None
                => Fits(snap.pending[a], snap.pending[a].qty, snap.position[a])
    /\ pc = "fill" => Fits(job.order, job.qty, position[bar.asset])

\* A block in the snapshot is in memory too, and no purchase approved under
\* it is on its way.
Blocks ==
    /\ snap.circuit = "OPEN" => circuit = "OPEN"
    /\ pc = "fill" /\ snap.circuit = "OPEN" => job.order.side = "SELL"

IInv == TypeOK /\ Candles /\ Cycles /\ Orders /\ Stock /\ Blocks
           /\ GapsKnown /\ AccountBackedByJournal

-----------------------------------------------------------------------------
USE BoundsAssumption, NoneAssumption
USE DEF BoundsAssumption, NoneAssumption, vars, cycle, feed, account, journal

\* What a restart rebuilds from a nonempty set of candles that has a latest
\* one is that candle.
LEMMA LastOfIsLatest ==
    ASSUME NEW ts \in SUBSET Times, NEW m \in ts, \A t \in ts : t <= m
    PROVE  LastOf(ts) = m
<1>1. \A t \in ts : t \in Int
  BY DEF Times
<1>2. \E t \in ts : \A u \in ts : u <= t
  OBVIOUS
<1>3. LastOf(ts) \in ts /\ \A u \in ts : u <= LastOf(ts)
  BY <1>2 DEF LastOf
<1>4. LastOf(ts) <= m /\ m <= LastOf(ts)
  BY <1>3
<1>. QED
  BY <1>1, <1>3, <1>4

\* A restart brings back the buffer's latest candles as they were.
LEMMA RestartKeepsLast ==
    ASSUME TypeOK, Candles, Restart
    PROVE  last' = last
<1>. SUFFICES ASSUME NEW a \in Assets PROVE LastOf(closed[a]) = last[a]
  BY DEF TypeOK, Restart
<1>1. CASE closed[a] = {}
  BY <1>1 DEF Candles, LastOf
<1>2. CASE closed[a] # {}
  <2>1. last[a] \in closed[a] /\ \A t \in closed[a] : t <= last[a]
    BY <1>2 DEF Candles
  <2>2. closed[a] \in SUBSET Times
    BY DEF TypeOK
  <2>. QED
    BY <2>1, <2>2, LastOfIsLatest
<1>. QED
  BY <1>1, <1>2

LEMMA InitInv == Init => IInv
<1>. SUFFICES ASSUME Init PROVE IInv
  OBVIOUS
<1>. USE DEF Init, FreshAccount
<1>1. TypeOK
  <2>1. snap \in Snapshot
    BY DEF Snapshot, Circuit
  <2>2. /\ last \in [Assets -> Times \cup {0}]
        /\ missing \in [Assets -> SUBSET Times] /\ closed = missing
    OBVIOUS
  <2>3. position \in [Assets -> 0..MaxLot] /\ pending \in [Assets -> Order \cup {None}]
    OBVIOUS
  <2>4. job \in [order : Order, qty : 1..MaxLot] \cup {NoJob} /\ (pc = "fill" <=> job # NoJob)
    OBVIOUS
  <2>. QED
    BY <2>1, <2>2, <2>3, <2>4 DEF TypeOK, Health, Circuit
<1>2. Candles /\ Cycles /\ AccountBackedByJournal
  BY DEF Candles, Cycles, InCycle, AccountBackedByJournal
<1>3. Orders
  BY DEF Orders, Waiting, NextBarExecution
<1>4. Stock /\ Blocks /\ GapsKnown
  BY DEF Stock, Blocks, GapsKnown, GapsOf
<1>. QED
  BY <1>1, <1>2, <1>3, <1>4 DEF IInv

-----------------------------------------------------------------------------
(* Every step keeps the types *)

LEMMA TypeStep == IInv /\ [Next]_vars => TypeOK'
<1>. SUFFICES ASSUME IInv, [Next]_vars PROVE TypeOK'
  OBVIOUS
<1>. USE DEF IInv, TypeOK, Circuit
<1>1. ASSUME NEW a \in Assets, NEW t \in Times, WarmupBar(a, t) PROVE TypeOK'
  BY <1>1 DEF WarmupBar, Accept, Skipped, Times
<1>2. CASE WarmupDone
  BY <1>2 DEF WarmupDone
<1>3. CASE Restart
  <2>1. last' \in [Assets -> Times \cup {0}]
    BY <1>3, RestartKeepsLast
  <2>2. missing' \in [Assets -> SUBSET Times]
    BY <1>3 DEF Restart, GapsOf
  <2>. QED
    BY <1>3, <2>1, <2>2 DEF Restart, Snapshot, StartPhase, Health
<1>4. CASE Block
  BY <1>4 DEF Block
<1>5. ASSUME NEW a \in Assets, NEW t \in Times, AcceptBar(a, t) PROVE TypeOK'
  <2>1. [asset |-> a, time |-> t] \in Bar
    BY DEF Bar
  <2>2. last' \in [Assets -> Times \cup {0}] /\ missing' \in [Assets -> SUBSET Times]
    BY <1>5 DEF AcceptBar, Accept, Skipped, Times
  <2>3. health' \in Health
    BY <1>5 DEF AcceptBar, Assess, Health
  <2>. QED
    BY <1>5, <2>1, <2>2, <2>3 DEF AcceptBar
<1>6. CASE NothingPending
  BY <1>6 DEF NothingPending
<1>7. CASE EvaluatePending
  <2>. DEFINE o == pending[bar.asset]
  <2>1. o \in Order /\ bar.asset \in Assets /\ bar.time \in Times /\ o.qty \in 1..MaxLot
    BY <1>7 DEF EvaluatePending, Bar, Order
  <2>2. PICK q \in Approvals(o, position[bar.asset], circuit) :
           /\ risks' = risks \cup {[order |-> o, time |-> bar.time, qty |-> q]}
           /\ job' = IF q = 0 THEN NoJob ELSE [order |-> o, qty |-> q]
           /\ pc' = IF q = 0 THEN "decide" ELSE "fill"
    BY <1>7 DEF EvaluatePending
  <2>3. q \in 0..MaxLot
    BY <2>1, <2>2 DEF Approvals
  <2>. QED
    BY <1>7, <2>1, <2>2, <2>3 DEF EvaluatePending, Popped, Risk, NoJob
<1>8. CASE ExecuteFill
  <2>. DEFINE f == [n |-> counter + 1, order |-> job.order,
                    time |-> bar.time, qty |-> job.qty]
  <2>1. f \in Fill /\ job.order.asset = bar.asset /\ bar.asset \in Assets
    BY <1>8 DEF ExecuteFill, Fill, Bar, Orders, NoJob
  <2>2. Fits(job.order, f.qty, position[bar.asset])
    BY <1>8 DEF ExecuteFill, Stock
  <2>3. position[bar.asset] + Signed(f) \in 0..MaxLot
    BY <2>1, <2>2 DEF Signed, Fits, Fill, Order
  <2>4. position' \in [Assets -> 0..MaxLot]
    BY <1>8, <2>1, <2>3 DEF ExecuteFill
  <2>. QED
    BY <1>8, <2>1, <2>4 DEF ExecuteFill, Booked
<1>9. CASE Decide
  <2>1. bar.asset \in Assets /\ bar.time \in Times
    BY <1>9 DEF Decide, Bar
  <2>2. ASSUME NEW s \in {"BUY", "SELL"}, NEW q \in 1..MaxLot, Propose(s, q)
        PROVE  pending' \in [Assets -> Order \cup {None}] /\ orders' \in SUBSET Order
    BY <2>1, <2>2 DEF Propose, Ordered, Order
  <2>3. pending' \in [Assets -> Order \cup {None}] /\ orders' \in SUBSET Order
    BY <1>9, <2>1, <2>2 DEF Decide
  <2>4. counter' \in Nat
    BY <1>9 DEF Decide, ShadowsFill
  <2>. QED
    BY <1>9, <2>3, <2>4 DEF Decide
<1>10. CASE RecordDecision
  BY <1>10 DEF RecordDecision
<1>11. CASE PersistState
  BY <1>11 DEF PersistState, Saved, Snapshot
<1>12. CASE UNCHANGED vars
  BY <1>12
<1>. QED
  BY <1>1, <1>2, <1>3, <1>4, <1>5, <1>6, <1>7, <1>8, <1>9, <1>10, <1>11, <1>12
     DEF Next, Cycle

-----------------------------------------------------------------------------
(* Every step keeps the other parts of the invariant *)

\* A candle the buffer accepts is later than all it accepted, so no cycle
\* began for it and it is not decided.
LEMMA AcceptedIsNew ==
    ASSUME IInv, NEW a \in Assets, NEW t \in Times, Accepts(a, t)
    PROVE  /\ t \notin closed[a]
           /\ [asset |-> a, time |-> t] \notin started \cup decisions
<1>1. t \notin closed[a]
  BY DEF IInv, TypeOK, Candles, Accepts, Times
<1>. QED
  BY <1>1 DEF IInv, Cycles

LEMMA CandlesStep == IInv /\ [Next]_vars => Candles'
<1>. SUFFICES ASSUME IInv, [Next]_vars PROVE Candles'
  OBVIOUS
<1>. USE DEF IInv, TypeOK, Candles
<1>1. ASSUME NEW a \in Assets, NEW t \in Times, Accept(a, t),
             closed' = [closed EXCEPT ![a] = @ \cup {t}]
      PROVE  Candles'
  BY <1>1 DEF Accept, Accepts, Times
<1>2. ASSUME NEW a \in Assets, NEW t \in Times, WarmupBar(a, t) PROVE Candles'
  BY <1>1, <1>2 DEF WarmupBar
<1>3. ASSUME NEW a \in Assets, NEW t \in Times, AcceptBar(a, t) PROVE Candles'
  BY <1>1, <1>3, AcceptedIsNew DEF AcceptBar, Accept
<1>4. CASE Restart
  BY <1>4, RestartKeepsLast DEF Restart
<1>5. CASE UNCHANGED <<last, closed>>
  BY <1>5
<1>. QED
  BY <1>2, <1>3, <1>4, <1>5
     DEF Next, Cycle, WarmupDone, Block, NothingPending, EvaluatePending,
         ExecuteFill, Decide, RecordDecision, PersistState

\* The gap a candle opens is the part of the hole the journal gets with it.
LEMMA GapOfAccepted ==
    ASSUME IInv, NEW a \in Assets, NEW t \in Times, Accepts(a, t)
    PROVE  GapsOf(closed[a] \cup {t}) = GapsOf(closed[a]) \cup Skipped(last[a], t)
<1>1. closed[a] \in SUBSET Times /\ last[a] \in Int /\ t \in Int /\ t > last[a]
  BY DEF IInv, TypeOK, Accepts, Times
<1>2. CASE last[a] = 0 /\ closed[a] = {}
  BY <1>1, <1>2 DEF GapsOf, Skipped, Times
<1>3. CASE last[a] \in closed[a] /\ \A u \in closed[a] : u <= last[a]
  <2>1. last[a] \in 1..MaxBar /\ t \in 1..MaxBar
    BY <1>1, <1>3 DEF Times
  <2>2. ASSUME NEW g \in Times
        PROVE  g \in GapsOf(closed[a] \cup {t})
                  <=> g \in GapsOf(closed[a]) \/ (last[a] < g /\ g < t)
    BY <1>1, <1>3 DEF GapsOf, Times
  <2>3. Skipped(last[a], t) = {g \in Times : last[a] < g /\ g < t}
    BY <2>1 DEF Skipped, Times
  <2>. QED
    BY <2>2, <2>3 DEF GapsOf
<1>. QED
  BY <1>2, <1>3 DEF IInv, Candles

LEMMA GapsStep == IInv /\ [Next]_vars => GapsKnown'
<1>. SUFFICES ASSUME IInv, [Next]_vars PROVE GapsKnown'
  OBVIOUS
<1>. USE DEF IInv, GapsKnown
<1>1. ASSUME NEW a \in Assets, NEW t \in Times, Accept(a, t),
             closed' = [closed EXCEPT ![a] = @ \cup {t}]
      PROVE  \A b \in Assets : missing'[b] = GapsOf(closed'[b])
  BY <1>1, GapOfAccepted DEF Accept, TypeOK
<1>2. ASSUME NEW a \in Assets, NEW t \in Times, WarmupBar(a, t) PROVE GapsKnown'
  BY <1>1, <1>2 DEF WarmupBar
<1>3. ASSUME NEW a \in Assets, NEW t \in Times, AcceptBar(a, t) PROVE GapsKnown'
  <2>1. \A b \in Assets : missing'[b] = GapsOf(closed'[b])
    BY <1>1, <1>3, AcceptedIsNew DEF AcceptBar, Accept
  <2>2. health' = "HEALTHY" => \A b \in Assets : missing'[b] = {}
    BY <1>3 DEF AcceptBar, Assess
  <2>. QED
    BY <2>1, <2>2
<1>4. CASE Restart
  BY <1>4 DEF Restart, StartPhase
<1>5. CASE WarmupDone \/ Block \/ NothingPending \/ EvaluatePending
  BY <1>5 DEF WarmupDone, Block, NothingPending, EvaluatePending
<1>6. CASE ExecuteFill \/ Decide \/ RecordDecision \/ PersistState
  BY <1>6 DEF ExecuteFill, Decide, RecordDecision, PersistState
<1>7. CASE UNCHANGED vars
  BY <1>7
<1>. QED
  BY <1>2, <1>3, <1>4, <1>5, <1>6, <1>7 DEF Next, Cycle

LEMMA CyclesStep == IInv /\ [Next]_vars => Cycles'
<1>. SUFFICES ASSUME IInv, [Next]_vars PROVE Cycles'
  OBVIOUS
<1>. USE DEF IInv, TypeOK, Cycles, InCycle
<1>1. ASSUME NEW a \in Assets, NEW t \in Times, WarmupBar(a, t) PROVE Cycles'
  BY <1>1 DEF WarmupBar, Accept, Bar
<1>2. ASSUME NEW a \in Assets, NEW t \in Times, AcceptBar(a, t) PROVE Cycles'
  <2>. DEFINE b == [asset |-> a, time |-> t]
  <2>1. /\ pc' = "execute" /\ bar' = b /\ started' = started \cup {b}
        /\ closed' = [closed EXCEPT ![a] = @ \cup {t}]
        /\ last' = [last EXCEPT ![a] = t]
        /\ decisions' = decisions
    BY <1>2, AcceptedIsNew DEF AcceptBar, Accept
  <2>. QED
    BY <2>1 DEF Bar
<1>3. CASE Restart
  BY <1>3 DEF Restart, StartPhase
<1>4. CASE WarmupDone \/ Block
  BY <1>4 DEF WarmupDone, Block
<1>5. CASE NothingPending \/ EvaluatePending \/ ExecuteFill
  BY <1>5 DEF NothingPending, EvaluatePending, ExecuteFill
<1>6. CASE Decide \/ RecordDecision \/ PersistState
  BY <1>6 DEF Decide, RecordDecision, PersistState
<1>7. CASE UNCHANGED vars
  BY <1>7
<1>. QED
  BY <1>1, <1>2, <1>3, <1>4, <1>5, <1>6, <1>7 DEF Next, Cycle

LEMMA BlocksStep == IInv /\ [Next]_vars => Blocks'
<1>. SUFFICES ASSUME IInv, [Next]_vars PROVE Blocks'
  OBVIOUS
<1>. USE DEF IInv, TypeOK, Blocks, Circuit
<1>1. ASSUME NEW a \in Assets, NEW t \in Times, WarmupBar(a, t) \/ AcceptBar(a, t)
      PROVE  Blocks'
  BY <1>1 DEF WarmupBar, AcceptBar
<1>2. CASE Restart
  BY <1>2 DEF Restart, StartPhase
<1>3. CASE WarmupDone \/ Block \/ NothingPending
  BY <1>3 DEF WarmupDone, Block, NothingPending
<1>4. CASE EvaluatePending
  <2>. DEFINE o == pending[bar.asset]
  <2>1. PICK q \in Approvals(o, position[bar.asset], circuit) :
           /\ job' = IF q = 0 THEN NoJob ELSE [order |-> o, qty |-> q]
           /\ pc' = IF q = 0 THEN "decide" ELSE "fill"
    BY <1>4 DEF EvaluatePending
  <2>2. o \in Order
    BY <1>4 DEF EvaluatePending, Bar
  <2>3. circuit = "OPEN" /\ q # 0 => o.side = "SELL"
    BY <2>1, <2>2 DEF Approvals, Order
  <2>. QED
    BY <1>4, <2>1, <2>3 DEF EvaluatePending
<1>5. CASE ExecuteFill \/ Decide \/ RecordDecision
  BY <1>5 DEF ExecuteFill, Decide, RecordDecision
<1>6. CASE PersistState
  BY <1>6 DEF PersistState, Saved
<1>7. CASE UNCHANGED vars
  BY <1>7
<1>. QED
  BY <1>1, <1>2, <1>3, <1>4, <1>5, <1>6, <1>7 DEF Next, Cycle

LEMMA BooksStep == IInv /\ [Next]_vars => AccountBackedByJournal'
<1>. SUFFICES ASSUME IInv, [Next]_vars PROVE AccountBackedByJournal'
  OBVIOUS
<1>. USE DEF IInv, AccountBackedByJournal
<1>1. CASE Restart
  BY <1>1 DEF Restart
<1>2. CASE ExecuteFill
  BY <1>2 DEF ExecuteFill, Booked
<1>3. CASE PersistState
  BY <1>3 DEF PersistState, Saved
<1>4. CASE UNCHANGED <<applied, snap, fills>>
  BY <1>4
<1>. QED
  BY <1>1, <1>2, <1>3, <1>4
     DEF Next, Cycle, WarmupBar, WarmupDone, Block, AcceptBar, NothingPending,
         EvaluatePending, Decide, RecordDecision

\* What Decide may do to the orders: nothing, or place one of this candle.
LEMMA DecideCases ==
    ASSUME IInv, Decide
    PROVE  \/ UNCHANGED <<pending, orders>>
           \/ \E o \in Order :
                 /\ o.asset = bar.asset /\ o.time = bar.time
                 /\ Fits(o, o.qty, position[o.asset])
                 /\ o.side = "SELL" => o.qty = position[o.asset]
                 /\ pending' = [pending EXCEPT ![o.asset] = o]
                 /\ orders' = orders \cup {o}
<1>. USE DEF IInv, TypeOK
<1>1. bar.asset \in Assets /\ bar.time \in Times /\ position[bar.asset] \in 0..MaxLot
  BY DEF Decide, Bar
<1>2. ASSUME NEW s \in {"BUY", "SELL"}, NEW q \in 1..MaxLot, Propose(s, q),
             Fits(Ordered(s, q), q, position[bar.asset]),
             s = "SELL" => q = position[bar.asset]
      PROVE  \E o \in Order :
                 /\ o.asset = bar.asset /\ o.time = bar.time
                 /\ Fits(o, o.qty, position[o.asset])
                 /\ o.side = "SELL" => o.qty = position[o.asset]
                 /\ pending' = [pending EXCEPT ![o.asset] = o]
                 /\ orders' = orders \cup {o}
  <2>1. Ordered(s, q) \in Order
    BY <1>1 DEF Ordered, Order
  <2>. QED
    BY <1>1, <1>2, <2>1 DEF Propose, Ordered
<1>3. ASSUME NEW q \in 1..(MaxLot - position[bar.asset])
      PROVE  q \in 1..MaxLot /\ Fits(Ordered("BUY", q), q, position[bar.asset])
  BY <1>1 DEF Fits, Ordered
<1>4. ASSUME position[bar.asset] > 0
      PROVE  /\ position[bar.asset] \in 1..MaxLot
             /\ Fits(Ordered("SELL", position[bar.asset]), position[bar.asset],
                     position[bar.asset])
  BY <1>1, <1>4 DEF Fits, Ordered
<1>. QED
  BY <1>2, <1>3, <1>4 DEF Decide

LEMMA OrdersStep == IInv /\ [Next]_vars => Orders'
<1>. SUFFICES ASSUME IInv, [Next]_vars PROVE Orders'
  OBVIOUS
<1>. USE DEF IInv, TypeOK, Orders, Waiting, NextBarExecution
<1>1. ASSUME NEW a \in Assets, NEW t \in Times, WarmupBar(a, t) PROVE Orders'
  BY <1>1 DEF WarmupBar, Accept, Accepts, Order, Times
<1>2. ASSUME NEW a \in Assets, NEW t \in Times, AcceptBar(a, t) PROVE Orders'
  <2>1. /\ pc' = "execute" /\ bar' = [asset |-> a, time |-> t]
        /\ last' = [last EXCEPT ![a] = t] /\ last[a] < t
    BY <1>2, AcceptedIsNew DEF AcceptBar, Accept, Accepts, Times
  <2>2. UNCHANGED <<job, pending, orders, fills, snap>>
    BY <1>2 DEF AcceptBar
  <2>. QED
    BY <2>1, <2>2 DEF Order, Times
<1>3. CASE Restart
  BY <1>3, RestartKeepsLast DEF Restart, StartPhase, Snapshot
<1>4. CASE WarmupDone \/ Block \/ NothingPending
  BY <1>4 DEF WarmupDone, Block, NothingPending
<1>5. CASE EvaluatePending
  BY <1>5 DEF EvaluatePending, Popped, Bar, NoJob
<1>6. CASE ExecuteFill
  <2>1. bar.asset \in Assets /\ job.order.time < bar.time
    BY <1>6 DEF ExecuteFill, Bar
  <2>. QED
    BY <1>6, <2>1 DEF ExecuteFill
<1>7. CASE Decide
  <2>1. UNCHANGED <<bar, last, snap, fills, job>> /\ pc' = "record"
    BY <1>7 DEF Decide
  <2>2. CASE UNCHANGED <<pending, orders>>
    BY <2>1, <2>2
  <2>3. ASSUME NEW o \in Order, o.asset = bar.asset, o.time = bar.time,
               pending' = [pending EXCEPT ![o.asset] = o], orders' = orders \cup {o}
        PROVE  Orders'
    <3>1. o.time = last[o.asset]
      BY <1>7, <2>3 DEF Decide, Cycles, InCycle
    <3>. QED
      BY <2>1, <2>3, <3>1 DEF Order, Times
  <2>. QED
    BY <1>7, <2>2, <2>3, DecideCases
<1>8. CASE RecordDecision
  BY <1>8 DEF RecordDecision
<1>9. CASE PersistState
  BY <1>9 DEF PersistState, Saved
<1>10. CASE UNCHANGED vars
  BY <1>10
<1>. QED
  BY <1>1, <1>2, <1>3, <1>4, <1>5, <1>6, <1>7, <1>8, <1>9, <1>10 DEF Next, Cycle

LEMMA StockStep == IInv /\ [Next]_vars => Stock'
<1>. SUFFICES ASSUME IInv, [Next]_vars PROVE Stock'
  OBVIOUS
<1>. USE DEF IInv, TypeOK, Stock
<1>1. ASSUME NEW a \in Assets, NEW t \in Times, WarmupBar(a, t) \/ AcceptBar(a, t)
      PROVE  Stock'
  BY <1>1 DEF WarmupBar, AcceptBar
<1>2. CASE Restart
  BY <1>2 DEF Restart, StartPhase
<1>3. CASE WarmupDone \/ Block \/ NothingPending \/ RecordDecision
  BY <1>3 DEF WarmupDone, Block, NothingPending, RecordDecision
<1>4. CASE EvaluatePending
  <2>. DEFINE o == pending[bar.asset]
  <2>1. PICK q \in Approvals(o, position[bar.asset], circuit) :
           /\ job' = IF q = 0 THEN NoJob ELSE [order |-> o, qty |-> q]
           /\ pc' = IF q = 0 THEN "decide" ELSE "fill"
    BY <1>4 DEF EvaluatePending
  <2>2. /\ o \in Order /\ o.qty \in 1..MaxLot /\ bar.asset \in Assets
        /\ position[bar.asset] \in 0..MaxLot
        /\ Fits(o, o.qty, position[bar.asset])
    BY <1>4 DEF EvaluatePending, Bar, Order
  <2>3. q \in 0..o.qty
    BY <2>1, <2>2 DEF Approvals
  <2>4. Fits(o, q, position[bar.asset])
    BY <2>2, <2>3 DEF Fits
  <2>5. UNCHANGED <<bar, position, snap>> /\ pending' = Popped(bar.asset)
    BY <1>4 DEF EvaluatePending
  <2>. QED
    BY <2>1, <2>2, <2>4, <2>5 DEF Popped
<1>5. CASE ExecuteFill
  <2>1. /\ pc' = "decide" /\ UNCHANGED <<pending, snap>>
        /\ pending[bar.asset] = None /\ job.order.asset = bar.asset
        /\ bar.asset \in Assets
    BY <1>5 DEF ExecuteFill, Orders, Bar
  <2>2. \A a \in Assets \ {bar.asset} : position'[a] = position[a]
    BY <1>5, <2>1 DEF ExecuteFill
  <2>. QED
    BY <2>1, <2>2
<1>6. CASE Decide
  <2>1. UNCHANGED <<position, snap>> /\ pc' = "record"
    BY <1>6 DEF Decide
  <2>. QED
    BY <1>6, <2>1, DecideCases DEF Order
<1>7. CASE PersistState
  BY <1>7 DEF PersistState, Saved
<1>8. CASE UNCHANGED vars
  BY <1>8
<1>. QED
  BY <1>1, <1>2, <1>3, <1>4, <1>5, <1>6, <1>7, <1>8 DEF Next, Cycle

-----------------------------------------------------------------------------
(* The theorems *)

THEOREM Invariance == Spec => []IInv
<1>1. IInv /\ [Next]_vars => IInv'
  BY TypeStep, CandlesStep, CyclesStep, OrdersStep, StockStep, BlocksStep, BooksStep,
     GapsStep DEF IInv
<1>. QED
  BY InitInv, <1>1, PTL DEF Spec

\* The variables of the daemon keep their types; no position is ever negative
\* or beyond what the orders placed for it allow.
THEOREM TypeCorrect == Spec => []TypeOK
<1>1. IInv => TypeOK
  BY DEF IInv
<1>. QED
  BY Invariance, <1>1, PTL

\* No execution on the candle the order was decided on, or on an earlier one,
\* across any number of crashes.
THEOREM NextBar == Spec => []NextBarExecution
<1>1. IInv => NextBarExecution
  BY DEF IInv, Orders
<1>. QED
  BY Invariance, <1>1, PTL

\* A waiting sale is always covered by the holding it came back with.
THEOREM Covered == Spec => []SalesCovered
<1>1. IInv => SalesCovered
  BY DEF IInv, Stock, SalesCovered, Fits
<1>. QED
  BY Invariance, <1>1, PTL

\* The buffer knows every hole of the journal, before and after a restart.
THEOREM Gaps == Spec => []GapsKnown
<1>1. IInv => GapsKnown
  BY DEF IInv
<1>. QED
  BY Invariance, <1>1, PTL

\* A fill is in the journal before it is in any account, an order before it
\* can survive a restart.
THEOREM Backed == Spec => []JournalBacksState
<1>1. IInv => AccountBackedByJournal
  BY DEF IInv
<1>2. IInv => WaitingOrdersJournaled
  BY DEF IInv, Orders, WaitingOrdersJournaled
<1>3. IInv => JournalBacksState
  BY <1>1, <1>2 DEF JournalBacksState
<1>. QED
  BY Invariance, <1>3, PTL

\* The replay of the journal into the buffer is what keeps a candle from a
\* second cycle; the look-up of the decision never has to.
THEOREM OneCycle == Spec => OneCyclePerCandle
<1>1. IInv /\ [Next]_vars => [CycleIsFirst]_vars
  <2>. SUFFICES ASSUME IInv, Next, last' # last, pc = "idle", crashes' = crashes
                PROVE  pc' = "execute" /\ bar' \notin started
    BY DEF CycleIsFirst
  <2>1. ASSUME NEW a \in Assets, NEW t \in Times, AcceptBar(a, t)
        PROVE  pc' = "execute" /\ bar' \notin started
    BY <2>1, AcceptedIsNew DEF AcceptBar, Accept
  <2>2. crashes \in Nat
    BY DEF IInv, TypeOK
  <2>. QED
    BY <2>1, <2>2
       DEF Next, Cycle, WarmupBar, WarmupDone, Block, Restart, NothingPending,
           EvaluatePending, ExecuteFill, Decide, RecordDecision, PersistState
<1>. QED
  BY Invariance, <1>1, PTL DEF Spec, OneCyclePerCandle

\* A block that reached the snapshot stops purchases for good.
THEOREM DurableBlock == Spec => BlockIsDurable
<1>1. IInv /\ [Next]_vars => [snap.circuit = "OPEN" => NewFillsAreSales]_vars
  <2>. SUFFICES ASSUME IInv, Next, snap.circuit = "OPEN" PROVE NewFillsAreSales
    OBVIOUS
  <2>. USE DEF NewFillsAreSales
  <2>1. CASE ExecuteFill
    BY <2>1 DEF ExecuteFill, IInv, Blocks
  <2>2. CASE fills' = fills
    BY <2>2
  <2>. QED
    BY <2>1, <2>2
       DEF Next, Cycle, WarmupBar, WarmupDone, Block, Restart, AcceptBar,
           NothingPending, EvaluatePending, Decide, RecordDecision, PersistState
<1>. QED
  BY Invariance, <1>1, PTL DEF Spec, BlockIsDurable

-----------------------------------------------------------------------------
(* As long as the process does not die every cycle is atomic *)

\* An order is evaluated once and, if at all, executed once, after its
\* evaluation; an order that waits was not evaluated.
Settlement ==
    /\ \A r, s \in risks : r.order = s.order => r = s
    /\ \A f, g \in fills : f.order = g.order => f = g
    /\ \A r \in risks : r.order \in orders /\ r.order # pending[r.order.asset]
    /\ \A f \in fills : \E r \in risks : r.order = f.order
    /\ pc = "fill" =>
          /\ \E r \in risks : r.order = job.order
          /\ \A f \in fills : f.order # job.order
          /\ job.qty <= job.order.qty
          /\ job.order.side = "SELL" => job.qty = job.order.qty

\* The account is the journal, and outside a cycle the snapshot is the memory
\* and every candle that had a cycle is decided.
Agreement ==
    /\ applied = fills
    /\ pc \in {"idle", "warmup"} =>
          /\ snap.position = position /\ snap.applied = applied
          /\ snap.pending = pending
          /\ started = decisions
    /\ InCycle => started = decisions \cup {bar}
    /\ pc = "persist" => bar \in decisions

AInv == crashes = 0 => Settlement /\ Agreement

LEMMA InitAtomic == Init => AInv
  BY DEF Init, FreshAccount, AInv, Settlement, Agreement, InCycle

LEMMA CrashesCount ==
    ASSUME IInv, [Next]_vars
    PROVE  crashes \in Nat /\ crashes' \in {crashes, crashes + 1}
<1>1. crashes \in Nat
  BY DEF IInv, TypeOK
<1>2. CASE Next
  BY <1>1, <1>2 DEF Next, Cycle, WarmupBar, WarmupDone, AcceptBar, Block, Restart,
     NothingPending, EvaluatePending, ExecuteFill, Decide, RecordDecision, PersistState
<1>. QED
  BY <1>1, <1>2

\* What EvaluatePending does, with the approved quantity named.
LEMMA Evaluation ==
    ASSUME IInv, EvaluatePending
    PROVE  \E q \in 0..MaxLot :
              /\ bar \in Bar /\ bar.asset \in Assets
              /\ pending[bar.asset] \in Order /\ pending[bar.asset].asset = bar.asset
              /\ pending[bar.asset] \in orders
              /\ q <= pending[bar.asset].qty
              /\ pending[bar.asset].side = "SELL" => q \in {0, pending[bar.asset].qty}
              /\ risks' = risks \cup
                    {[order |-> pending[bar.asset], time |-> bar.time, qty |-> q]}
              /\ job' = IF q = 0 THEN NoJob ELSE [order |-> pending[bar.asset], qty |-> q]
              /\ pc' = IF q = 0 THEN "decide" ELSE "fill"
              /\ pending' = [pending EXCEPT ![bar.asset] = None]
<1>. USE DEF IInv, TypeOK
<1>. DEFINE o == pending[bar.asset]
<1>1. bar \in Bar /\ bar.asset \in Assets /\ o \in Order /\ o.qty \in 1..MaxLot
  BY DEF EvaluatePending, Bar, Order
<1>2. o \in orders /\ o.asset = bar.asset
  BY <1>1 DEF Orders, Waiting
<1>3. PICK q \in Approvals(o, position[bar.asset], circuit) :
         /\ risks' = risks \cup {[order |-> o, time |-> bar.time, qty |-> q]}
         /\ job' = IF q = 0 THEN NoJob ELSE [order |-> o, qty |-> q]
         /\ pc' = IF q = 0 THEN "decide" ELSE "fill"
  BY DEF EvaluatePending
<1>4. q \in 0..MaxLot /\ q <= o.qty /\ (o.side = "SELL" => q \in {0, o.qty})
  BY <1>1, <1>3 DEF Approvals
<1>5. pending' = [pending EXCEPT ![bar.asset] = None]
  BY DEF EvaluatePending, Popped
<1>. QED
  BY <1>1, <1>2, <1>3, <1>4, <1>5

\* What ExecuteFill does when no fill of its order is journaled yet.
LEMMA Execution ==
    ASSUME IInv, Settlement, ExecuteFill
    PROVE  \E f \in Fill :
              /\ f.order = job.order /\ f.time = bar.time /\ f.qty = job.qty
              /\ fills' = fills \cup {f} /\ applied' = applied \cup {f}
              /\ position' = [position EXCEPT ![bar.asset] = @ + Signed(f)]
<1>. DEFINE f == [n |-> counter + 1, order |-> job.order,
                  time |-> bar.time, qty |-> job.qty]
<1>1. f \in Fill /\ f.order.asset = bar.asset
  BY DEF ExecuteFill, Fill, Bar, IInv, TypeOK, Orders, NoJob
<1>2. ~Taken(f)
  BY DEF Taken, Settlement, ExecuteFill
<1>. QED
  BY <1>1, <1>2 DEF ExecuteFill, Booked

LEMMA SettlementStep ==
    ASSUME IInv, Settlement, Next, crashes' = crashes
    PROVE  Settlement'
<1>. USE DEF Settlement
<1>1. ASSUME NEW a \in Assets, NEW t \in Times, WarmupBar(a, t) \/ AcceptBar(a, t)
      PROVE  Settlement'
  BY <1>1 DEF WarmupBar, AcceptBar
<1>2. CASE WarmupDone \/ Block \/ NothingPending \/ RecordDecision \/ PersistState
  BY <1>2 DEF WarmupDone, Block, NothingPending, RecordDecision, PersistState
<1>3. CASE EvaluatePending
  <2>. DEFINE o == pending[bar.asset]
  <2>1. PICK q \in 0..MaxLot :
              /\ bar \in Bar /\ bar.asset \in Assets
              /\ o \in Order /\ o.asset = bar.asset /\ o \in orders
              /\ q <= o.qty
              /\ o.side = "SELL" => q \in {0, o.qty}
              /\ risks' = risks \cup {[order |-> o, time |-> bar.time, qty |-> q]}
              /\ job' = IF q = 0 THEN NoJob ELSE [order |-> o, qty |-> q]
              /\ pc' = IF q = 0 THEN "decide" ELSE "fill"
              /\ pending' = [pending EXCEPT ![bar.asset] = None]
    BY <1>3, Evaluation
  <2>2. UNCHANGED <<orders, fills>>
    BY <1>3 DEF EvaluatePending
  <2>3. \A r \in risks : r.order # o
    BY <2>1
  <2>4. \A f \in fills : f.order # o
    BY <2>3
  <2>5. pending \in [Assets -> Order \cup {None}] /\ risks \in SUBSET Risk
        /\ orders \in SUBSET Order
    BY DEF IInv, TypeOK
  <2>6. \A r \in risks' : r.order \in orders' /\ r.order # pending'[r.order.asset]
    BY <2>1, <2>2, <2>5 DEF Order, Risk
  <2>7. \A r, s \in risks' : r.order = s.order => r = s
    BY <2>1, <2>3
  <2>8. \A f \in fills' : \E r \in risks' : r.order = f.order
    BY <2>1, <2>2
  <2>9. pc' = "fill" => job' = [order |-> o, qty |-> q] /\ q # 0
    BY <2>1
  <2>9a. [order |-> o, qty |-> q].order = o /\ [order |-> o, qty |-> q].qty = q
    OBVIOUS
  <2>9b. \E r \in risks' : r.order = o
    <3>. DEFINE d == [order |-> o, time |-> bar.time, qty |-> q]
    <3>1. d \in risks' /\ d.order = o
      BY <2>1
    <3>. HIDE DEF d
    <3>. QED
      BY <3>1
  <2>10. pc' = "fill" =>
            /\ \E r \in risks' : r.order = job'.order
            /\ \A f \in fills' : f.order # job'.order
            /\ job'.qty <= job'.order.qty
            /\ job'.order.side = "SELL" => job'.qty = job'.order.qty
    BY <2>1, <2>2, <2>4, <2>9, <2>9a, <2>9b
  <2>. QED
    BY <2>2, <2>6, <2>7, <2>8, <2>10
<1>4. CASE ExecuteFill
  <2>1. PICK f \in Fill : f.order = job.order /\ fills' = fills \cup {f}
    BY <1>4, Execution
  <2>2. UNCHANGED <<risks, orders, pending>> /\ pc' = "decide" /\ pc = "fill"
    BY <1>4 DEF ExecuteFill
  <2>. QED
    BY <2>1, <2>2
<1>5. CASE Decide
  <2>1. UNCHANGED <<risks, fills, bar>> /\ pc = "decide" /\ pc' = "record"
    BY <1>5 DEF Decide
  <2>2. CASE UNCHANGED <<pending, orders>>
    BY <2>1, <2>2
  <2>3. ASSUME NEW o \in Order, o.asset = bar.asset, o.time = bar.time,
               pending' = [pending EXCEPT ![o.asset] = o], orders' = orders \cup {o}
        PROVE  Settlement'
    <3>1. o \notin orders
      BY <2>1, <2>3 DEF IInv, Orders, Order, Times
    <3>2. pending \in [Assets -> Order \cup {None}] /\ orders \in SUBSET Order
      BY DEF IInv, TypeOK
    <3>. QED
      BY <2>1, <2>3, <3>1, <3>2 DEF Order
  <2>. QED
    BY <1>5, <2>2, <2>3, DecideCases
<1>6. ~Restart
  BY CrashesCount DEF Restart
<1>. QED
  BY <1>1, <1>2, <1>3, <1>4, <1>5, <1>6 DEF Next, Cycle

LEMMA AgreementStep ==
    ASSUME IInv, Settlement, Agreement, Next, crashes' = crashes
    PROVE  Agreement'
<1>. USE DEF Agreement, InCycle
<1>1. ASSUME NEW a \in Assets, NEW t \in Times, WarmupBar(a, t) PROVE Agreement'
  BY <1>1 DEF WarmupBar
<1>2. ASSUME NEW a \in Assets, NEW t \in Times, AcceptBar(a, t) PROVE Agreement'
  BY <1>2, AcceptedIsNew DEF AcceptBar, Accept
<1>3. CASE WarmupDone \/ Block \/ NothingPending
  BY <1>3 DEF WarmupDone, Block, NothingPending
<1>4. CASE EvaluatePending
  BY <1>4 DEF EvaluatePending
<1>5. CASE ExecuteFill
  <2>1. PICK f \in Fill : fills' = fills \cup {f} /\ applied' = applied \cup {f}
    BY <1>5, Execution
  <2>2. UNCHANGED <<started, decisions, bar>> /\ pc = "fill" /\ pc' = "decide"
    BY <1>5 DEF ExecuteFill
  <2>. QED
    BY <2>1, <2>2
<1>6. CASE Decide \/ RecordDecision
  BY <1>6 DEF Decide, RecordDecision
<1>7. CASE PersistState
  BY <1>7 DEF PersistState, Saved
<1>8. ~Restart
  BY CrashesCount DEF Restart
<1>. QED
  BY <1>1, <1>2, <1>3, <1>4, <1>5, <1>6, <1>7, <1>8 DEF Next, Cycle

\* Until the first crash, the invariant of the crash-free engine holds.
LEMMA AtomicStep == IInv /\ AInv /\ [Next]_vars => AInv'
<1>. SUFFICES ASSUME IInv, AInv, [Next]_vars, crashes' = 0
              PROVE  Settlement' /\ Agreement'
  BY DEF AInv
<1>1. crashes = 0
  BY CrashesCount
<1>2. CASE Next
  BY <1>1, <1>2, SettlementStep, AgreementStep DEF AInv
<1>3. CASE UNCHANGED vars
  BY <1>1, <1>3 DEF AInv, Settlement, Agreement, InCycle
<1>. QED
  BY <1>2, <1>3

LEMMA AtomicInvariance == Spec => []AInv
  BY InitAtomic, AtomicStep, Invariance, PTL DEF Spec

\* Without a crash the journal, the account and the snapshot agree after every
\* cycle and no order is evaluated or executed twice.
THEOREM Atomic == Spec => []CycleIsAtomic
<1>1. IInv /\ AInv => CycleIsAtomic
  <2>. SUFFICES ASSUME IInv, AInv, crashes = 0, NEW a \in Assets, NEW r \in risks
                PROVE  r.order # pending[a]
    BY DEF CycleIsAtomic, AInv, Settlement, Agreement
  <2>. QED
    BY DEF IInv, TypeOK, Orders, Waiting, AInv, Settlement, Risk, Order
<1>. QED
  BY Invariance, AtomicInvariance, <1>1, PTL

-----------------------------------------------------------------------------
(* What a death can cost *)

FillsOf(o) == {f \in fills : f.order = o}

\* In memory or on its way to the exchange.
IsLive(o) == (\E a \in Assets : pending[a] = o) \/ (pc = "fill" /\ job.order = o)

\* Until the snapshot is written, the fill of this cycle is missing from it.
Unsaved == pc \in {"decide", "record", "persist"}

\* The account lacks a fill per death, and the snapshot that a restart would
\* bring back at most one more.
AccountDamage ==
    /\ IsFiniteSet(fills)
    /\ Cardinality(fills \ applied) <= crashes
    /\ Cardinality(fills \ snap.applied) <= crashes + 1
    /\ ~Unsaved => Cardinality(fills \ snap.applied) <= crashes

\* An order that can still execute has executed once per death at most.
OrderDamage ==
    \A o \in orders : /\ Cardinality(FillsOf(o)) <= crashes + 1
                      /\ IsLive(o) => Cardinality(FillsOf(o)) <= crashes

\* The only undecided candle that no death explains is the one in process.
CandleDamage ==
    /\ IsFiniteSet(started)
    /\ Cardinality((started \ decisions) \ {bar}) <= crashes
    /\ ~InCycle => Cardinality(started \ decisions) <= crashes
    /\ pc \in {"execute", "fill", "decide", "record"} => bar \notin decisions
    /\ pc = "persist" => bar \in decisions

Damage == AccountDamage /\ OrderDamage /\ CandleDamage

\* One more element makes a set at most one larger.
LEMMA GrowsByOne ==
    ASSUME NEW S, IsFiniteSet(S), NEW x, NEW T, T \subseteq S \cup {x}
    PROVE  /\ IsFiniteSet(T) /\ Cardinality(T) \in Nat /\ Cardinality(S) \in Nat
           /\ Cardinality(T) <= Cardinality(S) + 1
<1>1. /\ IsFiniteSet(S \cup {x}) /\ Cardinality(S) \in Nat
      /\ Cardinality(S \cup {x}) \in {Cardinality(S), Cardinality(S) + 1}
  BY FS_AddElement, FS_CardinalityType
<1>2. /\ IsFiniteSet(T) /\ Cardinality(T) \in Nat
      /\ Cardinality(T) <= Cardinality(S \cup {x})
  BY <1>1, FS_Subset, FS_CardinalityType
<1>. QED
  BY <1>1, <1>2

LEMMA Shrinks ==
    ASSUME NEW S, IsFiniteSet(S), NEW T \in SUBSET S
    PROVE  /\ IsFiniteSet(T) /\ Cardinality(T) \in Nat /\ Cardinality(S) \in Nat
           /\ Cardinality(T) <= Cardinality(S)
  BY FS_Subset, FS_CardinalityType

LEMMA InitDamage == Init => Damage
<1>. SUFFICES ASSUME Init PROVE Damage
  OBVIOUS
<1>1. /\ fills \ applied = {} /\ fills \ snap.applied = {}
      /\ started \ decisions = {} /\ (started \ decisions) \ {bar} = {}
      /\ fills = {} /\ started = {} /\ orders = {} /\ crashes = 0 /\ pc = "warmup"
  BY DEF Init, FreshAccount
<1>2. IsFiniteSet({}) /\ Cardinality({}) = 0
  BY FS_EmptySet
<1>. QED
  BY <1>1, <1>2 DEF Damage, AccountDamage, OrderDamage, CandleDamage, Unsaved, InCycle

LEMMA AccountDamageStep ==
    ASSUME IInv, AccountDamage, Next
    PROVE  AccountDamage'
<1>. USE DEF AccountDamage, Unsaved
<1>1. crashes \in Nat
  BY DEF IInv, TypeOK
<1>2. /\ fills \ applied \in SUBSET fills /\ fills \ snap.applied \in SUBSET fills
      /\ IsFiniteSet(fills \ applied) /\ Cardinality(fills \ applied) \in Nat
      /\ IsFiniteSet(fills \ snap.applied) /\ Cardinality(fills \ snap.applied) \in Nat
  BY Shrinks
<1>3. CASE ExecuteFill
  <2>. DEFINE f == [n |-> counter + 1, order |-> job.order,
                    time |-> bar.time, qty |-> job.qty]
  <2>1. /\ pc = "fill" /\ UNCHANGED <<snap, crashes>> /\ pc' = "decide"
        /\ fills' \subseteq fills \cup {f}
        /\ fills' \ applied' \in SUBSET (fills \ applied)
    BY <1>3 DEF ExecuteFill, Booked
  <2>. HIDE DEF f
  <2>2. IsFiniteSet(fills')
    BY <2>1, GrowsByOne
  <2>3. Cardinality(fills' \ applied') <= crashes
    BY <1>1, <1>2, <2>1, Shrinks
  <2>4. fills' \ snap'.applied \subseteq (fills \ snap.applied) \cup {f}
    BY <2>1
  <2>5. Cardinality(fills' \ snap'.applied) <= Cardinality(fills \ snap.applied) + 1
        /\ Cardinality(fills' \ snap'.applied) \in Nat
    BY <1>2, <2>4, GrowsByOne
  <2>. QED
    BY <1>1, <1>2, <2>1, <2>2, <2>3, <2>5
<1>4. CASE PersistState
  <2>1. UNCHANGED <<fills, applied, crashes>> /\ snap'.applied = applied
    BY <1>4 DEF PersistState, Saved
  <2>. QED
    BY <1>1, <1>2, <2>1
<1>5. CASE Restart
  <2>1. /\ crashes' = crashes + 1 /\ fills' = fills /\ snap' = snap
        /\ applied' = snap.applied
    BY <1>5 DEF Restart
  <2>. QED
    BY <1>1, <1>2, <2>1
<1>6. CASE UNCHANGED <<fills, applied, snap, crashes>> /\ (Unsaved => Unsaved')
  BY <1>6
<1>. QED
  BY <1>3, <1>4, <1>5, <1>6
     DEF Next, Cycle, WarmupBar, WarmupDone, AcceptBar, Block,
         NothingPending, EvaluatePending, Decide, RecordDecision

LEMMA OrderDamageStep ==
    ASSUME IInv, AccountDamage, OrderDamage, Next
    PROVE  OrderDamage'
<1>1. crashes \in Nat /\ IsFiniteSet(fills)
  BY DEF IInv, TypeOK, AccountDamage
<1>2. ASSUME NEW o
      PROVE  FillsOf(o) \in SUBSET fills /\ IsFiniteSet(FillsOf(o))
             /\ Cardinality(FillsOf(o)) \in Nat
  <2>1. FillsOf(o) \in SUBSET fills
    BY DEF FillsOf
  <2>. QED
    BY <1>1, <2>1, Shrinks
<1>3. CASE ExecuteFill
  <2>. DEFINE f == [n |-> counter + 1, order |-> job.order,
                    time |-> bar.time, qty |-> job.qty]
  <2>1. /\ pc = "fill" /\ pc' = "decide" /\ UNCHANGED <<orders, pending, crashes>>
        /\ fills' \subseteq fills \cup {f} /\ f.order = job.order
    BY <1>3 DEF ExecuteFill
  <2>. HIDE DEF f
  <2>2. ASSUME NEW o \in orders, o # job.order
        PROVE  /\ Cardinality(FillsOf(o)') <= crashes + 1
               /\ IsLive(o)' => Cardinality(FillsOf(o)') <= crashes
    <3>1. FillsOf(o)' \in SUBSET FillsOf(o)
      BY <2>1, <2>2 DEF FillsOf
    <3>2. Cardinality(FillsOf(o)') <= Cardinality(FillsOf(o)) /\ Cardinality(FillsOf(o)') \in Nat
      BY <1>2, <3>1, Shrinks
    <3>3. IsLive(o)' => IsLive(o)
      BY <2>1 DEF IsLive
    <3>. QED
      BY <1>1, <1>2, <3>2, <3>3 DEF OrderDamage
  <2>3. ASSUME NEW o \in orders, o = job.order
        PROVE  /\ Cardinality(FillsOf(o)') <= crashes + 1
               /\ ~IsLive(o)'
    <3>1. Cardinality(FillsOf(o)) <= crashes
      BY <2>1, <2>3 DEF OrderDamage, IsLive
    <3>2. FillsOf(o)' \subseteq FillsOf(o) \cup {f}
      BY <2>1 DEF FillsOf
    <3>3. Cardinality(FillsOf(o)') <= Cardinality(FillsOf(o)) + 1
          /\ Cardinality(FillsOf(o)') \in Nat
      BY <1>2, <3>2, GrowsByOne
    <3>4. \A a \in Assets : pending[a] # o
      BY <2>1, <2>3 DEF IInv, TypeOK, Orders, Waiting
    <3>. QED
      BY <1>1, <1>2, <2>1, <3>1, <3>3, <3>4 DEF IsLive
  <2>. QED
    BY <2>1, <2>2, <2>3 DEF OrderDamage
<1>4. CASE Restart
  <2>1. crashes' = crashes + 1 /\ UNCHANGED <<fills, orders>>
    BY <1>4 DEF Restart
  <2>2. \A o \in orders : FillsOf(o)' = FillsOf(o)
    BY <2>1 DEF FillsOf
  <2>. QED
    BY <1>1, <1>2, <2>1, <2>2 DEF OrderDamage
<1>5. CASE EvaluatePending
  <2>1. /\ UNCHANGED <<fills, orders, crashes>> /\ pc = "execute"
        /\ bar \in Bar /\ bar.asset \in Assets
        /\ pending' = [pending EXCEPT ![bar.asset] = None]
    BY <1>5, Evaluation DEF EvaluatePending
  <2>2. pc' = "fill" => job'.order = pending[bar.asset]
    BY <1>5 DEF EvaluatePending
  <2>3. ASSUME NEW o \in orders, IsLive(o)' PROVE IsLive(o)
    <3>1. o # None
      BY DEF IInv, TypeOK
    <3>. QED
      BY <2>1, <2>2, <2>3, <3>1 DEF IsLive, IInv, TypeOK
  <2>4. \A o \in orders : FillsOf(o)' = FillsOf(o)
    BY <2>1 DEF FillsOf
  <2>. QED
    BY <2>1, <2>3, <2>4 DEF OrderDamage
<1>6. CASE Decide
  <2>1. UNCHANGED <<fills, crashes, bar>> /\ pc = "decide" /\ pc' = "record"
    BY <1>6 DEF Decide
  <2>2. \A o : FillsOf(o)' = FillsOf(o)
    BY <2>1 DEF FillsOf
  <2>3. CASE UNCHANGED <<pending, orders>>
    BY <2>1, <2>2, <2>3 DEF OrderDamage, IsLive
  <2>4. ASSUME NEW o \in Order, o.asset = bar.asset, o.time = bar.time,
               pending' = [pending EXCEPT ![o.asset] = o], orders' = orders \cup {o}
        PROVE  OrderDamage'
    <3>1. o \notin orders
      BY <2>1, <2>4 DEF IInv, Orders, Order, Times
    <3>2. FillsOf(o) = {}
      BY <3>1 DEF FillsOf, IInv, Orders, NextBarExecution
    <3>3. Cardinality(FillsOf(o)) = 0
      BY <3>2, FS_EmptySet
    <3>4. ASSUME NEW p \in orders, p # o, IsLive(p)'
          PROVE  IsLive(p)
      BY <2>1, <2>4, <3>4 DEF IsLive, IInv, TypeOK
    <3>. QED
      BY <1>1, <2>1, <2>2, <2>4, <3>1, <3>3, <3>4 DEF OrderDamage
  <2>. QED
    BY <1>6, <2>3, <2>4, DecideCases
<1>7. CASE UNCHANGED <<fills, orders, pending, crashes>> /\ pc' # "fill"
  <2>1. \A o : FillsOf(o)' = FillsOf(o)
    BY <1>7 DEF FillsOf
  <2>2. \A o : IsLive(o)' => IsLive(o)
    BY <1>7 DEF IsLive
  <2>. QED
    BY <1>7, <2>1, <2>2 DEF OrderDamage
<1>. QED
  BY <1>3, <1>4, <1>5, <1>6, <1>7
     DEF Next, Cycle, WarmupBar, WarmupDone, AcceptBar, Block,
         NothingPending, RecordDecision, PersistState

LEMMA CandleDamageStep ==
    ASSUME IInv, CandleDamage, Next
    PROVE  CandleDamage'
<1>. USE DEF CandleDamage, InCycle
<1>. DEFINE open == started \ decisions
<1>1. crashes \in Nat
  BY DEF IInv, TypeOK
<1>2. /\ IsFiniteSet(open) /\ Cardinality(open) \in Nat
      /\ IsFiniteSet(open \ {bar}) /\ Cardinality(open \ {bar}) \in Nat
      /\ Cardinality(open) <= Cardinality(open \ {bar}) + 1
  <2>1. open \in SUBSET started /\ open \subseteq (open \ {bar}) \cup {bar}
        /\ open \ {bar} \in SUBSET started
    OBVIOUS
  <2>. QED
    BY <2>1, Shrinks, GrowsByOne
<1>3. ASSUME NEW a \in Assets, NEW t \in Times, AcceptBar(a, t)
      PROVE  CandleDamage'
  <2>. DEFINE b == [asset |-> a, time |-> t]
  <2>1. /\ pc = "idle" /\ pc' = "execute" /\ bar' = b /\ b \notin started
        /\ started' = started \cup {b} /\ UNCHANGED <<decisions, crashes>>
    BY <1>3, AcceptedIsNew DEF AcceptBar, Accept
  <2>2. b \notin decisions
    BY <2>1 DEF IInv, Cycles
  <2>. HIDE DEF b
  <2>3. open' \ {bar'} \in SUBSET open /\ started' \subseteq started \cup {b}
    BY <2>1
  <2>4. Cardinality(open' \ {bar'}) <= Cardinality(open) /\ Cardinality(open' \ {bar'}) \in Nat
    BY <1>2, <2>3, Shrinks
  <2>5. IsFiniteSet(started')
    BY <2>3, GrowsByOne
  <2>. QED
    BY <1>1, <1>2, <2>1, <2>2, <2>4, <2>5
<1>4. CASE RecordDecision
  <2>1. /\ UNCHANGED <<started, bar, crashes>> /\ decisions' = decisions \cup {bar}
        /\ pc' = "persist"
    BY <1>4 DEF RecordDecision
  <2>2. open' \ {bar'} = open \ {bar}
    BY <2>1
  <2>. QED
    BY <2>1, <2>2
<1>5. CASE PersistState
  <2>1. UNCHANGED <<started, decisions, crashes>> /\ pc = "persist" /\ pc' = "idle"
    BY <1>5 DEF PersistState
  <2>2. open = open \ {bar} /\ open' = open /\ open' \ {bar'} \in SUBSET open
    BY <2>1
  <2>3. Cardinality(open' \ {bar'}) <= Cardinality(open) /\ Cardinality(open' \ {bar'}) \in Nat
    BY <1>2, <2>2, Shrinks
  <2>. QED
    BY <1>1, <1>2, <2>1, <2>2, <2>3
<1>6. CASE Restart
  <2>1. /\ UNCHANGED <<started, decisions>> /\ crashes' = crashes + 1
        /\ pc' \in {"warmup", "idle"}
    BY <1>6 DEF Restart, StartPhase
  <2>2. open' = open /\ open' \ {bar'} \in SUBSET open
    BY <2>1
  <2>3. Cardinality(open' \ {bar'}) <= Cardinality(open) /\ Cardinality(open' \ {bar'}) \in Nat
    BY <1>2, <2>2, Shrinks
  <2>. QED
    BY <1>1, <1>2, <2>1, <2>2, <2>3
<1>7. CASE UNCHANGED <<bar, started, decisions, crashes>>
           /\ (InCycle <=> InCycle') /\ pc # "record" /\ pc' # "persist"
           /\ pc # "persist"
  BY <1>7
<1>. QED
  BY <1>3, <1>4, <1>5, <1>6, <1>7
     DEF Next, Cycle, WarmupBar, WarmupDone, Block,
         NothingPending, EvaluatePending, ExecuteFill, Decide

LEMMA DamageStep == IInv /\ Damage /\ [Next]_vars => Damage'
<1>1. ASSUME IInv, Damage, Next PROVE Damage'
  BY <1>1, AccountDamageStep, OrderDamageStep, CandleDamageStep DEF Damage
<1>2. ASSUME Damage, UNCHANGED vars PROVE Damage'
  BY <1>2 DEF Damage, AccountDamage, OrderDamage, CandleDamage, FillsOf, IsLive,
     Unsaved, InCycle
<1>. QED
  BY <1>1, <1>2

\* However often the process dies, each death costs at most a fill missing from
\* the account, one more execution of an order and a candle without decision.
THEOREM DamageBounded == Spec => []CrashDamageBounded
<1>1. Damage => CrashDamageBounded
  <2>. SUFFICES ASSUME Damage PROVE CrashDamageBounded
    OBVIOUS
  <2>1. \A o : {f \in fills : f.order = o} = FillsOf(o)
    BY DEF FillsOf
  <2>. QED
    BY <2>1 DEF Damage, AccountDamage, OrderDamage, CandleDamage, InCycle,
                CrashDamageBounded
<1>. QED
  BY InitDamage, DamageStep, Invariance, <1>1, PTL DEF Spec

-----------------------------------------------------------------------------
(* The engine implements the account of PaperLedger *)

Open    == [a \in Assets |-> Outstanding(a)]
Entries == {LedgerEntry(f) : f \in fills}

LEMMA LedgerInit == Init => Ledger!Init
  BY DEF Init, FreshAccount, Outstanding, Ledger!Init, LedgerEntry

\* A step that leaves the waiting orders, the holdings, the fills and the
\* orders alone, outside a fill, is invisible.
LEMMA LedgerStutter ==
    ASSUME UNCHANGED <<pending, position, fills, orders>>, pc # "fill", pc' # "fill"
    PROVE  UNCHANGED Ledger!ledgerVars
  BY DEF Ledger!ledgerVars, Outstanding

LEMMA LedgerEvaluate ==
    ASSUME IInv, EvaluatePending
    PROVE  [Ledger!Next]_Ledger!ledgerVars
<1>. USE DEF Ledger!ledgerVars
<1>. DEFINE o == pending[bar.asset]
<1>1. PICK q \in 0..MaxLot :
         /\ bar \in Bar /\ bar.asset \in Assets
         /\ o \in Order /\ o.asset = bar.asset /\ o \in orders
         /\ job' = IF q = 0 THEN NoJob ELSE [order |-> o, qty |-> q]
         /\ pc' = IF q = 0 THEN "decide" ELSE "fill"
         /\ pending' = [pending EXCEPT ![bar.asset] = None]
  BY Evaluation
<1>2. UNCHANGED <<bar, position, fills, orders>> /\ pc = "execute" /\ o # None
  BY DEF EvaluatePending
<1>3. pending \in [Assets -> Order \cup {None}]
  BY DEF IInv, TypeOK
<1>4. UNCHANGED Entries
  BY <1>2 DEF Entries
<1>5. Open = pending
  BY <1>2, <1>3 DEF Open, Outstanding
<1>6. CASE q = 0
  <2>1. Open' = [Open EXCEPT ![bar.asset] = None]
    BY <1>1, <1>3, <1>5, <1>6 DEF Open, Outstanding
  <2>2. bar.time \in Times /\ Open[bar.asset].time < bar.time
    BY <1>1, <1>2, <1>5 DEF IInv, Orders, Waiting, Bar, Order, Times
  <2>3. Ledger!Refuse(bar.asset, bar.time)
    BY <1>1, <1>2, <1>4, <1>5, <2>1, <2>2
       DEF Ledger!Refuse, Ledger!Settles, Open, Entries
  <2>. QED
    BY <1>1, <2>2, <2>3 DEF Ledger!Next
<1>7. CASE q # 0
  <2>1. \A a \in Assets : Outstanding(a)' = Outstanding(a)
    BY <1>1, <1>2, <1>3, <1>7 DEF Outstanding
  <2>. QED
    BY <1>2, <1>4, <2>1 DEF Entries
<1>. QED
  BY <1>6, <1>7

LEMMA LedgerExecute ==
    ASSUME IInv, Settlement, ExecuteFill
    PROVE  [Ledger!Next]_Ledger!ledgerVars
<1>. DEFINE o == job.order
<1>1. PICK f \in Fill :
         /\ f.order = o /\ f.time = bar.time /\ f.qty = job.qty
         /\ fills' = fills \cup {f}
         /\ position' = [position EXCEPT ![bar.asset] = @ + Signed(f)]
  BY Execution
<1>2. pc = "fill" /\ pc' = "decide" /\ UNCHANGED <<bar, pending, orders>>
  BY DEF ExecuteFill
<1>3. /\ bar \in Bar /\ bar.asset \in Assets /\ bar.time \in Times
      /\ o \in Order /\ o.asset = bar.asset
      /\ job.qty \in 1..MaxLot /\ job.qty <= o.qty
      /\ o.side = "SELL" => job.qty = o.qty
      /\ o.time < bar.time
      /\ pending[bar.asset] = None
  BY <1>2 DEF IInv, TypeOK, Orders, Settlement, Bar, NoJob, InCycle
<1>4. Open[bar.asset] = o
  BY <1>2, <1>3 DEF Open, Outstanding
<1>5. Open' = [Open EXCEPT ![bar.asset] = None]
  BY <1>2, <1>3 DEF Open, Outstanding
<1>6. Entries' = Entries \cup {[order |-> o, time |-> bar.time, qty |-> job.qty]}
  BY <1>1 DEF Entries, LedgerEntry
<1>7. position' = [position EXCEPT ![bar.asset] =
                      IF o.side = "BUY" THEN @ + job.qty ELSE @ - job.qty]
  BY <1>1, <1>3 DEF Signed, IInv, TypeOK
<1>8. Ledger!Fill(bar.asset, bar.time, job.qty)
  <2>1. Ledger!Settles(bar.asset, bar.time)
    BY <1>2, <1>3, <1>4, <1>5 DEF Ledger!Settles, Open, Order, Times
  <2>2. job.qty \in 1..Open[bar.asset].qty
        /\ (Open[bar.asset].side = "SELL" => job.qty = Open[bar.asset].qty)
    BY <1>3, <1>4 DEF Order
  <2>3. Entries' = Entries \cup
           {[order |-> Open[bar.asset], time |-> bar.time, qty |-> job.qty]}
    BY <1>4, <1>6
  <2>4. position' = [position EXCEPT ![bar.asset] =
                        IF Open[bar.asset].side = "BUY" THEN @ + job.qty
                        ELSE @ - job.qty]
    BY <1>4, <1>7
  <2>. QED
    BY <2>1, <2>2, <2>3, <2>4, Zenon DEF Ledger!Fill, Open, Entries
<1>9. \E a \in Assets, t \in Times : \E q \in 1..MaxLot : Ledger!Fill(a, t, q)
  BY <1>3, <1>8, Zenon
<1>. QED
  BY <1>9 DEF Ledger!Next

LEMMA LedgerDecide ==
    ASSUME IInv, Decide
    PROVE  [Ledger!Next]_Ledger!ledgerVars
<1>1. pc = "decide" /\ pc' = "record" /\ UNCHANGED <<position, fills>>
  BY DEF Decide
<1>2. CASE UNCHANGED <<pending, orders>>
  BY <1>1, <1>2, LedgerStutter
<1>3. ASSUME NEW o \in Order, o.asset = bar.asset, o.time = bar.time,
             o.side = "SELL" => o.qty = position[bar.asset],
             pending' = [pending EXCEPT ![o.asset] = o], orders' = orders \cup {o}
      PROVE  Ledger!Next
  <2>1. o.asset \in Assets /\ pending[o.asset] = None /\ o \notin orders
    BY <1>1, <1>3 DEF IInv, Orders, Order, Times, InCycle
  <2>2. Open[o.asset] = None
    BY <1>1, <2>1 DEF Open, Outstanding
  <2>3. Open' = [Open EXCEPT ![o.asset] = o]
    BY <1>1, <1>3, <2>1 DEF Open, Outstanding, IInv, TypeOK
  <2>4. Ledger!Place(o)
    BY <1>1, <1>3, <2>1, <2>2, <2>3 DEF Ledger!Place, Open
  <2>. QED
    BY <2>4, <1>3 DEF Ledger!Next, Ledger!Order, Order
<1>. QED
  BY <1>2, <1>3, DecideCases

LEMMA LedgerStep ==
    ASSUME IInv, Settlement, [Next]_vars, crashes' = crashes
    PROVE  [Ledger!Next]_Ledger!ledgerVars
<1>1. CASE UNCHANGED vars
  BY <1>1 DEF Ledger!ledgerVars, Outstanding
<1>2. ASSUME NEW a \in Assets, NEW t \in Times, WarmupBar(a, t) \/ AcceptBar(a, t)
      PROVE  UNCHANGED Ledger!ledgerVars
  BY <1>2, LedgerStutter DEF WarmupBar, AcceptBar
<1>3. CASE WarmupDone \/ Block \/ NothingPending \/ RecordDecision \/ PersistState
  BY <1>3, LedgerStutter
     DEF WarmupDone, Block, NothingPending, RecordDecision, PersistState
<1>4. ~Restart
  BY CrashesCount DEF Restart
<1>. QED
  BY <1>1, <1>2, <1>3, <1>4, LedgerEvaluate, LedgerExecute, LedgerDecide
     DEF Next, Cycle

\* With no crash the engine implements PaperLedger: every outstanding order is
\* settled once, on a later candle, and fill, holding and ledger move together.
THEOREM Implements ==
    ASSUME MaxCrashes = 0
    PROVE  Spec => LedgerSpec
<1>1. IInv /\ IInv' /\ AInv /\ [Next]_vars => [Ledger!Next]_Ledger!ledgerVars
  <2>. SUFFICES ASSUME IInv, IInv', AInv, [Next]_vars
                PROVE  [Ledger!Next]_Ledger!ledgerVars
    OBVIOUS
  <2>1. crashes = 0 /\ crashes' = 0
    BY DEF IInv, TypeOK
  <2>. QED
    BY <2>1, LedgerStep DEF AInv
<1>. QED
  BY LedgerInit, Invariance, AtomicInvariance, <1>1, PTL
     DEF Spec, LedgerSpec, Ledger!Spec
=============================================================================
