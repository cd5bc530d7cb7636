---------------------------- MODULE CandleStream ----------------------------
(***************************************************************************)
(* How closed candles reach the paper daemon: the combined socket of       *)
(* BinanceClosedCandleProvider, the reconnect loop of                      *)
(* ResilientCandleStream.events(), the REST reconciliation of              *)
(* _paper_run_async() and the ClosedCandleBuffer that filters what they    *)
(* yield.  phase is where events() stands:                                 *)
(*                                                                         *)
(*   connect -> open -> reconcile -> drain -> sleep -> connect             *)
(*                 \--> connect   (the server closed the socket in order)  *)
(*                                                                         *)
(* Data.  All pairs share the timeframe: candle t of every asset closes    *)
(* when the clock reaches t.  Candle 0 is the last one of the warmup, so   *)
(* the buffer always has a predecessor.  The length of the backoff is left *)
(* out: a sleep may last any number of candles.  A restart rebuilds the    *)
(* buffer from the journal, which changes nothing (GapsKnown of            *)
(* PaperEngine).                                                           *)
(***************************************************************************)
EXTENDS Integers, FiniteSets

CONSTANTS
    Assets,
    MaxClock,   \* bound: candles that close
    MaxBreaks,  \* bound: failed connections and broken sockets of a process
    MaxDeaths   \* bound: ends of the process

ASSUME StreamAssumption ==
    MaxClock \in Nat /\ MaxBreaks \in Nat /\ MaxDeaths \in Nat

Times == 1..MaxClock

VARIABLES
    clock,      \* candles the exchange has closed
    phase,      \* where events() stands; "dead" when no process runs
    wire,       \* per asset, closed candles sent on the open socket, not read
    queue,      \* reconciled candles events() has still to yield
    asked,      \* the clock when reconcile() read datetime.now()
    reconnects, \* ResilientCandleStream.reconnects
    last,       \* ClosedCandleBuffer._last
    missing,    \* ClosedCandleBuffer.missing
    processed,  \* candles that passed the buffer and had their cycle
    deaths,     \* auxiliary: ends of the process
    lost        \* auxiliary: candles no socket will ever deliver

buffer == <<last, missing, processed>>
vars   == <<clock, phase, wire, queue, asked, reconnects, buffer, deaths,
            lost>>

Candle == [asset : Assets, time : Times]
Silent == [a \in Assets |-> {}]

Init ==
    /\ clock = 0
    /\ phase = "connect"
    /\ wire = Silent /\ queue = {} /\ asked = 0
    /\ reconnects = 0
    /\ last = [a \in Assets |-> 0] /\ missing = Silent /\ processed = Silent
    /\ deaths = 0 /\ lost = Silent

-----------------------------------------------------------------------------
(* ClosedCandleBuffer.accept() *)

\* Mutants: klines in progress pass; the very next candle does not.
MutAcceptsOpen(a, t, state)   == t > last[a]
MutAcceptsLater(a, t, state)  == state = "closed" /\ t > last[a] + 1

Accepts(a, t, state) == state = "closed" /\ t > last[a]

\* Mutant: a gap is recorded without its first candle.
MutSkippedShort(a, t) == (last[a] + 2)..(t - 1)

Skipped(a, t) == (last[a] + 1)..(t - 1)

Offer(a, t, state) ==
    IF Accepts(a, t, state)
    THEN /\ last' = [last EXCEPT ![a] = t]
         /\ missing' = [missing EXCEPT ![a] = @ \cup Skipped(a, t)]
         /\ processed' = [processed EXCEPT ![a] = @ \cup {t}]
    ELSE UNCHANGED buffer

-----------------------------------------------------------------------------
(* The exchange and the socket *)

CandleCloses ==
    /\ clock < MaxClock
    /\ clock' = clock + 1
    /\ IF phase = "open"
       THEN wire' = [a \in Assets |-> wire[a] \cup {clock'}] /\ UNCHANGED lost
       ELSE lost' = [a \in Assets |-> lost[a] \cup {clock'}] /\ UNCHANGED wire
    /\ UNCHANGED <<phase, queue, asked, reconnects, buffer, deaths>>

Connect ==
    /\ phase = "connect"
    /\ phase' = "open"
    /\ UNCHANGED <<clock, wire, queue, asked, reconnects, buffer, deaths, lost>>

\* The oldest unread candle of an asset.
ReadClosed(a) ==
    \E t \in wire[a] :
        /\ \A u \in wire[a] : t <= u
        /\ wire' = [wire EXCEPT ![a] = @ \ {t}]
        /\ Offer(a, t, "closed")

\* A kline message of the candle in progress (x = false).
ReadOpen(a) ==
    /\ clock < MaxClock
    /\ Offer(a, clock + 1, "open")
    /\ UNCHANGED wire

Receive(a) ==
    /\ phase = "open"
    /\ ReadClosed(a) \/ ReadOpen(a)
    /\ UNCHANGED <<clock, phase, queue, asked, reconnects, deaths, lost>>

Unread == [a \in Assets |-> lost[a] \cup wire[a]]

\* The server closes the socket in order: what it sent has been read, the
\* iteration of connect() ends without an exception, events() connects again.
SocketCloses ==
    /\ phase = "open"
    /\ wire = Silent
    /\ phase' = "connect"
    /\ UNCHANGED <<clock, wire, queue, asked, reconnects, buffer, deaths, lost>>

\* Mutant: events() sleeps and connects again without reconciling.
MutAfterBreak == "sleep"

\* The except branch of events() starts with reconcile().
AfterBreak == "reconcile"

\* OSError, TimeoutError or ConnectionClosed while connecting or reading.
SocketBreaks ==
    /\ phase \in {"connect", "open"}
    /\ reconnects < MaxBreaks
    /\ reconnects' = reconnects + 1
    /\ phase' = AfterBreak
    /\ asked' = clock
    /\ lost' = Unread /\ wire' = Silent
    /\ UNCHANGED <<clock, queue, buffer, deaths>>

-----------------------------------------------------------------------------
(* Reconciliation *)

\* fetch_bars() from now - 3 * delta to now holds the last three closed
\* candles if now is the very moment a candle opens, otherwise two.
Windows == {2, 3}

\* Mutant: a candle that has just closed is taken for one in progress.
MutFetchable(n) == {c \in Candle : asked - n <= c.time /\ c.time < asked}

Fetchable(n) == {c \in Candle : asked - n < c.time /\ c.time <= asked}

Fetch ==
    /\ phase = "reconcile"
    /\ \E n \in Windows : queue' = Fetchable(n)
    /\ phase' = "drain"
    /\ UNCHANGED <<clock, wire, asked, reconnects, buffer, deaths, lost>>

\* PublicDataError leaves events() and ends the daemon.
FetchFails ==
    /\ phase = "reconcile"
    /\ phase' = "dead"
    /\ UNCHANGED <<clock, wire, queue, asked, reconnects, buffer, deaths, lost>>

\* Mutant: the fetched candles are yielded asset by asset, newest first.
MutIsNext(c) == \A d \in queue : d.time <= c.time

\* sorted(events, key = timestamp)
IsNext(c) == \A d \in queue : c.time <= d.time

Yield ==
    /\ phase = "drain"
    /\ \E c \in queue :
          /\ IsNext(c)
          /\ queue' = queue \ {c}
          /\ Offer(c.asset, c.time, "closed")
    /\ UNCHANGED <<clock, phase, wire, asked, reconnects, deaths, lost>>

Drained ==
    /\ phase = "drain" /\ queue = {}
    /\ phase' = "sleep"
    /\ UNCHANGED <<clock, wire, queue, asked, reconnects, buffer, deaths, lost>>

Wake ==
    /\ phase = "sleep"
    /\ phase' = "connect"
    /\ UNCHANGED <<clock, wire, queue, asked, reconnects, buffer, deaths, lost>>

-----------------------------------------------------------------------------
(* The process ends (SIGTERM, max_events, an exception) and starts again *)

Die ==
    /\ phase # "dead"
    /\ deaths < MaxDeaths
    /\ phase' = "dead"
    /\ lost' = Unread /\ wire' = Silent /\ queue' = {}
    /\ UNCHANGED <<clock, asked, reconnects, buffer, deaths>>

\* The journal is not empty, so there is no warmup and nothing is fetched.
Start ==
    /\ phase = "dead"
    /\ deaths < MaxDeaths
    /\ deaths' = deaths + 1
    /\ phase' = "connect"
    /\ reconnects' = 0
    /\ UNCHANGED <<clock, wire, queue, asked, buffer, lost>>

-----------------------------------------------------------------------------
Next ==
    \/ CandleCloses
    \/ Connect \/ SocketCloses \/ SocketBreaks
    \/ \E a \in Assets : Receive(a)
    \/ Fetch \/ FetchFails \/ Yield \/ Drained \/ Wake
    \/ Die \/ Start

Spec == Init /\ [][Next]_vars

\* The daemon keeps running, what is on the socket is read, a request ends
\* somehow, and the network lets a connection through in the end: a process
\* meets at most MaxBreaks broken ones.
FairSpec ==
    /\ Spec
    /\ WF_vars(Connect)
    /\ WF_vars(Fetch \/ FetchFails)
    /\ WF_vars(Yield \/ Drained)
    /\ WF_vars(Wake)
    /\ \A a \in Assets : WF_vars(phase = "open" /\ ReadClosed(a) /\ Receive(a))

-----------------------------------------------------------------------------
TypeOK ==
    /\ clock \in 0..MaxClock
    /\ phase \in {"connect", "open", "reconcile", "drain", "sleep", "dead"}
    /\ wire \in [Assets -> SUBSET Times]
    /\ queue \in SUBSET Candle
    /\ asked \in 0..MaxClock
    /\ reconnects \in 0..MaxBreaks
    /\ last \in [Assets -> 0..MaxClock]
    /\ missing \in [Assets -> SUBSET Times]
    /\ processed \in [Assets -> SUBSET Times]
    /\ deaths \in 0..MaxDeaths
    /\ lost \in [Assets -> SUBSET Times]

\* Whatever the network does, every candle up to the latest one processed was
\* either processed or is on record as missing, never both.
FeedAccounted ==
    \A a \in Assets :
        /\ processed[a] \cup missing[a] = 1..last[a]
        /\ processed[a] \cap missing[a] = {}

\* A candle in progress is never processed, from the socket or from REST.
OnlyClosedCandles == \A a \in Assets : \A t \in processed[a] : t <= clock

\* The daemon skips only candles that closed while it was not connected, or
\* that were lost with a broken socket; never one it could have read.
GapsAreOutages == \A a \in Assets : missing[a] \subseteq lost[a]

\* What a reconciliation yields skips nothing in the two candles it is sure
\* to fetch.
FillsItsWindow ==
    phase = "drain" =>
        \A a \in Assets : missing'[a] \ missing[a] \subseteq 1..(asked - 2)

ReconcileFillsWindow == [][FillsItsWindow]_vars

\* After a reconciliation the daemon has seen every asset up to the moment it
\* asked.
CaughtUp == phase = "sleep" => \A a \in Assets : last[a] >= asked

\* A candle sent on the socket is processed or recorded as missing, whatever
\* becomes of the socket, unless the process ends.
HeardIsSettled ==
    \A a \in Assets : \A t \in Times :
        t \in wire[a] ~> (t \in processed[a] \cup missing[a] \/ phase = "dead")

-----------------------------------------------------------------------------
(* What the documentation says and the code does not do *)

\* PAPER_TRADING.md: "Missing candles are recorded and must be reconciled from
\* REST before inference": no candle is processed past an open gap.
NoInferencePastGap ==
    [][\A a \in Assets : processed'[a] # processed[a] => missing'[a] = {}]_vars
=============================================================================
