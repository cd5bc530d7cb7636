---------------------------- MODULE PaperEngine ----------------------------
(***************************************************************************)
(* The paper trading daemon (paper/engine.py, PaperTradingEngine) and the  *)
(* SQLite store it recovers from (paper/persistence.py, PaperStore).       *)
(*                                                                         *)
(* One cycle of process() runs per accepted closed candle.  It is cut here *)
(* at every write the engine later depends on, because append() and        *)
(* set_state() commit one by one: the process may die between any two of   *)
(* them.  pc names what the cycle does next:                               *)
(*                                                                         *)
(*   idle -> execute -> fill -> decide -> record -> persist -> idle        *)
(*                                                                         *)
(* Data.  A bar is its asset and its index in the timeframe.  Quantities   *)
(* are lots.  cash, realized_pnl, total_fees and turnover are functions of *)
(* the fills applied so far, so `applied' stands for them.  Events that    *)
(* the engine only writes (raw events, features, regimes, predictions,     *)
(* equity points, paper_health) are left out: no transition reads them.    *)
(* The shadow portfolios run at the same commit points on accounts of      *)
(* their own (ShadowBook); of this state they share the fill counter.      *)
(***************************************************************************)
EXTENDS Integers, FiniteSets

CONSTANTS
    Assets,      \* the pairs the daemon trades
    MaxBar,      \* bound: candles 1..MaxBar of each asset exist
    MaxLot,      \* bound: the lots held of an asset
    WarmBars,    \* candles of an asset before the models give a probability
    MaxCrashes,  \* bound: how often the process dies
    MaxShadowCount, \* bound: how far fills of shadows take the counter
    None         \* no order, no candle

ASSUME BoundsAssumption == /\ MaxBar \in Nat
                           /\ MaxLot \in Nat
                           /\ WarmBars \in Nat
                           /\ MaxCrashes \in Nat
                           /\ MaxShadowCount \in Nat

Times == 1..MaxBar
Bar   == [asset : Assets, time : Times]

\* ProposedOrder: client_order_id is derived from the decision (asset, bar)
\* and the side; time is created_at.
Order == [asset : Assets, time : Times, side : {"BUY", "SELL"}, qty : 1..MaxLot]

ASSUME NoneAssumption == None \notin Order \cup Bar

Health  == {"HEALTHY", "DEGRADED", "UNSAFE"}
Circuit == {"CLOSED", "OPEN"}

VARIABLES
    pc,        \* where in a cycle the process is
    bar,       \* the candle being processed
    job,       \* the order being executed and its approved quantity
    last,      \* ClosedCandleBuffer._last: latest accepted candle, 0 for none
    missing,   \* ClosedCandleBuffer.missing: the skipped candles
    health,    \* ExperimentHealth of this cycle
    circuit,   \* OPEN when kill_switch or circuit_state blocks, else CLOSED
    position,  \* PortfolioAccount: lots held of each asset
    applied,   \* PortfolioAccount: the fills applied to it
    pending,   \* per asset, the order that waits for the next candle
    counter,   \* ExecutionSimulator._fill_counter
    closed,    \* journal: closed_bar events
    orders,    \* journal: order events
    risks,     \* journal: risk_decision events
    fills,     \* journal: fill events
    decisions, \* journal: decision events
    snap,      \* the "paper" row of the state table
    started,   \* auxiliary: candles whose cycle began (not those of a warmup)
    crashes    \* auxiliary: how often the process died

cycle    == <<pc, bar, job>>
feed     == <<last, missing, health>>
account  == <<position, applied>>
journal  == <<closed, orders, risks, fills, decisions>>
vars     == <<cycle, feed, circuit, account, pending, counter, journal, snap,
              started, crashes>>

NoJob == [order |-> None, qty |-> 0]

-----------------------------------------------------------------------------
(* ClosedCandleBuffer *)

\* Mutant: the buffer drops repetitions but not candles out of order.
MutAcceptsOutOfOrder(a, t) == t # last[a]

\* accept(): a candle at or before the latest one of its asset is dropped.
Accepts(a, t) == t > last[a]

\* Mutant: off by one at the end of the gap.
MutSkippedShort(l, t) == IF l = 0 THEN {} ELSE (l + 1)..(t - 2)

\* The candles accept() records as missing when t follows the candle l.
Skipped(l, t) == IF l = 0 THEN {} ELSE (l + 1)..(t - 1)

\* Mutant: a restart does not replay the journal into the buffer.
MutLastForgotten(ts) == 0

\* What accept() leaves behind once the closed candles ts of an asset have
\* been replayed through it in the order of their timestamps.
LastOf(ts) == IF ts = {} THEN 0 ELSE CHOOSE t \in ts : \A u \in ts : u <= t
GapsOf(ts) == {t \in Times \ ts : (\E u \in ts : u < t) /\ (\E u \in ts : t < u)}

Accept(a, t) ==
    /\ Accepts(a, t)
    /\ last' = [last EXCEPT ![a] = t]
    /\ missing' = [missing EXCEPT ![a] = @ \cup Skipped(last[a], t)]

-----------------------------------------------------------------------------
(* Start, warmup, restart *)

\* The daemon warms up only while the journal holds no closed candle.
StartPhase == IF \A a \in Assets : closed[a] = {} THEN "warmup" ELSE "idle"

FreshAccount == [position |-> [a \in Assets |-> 0], applied |-> {},
                 pending |-> [a \in Assets |-> None], circuit |-> "CLOSED"]

Init ==
    /\ pc = "warmup" /\ bar = None /\ job = NoJob
    /\ last = [a \in Assets |-> 0]
    /\ missing = [a \in Assets |-> {}]
    /\ health = "HEALTHY"
    /\ circuit = "CLOSED"
    /\ position = FreshAccount.position /\ applied = {}
    /\ pending = FreshAccount.pending
    /\ counter = 0
    /\ closed = [a \in Assets |-> {}]
    /\ orders = {} /\ risks = {} /\ fills = {} /\ decisions = {}
    /\ snap = FreshAccount
    /\ started = {}
    /\ crashes = 0

\* warmup(): the fetched candles, sorted by time, are journaled one by one
\* without a decision.
WarmupBar(a, t) ==
    /\ pc = "warmup"
    /\ \A b \in Assets : last[b] <= t
    /\ Accept(a, t)
    /\ closed' = [closed EXCEPT ![a] = @ \cup {t}]
    /\ UNCHANGED <<cycle, health, circuit, account, pending, counter, orders,
                   risks, fills, decisions, snap, started, crashes>>

WarmupDone ==
    /\ pc = "warmup"
    /\ pc' = "idle"
    /\ UNCHANGED <<bar, job, feed, circuit, account, pending, counter, journal,
                   snap, started, crashes>>

\* The process dies at any point (kill, power, an exception such as
\* AccountingError out of apply_fill, SIGTERM between two cycles) and is
\* started again: __init__ and _restore().  The candles come back from the
\* journal; account, orders and risk state from the snapshot alone.
Restart ==
    /\ crashes < MaxCrashes
    /\ crashes' = crashes + 1
    /\ last' = [a \in Assets |-> LastOf(closed[a])]
    /\ missing' = [a \in Assets |-> GapsOf(closed[a])]
    /\ health' = "HEALTHY"
    /\ position' = snap.position
    /\ applied' = snap.applied
    /\ pending' = snap.pending
    /\ circuit' = snap.circuit
    /\ counter' = 0
    /\ bar' = None /\ job' = NoJob
    /\ pc' = StartPhase
    /\ UNCHANGED <<journal, snap, started>>

\* activate_kill_switch(), or enough record_execution_error() calls: memory
\* only until the next _persist_state().
Block ==
    /\ pc = "idle"
    /\ circuit = "CLOSED"
    /\ circuit' = "OPEN"
    /\ UNCHANGED <<cycle, feed, account, pending, counter, journal, snap,
                   started, crashes>>

-----------------------------------------------------------------------------
(* One cycle of process() *)

\* The signals of health_from_signals() (staleness, reconnects) come from the
\* stream; a recorded gap degrades an otherwise healthy cycle.
Assess(signal) ==
    IF signal = "HEALTHY" /\ \E a \in Assets : missing'[a] # {}
    THEN "DEGRADED" ELSE signal

\* Up to and including the closed_bar append.  A candle that accept() drops
\* changes nothing, and one already decided ends the cycle early.
AcceptBar(a, t) ==
    LET b    == [asset |-> a, time |-> t]
        done == b \in decisions
    IN  /\ pc = "idle"
        /\ Accept(a, t)
        /\ \E signal \in Health : health' = Assess(signal)
        /\ pc' = IF done THEN "idle" ELSE "execute"
        /\ bar' = IF done THEN bar ELSE b
        /\ closed' = IF done THEN closed ELSE [closed EXCEPT ![a] = @ \cup {t}]
        /\ started' = IF done THEN started ELSE started \cup {b}
        /\ UNCHANGED <<job, circuit, account, pending, counter, orders, risks,
                       fills, decisions, snap, crashes>>

\* Mutants: the block is not consulted; a purchase is resized upwards.
MutApprovalsUnblocked(o, held, gate) ==
    IF o.side = "SELL" THEN {o.qty} ELSE 0..o.qty
MutApprovalsOversized(o, held, gate) ==
    IF o.side = "SELL" THEN {o.qty} ELSE IF gate = "OPEN" THEN {0} ELSE 0..(o.qty + 1)

\* IndependentRiskManager.evaluate() with the context the engine passes: the
\* quantities it may approve, 0 for REJECTED.  A reduction passes even when
\* blocked; the limits may cut a purchase down to anything.
Approvals(o, held, gate) ==
    IF o.side = "SELL" THEN IF o.qty <= held THEN {o.qty} ELSE {0}
    ELSE IF gate = "OPEN" THEN {0} ELSE 0..o.qty

\* _execute_pending(): no order waits for this candle.
NothingPending ==
    /\ pc = "execute"
    /\ pending[bar.asset] = None
    /\ pc' = "decide"
    /\ UNCHANGED <<bar, job, feed, circuit, account, pending, counter, journal,
                   snap, started, crashes>>

\* Mutants: the order is read but not removed; every order is removed.
MutPeeked(a)  == pending
MutCleared(a) == [b \in Assets |-> None]

\* pending.pop()
Popped(a) == [pending EXCEPT ![a] = None]

\* _execute_pending(): the order leaves memory and its risk decision, under a
\* random identifier, enters the journal.
EvaluatePending ==
    LET o == pending[bar.asset]
    IN  /\ pc = "execute"
        /\ o # None
        /\ pending' = Popped(bar.asset)
        /\ \E q \in Approvals(o, position[bar.asset], circuit) :
              /\ risks' = risks \cup {[order |-> o, time |-> bar.time, qty |-> q]}
              /\ job' = IF q = 0 THEN NoJob ELSE [order |-> o, qty |-> q]
              /\ pc' = IF q = 0 THEN "decide" ELSE "fill"
        /\ UNCHANGED <<bar, feed, circuit, account, counter, closed, orders,
                       fills, decisions, snap, started, crashes>>

\* append() ignores a fill whose identifier, the simulator's counter and the
\* order, is taken.
Taken(f) == \E g \in fills : f.n = g.n /\ f.order = g.order

\* Mutant: the result of append() is not looked at.
MutBookedAlways(f) == applied \cup {f}

\* apply_fill()
Signed(f) == IF f.order.side = "BUY" THEN f.qty ELSE -f.qty
Booked(f) == IF Taken(f) THEN applied ELSE applied \cup {f}

\* _execute_pending(): the fill is journaled and then applied; one whose
\* identifier is taken ("duplicate_fill") is not applied.
ExecuteFill ==
    LET f == [n |-> counter + 1, order |-> job.order,
              time |-> bar.time, qty |-> job.qty]
    IN  /\ pc = "fill"
        /\ counter' = counter + 1
        /\ fills' = IF Taken(f) THEN fills ELSE fills \cup {f}
        /\ applied' = Booked(f)
        /\ position' = IF Taken(f) THEN position
                       ELSE [position EXCEPT ![f.order.asset] = @ + Signed(f)]
        /\ job' = NoJob
        /\ pc' = "decide"
        /\ UNCHANGED <<bar, feed, circuit, pending, closed, orders, risks,
                       decisions, snap, started, crashes>>

\* The models give a probability once the asset's history is long enough.
Warm == Cardinality(closed[bar.asset]) >= WarmBars

Ordered(side, q) ==
    [asset |-> bar.asset, time |-> bar.time, side |-> side, qty |-> q]

Propose(side, q) ==
    /\ pending' = [pending EXCEPT ![bar.asset] = Ordered(side, q)]
    /\ orders' = orders \cup {Ordered(side, q)}

\* _execute_shadow_pending(): the simulator counts the fills of shadows too.
ShadowsFill == counter' = counter \/ counter' \in (counter + 1)..MaxShadowCount

\* The decision of the ensemble: a purchase needs a health other than UNSAFE,
\* an exit something to sell, and abstaining is always possible (warmup, an
\* edge below the cost, UNSAFE, nothing to sell).
Decide ==
    /\ pc = "decide"
    /\ pc' = "record"
    /\ \/ /\ Warm /\ health # "UNSAFE"
          /\ \E q \in 1..(MaxLot - position[bar.asset]) : Propose("BUY", q)
       \/ /\ Warm /\ position[bar.asset] > 0
          /\ Propose("SELL", position[bar.asset])
       \/ UNCHANGED <<pending, orders>>
    /\ ShadowsFill
    /\ UNCHANGED <<bar, job, feed, circuit, account, closed, risks, fills,
                   decisions, snap, started, crashes>>

RecordDecision ==
    /\ pc = "record"
    /\ decisions' = decisions \cup {bar}
    /\ pc' = "persist"
    /\ UNCHANGED <<bar, job, feed, circuit, account, pending, counter, closed,
                   orders, risks, fills, snap, started, crashes>>

\* Mutant: only the waiting orders reach the snapshot.
MutSavedOrders == [snap EXCEPT !.pending = pending]
\* Mutant: the snapshot is written when the daemon stops, not in each cycle.
MutSavedNever  == snap

Saved == [position |-> position, applied |-> applied,
          pending |-> pending, circuit |-> circuit]

\* _persist_state(): one transaction replaces the whole snapshot.
PersistState ==
    /\ pc = "persist"
    /\ snap' = Saved
    /\ pc' = "idle"
    /\ bar' = None
    /\ UNCHANGED <<job, feed, circuit, account, pending, counter, journal,
                   started, crashes>>

-----------------------------------------------------------------------------
Cycle == NothingPending \/ EvaluatePending \/ ExecuteFill \/ Decide
            \/ RecordDecision \/ PersistState

Next == \/ \E a \in Assets, t \in Times : WarmupBar(a, t) \/ AcceptBar(a, t)
        \/ WarmupDone \/ Block \/ Restart
        \/ Cycle

Spec == Init /\ [][Next]_vars

\* The engine runs its cycle to the end.  The exchange keeps closing candles
\* of every asset and events() yields them in the order of the socket, so none
\* is overtaken by those of another asset for ever.
FairSpec == /\ Spec
            /\ WF_vars(WarmupDone)
            /\ WF_vars(Cycle)
            /\ \A a \in Assets : SF_vars(\E t \in Times : AcceptBar(a, t))

-----------------------------------------------------------------------------
(* Type invariant *)

Fill == [n : Nat \ {0}, order : Order, time : Times, qty : 1..MaxLot]
Risk == [order : Order, time : Times, qty : 0..MaxLot]

Snapshot == [position : [Assets -> 0..MaxLot], applied : SUBSET Fill,
             pending : [Assets -> Order \cup {None}], circuit : Circuit]

\* Every variable has the shape the code gives it; in particular a position
\* is never negative (_reconcile() calls that UNSAFE) and a cycle that has
\* begun knows its candle.
TypeOK ==
    /\ pc \in {"warmup", "idle", "execute", "fill", "decide", "record", "persist"}
    /\ bar \in Bar \cup {None}
    /\ pc \in {"execute", "fill", "decide", "record", "persist"} => bar \in Bar
    /\ job \in [order : Order, qty : 1..MaxLot] \cup {NoJob}
    /\ pc = "fill" <=> job # NoJob
    /\ last \in [Assets -> Times \cup {0}]
    /\ missing \in [Assets -> SUBSET Times]
    /\ health \in Health
    /\ circuit \in Circuit
    /\ position \in [Assets -> 0..MaxLot]
    /\ applied \in SUBSET Fill
    /\ pending \in [Assets -> Order \cup {None}]
    /\ counter \in Nat
    /\ closed \in [Assets -> SUBSET Times]
    /\ orders \in SUBSET Order
    /\ risks \in SUBSET Risk
    /\ fills \in SUBSET Fill
    /\ decisions \in SUBSET Bar
    /\ snap \in Snapshot
    /\ started \in SUBSET Bar
    /\ crashes \in 0..MaxCrashes

-----------------------------------------------------------------------------
(* What holds however often the process dies *)

Waiting(a) == {pending[a], snap.pending[a]} \ {None}

\* An order executes on a candle strictly later than the one it was decided
\* on, and only an order the journal knows executes: no cycle, interrupted or
\* not, trades at a price its decision had already seen.
NextBarExecution ==
    \A f \in fills : f.order \in orders /\ f.order.time < f.time

\* A sale never asks for more than is held, in memory and in the snapshot, so
\* neither the risk manager nor apply_fill() can refuse it for its size: the
\* account and the orders a restart brings back belong together.
SalesCovered ==
    \A a \in Assets :
        /\ pending[a] # None /\ pending[a].side = "SELL"
              => pending[a].qty <= position[a]
        /\ snap.pending[a] # None /\ snap.pending[a].side = "SELL"
              => snap.pending[a].qty <= snap.position[a]

\* The account never holds a fill the journal lacks: a fill is journaled
\* before it is applied and long before it is in a snapshot.
AccountBackedByJournal == applied \cup snap.applied \subseteq fills

\* Every order that waits, in memory or in the snapshot, is in the journal.
WaitingOrdersJournaled == \A a \in Assets : Waiting(a) \subseteq orders

\* Whatever is live or would come back after a death is backed by the journal.
JournalBacksState == AccountBackedByJournal /\ WaitingOrdersJournaled

\* The gaps the buffer knows are exactly the holes in the journaled candles,
\* at every moment and after every restart, and a cycle that sees a hole never
\* calls itself HEALTHY.
GapsKnown ==
    /\ \A a \in Assets : missing[a] = GapsOf(closed[a])
    /\ pc \notin {"warmup", "idle"} /\ health = "HEALTHY"
          => \A a \in Assets : GapsOf(closed[a]) = {}

\* The damage of a crash is bounded: each one costs at most one fill missing
\* from the account, one more execution of an order, and one candle whose
\* decision is never taken.
CrashDamageBounded ==
    /\ Cardinality(fills \ applied) <= crashes
    /\ \A o \in orders : Cardinality({f \in fills : f.order = o}) <= crashes + 1
    /\ pc = "idle" => Cardinality(started \ decisions) <= crashes

\* A candle gets at most one cycle in the life of the journal: whenever the
\* buffer accepts one, its cycle runs and is its first.  The early return of
\* process() for a decided candle is therefore never taken.
CycleIsFirst ==
    last' # last /\ pc = "idle" /\ crashes' = crashes
        => pc' = "execute" /\ bar' \notin started

OneCyclePerCandle == [][CycleIsFirst]_vars

\* Once a snapshot holds the kill switch or an open circuit, no purchase is
\* ever journaled again, whatever dies and restarts.
NewFillsAreSales == \A f \in fills' \ fills : f.order.side = "SELL"

BlockIsDurable == [][snap.circuit = "OPEN" => NewFillsAreSales]_vars

-----------------------------------------------------------------------------
(* What holds as long as the process never dies *)

\* Between two cycles the account holds exactly the journaled fills, the
\* snapshot is the memory (but for a block raised since), no order was
\* executed or evaluated twice, and every candle was decided.
CycleIsAtomic ==
    crashes = 0 =>
        /\ \A f, g \in fills : f.order = g.order => f = g
        /\ \A r, s \in risks : r.order = s.order => r = s
        /\ \A a \in Assets, r \in risks : r.order # pending[a]
        /\ pc = "idle" =>
              /\ applied = fills
              /\ started = decisions
              /\ snap.position = position /\ snap.applied = applied
              /\ snap.pending = pending

\* An order that waits gets its risk decision, approved or not, once a later
\* candle of its asset closes.
PendingEventuallyEvaluated ==
    \A o \in Order :
        (pending[o.asset] = o /\ last[o.asset] < MaxBar)
            ~> (\E r \in risks : r.order = o)

-----------------------------------------------------------------------------
(* The account of PaperLedger: an order taken out of memory for execution is *)
(* outstanding until its fill.                                              *)

Outstanding(a) == IF pc = "fill" /\ bar.asset = a THEN job.order ELSE pending[a]

LedgerEntry(f) == [order |-> f.order, time |-> f.time, qty |-> f.qty]

Ledger == INSTANCE PaperLedger WITH
    Lots   <- 1..MaxLot,
    open   <- [a \in Assets |-> Outstanding(a)],
    held   <- position,
    ledger <- {LedgerEntry(f) : f \in fills},
    placed <- orders

\* As long as the process does not die, the engine implements that account.
LedgerSpec == Ledger!Spec

-----------------------------------------------------------------------------
(* What the documentation says and the code does not do *)

\* ARCHITECTURE.md: "Restart recovery reconciles persisted orders, fills,
\* balances and positions before processing new events": the account holds the
\* journaled fills, and a journaled order waits or was evaluated.
RecoveryReconciles ==
    pc = "idle" =>
        /\ applied = fills
        /\ \A o \in orders : o = pending[o.asset] \/ \E r \in risks : r.order = o
=============================================================================
