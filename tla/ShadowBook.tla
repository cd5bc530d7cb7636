----------------------------- MODULE ShadowBook -----------------------------
(***************************************************************************)
(* The shadow portfolios of the paper engine (paper/engine.py).  Every     *)
(* shadow has an account and one waiting order; process() executes it,     *)
(* decides the next and saves all of them in the snapshot of the daemon.   *)
(* A shadow buys only when it is flat and sells the whole holding, so a    *)
(* holding is the fill that opened it; its price is the open of the candle *)
(* of that fill.  The event of a fill is identified by book and order.     *)
(***************************************************************************)
EXTENDS Integers, FiniteSets, FiniteSetsExt

CONSTANTS
    Assets,
    Books,       \* shadow names
    AssetOf,     \* the asset a name ends with, None: the book trades every asset
    KindOf,      \* "model", "baseline" or "hold" (buy-and-hold)
    MaxBar,      \* bound: candles of an asset
    MaxCrashes,  \* bound: deaths of the process
    MaxRefused,  \* bound: purchases that the account cannot pay
    None

ASSUME ShadowAssumption ==
    /\ AssetOf \in [Books -> Assets \cup {None}]
    /\ KindOf \in [Books -> {"model", "baseline", "hold"}]
    /\ MaxBar \in Nat /\ MaxCrashes \in Nat /\ MaxRefused \in Nat

Bars   == 1..MaxBar
Candle == [asset : Assets, at : Bars]
Order  == [asset : Assets, bar : Bars, side : {"BUY", "SELL"}]
Fill   == [book : Books, order : Order, at : Bars]

ASSUME NoneAssumption == None \notin Assets \cup Candle \cup Order \cup Fill

VARIABLES
    phase,    \* where process() stands
    now,      \* the candle in process, or None
    closed,   \* journal: the candles of each asset
    fills,    \* journal: shadow_fill
    slot,     \* shadow_pending: the waiting order of each book, or None
    holding,  \* per book and asset, the fill that opened the position, or None
    snap,     \* the saved slot and holding
    crashes,  \* auxiliary
    refused   \* auxiliary: fills apply_fill() refused, of purchases

vars == <<phase, now, closed, fills, slot, holding, snap, crashes, refused>>

Last(a) == Max({0} \cup closed[a])

Init ==
    /\ phase = "warmup" /\ now = None
    /\ closed = [a \in Assets |-> {}]
    /\ fills = {} /\ refused = {} /\ crashes = 0
    /\ slot = [n \in Books |-> None]
    /\ holding = [n \in Books |-> [a \in Assets |-> None]]
    /\ snap = [slot |-> slot, holding |-> holding]

\* warmup(): candles without a cycle, before the first one.
WarmupBar(a, b) ==
    /\ phase = "warmup" /\ b > Last(a)
    /\ closed' = [closed EXCEPT ![a] = @ \cup {b}]
    /\ UNCHANGED <<phase, now, fills, slot, holding, snap, crashes, refused>>

WarmupDone ==
    /\ phase = "warmup"
    /\ phase' = "idle"
    /\ UNCHANGED <<now, closed, fills, slot, holding, snap, crashes, refused>>

\* process() has accepted and journaled the candle.
AcceptBar(a, b) ==
    /\ phase = "idle" /\ b > Last(a)
    /\ closed' = [closed EXCEPT ![a] = @ \cup {b}]
    /\ now' = [asset |-> a, at |-> b]
    /\ phase' = "settle"
    /\ UNCHANGED <<fills, slot, holding, snap, crashes, refused>>

\* Mutant: the asset of the waiting order is not compared.
MutDue(n) == slot[n] # None

Due(n) == slot[n] # None /\ slot[n].asset = now.asset

\* Mutant: the executed order stays in its slot.
MutPeeked(n) == slot

\* shadow_pending.pop()
Popped(n) == [slot EXCEPT ![n] = None]

\* Mutant: the event is identified by the candle too.
MutJournal(f) == fills \cup {f}

\* append() ignores a second event of the same book and order.
Journal(f) ==
    IF \E g \in fills : g.book = f.book /\ g.order = f.order THEN fills ELSE fills \cup {f}

\* PortfolioAccount.apply_fill() of a whole position
Applied(f) ==
    [holding EXCEPT ![f.book][f.order.asset] = IF f.order.side = "BUY" THEN f ELSE None]

\* A purchase is sized at a close and paid at a later open; a sale needs a
\* position.
Payable(f)   == f.order.side = "SELL" => holding[f.book][f.order.asset] # None
MayRefuse(f) == IF f.order.side = "BUY" THEN Cardinality(refused) < MaxRefused
                                        ELSE ~Payable(f)

\* _execute_shadow_pending(), one book: an AccountingError is passed over.
Settle(n) ==
    LET f == [book |-> n, order |-> slot[n], at |-> now.at]
    IN  /\ phase = "settle" /\ Due(n)
        /\ slot' = Popped(n)
        /\ \/ /\ Payable(f)
              /\ holding' = Applied(f) /\ fills' = Journal(f)
              /\ UNCHANGED refused
           \/ /\ MayRefuse(f)
              /\ refused' = refused \cup {f}
              /\ UNCHANGED <<holding, fills>>
        /\ UNCHANGED <<phase, now, closed, snap, crashes>>

\* What on_bar() or the probability of the model can ask for; anything but
\* LONG of a baseline is an exit, and buy-and-hold is LONG at one candle.
Signals(n) ==
    CASE KindOf[n] = "model"    -> {"buy", "exit", "abstain"}
      [] KindOf[n] = "baseline" -> {"buy", "exit"}
      [] KindOf[n] = "hold"     ->
            {IF Cardinality(closed[now.asset]) = 1 THEN "buy" ELSE "exit"}

\* Mutant: a sale is placed whatever the book holds.
MutWanted(n, action) ==
    LET placed(side) == [asset |-> now.asset, bar |-> now.at, side |-> side]
    IN  CASE action = "buy" /\ holding[n][now.asset] = None -> placed("BUY")
          [] action = "exit"                                -> placed("SELL")
          [] OTHER                                          -> slot[n]

Wanted(n, action) ==
    LET placed(side) == [asset |-> now.asset, bar |-> now.at, side |-> side]
    IN  CASE action = "buy" /\ holding[n][now.asset] = None  -> placed("BUY")
          [] action = "exit" /\ holding[n][now.asset] # None -> placed("SELL")
          [] OTHER                                           -> slot[n]

\* Mutant: every book decides at every candle.
MutTrades(n) == TRUE

Trades(n) == AssetOf[n] \in {None, now.asset}

\* The loop over the shadows: a new order takes the slot of its book.
Decide ==
    /\ phase = "settle" /\ ~\E n \in Books : Due(n)
    /\ \E action \in [Books -> {"buy", "exit", "abstain"}] :
          /\ \A n \in Books : action[n] \in Signals(n)
          /\ slot' = [n \in Books |-> IF Trades(n) THEN Wanted(n, action[n]) ELSE slot[n]]
    /\ phase' = "save"
    /\ UNCHANGED <<now, closed, fills, holding, snap, crashes, refused>>

\* Mutant: the snapshot keeps the waiting orders of the cycle before.
MutSaved == [slot |-> snap.slot, holding |-> holding]

Saved == [slot |-> slot, holding |-> holding]

\* _persist_state()
PersistState ==
    /\ phase = "save"
    /\ snap' = Saved
    /\ phase' = "idle" /\ now' = None
    /\ UNCHANGED <<closed, fills, slot, holding, crashes, refused>>

\* The process dies and _restore() reads the snapshot; a journal without
\* candles is warmed up again.
Restart ==
    /\ crashes < MaxCrashes
    /\ crashes' = crashes + 1
    /\ slot' = snap.slot /\ holding' = snap.holding
    /\ phase' = IF \A a \in Assets : closed[a] = {} THEN "warmup" ELSE "idle"
    /\ now' = None
    /\ UNCHANGED <<closed, fills, snap, refused>>

Next == \/ \E a \in Assets, b \in Bars : WarmupBar(a, b) \/ AcceptBar(a, b)
        \/ WarmupDone
        \/ \E n \in Books : Settle(n)
        \/ Decide
        \/ PersistState
        \/ Restart

Spec == Init /\ [][Next]_vars

-----------------------------------------------------------------------------
States == {<<slot, holding>>, <<snap.slot, snap.holding>>}

\* Types; a book that is bound to an asset never touches another one.
TypeOK ==
    /\ phase \in {"warmup", "idle", "settle", "save"}
    /\ now \in Candle \cup {None}
    /\ closed \in [Assets -> SUBSET Bars]
    /\ fills \subseteq Fill /\ refused \subseteq Fill
    /\ crashes \in 0..MaxCrashes
    /\ \A s \in States :
          /\ s[1] \in [Books -> Order \cup {None}]
          /\ s[2] \in [Books -> [Assets -> Fill \cup {None}]]
          /\ \A n \in Books : AssetOf[n] # None =>
                /\ s[1][n] # None => s[1][n].asset = AssetOf[n]
                /\ \A a \in Assets : s[2][n][a] # None => a = AssetOf[n]

\* A waiting sale has the holding it sells and a waiting purchase meets none,
\* in memory and in the snapshot: no order of a dead process sells twice or
\* doubles a position when it is executed again.
OrdersFitHolding ==
    \A s \in States, n \in Books : s[1][n] # None =>
        (s[1][n].side = "SELL" <=> s[2][n][s[1][n].asset] # None)

\* Orders of a book that a fill of the journal executed and that apply_fill()
\* refused as well: a process journaled the fill and died before the snapshot,
\* and the restored book could not pay for it, or the other way round.
Disputed(n) ==
    {o \in Order : /\ \E f \in fills : f.book = n /\ f.order = o
                   /\ \E f \in refused : f.book = n /\ f.order = o}

\* What a book of one asset holds is what its journaled fills add up to,
\* leaving out the waiting order, which a dead process may have journaled.  A
\* disputed purchase is in the journal, and the book may or may not hold it;
\* without one the two counts are equal.
FillsAddUp(s, n) ==
    LET done(side) == {f \in fills : /\ f.book = n /\ f.order # s[1][n]
                                     /\ f.order.side = side}
        sure == {f \in done("BUY") : f.order \notin Disputed(n)}
        out  == Cardinality(done("SELL"))
                    + Cardinality({a \in Assets : s[2][n][a] # None})
    IN  AssetOf[n] # None =>
            Cardinality(sure) <= out /\ out <= Cardinality(done("BUY"))

\* The journal has the order that opened a position, filled at the candle the
\* account paid for; after a death perhaps at an earlier one.
Opened(s, n, a) ==
    s[2][n][a] # None =>
        \E f \in fills : /\ f.book = n /\ f.order = s[2][n][a].order
                         /\ f.at <= s[2][n][a].at
                         /\ crashes = 0 => f = s[2][n][a]

\* The journal and the books agree, in memory and in the snapshot: every
\* position was opened by a journaled fill, and a book of one asset holds what
\* its fills add up to (append() drops the second event of an order that a
\* restored book fills again), up to the disputed purchases, of which no book
\* has more than the process has died times.
JournalMeetsBook ==
    /\ \A s \in States, n \in Books :
          FillsAddUp(s, n) /\ \A a \in Assets : Opened(s, n, a)
    /\ \A n \in Books : Cardinality(Disputed(n)) <= crashes

\* An order executes after the candle it was decided on, and every candle of
\* its asset in between is one a dead process has begun.  (An execution that
\* append() does not journal again shows in the holding only.)
ExecutesAtNextCandle ==
    \A f \in fills \cup refused :
        /\ f.order.bar < f.at
        /\ Cardinality({b \in closed[f.order.asset] : f.order.bar < b /\ b < f.at}) <= crashes
=============================================================================
