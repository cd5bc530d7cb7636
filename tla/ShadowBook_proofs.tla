------------------------- MODULE ShadowBook_proofs -------------------------
(***************************************************************************)
(* Proofs about the shadow portfolios, for every set of books and assets,  *)
(* every bound and any number of deaths.  The inductive invariant relates  *)
(* the memory of the process, the snapshot it would come back with and the *)
(* journal, at every point of a cycle.                                     *)
(***************************************************************************)
EXTENDS ShadowBook, FiniteSetTheorems, TLAPS

InCycle == phase \in {"settle", "save"}

-----------------------------------------------------------------------------
(* The inductive invariant *)

\* A cycle knows its candle, the latest of its asset; outside a cycle there is
\* none.
Cycle ==
    /\ InCycle => now \in Candle /\ now.at \in closed[now.asset]
    /\ ~InCycle => now = None
    /\ \A a \in Assets : \E m \in {0} \cup closed[a] : \A c \in closed[a] : c <= m
    /\ InCycle => \A c \in closed[now.asset] : c <= now.at

\* The journal has at most one fill of an order in a book; a fill is on a
\* journaled candle after the one of its order.
Journaled ==
    /\ \A f, g \in fills : f.book = g.book /\ f.order = g.order => f = g
    /\ \A f \in fills \cup refused :
          f.order.bar < f.at /\ f.at \in closed[f.order.asset]

\* Outside a cycle memory and snapshot are the same; before the decisions, an
\* order still waits in the snapshot too, and it is older than the candle.
InStep ==
    /\ ~InCycle => slot = snap.slot /\ holding = snap.holding
    /\ phase = "warmup" => \A n \in Books : slot[n] = None
    /\ phase = "settle" => \A n \in Books : slot[n] # None =>
          /\ slot[n] = snap.slot[n]
          /\ Due(n) => slot[n].bar < now.at
    /\ phase = "save" => \A n \in Books : Due(n) => slot[n].bar = now.at
    /\ crashes = 0 => \A f \in fills : slot[f.book] # f.order

\* The candles an order has let pass, apart from the one in process.
Passed(o, bars, candle) ==
    {b \in bars[o.asset] : o.bar < b /\ [asset |-> o.asset, at |-> b] # candle}

\* An order in the slots was decided on a journaled candle, and each candle it
\* let pass is one on which the process died.
Waits(slots) ==
    \A n \in Books : slots[n] # None =>
        /\ slots[n].bar \in closed[slots[n].asset]
        /\ Cardinality(Passed(slots[n], closed, now)) <= crashes

\* The types of the slots and the holdings, in memory or in the snapshot.
Typed(slots, holdings) ==
    /\ slots \in [Books -> Order \cup {None}]
    /\ holdings \in [Books -> [Assets -> Fill \cup {None}]]
    /\ \A n \in Books : AssetOf[n] # None =>
          /\ slots[n] # None => slots[n].asset = AssetOf[n]
          /\ \A a \in Assets : holdings[n][a] # None => a = AssetOf[n]

\* A waiting sale has a holding, a waiting purchase none.
Fit(slots, holdings) ==
    \A n \in Books : slots[n] # None =>
        (slots[n].side = "SELL" <=> holdings[n][slots[n].asset] # None)

IInv == /\ TypeOK /\ Cycle /\ Journaled /\ InStep
        /\ Fit(slot, holding) /\ Fit(snap.slot, snap.holding)
        /\ Waits(slot) /\ Waits(snap.slot)

-----------------------------------------------------------------------------
USE ShadowAssumption, NoneAssumption DEF ShadowAssumption, NoneAssumption

LEMMA BothTyped == TypeOK => Typed(slot, holding) /\ Typed(snap.slot, snap.holding)
  BY DEF TypeOK, States, Typed

LEMMA InitInv == Init => IInv
<1>. SUFFICES ASSUME Init PROVE IInv
  OBVIOUS
<1>. USE DEF Init
<1>1. TypeOK
  BY DEF TypeOK, States
<1>2. Cycle
  BY DEF Cycle, InCycle
<1>3. Journaled /\ InStep
  BY DEF Journaled, InStep, InCycle, Due
<1>4. Fit(slot, holding) /\ Fit(snap.slot, snap.holding) /\ Waits(slot) /\ Waits(snap.slot)
  BY DEF Fit, Waits
<1>. QED
  BY <1>1, <1>2, <1>3, <1>4 DEF IInv

\* The guard of a new candle: it is later than every journaled one.
LEMMA LaterThanAll ==
    ASSUME TypeOK, Cycle, NEW a \in Assets, NEW b \in Bars, b > Last(a)
    PROVE  \A c \in closed[a] : c < b
<1>. DEFINE S == {0} \cup closed[a]
<1>1. S \in SUBSET Nat
  BY DEF TypeOK, Bars
<1>2. \E m \in S : \A c \in S : m >= c
  BY <1>1 DEF Cycle
<1>3. Last(a) \in S /\ \A c \in S : Last(a) >= c
  BY <1>2 DEF Last, Max
<1>. QED
  BY <1>1, <1>3 DEF Bars

\* One book executes its order: the account takes the fill and the journal
\* has it, perhaps from an earlier candle, or a purchase is refused.
LEMMA Execution ==
    ASSUME IInv, NEW n \in Books, Settle(n)
    PROVE  \E f \in Fill :
              /\ f.book = n /\ f.order = slot[n] /\ f.at = now.at
              /\ f.order \in Order /\ f.order.asset = now.asset
              /\ slot' = [slot EXCEPT ![n] = None]
              /\ \/ /\ holding' = [holding EXCEPT ![n][now.asset] =
                                      IF f.order.side = "BUY" THEN f ELSE None]
                    /\ fills' = Journal(f) /\ refused' = refused
                 \/ /\ f.order.side = "BUY"
                    /\ UNCHANGED <<holding, fills>> /\ refused' = refused \cup {f}
<1>. DEFINE f == [book |-> n, order |-> slot[n], at |-> now.at]
<1>1. now \in Candle /\ Due(n) /\ slot[n] \in Order
  BY BothTyped DEF IInv, Settle, Due, Cycle, InCycle, Typed
<1>2. f \in Fill /\ f.book = n /\ f.order = slot[n] /\ f.at = now.at
      /\ slot[n].asset = now.asset
  BY <1>1 DEF Fill, Candle, Due
<1>3. Payable(f)
  BY <1>1 DEF Payable, IInv, Fit
<1>4. \/ Payable(f) /\ holding' = Applied(f) /\ fills' = Journal(f) /\ refused' = refused
      \/ MayRefuse(f) /\ refused' = refused \cup {f} /\ UNCHANGED <<holding, fills>>
  BY DEF Settle
<1>5. slot' = [slot EXCEPT ![n] = None]
  BY DEF Settle, Popped
<1>6. f.order.side \in {"BUY", "SELL"}
  BY <1>1, <1>2 DEF Order
<1>. HIDE DEF f
<1>7. CASE holding' = Applied(f) /\ fills' = Journal(f) /\ refused' = refused
  BY <1>1, <1>2, <1>5, <1>7 DEF Applied
<1>8. CASE MayRefuse(f) /\ refused' = refused \cup {f} /\ UNCHANGED <<holding, fills>>
  <2>1. f.order.side = "BUY"
    BY <1>3, <1>8 DEF MayRefuse
  <2>. QED
    BY <1>1, <1>2, <1>5, <1>8, <2>1
<1>. QED
  BY <1>4, <1>7, <1>8

\* The slot of a book after the decisions: as before, or an order of this
\* candle that fits the holding; the slot of a bound book was empty then.
LEMMA Decision ==
    ASSUME IInv, Decide, NEW n \in Books
    PROVE  \/ slot'[n] = slot[n]
           \/ /\ slot'[n] \in Order /\ slot'[n].asset = now.asset /\ slot'[n].bar = now.at
              /\ slot'[n].side = "SELL" <=> holding[n][now.asset] # None
              /\ AssetOf[n] # None => AssetOf[n] = now.asset /\ slot[n] = None
<1>1. now \in Candle
  BY DEF IInv, Decide, Cycle, InCycle
<1>2. PICK action : slot' = [m \in Books |-> IF Trades(m) THEN Wanted(m, action[m])
                                                         ELSE slot[m]]
  BY DEF Decide
<1>3. slot'[n] = slot[n] \/ (Trades(n) /\ slot'[n] = Wanted(n, action[n]))
  BY <1>2
<1>4. CASE Trades(n) /\ slot'[n] = Wanted(n, action[n])
  <2>. DEFINE placed(side) == [asset |-> now.asset, bar |-> now.at, side |-> side]
  <2>1. \/ slot'[n] = slot[n]
        \/ slot'[n] = placed("BUY") /\ holding[n][now.asset] = None
        \/ slot'[n] = placed("SELL") /\ holding[n][now.asset] # None
    BY <1>4 DEF Wanted
  <2>2. placed("BUY") \in Order /\ placed("SELL") \in Order
    BY <1>1 DEF Candle, Order
  <2>3. AssetOf[n] # None => AssetOf[n] = now.asset
    BY <1>4 DEF Trades
  <2>4. AssetOf[n] # None => slot[n] = None
    BY <2>3, BothTyped DEF Decide, Due, IInv, Typed
  <2>. QED
    BY <2>1, <2>2, <2>3, <2>4
<1>. QED
  BY <1>3, <1>4

-----------------------------------------------------------------------------
(* Every step keeps the invariant *)

LEMMA TypedSettle ==
    ASSUME IInv, NEW n \in Books, Settle(n)
    PROVE  Typed(slot', holding') /\ fills' \subseteq Fill /\ refused' \subseteq Fill
<1>1. PICK f \in Fill :
              /\ f.book = n /\ f.order = slot[n] /\ f.at = now.at
              /\ f.order \in Order /\ f.order.asset = now.asset
              /\ slot' = [slot EXCEPT ![n] = None]
              /\ \/ /\ holding' = [holding EXCEPT ![n][now.asset] =
                                      IF f.order.side = "BUY" THEN f ELSE None]
                    /\ fills' = Journal(f) /\ refused' = refused
                 \/ /\ f.order.side = "BUY"
                    /\ UNCHANGED <<holding, fills>> /\ refused' = refused \cup {f}
  BY Execution
<1>2. fills' \subseteq Fill /\ refused' \subseteq Fill
  BY <1>1 DEF Journal, IInv, TypeOK
<1>3. Typed(slot, holding)
  BY BothTyped DEF IInv
<1>4. now.asset \in Assets /\ (AssetOf[n] # None => now.asset = AssetOf[n])
  BY <1>1, <1>3 DEF Order, Typed
<1>5. slot' \in [Books -> Order \cup {None}]
  BY <1>1, <1>3 DEF Typed
<1>6. holding' \in [Books -> [Assets -> Fill \cup {None}]]
  BY <1>1, <1>3 DEF Typed
<1>7. ASSUME NEW m \in Books, AssetOf[m] # None
      PROVE  /\ slot'[m] # None => slot'[m].asset = AssetOf[m]
             /\ \A a \in Assets : holding'[m][a] # None => a = AssetOf[m]
  <2>1. slot'[m] # None => slot'[m].asset = AssetOf[m]
    BY <1>1, <1>3, <1>7 DEF Typed
  <2>2. ASSUME NEW a \in Assets, holding'[m][a] # None
        PROVE  a = AssetOf[m]
    BY <1>1, <1>3, <1>4, <1>7, <2>2 DEF Typed
  <2>. QED
    BY <2>1, <2>2
<1>. QED
  BY <1>2, <1>5, <1>6, <1>7 DEF Typed

LEMMA TypedDecide ==
    ASSUME IInv, Decide
    PROVE  Typed(slot', holding)
<1>1. Typed(slot, holding)
  BY BothTyped DEF IInv
<1>2. slot' \in [Books -> Order \cup {None}]
  <2>1. \A n \in Books : slot'[n] \in Order \cup {None}
    BY <1>1, Decision DEF Typed
  <2>2. PICK g : slot' = [n \in Books |-> g[n]]
    BY Zenon DEF Decide
  <2>. QED
    BY <2>1, <2>2
<1>3. \A n \in Books : AssetOf[n] # None /\ slot'[n] # None => slot'[n].asset = AssetOf[n]
  BY <1>1, Decision DEF Typed
<1>. QED
  BY <1>1, <1>2, <1>3 DEF Typed

LEMMA TypeStep == IInv /\ [Next]_vars => TypeOK'
<1>. SUFFICES ASSUME IInv, [Next]_vars PROVE TypeOK'
  OBVIOUS
<1>1. TypeOK /\ Typed(slot, holding) /\ Typed(snap.slot, snap.holding)
  BY BothTyped DEF IInv
<1>2. /\ phase' \in {"warmup", "idle", "settle", "save"}
      /\ now' \in Candle \cup {None} /\ closed' \in [Assets -> SUBSET Bars]
      /\ crashes' \in 0..MaxCrashes
  <2>1. ASSUME NEW a \in Assets, NEW b \in Bars, WarmupBar(a, b) \/ AcceptBar(a, b)
        PROVE  /\ phase' \in {"warmup", "idle", "settle", "save"}
               /\ now' \in Candle \cup {None} /\ closed' \in [Assets -> SUBSET Bars]
               /\ crashes' \in 0..MaxCrashes
    BY <1>1, <2>1 DEF TypeOK, WarmupBar, AcceptBar, Candle
  <2>2. CASE WarmupDone \/ Decide \/ PersistState \/ Restart
    BY <1>1, <2>2 DEF TypeOK, WarmupDone, Decide, PersistState, Restart
  <2>3. CASE UNCHANGED <<phase, now, closed, crashes>>
    BY <1>1, <2>3 DEF TypeOK
  <2>4. (\E n \in Books : Settle(n)) => UNCHANGED <<phase, now, closed, crashes>>
    BY DEF Settle
  <2>. QED
    BY <2>1, <2>2, <2>3, <2>4 DEF Next, vars
<1>3. /\ Typed(slot', holding') /\ Typed(snap'.slot, snap'.holding)
      /\ fills' \subseteq Fill /\ refused' \subseteq Fill
  <2>0. fills \subseteq Fill /\ refused \subseteq Fill
    BY <1>1 DEF TypeOK
  <2>1. CASE \E n \in Books : Settle(n)
    BY <1>1, <2>1, TypedSettle DEF Settle
  <2>2. CASE Decide
    BY <1>1, <2>0, <2>2, TypedDecide DEF Decide
  <2>3. CASE PersistState
    BY <1>1, <2>0, <2>3 DEF PersistState, Saved
  <2>4. CASE Restart
    BY <1>1, <2>0, <2>4 DEF Restart
  <2>5. CASE UNCHANGED <<slot, holding, snap, fills, refused>>
    BY <1>1, <2>0, <2>5
  <2>. QED
    BY <2>1, <2>2, <2>3, <2>4, <2>5
       DEF Next, WarmupBar, WarmupDone, AcceptBar, vars
<1>. QED
  BY <1>2, <1>3 DEF TypeOK, States, Typed

LEMMA CycleStep == IInv /\ [Next]_vars => Cycle'
<1>. SUFFICES ASSUME IInv, [Next]_vars PROVE Cycle'
  OBVIOUS
<1>. USE DEF Cycle, InCycle
<1>1. TypeOK /\ Cycle
  BY DEF IInv
<1>2. ASSUME NEW a \in Assets, NEW b \in Bars, WarmupBar(a, b) \/ AcceptBar(a, b)
      PROVE  Cycle'
  <2>1. \A c \in closed[a] : c < b
    BY <1>1, <1>2, LaterThanAll DEF WarmupBar, AcceptBar
  <2>2. closed' = [closed EXCEPT ![a] = @ \cup {b}] /\ closed \in [Assets -> SUBSET Bars]
    BY <1>1, <1>2 DEF WarmupBar, AcceptBar, TypeOK
  <2>3. b \in closed'[a] /\ \A c \in closed'[a] : c <= b
    BY <2>1, <2>2 DEF Bars
  <2>4. \A x \in Assets : \E m \in {0} \cup closed'[x] : \A c \in closed'[x] : c <= m
    BY <1>1, <2>2, <2>3
  <2>5. CASE WarmupBar(a, b)
    BY <1>1, <2>4, <2>5 DEF WarmupBar
  <2>6. CASE AcceptBar(a, b)
    BY <2>3, <2>4, <2>6 DEF AcceptBar, Candle
  <2>. QED
    BY <1>2, <2>5, <2>6
<1>3. CASE WarmupDone \/ Decide \/ PersistState \/ Restart
  BY <1>1, <1>3 DEF WarmupDone, Decide, PersistState, Restart
<1>4. CASE \E n \in Books : Settle(n)
  BY <1>1, <1>4 DEF Settle
<1>5. CASE UNCHANGED vars
  BY <1>1, <1>5 DEF vars
<1>. QED
  BY <1>2, <1>3, <1>4, <1>5 DEF Next

LEMMA JournaledStep == IInv /\ [Next]_vars => Journaled'
<1>. SUFFICES ASSUME IInv, [Next]_vars PROVE Journaled'
  OBVIOUS
<1>. USE DEF Journaled
<1>1. TypeOK /\ Cycle /\ Journaled /\ InStep
  BY DEF IInv
<1>2. CASE \E n \in Books : Settle(n)
  <2>1. PICK n \in Books : Settle(n)
    BY <1>2
  <2>2. PICK f \in Fill :
              /\ f.book = n /\ f.order = slot[n] /\ f.at = now.at
              /\ f.order \in Order /\ f.order.asset = now.asset
              /\ \/ fills' = Journal(f) /\ refused' = refused
                 \/ UNCHANGED fills /\ refused' = refused \cup {f}
    BY <2>1, Execution
  <2>3. phase = "settle" /\ Due(n) /\ closed' = closed
    BY <2>1 DEF Settle
  <2>4. f.order.bar < f.at /\ f.at \in closed[f.order.asset]
    BY <1>1, <2>2, <2>3 DEF InStep, Cycle, InCycle
  <2>5. fills' \subseteq fills \cup {f} /\ refused' \subseteq refused \cup {f}
    BY <2>2 DEF Journal
  <2>6. \A g, h \in fills' : g.book = h.book /\ g.order = h.order => g = h
    BY <1>1, <2>2 DEF Journal
  <2>. QED
    BY <1>1, <2>3, <2>4, <2>5, <2>6
<1>3. CASE UNCHANGED <<fills, refused>> /\ \A a \in Assets : closed[a] \subseteq closed'[a]
  <2>1. \A g \in fills \cup refused : g.order.asset \in Assets
    BY <1>1 DEF TypeOK, Fill, Order
  <2>. QED
    BY <1>1, <1>3, <2>1
<1>4. ASSUME NEW a \in Assets, NEW b \in Bars, WarmupBar(a, b) \/ AcceptBar(a, b)
      PROVE  UNCHANGED <<fills, refused>> /\ \A x \in Assets : closed[x] \subseteq closed'[x]
  BY <1>1, <1>4 DEF WarmupBar, AcceptBar, TypeOK
<1>. QED
  BY <1>2, <1>3, <1>4 DEF Next, WarmupDone, Decide, PersistState, Restart, vars

LEMMA InStepStep == IInv /\ [Next]_vars => InStep'
<1>. SUFFICES ASSUME IInv, [Next]_vars PROVE InStep'
  OBVIOUS
<1>. USE DEF InStep, InCycle
<1>1. TypeOK /\ Cycle /\ Journaled /\ InStep /\ Typed(slot, holding)
  BY BothTyped DEF IInv
<1>2. ASSUME NEW a \in Assets, NEW b \in Bars, WarmupBar(a, b)
      PROVE  InStep'
  BY <1>1, <1>2 DEF WarmupBar
<1>3. ASSUME NEW a \in Assets, NEW b \in Bars, AcceptBar(a, b)
      PROVE  InStep'
  <2>1. \A c \in closed[a] : c < b
    BY <1>1, <1>3, LaterThanAll DEF AcceptBar
  <2>2. /\ phase = "idle" /\ phase' = "settle"
        /\ now'.asset = a /\ now'.at = b
        /\ UNCHANGED <<slot, snap, fills, crashes>>
    BY <1>3 DEF AcceptBar
  <2>3. ASSUME NEW n \in Books, slot[n] # None, Due(n)'
        PROVE  slot[n].bar < b
    BY <2>1, <2>2, <2>3 DEF Due, IInv, Waits
  <2>. QED
    BY <1>1, <2>2, <2>3
<1>4. CASE \E n \in Books : Settle(n)
  <2>1. PICK n \in Books : Settle(n)
    BY <1>4
  <2>2. PICK f \in Fill :
              /\ f.book = n /\ f.order = slot[n] /\ f.order \in Order
              /\ slot' = [slot EXCEPT ![n] = None]
              /\ fills' = Journal(f) \/ fills' = fills
    BY <2>1, Execution
  <2>3. phase = "settle" /\ UNCHANGED <<phase, now, snap, crashes>>
    BY <2>1 DEF Settle
  <2>4. slot'[n] = None /\ \A m \in Books : m # n => slot'[m] = slot[m]
    BY <1>1, <2>2 DEF Typed
  <2>5. \A m \in Books : slot'[m] # None =>
          slot'[m] = snap'.slot[m] /\ (Due(m)' => slot'[m].bar < now'.at)
    BY <1>1, <2>3, <2>4 DEF Due
  <2>6. ASSUME NEW g \in fills', crashes = 0
        PROVE  slot'[g.book] # g.order
    <3>1. fills' \subseteq fills \cup {f} /\ g \in Fill
      BY <1>1, <2>2 DEF Journal, TypeOK
    <3>2. g.order # None /\ g.book \in Books
      BY <3>1 DEF Fill
    <3>. QED
      BY <1>1, <2>2, <2>4, <2>6, <3>1, <3>2
  <2>. QED
    BY <2>3, <2>5, <2>6
<1>5. CASE Decide
  <2>1. /\ phase = "settle" /\ phase' = "save" /\ \A n \in Books : ~Due(n)
        /\ UNCHANGED <<now, fills, crashes, closed>>
    BY <1>5 DEF Decide
  <2>2. ASSUME NEW n \in Books, Due(n)'
        PROVE  slot'[n].bar = now'.at
    BY <1>5, <2>1, <2>2, Decision DEF Due
  <2>3. ASSUME NEW g \in fills, crashes = 0
        PROVE  slot'[g.book] # g.order
    <3>1. g.book \in Books /\ slot[g.book] # g.order
      BY <1>1, <2>3 DEF TypeOK, Fill
    <3>2. g.order.bar < g.at /\ g.at \in closed[g.order.asset] /\ g.at \in Bars
          /\ g.order.bar \in Bars
      BY <1>1 DEF Journaled, TypeOK, Fill, Order
    <3>3. g.order.asset = now.asset => g.order.bar # now.at
      BY <1>1, <2>1, <3>2 DEF Cycle, Candle, Bars
    <3>. QED
      BY <1>5, <3>1, <3>3, Decision
  <2>. QED
    BY <2>1, <2>2, <2>3
<1>6. CASE PersistState
  BY <1>1, <1>6 DEF PersistState, Saved
<1>7. CASE Restart
  <2>1. /\ slot' = snap.slot /\ snap' = snap /\ holding' = snap.holding
        /\ phase' \in {"warmup", "idle"}
        /\ phase' = "warmup" => \A a \in Assets : closed[a] = {}
        /\ crashes' # 0
    BY <1>1, <1>7 DEF Restart, TypeOK
  <2>2. ASSUME NEW n \in Books, phase' = "warmup"
        PROVE  slot'[n] = None
    <3>1. snap.slot[n] # None => snap.slot[n].asset \in Assets
      BY BothTyped DEF IInv, Typed, Order
    <3>. QED
      BY <2>1, <2>2, <3>1 DEF IInv, Waits
  <2>. QED
    BY <2>1, <2>2
<1>8. CASE WarmupDone
  BY <1>1, <1>8 DEF WarmupDone
<1>9. CASE UNCHANGED vars
  BY <1>1, <1>9 DEF vars, Due
<1>. QED
  BY <1>2, <1>3, <1>4, <1>5, <1>6, <1>7, <1>8, <1>9 DEF Next

LEMMA FitStep ==
    IInv /\ [Next]_vars => Fit(slot', holding') /\ Fit(snap'.slot, snap'.holding)
<1>. SUFFICES ASSUME IInv, [Next]_vars
              PROVE  Fit(slot', holding') /\ Fit(snap'.slot, snap'.holding)
  OBVIOUS
<1>. USE DEF Fit
<1>1. Fit(slot, holding) /\ Fit(snap.slot, snap.holding) /\ Typed(slot, holding)
  BY BothTyped DEF IInv
<1>2. CASE \E n \in Books : Settle(n)
  <2>1. PICK n \in Books : Settle(n)
    BY <1>2
  <2>2. /\ slot'[n] = None
        /\ \A m \in Books : m # n => slot'[m] = slot[m] /\ holding'[m] = holding[m]
    BY <1>1, <2>1, Execution DEF Typed
  <2>. QED
    BY <1>1, <2>1, <2>2 DEF Settle
<1>3. CASE Decide
  <2>1. UNCHANGED <<holding, snap>>
    BY <1>3 DEF Decide
  <2>. QED
    BY <1>1, <1>3, <2>1, Decision
<1>4. CASE PersistState
  BY <1>1, <1>4 DEF PersistState, Saved
<1>5. CASE Restart
  BY <1>1, <1>5 DEF Restart
<1>6. CASE UNCHANGED <<slot, holding, snap>>
  BY <1>1, <1>6
<1>. QED
  BY <1>2, <1>3, <1>4, <1>5, <1>6 DEF Next, WarmupBar, WarmupDone, AcceptBar, vars

LEMMA PassedCounts ==
    ASSUME NEW o \in Order, NEW bars \in [Assets -> SUBSET Bars], NEW candle
    PROVE  /\ IsFiniteSet(Passed(o, bars, candle))
           /\ Cardinality(Passed(o, bars, candle)) \in Nat
<1>1. IsFiniteSet(1..MaxBar)
  BY FS_Interval
<1>2. Passed(o, bars, candle) \in SUBSET (1..MaxBar)
  BY DEF Passed, Order, Bars
<1>. QED
  BY <1>1, <1>2, FS_Subset, FS_CardinalityType

\* An order that lets no further candle pass, or one more.
LEMMA PassedBound ==
    ASSUME NEW o \in Order, NEW bars \in [Assets -> SUBSET Bars], NEW candle,
           NEW T, NEW d \in Nat, Cardinality(Passed(o, bars, candle)) <= d
    PROVE  /\ T \subseteq Passed(o, bars, candle) => Cardinality(T) <= d
           /\ \A x : T \subseteq Passed(o, bars, candle) \cup {x} => Cardinality(T) <= d + 1
<1>. DEFINE S == Passed(o, bars, candle)
<1>1. IsFiniteSet(S) /\ Cardinality(S) \in Nat /\ Cardinality(S) <= d
  BY PassedCounts
<1>. HIDE DEF S
<1>2. ASSUME T \in SUBSET S PROVE Cardinality(T) <= d
  BY <1>1, <1>2, FS_Subset, FS_CardinalityType
<1>3. ASSUME NEW x, T \in SUBSET (S \cup {x}) PROVE Cardinality(T) <= d + 1
  <2>1. /\ IsFiniteSet(S \cup {x})
        /\ Cardinality(S \cup {x}) \in {Cardinality(S), Cardinality(S) + 1}
    BY <1>1, FS_AddElement
  <2>2. /\ IsFiniteSet(T) /\ Cardinality(T) \in Nat
        /\ Cardinality(T) <= Cardinality(S \cup {x})
    BY <1>3, <2>1, FS_Subset, FS_CardinalityType
  <2>. QED
    BY <1>1, <2>1, <2>2
<1>. QED
  BY <1>2, <1>3 DEF S

LEMMA WaitsStep == IInv /\ [Next]_vars => Waits(slot)' /\ Waits(snap.slot)'
<1>. SUFFICES ASSUME IInv, [Next]_vars
              PROVE  Waits(slot)' /\ Waits(snap.slot)'
  OBVIOUS
<1>. USE DEF Waits
<1>1. /\ TypeOK /\ Cycle /\ InStep /\ Waits(slot) /\ Waits(snap.slot)
      /\ closed \in [Assets -> SUBSET Bars] /\ crashes \in Nat
      /\ \A n \in Books : /\ slot[n] \in Order \cup {None}
                          /\ snap.slot[n] \in Order \cup {None}
  BY BothTyped DEF IInv, Typed, TypeOK
<1>2. ASSUME NEW a \in Assets, NEW b \in Bars, WarmupBar(a, b)
      PROVE  Waits(slot)' /\ Waits(snap.slot)'
  <2>1. \A n \in Books : slot[n] = None /\ snap.slot[n] = None
    BY <1>1, <1>2 DEF WarmupBar, InStep, InCycle
  <2>. QED
    BY <1>2, <2>1 DEF WarmupBar
<1>3. ASSUME NEW a \in Assets, NEW b \in Bars, AcceptBar(a, b)
      PROVE  Waits(slot)' /\ Waits(snap.slot)'
  <2>1. /\ closed' = [closed EXCEPT ![a] = @ \cup {b}]
        /\ now = None /\ now' = [asset |-> a, at |-> b]
        /\ UNCHANGED <<slot, snap, crashes>>
    BY <1>1, <1>3 DEF AcceptBar, Cycle, InCycle
  <2>2. ASSUME NEW o \in Order, NEW c \in Passed(o, closed', now')
        PROVE  c \in Passed(o, closed, now)
    <3>1. o.asset \in Assets
          /\ c \in closed'[o.asset] /\ o.bar < c /\ [asset |-> o.asset, at |-> c] # now'
      BY <2>2 DEF Passed, Order
    <3>2. c \in closed[o.asset]
      BY <1>1, <2>1, <3>1
    <3>3. [asset |-> o.asset, at |-> c] \in Candle
      BY <1>1, <3>1, <3>2 DEF Candle
    <3>. QED
      BY <2>1, <3>1, <3>2, <3>3 DEF Passed
  <2>3. ASSUME NEW o \in Order, o.bar \in closed[o.asset],
               Cardinality(Passed(o, closed, now)) <= crashes
        PROVE  o.bar \in closed'[o.asset] /\ Cardinality(Passed(o, closed', now')) <= crashes'
    BY <1>1, <2>1, <2>2, <2>3, PassedBound DEF Order
  <2>. QED
    BY <1>1, <2>1, <2>3
<1>4. CASE \E n \in Books : Settle(n)
  <2>1. PICK n \in Books : Settle(n)
    BY <1>4
  <2>2. /\ UNCHANGED <<closed, now, snap, crashes>>
        /\ \A m \in Books : slot'[m] = None \/ slot'[m] = slot[m]
    BY <1>1, <2>1, BothTyped DEF Settle, Popped, IInv, Typed
  <2>. QED
    BY <1>1, <2>2
<1>5. CASE Decide
  <2>1. UNCHANGED <<closed, now, snap, crashes>> /\ phase = "settle"
    BY <1>5 DEF Decide
  <2>2. ASSUME NEW o \in Order, o.asset = now.asset, o.bar = now.at
        PROVE  o.bar \in closed[o.asset] /\ Cardinality(Passed(o, closed, now)) <= crashes
    <3>1. o.bar \in closed[o.asset] /\ \A c \in closed[o.asset] : c <= o.bar
          /\ closed[o.asset] \subseteq Nat
      BY <1>1, <2>1, <2>2 DEF Cycle, InCycle, Order, Bars
    <3>2. Passed(o, closed, now) = {}
      BY <3>1 DEF Passed
    <3>. QED
      BY <1>1, <3>1, <3>2, FS_EmptySet
  <2>3. \A n \in Books : \/ slot'[n] = slot[n]
                         \/ /\ slot'[n] \in Order
                            /\ slot'[n].asset = now.asset /\ slot'[n].bar = now.at
    BY <1>5, Decision
  <2>. QED
    BY <1>1, <2>1, <2>2, <2>3
<1>6. CASE PersistState
  <2>1. /\ phase = "save" /\ UNCHANGED <<closed, slot, crashes>>
        /\ snap'.slot = slot /\ now' = None
    BY <1>6 DEF PersistState, Saved
  <2>2. ASSUME NEW n \in Books, slot[n] # None
        PROVE  Cardinality(Passed(slot[n], closed, None)) <= crashes
    <3>1. slot[n] \in Order /\ slot[n].asset \in Assets
      BY <1>1, <2>2 DEF Order
    <3>2. slot[n].asset = now.asset => slot[n].bar = now.at
      BY <1>1, <2>1, <2>2 DEF InStep, Due
    <3>3. slot[n].asset = now.asset => \A c \in closed[slot[n].asset] : ~(slot[n].bar < c)
      BY <1>1, <2>1, <3>1, <3>2 DEF Cycle, InCycle, Bars, Candle
    <3>4. Passed(slot[n], closed, None) \subseteq Passed(slot[n], closed, now)
      BY <3>3 DEF Passed
    <3>. QED
      BY <1>1, <2>2, <3>1, <3>4, PassedBound
  <2>. QED
    BY <1>1, <2>1, <2>2
<1>7. CASE Restart
  <2>1. /\ UNCHANGED <<closed, snap>> /\ slot' = snap.slot /\ now' = None
        /\ crashes' = crashes + 1
    BY <1>7 DEF Restart
  <2>2. ASSUME NEW n \in Books, snap.slot[n] # None
        PROVE  Cardinality(Passed(snap.slot[n], closed, None)) <= crashes + 1
    <3>1. Passed(snap.slot[n], closed, None)
             \subseteq Passed(snap.slot[n], closed, now) \cup {now.at}
      BY DEF Passed
    <3>. QED
      BY <1>1, <2>2, <3>1, PassedBound
  <2>. QED
    BY <1>1, <2>1, <2>2
<1>8. CASE UNCHANGED <<closed, now, slot, snap, crashes>>
  BY <1>1, <1>8
<1>. QED
  BY <1>2, <1>3, <1>4, <1>5, <1>6, <1>7, <1>8 DEF Next, WarmupDone, vars

LEMMA Invariance == Spec => []IInv
<1>1. IInv /\ [Next]_vars => IInv'
  BY TypeStep, CycleStep, JournaledStep, InStepStep, FitStep, WaitsStep DEF IInv
<1>. QED
  BY InitInv, <1>1, PTL DEF Spec

\* The shadow books keep their types; a book that is bound to an asset never
\* holds or orders another one.
THEOREM TypeCorrect == Spec => []TypeOK
<1>1. IInv => TypeOK
  BY DEF IInv
<1>. QED
  BY Invariance, <1>1, PTL

\* An order that waits, in memory or in the snapshot, fits the holding beside
\* it, whatever died in between.
THEOREM OrdersFit == Spec => []OrdersFitHolding
<1>1. IInv => OrdersFitHolding
  BY DEF IInv, Fit, OrdersFitHolding, States
<1>. QED
  BY Invariance, <1>1, PTL

-----------------------------------------------------------------------------
(* The candles an order lets pass *)

\* The candles of its asset between the order of a fill and the fill.
Between(f, bars) == {b \in bars[f.order.asset] : f.order.bar < b /\ b < f.at}

Prompt == \A f \in fills \cup refused : Cardinality(Between(f, closed)) <= crashes

LEMMA PromptStep == IInv /\ Prompt /\ [Next]_vars => Prompt'
<1>. SUFFICES ASSUME IInv, Prompt, [Next]_vars PROVE Prompt'
  OBVIOUS
<1>. USE DEF Prompt
<1>1. /\ TypeOK /\ Cycle /\ InStep /\ Waits(slot)
      /\ closed \in [Assets -> SUBSET Bars] /\ crashes \in Nat
  BY DEF IInv, TypeOK
<1>2. ASSUME NEW a \in Assets, NEW b \in Bars, WarmupBar(a, b) \/ AcceptBar(a, b)
      PROVE  Prompt'
  <2>1. \A c \in closed[a] : c < b
    BY <1>1, <1>2, LaterThanAll DEF WarmupBar, AcceptBar
  <2>2. /\ closed' = [closed EXCEPT ![a] = @ \cup {b}]
        /\ UNCHANGED <<fills, refused, crashes>>
    BY <1>1, <1>2 DEF WarmupBar, AcceptBar
  <2>3. ASSUME NEW f \in fills \cup refused
        PROVE  Between(f, closed') = Between(f, closed)
    <3>1. f.order.asset \in Assets /\ f.at \in closed[f.order.asset] /\ f.at \in Bars
      BY <1>1 DEF IInv, Journaled, TypeOK, Fill, Order
    <3>2. f.order.asset = a => f.at < b
      BY <2>1, <3>1
    <3>3. \A c \in closed'[f.order.asset] : c < f.at => c \in closed[f.order.asset]
      BY <1>1, <2>2, <3>1, <3>2 DEF Bars
    <3>4. closed[f.order.asset] \subseteq closed'[f.order.asset]
      BY <1>1, <2>2
    <3>. QED
      BY <3>3, <3>4 DEF Between
  <2>. QED
    BY <2>2, <2>3
<1>3. CASE \E n \in Books : Settle(n)
  <2>1. PICK n \in Books : Settle(n)
    BY <1>3
  <2>2. PICK f \in Fill :
           /\ f.order = slot[n] /\ f.order.asset = now.asset /\ f.at = now.at
           /\ f.order \in Order
           /\ fills' \in {fills, Journal(f)} /\ refused' \in {refused, refused \cup {f}}
    BY <2>1, Execution
  <2>3. UNCHANGED <<closed, crashes>> /\ fills' \cup refused' \subseteq fills \cup refused \cup {f}
    BY <2>1, <2>2 DEF Settle, Journal
  <2>4. f.order # None
    BY <2>2
  <2>5. Cardinality(Passed(f.order, closed, now)) <= crashes
    BY <1>1, <2>2, <2>4 DEF Waits
  <2>6. Between(f, closed) \subseteq Passed(f.order, closed, now)
    <3>1. \A b \in Between(f, closed) : b # now.at
      BY <1>1, <2>2 DEF Between, Order, Fill, Bars
    <3>. QED
      BY <3>1 DEF Between, Passed
  <2>7. Cardinality(Between(f, closed)) <= crashes
    BY <1>1, <2>2, <2>5, <2>6, PassedBound
  <2>. QED
    BY <2>3, <2>7
<1>4. CASE Restart
  <2>1. UNCHANGED <<closed, fills, refused>> /\ crashes' = crashes + 1
    BY <1>4 DEF Restart
  <2>2. ASSUME NEW f \in fills \cup refused
        PROVE  Cardinality(Between(f, closed)) \in Nat
    <3>1. IsFiniteSet(1..MaxBar)
      BY FS_Interval
    <3>2. Between(f, closed) \in SUBSET (1..MaxBar)
      BY <1>1 DEF Between, TypeOK, Fill, Order, Bars
    <3>. QED
      BY <3>1, <3>2, FS_Subset, FS_CardinalityType
  <2>. QED
    BY <1>1, <2>1, <2>2
<1>5. CASE UNCHANGED <<closed, fills, refused, crashes>>
  BY <1>5
<1>. QED
  BY <1>2, <1>3, <1>4, <1>5 DEF Next, WarmupDone, Decide, PersistState, vars

\* An order executes on a later candle than its own, and one that it skips is
\* one on which the process died.
THEOREM NextCandle == Spec => []ExecutesAtNextCandle
<1>1. Init => Prompt
  BY DEF Init, Prompt
<1>2. IInv /\ Prompt => ExecutesAtNextCandle
  <2>. SUFFICES ASSUME IInv, Prompt, NEW f \in fills \cup refused
                PROVE  f.order.bar < f.at /\ Cardinality(Between(f, closed)) <= crashes
    BY DEF ExecutesAtNextCandle, Between
  <2>. QED
    BY DEF IInv, Journaled, Prompt
<1>. QED
  BY Invariance, PromptStep, <1>1, <1>2, PTL DEF Spec

-----------------------------------------------------------------------------
(* The journal and the books *)

\* The fills of a side in a book, apart from those of the order o.
Done(n, o, side, journal) ==
    {f \in journal : f.book = n /\ f.order # o /\ f.order.side = side}

Held(h) == {a \in Assets : h[a] # None}

\* The purchases among them of which no fill was refused.
Sure(n, o, journal, refusals) ==
    {f \in Done(n, o, "BUY", journal) : \A g \in refusals : g.book = n => g.order # f.order}

\* The book n, whose waiting order is o and whose holding is h, adds up: its
\* sales and its holding are at least the sure purchases, at most all of them.
Meets(n, o, h, journal, refusals) ==
    LET out == Cardinality(Done(n, o, "SELL", journal)) + Cardinality(Held(h))
    IN  /\ Cardinality(Sure(n, o, journal, refusals)) <= out
        /\ out <= Cardinality(Done(n, o, "BUY", journal))

AddsUp(slots, holdings) ==
    \A n \in Books : AssetOf[n] # None =>
        Meets(n, slots[n], holdings[n], fills, refused)

\* h was opened by a journaled fill of the book n.
OpenedBy(n, h, journal, deaths) ==
    \E f \in journal : /\ f.book = n /\ f.order = h.order /\ f.at <= h.at
                       /\ deaths = 0 => f = h

Opens(holdings) ==
    \A n \in Books, a \in Assets :
        holdings[n][a] # None => OpenedBy(n, holdings[n][a], fills, crashes)

Accounts == /\ IsFiniteSet(fills)
            /\ AddsUp(slot, holding) /\ AddsUp(snap.slot, snap.holding)
            /\ Opens(holding) /\ Opens(snap.holding)

LEMMA DoneFinite ==
    ASSUME NEW journal, IsFiniteSet(journal), NEW n, NEW o, NEW side
    PROVE  /\ IsFiniteSet(Done(n, o, side, journal))
           /\ Cardinality(Done(n, o, side, journal)) \in Nat
<1>1. Done(n, o, side, journal) \in SUBSET journal
  BY DEF Done
<1>. QED
  BY <1>1, FS_Subset, FS_CardinalityType

LEMMA SureFinite ==
    ASSUME NEW journal, IsFiniteSet(journal), NEW refusals, NEW n, NEW o
    PROVE  /\ IsFiniteSet(Sure(n, o, journal, refusals))
           /\ Cardinality(Sure(n, o, journal, refusals)) \in Nat
<1>1. Sure(n, o, journal, refusals) \in SUBSET Done(n, o, "BUY", journal)
  BY DEF Sure
<1>. QED
  BY <1>1, DoneFinite, FS_Subset, FS_CardinalityType

\* A book whose settled fills and holding stay as they are still adds up; what
\* is refused besides makes no purchase sure.
LEMMA StillMeets ==
    ASSUME NEW journal, NEW after, IsFiniteSet(journal), NEW refusals, NEW more,
           NEW n, NEW o, NEW p, NEW h, refusals \subseteq more,
           Done(n, p, "BUY", after) = Done(n, o, "BUY", journal),
           Done(n, p, "SELL", after) = Done(n, o, "SELL", journal),
           IsFiniteSet(Held(h)), Meets(n, o, h, journal, refusals)
    PROVE  Meets(n, p, h, after, more)
<1>1. Sure(n, p, after, more) \in SUBSET Sure(n, o, journal, refusals)
  BY DEF Sure
<1>2. Cardinality(Sure(n, p, after, more)) <= Cardinality(Sure(n, o, journal, refusals))
      /\ Cardinality(Sure(n, p, after, more)) \in Nat
      /\ Cardinality(Sure(n, o, journal, refusals)) \in Nat
  BY <1>1, SureFinite, FS_Subset, FS_CardinalityType
<1>3. Cardinality(Done(n, o, "SELL", journal)) \in Nat /\ Cardinality(Held(h)) \in Nat
  BY DoneFinite, FS_CardinalityType
<1>. QED
  BY <1>2, <1>3 DEF Meets

\* What a bound book holds is its asset or nothing.
LEMMA HeldOfBound ==
    ASSUME NEW a \in Assets, NEW h, \A b \in Assets : h[b] # None => b = a
    PROVE  /\ IsFiniteSet(Held(h))
           /\ Cardinality(Held(h)) = IF h[a] = None THEN 0 ELSE 1
<1>1. CASE h[a] = None
  <2>1. Held(h) = {}
    BY <1>1 DEF Held
  <2>. QED
    BY <1>1, <2>1, FS_EmptySet
<1>2. CASE h[a] # None
  <2>1. Held(h) = {a}
    BY <1>2 DEF Held
  <2>2. IsFiniteSet({a}) /\ Cardinality({a}) = 1
    BY FS_Singleton
  <2>. QED
    BY <1>2, <2>1, <2>2
<1>. QED
  BY <1>1, <1>2

\* Once the order o of a book, whose fill is g, no longer waits, g counts.
LEMMA DoneGrows ==
    ASSUME NEW journal, IsFiniteSet(journal), NEW g, NEW after, NEW n, NEW o, NEW side,
           journal \subseteq after, after \subseteq journal \cup {g},
           g \in after, g.book = n, g.order = o,
           \A f \in after : f.order # None,
           \A f \in after : f.book = n /\ f.order = o => f = g
    PROVE  Cardinality(Done(n, None, side, after)) =
               IF g.order.side = side THEN Cardinality(Done(n, o, side, journal)) + 1
                                      ELSE Cardinality(Done(n, o, side, journal))
<1>. DEFINE D == Done(n, o, side, journal)
            E == Done(n, None, side, after)
<1>1. IsFiniteSet(D) /\ Cardinality(D) \in Nat
  BY DoneFinite
<1>1a. g \notin D
  BY DEF Done
<1>2. CASE g.order.side = side
  <2>1. \A x : x \in E <=> x \in D \/ x = g
    BY <1>2 DEF Done
  <2>. HIDE DEF D, E
  <2>2. E = D \cup {g}
    BY <2>1
  <2>3. Cardinality(E) = Cardinality(D) + 1
    BY <1>1, <1>1a, <2>2, FS_AddElement DEF D
  <2>. QED
    BY <1>2, <2>3 DEF D, E
<1>3. CASE g.order.side # side
  <2>1. \A x : x \in E <=> x \in D
    BY <1>3 DEF Done
  <2>. HIDE DEF D, E
  <2>2. E = D
    BY <2>1
  <2>. QED
    BY <1>3, <2>2 DEF D, E
<1>. QED
  BY <1>2, <1>3

\* The fills of a book that an event of another book, or of the order left
\* out, does not change.
LEMMA DoneKept ==
    ASSUME NEW journal, NEW f, NEW after, NEW n, NEW o, NEW side,
           journal \subseteq after, after \subseteq journal \cup {f},
           f.book # n \/ f.order = o
    PROVE  Done(n, o, side, after) = Done(n, o, side, journal)
  BY DEF Done

LEMMA FinitelyManyFills == IInv /\ IsFiniteSet(fills) /\ [Next]_vars => IsFiniteSet(fills')
<1>. SUFFICES ASSUME IInv, IsFiniteSet(fills), [Next]_vars PROVE IsFiniteSet(fills')
  OBVIOUS
<1>1. ASSUME NEW n \in Books, Settle(n) PROVE IsFiniteSet(fills')
  <2>1. \E f : fills' = fills \/ fills' = fills \cup {f}
    BY <1>1, Execution DEF Journal
  <2>. QED
    BY <2>1, FS_AddElement
<1>. QED
  BY <1>1 DEF Next, WarmupBar, WarmupDone, AcceptBar, Decide, PersistState, Restart, vars

\* A bound book holds a finite set, in memory and in the snapshot.
LEMMA HeldFinite ==
    ASSUME NEW slots, NEW holdings, Typed(slots, holdings), NEW n \in Books, AssetOf[n] # None
    PROVE  IsFiniteSet(Held(holdings[n]))
  BY HeldOfBound DEF Typed

\* The book that executes: its holding changes by the fill that counts now.
LEMMA TakenMeets ==
    ASSUME IInv, IsFiniteSet(fills), NEW n \in Books, Settle(n),
           AssetOf[n] # None, AddsUp(slot, holding), NEW f \in Fill,
           f.book = n, f.order = slot[n], f.order \in Order, f.order.asset = now.asset,
           holding' = [holding EXCEPT ![n][now.asset] =
                          IF f.order.side = "BUY" THEN f ELSE None],
           fills' = Journal(f), refused' = refused
    PROVE  Meets(n, None, holding'[n], fills', refused')
<1>1. /\ Typed(slot, holding) /\ Typed(slot', holding') /\ slot[n] # None
  <2>1. slot[n] # None
    OBVIOUS
  <2>2. Typed(slot', holding')
    BY TypedSettle
  <2>3. Typed(slot, holding)
    BY BothTyped DEF IInv
  <2>. QED
    BY <2>1, <2>2, <2>3
<1>. DEFINE a == AssetOf[n]  o == slot[n]
<1>2. a \in Assets /\ now.asset = a /\ o # None
  BY <1>1 DEF Typed, Order
<1>3. PICK g \in fills' : /\ g.book = n /\ g.order = o
                          /\ fills \subseteq fills' /\ fills' \subseteq fills \cup {g}
  <2>1. CASE \E g \in fills : g.book = f.book /\ g.order = f.order
    BY <2>1 DEF Journal
  <2>2. CASE ~\E g \in fills : g.book = f.book /\ g.order = f.order
    BY <2>2 DEF Journal
  <2>. QED
    BY <2>1, <2>2
<1>4. \A h \in fills' : h.order # None /\ (h.book = n /\ h.order = o => h = g)
  <2>1. fills' \subseteq Fill
    BY TypedSettle
  <2>2. \A h \in fills' : h.book = n /\ h.order = o => h = g
    BY <1>3, JournaledStep DEF Journaled, Next
  <2>. QED
    BY <2>1, <2>2 DEF Fill
<1>5. ASSUME NEW side
      PROVE  Cardinality(Done(n, None, side, fills')) =
                 IF o.side = side THEN Cardinality(Done(n, o, side, fills)) + 1
                                  ELSE Cardinality(Done(n, o, side, fills))
  BY <1>3, <1>4, DoneGrows
<1>6. /\ Cardinality(Done(n, o, "BUY", fills)) \in Nat
      /\ Cardinality(Done(n, o, "SELL", fills)) \in Nat
  BY DoneFinite
<1>7. Cardinality(Held(holding[n])) = IF holding[n][a] = None THEN 0 ELSE 1
  BY <1>1, <1>2, HeldOfBound DEF Typed
<1>8. Cardinality(Held(holding'[n])) = IF holding'[n][a] = None THEN 0 ELSE 1
  <2>1. \A b \in Assets : holding'[n][b] # None => b = a
    BY <1>1, <1>2 DEF Typed
  <2>. QED
    BY <1>2, <2>1, HeldOfBound
<1>9. o.side \in {"BUY", "SELL"} /\ (o.side = "SELL" <=> holding[n][a] # None)
  BY <1>1, <1>2 DEF IInv, Fit, Order
<1>10. holding'[n][a] = IF o.side = "BUY" THEN f ELSE None
  BY <1>1, <1>2 DEF Typed
<1>11. /\ Cardinality(Sure(n, None, fills', refused)) \in Nat
       /\ Cardinality(Sure(n, o, fills, refused)) \in Nat
       /\ Cardinality(Sure(n, None, fills', refused)) <=
              Cardinality(Sure(n, o, fills, refused)) + (IF o.side = "BUY" THEN 1 ELSE 0)
  <2>. DEFINE S == Sure(n, o, fills, refused)
              T == Sure(n, None, fills', refused)
  <2>1. T \subseteq S \cup {g} /\ (o.side # "BUY" => T \subseteq S)
    BY <1>2, <1>3, <1>4 DEF Sure, Done
  <2>2. IsFiniteSet(S) /\ Cardinality(S) \in Nat
    BY SureFinite
  <2>. HIDE DEF S, T
  <2>3. /\ IsFiniteSet(S \cup {g})
        /\ Cardinality(S \cup {g}) \in {Cardinality(S), Cardinality(S) + 1}
    BY <2>2, FS_AddElement
  <2>4. T \in SUBSET (S \cup {g}) /\ (o.side # "BUY" => T \in SUBSET S)
    BY <2>1
  <2>5. Cardinality(T) \in Nat /\ Cardinality(T) <= Cardinality(S \cup {g})
    BY <2>3, <2>4, FS_Subset, FS_CardinalityType
  <2>6. o.side # "BUY" => Cardinality(T) <= Cardinality(S)
    BY <2>2, <2>4, FS_Subset
  <2>. QED
    BY <2>2, <2>3, <2>5, <2>6 DEF S, T
<1>12. Meets(n, o, holding[n], fills, refused)
  BY DEF AddsUp
<1>. QED
  BY <1>2, <1>5, <1>6, <1>7, <1>8, <1>9, <1>10, <1>11, <1>12 DEF Meets

\* The book whose purchase is refused: if a dead process journaled it, it now
\* counts as a purchase, and not as a sure one.
LEMMA RefusedMeets ==
    ASSUME IInv, IsFiniteSet(fills), NEW n \in Books,
           AssetOf[n] # None, AddsUp(slot, holding), NEW f,
           f.book = n, f.order = slot[n], f.order.side = "BUY",
           refused' = refused \cup {f}
    PROVE  Meets(n, None, holding[n], fills, refused')
<1>. DEFINE o == slot[n]
            S == Sure(n, o, fills, refused)        T == Sure(n, None, fills, refused')
            B == Done(n, o, "BUY", fills)          C == Done(n, None, "BUY", fills)
<1>1. T \in SUBSET S /\ B \in SUBSET C
  <2>1. \A x \in fills : x.order # None
    BY DEF IInv, TypeOK, Fill
  <2>. QED
    BY <2>1 DEF Sure, Done
<1>2. Done(n, None, "SELL", fills) = Done(n, o, "SELL", fills)
  <2>1. \A x \in fills : x.order # None
    BY DEF IInv, TypeOK, Fill
  <2>. QED
    BY <2>1 DEF Done
<1>3. IsFiniteSet(S) /\ IsFiniteSet(C) /\ Cardinality(Done(n, o, "SELL", fills)) \in Nat
  BY SureFinite, DoneFinite
<1>4. Typed(slot, holding)
  BY BothTyped DEF IInv
<1>5. Cardinality(Held(holding[n])) \in Nat
  BY <1>4, HeldFinite, FS_CardinalityType
<1>6. Cardinality(S) <= Cardinality(Done(n, o, "SELL", fills)) + Cardinality(Held(holding[n]))
      /\ Cardinality(Done(n, o, "SELL", fills)) + Cardinality(Held(holding[n])) <= Cardinality(B)
  BY DEF AddsUp, Meets
<1>. HIDE DEF S, T, B, C
<1>7. /\ Cardinality(S) \in Nat /\ Cardinality(T) \in Nat /\ Cardinality(B) \in Nat
      /\ Cardinality(C) \in Nat
      /\ Cardinality(T) <= Cardinality(S) /\ Cardinality(B) <= Cardinality(C)
  BY <1>1, <1>3, FS_Subset, FS_CardinalityType
<1>8. Cardinality(T) <= Cardinality(Done(n, o, "SELL", fills)) + Cardinality(Held(holding[n]))
      /\ Cardinality(Done(n, o, "SELL", fills)) + Cardinality(Held(holding[n])) <= Cardinality(C)
  BY <1>3, <1>5, <1>6, <1>7
<1>. QED
  BY <1>2, <1>8 DEF Meets, T, C

LEMMA SettleMeets ==
    ASSUME IInv, IsFiniteSet(fills), NEW n \in Books, Settle(n),
           AssetOf[n] # None, AddsUp(slot, holding)
    PROVE  Meets(n, slot'[n], holding'[n], fills', refused')
<1>1. PICK f \in Fill :
              /\ f.book = n /\ f.order = slot[n] /\ f.at = now.at
              /\ f.order \in Order /\ f.order.asset = now.asset
              /\ slot' = [slot EXCEPT ![n] = None]
              /\ \/ /\ holding' = [holding EXCEPT ![n][now.asset] =
                                      IF f.order.side = "BUY" THEN f ELSE None]
                    /\ fills' = Journal(f) /\ refused' = refused
                 \/ /\ f.order.side = "BUY"
                    /\ UNCHANGED <<holding, fills>> /\ refused' = refused \cup {f}
  BY Execution
<1>2. slot'[n] = None
  BY <1>1, BothTyped DEF IInv, Typed
<1>. QED
  BY <1>1, <1>2, TakenMeets, RefusedMeets

LEMMA AddsUpSettle ==
    ASSUME IInv, IsFiniteSet(fills), NEW n \in Books, Settle(n),
           AddsUp(slot, holding), AddsUp(snap.slot, snap.holding)
    PROVE  AddsUp(slot, holding)' /\ AddsUp(snap.slot, snap.holding)'
<1>1. PICK f \in Fill :
              /\ f.book = n /\ f.order = slot[n] /\ f.order \in Order
              /\ slot' = [slot EXCEPT ![n] = None]
              /\ \A m \in Books : m # n => holding'[m] = holding[m]
              /\ fills' \in {fills, Journal(f)} /\ refused' \in {refused, refused \cup {f}}
  <2>1. Typed(slot, holding)
    BY BothTyped DEF IInv
  <2>. QED
    BY <2>1, Execution DEF Typed
<1>2. UNCHANGED snap /\ phase = "settle"
  BY DEF Settle
<1>3. refused \subseteq refused'
  BY <1>1
<1>4. fills \subseteq fills' /\ fills' \subseteq fills \cup {f}
  BY <1>1 DEF Journal
<1>5. f.order = snap.slot[n]
  BY <1>1, <1>2 DEF IInv, InStep
<1>6. ASSUME NEW m \in Books, m # n, NEW o, NEW side
      PROVE  Done(m, o, side, fills') = Done(m, o, side, fills)
  BY <1>1, <1>4, <1>6, DoneKept
<1>7. ASSUME NEW side
      PROVE  Done(n, snap.slot[n], side, fills') = Done(n, snap.slot[n], side, fills)
  BY <1>4, <1>5, DoneKept
<1>8. \A m \in Books : m # n => slot'[m] = slot[m]
  BY <1>1, BothTyped DEF IInv, Typed
<1>9. /\ Typed(slot, holding) /\ Typed(snap.slot, snap.holding)
  BY BothTyped DEF IInv
<1>10. ASSUME NEW m \in Books, m # n, AssetOf[m] # None
       PROVE  Meets(m, slot'[m], holding'[m], fills', refused')
  <2>1. /\ Meets(m, slot[m], holding[m], fills, refused) /\ IsFiniteSet(Held(holding[m]))
        /\ slot'[m] = slot[m] /\ holding'[m] = holding[m]
    BY <1>1, <1>8, <1>9, <1>10, HeldFinite DEF AddsUp
  <2>. QED
    BY <1>3, <1>6, <1>10, <2>1, StillMeets
<1>11. ASSUME NEW m \in Books, AssetOf[m] # None
       PROVE  Meets(m, snap.slot[m], snap.holding[m], fills', refused')
  <2>1. /\ Meets(m, snap.slot[m], snap.holding[m], fills, refused)
        /\ IsFiniteSet(Held(snap.holding[m]))
    BY <1>9, <1>11, HeldFinite DEF AddsUp
  <2>2. \A side : Done(m, snap.slot[m], side, fills') = Done(m, snap.slot[m], side, fills)
    BY <1>6, <1>7
  <2>. QED
    BY <1>3, <2>1, <2>2, StillMeets
<1>12. \A m \in Books : AssetOf[m] # None => Meets(m, slot'[m], holding'[m], fills', refused')
  BY <1>10, SettleMeets
<1>13. snap' = snap
  BY <1>2
<1>. QED
  BY <1>11, <1>12, <1>13 DEF AddsUp

LEMMA AddsUpDecide ==
    ASSUME IInv, IsFiniteSet(fills), Decide, AddsUp(slot, holding)
    PROVE  AddsUp(slot, holding)'
<1>1. UNCHANGED <<fills, holding, refused, now, closed>> /\ phase = "settle"
  BY DEF Decide
<1>2. ASSUME NEW n \in Books, AssetOf[n] # None, NEW side
      PROVE  Done(n, slot'[n], side, fills) = Done(n, slot[n], side, fills)
  <2>1. CASE slot'[n] = slot[n]
    BY <2>1
  <2>2. CASE slot'[n].asset = now.asset /\ slot'[n].bar = now.at /\ slot[n] = None
    <3>1. ASSUME NEW f \in fills
          PROVE  f.order # None /\ f.order # slot'[n]
      <4>1. /\ f \in Fill /\ f.order.bar < f.at /\ f.at \in closed[f.order.asset]
        BY DEF IInv, TypeOK, Journaled
      <4>2. f.order.asset = now.asset => f.order.bar # now.at
        BY <1>1, <4>1 DEF IInv, Cycle, InCycle, Fill, Order, Bars, Candle
      <4>. QED
        BY <2>2, <4>1, <4>2 DEF Fill
    <3>. QED
      BY <2>2, <3>1 DEF Done
  <2>. QED
    BY <1>2, <2>1, <2>2, Decision
<1>3. ASSUME NEW n \in Books, AssetOf[n] # None
      PROVE  Meets(n, slot'[n], holding[n], fills, refused)
  <2>1. Meets(n, slot[n], holding[n], fills, refused) /\ IsFiniteSet(Held(holding[n]))
    BY <1>3, BothTyped, HeldFinite DEF AddsUp, IInv
  <2>. QED
    BY <1>2, <1>3, <2>1, StillMeets
<1>. QED
  BY <1>1, <1>3 DEF AddsUp

\* A purchase that the account takes is in the journal; only a book that came
\* back from the snapshot may find it there already, from an earlier candle.
LEMMA OpensSettle ==
    ASSUME IInv, NEW n \in Books, Settle(n), Opens(holding), Opens(snap.holding)
    PROVE  Opens(holding)' /\ Opens(snap.holding)'
<1>1. PICK f \in Fill :
              /\ f.book = n /\ f.order = slot[n] /\ f.at = now.at
              /\ f.order \in Order /\ f.order.asset = now.asset
              /\ slot' = [slot EXCEPT ![n] = None]
              /\ \/ /\ holding' = [holding EXCEPT ![n][now.asset] =
                                      IF f.order.side = "BUY" THEN f ELSE None]
                    /\ fills' = Journal(f) /\ refused' = refused
                 \/ /\ f.order.side = "BUY"
                    /\ UNCHANGED <<holding, fills>> /\ refused' = refused \cup {f}
  BY Execution
<1>2. UNCHANGED <<snap, crashes, now, closed>> /\ phase = "settle"
  BY DEF Settle
<1>3. fills \subseteq fills'
  BY <1>1 DEF Journal
<1>4. \A m \in Books : \A h : OpenedBy(m, h, fills, crashes) => OpenedBy(m, h, fills', crashes')
  BY <1>2, <1>3 DEF OpenedBy
<1>5. Opens(snap.holding)'
  BY <1>2, <1>4 DEF Opens
<1>6. CASE UNCHANGED holding
  <2>1. \A m \in Books, a \in Assets :
           holding[m][a] # None => OpenedBy(m, holding[m][a], fills', crashes')
    BY <1>4 DEF Opens
  <2>. QED
    BY <1>5, <1>6, <2>1 DEF Opens
<1>7. CASE /\ holding' = [holding EXCEPT ![n][now.asset] =
                             IF f.order.side = "BUY" THEN f ELSE None]
           /\ fills' = Journal(f)
  <2>1. Typed(slot, holding)
    BY BothTyped DEF IInv
  <2>2. OpenedBy(n, f, fills', crashes')
    <3>1. CASE \E g \in fills : g.book = f.book /\ g.order = f.order
      <4>1. PICK g \in fills : g.book = n /\ g.order = f.order
        BY <1>1, <3>1
      <4>2. g.at \in closed[now.asset] /\ g.at <= now.at
        BY <1>1, <1>2, <4>1 DEF IInv, Journaled, Cycle, InCycle
      <4>3. crashes # 0
        BY <1>1, <4>1 DEF IInv, InStep
      <4>. QED
        BY <1>1, <1>2, <1>3, <4>1, <4>2, <4>3 DEF OpenedBy
    <3>2. CASE ~\E g \in fills : g.book = f.book /\ g.order = f.order
      <4>1. f \in fills' /\ f.at <= f.at
        BY <1>7, <3>2 DEF Journal, Fill, Bars
      <4>. QED
        BY <1>1, <4>1 DEF OpenedBy
    <3>. QED
      BY <3>1, <3>2
  <2>3. ASSUME NEW m \in Books, NEW a \in Assets, holding'[m][a] # None
        PROVE  OpenedBy(m, holding'[m][a], fills', crashes')
    <3>1. CASE m = n /\ a = now.asset
      <4>1. holding'[n][now.asset] = IF f.order.side = "BUY" THEN f ELSE None
        BY <1>7, <2>1, <3>1 DEF Typed
      <4>. QED
        BY <2>2, <2>3, <3>1, <4>1
    <3>2. CASE ~(m = n /\ a = now.asset)
      <4>1. holding'[m][a] = holding[m][a]
        BY <1>7, <2>1, <3>2 DEF Typed
      <4>. QED
        BY <1>4, <2>3, <4>1 DEF Opens
    <3>. QED
      BY <3>1, <3>2
  <2>. QED
    BY <1>5, <2>3 DEF Opens
<1>. QED
  BY <1>1, <1>5, <1>6, <1>7

LEMMA AccountsStep == IInv /\ Accounts /\ [Next]_vars => Accounts'
<1>. SUFFICES ASSUME IInv, Accounts, [Next]_vars PROVE Accounts'
  OBVIOUS
<1>1. IsFiniteSet(fills') /\ IsFiniteSet(fills)
  BY FinitelyManyFills DEF Accounts
<1>2. CASE \E n \in Books : Settle(n)
  BY <1>1, <1>2, AddsUpSettle, OpensSettle DEF Accounts
<1>3. CASE Decide
  <2>1. UNCHANGED <<holding, snap, fills, crashes, refused>>
    BY <1>3 DEF Decide
  <2>2. AddsUp(slot, holding)'
    BY <1>1, <1>3, AddsUpDecide DEF Accounts
  <2>3. AddsUp(snap.slot, snap.holding)' /\ Opens(holding)' /\ Opens(snap.holding)'
    BY <2>1 DEF Accounts, AddsUp, Opens
  <2>. QED
    BY <1>1, <2>2, <2>3 DEF Accounts
<1>4. CASE PersistState
  <2>1. /\ UNCHANGED <<slot, holding, fills, crashes, refused>>
        /\ snap'.slot = slot /\ snap'.holding = holding
    BY <1>4 DEF PersistState, Saved
  <2>2. AddsUp(slot, holding)' /\ AddsUp(snap.slot, snap.holding)'
    BY <2>1 DEF Accounts, AddsUp
  <2>3. Opens(holding)' /\ Opens(snap.holding)'
    BY <2>1 DEF Accounts, Opens
  <2>. QED
    BY <1>1, <2>2, <2>3 DEF Accounts
<1>5. CASE Restart
  <2>1. /\ UNCHANGED <<snap, fills, refused>> /\ slot' = snap.slot /\ holding' = snap.holding
        /\ crashes' # 0
    BY <1>5 DEF Restart, IInv, TypeOK
  <2>2. AddsUp(slot, holding)' /\ AddsUp(snap.slot, snap.holding)'
    BY <2>1 DEF Accounts, AddsUp
  <2>3. \A n \in Books : \A h : OpenedBy(n, h, fills, crashes) => OpenedBy(n, h, fills', crashes')
    BY <2>1 DEF OpenedBy
  <2>4. Opens(holding)' /\ Opens(snap.holding)'
    BY <2>1, <2>3 DEF Accounts, Opens
  <2>. QED
    BY <1>1, <2>2, <2>4 DEF Accounts
<1>6. CASE UNCHANGED <<slot, holding, snap, fills, crashes, refused>>
  BY <1>1, <1>6 DEF Accounts, AddsUp, Opens
<1>. QED
  BY <1>2, <1>3, <1>4, <1>5, <1>6 DEF Next, WarmupBar, WarmupDone, AcceptBar, vars

LEMMA InitAccounts == Init => Accounts
<1>. SUFFICES ASSUME Init PROVE Accounts
  OBVIOUS
<1>. USE DEF Init
<1>1. IsFiniteSet(fills) /\ fills = {}
  BY FS_EmptySet
<1>2. Opens(holding) /\ Opens(snap.holding)
  BY DEF Opens
<1>3. \A n, o, side : Done(n, o, side, fills) = {}
  BY DEF Done
<1>4. \A n \in Books : Held(holding[n]) = {} /\ Held(snap.holding[n]) = {}
  BY DEF Held
<1>5. Cardinality({}) = 0
  BY FS_EmptySet
<1>6. AddsUp(slot, holding) /\ AddsUp(snap.slot, snap.holding)
  <2>. HIDE DEF Init
  <2>1. \A n \in Books : \A o, side : Cardinality(Done(n, o, side, fills)) = 0
    BY <1>3, <1>5
  <2>2. \A n \in Books : Cardinality(Held(holding[n])) = 0
                         /\ Cardinality(Held(snap.holding[n])) = 0
    BY <1>4, <1>5
  <2>3. \A n \in Books : \A o : Cardinality(Sure(n, o, fills, refused)) = 0
    <3>1. \A n, o : Sure(n, o, fills, refused) = {}
      BY <1>3 DEF Sure
    <3>. QED
      BY <1>5, <3>1
  <2>. QED
    BY <2>1, <2>2, <2>3 DEF AddsUp, Meets
<1>. QED
  BY <1>1, <1>2, <1>6 DEF Accounts

-----------------------------------------------------------------------------
(* The disputed orders *)

\* The order that waits in a book, once a dead process has executed it.
Retried(n, slots) ==
    {o \in {slots[n]} : \E f \in fills \cup refused : f.book = n /\ f.order = o}

\* An order becomes disputed only when it is executed again, and it waits again
\* only after a death: the disputed orders and the one that may become so are
\* no more than the deaths.
Disputes ==
    \A n \in Books : /\ IsFiniteSet(Disputed(n))
                     /\ Cardinality(Disputed(n) \cup Retried(n, slot)) <= crashes

LEMMA RetriedFinite ==
    ASSUME NEW n, NEW slots, NEW D, IsFiniteSet(D)
    PROVE  IsFiniteSet(D \cup Retried(n, slots))
<1>1. D \cup Retried(n, slots) \in SUBSET (D \cup {slots[n]})
  BY DEF Retried
<1>. QED
  BY <1>1, FS_AddElement, FS_Subset

LEMMA FewerDisputes ==
    ASSUME NEW S, NEW T, IsFiniteSet(S), T \subseteq S, NEW d \in Nat, Cardinality(S) <= d
    PROVE  IsFiniteSet(T) /\ Cardinality(T) <= d
<1>1. T \in SUBSET S
  OBVIOUS
<1>. QED
  BY <1>1, FS_Subset, FS_CardinalityType

\* A book with no more disputed orders and no other retried one.
LEMMA NoNewDispute ==
    ASSUME Disputes, crashes \in Nat, NEW n \in Books, crashes' = crashes,
           Disputed(n)' \subseteq Disputed(n) \cup Retried(n, slot),
           Retried(n, slot)' \subseteq Disputed(n) \cup Retried(n, slot)
    PROVE  IsFiniteSet(Disputed(n)') /\ Cardinality(Disputed(n)' \cup Retried(n, slot)') <= crashes'
<1>. DEFINE S == Disputed(n) \cup Retried(n, slot)
            D == Disputed(n)'
            R == Retried(n, slot)'
<1>1. IsFiniteSet(S) /\ Cardinality(S) <= crashes
  BY RetriedFinite DEF Disputes
<1>2. D \subseteq S /\ D \cup R \subseteq S
  OBVIOUS
<1>. HIDE DEF S, D, R
<1>3. IsFiniteSet(D) /\ Cardinality(D \cup R) <= crashes
  BY <1>1, <1>2, FewerDisputes
<1>. QED
  BY <1>3 DEF D, R

LEMMA DisputesStep == IInv /\ Disputes /\ [Next]_vars => Disputes'
<1>. SUFFICES ASSUME IInv, Disputes, [Next]_vars PROVE Disputes'
  OBVIOUS
<1>1. TypeOK /\ crashes \in Nat /\ Cycle /\ Journaled
  BY DEF IInv, TypeOK
<1>2. ASSUME NEW n \in Books, NEW m \in Books, Settle(m)
      PROVE  IsFiniteSet(Disputed(n)') /\ Cardinality(Disputed(n)' \cup Retried(n, slot)') <= crashes'
  <2>1. PICK f \in Fill :
           /\ f.book = m /\ f.order = slot[m] /\ f.order \in Order
           /\ slot' = [slot EXCEPT ![m] = None]
           /\ \/ fills' = Journal(f) /\ refused' = refused
              \/ UNCHANGED fills /\ refused' = refused \cup {f}
    BY <1>2, Execution
  <2>2. crashes' = crashes
    BY <1>2 DEF Settle
  <2>3. fills' \subseteq fills \cup {f} /\ refused' \subseteq refused \cup {f}
        /\ (fills' = fills \/ refused' = refused)
    BY <2>1 DEF Journal
  <2>4. Disputed(n)' \subseteq Disputed(n) \cup Retried(n, slot)
    BY <2>1, <2>3 DEF Disputed, Retried
  <2>5. Retried(n, slot)' \subseteq Disputed(n) \cup Retried(n, slot)
    <3>1. slot \in [Books -> Order \cup {None}] /\ (\A g \in fills' \cup refused' : g.order # None)
      <4>1. fills' \subseteq Fill /\ refused' \subseteq Fill
        BY <1>2, TypedSettle
      <4>. QED
        BY <4>1, BothTyped DEF IInv, Typed, Fill
    <3>2. CASE n = m
      BY <2>1, <3>1, <3>2 DEF Retried
    <3>3. CASE n # m
      BY <2>1, <2>3, <3>1, <3>3 DEF Retried
    <3>. QED
      BY <3>2, <3>3
  <2>. QED
    BY <1>1, <2>2, <2>4, <2>5, NoNewDispute
<1>3. ASSUME NEW n \in Books, Decide
      PROVE  IsFiniteSet(Disputed(n)') /\ Cardinality(Disputed(n)' \cup Retried(n, slot)') <= crashes'
  <2>1. UNCHANGED <<fills, refused, crashes, now, closed>> /\ phase = "settle"
    BY <1>3 DEF Decide
  <2>2. Disputed(n)' = Disputed(n)
    BY <2>1 DEF Disputed
  <2>3. CASE slot'[n] = slot[n]
    BY <1>1, <2>1, <2>2, <2>3, NoNewDispute DEF Retried
  <2>4. CASE slot'[n].asset = now.asset /\ slot'[n].bar = now.at
    <3>1. ASSUME NEW f \in fills \cup refused
          PROVE  f.order # slot'[n]
      <4>1. f \in Fill /\ f.order.bar < f.at /\ f.at \in closed[f.order.asset]
        BY <1>1 DEF TypeOK, Journaled
      <4>2. f.order.asset = now.asset => f.order.bar # now.at
        BY <1>1, <2>1, <4>1 DEF Cycle, InCycle, Fill, Order, Bars, Candle
      <4>. QED
        BY <2>4, <4>2
    <3>2. Retried(n, slot)' = {}
      BY <2>1, <3>1 DEF Retried
    <3>. QED
      BY <1>1, <2>1, <2>2, <3>2, NoNewDispute
  <2>. QED
    BY <1>3, <2>3, <2>4, Decision
<1>4. ASSUME NEW n \in Books, Restart
      PROVE  IsFiniteSet(Disputed(n)') /\ Cardinality(Disputed(n)' \cup Retried(n, slot)') <= crashes'
  <2>1. UNCHANGED <<fills, refused>> /\ crashes' = crashes + 1
    BY <1>4 DEF Restart
  <2>. DEFINE D == Disputed(n)  x == slot'[n]
  <2>2. D' = D /\ Retried(n, slot)' \subseteq {x}
    BY <2>1 DEF Disputed, Retried
  <2>3. IsFiniteSet(D) /\ Cardinality(D) <= crashes /\ Cardinality(D) \in Nat
    <3>1. IsFiniteSet(D \cup Retried(n, slot)) /\ D \subseteq D \cup Retried(n, slot)
          /\ Cardinality(D \cup Retried(n, slot)) <= crashes
      BY RetriedFinite DEF Disputes
    <3>2. IsFiniteSet(D) /\ Cardinality(D) <= crashes
      BY <1>1, <3>1, FewerDisputes
    <3>. QED
      BY <3>2, FS_CardinalityType
  <2>. HIDE DEF D, x
  <2>4. IsFiniteSet(D \cup {x}) /\ Cardinality(D \cup {x}) <= crashes + 1
    <3>1. /\ IsFiniteSet(D \cup {x})
          /\ Cardinality(D \cup {x}) \in {Cardinality(D), Cardinality(D) + 1}
      BY <2>3, FS_AddElement
    <3>. QED
      BY <1>1, <2>3, <3>1
  <2>5. D' \cup Retried(n, slot)' \subseteq D \cup {x}
    BY <2>2
  <2>6. Cardinality(D' \cup Retried(n, slot)') <= crashes + 1
    BY <1>1, <2>4, <2>5, FewerDisputes
  <2>. QED
    BY <2>1, <2>2, <2>3, <2>6 DEF D
<1>5. CASE UNCHANGED <<slot, fills, refused, crashes>>
  BY <1>5 DEF Disputes, Disputed, Retried
<1>. QED
  BY <1>2, <1>3, <1>4, <1>5
     DEF Next, WarmupBar, WarmupDone, AcceptBar, PersistState, vars, Disputes

LEMMA InitDisputes == Init => Disputes
<1>. SUFFICES ASSUME Init, NEW n \in Books
              PROVE  /\ IsFiniteSet(Disputed(n))
                     /\ Cardinality(Disputed(n) \cup Retried(n, slot)) <= crashes
  BY DEF Disputes
<1>1. Disputed(n) = {} /\ Disputed(n) \cup Retried(n, slot) = {} /\ crashes = 0
  BY DEF Init, Disputed, Retried
<1>. QED
  BY <1>1, FS_EmptySet

\* In memory and in the snapshot, a book of one asset holds what its journaled
\* fills add up to, up to the purchases that are both journaled and refused;
\* no book has more of those than deaths of the process, and the journal has
\* the fill that opened every position.
THEOREM JournalAndBooks == Spec => []JournalMeetsBook
<1>1. IInv /\ Accounts /\ Disputes => JournalMeetsBook
  <2>. SUFFICES ASSUME IInv, Accounts, Disputes
                PROVE  JournalMeetsBook
    OBVIOUS
  <2>1. ASSUME NEW s \in States, NEW n \in Books
        PROVE  FillsAddUp(s, n) /\ \A a \in Assets : Opened(s, n, a)
    <3>1. AddsUp(s[1], s[2]) /\ Opens(s[2])
      BY DEF Accounts, States
    <3>2. \A a \in Assets : Opened(s, n, a)
      BY <3>1 DEF Opens, Opened, OpenedBy
    <3>3. {f \in Done(n, s[1][n], "BUY", fills) : f.order \notin Disputed(n)}
             = Sure(n, s[1][n], fills, refused)
      BY DEF Sure, Done, Disputed, IInv, TypeOK, Fill
    <3>4. AssetOf[n] # None => Meets(n, s[1][n], s[2][n], fills, refused)
      BY <3>1 DEF AddsUp
    <3>5. FillsAddUp(s, n)
      BY <3>3, <3>4 DEF FillsAddUp, Meets, Done, Held
    <3>. QED
      BY <3>2, <3>5
  <2>2. ASSUME NEW n \in Books
        PROVE  Cardinality(Disputed(n)) <= crashes
    <3>1. IsFiniteSet(Disputed(n) \cup Retried(n, slot)) /\ crashes \in Nat
          /\ Cardinality(Disputed(n) \cup Retried(n, slot)) <= crashes
          /\ Disputed(n) \subseteq Disputed(n) \cup Retried(n, slot)
      BY RetriedFinite DEF Disputes, IInv, TypeOK
    <3>. QED
      BY <3>1, FewerDisputes
  <2>. QED
    BY <2>1, <2>2 DEF JournalMeetsBook
<1>2. IInv /\ Accounts /\ Disputes /\ [Next]_vars => (Accounts /\ Disputes)'
  BY AccountsStep, DisputesStep
<1>. QED
  BY Invariance, InitAccounts, InitDisputes, <1>1, <1>2, PTL DEF Spec
=============================================================================
