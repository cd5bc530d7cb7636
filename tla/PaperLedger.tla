---------------------------- MODULE PaperLedger ----------------------------
(***************************************************************************)
(* What a paper account promises, without a journal, a snapshot or a cycle *)
(* of its own: an asset has at most one outstanding order; an order is     *)
(* settled once, on a later candle, by a refusal or by one fill; and the   *)
(* fill, the holding and the ledger entry are one step.  The documentation *)
(* promises this account ("atomic state snapshot", decision cycles         *)
(* "idempotent across crashes"); PaperEngine implements it as long as its  *)
(* process does not die.                                                   *)
(***************************************************************************)
EXTENDS Integers

CONSTANTS Assets, Times, Lots, None   \* Times and Lots: positive numbers

Order == [asset : Assets, time : Times, side : {"BUY", "SELL"}, qty : Lots]

VARIABLES
    open,   \* per asset, the outstanding order
    held,   \* lots held
    ledger, \* the settled fills
    placed  \* every order ever placed

ledgerVars == <<open, held, ledger, placed>>

Init == /\ open = [a \in Assets |-> None]
        /\ held = [a \in Assets |-> 0]
        /\ ledger = {}
        /\ placed = {}

\* A new purchase of any size, or the sale of the whole holding.
Place(o) ==
    /\ open[o.asset] = None
    /\ o \notin placed
    /\ o.side = "SELL" => o.qty = held[o.asset]
    /\ open' = [open EXCEPT ![o.asset] = o]
    /\ placed' = placed \cup {o}
    /\ UNCHANGED <<held, ledger>>

Settles(a, t) ==
    /\ open[a] # None
    /\ t > open[a].time
    /\ open' = [open EXCEPT ![a] = None]
    /\ UNCHANGED placed

Refuse(a, t) == Settles(a, t) /\ UNCHANGED <<held, ledger>>

\* A sale fills whole, a purchase in part or whole.
Fill(a, t, q) ==
    LET o == open[a]
    IN  /\ Settles(a, t)
        /\ q \in 1..o.qty
        /\ o.side = "SELL" => q = o.qty
        /\ held' = [held EXCEPT ![a] = IF o.side = "BUY" THEN @ + q ELSE @ - q]
        /\ ledger' = ledger \cup {[order |-> o, time |-> t, qty |-> q]}

Next == \/ \E o \in Order : Place(o)
        \/ \E a \in Assets, t \in Times :
              Refuse(a, t) \/ \E q \in Lots : Fill(a, t, q)

Spec == Init /\ [][Next]_ledgerVars
=============================================================================
