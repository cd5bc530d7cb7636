-------------------------- MODULE PredictionLedger --------------------------
(***************************************************************************)
(* What a forward experiment promises, without daemons, commands, reads of *)
(* a database or restarts: candles come in order, a prediction is about    *)
(* the latest one, and it is judged once, in one step, when the frozen     *)
(* number of candles has closed since.  Nothing is ever changed or taken   *)
(* back.  FORWARD_EXPERIMENT_V1.md promises this experiment ("Prediction   *)
(* horizon: 6 closed bars", "An experiment that has started is             *)
(* immutable").  ForwardExperiment implements it, although two programs    *)
(* judge from what they have read earlier and the daemon dies anywhere,    *)
(* as far as outcomes at the frozen horizon go: `experiment report` may    *)
(* also write outcomes at another one, which this ledger does not have.    *)
(***************************************************************************)
EXTENDS Integers, FiniteSets

CONSTANTS Assets, Times, Configs, Horizon, None

VARIABLES
    experiment, \* the configuration of the experiment, None before it starts
    past,       \* per asset, the candles that have closed
    made,       \* the predictions
    judged      \* their outcomes: with which candle each was judged

ledgerVars == <<experiment, past, made, judged>>

Init == /\ experiment = None
        /\ past = [a \in Assets |-> {}]
        /\ made = {}
        /\ judged = {}

Begin(c) ==
    /\ experiment = None
    /\ experiment' = c
    /\ UNCHANGED <<past, made, judged>>

Close(a, t) ==
    /\ \A u \in past[a] : u < t
    /\ past' = [past EXCEPT ![a] = @ \cup {t}]
    /\ UNCHANGED <<experiment, made, judged>>

Latest(a, t) == t \in past[a] /\ \A u \in past[a] : u <= t

Predict(a, t) ==
    /\ experiment # None
    /\ Latest(a, t)
    /\ made' = made \cup {[asset |-> a, time |-> t, experiment |-> experiment]}
    /\ UNCHANGED <<experiment, past, judged>>

\* The candles that have closed since the prediction q, up to u.
Since(q, u) == {v \in past[q.asset] : q.time < v /\ v <= u}

\* The prediction q is judged with u, the candle that closed a horizon later.
Settle(q, u) ==
    /\ q.time < u /\ Cardinality(Since(q, u)) = Horizon
    /\ \A o \in judged : o.prediction # q
    /\ judged' = judged \cup {[prediction |-> q, maturity |-> u]}
    /\ UNCHANGED <<experiment, past, made>>

Next == \/ \E c \in Configs : Begin(c)
        \/ \E a \in Assets, t \in Times : Close(a, t) \/ Predict(a, t)
        \/ \E q \in made : \E u \in past[q.asset] : Settle(q, u)

Spec == Init /\ [][Next]_ledgerVars
=============================================================================
