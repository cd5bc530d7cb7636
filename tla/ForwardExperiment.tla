------------------------- MODULE ForwardExperiment -------------------------
(***************************************************************************)
(* The forward experiment of paper/forward.py: the lock on its frozen      *)
(* configuration, the predictions that the cycles of the daemon journal,   *)
(* and mature_predictions(), which two programs run on one database: the   *)
(* daemon at the end of each cycle and `experiment report` at any time.    *)
(* The daemon may run without an experiment, die anywhere and come back    *)
(* with another frozen configuration.                                      *)
(*                                                                         *)
(* Data.  Candle t of an asset is a number; a prediction or an outcome is  *)
(* reduced to where it came from.  Every configuration has the same        *)
(* horizon.  The buffer is that of PaperEngine: rebuilt from the journal,  *)
(* it accepts what is later than the latest journaled candle.  One daemon  *)
(* and one report run at a time.                                           *)
(***************************************************************************)
EXTENDS Integers, FiniteSets

CONSTANTS
    Assets,
    Configs,        \* frozen configurations, each an experiment
    Horizon,        \* target.prediction_horizon of the configurations
    ReportHorizons, \* --horizon of `experiment report`
    MaxTime,        \* bound: candles of an asset
    MaxStarts,      \* bound: starts of the daemon
    MaxReports,     \* bound: runs of `experiment report`
    None

ASSUME ExperimentAssumption ==
    /\ Horizon \in Nat \ {0} /\ ReportHorizons \subseteq Nat \ {0}
    /\ MaxTime \in Nat /\ MaxStarts \in Nat /\ MaxReports \in Nat
    /\ None \notin Configs /\ None \notin Assets

Times    == 1..MaxTime
Horizons == {Horizon} \cup ReportHorizons
Programs == {"daemon", "report"}

VARIABLES
    lock,         \* state "forward_experiment": its configuration, or None
    closed,       \* closed_bar events: per asset, the times
    predictions,  \* forward_prediction events
    outcomes,     \* forward_outcome events; by, who wrote it, is auxiliary
    step,         \* per program, where it stands
    config,       \* of the running daemon, None without an experiment
    bar,          \* the candle of the cycle
    horizon,      \* per program, the horizon_bars of mature_predictions()
    view,         \* per program, the candles it has read
    todo,         \* per program, the predictions it has read and not judged
    settled,      \* auxiliary: this daemon has judged since it started
    starts, reports

journal == <<lock, closed, predictions, outcomes>>
locals  == <<horizon, view, todo>>
daemon  == <<config, bar>>
vars    == <<journal, step, locals, daemon, settled, starts, reports>>

Prediction == [asset : Assets, time : Times, experiment : Configs]
Outcome    == [prediction : Prediction, horizon : Horizons, maturity : Times,
               by : Programs]

NoCandles == [a \in Assets |-> {}]

Init ==
    /\ lock = None
    /\ closed = NoCandles /\ predictions = {} /\ outcomes = {}
    /\ step = [p \in Programs |-> "off"]
    /\ config = None /\ bar = None
    /\ horizon = [p \in Programs |-> Horizon]
    /\ view = [p \in Programs |-> NoCandles]
    /\ todo = [p \in Programs |-> {}]
    /\ settled = "no" /\ starts = 0 /\ reports = 0

Go(p, s) == step' = [step EXCEPT ![p] = s]

\* What p has read is gone when mature_predictions() or its process ends.
Forget(p) ==
    /\ view' = [view EXCEPT ![p] = NoCandles]
    /\ todo' = [todo EXCEPT ![p] = {}]

-----------------------------------------------------------------------------
(* The daemon *)

\* Mutant: a configuration that differs from the started one is accepted.
MutMayStart(c) == TRUE

\* start_or_resume(): the stored configuration is the given one or there is none.
MayStart(c) == lock \in {None, c}

Start(c) ==
    /\ step["daemon"] = "off"
    /\ starts < MaxStarts
    /\ starts' = starts + 1
    /\ \/ c = None /\ UNCHANGED lock
       \/ c # None /\ MayStart(c) /\ lock' = IF lock = None THEN c ELSE lock
    /\ config' = c
    /\ settled' = "no"
    /\ Go("daemon", IF closed = NoCandles THEN "warmup" ELSE "idle")
    /\ UNCHANGED <<closed, predictions, outcomes, locals, bar, reports>>

\* Mutant: a candle that fills a gap is taken after later ones.
MutAccepts(a, t) == t \notin closed[a]

Accepts(a, t) == \A u \in closed[a] : u < t

JournalBar(a, t) ==
    /\ Accepts(a, t)
    /\ closed' = [closed EXCEPT ![a] = @ \cup {t}]

\* warmup(), of a daemon that starts on a journal without candles: candles of
\* the past, which nothing predicts.
Warmup(a, t) ==
    /\ step["daemon"] = "warmup"
    /\ JournalBar(a, t)
    /\ UNCHANGED <<lock, predictions, outcomes, step, locals, daemon, settled,
                   starts, reports>>

Warm ==
    /\ step["daemon"] = "warmup"
    /\ Go("daemon", "idle")
    /\ UNCHANGED <<journal, locals, daemon, settled, starts, reports>>

\* process(): the candle is journaled.
AcceptBar(a, t) ==
    /\ step["daemon"] = "idle"
    /\ JournalBar(a, t)
    /\ bar' = [asset |-> a, time |-> t]
    /\ Go("daemon", "predict")
    /\ UNCHANGED <<lock, predictions, outcomes, locals, config, settled,
                   starts, reports>>

\* The prediction of the candle, if the features are warm, and the rest of the
\* cycle.  Without an experiment nothing is predicted or matured.
Predict ==
    /\ step["daemon"] = "predict"
    /\ \/ /\ config # None
          /\ \E made \in {{}, {[asset |-> bar.asset, time |-> bar.time,
                                experiment |-> config]}} :
                predictions' = predictions \cup made
          /\ Go("daemon", "bars")
       \/ /\ config = None
          /\ Go("daemon", "idle")
          /\ UNCHANGED predictions
    /\ horizon' = [horizon EXCEPT !["daemon"] = Horizon]
    /\ UNCHANGED <<lock, closed, outcomes, view, todo, daemon, settled, starts, reports>>

Die ==
    /\ step["daemon"] # "off"
    /\ Go("daemon", "off")
    /\ Forget("daemon")
    /\ config' = None /\ bar' = None
    /\ UNCHANGED <<journal, horizon, settled, starts, reports>>

-----------------------------------------------------------------------------
(* mature_predictions() *)

\* `experiment report` of the started experiment.
Report(h) ==
    /\ step["report"] = "off"
    /\ reports < MaxReports
    /\ reports' = reports + 1
    /\ horizon' = [horizon EXCEPT !["report"] = h]
    /\ Go("report", "bars")
    /\ UNCHANGED <<journal, view, todo, daemon, settled, starts>>

ReadBars(p) ==
    /\ step[p] = "bars"
    /\ view' = [view EXCEPT ![p] = closed]
    /\ Go(p, "predictions")
    /\ UNCHANGED <<journal, horizon, todo, daemon, settled, starts, reports>>

\* Mutant: a cycle matures the predictions of its own asset only.
MutToJudge == {q \in predictions : q.experiment = lock /\ bar # None /\ q.asset = bar.asset}

\* The predictions of the experiment, whichever process and cycle made them.
ToJudge == {q \in predictions : q.experiment = lock}

ReadPredictions(p) ==
    /\ step[p] = "predictions"
    /\ todo' = [todo EXCEPT ![p] = ToJudge]
    /\ Go(p, "judge")
    /\ UNCHANGED <<journal, horizon, view, daemon, settled, starts, reports>>

\* Mutant: a prediction matures a candle early.
MutAfter(S, t, u) == {v \in S : t <= v /\ v <= u}

\* The candles of S between the prediction at t and u.
After(S, t, u) == {v \in S : t < v /\ v <= u}

\* Mutant: any candle late enough, as if the latest one were taken.
MutMaturity(S, t, h) == {u \in S : t \in S /\ t <= u /\ Cardinality(After(S, t, u)) >= h}

\* Where the prediction at t matures in the candles S: the position of t plus h.
Maturity(S, t, h) == {u \in S : t \in S /\ t <= u /\ Cardinality(After(S, t, u)) = h}

\* Mutant: the identifier of an outcome contains its maturity.
MutKey(o) == <<o.prediction, o.maturity>>

\* f"outcome:{pid}"
Key(o) == o.prediction

\* exists() and append(), INSERT OR IGNORE
Recorded(o) == \E r \in outcomes : Key(r) = Key(o)

Record(o) == outcomes' = IF Recorded(o) THEN outcomes ELSE outcomes \cup {o}

Judge(p) ==
    /\ step[p] = "judge"
    /\ \E q \in todo[p] :
          /\ todo' = [todo EXCEPT ![p] = @ \ {q}]
          /\ \/ \E u \in Maturity(view[p][q.asset], q.time, horizon[p]) :
                   Record([prediction |-> q, horizon |-> horizon[p], maturity |-> u,
                           by |-> p])
             \/ /\ Maturity(view[p][q.asset], q.time, horizon[p]) = {}
                /\ UNCHANGED outcomes
    /\ UNCHANGED <<lock, closed, predictions, step, horizon, view, daemon, settled,
                   starts, reports>>

Judged(p) ==
    /\ step[p] = "judge" /\ todo[p] = {}
    /\ Go(p, IF p = "daemon" THEN "idle" ELSE "off")
    /\ settled' = IF p = "daemon" THEN "yes" ELSE settled
    /\ Forget(p)
    /\ UNCHANGED <<journal, horizon, daemon, starts, reports>>

-----------------------------------------------------------------------------
Next ==
    \/ \E c \in Configs \cup {None} : Start(c)
    \/ \E a \in Assets, t \in Times : Warmup(a, t) \/ AcceptBar(a, t)
    \/ Warm \/ Predict \/ Die
    \/ \E h \in ReportHorizons : Report(h)
    \/ \E p \in Programs :
          ReadBars(p) \/ ReadPredictions(p) \/ Judge(p) \/ Judged(p)

Spec == Init /\ [][Next]_vars

-----------------------------------------------------------------------------
\* Among the types: a daemon runs the stored configuration or none.
TypeOK ==
    /\ lock \in Configs \cup {None}
    /\ closed \in [Assets -> SUBSET Times]
    /\ predictions \in SUBSET Prediction
    /\ outcomes \in SUBSET Outcome
    /\ step \in [Programs -> {"off", "warmup", "idle", "predict", "bars",
                              "predictions", "judge"}]
    /\ config \in Configs \cup {None}
    /\ config # None => config = lock
    /\ bar \in [asset : Assets, time : Times] \cup {None}
    /\ step["daemon"] = "predict" => bar \in [asset : Assets, time : Times]
    /\ horizon \in [Programs -> Horizons]
    /\ view \in [Programs -> [Assets -> SUBSET Times]]
    /\ todo \in [Programs -> SUBSET Prediction]
    /\ settled \in {"yes", "no"}
    /\ starts \in 0..MaxStarts /\ reports \in 0..MaxReports

\* Every prediction belongs to the experiment whose configuration is stored.
OneExperiment == \A q \in predictions : q.experiment = lock

\* Whoever judges, in whatever order and after whatever crash, a prediction
\* has at most one outcome.
OneOutcome == \A o, r \in outcomes : o.prediction = r.prediction => o = r

\* An outcome was judged with the candles read at some earlier moment, yet it
\* is what the journal says now and will say for ever: its maturity is the
\* journaled candle with exactly its horizon of candles since the prediction.
\* That horizon is the frozen one, unless `experiment report` wrote the outcome
\* with another --horizon, which the code lets it do.
OutcomesStand ==
    \A o \in outcomes :
        LET q == o.prediction
        IN  /\ {q.time, o.maturity} \subseteq closed[q.asset]
            /\ q.time < o.maturity
            /\ Cardinality({v \in closed[q.asset] : q.time < v /\ v <= o.maturity})
                  = o.horizon
            /\ o.horizon # Horizon => o.by = "report"

\* A prediction is journaled only while its candle is the latest of its asset:
\* no restart predicts a candle whose future is known.
PredictsForward ==
    \A q \in predictions' \ predictions :
        q.time \in closed[q.asset] /\ \A u \in closed[q.asset] : u <= q.time

ForwardOnly == [][PredictsForward]_vars

\* Between the cycles of a daemon that has finished one, no prediction with
\* enough candles behind it is without an outcome, those of earlier processes
\* included.  (One that a report wrote at another horizon takes its place.)
NothingOverdue ==
    step["daemon"] = "idle" /\ settled = "yes" =>
        \A q \in predictions :
            Maturity(closed[q.asset], q.time, Horizon) # {} =>
                \E o \in outcomes : o.prediction = q

\* The outcomes at the frozen horizon.
Frozen ==
    {[prediction |-> o.prediction, maturity |-> o.maturity] :
        o \in {r \in outcomes : r.horizon = Horizon}}

\* The experiment is the one of PredictionLedger: what two programs judge at
\* the frozen horizon, from earlier reads and between deaths and restarts,
\* could have been judged in one step with the journal as it was when the
\* outcome was written.  Outcomes of a report at another horizon are no part of
\* it.
Ledger == INSTANCE PredictionLedger WITH
    experiment <- lock,
    past       <- closed,
    made       <- predictions,
    judged     <- Frozen

LedgerSpec == Ledger!Spec
=============================================================================
