------------------------------ MODULE Research ------------------------------
(***************************************************************************)
(* The research commands over a dataset of `size' successive candles       *)
(* (models/splitting.py, experiment.py, training.py, freeze.py,            *)
(* artifacts.py).  A row of the dataset is the candle whose features are   *)
(* complete; rows are addressed by their position, while the label of a    *)
(* row reads the close of the candle `horizon' later.  Any candle may      *)
(* miss a feature (a flat candle has no body ratio), not only the first.   *)
(* A fit is the candles it trains on and those it predicts and is scored   *)
(* on; what estimators compute from them is left out.                      *)
(***************************************************************************)
EXTENDS Integers, FiniteSetsExt

CONSTANTS
    Horizons, Embargoes, TrainSizes, ValidationSizes, Steps,  \* of the commands
    FoldLimits,         \* max_folds of the commands
    HoldoutPercent,     \* final_fraction
    ValidationPercent,  \* validation_fraction of freeze_real_artifact()
    MinValidation,      \* 30 there
    MaxIncomplete,      \* bound: candles without complete features
    Versions,           \* bound: artifacts that can be frozen
    NoStudy, NoVersion

ASSUME ResearchAssumption ==
    /\ Horizons \subseteq Nat \ {0} /\ Embargoes \subseteq Nat
    /\ TrainSizes \subseteq Nat \ {0} /\ ValidationSizes \subseteq Nat \ {0}
    /\ Steps \subseteq Nat \ {0} /\ FoldLimits \subseteq Nat
    /\ HoldoutPercent \in 1..49 /\ ValidationPercent \in 0..100
    /\ MinValidation \in Nat \ {0} /\ MaxIncomplete \in Nat
    /\ NoVersion \notin Versions

VARIABLES
    study,     \* what the last command fitted, or NoStudy
    artifact,  \* the artifact file: a version, and whether its hash is right
    loaded,    \* promote: the version that is registered and not yet promoted
    registry   \* ModelRegistry: the status of each version

researchVars == <<study, artifact, loaded, registry>>

ResearchInit ==
    /\ study = NoStudy
    /\ artifact = [version |-> NoVersion, hash |-> "bad"]
    /\ loaded = NoVersion
    /\ registry = [v \in Versions |-> "absent"]

-----------------------------------------------------------------------------
(* Rows *)

\* MLDatasetBuilder.build(): complete features and a label.
Usable(complete, size, h) == {b \in complete : b + h <= size}

Position(rows, b) == Cardinality({r \in rows : r < b})

\* Mutant: positions are taken for candles.
MutSlice(rows, from, to) == from..(to - 1)

\* iloc[range(from, to)]
Slice(rows, from, to) == {b \in rows : from <= Position(rows, b) /\ Position(rows, b) < to}

\* seal_final_holdout()
SealAt(n) == (n * (100 - HoldoutPercent)) \div 100

Development(rows) == Slice(rows, 0, SealAt(Cardinality(rows)))
Holdout(rows)     == rows \ Development(rows)

\* Mutant: the purge forgets the horizon.
MutFold(rows, trained, from, to) ==
    [train |-> Slice(rows, 0, from), scored |-> Slice(rows, from, to)]

\* TemporalFold
Fold(rows, trained, from, to) ==
    [train |-> Slice(rows, 0, trained), scored |-> Slice(rows, from, to)]

\* chronological_holdout() of the first n rows; no fold: ValueError.
Chronological(rows, n, v, h, e) ==
    {Fold(rows, n - v - h - e, n - v, n) : x \in {y \in {v} : y > 0 /\ n - v - h - e > 0}}

\* Mutant: the last fold may end after the development rows.
MutWalkForward(rows, n, c) ==
    LET trained(k) == c.train + k * c.step
        from(k)    == trained(k) + c.horizon + c.embargo
    IN  {Fold(rows, trained(k), from(k), from(k) + c.validation) :
            k \in {j \in 0..n : from(j) <= n /\ j < c.folds}}

\* expanding_walk_forward() over the first n rows
WalkForward(rows, n, c) ==
    LET trained(k) == c.train + k * c.step
        from(k)    == trained(k) + c.horizon + c.embargo
    IN  {Fold(rows, trained(k), from(k), from(k) + c.validation) :
            k \in {j \in 0..n : from(j) + c.validation <= n /\ j < c.folds}}

-----------------------------------------------------------------------------
(* Commands *)

Configs == [horizon : Horizons, embargo : Embargoes, train : TrainSizes,
            validation : ValidationSizes, step : Steps, folds : FoldLimits]

\* walk_forward_train(): a model per fold, fitted on its train rows and asked
\* about its validation rows.
Study(kind, rows, h, fits) == [kind |-> kind, rows |-> rows, horizon |-> h, fits |-> fits]

\* run_experiment(): walk-forward over the development rows.
Experiment(size, complete, c) ==
    LET rows == Usable(complete, size, c.horizon)
        fits == WalkForward(rows, SealAt(Cardinality(rows)), c)
    IN  /\ study = NoStudy
        /\ fits # {}
        /\ study' = Study("experiment", rows, c.horizon, fits)
        /\ UNCHANGED <<artifact, loaded, registry>>

\* run_final_evaluation(): the seal is opened and the holdout scored.
FinalEvaluation(size, complete, h, e) ==
    LET rows == Usable(complete, size, h)
        n    == Cardinality(rows)
        fits == Chronological(rows, n, n - SealAt(n), h, e)
    IN  /\ study = NoStudy
        /\ fits # {}
        /\ study' = Study("final", rows, h, fits)
        /\ UNCHANGED <<artifact, loaded, registry>>

\* freeze_real_artifact(): a purged validation, then a fit of all development
\* rows, whose artifact is a new version.
FreezeModel(size, complete, h, v) ==
    LET rows  == Usable(complete, size, h)
        n     == SealAt(Cardinality(rows))
        part  == (n * ValidationPercent) \div 100
        valid == IF part < MinValidation THEN MinValidation ELSE part
        fits  == Chronological(rows, n, valid, h, 1)
    IN  /\ study = NoStudy
        /\ fits # {}
        /\ study' = Study("freeze", rows, h, fits \cup {Fold(rows, n, n, n)})
        /\ registry[v] = "absent" /\ v # artifact.version
        /\ artifact' \in [version : {v}, hash : {"good", "bad"}]
        /\ UNCHANGED <<loaded, registry>>

\* The command ends; nothing but the artifact is kept.
Exit ==
    /\ study # NoStudy
    /\ study' = NoStudy
    /\ UNCHANGED <<artifact, loaded, registry>>

\* Mutant: INSERT OR REPLACE
MutRegistered(v) == [registry EXCEPT ![v] = "candidate"]

\* INSERT OR IGNORE
Registered(v) == [registry EXCEPT ![v] = IF @ = "absent" THEN "candidate" ELSE @]

\* promote: load() refuses a file whose content does not match its version.
Register ==
    /\ loaded = NoVersion /\ artifact.version # NoVersion /\ artifact.hash = "good"
    /\ registry' = Registered(artifact.version)
    /\ loaded' = artifact.version
    /\ UNCHANGED <<study, artifact>>

PromoteToPaper ==
    /\ loaded # NoVersion
    /\ registry' = [registry EXCEPT ![loaded] = "paper"]
    /\ loaded' = NoVersion
    /\ UNCHANGED <<study, artifact>>

\* The command dies between the two commits.
PromoteDies ==
    /\ loaded # NoVersion
    /\ loaded' = NoVersion
    /\ UNCHANGED <<study, artifact, registry>>

StudyNext(size) ==
    \E lost \in UNION {kSubset(k, 1..size) : k \in 0..MaxIncomplete} :
        LET complete == (1..size) \ lost IN
        \/ \E c \in Configs : Experiment(size, complete, c)
        \/ \E h \in Horizons, e \in Embargoes : FinalEvaluation(size, complete, h, e)
        \/ \E h \in Horizons, v \in Versions : FreezeModel(size, complete, h, v)

\* promote reads the artifact file and no dataset.
PromoteNext == Register \/ PromoteToPaper \/ PromoteDies

-----------------------------------------------------------------------------
ResearchTypeOK ==
    /\ artifact \in [version : Versions \cup {NoVersion}, hash : {"good", "bad"}]
    /\ loaded \in Versions \cup {NoVersion}
    /\ registry \in [Versions -> {"absent", "candidate", "paper"}]
    /\ study # NoStudy =>
          /\ study.kind \in {"experiment", "final", "freeze"}
          /\ study.horizon \in Horizons
          /\ study.rows \in SUBSET Nat
          /\ \A f \in study.fits : f.train \subseteq study.rows /\ f.scored \subseteq study.rows

\* No label a model was fitted on reads the close of a candle it is scored on
\* or of a later one, although the purge counts rows and labels count candles.
Purged ==
    study # NoStudy =>
        \A f \in study.fits : \A t \in f.train, s \in f.scored : t + study.horizon < s

\* Until the final evaluation no row of the holdout is fitted or scored, and
\* the labels of a fit that is scored end before the first of them.  Labels
\* are another matter: the final fit of a frozen artifact is on every
\* development row, the last of whose labels read closes of the holdout, and so
\* do the labels an experiment scores against.  They reach at most `horizon'
\* rows of it, whatever rows are missing.  The final evaluation scores the
\* whole holdout.
SealHolds ==
    study # NoStudy =>
        LET sealed     == Holdout(study.rows)
            reached(f) == {r \in sealed : \E b \in f.train \cup f.scored :
                                             r <= b + study.horizon}
        IN  \A f \in study.fits :
                /\ study.kind # "final" =>
                      /\ \A b \in f.train \cup f.scored, r \in sealed : b < r
                      /\ Cardinality(reached(f)) <= study.horizon
                /\ f.scored # {} =>
                      \A b \in f.train, r \in sealed : b + study.horizon < r
                /\ study.kind = "final" => sealed \subseteq f.scored

\* A version that trades on paper is never a candidate again, and only
\* versions whose file was whole are known.
StatusStands ==
    \A v \in Versions :
        /\ registry[v] = "paper" => registry'[v] = "paper"
        /\ registry[v] = "absent" /\ registry'[v] # "absent" =>
              artifact.version = v /\ artifact.hash = "good"

RegistryStands == [][StatusStands]_registry
=============================================================================
