------------------------------ MODULE Offline ------------------------------
(***************************************************************************)
(* The offline pipeline: the dataset that MarketData fetches is what the   *)
(* commands of Research load, each in a process of its own, at any time.   *)
(* Nothing compares the file with its manifest.                            *)
(***************************************************************************)
EXTENDS MarketData, Research

vars == <<marketVars, researchVars>>

Init == MarketInit /\ ResearchInit

\* load_bars_csv() and a command
Command ==
    /\ step = "idle" /\ Loadable(file)
    /\ \E size \in 1..MaxBar : size = Len(file) /\ StudyNext(size)
    /\ UNCHANGED marketVars

Next ==
    \/ MarketNext /\ UNCHANGED researchVars
    \/ Command
    \/ (Exit \/ PromoteNext) /\ UNCHANGED marketVars

Spec == Init /\ [][Next]_vars /\ MarketFairness

TypeOK == MarketTypeOK /\ ResearchTypeOK
=============================================================================
