----------------------------- MODULE MarketData -----------------------------
(***************************************************************************)
(* Historical candles: BinancePublicData.fetch_bars(), the command         *)
(* prepare-data that writes them to a file with a manifest, and the        *)
(* validation of the file when it is loaded.                               *)
(*                                                                         *)
(* Data.  Candle b opens at time 2b, so odd times lie inside a candle.     *)
(* Candle `latest' is in progress; a row of it that the exchange returns   *)
(* holds the prices so far ("open").                                       *)
(***************************************************************************)
EXTENDS Integers, SequencesExt

CONSTANTS
    MaxBar,     \* bound: candles of the exchange
    Histories,  \* the sets of candles the exchange may have (outages are holes)
    Intervals,  \* the <<start, end>> an operator may ask for
    Limit,      \* rows of a page
    Attempts,   \* attempts of a request
    MaxAsks,    \* bound: commands
    None

Bars  == 1..MaxBar
Times == 0..(2 * MaxBar + 1)
Row   == [bar : Bars, state : {"final", "open", "cut"}]
Job   == [start : Times, end : Times, asked : Bars]

ASSUME MarketAssumption ==
    /\ MaxBar \in Nat \ {0} /\ Limit \in Nat \ {0} /\ Attempts \in Nat \ {0}
    /\ MaxAsks \in Nat
    /\ Histories \subseteq SUBSET Bars
    /\ Intervals \subseteq Times \X Times
    /\ None \notin Job

VARIABLES
    listed,    \* the candles the exchange has or will have
    latest,    \* the candle in progress
    step,      \* of the command: idle, fetch, write, sign
    job,       \* its interval and the candle in progress when it asked, or None
    current,   \* fetch_bars(): where the next page starts
    attempt,   \* fetch_bars(): failed attempts of this request
    output,    \* fetch_bars(): the rows so far
    file,      \* the dataset
    manifest,  \* the rows the manifest describes, or None
    asks       \* auxiliary: commands so far

command    == <<step, job, current, attempt, output>>
marketVars == <<listed, latest, command, file, manifest, asks>>

\* The command ends, well or not, and what it had in memory goes.
Ended ==
    /\ step' = "idle" /\ job' = None
    /\ current' = 0 /\ attempt' = 0 /\ output' = <<>>

MarketInit ==
    /\ listed \in Histories
    /\ latest \in Bars
    /\ step = "idle" /\ job = None
    /\ current = 0 /\ attempt = 0 /\ output = <<>>
    /\ file = <<>> /\ manifest = None
    /\ asks = 0

\* Time passes; it is of no consequence while nothing is fetched.
CandleOpens ==
    /\ step = "fetch" /\ latest < MaxBar
    /\ latest' = latest + 1
    /\ UNCHANGED <<listed, command, file, manifest, asks>>

Ask(i) ==
    /\ step = "idle" /\ asks < MaxAsks
    /\ asks' = asks + 1
    /\ step' = "fetch"
    /\ job' = [start |-> i[1], end |-> i[2], asked |-> latest]
    /\ current' = i[1] /\ attempt' = 0 /\ output' = <<>>
    /\ UNCHANGED <<listed, latest, file, manifest>>

\* What the exchange has from startTime to endTime, both included.
Available == {b \in listed : current <= 2 * b /\ 2 * b <= job.end /\ b <= latest}

\* The earliest Limit of them, in order.
Page ==
    LET nth(i) == CHOOSE b \in Available : Cardinality({c \in Available : c <= b}) = i
        n      == Cardinality(Available)
    IN  [i \in 1..(IF n < Limit THEN n ELSE Limit) |->
            [bar |-> nth(i), state |-> IF nth(i) < latest THEN "final" ELSE "open"]]

Requesting == step = "fetch" /\ current < job.end

\* Mutant: the next page starts after a whole candle.
MutNextStart(rows) == 2 * Last(rows).bar + 3

\* One millisecond after the last candle opened.
NextStart(rows) == 2 * Last(rows).bar + 1

\* The exchange honours startTime, so that every page advances.
ReadPage ==
    /\ Requesting /\ Available # {}
    /\ output' = output \o Page
    /\ current' = NextStart(Page)
    /\ attempt' = 0
    /\ UNCHANGED <<listed, latest, step, job, file, manifest, asks>>

\* An empty page, or the end of the interval.
FetchEnds ==
    /\ step = "fetch"
    /\ current < job.end => Available = {}
    /\ step' = "write"
    /\ UNCHANGED <<listed, latest, job, current, attempt, output, file, manifest, asks>>

\* Mutant: the attempts are not counted.
MutRetry ==
    /\ attempt' = (attempt + 1) % Attempts
    /\ UNCHANGED <<step, job, current, output>>

Retry ==
    IF attempt + 1 < Attempts
    THEN attempt' = attempt + 1 /\ UNCHANGED <<step, job, current, output>>
    ELSE Ended

\* An error or a 429, after a sleep.  The last one ends the command: an error
\* with PublicDataError, a 429 because its body is read as rows.
AttemptFails ==
    /\ Requesting
    /\ Retry
    /\ UNCHANGED <<listed, latest, file, manifest, asks>>

\* prepare-data refuses to write an empty dataset.
NothingFetched ==
    /\ step = "write" /\ output = <<>>
    /\ Ended
    /\ UNCHANGED <<listed, latest, file, manifest, asks>>

WriteRows ==
    /\ step = "write" /\ output # <<>>
    /\ file' = output
    /\ step' = "sign"
    /\ UNCHANGED <<listed, latest, job, current, attempt, output, manifest, asks>>

\* The process dies in the middle of the file, perhaps of a row.
DiesWriting(k) ==
    /\ step = "write" /\ k < Len(output)
    /\ \/ file' = SubSeq(output, 1, k)
       \/ file' = Append(SubSeq(output, 1, k), [output[k + 1] EXCEPT !.state = "cut"])
    /\ Ended
    /\ UNCHANGED <<listed, latest, manifest, asks>>

\* build_manifest()
WriteManifest ==
    /\ step = "sign"
    /\ manifest' = output
    /\ Ended
    /\ UNCHANGED <<listed, latest, file, asks>>

\* The process dies with the file written and the old manifest beside it.
DiesUnsigned ==
    /\ step = "sign"
    /\ Ended
    /\ UNCHANGED <<listed, latest, file, manifest, asks>>

FetchStep  == ReadPage \/ FetchEnds \/ AttemptFails

MarketNext ==
    \/ CandleOpens
    \/ \E i \in Intervals : Ask(i)
    \/ FetchStep
    \/ NothingFetched \/ WriteRows \/ WriteManifest
    \/ \E k \in 0..MaxBar : DiesWriting(k)
    \/ DiesUnsigned

\* validate_bar_series(): successive candles; a row cut short is refused, or
\* read with a shorter number, as the reader of the file sees it.
Loadable(rows) ==
    /\ rows # <<>>
    /\ \A i \in 1..(Len(rows) - 1) : rows[i + 1].bar = rows[i].bar + 1

-----------------------------------------------------------------------------
MarketTypeOK ==
    /\ listed \in Histories /\ latest \in Bars
    /\ step \in {"idle", "fetch", "write", "sign"}
    /\ job \in Job \cup {None}
    /\ (step = "idle") <=> (job = None)
    /\ current \in Nat /\ attempt \in 0..(Attempts - 1)
    /\ output \in Seq(Row) /\ file \in Seq(Row)
    /\ manifest \in Seq(Row) \cup {None}
    /\ asks \in 0..MaxAsks

BarsOf(rows) == {rows[i].bar : i \in 1..Len(rows)}

\* The rows follow each other in time and the exchange has no candle between
\* two of them.
Unbroken(rows) ==
    \A i \in 1..(Len(rows) - 1) :
        /\ rows[i].bar < rows[i + 1].bar
        /\ ~\E b \in listed : rows[i].bar < b /\ b < rows[i + 1].bar

\* Whatever pages, failures and new candles do, a completed fetch has every
\* candle of its interval that was there when it was asked, and those that
\* were closed by then with their final prices; it and the file, which a death
\* cuts off at any row, have no row twice, out of order or left out.
FetchIsExact ==
    /\ Unbroken(output) /\ Unbroken(file)
    /\ \A i \in 1..(Len(file) - 1) : file[i].state # "cut"
    /\ \A i \in 1..Len(output) :
          output[i].bar < job.asked => output[i].state = "final"
    /\ step \in {"write", "sign"} /\ job.start < job.end =>
          LET within(last) == {b \in listed : /\ job.start <= 2 * b /\ 2 * b <= job.end
                                              /\ b <= last}
          IN  within(job.asked) \subseteq BarsOf(output) /\ BarsOf(output) \subseteq within(latest)

\* A fetch ends, well or with an exception, if its requests are answered: no
\* page is asked for twice.
FetchTerminates == step = "fetch" ~> step # "fetch"

MarketFairness == WF_marketVars(FetchStep)
=============================================================================
