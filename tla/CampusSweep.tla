---------------------------- MODULE CampusSweep -----------------------------
(***************************************************************************)
(* How the results of the campus Wi-Fi study are collected: a sweep        *)
(* (tools/run_sweeps.py) executes the simulation once per point of a grid, *)
(* each execution (scratch/campus-wifi-msuiit.cc) appends its rows to      *)
(* summary.csv, and the analysis and the dashboard read that file through  *)
(* load_summary (tools/qos_metrics.py), at any moment.                     *)
(*                                                                         *)
(* The user may interrupt a sweep at any moment (Ctrl+C reaches the script *)
(* and the simulation), start another with the same or other arguments,    *)
(* and delete the results.  An execution may fail at any moment.  What it  *)
(* writes to summary.csv fits the buffer of its stream, so the file gets   *)
(* it when the stream is closed and not at all when the process dies.      *)
(***************************************************************************)
EXTENDS Integers, Sequences

CONSTANTS
    Grid,       \* the points of a sweep (scenario, stations, run), in the
                \* order of the nested loops of main
    Settings,   \* the other arguments of a sweep
    Identity,   \* Identity[s]: what the columns RUN_IDENTITY_COLUMNS of a
                \* row tell of the arguments s
    Classes,    \* the values of traffic_class, in the order of the rows
    MaxExecs    \* bound: how many executions are started

ASSUME GridAssumption     == Grid \in Seq(STRING) /\ Len(Grid) > 0
ASSUME ClassesAssumption  == Classes \in Seq(STRING) /\ Len(Classes) > 0
ASSUME MaxExecsAssumption == MaxExecs \in Nat

VARIABLES
    pc,         \* "shell": no sweep; "loop": between two executions; else
                \* the stage of the execution that runs
    settings,   \* the arguments of the sweep
    k,          \* the position of its loops in Grid
    failures,
    execs,      \* every execution started: what it ran and how it ended
    needHeader, \* the execution is the one that writes the header
    exists,     \* does summary.csv exist?
    lines       \* the lines of summary.csv

sweep   == <<settings, k, failures>>
summary == <<exists, lines>>
vars    == <<pc, sweep, execs, needHeader, summary>>

Points    == {Grid[i] : i \in DOMAIN Grid}
ClassSet  == {Classes[i] : i \in DOMAIN Classes}
Executing == {"simulate", "append", "destroy"}
Statuses  == {"running", "ok", "failed", "interrupted", "deleted"}
Execution == [point : Points, settings : Settings, status : Statuses]
Header    == [exec |-> 0, class |-> "header"]
Lines     == {Header} \cup [exec : 1 .. MaxExecs, class : ClassSet]

Init ==
    /\ pc = "shell"
    /\ settings \in Settings
    /\ k = 1
    /\ failures = 0
    /\ execs = << >>
    /\ needHeader = FALSE
    /\ exists = FALSE
    /\ lines = << >>
-----------------------------------------------------------------------------
(* run_sweeps.py                                                           *)

StartSweep(s) ==
    /\ pc = "shell"
    /\ pc' = "loop"
    /\ settings' = s
    /\ k' = 1
    /\ failures' = 0
    /\ UNCHANGED <<execs, needHeader, summary>>

\* A resumed sweep is a sweep: it executes every point again.
RunOne ==
    /\ pc = "loop"
    /\ k <= Len(Grid)
    /\ Len(execs) < MaxExecs
    /\ execs' = Append(execs, [point |-> Grid[k], settings |-> settings,
                               status |-> "running"])
    /\ pc' = "simulate"
    /\ UNCHANGED <<sweep, needHeader, summary>>

\* The execution returns, and the loops go on whatever it returned.
EndsWith(status) == execs' = [execs EXCEPT ![Len(execs)].status = status]

Succeeds ==
    /\ pc = "destroy"
    /\ pc' = "loop"
    /\ k' = k + 1
    /\ EndsWith("ok")
    /\ UNCHANGED <<settings, failures, needHeader, summary>>

\* A mutant: the return code is not looked at.
FailsUnseen ==
    /\ pc \in Executing
    /\ pc' = "loop"
    /\ k' = k + 1
    /\ EndsWith("failed")
    /\ UNCHANGED <<settings, failures, needHeader, summary>>

Fails ==
    /\ pc \in Executing
    /\ pc' = "loop"
    /\ k' = k + 1
    /\ failures' = failures + 1
    /\ EndsWith("failed")
    /\ UNCHANGED <<settings, needHeader, summary>>

\* "Completed total - failures / total": all of them when failures is 0.
SweepEnds ==
    /\ pc = "loop"
    /\ k > Len(Grid)
    /\ pc' = "shell"
    /\ UNCHANGED <<sweep, execs, needHeader, summary>>

\* Ctrl+C: KeyboardInterrupt in the script, SIGINT in the simulation.
Interrupt ==
    /\ pc # "shell"
    /\ pc' = "shell"
    /\ IF pc \in Executing THEN EndsWith("interrupted") ELSE UNCHANGED execs
    /\ UNCHANGED <<sweep, needHeader, summary>>

\* rm -rf results
DeleteResults ==
    /\ pc = "shell"
    /\ exists
    /\ exists' = FALSE
    /\ lines' = << >>
    /\ execs' = [e \in DOMAIN execs |-> [execs[e] EXCEPT !.status = "deleted"]]
    /\ UNCHANGED <<pc, sweep, needHeader>>
-----------------------------------------------------------------------------
(* campus-wifi-msuiit.cc, from Simulator::Run to its end.                  *)

\* The test for the file, and the open for appending that creates it; mutants
\* that open before the test, and that open for writing.
OpenBeforeTest ==
    /\ pc = "simulate"
    /\ needHeader' = FALSE
    /\ exists' = TRUE
    /\ pc' = "append"
    /\ UNCHANGED <<sweep, execs, lines>>

OpenTruncated ==
    /\ pc = "simulate"
    /\ needHeader' = ~ exists
    /\ exists' = TRUE
    /\ lines' = << >>
    /\ pc' = "append"
    /\ UNCHANGED <<sweep, execs>>

OpenSummary ==
    /\ pc = "simulate"
    /\ needHeader' = ~ exists
    /\ exists' = TRUE
    /\ pc' = "append"
    /\ UNCHANGED <<sweep, execs, lines>>

\* What an execution writes: the header when it is the first, and a row per
\* class.
RowsOf(e)  == [i \in DOMAIN Classes |-> [exec |-> e, class |-> Classes[i]]]
NewLines   == (IF needHeader THEN <<Header>> ELSE << >>) \o RowsOf(Len(execs))

\* The stream is flushed when it is closed.
CloseSummary ==
    /\ pc = "append"
    /\ lines' = lines \o NewLines
    /\ pc' = "destroy"
    /\ UNCHANGED <<sweep, execs, needHeader, exists>>
-----------------------------------------------------------------------------
Next == \/ \E s \in Settings : StartSweep(s)
        \/ RunOne
        \/ OpenSummary
        \/ CloseSummary
        \/ Succeeds
        \/ Fails
        \/ SweepEnds
        \/ Interrupt
        \/ DeleteResults

Spec == Init /\ [][Next]_vars
-----------------------------------------------------------------------------
(* qos_metrics.py                                                          *)

\* load_summary raises unless the first line names the columns.
Loads == exists /\ lines # << >> /\ lines[1] = Header

Rows == {i \in DOMAIN lines : lines[i] # Header}

\* Two rows of one run: deduplicate_runs compares RUN_IDENTITY_COLUMNS.
SameRun(i, j) ==
    LET e == execs[lines[i].exec]
        f == execs[lines[j].exec]
    IN  /\ e.point = f.point
        /\ Identity[e.settings] = Identity[f.settings]
        /\ lines[i].class = lines[j].class

\* A mutant: keep="first".
LoadedFirst == {i \in Rows : Loads /\ \A j \in Rows : j < i => ~ SameRun(i, j)}

\* drop_duplicates(keep="last"); nothing of a file that does not load.
Loaded == {i \in Rows : Loads /\ \A j \in Rows : j > i => ~ SameRun(i, j)}
-----------------------------------------------------------------------------
(* Properties.                                                             *)

Status(e)  == execs[e].status
LinesOf(e) == {i \in DOMAIN lines : lines[i].exec = e}

\* All or nothing: an execution has all its rows in summary.csv, one after the
\* other, or none, wherever it failed or was interrupted; one that succeeded
\* has them until the results are deleted.
WholeRuns ==
    \A e \in DOMAIN execs :
        \/ LinesOf(e) = {} /\ Status(e) # "ok"
        \/ \E i \in DOMAIN lines :
               /\ LinesOf(e) = i .. i + Len(Classes) - 1
               /\ SubSeq(lines, i, i + Len(Classes) - 1) = RowsOf(e)

\* The header is the first line or nowhere: a second one would be read as a
\* row, whatever executions died between the test for the file and the write.
\* And a file has rows without a header only where an earlier execution failed
\* or was interrupted after the open that created it.
HeaderFirst ==
    /\ \A i \in DOMAIN lines : lines[i] = Header => i = 1
    /\ lines # << >> /\ lines[1] # Header =>
           \E e \in DOMAIN execs : /\ Status(e) \in {"failed", "interrupted"}
                                   /\ LinesOf(e) = {}
                                   /\ e < lines[1].exec

\* Row i is a row of class c of the execution e, or of a later one of the same
\* point, in which it counts for e.
CountsFor(i, e, c) ==
    /\ lines[i].class = c
    /\ lines[i].exec >= e
    /\ execs[lines[i].exec].point = execs[e].point

\* "Only the last one counts": where summary.csv loads, the loaded table has, of
\* every execution that succeeded, a row for each class that the columns do not
\* tell from its own, and it is not older, however often the runs were repeated.
LastCounts ==
    Loads => \A e \in DOMAIN execs : Status(e) = "ok" =>
        \A c \in ClassSet : \E i \in Loaded :
            /\ CountsFor(i, e, c)
            /\ Identity[execs[lines[i].exec].settings] = Identity[execs[e].settings]

\* SETUP.md:405-408, rows are matched "on every parameter including run": where
\* summary.csv loads, such a row has the arguments of the execution.
NoConfigurationDropped ==
    Loads => \A e \in DOMAIN execs : Status(e) = "ok" =>
        \A c \in ClassSet : \E i \in Loaded :
            /\ CountsFor(i, e, c)
            /\ execs[lines[i].exec].settings = execs[e].settings

\* A sweep that ends and reports no failure has executed every point of its
\* grid with success, whatever sweeps were interrupted before it.
ReportTruthful ==
    [][pc = "loop" /\ pc' = "shell" /\ k > Len(Grid) /\ failures = 0 =>
           \A p \in Points : \E e \in DOMAIN execs :
               /\ Status(e) = "ok"
               /\ execs[e].point = p
               /\ execs[e].settings = settings]_vars

\* A summary that loads goes on loading, at every moment of later executions,
\* until it is deleted.
LoadableStays == [][Loads => Loads' \/ ~ exists']_vars
=============================================================================
