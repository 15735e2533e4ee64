------------------------- MODULE CampusSweepProofs --------------------------
(***************************************************************************)
(* CampusSweep, for every grid, set of arguments, list of classes and      *)
(* number of executions.                                                   *)
(*                                                                         *)
(* One execution runs at a time and owns the end of summary.csv: the file  *)
(* has no line of it before it closes the file, all of them afterwards,    *)
(* and lines of later executions come later (FileInv).  The execution that *)
(* is to write the header has an empty file before it (Position); when it  *)
(* dies before that, it is the one to blame for a file without a header    *)
(* (HeaderInv).                                                            *)
(***************************************************************************)
EXTENDS CampusSweep, SequenceTheorems, WellFoundedInduction, TLAPS

Types ==
    /\ pc \in {"shell", "loop"} \cup Executing
    /\ settings \in Settings
    /\ k \in Nat \ {0}
    /\ failures \in Nat
    /\ execs \in Seq(Execution)
    /\ Len(execs) <= MaxExecs
    /\ needHeader \in BOOLEAN
    /\ exists \in BOOLEAN
    /\ lines \in Seq(Lines)

\* The place in the program, and what holds there.
Position ==
    /\ pc \in Executing =>
           /\ Len(execs) > 0
           /\ k <= Len(Grid)
           /\ execs[Len(execs)] = [point |-> Grid[k], settings |-> settings,
                                   status |-> "running"]
    /\ pc \in {"append", "destroy"} => exists
    /\ ~ exists => lines = << >>
    /\ pc = "append" /\ needHeader => lines = << >>
-----------------------------------------------------------------------------
(* What the steps do to the executions and to the file.                    *)

\* An execution that ends changes its status only.
LEMMA EndsWithEffect ==
    ASSUME Types, Position, pc \in Executing, NEW status \in Statuses, EndsWith(status)
    PROVE  /\ execs' \in Seq(Execution)
           /\ Len(execs') = Len(execs)
           /\ \A e \in DOMAIN execs \ {Len(execs)} : execs'[e] = execs[e]
           /\ execs'[Len(execs)] = [point |-> Grid[k], settings |-> settings,
                                    status |-> status]
<1>1. /\ Len(execs) \in DOMAIN execs
      /\ execs[Len(execs)].status = "running"
      /\ DOMAIN execs = 1 .. Len(execs)
    BY DEF Types, Position
<1>2. execs' = [execs EXCEPT ![Len(execs)] = [execs[Len(execs)] EXCEPT !.status = status]]
    BY DEF EndsWith
<1>3. [execs[Len(execs)] EXCEPT !.status = status]
          = [point |-> Grid[k], settings |-> settings, status |-> status]
    BY DEF Position
<1>4. [point |-> Grid[k], settings |-> settings, status |-> status] \in Execution
    <2>1. Grid[k] \in Points
        BY GridAssumption DEF Points, Position, Types
    <2> QED
        BY <2>1 DEF Execution, Types
<1> QED
    BY <1>1, <1>2, <1>3, <1>4 DEF Types

\* The header, if it is due, and one row per class.
Shift == IF needHeader THEN 1 ELSE 0

LEMMA CloseEffect ==
    ASSUME Types, Position, CloseSummary
    PROVE  /\ lines' \in Seq(Lines)
           /\ Len(lines') = Len(lines) + Shift + Len(Classes)
           /\ \A i \in 1 .. Len(lines) : lines'[i] = lines[i]
           /\ needHeader => lines'[Len(lines) + 1] = Header
           /\ \A i \in 1 .. Len(Classes) :
                  lines'[Len(lines) + Shift + i] = [exec |-> Len(execs), class |-> Classes[i]]
<1> DEFINE head == IF needHeader THEN <<Header>> ELSE << >>
           rows == RowsOf(Len(execs))
<1>1. /\ rows \in Seq(Lines)
      /\ Len(rows) = Len(Classes)
      /\ \A i \in 1 .. Len(Classes) : rows[i] = [exec |-> Len(execs), class |-> Classes[i]]
    <2>1. Len(execs) \in 1 .. MaxExecs
        BY MaxExecsAssumption DEF Types, Position, CloseSummary, Executing
    <2>2. \A i \in 1 .. Len(Classes) : [exec |-> Len(execs), class |-> Classes[i]] \in Lines
        BY <2>1, ClassesAssumption DEF Lines, ClassSet
    <2>3. DOMAIN Classes = 1 .. Len(Classes) /\ Len(Classes) \in Nat
        BY ClassesAssumption
    <2> QED
        BY <2>2, <2>3 DEF RowsOf
<1>2. /\ head \in Seq(Lines)
      /\ Len(head) = Shift
      /\ needHeader => head[1] = Header
      /\ Shift \in Nat
    <2>1. Header \in Lines
        BY DEF Lines
    <2>2. CASE needHeader
        BY <2>1, <2>2 DEF Shift
    <2>3. CASE ~ needHeader
        BY <2>3 DEF Shift
    <2> QED
        BY <2>2, <2>3
<1>3. lines' = lines \o (head \o rows)
    BY DEF CloseSummary, NewLines
<1>4. lines \in Seq(Lines) /\ Len(lines) \in Nat /\ Len(Classes) \in Nat
    BY ClassesAssumption DEF Types
<1> HIDE DEF head, rows
<1>5. /\ head \o rows \in Seq(Lines)
      /\ Len(head \o rows) = Shift + Len(Classes)
      /\ \A i \in 1 .. Shift : (head \o rows)[i] = head[i]
      /\ \A i \in 1 .. Len(Classes) : (head \o rows)[Shift + i] = rows[i]
    <2>1. /\ head \o rows \in Seq(Lines)
          /\ Len(head \o rows) = Len(head) + Len(rows)
          /\ \A i \in 1 .. Len(head) : (head \o rows)[i] = head[i]
          /\ \A i \in 1 .. Len(rows) : (head \o rows)[Len(head) + i] = rows[i]
        <3>1. head \in Seq(Lines) /\ rows \in Seq(Lines)
            BY <1>1, <1>2
        <3> QED
            BY <3>1
    <2> QED
        BY <1>1, <1>2, <2>1
<1>6. /\ lines' \in Seq(Lines)
      /\ Len(lines') = Len(lines) + Shift + Len(Classes)
      /\ \A i \in 1 .. Len(lines) : lines'[i] = lines[i]
      /\ \A i \in 1 .. Shift + Len(Classes) : lines'[Len(lines) + i] = (head \o rows)[i]
    <2> DEFINE new == head \o rows
    <2> HIDE DEF new
    <2>1. new \in Seq(Lines) /\ Len(new) = Shift + Len(Classes) /\ lines' = lines \o new
        BY <1>3, <1>5 DEF new
    <2>2. /\ lines \o new \in Seq(Lines)
          /\ Len(lines \o new) = Len(lines) + Len(new)
          /\ \A i \in 1 .. Len(lines) : (lines \o new)[i] = lines[i]
          /\ \A i \in 1 .. Len(new) : (lines \o new)[Len(lines) + i] = new[i]
        <3>1. lines \in Seq(Lines) /\ new \in Seq(Lines)
            BY <1>4, <2>1
        <3> QED
            BY <3>1
    <2>3. Len(lines') = Len(lines) + Shift + Len(Classes)
        BY <1>2, <1>4, <2>1, <2>2
    <2> QED
        BY <2>1, <2>2, <2>3 DEF new
<1>7. needHeader => Shift = 1
    BY DEF Shift
<1>8. \A i \in 1 .. Len(Classes) : /\ Shift + i \in 1 .. Shift + Len(Classes)
                                   /\ Len(lines) + (Shift + i) = Len(lines) + Shift + i
    BY <1>2, <1>4
<1>9. \A i \in 1 .. Len(Classes) :
          lines'[Len(lines) + Shift + i] = [exec |-> Len(execs), class |-> Classes[i]]
    <2> SUFFICES ASSUME NEW i \in 1 .. Len(Classes)
                 PROVE  lines'[Len(lines) + Shift + i] = [exec |-> Len(execs), class |-> Classes[i]]
        OBVIOUS
    <2>1. lines'[Len(lines) + (Shift + i)] = (head \o rows)[Shift + i]
        BY <1>6, <1>8, Zenon
    <2> QED
        BY <1>1, <1>5, <1>8, <2>1, Zenon
<1>10. needHeader => lines'[Len(lines) + 1] = Header
    BY <1>2, <1>4, <1>5, <1>6, <1>7
<1> QED
    BY <1>2, <1>4, <1>6, <1>9, <1>10
-----------------------------------------------------------------------------
LEMMA InitTypes == Init => Types /\ Position
<1> SUFFICES ASSUME Init PROVE Types /\ Position
    OBVIOUS
<1>1. << >> \in Seq(Execution) /\ << >> \in Seq(Lines) /\ Len(<< >>) = 0
    BY EmptySeq
<1>2. Types
    <2>1. needHeader \in BOOLEAN /\ exists \in BOOLEAN
        BY Zenon DEF Init
    <2>2. execs \in Seq(Execution) /\ lines \in Seq(Lines) /\ Len(execs) = 0
        BY <1>1, Zenon DEF Init
    <2> QED
        BY <2>1, <2>2, MaxExecsAssumption DEF Init, Types
<1>3. Position
    BY DEF Init, Position, Executing
<1> QED
    BY <1>2, <1>3

LEMMA TypesInductive == Types /\ Position /\ [Next]_vars => Types' /\ Position'
<1> SUFFICES ASSUME Types, Position, [Next]_vars
             PROVE  Types' /\ Position'
    OBVIOUS
<1>1. CASE UNCHANGED vars
    BY <1>1 DEF vars, sweep, summary, Types, Position
<1>2. ASSUME NEW s \in Settings, StartSweep(s)
      PROVE  Types' /\ Position'
    BY <1>2 DEF StartSweep, summary, Types, Position, Executing
<1>3. CASE RunOne
    <2>1. [point |-> Grid[k], settings |-> settings, status |-> "running"] \in Execution
        BY <1>3, GridAssumption DEF RunOne, Execution, Points, Statuses, Types
    <2>2. /\ execs' \in Seq(Execution)
          /\ Len(execs') = Len(execs) + 1
          /\ execs'[Len(execs')] = [point |-> Grid[k], settings |-> settings,
                                    status |-> "running"]
        BY <1>3, <2>1 DEF RunOne, Types
    <2>3. Len(execs) \in Nat
        BY DEF Types
    <2> QED
        BY <1>3, <2>2, <2>3, MaxExecsAssumption
        DEF RunOne, sweep, summary, Types, Position, Executing
<1>4. CASE OpenSummary
    BY <1>4 DEF OpenSummary, sweep, Types, Position, Executing
<1>5. CASE CloseSummary
    <2>1. lines' \in Seq(Lines)
        BY <1>5, CloseEffect
    <2> QED
        BY <1>5, <2>1 DEF CloseSummary, sweep, Types, Position, Executing
<1>6. CASE Succeeds
    BY <1>6, EndsWithEffect DEF Succeeds, summary, Types, Position, Executing, Statuses
<1>7. CASE Fails
    BY <1>7, EndsWithEffect DEF Fails, summary, Types, Position, Executing, Statuses
<1>8. CASE SweepEnds
    BY <1>8 DEF SweepEnds, sweep, summary, Types, Position, Executing
<1>9. CASE Interrupt
    <2>1. execs' \in Seq(Execution) /\ Len(execs') = Len(execs)
        BY <1>9, EndsWithEffect DEF Interrupt, Statuses, Types
    <2> QED
        BY <1>9, <2>1 DEF Interrupt, sweep, summary, Types, Position, Executing
<1>10. CASE DeleteResults
    <2>1. /\ execs' \in Seq(Execution)
          /\ Len(execs') = Len(execs)
        <3>1. \A e \in 1 .. Len(execs) :
                  [execs[e] EXCEPT !.status = "deleted"] \in Execution
            <4> SUFFICES ASSUME NEW e \in 1 .. Len(execs)
                         PROVE  [execs[e] EXCEPT !.status = "deleted"] \in Execution
                OBVIOUS
            <4>1. execs[e] \in Execution
                BY DEF Types
            <4> QED
                BY <4>1 DEF Execution, Statuses
        <3>2. DOMAIN execs = 1 .. Len(execs) /\ Len(execs) \in Nat
            BY DEF Types
        <3> QED
            <4>1. execs' = [e \in 1 .. Len(execs) |-> [execs[e] EXCEPT !.status = "deleted"]]
                BY <1>10, <3>2 DEF DeleteResults
            <4> QED
                BY <4>1, <3>1, <3>2
    <2> QED
        BY <1>10, <2>1, EmptySeq DEF DeleteResults, sweep, Types, Position, Executing
<1> QED
    BY <1>1, <1>2, <1>3, <1>4, <1>5, <1>6, <1>7, <1>8, <1>9, <1>10 DEF Next

LEMMA TypesCorrect == Spec => [](Types /\ Position)
BY InitTypes, TypesInductive, PTL DEF Spec
-----------------------------------------------------------------------------
(* The report at the end of a sweep.                                       *)

\* While no execution of the sweep has failed, every point it has passed was
\* executed with success.
Passed(j) == \E e \in 1 .. Len(execs) :
    execs[e] = [point |-> Grid[j], settings |-> settings, status |-> "ok"]
ReportInv == pc # "shell" /\ failures = 0 => \A j \in 1 .. k - 1 : Passed(j)

LEMMA ReportInductive ==
    Types /\ Position /\ ReportInv /\ [Next]_vars => ReportInv'
<1> SUFFICES ASSUME Types, Position, ReportInv, [Next]_vars, pc' # "shell", failures' = 0,
                    NEW j \in 1 .. k' - 1
             PROVE  Passed(j)'
    BY DEF ReportInv
<1> USE DEF Passed
<1>1. CASE UNCHANGED vars
    BY <1>1 DEF vars, sweep, ReportInv
<1>2. ASSUME NEW s \in Settings, StartSweep(s) PROVE FALSE
    BY <1>2 DEF StartSweep
<1>3. CASE RunOne
    <2>1. PICK e \in 1 .. Len(execs) :
              execs[e] = [point |-> Grid[j], settings |-> settings, status |-> "ok"]
        BY <1>3 DEF RunOne, sweep, ReportInv
    <2>2. e \in 1 .. Len(execs') /\ execs'[e] = execs[e]
        BY <1>3 DEF RunOne, Types
    <2> QED
        BY <1>3, <2>1, <2>2 DEF RunOne, sweep
<1>4. CASE OpenSummary \/ CloseSummary
    BY <1>4 DEF OpenSummary, CloseSummary, sweep, ReportInv
<1>5. CASE Succeeds
    <2>1. /\ Len(execs') = Len(execs)
          /\ Len(execs) \in 1 .. Len(execs)
          /\ \A e \in 1 .. Len(execs) : e # Len(execs) => execs'[e] = execs[e]
          /\ execs'[Len(execs)] = [point |-> Grid[k], settings |-> settings, status |-> "ok"]
        <3>1. pc \in Executing /\ "ok" \in Statuses /\ EndsWith("ok")
            BY <1>5 DEF Succeeds, Statuses, Executing
        <3>2. Len(execs) \in 1 .. Len(execs) /\ DOMAIN execs = 1 .. Len(execs)
            BY <3>1 DEF Types, Position
        <3> QED
            BY <3>1, <3>2, EndsWithEffect
    <2>2. CASE j = k
        BY <1>5, <2>1, <2>2 DEF Succeeds
    <2>3. CASE j # k
        <3>1. j \in 1 .. k - 1
            BY <1>5, <2>3 DEF Succeeds, Types
        <3>2. pc # "shell" /\ failures = 0
            BY <1>5 DEF Succeeds
        <3>3. PICK e \in 1 .. Len(execs) :
                  execs[e] = [point |-> Grid[j], settings |-> settings, status |-> "ok"]
            BY <3>1, <3>2 DEF ReportInv
        <3>4. e # Len(execs)
            BY <1>5, <3>3 DEF Succeeds, Position, Executing
        <3> QED
            BY <1>5, <2>1, <3>3, <3>4 DEF Succeeds
    <2> QED
        BY <2>2, <2>3
<1>6. CASE Fails
    BY <1>6 DEF Fails, Types
<1>7. CASE SweepEnds \/ Interrupt \/ DeleteResults
    BY <1>7 DEF SweepEnds, Interrupt, DeleteResults
<1> QED
    BY <1>1, <1>2, <1>3, <1>4, <1>5, <1>6, <1>7 DEF Next

\* A sweep that ends and reports no failure has executed every point with
\* success (the summary that run_sweeps.py prints).
THEOREM ReportIsTruthful == Spec => ReportTruthful
<1> DEFINE Truth == pc = "loop" /\ pc' = "shell" /\ k > Len(Grid) /\ failures = 0 =>
               \A p \in Points : \E e \in DOMAIN execs :
                   /\ Status(e) = "ok"
                   /\ execs[e].point = p
                   /\ execs[e].settings = settings
<1>1. Init => ReportInv
    BY DEF Init, ReportInv
<1>2. Types /\ ReportInv => Truth
    <2> SUFFICES ASSUME Types, ReportInv, pc = "loop", k > Len(Grid), failures = 0,
                        NEW p \in Points
                 PROVE  \E e \in DOMAIN execs : /\ Status(e) = "ok"
                                                /\ execs[e].point = p
                                                /\ execs[e].settings = settings
        OBVIOUS
    <2>1. PICK j \in 1 .. Len(Grid) : p = Grid[j]
        BY GridAssumption DEF Points
    <2>2. j \in 1 .. k - 1
        BY GridAssumption DEF Types
    <2>3. PICK e \in 1 .. Len(execs) :
              execs[e] = [point |-> Grid[j], settings |-> settings, status |-> "ok"]
        BY <2>2 DEF ReportInv, Passed
    <2>4. e \in DOMAIN execs
        BY DEF Types
    <2> QED
        BY <2>1, <2>3, <2>4 DEF Status
<1> QED
    BY <1>1, <1>2, ReportInductive, TypesCorrect, PTL DEF Spec, ReportTruthful
-----------------------------------------------------------------------------
(* The file.                                                               *)

LEMMA LineIs ==
    ASSUME Types, NEW i \in 1 .. Len(lines)
    PROVE  /\ lines[i].exec \in Nat
           /\ lines[i] # Header => /\ lines[i].exec \in 1 .. MaxExecs
                                   /\ lines[i].class \in ClassSet
<1>1. lines[i] \in Lines
    BY DEF Types
<1> QED
    BY <1>1, MaxExecsAssumption DEF Lines, Header

\* Every line of the file after CloseSummary was there, or is the header of an
\* empty file, or a row of this execution.
LEMMA CloseLines ==
    ASSUME Types, Position, CloseSummary, NEW i \in 1 .. Len(lines')
    PROVE  \/ i \in 1 .. Len(lines) /\ lines'[i] = lines[i]
           \/ i = 1 /\ Len(lines) = 0 /\ lines'[i] = Header
           \/ /\ i > Len(lines)
              /\ i - Len(lines) - Shift \in 1 .. Len(Classes)
              /\ lines'[i] = [exec  |-> Len(execs),
                              class |-> Classes[i - Len(lines) - Shift]]
<1>1. /\ Len(lines') = Len(lines) + Shift + Len(Classes)
      /\ \A x \in 1 .. Len(lines) : lines'[x] = lines[x]
      /\ needHeader => lines'[Len(lines) + 1] = Header
      /\ \A x \in 1 .. Len(Classes) :
             lines'[Len(lines) + Shift + x] = [exec |-> Len(execs), class |-> Classes[x]]
    BY CloseEffect
<1>2. Len(lines) \in Nat /\ Len(Classes) \in Nat /\ Shift \in {0, 1}
    BY ClassesAssumption DEF Types, Shift
<1>3. CASE i <= Len(lines)
    BY <1>1, <1>2, <1>3
<1>4. CASE i = Len(lines) + 1 /\ needHeader
    <2>1. Len(lines) = 0
        BY <1>4 DEF CloseSummary, Position
    <2> QED
        BY <1>1, <1>4, <2>1
<1>5. CASE i > Len(lines) /\ ~ (i = Len(lines) + 1 /\ needHeader)
    <2> DEFINE x == i - Len(lines) - Shift
    <2>1. x \in 1 .. Len(Classes) /\ i = Len(lines) + Shift + x
        BY <1>1, <1>2, <1>5 DEF Shift
    <2> QED
        BY <1>1, <1>5, <2>1
<1> QED
    BY <1>2, <1>3, <1>4, <1>5

\* The header is first, the lines of an execution come after those of earlier
\* ones, and the execution that runs has none before it closes the file.
FileInv ==
    /\ \A i \in 1 .. Len(lines) : lines[i].exec <= Len(execs)
    /\ \A i \in 1 .. Len(lines) : lines[i] = Header => i = 1
    /\ \A i, j \in 1 .. Len(lines) : i <= j => lines[i].exec <= lines[j].exec
    /\ pc \in {"simulate", "append"} =>
           \A i \in 1 .. Len(lines) : lines[i].exec < Len(execs)

LEMMA FileInductive ==
    Types /\ Position /\ FileInv /\ [Next]_vars => FileInv'
<1> SUFFICES ASSUME Types, Position, FileInv, [Next]_vars
             PROVE  FileInv'
    OBVIOUS
<1>0. /\ Len(execs) \in Nat
      /\ \A i \in 1 .. Len(lines) : lines[i].exec \in Nat
    BY LineIs DEF Types
<1>1. CASE UNCHANGED vars
    BY <1>1 DEF vars, summary, FileInv
<1>2. ASSUME NEW s \in Settings, StartSweep(s) PROVE FileInv'
    BY <1>2 DEF StartSweep, summary, FileInv
<1>3. CASE RunOne
    <2>1. Len(execs') = Len(execs) + 1
        BY <1>3 DEF RunOne, Types
    <2> QED
        BY <1>0, <1>3, <2>1 DEF RunOne, summary, FileInv
<1>4. CASE OpenSummary
    BY <1>4 DEF OpenSummary, FileInv
<1>5. CASE CloseSummary
    <2>1. /\ pc = "append" /\ pc' = "destroy" /\ execs' = execs
          /\ Len(execs) > 0
          /\ Len(lines) \in Nat
        BY <1>5 DEF CloseSummary, Position, Executing, Types
    <2>2. ASSUME NEW i \in 1 .. Len(lines')
          PROVE  lines'[i].exec <= Len(execs) /\ (lines'[i] = Header => i = 1)
        <3>1. CASE i \in 1 .. Len(lines) /\ lines'[i] = lines[i]
            BY <3>1 DEF FileInv
        <3>2. CASE i = 1 /\ lines'[i] = Header
            BY <1>0, <3>2 DEF Header
        <3>3. CASE \E c \in ClassSet : lines'[i] = [exec |-> Len(execs), class |-> c]
            BY <1>0, <2>1, <3>3 DEF Header
        <3>4. \A x \in 1 .. Len(Classes) : Classes[x] \in ClassSet
            BY ClassesAssumption DEF ClassSet
        <3> QED
            BY <1>5, <2>2, <3>1, <3>2, <3>3, <3>4, CloseLines
    <2>3. ASSUME NEW i \in 1 .. Len(lines'), NEW j \in 1 .. Len(lines'), i <= j
          PROVE  lines'[i].exec <= lines'[j].exec
        <3>1. CASE j <= Len(lines)
            <4>1. i \in 1 .. Len(lines) /\ j \in 1 .. Len(lines)
                BY <2>1, <2>3, <3>1
            <4>2. \A x \in 1 .. Len(lines) : lines'[x] = lines[x]
                BY <1>5, CloseEffect
            <4> QED
                BY <2>3, <4>1, <4>2 DEF FileInv
        <3>2. CASE j > Len(lines)
            <4>1. CASE lines'[j] = Header
                <5>1. i = j
                    BY <2>2, <2>3, <4>1
                <5> QED
                    BY <5>1, <4>1 DEF Header
            <4>2. CASE lines'[j].exec = Len(execs)
                BY <2>2, <4>2
            <4> QED
                <5>1. \/ j \in 1 .. Len(lines)
                      \/ lines'[j] = Header
                      \/ lines'[j] = [exec  |-> Len(execs),
                                      class |-> Classes[j - Len(lines) - Shift]]
                    BY <1>5, <2>3, CloseLines
                <5> QED
                    BY <2>1, <3>2, <4>1, <4>2, <5>1
        <3> QED
            BY <2>1, <3>1, <3>2
    <2> QED
        BY <2>1, <2>2, <2>3 DEF FileInv
<1>6. CASE Succeeds \/ Fails \/ Interrupt
    <2>1. Len(execs') = Len(execs) /\ lines' = lines /\ pc' \in {"loop", "shell"}
        BY <1>6, EndsWithEffect DEF Succeeds, Fails, Interrupt, summary, Executing, Statuses
    <2> QED
        BY <2>1 DEF FileInv
<1>7. CASE SweepEnds
    BY <1>7 DEF SweepEnds, summary, FileInv
<1>8. CASE DeleteResults
    BY <1>8 DEF DeleteResults, FileInv
<1> QED
    BY <1>1, <1>2, <1>3, <1>4, <1>5, <1>6, <1>7, <1>8 DEF Next

LEMMA FileCorrect == Spec => []FileInv
<1>1. Init => FileInv
    BY EmptySeq DEF Init, FileInv
<1> QED
    BY <1>1, FileInductive, TypesCorrect, PTL DEF Spec

\* Where CloseSummary writes, it adds no line of another execution.
LEMMA CloseOtherLines ==
    ASSUME Types, Position, CloseSummary, NEW e \in 1 .. Len(execs), e # Len(execs)
    PROVE  LinesOf(e)' = LinesOf(e)
<1>1. /\ lines' \in Seq(Lines)
      /\ Len(lines') = Len(lines) + Shift + Len(Classes)
      /\ \A x \in 1 .. Len(lines) : lines'[x] = lines[x]
    BY CloseEffect
<1>2. /\ Len(lines) \in Nat /\ Len(Classes) \in Nat /\ Shift \in {0, 1}
      /\ DOMAIN lines = 1 .. Len(lines)
      /\ DOMAIN lines' = 1 .. Len(lines')
    BY <1>1, ClassesAssumption DEF Types, Shift
<1>3. \A j \in 1 .. Len(lines') : lines'[j].exec = e => j \in 1 .. Len(lines)
    <2> SUFFICES ASSUME NEW j \in 1 .. Len(lines'), j > Len(lines)
                 PROVE  lines'[j].exec # e
        BY <1>2
    <2>1. lines'[j].exec = 0 \/ lines'[j].exec = Len(execs)
        <3>1. \/ j \in 1 .. Len(lines)
              \/ lines'[j] = Header
              \/ lines'[j] = [exec  |-> Len(execs),
                              class |-> Classes[j - Len(lines) - Shift]]
            BY CloseLines
        <3> QED
            BY <1>2, <3>1 DEF Header
    <2> QED
        BY <2>1 DEF Types
<1>4. \A j \in 1 .. Len(lines) : j \in 1 .. Len(lines')
    BY <1>1, <1>2
<1> QED
    BY <1>1, <1>2, <1>3, <1>4 DEF LinesOf

\* Execution e was cut short, before all that is in the file.
CutShort(e) ==
    /\ Status(e) \in {"failed", "interrupted"}
    /\ LinesOf(e) = {}
    /\ lines # << >> => e < lines[1].exec

\* A file that lacks its header, and will not get it from the execution that runs.
Headless ==
    /\ exists
    /\ ~ (pc = "append" /\ needHeader)
    /\ lines # << >> => lines[1] # Header

HeaderInv == Headless => \E e \in 1 .. Len(execs) : CutShort(e)

LEMMA HeaderInductive ==
    Types /\ Position /\ FileInv /\ HeaderInv /\ [Next]_vars => HeaderInv'
<1> SUFFICES ASSUME Types, Position, FileInv, HeaderInv, [Next]_vars, Headless'
             PROVE  \E e \in 1 .. Len(execs') : CutShort(e)'
    BY DEF HeaderInv
<1>0. /\ Len(execs) \in Nat /\ Len(lines) \in Nat
      /\ DOMAIN lines = 1 .. Len(lines)
      /\ DOMAIN execs = 1 .. Len(execs)
    BY DEF Types
<1>a. ASSUME Headless, lines' = lines, Len(execs') >= Len(execs), Len(execs') \in Nat,
             \A e \in 1 .. Len(execs) : Status(e) \in {"failed", "interrupted"}
                 => Status(e)' = Status(e)
      PROVE  \E e \in 1 .. Len(execs') : CutShort(e)'
    <2>1. PICK e \in 1 .. Len(execs) : CutShort(e)
        BY <1>a DEF HeaderInv
    <2>2. e \in 1 .. Len(execs')
        BY <1>0, <1>a
    <2>3. CutShort(e)'
        BY <1>a, <2>1 DEF CutShort, LinesOf
    <2> QED
        BY <2>2, <2>3
<1>b. ASSUME pc \in Executing, NEW status \in Statuses, EndsWith(status)
      PROVE  /\ Len(execs') = Len(execs)
             /\ execs'[Len(execs)].status = status
             /\ \A e \in 1 .. Len(execs) : Status(e) \in {"failed", "interrupted"}
                    => Status(e)' = Status(e)
    <2>1. /\ Len(execs') = Len(execs)
          /\ \A e \in 1 .. Len(execs) \ {Len(execs)} : execs'[e] = execs[e]
          /\ execs'[Len(execs)] = [point |-> Grid[k], settings |-> settings,
                                   status |-> status]
        BY <1>0, <1>b, EndsWithEffect
    <2>2. Status(Len(execs)) = "running"
        BY <1>b DEF Position, Status
    <2> QED
        BY <2>1, <2>2 DEF Status
<1>1. CASE UNCHANGED vars \/ (\E s \in Settings : StartSweep(s)) \/ SweepEnds
    <2>1. /\ lines' = lines /\ execs' = execs /\ exists' = exists
          /\ needHeader' = needHeader
          /\ pc' = "append" <=> pc = "append"
        BY <1>1 DEF vars, summary, StartSweep, SweepEnds
    <2> QED
        BY <1>0, <1>a, <2>1 DEF Headless, Status
<1>2. CASE RunOne
    <2>1. /\ lines' = lines /\ exists' = exists /\ pc = "loop"
          /\ Len(execs') = Len(execs) + 1
          /\ \A e \in 1 .. Len(execs) : execs'[e] = execs[e]
        BY <1>2 DEF RunOne, summary, Types
    <2> QED
        BY <1>0, <1>a, <2>1 DEF Headless, Status
<1>3. CASE OpenSummary
    <2>1. /\ lines' = lines /\ execs' = execs /\ exists
          /\ pc = "simulate"
        BY <1>3 DEF OpenSummary, Headless
    <2> QED
        BY <1>0, <1>a, <2>1 DEF Headless, Status
<1>4. CASE CloseSummary
    <2>1. /\ execs' = execs /\ exists /\ pc = "append" /\ Len(execs) > 0
          /\ execs[Len(execs)].status = "running"
        BY <1>4 DEF CloseSummary, Headless, Position, Executing
    <2>2. /\ Len(lines') = Len(lines) + Shift + Len(Classes)
          /\ Len(Classes) \in Nat \ {0} /\ Shift \in {0, 1}
          /\ lines' \in Seq(Lines)
          /\ \A x \in 1 .. Len(lines) : lines'[x] = lines[x]
        BY <1>4, CloseEffect, ClassesAssumption DEF Shift
    <2>3. /\ Len(lines') \in Nat \ {0}
          /\ lines' # << >> /\ lines'[1] # Header /\ 1 \in 1 .. Len(lines')
        <3>1. Len(lines') \in Nat \ {0} /\ 1 \in 1 .. Len(lines')
            BY <1>0, <2>2
        <3> QED
            BY <2>2, <3>1 DEF Headless
    <2>4. ~ needHeader
        <3> SUFFICES ASSUME needHeader PROVE FALSE
            OBVIOUS
        <3>1. lines = << >> /\ lines'[Len(lines) + 1] = Header
            BY <1>4, <2>1, CloseEffect DEF Position
        <3> QED
            BY <2>3, <3>1
    <2>5. Headless
        <3>1. lines # << >> => lines[1] # Header
            BY <1>0, <2>2, <2>3 DEF Types
        <3> QED
            BY <2>1, <2>4, <3>1 DEF Headless
    <2>6. PICK e \in 1 .. Len(execs) : CutShort(e)
        BY <2>5 DEF HeaderInv
    <2>7. e # Len(execs) /\ e < Len(execs)
        <3>1. execs[e].status # "running"
            BY <2>6 DEF CutShort, Status
        <3>2. e # Len(execs)
            BY <2>1, <3>1, Zenon
        <3>3. \A n \in Nat : \A i \in 1 .. n : i # n => i < n
            OBVIOUS
        <3> QED
            BY <1>0, <3>2, <3>3, Zenon
    <2>8. LinesOf(e)' = {}
        BY <1>4, <2>6, <2>7, CloseOtherLines DEF CutShort
    <2>9. e < lines'[1].exec
        <3>1. \/ 1 \in 1 .. Len(lines) /\ lines'[1] = lines[1]
              \/ lines'[1] = Header
              \/ lines'[1].exec = Len(execs)
            <4> DEFINE one == 1
            <4>1. one \in 1 .. Len(lines')
                BY <2>3
            <4> HIDE DEF one
            <4>2. \/ one \in 1 .. Len(lines) /\ lines'[one] = lines[one]
                  \/ lines'[one] = Header
                  \/ lines'[one] = [exec  |-> Len(execs),
                                    class |-> Classes[one - Len(lines) - Shift]]
                BY <1>4, <4>1, CloseLines
            <4> QED
                BY <4>2 DEF one
        <3>2. 1 \in 1 .. Len(lines) => lines # << >>
            OBVIOUS
        <3> QED
            BY <2>3, <2>6, <3>2, <2>7, <3>1 DEF CutShort
    <2>10. CutShort(e)'
        BY <2>1, <2>6, <2>8, <2>9 DEF CutShort, Status
    <2> QED
        BY <2>1, <2>10
<1>5. CASE Succeeds
    <2>1. /\ pc = "destroy" /\ pc \in Executing /\ "ok" \in Statuses /\ EndsWith("ok")
          /\ lines' = lines /\ exists' = exists
        BY <1>5 DEF Succeeds, summary, Statuses, Executing
    <2> QED
        BY <1>0, <1>a, <1>b, <2>1 DEF Headless
<1>6. CASE Fails \/ (Interrupt /\ pc \in Executing)
    <2>1. PICK status \in {"failed", "interrupted"} :
              pc \in Executing /\ status \in Statuses /\ EndsWith(status)
        BY <1>6 DEF Fails, Interrupt, Statuses
    <2>2. lines' = lines /\ exists' = exists
        BY <1>6 DEF Fails, Interrupt, summary
    <2>3. CASE pc = "append" /\ needHeader
        <3>1. lines = << >> /\ lines' = << >> /\ Len(execs) > 0
            BY <2>1, <2>2, <2>3 DEF Position
        <3>2. Status(Len(execs))' = status
            BY <1>b, <2>1 DEF Status
        <3>3. LinesOf(Len(execs))' = {}
            BY <3>1 DEF LinesOf
        <3>4. Len(execs') = Len(execs) /\ Len(execs) \in 1 .. Len(execs')
            BY <1>0, <1>b, <2>1, <3>1
        <3> DEFINE last == Len(execs)
        <3>5. \E e \in 1 .. Len(execs') : e = Len(execs)
            BY <3>4
        <3>6. PICK e \in 1 .. Len(execs') : e = Len(execs)
            BY <3>5
        <3>7. execs'[e].status = status
            BY <1>b, <2>1, <3>6
        <3>8. CutShort(e)'
            BY <3>1, <3>7 DEF CutShort, Status, LinesOf
        <3> QED
            BY <3>8
    <2>4. CASE ~ (pc = "append" /\ needHeader)
        BY <1>0, <1>a, <1>b, <2>1, <2>2, <2>4 DEF Headless
    <2> QED
        BY <2>3, <2>4
<1>7. CASE Interrupt /\ pc \notin Executing
    <2>1. lines' = lines /\ execs' = execs /\ exists' = exists /\ pc # "append"
        BY <1>7 DEF Interrupt, summary, Executing
    <2> QED
        BY <1>0, <1>a, <2>1 DEF Headless, Status
<1>8. CASE DeleteResults
    BY <1>8 DEF DeleteResults, Headless
<1> QED
    BY <1>1, <1>2, <1>3, <1>4, <1>5, <1>6, <1>7, <1>8 DEF Next

\* The header is the first line of summary.csv or nowhere, and a file has rows
\* without it only after an execution that was cut short.
THEOREM HeaderIsFirst == Spec => []HeaderFirst
<1>1. Init => HeaderInv
    BY DEF Init, HeaderInv, Headless
<1>2. Types /\ Position /\ FileInv /\ HeaderInv => HeaderFirst
    <2> SUFFICES ASSUME Types, Position, FileInv, HeaderInv PROVE HeaderFirst
        OBVIOUS
    <2>1. \A i \in DOMAIN lines : lines[i] = Header => i = 1
        BY DEF Types, FileInv
    <2>2. ASSUME lines # << >>, lines[1] # Header
          PROVE  \E e \in DOMAIN execs : /\ Status(e) \in {"failed", "interrupted"}
                                         /\ LinesOf(e) = {}
                                         /\ e < lines[1].exec
        <3>1. Headless
            BY <2>2 DEF Headless, Position
        <3>2. PICK e \in 1 .. Len(execs) : CutShort(e)
            BY <3>1 DEF HeaderInv
        <3>3. e \in DOMAIN execs
            BY DEF Types
        <3> QED
            BY <2>2, <3>2, <3>3 DEF CutShort
    <2> QED
        BY <2>1, <2>2 DEF HeaderFirst
<1> QED
    BY <1>1, <1>2, HeaderInductive, FileCorrect, TypesCorrect, PTL DEF Spec

\* A summary that loads goes on loading until it is deleted.
THEOREM LoadableUntilDeleted == Spec => LoadableStays
<1>1. Types /\ Position /\ [Next]_vars => (Loads => Loads' \/ ~ exists')
    <2> SUFFICES ASSUME Types, Position, [Next]_vars, Loads, exists'
                 PROVE  Loads'
        OBVIOUS
    <2>1. CASE CloseSummary
        <3>1. /\ Len(lines) \in Nat /\ Len(lines) > 0
              /\ lines' \in Seq(Lines)
              /\ Len(lines') = Len(lines) + Shift + Len(Classes)
              /\ \A x \in 1 .. Len(lines) : lines'[x] = lines[x]
            BY <2>1, CloseEffect DEF Types, Loads
        <3>2. Shift \in {0, 1} /\ Len(Classes) \in Nat
            BY ClassesAssumption DEF Shift
        <3>3. lines'[1] = Header /\ Len(lines') > 0
            BY <3>1, <3>2 DEF Loads
        <3> QED
            BY <3>1, <3>3 DEF Loads
    <2>2. CASE ~ CloseSummary
        <3>1. lines' = lines
            BY <2>2 DEF Next, vars, summary, StartSweep, RunOne, OpenSummary, Succeeds,
                        Fails, SweepEnds, Interrupt, DeleteResults
        <3> QED
            BY <3>1 DEF Loads
    <2> QED
        BY <2>1, <2>2
<1>2. Types /\ Position /\ [Next]_vars => [Loads => Loads' \/ ~ exists']_vars
    BY <1>1
<1> QED
    BY <1>2, TypesCorrect, PTL DEF Spec, LoadableStays
-----------------------------------------------------------------------------
(* All the rows of an execution, or none.                                  *)

RunFrom(e, i) ==
    /\ i \in 1 .. Len(lines)
    /\ i + Len(Classes) - 1 <= Len(lines)
    /\ LinesOf(e) = i .. i + Len(Classes) - 1
    /\ \A x \in 1 .. Len(Classes) :
           lines[i + x - 1] = [exec |-> e, class |-> Classes[x]]

HasRun(e)   == \E i \in 1 .. Len(lines) : RunFrom(e, i)
AllOrNone(e) == \/ HasRun(e)
                \/ LinesOf(e) = {} /\ Status(e) # "ok"

WholeInv ==
    /\ \A e \in 1 .. Len(execs) : AllOrNone(e)
    /\ pc = "destroy" => \A e \in 1 .. Len(execs) : e = Len(execs) => HasRun(e)

\* CloseSummary writes the whole run of its execution ...
LEMMA CloseOwn ==
    ASSUME Types, Position, FileInv, CloseSummary, NEW e, e = Len(execs)
    PROVE  HasRun(e)'
<1> DEFINE first == Len(lines) + Shift + 1
<1>1. /\ lines' \in Seq(Lines)
      /\ Len(lines') = Len(lines) + Shift + Len(Classes)
      /\ \A x \in 1 .. Len(Classes) :
             lines'[Len(lines) + Shift + x] = [exec |-> Len(execs), class |-> Classes[x]]
    BY CloseEffect
<1>2. /\ Len(lines) \in Nat /\ Len(Classes) \in Nat \ {0} /\ Shift \in {0, 1}
      /\ execs' = execs /\ pc = "append" /\ Len(execs) \in Nat \ {0}
    BY ClassesAssumption DEF Types, Shift, CloseSummary, Position, Executing
<1>3. first \in 1 .. Len(lines') /\ first + Len(Classes) - 1 = Len(lines')
    BY <1>1, <1>2
<1>4. \A x \in 1 .. Len(Classes) :
          lines'[first + x - 1] = [exec |-> Len(execs), class |-> Classes[x]]
    <2> SUFFICES ASSUME NEW x \in 1 .. Len(Classes)
                 PROVE  lines'[first + x - 1] = [exec |-> Len(execs), class |-> Classes[x]]
        OBVIOUS
    <2>1. first + x - 1 = Len(lines) + Shift + x
        BY <1>2
    <2> QED
        BY <1>1, <2>1
<1>5. \A j \in 1 .. Len(lines') :
          lines'[j].exec = Len(execs) <=> j \in first .. first + Len(Classes) - 1
    <2> SUFFICES ASSUME NEW j \in 1 .. Len(lines')
                 PROVE  lines'[j].exec = Len(execs) <=> j \in first .. first + Len(Classes) - 1
        OBVIOUS
    <2>1. CASE j \in 1 .. Len(lines)
        <3>1. lines'[j].exec < Len(execs)
            BY <1>2, <2>1, CloseEffect DEF FileInv
        <3>2. j < first
            BY <1>2, <2>1
        <3> QED
            BY <1>2, <3>1, <3>2, <2>1, CloseEffect, LineIs
    <2>2. CASE j > Len(lines) /\ j < first
        <3>1. j = Len(lines) + 1 /\ needHeader
            BY <1>2, <2>2 DEF Shift
        <3>2. lines'[j] = Header
            BY <3>1, CloseEffect
        <3> QED
            BY <1>2, <2>2, <3>2 DEF Header
    <2>3. CASE j >= first
        <3>1. PICK x \in 1 .. Len(Classes) : j = first + x - 1
            <4>1. j - first + 1 \in 1 .. Len(Classes) /\ j = first + (j - first + 1) - 1
                BY <1>1, <1>2, <2>3
            <4> QED
                BY <4>1
        <3>2. lines'[j].exec = Len(execs)
            <4>1. lines'[j] = [exec |-> Len(execs), class |-> Classes[x]]
                BY <1>4, <3>1, Zenon
            <4> QED
                BY <4>1
        <3> QED
            BY <1>3, <2>3, <3>2
    <2> QED
        BY <1>2, <2>1, <2>2, <2>3
<1>6. DOMAIN lines' = 1 .. Len(lines')
    BY <1>1
<1>7. LinesOf(e)' = first .. first + Len(Classes) - 1
    <2>1. \A j : j \in first .. first + Len(Classes) - 1 => j \in 1 .. Len(lines')
        BY <1>1, <1>2, <1>3
    <2> QED
        BY <1>2, <1>5, <1>6, <2>1 DEF LinesOf
<1> HIDE DEF first
<1> QED
    BY <1>1, <1>2, <1>3, <1>4, <1>7 DEF HasRun, RunFrom

\* ... and does not touch those of the others.
LEMMA CloseOthers ==
    ASSUME Types, Position, FileInv, CloseSummary,
           NEW e \in 1 .. Len(execs), e # Len(execs), AllOrNone(e)
    PROVE  AllOrNone(e)'
<1>1. /\ lines' \in Seq(Lines)
      /\ Len(lines') = Len(lines) + Shift + Len(Classes)
      /\ \A x \in 1 .. Len(lines) : lines'[x] = lines[x]
    BY CloseEffect
<1>2. /\ Len(lines) \in Nat /\ Len(Classes) \in Nat /\ Shift \in {0, 1}
      /\ DOMAIN lines = 1 .. Len(lines)
      /\ DOMAIN lines' = 1 .. Len(lines')
      /\ execs' = execs
    BY <1>1, ClassesAssumption DEF Types, Shift, CloseSummary
<1>4. LinesOf(e)' = LinesOf(e)
    BY CloseOtherLines
<1>5. CASE LinesOf(e) = {} /\ Status(e) # "ok"
    BY <1>2, <1>4, <1>5 DEF AllOrNone, Status
<1>6. CASE HasRun(e)
    <2>1. PICK i \in 1 .. Len(lines) : RunFrom(e, i)
        BY <1>6 DEF HasRun
    <2>2. /\ i \in 1 .. Len(lines')
          /\ i + Len(Classes) - 1 <= Len(lines')
          /\ \A x \in 1 .. Len(Classes) : i + x - 1 \in 1 .. Len(lines)
        BY <1>1, <1>2, <2>1 DEF RunFrom
    <2>3. \A x \in 1 .. Len(Classes) :
              lines'[i + x - 1] = [exec |-> e, class |-> Classes[x]]
        BY <1>1, <2>1, <2>2 DEF RunFrom
    <2>4. LinesOf(e)' = i .. i + Len(Classes) - 1
        BY <1>4, <2>1 DEF RunFrom
    <2>5. RunFrom(e, i)'
        BY <2>2, <2>3, <2>4 DEF RunFrom
    <2> QED
        <3>1. HasRun(e)'
            BY <2>2, <2>5 DEF HasRun
        <3> QED
            BY <3>1 DEF AllOrNone
<1> QED
    BY <1>5, <1>6 DEF AllOrNone

LEMMA WholeInductive ==
    Types /\ Position /\ FileInv /\ WholeInv /\ [Next]_vars => WholeInv'
<1> SUFFICES ASSUME Types, Position, FileInv, WholeInv, [Next]_vars
             PROVE  WholeInv'
    OBVIOUS
<1>0. Len(execs) \in Nat /\ DOMAIN lines = 1 .. Len(lines)
    BY DEF Types
<1>a. ASSUME lines' = lines, NEW e
      PROVE  LinesOf(e)' = LinesOf(e) /\ (HasRun(e)' <=> HasRun(e))
    <2>1. LinesOf(e)' = LinesOf(e)
        BY <1>a DEF LinesOf
    <2>2. ASSUME NEW i PROVE RunFrom(e, i)' <=> RunFrom(e, i)
        BY <1>a, <2>1 DEF RunFrom
    <2>3. (\E i \in 1 .. Len(lines) : RunFrom(e, i))' <=> HasRun(e)
        BY <1>a, <2>2 DEF HasRun
    <2> QED
        BY <2>1, <2>3 DEF HasRun
<1>1. CASE UNCHANGED vars
    BY <1>1, <1>a DEF vars, summary, WholeInv, AllOrNone, Status
<1>2. CASE (\E s \in Settings : StartSweep(s)) \/ SweepEnds \/ OpenSummary
    <2>1. lines' = lines /\ execs' = execs /\ pc' # "destroy"
        BY <1>2 DEF StartSweep, SweepEnds, OpenSummary, summary
    <2> QED
        BY <1>a, <2>1 DEF WholeInv, AllOrNone, Status
<1>3. CASE RunOne
    <2>1. /\ lines' = lines /\ pc' # "destroy"
          /\ Len(execs') = Len(execs) + 1
          /\ \A e \in 1 .. Len(execs) : execs'[e] = execs[e]
          /\ execs'[Len(execs) + 1].status = "running"
        BY <1>3 DEF RunOne, summary, Types
    <2>2. ASSUME NEW e \in 1 .. Len(execs) PROVE AllOrNone(e)'
        BY <1>a, <2>1, <2>2 DEF WholeInv, AllOrNone, Status
    <2>3. ASSUME NEW e, e = Len(execs) + 1 PROVE AllOrNone(e)'
        <3>1. \A i \in 1 .. Len(lines) : lines[i].exec # e
            BY <1>0, <2>3, LineIs DEF FileInv
        <3>2. LinesOf(e) = {}
            BY <1>0, <3>1 DEF LinesOf
        <3>3. execs'[e].status # "ok"
            BY <2>1, <2>3
        <3> QED
            BY <1>a, <2>1, <3>2, <3>3 DEF AllOrNone, Status
    <2> QED
        BY <1>0, <2>1, <2>2, <2>3 DEF WholeInv
<1>5. CASE CloseSummary
    <2>1. execs' = execs /\ Len(execs) > 0
        BY <1>5 DEF CloseSummary, Position, Executing
    <2>2. ASSUME NEW e, e = Len(execs) PROVE HasRun(e)'
        BY <1>5, <2>2, CloseOwn
    <2>3. ASSUME NEW e \in 1 .. Len(execs) PROVE AllOrNone(e)'
        <3>1. CASE e = Len(execs)
            BY <2>2, <3>1 DEF AllOrNone
        <3>2. CASE e # Len(execs)
            <4>1. AllOrNone(e)
                BY DEF WholeInv
            <4> QED
                BY <1>5, <3>2, <4>1, CloseOthers
        <3> QED
            BY <3>1, <3>2
    <2> QED
        BY <2>1, <2>2, <2>3 DEF WholeInv
<1>6. CASE Succeeds
    <2>1. pc \in Executing /\ "ok" \in Statuses /\ EndsWith("ok")
        BY <1>6 DEF Succeeds, Statuses, Executing
    <2>2. /\ Len(execs') = Len(execs)
          /\ \A e \in 1 .. Len(execs) : e # Len(execs) => execs'[e] = execs[e]
          /\ DOMAIN execs = 1 .. Len(execs)
        <3>1. DOMAIN execs = 1 .. Len(execs)
            BY DEF Types
        <3> QED
            BY <2>1, <3>1, EndsWithEffect
    <2>3. lines' = lines /\ pc = "destroy" /\ pc' = "loop"
        BY <1>6 DEF Succeeds, summary
    <2>4. ASSUME NEW e \in 1 .. Len(execs) PROVE AllOrNone(e)'
        <3>1. CASE e = Len(execs)
            <4>1. HasRun(e)
                BY <2>3, <3>1 DEF WholeInv
            <4>2. HasRun(e)'
                BY <1>a, <2>3, <4>1
            <4> QED
                BY <4>2 DEF AllOrNone
        <3>2. CASE e # Len(execs)
            BY <1>a, <2>2, <2>3, <3>2 DEF WholeInv, AllOrNone, Status
        <3> QED
            BY <3>1, <3>2
    <2> QED
        BY <2>2, <2>3, <2>4 DEF WholeInv
<1>7. CASE Fails \/ (Interrupt /\ pc \in Executing)
    <2>1. PICK status \in {"failed", "interrupted"} :
              pc \in Executing /\ status \in Statuses /\ EndsWith(status)
        BY <1>7 DEF Fails, Interrupt, Statuses
    <2>2. /\ Len(execs') = Len(execs)
          /\ \A e \in 1 .. Len(execs) : e # Len(execs) => execs'[e] = execs[e]
          /\ execs'[Len(execs)].status # "ok"
        <3>1. DOMAIN execs = 1 .. Len(execs)
            BY DEF Types
        <3>2. execs'[Len(execs)] = [point |-> Grid[k], settings |-> settings, status |-> status]
            BY <2>1, EndsWithEffect
        <3> QED
            <4>1. Len(execs') = Len(execs)
                BY <2>1, EndsWithEffect
            <4>2. \A e \in DOMAIN execs \ {Len(execs)} : execs'[e] = execs[e]
                BY <2>1, EndsWithEffect
            <4>3. execs'[Len(execs)].status = status
                BY <3>2
            <4> QED
                BY <2>1, <3>1, <4>1, <4>2, <4>3
    <2>3. lines' = lines /\ pc' # "destroy"
        BY <1>7 DEF Fails, Interrupt, summary
    <2> QED
        BY <1>a, <2>2, <2>3 DEF WholeInv, AllOrNone, Status
<1>8. CASE Interrupt /\ pc \notin Executing
    <2>1. lines' = lines /\ execs' = execs /\ pc' # "destroy"
        BY <1>8 DEF Interrupt, summary
    <2> QED
        BY <1>a, <2>1 DEF WholeInv, AllOrNone, Status
<1>9. CASE DeleteResults
    <2>1. /\ lines' = << >> /\ pc' # "destroy"
          /\ execs' = [e \in 1 .. Len(execs) |-> [execs[e] EXCEPT !.status = "deleted"]]
        BY <1>9 DEF DeleteResults, Types
    <2>2. Len(execs') = Len(execs)
        BY <1>0, <2>1
    <2>3. ASSUME NEW e \in 1 .. Len(execs) PROVE AllOrNone(e)'
        <3>1. execs[e] \in Execution
            BY DEF Types
        <3>2. execs'[e].status = "deleted"
            BY <2>1, <3>1 DEF Execution
        <3>3. LinesOf(e)' = {}
            BY <2>1 DEF LinesOf
        <3> QED
            BY <3>2, <3>3 DEF AllOrNone, Status
    <2> QED
        BY <2>1, <2>2, <2>3 DEF WholeInv
<1> QED
    BY <1>1, <1>2, <1>3, <1>5, <1>6, <1>7, <1>8, <1>9 DEF Next

LEMMA WholeCorrect == Spec => []WholeInv
<1>1. Init => WholeInv
    <2> SUFFICES ASSUME Init PROVE WholeInv
        OBVIOUS
    <2>1. Len(execs) = 0 /\ pc = "shell"
        BY EmptySeq DEF Init
    <2> QED
        BY <2>1 DEF WholeInv
<1> QED
    BY <1>1, WholeInductive, FileCorrect, TypesCorrect, PTL DEF Spec

\* An execution has all its rows in summary.csv, one after the other, or none,
\* wherever it failed or was interrupted; one that succeeded has them.
THEOREM RunsAreWhole == Spec => []WholeRuns
<1>1. Types /\ WholeInv => WholeRuns
    <2> SUFFICES ASSUME Types, WholeInv, NEW e \in DOMAIN execs
                 PROVE  \/ LinesOf(e) = {} /\ Status(e) # "ok"
                        \/ \E i \in DOMAIN lines :
                               /\ LinesOf(e) = i .. i + Len(Classes) - 1
                               /\ SubSeq(lines, i, i + Len(Classes) - 1) = RowsOf(e)
        BY DEF WholeRuns
    <2>1. AllOrNone(e) /\ DOMAIN lines = 1 .. Len(lines) /\ Len(lines) \in Nat
        BY DEF WholeInv, Types
    <2>2. CASE HasRun(e)
        <3>1. PICK i \in 1 .. Len(lines) : RunFrom(e, i)
            BY <2>2 DEF HasRun
        <3> DEFINE n == Len(Classes)
        <3>2. n \in Nat /\ DOMAIN Classes = 1 .. n
            BY ClassesAssumption
        <3>3. SubSeq(lines, i, i + n - 1) = [x \in 1 .. n |-> lines[i + x - 1]]
            <4>1. i + n - 1 - i + 1 = n
                BY <3>2
            <4>2. SubSeq(lines, i, i + n - 1) \in Seq(Lines)
                  /\ Len(SubSeq(lines, i, i + n - 1)) = n
                  /\ \A x \in 1 .. n : SubSeq(lines, i, i + n - 1)[x] = lines[i + x - 1]
                BY <2>1, <3>1, <3>2, <4>1 DEF Types, RunFrom
            <4> QED
                BY <3>2, <4>2
        <3>4. RowsOf(e) = [x \in 1 .. n |-> [exec |-> e, class |-> Classes[x]]]
            BY <3>2 DEF RowsOf
        <3>5. \A x \in 1 .. n : lines[i + x - 1] = [exec |-> e, class |-> Classes[x]]
            BY <3>1 DEF RunFrom
        <3> QED
            BY <2>1, <3>1, <3>3, <3>4, <3>5 DEF RunFrom
    <2> QED
        BY <2>1, <2>2 DEF AllOrNone
<1> QED
    BY <1>1, WholeCorrect, TypesCorrect, PTL
-----------------------------------------------------------------------------
(* What the loader keeps.                                                  *)

LEMMA GreatestExists ==
    ASSUME NEW m \in Nat, NEW S, S \subseteq 0 .. m, S # {}
    PROVE  \E x \in S : \A y \in S : y <= x
<1> DEFINE T == {m - x : x \in S}
<1>1. T \subseteq Nat /\ T # {}
    <2>1. \A x \in S : m - x \in Nat
        OBVIOUS
    <2>2. PICK x \in S : TRUE
        OBVIOUS
    <2>3. m - x \in T
        BY <2>2
    <2> QED
        BY <2>1, <2>3
<1>2. IsWellFoundedOn(OpToRel(<, Nat), Nat)
    BY NatLessThanWellFounded
<1>3. PICK t \in T : \A u \in T : ~ (<<u, t>> \in OpToRel(<, Nat))
    BY <1>1, <1>2, WFMin
<1>4. PICK x \in S : t = m - x
    BY <1>3
<1>5. ASSUME NEW y \in S PROVE y <= x
    <2>1. m - y \in T /\ m - y \in Nat /\ t \in Nat /\ <<m - y, t>> \in Nat \X Nat
        BY <1>1, <1>3
    <2>2. m - y < t => <<m - y, t>> \in OpToRel(<, Nat)
        BY <2>1 DEF OpToRel
    <2>3. ~ (m - y < t)
        BY <1>3, <2>1, <2>2
    <2>4. y \in 0 .. m /\ x \in 0 .. m
        BY <1>4, <1>5
    <2> QED
        BY <1>4, <2>3, <2>4
<1> QED
    BY <1>4, <1>5

\* "Only the last one counts": of every execution that succeeded a summary that
\* loads has a row for each class, its own or a later one that the columns do not
\* tell from it, whatever the columns tell of the arguments.
THEOREM NothingIsDropped == Spec => []LastCounts
<1>1. Types /\ FileInv /\ WholeInv => LastCounts
    <2> SUFFICES ASSUME Types, FileInv, WholeInv, Loads,
                        NEW e \in DOMAIN execs, Status(e) = "ok", NEW c \in ClassSet
                 PROVE  \E i \in Loaded :
                            /\ CountsFor(i, e, c)
                            /\ Identity[execs[lines[i].exec].settings]
                                   = Identity[execs[e].settings]
        BY DEF LastCounts
    <2>1. /\ e \in 1 .. Len(execs)
          /\ DOMAIN lines = 1 .. Len(lines)
          /\ Len(lines) \in Nat /\ Len(execs) \in Nat
        BY DEF Types
    <2>2. PICK first \in 1 .. Len(lines) : RunFrom(e, first)
        BY <2>1 DEF WholeInv, AllOrNone, HasRun
    <2>3. PICK x \in 1 .. Len(Classes) : c = Classes[x]
        BY ClassesAssumption DEF ClassSet
    <2> DEFINE row == first + x - 1
    <2>4. /\ row \in 1 .. Len(lines)
          /\ lines[row] = [exec |-> e, class |-> c]
        BY <2>1, <2>2, <2>3, ClassesAssumption DEF RunFrom
    <2>5. row \in Rows
        BY <2>1, <2>4 DEF Rows, Header
    <2> HIDE DEF row
    <2> DEFINE Same == {m \in Rows : SameRun(row, m)}
    <2>6. SameRun(row, row)
        BY DEF SameRun
    <2>7. PICK m \in Same : \A n \in Same : n <= m
        <3>1. Same \subseteq 0 .. Len(lines) /\ Same # {}
            BY <2>1, <2>5, <2>6 DEF Rows
        <3> HIDE DEF Same
        <3> QED
            BY <2>1, <3>1, GreatestExists
    <2>8. m \in Rows /\ SameRun(row, m) /\ row <= m /\ m \in 1 .. Len(lines)
        BY <2>1, <2>5, <2>6, <2>7 DEF Rows
    <2>9. m \in Loaded
        <3> SUFFICES ASSUME NEW n \in Rows, n > m, SameRun(m, n) PROVE FALSE
            BY <2>8 DEF Loaded
        <3>1. SameRun(row, n)
            BY <2>8 DEF SameRun
        <3>2. n <= m
            BY <2>7, <3>1
        <3>3. n \in 1 .. Len(lines)
            BY <2>1 DEF Rows
        <3> QED
            BY <2>8, <3>2, <3>3
    <2>10. e <= lines[m].exec
        BY <2>4, <2>8 DEF FileInv
    <2>11. lines[m].exec \in 1 .. Len(execs)
        BY <2>1, <2>8, LineIs DEF FileInv, Rows
    <2>12. /\ lines[m].class = c
           /\ execs[lines[m].exec].point = execs[e].point
           /\ Identity[execs[e].settings] = Identity[execs[lines[m].exec].settings]
        <3>1. lines[row].exec = e /\ lines[row].class = c
            BY <2>4
        <3>2. /\ execs[lines[row].exec].point = execs[lines[m].exec].point
              /\ Identity[execs[lines[row].exec].settings]
                     = Identity[execs[lines[m].exec].settings]
              /\ lines[row].class = lines[m].class
            BY <2>8 DEF SameRun
        <3>3. /\ execs[e].point = execs[lines[m].exec].point
              /\ Identity[execs[e].settings] = Identity[execs[lines[m].exec].settings]
            BY <3>1, <3>2, Zenon
        <3> QED
            BY <3>1, <3>2, <3>3
    <2>13. lines[m].exec >= e
        BY <2>1, <2>10, <2>11
    <2> QED
        BY <2>9, <2>12, <2>13 DEF CountsFor
<1> QED
    BY <1>1, FileCorrect, WholeCorrect, TypesCorrect, PTL
=============================================================================
