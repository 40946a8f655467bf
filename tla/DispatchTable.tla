---------------------------- MODULE DispatchTable ----------------------------
(***************************************************************************)
(* The dispatch tables of a compiled graph with one dynamic dimension      *)
(* (python/hidet/runtime/utils/dispatch_table.py, compiled_task.py,        *)
(* compiled_graph.py).  Several processes load the graph and run it.       *)
(*                                                                         *)
(* Every task of the graph has several kernels, the candidates.  Which one *)
(* is the fastest for the dimension at hand is found by measuring and kept *)
(* in a table of the task; the choice for all tasks of the graph is kept   *)
(* in a table of the graph.  A table has a copy in the memory of every     *)
(* process and a file dispatch_table.txt with two lock files: .lock is     *)
(* held while the file is read or written, .t_lock while it is filled by   *)
(* measuring.  With "points" a table has a line per value that was met;    *)
(* with "interval" it is filled at once for the intervals between the      *)
(* split points, and rewritten whole.                                      *)
(*                                                                         *)
(* A static task has no symbol: its table is one of points and its key is  *)
(* empty (0 here).  The processes have the same options.                   *)
(***************************************************************************)
EXTENDS Naturals, Sequences, FiniteSets

CONSTANTS Processes, Tasks, Static, Candidates,
          Splits,   \* option dispatch_table.split_points
          Plans,    \* what the processes do: mode, todo, kills
          Clear,    \* the call clear_dispatch_table() in a todo
          Nobody

ASSUME TasksAssumption ==
  /\ IsFiniteSet(Tasks) /\ Tasks # {} /\ Tasks = 1 .. Cardinality(Tasks)
  /\ Static \subseteq Tasks
ASSUME NobodyAssumption == Nobody \notin Processes
ASSUME SplitsAssumption ==
  /\ Splits \in Seq(Nat) /\ Len(Splits) > 1 /\ Splits[1] = 1
  /\ \A i \in 1 .. Len(Splits) - 1 : Splits[i] < Splits[i + 1]

\* The dimensions the graph is run with are positive.
ASSUME PlansAssumption ==
  \A a \in Plans : a.todo \in [Processes -> Seq((Nat \ {0}) \union {Clear})]

Graph == 0                  \* the graph's own table, beside those of its tasks
Tables == Tasks \union {Graph}
Last(s) == s[Len(s)]

VARIABLES
  plan,      \* one of Plans
  file,      \* the file of every table: was it made, is its first part there, its lines
  lock,      \* who holds dispatch_table.txt.lock
  tlock,     \* who holds dispatch_table.txt.t_lock
  table,     \* the tables in the memory of every process
  symbol,    \* the value of the dynamic dimension in the runtime of every process
  pc, cur,   \* where a process is, and at which table
  job,       \* why it goes through the tasks: "populate" or "slow"
  part,      \* the interval that is populated
  choice,    \* best_candidates: the candidates found so far
  todo,      \* the calls it still makes
  calling,   \* the processes inside run_async
  ran,       \* the dimensions it ran the graph with
  measured,  \* history: which candidate was found the best for which task where
  launched   \* the kernels every process launched last

files  == <<file, lock, tlock>>
memory == <<table, symbol, job, part, choice, todo, calling, ran, measured, launched>>
vars   == <<plan, file, lock, tlock, table, symbol, pc, cur, job, part, choice, todo,
            calling, ran, measured, launched>>

-----------------------------------------------------------------------------
(* Tables.                                                                  *)

IsInterval(f) == plan.mode = "interval" /\ f \notin Static

\* The intervals between the split points: each but the first starts one later.
Parts   == 1 .. Len(Splits) - 1
Low(i)  == IF i = 1 THEN Splits[1] ELSE Splits[i] + 1
High(i) == Splits[i + 1]

\* The candidate of an interval task is that of the first interval that has d,
\* the last of which has no end.
Covers(lines, i, d) == lines[i].low <= d /\ (i = Len(lines) \/ d <= lines[i].high)
IntervalPick(lines, d) ==
  LET i == CHOOSE i \in DOMAIN lines : /\ Covers(lines, i, d)
                                       /\ \A j \in 1 .. i - 1 : ~Covers(lines, j, d)
  IN  lines[i].best

\* The graph's table has an entry for every integer, and its last for all beyond.
\* Mutant: the list is taken to start at the first dimension, not at 0.
GraphPickNext(lines, d) == IF d < Len(lines) THEN lines[d + 1].best ELSE Last(lines).best
GraphPick(lines, d) == IF d <= Len(lines) THEN lines[d].best ELSE Last(lines).best

\* The lines of a table of points; a later line of the same key counts.
Keys(lines) == {lines[i].key : i \in DOMAIN lines}
PointPick(lines, d) ==
  lines[CHOOSE i \in DOMAIN lines : lines[i].key = d /\ \A j \in DOMAIN lines :
                                       lines[j].key = d => j <= i].best

Contains(f, lines, d) == IF IsInterval(f) THEN lines # <<>> ELSE d \in Keys(lines)
Pick(f, lines, d) ==
  IF ~IsInterval(f) THEN PointPick(lines, d)
  ELSE IF f = Graph THEN GraphPick(lines, d) ELSE IntervalPick(lines, d)

Key(t, d) == IF t \in Static THEN 0 ELSE d

NoFile    == [made |-> FALSE, header |-> FALSE, lines |-> <<>>]
EmptyFile == [made |-> TRUE, header |-> FALSE, lines |-> <<>>]

-----------------------------------------------------------------------------
Init ==
  /\ plan \in Plans
  /\ file   = [f \in Tables |-> NoFile]
  /\ lock   = [f \in Tables |-> Nobody]
  /\ tlock  = [f \in Tables |-> Nobody]
  /\ table  = [p \in Processes |-> [f \in Tables |-> <<>>]]
  /\ symbol = [p \in Processes |-> 0]
  /\ pc     = [p \in Processes |-> "start"]
  /\ cur    = [p \in Processes |-> Graph]
  /\ job    = [p \in Processes |-> "none"]
  /\ part   = [p \in Processes |-> 1]
  /\ choice = [p \in Processes |-> [t \in Tasks |-> Nobody]]
  /\ todo   = plan.todo
  /\ calling = {}
  /\ ran    = [p \in Processes |-> {}]
  /\ measured = {}
  /\ launched = [p \in Processes |-> {}]

At(p, label) == pc[p] = label
GoTo(p, label) == pc' = [pc EXCEPT ![p] = label]

\* Loading a table: the constructors of the tasks' tables, then the graph's.
Load(p, f) == cur' = [cur EXCEPT ![p] = f] /\ GoTo(p, "load")
\* A table is loaded: go on with that of the next task, the graph's after them,
\* or with the call that found the graph's table cleared.
NextTable(p) ==
  IF cur[p] = Graph THEN GoTo(p, IF p \in calling THEN "running" ELSE "idle") /\ UNCHANGED cur
  ELSE Load(p, IF cur[p] + 1 \in Tasks THEN cur[p] + 1 ELSE Graph)

\* Mutant: the file is read and written without its lock.
FreeAlways(f) == TRUE
Free(f)      == lock[f] = Nobody
Measurable(f) == tlock[f] = Nobody
TakeT(p, f)  == Measurable(f) /\ tlock' = [tlock EXCEPT ![f] = p]
\* Mutant: the locks are kept.
ReleasedNone(l, p) == l
Released(l, p) == [f \in Tables |-> IF l[f] = p THEN Nobody ELSE l[f]]
ReleaseT(p)  == tlock' = Released(tlock, p)
\* An exception leaves every `with`.
Fail(p) == GoTo(p, "failed") /\ lock' = Released(lock, p) /\ ReleaseT(p)

Start(p) == At(p, "start") /\ Load(p, 1) /\ UNCHANGED <<plan, files, memory>>

-----------------------------------------------------------------------------
(* Loading.                                                                 *)

\* An interval task looks for its file and measures under one t_lock.
LoadLocked(p) ==
  /\ At(p, "load") /\ IsInterval(cur[p]) /\ cur[p] # Graph
  /\ TakeT(p, cur[p]) /\ GoTo(p, "look")
  /\ UNCHANGED <<plan, cur, file, lock, memory>>

\* The others look for the file without a lock.
LooksNow(p) == \/ At(p, "look")
               \/ At(p, "load") /\ ~(IsInterval(cur[p]) /\ cur[p] # Graph)

\* Mutant: nobody looks for the file.
NeverSeen(f) == FALSE
FileSeen(f) == file[f].made
LookFinds(p) ==
  /\ LooksNow(p) /\ FileSeen(cur[p])
  /\ GoTo(p, "read") /\ UNCHANGED <<plan, cur, files, memory>>

LookMisses(p) ==
  /\ LooksNow(p) /\ ~FileSeen(cur[p])
  /\ IF ~IsInterval(cur[p]) THEN NextTable(p)
     ELSE UNCHANGED cur /\ GoTo(p, IF cur[p] = Graph THEN "fill" ELSE "measure all")
  /\ table' = [table EXCEPT ![p][cur[p]] = <<>>]
  /\ UNCHANGED <<plan, files, symbol, job, part, choice, todo, calling, ran, measured, launched>>

\* A file that json cannot parse: one that was opened for writing and left empty.
Parses(f) == IsInterval(f) => file[f].header

Read(p) ==
  /\ At(p, "read") /\ Free(cur[p]) /\ Parses(cur[p])
  /\ table' = [table EXCEPT ![p][cur[p]] = file[cur[p]].lines]
  /\ ReleaseT(p) /\ NextTable(p)
  /\ UNCHANGED <<plan, file, lock, symbol, job, part, choice, todo, calling, ran, measured, launched>>

ReadFails(p) ==
  /\ At(p, "read") /\ Free(cur[p]) /\ ~Parses(cur[p])
  /\ Fail(p) /\ UNCHANGED <<plan, cur, file, memory>>

\* _init_intervals: a candidate for every interval, measured at its end; the
\* last is taken for the dimensions beyond.
MeasureAll(p) ==
  /\ At(p, "measure all")
  /\ \E best \in [Parts -> Candidates] :
       LET t == cur[p]
           found == [i \in Parts |-> [low |-> Low(i), high |-> High(i), best |-> best[i]]]
           beyond == [low |-> Last(Splits) + 1, high |-> 0, best |-> best[Len(Splits) - 1]]
       IN  /\ table' = [table EXCEPT ![p][t] = Append(found, beyond)]
           /\ measured' = measured \union
                {[task |-> t, key |-> High(i), best |-> best[i]] : i \in Parts}
  /\ symbol' = [symbol EXCEPT ![p] = Last(Splits)]
  /\ GoTo(p, "save")
  /\ UNCHANGED <<plan, cur, files, job, part, choice, todo, calling, ran, launched>>

\* The graph's table is filled from those of the tasks, interval by interval;
\* whether another process has meanwhile done so is not asked.
Fill(p) ==
  /\ At(p, "fill") /\ TakeT(p, Graph)
  /\ job'  = [job EXCEPT ![p] = "populate"] /\ part' = [part EXCEPT ![p] = 1]
  /\ symbol' = [symbol EXCEPT ![p] = High(1)]
  /\ cur'  = [cur EXCEPT ![p] = 1] /\ GoTo(p, "pick")
  /\ UNCHANGED <<plan, file, lock, table, choice, todo, calling, ran, measured, launched>>

\* Saving opens the file for writing, which empties it, and then writes it whole.
Save(p) ==
  /\ At(p, "save") /\ Free(cur[p])
  /\ lock' = [lock EXCEPT ![cur[p]] = p]
  /\ file' = [file EXCEPT ![cur[p]] = EmptyFile]
  /\ GoTo(p, "saving") /\ UNCHANGED <<plan, cur, tlock, memory>>

Saved(p) ==
  /\ At(p, "saving")
  /\ file' = [file EXCEPT ![cur[p]] = [made |-> TRUE, header |-> TRUE, lines |-> table[p][cur[p]]]]
  /\ lock' = Released(lock, p) /\ ReleaseT(p) /\ NextTable(p)
  /\ UNCHANGED <<plan, memory>>

-----------------------------------------------------------------------------
(* Picking the best candidate of a task, for the inputs at hand.            *)

\* The size of the inputs the process works on: those of the call, or those made
\* for the end of an interval.
Dim(p) == IF job[p] = "populate" THEN High(part[p]) ELSE Head(todo[p])
\* The key of a table of points is read from the runtime, that of an interval
\* task from the inputs.
PickKey(p, t) == IF IsInterval(t) THEN Dim(p) ELSE Key(t, symbol[p])
Known(p, t) == Contains(t, table[p][t], PickKey(p, t))

Chosen(p, t, c) == choice' = [choice EXCEPT ![p][t] = c]
Kernel(p, t, c) == [task |-> t, best |-> c, dim |-> Head(todo[p]), symbol |-> symbol[p]]

\* What follows a pick: the slow path runs the kernel.
AfterPick(p, t, c) ==
  /\ Chosen(p, t, c)
  /\ launched' = IF job[p] = "slow" THEN [launched EXCEPT ![p] = {Kernel(p, t, c)}] ELSE launched
  /\ IF t + 1 \in Tasks THEN cur' = [cur EXCEPT ![p] = t + 1] /\ GoTo(p, "pick")
     ELSE cur' = [cur EXCEPT ![p] = Graph] /\ GoTo(p, "picked")

PickKnown(p) ==
  /\ At(p, "pick") /\ Known(p, cur[p])
  /\ AfterPick(p, cur[p], Pick(cur[p], table[p][cur[p]], PickKey(p, cur[p])))
  /\ UNCHANGED <<plan, files, table, symbol, job, part, todo, calling, ran, measured>>

PickUnknown(p) ==
  /\ At(p, "pick") /\ ~Known(p, cur[p])
  /\ TakeT(p, cur[p]) /\ GoTo(p, "measure")
  /\ UNCHANGED <<plan, cur, file, lock, memory>>

Measure(p) ==
  /\ At(p, "measure")
  /\ \E best \in Candidates :
       LET t == cur[p]
       IN  /\ measured' = measured \union {[task |-> t, key |-> Key(t, Dim(p)), best |-> best]}
           /\ table' = [table EXCEPT ![p][t] = Append(@, [key |-> PickKey(p, t), best |-> best])]
  /\ GoTo(p, "append")
  /\ UNCHANGED <<plan, cur, files, symbol, job, part, choice, todo, calling, ran, launched>>

\* Adding a line to a file of points: a file that is not there is made with the
\* names of the symbols as its first line, then the line is added.
MakeFile(p) ==
  /\ At(p, "append") /\ Free(cur[p]) /\ ~FileSeen(cur[p])
  /\ lock' = [lock EXCEPT ![cur[p]] = p]
  /\ file' = [file EXCEPT ![cur[p]] = EmptyFile]
  /\ GoTo(p, "header") /\ UNCHANGED <<plan, cur, tlock, memory>>

Header(p) ==
  /\ At(p, "header")
  /\ file' = [file EXCEPT ![cur[p]].header = TRUE]
  /\ GoTo(p, "appending") /\ UNCHANGED <<plan, cur, lock, tlock, memory>>

OpenFile(p) ==
  /\ At(p, "append") /\ Free(cur[p]) /\ FileSeen(cur[p])
  /\ lock' = [lock EXCEPT ![cur[p]] = p]
  /\ GoTo(p, "appending") /\ UNCHANGED <<plan, cur, file, tlock, memory>>

\* Mutant: the file is opened for writing, not for appending.
Overwritten(lines, line) == <<line>>
Appended(lines, line) == Append(lines, line)
WithLine(f, line) == [file EXCEPT ![f].lines = Appended(@, line)]

AppendTask(p) ==
  /\ At(p, "appending") /\ cur[p] # Graph
  /\ LET t == cur[p]
         line == Last(table[p][t])
     IN  file' = WithLine(t, line) /\ AfterPick(p, t, line.best)
  /\ lock' = Released(lock, p) /\ tlock' = [tlock EXCEPT ![cur[p]] = Nobody]
  /\ UNCHANGED <<plan, table, symbol, job, part, todo, calling, ran, measured>>

\* populate_dispatch_table: the next interval, or the table is complete.
PopulatePart(p) ==
  /\ At(p, "picked") /\ job[p] = "populate"
  /\ table' = [table EXCEPT ![p][Graph] =
                 @ \o [i \in 1 .. High(part[p]) + 1 - Low(part[p]) |-> [best |-> choice[p]]]]
  /\ IF part[p] + 1 \in Parts
     THEN /\ part' = [part EXCEPT ![p] = part[p] + 1]
          /\ symbol' = [symbol EXCEPT ![p] = High(part[p] + 1)]
          /\ cur' = [cur EXCEPT ![p] = 1] /\ GoTo(p, "pick")
     ELSE UNCHANGED <<part, symbol, cur>> /\ GoTo(p, "save")
  /\ UNCHANGED <<plan, files, job, choice, todo, calling, ran, measured, launched>>

-----------------------------------------------------------------------------
(* Running the graph.                                                       *)

Updated(p, d) == [symbol EXCEPT ![p] = d]

\* run_async: the symbols are set; the table is built again if it was cleared.
Run(p) ==
  /\ At(p, "idle") /\ todo[p] # <<>> /\ Head(todo[p]) # Clear
  /\ symbol' = Updated(p, Head(todo[p]))
  /\ calling' = calling \union {p}
  /\ IF table[p][Graph] = Nobody THEN Load(p, Graph)
     ELSE UNCHANGED cur /\ GoTo(p, "running")
  /\ UNCHANGED <<plan, files, table, job, part, choice, todo, ran, measured, launched>>

Returned(p) == /\ calling' = calling \ {p}
               /\ todo' = [todo EXCEPT ![p] = Tail(@)]
               /\ ran' = [ran EXCEPT ![p] = @ \union {Head(todo[p])}]
               /\ GoTo(p, "idle")

FastPath(p) ==
  /\ At(p, "running") /\ Contains(Graph, table[p][Graph], Head(todo[p]))
  /\ LET best == Pick(Graph, table[p][Graph], Head(todo[p]))
     IN  launched' = [launched EXCEPT ![p] = {Kernel(p, t, best[t]) : t \in Tasks}]
  /\ Returned(p)
  /\ UNCHANGED <<plan, cur, files, table, symbol, job, part, choice, measured>>

SlowPath(p) ==
  /\ At(p, "running") /\ ~Contains(Graph, table[p][Graph], Head(todo[p]))
  /\ job' = [job EXCEPT ![p] = "slow"]
  /\ cur' = [cur EXCEPT ![p] = 1] /\ GoTo(p, "pick")
  /\ UNCHANGED <<plan, files, table, symbol, part, choice, todo, calling, ran, measured, launched>>

\* update_symbol_table: in memory, then in the file.
Update(p) ==
  /\ At(p, "picked") /\ job[p] = "slow"
  /\ table' = [table EXCEPT ![p][Graph] = Append(@, [key |-> Head(todo[p]), best |-> choice[p]])]
  /\ GoTo(p, "append")
  /\ UNCHANGED <<plan, cur, files, symbol, job, part, choice, todo, calling, ran, measured, launched>>

\* The last line is looked at, so there must be one; a line is not written twice
\* in a row.
AppendGraph(p) ==
  /\ At(p, "appending") /\ cur[p] = Graph /\ file[Graph].header
  /\ LET line == Last(table[p][Graph])
     IN  file' = IF file[Graph].lines # <<>> /\ Last(file[Graph].lines) = line THEN file
                 ELSE WithLine(Graph, line)
  /\ lock' = Released(lock, p) /\ Returned(p)
  /\ UNCHANGED <<plan, cur, tlock, table, symbol, job, part, choice, measured, launched>>

AppendGraphFails(p) ==
  /\ At(p, "appending") /\ cur[p] = Graph /\ ~file[Graph].header
  /\ Fail(p) /\ UNCHANGED <<plan, cur, file, memory>>

ClearTable(p) ==
  /\ At(p, "idle") /\ todo[p] # <<>> /\ Head(todo[p]) = Clear
  /\ table' = [table EXCEPT ![p][Graph] = Nobody]
  /\ todo' = [todo EXCEPT ![p] = Tail(@)]
  /\ UNCHANGED <<plan, files, symbol, pc, cur, job, part, choice, calling, ran, measured, launched>>

Exit(p) == At(p, "idle") /\ todo[p] = <<>> /\ GoTo(p, "done")
           /\ UNCHANGED <<plan, cur, files, memory>>

\* A process is killed: the system releases its locks, its files stay.
Ended == {"done", "failed", "killed"}
Kill(p) ==
  /\ pc[p] \notin Ended \union {"start"}
  /\ Cardinality({q \in Processes : At(q, "killed")}) < plan.kills
  /\ GoTo(p, "killed") /\ lock' = Released(lock, p) /\ ReleaseT(p)
  /\ UNCHANGED <<plan, cur, file, memory>>

Step(p) ==
  \/ Start(p) \/ LoadLocked(p) \/ LookFinds(p) \/ LookMisses(p) \/ Read(p) \/ ReadFails(p)
  \/ MeasureAll(p) \/ Fill(p) \/ Save(p) \/ Saved(p)
  \/ PickKnown(p) \/ PickUnknown(p) \/ Measure(p)
  \/ MakeFile(p) \/ Header(p) \/ OpenFile(p) \/ AppendTask(p) \/ PopulatePart(p)
  \/ Run(p) \/ FastPath(p) \/ SlowPath(p) \/ Update(p) \/ AppendGraph(p) \/ AppendGraphFails(p)
  \/ ClearTable(p) \/ Exit(p)

Next == \E p \in Processes : Step(p) \/ Kill(p)

\* Processes run on unless they are killed.
Spec == Init /\ [][Next]_vars /\ \A p \in Processes : WF_vars(Step(p))

-----------------------------------------------------------------------------
(* Properties.                                                              *)

\* Where a task is measured for the dimension d: there, or at the end of its interval.
Cell(t, d) ==
  IF ~IsInterval(t) THEN Key(t, d)
  ELSE IF d > Last(Splits) THEN Last(Splits)
  ELSE CHOOSE h \in {High(i) : i \in Parts} : d <= h /\ \A i \in Parts : d <= High(i) => h <= High(i)

\* Every kernel that runs is one that was found the best for the dimension of the
\* inputs it runs on, by this process or another: in the memory, in the files and
\* in the arrays made of them, every candidate stays with its task and its interval.
\* And it runs with that dimension as the value of the symbol, although measuring
\* for other dimensions sets it too.
KernelsFit == \A p \in Processes : \A k \in launched[p] :
  /\ [task |-> k.task, key |-> Cell(k.task, k.dim), best |-> k.best] \in measured
  /\ k.symbol = k.dim

\* Processes that measure an interval task at most once among them run the same
\* kernel of it for the same interval.
Agreement == \A p, q \in Processes : \A k \in launched[p], l \in launched[q] :
  k.task = l.task /\ IsInterval(k.task) /\ Cell(k.task, k.dim) = Cell(l.task, l.dim) => k.best = l.best

Torn(f) == file[f].made /\ ~file[f].header /\ lock[f] = Nobody

\* "Once determined, the chosen candidate is recorded in the dispatch table for
\* future use": what a run that returned has used is in the files, for the
\* processes that come later, until a process is killed while it rewrites one.
RunsAreRecorded == \A p \in Processes : \A d \in ran[p] : \A f \in Tables :
  lock[f] = Nobody /\ ~Torn(f) => Contains(f, file[f].lines, Key(f, d))

\* A process fails only on the file that another left empty when it was killed
\* between opening and writing it, and never on that of a table of points of a task.
FailsOnTornOnly == [][\A p \in Processes : pc[p] # "failed" /\ pc'[p] = "failed" =>
  /\ file[cur[p]].made /\ ~file[cur[p]].header /\ lock[cur[p]] \in {p, Nobody}
  /\ cur[p] = Graph \/ IsInterval(cur[p])
  /\ \E q \in Processes : pc[q] = "killed"]_vars

\* Nobody waits for ever: although the t_lock of the graph is held while those of
\* its tasks are taken, every process gets through its calls.
EveryRunEnds == <>(\A p \in Processes : pc[p] \in Ended)

=============================================================================
