------------------------ MODULE DispatchTableProofs ------------------------
(***************************************************************************)
(* Proofs about the dispatch tables, for any processes, tasks, candidates, *)
(* split points and calls, in three layers:                                *)
(*   IInv     the files: one that was made and has no first part yet is    *)
(*            being written under its lock, or its writer was killed;      *)
(*   Fit      the contents: what the files and the memory of a process     *)
(*            say was measured, for the task and the interval it says;     *)
(*   Records  the runs: what a process has run with is in the files, or is *)
(*            the line that it is about to add.                            *)
(***************************************************************************)
EXTENDS DispatchTable, FiniteSetTheorems, WellFoundedInduction, TLAPS

Holding == {"saving", "header", "appending"}
Writing == {"saving", "header"}
Quiet   == {"start", "load", "look", "read", "measure all", "save", "fill", "pick", "measure",
            "append", "picked", "idle", "running", "done"}
Labels  == Quiet \cup Holding \cup {"failed", "killed"}

IsFile(x) == /\ x.made \in BOOLEAN /\ x.header \in BOOLEAN
             /\ x = [made |-> x.made, header |-> x.header, lines |-> x.lines]

Typed ==
  /\ pc \in [Processes -> Labels]
  /\ cur \in [Processes -> Tables]
  /\ lock \in [Tables -> Processes \cup {Nobody}]
  /\ file = [f \in Tables |-> file[f]] /\ \A f \in Tables : IsFile(file[f])

\* The lock of a file is held by the process that writes it.
Held ==
  /\ \A f \in Tables, p \in Processes : lock[f] = p => pc[p] \in Holding /\ cur[p] = f
  /\ \A p \in Processes : pc[p] \in Holding => lock[cur[p]] = p

\* Who reads a file or adds to it has found or made it.
Seen == \A p \in Processes : pc[p] \in {"read", "header", "appending"} => file[cur[p]].made

SomeKilled == \E q \in Processes : pc[q] = "killed"

\* A file without its first part is being written, or was when its writer was killed.
Whole == \A f \in Tables : file[f].made /\ ~ file[f].header =>
  \/ SomeKilled
  \/ \E q \in Processes : lock[f] = q /\ pc[q] \in Writing

IInv == Typed /\ Held /\ Seen /\ Whole

-----------------------------------------------------------------------------
(* The kinds of steps.                                                      *)

Moves(p, labels) == /\ \E label \in labels : pc' = [pc EXCEPT ![p] = label]
                    /\ \E f \in Tables : cur' = [cur EXCEPT ![p] = f]

\* A step without a lock that leaves the files alone.
Quietly(p) ==
  /\ pc[p] \in Quiet /\ Moves(p, Quiet)
  /\ lock' = lock /\ file' = file
  /\ pc'[p] = "read" => file[cur'[p]].made

\* A file is locked, to be written from its beginning or to be added to.
Takes(p) ==
  /\ pc[p] \in Quiet /\ lock[cur[p]] = Nobody
  /\ lock' = [lock EXCEPT ![cur[p]] = p] /\ cur' = cur
  /\ \/ /\ file' = [file EXCEPT ![cur[p]] = EmptyFile]
        /\ \E label \in Writing : pc' = [pc EXCEPT ![p] = label]
     \/ /\ file' = file /\ file[cur[p]].made
        /\ pc' = [pc EXCEPT ![p] = "appending"]

\* It has been written, and is unlocked.
Finishes(p) ==
  /\ pc[p] \in Holding /\ Moves(p, Quiet \ {"read"})
  /\ lock' = Released(lock, p)
  /\ \E lines : \E header \in BOOLEAN :
       /\ file' = [file EXCEPT ![cur[p]] = [made |-> TRUE, header |-> header, lines |-> lines]]
       /\ ~ header => pc[p] = "appending" /\ ~ file[cur[p]].header

\* A process fails or is killed.
Stops(p) ==
  /\ pc[p] # "killed" /\ lock' = Released(lock, p) /\ file' = file /\ cur' = cur
  /\ \/ pc' = [pc EXCEPT ![p] = "killed"]
     \/ pc[p] \in {"read", "appending"} /\ pc' = [pc EXCEPT ![p] = "failed"]

LEMMA LabelFacts ==
  /\ Quiet \subseteq Labels /\ Holding \subseteq Labels /\ Writing \subseteq Holding
  /\ {"failed", "killed"} \subseteq Labels
  /\ \A label \in Quiet : label \notin Holding /\ label \notin {"failed", "killed"}
  /\ {"idle", "read"} \subseteq Quiet /\ "idle" # "read"
  /\ \A label \in Holding : label \notin {"failed", "killed", "read"}
BY DEF Quiet, Holding, Writing, Labels

LEMMA TableFacts ==
  /\ Graph \in Tables /\ 1 \in Tables
  /\ \A f \in Tables : f + 1 \in Tasks => f + 1 \in Tables
<1>1. Cardinality(Tasks) \in Nat  BY TasksAssumption, FS_CardinalityType
<1>2. PICK t \in Tasks : t \in 1 .. Cardinality(Tasks)  BY TasksAssumption
<1>3. 1 \in Tasks  BY <1>1, <1>2, TasksAssumption
<1> QED  BY <1>3 DEF Tables

\* The next table is a table, and nothing is read before it is looked for.
LEMMA NextMoves ==
  ASSUME Typed, NEW p \in Processes, NextTable(p)
  PROVE  Moves(p, Quiet \ {"read"})
<1>1. cur[p] \in Tables /\ cur = [cur EXCEPT ![p] = cur[p]]  BY DEF Typed
<1>2. CASE cur[p] = Graph
  <2>1. \E label \in {"running", "idle"} : pc' = [pc EXCEPT ![p] = label]
    BY <1>2 DEF NextTable, GoTo
  <2>2. cur' = [cur EXCEPT ![p] = cur[p]]  BY <1>1, <1>2 DEF NextTable
  <2> QED  BY <1>1, <2>1, <2>2 DEF Moves, Quiet
<1>3. CASE cur[p] # Graph
  <2>1. PICK f \in Tables : Load(p, f)  BY <1>1, <1>3, TableFacts DEF NextTable
  <2> QED  BY <2>1 DEF Load, GoTo, Moves, Quiet
<1> QED  BY <1>2, <1>3

LEMMA AfterMoves ==
  ASSUME Typed, NEW p \in Processes, NEW c, AfterPick(p, cur[p], c)
  PROVE  Moves(p, Quiet \ {"read"})
<1>1. cur[p] \in Tables  BY DEF Typed
<1>2. \E f \in Tables : cur' = [cur EXCEPT ![p] = f]  BY <1>1, TableFacts DEF AfterPick
<1>3. \E label \in {"pick", "picked"} : pc' = [pc EXCEPT ![p] = label]  BY DEF AfterPick, GoTo
<1> QED  BY <1>2, <1>3 DEF Moves, Quiet

LEMMA StayMoves ==
  ASSUME Typed, NEW p \in Processes, cur' = cur,
         NEW label \in Quiet, NEW labels, label \in labels, GoTo(p, label)
  PROVE  Moves(p, labels)
<1>1. cur[p] \in Tables /\ cur' = [cur EXCEPT ![p] = cur[p]]  BY DEF Typed
<1> QED  BY <1>1 DEF GoTo, Moves

LEMMA QuietSteps ==
  ASSUME Typed, NEW p \in Processes,
         \/ Start(p) \/ LoadLocked(p) \/ LookFinds(p) \/ LookMisses(p) \/ Read(p)
         \/ MeasureAll(p) \/ Fill(p) \/ PickKnown(p) \/ PickUnknown(p) \/ Measure(p)
         \/ PopulatePart(p) \/ Run(p) \/ FastPath(p) \/ SlowPath(p) \/ Update(p)
         \/ ClearTable(p) \/ Exit(p)
  PROVE  Quietly(p)
<1>0. pc \in [Processes -> Labels] /\ cur \in [Processes -> Tables]  BY DEF Typed
<1>1. CASE Start(p)
  BY <1>0, <1>1, TableFacts DEF Start, Load, At, GoTo, files, Quietly, Moves, Quiet
<1>2. CASE LookFinds(p)
  <2>1. cur' = cur /\ GoTo(p, "read") /\ file[cur[p]].made /\ pc[p] \in {"load", "look"}
        /\ lock' = lock /\ file' = file
    BY <1>2 DEF LookFinds, LooksNow, FileSeen, At, files
  <2>2. Moves(p, Quiet)  BY <2>1, StayMoves, LabelFacts
  <2> QED  BY <2>1, <2>2 DEF Quietly, Quiet
<1>3. CASE LookMisses(p) \/ Read(p)
  <2>1. pc[p] \in Quiet /\ lock' = lock /\ file' = file
    BY <1>3 DEF LookMisses, Read, LooksNow, At, Quiet, files
  <2>2. \/ NextTable(p)
        \/ \E label \in Quiet \ {"read"} : cur' = cur /\ GoTo(p, label)
    BY <1>3 DEF LookMisses, Read, Quiet
  <2>3. Moves(p, Quiet \ {"read"})  BY <2>2, NextMoves, StayMoves
  <2> QED  BY <1>0, <2>1, <2>3 DEF Quietly, Moves
<1>4. CASE PickKnown(p)
  <2>1. pc[p] \in Quiet /\ lock' = lock /\ file' = file /\ \E c : AfterPick(p, cur[p], c)
    BY <1>4 DEF PickKnown, At, Quiet, files
  <2>2. Moves(p, Quiet \ {"read"})  BY <2>1, AfterMoves
  <2> QED  BY <1>0, <2>1, <2>2 DEF Quietly, Moves
<1>5. CASE \/ LoadLocked(p) \/ MeasureAll(p) \/ PickUnknown(p) \/ Measure(p)
           \/ FastPath(p) \/ Update(p) \/ Exit(p)
  <2>1. /\ pc[p] \in Quiet /\ lock' = lock /\ file' = file /\ cur' = cur
        /\ \E label \in Quiet \ {"read"} : GoTo(p, label)
    BY <1>5 DEF LoadLocked, MeasureAll, PickUnknown, Measure, FastPath, Returned, Update, Exit,
                At, Quiet, files
  <2>2. Moves(p, Quiet \ {"read"})  BY <2>1, StayMoves
  <2> QED  BY <1>0, <2>1, <2>2 DEF Quietly, Moves
<1>6. CASE Fill(p) \/ SlowPath(p)
  BY <1>0, <1>6, TableFacts DEF Fill, SlowPath, At, GoTo, files, Quietly, Moves, Quiet
<1>7. CASE PopulatePart(p) \/ Run(p)
  <2>1. /\ pc[p] \in Quiet /\ lock' = lock /\ file' = file
        /\ \/ \E f \in Tables : /\ cur' = [cur EXCEPT ![p] = f]
                                /\ \E label \in Quiet \ {"read"} : GoTo(p, label)
           \/ cur' = cur /\ \E label \in Quiet \ {"read"} : GoTo(p, label)
    BY <1>7, TableFacts DEF PopulatePart, Run, Load, At, Quiet, files
  <2>2. Moves(p, Quiet \ {"read"})  BY <2>1, StayMoves DEF GoTo, Moves
  <2> QED  BY <1>0, <2>1, <2>2 DEF Quietly, Moves
<1>8. CASE ClearTable(p)
  <2>1. pc[p] = "idle" /\ pc' = pc /\ cur' = cur /\ lock' = lock /\ file' = file
    BY <1>8 DEF ClearTable, At, files
  <2>2. GoTo(p, "idle")  BY <1>0, <2>1 DEF GoTo
  <2>3. Moves(p, Quiet)  BY <2>1, <2>2, StayMoves, LabelFacts
  <2> QED  BY <2>1, <2>3 DEF Quietly, Quiet
<1> QED  BY <1>1, <1>2, <1>3, <1>4, <1>5, <1>6, <1>7, <1>8

LEMMA TakingSteps ==
  ASSUME Typed, NEW p \in Processes, Save(p) \/ MakeFile(p) \/ OpenFile(p)
  PROVE  Takes(p)
BY DEF Save, MakeFile, OpenFile, Free, FileSeen, At, GoTo, Takes, Quiet, Writing

LEMMA RecordUpdates ==
  ASSUME NEW x, IsFile(x), NEW l
  PROVE  /\ [x EXCEPT !.lines = l] = [made |-> x.made, header |-> x.header, lines |-> l]
         /\ [x EXCEPT !.header = l] = [made |-> x.made, header |-> l, lines |-> x.lines]
<1>1. x = [made |-> x.made, header |-> x.header, lines |-> x.lines]  BY DEF IsFile
<1> PICK a, b, c : a = x.made /\ b = x.header /\ c = x.lines  OBVIOUS
<1>2. x = [made |-> a, header |-> b, lines |-> c]  BY <1>1
<1>3. /\ [x EXCEPT !.lines = l] = [made |-> a, header |-> b, lines |-> l]
      /\ [x EXCEPT !.header = l] = [made |-> a, header |-> l, lines |-> c]
  BY <1>2
<1> QED  BY <1>3

LEMMA FinishingSteps ==
  ASSUME Typed, Seen, NEW p \in Processes, Saved(p) \/ AppendTask(p) \/ AppendGraph(p)
  PROVE  Finishes(p)
<1>0. pc \in [Processes -> Labels] /\ cur[p] \in Tables  BY DEF Typed
<1>1. CASE Saved(p)
  <2>1. pc[p] = "saving" /\ lock' = Released(lock, p) /\ NextTable(p)
        /\ file' = [file EXCEPT ![cur[p]] = [made |-> TRUE, header |-> TRUE, lines |-> table[p][cur[p]]]]
    BY <1>1 DEF Saved, At
  <2>2. Moves(p, Quiet \ {"read"})  BY <2>1, NextMoves
  <2> QED  BY <2>1, <2>2 DEF Finishes, Holding
<1>2. ASSUME pc[p] = "appending", NEW f, f = cur[p], NEW line, file' = WithLine(f, line) \/ file' = file
      PROVE  \E lines : \E header \in BOOLEAN :
               /\ file' = [file EXCEPT ![cur[p]] = [made |-> TRUE, header |-> header, lines |-> lines]]
               /\ header = file[cur[p]].header
  <2> DEFINE x == file[cur[p]]
  <2>1. IsFile(x) /\ x.made = TRUE  BY <1>0, <1>2 DEF Typed, Seen
  <2>2. x = [made |-> TRUE, header |-> x.header, lines |-> x.lines] /\ x.header \in BOOLEAN
    BY <2>1 DEF IsFile
  <2>3. CASE file' = file
    <3>1. file' = [file EXCEPT ![cur[p]] = x]  BY <1>0, <2>3 DEF Typed
    <3> QED  BY <2>2, <3>1
  <2>4. CASE file' = WithLine(f, line)
    <3>1. file' = [file EXCEPT ![cur[p]] = [x EXCEPT !.lines = Appended(x.lines, line)]]
      BY <1>0, <1>2, <2>4 DEF WithLine, Typed
    <3>2. [x EXCEPT !.lines = Appended(x.lines, line)] =
            [made |-> TRUE, header |-> x.header, lines |-> Appended(x.lines, line)]
      BY <2>1, RecordUpdates
    <3> QED  BY <2>2, <3>1, <3>2
  <2> QED  BY <1>2, <2>3, <2>4
<1>3. CASE AppendTask(p)
  <2>1. /\ pc[p] = "appending" /\ lock' = Released(lock, p)
        /\ \E line : file' = WithLine(cur[p], line) /\ AfterPick(p, cur[p], line.best)
    BY <1>3 DEF AppendTask, At
  <2>2. Moves(p, Quiet \ {"read"})  BY <2>1, AfterMoves
  <2>3. PICK lines : \E header \in BOOLEAN :
               /\ file' = [file EXCEPT ![cur[p]] = [made |-> TRUE, header |-> header, lines |-> lines]]
               /\ header = file[cur[p]].header
    BY <1>2, <2>1
  <2> QED  BY <2>1, <2>2, <2>3 DEF Finishes, Holding
<1>4. CASE AppendGraph(p)
  <2>1. /\ pc[p] = "appending" /\ lock' = Released(lock, p) /\ cur' = cur /\ GoTo(p, "idle")
        /\ cur[p] = Graph /\ \E line : file' = WithLine(Graph, line) \/ file' = file
    BY <1>4 DEF AppendGraph, At, Returned
  <2>2. Moves(p, Quiet \ {"read"})  BY <2>1, StayMoves, LabelFacts
  <2>3. PICK lines : \E header \in BOOLEAN :
               /\ file' = [file EXCEPT ![cur[p]] = [made |-> TRUE, header |-> header, lines |-> lines]]
               /\ header = file[cur[p]].header
    BY <1>2, <2>1
  <2> QED  BY <2>1, <2>2, <2>3 DEF Finishes, Holding
<1> QED  BY <1>1, <1>3, <1>4

LEMMA StoppingSteps ==
  ASSUME NEW p \in Processes, ReadFails(p) \/ AppendGraphFails(p) \/ Kill(p)
  PROVE  Stops(p)
BY DEF ReadFails, AppendGraphFails, Kill, Fail, At, GoTo, Ended, Stops

LEMMA Kinds ==
  ASSUME Typed, Seen, NEW p \in Processes, Step(p) \/ Kill(p)
  PROVE  Quietly(p) \/ Takes(p) \/ Header(p) \/ Finishes(p) \/ Stops(p)
BY QuietSteps, TakingSteps, FinishingSteps, StoppingSteps DEF Step

-----------------------------------------------------------------------------
(* The invariant.                                                           *)

\* Only the step's own process moves.
LEMMA OthersWait ==
  ASSUME Typed, NEW p \in Processes, Quietly(p) \/ Takes(p) \/ Header(p) \/ Finishes(p) \/ Stops(p)
  PROVE  /\ pc' \in [Processes -> Labels] /\ cur' \in [Processes -> Tables]
         /\ \A q \in Processes \ {p} : pc'[q] = pc[q] /\ cur'[q] = cur[q]
         /\ SomeKilled => SomeKilled'
<1>1. pc[p] # "killed"
  BY LabelFacts DEF Quietly, Takes, Header, At, Finishes, Stops
<1>2. \E label \in Labels : pc' = [pc EXCEPT ![p] = label]
  <2>1. CASE Quietly(p) \/ Finishes(p)  BY <2>1, LabelFacts DEF Quietly, Finishes, Moves
  <2>2. CASE Takes(p) \/ Header(p)
    <3>1. \E label \in Holding : pc' = [pc EXCEPT ![p] = label]
      BY <2>2, LabelFacts DEF Takes, Header, GoTo, Holding
    <3> QED  BY <3>1, LabelFacts
  <2>3. CASE Stops(p)  BY <2>3, LabelFacts DEF Stops
  <2> QED  BY <2>1, <2>2, <2>3
<1>3. \E f \in Tables : cur' = [cur EXCEPT ![p] = f]
  <2>1. cur = [cur EXCEPT ![p] = cur[p]] /\ cur[p] \in Tables  BY DEF Typed
  <2> QED  BY <2>1 DEF Quietly, Takes, Header, Finishes, Stops, Moves
<1>4. pc' \in [Processes -> Labels] /\ cur' \in [Processes -> Tables]
  BY <1>2, <1>3 DEF Typed
<1>5. \A q \in Processes \ {p} : pc'[q] = pc[q] /\ cur'[q] = cur[q]
  BY <1>2, <1>3 DEF Typed
<1>6. SomeKilled => SomeKilled'  BY <1>1, <1>5 DEF SomeKilled
<1> QED  BY <1>4, <1>5, <1>6

LEMMA QuietKeeps ==
  ASSUME IInv, NEW p \in Processes, Quietly(p)
  PROVE  IInv'
<1>1. Typed /\ lock' = lock /\ file' = file /\ pc[p] \in Quiet /\ pc'[p] \in Quiet
  BY DEF IInv, Quietly, Moves, Typed
<1>2. /\ pc' \in [Processes -> Labels] /\ cur' \in [Processes -> Tables]
      /\ \A q \in Processes \ {p} : pc'[q] = pc[q] /\ cur'[q] = cur[q]
      /\ SomeKilled => SomeKilled'
  BY <1>1, OthersWait
<1>3. Typed'  BY <1>1, <1>2 DEF Typed
<1>4. Held'  BY <1>1, <1>2, LabelFacts DEF IInv, Held
<1>5. Seen'  BY <1>1, <1>2, LabelFacts DEF IInv, Seen, Quietly, Quiet
<1>6. Whole'  BY <1>1, <1>2, LabelFacts DEF IInv, Whole, Held
<1> QED  BY <1>3, <1>4, <1>5, <1>6 DEF IInv

LEMMA TakingKeeps ==
  ASSUME IInv, NEW p \in Processes, Takes(p)
  PROVE  IInv'
<1>1. /\ Typed /\ pc[p] \in Quiet /\ lock[cur[p]] = Nobody /\ cur[p] \in Tables
      /\ lock' = [lock EXCEPT ![cur[p]] = p] /\ cur' = cur
  BY DEF IInv, Takes, Typed
<1>2. /\ pc' \in [Processes -> Labels] /\ cur' \in [Processes -> Tables]
      /\ \A q \in Processes \ {p} : pc'[q] = pc[q] /\ cur'[q] = cur[q]
      /\ SomeKilled => SomeKilled'
  BY <1>1, OthersWait
<1>3. pc'[p] \in Holding  BY <1>1, LabelFacts DEF Takes, Typed, Holding
<1>4. \A f \in Tables : f # cur[p] => file'[f] = file[f]  BY <1>1 DEF Takes, Typed
<1>5. \/ file'[cur[p]] = EmptyFile /\ pc'[p] \in Writing
      \/ file'[cur[p]] = file[cur[p]] /\ file[cur[p]].made /\ pc'[p] = "appending"
  BY <1>1 DEF Takes, Typed
<1>6. Typed'
  <2>1. lock' \in [Tables -> Processes \cup {Nobody}]  BY <1>1 DEF Typed
  <2>2. file' = [f \in Tables |-> file'[f]]
    <3>1. file = [f \in Tables |-> file[f]]  BY <1>1 DEF Typed
    <3>2. file' = file \/ file' = [file EXCEPT ![cur[p]] = EmptyFile]  BY DEF Takes
    <3> QED  BY <3>1, <3>2
  <2>3. IsFile(EmptyFile)  BY DEF IsFile, EmptyFile
  <2>4. \A f \in Tables : IsFile(file'[f])  BY <1>1, <1>4, <1>5, <2>3 DEF Typed
  <2>5. \A f \in Tables : IsFile(file[f])'  BY <2>4 DEF IsFile
  <2> QED  BY <1>2, <2>1, <2>2, <2>5 DEF Typed
<1>7. Held'  BY <1>1, <1>2, <1>3, LabelFacts, NobodyAssumption DEF IInv, Held, Typed
<1>8. file'[cur[p]].made /\ \A f \in Tables : file[f].made => file'[f].made
  BY <1>4, <1>5 DEF EmptyFile
<1>9. Seen'  BY <1>1, <1>2, <1>8 DEF IInv, Seen, Typed
<1>10. Whole'
  <2> SUFFICES ASSUME NEW f \in Tables, file'[f].made, ~ file'[f].header, ~ SomeKilled'
               PROVE  \E q \in Processes : lock'[f] = q /\ pc'[q] \in Writing
    BY DEF Whole
  <2>1. CASE f = cur[p] /\ pc'[p] \in Writing  BY <1>1, <2>1 DEF Typed
  <2>2. CASE f = cur[p] /\ pc'[p] = "appending"
    <3>1. file'[f] = file[f]  BY <1>5, <2>2 DEF Writing
    <3>2. \E q \in Processes : lock[f] = q  BY <1>2, <3>1 DEF IInv, Whole
    <3> QED  BY <1>1, <2>2, <3>2, NobodyAssumption
  <2>3. CASE f # cur[p]
    <3>1. PICK q \in Processes : lock[f] = q /\ pc[q] \in Writing
      BY <1>2, <1>4, <2>3 DEF IInv, Whole
    <3>2. q # p  BY <1>1, <3>1, LabelFacts
    <3> QED  BY <1>1, <1>2, <2>3, <3>1, <3>2 DEF Typed
  <2> QED  BY <1>5, <2>1, <2>2, <2>3
<1> QED  BY <1>6, <1>7, <1>9, <1>10 DEF IInv

LEMMA HeaderKeeps ==
  ASSUME IInv, NEW p \in Processes, Header(p)
  PROVE  IInv'
<1>1. /\ Typed /\ pc[p] = "header" /\ cur[p] \in Tables
      /\ lock' = lock /\ cur' = cur /\ pc' = [pc EXCEPT ![p] = "appending"]
      /\ file' = [file EXCEPT ![cur[p]].header = TRUE]
  BY DEF IInv, Header, At, GoTo, Typed
<1>2. /\ pc' \in [Processes -> Labels] /\ cur' \in [Processes -> Tables]
      /\ \A q \in Processes \ {p} : pc'[q] = pc[q] /\ cur'[q] = cur[q]
      /\ SomeKilled => SomeKilled'
  BY <1>1, OthersWait
<1>3. pc'[p] = "appending"  BY <1>1 DEF Typed
<1>4. \A f \in Tables : f # cur[p] => file'[f] = file[f]  BY <1>1 DEF Typed
<1>5. PICK x : x = file[cur[p]] /\ IsFile(x) /\ file'[cur[p]] = [x EXCEPT !.header = TRUE]
  BY <1>1 DEF Typed
<1>6. file'[cur[p]] = [made |-> x.made, header |-> TRUE, lines |-> x.lines]
  BY <1>5, RecordUpdates
<1>7. x.made  BY <1>1, <1>5 DEF IInv, Seen
<1>8. Typed'
  <2>1. file' = [f \in Tables |-> file'[f]]
    <3>1. file = [f \in Tables |-> file[f]]  BY <1>1 DEF Typed
    <3> QED  BY <1>1, <3>1
  <2>2. IsFile(file'[cur[p]])
    <3>1. IsFile([made |-> x.made, header |-> TRUE, lines |-> x.lines])
      BY <1>5 DEF IsFile
    <3> QED  BY <1>6, <3>1
  <2>3. \A f \in Tables : IsFile(file'[f])  BY <1>1, <1>4, <2>2 DEF Typed
  <2>4. \A f \in Tables : IsFile(file[f])'  BY <2>3 DEF IsFile
  <2> QED  BY <1>1, <1>2, <2>1, <2>4 DEF Typed
<1>9. Held'  BY <1>1, <1>2, <1>3 DEF IInv, Held, Holding
<1>10. Seen'
  <2>1. file'[cur[p]].made /\ \A f \in Tables : file[f].made => file'[f].made
    BY <1>4, <1>6, <1>7
  <2> QED  BY <1>1, <1>2, <2>1 DEF IInv, Seen, Typed
<1>11. Whole'
  <2> SUFFICES ASSUME NEW f \in Tables, file'[f].made, ~ file'[f].header, ~ SomeKilled'
               PROVE  \E q \in Processes : lock'[f] = q /\ pc'[q] \in Writing
    BY DEF Whole
  <2>1. f # cur[p]  BY <1>6
  <2>2. PICK q \in Processes : lock[f] = q /\ pc[q] \in Writing
    BY <1>2, <1>4, <2>1 DEF IInv, Whole
  <2>3. q # p  BY <2>1, <2>2 DEF IInv, Held
  <2> QED  BY <1>1, <1>2, <2>2, <2>3
<1> QED  BY <1>8, <1>9, <1>10, <1>11 DEF IInv

\* What a process held is free afterwards, and all the rest as before.
LEMMA ReleasedLocks ==
  ASSUME Typed, NEW p \in Processes, lock' = Released(lock, p)
  PROVE  /\ lock' \in [Tables -> Processes \cup {Nobody}]
         /\ \A f \in Tables : lock'[f] # p
         /\ \A f \in Tables, q \in Processes : q # p => (lock'[f] = q <=> lock[f] = q)
BY NobodyAssumption DEF Typed, Released

LEMMA FinishingKeeps ==
  ASSUME IInv, NEW p \in Processes, Finishes(p)
  PROVE  IInv'
<1>1. /\ Typed /\ pc[p] \in Holding /\ cur[p] \in Tables
      /\ pc'[p] \in Quiet \ {"read"} /\ lock' = Released(lock, p)
  BY DEF IInv, Finishes, Moves, Typed
<1>2. /\ pc' \in [Processes -> Labels] /\ cur' \in [Processes -> Tables]
      /\ \A q \in Processes \ {p} : pc'[q] = pc[q] /\ cur'[q] = cur[q]
      /\ SomeKilled => SomeKilled'
  BY <1>1, OthersWait
<1>3. /\ lock' \in [Tables -> Processes \cup {Nobody}]
      /\ \A f \in Tables : lock'[f] # p
      /\ \A f \in Tables, q \in Processes : q # p => (lock'[f] = q <=> lock[f] = q)
  BY <1>1, ReleasedLocks
<1>4. PICK lines : \E header \in BOOLEAN :
        /\ file' = [file EXCEPT ![cur[p]] = [made |-> TRUE, header |-> header, lines |-> lines]]
        /\ ~ header => pc[p] = "appending" /\ ~ file[cur[p]].header
  BY DEF Finishes
<1>5. PICK header \in BOOLEAN :
        /\ file' = [file EXCEPT ![cur[p]] = [made |-> TRUE, header |-> header, lines |-> lines]]
        /\ ~ header => pc[p] = "appending" /\ ~ file[cur[p]].header
  BY <1>4
<1>6. file'[cur[p]] = [made |-> TRUE, header |-> header, lines |-> lines]
  BY <1>1, <1>5 DEF Typed
<1>7. \A f \in Tables : f # cur[p] => file'[f] = file[f]  BY <1>5 DEF Typed
<1>8. Typed'
  <2>1. file' = [f \in Tables |-> file'[f]]
    <3>1. file = [f \in Tables |-> file[f]]  BY <1>1 DEF Typed
    <3> QED  BY <1>5, <3>1
  <2>2. IsFile(file'[cur[p]])  BY <1>6 DEF IsFile
  <2>3. \A f \in Tables : IsFile(file'[f])  BY <1>1, <1>7, <2>2 DEF Typed
  <2>4. \A f \in Tables : IsFile(file[f])'  BY <2>3 DEF IsFile
  <2> QED  BY <1>2, <1>3, <2>1, <2>4 DEF Typed
<1>9. Held'  BY <1>1, <1>2, <1>3, LabelFacts DEF IInv, Held, Typed
<1>10. Seen'
  <2>1. \A f \in Tables : file[f].made => file'[f].made  BY <1>6, <1>7
  <2> QED  BY <1>1, <1>2, <2>1, LabelFacts DEF IInv, Seen, Typed, Holding
<1>11. Whole'
  <2> SUFFICES ASSUME NEW f \in Tables, file'[f].made, ~ file'[f].header, ~ SomeKilled'
               PROVE  \E q \in Processes : lock'[f] = q /\ pc'[q] \in Writing
    BY DEF Whole
  <2>1. f # cur[p]
    <3>1. SUFFICES ASSUME f = cur[p] PROVE FALSE  OBVIOUS
    <3>2. pc[p] = "appending" /\ ~ file[f].header  BY <1>5, <1>6, <3>1
    <3>3. file[f].made /\ lock[f] = p  BY <1>1, <3>1, <3>2 DEF IInv, Seen, Held
    <3>4. pc[p] \in Writing  BY <1>2, <3>2, <3>3 DEF IInv, Whole
    <3> QED  BY <3>2, <3>4 DEF Writing
  <2>2. PICK q \in Processes : lock[f] = q /\ pc[q] \in Writing
    BY <1>2, <1>7, <2>1 DEF IInv, Whole
  <2>3. q # p  BY <2>1, <2>2 DEF IInv, Held
  <2> QED  BY <1>2, <1>3, <2>2, <2>3
<1> QED  BY <1>8, <1>9, <1>10, <1>11 DEF IInv

\* A process that fails was not writing a file from its beginning; one that is
\* killed may have been.
LEMMA StoppingKeeps ==
  ASSUME IInv, NEW p \in Processes, Stops(p)
  PROVE  IInv'
<1>1. /\ Typed /\ pc'[p] \in {"failed", "killed"} /\ lock' = Released(lock, p)
      /\ file' = file /\ cur' = cur
      /\ pc'[p] = "failed" => pc[p] \in {"read", "appending"}
  BY DEF IInv, Stops, Typed
<1>2. /\ pc' \in [Processes -> Labels] /\ cur' \in [Processes -> Tables]
      /\ \A q \in Processes \ {p} : pc'[q] = pc[q] /\ cur'[q] = cur[q]
      /\ SomeKilled => SomeKilled'
  BY <1>1, OthersWait
<1>3. /\ lock' \in [Tables -> Processes \cup {Nobody}]
      /\ \A f \in Tables : lock'[f] # p
      /\ \A f \in Tables, q \in Processes : q # p => (lock'[f] = q <=> lock[f] = q)
  BY <1>1, ReleasedLocks
<1>4. Typed'  BY <1>1, <1>2, <1>3 DEF Typed
<1>5. Held'  BY <1>1, <1>2, <1>3, LabelFacts DEF IInv, Held, Typed
<1>6. Seen'  BY <1>1, <1>2 DEF IInv, Seen
<1>7. Whole'
  <2> SUFFICES ASSUME NEW f \in Tables, file[f].made, ~ file[f].header, ~ SomeKilled'
               PROVE  \E q \in Processes : lock'[f] = q /\ pc'[q] \in Writing
    BY <1>1 DEF Whole
  <2>1. PICK q \in Processes : lock[f] = q /\ pc[q] \in Writing  BY <1>2 DEF IInv, Whole
  <2>2. pc'[p] # "killed"  BY DEF SomeKilled
  <2>3. q # p  BY <1>1, <2>1, <2>2 DEF Writing
  <2> QED  BY <1>2, <1>3, <2>1, <2>3
<1> QED  BY <1>4, <1>5, <1>6, <1>7 DEF IInv

LEMMA InitTrue == Init => IInv
<1> SUFFICES ASSUME Init PROVE IInv  OBVIOUS
<1>1. pc \in [Processes -> Labels] /\ \A p \in Processes : pc[p] = "start"
  BY LabelFacts DEF Init, Quiet
<1>2. cur \in [Processes -> Tables]  BY TableFacts DEF Init
<1>3. lock \in [Tables -> Processes \cup {Nobody}] /\ \A f \in Tables : lock[f] = Nobody
  BY DEF Init
<1>4. file = [f \in Tables |-> NoFile] /\ \A f \in Tables : file[f] = NoFile  BY DEF Init
<1>5. IsFile(NoFile) /\ ~ NoFile.made  BY DEF IsFile, NoFile
<1>6. Typed  BY <1>1, <1>2, <1>3, <1>4, <1>5 DEF Typed
<1>7. Held  BY <1>1, <1>3, NobodyAssumption DEF Held, Holding
<1>8. Seen  BY <1>1 DEF Seen
<1>9. Whole  BY <1>4, <1>5 DEF Whole
<1> QED  BY <1>6, <1>7, <1>8, <1>9 DEF IInv

LEMMA NextTrue == IInv /\ [Next]_vars => IInv'
<1> SUFFICES ASSUME IInv, [Next]_vars PROVE IInv'  OBVIOUS
<1>1. CASE UNCHANGED vars
  BY <1>1 DEF vars, IInv, Typed, Held, Seen, Whole, SomeKilled, IsFile
<1>2. CASE Next
  <2>1. PICK p \in Processes : Step(p) \/ Kill(p)  BY <1>2 DEF Next
  <2>2. Quietly(p) \/ Takes(p) \/ Header(p) \/ Finishes(p) \/ Stops(p)
    BY <2>1, Kinds DEF IInv
  <2> QED  BY <2>2, QuietKeeps, TakingKeeps, HeaderKeeps, FinishingKeeps, StoppingKeeps
<1> QED  BY <1>1, <1>2

-----------------------------------------------------------------------------
(* Theorems.                                                                *)

\* The lock of a table's file is held by who writes the file and by nobody else;
\* and a file without its first part is being written, or a process was killed
\* (_append_dispatch_table_entry, update_symbol_table and the save methods).
THEOREM Inductive == Spec => []IInv
<1> QED  BY InitTrue, NextTrue, PTL DEF Spec

\* Two processes are never inside the same file with the intent to write.
OneWriter == \A p, q \in Processes :
  pc[p] \in Holding /\ pc[q] \in Holding /\ cur[p] = cur[q] => p = q

\* Two processes never write the file of a table at the same time, whatever is
\* killed and whichever tables are cleared.
THEOREM WritersExclude == Spec => []OneWriter
<1>1. IInv => OneWriter  BY DEF IInv, Held, OneWriter
<1> QED  BY <1>1, Inductive, PTL

\* What a process that fails has met.
Failure(p) ==
  /\ file[cur[p]].made /\ ~file[cur[p]].header /\ lock[cur[p]] \in {p, Nobody}
  /\ cur[p] = Graph \/ IsInterval(cur[p])
  /\ \E q \in Processes : pc[q] = "killed"

LEMMA FailingStep ==
  ASSUME IInv, [Next]_vars, NEW p \in Processes, pc[p] # "failed", pc'[p] = "failed"
  PROVE  Failure(p)
<1>0. Typed /\ pc \in [Processes -> Labels] /\ cur[p] \in Tables  BY DEF IInv, Typed
<1>1. pc' # pc  OBVIOUS
<1>2. PICK q \in Processes : Step(q) \/ Kill(q)  BY <1>1 DEF vars, Next
<1>3. Quietly(q) \/ Takes(q) \/ Header(q) \/ Finishes(q) \/ Stops(q)  BY <1>2, Kinds DEF IInv
<1>4. q = p  BY <1>0, <1>3, OthersWait
<1>5. pc[p] \in {"read", "appending"}
  BY <1>0, <1>3, <1>4, LabelFacts DEF Quietly, Takes, Header, GoTo, Finishes, Stops, Moves, Writing
<1>6. ~ Kill(p)  BY <1>0 DEF Kill, GoTo
<1>7. ReadFails(p) \/ AppendGraphFails(p)
  <2>1. ~ (Quietly(p) \/ Takes(p) \/ Header(p) \/ Finishes(p))
    BY <1>0, LabelFacts DEF Quietly, Takes, Header, GoTo, Finishes, Moves, Writing
  <2> QED  BY <1>0, <1>2, <1>4, <1>6, <2>1, QuietSteps, TakingSteps, FinishingSteps DEF Step, IInv
<1>8. file[cur[p]].made  BY <1>5 DEF IInv, Seen
<1>9. CASE ReadFails(p)
  <2>1. lock[cur[p]] = Nobody /\ ~ file[cur[p]].header /\ IsInterval(cur[p])
    BY <1>9 DEF ReadFails, Free, Parses
  <2>2. SomeKilled  BY <1>0, <1>8, <2>1, NobodyAssumption DEF IInv, Whole
  <2> QED  BY <1>8, <2>1, <2>2 DEF Failure, SomeKilled
<1>10. CASE AppendGraphFails(p)
  <2>1. pc[p] = "appending" /\ cur[p] = Graph /\ ~ file[cur[p]].header
    BY <1>10 DEF AppendGraphFails, At
  <2>2. lock[cur[p]] = p  BY <2>1 DEF IInv, Held, Holding
  <2>3. SomeKilled  BY <1>0, <1>8, <2>1, <2>2 DEF IInv, Whole, Writing
  <2> QED  BY <1>8, <2>1, <2>2, <2>3 DEF Failure, SomeKilled
<1> QED  BY <1>7, <1>9, <1>10

\* A process fails only on a file that was left empty by a kill, one of the graph
\* or of an interval table: never while another process writes it, and never on
\* the file of a table of points of a task.
THEOREM FailsOnTorn == Spec => FailsOnTornOnly
<1>1. IInv /\ [Next]_vars =>
        [\A p \in Processes : pc[p] # "failed" /\ pc'[p] = "failed" =>
           /\ file[cur[p]].made /\ ~file[cur[p]].header /\ lock[cur[p]] \in {p, Nobody}
           /\ cur[p] = Graph \/ IsInterval(cur[p])
           /\ \E q \in Processes : pc[q] = "killed"]_vars
  BY FailingStep DEF Failure
<1> QED  BY <1>1, Inductive, PTL DEF Spec, FailsOnTornOnly


-----------------------------------------------------------------------------
(* Kernels fit: the control.                                                *)

Loading == {"load", "look", "read", "measure all", "save", "saving"}
Picking == {"pick", "measure", "append", "header", "appending", "picked"}
Ending  == {"failed", "killed"}

\* Where a process is in a call and in its tables.  Only before its first call does
\* it fill the graph's table; in a call it works for the dimension of the call.
Phase(p) ==
  /\ pc[p] \in Loading \cup {"start", "fill", "idle", "done"} =>
       p \notin calling \/ (pc[p] \in {"load", "read"} /\ cur[p] = Graph)
  /\ pc[p] = "running" => p \in calling
  /\ pc[p] = "fill" => IsInterval(Graph) /\ cur[p] = Graph
  /\ pc[p] \in {"look", "measure all"} => IsInterval(cur[p]) /\ cur[p] # Graph
  /\ pc[p] \in {"save", "saving"} => IsInterval(cur[p])
  /\ pc[p] \in {"pick", "measure"} => cur[p] # Graph
  /\ pc[p] \in {"measure", "append", "header", "appending"} => ~ IsInterval(cur[p])
  /\ pc[p] = "picked" => cur[p] = Graph
  /\ pc[p] \in Picking => IF IsInterval(Graph) THEN job[p] = "populate" /\ p \notin calling
                          ELSE job[p] = "slow" /\ p \in calling
  /\ pc[p] \in Picking /\ IsInterval(Graph) => part[p] \in Parts /\ symbol[p] = High(part[p])
  /\ p \in calling => /\ todo[p] # <<>> /\ Head(todo[p]) \in Nat \ {0}
                      /\ symbol[p] = Head(todo[p])
  /\ IsInterval(Graph) /\ (pc[p] \in {"idle", "running"} \/ p \in calling) => file[Graph].made

\* An interval task is measured under its t_lock, when it has no file.
Alone(p) ==
  /\ pc[p] \in {"look", "measure all", "save", "saving"} /\ cur[p] # Graph => tlock[cur[p]] = p
  /\ pc[p] \in {"measure all", "save"} /\ cur[p] # Graph => ~ file[cur[p]].made
  /\ pc[p] = "saving" /\ cur[p] # Graph => ~ file[cur[p]].header

IsSeq(s) == s \in Seq({s[i] : i \in DOMAIN s})

\* What the memory holds.
TableShape  == /\ table = [p \in Processes |-> table[p]]
               /\ \A p \in Processes : table[p] = [f \in Tables |-> table[p][f]]
ChoiceShape == /\ choice = [p \in Processes |-> choice[p]]
               /\ \A p \in Processes : choice[p] = [t \in Tasks |-> choice[p][t]]
LaunchShape == launched = [p \in Processes |-> launched[p]]
OtherShapes == /\ symbol = [p \in Processes |-> symbol[p]] /\ job = [p \in Processes |-> job[p]]
               /\ part = [p \in Processes |-> part[p]]
TodoShape   == todo \in [Processes -> Seq((Nat \ {0}) \cup {Clear})]
KeptMemory  == TableShape /\ ChoiceShape /\ LaunchShape /\ OtherShapes /\ TodoShape
Kept        == KeptMemory /\ tlock \in [Tables -> Processes \cup {Nobody}]

HeadersMade == \A f \in Tables : file[f].header => file[f].made

Control == Kept /\ HeadersMade /\ \A p \in Processes : Phase(p) /\ Alone(p)

-----------------------------------------------------------------------------
(* The data.                                                                *)

\* A candidate that was measured for a task there, and, of an interval task, the one
\* that its file has for the interval.
Measured(t, key, best) == [task |-> t, key |-> key, best |-> best] \in measured
Right(t, key, best) ==
  /\ Measured(t, key, best)
  /\ IsInterval(t) => /\ file[t].header
                      /\ \E i \in Parts : High(i) = key /\ file[t].lines[i].best = best
AllRight(d, best) == \A t \in Tasks : Right(t, Cell(t, d), best[t])

PointsRight(t, lines) ==
  IsSeq(lines) /\ \A i \in DOMAIN lines : Right(t, lines[i].key, lines[i].best)
IntervalsRight(t, lines) ==
  /\ IsSeq(lines) /\ Len(lines) = Len(Splits)
  /\ \A i \in Parts : /\ lines[i].low = Low(i) /\ lines[i].high = High(i)
                      /\ Measured(t, High(i), lines[i].best)
  /\ lines[Len(lines)].low = Last(Splits) + 1
  /\ lines[Len(lines)].best = lines[Len(lines) - 1].best
RowsRight(lines, n) == IsSeq(lines) /\ Len(lines) = n /\ \A d \in 1 .. n : AllRight(d, lines[d].best)
GraphRight(lines) ==
  IF IsInterval(Graph) THEN RowsRight(lines, Last(Splits))
  ELSE IsSeq(lines) /\ \A i \in DOMAIN lines : AllRight(lines[i].key, lines[i].best)

FilesRight ==
  /\ \A t \in Tasks : IF IsInterval(t) THEN file[t].header => IntervalsRight(t, file[t].lines)
                      ELSE PointsRight(t, file[t].lines)
  /\ ~ IsInterval(Graph) \/ file[Graph].header => GraphRight(file[Graph].lines)

Loaded(p, t) == /\ pc[p] \notin Ending \cup {"start"}
                /\ pc[p] \in Loading => cur[p] = Graph \/ t < cur[p]

TasksRight(p) ==
  /\ \A t \in Tasks : Loaded(p, t) =>
       IF IsInterval(t) THEN file[t].header /\ table[p][t] = file[t].lines
       ELSE PointsRight(t, table[p][t])
  /\ pc[p] \in {"save", "saving"} /\ cur[p] # Graph => IntervalsRight(cur[p], table[p][cur[p]])

GraphsRight(p) ==
  /\ pc[p] = "fill" => table[p][Graph] = <<>>
  /\ pc[p] = "idle" => table[p][Graph] = Nobody \/ GraphRight(table[p][Graph])
  /\ pc[p] = "running" => GraphRight(table[p][Graph])
  /\ pc[p] \in {"save", "saving"} /\ cur[p] = Graph => GraphRight(table[p][Graph])
  /\ pc[p] \in Picking => IF IsInterval(Graph) THEN RowsRight(table[p][Graph], Low(part[p]) - 1)
                          ELSE GraphRight(table[p][Graph])

\* What was picked so far, and the line that goes to the file.
PicksRight(p) ==
  /\ pc[p] \in Picking => \A t \in Tasks : cur[p] = Graph \/ t < cur[p] =>
       Right(t, Cell(t, Dim(p)), choice[p][t])
  /\ pc[p] \in {"append", "header", "appending"} =>
       /\ table[p][cur[p]] # <<>>
       /\ cur[p] # Graph => Last(table[p][cur[p]]).key = Key(cur[p], Dim(p))

LaunchesRight(p) == \A k \in launched[p] :
  k.task \in Tasks /\ Right(k.task, Cell(k.task, k.dim), k.best) /\ k.symbol = k.dim

Data == FilesRight /\ \A p \in Processes : TasksRight(p) /\ GraphsRight(p) /\ PicksRight(p) /\ LaunchesRight(p)

-----------------------------------------------------------------------------
(* The step of a process changes its own memory.                            *)

\* Only the memory of the step's own process changes.
Same(q) ==
  /\ pc'[q] = pc[q] /\ cur'[q] = cur[q] /\ table'[q] = table[q] /\ symbol'[q] = symbol[q]
  /\ job'[q] = job[q] /\ part'[q] = part[q] /\ choice'[q] = choice[q] /\ todo'[q] = todo[q]
  /\ launched'[q] = launched[q] /\ (q \in calling' <=> q \in calling)

LEMMA TaskFacts ==
  /\ Tasks \subseteq Tables /\ Graph \notin Tasks /\ Tables = Tasks \cup {Graph}
  /\ \A t \in Tasks : t \in Nat \ {0}
  /\ \A t \in Tasks : t + 1 \notin Tasks => \A u \in Tasks : u <= t
  /\ 1 \in Tasks /\ \A t \in Tasks : t # 1 => t - 1 \in Tasks
<1>1. Cardinality(Tasks) \in Nat  BY TasksAssumption, FS_CardinalityType
<1> DEFINE n == Cardinality(Tasks)
<1> HIDE DEF n
<1>2. n \in Nat /\ Tasks = 1 .. n /\ Tasks # {}  BY <1>1, TasksAssumption DEF n
<1> QED  BY <1>2 DEF Tables, Graph

LEMMA AfterPickFrame ==
  ASSUME Kept, NEW p \in Processes, NEW t \in Tasks, NEW c, AfterPick(p, t, c)
  PROVE  /\ ChoiceShape' /\ \A q \in Processes \ {p} : choice'[q] = choice[q]
         /\ choice'[p][t] = c /\ \A u \in Tasks : u # t => choice'[p][u] = choice[p][u]
         /\ LaunchShape'
         /\ \A q \in Processes \ {p} : launched'[q] = launched[q]
         /\ launched'[p] = IF job[p] = "slow" THEN {Kernel(p, t, c)} ELSE launched[p]
<1>1. choice' = [choice EXCEPT ![p][t] = c]  BY DEF AfterPick, Chosen
<1>2. /\ choice = [q \in Processes |-> choice[q]]
      /\ \A q \in Processes : choice[q] = [u \in Tasks |-> choice[q][u]]
  BY DEF Kept, KeptMemory, TableShape, ChoiceShape, LaunchShape
<1>3. \A q \in Processes \ {p} : choice'[q] = choice[q]  BY <1>1, <1>2
<1>4. choice'[p] = [choice[p] EXCEPT ![t] = c]  BY <1>1, <1>2
<1>5. choice'[p] = [u \in Tasks |-> IF u = t THEN c ELSE choice[p][u]]
  <2>1. PICK g : g = choice[p] /\ g = [u \in Tasks |-> g[u]]  BY <1>2
  <2>2. [g EXCEPT ![t] = c] = [u \in Tasks |-> IF u = t THEN c ELSE g[u]]  BY <2>1
  <2> QED  BY <1>4, <2>1, <2>2
<1>6. choice' = [q \in Processes |-> choice'[q]]  BY <1>1, <1>2
<1>7. \/ launched' = [launched EXCEPT ![p] = {Kernel(p, t, c)}] /\ job[p] = "slow"
      \/ launched' = launched /\ job[p] # "slow"
  BY DEF AfterPick
<1>8. launched = [q \in Processes |-> launched[q]]  BY DEF Kept, KeptMemory, TableShape, ChoiceShape, LaunchShape
<1>9. /\ launched' = [q \in Processes |-> launched'[q]]
      /\ \A q \in Processes \ {p} : launched'[q] = launched[q]
      /\ launched'[p] = IF job[p] = "slow" THEN {Kernel(p, t, c)} ELSE launched[p]
  BY <1>7, <1>8
<1>10. choice'[p] = [u \in Tasks |-> choice'[p][u]]  BY <1>5
<1>11. ChoiceShape'
  <2>1. \A q \in Processes : choice'[q] = [u \in Tasks |-> choice'[q][u]]  BY <1>2, <1>3, <1>10
  <2> QED  BY <1>6, <2>1 DEF ChoiceShape
<1>12. LaunchShape'  BY <1>9 DEF LaunchShape
<1> QED  BY <1>3, <1>5, <1>9, <1>11, <1>12

\* An update of one table of the process.
LEMMA TableUpdate ==
  ASSUME Kept, NEW p \in Processes, NEW f \in Tables, NEW v, table' = [table EXCEPT ![p][f] = v]
  PROVE  /\ TableShape'
         /\ \A q \in Processes \ {p} : table'[q] = table[q]
         /\ table'[p][f] = v /\ \A g \in Tables : g # f => table'[p][g] = table[p][g]
<1>2. /\ table = [q \in Processes |-> table[q]]
      /\ \A q \in Processes : table[q] = [u \in Tables |-> table[q][u]]
  BY DEF Kept, KeptMemory, TableShape, ChoiceShape, LaunchShape
<1>3. \A q \in Processes \ {p} : table'[q] = table[q]  BY <1>2
<1>4. table'[p] = [table[p] EXCEPT ![f] = v]  BY <1>2
<1>5. table'[p] = [u \in Tables |-> IF u = f THEN v ELSE table[p][u]]
  <2>1. PICK g : g = table[p] /\ g = [u \in Tables |-> g[u]]  BY <1>2
  <2>2. [g EXCEPT ![f] = v] = [u \in Tables |-> IF u = f THEN v ELSE g[u]]  BY <2>1
  <2> QED  BY <1>4, <2>1, <2>2
<1>6. table' = [q \in Processes |-> table'[q]]  BY <1>2
<1>7. \A q \in Processes : table'[q] = [g \in Tables |-> table'[q][g]]
  BY <1>2, <1>3, <1>5
<1>8. TableShape'  BY <1>6, <1>7 DEF TableShape
<1> QED  BY <1>3, <1>5, <1>8

SameMemory(q) ==
  /\ table'[q] = table[q] /\ symbol'[q] = symbol[q]
  /\ job'[q] = job[q] /\ part'[q] = part[q] /\ choice'[q] = choice[q] /\ todo'[q] = todo[q]
  /\ launched'[q] = launched[q] /\ (q \in calling' <=> q \in calling)

\* The call of a process has a dimension.
LEMMA InCall ==
  ASSUME Typed, NEW p \in Processes, Phase(p),
         pc[p] = "running" \/ (pc[p] = "appending" /\ cur[p] = Graph)
  PROVE  p \in calling /\ todo[p] # <<>> /\ Head(todo[p]) \in Nat \ {0}
<1>1. p \in calling
  <2>1. CASE pc[p] = "running"  BY <2>1 DEF Phase
  <2>2. CASE pc[p] = "appending" /\ cur[p] = Graph  BY <2>2 DEF Phase, Picking
  <2> QED  BY <2>1, <2>2
<1> QED  BY <1>1 DEF Phase

LEMMA ShapesStay ==
  ASSUME KeptMemory
  PROVE  /\ table' = table => TableShape'
         /\ choice' = choice => ChoiceShape'
         /\ launched' = launched => LaunchShape'
         /\ symbol' = symbol /\ job' = job /\ part' = part => OtherShapes'
         /\ todo' = todo => TodoShape'
<1>1. table' = table => TableShape'  BY DEF KeptMemory, TableShape
<1>2. choice' = choice => ChoiceShape'  BY DEF KeptMemory, ChoiceShape
<1>3. launched' = launched => LaunchShape'  BY DEF KeptMemory, LaunchShape
<1>4. symbol' = symbol /\ job' = job /\ part' = part => OtherShapes'
  BY DEF KeptMemory, OtherShapes
<1>5. todo' = todo => TodoShape'  BY DEF KeptMemory, TodoShape
<1> QED  BY <1>1, <1>2, <1>3, <1>4, <1>5

LEMMA MemorySteps ==
  ASSUME Typed, Kept, NEW p \in Processes, Phase(p), Step(p) \/ Kill(p)
  PROVE  KeptMemory' /\ \A q \in Processes \ {p} : SameMemory(q)
<1>0. KeptMemory /\ cur[p] \in Tables /\ Graph \in Tables  BY TaskFacts DEF Kept, Typed
<1>1. CASE \/ Start(p) \/ LoadLocked(p) \/ LookFinds(p) \/ ReadFails(p) \/ Save(p) \/ Saved(p)
           \/ PickUnknown(p) \/ MakeFile(p) \/ Header(p) \/ OpenFile(p) \/ AppendGraphFails(p)
           \/ Exit(p) \/ Kill(p)
  <2>1. UNCHANGED memory
    BY <1>1 DEF Start, LoadLocked, LookFinds, ReadFails, Save, Saved, PickUnknown, MakeFile, Header,
           OpenFile, AppendGraphFails, Exit, Kill
  <2> QED  BY <1>0, <2>1, ShapesStay DEF memory, KeptMemory, SameMemory
<1>2. ASSUME UNCHANGED <<symbol, job, part, choice, todo, calling, launched>>,
             NEW f \in Tables, NEW v, table' = [table EXCEPT ![p][f] = v]
      PROVE  KeptMemory' /\ \A q \in Processes \ {p} : SameMemory(q)
  <2>1. /\ TableShape'
        /\ \A q \in Processes \ {p} : table'[q] = table[q]
    BY <1>0, <1>2, TableUpdate
  <2> QED  BY <1>0, <1>2, <2>1, ShapesStay DEF KeptMemory, SameMemory
<1>3. CASE LookMisses(p) \/ Read(p) \/ Measure(p)
  <2>1. UNCHANGED <<symbol, job, part, choice, todo, calling, launched>>
    BY <1>3 DEF LookMisses, Read, Measure
  <2>2. \E v : table' = [table EXCEPT ![p][cur[p]] = v]
    BY <1>3 DEF LookMisses, Read, Measure
  <2> QED  BY <1>0, <1>2, <2>1, <2>2
<1>4. CASE Update(p)
  <2>1. UNCHANGED <<symbol, job, part, choice, todo, calling, launched>>  BY <1>4 DEF Update
  <2>2. \E v : table' = [table EXCEPT ![p][Graph] = v]  BY <1>4 DEF Update
  <2> QED  BY <1>0, <1>2, <2>1, <2>2
<1>5. CASE MeasureAll(p)
  <2>1. UNCHANGED <<job, part, choice, todo, calling, launched>>
        /\ symbol' = [symbol EXCEPT ![p] = Last(Splits)]
    BY <1>5 DEF MeasureAll
  <2>2. \E v : table' = [table EXCEPT ![p][cur[p]] = v]  BY <1>5 DEF MeasureAll
  <2>5. /\ TableShape'
        /\ \A q \in Processes \ {p} : table'[q] = table[q]
    <3>1. PICK v : table' = [table EXCEPT ![p][cur[p]] = v]  BY <2>2
    <3> QED  BY <1>0, <3>1, TableUpdate
  <2>3. OtherShapes' /\ \A q \in Processes \ {p} : symbol'[q] = symbol[q]
    BY <1>0, <2>1 DEF KeptMemory, OtherShapes
  <2> QED  BY <1>0, <2>1, <2>3, <2>5, ShapesStay DEF KeptMemory, SameMemory
<1>6. CASE PopulatePart(p)
  <2>1. UNCHANGED <<job, choice, todo, calling, launched>>  BY <1>6 DEF PopulatePart
  <2>2. \E v : table' = [table EXCEPT ![p][Graph] = v]  BY <1>6 DEF PopulatePart
  <2>3. \/ part' = part /\ symbol' = symbol
        \/ \E n, m : part' = [part EXCEPT ![p] = n] /\ symbol' = [symbol EXCEPT ![p] = m]
    BY <1>6 DEF PopulatePart
  <2>4. /\ OtherShapes'
        /\ \A q \in Processes \ {p} : symbol'[q] = symbol[q] /\ part'[q] = part[q]
    BY <1>0, <2>1, <2>3 DEF KeptMemory, OtherShapes
  <2>5. /\ TableShape'
        /\ \A q \in Processes \ {p} : table'[q] = table[q]
    <3>1. PICK v : table' = [table EXCEPT ![p][Graph] = v]  BY <2>2
    <3> QED  BY <1>0, <3>1, TableUpdate
  <2> QED  BY <1>0, <2>1, <2>4, <2>5, ShapesStay DEF KeptMemory, SameMemory
<1>7. CASE ClearTable(p)
  <2>1. UNCHANGED <<symbol, job, part, choice, calling, launched>>
        /\ todo' = [todo EXCEPT ![p] = Tail(todo[p])] /\ todo[p] # <<>>
    BY <1>7 DEF ClearTable
  <2>2. \E v : table' = [table EXCEPT ![p][Graph] = v]  BY <1>7 DEF ClearTable
  <2>3. TodoShape'
    BY <1>0, <2>1 DEF KeptMemory, TodoShape
  <2>4. \A q \in Processes \ {p} : todo'[q] = todo[q]  BY <1>0, <2>1 DEF KeptMemory, TodoShape
  <2>5. /\ TableShape'
        /\ \A q \in Processes \ {p} : table'[q] = table[q]
    <3>1. PICK v : table' = [table EXCEPT ![p][Graph] = v]  BY <2>2
    <3> QED  BY <1>0, <3>1, TableUpdate
  <2> QED  BY <1>0, <2>1, <2>3, <2>4, <2>5, ShapesStay DEF KeptMemory, SameMemory
<1>8. CASE Fill(p) \/ SlowPath(p) \/ Run(p)
  <2>1. UNCHANGED <<table, choice, todo, launched>>  BY <1>8 DEF Fill, SlowPath, Run
  <2>2. /\ job' = job \/ \E v : job' = [job EXCEPT ![p] = v]
        /\ part' = part \/ \E v : part' = [part EXCEPT ![p] = v]
        /\ symbol' = symbol \/ \E v : symbol' = [symbol EXCEPT ![p] = v]
        /\ calling' = calling \/ calling' = calling \cup {p}
    BY <1>8 DEF Fill, SlowPath, Run, Updated
  <2>3. /\ OtherShapes'
        /\ \A q \in Processes \ {p} : symbol'[q] = symbol[q] /\ part'[q] = part[q] /\ job'[q] = job[q]
    BY <1>0, <2>2 DEF KeptMemory, OtherShapes
  <2> QED  BY <1>0, <2>1, <2>2, <2>3, ShapesStay DEF KeptMemory, SameMemory
<1>9. CASE FastPath(p) \/ AppendGraph(p)
  <2>1. UNCHANGED <<table, choice, symbol, job, part>>
        /\ calling' = calling \ {p} /\ todo' = [todo EXCEPT ![p] = Tail(todo[p])]
        /\ (launched' = launched \/ \E v : launched' = [launched EXCEPT ![p] = v])
    BY <1>9 DEF FastPath, AppendGraph, Returned
  <2>2. pc[p] = "running" \/ (pc[p] = "appending" /\ cur[p] = Graph)
    BY <1>9 DEF FastPath, AppendGraph, At
  <2>3. todo[p] # <<>>  BY <2>2, InCall
  <2>4. TodoShape'
    BY <1>0, <2>1, <2>3 DEF KeptMemory, TodoShape
  <2>5. \A q \in Processes \ {p} : todo'[q] = todo[q]  BY <1>0, <2>1 DEF KeptMemory, TodoShape
  <2>6. LaunchShape' /\ \A q \in Processes \ {p} : launched'[q] = launched[q]
    BY <1>0, <2>1 DEF KeptMemory, LaunchShape
  <2> QED  BY <1>0, <2>1, <2>6, <2>4, <2>5, ShapesStay DEF KeptMemory, SameMemory
<1>10. CASE PickKnown(p) \/ AppendTask(p)
  <2>1. UNCHANGED <<table, symbol, job, part, todo, calling>> /\ \E c : AfterPick(p, cur[p], c)
    BY <1>10 DEF PickKnown, AppendTask
  <2>2. cur[p] # Graph  BY <1>10 DEF PickKnown, AppendTask, At, Phase
  <2>3. cur[p] \in Tasks  BY <1>0, <2>2, TaskFacts
  <2>4. PICK c : AfterPick(p, cur[p], c)  BY <2>1
  <2>5. /\ ChoiceShape' /\ LaunchShape' /\ \A q \in Processes \ {p} : choice'[q] = choice[q]
        /\ \A q \in Processes \ {p} : launched'[q] = launched[q]
    BY <2>3, <2>4, AfterPickFrame
  <2> QED  BY <1>0, <2>1, <2>5, ShapesStay DEF KeptMemory, SameMemory
<1> QED  BY <1>1, <1>3, <1>4, <1>5, <1>6, <1>7, <1>8, <1>9, <1>10 DEF Step

LEMMA TLockSteps ==
  ASSUME Typed, Kept, NEW p \in Processes, Phase(p), Step(p) \/ Kill(p)
  PROVE  /\ tlock' \in [Tables -> Processes \cup {Nobody}]
         /\ \A q \in Processes \ {p} : \A f \in Tables :
              tlock[f] = q => tlock'[f] = q \/ (pc[p] = "appending" /\ f = cur[p])
<1>0. cur[p] \in Tables /\ Graph \in Tables /\ tlock \in [Tables -> Processes \cup {Nobody}]
  BY TaskFacts DEF Kept, Typed
<1>1. \/ tlock' = tlock \/ tlock' = Released(tlock, p)
      \/ \E f \in Tables : tlock[f] = Nobody /\ tlock' = [tlock EXCEPT ![f] = p]
      \/ pc[p] = "appending" /\ tlock' = [tlock EXCEPT ![cur[p]] = Nobody]
  <2>1. CASE \/ Start(p) \/ LookFinds(p) \/ LookMisses(p) \/ MeasureAll(p) \/ PickKnown(p) \/ Measure(p)
             \/ PopulatePart(p) \/ Run(p) \/ FastPath(p) \/ SlowPath(p) \/ Update(p)
             \/ ClearTable(p) \/ Exit(p) \/ Save(p) \/ MakeFile(p) \/ OpenFile(p) \/ Header(p)
             \/ AppendGraph(p)
    BY <2>1 DEF Start, LookFinds, LookMisses, MeasureAll, PickKnown, Measure, PopulatePart, Run,
           FastPath, SlowPath, Update, ClearTable, Exit, Save, MakeFile, OpenFile, Header, AppendGraph,
           files
  <2>2. CASE Read(p) \/ Saved(p) \/ ReadFails(p) \/ AppendGraphFails(p) \/ Kill(p)
    BY <2>2 DEF Read, Saved, ReadFails, AppendGraphFails, Kill, Fail, ReleaseT
  <2>3. CASE LoadLocked(p) \/ Fill(p) \/ PickUnknown(p)
    BY <1>0, <2>3 DEF LoadLocked, Fill, PickUnknown, TakeT, Measurable
  <2>4. CASE AppendTask(p)  BY <2>4 DEF AppendTask, At
  <2> QED  BY <2>1, <2>2, <2>3, <2>4 DEF Step
<1> QED  BY <1>0, <1>1, NobodyAssumption DEF Released

LEMMA OthersKeep ==
  ASSUME IInv, Kept, NEW p \in Processes, Phase(p), Step(p) \/ Kill(p)
  PROVE  Kept' /\ \A q \in Processes \ {p} : Same(q)
<1>1. Typed /\ Seen  BY DEF IInv
<1>2. Quietly(p) \/ Takes(p) \/ Header(p) \/ Finishes(p) \/ Stops(p)  BY <1>1, Kinds
<1>3. \A q \in Processes \ {p} : pc'[q] = pc[q] /\ cur'[q] = cur[q]  BY <1>1, <1>2, OthersWait
<1>4. KeptMemory' /\ \A q \in Processes \ {p} : SameMemory(q)  BY <1>1, MemorySteps
<1>5. (tlock \in [Tables -> Processes \cup {Nobody}])'  BY <1>1, TLockSteps
<1> QED  BY <1>3, <1>4, <1>5 DEF KeptMemory, SameMemory, ChoiceShape, LaunchShape, OtherShapes, TodoShape, TableShape, Kept, Same

-----------------------------------------------------------------------------
(* Where a process is.                                                      *)

LEMMA PlanStays ==
  ASSUME NEW p \in Processes, Step(p) \/ Kill(p)
  PROVE  plan' = plan
BY DEF Step, Kill, Start, LoadLocked, LookFinds, LookMisses, Read, ReadFails, MeasureAll, Fill, Save, Saved,
       PickKnown, PickUnknown, Measure, MakeFile, Header, OpenFile, AppendTask, PopulatePart, Run, FastPath,
       SlowPath, Update, AppendGraph, AppendGraphFails, ClearTable, Exit

\* A file that was made stays.
LEMMA MadeStays ==
  ASSUME IInv, NEW p \in Processes, Step(p) \/ Kill(p)
  PROVE  \A f \in Tables : file[f].made => file'[f].made
<1>1. Typed /\ Seen /\ cur[p] \in Tables  BY DEF IInv, Typed
<1>2. Quietly(p) \/ Takes(p) \/ Header(p) \/ Finishes(p) \/ Stops(p)  BY <1>1, Kinds
<1>3. CASE Quietly(p) \/ Stops(p)  BY <1>3 DEF Quietly, Stops
<1>4. CASE Takes(p)  BY <1>1, <1>4 DEF Takes, Typed, EmptyFile
<1>5. CASE Header(p)
  <2>1. file' = [file EXCEPT ![cur[p]].header = TRUE]  BY <1>5 DEF Header
  <2>2. \A f \in Tables : f # cur[p] => file'[f] = file[f]  BY <1>1, <2>1 DEF Typed
  <2>3. PICK x : x = file[cur[p]] /\ IsFile(x) /\ file'[cur[p]] = [x EXCEPT !.header = TRUE]
    BY <1>1, <2>1 DEF Typed
  <2>4. file'[cur[p]] = [made |-> x.made, header |-> TRUE, lines |-> x.lines]
    BY <2>3, RecordUpdates
  <2> QED  BY <2>2, <2>3, <2>4
<1>6. CASE Finishes(p)
  <2>1. PICK x : x.made = TRUE /\ file' = [file EXCEPT ![cur[p]] = x]  BY <1>6 DEF Finishes
  <2> QED  BY <1>1, <2>1 DEF Typed
<1> QED  BY <1>2, <1>3, <1>4, <1>5, <1>6

LEMMA PhaseOthers ==
  ASSUME NEW q, Phase(q), Same(q), plan' = plan, file[Graph].made => file'[Graph].made
  PROVE  Phase(q)'
BY DEF Phase, Same, IsInterval

LEMMA PartFacts ==
  /\ 1 \in Parts /\ Len(Splits) \in Nat /\ Parts \subseteq Nat
  /\ \A i \in Parts : /\ Low(i) \in Nat /\ High(i) \in Nat /\ High(i) \in Nat \ {0}
                      /\ i # 1 => i - 1 \in Parts /\ Low(i) = High(i - 1) + 1
                      /\ Low(i) <= High(i)
                      /\ i + 1 \notin Parts => High(i) = Last(Splits)
  /\ Low(1) = 1
<1>1. /\ Len(Splits) \in Nat /\ Len(Splits) > 1 /\ Splits[1] = 1
      /\ \A i \in 1 .. Len(Splits) : Splits[i] \in Nat
      /\ \A i \in 1 .. Len(Splits) - 1 : Splits[i] < Splits[i + 1]
  BY SplitsAssumption
<1> QED  BY <1>1 DEF Parts, Low, High, Last

LEMMA PhaseStep1 ==
  ASSUME IInv, Kept, NEW p \in Processes, Phase(p),
         \/ Start(p) \/ LoadLocked(p) \/ LookFinds(p) \/ LookMisses(p) \/ Read(p) \/ ReadFails(p)
         \/ MeasureAll(p) \/ Fill(p) \/ Save(p) \/ Saved(p)
  PROVE  Phase(p)'
<1>0. /\ pc \in [Processes -> Labels] /\ cur \in [Processes -> Tables] /\ 1 \in Tables /\ Graph \in Tables
      /\ 1 # Graph /\ (\A t \in Tables : t \in Tasks \/ t = Graph)
  BY TaskFacts DEF IInv, Typed, Graph
<1>1. Step(p) /\ plan' = plan /\ (file[Graph].made => file'[Graph].made)
  BY <1>0, PlanStays, MadeStays DEF Step
<1>2. CASE Start(p)
  <2>1. pc[p] = "start" /\ pc'[p] = "load" /\ UNCHANGED <<symbol, job, part, todo, calling>>
    BY <1>0, <1>2 DEF Start, Load, At, GoTo, memory
  <2> QED  BY <1>1, <2>1 DEF Phase, Picking, Loading, IsInterval
<1>3. CASE LoadLocked(p)
  <2>1. pc[p] = "load" /\ pc'[p] = "look" /\ cur' = cur /\ UNCHANGED <<symbol, job, part, todo, calling>>
        /\ IsInterval(cur[p]) /\ cur[p] # Graph
    BY <1>0, <1>3 DEF LoadLocked, At, GoTo, memory
  <2> QED  BY <1>1, <2>1 DEF Phase, Picking, Loading, IsInterval
<1>4. CASE LookFinds(p)
  <2>1. pc[p] \in {"load", "look"} /\ pc'[p] = "read" /\ cur' = cur
        /\ UNCHANGED <<symbol, job, part, todo, calling>>
    BY <1>0, <1>4 DEF LookFinds, LooksNow, At, GoTo, memory
  <2> QED  BY <1>1, <2>1 DEF Phase, Picking, Loading, IsInterval
\* The next table, or the first call, or the call that cleared the graph's table.
<1>5. ASSUME NextTable(p), pc[p] \in Loading, UNCHANGED <<symbol, job, part, todo, calling>>,
             IsInterval(Graph) /\ cur[p] = Graph => file'[Graph].made
      PROVE  Phase(p)'
  <2>1. CASE cur[p] = Graph
    <3>1. cur' = cur /\ pc'[p] = IF p \in calling THEN "running" ELSE "idle"
      BY <1>0, <1>5, <2>1 DEF NextTable, GoTo
    <3> QED  BY <1>1, <1>5, <2>1, <3>1 DEF Phase, Picking, Loading, IsInterval
  <2>2. CASE cur[p] # Graph
    <3>1. pc'[p] = "load" /\ p \notin calling
      BY <1>0, <1>5, <2>2 DEF NextTable, Load, GoTo, Phase, Loading
    <3> QED  BY <1>1, <1>5, <3>1 DEF Phase, Picking, Loading, IsInterval
  <2> QED  BY <2>1, <2>2
<1>6. CASE LookMisses(p)
  <2>1. pc[p] \in {"load", "look"} /\ UNCHANGED <<symbol, job, part, todo, calling, file>>
        /\ ~ file[cur[p]].made
    BY <1>6 DEF LookMisses, LooksNow, At, FileSeen, files
  <2>2. CASE ~ IsInterval(cur[p])
    <3>1. NextTable(p)  BY <1>6, <2>2 DEF LookMisses
    <3> QED  BY <1>5, <2>1, <2>2, <3>1 DEF Loading
  <2>3. CASE IsInterval(cur[p])
    <3>1. cur' = cur /\ pc'[p] = IF cur[p] = Graph THEN "fill" ELSE "measure all"
      BY <1>0, <1>6, <2>3 DEF LookMisses, GoTo
    <3>2. p \notin calling
      BY <2>1, <2>3 DEF Phase, Loading
    <3> QED  BY <1>1, <2>1, <2>3, <3>1, <3>2 DEF Phase, Picking, Loading, IsInterval
  <2> QED  BY <2>2, <2>3
<1>7. CASE Read(p)
  <2>1. pc[p] = "read" /\ NextTable(p) /\ UNCHANGED <<symbol, job, part, todo, calling, file>>
    BY <1>7 DEF Read, At
  <2>2. file[cur[p]].made  BY <2>1 DEF IInv, Seen
  <2> QED  BY <1>5, <2>1, <2>2 DEF Loading
<1>8. CASE ReadFails(p)
  <2>1. pc'[p] = "failed" /\ cur' = cur /\ UNCHANGED <<symbol, job, part, todo, calling>>
    BY <1>0, <1>8 DEF ReadFails, Fail, GoTo, memory
  <2> QED  BY <1>1, <2>1 DEF Phase, Picking, Loading, IsInterval
<1>9. CASE MeasureAll(p)
  <2>1. pc[p] = "measure all" /\ pc'[p] = "save" /\ cur' = cur /\ UNCHANGED <<job, part, todo, calling>>
    BY <1>0, <1>9 DEF MeasureAll, At, GoTo
  <2>2. p \notin calling  BY <2>1 DEF Phase, Loading
  <2> QED  BY <1>1, <2>1, <2>2 DEF Phase, Picking, Loading, IsInterval
<1>10. CASE Fill(p)
  <2>1. pc[p] = "fill" /\ pc'[p] = "pick" /\ cur'[p] = 1 /\ UNCHANGED <<todo, calling>>
        /\ job'[p] = "populate" /\ part'[p] = 1 /\ symbol'[p] = High(1)
    BY <1>0, <1>10 DEF Fill, At, GoTo, Kept, KeptMemory, OtherShapes
  <2>2. p \notin calling  BY <2>1 DEF Phase, Loading
  <2> QED  BY <1>0, <1>1, <2>1, <2>2, PartFacts DEF Phase, Picking, Loading, IsInterval
<1>11. CASE Save(p)
  <2>1. pc[p] = "save" /\ pc'[p] = "saving" /\ cur' = cur /\ UNCHANGED <<symbol, job, part, todo, calling>>
    BY <1>0, <1>11 DEF Save, At, GoTo, memory
  <2> QED  BY <1>1, <2>1 DEF Phase, Picking, Loading, IsInterval
<1>12. CASE Saved(p)
  <2>1. pc[p] = "saving" /\ NextTable(p) /\ UNCHANGED <<symbol, job, part, todo, calling>>
        /\ file' = [file EXCEPT ![cur[p]] = [made |-> TRUE, header |-> TRUE, lines |-> table[p][cur[p]]]]
    BY <1>12 DEF Saved, At, memory
  <2>2. cur[p] = Graph => file'[Graph].made  BY <1>0, <2>1 DEF IInv, Typed
  <2> QED  BY <1>5, <2>1, <2>2 DEF Loading
<1> QED  BY <1>2, <1>3, <1>4, <1>6, <1>7, <1>8, <1>9, <1>10, <1>11, <1>12

\* The table of an interval task and the graph's are never without an answer.
FindsAll(p) == ~ (PickUnknown(p) /\ IsInterval(cur[p])) /\ ~ (SlowPath(p) /\ IsInterval(Graph))

LEMMA PhaseStep2 ==
  ASSUME IInv, Kept, NEW p \in Processes, Phase(p), FindsAll(p),
         \/ PickKnown(p) \/ PickUnknown(p) \/ Measure(p) \/ MakeFile(p) \/ Header(p) \/ OpenFile(p)
         \/ AppendTask(p) \/ PopulatePart(p)
         \/ Run(p) \/ FastPath(p) \/ SlowPath(p) \/ Update(p) \/ AppendGraph(p) \/ AppendGraphFails(p)
         \/ ClearTable(p) \/ Exit(p) \/ Kill(p)
  PROVE  Phase(p)'
<1>0. /\ pc \in [Processes -> Labels] /\ cur \in [Processes -> Tables] /\ 1 \in Tables /\ Graph \in Tables
      /\ 1 # Graph /\ (\A t \in Tables : t \in Tasks \/ t = Graph)
  BY TaskFacts DEF IInv, Typed, Graph
<1>1. plan' = plan /\ (file[Graph].made => file'[Graph].made)
  BY <1>0, PlanStays, MadeStays DEF Step
<1>2. CASE PickKnown(p) \/ AppendTask(p)
  <2>1. /\ pc[p] \in {"pick", "appending"} /\ UNCHANGED <<symbol, job, part, todo, calling>>
        /\ \E c : AfterPick(p, cur[p], c)
    BY <1>2 DEF PickKnown, AppendTask, At
  <2>2. (pc'[p] = "pick" /\ cur'[p] \in Tasks) \/ (pc'[p] = "picked" /\ cur'[p] = Graph)
    BY <1>0, <2>1 DEF AfterPick, GoTo
  <2>3. CASE pc'[p] = "pick" /\ cur'[p] \in Tasks
    BY <1>1, <2>1, <2>3, TaskFacts DEF Phase, Picking, Loading, IsInterval
  <2>4. CASE pc'[p] = "picked" /\ cur'[p] = Graph
    BY <1>1, <2>1, <2>4 DEF Phase, Picking, Loading, IsInterval
  <2> QED  BY <2>2, <2>3, <2>4
<1>3. CASE PickUnknown(p)
  <2>1. pc[p] = "pick" /\ pc'[p] = "measure" /\ UNCHANGED <<cur, symbol, job, part, todo, calling>>
    BY <1>0, <1>3 DEF PickUnknown, At, GoTo, memory
  <2>2. ~ IsInterval(cur[p])  BY <1>3 DEF FindsAll
  <2> QED  BY <1>1, <2>1, <2>2 DEF Phase, Picking, Loading, IsInterval
<1>4. CASE Measure(p)
  <2>1. pc[p] = "measure" /\ pc'[p] = "append" /\ UNCHANGED <<cur, symbol, job, part, todo, calling>>
    BY <1>0, <1>4 DEF Measure, At, GoTo
  <2> QED  BY <1>1, <2>1 DEF Phase, Picking, Loading, IsInterval
<1>5. CASE MakeFile(p) \/ Header(p) \/ OpenFile(p)
  <2>1. /\ pc[p] \in {"append", "header"} /\ pc'[p] \in {"header", "appending"}
        /\ UNCHANGED <<cur, symbol, job, part, todo, calling>>
    BY <1>0, <1>5 DEF MakeFile, Header, OpenFile, At, GoTo, memory
  <2> QED  BY <1>1, <2>1 DEF Phase, Picking, Loading, IsInterval
<1>6. CASE PopulatePart(p)
  <2>1. pc[p] = "picked" /\ job[p] = "populate" /\ UNCHANGED <<job, todo, calling>>
    BY <1>6 DEF PopulatePart, At
  <2>2. p \notin calling /\ cur[p] = Graph /\ IsInterval(Graph)  BY <2>1 DEF Phase, Picking
  <2>3. CASE part[p] + 1 \in Parts
    <3>1. /\ pc'[p] = "pick" /\ cur'[p] = 1 /\ part'[p] = part[p] + 1
          /\ symbol'[p] = High(part[p] + 1)
      BY <1>0, <1>6, <2>3 DEF PopulatePart, GoTo, Kept, KeptMemory, OtherShapes
    <3> QED  BY <1>0, <1>1, <2>1, <2>2, <2>3, <3>1 DEF Phase, Picking, Loading, IsInterval
  <2>4. CASE part[p] + 1 \notin Parts
    <3>1. pc'[p] = "save" /\ UNCHANGED <<part, symbol, cur>>
      BY <1>0, <1>6, <2>4 DEF PopulatePart, GoTo
    <3> QED  BY <1>1, <2>1, <2>2, <3>1 DEF Phase, Picking, Loading, IsInterval
  <2> QED  BY <2>3, <2>4
<1>7. CASE Run(p)
  <2>1. /\ pc[p] = "idle" /\ todo[p] # <<>> /\ Head(todo[p]) # Clear
        /\ symbol'[p] = Head(todo[p]) /\ calling' = calling \cup {p} /\ UNCHANGED <<job, part, todo>>
        /\ (pc'[p] = "load" /\ cur'[p] = Graph) \/ pc'[p] = "running"
    BY <1>0, <1>7 DEF Run, At, Updated, Load, GoTo, Kept, KeptMemory, OtherShapes
  <2>2. Head(todo[p]) \in Nat \ {0}
    <3>1. todo[p] \in Seq((Nat \ {0}) \cup {Clear})  BY DEF Kept, KeptMemory, TodoShape
    <3>2. Head(todo[p]) \in (Nat \ {0}) \cup {Clear}  BY <2>1, <3>1
    <3> QED  BY <2>1, <3>2
  <2>3. p \in calling'  BY <2>1
  <2>4. IsInterval(Graph) => file'[Graph].made  BY <1>1, <2>1 DEF Phase
  <2> QED  BY <1>1, <2>1, <2>2, <2>3, <2>4 DEF Phase, Picking, Loading, IsInterval
\* The call is over.
<1>8. ASSUME Returned(p), p \in calling, UNCHANGED <<cur, symbol, job, part>>
      PROVE  Phase(p)'
  <2>1. pc'[p] = "idle" /\ p \notin calling'  BY <1>0, <1>8 DEF Returned, GoTo
  <2> QED  BY <1>1, <1>8, <2>1 DEF Phase, Picking, Loading, IsInterval
<1>9. CASE FastPath(p) \/ AppendGraph(p)
  <2>1. pc[p] = "running" \/ (pc[p] = "appending" /\ cur[p] = Graph)
    BY <1>9 DEF FastPath, AppendGraph, At
  <2>2. p \in calling  BY <2>1, InCall DEF IInv
  <2> QED  BY <1>8, <1>9, <2>2 DEF FastPath, AppendGraph
<1>10. CASE SlowPath(p)
  <2>1. /\ pc[p] = "running" /\ pc'[p] = "pick" /\ cur'[p] = 1 /\ job'[p] = "slow"
        /\ UNCHANGED <<symbol, part, todo, calling>> /\ ~ Contains(Graph, table[p][Graph], Head(todo[p]))
    BY <1>0, <1>10 DEF SlowPath, At, GoTo, Kept, KeptMemory, OtherShapes
  <2>2. ~ IsInterval(Graph)  BY <1>10 DEF FindsAll
  <2> QED  BY <1>0, <1>1, <2>1, <2>2 DEF Phase, Picking, Loading, IsInterval
<1>11. CASE Update(p)
  <2>1. pc[p] = "picked" /\ pc'[p] = "append" /\ job[p] = "slow"
        /\ UNCHANGED <<cur, symbol, job, part, todo, calling>>
    BY <1>0, <1>11 DEF Update, At, GoTo
  <2> QED  BY <1>1, <2>1 DEF Phase, Picking, Loading, IsInterval
<1>12. CASE AppendGraphFails(p) \/ Kill(p)
  <2>1. pc'[p] \in {"failed", "killed"} /\ UNCHANGED <<cur, symbol, job, part, todo, calling>>
    BY <1>0, <1>12 DEF AppendGraphFails, Fail, Kill, GoTo, memory
  <2> QED  BY <1>1, <2>1 DEF Phase, Picking, Loading, IsInterval
<1>13. CASE ClearTable(p)
  <2>1. pc[p] = "idle" /\ UNCHANGED <<pc, cur, symbol, job, part, calling>>
    BY <1>13 DEF ClearTable, At
  <2>2. p \notin calling  BY <2>1 DEF Phase
  <2> QED  BY <1>1, <2>1, <2>2 DEF Phase, Picking, Loading, IsInterval
<1>14. CASE Exit(p)
  <2>1. pc[p] = "idle" /\ pc'[p] = "done" /\ UNCHANGED <<cur, symbol, job, part, todo, calling>>
    BY <1>0, <1>14 DEF Exit, At, GoTo, memory
  <2> QED  BY <1>1, <2>1 DEF Phase, Picking, Loading, IsInterval
<1> QED  BY <1>2, <1>3, <1>4, <1>5, <1>6, <1>7, <1>9, <1>10, <1>11, <1>12, <1>13, <1>14

-----------------------------------------------------------------------------
(* What is measured alone.                                                  *)

\* A step changes at most the file of the table the process is at.
LEMMA FileChanges ==
  ASSUME IInv, NEW p \in Processes, Step(p) \/ Kill(p)
  PROVE  /\ \A f \in Tables : f # cur[p] => file'[f] = file[f]
         /\ pc[p] \notin {"save", "saving", "append", "header", "appending"} => file' = file
<1>1. Typed /\ Seen /\ cur[p] \in Tables  BY DEF IInv, Typed
<1>2. Quietly(p) \/ Takes(p) \/ Header(p) \/ Finishes(p) \/ Stops(p)  BY <1>1, Kinds
<1>3. \A f \in Tables : f # cur[p] => file'[f] = file[f]
  <2>1. CASE Quietly(p) \/ Stops(p)  BY <2>1 DEF Quietly, Stops
  <2>2. CASE Takes(p)  BY <1>1, <2>2 DEF Takes, Typed
  <2>3. CASE Header(p)  BY <1>1, <2>3 DEF Header, Typed
  <2>4. CASE Finishes(p)  BY <1>1, <2>4 DEF Finishes, Typed
  <2> QED  BY <1>2, <2>1, <2>2, <2>3, <2>4
<1>4. pc[p] \notin {"save", "saving", "append", "header", "appending"} => file' = file
  <2>1. CASE Save(p) \/ MakeFile(p) \/ OpenFile(p) \/ Header(p) \/ Saved(p) \/ AppendTask(p) \/ AppendGraph(p)
    BY <2>1 DEF Save, MakeFile, OpenFile, Header, Saved, AppendTask, AppendGraph, At
  <2>2. CASE ~ (Save(p) \/ MakeFile(p) \/ OpenFile(p) \/ Header(p) \/ Saved(p) \/ AppendTask(p) \/ AppendGraph(p))
    <3>1. Quietly(p) \/ Stops(p)  BY <1>1, <2>2, QuietSteps, StoppingSteps DEF Step
    <3> QED  BY <3>1 DEF Quietly, Stops
  <2> QED  BY <2>1, <2>2
<1> QED  BY <1>3, <1>4

LEMMA AloneOthers ==
  ASSUME IInv, Kept, NEW p \in Processes, Phase(p), Alone(p), Step(p) \/ Kill(p),
         NEW q \in Processes \ {p}, Phase(q), Alone(q), Same(q)
  PROVE  Alone(q)'
<1>1. Typed /\ cur[q] \in Tables /\ pc'[q] = pc[q] /\ cur'[q] = cur[q]  BY DEF IInv, Typed, Same
<1>2. CASE pc[q] \notin {"look", "measure all", "save", "saving"} \/ cur[q] = Graph
  BY <1>1, <1>2 DEF Alone
<1>3. CASE pc[q] \in {"look", "measure all", "save", "saving"} /\ cur[q] # Graph
  <2>1. tlock[cur[q]] = q /\ IsInterval(cur[q])  BY <1>3 DEF Alone, Phase
  <2>2. tlock'[cur[q]] = q
    <3>1. ~ (pc[p] = "appending" /\ cur[q] = cur[p])  BY <2>1 DEF Phase
    <3> QED  BY <1>1, <2>1, <3>1, TLockSteps
  <2>3. file'[cur[q]] = file[cur[q]]
    <3>1. CASE cur[p] # cur[q]  BY <1>1, <3>1, FileChanges
    <3>2. CASE cur[p] = cur[q]
      <4>1. pc[p] \notin {"append", "header", "appending"}  BY <2>1, <3>2 DEF Phase
      <4>2. pc[p] \notin {"save", "saving"}  BY <1>3, <2>1, <3>2 DEF Alone
      <4> QED  BY <4>1, <4>2, FileChanges
    <3> QED  BY <3>1, <3>2
  <2> QED  BY <1>1, <1>3, <2>2, <2>3 DEF Alone
<1> QED  BY <1>2, <1>3

LEMMA AloneStep ==
  ASSUME IInv, Kept, NEW p \in Processes, Phase(p), Alone(p), Step(p) \/ Kill(p)
  PROVE  Alone(p)'
<1>0. /\ pc \in [Processes -> Labels] /\ cur \in [Processes -> Tables] /\ cur[p] \in Tables
      /\ tlock \in [Tables -> Processes \cup {Nobody}] /\ file = [f \in Tables |-> file[f]]
  BY DEF IInv, Typed, Kept
<1>1. CASE LoadLocked(p)
  <2>1. pc'[p] = "look" /\ cur' = cur /\ tlock'[cur[p]] = p
    BY <1>0, <1>1 DEF LoadLocked, TakeT, GoTo
  <2> QED  BY <2>1 DEF Alone
<1>2. CASE LookMisses(p)
  <2>1. ~ file[cur[p]].made /\ tlock' = tlock /\ file' = file /\ pc[p] \in {"load", "look"}
    BY <1>2 DEF LookMisses, FileSeen, LooksNow, At, files
  <2>2. CASE ~ IsInterval(cur[p])
    <3>1. pc'[p] \notin {"look", "measure all", "save", "saving"}
      BY <1>0, <1>2, <2>2 DEF LookMisses, NextTable, Load, GoTo
    <3> QED  BY <3>1 DEF Alone
  <2>3. CASE IsInterval(cur[p])
    <3>1. cur' = cur /\ pc'[p] \in {"fill", "measure all"} /\ (cur[p] # Graph => pc[p] = "look")
      BY <1>0, <1>2, <2>3 DEF LookMisses, GoTo, LooksNow, At
    <3> QED  BY <2>1, <3>1 DEF Alone
  <2> QED  BY <2>2, <2>3
<1>3. CASE MeasureAll(p)
  <2>1. pc[p] = "measure all" /\ pc'[p] = "save" /\ UNCHANGED <<cur, file, tlock>>
    BY <1>0, <1>3 DEF MeasureAll, At, GoTo, files
  <2> QED  BY <2>1 DEF Alone
<1>4. CASE Save(p)
  <2>1. pc[p] = "save" /\ pc'[p] = "saving" /\ UNCHANGED <<cur, tlock>> /\ file'[cur[p]] = EmptyFile
    BY <1>0, <1>4 DEF Save, At, GoTo
  <2> QED  BY <2>1 DEF Alone, EmptyFile
<1>5. CASE PopulatePart(p)
  <2>1. (pc'[p] = "save" /\ cur' = cur /\ cur[p] = Graph) \/ pc'[p] = "pick"
    BY <1>0, <1>5 DEF PopulatePart, GoTo, At, Phase
  <2> QED  BY <2>1 DEF Alone
<1>6. CASE \/ Start(p) \/ LookFinds(p) \/ Read(p) \/ ReadFails(p) \/ Fill(p) \/ Saved(p)
           \/ PickKnown(p) \/ PickUnknown(p) \/ Measure(p) \/ MakeFile(p) \/ Header(p) \/ OpenFile(p)
           \/ AppendTask(p)
  <2>1. pc'[p] \notin {"look", "measure all", "save", "saving"}
    BY <1>0, <1>6 DEF Start, LookFinds, Read, ReadFails, Fill, Saved, PickKnown, PickUnknown,
           Measure, MakeFile, Header, OpenFile, AppendTask, Load, NextTable, AfterPick, Fail, GoTo
  <2> QED  BY <2>1 DEF Alone
<1>7. CASE \/ Run(p) \/ FastPath(p) \/ SlowPath(p) \/ Update(p) \/ AppendGraph(p)
           \/ AppendGraphFails(p) \/ ClearTable(p) \/ Exit(p) \/ Kill(p)
  <2>1. pc'[p] \notin {"look", "measure all", "save", "saving"}
    BY <1>0, <1>7 DEF Run, FastPath, SlowPath, Update, AppendGraph, AppendGraphFails, ClearTable,
           Exit, Kill, Returned, Load, Fail, GoTo, At
  <2> QED  BY <2>1 DEF Alone
<1> QED  BY <1>1, <1>2, <1>3, <1>4, <1>5, <1>6, <1>7 DEF Step

-----------------------------------------------------------------------------
(* Intervals, and the candidate that a table gives for a dimension.         *)

\* A non-empty set of numbers has a least element.
LEMMA LeastOf ==
  ASSUME NEW T \in SUBSET Nat, T # {}
  PROVE  \E x \in T : \A y \in T : x <= y
<1> DEFINE R == OpToRel(<, Nat)
<1>1. IsWellFoundedOn(R, Nat)  BY NatLessThanWellFounded
<1>2. \A x, y \in Nat : y < x => <<y, x>> \in R  BY DEF OpToRel
<1> HIDE DEF R
<1>3. \E x \in T : \A y \in T : ~ (<<y, x>> \in R)  BY <1>1, WFMin
<1>4. PICK x \in T : \A y \in T : ~ (<<y, x>> \in R)  BY <1>3
<1>5. ASSUME NEW y \in T PROVE x <= y
  <2>1. x \in Nat /\ y \in Nat  OBVIOUS
  <2>2. ~ (y < x)  BY <1>2, <1>4, <2>1
  <2> QED  BY <2>1, <2>2
<1> QED  BY <1>5

\* The split points increase.
LEMMA SplitsIncrease ==
  \A i, j \in 1 .. Len(Splits) : i < j => Splits[i] < Splits[j]
<1>1. /\ Len(Splits) \in Nat /\ \A i \in 1 .. Len(Splits) : Splits[i] \in Nat
      /\ \A i \in 1 .. Len(Splits) - 1 : Splits[i] < Splits[i + 1]
  BY SplitsAssumption
<1> SUFFICES ASSUME NEW i \in 1 .. Len(Splits),
                    NEW j \in 1 .. Len(Splits), i < j, ~ (Splits[i] < Splits[j])
             PROVE  FALSE
  OBVIOUS
<1> DEFINE Bad == {k \in 1 .. Len(Splits) : i < k /\ ~ (Splits[i] < Splits[k])}
<1>2. Bad \in SUBSET Nat /\ Bad # {}  BY <1>1
<1>3. PICK k \in Bad : \A l \in Bad : k <= l  BY <1>2, LeastOf
<1>4. k \in 1 .. Len(Splits) /\ i < k /\ ~ (Splits[i] < Splits[k])  BY <1>3
<1>5. k - 1 \in 1 .. Len(Splits) - 1 /\ k - 1 \notin Bad /\ (k - 1) + 1 = k  BY <1>1, <1>3, <1>4
<1>6. Splits[k - 1] < Splits[k]  BY <1>1, <1>5
<1>7. i = k - 1 \/ Splits[i] < Splits[k - 1]  BY <1>1, <1>4, <1>5
<1> QED  BY <1>1, <1>4, <1>5, <1>6, <1>7

\* The intervals of a dimension and the place where it is measured.
LEMMA PartOf ==
  ASSUME NEW d \in Nat \ {0}, d <= Last(Splits)
  PROVE  \E j \in Parts :
           /\ Low(j) <= d /\ d <= High(j) /\ \A i \in 1 .. j - 1 : High(i) < d
           /\ \A t : IsInterval(t) => Cell(t, d) = High(j)
<1>1. /\ Len(Splits) \in Nat /\ Len(Splits) > 1 /\ \A i \in 1 .. Len(Splits) : Splits[i] \in Nat
      /\ Parts = 1 .. Len(Splits) - 1 /\ \A i \in Parts : High(i) = Splits[i + 1] /\ High(i) \in Nat
  BY SplitsAssumption DEF Parts, High
<1> DEFINE Beyond == {i \in Parts : d <= High(i)}
<1>2. Len(Splits) - 1 \in Parts /\ High(Len(Splits) - 1) = Last(Splits)  BY <1>1 DEF Last
<1>3. Beyond \in SUBSET Nat /\ Beyond # {}
  <2>1. Beyond \in SUBSET Nat  BY <1>1
  <2>2. Len(Splits) - 1 \in Beyond  BY <1>2
  <2> QED  BY <2>1, <2>2
<1>4. PICK j \in Beyond : \A l \in Beyond : j <= l  BY <1>3, LeastOf
<1> HIDE DEF Beyond
<1>5. j \in Parts /\ d <= High(j)  BY <1>4 DEF Beyond
<1>6. \A i \in Parts : i < j => High(i) < d  BY <1>1, <1>4 DEF Beyond
<1>7. \A i \in Parts : d <= High(i) => High(j) <= High(i)
  <2> SUFFICES ASSUME NEW i \in Parts, d <= High(i) PROVE High(j) <= High(i)  OBVIOUS
  <2>1. j <= i  BY <1>4 DEF Beyond
  <2>2. j = i \/ j + 1 < i + 1  BY <1>1, <1>5, <2>1
  <2>3. j + 1 \in 1 .. Len(Splits) /\ i + 1 \in 1 .. Len(Splits)  BY <1>1, <1>5
  <2>4. j = i \/ Splits[j + 1] < Splits[i + 1]  BY <2>2, <2>3, SplitsIncrease
  <2> QED  BY <1>1, <1>5, <2>3, <2>4
<1>8. Low(j) <= d
  <2>1. CASE j = 1  BY <1>1, <2>1, SplitsAssumption DEF Low
  <2>2. CASE j # 1
    <3>1. j - 1 \in Parts /\ Low(j) = High(j - 1) + 1  BY <1>5, <2>2, PartFacts
    <3> QED  BY <1>1, <1>5, <1>6, <3>1
  <2> QED  BY <2>1, <2>2
<1>9. ASSUME NEW t, IsInterval(t) PROVE Cell(t, d) = High(j)
  <2> DEFINE Ends == {High(i) : i \in Parts}
             P(h) == d <= h /\ \A i \in Parts : d <= High(i) => h <= High(i)
  <2>1. ~ (d > Last(Splits))  BY <1>1, <1>2
  <2>2. Cell(t, d) = CHOOSE h \in Ends : P(h)  BY <1>9, <2>1 DEF Cell
  <2>3. High(j) \in Ends /\ P(High(j))  BY <1>5, <1>7
  <2>4. \A h \in Ends : h \in Nat  BY <1>1
  <2>5. \A h \in Ends : P(h) => h = High(j)
    <3> SUFFICES ASSUME NEW h \in Ends, P(h) PROVE h = High(j)  OBVIOUS
    <3>1. h <= High(j)  BY <1>5
    <3>2. PICK i \in Parts : h = High(i)  OBVIOUS
    <3>3. High(j) <= h  BY <1>7, <3>2
    <3> QED  BY <1>1, <1>5, <2>4, <3>1, <3>3
  <2> HIDE DEF Ends, P
  <2> QED  BY <2>2, <2>3, <2>5
<1>10. \A i \in 1 .. j - 1 : i \in Parts /\ i < j  BY <1>1, <1>5
<1> QED  BY <1>5, <1>6, <1>8, <1>9, <1>10

LEMMA HighBound == \A i \in Parts : High(i) \in Nat /\ High(i) <= Last(Splits) /\ Last(Splits) \in Nat \ {0}
<1>1. /\ Len(Splits) \in Nat /\ Len(Splits) > 1 /\ \A i \in 1 .. Len(Splits) : Splits[i] \in Nat
      /\ Splits[1] = 1
  BY SplitsAssumption
<1>2. \A i \in Parts : i + 1 = Len(Splits) \/ Splits[i + 1] < Splits[Len(Splits)]
  BY <1>1, SplitsIncrease DEF Parts
<1>3. 1 < Splits[Len(Splits)]  BY <1>1, SplitsIncrease
<1> QED  BY <1>1, <1>2, <1>3 DEF High, Last, Parts

\* The dimensions of an interval are measured at its end.
LEMMA SameCell ==
  ASSUME NEW i \in Parts, NEW d \in Nat \ {0}, Low(i) <= d, d <= High(i), NEW t, IsInterval(t)
  PROVE  Cell(t, d) = High(i)
<1>1. d <= Last(Splits) /\ Parts \subseteq Nat  BY HighBound, PartFacts
<1>2. PICK j \in Parts : /\ Low(j) <= d /\ d <= High(j) /\ \A k \in 1 .. j - 1 : High(k) < d
                         /\ \A u : IsInterval(u) => Cell(u, d) = High(j)
  BY <1>1, PartOf
<1>3. ~ (i < j)
  <2> SUFFICES ASSUME i < j PROVE FALSE  OBVIOUS
  <2>1. i \in 1 .. j - 1  BY <1>1 DEF Parts
  <2> QED  BY <1>2, <2>1, HighBound
<1>4. ~ (j < i)
  <2> SUFFICES ASSUME j < i PROVE FALSE  OBVIOUS
  <2>1. i # 1 /\ i - 1 \in Parts /\ Low(i) = High(i - 1) + 1  BY <1>1, PartFacts DEF Parts
  <2>2. j = i - 1 \/ j + 1 < i  BY <1>1
  <2>3. High(j) <= High(i - 1)
    <3>1. j + 1 \in 1 .. Len(Splits) /\ i \in 1 .. Len(Splits) /\ (i - 1) + 1 = i
      BY <1>1, PartFacts DEF Parts
    <3>2. j + 1 = i \/ Splits[j + 1] < Splits[i]  BY <2>2, <3>1, <1>1, SplitsIncrease
    <3>3. High(j) = Splits[j + 1] /\ High(i - 1) = Splits[i]  BY <3>1 DEF High
    <3> QED  BY <2>1, <3>2, <3>3, HighBound
  <2> QED  BY <1>2, <2>1, <2>3, HighBound
<1>5. i = j  BY <1>1, <1>3, <1>4
<1> QED  BY <1>2, <1>5

\* The last split point is where the dimensions beyond are measured.
LEMMA CellAtEnd ==
  ASSUME NEW t, NEW d \in Nat, d > Last(Splits)
  PROVE  Cell(t, d) = Cell(t, Last(Splits)) \/ ~ IsInterval(t)
<1>1. 1 \in Parts /\ Last(Splits) \in Nat \ {0}  BY PartFacts, HighBound
<1>2. PICK j \in Parts : /\ Low(j) <= Last(Splits) /\ Last(Splits) <= High(j)
                         /\ \A u : IsInterval(u) => Cell(u, Last(Splits)) = High(j)
  BY <1>1, PartOf
<1>3. High(j) = Last(Splits)  BY <1>1, <1>2, HighBound
<1> QED  BY <1>2, <1>3 DEF Cell

LEMMA EmptySeq == IsSeq(<<>>) /\ Len(<<>>) = 0 /\ DOMAIN <<>> = {}
BY DEF IsSeq

LEMMA SeqFacts ==
  ASSUME NEW s, IsSeq(s)
  PROVE  /\ Len(s) \in Nat /\ DOMAIN s = 1 .. Len(s)
         /\ s # <<>> => Len(s) \in DOMAIN s
         /\ s = <<>> <=> Len(s) = 0
BY DEF IsSeq

LEMMA AppendFacts ==
  ASSUME NEW s, IsSeq(s), NEW x
  PROVE  /\ IsSeq(Append(s, x)) /\ Append(s, x) # <<>> /\ Len(Append(s, x)) = Len(s) + 1
         /\ DOMAIN Append(s, x) = 1 .. Len(s) + 1
         /\ \A i \in 1 .. Len(s) : Append(s, x)[i] = s[i]
         /\ Append(s, x)[Len(s) + 1] = x /\ Last(Append(s, x)) = x
<1> DEFINE S == {s[i] : i \in DOMAIN s}
           a == Append(s, x)
<1>1. s \in Seq(S)  BY DEF IsSeq
<1> HIDE DEF S
<1>2. s \in Seq(S \cup {x})  BY <1>1
<1>3. /\ Len(s) \in Nat /\ Len(a) = Len(s) + 1 /\ DOMAIN a = 1 .. Len(s) + 1
      /\ \A i \in 1 .. Len(s) : a[i] = s[i]
      /\ a[Len(s) + 1] = x /\ a \in Seq(S \cup {x})
  BY <1>2
<1> HIDE DEF a
<1>4. a \in Seq({a[i] : i \in DOMAIN a})  BY <1>3
<1>5. a # <<>>  BY <1>3
<1> QED  BY <1>3, <1>4, <1>5 DEF IsSeq, Last, a

LEMMA ConcatFacts ==
  ASSUME NEW s, IsSeq(s), NEW n \in Nat, NEW x
  PROVE  LET c == s \o [i \in 1 .. n |-> x]
         IN  /\ IsSeq(c) /\ Len(c) = Len(s) + n
             /\ \A i \in 1 .. Len(s) : c[i] = s[i]
             /\ \A i \in Len(s) + 1 .. Len(s) + n : c[i] = x
<1> DEFINE S == {s[i] : i \in DOMAIN s}
           t == [i \in 1 .. n |-> x]
           c == s \o t
<1>1. s \in Seq(S)  BY DEF IsSeq
<1> HIDE DEF S
<1>2. s \in Seq(S \cup {x}) /\ t \in Seq(S \cup {x}) /\ Len(t) = n /\ \A i \in 1 .. n : t[i] = x
  BY <1>1
<1> HIDE DEF t
<1>3. /\ Len(s) \in Nat /\ Len(c) = Len(s) + n /\ DOMAIN c = 1 .. Len(s) + n
      /\ c \in Seq(S \cup {x})
      /\ \A i \in 1 .. Len(s) : c[i] = s[i]
      /\ \A i \in Len(s) + 1 .. Len(s) + n : c[i] = t[i - Len(s)]
  BY <1>2
<1>4. \A i \in Len(s) + 1 .. Len(s) + n : c[i] = x  BY <1>2, <1>3
<1> HIDE DEF c
<1>5. c \in Seq({c[i] : i \in DOMAIN c})  BY <1>3
<1> QED  BY <1>3, <1>4, <1>5 DEF IsSeq, c, t

\* The last line of a key is found.
LEMMA PointPickFacts ==
  ASSUME NEW lines, IsSeq(lines), NEW d, d \in Keys(lines)
  PROVE  \E i \in DOMAIN lines : lines[i].key = d /\ PointPick(lines, d) = lines[i].best
<1> DEFINE n == Len(lines)
           From == {n - i : i \in {j \in DOMAIN lines : lines[j].key = d}}
           Is(i) == lines[i].key = d /\ \A j \in DOMAIN lines : lines[j].key = d => j <= i
<1>1. n \in Nat /\ DOMAIN lines = 1 .. n  BY SeqFacts
<1> HIDE DEF n
<1>2. From \in SUBSET Nat  BY <1>1
<1>3. From # {}  BY DEF Keys
<1>4. PICK m \in From : \A l \in From : m <= l  BY <1>2, <1>3, LeastOf
<1>5. PICK i \in DOMAIN lines : lines[i].key = d /\ m = n - i  BY <1>4
<1>6. Is(i)
  <2> SUFFICES ASSUME NEW j \in DOMAIN lines, lines[j].key = d PROVE j <= i  BY <1>5
  <2>1. n - j \in From  OBVIOUS
  <2>2. m <= n - j  BY <1>4, <2>1
  <2> QED  BY <1>1, <1>5, <2>2
<1>7. Is(CHOOSE k \in DOMAIN lines : Is(k)) /\ (CHOOSE k \in DOMAIN lines : Is(k)) \in DOMAIN lines
  <2> HIDE DEF Is
  <2> QED  BY <1>6
<1>8. PointPick(lines, d) = lines[CHOOSE k \in DOMAIN lines : Is(k)].best  BY DEF PointPick
<1> QED  BY <1>7, <1>8

\* The table of an interval task has the candidate that was measured for its interval.
LEMMA IntervalPickFacts ==
  ASSUME NEW t, IsInterval(t), NEW lines, IntervalsRight(t, lines), NEW d \in Nat \ {0}
  PROVE  \E i \in Parts : High(i) = Cell(t, d) /\ IntervalPick(lines, d) = lines[i].best
<1> DEFINE n == Len(Splits)
           First(i) == Covers(lines, i, d) /\ \A j \in 1 .. i - 1 : ~ Covers(lines, j, d)
<1>1. /\ n \in Nat /\ n > 1 /\ Parts = 1 .. n - 1 /\ Len(lines) = n /\ DOMAIN lines = 1 .. n
      /\ Last(Splits) \in Nat \ {0} /\ \A i \in Parts : High(i) \in Nat /\ High(i) <= Last(Splits)
  BY SplitsAssumption, HighBound, SeqFacts DEF IntervalsRight, Parts
<1>2. /\ \A i \in Parts : lines[i].low = Low(i) /\ lines[i].high = High(i)
      /\ lines[n].low = Last(Splits) + 1 /\ lines[n].best = lines[n - 1].best
  BY <1>1 DEF IntervalsRight
<1> HIDE DEF n
<1>3. \A i \in Parts : Covers(lines, i, d) <=> Low(i) <= d /\ d <= High(i)
  BY <1>1, <1>2 DEF Covers
<1>4. Covers(lines, n, d) <=> Last(Splits) + 1 <= d  BY <1>1, <1>2 DEF Covers
<1>5. ASSUME NEW k \in 1 .. n, First(k) PROVE IntervalPick(lines, d) = lines[k].best
  <2>1. ASSUME NEW i \in 1 .. n, First(i) PROVE i = k
    <3>1. ~ (i < k)
      <4> SUFFICES ASSUME i < k PROVE FALSE  OBVIOUS
      <4>1. i \in 1 .. k - 1  OBVIOUS
      <4> QED  BY <1>5, <2>1, <4>1
    <3>2. ~ (k < i)
      <4> SUFFICES ASSUME k < i PROVE FALSE  OBVIOUS
      <4>1. k \in 1 .. i - 1  OBVIOUS
      <4> QED  BY <1>5, <2>1, <4>1
    <3> QED  BY <1>1, <3>1, <3>2
  <2>2. IntervalPick(lines, d) = lines[CHOOSE i \in DOMAIN lines : First(i)].best  BY DEF IntervalPick
  <2>3. (CHOOSE i \in DOMAIN lines : First(i)) = k
    <3> HIDE DEF First
    <3> QED  BY <1>1, <1>5, <2>1
  <2> QED  BY <2>2, <2>3
<1>6. CASE d <= Last(Splits)
  <2>1. PICK j \in Parts : /\ Low(j) <= d /\ d <= High(j) /\ \A i \in 1 .. j - 1 : High(i) < d
                           /\ \A u : IsInterval(u) => Cell(u, d) = High(j)
    BY <1>6, PartOf
  <2>2. First(j)
    <3>1. \A i \in 1 .. j - 1 : i \in Parts /\ ~ (d <= High(i))  BY <1>1, <2>1
    <3> QED  BY <1>3, <2>1, <3>1
  <2>3. j \in 1 .. n  BY <1>1
  <2> QED  BY <1>5, <2>1, <2>2, <2>3
<1>7. CASE d > Last(Splits)
  <2>1. First(n)
    <3>1. \A i \in 1 .. n - 1 : i \in Parts /\ ~ (d <= High(i))  BY <1>1, <1>7
    <3> QED  BY <1>1, <1>3, <1>4, <1>7, <3>1
  <2>2. IntervalPick(lines, d) = lines[n - 1].best  BY <1>1, <1>2, <1>5, <2>1
  <2>3. n - 1 \in Parts /\ High(n - 1) = Last(Splits)  BY <1>1 DEF High, Last, n
  <2>4. Cell(t, d) = Last(Splits)  BY <1>7 DEF Cell
  <2> QED  BY <2>2, <2>3, <2>4
<1> QED  BY <1>1, <1>6, <1>7

LEMMA GraphPickFacts ==
  ASSUME IsInterval(Graph), NEW lines, RowsRight(lines, Last(Splits)), NEW d \in Nat \ {0}
  PROVE  AllRight(d, GraphPick(lines, d)) /\ lines # <<>>
<1>1. Len(lines) = Last(Splits) /\ Last(Splits) \in Nat \ {0}  BY HighBound, PartFacts DEF RowsRight
<1>2. lines # <<>>  BY <1>1
<1>3. CASE d <= Last(Splits)
  <2>1. d \in 1 .. Last(Splits)  BY <1>1, <1>3
  <2>2. AllRight(d, lines[d].best)  BY <2>1 DEF RowsRight
  <2> QED  BY <1>1, <1>2, <1>3, <2>2 DEF GraphPick
<1>4. CASE d > Last(Splits)
  <2>1. Last(Splits) \in 1 .. Last(Splits)  BY <1>1
  <2>2. AllRight(Last(Splits), lines[Last(Splits)].best)  BY <2>1 DEF RowsRight
  <2>3. \A t : Cell(t, d) = Cell(t, Last(Splits))
    <3> TAKE t
    <3>1. CASE IsInterval(t)  BY <1>4, <3>1, CellAtEnd
    <3>2. CASE ~ IsInterval(t)  BY <3>2 DEF Cell, Key, IsInterval
    <3> QED  BY <3>1, <3>2
  <2>4. AllRight(d, lines[Last(Splits)].best)  BY <2>2, <2>3 DEF AllRight
  <2>5. GraphPick(lines, d) = lines[Last(Splits)].best
    <3>1. ~ (d <= Len(lines)) /\ Last(lines) = lines[Last(Splits)]  BY <1>1, <1>4 DEF Last
    <3> QED  BY <3>1 DEF GraphPick
  <2> QED  BY <1>2, <2>4, <2>5
<1> QED  BY <1>1, <1>3, <1>4

-----------------------------------------------------------------------------
(* What was found stays found.                                              *)

LEMMA HeadersStayMade ==
  ASSUME IInv, HeadersMade, NEW p \in Processes, Step(p) \/ Kill(p)
  PROVE  HeadersMade'
<1>1. Typed /\ Seen /\ cur[p] \in Tables  BY DEF IInv, Typed
<1>2. Quietly(p) \/ Takes(p) \/ Header(p) \/ Finishes(p) \/ Stops(p)  BY <1>1, Kinds
<1>3. \A f \in Tables : f # cur[p] => file'[f] = file[f]  BY FileChanges
<1>4. file'[cur[p]].header => file'[cur[p]].made
  <2>1. CASE Quietly(p) \/ Stops(p)  BY <1>1, <2>1 DEF Quietly, Stops, HeadersMade
  <2>2. CASE Takes(p)  BY <1>1, <2>2 DEF Takes, Typed, EmptyFile, HeadersMade
  <2>3. CASE Header(p)
    <3>1. file[cur[p]].made  BY <1>1, <2>3 DEF Seen, Header, At
    <3> QED  BY <1>1, <2>3, <3>1, MadeStays
  <2>4. CASE Finishes(p)
    <3>1. PICK x : x.made = TRUE /\ file' = [file EXCEPT ![cur[p]] = x]  BY <2>4 DEF Finishes
    <3> QED  BY <1>1, <3>1 DEF Typed
  <2> QED  BY <1>2, <2>1, <2>2, <2>3, <2>4
<1> QED  BY <1>3, <1>4 DEF HeadersMade

LEMMA NeverMissing ==
  ASSUME IInv, Control, Data, NEW p \in Processes
  PROVE  FindsAll(p)
<1>1. Phase(p) /\ cur[p] \in Tables  BY DEF Control, IInv, Typed
<1>2. ASSUME PickUnknown(p), IsInterval(cur[p]) PROVE FALSE
  <2>1. pc[p] = "pick" /\ ~ Known(p, cur[p])  BY <1>2 DEF PickUnknown, At
  <2>2. cur[p] \in Tasks  BY <1>1, <2>1, TaskFacts DEF Phase
  <2>3. Loaded(p, cur[p])  BY <2>1 DEF Loaded, Ending, Loading
  <2>4. table[p][cur[p]] = file[cur[p]].lines /\ IntervalsRight(cur[p], file[cur[p]].lines)
    BY <1>2, <2>2, <2>3 DEF Data, TasksRight, FilesRight
  <2>5. table[p][cur[p]] # <<>>  BY <2>4, SplitsAssumption, EmptySeq DEF IntervalsRight
  <2> QED  BY <1>2, <2>1, <2>5 DEF Known, Contains
<1>3. ASSUME SlowPath(p), IsInterval(Graph) PROVE FALSE
  <2>1. pc[p] = "running" /\ ~ Contains(Graph, table[p][Graph], Head(todo[p]))
    BY <1>3 DEF SlowPath, At
  <2>2. RowsRight(table[p][Graph], Last(Splits))  BY <1>3, <2>1 DEF Data, GraphsRight, GraphRight
  <2>3. table[p][Graph] # <<>>
    BY <2>2, HighBound, PartFacts, EmptySeq DEF RowsRight
  <2> QED  BY <1>3, <2>1, <2>3 DEF Contains
<1> QED  BY <1>2, <1>3 DEF FindsAll

\* The file of an interval task is written once.
LEMMA IntervalFilesStay ==
  ASSUME IInv, Control, NEW p \in Processes, Step(p) \/ Kill(p),
         NEW t \in Tasks, IsInterval(t), file[t].header
  PROVE  file'[t] = file[t]
<1>1. t \in Tables /\ t # Graph /\ Phase(p) /\ Alone(p) /\ file[t].made
  BY TaskFacts DEF Control, HeadersMade
<1>2. CASE cur[p] # t  BY <1>1, <1>2, FileChanges
<1>3. CASE cur[p] = t
  <2>1. pc[p] \notin {"append", "header", "appending", "save", "saving"}
    BY <1>1, <1>3 DEF Phase, Alone
  <2> QED  BY <2>1, FileChanges
<1> QED  BY <1>2, <1>3

LEMMA MeasuredStays ==
  ASSUME NEW p \in Processes, Step(p) \/ Kill(p)
  PROVE  measured \subseteq measured'
BY DEF Step, Kill, Start, LoadLocked, LookFinds, LookMisses, Read, ReadFails, MeasureAll, Fill, Save, Saved,
       PickKnown, PickUnknown, Measure, MakeFile, Header, OpenFile, AppendTask, PopulatePart, Run, FastPath,
       SlowPath, Update, AppendGraph, AppendGraphFails, ClearTable, Exit, memory

LEMMA RightStays ==
  ASSUME IInv, Control, NEW p \in Processes, Step(p) \/ Kill(p),
         NEW t \in Tasks, NEW key, NEW best, Right(t, key, best)
  PROVE  Right(t, key, best)'
<1>1. plan' = plan  BY PlanStays
<1>2. Measured(t, key, best)'  BY MeasuredStays DEF Right, Measured
<1>3. CASE ~ IsInterval(t)  BY <1>1, <1>2, <1>3 DEF Right, IsInterval
<1>4. CASE IsInterval(t)
  <2>1. file'[t] = file[t]  BY <1>4, IntervalFilesStay DEF Right
  <2> QED  BY <1>1, <1>2, <1>4, <2>1 DEF Right, IsInterval
<1> QED  BY <1>3, <1>4

LEMMA LinesStay ==
  ASSUME IInv, Control, NEW p \in Processes, Step(p) \/ Kill(p)
  PROVE  /\ \A d, best : AllRight(d, best) => AllRight(d, best)'
         /\ \A t \in Tasks : \A lines : PointsRight(t, lines) => PointsRight(t, lines)'
         /\ \A t \in Tasks : \A lines : IntervalsRight(t, lines) => IntervalsRight(t, lines)'
         /\ \A n, lines : RowsRight(lines, n) => RowsRight(lines, n)'
         /\ \A lines : GraphRight(lines) => GraphRight(lines)'
<1>1. plan' = plan  BY PlanStays
<1>2. ASSUME NEW d, NEW best, AllRight(d, best) PROVE AllRight(d, best)'
  <2> SUFFICES ASSUME NEW t \in Tasks PROVE Right(t, Cell(t, d), best[t])'  BY DEF AllRight
  <2>1. Cell(t, d)' = Cell(t, d)  BY <1>1 DEF Cell, IsInterval
  <2>2. Right(t, Cell(t, d), best[t])  BY <1>2 DEF AllRight
  <2>3. PICK key, b : key = Cell(t, d) /\ b = best[t]  OBVIOUS
  <2>4. Right(t, key, b)'  BY <2>2, <2>3, RightStays
  <2> QED  BY <2>1, <2>3, <2>4
<1>3. ASSUME NEW t \in Tasks, NEW lines, PointsRight(t, lines) PROVE PointsRight(t, lines)'
  BY <1>3, RightStays DEF PointsRight
<1>4. ASSUME NEW t \in Tasks, NEW lines, IntervalsRight(t, lines) PROVE IntervalsRight(t, lines)'
  BY <1>4, MeasuredStays DEF IntervalsRight, Measured
<1>5. ASSUME NEW n, NEW lines, RowsRight(lines, n) PROVE RowsRight(lines, n)'
  BY <1>2, <1>5 DEF RowsRight
<1>6. ASSUME NEW lines, GraphRight(lines) PROVE GraphRight(lines)'
  BY <1>1, <1>2, <1>5, <1>6 DEF GraphRight, IsInterval
<1> QED  BY <1>2, <1>3, <1>4, <1>5, <1>6

LEMMA DataOthers ==
  ASSUME IInv, Control, Data, NEW p \in Processes, Step(p) \/ Kill(p),
         NEW q \in Processes, Same(q)
  PROVE  (TasksRight(q) /\ GraphsRight(q) /\ PicksRight(q) /\ LaunchesRight(q))'
<1>0. /\ plan' = plan /\ cur[q] \in Tables /\ \A f \in Tables : f \in Tasks \/ f = Graph
      /\ TasksRight(q) /\ GraphsRight(q) /\ PicksRight(q) /\ LaunchesRight(q) /\ FilesRight
  BY PlanStays, TaskFacts DEF IInv, Typed, Data
<1>1. \A f : IsInterval(f)' <=> IsInterval(f)  BY <1>0 DEF IsInterval
<1>2. pc'[q] = pc[q] /\ cur'[q] = cur[q] /\ table'[q] = table[q]  BY DEF Same
<1>3. TasksRight(q)'
  <2>1. ASSUME NEW t \in Tasks, Loaded(q, t)', IsInterval(t)
        PROVE  file'[t].header /\ table'[q][t] = file'[t].lines
    <3>1. file[t].header /\ table[q][t] = file[t].lines
      BY <1>0, <1>2, <2>1 DEF TasksRight, Loaded
    <3> QED  BY <1>2, <2>1, <3>1, IntervalFilesStay
  <2>2. ASSUME NEW t \in Tasks, Loaded(q, t)', ~ IsInterval(t)
        PROVE  PointsRight(t, table[q][t])'
    <3>1. PointsRight(t, table[q][t])  BY <1>0, <1>2, <2>2 DEF TasksRight, Loaded
    <3>2. PICK lines : lines = table[q][t]  OBVIOUS
    <3>3. PointsRight(t, lines)'  BY <3>1, <3>2, LinesStay
    <3> QED  BY <1>2, <3>2, <3>3 DEF PointsRight
  <2>3. ASSUME pc'[q] \in {"save", "saving"}, cur'[q] # Graph
        PROVE  IntervalsRight(cur[q], table[q][cur[q]])'
    <3>1. IntervalsRight(cur[q], table[q][cur[q]]) /\ cur[q] \in Tasks
      BY <1>0, <1>2, <2>3 DEF TasksRight
    <3>2. PICK t, lines : t \in Tasks /\ t = cur[q] /\ lines = table[q][t]  BY <3>1
    <3>3. IntervalsRight(t, lines)'  BY <3>1, <3>2, LinesStay
    <3> QED  BY <1>2, <3>2, <3>3 DEF IntervalsRight
  <2> QED  BY <1>1, <2>1, <2>2, <2>3 DEF TasksRight
<1>4. GraphsRight(q)'
  <2>1. PICK lines, n : lines = table[q][Graph] /\ n = Low(part[q]) - 1  OBVIOUS
  <2>2. table'[q][Graph] = lines /\ Low(part'[q]) - 1 = n  BY <1>2, <2>1 DEF Same
  <2>3. /\ GraphRight(lines) => GraphRight(lines)'
        /\ RowsRight(lines, n) => RowsRight(lines, n)'
    BY LinesStay
  <2> QED  BY <1>0, <1>1, <1>2, <2>1, <2>2, <2>3 DEF GraphsRight
<1>5. PicksRight(q)'
  <2>1. Dim(q)' = Dim(q) /\ choice'[q] = choice[q]  BY DEF Dim, Same
  <2>2. PICK d, best : d = Dim(q) /\ best = choice[q]  OBVIOUS
  <2>3. ASSUME NEW t \in Tasks, Right(t, Cell(t, d), best[t]) PROVE Right(t, Cell(t, d), best[t])'
    <3>1. Cell(t, d)' = Cell(t, d)  BY <1>1 DEF Cell, Key
    <3>2. PICK key, b : key = Cell(t, d) /\ b = best[t]  OBVIOUS
    <3>3. Right(t, key, b)'  BY <2>3, <3>2, RightStays
    <3> QED  BY <3>1, <3>2, <3>3
  <2>4. ASSUME pc'[q] \in Picking
        PROVE  \A t \in Tasks : cur'[q] = Graph \/ t < cur'[q] => Right(t, Cell(t, Dim(q)), choice[q][t])'
    <3> SUFFICES ASSUME NEW t \in Tasks, cur'[q] = Graph \/ t < cur'[q]
                 PROVE  Right(t, Cell(t, Dim(q)), choice[q][t])'
      OBVIOUS
    <3>1. Right(t, Cell(t, d), best[t])  BY <1>0, <1>2, <2>2, <2>4 DEF PicksRight
    <3>2. Right(t, Cell(t, d), best[t])'  BY <2>3, <3>1
    <3>3. Cell(t, Dim(q))' = Cell(t, d)'  BY <2>1, <2>2 DEF Cell, IsInterval, Key
    <3> QED  BY <2>1, <2>2, <3>2, <3>3
  <2>5. ASSUME pc'[q] \in {"append", "header", "appending"}
        PROVE  /\ table'[q][cur'[q]] # <<>>
               /\ cur'[q] # Graph => Last(table'[q][cur'[q]]).key = Key(cur'[q], Dim(q)')
    BY <1>0, <1>2, <2>1, <2>5 DEF PicksRight
  <2> QED  BY <2>4, <2>5 DEF PicksRight
<1>6. LaunchesRight(q)'
  <2> SUFFICES ASSUME NEW k \in launched'[q]
               PROVE  k.task \in Tasks /\ Right(k.task, Cell(k.task, k.dim), k.best)' /\ k.symbol = k.dim
    BY DEF LaunchesRight
  <2>1. k.task \in Tasks /\ Right(k.task, Cell(k.task, k.dim), k.best) /\ k.symbol = k.dim
    BY <1>0 DEF LaunchesRight, Same
  <2>2. PICK t, key, b : t \in Tasks /\ t = k.task /\ key = Cell(t, k.dim) /\ b = k.best  BY <2>1
  <2>3. Right(t, key, b)'  BY <2>1, <2>2, RightStays
  <2>4. Cell(t, k.dim)' = Cell(t, k.dim)  BY <1>1 DEF Cell, Key
  <2> QED  BY <2>1, <2>2, <2>3, <2>4
<1> QED  BY <1>3, <1>4, <1>5, <1>6

-----------------------------------------------------------------------------
(* Every step keeps the contents right.                                     *)

FileRight(f) == IF f = Graph THEN ~ IsInterval(Graph) \/ file[Graph].header => GraphRight(file[Graph].lines)
                ELSE IF IsInterval(f) THEN file[f].header => IntervalsRight(f, file[f].lines)
                ELSE PointsRight(f, file[f].lines)

LEMMA FilesStep ==
  ASSUME IInv, Control, Data, NEW p \in Processes, Step(p) \/ Kill(p)
  PROVE  FilesRight'
<1>0. /\ plan' = plan /\ cur[p] \in Tables /\ (\A f \in Tables : f \in Tasks \/ f = Graph) /\ Phase(p)
      /\ TasksRight(p) /\ GraphsRight(p) /\ PicksRight(p) /\ FilesRight
      /\ file = [f \in Tables |-> file[f]] /\ \A f \in Tables : IsFile(file[f])
  BY PlanStays, TaskFacts DEF IInv, Typed, Data, Control
<1>1. \A f : IsInterval(f)' <=> IsInterval(f)  BY <1>0 DEF IsInterval
<1> DEFINE Right2(f, h, lines) ==
             IF f = Graph THEN ~ IsInterval(Graph) \/ h => GraphRight(lines)
             ELSE IF IsInterval(f) THEN h => IntervalsRight(f, lines) ELSE PointsRight(f, lines)
\* A file is right whose content was right before the step.
<1>2. ASSUME NEW f \in Tables, NEW h, NEW lines, Right2(f, h, lines),
             file'[f].header = h, file'[f].lines = lines
      PROVE  FileRight(f)'
  <2>1. CASE f = Graph
    <3>1. GraphRight(lines) => GraphRight(lines)'  BY LinesStay
    <3> QED  BY <1>1, <1>2, <2>1, <3>1 DEF FileRight
  <2>2. CASE f # Graph
    <3>1. f \in Tasks  BY <1>0, <2>2
    <3>2. /\ IntervalsRight(f, lines) => IntervalsRight(f, lines)'
          /\ PointsRight(f, lines) => PointsRight(f, lines)'
      BY <3>1, LinesStay
    <3> QED  BY <1>1, <1>2, <2>2, <3>2 DEF FileRight
  <2> QED  BY <2>1, <2>2
<1>3. \A f \in Tables : Right2(f, file[f].header, file[f].lines)
  BY <1>0 DEF FilesRight
<1>4. \A f \in Tables : file'[f] = file[f] => FileRight(f)'
  <2> SUFFICES ASSUME NEW f \in Tables, file'[f] = file[f] PROVE FileRight(f)'  OBVIOUS
  <2>1. PICK h, lines : h = file[f].header /\ lines = file[f].lines  OBVIOUS
  <2>2. Right2(f, h, lines)  BY <1>3, <2>1
  <2> HIDE DEF Right2
  <2> QED  BY <1>2, <2>1, <2>2
<1>5. ASSUME NEW h, NEW lines, Right2(cur[p], h, lines), file'[cur[p]].header = h, file'[cur[p]].lines = lines
      PROVE  FilesRight'
  <2> HIDE DEF Right2
  <2>1. \A f \in Tables : FileRight(f)'
    <3> TAKE f \in Tables
    <3>1. CASE f # cur[p]  BY <1>4, <3>1, FileChanges
    <3>2. CASE f = cur[p]  BY <1>2, <1>5, <3>2
    <3> QED  BY <3>1, <3>2
  <2> QED  BY <1>1, <2>1, TaskFacts DEF FilesRight, FileRight
<1>6. CASE pc[p] \notin {"save", "saving", "append", "header", "appending"} \/ file' = file
  <2>1. file' = file  BY <1>6, FileChanges
  <2>2. \A f \in Tables : FileRight(f)'  BY <1>4, <2>1
  <2> QED  BY <1>1, <2>2, TaskFacts DEF FilesRight, FileRight
\* An empty file: of an interval table it has no first part, of points no lines.
<1>7. ASSUME file'[cur[p]] = EmptyFile PROVE FilesRight'
  <2>1. PointsRight(cur[p], <<>>)  BY EmptySeq DEF PointsRight
  <2>2. ~ IsInterval(Graph) => GraphRight(<<>>)  BY EmptySeq DEF GraphRight
  <2>3. Right2(cur[p], FALSE, <<>>)  BY <2>1, <2>2
  <2>4. file'[cur[p]].header = FALSE /\ file'[cur[p]].lines = <<>>  BY <1>7 DEF EmptyFile
  <2> HIDE DEF Right2
  <2> QED  BY <1>5, <2>3, <2>4
<1>8. CASE Save(p) \/ MakeFile(p)
  BY <1>0, <1>7, <1>8 DEF Save, MakeFile
<1>9. CASE Header(p)
  <2>1. PICK x : x = file[cur[p]] /\ IsFile(x) /\ file'[cur[p]] = [x EXCEPT !.header = TRUE]
    BY <1>0, <1>9 DEF Header
  <2>2. file'[cur[p]].header = TRUE /\ file'[cur[p]].lines = file[cur[p]].lines
    BY <2>1, RecordUpdates
  <2>3. ~ IsInterval(cur[p])  BY <1>0, <1>9 DEF Header, At, Phase
  <2>4. Right2(cur[p], TRUE, file[cur[p]].lines)  BY <1>0, <1>3, <2>3
  <2> HIDE DEF Right2
  <2> QED  BY <1>5, <2>2, <2>4
<1>10. CASE Saved(p)
  <2>1. pc[p] = "saving" /\ file'[cur[p]] = [made |-> TRUE, header |-> TRUE, lines |-> table[p][cur[p]]]
    BY <1>0, <1>10 DEF Saved, At
  <2>2. IsInterval(cur[p])  BY <1>0, <2>1 DEF Phase
  <2>3. Right2(cur[p], TRUE, table[p][cur[p]])
    BY <1>0, <2>1, <2>2 DEF TasksRight, GraphsRight
  <2>4. file'[cur[p]].header = TRUE /\ file'[cur[p]].lines = table[p][cur[p]]  BY <2>1
  <2> HIDE DEF Right2
  <2> QED  BY <1>5, <2>3, <2>4
\* The line that is added is the last of the table in memory.
<1>11. ASSUME NEW line, file' = WithLine(cur[p], line), pc[p] = "appending",
              IF cur[p] = Graph THEN AllRight(line.key, line.best) ELSE Right(cur[p], line.key, line.best)
       PROVE  FilesRight'
  <2> DEFINE lines == file[cur[p]].lines
  <2>1. PICK x : x = file[cur[p]] /\ IsFile(x) /\ file'[cur[p]] = [x EXCEPT !.lines = Append(lines, line)]
    BY <1>0, <1>11 DEF WithLine, Appended
  <2>2. file'[cur[p]].header = file[cur[p]].header /\ file'[cur[p]].lines = Append(lines, line)
    BY <2>1, RecordUpdates
  <2>3. ~ IsInterval(cur[p])  BY <1>0, <1>11 DEF Phase
  <2>4. CASE cur[p] = Graph
    <3>1. GraphRight(lines)  BY <1>0, <2>3, <2>4 DEF FilesRight
    <3>2. IsSeq(lines) /\ \A i \in DOMAIN lines : AllRight(lines[i].key, lines[i].best)
      BY <2>3, <2>4, <3>1 DEF GraphRight
    <3> HIDE DEF lines
    <3>3. GraphRight(Append(lines, line))
      <4>1. DOMAIN lines = 1 .. Len(lines) /\ Len(lines) \in Nat  BY <3>2, SeqFacts
      <4>2. /\ IsSeq(Append(lines, line)) /\ DOMAIN Append(lines, line) = 1 .. Len(lines) + 1
            /\ \A i \in 1 .. Len(lines) : Append(lines, line)[i] = lines[i]
            /\ Append(lines, line)[Len(lines) + 1] = line
        BY <3>2, AppendFacts
      <4> QED  BY <1>11, <2>3, <2>4, <3>2, <4>1, <4>2 DEF GraphRight
    <3>4. Right2(cur[p], file[cur[p]].header, Append(lines, line))  BY <2>4, <3>3
    <3> HIDE DEF Right2
    <3> QED  BY <1>5, <2>2, <3>4
  <2>5. CASE cur[p] # Graph
    <3>1. PointsRight(cur[p], lines)  BY <1>0, <2>3, <2>5 DEF FilesRight
    <3>2. IsSeq(lines) /\ \A i \in DOMAIN lines : Right(cur[p], lines[i].key, lines[i].best)
      BY <3>1 DEF PointsRight
    <3> HIDE DEF lines
    <3>3. PointsRight(cur[p], Append(lines, line))
      <4>1. DOMAIN lines = 1 .. Len(lines) /\ Len(lines) \in Nat  BY <3>2, SeqFacts
      <4>2. /\ IsSeq(Append(lines, line)) /\ DOMAIN Append(lines, line) = 1 .. Len(lines) + 1
            /\ \A i \in 1 .. Len(lines) : Append(lines, line)[i] = lines[i]
            /\ Append(lines, line)[Len(lines) + 1] = line
        BY <3>2, AppendFacts
      <4> QED  BY <1>11, <2>5, <3>2, <4>1, <4>2 DEF PointsRight
    <3>4. Right2(cur[p], file[cur[p]].header, Append(lines, line))  BY <2>3, <2>5, <3>3
    <3> HIDE DEF Right2
    <3> QED  BY <1>5, <2>2, <3>4
  <2> QED  BY <2>4, <2>5
<1>12. CASE AppendTask(p)
  <2>1. pc[p] = "appending" /\ cur[p] # Graph /\ file' = WithLine(cur[p], Last(table[p][cur[p]]))
    BY <1>12 DEF AppendTask, At
  <2>2. table[p][cur[p]] # <<>>  BY <1>0, <2>1 DEF PicksRight
  <2>3. PointsRight(cur[p], table[p][cur[p]])
    <3>1. ~ IsInterval(cur[p])  BY <1>0, <2>1 DEF Phase
    <3>2. Loaded(p, cur[p]) /\ cur[p] \in Tasks  BY <1>0, <2>1 DEF Loaded, Ending, Loading
    <3> QED  BY <1>0, <3>1, <3>2 DEF TasksRight
  <2>4. Right(cur[p], Last(table[p][cur[p]]).key, Last(table[p][cur[p]]).best)
    BY <2>2, <2>3, SeqFacts DEF PointsRight, Last
  <2> QED  BY <1>11, <2>1, <2>4
<1>13. CASE AppendGraph(p)
  <2>1. pc[p] = "appending" /\ cur[p] = Graph
        /\ (file' = file \/ file' = WithLine(cur[p], Last(table[p][cur[p]])))
    BY <1>13 DEF AppendGraph, At
  <2>2. table[p][cur[p]] # <<>>  BY <1>0, <2>1 DEF PicksRight
  <2>3. ~ IsInterval(Graph)  BY <1>0, <2>1 DEF Phase
  <2>4. GraphRight(table[p][Graph])  BY <1>0, <2>1, <2>3 DEF GraphsRight, Picking
  <2>5. AllRight(Last(table[p][cur[p]]).key, Last(table[p][cur[p]]).best)
    BY <2>1, <2>2, <2>3, <2>4, SeqFacts DEF GraphRight, Last
  <2> QED  BY <1>6, <1>11, <2>1, <2>5
<1>14. CASE OpenFile(p)  BY <1>6, <1>14 DEF OpenFile
<1>15. CASE ~ (Save(p) \/ MakeFile(p) \/ OpenFile(p) \/ Header(p) \/ Saved(p) \/ AppendTask(p) \/ AppendGraph(p))
  <2>1. Quietly(p) \/ Stops(p)
    BY <1>15, QuietSteps, StoppingSteps DEF Step, IInv
  <2>2. file' = file  BY <2>1 DEF Quietly, Stops
  <2> QED  BY <1>6, <2>2
<1> QED  BY <1>8, <1>9, <1>10, <1>12, <1>13, <1>14, <1>15

TaskRight(p, t) == IF IsInterval(t) THEN file[t].header /\ table[p][t] = file[t].lines
                   ELSE PointsRight(t, table[p][t])

\* What a process has in memory of its tasks is kept, or is right anew.
LEMMA TasksFrom ==
  ASSUME IInv, Control, Data, NEW p \in Processes, Step(p) \/ Kill(p),
         \A t \in Tasks : Loaded(p, t)' =>
           (Loaded(p, t) /\ table'[p][t] = table[p][t]) \/ TaskRight(p, t)',
         \/ pc'[p] \notin {"save", "saving"} \/ cur'[p] = Graph
         \/ /\ pc[p] \in {"save", "saving"} /\ cur[p] # Graph /\ cur'[p] = cur[p]
            /\ table'[p][cur[p]] = table[p][cur[p]]
         \/ IntervalsRight(cur[p], table[p][cur[p]])'
  PROVE  TasksRight(p)'
<1>0. /\ plan' = plan /\ cur[p] \in Tables /\ (\A f \in Tables : f \in Tasks \/ f = Graph)
      /\ TasksRight(p)
  BY PlanStays, TaskFacts DEF IInv, Typed, Data
<1>1. \A f : IsInterval(f)' <=> IsInterval(f)  BY <1>0 DEF IsInterval
<1>2. ASSUME NEW t \in Tasks, Loaded(p, t)' PROVE TaskRight(p, t)'
  <2>1. CASE TaskRight(p, t)'  BY <2>1
  <2>2. CASE Loaded(p, t) /\ table'[p][t] = table[p][t]
    <3>1. CASE IsInterval(t)
      <4>1. file[t].header /\ table[p][t] = file[t].lines  BY <1>0, <2>2, <3>1 DEF TasksRight
      <4>2. file'[t] = file[t]  BY <3>1, <4>1, IntervalFilesStay
      <4> QED  BY <1>1, <2>2, <3>1, <4>1, <4>2 DEF TaskRight
    <3>2. CASE ~ IsInterval(t)
      <4>1. PointsRight(t, table[p][t])  BY <1>0, <2>2, <3>2 DEF TasksRight
      <4>2. PICK lines : lines = table[p][t]  OBVIOUS
      <4>3. PointsRight(t, lines)'  BY <4>1, <4>2, LinesStay
      <4>4. PointsRight(t, table[p][t])'  BY <2>2, <4>2, <4>3 DEF PointsRight
      <4> QED  BY <1>1, <3>2, <4>4 DEF TaskRight
    <3> QED  BY <3>1, <3>2
  <2> QED  BY <1>2, <2>1, <2>2
<1>3. ASSUME pc'[p] \in {"save", "saving"}, cur'[p] # Graph
      PROVE  IntervalsRight(cur[p], table[p][cur[p]])'
  <2>1. CASE IntervalsRight(cur[p], table[p][cur[p]])'  BY <2>1
  <2>2. CASE /\ pc[p] \in {"save", "saving"} /\ cur[p] # Graph /\ cur'[p] = cur[p]
             /\ table'[p][cur[p]] = table[p][cur[p]]
    <3>1. IntervalsRight(cur[p], table[p][cur[p]]) /\ cur[p] \in Tasks
      BY <1>0, <2>2 DEF TasksRight
    <3>2. PICK t, lines : t \in Tasks /\ t = cur[p] /\ lines = table[p][t]  BY <3>1
    <3>3. IntervalsRight(t, lines)'  BY <3>1, <3>2, LinesStay
    <3>4. cur'[p] = t /\ table'[p][t] = lines  BY <2>2, <3>2
    <3> QED  BY <3>3, <3>4 DEF IntervalsRight
  <2> QED  BY <1>3, <2>1, <2>2
<1> QED  BY <1>2, <1>3 DEF TasksRight, TaskRight

\* The graph's table is kept, or is right anew.
LEMMA GraphsFrom ==
  ASSUME IInv, Control, Data, NEW p \in Processes, Step(p) \/ Kill(p),
         \/ pc'[p] \notin {"fill", "idle", "running", "save", "saving"} \cup Picking
         \/ pc'[p] \in {"save", "saving"} /\ cur'[p] # Graph
         \/ pc'[p] = "fill" /\ table'[p][Graph] = <<>>
         \/ pc'[p] = "idle" /\ table'[p][Graph] = Nobody
         \/ /\ pc'[p] \in {"idle", "running", "save", "saving"}
            /\ \E lines : GraphRight(lines) /\ table'[p][Graph] = lines
         \/ /\ pc'[p] \in Picking
            /\ \E lines : /\ table'[p][Graph] = lines
                          /\ IF IsInterval(Graph) THEN RowsRight(lines, Low(part'[p]) - 1)
                             ELSE GraphRight(lines)
  PROVE  GraphsRight(p)'
<1>0. plan' = plan  BY PlanStays
<1>1. \A f : IsInterval(f)' <=> IsInterval(f)  BY <1>0 DEF IsInterval
<1>2. CASE \/ pc'[p] \notin {"fill", "idle", "running", "save", "saving"} \cup Picking
           \/ pc'[p] \in {"save", "saving"} /\ cur'[p] # Graph
           \/ pc'[p] = "fill" /\ table'[p][Graph] = <<>>
           \/ pc'[p] = "idle" /\ table'[p][Graph] = Nobody
  BY <1>2 DEF GraphsRight, Picking
<1>3. CASE /\ pc'[p] \in {"idle", "running", "save", "saving"}
           /\ \E lines : GraphRight(lines) /\ table'[p][Graph] = lines
  <2>1. PICK lines : GraphRight(lines) /\ table'[p][Graph] = lines  BY <1>3
  <2>2. GraphRight(lines)'  BY <2>1, LinesStay
  <2>3. GraphRight(table[p][Graph])'  BY <2>1, <2>2
  <2> QED  BY <1>3, <2>3 DEF GraphsRight, Picking
<1>4. CASE /\ pc'[p] \in Picking
           /\ \E lines : /\ table'[p][Graph] = lines
                         /\ IF IsInterval(Graph) THEN RowsRight(lines, Low(part'[p]) - 1)
                            ELSE GraphRight(lines)
  <2>1. PICK lines : /\ table'[p][Graph] = lines
                     /\ IF IsInterval(Graph) THEN RowsRight(lines, Low(part'[p]) - 1)
                        ELSE GraphRight(lines)
    BY <1>4
  <2>2. PICK n : n = Low(part'[p]) - 1  OBVIOUS
  <2>3. /\ RowsRight(lines, n) => RowsRight(lines, n)'
        /\ GraphRight(lines) => GraphRight(lines)'
    BY LinesStay
  <2>4. CASE IsInterval(Graph)
    <3>1. RowsRight(lines, n)'  BY <2>1, <2>2, <2>3, <2>4
    <3>2. RowsRight(table[p][Graph], Low(part[p]) - 1)'  BY <2>1, <2>2, <3>1
    <3> QED  BY <1>1, <1>4, <2>4, <3>2 DEF GraphsRight, Picking
  <2>5. CASE ~ IsInterval(Graph)
    <3>1. GraphRight(table[p][Graph])'  BY <2>1, <2>3, <2>5
    <3> QED  BY <1>1, <1>4, <2>5, <3>1 DEF GraphsRight, Picking
  <2> QED  BY <2>4, <2>5
<1> QED  BY <1>2, <1>3, <1>4

\* What was picked is kept, or is right anew.
LEMMA PicksFrom ==
  ASSUME IInv, Control, Data, NEW p \in Processes, Step(p) \/ Kill(p),
         pc'[p] \in Picking =>
           \/ cur'[p] = 1
           \/ /\ Dim(p)' = Dim(p)
              /\ \A t \in Tasks : cur'[p] = Graph \/ t < cur'[p] =>
                   \E best : Right(t, Cell(t, Dim(p)), best) /\ choice'[p][t] = best,
         pc'[p] \in {"append", "header", "appending"} =>
           /\ table'[p][cur'[p]] # <<>>
           /\ cur'[p] # Graph => Last(table'[p][cur'[p]]).key = Key(cur'[p], Dim(p)')
  PROVE  PicksRight(p)'
<1>0. plan' = plan /\ 1 # Graph /\ \A t \in Tasks : t \in Nat \ {0}  BY PlanStays, TaskFacts DEF Graph
<1>1. \A f : IsInterval(f)' <=> IsInterval(f)  BY <1>0 DEF IsInterval
<1>2. ASSUME NEW t \in Tasks, pc'[p] \in Picking, cur'[p] = Graph \/ t < cur'[p]
      PROVE  Right(t, Cell(t, Dim(p)), choice[p][t])'
  <2>1. cur'[p] # 1  BY <1>0, <1>2 DEF Graph
  <2>2. PICK key, best : Right(t, key, best) /\ key = Cell(t, Dim(p)) /\ choice'[p][t] = best
    BY <1>2, <2>1
  <2>3. Right(t, key, best)'  BY <2>2, RightStays
  <2>4. Dim(p)' = Dim(p)  BY <1>2, <2>1
  <2>5. Cell(t, Dim(p))' = Cell(t, Dim(p))  BY <1>1, <2>4 DEF Cell, Key
  <2> QED  BY <2>2, <2>3, <2>5
<1> QED  BY <1>2 DEF PicksRight

\* What was launched is kept, or is right anew.
LEMMA LaunchesFrom ==
  ASSUME IInv, Control, Data, NEW p \in Processes, Step(p) \/ Kill(p),
         \/ launched'[p] = launched[p]
         \/ \A k \in launched'[p] :
              k.task \in Tasks /\ Right(k.task, Cell(k.task, k.dim), k.best) /\ k.symbol = k.dim
  PROVE  LaunchesRight(p)'
<1>0. plan' = plan /\ LaunchesRight(p)  BY PlanStays DEF Data
<1>1. \A f : IsInterval(f)' <=> IsInterval(f)  BY <1>0 DEF IsInterval
<1> SUFFICES ASSUME NEW k \in launched'[p]
             PROVE  k.task \in Tasks /\ Right(k.task, Cell(k.task, k.dim), k.best)' /\ k.symbol = k.dim
  BY DEF LaunchesRight
<1>2. k.task \in Tasks /\ Right(k.task, Cell(k.task, k.dim), k.best) /\ k.symbol = k.dim
  BY <1>0 DEF LaunchesRight
<1>3. PICK t, key, b : t \in Tasks /\ t = k.task /\ key = Cell(t, k.dim) /\ b = k.best  BY <1>2
<1>4. Right(t, key, b)'  BY <1>2, <1>3, RightStays
<1>5. Cell(t, k.dim)' = Cell(t, k.dim)  BY <1>1 DEF Cell, Key
<1> QED  BY <1>2, <1>3, <1>4, <1>5

LEMMA KeysFacts ==
  /\ Keys(<<>>) = {}
  /\ \A s, x : IsSeq(s) => Keys(Append(s, x)) = Keys(s) \cup {x.key}
  /\ \A s : IsSeq(s) /\ s # <<>> => Last(s).key \in Keys(s)
<1>1. Keys(<<>>) = {}  BY DEF Keys
<1>2. ASSUME NEW s, NEW x, IsSeq(s) PROVE Keys(Append(s, x)) = Keys(s) \cup {x.key}
  <2>1. PICK a : a = Append(s, x)  OBVIOUS
  <2>2. /\ DOMAIN a = 1 .. Len(s) + 1 /\ Len(s) \in Nat /\ DOMAIN s = 1 .. Len(s)
        /\ (\A i \in 1 .. Len(s) : a[i] = s[i]) /\ a[Len(s) + 1] = x
    BY <1>2, <2>1, AppendFacts, SeqFacts
  <2>3. Keys(a) \subseteq Keys(s) \cup {x.key}
    <3> SUFFICES ASSUME NEW i \in DOMAIN a PROVE a[i].key \in Keys(s) \cup {x.key}  BY DEF Keys
    <3>1. CASE i = Len(s) + 1  BY <2>2, <3>1
    <3>2. CASE i # Len(s) + 1
      <4>1. i \in 1 .. Len(s)  BY <2>2, <3>2
      <4> QED  BY <2>2, <4>1 DEF Keys
    <3> QED  BY <3>1, <3>2
  <2>4. \A i \in DOMAIN s : s[i].key \in Keys(a)
    <3> TAKE i \in DOMAIN s
    <3>1. i \in DOMAIN a /\ a[i] = s[i]  BY <2>2
    <3> QED  BY <3>1 DEF Keys
  <2>5. x.key \in Keys(a)
    <3>1. Len(s) + 1 \in DOMAIN a  BY <2>2
    <3> QED  BY <2>2, <3>1 DEF Keys
  <2>6. Keys(s) \subseteq Keys(a)  BY <2>4 DEF Keys
  <2> QED  BY <2>1, <2>3, <2>5, <2>6
<1>3. ASSUME NEW s, IsSeq(s), s # <<>> PROVE Last(s).key \in Keys(s)
  <2>1. Len(s) \in DOMAIN s  BY <1>3, SeqFacts
  <2> QED  BY <2>1 DEF Last, Keys
<1> QED  BY <1>1, <1>2, <1>3

\* The value of the symbol is the dimension of the inputs.
LEMMA SymbolIsDim ==
  ASSUME NEW p \in Processes, Phase(p), pc[p] \in Picking
  PROVE  /\ symbol[p] = Dim(p) /\ Dim(p) \in Nat \ {0}
         /\ job[p] = "slow" => Dim(p) = Head(todo[p]) /\ ~ IsInterval(Graph)
         /\ job[p] = "populate" => IsInterval(Graph) /\ Dim(p) = High(part[p]) /\ part[p] \in Parts
<1>1. CASE IsInterval(Graph)
  <2>1. job[p] = "populate" /\ part[p] \in Parts /\ symbol[p] = High(part[p])  BY <1>1 DEF Phase
  <2>2. High(part[p]) \in Nat \ {0}  BY <2>1, PartFacts
  <2> QED  BY <1>1, <2>1, <2>2 DEF Dim
<1>2. CASE ~ IsInterval(Graph)
  <2>1. job[p] = "slow" /\ p \in calling  BY <1>2 DEF Phase
  <2>2. symbol[p] = Head(todo[p]) /\ Head(todo[p]) \in Nat \ {0}  BY <2>1 DEF Phase
  <2> QED  BY <1>2, <2>1, <2>2 DEF Dim
<1> QED  BY <1>1, <1>2

\* The candidate that is picked for a task was measured for it there.
LEMMA ChosenRight ==
  ASSUME IInv, Control, Data, NEW p \in Processes, PickKnown(p) \/ AppendTask(p)
  PROVE  cur[p] \in Tasks /\ \E c : AfterPick(p, cur[p], c) /\ Right(cur[p], Cell(cur[p], Dim(p)), c)
<1>0. /\ Phase(p) /\ cur[p] \in Tables /\ (\A f \in Tables : f \in Tasks \/ f = Graph)
      /\ TasksRight(p) /\ PicksRight(p) /\ FilesRight
  BY TaskFacts DEF IInv, Typed, Data, Control
<1>1. pc[p] \in Picking /\ cur[p] # Graph
  BY <1>0 DEF PickKnown, AppendTask, At, Picking, Phase
<1>2. cur[p] \in Tasks /\ Loaded(p, cur[p])  BY <1>0, <1>1 DEF Loaded, Picking, Loading, Ending
<1>3. symbol[p] = Dim(p) /\ Dim(p) \in Nat \ {0}  BY <1>0, <1>1, SymbolIsDim
<1>4. CASE PickKnown(p) /\ IsInterval(cur[p])
  <2>1. AfterPick(p, cur[p], IntervalPick(table[p][cur[p]], Dim(p)))
    BY <1>1, <1>4 DEF PickKnown, Pick, PickKey
  <2>2. /\ file[cur[p]].header /\ table[p][cur[p]] = file[cur[p]].lines
        /\ IntervalsRight(cur[p], file[cur[p]].lines)
    BY <1>0, <1>2, <1>4 DEF TasksRight, FilesRight
  <2>3. PICK i \in Parts : /\ High(i) = Cell(cur[p], Dim(p))
                           /\ IntervalPick(table[p][cur[p]], Dim(p)) = file[cur[p]].lines[i].best
    BY <1>3, <1>4, <2>2, IntervalPickFacts
  <2>4. Measured(cur[p], High(i), file[cur[p]].lines[i].best)  BY <2>2 DEF IntervalsRight
  <2>5. Right(cur[p], Cell(cur[p], Dim(p)), file[cur[p]].lines[i].best)
    BY <2>2, <2>3, <2>4 DEF Right
  <2> QED  BY <1>2, <2>1, <2>3, <2>5
<1>5. CASE PickKnown(p) /\ ~ IsInterval(cur[p])
  <2>1. /\ AfterPick(p, cur[p], PointPick(table[p][cur[p]], Key(cur[p], Dim(p))))
        /\ Key(cur[p], Dim(p)) \in Keys(table[p][cur[p]])
    BY <1>3, <1>5 DEF PickKnown, Pick, PickKey, Known, Contains
  <2>2. PointsRight(cur[p], table[p][cur[p]])  BY <1>0, <1>2, <1>5 DEF TasksRight
  <2>3. IsSeq(table[p][cur[p]])  BY <2>2 DEF PointsRight
  <2>4. PICK i \in DOMAIN table[p][cur[p]] :
          /\ table[p][cur[p]][i].key = Key(cur[p], Dim(p))
          /\ PointPick(table[p][cur[p]], Key(cur[p], Dim(p))) = table[p][cur[p]][i].best
    BY <2>1, <2>3, PointPickFacts
  <2>5. Right(cur[p], Key(cur[p], Dim(p)), table[p][cur[p]][i].best)
    BY <2>2, <2>4 DEF PointsRight
  <2>6. Cell(cur[p], Dim(p)) = Key(cur[p], Dim(p))  BY <1>5 DEF Cell
  <2> QED  BY <1>2, <2>1, <2>4, <2>5, <2>6
<1>6. CASE AppendTask(p)
  <2>1. /\ pc[p] = "appending" /\ AfterPick(p, cur[p], Last(table[p][cur[p]]).best)
    BY <1>6 DEF AppendTask, At
  <2>2. /\ table[p][cur[p]] # <<>> /\ Last(table[p][cur[p]]).key = Key(cur[p], Dim(p))
    BY <1>0, <1>1, <2>1 DEF PicksRight
  <2>3. ~ IsInterval(cur[p])  BY <1>0, <2>1 DEF Phase
  <2>4. PointsRight(cur[p], table[p][cur[p]])  BY <1>0, <1>2, <2>3 DEF TasksRight
  <2>5. Right(cur[p], Last(table[p][cur[p]]).key, Last(table[p][cur[p]]).best)
    BY <2>2, <2>4, SeqFacts DEF PointsRight, Last
  <2>6. Cell(cur[p], Dim(p)) = Key(cur[p], Dim(p))  BY <2>3 DEF Cell
  <2> QED  BY <1>2, <2>1, <2>2, <2>5, <2>6
<1> QED  BY <1>4, <1>5, <1>6

\* So are those of the graph's table.
LEMMA FastRight ==
  ASSUME IInv, Control, Data, NEW p \in Processes, FastPath(p)
  PROVE  /\ Head(todo[p]) \in Nat \ {0} /\ symbol[p] = Head(todo[p])
         /\ AllRight(Head(todo[p]), Pick(Graph, table[p][Graph], Head(todo[p])))
<1>0. /\ Phase(p) /\ GraphsRight(p) /\ pc[p] = "running" /\ Typed
      /\ Contains(Graph, table[p][Graph], Head(todo[p]))
  BY DEF IInv, Data, Control, FastPath, At
<1>1. p \in calling /\ Head(todo[p]) \in Nat \ {0}  BY <1>0, InCall
<1>2. symbol[p] = Head(todo[p])  BY <1>0, <1>1 DEF Phase
<1>3. GraphRight(table[p][Graph])  BY <1>0 DEF GraphsRight
<1>4. CASE IsInterval(Graph)
  <2>1. RowsRight(table[p][Graph], Last(Splits))  BY <1>3, <1>4 DEF GraphRight
  <2>2. AllRight(Head(todo[p]), GraphPick(table[p][Graph], Head(todo[p])))
    BY <1>1, <1>4, <2>1, GraphPickFacts
  <2> QED  BY <1>1, <1>2, <1>4, <2>2 DEF Pick
<1>5. CASE ~ IsInterval(Graph)
  <2>1. /\ IsSeq(table[p][Graph])
        /\ \A i \in DOMAIN table[p][Graph] : AllRight(table[p][Graph][i].key, table[p][Graph][i].best)
    BY <1>3, <1>5 DEF GraphRight
  <2>2. Head(todo[p]) \in Keys(table[p][Graph])  BY <1>0, <1>5 DEF Contains
  <2>3. PICK i \in DOMAIN table[p][Graph] :
          /\ table[p][Graph][i].key = Head(todo[p])
          /\ PointPick(table[p][Graph], Head(todo[p])) = table[p][Graph][i].best
    BY <2>1, <2>2, PointPickFacts
  <2>4. AllRight(Head(todo[p]), table[p][Graph][i].best)  BY <2>1, <2>3
  <2> QED  BY <1>1, <1>2, <1>5, <2>3, <2>4 DEF Pick
<1> QED  BY <1>4, <1>5

\* A line that was measured goes to the table.
LEMMA MeasureRight ==
  ASSUME IInv, Control, Data, NEW p \in Processes, Measure(p)
  PROVE  /\ cur[p] \in Tasks /\ ~ IsInterval(cur[p])
         /\ PointsRight(cur[p], table[p][cur[p]])'
         /\ table'[p][cur[p]] # <<>> /\ Last(table'[p][cur[p]]).key = Key(cur[p], Dim(p))
         /\ Keys(table'[p][cur[p]]) = Keys(table[p][cur[p]]) \cup {Key(cur[p], Dim(p))}
<1>0. /\ Phase(p) /\ cur[p] \in Tables /\ (\A f \in Tables : f \in Tasks \/ f = Graph)
      /\ TasksRight(p) /\ Kept /\ pc[p] = "measure"
  BY TaskFacts DEF IInv, Typed, Data, Control, Measure, At
<1>1. cur[p] \in Tasks /\ ~ IsInterval(cur[p]) /\ pc[p] \in Picking  BY <1>0 DEF Phase, Picking
<1>2. PointsRight(cur[p], table[p][cur[p]])
  BY <1>0, <1>1 DEF TasksRight, Loaded, Loading, Ending
<1>3. symbol[p] = Dim(p)  BY <1>0, <1>1, SymbolIsDim
<1>4. PICK best, line :
        /\ measured' = measured \union {[task |-> cur[p], key |-> Key(cur[p], Dim(p)), best |-> best]}
        /\ line = [key |-> PickKey(p, cur[p]), best |-> best]
        /\ table' = [table EXCEPT ![p][cur[p]] = Append(@, line)]
  BY DEF Measure
<1>5. plan' = plan /\ cur' = cur  BY DEF Measure
<1>6. line.key = Key(cur[p], Dim(p)) /\ line.best = best  BY <1>1, <1>3, <1>4 DEF PickKey
<1>7. PICK lines : lines = table[p][cur[p]]  OBVIOUS
<1>8. table' = [table EXCEPT ![p][cur[p]] = Append(lines, line)]
  <2>1. /\ table = [q \in Processes |-> table[q]]
        /\ \A q \in Processes : table[q] = [f \in Tables |-> table[q][f]]
    BY <1>0 DEF Kept, KeptMemory, TableShape
  <2> QED  BY <1>0, <1>4, <1>7, <2>1
<1>9. table'[p][cur[p]] = Append(lines, line)
  <2>1. /\ table = [q \in Processes |-> table[q]]
        /\ \A q \in Processes : table[q] = [f \in Tables |-> table[q][f]]
    BY <1>0 DEF Kept, KeptMemory, TableShape
  <2>2. table'[p] = [table[p] EXCEPT ![cur[p]] = Append(lines, line)]  BY <1>8, <2>1
  <2>3. PICK t : t = table[p] /\ t = [f \in Tables |-> t[f]]  BY <2>1
  <2>4. [t EXCEPT ![cur[p]] = Append(lines, line)][cur[p]] = Append(lines, line)  BY <1>0, <2>3
  <2> QED  BY <2>2, <2>3, <2>4
<1>10. /\ IsSeq(lines) /\ PointsRight(cur[p], lines)  BY <1>2, <1>7 DEF PointsRight
<1>11. /\ IsSeq(Append(lines, line)) /\ Append(lines, line) # <<>>
       /\ DOMAIN Append(lines, line) = 1 .. Len(lines) + 1 /\ DOMAIN lines = 1 .. Len(lines)
       /\ Len(lines) \in Nat
       /\ \A i \in 1 .. Len(lines) : Append(lines, line)[i] = lines[i]
       /\ Append(lines, line)[Len(lines) + 1] = line /\ Last(Append(lines, line)) = line
  BY <1>10, AppendFacts, SeqFacts
<1>12. PICK t \in Tasks : t = cur[p]  BY <1>1
<1>13. \A key, b : Right(t, key, b) => Right(t, key, b)'
  <2>1. Step(p) \/ Kill(p)  BY DEF Step
  <2>2. ASSUME NEW key, NEW b, Right(t, key, b) PROVE Right(t, key, b)'
    BY <2>1, <2>2, RightStays
  <2> QED  BY <2>2
<1>14. Right(cur[p], line.key, line.best)'
  BY <1>1, <1>4, <1>5, <1>6 DEF Right, Measured, IsInterval
<1>15. \A i \in 1 .. Len(lines) + 1 :
         Right(t, Append(lines, line)[i].key, Append(lines, line)[i].best)'
  <2>1. \A i \in 1 .. Len(lines) : Right(t, lines[i].key, lines[i].best)'
    BY <1>5, <1>10, <1>11, <1>13, <1>12 DEF PointsRight
  <2> QED  BY <1>5, <1>11, <1>14, <1>12, <2>1
<1>16. PointsRight(cur[p], table[p][cur[p]])'
  BY <1>5, <1>9, <1>11, <1>12, <1>15 DEF PointsRight
<1>17. Keys(Append(lines, line)) = Keys(lines) \cup {line.key}  BY <1>10, KeysFacts
<1> QED  BY <1>1, <1>6, <1>7, <1>9, <1>11, <1>16, <1>17

Puts(p, f, v) == table' = [table EXCEPT ![p][f] = v]

LEMMA PutsFacts ==
  ASSUME Kept, NEW p \in Processes, NEW f \in Tables, NEW v, Puts(p, f, v)
  PROVE  table'[p][f] = v /\ \A g \in Tables : g # f => table'[p][g] = table[p][g]
<1>1. table' = [table EXCEPT ![p][f] = v]  BY DEF Puts
<1>2. /\ table = [q \in Processes |-> table[q]]
      /\ \A q \in Processes : table[q] = [u \in Tables |-> table[q][u]]
  BY DEF Kept, KeptMemory, TableShape
<1>3. table'[p] = [table[p] EXCEPT ![f] = v]  BY <1>1, <1>2
<1>4. PICK g : g = table[p] /\ g = [u \in Tables |-> g[u]]  BY <1>2
<1>5. [g EXCEPT ![f] = v] = [u \in Tables |-> IF u = f THEN v ELSE g[u]]  BY <1>4
<1> QED  BY <1>3, <1>4, <1>5

\* Which of its tables a process changes.
PutsAt == {"load", "look", "read", "measure all", "measure"}
LEMMA MyTables ==
  ASSUME IInv, Kept, NEW p \in Processes, Phase(p), Step(p) \/ Kill(p)
  PROVE  /\ \A f \in Tables :
              \/ table'[p][f] = table[p][f]
              \/ pc[p] \in PutsAt /\ f = cur[p]
              \/ pc[p] \in {"picked", "idle"} /\ f = Graph
         /\ LookMisses(p) => table'[p][cur[p]] = <<>>
         /\ Read(p) => table'[p][cur[p]] = file[cur[p]].lines
         /\ ClearTable(p) => table'[p][Graph] = Nobody
<1>0. cur[p] \in Tables /\ Graph \in Tables  BY DEF IInv, Typed, Tables
<1>1. CASE LookMisses(p) \/ Read(p)
  <2>1. PICK v : /\ Puts(p, cur[p], v)
                 /\ LookMisses(p) => v = <<>>
                 /\ Read(p) => v = file[cur[p]].lines
    <3>1. CASE LookMisses(p)
      <4>1. ~ Read(p)  BY <3>1 DEF LookMisses, Read, LooksNow, At
      <4> QED  BY <3>1, <4>1 DEF LookMisses, Puts
    <3>2. CASE Read(p)
      <4>1. ~ LookMisses(p)  BY <3>2 DEF LookMisses, Read, LooksNow, At
      <4> QED  BY <3>2, <4>1 DEF Read, Puts
    <3> QED  BY <1>1, <3>1, <3>2
  <2>2. pc[p] \in PutsAt /\ ~ ClearTable(p)
    BY <1>1 DEF LookMisses, Read, LooksNow, At, ClearTable, PutsAt
  <2>3. table'[p][cur[p]] = v /\ \A g \in Tables : g # cur[p] => table'[p][g] = table[p][g]
    BY <1>0, <2>1, PutsFacts
  <2> QED  BY <2>1, <2>2, <2>3
<1>2. CASE MeasureAll(p) \/ Measure(p)
  <2>1. PICK v : Puts(p, cur[p], v)
    <3>1. CASE MeasureAll(p)  BY <3>1 DEF MeasureAll, Puts
    <3>2. CASE Measure(p)  BY <3>2 DEF Measure, Puts
    <3> QED  BY <1>2, <3>1, <3>2
  <2>2. pc[p] \in PutsAt /\ ~ ClearTable(p) /\ ~ LookMisses(p) /\ ~ Read(p)
    BY <1>2 DEF MeasureAll, Measure, LookMisses, Read, LooksNow, At, ClearTable, PutsAt
  <2>3. \A g \in Tables : g # cur[p] => table'[p][g] = table[p][g]
    BY <1>0, <2>1, PutsFacts
  <2> QED  BY <2>2, <2>3
<1>3. CASE PopulatePart(p) \/ Update(p) \/ ClearTable(p)
  <2>1. PICK v : Puts(p, Graph, v) /\ (ClearTable(p) => v = Nobody)
    <3>1. CASE PopulatePart(p) \/ Update(p)
      <4>1. ~ ClearTable(p)  BY <3>1 DEF PopulatePart, Update, ClearTable, At
      <4> QED  BY <3>1, <4>1 DEF PopulatePart, Update, Puts
    <3>2. CASE ClearTable(p)  BY <3>2 DEF ClearTable, Puts
    <3> QED  BY <1>3, <3>1, <3>2
  <2>2. pc[p] \in {"picked", "idle"} /\ ~ LookMisses(p) /\ ~ Read(p)
    BY <1>3 DEF PopulatePart, Update, LookMisses, Read, LooksNow, At, ClearTable
  <2>3. table'[p][Graph] = v /\ \A g \in Tables : g # Graph => table'[p][g] = table[p][g]
    BY <1>0, <2>1, PutsFacts
  <2> QED  BY <2>1, <2>2, <2>3
<1>4. CASE ~ (\/ LookMisses(p) \/ Read(p) \/ MeasureAll(p) \/ Measure(p) \/ PopulatePart(p)
              \/ Update(p) \/ ClearTable(p))
  <2>1. table' = table
    BY <1>4 DEF Step, Kill, Start, LoadLocked, LookFinds, ReadFails, Fill, Save, Saved, PickKnown,
                PickUnknown, MakeFile, Header, OpenFile, AppendTask, Run, FastPath, SlowPath, AppendGraph,
                AppendGraphFails, Exit, memory
  <2> QED  BY <1>4, <2>1
<1> QED  BY <1>1, <1>2, <1>3, <1>4

\* A table is loaded with those before it.
LEMMA NextLoaded ==
  ASSUME IInv, NEW p \in Processes, NextTable(p), NEW t \in Tasks, Loaded(p, t)',
         pc[p] \in Loading
  PROVE  Loaded(p, t) \/ t = cur[p]
<1>0. /\ cur[p] \in Tables /\ (\A f \in Tables : f \in Tasks \/ f = Graph)
      /\ (\A u \in Tasks : u \in Nat \ {0}) /\ pc \in [Processes -> Labels]
      /\ cur \in [Processes -> Tables] /\ pc[p] \notin Ending \cup {"start"}
      /\ \A u \in Tasks : u + 1 \notin Tasks => \A w \in Tasks : w <= u
  BY TaskFacts DEF IInv, Typed, Loading, Ending
<1>1. CASE cur[p] = Graph  BY <1>0, <1>1 DEF Loaded
<1>2. CASE cur[p] # Graph
  <2>1. cur[p] \in Tasks  BY <1>0, <1>2
  <2>2. CASE cur[p] + 1 \in Tasks
    <3>1. pc'[p] = "load" /\ cur'[p] = cur[p] + 1
      BY <1>0, <1>2, <2>2 DEF NextTable, Load, GoTo
    <3>2. cur'[p] # Graph  BY <1>0, <2>1, <3>1 DEF Graph
    <3>3. t < cur[p] + 1  BY <3>1, <3>2 DEF Loaded, Loading
    <3>4. t < cur[p] \/ t = cur[p]  BY <1>0, <2>1, <3>3
    <3> QED  BY <1>0, <3>4 DEF Loaded
  <2>3. CASE cur[p] + 1 \notin Tasks
    <3>1. t <= cur[p]  BY <1>0, <2>1, <2>3
    <3>2. t < cur[p] \/ t = cur[p]  BY <1>0, <2>1, <3>1
    <3> QED  BY <1>0, <3>2 DEF Loaded
  <2> QED  BY <2>2, <2>3
<1> QED  BY <1>1, <1>2

LEMMA NextLabels ==
  ASSUME IInv, NEW p \in Processes, NextTable(p)
  PROVE  IF cur[p] = Graph THEN /\ pc'[p] = (IF p \in calling THEN "running" ELSE "idle")
                                /\ cur'[p] = cur[p]
         ELSE pc'[p] = "load"
BY DEF IInv, Typed, NextTable, Load, GoTo

\* Measuring all intervals makes a table of them.
LEMMA AllMeasured ==
  ASSUME IInv, Control, Data, NEW p \in Processes, MeasureAll(p)
  PROVE  IntervalsRight(cur[p], table[p][cur[p]])'
<1>0. /\ cur[p] \in Tables /\ Kept /\ plan' = plan /\ cur' = cur
      /\ Len(Splits) \in Nat /\ Len(Splits) > 1 /\ Parts = 1 .. Len(Splits) - 1
  <2>1. cur[p] \in Tables /\ Kept  BY DEF IInv, Typed, Control
  <2>2. plan' = plan /\ cur' = cur  BY DEF MeasureAll
  <2>3. Len(Splits) \in Nat /\ Len(Splits) > 1  BY SplitsAssumption
  <2> QED  BY <2>1, <2>2, <2>3 DEF Parts
<1>1. PICK best \in [Parts -> Candidates] :
        /\ table' = [table EXCEPT ![p][cur[p]] =
             Append([i \in Parts |-> [low |-> Low(i), high |-> High(i), best |-> best[i]]],
                    [low |-> Last(Splits) + 1, high |-> 0, best |-> best[Len(Splits) - 1]])]
        /\ measured' = measured \union
             {[task |-> cur[p], key |-> High(i), best |-> best[i]] : i \in Parts}
  BY DEF MeasureAll
<1>2. PICK found : found = [i \in Parts |-> [low |-> Low(i), high |-> High(i), best |-> best[i]]]  OBVIOUS
<1>3. PICK beyond : beyond = [low |-> Last(Splits) + 1, high |-> 0, best |-> best[Len(Splits) - 1]]
  OBVIOUS
<1>4. Puts(p, cur[p], Append(found, beyond))  BY <1>1, <1>2, <1>3 DEF Puts
<1>5. table'[p][cur[p]] = Append(found, beyond)  BY <1>0, <1>4, PutsFacts
<1>6. \A i \in Parts : found[i].low = Low(i) /\ found[i].high = High(i) /\ found[i].best = best[i]
  BY <1>2
<1>7. beyond.low = Last(Splits) + 1 /\ beyond.best = best[Len(Splits) - 1]  BY <1>3
<1>8. IsSeq(found) /\ Len(found) = Len(Splits) - 1
  <2>1. DOMAIN found = 1 .. Len(Splits) - 1 /\ found = [i \in 1 .. Len(Splits) - 1 |-> found[i]]
    BY <1>0, <1>2
  <2>2. found \in [1 .. Len(Splits) - 1 -> {found[i] : i \in DOMAIN found}]  BY <2>1
  <2>3. Len(Splits) - 1 \in Nat  BY <1>0
  <2>4. found \in Seq({found[i] : i \in DOMAIN found})  BY <2>2, <2>3
  <2> QED  BY <2>1, <2>3, <2>4 DEF IsSeq
<1>9. PICK lines : lines = Append(found, beyond)  OBVIOUS
<1>10. /\ IsSeq(lines) /\ Len(lines) = Len(Splits)
       /\ \A i \in Parts : lines[i] = found[i]
       /\ lines[Len(lines)] = beyond
  <2>1. /\ IsSeq(lines) /\ Len(lines) = Len(found) + 1
        /\ \A i \in 1 .. Len(found) : lines[i] = found[i]
        /\ lines[Len(found) + 1] = beyond
    BY <1>8, <1>9, AppendFacts
  <2> QED  BY <1>0, <1>8, <2>1
<1>11. \A i \in Parts : [task |-> cur[p], key |-> High(i), best |-> best[i]] \in measured'
  BY <1>1
<1>12. lines[Len(lines) - 1].best = best[Len(Splits) - 1]
  <2>1. Len(Splits) - 1 \in Parts  BY <1>0
  <2> QED  BY <1>6, <1>10, <2>1
<1>13. table'[p][cur'[p]] = lines /\ cur'[p] = cur[p]  BY <1>0, <1>5, <1>9
<1> HIDE DEF IsSeq
<1> QED  BY <1>6, <1>7, <1>10, <1>11, <1>12, <1>13 DEF IntervalsRight, Measured

\* Where the loaded tables of tasks come from.
LEMMA LoadedFrom ==
  ASSUME IInv, Control, NEW p \in Processes, Step(p) \/ Kill(p), NEW t \in Tasks, Loaded(p, t)'
  PROVE  \/ Loaded(p, t) /\ table'[p][t] = table[p][t]
         \/ /\ t = cur[p]
            /\ \/ LookMisses(p) /\ table'[p][t] = <<>>
               \/ Read(p) /\ table'[p][t] = file[t].lines
               \/ Saved(p) \/ Measure(p)
<1>0. /\ cur[p] \in Tables /\ (\A f \in Tables : f \in Tasks \/ f = Graph) /\ Phase(p)
      /\ pc \in [Processes -> Labels] /\ cur \in [Processes -> Tables] /\ Kept
      /\ t # Graph /\ t \in Nat \ {0} /\ t \in Tables
  BY TaskFacts DEF IInv, Typed, Control
<1>t. \/ table'[p][t] = table[p][t]
      \/ pc[p] \in PutsAt /\ t = cur[p]
  BY <1>0, MyTables
<1>1. CASE Start(p)
  <2>1. pc'[p] = "load" /\ cur'[p] = 1  BY <1>0, <1>1 DEF Start, Load, GoTo
  <2>2. cur'[p] # Graph /\ ~ (t < cur'[p])  BY <1>0, <2>1 DEF Graph
  <2>3. ~ Loaded(p, t)'  BY <2>1, <2>2 DEF Loaded, Loading
  <2> QED  BY <2>3
<1>2. CASE ReadFails(p) \/ AppendGraphFails(p) \/ Kill(p)
  <2>1. pc'[p] \in {"failed", "killed"}  BY <1>0, <1>2 DEF ReadFails, AppendGraphFails, Kill, Fail, GoTo
  <2> QED  BY <2>1 DEF Loaded, Ending
\* It goes on with its table.
<1>3. CASE LoadLocked(p) \/ LookFinds(p) \/ Save(p)
  <2>1. pc[p] \in Loading /\ pc'[p] \in Loading /\ cur' = cur /\ table' = table
    BY <1>0, <1>3 DEF LoadLocked, LookFinds, Save, LooksNow, At, GoTo, memory, Loading
  <2> QED  BY <2>1 DEF Loaded, Loading, Ending
<1>4. CASE MeasureAll(p) \/ (LookMisses(p) /\ IsInterval(cur[p]))
  <2>1. /\ pc[p] \in Loading /\ cur' = cur
        /\ pc'[p] \in Loading \/ cur[p] = Graph
    BY <1>0, <1>4 DEF MeasureAll, LookMisses, LooksNow, At, GoTo, Loading
  <2>2. Loaded(p, t) /\ (cur[p] = Graph \/ t < cur[p])  BY <2>1 DEF Loaded, Loading, Ending
  <2>3. t # cur[p]  BY <1>0, <2>2
  <2> QED  BY <1>t, <2>2, <2>3
\* The next table.
<1>5. CASE (LookMisses(p) /\ ~ IsInterval(cur[p])) \/ Read(p) \/ Saved(p)
  <2>1. NextTable(p) /\ pc[p] \in {"load", "look", "read", "saving"}
    BY <1>5 DEF LookMisses, Read, Saved, LooksNow, At
  <2>2. Loaded(p, t) \/ t = cur[p]  BY <2>1, NextLoaded DEF Loading
  <2>3. CASE t = cur[p]
    <3>1. /\ LookMisses(p) => table'[p][cur[p]] = <<>>
          /\ Read(p) => table'[p][cur[p]] = file[cur[p]].lines
      BY <1>0, MyTables
    <3> QED  BY <1>5, <2>3, <3>1
  <2>4. CASE t # cur[p]  BY <1>t, <2>2, <2>4
  <2> QED  BY <2>3, <2>4
\* It has loaded all tables.
<1>6. CASE \/ Fill(p) \/ PickKnown(p) \/ PickUnknown(p) \/ Measure(p) \/ MakeFile(p) \/ Header(p)
           \/ OpenFile(p) \/ AppendTask(p) \/ PopulatePart(p) \/ Run(p) \/ FastPath(p) \/ SlowPath(p)
           \/ Update(p) \/ AppendGraph(p) \/ ClearTable(p) \/ Exit(p)
  <2>1. pc[p] \in {"fill", "idle", "running"} \cup Picking
    BY <1>6 DEF Fill, PickKnown, PickUnknown, Measure, MakeFile, Header, OpenFile, AppendTask, PopulatePart,
                Run, FastPath, SlowPath, Update, AppendGraph, ClearTable, Exit, At, Picking
  <2>2. Loaded(p, t)  BY <2>1 DEF Loaded, Loading, Ending, Picking
  <2>3. CASE Measure(p)
    <3>1. pc[p] = "measure"  BY <2>3 DEF Measure, At
    <3> QED  BY <1>t, <2>2, <2>3, <3>1 DEF PutsAt
  <2>4. CASE ~ Measure(p)
    <3>1. pc[p] # "measure"
      BY <1>6, <2>4 DEF Fill, PickKnown, PickUnknown, MakeFile, Header, OpenFile, AppendTask, PopulatePart,
                        Run, FastPath, SlowPath, Update, AppendGraph, ClearTable, Exit, At
    <3>2. pc[p] \notin PutsAt  BY <2>1, <3>1 DEF Picking, PutsAt
    <3> QED  BY <1>t, <2>2, <3>2
  <2> QED  BY <2>3, <2>4
<1> QED  BY <1>1, <1>2, <1>3, <1>4, <1>5, <1>6 DEF Step

LEMMA TasksStep ==
  ASSUME IInv, Control, Data, NEW p \in Processes, Step(p) \/ Kill(p)
  PROVE  TasksRight(p)'
<1>0. /\ cur[p] \in Tables /\ (\A f \in Tables : f \in Tasks \/ f = Graph) /\ Phase(p)
      /\ pc \in [Processes -> Labels] /\ cur \in [Processes -> Tables] /\ FilesRight /\ plan' = plan
  BY PlanStays, TaskFacts DEF IInv, Typed, Data, Control
<1>1. \A f : IsInterval(f)' <=> IsInterval(f)  BY <1>0 DEF IsInterval
<1>2. ASSUME NEW t \in Tasks, Loaded(p, t)'
      PROVE  (Loaded(p, t) /\ table'[p][t] = table[p][t]) \/ TaskRight(p, t)'
  <2>1. \/ Loaded(p, t) /\ table'[p][t] = table[p][t]
        \/ /\ t = cur[p]
           /\ \/ LookMisses(p) /\ table'[p][t] = <<>>
              \/ Read(p) /\ table'[p][t] = file[t].lines
              \/ Saved(p) \/ Measure(p)
    BY <1>2, LoadedFrom
  <2>2. CASE t = cur[p] /\ LookMisses(p) /\ table'[p][t] = <<>>
    <3>1. CASE IsInterval(t)
      <4>1. pc'[p] = "measure all" /\ cur'[p] = t
        <5>1. cur[p] # Graph  BY <2>2, TaskFacts
        <5> QED  BY <1>0, <2>2, <3>1, <5>1 DEF LookMisses, GoTo
      <4>2. t # Graph /\ t \in Nat  BY TaskFacts
      <4>3. ~ (t < t)  BY <4>2
      <4>4. ~ (cur'[p] = Graph \/ t < cur'[p])  BY <4>1, <4>2, <4>3
      <4>5. ~ Loaded(p, t)'  BY <4>1, <4>4 DEF Loaded, Loading
      <4> QED  BY <1>2, <4>5
    <3>2. CASE ~ IsInterval(t)
      <4>1. PointsRight(t, table[p][t])'  BY <2>2, EmptySeq DEF PointsRight
      <4> QED  BY <1>1, <3>2, <4>1 DEF TaskRight
    <3> QED  BY <3>1, <3>2
  <2>3. CASE t = cur[p] /\ Read(p) /\ table'[p][t] = file[t].lines
    <3>1. CASE IsInterval(t)
      <4>1. file'[t].header /\ table'[p][t] = file'[t].lines  BY <2>3, <3>1 DEF Read, Parses
      <4> QED  BY <1>1, <3>1, <4>1 DEF TaskRight
    <3>2. CASE ~ IsInterval(t)
      <4>1. PICK lines : lines = file[t].lines  OBVIOUS
      <4>2. PointsRight(t, lines)  BY <1>0, <3>2, <4>1 DEF FilesRight
      <4>3. PointsRight(t, lines)'  BY <4>2, LinesStay
      <4>4. PointsRight(t, table[p][t])'  BY <2>3, <4>1, <4>3 DEF PointsRight
      <4> QED  BY <1>1, <3>2, <4>4 DEF TaskRight
    <3> QED  BY <3>1, <3>2
  <2>4. CASE t = cur[p] /\ Saved(p)
    <3>1. /\ pc[p] = "saving" /\ table' = table
          /\ file' = [file EXCEPT ![cur[p]] = [made |-> TRUE, header |-> TRUE, lines |-> table[p][cur[p]]]]
      BY <2>4 DEF Saved, At, memory
    <3>2. IsInterval(t)  BY <1>0, <2>4, <3>1 DEF Phase
    <3>3. file'[t] = [made |-> TRUE, header |-> TRUE, lines |-> table[p][t]]
      <4>1. file = [f \in Tables |-> file[f]]  BY DEF IInv, Typed
      <4> QED  BY <1>0, <2>4, <3>1, <4>1
    <3>4. file'[t].header /\ table'[p][t] = file'[t].lines  BY <3>1, <3>3
    <3> QED  BY <1>1, <3>2, <3>4 DEF TaskRight
  <2>5. CASE t = cur[p] /\ Measure(p)
    <3>1. ~ IsInterval(cur[p]) /\ PointsRight(cur[p], table[p][cur[p]])'  BY <2>5, MeasureRight
    <3>2. cur'[p] = t  BY <2>5 DEF Measure
    <3>3. PointsRight(t, table[p][t])'  BY <3>1, <3>2
    <3> QED  BY <1>1, <2>5, <3>1, <3>3 DEF TaskRight
  <2> QED  BY <2>1, <2>2, <2>3, <2>4, <2>5
<1>3. \A t \in Tasks : Loaded(p, t)' =>
        (Loaded(p, t) /\ table'[p][t] = table[p][t]) \/ TaskRight(p, t)'
  BY <1>2
<1>4. CASE MeasureAll(p)
  <2>1. IntervalsRight(cur[p], table[p][cur[p]])'  BY <1>4, AllMeasured
  <2> QED  BY <1>3, <2>1, TasksFrom
<1>5. CASE Save(p)
  <2>1. pc[p] = "save" /\ cur' = cur /\ table' = table  BY <1>5 DEF Save, At, memory
  <2> QED  BY <1>3, <2>1, TasksFrom
<1>6. CASE PopulatePart(p)
  <2>1. pc[p] = "picked" /\ cur[p] = Graph  BY <1>0, <1>6 DEF PopulatePart, At, Phase
  <2>2. pc'[p] = "pick" \/ cur'[p] = cur[p]  BY <1>0, <1>6 DEF PopulatePart, GoTo
  <2>3. pc'[p] \notin {"save", "saving"} \/ cur'[p] = Graph  BY <2>1, <2>2
  <2> QED  BY <1>3, <2>3, TasksFrom
<1>7. CASE ~ (MeasureAll(p) \/ Save(p) \/ PopulatePart(p))
  <2>1. pc'[p] \notin {"save", "saving"}
    <3>1. CASE NextTable(p)
      <4>1. CASE cur[p] = Graph  BY <3>1, <4>1, NextLabels
      <4>2. CASE cur[p] # Graph  BY <3>1, <4>2, NextLabels
      <4> QED  BY <4>1, <4>2
    <3>2. CASE ~ NextTable(p)
      <4>1. \E label \in Labels \ {"save", "saving"} : GoTo(p, label) \/ (pc' = pc /\ pc[p] = label)
        BY <1>7, <3>2
           DEF Step, Kill, Start, LoadLocked, LookFinds, LookMisses, Read, ReadFails, Fill, Saved, PickKnown,
               PickUnknown, Measure, MakeFile, Header, OpenFile, AppendTask, Run, FastPath, SlowPath, Update,
               AppendGraph, AppendGraphFails, ClearTable, Exit, Load, AfterPick, Fail, Returned, At,
               Labels, Quiet, Holding
      <4> QED  BY <1>0, <4>1 DEF GoTo
    <3> QED  BY <3>1, <3>2
  <2> QED  BY <1>3, <2>1, TasksFrom
<1> QED  BY <1>4, <1>5, <1>6, <1>7

\* A line of the graph's table has the candidates that were picked for all tasks.
LEMMA RowAdded ==
  ASSUME IInv, Control, Data, NEW p \in Processes, PopulatePart(p), NEW lines, lines = table'[p][Graph]
  PROVE  /\ IsInterval(Graph) /\ part[p] \in Parts
         /\ RowsRight(lines, High(part[p]))
<1>0. /\ Phase(p) /\ pc[p] = "picked" /\ cur[p] = Graph /\ Kept /\ Graph \in Tables
      /\ GraphsRight(p) /\ PicksRight(p)
  BY DEF Data, Control, PopulatePart, At, Phase, Tables
<1>1. pc[p] \in Picking /\ job[p] = "populate"  BY <1>0 DEF Picking, PopulatePart
<1>2. /\ Dim(p) \in Nat \ {0} /\ IsInterval(Graph) /\ Dim(p) = High(part[p]) /\ part[p] \in Parts
  BY <1>0, <1>1, SymbolIsDim
<1>3. PICK i, old : i \in Parts /\ i = part[p] /\ old = table[p][Graph]  BY <1>2
<1> i \in Parts  BY <1>3
<1>4. /\ Low(i) \in Nat /\ High(i) \in Nat \ {0} /\ Low(i) <= High(i) /\ Low(i) # 0
  <2>1. Low(i) \in Nat /\ High(i) \in Nat \ {0} /\ Low(i) <= High(i)  BY PartFacts
  <2>2. CASE i = 1  BY <2>1, <2>2, PartFacts
  <2>3. CASE i # 1
    <3>1. i - 1 \in Parts /\ Low(i) = High(i - 1) + 1  BY <2>3, PartFacts
    <3>2. High(i - 1) \in Nat  BY <3>1, PartFacts
    <3> QED  BY <2>1, <3>1, <3>2
  <2> QED  BY <2>1, <2>2, <2>3
<1>5. PICK n \in Nat : n = High(i) + 1 - Low(i)  BY <1>4
<1>6. PICK row : row = [best |-> choice[p]]  OBVIOUS
<1>7. lines = old \o [k \in 1 .. n |-> row]
  <2>1. PICK v : v = old \o [k \in 1 .. n |-> row]  OBVIOUS
  <2>2. Puts(p, Graph, v)
    <3>1. table' = [table EXCEPT ![p][Graph] = @ \o [k \in 1 .. High(part[p]) + 1 - Low(part[p]) |-> [best |-> choice[p]]]]
      BY DEF PopulatePart
    <3>2. /\ table = [q \in Processes |-> table[q]]
          /\ \A q \in Processes : table[q] = [f \in Tables |-> table[q][f]]
      BY <1>0 DEF Kept, KeptMemory, TableShape
    <3> QED  BY <1>0, <1>3, <1>5, <1>6, <2>1, <3>1, <3>2 DEF Puts
  <2>3. table'[p][Graph] = v  BY <1>0, <2>2, PutsFacts
  <2> QED  BY <2>1, <2>3
<1>8. RowsRight(old, Low(i) - 1)  BY <1>0, <1>1, <1>2, <1>3 DEF GraphsRight
<1>9. /\ IsSeq(old) /\ Len(old) = Low(i) - 1 /\ \A d \in 1 .. Low(i) - 1 : AllRight(d, old[d].best)
  BY <1>8 DEF RowsRight
<1>10. /\ IsSeq(lines) /\ Len(lines) = Len(old) + n
       /\ \A k \in 1 .. Len(old) : lines[k] = old[k]
       /\ \A k \in Len(old) + 1 .. Len(old) + n : lines[k] = row
  <2>1. IsSeq(old)  BY <1>9
  <2>2. LET c == old \o [k \in 1 .. n |-> row]
        IN  /\ IsSeq(c) /\ Len(c) = Len(old) + n
            /\ \A k \in 1 .. Len(old) : c[k] = old[k]
            /\ \A k \in Len(old) + 1 .. Len(old) + n : c[k] = row
    BY <2>1, ConcatFacts
  <2> QED  BY <1>7, <2>2
<1>11. Len(lines) = High(i)  BY <1>4, <1>5, <1>9, <1>10
<1>12. ASSUME NEW d \in Low(i) .. High(i) PROVE AllRight(d, choice[p])
  <2> SUFFICES ASSUME NEW t \in Tasks PROVE Right(t, Cell(t, d), choice[p][t])  BY DEF AllRight
  <2>1. Right(t, Cell(t, High(i)), choice[p][t])  BY <1>0, <1>1, <1>2, <1>3 DEF PicksRight
  <2>2. Cell(t, d) = Cell(t, High(i))
    <3>1. CASE IsInterval(t)
      <4>1. d \in Nat \ {0} /\ Low(i) <= d /\ d <= High(i)  BY <1>4
      <4>2. Cell(t, d) = High(i)  BY <3>1, <4>1, SameCell
      <4>3. Cell(t, High(i)) = High(i)  BY <1>4, <3>1, SameCell
      <4> QED  BY <4>2, <4>3
    <3>2. CASE ~ IsInterval(t)
      <4>1. t \in Static  BY <1>2, <3>2 DEF IsInterval
      <4> QED  BY <3>2, <4>1 DEF Cell, Key
    <3> QED  BY <3>1, <3>2
  <2> QED  BY <2>1, <2>2
<1>13. row.best = choice[p]  BY <1>6
<1>14. ASSUME NEW d \in 1 .. High(i) PROVE AllRight(d, lines[d].best)
  <2>1. CASE d <= Low(i) - 1
    <3>1. d \in 1 .. Low(i) - 1  BY <1>4, <2>1
    <3> QED  BY <1>9, <1>10, <3>1
  <2>2. CASE ~ (d <= Low(i) - 1)
    <3>1. d \in Low(i) .. High(i)  BY <1>4, <2>2
    <3>2. d \in Len(old) + 1 .. Len(old) + n  BY <1>4, <1>5, <1>9, <2>2
    <3> QED  BY <1>10, <1>12, <1>13, <3>1, <3>2
  <2> QED  BY <2>1, <2>2
<1>15. RowsRight(lines, High(i))  BY <1>10, <1>11, <1>14 DEF RowsRight
<1> QED  BY <1>2, <1>3, <1>15

LEMMA LineAdded ==
  ASSUME IInv, Control, Data, NEW p \in Processes, Update(p), NEW lines, lines = table'[p][Graph]
  PROVE  /\ ~ IsInterval(Graph) /\ GraphRight(lines) /\ lines # <<>>
         /\ Keys(lines) = Keys(table[p][Graph]) \cup {Head(todo[p])} /\ Last(lines).key = Head(todo[p])
<1>0. /\ Phase(p) /\ pc[p] = "picked" /\ cur[p] = Graph /\ Kept /\ Graph \in Tables
      /\ GraphsRight(p) /\ PicksRight(p)
  BY DEF Data, Control, Update, At, Phase, Tables
<1>1. pc[p] \in Picking /\ job[p] = "slow"  BY <1>0 DEF Picking, Update
<1>2. Dim(p) = Head(todo[p]) /\ ~ IsInterval(Graph)  BY <1>0, <1>1, SymbolIsDim
<1>3. PICK old, line : old = table[p][Graph] /\ line = [key |-> Head(todo[p]), best |-> choice[p]]  OBVIOUS
<1>4. lines = Append(old, line)
  <2>1. PICK v : v = Append(old, line)  OBVIOUS
  <2>2. Puts(p, Graph, v)
    <3>1. table' = [table EXCEPT ![p][Graph] = Append(@, [key |-> Head(todo[p]), best |-> choice[p]])]
      BY DEF Update
    <3>2. /\ table = [q \in Processes |-> table[q]]
          /\ \A q \in Processes : table[q] = [f \in Tables |-> table[q][f]]
      BY <1>0 DEF Kept, KeptMemory, TableShape
    <3> QED  BY <1>0, <1>3, <2>1, <3>1, <3>2 DEF Puts
  <2>3. table'[p][Graph] = v  BY <1>0, <2>2, PutsFacts
  <2> QED  BY <2>1, <2>3
<1>5. GraphRight(old)  BY <1>0, <1>1, <1>2, <1>3 DEF GraphsRight
<1>6. IsSeq(old) /\ \A i \in DOMAIN old : AllRight(old[i].key, old[i].best)
  BY <1>2, <1>5 DEF GraphRight
<1>7. AllRight(line.key, line.best)
  <2>1. line.key = Dim(p) /\ line.best = choice[p]  BY <1>2, <1>3
  <2>2. AllRight(Dim(p), choice[p])  BY <1>0, <1>1 DEF AllRight, PicksRight
  <2> QED  BY <2>1, <2>2
<1>8. /\ IsSeq(lines) /\ lines # <<>> /\ DOMAIN lines = 1 .. Len(old) + 1
      /\ DOMAIN old = 1 .. Len(old) /\ Len(old) \in Nat
      /\ \A i \in 1 .. Len(old) : lines[i] = old[i]
      /\ lines[Len(old) + 1] = line
  BY <1>4, <1>6, AppendFacts, SeqFacts
<1>9. \A i \in DOMAIN lines : AllRight(lines[i].key, lines[i].best)
  <2> TAKE i \in DOMAIN lines
  <2>1. CASE i = Len(old) + 1  BY <1>7, <1>8, <2>1
  <2>2. CASE i # Len(old) + 1
    <3>1. i \in 1 .. Len(old)  BY <1>8, <2>2
    <3> QED  BY <1>6, <1>8, <3>1
  <2> QED  BY <2>1, <2>2
<1>10. Keys(lines) = Keys(old) \cup {line.key} /\ Last(lines) = line /\ line.key = Head(todo[p])
  BY <1>3, <1>4, <1>6, KeysFacts, AppendFacts
<1> QED  BY <1>2, <1>3, <1>8, <1>9, <1>10 DEF GraphRight

LEMMA GraphsStep ==
  ASSUME IInv, Control, Data, NEW p \in Processes, Step(p) \/ Kill(p)
  PROVE  GraphsRight(p)'
<1>0. /\ cur[p] \in Tables /\ Graph \in Tables /\ Phase(p)
      /\ pc \in [Processes -> Labels] /\ cur \in [Processes -> Tables]
      /\ Kept /\ FilesRight /\ GraphsRight(p) /\ plan' = plan
      /\ part = [q \in Processes |-> part[q]]
  BY PlanStays DEF IInv, Typed, Data, Control, Tables, Kept, KeptMemory, OtherShapes
<1>t. \A f \in Tables :
        \/ table'[p][f] = table[p][f]
        \/ pc[p] \in PutsAt /\ f = cur[p]
        \/ pc[p] \in {"picked", "idle"} /\ f = Graph
  BY <1>0, MyTables
\* Not there, or not with the graph's table.
<1>1. CASE \/ Start(p) \/ LoadLocked(p) \/ LookFinds(p) \/ ReadFails(p) \/ AppendGraphFails(p)
           \/ Kill(p) \/ Exit(p)
  <2>1. pc'[p] \notin {"fill", "idle", "running", "save", "saving"} \cup Picking
    BY <1>0, <1>1 DEF Start, LoadLocked, LookFinds, ReadFails, AppendGraphFails, Kill, Exit, Fail, Load,
                      GoTo, Picking
  <2> QED  BY <2>1, GraphsFrom
<1>2. CASE MeasureAll(p)
  <2>1. pc[p] = "measure all" /\ pc'[p] = "save" /\ cur' = cur  BY <1>0, <1>2 DEF MeasureAll, At, GoTo
  <2>2. cur[p] # Graph  BY <1>0, <2>1 DEF Phase
  <2> QED  BY <2>1, <2>2, GraphsFrom
<1>3. CASE Save(p)
  <2>1. pc[p] = "save" /\ pc'[p] = "saving" /\ cur' = cur /\ table' = table
    BY <1>0, <1>3 DEF Save, At, GoTo, memory
  <2>2. CASE cur[p] = Graph
    <3>1. GraphRight(table[p][Graph])  BY <1>0, <2>1, <2>2 DEF GraphsRight
    <3> QED  BY <2>1, <3>1, GraphsFrom
  <2>3. CASE cur[p] # Graph  BY <2>1, <2>3, GraphsFrom
  <2> QED  BY <2>2, <2>3
<1>4. CASE LookMisses(p) /\ IsInterval(cur[p])
  <2>1. /\ pc'[p] = (IF cur[p] = Graph THEN "fill" ELSE "measure all")
        /\ table'[p][cur[p]] = <<>>
    BY <1>0, <1>4, MyTables DEF LookMisses, GoTo
  <2>2. CASE cur[p] = Graph  BY <2>1, <2>2, GraphsFrom
  <2>3. CASE cur[p] # Graph
    <3>1. pc'[p] \notin {"fill", "idle", "running", "save", "saving"} \cup Picking
      BY <2>1, <2>3 DEF Picking
    <3> QED  BY <3>1, GraphsFrom
  <2> QED  BY <2>2, <2>3
<1>5. ASSUME NextTable(p), cur[p] = Graph => \E lines : GraphRight(lines) /\ table'[p][Graph] = lines
      PROVE  GraphsRight(p)'
  <2>1. CASE cur[p] = Graph
    <3>1. pc'[p] \in {"running", "idle"}  BY <1>5, <2>1, NextLabels
    <3> QED  BY <1>5, <2>1, <3>1, GraphsFrom
  <2>2. CASE cur[p] # Graph
    <3>1. pc'[p] = "load"  BY <1>5, <2>2, NextLabels
    <3>2. pc'[p] \notin {"fill", "idle", "running", "save", "saving"} \cup Picking  BY <3>1 DEF Picking
    <3> QED  BY <3>2, GraphsFrom
  <2> QED  BY <2>1, <2>2
<1>6. CASE LookMisses(p) /\ ~ IsInterval(cur[p])
  <2>1. NextTable(p) /\ table'[p][cur[p]] = <<>>  BY <1>0, <1>6, MyTables DEF LookMisses
  <2>2. cur[p] = Graph => GraphRight(<<>>)  BY <1>6, EmptySeq DEF GraphRight
  <2> QED  BY <1>5, <2>1, <2>2
<1>7. CASE Read(p)
  <2>1. NextTable(p) /\ table'[p][cur[p]] = file[cur[p]].lines /\ Parses(cur[p])
    BY <1>0, <1>7, MyTables DEF Read
  <2>2. cur[p] = Graph => GraphRight(file[Graph].lines)  BY <1>0, <2>1 DEF Parses, FilesRight
  <2> QED  BY <1>5, <2>1, <2>2
<1>8. CASE Saved(p)
  <2>1. NextTable(p) /\ table' = table /\ pc[p] = "saving"  BY <1>8 DEF Saved, At, memory
  <2>2. cur[p] = Graph => GraphRight(table[p][Graph])  BY <1>0, <2>1 DEF GraphsRight
  <2> QED  BY <1>5, <2>1, <2>2
\* Around a call.
<1>9. CASE Run(p)
  <2>1. pc[p] = "idle" /\ table' = table /\ pc'[p] \in {"load", "running"}
        /\ (pc'[p] = "running" => table[p][Graph] # Nobody)
    BY <1>0, <1>9 DEF Run, At, Load, GoTo
  <2>2. CASE pc'[p] = "load"
    <3>1. pc'[p] \notin {"fill", "idle", "running", "save", "saving"} \cup Picking  BY <2>2 DEF Picking
    <3> QED  BY <3>1, GraphsFrom
  <2>3. CASE pc'[p] = "running"
    <3>1. GraphRight(table[p][Graph])  BY <1>0, <2>1, <2>3 DEF GraphsRight
    <3> QED  BY <2>1, <2>3, <3>1, GraphsFrom
  <2> QED  BY <2>1, <2>2, <2>3
<1>10. CASE FastPath(p)
  <2>1. pc[p] = "running" /\ table' = table /\ pc'[p] = "idle"
    BY <1>0, <1>10 DEF FastPath, Returned, At, GoTo
  <2>2. GraphRight(table[p][Graph])  BY <1>0, <2>1 DEF GraphsRight
  <2> QED  BY <2>1, <2>2, GraphsFrom
<1>11. CASE AppendGraph(p)
  <2>1. pc[p] = "appending" /\ table' = table /\ pc'[p] = "idle"
    BY <1>0, <1>11 DEF AppendGraph, Returned, At, GoTo
  <2>2. pc[p] \in Picking /\ ~ IsInterval(cur[p]) /\ cur[p] = Graph
    BY <1>0, <1>11, <2>1 DEF Phase, Picking, AppendGraph
  <2>3. GraphRight(table[p][Graph])  BY <1>0, <2>2 DEF GraphsRight
  <2> QED  BY <2>1, <2>3, GraphsFrom
<1>12. CASE ClearTable(p)
  <2>1. pc'[p] = "idle" /\ table'[p][Graph] = Nobody  BY <1>0, <1>12, MyTables DEF ClearTable, At
  <2> QED  BY <2>1, GraphsFrom
\* Picking.
<1>13. CASE Fill(p)
  <2>1. pc[p] = "fill" /\ table' = table /\ pc'[p] = "pick" /\ part'[p] = 1
    BY <1>0, <1>13 DEF Fill, At, GoTo
  <2>2. IsInterval(Graph) /\ table[p][Graph] = <<>>  BY <1>0, <2>1 DEF Phase, GraphsRight
  <2>3. Low(1) - 1 = 0  BY PartFacts
  <2>4. RowsRight(<<>>, Low(part'[p]) - 1)  BY <2>1, <2>3, EmptySeq DEF RowsRight
  <2>5. pc'[p] \in Picking  BY <2>1 DEF Picking
  <2> QED  BY <2>1, <2>2, <2>4, <2>5, GraphsFrom
<1>14. CASE SlowPath(p)
  <2>1. pc[p] = "running" /\ table' = table /\ pc'[p] = "pick"
    BY <1>0, <1>14 DEF SlowPath, At, GoTo
  <2>2. ~ IsInterval(Graph)  BY <1>14, NeverMissing DEF FindsAll
  <2>3. GraphRight(table[p][Graph])  BY <1>0, <2>1 DEF GraphsRight
  <2>4. pc'[p] \in Picking  BY <2>1 DEF Picking
  <2> QED  BY <2>1, <2>2, <2>3, <2>4, GraphsFrom
<1>15. CASE PopulatePart(p)
  <2>1. PICK lines : lines = table'[p][Graph]  OBVIOUS
  <2>2. IsInterval(Graph) /\ part[p] \in Parts /\ RowsRight(lines, High(part[p]))
    BY <1>15, <2>1, RowAdded
  <2>3. CASE part[p] + 1 \in Parts
    <3>1. part'[p] = part[p] + 1 /\ pc'[p] = "pick"  BY <1>0, <1>15, <2>3 DEF PopulatePart, GoTo
    <3>2. Low(part[p] + 1) - 1 = High(part[p])
      <4>1. part[p] \in Nat /\ High(part[p]) \in Nat /\ part[p] # 0  BY <2>2, PartFacts DEF Parts
      <4>2. part[p] + 1 # 1 /\ (part[p] + 1) - 1 = part[p]  BY <4>1
      <4>3. Low(part[p] + 1) = High(part[p]) + 1  BY <2>3, <4>2, PartFacts
      <4> QED  BY <4>1, <4>3
    <3>3. pc'[p] \in Picking  BY <3>1 DEF Picking
    <3>4. RowsRight(lines, Low(part'[p]) - 1)  BY <2>2, <3>1, <3>2
    <3> QED  BY <2>1, <2>2, <3>3, <3>4, GraphsFrom
  <2>4. CASE part[p] + 1 \notin Parts
    <3>1. pc'[p] = "save"  BY <1>0, <1>15, <2>4 DEF PopulatePart, GoTo
    <3>2. High(part[p]) = Last(Splits)  BY <2>2, <2>4, PartFacts
    <3>3. GraphRight(lines)  BY <2>2, <3>2 DEF GraphRight
    <3> QED  BY <2>1, <3>1, <3>3, GraphsFrom
  <2> QED  BY <2>3, <2>4
<1>16. CASE Update(p)
  <2>1. PICK lines : lines = table'[p][Graph]  OBVIOUS
  <2>2. ~ IsInterval(Graph) /\ GraphRight(lines)  BY <1>16, <2>1, LineAdded
  <2>3. pc'[p] \in Picking  BY <1>0, <1>16 DEF Update, GoTo, Picking
  <2> QED  BY <2>1, <2>2, <2>3, GraphsFrom
<1>17. CASE \/ PickKnown(p) \/ PickUnknown(p) \/ Measure(p) \/ MakeFile(p) \/ Header(p)
            \/ OpenFile(p) \/ AppendTask(p)
  <2>1. pc[p] \in Picking \ {"picked"} /\ (pc[p] = "measure" => cur[p] # Graph) /\ part' = part
    BY <1>0, <1>17
       DEF PickKnown, PickUnknown, Measure, MakeFile, Header, OpenFile, AppendTask, At, Picking, Phase, memory
  <2>2. pc'[p] \in Picking
    BY <1>0, <1>17
       DEF PickKnown, PickUnknown, Measure, MakeFile, Header, OpenFile, AppendTask, AfterPick, GoTo, Picking
  <2>3. table'[p][Graph] = table[p][Graph]  BY <1>0, <1>t, <2>1 DEF Picking, PutsAt
  <2>4. PICK lines : lines = table[p][Graph]  OBVIOUS
  <2>5. IF IsInterval(Graph) THEN RowsRight(lines, Low(part'[p]) - 1) ELSE GraphRight(lines)
    BY <1>0, <2>1, <2>4 DEF GraphsRight
  <2> QED  BY <2>2, <2>3, <2>4, <2>5, GraphsFrom
<1> QED
  BY <1>1, <1>2, <1>3, <1>4, <1>6, <1>7, <1>8, <1>9, <1>10, <1>11, <1>12, <1>13, <1>14, <1>15, <1>16, <1>17
     DEF Step

LEMMA ChosenFacts ==
  ASSUME Kept, NEW p \in Processes, NEW t \in Tasks, NEW c, AfterPick(p, t, c)
  PROVE  choice'[p][t] = c /\ \A u \in Tasks : u # t => choice'[p][u] = choice[p][u]
<1>1. choice' = [choice EXCEPT ![p][t] = c]  BY DEF AfterPick, Chosen
<1>2. /\ choice = [q \in Processes |-> choice[q]]
      /\ \A q \in Processes : choice[q] = [u \in Tasks |-> choice[q][u]]
  BY DEF Kept, KeptMemory, ChoiceShape
<1>3. choice'[p] = [choice[p] EXCEPT ![t] = c]  BY <1>1, <1>2
<1>4. PICK g : g = choice[p] /\ g = [u \in Tasks |-> g[u]]  BY <1>2
<1>5. [g EXCEPT ![t] = c] = [u \in Tasks |-> IF u = t THEN c ELSE g[u]]  BY <1>4
<1> QED  BY <1>3, <1>4, <1>5

\* Steps that do not pick.
LEMMA NotPicking ==
  ASSUME IInv, NEW p \in Processes,
         \/ Start(p) \/ LoadLocked(p) \/ LookFinds(p) \/ LookMisses(p) \/ Read(p) \/ ReadFails(p)
         \/ MeasureAll(p) \/ Save(p) \/ Saved(p) \/ Run(p) \/ FastPath(p) \/ AppendGraph(p)
         \/ AppendGraphFails(p) \/ ClearTable(p) \/ Exit(p) \/ Kill(p)
  PROVE  pc'[p] \notin Picking
<1>0. pc \in [Processes -> Labels]  BY DEF IInv, Typed
<1>1. CASE NextTable(p)
  <2>1. CASE cur[p] = Graph  BY <1>1, <2>1, NextLabels DEF Picking
  <2>2. CASE cur[p] # Graph  BY <1>1, <2>2, NextLabels DEF Picking
  <2> QED  BY <2>1, <2>2
<1>2. CASE ~ NextTable(p)
  <2>1. \E label \in {"load", "look", "read", "failed", "fill", "measure all", "save", "saving",
                      "running", "idle", "done", "killed"} :
          GoTo(p, label) \/ (pc' = pc /\ pc[p] = label)
    BY <1>2
       DEF Start, LoadLocked, LookFinds, LookMisses, Read, ReadFails, MeasureAll, Save, Saved, Run,
           FastPath, AppendGraph, AppendGraphFails, ClearTable, Exit, Kill, Load, Fail, Returned, At
  <2> QED  BY <1>0, <2>1 DEF GoTo, Picking
<1> QED  BY <1>1, <1>2

LEMMA PicksStep ==
  ASSUME IInv, Control, Data, NEW p \in Processes, Step(p) \/ Kill(p)
  PROVE  PicksRight(p)'
<1>0. /\ cur[p] \in Tables /\ Graph \in Tables /\ Phase(p)
      /\ pc \in [Processes -> Labels] /\ cur \in [Processes -> Tables]
      /\ Kept /\ PicksRight(p) /\ plan' = plan
      /\ \A t \in Tasks : t \in Nat \ {0}
  BY PlanStays, TaskFacts DEF IInv, Typed, Data, Control, Tables
<1>1. CASE \/ Start(p) \/ LoadLocked(p) \/ LookFinds(p) \/ LookMisses(p) \/ Read(p) \/ ReadFails(p)
           \/ MeasureAll(p) \/ Save(p) \/ Saved(p) \/ Run(p) \/ FastPath(p) \/ AppendGraph(p)
           \/ AppendGraphFails(p) \/ ClearTable(p) \/ Exit(p) \/ Kill(p)
  <2>1. pc'[p] \notin Picking  BY <1>1, NotPicking
  <2>2. pc'[p] \notin {"append", "header", "appending"}  BY <2>1 DEF Picking
  <2> QED  BY <2>1, <2>2, PicksFrom
\* The first task.
<1>2. CASE Fill(p) \/ SlowPath(p)
  <2>1. pc'[p] = "pick" /\ cur'[p] = 1  BY <1>0, <1>2 DEF Fill, SlowPath, GoTo
  <2> QED  BY <2>1, PicksFrom
<1>3. CASE PopulatePart(p)
  <2>1. (pc'[p] = "pick" /\ cur'[p] = 1) \/ pc'[p] = "save"  BY <1>0, <1>3 DEF PopulatePart, GoTo
  <2>2. pc'[p] \in Picking => cur'[p] = 1  BY <2>1 DEF Picking
  <2>3. pc'[p] \notin {"append", "header", "appending"}  BY <2>1
  <2> QED  BY <2>2, <2>3, PicksFrom
\* The next task.
<1>4. CASE PickKnown(p) \/ AppendTask(p)
  <2>1. PICK t, c : /\ t \in Tasks /\ t = cur[p] /\ AfterPick(p, t, c)
                    /\ Right(t, Cell(t, Dim(p)), c)
    BY <1>4, ChosenRight
  <2> t \in Tasks  BY <2>1
  <2>2. job' = job /\ part' = part /\ todo' = todo  BY <1>4 DEF PickKnown, AppendTask
  <2>3. Dim(p)' = Dim(p)  BY <2>2 DEF Dim
  <2>4. choice'[p][t] = c /\ \A u \in Tasks : u # t => choice'[p][u] = choice[p][u]
    <3>1. AfterPick(p, t, c) /\ Kept  BY <1>0, <2>1
    <3> QED  BY <3>1, ChosenFacts
  <2>5. /\ pc'[p] \in {"pick", "picked"}
        /\ IF t + 1 \in Tasks THEN cur'[p] = t + 1 ELSE cur'[p] = Graph
    BY <1>0, <2>1 DEF AfterPick, GoTo
  <2>6. t \in Nat \ {0} /\ pc[p] \in Picking
    BY <1>0, <1>4 DEF PickKnown, AppendTask, At, Picking
  <2>7. ASSUME NEW u \in Tasks, cur'[p] = Graph \/ u < cur'[p]
        PROVE  \E best : Right(u, Cell(u, Dim(p)), best) /\ choice'[p][u] = best
    <3>1. CASE u = t  BY <2>1, <2>4, <3>1
    <3>2. CASE u # t
      <4>1. u < t
        <5>1. u \in Nat \ {0}  BY <1>0
        <5>2. CASE t + 1 \in Tasks
          <6>1. cur'[p] = t + 1 /\ cur'[p] # Graph  BY <2>5, <2>6, <5>2 DEF Graph
          <6>2. u < t + 1  BY <2>7, <6>1
          <6> QED  BY <2>6, <3>2, <5>1, <6>2
        <5>3. CASE t + 1 \notin Tasks
          <6>1. u <= t  BY <5>3, TaskFacts
          <6> QED  BY <2>6, <3>2, <5>1, <6>1
        <5> QED  BY <5>2, <5>3
      <4>2. Right(u, Cell(u, Dim(p)), choice[p][u])  BY <1>0, <2>1, <2>6, <4>1 DEF PicksRight
      <4> QED  BY <2>4, <3>2, <4>2
    <3> QED  BY <3>1, <3>2
  <2>8. \A u \in Tasks : cur'[p] = Graph \/ u < cur'[p] =>
          \E best : Right(u, Cell(u, Dim(p)), best) /\ choice'[p][u] = best
    BY <2>7
  <2>9. pc'[p] \notin {"append", "header", "appending"}  BY <2>5
  <2> QED  BY <2>3, <2>8, <2>9, PicksFrom
\* The same task, or what was picked for all is added to the table.
<1>5. CASE PickUnknown(p) \/ Measure(p) \/ MakeFile(p) \/ Header(p) \/ OpenFile(p) \/ Update(p)
  <2>1. /\ job' = job /\ part' = part /\ todo' = todo /\ choice' = choice /\ cur' = cur
        /\ pc[p] \in Picking
    BY <1>5 DEF PickUnknown, Measure, MakeFile, Header, OpenFile, Update, memory, At, Picking
  <2>2. Dim(p)' = Dim(p)  BY <2>1 DEF Dim
  <2>3. \A t \in Tasks : cur'[p] = Graph \/ t < cur'[p] =>
          \E best : Right(t, Cell(t, Dim(p)), best) /\ choice'[p][t] = best
    BY <1>0, <2>1 DEF PicksRight
  <2>4. CASE PickUnknown(p)
    <3>1. pc'[p] = "measure"  BY <1>0, <2>4 DEF PickUnknown, GoTo
    <3>2. pc'[p] \notin {"append", "header", "appending"}  BY <3>1
    <3> QED  BY <2>2, <2>3, <3>2, PicksFrom
  <2>5. CASE Measure(p)
    <3>1. /\ table'[p][cur'[p]] # <<>>
          /\ cur'[p] # Graph => Last(table'[p][cur'[p]]).key = Key(cur'[p], Dim(p)')
      BY <2>1, <2>2, <2>5, MeasureRight
    <3> QED  BY <2>2, <2>3, <3>1, PicksFrom
  <2>6. CASE Update(p)
    <3>1. cur[p] = Graph  BY <1>0, <2>6 DEF Update, At, Phase
    <3>2. PICK lines : lines = table'[p][Graph]  OBVIOUS
    <3>3. lines # <<>>  BY <2>6, <3>2, LineAdded
    <3>4. /\ table'[p][cur'[p]] # <<>>
          /\ cur'[p] # Graph => Last(table'[p][cur'[p]]).key = Key(cur'[p], Dim(p)')
      BY <2>1, <3>1, <3>2, <3>3
    <3> QED  BY <2>2, <2>3, <3>4, PicksFrom
  <2>7. CASE MakeFile(p) \/ Header(p) \/ OpenFile(p)
    <3>1. pc[p] \in {"append", "header", "appending"} /\ table' = table
      BY <2>7 DEF MakeFile, Header, OpenFile, At, memory
    <3>2. /\ table'[p][cur'[p]] # <<>>
          /\ cur'[p] # Graph => Last(table'[p][cur'[p]]).key = Key(cur'[p], Dim(p)')
      BY <1>0, <2>1, <2>2, <3>1 DEF PicksRight
    <3> QED  BY <2>2, <2>3, <3>2, PicksFrom
  <2> QED  BY <1>5, <2>4, <2>5, <2>6, <2>7
<1> QED  BY <1>1, <1>2, <1>3, <1>4, <1>5 DEF Step

LEMMA LaunchesStep ==
  ASSUME IInv, Control, Data, NEW p \in Processes, Step(p) \/ Kill(p)
  PROVE  LaunchesRight(p)'
<1>0. Phase(p) /\ Kept /\ launched = [q \in Processes |-> launched[q]]
  BY DEF Control, Kept, KeptMemory, LaunchShape
\* A task's kernel, as soon as it is picked.
<1>1. CASE PickKnown(p) \/ AppendTask(p)
  <2>1. PICK t, c : t \in Tasks /\ AfterPick(p, t, c) /\ Right(t, Cell(t, Dim(p)), c)
    BY <1>1, ChosenRight
  <2> t \in Tasks  BY <2>1
  <2>2. launched'[p] = IF job[p] = "slow" THEN {Kernel(p, t, c)} ELSE launched[p]
    BY <1>0, <2>1, AfterPickFrame
  <2>3. CASE job[p] # "slow"
    <3>1. launched'[p] = launched[p]  BY <2>2, <2>3
    <3> QED  BY <3>1, LaunchesFrom
  <2>4. CASE job[p] = "slow"
    <3>1. pc[p] \in Picking  BY <1>1 DEF PickKnown, AppendTask, At, Picking
    <3>2. symbol[p] = Head(todo[p]) /\ Dim(p) = Head(todo[p])  BY <1>0, <2>4, <3>1, SymbolIsDim
    <3>3. \A k \in launched'[p] :
            k.task = t /\ k.best = c /\ k.dim = Head(todo[p]) /\ k.symbol = symbol[p]
      BY <2>2, <2>4 DEF Kernel
    <3>4. \A k \in launched'[p] :
            k.task \in Tasks /\ Right(k.task, Cell(k.task, k.dim), k.best) /\ k.symbol = k.dim
      BY <2>1, <3>2, <3>3
    <3> QED  BY <3>4, LaunchesFrom
  <2> QED  BY <2>3, <2>4
\* The kernels of all tasks, as the graph's table has them.
<1>2. CASE FastPath(p)
  <2>1. PICK d, best : d = Head(todo[p]) /\ best = Pick(Graph, table[p][Graph], Head(todo[p]))  OBVIOUS
  <2>2. symbol[p] = d /\ AllRight(d, best)  BY <1>2, <2>1, FastRight
  <2>3. launched'[p] = {Kernel(p, t, best[t]) : t \in Tasks}  BY <1>0, <1>2, <2>1 DEF FastPath
  <2>4. ASSUME NEW k \in launched'[p]
        PROVE  k.task \in Tasks /\ Right(k.task, Cell(k.task, k.dim), k.best) /\ k.symbol = k.dim
    <3>1. PICK t \in Tasks : k = Kernel(p, t, best[t])  BY <2>3
    <3>2. k.task = t /\ k.best = best[t] /\ k.dim = d /\ k.symbol = symbol[p]  BY <2>1, <3>1 DEF Kernel
    <3>3. Right(t, Cell(t, d), best[t])  BY <2>2 DEF AllRight
    <3> QED  BY <2>2, <3>2, <3>3
  <2>5. \A k \in launched'[p] :
          k.task \in Tasks /\ Right(k.task, Cell(k.task, k.dim), k.best) /\ k.symbol = k.dim
    BY <2>4
  <2> QED  BY <2>5, LaunchesFrom
<1>3. CASE ~ (PickKnown(p) \/ AppendTask(p) \/ FastPath(p))
  <2>1. launched' = launched
    BY <1>3 DEF Step, Kill, Start, LoadLocked, LookFinds, LookMisses, Read, ReadFails, MeasureAll, Fill, Save,
                Saved, PickUnknown, Measure, MakeFile, Header, OpenFile, PopulatePart, Run, SlowPath, Update,
                AppendGraph, AppendGraphFails, ClearTable, Exit, memory
  <2>2. launched'[p] = launched[p]  BY <2>1
  <2> QED  BY <2>2, LaunchesFrom
<1> QED  BY <1>1, <1>2, <1>3

Fit == IInv /\ Control /\ Data

-----------------------------------------------------------------------------
(* The invariant of the contents.                                           *)

LEMMA FitInit == Init => Fit
<1> SUFFICES ASSUME Init PROVE Fit  OBVIOUS
<1>1. IInv  BY InitTrue
<1>2. /\ pc = [p \in Processes |-> "start"] /\ cur = [p \in Processes |-> Graph]
      /\ file = [f \in Tables |-> NoFile] /\ tlock = [f \in Tables |-> Nobody]
      /\ table = [p \in Processes |-> [f \in Tables |-> <<>>]]
      /\ symbol = [p \in Processes |-> 0] /\ job = [p \in Processes |-> "none"]
      /\ part = [p \in Processes |-> 1] /\ choice = [p \in Processes |-> [t \in Tasks |-> Nobody]]
      /\ calling = {} /\ launched = [p \in Processes |-> {}] /\ plan \in Plans /\ todo = plan.todo
  BY DEF Init
<1>3. Kept
  <2>1. TableShape /\ ChoiceShape  BY <1>2 DEF TableShape, ChoiceShape
  <2>2. LaunchShape /\ OtherShapes  BY <1>2 DEF LaunchShape, OtherShapes
  <2>3. TodoShape  BY <1>2, PlansAssumption DEF TodoShape
  <2>4. tlock \in [Tables -> Processes \cup {Nobody}]  BY <1>2
  <2> QED  BY <2>1, <2>2, <2>3, <2>4 DEF Kept, KeptMemory
<1>4. \A f \in Tables : file[f].header = FALSE /\ file[f].lines = <<>> /\ file[f].made = FALSE
  BY <1>2 DEF NoFile
<1>5. ASSUME NEW p \in Processes PROVE Phase(p) /\ Alone(p)
  BY <1>2 DEF Phase, Alone, Loading, Picking
<1>6. Control  BY <1>3, <1>4, <1>5 DEF Control, HeadersMade
<1>7. FilesRight
  <2>1. \A t \in Tasks : t \in Tables  BY DEF Tables
  <2>2. Graph \in Tables  BY DEF Tables
  <2>3. \A t : PointsRight(t, <<>>)  BY EmptySeq DEF PointsRight
  <2>4. ~ IsInterval(Graph) => GraphRight(<<>>)  BY EmptySeq DEF GraphRight
  <2> QED  BY <1>4, <2>1, <2>2, <2>3, <2>4 DEF FilesRight
<1>8. ASSUME NEW p \in Processes
      PROVE  TasksRight(p) /\ GraphsRight(p) /\ PicksRight(p) /\ LaunchesRight(p)
  <2>1. pc[p] = "start" /\ launched[p] = {}  BY <1>2
  <2>2. TasksRight(p)  BY <2>1 DEF TasksRight, Loaded
  <2>3. GraphsRight(p)  BY <2>1 DEF GraphsRight, Picking
  <2>4. PicksRight(p)  BY <2>1 DEF PicksRight, Picking
  <2>5. LaunchesRight(p)  BY <2>1 DEF LaunchesRight
  <2> QED  BY <2>2, <2>3, <2>4, <2>5
<1> QED  BY <1>1, <1>6, <1>7, <1>8 DEF Fit, Data

LEMMA FitStep ==
  ASSUME Fit, NEW p \in Processes, Step(p) \/ Kill(p)
  PROVE  Control' /\ Data'
<1>0. IInv /\ Control /\ Data  BY DEF Fit
<1>1. Kept /\ HeadersMade /\ \A q \in Processes : Phase(q) /\ Alone(q)  BY <1>0 DEF Control
<1>2. Phase(p) /\ Alone(p)  BY <1>1
<1>3. Kept' /\ \A q \in Processes \ {p} : Same(q)  BY <1>0, <1>1, <1>2, OthersKeep
<1>4. HeadersMade'  BY <1>0, <1>1, HeadersStayMade
<1>5. plan' = plan  BY PlanStays
<1>6. file[Graph].made => file'[Graph].made
  <2>1. Graph \in Tables  BY DEF Tables
  <2> QED  BY <1>0, <2>1, MadeStays
<1>7. FindsAll(p)  BY <1>0, NeverMissing
<1>8. Phase(p)'
  <2>1. CASE \/ Start(p) \/ LoadLocked(p) \/ LookFinds(p) \/ LookMisses(p) \/ Read(p) \/ ReadFails(p)
             \/ MeasureAll(p) \/ Fill(p) \/ Save(p) \/ Saved(p)
    BY <1>0, <1>1, <1>2, <2>1, PhaseStep1
  <2>2. CASE \/ PickKnown(p) \/ PickUnknown(p) \/ Measure(p) \/ MakeFile(p) \/ Header(p) \/ OpenFile(p)
             \/ AppendTask(p) \/ PopulatePart(p)
             \/ Run(p) \/ FastPath(p) \/ SlowPath(p) \/ Update(p) \/ AppendGraph(p) \/ AppendGraphFails(p)
             \/ ClearTable(p) \/ Exit(p) \/ Kill(p)
    BY <1>0, <1>1, <1>2, <1>7, <2>2, PhaseStep2
  <2> QED  BY <2>1, <2>2 DEF Step
<1>9. Alone(p)'  BY <1>0, <1>1, <1>2, AloneStep
<1>10. ASSUME NEW q \in Processes PROVE Phase(q)' /\ Alone(q)'
  <2>1. CASE q = p  BY <1>8, <1>9, <2>1
  <2>2. CASE q # p
    <3>1. Phase(q) /\ Alone(q)  BY <1>1
    <3>2. Same(q)  BY <1>3, <2>2
    <3>3. Phase(q)'  BY <1>5, <1>6, <3>1, <3>2, PhaseOthers
    <3>4. q \in Processes \ {p}  BY <2>2
    <3>5. Alone(q)'  BY <1>0, <1>1, <1>2, <3>1, <3>2, <3>4, AloneOthers
    <3> QED  BY <3>3, <3>5
  <2> QED  BY <2>1, <2>2
<1>11. Control'  BY <1>3, <1>4, <1>10 DEF Control
<1>12. FilesRight'  BY <1>0, FilesStep
<1>13. ASSUME NEW q \in Processes
       PROVE  (TasksRight(q) /\ GraphsRight(q) /\ PicksRight(q) /\ LaunchesRight(q))'
  <2>1. CASE q = p
    <3>1. TasksRight(p)'  BY <1>0, TasksStep
    <3>2. GraphsRight(p)'  BY <1>0, GraphsStep
    <3>3. PicksRight(p)'  BY <1>0, PicksStep
    <3>4. LaunchesRight(p)'  BY <1>0, LaunchesStep
    <3> QED  BY <2>1, <3>1, <3>2, <3>3, <3>4
  <2>2. CASE q # p
    <3>1. Same(q)  BY <1>3, <2>2
    <3> QED  BY <1>0, <3>1, DataOthers
  <2> QED  BY <2>1, <2>2
<1> QED  BY <1>11, <1>12, <1>13 DEF Data

LEMMA FitStutter == Fit /\ UNCHANGED vars => Control' /\ Data'
<1> SUFFICES ASSUME Fit, UNCHANGED vars PROVE Control' /\ Data'  OBVIOUS
<1>1. /\ plan' = plan /\ file' = file /\ lock' = lock /\ tlock' = tlock /\ table' = table
      /\ symbol' = symbol /\ pc' = pc /\ cur' = cur /\ job' = job /\ part' = part /\ choice' = choice
      /\ todo' = todo /\ calling' = calling /\ measured' = measured /\ launched' = launched
  BY DEF vars
<1>2. \A f : IsInterval(f)' <=> IsInterval(f)  BY <1>1 DEF IsInterval
<1>3. Kept' /\ HeadersMade'
  BY <1>1 DEF Fit, Control, Kept, KeptMemory, TableShape, ChoiceShape, LaunchShape, OtherShapes, TodoShape,
              HeadersMade
<1>4. ASSUME NEW p \in Processes PROVE Phase(p)' /\ Alone(p)'
  <2>1. Phase(p) /\ Alone(p)  BY DEF Fit, Control
  <2>2. Phase(p)'  BY <1>1, <1>2, <2>1 DEF Phase
  <2>3. Alone(p)'  BY <1>1, <2>1 DEF Alone
  <2> QED  BY <2>2, <2>3
<1>5. \A t, key, best : Right(t, key, best)' <=> Right(t, key, best)  BY <1>1, <1>2 DEF Right, Measured
<1>6. \A t, d : Cell(t, d)' = Cell(t, d)  BY <1>1 DEF Cell, IsInterval, Key
<1>7. \A d, best : AllRight(d, best)' <=> AllRight(d, best)  BY <1>5, <1>6 DEF AllRight
<1>8. \A t, lines : PointsRight(t, lines)' <=> PointsRight(t, lines)  BY <1>5 DEF PointsRight
<1>9. \A t, lines : IntervalsRight(t, lines)' <=> IntervalsRight(t, lines)
  BY <1>1 DEF IntervalsRight, Measured
<1>10. \A n, lines : RowsRight(lines, n)' <=> RowsRight(lines, n)  BY <1>7 DEF RowsRight
<1>11. \A lines : GraphRight(lines)' <=> GraphRight(lines)  BY <1>2, <1>7, <1>10 DEF GraphRight
<1>12. FilesRight'  BY <1>1, <1>2, <1>8, <1>9, <1>11 DEF Fit, Data, FilesRight
<1>13. ASSUME NEW p \in Processes
       PROVE  (TasksRight(p) /\ GraphsRight(p) /\ PicksRight(p) /\ LaunchesRight(p))'
  <2>1. TasksRight(p) /\ GraphsRight(p) /\ PicksRight(p) /\ LaunchesRight(p)  BY DEF Fit, Data
  <2>2. TasksRight(p)'  BY <1>1, <1>2, <1>8, <1>9, <2>1 DEF TasksRight, Loaded
  <2>3. GraphsRight(p)'  BY <1>1, <1>2, <1>10, <1>11, <2>1 DEF GraphsRight
  <2>4. PicksRight(p)'  BY <1>1, <1>5, <1>6, <2>1 DEF PicksRight, Dim
  <2>5. LaunchesRight(p)'  BY <1>1, <1>5, <1>6, <2>1 DEF LaunchesRight
  <2> QED  BY <2>2, <2>3, <2>4, <2>5
<1> QED  BY <1>3, <1>4, <1>12, <1>13 DEF Control, Data

\* What the files and the tables in memory say was measured, in every state.
THEOREM DataInvariant == Spec => []Fit
<1>1. Init => Fit  BY FitInit
<1>2. Fit /\ [Next]_vars => Fit'
  <2> SUFFICES ASSUME Fit, [Next]_vars PROVE Fit'  OBVIOUS
  <2>1. IInv'  BY NextTrue DEF Fit
  <2>2. Control' /\ Data'
    <3>1. CASE UNCHANGED vars  BY <3>1, FitStutter
    <3>2. CASE Next
      <4>1. PICK p \in Processes : Step(p) \/ Kill(p)  BY <3>2 DEF Next
      <4> QED  BY <4>1, FitStep
    <3> QED  BY <3>1, <3>2
  <2> QED  BY <2>1, <2>2 DEF Fit
<1> QED  BY <1>1, <1>2, PTL DEF Spec

\* Every kernel that was launched last was measured for the inputs it runs on.
THEOREM KernelsAlwaysFit == Spec => []KernelsFit
<1>1. Fit => KernelsFit
  <2> SUFFICES ASSUME Fit, NEW p \in Processes, NEW k \in launched[p]
               PROVE  /\ [task |-> k.task, key |-> Cell(k.task, k.dim), best |-> k.best] \in measured
                      /\ k.symbol = k.dim
    BY DEF KernelsFit
  <2>1. LaunchesRight(p)  BY DEF Fit, Data
  <2> QED  BY <2>1 DEF LaunchesRight, Right, Measured
<1> QED  BY <1>1, DataInvariant, PTL

\* Processes run the same kernel of an interval task for the same interval.
THEOREM KernelsAgree == Spec => []Agreement
<1>1. Fit => Agreement
  <2> SUFFICES ASSUME Fit, NEW p \in Processes, NEW q \in Processes,
                      NEW k \in launched[p], NEW l \in launched[q], k.task = l.task, IsInterval(k.task),
                      Cell(k.task, k.dim) = Cell(l.task, l.dim)
               PROVE  k.best = l.best
    BY DEF Agreement
  <2>1. LaunchesRight(p) /\ LaunchesRight(q)  BY DEF Fit, Data
  <2>2. PICK t : t = k.task  OBVIOUS
  <2>3. PICK i \in Parts : High(i) = Cell(t, k.dim) /\ file[t].lines[i].best = k.best
    BY <2>1, <2>2 DEF LaunchesRight, Right
  <2>4. PICK j \in Parts : High(j) = Cell(t, k.dim) /\ file[t].lines[j].best = l.best
    BY <2>1, <2>2 DEF LaunchesRight, Right
  <2>5. i = j
    <3>1. Len(Splits) \in Nat /\ \A n \in 1 .. Len(Splits) : Splits[n] \in Nat  BY SplitsAssumption
    <3>2. i + 1 \in 1 .. Len(Splits) /\ j + 1 \in 1 .. Len(Splits) /\ i \in Nat /\ j \in Nat
      BY <3>1 DEF Parts
    <3>3. Splits[i + 1] = Splits[j + 1]  BY <2>3, <2>4 DEF High
    <3>4. ~ (i + 1 < j + 1) /\ ~ (j + 1 < i + 1)  BY <3>1, <3>2, <3>3, SplitsIncrease
    <3> QED  BY <3>2, <3>4
  <2> QED  BY <2>3, <2>4, <2>5
<1> QED  BY <1>1, DataInvariant, PTL

-----------------------------------------------------------------------------
(* Runs are recorded.                                                       *)

\* The file of a task of points has a line for the dimension.
Has(t, d)  == Key(t, d) \in Keys(file[t].lines)
AllHave(d) == \A t \in Tasks : ~ IsInterval(t) => Has(t, d)
Adding     == {"append", "header", "appending"}

Unmade == \A f \in Tables : ~ file[f].made => file[f].lines = <<>>

\* The tasks have what the graph's file has.  With intervals the tasks with a table
\* of points are static: they have their one line.
GraphKept == IF IsInterval(Graph) THEN file[Graph].header => AllHave(0)
             ELSE \A d \in Keys(file[Graph].lines) : AllHave(d)

\* What a process has in memory is in the files, but for the line that it adds.
TasksKept(p) == \A t \in Tasks : Loaded(p, t) /\ ~ IsInterval(t) => \A key \in Keys(table[p][t]) :
  key \in Keys(file[t].lines) \/ (pc[p] \in Adding /\ cur[p] = t /\ key = Key(t, Dim(p)))

PicksKept(p) ==
  /\ pc[p] \in Picking => \A t \in Tasks :
       (cur[p] = Graph \/ t < cur[p]) /\ ~ IsInterval(t) => Has(t, Dim(p))
  /\ pc[p] \in Adding /\ cur[p] = Graph => Last(table[p][Graph]).key = Head(todo[p])

Ready(p) == \/ pc[p] = "running"
            \/ pc[p] = "idle" /\ table[p][Graph] # Nobody
            \/ pc[p] \in {"save", "saving"} /\ cur[p] = Graph
            \/ pc[p] \in Picking /\ ~ IsInterval(Graph)
MemoryKept(p) == Ready(p) =>
  IF IsInterval(Graph) THEN AllHave(0)
  ELSE \A d \in Keys(table[p][Graph]) :
         /\ AllHave(d)
         /\ \/ d \in Keys(file[Graph].lines)
            \/ pc[p] \in Adding /\ cur[p] = Graph /\ d = Head(todo[p])

RunKept(d) == /\ AllHave(d) /\ \A t \in Tasks : IsInterval(t) => file[t].made
              /\ IF IsInterval(Graph) THEN file[Graph].made ELSE d \in Keys(file[Graph].lines)
RunsKept(p) == \A d \in ran[p] : RunKept(d)

Records == /\ ran = [p \in Processes |-> ran[p]] /\ Unmade /\ GraphKept
           /\ \A p \in Processes : TasksKept(p) /\ PicksKept(p) /\ MemoryKept(p) /\ RunsKept(p)

\* The lines of a file are a sequence.
LEMMA LinesAreSeqs ==
  ASSUME Data, NEW f \in Tables, ~ IsInterval(f)
  PROVE  IsSeq(file[f].lines)
<1>1. CASE f = Graph  BY <1>1 DEF Data, FilesRight, GraphRight
<1>2. CASE f # Graph
  <2>1. f \in Tasks  BY <1>2 DEF Tables
  <2> QED  BY <2>1 DEF Data, FilesRight, PointsRight
<1> QED  BY <1>1, <1>2

\* A line is added to a file of points.
LEMMA LineKeys ==
  ASSUME IInv, Data, NEW f \in Tables, ~ IsInterval(f), NEW line, file' = WithLine(f, line)
  PROVE  /\ Keys(file'[f].lines) = Keys(file[f].lines) \cup {line.key}
         /\ file'[f].made = file[f].made
<1>1. PICK lines : lines = file[f].lines  OBVIOUS
<1>2. PICK x : x = file[f] /\ IsFile(x) /\ file'[f] = [x EXCEPT !.lines = Append(lines, line)]
  <2>1. file = [g \in Tables |-> file[g]] /\ \A g \in Tables : IsFile(file[g])  BY DEF IInv, Typed
  <2> QED  BY <1>1, <2>1 DEF WithLine, Appended
<1>3. file'[f].lines = Append(lines, line) /\ file'[f].made = file[f].made
  BY <1>2, RecordUpdates
<1>4. IsSeq(lines)  BY <1>1, LinesAreSeqs
<1> QED  BY <1>1, <1>3, <1>4, KeysFacts

\* The lines of a file of points stay.
LEMMA FileKeys ==
  ASSUME IInv, Control, Data, Unmade, NEW p \in Processes, Step(p) \/ Kill(p)
  PROVE  /\ Unmade' /\ \A f \in Tables : ~ IsInterval(f) => Keys(file[f].lines) \subseteq Keys(file'[f].lines)
         /\ AppendTask(p) \/ AppendGraph(p) => Last(table[p][cur[p]]).key \in Keys(file'[cur[p]].lines)
<1>0. /\ cur[p] \in Tables /\ Phase(p)
      /\ file = [g \in Tables |-> file[g]] /\ \A g \in Tables : IsFile(file[g])
  BY DEF IInv, Typed, Control
<1>1. \A f \in Tables : f # cur[p] => file'[f] = file[f]  BY FileChanges
<1>2. PICK c \in Tables : c = cur[p]  BY <1>0
<1>3. ASSUME ~ file'[c].made => file'[c].lines = <<>>,
             ~ IsInterval(c) => Keys(file[c].lines) \subseteq Keys(file'[c].lines)
      PROVE  /\ Unmade'
             /\ \A f \in Tables : ~ IsInterval(f) => Keys(file[f].lines) \subseteq Keys(file'[f].lines)
  <2>1. Unmade'
    <3> SUFFICES ASSUME NEW f \in Tables, ~ file'[f].made PROVE file'[f].lines = <<>>  BY DEF Unmade
    <3> QED  BY <1>1, <1>2, <1>3 DEF Unmade
  <2>2. ASSUME NEW f \in Tables, ~ IsInterval(f) PROVE Keys(file[f].lines) \subseteq Keys(file'[f].lines)
    <3>1. CASE f = c  BY <1>3, <2>2, <3>1
    <3>2. CASE f # c  BY <1>1, <1>2, <3>2
    <3> QED  BY <3>1, <3>2
  <2> QED  BY <2>1, <2>2
<1>4. CASE file' = file /\ ~ AppendTask(p) /\ ~ AppendGraph(p)
  BY <1>3, <1>4 DEF Unmade
<1>5. CASE Save(p) \/ MakeFile(p)
  <2>1. file'[c] = EmptyFile  BY <1>0, <1>2, <1>5 DEF Save, MakeFile
  <2>2. file'[c].made = TRUE  BY <2>1 DEF EmptyFile
  <2>3. ~ IsInterval(c) => Keys(file[c].lines) = {}
    <3>1. CASE Save(p)  BY <1>0, <1>2, <3>1 DEF Save, At, Phase
    <3>2. CASE MakeFile(p)
      <4>1. ~ file[c].made  BY <1>2, <3>2 DEF MakeFile, FileSeen
      <4>2. file[c].lines = <<>>  BY <4>1 DEF Unmade
      <4> QED  BY <4>2, KeysFacts
    <3> QED  BY <1>5, <3>1, <3>2
  <2>4. ~ AppendTask(p) /\ ~ AppendGraph(p)
    BY <1>5 DEF Save, MakeFile, AppendTask, AppendGraph, At
  <2> QED  BY <1>3, <2>2, <2>3, <2>4
<1>6. CASE Saved(p)
  <2>1. file'[c] = [made |-> TRUE, header |-> TRUE, lines |-> table[p][c]]  BY <1>0, <1>2, <1>6 DEF Saved
  <2>2. IsInterval(c)  BY <1>0, <1>2, <1>6 DEF Saved, At, Phase
  <2>3. ~ AppendTask(p) /\ ~ AppendGraph(p)  BY <1>6 DEF Saved, AppendTask, AppendGraph, At
  <2>4. file'[c].made = TRUE  BY <2>1
  <2> QED  BY <1>3, <2>2, <2>3, <2>4
<1>7. CASE Header(p)
  <2>1. PICK x : x = file[c] /\ IsFile(x) /\ file'[c] = [x EXCEPT !.header = TRUE]
    BY <1>0, <1>2, <1>7 DEF Header
  <2>2. file'[c].lines = file[c].lines /\ file'[c].made = file[c].made  BY <2>1, RecordUpdates
  <2>3. ~ AppendTask(p) /\ ~ AppendGraph(p)  BY <1>7 DEF Header, AppendTask, AppendGraph, At
  <2> QED  BY <1>3, <2>2, <2>3 DEF Unmade
<1>8. CASE AppendTask(p) \/ AppendGraph(p)
  <2>1. pc[p] = "appending"  BY <1>8 DEF AppendTask, AppendGraph, At
  <2>2. ~ IsInterval(c) /\ table[p][c] # <<>>
    BY <1>0, <1>2, <2>1 DEF Phase, Data, PicksRight
  <2>3. PICK line : line = Last(table[p][c])  OBVIOUS
  <2>4. \/ file' = WithLine(c, line)
        \/ file' = file /\ file[c].lines # <<>> /\ Last(file[c].lines) = line
    BY <1>2, <1>8, <2>3 DEF AppendTask, AppendGraph
  <2>5. file[c].made
    <3>1. Seen  BY DEF IInv
    <3> QED  BY <1>2, <2>1, <3>1 DEF Seen
  <2>6. CASE file' = WithLine(c, line)
    <3>1. Keys(file'[c].lines) = Keys(file[c].lines) \cup {line.key} /\ file'[c].made = file[c].made
      BY <2>2, <2>6, LineKeys
    <3> QED  BY <1>2, <1>3, <2>3, <2>5, <3>1
  <2>7. CASE file' = file /\ file[c].lines # <<>> /\ Last(file[c].lines) = line
    <3>1. IsSeq(file[c].lines)  BY <2>2, LinesAreSeqs
    <3>2. line.key \in Keys(file[c].lines)  BY <2>7, <3>1, KeysFacts
    <3> QED  BY <1>2, <1>3, <2>3, <2>5, <2>7, <3>2
  <2> QED  BY <2>4, <2>6, <2>7
<1>9. CASE OpenFile(p)
  <2>1. file' = file /\ ~ AppendTask(p) /\ ~ AppendGraph(p)  BY <1>9 DEF OpenFile, AppendTask, AppendGraph, At
  <2> QED  BY <1>4, <2>1
<1>10. CASE ~ (Save(p) \/ MakeFile(p) \/ OpenFile(p) \/ Header(p) \/ Saved(p) \/ AppendTask(p) \/ AppendGraph(p))
  <2>1. Quietly(p) \/ Stops(p)
    BY <1>10, QuietSteps, StoppingSteps DEF Step, IInv
  <2>2. file' = file  BY <2>1 DEF Quietly, Stops
  <2> QED  BY <1>4, <1>10, <2>2
<1> QED  BY <1>5, <1>6, <1>7, <1>8, <1>9, <1>10

LEMMA HasStays ==
  ASSUME IInv, Control, Data, Unmade, NEW p \in Processes, Step(p) \/ Kill(p)
  PROVE  /\ \A t \in Tasks : \A d : ~ IsInterval(t) /\ Has(t, d) => Has(t, d)'
         /\ \A d : AllHave(d) => AllHave(d)'
         /\ \A d : RunKept(d) => RunKept(d)'
<1>0. plan' = plan /\ Tasks \subseteq Tables /\ Graph \in Tables  BY PlanStays DEF Tables
<1>1. \A f : IsInterval(f)' <=> IsInterval(f)  BY <1>0 DEF IsInterval
<1>2. \A f \in Tables : ~ IsInterval(f) => Keys(file[f].lines) \subseteq Keys(file'[f].lines)  BY FileKeys
<1>3. \A f \in Tables : file[f].made => file'[f].made  BY MadeStays
<1>4. \A t \in Tasks : \A d : ~ IsInterval(t) /\ Has(t, d) => Has(t, d)'  BY <1>0, <1>2 DEF Has
<1>5. \A d : AllHave(d) => AllHave(d)'  BY <1>1, <1>4 DEF AllHave
<1>6. \A d : RunKept(d) => RunKept(d)'  BY <1>0, <1>1, <1>2, <1>3, <1>5 DEF RunKept
<1> QED  BY <1>4, <1>5, <1>6

\* The graph's file is that of recorded choices.
LEMMA GraphKeptStep ==
  ASSUME IInv, Control, Data, Records, NEW p \in Processes, Step(p) \/ Kill(p)
  PROVE  GraphKept'
<1>0. /\ plan' = plan /\ Graph \in Tables /\ Phase(p) /\ Unmade /\ GraphKept
      /\ PicksKept(p) /\ MemoryKept(p) /\ PicksRight(p)
      /\ file = [g \in Tables |-> file[g]] /\ \A g \in Tables : IsFile(file[g])
  BY PlanStays DEF IInv, Typed, Control, Records, Data, Tables
<1>1. \A f : IsInterval(f)' <=> IsInterval(f)  BY <1>0 DEF IsInterval
<1>2. \A d : AllHave(d) => AllHave(d)'  BY <1>0, HasStays
<1>3. CASE file'[Graph] = file[Graph]  BY <1>0, <1>1, <1>2, <1>3 DEF GraphKept
<1>4. CASE file'[Graph] # file[Graph]
  <2>1. cur[p] = Graph /\ pc[p] \in {"save", "saving"} \cup Adding
    BY <1>0, <1>4, FileChanges DEF Adding
  <2>2. CASE IsInterval(Graph)
    <3>1. pc[p] \in {"save", "saving"}  BY <1>0, <2>1, <2>2 DEF Phase, Adding
    <3>2. AllHave(0)  BY <1>0, <2>1, <2>2, <3>1 DEF MemoryKept, Ready
    <3> QED  BY <1>1, <1>2, <2>2, <3>2 DEF GraphKept
  <2>3. CASE ~ IsInterval(Graph)
    <3>1. pc[p] \in Adding  BY <1>0, <2>1, <2>3 DEF Phase
    <3>2. ASSUME NEW d \in Keys(file'[Graph].lines) PROVE AllHave(d)
      <4>1. CASE MakeFile(p)
        <5>1. file'[Graph] = EmptyFile  BY <1>0, <2>1, <4>1 DEF MakeFile
        <5>2. file'[Graph].lines = <<>>  BY <5>1 DEF EmptyFile
        <5> QED  BY <3>2, <5>2, KeysFacts
      <4>2. CASE Header(p)
        <5>1. PICK x : x = file[Graph] /\ IsFile(x) /\ file'[Graph] = [x EXCEPT !.header = TRUE]
          BY <1>0, <2>1, <4>2 DEF Header
        <5>2. file'[Graph].lines = file[Graph].lines  BY <5>1, RecordUpdates
        <5> QED  BY <1>0, <2>3, <3>2, <5>2 DEF GraphKept
      <4>3. CASE AppendGraph(p)
        <5>1. PICK line : line = Last(table[p][Graph])  OBVIOUS
        <5>2. file' = WithLine(Graph, line)  BY <1>4, <4>3, <5>1 DEF AppendGraph
        <5>3. Keys(file'[Graph].lines) = Keys(file[Graph].lines) \cup {line.key}
          BY <1>0, <2>3, <5>2, LineKeys
        <5>4. line.key \in Keys(table[p][Graph])
          <6>1. table[p][Graph] # <<>>  BY <1>0, <2>1, <3>1 DEF PicksRight, Adding
          <6>2. GraphsRight(p) /\ pc[p] \in Picking  BY <3>1 DEF Data, Adding, Picking
          <6>3. IsSeq(table[p][Graph])  BY <2>3, <6>2 DEF GraphsRight, GraphRight
          <6> QED  BY <5>1, <6>1, <6>3, KeysFacts
        <5>5. AllHave(line.key)
          <6>1. Ready(p)  BY <2>3, <3>1 DEF Ready, Adding, Picking
          <6> QED  BY <1>0, <2>3, <5>4, <6>1 DEF MemoryKept
        <5> QED  BY <1>0, <2>3, <3>2, <5>3, <5>5 DEF GraphKept
      <4>4. CASE ~ (MakeFile(p) \/ Header(p) \/ AppendGraph(p))
        <5>1. file' = file
          <6>1. CASE OpenFile(p) \/ AppendGraphFails(p) \/ Kill(p)
            BY <6>1 DEF OpenFile, AppendGraphFails, Kill
          <6>2. CASE ~ (OpenFile(p) \/ AppendGraphFails(p) \/ Kill(p))
            BY <2>1, <3>1, <4>4, <6>2
               DEF Step, Start, LoadLocked, LookFinds, LookMisses, Read, ReadFails, MeasureAll, Fill, Save, Saved,
                   PickKnown, PickUnknown, Measure, AppendTask, PopulatePart, Run, FastPath, SlowPath, Update,
                   ClearTable, Exit, At, Adding, LooksNow
          <6> QED  BY <6>1, <6>2
        <5> QED  BY <1>4, <5>1
      <4> QED  BY <4>1, <4>2, <4>3, <4>4
    <3> QED  BY <1>1, <1>2, <2>3, <3>2 DEF GraphKept
  <2> QED  BY <2>2, <2>3
<1> QED  BY <1>3, <1>4

\* What the other processes know stays in the files.
LEMMA RecordsOthers ==
  ASSUME IInv, Control, Data, Records, NEW p \in Processes, Step(p) \/ Kill(p),
         NEW q \in Processes, Same(q), ran'[q] = ran[q]
  PROVE  (TasksKept(q) /\ PicksKept(q) /\ MemoryKept(q) /\ RunsKept(q))'
<1>0. /\ plan' = plan /\ Graph \in Tables /\ Tasks \subseteq Tables /\ Unmade
      /\ TasksKept(q) /\ PicksKept(q) /\ MemoryKept(q) /\ RunsKept(q)
  BY PlanStays DEF Records, Tables
<1>1. \A f : IsInterval(f)' <=> IsInterval(f)  BY <1>0 DEF IsInterval
<1>2. /\ \A t \in Tasks : \A d : ~ IsInterval(t) /\ Has(t, d) => Has(t, d)'
      /\ \A d : AllHave(d) => AllHave(d)'
      /\ \A d : RunKept(d) => RunKept(d)'
  BY <1>0, HasStays
<1>3. \A f \in Tables : ~ IsInterval(f) => Keys(file[f].lines) \subseteq Keys(file'[f].lines)
  BY <1>0, FileKeys
<1>4. /\ pc'[q] = pc[q] /\ cur'[q] = cur[q] /\ table'[q] = table[q] /\ todo'[q] = todo[q]
      /\ Dim(q)' = Dim(q)
  BY DEF Same, Dim
<1>5. TasksKept(q)'  BY <1>0, <1>1, <1>3, <1>4 DEF TasksKept, Loaded
<1>6. PicksKept(q)'
  <2>1. ASSUME NEW t \in Tasks, pc'[q] \in Picking, cur'[q] = Graph \/ t < cur'[q], ~ IsInterval(t)
        PROVE  Has(t, Dim(q))'
    <3>1. PICK d : d = Dim(q)  OBVIOUS
    <3>2. Has(t, d)  BY <1>0, <1>4, <2>1, <3>1 DEF PicksKept
    <3>3. Has(t, d)'  BY <1>2, <2>1, <3>2
    <3> QED  BY <1>4, <3>1, <3>3 DEF Has, Key
  <2> QED  BY <1>0, <1>1, <1>4, <2>1 DEF PicksKept
<1>7. MemoryKept(q)'
  <2>1. Ready(q)' => Ready(q)  BY <1>1, <1>4 DEF Ready
  <2>2. CASE IsInterval(Graph)  BY <1>0, <1>1, <1>2, <2>1, <2>2 DEF MemoryKept
  <2>3. CASE ~ IsInterval(Graph)
    <3>1. Keys(file[Graph].lines) \subseteq Keys(file'[Graph].lines)  BY <1>0, <1>3, <2>3
    <3>2. ASSUME Ready(q)', NEW d \in Keys(table[q][Graph])
          PROVE  AllHave(d)' /\ \/ d \in Keys(file'[Graph].lines)
                                \/ pc[q] \in Adding /\ cur[q] = Graph /\ d = Head(todo[q])
      <4>1. AllHave(d) /\ \/ d \in Keys(file[Graph].lines)
                          \/ pc[q] \in Adding /\ cur[q] = Graph /\ d = Head(todo[q])
        BY <1>0, <2>1, <2>3, <3>2 DEF MemoryKept
      <4> QED  BY <1>2, <3>1, <4>1
    <3> QED  BY <1>1, <1>4, <2>3, <3>2 DEF MemoryKept
  <2> QED  BY <2>2, <2>3
<1>8. RunsKept(q)'  BY <1>0, <1>2 DEF RunsKept
<1> QED  BY <1>5, <1>6, <1>7, <1>8

LEMMA TasksKeptStep ==
  ASSUME IInv, Control, Data, Records, NEW p \in Processes, Step(p) \/ Kill(p)
  PROVE  TasksKept(p)'
<1>0. /\ plan' = plan /\ Unmade /\ TasksKept(p) /\ Phase(p) /\ TasksRight(p) /\ PicksRight(p)
      /\ pc \in [Processes -> Labels]
  BY PlanStays DEF IInv, Typed, Data, Control, Records
<1>1. \A f : IsInterval(f)' <=> IsInterval(f)  BY <1>0 DEF IsInterval
<1>2. ASSUME NEW t \in Tasks, Loaded(p, t)', ~ IsInterval(t), NEW key \in Keys(table'[p][t])
      PROVE  \/ key \in Keys(file'[t].lines)
             \/ pc'[p] \in Adding /\ cur'[p] = t /\ key = Key(t, Dim(p)')
  <2>0. t \in Tables /\ t # Graph  BY TaskFacts
  <2>1. Keys(file[t].lines) \subseteq Keys(file'[t].lines)  BY <1>0, <1>2, <2>0, FileKeys
  <2>2. \/ Loaded(p, t) /\ table'[p][t] = table[p][t]
        \/ /\ t = cur[p]
           /\ \/ LookMisses(p) /\ table'[p][t] = <<>>
              \/ Read(p) /\ table'[p][t] = file[t].lines
              \/ Saved(p) \/ Measure(p)
    BY <1>2, LoadedFrom
  <2>3. CASE t = cur[p] /\ LookMisses(p) /\ table'[p][t] = <<>>  BY <1>2, <2>3, KeysFacts
  <2>4. CASE t = cur[p] /\ Read(p) /\ table'[p][t] = file[t].lines  BY <1>2, <2>1, <2>4
  <2>5. CASE t = cur[p] /\ Saved(p)
    <3>1. pc[p] = "saving"  BY <2>5 DEF Saved, At
    <3> QED  BY <1>0, <1>2, <2>5, <3>1 DEF Phase
  <2>6. CASE t = cur[p] /\ Measure(p)
    <3>1. Keys(table'[p][t]) = Keys(table[p][t]) \cup {Key(t, Dim(p))}  BY <2>6, MeasureRight
    <3>2. pc[p] = "measure" /\ pc'[p] = "append" /\ cur' = cur /\ job' = job /\ part' = part /\ todo' = todo
      BY <1>0, <2>6 DEF Measure, At, GoTo
    <3>3. Dim(p)' = Dim(p)  BY <3>2 DEF Dim
    <3>4. Loaded(p, t)  BY <3>2 DEF Loaded, Loading, Ending
    <3>5. CASE key \in Keys(table[p][t])
      <4>1. key \in Keys(file[t].lines)  BY <1>0, <1>2, <3>2, <3>4, <3>5 DEF TasksKept, Adding
      <4> QED  BY <2>1, <4>1
    <3>6. CASE key = Key(t, Dim(p))  BY <2>6, <3>2, <3>3, <3>6 DEF Adding
    <3> QED  BY <1>2, <3>1, <3>5, <3>6
  <2>7. CASE Loaded(p, t) /\ table'[p][t] = table[p][t]
    <3>1. \/ key \in Keys(file[t].lines)
          \/ pc[p] \in Adding /\ cur[p] = t /\ key = Key(t, Dim(p))
      BY <1>0, <1>2, <2>7 DEF TasksKept
    <3>2. CASE key \in Keys(file[t].lines)  BY <2>1, <3>2
    <3>3. CASE pc[p] \in Adding /\ cur[p] = t /\ key = Key(t, Dim(p))
      <4>1. CASE MakeFile(p) \/ Header(p) \/ OpenFile(p)
        <5>1. /\ pc'[p] \in Adding /\ cur' = cur /\ job' = job /\ part' = part /\ todo' = todo
          BY <1>0, <4>1 DEF MakeFile, Header, OpenFile, GoTo, Adding, memory
        <5>2. Dim(p)' = Dim(p)  BY <5>1 DEF Dim
        <5> QED  BY <3>3, <5>1, <5>2
      <4>2. CASE AppendTask(p)
        <5>1. Last(table[p][t]).key = Key(t, Dim(p))  BY <1>0, <2>0, <3>3 DEF PicksRight, Adding
        <5>2. Last(table[p][t]).key \in Keys(file'[t].lines)  BY <1>0, <3>3, <4>2, FileKeys
        <5> QED  BY <3>3, <5>1, <5>2
      <4>3. CASE Kill(p)
        <5>1. pc'[p] = "killed"  BY <1>0, <4>3 DEF Kill, GoTo
        <5> QED  BY <1>2, <5>1 DEF Loaded, Ending
      <4>4. CASE ~ (MakeFile(p) \/ Header(p) \/ OpenFile(p) \/ AppendTask(p) \/ Kill(p))
        BY <2>0, <3>3, <4>4
           DEF Step, Start, LoadLocked, LookFinds, LookMisses, Read, ReadFails, MeasureAll, Fill, Save, Saved,
               PickKnown, PickUnknown, Measure, PopulatePart, Run, FastPath, SlowPath, Update, AppendGraph,
               AppendGraphFails, ClearTable, Exit, At, Adding, LooksNow
      <4> QED  BY <4>1, <4>2, <4>3, <4>4
    <3> QED  BY <3>1, <3>2, <3>3
  <2> QED  BY <2>2, <2>3, <2>4, <2>5, <2>6, <2>7
<1> QED  BY <1>1, <1>2 DEF TasksKept

LEMMA PicksKeptStep ==
  ASSUME IInv, Control, Data, Records, NEW p \in Processes, Step(p) \/ Kill(p)
  PROVE  PicksKept(p)'
<1>0. /\ plan' = plan /\ Unmade /\ TasksKept(p) /\ PicksKept(p) /\ Phase(p) /\ PicksRight(p)
      /\ cur[p] \in Tables /\ Kept /\ Graph \in Tables
      /\ pc \in [Processes -> Labels] /\ cur \in [Processes -> Tables]
      /\ \A t \in Tasks : t \in Nat \ {0}
  BY PlanStays, TaskFacts DEF IInv, Typed, Data, Control, Records, Tables
<1>1. \A f : IsInterval(f)' <=> IsInterval(f)  BY <1>0 DEF IsInterval
<1>2. \A t \in Tasks : \A d : ~ IsInterval(t) /\ Has(t, d) => Has(t, d)'  BY <1>0, HasStays
\* Not picking any more, or at the first task.
<1>3. CASE pc'[p] \notin Picking \/ (cur'[p] = 1 /\ pc'[p] \notin Adding)
  <2>1. ASSUME NEW t \in Tasks, pc'[p] \in Picking PROVE cur'[p] # Graph /\ ~ (t < cur'[p])
    <3>1. cur'[p] = 1 /\ t \in Nat \ {0}  BY <1>0, <1>3, <2>1
    <3> QED  BY <3>1 DEF Graph
  <2>2. pc'[p] \notin Adding  BY <1>3 DEF Picking, Adding
  <2> QED  BY <2>1, <2>2 DEF PicksKept
<1>4. CASE PickKnown(p) \/ AppendTask(p)
  <2>1. PICK t, c : t \in Tasks /\ t = cur[p] /\ AfterPick(p, t, c)  BY <1>4, ChosenRight
  <2> t \in Tasks  BY <2>1
  <2>2. job' = job /\ part' = part /\ todo' = todo  BY <1>4 DEF PickKnown, AppendTask
  <2>3. PICK d : d = Dim(p) /\ Dim(p)' = d  BY <2>2 DEF Dim
  <2>4. /\ pc'[p] \in {"pick", "picked"}
        /\ IF t + 1 \in Tasks THEN cur'[p] = t + 1 ELSE cur'[p] = Graph
    BY <1>0, <2>1 DEF AfterPick, GoTo
  <2>5. t \in Nat \ {0} /\ pc[p] \in Picking /\ t \in Tables /\ t # Graph
    BY <1>0, <1>4, TaskFacts DEF PickKnown, AppendTask, At, Picking
  <2>6. ~ IsInterval(t) => Key(t, d) \in Keys(file'[t].lines)
    <3> SUFFICES ASSUME ~ IsInterval(t) PROVE Key(t, d) \in Keys(file'[t].lines)  OBVIOUS
    <3>1. CASE PickKnown(p)
      <4>1. symbol[p] = d  BY <1>0, <2>3, <2>5, SymbolIsDim
      <4>2. Key(t, d) \in Keys(table[p][t]) /\ pc[p] = "pick"
        BY <2>1, <3>1, <4>1 DEF PickKnown, Known, Contains, PickKey, At
      <4>3. Loaded(p, t)  BY <4>2 DEF Loaded, Loading, Ending
      <4>4. Key(t, d) \in Keys(file[t].lines)  BY <1>0, <4>2, <4>3 DEF TasksKept, Adding
      <4>5. Keys(file[t].lines) \subseteq Keys(file'[t].lines)  BY <1>0, <2>5, FileKeys
      <4> QED  BY <4>4, <4>5
    <3>2. CASE AppendTask(p)
      <4>1. pc[p] = "appending"  BY <3>2 DEF AppendTask, At
      <4>2. Last(table[p][t]).key = Key(t, d)  BY <1>0, <2>1, <2>3, <2>5, <4>1 DEF PicksRight
      <4>3. Last(table[p][t]).key \in Keys(file'[t].lines)  BY <1>0, <2>1, <3>2, FileKeys
      <4> QED  BY <4>2, <4>3
    <3> QED  BY <1>4, <3>1, <3>2
  <2>7. ASSUME NEW u \in Tasks, cur'[p] = Graph \/ u < cur'[p], ~ IsInterval(u) PROVE Has(u, d)'
    <3>1. CASE u = t  BY <2>6, <2>7, <3>1 DEF Has
    <3>2. CASE u # t
      <4>1. u < t
        <5>1. u \in Nat \ {0}  BY <1>0
        <5>2. CASE t + 1 \in Tasks
          <6>1. cur'[p] = t + 1 /\ cur'[p] # Graph  BY <2>4, <2>5, <5>2 DEF Graph
          <6>2. u < t + 1  BY <2>7, <6>1
          <6> QED  BY <2>5, <3>2, <5>1, <6>2
        <5>3. CASE t + 1 \notin Tasks
          <6>1. u <= t  BY <5>3, TaskFacts
          <6> QED  BY <2>5, <3>2, <5>1, <6>1
        <5> QED  BY <5>2, <5>3
      <4>2. Has(u, d)  BY <1>0, <2>1, <2>3, <2>5, <2>7, <4>1 DEF PicksKept
      <4> QED  BY <1>2, <2>7, <4>2
    <3> QED  BY <3>1, <3>2
  <2>8. ASSUME NEW u \in Tasks, cur'[p] = Graph \/ u < cur'[p], ~ IsInterval(u) PROVE Has(u, Dim(p))'
    BY <2>3, <2>7, <2>8 DEF Has, Key
  <2>9. pc'[p] \notin Adding  BY <2>4 DEF Adding
  <2> QED  BY <1>1, <2>8, <2>9 DEF PicksKept
\* At the same task.
<1>5. CASE PickUnknown(p) \/ Measure(p) \/ MakeFile(p) \/ Header(p) \/ OpenFile(p) \/ Update(p)
  <2>1. /\ job' = job /\ part' = part /\ todo' = todo /\ cur' = cur /\ pc[p] \in Picking
    BY <1>5 DEF PickUnknown, Measure, MakeFile, Header, OpenFile, Update, memory, At, Picking
  <2>2. PICK d : d = Dim(p) /\ Dim(p)' = d  BY <2>1 DEF Dim
  <2>3. ASSUME NEW t \in Tasks, cur'[p] = Graph \/ t < cur'[p], ~ IsInterval(t) PROVE Has(t, Dim(p))'
    <3>1. Has(t, d)  BY <1>0, <2>1, <2>2, <2>3 DEF PicksKept
    <3>2. Has(t, d)'  BY <1>2, <2>3, <3>1
    <3> QED  BY <2>2, <3>2 DEF Has, Key
  <2>4. ASSUME pc'[p] \in Adding, cur'[p] = Graph PROVE Last(table'[p][Graph]).key = Head(todo'[p])
    <3>1. CASE PickUnknown(p)
      <4>1. pc'[p] = "measure"  BY <1>0, <3>1 DEF PickUnknown, GoTo
      <4> QED  BY <2>4, <4>1 DEF Adding
    <3>2. CASE Measure(p)
      <4>1. cur[p] # Graph  BY <3>2, MeasureRight, TaskFacts
      <4> QED  BY <2>1, <2>4, <4>1
    <3>3. CASE Update(p)
      <4>1. PICK lines : lines = table'[p][Graph]  OBVIOUS
      <4>2. Last(lines).key = Head(todo[p])  BY <3>3, <4>1, LineAdded
      <4> QED  BY <2>1, <4>1, <4>2
    <3>4. CASE MakeFile(p) \/ Header(p) \/ OpenFile(p)
      <4>1. pc[p] \in Adding /\ table' = table  BY <3>4 DEF MakeFile, Header, OpenFile, At, memory, Adding
      <4> QED  BY <1>0, <2>1, <2>4, <4>1 DEF PicksKept
    <3> QED  BY <1>5, <3>1, <3>2, <3>3, <3>4
  <2> QED  BY <1>1, <2>3, <2>4 DEF PicksKept
<1>6. CASE Fill(p) \/ SlowPath(p)
  <2>1. pc'[p] = "pick" /\ cur'[p] = 1  BY <1>0, <1>6 DEF Fill, SlowPath, GoTo
  <2> QED  BY <1>3, <2>1 DEF Adding
<1>7. CASE PopulatePart(p)
  <2>1. (pc'[p] = "pick" /\ cur'[p] = 1) \/ pc'[p] = "save"  BY <1>0, <1>7 DEF PopulatePart, GoTo
  <2> QED  BY <1>3, <2>1 DEF Picking, Adding
<1>8. CASE \/ Start(p) \/ LoadLocked(p) \/ LookFinds(p) \/ LookMisses(p) \/ Read(p) \/ ReadFails(p)
           \/ MeasureAll(p) \/ Save(p) \/ Saved(p) \/ Run(p) \/ FastPath(p) \/ AppendGraph(p)
           \/ AppendGraphFails(p) \/ ClearTable(p) \/ Exit(p) \/ Kill(p)
  <2>1. pc'[p] \notin Picking  BY <1>8, NotPicking
  <2> QED  BY <1>3, <2>1
<1> QED  BY <1>4, <1>5, <1>6, <1>7, <1>8 DEF Step

\* What a process has in memory to run with is what it had, or was read, or is new.
LEMMA ReadyFrom ==
  ASSUME IInv, Control, Data, NEW p \in Processes, Step(p) \/ Kill(p), Ready(p)'
  PROVE  \/ /\ Ready(p) /\ ~ Update(p) /\ ~ PopulatePart(p)
            /\ ~ IsInterval(Graph) => table'[p][Graph] = table[p][Graph]
         \/ Read(p) /\ cur[p] = Graph /\ table'[p][Graph] = file[Graph].lines
         \/ LookMisses(p) /\ cur[p] = Graph /\ ~ IsInterval(Graph) /\ table'[p][Graph] = <<>>
         \/ PopulatePart(p)
         \/ Update(p)
<1>0. /\ cur[p] \in Tables /\ Graph \in Tables /\ Phase(p)
      /\ pc \in [Processes -> Labels] /\ cur \in [Processes -> Tables] /\ Kept /\ plan' = plan
  BY PlanStays DEF IInv, Typed, Control, Tables
<1>i. \A f : IsInterval(f)' <=> IsInterval(f)  BY <1>0 DEF IsInterval
<1>t. \A f \in Tables :
        \/ table'[p][f] = table[p][f]
        \/ pc[p] \in PutsAt /\ f = cur[p]
        \/ pc[p] \in {"picked", "idle"} /\ f = Graph
  BY <1>0, MyTables
<1>r. /\ pc'[p] \in {"running", "idle", "save", "saving"} \cup Picking
      /\ pc'[p] = "idle" => table'[p][Graph] # Nobody
      /\ pc'[p] \in {"save", "saving"} => cur'[p] = Graph
      /\ pc'[p] \in Picking => ~ IsInterval(Graph)
  BY <1>i DEF Ready, Picking
<1>1. CASE \/ Start(p) \/ LoadLocked(p) \/ LookFinds(p) \/ ReadFails(p) \/ AppendGraphFails(p)
           \/ Kill(p) \/ Exit(p)
  <2>1. pc'[p] \notin {"running", "idle", "save", "saving"} \cup Picking
    BY <1>0, <1>1 DEF Start, LoadLocked, LookFinds, ReadFails, AppendGraphFails, Kill, Exit, Fail, Load,
                      GoTo, Picking
  <2> QED  BY <1>r, <2>1
<1>2. CASE MeasureAll(p)
  <2>1. pc[p] = "measure all" /\ pc'[p] = "save" /\ cur' = cur  BY <1>0, <1>2 DEF MeasureAll, At, GoTo
  <2> QED  BY <1>0, <1>r, <2>1 DEF Phase
<1>3. CASE Fill(p)
  <2>1. pc[p] = "fill" /\ pc'[p] = "pick"  BY <1>0, <1>3 DEF Fill, At, GoTo
  <2> QED  BY <1>0, <1>r, <2>1 DEF Phase, Picking
<1>4. CASE ClearTable(p)
  <2>1. pc'[p] = "idle" /\ table'[p][Graph] = Nobody  BY <1>0, <1>4, MyTables DEF ClearTable, At
  <2> QED  BY <1>r, <2>1
<1>5. CASE LookMisses(p)
  <2>1. cur[p] = Graph /\ ~ IsInterval(Graph)
    <3>1. CASE IsInterval(cur[p])
      <4>1. pc'[p] \in {"fill", "measure all"}  BY <1>0, <1>5, <3>1 DEF LookMisses, GoTo
      <4> QED  BY <1>r, <4>1 DEF Picking
    <3>2. CASE ~ IsInterval(cur[p]) /\ cur[p] # Graph
      <4>1. pc'[p] = "load"  BY <1>0, <1>5, <3>2, NextLabels DEF LookMisses
      <4> QED  BY <1>r, <4>1 DEF Picking
    <3> QED  BY <3>1, <3>2
  <2>2. table'[p][cur[p]] = <<>>  BY <1>0, <1>5, MyTables DEF LookMisses
  <2> QED  BY <1>5, <2>1, <2>2
<1>6. CASE Read(p)
  <2>1. cur[p] = Graph
    <3>1. CASE cur[p] # Graph
      <4>1. pc'[p] = "load"  BY <1>0, <1>6, <3>1, NextLabels DEF Read
      <4> QED  BY <1>r, <4>1 DEF Picking
    <3> QED  BY <3>1
  <2>2. table'[p][cur[p]] = file[cur[p]].lines  BY <1>0, <1>6, MyTables DEF Read
  <2> QED  BY <1>6, <2>1, <2>2
<1>7. CASE Save(p) \/ Saved(p)
  <2>1. cur[p] = Graph
    <3>1. CASE Save(p)  BY <1>0, <1>r, <3>1 DEF Save, GoTo
    <3>2. CASE Saved(p) /\ cur[p] # Graph
      <4>1. pc'[p] = "load"  BY <1>0, <3>2, NextLabels DEF Saved
      <4> QED  BY <1>r, <4>1 DEF Picking
    <3> QED  BY <1>7, <3>1, <3>2
  <2>2. pc[p] \in {"save", "saving"} /\ table' = table  BY <1>7 DEF Save, Saved, At, memory
  <2>3. ~ Update(p) /\ ~ PopulatePart(p)  BY <2>2 DEF Update, PopulatePart, At
  <2> QED  BY <2>1, <2>2, <2>3 DEF Ready
<1>8. CASE Run(p)
  <2>1. pc[p] = "idle" /\ table' = table /\ pc'[p] \in {"load", "running"}
        /\ (pc'[p] = "running" => table[p][Graph] # Nobody)
    BY <1>0, <1>8 DEF Run, At, Load, GoTo
  <2>2. table[p][Graph] # Nobody  BY <1>r, <2>1 DEF Picking
  <2>3. ~ Update(p) /\ ~ PopulatePart(p)  BY <2>1 DEF Update, PopulatePart, At
  <2> QED  BY <2>1, <2>2, <2>3 DEF Ready
<1>9. CASE FastPath(p) \/ SlowPath(p)
  <2>1. pc[p] = "running" /\ table' = table  BY <1>9 DEF FastPath, SlowPath, At
  <2>2. ~ Update(p) /\ ~ PopulatePart(p)  BY <2>1 DEF Update, PopulatePart, At
  <2> QED  BY <2>1, <2>2 DEF Ready
<1>10. CASE \/ PickKnown(p) \/ PickUnknown(p) \/ Measure(p) \/ MakeFile(p) \/ Header(p)
            \/ OpenFile(p) \/ AppendTask(p) \/ AppendGraph(p)
  <2>1. pc[p] \in Picking \ {"picked"} /\ (pc[p] = "measure" => cur[p] # Graph)
    BY <1>0, <1>10
       DEF PickKnown, PickUnknown, Measure, MakeFile, Header, OpenFile, AppendTask, AppendGraph, At, Picking, Phase
  <2>2. ~ IsInterval(Graph)
    <3>1. CASE AppendGraph(p)
      <4>1. pc[p] = "appending" /\ cur[p] = Graph  BY <3>1 DEF AppendGraph, At
      <4> QED  BY <1>0, <4>1 DEF Phase
    <3>2. CASE ~ AppendGraph(p)
      <4>1. pc'[p] \in Picking
        BY <1>0, <1>10, <3>2
           DEF PickKnown, PickUnknown, Measure, MakeFile, Header, OpenFile, AppendTask, AfterPick, GoTo, Picking
      <4> QED  BY <1>r, <4>1
    <3> QED  BY <3>1, <3>2
  <2>3. table'[p][Graph] = table[p][Graph]  BY <1>0, <1>t, <2>1 DEF Picking, PutsAt
  <2>4. ~ Update(p) /\ ~ PopulatePart(p)  BY <2>1 DEF Update, PopulatePart, At
  <2> QED  BY <2>1, <2>2, <2>3, <2>4 DEF Ready
<1> QED
  BY <1>1, <1>2, <1>3, <1>4, <1>5, <1>6, <1>7, <1>8, <1>9, <1>10 DEF Step

LEMMA MemoryKeptStep ==
  ASSUME IInv, Control, Data, Records, NEW p \in Processes, Step(p) \/ Kill(p)
  PROVE  MemoryKept(p)'
<1>0. /\ plan' = plan /\ Unmade /\ GraphKept /\ PicksKept(p) /\ MemoryKept(p) /\ Phase(p)
      /\ cur[p] \in Tables /\ Graph \in Tables
      /\ pc \in [Processes -> Labels] /\ cur \in [Processes -> Tables]
  BY PlanStays DEF IInv, Typed, Control, Records, Tables
<1>1. \A f : IsInterval(f)' <=> IsInterval(f)  BY <1>0 DEF IsInterval
<1>2. \A d : AllHave(d) => AllHave(d)'  BY <1>0, HasStays
<1>3. ~ IsInterval(Graph) => Keys(file[Graph].lines) \subseteq Keys(file'[Graph].lines)  BY <1>0, FileKeys
<1> SUFFICES ASSUME Ready(p)'
             PROVE  IF IsInterval(Graph) THEN AllHave(0)'
                    ELSE \A d \in Keys(table'[p][Graph]) :
                           /\ AllHave(d)'
                           /\ \/ d \in Keys(file'[Graph].lines)
                              \/ pc'[p] \in Adding /\ cur'[p] = Graph /\ d = Head(todo'[p])
  BY <1>1 DEF MemoryKept
<1>4. CASE /\ Ready(p) /\ ~ Update(p) /\ ~ PopulatePart(p)
           /\ ~ IsInterval(Graph) => table'[p][Graph] = table[p][Graph]
  <2>1. CASE IsInterval(Graph)  BY <1>0, <1>2, <1>4, <2>1 DEF MemoryKept
  <2>2. CASE ~ IsInterval(Graph)
    <3>1. ASSUME NEW d \in Keys(table'[p][Graph])
          PROVE  AllHave(d)' /\ \/ d \in Keys(file'[Graph].lines)
                                \/ pc'[p] \in Adding /\ cur'[p] = Graph /\ d = Head(todo'[p])
      <4>1. AllHave(d) /\ \/ d \in Keys(file[Graph].lines)
                          \/ pc[p] \in Adding /\ cur[p] = Graph /\ d = Head(todo[p])
        BY <1>0, <1>4, <2>2, <3>1 DEF MemoryKept
      <4>2. CASE d \in Keys(file[Graph].lines)  BY <1>2, <1>3, <2>2, <4>1, <4>2
      <4>3. CASE pc[p] \in Adding /\ cur[p] = Graph /\ d = Head(todo[p])
        <5>1. CASE MakeFile(p) \/ Header(p) \/ OpenFile(p)
          <6>1. pc'[p] \in Adding /\ cur' = cur /\ todo' = todo
            BY <1>0, <5>1 DEF MakeFile, Header, OpenFile, GoTo, Adding, memory
          <6> QED  BY <1>2, <4>1, <4>3, <6>1
        <5>2. CASE AppendGraph(p)
          <6>1. Last(table[p][Graph]).key = d  BY <1>0, <4>3 DEF PicksKept
          <6>2. Last(table[p][Graph]).key \in Keys(file'[Graph].lines)  BY <1>0, <4>3, <5>2, FileKeys
          <6> QED  BY <1>2, <4>1, <6>1, <6>2
        <5>3. CASE Kill(p) \/ AppendGraphFails(p)
          <6>1. pc'[p] \in {"killed", "failed"}
            BY <1>0, <5>3 DEF Kill, AppendGraphFails, Fail, GoTo
          <6> QED  BY <6>1 DEF Ready, Picking
        <5>4. CASE ~ (MakeFile(p) \/ Header(p) \/ OpenFile(p) \/ AppendGraph(p) \/ Kill(p) \/ AppendGraphFails(p))
          BY <4>3, <5>4
             DEF Step, Start, LoadLocked, LookFinds, LookMisses, Read, ReadFails, MeasureAll, Fill, Save, Saved,
                 PickKnown, PickUnknown, Measure, AppendTask, PopulatePart, Run, FastPath, SlowPath, Update,
                 ClearTable, Exit, At, Adding, LooksNow
        <5> QED  BY <5>1, <5>2, <5>3, <5>4
      <4> QED  BY <4>1, <4>2, <4>3
    <3> QED  BY <2>2, <3>1
  <2> QED  BY <2>1, <2>2
<1>5. CASE Read(p) /\ cur[p] = Graph /\ table'[p][Graph] = file[Graph].lines
  <2>1. CASE IsInterval(Graph)
    <3>1. file[Graph].header  BY <1>5, <2>1 DEF Read, Parses
    <3> QED  BY <1>0, <1>2, <2>1, <3>1 DEF GraphKept
  <2>2. CASE ~ IsInterval(Graph)  BY <1>0, <1>2, <1>3, <1>5, <2>2 DEF GraphKept
  <2> QED  BY <2>1, <2>2
<1>6. CASE LookMisses(p) /\ cur[p] = Graph /\ ~ IsInterval(Graph) /\ table'[p][Graph] = <<>>
  BY <1>6, KeysFacts
<1>7. CASE PopulatePart(p)
  <2>1. pc[p] = "picked" /\ pc[p] \in Picking /\ job[p] = "populate"  BY <1>7 DEF PopulatePart, At, Picking
  <2>2. IsInterval(Graph) /\ cur[p] = Graph  BY <1>0, <2>1, SymbolIsDim DEF Phase
  <2>3. ASSUME NEW t \in Tasks, ~ IsInterval(t) PROVE Has(t, 0)
    <3>1. Has(t, Dim(p))  BY <1>0, <2>1, <2>2, <2>3 DEF PicksKept
    <3>2. t \in Static  BY <2>2, <2>3 DEF IsInterval
    <3> QED  BY <3>1, <3>2 DEF Has, Key
  <2>4. AllHave(0)  BY <2>3 DEF AllHave
  <2> QED  BY <1>2, <2>2, <2>4
<1>8. CASE Update(p)
  <2>1. /\ pc[p] = "picked" /\ pc[p] \in Picking /\ job[p] = "slow" /\ pc[p] \notin Adding
        /\ pc'[p] \in Adding /\ cur' = cur /\ todo' = todo
    BY <1>0, <1>8 DEF Update, At, GoTo, Picking, Adding
  <2>2. cur[p] = Graph /\ ~ IsInterval(Graph) /\ Dim(p) = Head(todo[p])  BY <1>0, <2>1, SymbolIsDim DEF Phase
  <2>3. AllHave(Head(todo[p]))  BY <1>0, <2>1, <2>2 DEF PicksKept, AllHave
  <2>4. PICK lines : lines = table'[p][Graph]  OBVIOUS
  <2>5. Keys(lines) = Keys(table[p][Graph]) \cup {Head(todo[p])}  BY <1>8, <2>4, LineAdded
  <2>6. Ready(p)  BY <2>1, <2>2 DEF Ready
  <2>7. ASSUME NEW d \in Keys(lines)
        PROVE  AllHave(d)' /\ (d \in Keys(file'[Graph].lines) \/ d = Head(todo[p]))
    <3>1. CASE d = Head(todo[p])  BY <1>2, <2>3, <3>1
    <3>2. CASE d \in Keys(table[p][Graph])
      <4>1. AllHave(d) /\ d \in Keys(file[Graph].lines)  BY <1>0, <2>1, <2>2, <2>6, <3>2 DEF MemoryKept
      <4> QED  BY <1>2, <1>3, <2>2, <4>1
    <3> QED  BY <2>5, <2>7, <3>1, <3>2
  <2> QED  BY <2>1, <2>2, <2>4, <2>7
<1> QED  BY <1>0, <1>4, <1>5, <1>6, <1>7, <1>8, ReadyFrom

LEMMA RunsKeptStep ==
  ASSUME IInv, Control, Data, Records, NEW p \in Processes, Step(p) \/ Kill(p)
  PROVE  /\ ran' = [q \in Processes |-> ran'[q]] /\ \A q \in Processes \ {p} : ran'[q] = ran[q]
         /\ RunsKept(p)'
<1>0. /\ Unmade /\ PicksKept(p) /\ MemoryKept(p) /\ RunsKept(p) /\ Phase(p) /\ TasksRight(p) /\ HeadersMade
      /\ ran = [q \in Processes |-> ran[q]] /\ plan' = plan /\ Graph \in Tables /\ Tasks \subseteq Tables
  BY PlanStays DEF Control, Data, Records, Tables
<1>1. \A d : RunKept(d) => RunKept(d)'  BY <1>0, HasStays
<1>2. CASE FastPath(p) \/ AppendGraph(p)
  <2>1. PICK d : d = Head(todo[p])  OBVIOUS
  <2>2. ran' = [ran EXCEPT ![p] = @ \union {d}]  BY <1>2, <2>1 DEF FastPath, AppendGraph, Returned
  <2>3. /\ ran' = [q \in Processes |-> ran'[q]] /\ \A q \in Processes \ {p} : ran'[q] = ran[q]
        /\ ran'[p] = ran[p] \cup {d}
    BY <1>0, <2>2
  <2>4. RunKept(d)'
    <3>1. CASE FastPath(p)
      <4>1. pc[p] = "running" /\ Contains(Graph, table[p][Graph], d)  BY <2>1, <3>1 DEF FastPath, At
      <4>2. Ready(p) /\ pc[p] \notin Adding  BY <4>1 DEF Ready, Adding
      <4>3. ASSUME NEW t \in Tasks, IsInterval(t) PROVE file[t].made
        <5>1. Loaded(p, t)  BY <4>1 DEF Loaded, Loading, Ending
        <5>2. file[t].header  BY <1>0, <4>3, <5>1 DEF TasksRight
        <5> QED  BY <1>0, <5>2 DEF HeadersMade
      <4>4. CASE IsInterval(Graph)
        <5>1. AllHave(0)  BY <1>0, <4>2, <4>4 DEF MemoryKept
        <5>2. AllHave(d)
          <6> SUFFICES ASSUME NEW t \in Tasks, ~ IsInterval(t) PROVE Has(t, d)  BY DEF AllHave
          <6>1. t \in Static  BY <4>4 DEF IsInterval
          <6>2. Has(t, 0)  BY <5>1 DEF AllHave
          <6> QED  BY <6>1, <6>2 DEF Has, Key
        <5>3. file[Graph].made  BY <1>0, <4>1, <4>4 DEF Phase
        <5>4. RunKept(d)  BY <4>3, <4>4, <5>2, <5>3 DEF RunKept
        <5> QED  BY <1>1, <5>4
      <4>5. CASE ~ IsInterval(Graph)
        <5>1. d \in Keys(table[p][Graph])  BY <4>1, <4>5 DEF Contains
        <5>2. AllHave(d) /\ d \in Keys(file[Graph].lines)  BY <1>0, <4>2, <4>5, <5>1 DEF MemoryKept
        <5>3. RunKept(d)  BY <4>3, <4>5, <5>2 DEF RunKept
        <5> QED  BY <1>1, <5>3
      <4> QED  BY <4>4, <4>5
    <3>2. CASE AppendGraph(p)
      <4>1. pc[p] = "appending" /\ cur[p] = Graph /\ pc[p] \in Picking /\ pc[p] \in Adding
        BY <3>2 DEF AppendGraph, At, Picking, Adding
      <4>2. ~ IsInterval(Graph)  BY <1>0, <4>1 DEF Phase
      <4>3. Dim(p) = d  BY <1>0, <2>1, <4>1, <4>2, SymbolIsDim DEF Phase
      <4>4. AllHave(d)  BY <1>0, <4>1, <4>3 DEF PicksKept, AllHave
      <4>5. AllHave(d)'  BY <1>0, <4>4, HasStays
      <4>6. \A t \in Tasks : ~ IsInterval(t)
        BY <4>2, TasksAssumption, TaskFacts DEF IsInterval
      <4>7. Last(table[p][Graph]).key = d  BY <1>0, <2>1, <4>1 DEF PicksKept
      <4>8. Last(table[p][Graph]).key \in Keys(file'[Graph].lines)  BY <1>0, <3>2, <4>1, FileKeys
      <4>9. \A f : IsInterval(f)' <=> IsInterval(f)  BY <1>0 DEF IsInterval
      <4> QED  BY <4>2, <4>5, <4>6, <4>7, <4>8, <4>9 DEF RunKept
    <3> QED  BY <1>2, <3>1, <3>2
  <2>5. RunsKept(p)'
    <3> SUFFICES ASSUME NEW e \in ran'[p] PROVE RunKept(e)'  BY DEF RunsKept
    <3>1. CASE e = d  BY <2>4, <3>1 DEF RunKept, AllHave, Has, Key
    <3>2. CASE e \in ran[p]  BY <1>0, <1>1, <3>2 DEF RunsKept
    <3> QED  BY <2>3, <3>1, <3>2
  <2> QED  BY <2>3, <2>5
<1>3. CASE ~ (FastPath(p) \/ AppendGraph(p))
  <2>1. ran' = ran
    BY <1>3
       DEF Step, Kill, Start, LoadLocked, LookFinds, LookMisses, Read, ReadFails, MeasureAll, Fill, Save, Saved,
           PickKnown, PickUnknown, Measure, MakeFile, Header, OpenFile, AppendTask, PopulatePart, Run,
           SlowPath, Update, AppendGraphFails, ClearTable, Exit, memory
  <2>2. RunsKept(p)'  BY <1>0, <1>1, <2>1 DEF RunsKept
  <2> QED  BY <1>0, <2>1, <2>2
<1> QED  BY <1>2, <1>3

LEMMA RecordsInit == Init => Records
<1> SUFFICES ASSUME Init PROVE Records  OBVIOUS
<1>1. /\ file = [f \in Tables |-> NoFile] /\ ran = [p \in Processes |-> {}]
      /\ table = [p \in Processes |-> [f \in Tables |-> <<>>]] /\ pc = [p \in Processes |-> "start"]
  BY DEF Init
<1>2. \A f \in Tables : file[f].lines = <<>> /\ ~ file[f].header  BY <1>1 DEF NoFile
<1>3. Unmade /\ GraphKept
  <2>1. Graph \in Tables  BY DEF Tables
  <2> QED  BY <1>2, <2>1, KeysFacts DEF Unmade, GraphKept
<1>4. ASSUME NEW p \in Processes
      PROVE  TasksKept(p) /\ PicksKept(p) /\ MemoryKept(p) /\ RunsKept(p)
  <2>1. pc[p] = "start" /\ ran[p] = {}  BY <1>1
  <2>2. TasksKept(p)  BY <2>1 DEF TasksKept, Loaded
  <2>3. PicksKept(p)  BY <2>1 DEF PicksKept, Picking, Adding
  <2>4. MemoryKept(p)  BY <2>1 DEF MemoryKept, Ready, Picking
  <2>5. RunsKept(p)  BY <2>1 DEF RunsKept
  <2> QED  BY <2>2, <2>3, <2>4, <2>5
<1>5. ran = [p \in Processes |-> ran[p]]  BY <1>1
<1> QED  BY <1>3, <1>4, <1>5 DEF Records

LEMMA RecordsStep ==
  ASSUME Fit, Records, NEW p \in Processes, Step(p) \/ Kill(p)
  PROVE  Records'
<1>0. IInv /\ Control /\ Data  BY DEF Fit
<1>1. Unmade'  BY <1>0, FileKeys DEF Records
<1>2. GraphKept'  BY <1>0, GraphKeptStep
<1>3. /\ ran' = [q \in Processes |-> ran'[q]] /\ \A q \in Processes \ {p} : ran'[q] = ran[q]
      /\ RunsKept(p)'
  BY <1>0, RunsKeptStep
<1>4. Kept /\ Phase(p)  BY <1>0 DEF Control
<1>5. \A q \in Processes \ {p} : Same(q)  BY <1>0, <1>4, OthersKeep
<1>6. ASSUME NEW q \in Processes
      PROVE  (TasksKept(q) /\ PicksKept(q) /\ MemoryKept(q) /\ RunsKept(q))'
  <2>1. CASE q = p
    <3>1. TasksKept(p)'  BY <1>0, TasksKeptStep
    <3>2. PicksKept(p)'  BY <1>0, PicksKeptStep
    <3>3. MemoryKept(p)'  BY <1>0, MemoryKeptStep
    <3> QED  BY <1>3, <2>1, <3>1, <3>2, <3>3
  <2>2. CASE q # p
    <3>1. Same(q) /\ ran'[q] = ran[q]  BY <1>3, <1>5, <2>2
    <3> QED  BY <1>0, <3>1, RecordsOthers
  <2> QED  BY <2>1, <2>2
<1> QED  BY <1>1, <1>2, <1>3, <1>6 DEF Records

LEMMA RecordsStutter == Records /\ UNCHANGED vars => Records'
<1> SUFFICES ASSUME Records, UNCHANGED vars PROVE Records'  OBVIOUS
<1>1. /\ plan' = plan /\ file' = file /\ table' = table /\ pc' = pc /\ cur' = cur /\ todo' = todo
      /\ job' = job /\ part' = part /\ ran' = ran
  BY DEF vars
<1>2. \A f : IsInterval(f)' <=> IsInterval(f)  BY <1>1 DEF IsInterval
<1>3. \A t, d : Has(t, d)' <=> Has(t, d)  BY <1>1 DEF Has
<1>4. \A d : AllHave(d)' <=> AllHave(d)  BY <1>2, <1>3 DEF AllHave
<1>5. Unmade' /\ GraphKept'  BY <1>1, <1>2, <1>4 DEF Records, Unmade, GraphKept
<1>6. ASSUME NEW p \in Processes
      PROVE  (TasksKept(p) /\ PicksKept(p) /\ MemoryKept(p) /\ RunsKept(p))'
  <2>0. TasksKept(p) /\ PicksKept(p) /\ MemoryKept(p) /\ RunsKept(p)  BY DEF Records
  <2>1. Dim(p)' = Dim(p)  BY <1>1 DEF Dim
  <2>2. TasksKept(p)'  BY <1>1, <1>2, <2>0, <2>1 DEF TasksKept, Loaded
  <2>3. PicksKept(p)'
    <3>1. ASSUME NEW t \in Tasks, pc[p] \in Picking, cur[p] = Graph \/ t < cur[p], ~ IsInterval(t)
          PROVE  Has(t, Dim(p))'
      <4>1. Key(t, Dim(p)) \in Keys(file[t].lines)  BY <2>0, <3>1 DEF PicksKept, Has
      <4> QED  BY <1>1, <2>1, <4>1 DEF Has, Key
    <3> QED  BY <1>1, <1>2, <2>0, <3>1 DEF PicksKept
  <2>4. MemoryKept(p)'
    <3>1. Ready(p)' => Ready(p)  BY <1>1, <1>2 DEF Ready
    <3> QED  BY <1>1, <1>2, <1>4, <2>0, <3>1 DEF MemoryKept
  <2>5. RunsKept(p)'  BY <1>1, <1>2, <1>4, <2>0 DEF RunsKept, RunKept
  <2> QED  BY <2>2, <2>3, <2>4, <2>5
<1>7. (ran = [p \in Processes |-> ran[p]])'  BY <1>1 DEF Records
<1> QED  BY <1>5, <1>6, <1>7 DEF Records

\* What a process has in memory to run with, its files have, for the processes that come
\* later: a task's line is written before the graph's line that is made of it.
THEOREM RecordsInvariant == Spec => [](Fit /\ Records)
<1>1. Init => Records  BY RecordsInit
<1>2. Fit /\ Records /\ [Next]_vars => Records'
  <2> SUFFICES ASSUME Fit, Records, [Next]_vars PROVE Records'  OBVIOUS
  <2>1. CASE UNCHANGED vars  BY <2>1, RecordsStutter
  <2>2. CASE Next
    <3>1. PICK p \in Processes : Step(p) \/ Kill(p)  BY <2>2 DEF Next
    <3> QED  BY <3>1, RecordsStep
  <2> QED  BY <2>1, <2>2
<1> QED  BY <1>1, <1>2, DataInvariant, PTL DEF Spec

\* What a run that returned has used is in the files, unless a process was killed while
\* it rewrote one.
THEOREM EveryRunRecorded == Spec => []RunsAreRecorded
<1>1. Fit /\ Records => RunsAreRecorded
  <2> SUFFICES ASSUME Fit, Records, NEW p \in Processes, NEW d \in ran[p], NEW f \in Tables,
                      lock[f] = Nobody, ~ Torn(f)
               PROVE  Contains(f, file[f].lines, Key(f, d))
    BY DEF RunsAreRecorded
  <2>1. RunKept(d) /\ FilesRight  BY DEF Records, RunsKept, Fit, Data
  <2>2. Graph \notin Static  BY TasksAssumption, TaskFacts
  <2>3. \A lines : IsSeq(lines) /\ Len(lines) # 0 => lines # <<>>  OBVIOUS
  <2>4. CASE f = Graph /\ IsInterval(Graph)
    <3>1. file[Graph].header  BY <2>1, <2>4 DEF RunKept, Torn
    <3>2. RowsRight(file[Graph].lines, Last(Splits))  BY <2>1, <2>4, <3>1 DEF FilesRight, GraphRight
    <3>3. Last(Splits) # 0  BY HighBound, PartFacts
    <3> QED  BY <2>3, <2>4, <3>2, <3>3 DEF RowsRight, Contains
  <2>5. CASE f = Graph /\ ~ IsInterval(Graph)
    BY <2>1, <2>2, <2>5 DEF RunKept, Contains, Key
  <2>6. CASE f # Graph /\ IsInterval(f)
    <3>1. f \in Tasks  BY <2>6, TaskFacts
    <3>2. file[f].header  BY <2>1, <2>6, <3>1 DEF RunKept, Torn
    <3>3. IntervalsRight(f, file[f].lines)  BY <2>1, <2>6, <3>1, <3>2 DEF FilesRight
    <3>4. Len(Splits) # 0  BY SplitsAssumption
    <3> QED  BY <2>3, <2>6, <3>3, <3>4 DEF IntervalsRight, Contains
  <2>7. CASE f # Graph /\ ~ IsInterval(f)
    <3>1. f \in Tasks  BY <2>7, TaskFacts
    <3> QED  BY <2>1, <2>7, <3>1 DEF RunKept, AllHave, Has, Contains
  <2> QED  BY <2>4, <2>5, <2>6, <2>7
<1> QED  BY <1>1, RecordsInvariant, PTL

=============================================================================
