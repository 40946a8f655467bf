----------------------------- MODULE BuildProofs -----------------------------
(***************************************************************************)
(* Proofs about how operators are built: about the cache on disk           *)
(* (OpCache), for any number of processes, versions and kills, and about   *)
(* the processes of a parallel build (ParallelBuild), for any tasks,       *)
(* calls, batches, numbers of processes and kills.                         *)
(*                                                                         *)
(* A process inside the library's module holds its lock; the types are     *)
(* written by such a process, after the library, and a library with types  *)
(* is skipped: so that nobody writes it any more.                          *)
(*                                                                         *)
(* The permits of the semaphores are accounted for, and a task that fails  *)
(* through no fault of its own does so because of the queue that an        *)
(* earlier failure left set.                                               *)
(***************************************************************************)
EXTENDS OpCache, ParallelBuild, FiniteSetTheorems, TLAPS

-----------------------------------------------------------------------------
(* The operator cache.                                                      *)

File  == [state : {"no_directory", "absent", "partial", "complete"}, by : Nat, groups : 0 .. 2]

Labels == {"build_task", "check_module", "check_size", "from_scratch", "open_meta", "write_meta", "next",
           "acquire", "locked", "sizing", "compiling", "open_types", "write_types", "clean", "enter",
           "remove", "load_meta", "load_module", "done", "build_failed", "load_failed"}

Inside == {"locked", "sizing", "compiling", "open_types", "write_types"}

Typed ==
  /\ cast \in Casts
  /\ types \in {"absent", "partial", "complete"}
  /\ product \in [Modules -> File]
  /\ lock \in [Modules -> Procs \cup {Nobody}]
  /\ pc \in [Procs -> Labels]
  /\ at \in [Procs -> Modules]
  /\ todo \in [Procs -> SUBSET Groups]
  /\ left \in [Procs -> SUBSET {"object", "lock"}]

\* Who holds the lock of a module is inside it, and who is inside the library's
\* holds its lock.
Guarded ==
  /\ \A m \in Modules : lock[m] # Nobody => InModule(lock[m], m)
  /\ \A p \in Procs : InModule(p, Task) => lock[Task] = p

\* The types are written after the library, ...
Written == types # "absent" => Complete(Task)

\* ... by the process that builds it; what is removed is not the library.
Ordered == \A p \in Procs :
  /\ pc[p] = "compiling" /\ at[p] = Task => types = "absent"
  /\ pc[p] \in {"open_types", "write_types"} => at[p] = Task /\ Complete(Task)
  /\ pc[p] = "open_types" => types = "absent"
  /\ pc[p] = "write_types" => types = "partial"
  /\ pc[p] = "remove" => at[p] # Task

IInv == Typed /\ Guarded /\ Written /\ Ordered

-----------------------------------------------------------------------------
(* The facts that the steps rest on.                                        *)

LEMMA CastType ==
  ASSUME Typed, NEW p \in Procs
  PROVE  VersionOf(p) \in Nat \ {0} /\ GroupsOf(p) \in 0 .. 2 /\ Made(p) \in File /\ Linked(p) \in File
<1>1. VersionOf(p) \in Nat \ {0} /\ GroupsOf(p) \in 0 .. 2
  BY OpCacheAssumption DEF Typed, VersionOf, GroupsOf
<1>2. Made(p) \in File  BY <1>1 DEF Made, File
<1> QED  BY <1>1, <1>2 DEF Linked, Made, File

LEMMA FileTypes == NoDir \in File /\ Absent \in File /\ Partial \in File /\ Absent # NoDir
BY DEF NoDir, Absent, Partial, File

\* A step moves one process, to one of the labels, and leaves the casting alone.
LEMMA Moves ==
  ASSUME Typed, NEW p \in Procs, Step(p) \/ Crash(p)
  PROVE  /\ cast' = cast
         /\ \E label \in Labels : pc' = [pc EXCEPT ![p] = label]
         /\ \A q \in Procs \ {p} : pc'[q] = pc[q] /\ at'[q] = at[q] /\ todo'[q] = todo[q]
<1>1. cast' = cast  BY DEF Step, Crash
<1>2. \E label \in Labels : pc' = [pc EXCEPT ![p] = label]
  <2>1. CASE RemoveObject(p) \/ RemoveLock(p)
    <3>1. pc' = pc /\ pc[p] \in Labels  BY <2>1 DEF RemoveObject, RemoveLock, Typed
    <3>2. pc' = [pc EXCEPT ![p] = pc[p]]  BY <3>1 DEF Typed
    <3> QED  BY <3>1, <3>2
  <2>2. CASE Crash(p)  BY <2>2 DEF Crash, Goto, Labels
  <2>3. CASE CheckVersion(p) \/ CheckModule(p) \/ CheckSize(p) \/ WriteTaskFiles(p) \/ OpenMeta(p)
             \/ WriteMeta(p) \/ NextModule(p) \/ LoadMeta(p) \/ LoadModule(p)
    BY <2>3 DEF Goto, Labels, CheckVersion, CheckModule, CheckSize, WriteTaskFiles, OpenMeta, WriteMeta,
           NextModule, LoadMeta, LoadModule
  <2>4. CASE Acquire(p) \/ DirectoryGone(p) \/ Exists(p) \/ SizeFails(p) \/ SkipBuild(p) \/ Compile(p)
             \/ ObjectDone(p) \/ ObjectLost(p)
    BY <2>4 DEF Goto, Labels, After, Acquire, DirectoryGone, Exists, SizeFails, SkipBuild, Compile,
           ObjectDone, ObjectLost
  <2>5. CASE LibraryDone(p) \/ OpenTypes(p) \/ WriteTypes(p) \/ ListCandidates(p) \/ ListDirectory(p)
             \/ RemoveDirectory(p) \/ Cleaned(p)
    BY <2>5 DEF Goto, Labels, LibraryDone, OpenTypes, WriteTypes, ListCandidates, ListDirectory,
           RemoveDirectory, Cleaned
  <2> QED  BY <2>1, <2>2, <2>3, <2>4, <2>5 DEF Step
<1>3. \A q \in Procs \ {p} : pc'[q] = pc[q]  BY <1>2 DEF Typed
<1>4. \A q \in Procs \ {p} : at'[q] = at[q] /\ todo'[q] = todo[q]
  BY DEF Typed, Step, Crash, CheckVersion, CheckModule, CheckSize, WriteTaskFiles, OpenMeta, WriteMeta,
         NextModule, Acquire, DirectoryGone, Exists, SizeFails, SkipBuild, Compile, ObjectDone, ObjectLost,
         LibraryDone, OpenTypes, WriteTypes, ListCandidates, ListDirectory, RemoveObject, RemoveLock,
         RemoveDirectory, Cleaned, LoadMeta, LoadModule
<1> QED  BY <1>1, <1>2, <1>3, <1>4

\* No step leaves the types.
LEMMA TypedStep ==
  ASSUME Typed, NEW p \in Procs, Step(p) \/ Crash(p)
  PROVE  Typed'
<1>1. Task \in Modules /\ Groups \subseteq Modules  BY DEF Modules
<1>2. at[p] \in Modules  BY DEF Typed
<1>3. cast' \in Casts /\ pc' \in [Procs -> Labels]  BY Moves DEF Typed
<1>4. types' \in {"absent", "partial", "complete"}
  BY DEF Typed, Step, Crash, disk, CheckVersion, CheckModule, CheckSize, WriteTaskFiles, OpenMeta, WriteMeta,
         NextModule, Acquire, DirectoryGone, Exists, SizeFails, SkipBuild, Compile, ObjectDone, ObjectLost,
         LibraryDone, OpenTypes, WriteTypes, ListCandidates, ListDirectory, RemoveObject, RemoveLock,
         RemoveDirectory, Cleaned, LoadMeta, LoadModule
<1>5. at' \in [Procs -> Modules] /\ todo' \in [Procs -> SUBSET Groups]
      /\ left' \in [Procs -> SUBSET {"object", "lock"}]
  <2>1. CASE NextModule(p)
    <3>1. PICK m \in IF todo[p] = {} THEN {Task} ELSE todo[p] :
            at' = [at EXCEPT ![p] = m] /\ todo' = [todo EXCEPT ![p] = @ \ {m}] /\ left' = left
      BY <2>1 DEF NextModule
    <3>2. m \in Modules  BY <1>1 DEF Typed
    <3> QED  BY <3>1, <3>2 DEF Typed
  <2>2. CASE WriteMeta(p)
    <3>1. 1 .. GroupsOf(p) \subseteq Groups  BY CastType DEF Groups
    <3> QED  BY <2>2, <3>1 DEF Typed, WriteMeta
  <2>3. CASE ListDirectory(p)
    <3>1. PICK m \in todo[p] :
            /\ at' = [at EXCEPT ![p] = m] /\ todo' = [todo EXCEPT ![p] = @ \ {m}]
            /\ left' = [left EXCEPT ![p] = IF product[m] = NoDir THEN {} ELSE {"object", "lock"}]
      BY <2>3 DEF ListDirectory
    <3>2. m \in Modules  BY <1>1 DEF Typed
    <3> QED  BY <3>1, <3>2 DEF Typed
  <2>4. CASE ListCandidates(p) \/ RemoveObject(p) \/ RemoveLock(p) \/ Cleaned(p) \/ Crash(p)
    BY <1>1, <2>4 DEF Typed, ListCandidates, RemoveObject, RemoveLock, Cleaned, Crash
  <2>5. CASE ~ (NextModule(p) \/ WriteMeta(p) \/ ListDirectory(p) \/ ListCandidates(p) \/ RemoveObject(p)
                \/ RemoveLock(p) \/ Cleaned(p) \/ Crash(p))
    BY <2>5 DEF Typed, Step, CheckVersion, CheckModule, CheckSize, WriteTaskFiles, OpenMeta,
         Acquire, DirectoryGone, Exists, SizeFails, SkipBuild, Compile, ObjectDone, ObjectLost, LibraryDone,
         OpenTypes, WriteTypes, RemoveDirectory, LoadMeta, LoadModule
  <2> QED  BY <2>1, <2>2, <2>3, <2>4, <2>5
<1>6. lock' \in [Modules -> Procs \cup {Nobody}]
  BY <1>2 DEF Typed, Step, Crash, Release, CheckVersion, CheckModule, CheckSize, WriteTaskFiles, OpenMeta,
         WriteMeta, NextModule, Acquire, DirectoryGone, Exists, SizeFails, SkipBuild, Compile, ObjectDone,
         ObjectLost, LibraryDone, OpenTypes, WriteTypes, ListCandidates, ListDirectory, RemoveObject,
         RemoveLock, RemoveDirectory, Cleaned, LoadMeta, LoadModule
<1>7. product' \in [Modules -> File]
  <2>1. \A file \in File : [product EXCEPT ![at[p]] = file] \in [Modules -> File]
    BY <1>2 DEF Typed
  <2>2. CASE Acquire(p) \/ Compile(p) \/ RemoveObject(p) \/ RemoveDirectory(p)
    BY <2>1, <2>2, <1>2, FileTypes DEF Typed, Acquire, Compile, RemoveObject, RemoveDirectory, Make
  <2>3. CASE ObjectDone(p)
    BY <2>1, <2>3, CastType DEF Typed, ObjectDone, Make
  <2>4. CASE LibraryDone(p)
    <3>1. at[p] = Task  BY <2>4 DEF LibraryDone
    <3> QED  BY <2>1, <2>4, <3>1, CastType, FileTypes DEF LibraryDone, Make
  <2>5. CASE ~ (Acquire(p) \/ Compile(p) \/ RemoveObject(p) \/ RemoveDirectory(p) \/ ObjectDone(p)
                \/ LibraryDone(p))
    BY <2>5 DEF Typed, Step, Crash, disk, CheckVersion, CheckModule, CheckSize, WriteTaskFiles, OpenMeta,
         WriteMeta, NextModule, DirectoryGone, Exists, SizeFails, SkipBuild, ObjectLost, OpenTypes, WriteTypes,
         ListCandidates, ListDirectory, RemoveLock, Cleaned, LoadMeta, LoadModule
  <2> QED  BY <2>2, <2>3, <2>4, <2>5
<1> QED  BY <1>3, <1>4, <1>5, <1>6, <1>7 DEF Typed

\* The steps that end the stay of a process in a module, and release its lock, ...
Leaving(p) == \/ SkipBuild(p) \/ SizeFails(p) \/ DirectoryGone(p) \/ ObjectDone(p) \/ ObjectLost(p)
              \/ WriteTypes(p) \/ Crash(p) \/ (LibraryDone(p) /\ ~ Linkable(p))

LEMMA LeavingReleases ==
  ASSUME Typed, NEW p \in Procs, Leaving(p)
  PROVE  /\ pc'[p] \notin Inside
         /\ \A m \in Modules : lock'[m] = IF m = at[p] /\ lock[m] = p THEN Nobody ELSE lock[m]
<1>1. Release(p)
  BY DEF Leaving, SkipBuild, SizeFails, DirectoryGone, ObjectDone, ObjectLost, WriteTypes, Crash, LibraryDone
<1>2. pc'[p] \notin Inside
  BY DEF Leaving, SkipBuild, SizeFails, DirectoryGone, ObjectDone, ObjectLost, WriteTypes, Crash, LibraryDone,
         Inside, Goto, After, Typed
<1>3. at[p] \in Modules  BY DEF Typed
<1> QED  BY <1>1, <1>2, <1>3 DEF Release, Typed

\* ... those inside, and those outside.
Staying(p) == Exists(p) \/ Compile(p) \/ OpenTypes(p) \/ (LibraryDone(p) /\ Linkable(p))

LEMMA StayingHolds ==
  ASSUME Typed, NEW p \in Procs, Staying(p)
  PROVE  pc[p] \in Inside /\ pc'[p] \in Inside /\ at' = at /\ lock' = lock
BY DEF Staying, Exists, Compile, OpenTypes, LibraryDone, Inside, Goto, Typed

Elsewhere(p) ==
  \/ CheckVersion(p) \/ CheckModule(p) \/ CheckSize(p) \/ WriteTaskFiles(p) \/ OpenMeta(p) \/ WriteMeta(p)
  \/ NextModule(p) \/ ListCandidates(p) \/ ListDirectory(p) \/ RemoveObject(p) \/ RemoveDirectory(p)
  \/ Cleaned(p) \/ LoadMeta(p) \/ LoadModule(p)

LEMMA ElsewhereOutside ==
  ASSUME Typed, NEW p \in Procs, Elsewhere(p)
  PROVE  pc[p] \notin Inside /\ pc'[p] \notin Inside /\ lock' = lock
BY DEF Elsewhere, CheckVersion, CheckModule, CheckSize, WriteTaskFiles, OpenMeta, WriteMeta, NextModule,
       ListCandidates, ListDirectory, RemoveObject, RemoveDirectory, Cleaned, LoadMeta, LoadModule,
       Inside, Goto, Typed

LEMMA StepKinds ==
  ASSUME NEW p \in Procs, Step(p) \/ Crash(p)
  PROVE  Acquire(p) \/ RemoveLock(p) \/ Leaving(p) \/ Staying(p) \/ Elsewhere(p)
BY DEF Step, Leaving, Staying, Elsewhere

\* Who holds a lock is inside its module after each kind of step.
LEMMA GuardedStep ==
  ASSUME Typed, Guarded, Ordered, NEW p \in Procs, Step(p) \/ Crash(p)
  PROVE  Guarded'
<1>0. /\ at[p] \in Modules /\ Task \in Modules
      /\ \A q \in Procs \ {p} : pc'[q] = pc[q] /\ at'[q] = at[q]
  BY Moves DEF Typed, Modules
<1>a. \A q \in Procs, m \in Modules : InModule(q, m) <=> pc[q] \in Inside /\ at[q] = m
  BY DEF InModule, Inside
<1>b. \A q \in Procs, m \in Modules : InModule(q, m)' <=> pc'[q] \in Inside /\ at'[q] = m
  BY DEF InModule, Inside
<1>1. CASE Acquire(p)
  BY <1>0, <1>1, NobodyAssumption DEF Typed, Guarded, Acquire, Unlocked, InModule, Goto
<1>2. CASE Leaving(p)
  <2>1. \A q \in Procs, m \in Modules : InModule(q, m)' <=> InModule(q, m) /\ q # p
    BY <1>0, <1>a, <1>b, <1>2, LeavingReleases
  <2> QED  BY <1>0, <1>2, <2>1, LeavingReleases, <1>a DEF Typed, Guarded
<1>3. CASE Staying(p)
  <2>1. \A q \in Procs, m \in Modules : InModule(q, m)' <=> InModule(q, m)
    BY <1>0, <1>a, <1>b, <1>3, StayingHolds
  <2> QED  BY <1>0, <1>3, <2>1, StayingHolds DEF Typed, Guarded
<1>4. CASE Elsewhere(p)
  <2>1. \A q \in Procs, m \in Modules : InModule(q, m)' <=> InModule(q, m)
    BY <1>0, <1>a, <1>b, <1>4, ElsewhereOutside
  <2> QED  BY <1>0, <1>4, <2>1, ElsewhereOutside DEF Typed, Guarded
<1>5. CASE RemoveLock(p)
  <2>1. pc' = pc /\ at' = at /\ at[p] # Task
        /\ \A m \in Modules : lock'[m] = IF m = at[p] THEN Nobody ELSE lock[m]
    BY <1>0, <1>5 DEF RemoveLock, Ordered, Typed
  <2>2. \A q \in Procs, m \in Modules : InModule(q, m)' <=> InModule(q, m)
    BY <1>a, <1>b, <2>1
  <2> QED  BY <1>0, <2>1, <2>2 DEF Typed, Guarded
<1> QED  BY <1>1, <1>2, <1>3, <1>4, <1>5, StepKinds

-----------------------------------------------------------------------------
(* The library and its types.                                               *)

\* The steps that leave every file alone.
LEMMA SameFiles ==
  ASSUME NEW p \in Procs, Step(p) \/ Crash(p),
         ~ (Acquire(p) \/ Compile(p) \/ ObjectDone(p) \/ LibraryDone(p) \/ RemoveObject(p) \/ RemoveDirectory(p))
  PROVE  product' = product
BY DEF Step, Crash, disk, CheckVersion, CheckModule, CheckSize, WriteTaskFiles, OpenMeta, WriteMeta,
       NextModule, DirectoryGone, Exists, SizeFails, SkipBuild, ObjectLost, OpenTypes, WriteTypes,
       ListCandidates, ListDirectory, RemoveLock, Cleaned, LoadMeta, LoadModule

LEMMA SameTypes ==
  ASSUME NEW p \in Procs, Step(p) \/ Crash(p), ~ (OpenTypes(p) \/ WriteTypes(p))
  PROVE  types' = types
BY DEF Step, Crash, disk, CheckVersion, CheckModule, CheckSize, WriteTaskFiles, OpenMeta, WriteMeta,
       NextModule, Acquire, DirectoryGone, Exists, SizeFails, SkipBuild, Compile, ObjectDone, ObjectLost,
       LibraryDone, ListCandidates, ListDirectory, RemoveObject, RemoveLock, RemoveDirectory, Cleaned,
       LoadMeta, LoadModule

\* Only the process that builds the library changes it, and only while it has no types.
LEMMA LibraryStep ==
  ASSUME IInv, NEW p \in Procs, Step(p) \/ Crash(p), CompiledModuleExists
  PROVE  product'[Task] = product[Task]
<1>0. /\ at[p] \in Modules /\ Task \in Modules /\ product \in [Modules -> File]
      /\ There(Task) /\ types # "absent"
  BY DEF IInv, Typed, Modules, CompiledModuleExists
<1>1. CASE Acquire(p)
  <2>1. product[Task] # NoDir  BY <1>0 DEF There, NoDir
  <2> QED  BY <1>0, <1>1, <2>1 DEF Acquire
<1>2. CASE Compile(p)
  <2>1. at[p] # Task  BY <1>0, <1>2 DEF Compile, ShouldSkipBuild
  <2> QED  BY <1>0, <1>2, <2>1 DEF Compile, Make
<1>3. CASE ObjectDone(p)
  BY <1>0, <1>3 DEF ObjectDone, Make
<1>4. CASE LibraryDone(p)
  BY <1>0, <1>4 DEF LibraryDone, IInv, Ordered
<1>5. CASE RemoveObject(p) \/ RemoveDirectory(p)
  <2>1. at[p] # Task  BY <1>5 DEF RemoveObject, RemoveDirectory, IInv, Ordered
  <2> QED  BY <1>0, <1>5, <2>1 DEF RemoveObject, RemoveDirectory, Make
<1> QED  BY <1>1, <1>2, <1>3, <1>4, <1>5, SameFiles

LEMMA WrittenStep ==
  ASSUME IInv, NEW p \in Procs, Step(p) \/ Crash(p)
  PROVE  Written'
<1>1. CASE types # "absent"
  <2>1. Complete(Task)  BY <1>1 DEF IInv, Written
  <2>2. CompiledModuleExists  BY <1>1, <2>1 DEF CompiledModuleExists, Complete, There
  <2> QED  BY <2>1, <2>2, LibraryStep DEF Written, Complete
<1>2. CASE types = "absent" /\ types' # "absent"
  <2>1. (OpenTypes(p) \/ WriteTypes(p))  BY <1>2, SameTypes
  <2> QED  BY <2>1 DEF OpenTypes, WriteTypes, IInv, Ordered, Written, Complete
<1> QED  BY <1>1, <1>2 DEF Written

LEMMA OrderedStep ==
  ASSUME IInv, NEW p \in Procs, Step(p) \/ Crash(p)
  PROVE  Ordered'
<1> SUFFICES ASSUME NEW q \in Procs
             PROVE  /\ pc'[q] = "compiling" /\ at'[q] = Task => types' = "absent"
                    /\ pc'[q] \in {"open_types", "write_types"} => at'[q] = Task /\ Complete(Task)'
                    /\ pc'[q] = "open_types" => types' = "absent"
                    /\ pc'[q] = "write_types" => types' = "partial"
                    /\ pc'[q] = "remove" => at'[q] # Task
  BY DEF Ordered
<1>0. /\ Typed /\ Guarded /\ Written /\ Ordered
      /\ at[p] \in Modules /\ Task \in Modules /\ Task \notin Groups
      /\ \A r \in Procs \ {p} : pc'[r] = pc[r] /\ at'[r] = at[r]
  BY Moves DEF IInv, Typed, Modules, Groups, Task
\* A step of p that writes the library or its types is made inside the module.
<1>1. \/ types' = types /\ (Complete(Task) => Complete(Task)')
      \/ InModule(p, Task)
  <2>1. CASE OpenTypes(p) \/ WriteTypes(p)
    BY <1>0, <2>1 DEF OpenTypes, WriteTypes, InModule, Ordered
  <2>2. CASE (Compile(p) \/ LibraryDone(p)) /\ at[p] = Task
    BY <2>2 DEF Compile, LibraryDone, InModule
  <2>3. CASE (Compile(p) \/ ObjectDone(p)) /\ at[p] # Task
    BY <1>0, <2>3 DEF Compile, ObjectDone, Make, Typed, Complete
  <2>4. CASE Acquire(p)
    BY <1>0, <2>4 DEF Acquire, Typed, Complete, NoDir
  <2>5. CASE RemoveObject(p) \/ RemoveDirectory(p)
    <3>1. at[p] # Task  BY <1>0, <2>5 DEF RemoveObject, RemoveDirectory, Ordered
    <3> QED  BY <1>0, <2>5, <3>1 DEF RemoveObject, RemoveDirectory, Make, Typed, Complete
  <2>6. CASE ~ (Acquire(p) \/ Compile(p) \/ ObjectDone(p) \/ LibraryDone(p) \/ RemoveObject(p)
                \/ RemoveDirectory(p) \/ OpenTypes(p) \/ WriteTypes(p))
    BY <2>6, SameFiles, SameTypes DEF Complete
  <2>7. ObjectDone(p) => at[p] # Task  BY DEF ObjectDone
  <2>8. LibraryDone(p) => at[p] = Task  BY DEF LibraryDone
  <2> QED  BY <2>1, <2>2, <2>3, <2>4, <2>5, <2>6, <2>7, <2>8
<1>2. CASE q # p
  <2>1. pc'[q] = pc[q] /\ at'[q] = at[q]  BY <1>0, <1>2
  <2>2. CASE types' = types /\ (Complete(Task) => Complete(Task)')
    BY <1>0, <2>1, <2>2 DEF Ordered
  <2>3. CASE InModule(p, Task)
    <3>1. ~ InModule(q, Task)  BY <1>0, <1>2, <2>3 DEF Guarded
    <3>2. pc[q] \in {"open_types", "write_types"} => at[q] = Task  BY <1>0 DEF Ordered
    <3>3. pc[q] = "remove" => at[q] # Task  BY <1>0 DEF Ordered
    <3> QED  BY <2>1, <3>1, <3>2, <3>3 DEF InModule
  <2> QED  BY <1>1, <2>2, <2>3
<1>3. CASE q = p
  <2>1. CASE Compile(p)
    <3>1. pc'[p] = "compiling" /\ at' = at /\ types' = types
      BY <1>0, <2>1 DEF Compile, Goto, Typed
    <3>2. at[p] = Task => types = "absent"
      BY <1>0, <2>1 DEF Compile, ShouldSkipBuild, Written, Complete, There
    <3> QED  BY <1>3, <3>1, <3>2
  <2>2. CASE LibraryDone(p)
    <3>1. at'[p] = Task /\ types' = "absent"  BY <1>0, <2>2 DEF LibraryDone, Ordered
    <3>2. CASE Linkable(p)
      <4>1. product'[Task] = Linked(p) /\ pc'[p] = "open_types"
        BY <1>0, <2>2, <3>2 DEF LibraryDone, Make, Goto, Typed
      <4>2. Linked(p).state = "complete"  BY DEF Linked, Made
      <4> QED  BY <1>3, <3>1, <4>1, <4>2 DEF Complete
    <3>3. CASE ~ Linkable(p)
      BY <1>0, <1>3, <2>2, <3>3 DEF LibraryDone, Goto, Typed
    <3> QED  BY <3>2, <3>3
  <2>3. CASE OpenTypes(p)
    BY <1>0, <1>3, <2>3 DEF OpenTypes, Goto, Typed, Ordered, Complete
  <2>4. CASE ListDirectory(p)
    <3>1. PICK m \in todo[p] : at' = [at EXCEPT ![p] = m]  BY <2>4 DEF ListDirectory
    <3>2. at'[p] # Task /\ pc'[p] = "remove"
      BY <1>0, <2>4, <3>1 DEF ListDirectory, Goto, Typed
    <3> QED  BY <1>3, <3>2
  <2>5. CASE RemoveObject(p) \/ RemoveLock(p)
    BY <1>0, <1>3, <2>5 DEF RemoveObject, RemoveLock, Ordered
  <2>6. CASE Exists(p) \/ Acquire(p)
    BY <1>0, <1>3, <2>6 DEF Exists, Acquire, Goto, Typed
  <2>7. CASE Elsewhere(p) /\ ~ ListDirectory(p) /\ ~ RemoveObject(p)
    <3>1. pc'[p] \notin Inside  BY <1>0, <2>7, ElsewhereOutside
    <3>2. pc'[p] # "remove"
      BY <1>0, <2>7 DEF Elsewhere, CheckVersion, CheckModule, CheckSize, WriteTaskFiles, OpenMeta, WriteMeta,
             NextModule, ListCandidates, RemoveDirectory, Cleaned, LoadMeta, LoadModule, Goto, Typed
    <3> QED  BY <1>3, <3>1, <3>2 DEF Inside
  <2>8. CASE Leaving(p)
    <3>1. pc'[p] \notin Inside  BY <1>0, <2>8, LeavingReleases
    <3>2. pc'[p] # "remove"
      BY <1>0, <2>8 DEF Leaving, SkipBuild, SizeFails, DirectoryGone, ObjectDone, ObjectLost, WriteTypes, Crash,
             LibraryDone, After, Goto, Typed
    <3> QED  BY <1>3, <3>1, <3>2 DEF Inside
  <2> QED  BY <2>1, <2>2, <2>3, <2>4, <2>5, <2>6, <2>7, <2>8, StepKinds DEF Staying
<1> QED  BY <1>2, <1>3

-----------------------------------------------------------------------------
(* The theorems.                                                            *)

LEMMA InitKeeps == Init => IInv
<1> SUFFICES ASSUME Init PROVE IInv  OBVIOUS
<1>1. Task \in Modules  BY DEF Modules
<1>2. Typed
  <2>1. product \in [Modules -> File]  BY FileTypes DEF Init
  <2>2. /\ at \in [Procs -> Modules] /\ todo \in [Procs -> SUBSET Groups]
        /\ left \in [Procs -> SUBSET {"object", "lock"}]
    BY <1>1 DEF Init
  <2>3. pc \in [Procs -> Labels] /\ lock \in [Modules -> Procs \cup {Nobody}]  BY DEF Init, Labels
  <2> QED  BY <2>1, <2>2, <2>3 DEF Init, Typed
<1>3. Guarded  BY <1>1 DEF Init, Guarded, InModule
<1>4. Written /\ Ordered  BY DEF Init, Written, Ordered
<1> QED  BY <1>2, <1>3, <1>4 DEF IInv

LEMMA StepKeeps ==
  ASSUME IInv, NEW p \in Procs, Step(p) \/ Crash(p)
  PROVE  IInv'
BY TypedStep, GuardedStep, WrittenStep, OrderedStep DEF IInv

\* The invariant holds in every state: builders guard their directories with the
\* locks of build_ir_module, and write the types when the library is there.
THEOREM Inductive == Spec => []IInv
<1>1. IInv /\ [Next]_vars => IInv'
  <2> SUFFICES ASSUME IInv, [Next]_vars PROVE IInv'  OBVIOUS
  <2>1. CASE UNCHANGED vars
    BY <2>1 DEF vars, disk, proc, IInv, Typed, Guarded, Written, Ordered, InModule, Complete
  <2>2. ASSUME NEW p \in Procs, Step(p) \/ Crash(p) PROVE IInv'  BY <2>2, StepKeeps
  <2> QED  BY <2>1, <2>2 DEF Next, Terminated
<1> QED  BY <1>1, InitKeeps, PTL DEF Spec

\* Two processes never build the library of a task at the same time, however
\* many there are and whoever is killed, and who holds a lock is inside the
\* module it guards (FolderLock around build_ir_module).
THEOREM OneLibraryBuilder ==
  Spec => [](/\ \A p, q \in Procs : InModule(p, Task) /\ InModule(q, Task) => p = q
             /\ \A m \in Modules : lock[m] # Nobody => InModule(lock[m], m))
<1>1. IInv => /\ \A p, q \in Procs : InModule(p, Task) /\ InModule(q, Task) => p = q
              /\ \A m \in Modules : lock[m] # Nobody => InModule(lock[m], m)
  BY DEF IInv, Guarded
<1> QED  BY <1>1, Inductive, PTL

\* What compiled_module_exists takes for a finished library is one.
THEOREM LibraryFinished == Spec => []FoundIsComplete
<1>1. IInv => FoundIsComplete
  BY DEF IInv, Written, FoundIsComplete, CompiledModuleExists
<1> QED  BY <1>1, Inductive, PTL

\* A library that may have been found is never written again.
THEOREM LibraryUntouched == Spec => LibraryStays
<1>1. IInv /\ [Next]_vars => [CompiledModuleExists => product'[Task] = product[Task]]_vars
  <2> SUFFICES ASSUME IInv, [Next]_vars, CompiledModuleExists
               PROVE  product'[Task] = product[Task]
    OBVIOUS
  <2>1. CASE UNCHANGED vars  BY <2>1 DEF vars, disk
  <2>2. ASSUME NEW p \in Procs, Step(p) \/ Crash(p) PROVE product'[Task] = product[Task]
    BY <2>2, LibraryStep
  <2> QED  BY <2>1, <2>2 DEF Next, Terminated
<1> QED  BY <1>1, Inductive, PTL DEF Spec, LibraryStays

-----------------------------------------------------------------------------
(* Two processes.  While nobody is killed a process holds the lock of every   *)
(* module it is inside, but for rmtree, which takes the lock away from under  *)
(* it; of two processes the one that removes does not build any more.         *)

\* At most two processes build the same task at the same time.
AtMostTwo == \A p, q, r \in Procs : p = q \/ q = r \/ p = r

\* Who has found the library, or has built it, or has given up does not build any more.
Past(p) == pc[p] \in {"clean", "enter", "remove", "load_meta", "load_module", "done", "load_failed",
                      "build_failed"}

\* rmtree may take the lock away from under a process, which is then the only builder.
Locked == crashes = 0 => \A p \in Procs, m \in Modules : InModule(p, m) =>
  lock[m] = p \/ \A q \in Procs \ {p} : Past(q)

LEMMA StepFrame ==
  ASSUME Typed, NEW p \in Procs, Step(p)
  PROVE  /\ cast' = cast /\ crashes' = crashes
         /\ \A q \in Procs \ {p} : pc'[q] = pc[q] /\ at'[q] = at[q] /\ todo'[q] = todo[q]
<1>1. crashes' = crashes
  BY DEF Step, CheckVersion, CheckModule, CheckSize, WriteTaskFiles, OpenMeta, WriteMeta,
         NextModule, Acquire, DirectoryGone, Exists, SizeFails, SkipBuild, Compile, ObjectDone, ObjectLost,
         LibraryDone, OpenTypes, WriteTypes, ListCandidates, ListDirectory, RemoveObject, RemoveLock,
         RemoveDirectory, Cleaned, LoadMeta, LoadModule
<1> QED  BY <1>1, Moves

\* There is no way back to the build but a kill.
LEMMA PastStays ==
  ASSUME Typed, NEW p \in Procs, Step(p), Past(p)
  PROVE  Past(p)'
<1>1. CASE RemoveObject(p) \/ RemoveLock(p)  BY <1>1 DEF RemoveObject, RemoveLock, Past
<1>2. CASE ~ (RemoveObject(p) \/ RemoveLock(p))
  BY <1>2 DEF Typed, Past, Goto, Step, CheckVersion, CheckModule, CheckSize, WriteTaskFiles, OpenMeta,
       WriteMeta, NextModule, Acquire, DirectoryGone, Exists, SizeFails, SkipBuild, Compile, ObjectDone,
       ObjectLost, LibraryDone, OpenTypes, WriteTypes, ListCandidates, ListDirectory, RemoveDirectory,
       Cleaned, LoadMeta, LoadModule
<1> QED  BY <1>1, <1>2

\* A step takes a lock that is free, gives its own back, or removes a lock file.
LEMMA LockedStep ==
  ASSUME AtMostTwo, Typed, Locked, crashes = 0, NEW p \in Procs, Step(p)
  PROVE  Locked'
<1> SUFFICES ASSUME NEW r \in Procs, NEW m \in Modules, InModule(r, m)'
             PROVE  lock'[m] = r \/ \A q \in Procs \ {r} : Past(q)'
  BY DEF Locked
<1>1. \A q \in Procs \ {p} : pc'[q] = pc[q] /\ at'[q] = at[q]  BY StepFrame
<1>2. \A q \in Procs : Past(q) => Past(q)'  BY <1>1, PastStays DEF Past
<1>3. at[p] \in Modules /\ pc'[r] \in Inside /\ at'[r] = m  BY DEF Typed, InModule, Inside
<1>4. CASE Acquire(p)
  <2>1. /\ pc[p] = "acquire" /\ lock[at[p]] = Nobody /\ at' = at
        /\ \A x \in Modules : lock'[x] = IF x = at[p] THEN p ELSE lock[x]
    BY <1>3, <1>4 DEF Acquire, Unlocked, Typed
  <2>2. ~ Past(p)  BY <2>1 DEF Past
  <2>3. CASE r = p  BY <1>3, <2>1, <2>3
  <2>4. CASE r # p
    <3>1. InModule(r, m)  BY <1>1, <2>4 DEF InModule
    <3>2. lock[m] = r  BY <2>2, <2>4, <3>1 DEF Locked
    <3> QED  BY <2>1, <3>2, NobodyAssumption
  <2> QED  BY <2>3, <2>4
<1>5. CASE RemoveLock(p)
  <2>1. pc' = pc /\ pc[p] = "remove"  BY <1>5 DEF RemoveLock
  <2>2. Past(p)' /\ r # p  BY <1>3, <2>1 DEF Past, Inside
  <2> QED  BY <2>2 DEF AtMostTwo
<1>6. CASE Leaving(p)
  <2>1. /\ pc'[p] \notin Inside
        /\ \A x \in Modules : lock'[x] = IF x = at[p] /\ lock[x] = p THEN Nobody ELSE lock[x]
    BY <1>6, LeavingReleases
  <2>2. r # p  BY <1>3, <2>1
  <2>3. InModule(r, m)  BY <1>1, <2>2 DEF InModule
  <2> QED  BY <1>2, <2>1, <2>2, <2>3 DEF Locked
<1>7. CASE Staying(p) \/ Elsewhere(p)
  <2>1. lock' = lock /\ (pc'[p] \in Inside => pc[p] \in Inside /\ at' = at)
    BY <1>7, StayingHolds, ElsewhereOutside
  <2>2. InModule(r, m)
    <3>1. pc[r] \in Inside /\ at[r] = m  BY <1>1, <1>3, <2>1
    <3> QED  BY <3>1 DEF InModule, Inside
  <2> QED  BY <1>2, <2>1, <2>2 DEF Locked
<1> QED  BY <1>4, <1>5, <1>6, <1>7, StepKinds

TwoInv == IInv /\ Locked

LEMMA TwoStep ==
  ASSUME AtMostTwo, TwoInv, crashes \in Nat, [Next]_vars
  PROVE  TwoInv' /\ crashes' \in Nat
<1>1. CASE UNCHANGED vars
  BY <1>1 DEF TwoInv, IInv, Typed, Guarded, Written, Ordered, Locked, Past, InModule, Complete, vars, disk, proc
<1>2. ASSUME NEW p \in Procs, Crash(p) PROVE TwoInv' /\ crashes' \in Nat
  <2>1. IInv'  BY <1>2, StepKeeps DEF TwoInv
  <2>2. crashes' \in Nat /\ crashes' # 0  BY <1>2 DEF Crash
  <2> QED  BY <2>1, <2>2 DEF TwoInv, Locked
<1>3. ASSUME NEW p \in Procs, Step(p) PROVE TwoInv' /\ crashes' \in Nat
  <2>1. IInv'  BY <1>3, StepKeeps DEF TwoInv
  <2>2. crashes' = crashes  BY <1>3, StepFrame DEF TwoInv, IInv
  <2>3. CASE crashes = 0  BY <1>3, <2>1, <2>2, <2>3, LockedStep DEF TwoInv, IInv
  <2>4. CASE crashes # 0  BY <2>1, <2>2, <2>4 DEF TwoInv, Locked
  <2> QED  BY <2>3, <2>4
<1> QED  BY <1>1, <1>2, <1>3 DEF Next, Terminated

LEMMA TwoOneBuilder ==
  ASSUME TwoInv
  PROVE  OneBuilder
<1>1. ASSUME NEW p \in Procs, NEW q \in Procs, InModule(p, Task), InModule(q, Task) PROVE p = q
  BY <1>1 DEF TwoInv, IInv, Guarded
<1>2. ASSUME NEW p \in Procs, NEW q \in Procs, NEW m \in Modules, InModule(p, m), InModule(q, m), crashes = 0
      PROVE  p = q
  <2>1. ~ Past(p) /\ ~ Past(q)  BY <1>2 DEF InModule, Past
  <2> QED  BY <1>2, <2>1 DEF TwoInv, Locked
<1>3. \A m \in Modules : lock[m] # Nobody => InModule(lock[m], m)  BY DEF TwoInv, IInv, Guarded
<1> QED  BY <1>1, <1>2, <1>3 DEF OneBuilder

\* Of two processes, one at a time builds any module, as build_module.py:116-117 says,
\* as long as nobody is killed, and the library whoever is killed.
THEOREM OneBuilderOfTwo == AtMostTwo /\ Spec => []OneBuilder
<1> SUFFICES ASSUME AtMostTwo PROVE Spec => []OneBuilder  OBVIOUS
<1>1. Init => TwoInv /\ crashes \in Nat
  BY InitKeeps DEF Init, TwoInv, Locked, InModule
<1>2. (TwoInv /\ crashes \in Nat) /\ [Next]_vars => (TwoInv /\ crashes \in Nat)'
  BY TwoStep
<1>3. TwoInv => OneBuilder  BY TwoOneBuilder
<1> QED  BY <1>1, <1>2, <1>3, PTL DEF Spec

-----------------------------------------------------------------------------
(* Any number of processes that group the candidates alike, while nobody is   *)
(* killed and until the types are complete.  Nobody removes a directory yet,  *)
(* so that locks stay with their holders; an object file is half written only *)
(* by the one process at it, and is whole for every process that has it       *)
(* behind it; the linker finds every file it needs, and nobody fails.  From   *)
(* then on processes may fail, but the library is there for good.             *)

AtModule == {"acquire", "locked", "sizing", "compiling", "open_types", "write_types"}

\* A process has an object file behind it, built or skipped.
Behind(p, m) ==
  /\ pc[p] \in AtModule \cup {"next"} /\ m \notin todo[p]
  /\ ~ (at[p] = m /\ pc[p] \in {"acquire", "locked", "sizing", "compiling"})

\* The object files of a process, and the library after them; none removes, none fails.
Way(p) ==
  /\ todo[p] \subseteq 1 .. GroupsOf(p) /\ at[p] \in {Task} \cup 1 .. GroupsOf(p)
  /\ pc[p] \in AtModule /\ at[p] = Task => todo[p] = {}
  /\ pc[p] \notin {"clean", "enter", "remove", "build_failed"}

Writing == types = "partial" => \E p \in Procs : pc[p] = "write_types"

Holds == \A p \in Procs, m \in Modules : InModule(p, m) => lock[m] = p

\* What a process has seen is still there when it looks for its size.
Found == \A p \in Procs : /\ pc[p] = "sizing" => There(at[p])
                          /\ pc[p] = "check_size" => There(Task)

\* Object files are half written only by who is at it, and whole for whom they are behind.
Objects ==
  /\ \A p \in Procs : pc[p] = "compiling" /\ at[p] # Task => product[at[p]] = Partial
  /\ \A m \in Groups : product[m].state = "partial" =>
       \E p \in Procs : pc[p] = "compiling" /\ at[p] = m
  /\ \A m \in Groups, p \in Procs : Complete(m) => product[m].groups = GroupsOf(p)
  /\ \A p \in Procs, m \in Groups : m <= GroupsOf(p) /\ Behind(p, m) => Complete(m)

Early == Writing /\ Holds /\ Found /\ Objects /\ \A p \in Procs : Way(p)

Undisturbed == crashes = 0 /\ AllAlike /\ types # "complete" => Early

Alike == IInv /\ AllAlike /\ types # "complete" /\ Early

LEMMA HoldsAlone ==
  ASSUME Holds, NEW p \in Procs, NEW q \in Procs, NEW m \in Modules, InModule(p, m), InModule(q, m)
  PROVE  p = q
BY DEF Holds

\* Who links has every object file behind it.
LEMMA CanLink ==
  ASSUME Alike, NEW p \in Procs, pc[p] = "compiling", at[p] = Task
  PROVE  Linkable(p)
<1>1. todo[p] = {}  BY DEF Alike, Early, Way, AtModule
<1>2. GroupsOf(p) \in 0 .. 2  BY CastType DEF Alike, IInv
<1>3. ASSUME NEW m \in 1 .. GroupsOf(p) PROVE Complete(m) /\ product[m].groups = GroupsOf(p)
  <2>1. m \in Groups /\ m <= GroupsOf(p) /\ m # Task  BY <1>2 DEF Groups, Task
  <2>2. Behind(p, m)  BY <1>1, <2>1 DEF Behind, AtModule
  <2>3. Complete(m)  BY <2>1, <2>2 DEF Alike, Early, Objects
  <2> QED  BY <2>1, <2>3 DEF Alike, Early, Objects
<1> QED  BY <1>3 DEF Linkable

\* An object file that is skipped is whole: nobody else is at it.
LEMMA SkippedIsWhole ==
  ASSUME Alike, NEW p \in Procs, pc[p] = "sizing", at[p] # Task, There(at[p])
  PROVE  Complete(at[p])
<1>1. at[p] \in Groups /\ at[p] \in Modules  BY DEF Alike, IInv, Typed, Modules
<1>2. ASSUME product[at[p]].state = "partial" PROVE FALSE
  <2>1. PICK q \in Procs : pc[q] = "compiling" /\ at[q] = at[p]
    BY <1>1, <1>2 DEF Alike, Early, Objects
  <2>2. InModule(p, at[p]) /\ InModule(q, at[p])  BY <2>1 DEF InModule
  <2>3. p = q  BY <1>1, <2>2, HoldsAlone DEF Alike, Early
  <2> QED  BY <2>1, <2>3
<1> QED  BY <1>2 DEF There, Complete

\* The library is not skipped yet: who would skip it, holds the lock of who writes the types.
LEMMA NoLibrarySkipped ==
  ASSUME Alike, NEW p \in Procs, pc[p] = "sizing", at[p] = Task
  PROVE  types = "absent"
<1>1. ASSUME types = "partial" PROVE FALSE
  <2>1. PICK q \in Procs : pc[q] = "write_types"  BY <1>1 DEF Alike, Early, Writing
  <2>2. InModule(q, Task)  BY <2>1 DEF InModule, Alike, IInv, Ordered
  <2>3. InModule(p, Task) /\ Task \in Modules  BY DEF InModule, Modules
  <2>4. p = q  BY <2>2, <2>3, HoldsAlone DEF Alike, Early
  <2> QED  BY <2>1, <2>4
<1> QED  BY <1>1 DEF Alike, IInv, Typed

\* What a process may do, then.
LEMMA EarlySteps ==
  ASSUME Alike, NEW p \in Procs, Step(p), types' # "complete"
  PROVE  \/ CheckVersion(p) \/ CheckModule(p) \/ (CheckSize(p) /\ There(Task)) \/ WriteTaskFiles(p)
         \/ OpenMeta(p) \/ WriteMeta(p) \/ NextModule(p) \/ Acquire(p) \/ Exists(p)
         \/ (SkipBuild(p) /\ at[p] # Task) \/ Compile(p) \/ ObjectDone(p)
         \/ (LibraryDone(p) /\ Linkable(p)) \/ OpenTypes(p) \/ LoadMeta(p) \/ LoadModule(p)
<1>1. CheckSize(p) => There(Task)  BY DEF CheckSize, Alike, Early, Found
<1>2. ~ DirectoryGone(p)  BY DEF DirectoryGone, Alike, Early, Way
<1>3. ~ SizeFails(p)  BY DEF SizeFails, Alike, Early, Found
<1>4. SkipBuild(p) => at[p] # Task
  BY NoLibrarySkipped DEF SkipBuild, ShouldSkipBuild
<1>5. ~ ObjectLost(p)  BY DEF ObjectLost, Alike, Early, Objects, Absent, NoDir, Partial
<1>6. LibraryDone(p) => Linkable(p)  BY CanLink DEF LibraryDone
<1>7. ~ WriteTypes(p)  BY DEF WriteTypes
<1>8. /\ ~ ListCandidates(p) /\ ~ ListDirectory(p) /\ ~ RemoveObject(p) /\ ~ RemoveLock(p)
      /\ ~ RemoveDirectory(p) /\ ~ Cleaned(p)
  BY DEF Alike, Early, Way, ListCandidates, ListDirectory, RemoveObject, RemoveLock, RemoveDirectory, Cleaned
<1> QED  BY <1>1, <1>2, <1>3, <1>4, <1>5, <1>6, <1>7, <1>8 DEF Step

LEMMA HoldsStep ==
  ASSUME Alike, NEW p \in Procs, Step(p), types' # "complete"
  PROVE  Holds'
<1> SUFFICES ASSUME NEW r \in Procs, NEW m \in Modules, InModule(r, m)' PROVE lock'[m] = r
  BY DEF Holds
<1>0. Typed /\ Holds  BY DEF Alike, IInv, Early
<1>1. \A q \in Procs \ {p} : pc'[q] = pc[q] /\ at'[q] = at[q]  BY <1>0, StepFrame
<1>2. at[p] \in Modules /\ pc'[r] \in Inside /\ at'[r] = m  BY <1>0 DEF Typed, InModule, Inside
<1>3. CASE Acquire(p)
  <2>1. /\ lock[at[p]] = Nobody /\ at' = at
        /\ \A x \in Modules : lock'[x] = IF x = at[p] THEN p ELSE lock[x]
    BY <1>0, <1>2, <1>3 DEF Acquire, Unlocked, Typed
  <2>2. CASE r = p  BY <1>2, <2>1, <2>2
  <2>3. CASE r # p
    <3>1. InModule(r, m)  BY <1>1, <2>3 DEF InModule
    <3>2. lock[m] = r  BY <1>0, <3>1 DEF Holds
    <3> QED  BY <2>1, <3>2, NobodyAssumption
  <2> QED  BY <2>2, <2>3
<1>4. CASE Leaving(p)
  <2>1. r # p  BY <1>0, <1>2, <1>4, LeavingReleases
  <2>2. InModule(r, m)  BY <1>1, <2>1 DEF InModule
  <2>3. lock[m] = r  BY <1>0, <2>2 DEF Holds
  <2> QED  BY <1>0, <1>4, <2>1, <2>3, LeavingReleases
<1>5. CASE Staying(p) \/ Elsewhere(p)
  <2>1. lock' = lock /\ (pc'[p] \in Inside => pc[p] \in Inside /\ at' = at)
    BY <1>0, <1>5, StayingHolds, ElsewhereOutside
  <2>2. pc[r] \in Inside /\ at[r] = m  BY <1>1, <1>2, <2>1
  <2>3. InModule(r, m)  BY <2>2 DEF InModule, Inside
  <2> QED  BY <1>0, <2>1, <2>3 DEF Holds
<1>6. ~ RemoveLock(p)  BY DEF RemoveLock, Alike, Early, Way
<1> QED  BY <1>3, <1>4, <1>5, <1>6, StepKinds

LEMMA WritingStep ==
  ASSUME Alike, NEW p \in Procs, Step(p), types' # "complete"
  PROVE  Writing'
<1>0. Typed /\ Writing  BY DEF Alike, IInv, Early
<1>1. \A q \in Procs \ {p} : pc'[q] = pc[q]  BY <1>0, StepFrame
<1>2. CASE OpenTypes(p)  BY <1>0, <1>2 DEF OpenTypes, Goto, Typed, Writing
<1>3. CASE ~ OpenTypes(p)
  <2>1. ~ WriteTypes(p)  BY DEF WriteTypes
  <2>2. types' = types  BY <1>3, <2>1, SameTypes
  <2>3. pc[p] # "write_types"
    <3>1. pc[p] = "write_types" => ~ Step(p)
      BY <1>3, <2>1 DEF Step, CheckVersion, CheckModule, CheckSize, WriteTaskFiles, OpenMeta, WriteMeta,
         NextModule, Acquire, DirectoryGone, Exists, SizeFails, SkipBuild, Compile, ObjectDone, ObjectLost,
         LibraryDone, ListCandidates, ListDirectory, RemoveObject, RemoveLock,
         RemoveDirectory, Cleaned, LoadMeta, LoadModule
    <3> QED  BY <3>1
  <2> QED  BY <1>0, <1>1, <2>2, <2>3 DEF Writing
<1> QED  BY <1>2, <1>3

\* No file that is there goes.
LEMMA FilesStay ==
  ASSUME Alike, NEW p \in Procs, Step(p), types' # "complete", NEW m \in Modules, There(m)
  PROVE  There(m)'
<1>0. Typed /\ at[p] \in Modules  BY DEF Alike, IInv, Typed
<1>1. CASE Acquire(p)  BY <1>0, <1>1 DEF Acquire, Typed, There, NoDir
<1>2. CASE Compile(p)  BY <1>0, <1>2 DEF Compile, Make, Typed, There, Partial
<1>3. CASE ObjectDone(p)  BY <1>0, <1>3 DEF ObjectDone, Make, Typed, There, Made
<1>4. CASE LibraryDone(p) /\ Linkable(p)
  <2>1. Linked(p).state = "complete"  BY DEF Linked, Made
  <2> QED  BY <1>0, <1>4, <2>1 DEF LibraryDone, Make, Typed, There
<1>5. CASE ~ (Acquire(p) \/ Compile(p) \/ ObjectDone(p) \/ LibraryDone(p))
  <2>1. ~ RemoveObject(p) /\ ~ RemoveDirectory(p)
    BY DEF RemoveObject, RemoveDirectory, Alike, Early, Way
  <2> QED  BY <1>5, <2>1, SameFiles DEF There
<1>6. LibraryDone(p) => Linkable(p)  BY CanLink DEF LibraryDone
<1> QED  BY <1>1, <1>2, <1>3, <1>4, <1>5, <1>6

LEMMA FoundStep ==
  ASSUME Alike, NEW p \in Procs, Step(p), types' # "complete"
  PROVE  Found'
<1> SUFFICES ASSUME NEW q \in Procs
             PROVE  /\ pc'[q] = "sizing" => There(at[q])' /\ at'[q] = at[q]
                    /\ pc'[q] = "check_size" => There(Task)'
  BY DEF Found, There
<1>0. Typed /\ Found /\ at[q] \in Modules /\ Task \in Modules  BY DEF Alike, IInv, Early, Typed, Modules
<1>1. \A r \in Procs \ {p} : pc'[r] = pc[r] /\ at'[r] = at[r]  BY <1>0, StepFrame
<1>2. \A m \in Modules : There(m) => There(m)'  BY FilesStay
<1>3. CASE q # p  BY <1>0, <1>1, <1>2, <1>3 DEF Found, There
<1>4. CASE q = p /\ Exists(p)
  <2>1. There(at[p]) /\ at' = at /\ pc'[p] = "sizing"  BY <1>0, <1>4 DEF Exists, Goto, Typed
  <2> QED  BY <1>0, <1>2, <1>4, <2>1 DEF There
<1>5. CASE q = p /\ CheckModule(p)
  <2>1. pc'[p] # "sizing" /\ (pc'[p] = "check_size" => There(Task))
    BY <1>0, <1>5 DEF CheckModule, Goto, Typed
  <2> QED  BY <1>0, <1>2, <1>5, <2>1
<1>6. CASE q = p /\ ~ Exists(p) /\ ~ CheckModule(p)
  <2>1. pc'[p] \notin {"sizing", "check_size"}
    BY <1>0, <1>6, EarlySteps DEF CheckVersion, CheckSize, WriteTaskFiles, OpenMeta, WriteMeta,
         NextModule, Acquire, SkipBuild, Compile, ObjectDone, LibraryDone, OpenTypes,
         LoadMeta, LoadModule, After, Goto, Typed
  <2> QED  BY <1>6, <2>1
<1> QED  BY <1>3, <1>4, <1>5, <1>6

\* Each process on its way, with its object files in order.
LEMMA WayStep ==
  ASSUME Alike, NEW p \in Procs, Step(p), types' # "complete", NEW q \in Procs
  PROVE  Way(q)'
<1>0. Typed /\ Way(q) /\ Way(p) /\ GroupsOf(p) \in 0 .. 2 /\ at[p] \in Modules
  BY CastType DEF Alike, IInv, Early, Typed
<1>1. /\ cast' = cast
      /\ \A r \in Procs \ {p} : pc'[r] = pc[r] /\ at'[r] = at[r] /\ todo'[r] = todo[r]
  BY <1>0, StepFrame
<1>2. GroupsOf(q)' = GroupsOf(q)  BY <1>1 DEF GroupsOf
<1>4. CASE q # p  BY <1>0, <1>1, <1>2, <1>4 DEF Way
<1>5. CASE q = p /\ NextModule(p)
  <2>1. PICK m \in IF todo[p] = {} THEN {Task} ELSE todo[p] :
          at' = [at EXCEPT ![p] = m] /\ todo' = [todo EXCEPT ![p] = @ \ {m}]
    BY <1>5 DEF NextModule
  <2>2. at'[p] = m /\ todo'[p] = todo[p] \ {m} /\ pc'[p] = "acquire"
    BY <1>0, <1>5, <2>1 DEF NextModule, Goto, Typed
  <2>3. todo[p] \subseteq 1 .. GroupsOf(p)  BY <1>0 DEF Way
  <2>4. m \in {Task} \cup 1 .. GroupsOf(p) /\ (m = Task => todo'[p] = {})
    BY <2>1, <2>2, <2>3 DEF Task
  <2> QED  BY <1>2, <1>5, <2>2, <2>3, <2>4 DEF Way
<1>6. CASE q = p /\ WriteMeta(p)
  <2>1. at'[p] = at[p] /\ pc'[p] = "next" /\ todo'[p] = 1 .. GroupsOf(p)
    BY <1>0, <1>6 DEF WriteMeta, Goto, Typed
  <2> QED  BY <1>0, <1>2, <1>6, <2>1 DEF Way, AtModule
<1>7. CASE q = p /\ ~ NextModule(p) /\ ~ WriteMeta(p)
  <2>1. at' = at /\ todo' = todo
    BY <1>7, EarlySteps DEF CheckVersion, CheckModule, CheckSize, WriteTaskFiles, OpenMeta, Acquire, Exists,
           SkipBuild, Compile, ObjectDone, LibraryDone, OpenTypes, LoadMeta, LoadModule
  <2>2. /\ pc'[p] \in AtModule => pc[p] \in AtModule
        /\ pc'[p] \notin {"clean", "enter", "remove", "build_failed"}
    <3>1. CASE CheckVersion(p) \/ CheckModule(p) \/ (CheckSize(p) /\ There(Task)) \/ WriteTaskFiles(p)
               \/ OpenMeta(p) \/ LoadMeta(p) \/ LoadModule(p)
      BY <1>0, <3>1 DEF CheckVersion, CheckModule, CheckSize, WriteTaskFiles, OpenMeta, LoadMeta, LoadModule,
             Goto, Typed, AtModule
    <3>2. CASE Acquire(p) \/ Exists(p) \/ Compile(p) \/ ObjectDone(p) \/ OpenTypes(p)
      BY <1>0, <3>2 DEF Acquire, Exists, Compile, ObjectDone, OpenTypes, Goto, Typed, AtModule
    <3>3. CASE (SkipBuild(p) /\ at[p] # Task) \/ (LibraryDone(p) /\ Linkable(p))
      BY <1>0, <3>3 DEF SkipBuild, LibraryDone, After, Goto, Typed, AtModule
    <3> QED  BY <1>7, <3>1, <3>2, <3>3, EarlySteps
  <2> QED  BY <1>0, <1>2, <1>7, <2>1, <2>2 DEF Way
<1> QED  BY <1>4, <1>5, <1>6, <1>7

\* The steps that leave every object file, and who is at it, alone, and put none behind
\* their process that is not whole.
LEMMA ObjectsKept ==
  ASSUME Alike, NEW p \in Procs, Step(p),
         \A m \in Groups : product'[m] = product[m] \/ (product[m] = NoDir /\ product'[m] = Absent),
         pc'[p] = "compiling" /\ at'[p] # Task <=> pc[p] = "compiling" /\ at[p] # Task,
         pc[p] = "compiling" => at'[p] = at[p],
         \A m \in Groups : m <= GroupsOf(p) /\ Behind(p, m)' => Behind(p, m) \/ Complete(m)
  PROVE  Objects'
<1>0. Objects /\ Typed  BY DEF Alike, IInv, Early
<1>1. /\ cast' = cast
      /\ \A q \in Procs \ {p} : pc'[q] = pc[q] /\ at'[q] = at[q] /\ todo'[q] = todo[q]
  BY <1>0, StepFrame
<1>2. \A q \in Procs : GroupsOf(q)' = GroupsOf(q)  BY <1>1 DEF GroupsOf
<1>3. /\ \A m \in Groups : product'[m].state = "partial" => product[m].state = "partial"
      /\ \A m \in Groups : product[m] = Partial => product'[m] = Partial
      /\ \A m \in Groups : Complete(m)' <=> Complete(m)
      /\ \A m \in Groups : Complete(m) => product'[m] = product[m]
  BY DEF Complete, NoDir, Absent, Partial
<1>4. ASSUME NEW q \in Procs, pc'[q] = "compiling", at'[q] # Task PROVE product'[at'[q]] = Partial
  <2>1. pc[q] = "compiling" /\ at[q] # Task /\ at'[q] = at[q]  BY <1>1, <1>4
  <2>2. at[q] \in Groups  BY <1>0, <2>1 DEF Typed, Modules
  <2>3. product[at[q]] = Partial  BY <1>0, <2>1 DEF Objects
  <2> QED  BY <1>3, <2>1, <2>2, <2>3
<1>5. ASSUME NEW m \in Groups, product'[m].state = "partial"
      PROVE  \E q \in Procs : pc'[q] = "compiling" /\ at'[q] = m
  <2>1. PICK q \in Procs : pc[q] = "compiling" /\ at[q] = m  BY <1>0, <1>3, <1>5 DEF Objects
  <2>2. m # Task  BY DEF Groups, Task
  <2> QED  BY <1>1, <2>1, <2>2
<1>6. ASSUME NEW m \in Groups, NEW q \in Procs, Complete(m)' PROVE product'[m].groups = GroupsOf(q)'
  <2>1. Complete(m) /\ product'[m] = product[m]  BY <1>3, <1>6
  <2>2. product[m].groups = GroupsOf(q)  BY <1>0, <2>1 DEF Objects
  <2> QED  BY <1>2, <2>1, <2>2
<1>7. ASSUME NEW q \in Procs, NEW m \in Groups, m <= GroupsOf(q)', Behind(q, m)' PROVE Complete(m)'
  <2>1. m <= GroupsOf(q)  BY <1>2, <1>7
  <2>2. Behind(q, m) \/ Complete(m)
    <3>1. CASE q = p  BY <1>7, <2>1, <3>1
    <3>2. CASE q # p
      <4>1. pc'[q] = pc[q] /\ at'[q] = at[q] /\ todo'[q] = todo[q]  BY <1>1, <3>2
      <4> QED  BY <1>7, <4>1 DEF Behind
    <3> QED  BY <3>1, <3>2
  <2>3. Complete(m)  BY <1>0, <2>1, <2>2 DEF Objects
  <2> QED  BY <1>3, <2>3
<1> QED  BY <1>4, <1>5, <1>6, <1>7 DEF Objects

\* The steps that are at an object file.
LEMMA CompileObjects ==
  ASSUME Alike, NEW p \in Procs, Step(p), Compile(p), at[p] # Task
  PROVE  Objects'
<1>0. Typed /\ Objects /\ at[p] \in Groups /\ at[p] \in Modules
  BY DEF Alike, IInv, Typed, Modules, Early
<1>1. /\ cast' = cast
      /\ \A q \in Procs \ {p} : pc'[q] = pc[q] /\ at'[q] = at[q] /\ todo'[q] = todo[q]
  BY <1>0, StepFrame
<1>2. /\ pc[p] = "locked" /\ pc'[p] = "compiling" /\ at' = at /\ todo' = todo /\ ~ There(at[p])
      /\ product'[at[p]] = Partial /\ \A m \in Modules \ {at[p]} : product'[m] = product[m]
  BY <1>0 DEF Compile, ShouldSkipBuild, Make, Goto, Typed
<1>3. \A q \in Procs : GroupsOf(q)' = GroupsOf(q)  BY <1>1 DEF GroupsOf
<1>4. Groups \subseteq Modules /\ Task \notin Groups  BY DEF Modules, Groups, Task
<1>5. \A q \in Procs \ {p} : pc[q] = "compiling" => at[q] # at[p]
  <2>1. \A q \in Procs : pc[q] = "compiling" /\ at[q] # Task => product[at[q]] = Partial  BY <1>0 DEF Objects
  <2> QED  BY <1>2, <2>1 DEF There, Partial
<1>6. ASSUME NEW q \in Procs, pc'[q] = "compiling", at'[q] # Task PROVE product'[at'[q]] = Partial
  <2>1. CASE q = p  BY <1>2, <2>1
  <2>2. CASE q # p
    <3>1. pc[q] = "compiling" /\ at[q] # Task /\ at'[q] = at[q] /\ at[q] \in Modules \ {at[p]}
      BY <1>0, <1>1, <1>5, <1>6, <2>2 DEF Typed
    <3> QED  BY <1>0, <1>2, <3>1 DEF Objects
  <2> QED  BY <2>1, <2>2
<1>7. ASSUME NEW m \in Groups, product'[m].state = "partial"
      PROVE  \E q \in Procs : pc'[q] = "compiling" /\ at'[q] = m
  <2>1. CASE m = at[p]  BY <1>2, <2>1
  <2>2. CASE m # at[p]
    <3>1. PICK q \in Procs : pc[q] = "compiling" /\ at[q] = m  BY <1>0, <1>2, <1>4, <1>7, <2>2 DEF Objects
    <3> QED  BY <1>1, <1>2, <2>2, <3>1
  <2> QED  BY <2>1, <2>2
<1>8. \A m \in Groups : Complete(m)' => m # at[p] /\ Complete(m) /\ product'[m] = product[m]
  BY <1>2, <1>4 DEF Complete, Partial
<1>9. \A m \in Groups, q \in Procs : Complete(m)' => product'[m].groups = GroupsOf(q)'
  BY <1>0, <1>3, <1>8 DEF Objects
<1>10. ASSUME NEW q \in Procs, NEW m \in Groups, m <= GroupsOf(q)', Behind(q, m)' PROVE Complete(m)'
  <2>1. Behind(q, m)
    <3>1. CASE q = p  BY <1>2, <1>10, <3>1 DEF Behind, AtModule
    <3>2. CASE q # p  BY <1>1, <1>10, <3>2 DEF Behind
    <3> QED  BY <3>1, <3>2
  <2>2. Complete(m)  BY <1>0, <1>3, <1>10, <2>1 DEF Objects
  <2>3. m # at[p]  BY <1>2, <2>2 DEF Complete, There
  <2> QED  BY <1>2, <1>4, <2>2, <2>3 DEF Complete
<1> QED  BY <1>6, <1>7, <1>9, <1>10 DEF Objects

LEMMA ObjectDoneObjects ==
  ASSUME Alike, NEW p \in Procs, Step(p), ObjectDone(p)
  PROVE  Objects'
<1>0. /\ Typed /\ Objects /\ at[p] # Task /\ at[p] \in Groups /\ at[p] \in Modules
      /\ pc[p] = "compiling"
  BY DEF Alike, IInv, Typed, Modules, ObjectDone, Early
<1>1. /\ cast' = cast
      /\ \A q \in Procs \ {p} : pc'[q] = pc[q] /\ at'[q] = at[q] /\ todo'[q] = todo[q]
  BY <1>0, StepFrame
<1>2. /\ pc'[p] = "next" /\ at' = at /\ todo' = todo
      /\ product'[at[p]] = Made(p) /\ \A m \in Modules \ {at[p]} : product'[m] = product[m]
  BY <1>0 DEF ObjectDone, Make, Goto, Typed
<1>3. \A q \in Procs : GroupsOf(q)' = GroupsOf(q) /\ GroupsOf(q) = GroupsOf(p)
  BY <1>1 DEF GroupsOf, Alike, AllAlike
<1>4. Groups \subseteq Modules /\ Task \notin Groups  BY DEF Modules, Groups, Task
<1>5. Made(p).state = "complete" /\ Made(p).groups = GroupsOf(p) /\ Made(p).state # "partial"  BY DEF Made
<1>6. \A q \in Procs \ {p} : pc[q] = "compiling" => at[q] # at[p]
  <2> SUFFICES ASSUME NEW q \in Procs, pc[q] = "compiling", at[q] = at[p] PROVE q = p  OBVIOUS
  <2>1. InModule(p, at[p]) /\ InModule(q, at[p])  BY <1>0 DEF InModule
  <2> QED  BY <1>0, <2>1, HoldsAlone DEF Alike, Early
<1>7. ASSUME NEW q \in Procs, pc'[q] = "compiling", at'[q] # Task PROVE product'[at'[q]] = Partial
  <2>1. q # p  BY <1>2, <1>7
  <2>2. pc[q] = "compiling" /\ at[q] # Task /\ at'[q] = at[q] /\ at[q] \in Modules \ {at[p]}
    BY <1>0, <1>1, <1>6, <1>7, <2>1 DEF Typed
  <2> QED  BY <1>0, <1>2, <2>2 DEF Objects
<1>8. ASSUME NEW m \in Groups, product'[m].state = "partial"
      PROVE  \E q \in Procs : pc'[q] = "compiling" /\ at'[q] = m
  <2>1. m # at[p]  BY <1>2, <1>5, <1>8
  <2>2. PICK q \in Procs : pc[q] = "compiling" /\ at[q] = m  BY <1>0, <1>2, <1>4, <1>8, <2>1 DEF Objects
  <2> QED  BY <1>1, <1>2, <2>1, <2>2
<1>9. ASSUME NEW m \in Groups, NEW q \in Procs, Complete(m)' PROVE product'[m].groups = GroupsOf(q)'
  <2>1. CASE m = at[p]  BY <1>2, <1>3, <1>5, <2>1
  <2>2. CASE m # at[p]
    <3>1. product'[m] = product[m]  BY <1>2, <1>4, <2>2
    <3> QED  BY <1>0, <1>3, <1>9, <3>1 DEF Objects, Complete
  <2> QED  BY <2>1, <2>2
<1>10. ASSUME NEW q \in Procs, NEW m \in Groups, m <= GroupsOf(q)', Behind(q, m)' PROVE Complete(m)'
  <2>1. CASE m = at[p]  BY <1>2, <1>5, <2>1 DEF Complete
  <2>2. CASE m # at[p]
    <3>1. Behind(q, m)
      <4>1. CASE q = p  BY <1>0, <1>2, <1>10, <2>2, <4>1 DEF Behind, AtModule
      <4>2. CASE q # p  BY <1>1, <1>10, <4>2 DEF Behind
      <4> QED  BY <4>1, <4>2
    <3>2. Complete(m)  BY <1>0, <1>3, <1>10, <3>1 DEF Objects
    <3> QED  BY <1>2, <1>4, <2>2, <3>2 DEF Complete
  <2> QED  BY <2>1, <2>2
<1> QED  BY <1>7, <1>8, <1>9, <1>10 DEF Objects

LEMMA ObjectsStep ==
  ASSUME Alike, NEW p \in Procs, Step(p), types' # "complete"
  PROVE  Objects'
<1>0. /\ Typed /\ at[p] \in Modules /\ GroupsOf(p) \in 0 .. 2
      /\ Groups \subseteq Modules /\ Task \notin Groups /\ Task \in Modules
  BY CastType DEF Alike, IInv, Typed, Modules, Groups, Task
<1>1. CASE CheckVersion(p) \/ CheckModule(p) \/ (CheckSize(p) /\ There(Task)) \/ WriteTaskFiles(p)
           \/ OpenMeta(p) \/ LoadMeta(p) \/ LoadModule(p)
  <2>1. /\ product' = product /\ pc[p] # "compiling"
        /\ pc'[p] \in {"check_module", "check_size", "from_scratch", "open_meta", "write_meta", "load_meta",
                       "load_module", "load_failed", "done"}
    BY <1>0, <1>1 DEF CheckVersion, CheckModule, CheckSize, WriteTaskFiles, OpenMeta, LoadMeta, LoadModule,
           disk, Goto, Typed
  <2>2. \A m \in Groups : ~ Behind(p, m)'  BY <2>1 DEF Behind, AtModule
  <2> QED  BY <2>1, <2>2, ObjectsKept
<1>2. CASE WriteMeta(p)
  <2>1. /\ product' = product /\ pc[p] # "compiling" /\ pc'[p] = "next" /\ todo'[p] = 1 .. GroupsOf(p)
    BY <1>0, <1>2 DEF WriteMeta, Goto, Typed
  <2>2. \A m \in Groups : ~ (m <= GroupsOf(p) /\ Behind(p, m)')  BY <1>0, <2>1 DEF Behind, Groups
  <2> QED  BY <2>1, <2>2, ObjectsKept
<1>3. CASE NextModule(p)
  <2>1. PICK n : at'[p] = n /\ todo'[p] = todo[p] \ {n}
    BY <1>0, <1>3 DEF NextModule, Typed
  <2>2. product' = product /\ pc[p] = "next" /\ pc'[p] = "acquire"
    BY <1>0, <1>3 DEF NextModule, disk, Goto, Typed
  <2>3. \A m \in Groups : Behind(p, m)' => Behind(p, m)  BY <2>1, <2>2 DEF Behind, AtModule
  <2> QED  BY <2>2, <2>3, ObjectsKept
<1>4. CASE Acquire(p)
  <2>1. /\ \A m \in Groups : product'[m] = product[m] \/ (product[m] = NoDir /\ product'[m] = Absent)
        /\ pc[p] = "acquire" /\ pc'[p] = "locked" /\ at' = at /\ todo' = todo
    BY <1>0, <1>4 DEF Acquire, Goto, Typed
  <2>2. \A m \in Groups : Behind(p, m)' => Behind(p, m)  BY <2>1 DEF Behind, AtModule
  <2> QED  BY <2>1, <2>2, ObjectsKept
<1>5. CASE Exists(p)
  <2>1. product' = product /\ pc[p] = "locked" /\ pc'[p] = "sizing" /\ at' = at /\ todo' = todo
    BY <1>0, <1>5 DEF Exists, disk, Goto, Typed
  <2>2. \A m \in Groups : Behind(p, m)' => Behind(p, m)  BY <2>1 DEF Behind, AtModule
  <2> QED  BY <2>1, <2>2, ObjectsKept
<1>6. CASE SkipBuild(p) /\ at[p] # Task
  <2>1. /\ product' = product /\ pc[p] = "sizing" /\ pc'[p] = "next"
        /\ at' = at /\ todo' = todo /\ There(at[p])
    BY <1>0, <1>6 DEF SkipBuild, ShouldSkipBuild, After, disk, Goto, Typed
  <2>2. Complete(at[p])  BY <1>6, <2>1, SkippedIsWhole
  <2>3. \A m \in Groups : Behind(p, m)' => Behind(p, m) \/ Complete(m)
    BY <1>0, <2>1, <2>2 DEF Behind, AtModule
  <2> QED  BY <2>1, <2>3, ObjectsKept
<1>7. CASE Compile(p)
  <2>1. CASE at[p] # Task  BY <1>7, <2>1, CompileObjects
  <2>2. CASE at[p] = Task
    <3>1. /\ \A m \in Groups : product'[m] = product[m]
          /\ pc[p] \in {"locked", "sizing"} /\ pc'[p] = "compiling" /\ at' = at /\ todo' = todo
      BY <1>0, <1>7, <2>2 DEF Compile, Make, Goto, Typed
    <3>2. \A m \in Groups : Behind(p, m)' => Behind(p, m)  BY <3>1 DEF Behind, AtModule
    <3> QED  BY <2>2, <3>1, <3>2, ObjectsKept
  <2> QED  BY <2>1, <2>2
<1>8. CASE ObjectDone(p)  BY <1>8, ObjectDoneObjects
<1>9. CASE LibraryDone(p) /\ Linkable(p)
  <2>1. /\ \A m \in Groups : product'[m] = product[m]
        /\ pc[p] = "compiling" /\ pc'[p] = "open_types" /\ at' = at /\ at[p] = Task /\ todo' = todo
    BY <1>0, <1>9 DEF LibraryDone, Make, Goto, Typed
  <2>2. \A m \in Groups : Behind(p, m)' => Behind(p, m)  BY <1>0, <2>1 DEF Behind, AtModule
  <2> QED  BY <2>1, <2>2, ObjectsKept
<1>10. CASE OpenTypes(p)
  <2>1. /\ product' = product /\ pc[p] = "open_types" /\ pc'[p] = "write_types"
        /\ at' = at /\ todo' = todo
    BY <1>0, <1>10 DEF OpenTypes, Goto, Typed
  <2>2. \A m \in Groups : Behind(p, m)' => Behind(p, m)  BY <2>1 DEF Behind, AtModule
  <2> QED  BY <2>1, <2>2, ObjectsKept
<1> QED  BY <1>1, <1>2, <1>3, <1>4, <1>5, <1>6, <1>7, <1>8, <1>9, <1>10, EarlySteps

\* The types stay complete, and until they are the directories are undisturbed.
LEMMA CompleteStays ==
  ASSUME IInv, NEW p \in Procs, Step(p), types = "complete"
  PROVE  types' = "complete"
<1>1. ~ OpenTypes(p)  BY DEF OpenTypes, IInv, Ordered
<1>2. WriteTypes(p) => types' = "complete"  BY DEF WriteTypes
<1> QED  BY <1>1, <1>2, SameTypes

UndisturbedInv == IInv /\ Undisturbed /\ crashes \in Nat

LEMMA UndisturbedStep ==
  ASSUME UndisturbedInv, [Next]_vars
  PROVE  UndisturbedInv'
<1>1. CASE UNCHANGED vars
  <2>1. IInv'
    BY <1>1 DEF UndisturbedInv, IInv, Typed, Guarded, Written, Ordered, InModule, Complete, vars, disk, proc
  <2>2. Undisturbed'
    BY <1>1 DEF UndisturbedInv, Undisturbed, Early, AllAlike, Writing, Holds, Found, Objects, Way, Behind,
           InModule, Complete, There, GroupsOf, VersionOf, vars, disk, proc
  <2> QED  BY <1>1, <2>1, <2>2 DEF UndisturbedInv, vars
<1>2. ASSUME NEW p \in Procs, Crash(p) PROVE UndisturbedInv'
  <2>1. IInv'  BY <1>2, StepKeeps DEF UndisturbedInv
  <2>2. crashes' \in Nat /\ crashes' # 0  BY <1>2 DEF Crash, UndisturbedInv
  <2> QED  BY <2>1, <2>2 DEF UndisturbedInv, Undisturbed
<1>3. ASSUME NEW p \in Procs, Step(p) PROVE UndisturbedInv'
  <2>1. IInv'  BY <1>3, StepKeeps DEF UndisturbedInv
  <2>2. cast' = cast /\ crashes' = crashes  BY <1>3, StepFrame DEF UndisturbedInv, IInv
  <2>3. Undisturbed'
    <3> SUFFICES ASSUME crashes' = 0, AllAlike', types' # "complete" PROVE Early'
      BY DEF Undisturbed
    <3>1. AllAlike  BY <2>2 DEF AllAlike, GroupsOf, VersionOf
    <3>2. types # "complete"  BY <1>3, CompleteStays DEF UndisturbedInv
    <3>3. Alike  BY <2>2, <3>1, <3>2 DEF Alike, UndisturbedInv, Undisturbed
    <3>4. Writing' /\ Holds' /\ Found' /\ Objects'
      BY <1>3, <3>3, WritingStep, HoldsStep, FoundStep, ObjectsStep
    <3>5. \A q \in Procs : Way(q)'  BY <1>3, <3>3, WayStep
    <3> QED  BY <3>4, <3>5 DEF Early
  <2> QED  BY <2>1, <2>2, <2>3 DEF UndisturbedInv
<1> QED  BY <1>1, <1>2, <1>3 DEF Next, Terminated

LEMMA UndisturbedInit ==
  ASSUME Init
  PROVE  UndisturbedInv
<1>1. \A p \in Procs : pc[p] = "build_task" /\ at[p] = Task /\ todo[p] = {}  BY DEF Init
<1>2. \A m \in Groups : product[m] = NoDir  BY DEF Init, Modules, Groups, Task
<1>3. \A m \in Groups : product[m].state # "partial" /\ ~ Complete(m)  BY <1>2 DEF NoDir, Complete
<1>4. Objects  BY <1>1, <1>3 DEF Objects, Behind, AtModule
<1>5. \A p \in Procs : Way(p)  BY <1>1 DEF Way, AtModule
<1>6. Writing /\ Holds /\ Found  BY <1>1 DEF Init, Writing, Holds, Found, InModule
<1> QED  BY InitKeeps, <1>4, <1>5, <1>6 DEF Init, UndisturbedInv, Undisturbed, Early

\* While nobody is killed, processes that group the candidates alike hold the locks of
\* the modules they are inside, have object files behind them only when these are whole,
\* and none fails, until the types are complete: only then does anybody remove.
THEOREM UndisturbedInductive == Spec => []UndisturbedInv
<1>1. Init => UndisturbedInv  BY UndisturbedInit
<1>2. UndisturbedInv /\ [Next]_vars => UndisturbedInv'  BY UndisturbedStep
<1> QED  BY <1>1, <1>2, PTL DEF Spec

\* Of any number of processes that group the candidates alike and are not killed, one
\* fails to build only after the library and its types are finished: the failures that
\* should_skip_build and rmtree really cause there leave a task that loads.
THEOREM FailuresLeaveLibrary == Spec => []SomeBuildSucceeds
<1>1. UndisturbedInv => SomeBuildSucceeds
  <2> SUFFICES ASSUME UndisturbedInv, crashes = 0, AllAlike, NEW p \in Procs, pc[p] = "build_failed"
               PROVE  Complete(Task) /\ types = "complete"
    BY DEF SomeBuildSucceeds
  <2>1. ~ Way(p)  BY DEF Way
  <2>2. types = "complete"  BY <2>1 DEF UndisturbedInv, Undisturbed, Early
  <2> QED  BY <2>2 DEF UndisturbedInv, IInv, Written
<1> QED  BY <1>1, UndisturbedInductive, PTL

-----------------------------------------------------------------------------
(* The parallel build.                                                      *)

USE ParallelBuildAssumption

Work == [pc : {"call", "pool", "stuck"}, task : Tasks, call : Nat \ {0}]

BatchTyped ==
  /\ plan \in Seq(Batch)
  /\ batch.no \in Nat /\ ended \in Seq({"built", "raised", "broken"})
  /\ waiting \in Seq(Tasks)
  /\ doing \in [Processes -> {NoProcess, Free} \cup Work]
  /\ permits \in [Kinds -> Int]
  /\ log \in Seq([task : Tasks, ok : BOOLEAN, by : Processes, batch : Nat])
  /\ kills \in Nat

\* Nobody is at work between the batches, nor the main process beside its workers.
Teams ==
  /\ Running => batch.no = Len(ended) + 1
  /\ ~ Running => batch.no = Len(ended) /\ \A p \in Processes : doing[p] = NoProcess
  /\ doing[Main] = NoProcess \/ \A p \in ToSet(Workers) : doing[p] = NoProcess

\* Pools are those of calls that need one.
Pools == \A p \in Processes : InPool(p) =>
  doing[p].call \in DOMAIN Calls[doing[p].task] /\ Current(p).kind \in Kinds

\* A queue that is set outside a pool was left by a pool that failed: one of the
\* main process, or one of the same process in this batch.
Leak(p) == \E j \in DOMAIN log :
  /\ Raises(log[j].task, Kinds) /\ ~ log[j].ok
  /\ log[j].by = Main \/ (log[j].by = p /\ log[j].batch = batch.no)

Leaks == \A p \in Processes :
  p \in queued /\ ~ InPool(p) /\ (p = Main \/ doing[p] # NoProcess) => Leak(p)

BatchInv == BatchTyped /\ Teams /\ Pools /\ Leaks /\ PermitsKept /\ FailuresAreReal

-----------------------------------------------------------------------------
(* Processes, calls and what a step leaves alone.                           *)

LEMMA ProcessesFinite == IsFiniteSet(Processes) /\ Main \in Processes
<1>1. IsFiniteSet(1 .. Len(Workers))
  <2>1. Len(Workers) \in Nat  OBVIOUS
  <2> QED  BY <2>1, FS_Interval
<1>2. Workers \in Surjection(1 .. Len(Workers), ToSet(Workers))
  BY DEF Surjection, ToSet
<1>3. IsFiniteSet(ToSet(Workers))  BY <1>1, <1>2, FS_Surjection
<1> QED  BY <1>3, FS_AddElement DEF Processes

LEMMA HoldersFinite ==
  ASSUME NEW kind
  PROVE  IsFiniteSet(Holders(kind)) /\ Cardinality(Holders(kind)) \in Nat
<1>1. Holders(kind) \subseteq Processes  BY DEF Holders
<1>2. IsFiniteSet(Holders(kind))  BY <1>1, ProcessesFinite, FS_Subset
<1> QED  BY <1>2, FS_CardinalityType

LEMMA CallType ==
  ASSUME BatchTyped, NEW p \in Processes, doing[p].pc \in {"call", "pool", "stuck"}
  PROVE  /\ doing[p] \in Work /\ Calls[doing[p].task] \in Seq(Call)
         /\ (doing[p].call <= Len(Calls[doing[p].task]) =>
               doing[p].call \in DOMAIN Calls[doing[p].task] /\ Current(p) \in Call)
<1>1. doing[p] \in Work
  <2>1. doing[p] \in {NoProcess, Free} \cup Work  BY DEF BatchTyped
  <2>2. NoProcess.pc = "absent" /\ Free.pc = "free"  BY DEF NoProcess, Free
  <2> QED  BY <2>1, <2>2
<1>2. Calls[doing[p].task] \in Seq(Call)  BY <1>1 DEF Work
<1> QED  BY <1>1, <1>2 DEF Work, Current

\* What a process is at.
LEMMA AtLabel ==
  ASSUME BatchTyped, NEW p \in Processes
  PROVE  /\ doing[p] = NoProcess => ~ InPool(p) /\ doing[p].pc = "absent"
         /\ doing[p] = Free => ~ InPool(p) /\ doing[p].pc = "free"
         /\ doing[p] # NoProcess /\ doing[p] # Free => doing[p] \in Work
         /\ NoProcess # Free
BY DEF BatchTyped, NoProcess, Free, InPool

LEMMA BatchTypedStep == ASSUME BatchTyped, Pools, BatchNext PROVE BatchTyped'
<1>1. CASE StartBatch
  <2>1. Head(plan) \in Batch /\ Tail(plan) \in Seq(Batch)  BY <1>1 DEF StartBatch, BatchTyped
  <2>2. plan' \in Seq(Batch) /\ waiting' \in Seq(Tasks) /\ batch'.no \in Nat
    BY <1>1, <2>1 DEF StartBatch, BatchTyped, Batch
  <2>3. doing' \in [Processes -> {NoProcess, Free} \cup Work]
    BY <1>1 DEF StartBatch
  <2> QED  BY <1>1, <2>2, <2>3 DEF StartBatch, BatchTyped
<1>2. CASE EndBatch
  <2>1. ended' \in Seq({"built", "raised", "broken"}) /\ doing' \in [Processes -> {NoProcess, Free} \cup Work]
    BY <1>2 DEF EndBatch, BatchTyped
  <2> QED  BY <1>2, <2>1 DEF EndBatch, BatchTyped
<1>3. CASE KillWorker
  <2>1. /\ ended' \in Seq({"built", "raised", "broken"}) /\ doing' \in [Processes -> {NoProcess, Free} \cup Work]
        /\ waiting' \in Seq(Tasks) /\ kills' \in Nat
    BY <1>3 DEF KillWorker, BatchTyped
  <2> QED  BY <1>3, <2>1 DEF KillWorker, BatchTyped
<1>4. CASE KillPoolProcess
  <2>1. PICK p \in Processes : doing[p].pc = "pool" /\ doing' = [doing EXCEPT ![p].pc = "stuck"]
    BY <1>4 DEF KillPoolProcess
  <2>2. doing[p] \in Work  BY <2>1, CallType
  <2>3. [doing[p] EXCEPT !.pc = "stuck"] \in Work  BY <2>2 DEF Work
  <2>4. doing' \in [Processes -> {NoProcess, Free} \cup Work]  BY <2>1, <2>3 DEF BatchTyped
  <2> QED  BY <1>4, <2>4 DEF KillPoolProcess, BatchTyped
<1>5. ASSUME NEW p \in Processes, ProcessStep(p) PROVE BatchTyped'
  <2>1. /\ \A x \in {NoProcess, Free} \cup Work : [doing EXCEPT ![p] = x] \in [Processes -> {NoProcess, Free} \cup Work]
        /\ Free \in {NoProcess, Free} \cup Work
    BY DEF BatchTyped
  <2>2. CASE Take(p)
    <3>1. Head(waiting) \in Tasks /\ Tail(waiting) \in Seq(Tasks)  BY <2>2 DEF Take, BatchTyped
    <3>2. [pc |-> "call", task |-> Head(waiting), call |-> 1] \in Work  BY <3>1 DEF Work
    <3> QED  BY <2>1, <2>2, <3>1, <3>2 DEF Take, BatchTyped
  <2>3. ASSUME doing[p] \in Work, NEW ok \in BOOLEAN, Done(p, ok)
        PROVE  /\ doing' \in [Processes -> {NoProcess, Free} \cup Work]
               /\ log' \in Seq([task : Tasks, ok : BOOLEAN, by : Processes, batch : Nat])
               /\ waiting' \in Seq(Tasks)
    <3>1. [task |-> doing[p].task, ok |-> ok, by |-> p, batch |-> batch.no]
            \in [task : Tasks, ok : BOOLEAN, by : Processes, batch : Nat]
      BY <2>3 DEF BatchTyped, Work
    <3>2. log' \in Seq([task : Tasks, ok : BOOLEAN, by : Processes, batch : Nat])
      BY <2>3, <3>1 DEF Done, BatchTyped
    <3>3. waiting' \in Seq(Tasks)  BY <2>3 DEF Done, BatchTyped
    <3>4. doing' \in [Processes -> {NoProcess, Free} \cup Work]  BY <2>1, <2>3 DEF Done
    <3> QED  BY <3>2, <3>3, <3>4
  <2>4. ASSUME doing[p] \in Work, Proceed(p)
        PROVE  /\ doing' \in [Processes -> {NoProcess, Free} \cup Work]
               /\ log' = log /\ waiting' = waiting
    <3>1. [pc |-> "call", task |-> doing[p].task, call |-> doing[p].call + 1] \in Work
      BY <2>4 DEF Work
    <3> QED  BY <2>1, <2>4, <3>1 DEF Proceed
  <2>5. CASE Return(p)
    <3>1. doing[p] \in Work  BY <2>5, CallType DEF Return
    <3> QED  BY <2>3, <2>5, <3>1 DEF Return, BatchTyped
  <2>6. CASE RunHere(p)
    <3>1. doing[p] \in Work  BY <2>6, CallType DEF RunHere
    <3> QED  BY <2>3, <2>4, <2>6, <3>1 DEF RunHere, BatchTyped
  <2>7. CASE Enter(p)
    <3>1. doing[p] \in Work  BY <2>7, CallType DEF Enter
    <3>2. CASE p \in queued  BY <2>3, <2>7, <3>1, <3>2 DEF Enter, BatchTyped
    <3>3. CASE p \notin queued
      <4>1. /\ doing' = [doing EXCEPT ![p].pc = "pool"] /\ Current(p).kind \in Kinds
            /\ permits' = [permits EXCEPT ![Current(p).kind] = @ - 1]
            /\ UNCHANGED <<log, waiting, plan, batch, ended, kills>>
        BY <2>7, <3>3 DEF Enter
      <4>2. [doing[p] EXCEPT !.pc = "pool"] \in Work  BY <3>1 DEF Work
      <4>3. doing' \in [Processes -> {NoProcess, Free} \cup Work]  BY <2>1, <4>1, <4>2
      <4>4. permits' \in [Kinds -> Int]  BY <4>1 DEF BatchTyped
      <4> QED  BY <4>1, <4>3, <4>4 DEF BatchTyped
    <3> QED  BY <3>2, <3>3
  <2>8. CASE Leave(p)
    <3>1. doing[p] \in Work /\ Current(p).kind \in Kinds
      BY <2>8, CallType DEF Leave, Pools, InPool
    <3>2. permits' \in [Kinds -> Int]  BY <2>8, <3>1 DEF Leave, ReturnPermit, BatchTyped
    <3> QED  BY <2>3, <2>4, <2>8, <3>1, <3>2 DEF Leave, BatchTyped
  <2> QED  BY <1>5, <2>2, <2>5, <2>6, <2>7, <2>8 DEF ProcessStep
<1> QED  BY <1>1, <1>2, <1>3, <1>4, <1>5 DEF BatchNext

-----------------------------------------------------------------------------
(* What a step of a process may do.                                         *)

Logged(p, ok) ==
  log' = Append(log, [task |-> doing[p].task, ok |-> ok, by |-> p, batch |-> batch.no])

\* It takes a task, a call or nothing, and may fail: itself, or by its queue.
Outside(p) ==
  /\ ~ InPool(p) /\ ~ InPool(p)'
  /\ queued' = queued /\ permits' = permits
  /\ \/ log' = log
     \/ \E ok \in BOOLEAN : Logged(p, ok) /\ (~ ok => p \in queued \/ Raises(doing[p].task, {"here"}))

\* It starts a pool.
Starts(p) ==
  /\ ~ InPool(p) /\ InPool(p)' /\ p \notin queued
  /\ queued' = queued \cup {p} /\ log' = log
  /\ doing'[p].call \in DOMAIN Calls[doing'[p].task]
  /\ Current(p)'.kind \in Kinds
  /\ permits' = [permits EXCEPT ![Current(p)'.kind] = @ - 1]

\* Its pool ends.
Ends(p) ==
  /\ InPool(p) /\ ~ InPool(p)' /\ Current(p).kind \in Kinds
  /\ permits' = [permits EXCEPT ![Current(p).kind] = @ + 1]
  /\ \/ queued' = queued \ {p} /\ log' = log
     \/ queued' = queued /\ Logged(p, FALSE) /\ Raises(doing[p].task, Kinds)

LEMMA StepCases ==
  ASSUME BatchTyped, Pools, NEW p \in Processes, ProcessStep(p)
  PROVE  /\ doing[p] # NoProcess /\ doing'[p] # NoProcess
         /\ \A q \in Processes \ {p} : doing'[q] = doing[q]
         /\ UNCHANGED <<batch, ended, kills>>
         /\ Outside(p) \/ Starts(p) \/ Ends(p)
<1>1. /\ \A q \in Processes \ {p} : doing'[q] = doing[q]
      /\ UNCHANGED <<batch, ended, kills>>
  BY DEF BatchTyped, ProcessStep, Take, Return, RunHere, Enter, Leave, Done, Proceed
<1>2. NoProcess.pc = "absent" /\ Free.pc = "free" /\ NoProcess # Free  BY DEF NoProcess, Free
<1>3. doing[p] # NoProcess  BY <1>2 DEF ProcessStep, Take, Return, RunHere, Enter, Leave
<1>4. ASSUME NEW x, doing' = [doing EXCEPT ![p] = x] PROVE doing'[p] = x
  BY <1>4 DEF BatchTyped
<1>5. ASSUME NEW ok, Done(p, ok) PROVE doing'[p] = Free /\ ~ InPool(p)' /\ Logged(p, ok)
  BY <1>2, <1>4, <1>5 DEF Done, Logged, InPool
<1>6. ASSUME Proceed(p) PROVE doing'[p].pc = "call" /\ ~ InPool(p)' /\ log' = log
  <2>1. doing'[p] = [pc |-> "call", task |-> doing[p].task, call |-> doing[p].call + 1] /\ log' = log
    BY <1>4, <1>6 DEF Proceed
  <2>2. doing'[p].pc = "call"  BY <2>1
  <2> QED  BY <2>1, <2>2 DEF InPool
<1>7. CASE Take(p)
  <2>1. doing'[p].pc = "call" /\ doing[p] = Free  BY <1>4, <1>7 DEF Take
  <2>2. ~ InPool(p) /\ ~ InPool(p)'  BY <1>2, <2>1 DEF InPool
  <2> QED  BY <1>1, <1>2, <1>3, <1>7, <2>1, <2>2 DEF Take, Outside
<1>8. CASE Return(p)
  <2>1. ~ InPool(p) /\ Done(p, TRUE) /\ queued' = queued /\ permits' = permits
    BY <1>8 DEF Return, InPool
  <2>2. Outside(p)  BY <1>5, <2>1 DEF Outside
  <2> QED  BY <1>1, <1>2, <1>3, <1>5, <2>1, <2>2
<1>9. CASE RunHere(p)
  <2>1. ~ InPool(p) /\ queued' = queued /\ permits' = permits /\ Current(p).kind = "here"
    BY <1>9 DEF RunHere, InPool
  <2>2. CASE Current(p).ok
    <3>1. Proceed(p)  BY <1>9, <2>2 DEF RunHere
    <3>2. Outside(p)  BY <1>6, <2>1, <3>1 DEF Outside
    <3> QED  BY <1>1, <1>2, <1>3, <1>6, <3>1, <3>2
  <2>3. CASE ~ Current(p).ok
    <3>1. Done(p, FALSE)  BY <1>9, <2>3 DEF RunHere
    <3>2. Raises(doing[p].task, {"here"})
      <4>1. doing[p].call \in DOMAIN Calls[doing[p].task]  BY <1>9, CallType DEF RunHere
      <4> QED  BY <2>1, <2>3, <4>1 DEF Raises, Current
    <3>3. Outside(p)  BY <1>5, <2>1, <3>1, <3>2 DEF Outside
    <3> QED  BY <1>1, <1>2, <1>3, <1>5, <3>1, <3>3
  <2> QED  BY <2>2, <2>3
<1>10. CASE Enter(p)
  <2>1. ~ InPool(p) /\ Current(p).kind \in Kinds /\ doing[p].call \in DOMAIN Calls[doing[p].task] /\ doing[p] \in Work
    BY <1>10, CallType DEF Enter, InPool
  <2>2. CASE p \in queued
    <3>1. Done(p, FALSE) /\ queued' = queued /\ permits' = permits  BY <1>10, <2>2 DEF Enter
    <3>2. Outside(p)  BY <1>5, <2>1, <2>2, <3>1 DEF Outside
    <3> QED  BY <1>1, <1>2, <1>3, <1>5, <3>1, <3>2
  <2>3. CASE p \notin queued
    <3>1. /\ doing' = [doing EXCEPT ![p] = [doing[p] EXCEPT !.pc = "pool"]]
          /\ queued' = queued \cup {p} /\ log' = log
          /\ permits' = [permits EXCEPT ![Current(p).kind] = @ - 1]
      BY <1>10, <2>3 DEF Enter
    <3>2. doing'[p] = [doing[p] EXCEPT !.pc = "pool"]  BY <1>4, <3>1
    <3>3. doing'[p].pc = "pool" /\ doing'[p].task = doing[p].task /\ doing'[p].call = doing[p].call
      BY <2>1, <3>2 DEF Work
    <3>4. Current(p)' = Current(p) /\ InPool(p)'  BY <3>3 DEF Current, InPool
    <3>5. Starts(p)  BY <2>1, <2>3, <3>1, <3>3, <3>4 DEF Starts
    <3> QED  BY <1>1, <1>2, <1>3, <3>3, <3>5
  <2> QED  BY <2>2, <2>3
<1>11. CASE Leave(p)
  <2>1. /\ InPool(p) /\ Current(p).kind \in Kinds /\ doing[p].call \in DOMAIN Calls[doing[p].task]
        /\ permits' = [permits EXCEPT ![Current(p).kind] = @ + 1]
    BY <1>11 DEF Leave, InPool, Pools, ReturnPermit
  <2>2. CASE Current(p).ok
    <3>1. Proceed(p) /\ queued' = queued \ {p}  BY <1>11, <2>2 DEF Leave, ResetQueue
    <3>2. Ends(p)  BY <1>6, <2>1, <3>1 DEF Ends
    <3> QED  BY <1>1, <1>2, <1>3, <1>6, <3>1, <3>2
  <2>3. CASE ~ Current(p).ok
    <3>1. Done(p, FALSE) /\ queued' = queued  BY <1>11, <2>3 DEF Leave, ResetQueue
    <3>2. Raises(doing[p].task, Kinds)  BY <2>1, <2>3 DEF Raises, Current
    <3>3. Ends(p)  BY <1>5, <2>1, <3>1, <3>2 DEF Ends
    <3> QED  BY <1>1, <1>2, <1>3, <1>5, <3>1, <3>3
  <2> QED  BY <2>2, <2>3
<1> QED  BY <1>7, <1>8, <1>9, <1>10, <1>11 DEF ProcessStep

LEMMA TeamsStep == ASSUME BatchTyped, Teams, Pools, BatchNext PROVE Teams'
<1>1. CASE StartBatch
  <2>1. batch'.no = Len(ended') + 1  BY <1>1 DEF StartBatch, Teams
  <2>2. Team(Head(plan)) = {Main} \/ Team(Head(plan)) \subseteq ToSet(Workers)
    <3>1. Len(Workers) \in Nat /\ DOMAIN Workers = 1 .. Len(Workers)  OBVIOUS
    <3>2. Head(plan) \in Batch  BY <1>1 DEF StartBatch, BatchTyped
    <3>3. Len(Head(plan).tasks) \in Nat  BY <3>2 DEF Batch
    <3> QED  BY <3>1, <3>3 DEF Team, ToSet
  <2>3. doing' = [p \in Processes |-> IF p \in Team(Head(plan)) THEN Free ELSE NoProcess]
    BY <1>1 DEF StartBatch
  <2>4. doing'[Main] = NoProcess \/ \A p \in ToSet(Workers) : doing'[p] = NoProcess
    BY <2>2, <2>3, ProcessesFinite DEF Processes
  <2>5. Running'
    <3>1. Len(ended') \in Nat  BY <1>1 DEF StartBatch, BatchTyped
    <3> QED  BY <2>1, <3>1 DEF Running
  <2> QED  BY <2>1, <2>4, <2>5 DEF Teams
<1>2. CASE EndBatch \/ KillWorker
  <2>1. doing' = [p \in Processes |-> NoProcess] /\ Running /\ batch' = batch
        /\ \E how \in {"built", "raised", "broken"} : ended' = Append(ended, how)
    BY <1>2 DEF EndBatch, KillWorker
  <2>2. Len(ended') = Len(ended) + 1 /\ Len(ended) \in Nat  BY <2>1 DEF BatchTyped
  <2>3. batch'.no = Len(ended')  BY <2>1, <2>2 DEF Teams
  <2> QED  BY <2>1, <2>2, <2>3, ProcessesFinite DEF Teams, Running, Processes
<1>3. CASE KillPoolProcess
  <2>1. PICK p \in Processes : doing[p].pc = "pool" /\ doing' = [doing EXCEPT ![p].pc = "stuck"]
    BY <1>3 DEF KillPoolProcess
  <2>2. doing[p] # NoProcess /\ \A q \in Processes \ {p} : doing'[q] = doing[q]
    BY <2>1 DEF NoProcess, BatchTyped
  <2>3. UNCHANGED <<batch, ended>>  BY <1>3 DEF KillPoolProcess
  <2> QED  BY <2>2, <2>3, ProcessesFinite DEF Teams, Running, Processes
<1>4. ASSUME NEW p \in Processes, ProcessStep(p) PROVE Teams'
  <2>1. /\ doing[p] # NoProcess /\ UNCHANGED <<batch, ended>>
        /\ \A q \in Processes \ {p} : doing'[q] = doing[q]
    BY <1>4, StepCases
  <2> QED  BY <2>1, ProcessesFinite DEF Teams, Running, Processes
<1> QED  BY <1>1, <1>2, <1>3, <1>4 DEF BatchNext

\* A process of a pool that is killed leaves its pool where it is.
LEMMA KilledPool ==
  ASSUME BatchTyped, KillPoolProcess
  PROVE  \A q \in Processes : /\ InPool(q)' <=> InPool(q)
                              /\ InPool(q) => doing'[q].task = doing[q].task /\ doing'[q].call = doing[q].call
                              /\ ~ InPool(q) => doing'[q] = doing[q]
<1>1. PICK p \in Processes : doing[p].pc = "pool" /\ doing' = [doing EXCEPT ![p].pc = "stuck"]
  BY DEF KillPoolProcess
<1>2. doing[p] \in Work  BY <1>1, CallType
<1>3. doing'[p] = [doing[p] EXCEPT !.pc = "stuck"] /\ \A q \in Processes \ {p} : doing'[q] = doing[q]
  BY <1>1 DEF BatchTyped
<1>4. doing'[p].pc = "stuck" /\ doing'[p].task = doing[p].task /\ doing'[p].call = doing[p].call
  BY <1>2, <1>3 DEF Work
<1> QED  BY <1>1, <1>3, <1>4 DEF InPool

LEMMA PoolsStep == ASSUME BatchTyped, Pools, BatchNext PROVE Pools'
<1>1. CASE StartBatch \/ EndBatch \/ KillWorker
  <2>1. \A p \in Processes : doing'[p] \in {NoProcess, Free}
    BY <1>1 DEF StartBatch, EndBatch, KillWorker
  <2>2. \A p \in Processes : ~ InPool(p)'
    BY <2>1 DEF InPool, NoProcess, Free
  <2> QED  BY <2>2 DEF Pools
<1>2. CASE KillPoolProcess
  BY <1>2, KilledPool DEF Pools, Current
<1>3. ASSUME NEW p \in Processes, ProcessStep(p) PROVE Pools'
  <2>1. (Outside(p) \/ Starts(p) \/ Ends(p)) /\ \A q \in Processes \ {p} : doing'[q] = doing[q]
    BY <1>3, StepCases
  <2>2. \A q \in Processes \ {p} : (InPool(q)' <=> InPool(q)) /\ Current(q)' = Current(q)
    BY <2>1 DEF InPool, Current
  <2>3. InPool(p)' => doing'[p].call \in DOMAIN Calls[doing'[p].task] /\ Current(p)'.kind \in Kinds
    BY <2>1 DEF Outside, Starts, Ends
  <2> QED  BY <2>1, <2>2, <2>3 DEF Pools
<1> QED  BY <1>1, <1>2, <1>3 DEF BatchNext

-----------------------------------------------------------------------------
(* Permits.                                                                 *)

LEMMA PermitsStep == ASSUME BatchTyped, Teams, Pools, PermitsKept, BatchNext PROVE PermitsKept'
<1> SUFFICES ASSUME NEW kind \in Kinds
             PROVE  Lost(kind)' >= 0 /\ (kills' = 0 => Lost(kind)' = 0)
  BY DEF PermitsKept
<1> DEFINE n == Cardinality(Holders(kind))
           m == Cardinality(Holders(kind)')
<1>1. /\ permits[kind] \in Int /\ n \in Nat /\ kills \in Nat /\ Permits[kind] \in Int
      /\ Permits[kind] - permits[kind] - n >= 0
      /\ kills = 0 => Permits[kind] - permits[kind] - n = 0
  BY HoldersFinite DEF BatchTyped, PermitsKept, Lost, Permits, Kinds
<1>2. Lost(kind)' = Permits[kind] - permits'[kind] - m
  BY DEF Lost
<1> HIDE DEF n, m
\* Nobody is in a pool afterwards, and nobody was, or a worker was killed.
<1>3. CASE StartBatch \/ EndBatch \/ KillWorker
  <2>1. permits' = permits /\ \A p \in Processes : doing'[p] \in {NoProcess, Free}
    BY <1>3 DEF StartBatch, EndBatch, KillWorker
  <2>2. Holders(kind)' = {}  BY <2>1 DEF Holders, InPool, NoProcess, Free
  <2>3. m = 0  BY <2>2, FS_EmptySet DEF m
  <2>4. CASE StartBatch \/ EndBatch
    <3>1. \A p \in Processes : doing[p] \in {NoProcess, Free}
      BY <2>4 DEF StartBatch, EndBatch, Teams
    <3>2. Holders(kind) = {}  BY <3>1 DEF Holders, InPool, NoProcess, Free
    <3>3. n = 0  BY <3>2, FS_EmptySet DEF n
    <3>4. kills' = kills  BY <2>4 DEF StartBatch, EndBatch
    <3> QED  BY <1>1, <1>2, <2>1, <2>3, <3>3, <3>4
  <2>5. CASE KillWorker
    <3>1. kills' # 0  BY <1>1, <2>5 DEF KillWorker
    <3> QED  BY <1>1, <1>2, <2>1, <2>3, <3>1
  <2> QED  BY <1>3, <2>4, <2>5
<1>4. CASE KillPoolProcess
  <2>1. \A q \in Processes : (InPool(q)' <=> InPool(q)) /\ (InPool(q) => Current(q)' = Current(q))
    BY <1>4, KilledPool DEF Current
  <2>2. Holders(kind)' = Holders(kind)  BY <2>1 DEF Holders
  <2>3. permits' = permits /\ kills' = kills + 1  BY <1>4 DEF KillPoolProcess
  <2>4. m = n  BY <2>2 DEF m, n
  <2> QED  BY <1>1, <1>2, <2>3, <2>4
<1>5. ASSUME NEW p \in Processes, ProcessStep(p)
      PROVE  Lost(kind)' >= 0 /\ (kills' = 0 => Lost(kind)' = 0)
  <2>1. /\ Outside(p) \/ Starts(p) \/ Ends(p)
        /\ kills' = kills
        /\ \A q \in Processes \ {p} : doing'[q] = doing[q]
    BY <1>5, StepCases
  <2>2. \A q \in Processes \ {p} : (InPool(q)' <=> InPool(q)) /\ Current(q)' = Current(q)
    BY <2>1 DEF InPool, Current
  <2>3. IsFiniteSet(Holders(kind))  BY HoldersFinite
  <2>4. CASE Outside(p)
    <3>1. Holders(kind)' = Holders(kind)  BY <2>2, <2>4 DEF Holders, Outside
    <3>2. m = n  BY <3>1 DEF m, n
    <3> QED  BY <1>1, <1>2, <2>1, <2>4, <3>2 DEF Outside
  <2>5. CASE Starts(p)
    <3>1. CASE Current(p)'.kind = kind
      <4>1. Holders(kind)' = Holders(kind) \cup {p} /\ p \notin Holders(kind)
        BY <2>2, <2>5, <3>1 DEF Holders, Starts
      <4>2. m = n + 1  BY <2>3, <4>1, FS_AddElement DEF m, n
      <4>3. permits'[kind] = permits[kind] - 1  BY <2>5, <3>1 DEF Starts, BatchTyped
      <4> QED  BY <1>1, <1>2, <2>1, <4>2, <4>3
    <3>2. CASE Current(p)'.kind # kind
      <4>1. Holders(kind)' = Holders(kind)  BY <2>2, <2>5, <3>2 DEF Holders, Starts
      <4>2. m = n  BY <4>1 DEF m, n
      <4>3. permits'[kind] = permits[kind]  BY <2>5, <3>2 DEF Starts, BatchTyped
      <4> QED  BY <1>1, <1>2, <2>1, <4>2, <4>3
    <3> QED  BY <3>1, <3>2
  <2>6. CASE Ends(p)
    <3>1. CASE Current(p).kind = kind
      <4>1. Holders(kind)' = Holders(kind) \ {p} /\ p \in Holders(kind)
        BY <2>2, <2>6, <3>1 DEF Holders, Ends
      <4>2. m = n - 1  BY <2>3, <4>1, FS_RemoveElement DEF m, n
      <4>3. permits'[kind] = permits[kind] + 1  BY <2>6, <3>1 DEF Ends, BatchTyped
      <4> QED  BY <1>1, <1>2, <2>1, <4>2, <4>3
    <3>2. CASE Current(p).kind # kind
      <4>1. Holders(kind)' = Holders(kind)  BY <2>2, <2>6, <3>2 DEF Holders, Ends
      <4>2. m = n  BY <4>1 DEF m, n
      <4>3. permits'[kind] = permits[kind]  BY <2>6, <3>2 DEF Ends, BatchTyped
      <4> QED  BY <1>1, <1>2, <2>1, <4>2, <4>3
    <3> QED  BY <3>1, <3>2
  <2> QED  BY <2>1, <2>4, <2>5, <2>6
<1> QED  BY <1>3, <1>4, <1>5 DEF BatchNext

-----------------------------------------------------------------------------
(* Failures.                                                                *)

LEMMA AppendLog ==
  ASSUME NEW S, NEW q \in Seq(S), NEW x
  PROVE  /\ Len(q) \in Nat /\ DOMAIN q = 1 .. Len(q)
         /\ DOMAIN Append(q, x) = 1 .. Len(q) + 1
         /\ \A k \in 1 .. Len(q) : Append(q, x)[k] = q[k]
         /\ Append(q, x)[Len(q) + 1] = x
OBVIOUS

\* What was logged stays.
LEMMA LeakStays ==
  ASSUME BatchTyped, NEW p, Leak(p), NEW q \in Processes, NEW ok \in BOOLEAN,
         log' = log \/ Logged(q, ok), batch'.no = batch.no
  PROVE  Leak(p)'
<1>1. PICK j \in DOMAIN log :
        /\ Raises(log[j].task, Kinds) /\ ~ log[j].ok
        /\ log[j].by = Main \/ (log[j].by = p /\ log[j].batch = batch.no)
  BY DEF Leak
<1>2. j \in DOMAIN log' /\ log'[j] = log[j]
  <2>1. CASE log' = log  BY <2>1
  <2>2. CASE Logged(q, ok)
    <3>1. PICK s : log' = Append(log, s)  BY <2>2 DEF Logged
    <3> QED  BY <3>1, AppendLog DEF BatchTyped
  <2> QED  BY <2>1, <2>2
<1> QED  BY <1>1, <1>2 DEF Leak, Raises

LEMMA LeaksStep == ASSUME BatchTyped, Teams, Pools, Leaks, BatchNext PROVE Leaks'
<1> SUFFICES ASSUME NEW q \in Processes, q \in queued', ~ InPool(q)', q = Main \/ doing'[q] # NoProcess
             PROVE  Leak(q)'
  BY DEF Leaks, Processes
<1>1. CASE StartBatch
  <2>1. Main \in queued /\ log' = log  BY <1>1 DEF StartBatch, Forked
  <2>2. doing[Main] = NoProcess  BY <1>1, ProcessesFinite DEF StartBatch, Teams
  <2>3. Leak(Main)  BY <2>1, <2>2, ProcessesFinite DEF Leaks, InPool, NoProcess
  <2>4. PICK j \in DOMAIN log : Raises(log[j].task, Kinds) /\ ~ log[j].ok /\ log[j].by = Main
    BY <2>3 DEF Leak
  <2> QED  BY <2>1, <2>4 DEF Leak, Raises
<1>2. CASE EndBatch \/ KillWorker
  <2>1. doing'[q] = NoProcess /\ UNCHANGED <<queued, log, batch>>  BY <1>2 DEF EndBatch, KillWorker
  <2>2. doing[Main] \in {NoProcess, Free}
    BY <1>2, ProcessesFinite DEF EndBatch, KillWorker, Teams
  <2>3. q = Main  BY <2>1
  <2>4. ~ InPool(Main)  BY <2>2 DEF InPool, NoProcess, Free
  <2>5. Leak(Main)  BY <2>1, <2>3, <2>4, ProcessesFinite DEF Leaks
  <2> QED  BY <2>1, <2>3, <2>5 DEF Leak, Raises
<1>3. CASE KillPoolProcess
  <2>1. UNCHANGED <<queued, log, batch>>  BY <1>3 DEF KillPoolProcess
  <2>2. ~ InPool(q) /\ doing'[q] = doing[q]  BY <1>3, KilledPool
  <2>3. Leak(q)  BY <2>1, <2>2 DEF Leaks
  <2> QED  BY <2>1, <2>3 DEF Leak, Raises
<1>4. ASSUME NEW p \in Processes, ProcessStep(p) PROVE Leak(q)'
  <2>1. /\ doing[p] # NoProcess /\ doing'[p] # NoProcess
        /\ \A r \in Processes \ {p} : doing'[r] = doing[r]
        /\ batch' = batch
        /\ Outside(p) \/ Starts(p) \/ Ends(p)
    BY <1>4, StepCases
  <2>2. log' = log \/ \E ok \in BOOLEAN : Logged(p, ok)
    BY <2>1 DEF Outside, Starts, Ends
  <2>3. CASE Leak(q)  BY <2>1, <2>2, <2>3, LeakStays
  <2>4. CASE ~ Leak(q)
    <3>1. q = p
      <4>1. CASE q # p
        <5>1. q \in queued /\ doing'[q] = doing[q]  BY <2>1, <4>1 DEF Outside, Starts, Ends
        <5>2. ~ InPool(q)  BY <5>1 DEF InPool
        <5> QED  BY <2>4, <5>1, <5>2 DEF Leaks
      <4> QED  BY <4>1
    <3>2. Ends(p) /\ Logged(p, FALSE) /\ Raises(doing[p].task, Kinds)
      <4>1. ~ Starts(p)  BY <3>1 DEF Starts
      <4>2. ~ Outside(p)  BY <2>1, <2>4, <3>1 DEF Outside, Leaks
      <4>3. Ends(p)  BY <2>1, <4>1, <4>2
      <4> QED  BY <3>1, <4>3 DEF Ends
    \* The failure of its own pool.
    <3>3. PICK s : /\ log' = Append(log, s)
                   /\ s.task = doing[p].task /\ ~ s.ok /\ s.by = p /\ s.batch = batch.no
      <4> DEFINE failure == [task |-> doing[p].task, ok |-> FALSE, by |-> p, batch |-> batch.no]
      <4>1. log' = Append(log, failure)  BY <3>2 DEF Logged
      <4>2. /\ failure.task = doing[p].task /\ ~ failure.ok
            /\ failure.by = p /\ failure.batch = batch.no
        OBVIOUS
      <4> QED  BY <4>1, <4>2
    <3>4. Len(log) + 1 \in DOMAIN log' /\ log'[Len(log) + 1] = s
      <4>1. Len(log) \in Nat /\ DOMAIN log' = 1 .. Len(log) + 1 /\ log'[Len(log) + 1] = s
        BY <3>3, AppendLog DEF BatchTyped
      <4> QED  BY <4>1
    <3>5. Raises(s.task, Kinds) /\ s.batch = batch'.no  BY <2>1, <3>2, <3>3
    <3> QED  BY <3>1, <3>3, <3>4, <3>5 DEF Leak, Raises
  <2> QED  BY <2>3, <2>4
<1> QED  BY <1>1, <1>2, <1>3, <1>4 DEF BatchNext

LEMMA FailuresFrame == ASSUME FailuresAreReal, log' = log PROVE FailuresAreReal'
BY DEF FailuresAreReal

LEMMA FailuresStep ==
  ASSUME BatchTyped, Teams, Pools, Leaks, FailuresAreReal, BatchNext
  PROVE  FailuresAreReal'
<1>1. CASE log' = log
  BY <1>1, FailuresFrame
<1>2. ASSUME NEW p \in Processes, ProcessStep(p), NEW ok \in BOOLEAN, Logged(p, ok)
      PROVE  FailuresAreReal'
  <2> DEFINE s == [task |-> doing[p].task, ok |-> ok, by |-> p, batch |-> batch.no]
  <2>1. log' = Append(log, s)  BY <1>2 DEF Logged
  <2>2. s.task = doing[p].task /\ s.ok = ok /\ s.by = p /\ s.batch = batch.no  OBVIOUS
  <2> HIDE DEF s
  <2>3. /\ Len(log) \in Nat /\ DOMAIN log = 1 .. Len(log) /\ DOMAIN log' = 1 .. Len(log) + 1
        /\ \A k \in 1 .. Len(log) : log'[k] = log[k]
        /\ log'[Len(log) + 1] = s
    BY <2>1 DEF BatchTyped
  \* One that is no fault of its own has a leak for a cause.
  <2>4. ~ ok /\ ~ Raises(s.task, Kinds \cup {"here"}) =>
          \E j \in 1 .. Len(log) :
            /\ Raises(log[j].task, Kinds) /\ ~ log[j].ok
            /\ log[j].by = Main \/ <<log[j].by, log[j].batch>> = <<s.by, s.batch>>
    <3> SUFFICES ASSUME ~ ok, ~ Raises(s.task, Kinds \cup {"here"})
                 PROVE  \E j \in 1 .. Len(log) :
                          /\ Raises(log[j].task, Kinds) /\ ~ log[j].ok
                          /\ log[j].by = Main \/ <<log[j].by, log[j].batch>> = <<s.by, s.batch>>
      OBVIOUS
    <3>1. ~ Raises(doing[p].task, Kinds) /\ ~ Raises(doing[p].task, {"here"})
      BY <2>2 DEF Raises
    <3>2. doing[p] # NoProcess /\ (Outside(p) \/ Starts(p) \/ Ends(p))  BY <1>2, StepCases
    <3>3. log' # log
      <4>1. Len(log') = Len(log) + 1  BY <2>1 DEF BatchTyped
      <4> QED  BY <2>3, <4>1
    <3>4. Outside(p)  BY <3>1, <3>2, <3>3 DEF Starts, Ends
    <3>5. PICK how \in BOOLEAN : Logged(p, how) /\ (~ how => p \in queued \/ Raises(doing[p].task, {"here"}))
      BY <3>3, <3>4 DEF Outside
    <3>6. how = ok
      <4>1. log'[Len(log) + 1] = [task |-> doing[p].task, ok |-> how, by |-> p, batch |-> batch.no]
        BY <2>3, <3>5 DEF Logged, BatchTyped
      <4>2. s.ok = how  BY <2>3, <4>1
      <4> QED  BY <2>2, <4>2
    <3>7. p \in queued /\ ~ InPool(p)  BY <3>1, <3>4, <3>5, <3>6 DEF Outside
    <3>8. Leak(p)  BY <3>2, <3>7 DEF Leaks
    <3> QED  BY <2>2, <2>3, <3>8 DEF Leak
  <2> SUFFICES ASSUME NEW i \in 1 .. Len(log) + 1,
                      ~ log'[i].ok, ~ Raises(log'[i].task, Kinds \cup {"here"})
               PROVE  \E j \in 1 .. i - 1 :
                        /\ Raises(log'[j].task, Kinds) /\ ~ log'[j].ok
                        /\ log'[j].by = Main
                           \/ <<log'[j].by, log'[j].batch>> = <<log'[i].by, log'[i].batch>>
    BY <2>3 DEF FailuresAreReal, Raises
  <2>5. CASE i \in 1 .. Len(log)
    <3>1. log'[i] = log[i] /\ \A j \in 1 .. i - 1 : log'[j] = log[j]
      BY <2>3, <2>5
    <3>2. \E j \in 1 .. i - 1 :
            /\ Raises(log[j].task, Kinds) /\ ~ log[j].ok
            /\ log[j].by = Main \/ <<log[j].by, log[j].batch>> = <<log[i].by, log[i].batch>>
      BY <2>3, <2>5, <3>1 DEF FailuresAreReal
    <3> QED  BY <3>1, <3>2
  <2>6. CASE i = Len(log) + 1
    <3>1. log'[i] = s /\ i - 1 = Len(log)  BY <2>3, <2>6
    <3>2. ~ ok /\ ~ Raises(s.task, Kinds \cup {"here"})  BY <2>2, <3>1
    <3>3. PICK j \in 1 .. Len(log) :
            /\ Raises(log[j].task, Kinds) /\ ~ log[j].ok
            /\ log[j].by = Main \/ <<log[j].by, log[j].batch>> = <<s.by, s.batch>>
      BY <2>4, <3>2
    <3>4. log'[j] = log[j]  BY <2>3
    <3>5. j \in 1 .. i - 1 /\ Raises(log'[j].task, Kinds) /\ ~ log'[j].ok  BY <3>1, <3>3, <3>4
    <3>6. log'[j].by = Main \/ <<log'[j].by, log'[j].batch>> = <<log'[i].by, log'[i].batch>>
      BY <3>1, <3>3, <3>4
    <3> QED  BY <3>5, <3>6
  <2>7. i \in 1 .. Len(log) \/ i = Len(log) + 1  BY <2>3
  <2> QED  BY <2>5, <2>6, <2>7
<1>3. log' = log \/ \E p \in Processes, ok \in BOOLEAN : ProcessStep(p) /\ Logged(p, ok)
  <2>1. CASE StartBatch \/ EndBatch \/ KillWorker \/ KillPoolProcess
    BY <2>1 DEF StartBatch, EndBatch, KillWorker, KillPoolProcess
  <2>2. ASSUME NEW p \in Processes, ProcessStep(p)
        PROVE  log' = log \/ \E ok \in BOOLEAN : Logged(p, ok)
    BY <2>2, StepCases DEF Outside, Starts, Ends
  <2> QED  BY <2>1, <2>2 DEF BatchNext
<1> QED  BY <1>1, <1>2, <1>3

-----------------------------------------------------------------------------
(* The theorems.                                                            *)

\* The invariant holds in every state: processes of a batch are its team, whose
\* queue is set is in a pool or was left by one, and permits are counted.
THEOREM BatchInductive == BatchSpec => []BatchInv
<1>1. BatchInit => BatchInv
  <2> SUFFICES ASSUME BatchInit PROVE BatchInv  OBVIOUS
  <2>1. \A p \in Processes : doing[p] = NoProcess /\ ~ InPool(p)
    BY DEF BatchInit, InPool, NoProcess
  <2>2. BatchTyped
    <3>1. plan \in Seq(Batch) /\ batch.no \in Nat  BY DEF BatchInit
    <3>2. permits \in [Kinds -> Int]  BY DEF BatchInit, Permits, Kinds
    <3>3. doing \in [Processes -> {NoProcess, Free} \cup Work]  BY DEF BatchInit
    <3>4. waiting = <<>> /\ log = <<>> /\ ended = <<>> /\ kills = 0  BY DEF BatchInit
    <3> QED  BY <3>1, <3>2, <3>3, <3>4 DEF BatchTyped
  <2>3. Teams  BY <2>1, ProcessesFinite DEF BatchInit, Teams, Running
  <2>4. Pools /\ Leaks /\ FailuresAreReal
    BY <2>1 DEF BatchInit, Pools, Leaks, FailuresAreReal
  <2>5. PermitsKept
    <3> SUFFICES ASSUME NEW kind \in Kinds PROVE Lost(kind) = 0  BY DEF PermitsKept
    <3>1. Holders(kind) = {}  BY <2>1 DEF Holders
    <3>2. Cardinality(Holders(kind)) = 0  BY <3>1, FS_EmptySet
    <3>3. permits[kind] = Permits[kind] /\ Permits[kind] \in Int  BY DEF BatchInit, Permits, Kinds
    <3> QED  BY <3>2, <3>3 DEF Lost
  <2> QED  BY <2>2, <2>3, <2>4, <2>5 DEF BatchInv
<1>2. BatchInv /\ [BatchNext]_batchVars => BatchInv'
  <2> SUFFICES ASSUME BatchInv, [BatchNext]_batchVars PROVE BatchInv'  OBVIOUS
  <2>1. CASE UNCHANGED batchVars
    <3>1. BatchTyped' /\ Teams' /\ Pools'
      BY <2>1 DEF batchVars, BatchInv, BatchTyped, Teams, Pools, Running, InPool, Current
    <3>2. Leaks'  BY <2>1 DEF batchVars, BatchInv, Leaks, Leak, InPool, Raises
    <3>3. PermitsKept'  BY <2>1 DEF batchVars, BatchInv, PermitsKept, Lost, Holders, InPool, Current
    <3>4. FailuresAreReal'
      <4>1. log' = log /\ FailuresAreReal  BY <2>1 DEF batchVars, BatchInv
      <4> QED  BY <4>1, FailuresFrame
    <3> QED  BY <3>1, <3>2, <3>3, <3>4 DEF BatchInv
  <2>2. CASE BatchNext
    BY <2>2, BatchTypedStep, TeamsStep, PoolsStep, LeaksStep, PermitsStep, FailuresStep DEF BatchInv
  <2> QED  BY <2>1, <2>2
<1> QED  BY <1>1, <1>2, PTL DEF BatchSpec

\* The permits of pools that ended are there again, unless a process was killed, and
\* there are never more pools than permits (parallel_imap_2ndlevel).
THEOREM PermitsAccounted == BatchSpec => []PermitsKept
<1>1. BatchInv => PermitsKept  BY DEF BatchInv
<1> QED  BY <1>1, BatchInductive, PTL

\* A task fails because of one of its jobs, or because of the _job_queue that an
\* earlier failure left set in its process (_build_job, parallel_imap).
THEOREM FailuresHaveCauses == BatchSpec => []FailuresAreReal
<1>1. BatchInv => FailuresAreReal  BY DEF BatchInv
<1> QED  BY <1>1, BatchInductive, PTL

=============================================================================
