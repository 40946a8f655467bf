------------------------------ MODULE OpCache ------------------------------
(***************************************************************************)
(* The operator cache on disk (drivers/build_task.py, build_module.py):    *)
(* processes that build the same task at the same time, share its          *)
(* directory, and may be killed and started again, or belong to different  *)
(* versions of hidet.                                                      *)
(*                                                                         *)
(* A task's directory holds version.txt, meta.json, the library lib.so and *)
(* func_types.pickle; while it is built it also holds directories with the *)
(* object files of groups of candidates.  Each of these modules is built   *)
(* under the lock of its directory.  Module Task is the library, modules   *)
(* 1, 2, .. are the object files.                                          *)
(***************************************************************************)
EXTENDS Integers, FiniteSets

CONSTANTS Procs,
          Casts,       \* who the processes may be, see VersionOf and GroupsOf
          MaxCrashes   \* bound: processes killed in a behaviour

Task     == 0
Groups   == 1 .. 2
Modules  == {Task} \cup Groups

ASSUME OpCacheAssumption ==
  \A c \in Casts : c.version \in [Procs -> Nat \ {0}] /\ c.groups \in [Procs -> 0 .. 2]

VARIABLES cast,      \* who the processes are
          version,   \* version.txt, 0 when it says nothing
          meta,      \* meta.json: the version that wrote it, 0 when it is
                     \* missing or half written
          types,     \* func_types.pickle: "absent", "partial" or "complete"
          product,   \* the library or object file of each module
          lock,      \* who holds the lock file of each module's directory
          pc, at,    \* where each process is, and the module it is at
          todo,      \* the object files it has still to build, or to remove
          left,      \* what it has still to remove of one's directory
          loaded,    \* the version of the library it loaded, 0 for none
          crashes    \* bound counter

disk == <<version, meta, types, product>>
proc == <<pc, at, todo, left>>
vars == <<cast, disk, lock, proc, loaded, crashes>>

\* The hidet version of a process, and how many object files it makes, which
\* depends on its number of workers (regroup_modules); 0 for one candidate.
VersionOf(p) == cast.version[p]
GroupsOf(p)  == cast.groups[p]
Versions     == {VersionOf(p) : p \in Procs}

Nobody == "nobody"

ASSUME NobodyAssumption == Nobody \notin Procs

\* A module's file: no directory, a directory without it, half of it, or all of
\* it, made by a version with a grouping of the candidates.
NoDir    == [state |-> "no_directory", by |-> 0, groups |-> 0]
Absent   == [state |-> "absent", by |-> 0, groups |-> 0]
Partial  == [state |-> "partial", by |-> 0, groups |-> 0]
Made(p)  == [state |-> "complete", by |-> VersionOf(p), groups |-> GroupsOf(p)]
There(m) == product[m].state \in {"partial", "complete"}
Complete(m) == product[m].state = "complete"

Goto(p, label) == pc' = [pc EXCEPT ![p] = label]
Make(m, file)  == product' = [product EXCEPT ![m] = file]

Init ==
  /\ cast \in Casts
  /\ version = 0 /\ meta = 0 /\ types = "absent"
  /\ product = [m \in Modules |-> IF m = Task THEN Absent ELSE NoDir]
  /\ lock = [m \in Modules |-> Nobody]
  /\ pc = [p \in Procs |-> "build_task"]
  /\ at = [p \in Procs |-> Task]
  /\ todo = [p \in Procs |-> {}]
  /\ left = [p \in Procs |-> {}]
  /\ loaded = [p \in Procs |-> 0]
  /\ crashes = 0

-----------------------------------------------------------------------------
(* build_task: is the task in the cache?                                    *)

CheckVersion(p) ==
  /\ pc[p] = "build_task"
  /\ Goto(p, IF version = VersionOf(p) THEN "check_module" ELSE "from_scratch")
  /\ UNCHANGED <<disk, lock, at, todo, left, loaded, crashes>>

\* Mutant: the types file is not looked for.
ExistsLibrary == There(Task)

\* compiled_module_exists; an empty library counts as absent.
CompiledModuleExists == There(Task) /\ types # "absent"

\* It looks for the library first, ...
CheckModule(p) ==
  /\ pc[p] = "check_module"
  /\ Goto(p, IF There(Task) THEN "check_size" ELSE "from_scratch")
  /\ UNCHANGED <<disk, lock, at, todo, left, loaded, crashes>>

\* ... then for its size, which raises when the library is gone, and for the types.
CheckSize(p) ==
  /\ pc[p] = "check_size"
  /\ \/ ~ There(Task) /\ Goto(p, "build_failed")
     \/ There(Task) /\ Goto(p, IF CompiledModuleExists THEN "load_meta" ELSE "from_scratch")
  /\ UNCHANGED <<disk, lock, at, todo, left, loaded, crashes>>

-----------------------------------------------------------------------------
(* compile_task_from_scratch                                                *)

WriteTaskFiles(p) ==
  /\ pc[p] = "from_scratch"
  /\ version' = VersionOf(p)
  /\ Goto(p, "open_meta")
  /\ UNCHANGED <<meta, types, product, lock, at, todo, left, loaded, crashes>>

\* generate_meta_data opens meta.json, which empties it, and writes it.
OpenMeta(p) ==
  /\ pc[p] = "open_meta"
  /\ meta' = 0 /\ Goto(p, "write_meta")
  /\ UNCHANGED <<version, types, product, lock, at, todo, left, loaded, crashes>>

WriteMeta(p) ==
  /\ pc[p] = "write_meta"
  /\ meta' = VersionOf(p) /\ Goto(p, "next")
  /\ todo' = [todo EXCEPT ![p] = 1 .. GroupsOf(p)]
  /\ UNCHANGED <<version, types, product, lock, at, left, loaded, crashes>>

\* build_task_module: the object files in any order, then the library.
NextModule(p) ==
  /\ pc[p] = "next"
  /\ \E m \in IF todo[p] = {} THEN {Task} ELSE todo[p] :
       /\ at' = [at EXCEPT ![p] = m]
       /\ todo' = [todo EXCEPT ![p] = @ \ {m}]
  /\ Goto(p, "acquire")
  /\ UNCHANGED <<disk, lock, left, loaded, crashes>>

-----------------------------------------------------------------------------
(* build_ir_module(at[p])                                                   *)

\* Mutant: the lock is not waited for.
UnlockedAlways(m) == TRUE

Unlocked(m) == lock[m] = Nobody

\* FolderLock creates the directory.
Acquire(p) ==
  /\ pc[p] = "acquire" /\ Unlocked(at[p])
  /\ lock' = [lock EXCEPT ![at[p]] = p]
  /\ product' = IF product[at[p]] = NoDir THEN [product EXCEPT ![at[p]] = Absent] ELSE product
  /\ Goto(p, "locked")
  /\ UNCHANGED <<version, meta, types, at, todo, left, loaded, crashes>>

\* The lock file may have been removed since: then it is nobody's any more.
Release(p) == lock' = [lock EXCEPT ![at[p]] = IF @ = p THEN Nobody ELSE @]

\* The lock file or the source cannot be opened: another process that removes the
\* directories has just removed this one again.
DirectoryGone(p) ==
  /\ pc[p] \in {"acquire", "locked"} /\ at[p] # Task
  /\ \E q \in Procs \ {p} : pc[q] \in {"enter", "remove"}
  /\ Release(p) /\ Goto(p, "build_failed")
  /\ UNCHANGED <<disk, at, todo, left, loaded, crashes>>

\* Mutant: a library that is skipped is taken for an object file.
AfterObject(p) == "next"

After(p) == IF at[p] = Task THEN "clean" ELSE "next"

\* should_skip_build: the file is there, ...
Exists(p) ==
  /\ pc[p] = "locked" /\ There(at[p])
  /\ Goto(p, "sizing")
  /\ UNCHANGED <<disk, lock, at, todo, left, loaded, crashes>>

\* ... getsize raises when it has been removed since, ...
SizeFails(p) ==
  /\ pc[p] = "sizing" /\ ~ There(at[p])
  /\ Release(p) /\ Goto(p, "build_failed")
  /\ UNCHANGED <<disk, at, todo, left, loaded, crashes>>

\* Mutant: the library is built whatever is there.
NeverSkip(m) == FALSE

\* ... and of a library the types have to be there, too.
ShouldSkipBuild(m) == There(m) /\ (m = Task => types # "absent")

SkipBuild(p) ==
  /\ pc[p] = "sizing" /\ ShouldSkipBuild(at[p])
  /\ Release(p) /\ Goto(p, After(p))
  /\ UNCHANGED <<disk, at, todo, left, loaded, crashes>>

\* Source code is generated, in a directory that is made when it is missing, and the
\* compiler starts to write its output.
Compile(p) ==
  /\ \/ pc[p] = "locked" /\ ~ There(at[p])
     \/ pc[p] = "sizing" /\ There(at[p]) /\ ~ ShouldSkipBuild(at[p])
  /\ Make(at[p], Partial) /\ Goto(p, "compiling")
  /\ UNCHANGED <<version, meta, types, lock, at, todo, left, loaded, crashes>>

\* The compiler is done with an object file, ...
ObjectDone(p) ==
  /\ pc[p] = "compiling" /\ at[p] # Task /\ product[at[p]] # NoDir
  /\ Make(at[p], Made(p)) /\ Goto(p, "next") /\ Release(p)
  /\ UNCHANGED <<version, meta, types, at, todo, left, loaded, crashes>>

\* ... which may be removed while it is written, and the directory may have vanished,
\* or the source before it was read.
ObjectLost(p) ==
  /\ pc[p] = "compiling" /\ at[p] # Task /\ product[at[p]] \in {Absent, NoDir}
  /\ \/ Goto(p, "build_failed")
     \/ product[at[p]] = Absent /\ Goto(p, "next")
  /\ Release(p)
  /\ UNCHANGED <<disk, at, todo, left, loaded, crashes>>

\* The linker needs every object file, whole, and each candidate once.
Linkable(p) == \A m \in 1 .. GroupsOf(p) : Complete(m) /\ product[m].groups = GroupsOf(p)

\* A library of objects of another version is not this version's.
Linked(p) == IF \A m \in 1 .. GroupsOf(p) : product[m].by = VersionOf(p)
             THEN Made(p) ELSE [Made(p) EXCEPT !.by = 0]

LibraryDone(p) ==
  /\ pc[p] = "compiling" /\ at[p] = Task
  /\ IF Linkable(p)
     THEN Make(Task, Linked(p)) /\ Goto(p, "open_types") /\ UNCHANGED lock
     ELSE Make(Task, Absent) /\ Goto(p, "build_failed") /\ Release(p)
  /\ UNCHANGED <<version, meta, types, at, todo, left, loaded, crashes>>

OpenTypes(p) ==
  /\ pc[p] = "open_types"
  /\ types' = "partial" /\ Goto(p, "write_types")
  /\ UNCHANGED <<version, meta, product, lock, at, todo, left, loaded, crashes>>

WriteTypes(p) ==
  /\ pc[p] = "write_types"
  /\ types' = "complete" /\ Release(p) /\ Goto(p, "clean")
  /\ UNCHANGED <<version, meta, product, at, todo, left, loaded, crashes>>

-----------------------------------------------------------------------------

(* rmtree removes the directories of the object files, one after another and  *)
(* file by file.  It takes no lock, and ignores every error.                 *)

ListCandidates(p) ==
  /\ pc[p] = "clean"
  /\ todo' = [todo EXCEPT ![p] = {m \in Groups : product[m] # NoDir}]
  /\ Goto(p, "enter")
  /\ UNCHANGED <<disk, lock, at, left, loaded, crashes>>

\* What it lists is the lock file and the object, or the source the object is made
\* from; what is not there when its turn comes, is not removed.
ListDirectory(p) ==
  /\ pc[p] = "enter"
  /\ \E m \in todo[p] :
       /\ at' = [at EXCEPT ![p] = m]
       /\ todo' = [todo EXCEPT ![p] = @ \ {m}]
       /\ left' = [left EXCEPT ![p] = IF product[m] = NoDir THEN {} ELSE {"object", "lock"}]
  /\ Goto(p, "remove")
  /\ UNCHANGED <<disk, lock, loaded, crashes>>

RemoveObject(p) ==
  /\ pc[p] = "remove" /\ "object" \in left[p]
  /\ left' = [left EXCEPT ![p] = @ \ {"object"}]
  /\ product' = IF There(at[p]) THEN [product EXCEPT ![at[p]] = Absent] ELSE product
  /\ UNCHANGED <<version, meta, types, lock, pc, at, todo, loaded, crashes>>

\* Who holds the lock, holds that of a file that has no name any more.
RemoveLock(p) ==
  /\ pc[p] = "remove" /\ "lock" \in left[p]
  /\ left' = [left EXCEPT ![p] = @ \ {"lock"}]
  /\ lock' = [lock EXCEPT ![at[p]] = Nobody]
  /\ UNCHANGED <<disk, pc, at, todo, loaded, crashes>>

\* A directory in which something was made since stays.
RemoveDirectory(p) ==
  /\ pc[p] = "remove" /\ left[p] = {}
  /\ \/ product[at[p]] = Absent /\ lock[at[p]] = Nobody /\ Make(at[p], NoDir)
     \/ UNCHANGED product
  /\ Goto(p, "enter")
  /\ UNCHANGED <<version, meta, types, lock, at, todo, left, loaded, crashes>>

Cleaned(p) ==
  /\ pc[p] = "enter" /\ todo[p] = {}
  /\ Goto(p, "load_meta")
  /\ at' = [at EXCEPT ![p] = Task]
  /\ UNCHANGED <<disk, lock, todo, left, loaded, crashes>>

\* load_compiled_task: meta.json, then the library and its types.
LoadMeta(p) ==
  /\ pc[p] = "load_meta"
  /\ Goto(p, IF meta = 0 THEN "load_failed" ELSE "load_module")
  /\ UNCHANGED <<disk, lock, at, todo, left, loaded, crashes>>

LoadModule(p) ==
  /\ pc[p] = "load_module"
  /\ IF Complete(Task) /\ types = "complete"
     THEN loaded' = [loaded EXCEPT ![p] = product[Task].by] /\ Goto(p, "done")
     ELSE Goto(p, "load_failed") /\ UNCHANGED loaded
  /\ UNCHANGED <<disk, lock, at, todo, left, crashes>>

\* A process is killed, anywhere, and started again: its locks are released.
Crash(p) ==
  /\ crashes < MaxCrashes
  /\ pc[p] \notin {"build_task", "done"}
  /\ crashes' = crashes + 1
  /\ Release(p) /\ Goto(p, "build_task")
  /\ loaded' = [loaded EXCEPT ![p] = 0]
  /\ at' = [at EXCEPT ![p] = Task]
  /\ todo' = [todo EXCEPT ![p] = {}] /\ left' = [left EXCEPT ![p] = {}]
  /\ UNCHANGED <<cast, disk>>

Step(p) ==
  /\ \/ CheckVersion(p) \/ CheckModule(p) \/ CheckSize(p)
     \/ WriteTaskFiles(p) \/ OpenMeta(p) \/ WriteMeta(p) \/ NextModule(p)
     \/ Acquire(p) \/ DirectoryGone(p) \/ Exists(p) \/ SizeFails(p) \/ SkipBuild(p)
     \/ Compile(p) \/ ObjectDone(p) \/ ObjectLost(p)
     \/ LibraryDone(p) \/ OpenTypes(p) \/ WriteTypes(p)
     \/ ListCandidates(p) \/ ListDirectory(p) \/ RemoveObject(p) \/ RemoveLock(p)
     \/ RemoveDirectory(p) \/ Cleaned(p)
     \/ LoadMeta(p) \/ LoadModule(p)
  /\ UNCHANGED cast

\* Every process has loaded the task or given up.
Ended(p)   == pc[p] \in {"done", "build_failed", "load_failed"}
Terminated == (\A p \in Procs : Ended(p)) /\ UNCHANGED vars

Next == (\E p \in Procs : Step(p) \/ Crash(p)) \/ Terminated

\* A process that is not killed goes on; locks are polled until they are free.
Spec == Init /\ [][Next]_vars /\ \A p \in Procs : WF_vars(Step(p))

-----------------------------------------------------------------------------
(* Properties.                                                              *)

InModule(p, m) ==
  /\ pc[p] \in {"locked", "sizing", "compiling", "open_types", "write_types"}
  /\ at[p] = m

\* One process at a time builds the library, and as long as nobody is killed any
\* module, as build_module.py:116-117 says; who holds a lock is inside the module
\* it guards.  (Of three processes, two may build a module: rmtree removes the lock
\* file that the second holds, and the third makes it anew.)
OneBuilder ==
  /\ \A p, q \in Procs, m \in Modules :
       InModule(p, m) /\ InModule(q, m) /\ (m = Task \/ crashes = 0) => p = q
  /\ \A m \in Modules : lock[m] # Nobody => InModule(lock[m], m)

\* A library that the checks without a lock take for finished is finished, even
\* when its builder was killed on the way: the types are written after it.
FoundIsComplete == CompiledModuleExists => Complete(Task)

\* A library that a process may have found, and mapped, is never written again,
\* neither by the process that was killed nor by those that waited for the lock.
LibraryStays == [][CompiledModuleExists => product'[Task] = product[Task]]_vars

\* As long as nobody is killed, processes that group the candidates alike fail only
\* behind one that has succeeded: the library is there, and the next attempt loads it.
\* (They do fail: the one that has built it removes the directories they work in.
\* And a process killed inside the compiler leaves a partial object file, which every
\* later build of the task takes for a finished one and fails to link.)
AllAlike == \A p, q \in Procs : GroupsOf(p) = GroupsOf(q) /\ VersionOf(p) = VersionOf(q)

SomeBuildSucceeds ==
  crashes = 0 /\ AllAlike /\ (\E p \in Procs : pc[p] = "build_failed") =>
     Complete(Task) /\ types = "complete"

\* A process runs code of its own version, as verify_disk_cache has it.
OwnVersion == \A p \in Procs : pc[p] = "done" => loaded[p] = VersionOf(p)

\* Every build ends: no process waits for ever for another one's lock.
EveryoneEnds == \A p \in Procs : <>[]Ended(p)

=============================================================================
