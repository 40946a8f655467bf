------------------------- MODULE CompileServerProofs -------------------------
(***************************************************************************)
(* Proofs about the compile server, for any processes, threads, commits,   *)
(* loads, pool sizes and faults.                                           *)
(*                                                                         *)
(* First, a library that was finished stays: who compiles it holds the     *)
(* lock of the result, and no lock is dropped for another.  Then, that in  *)
(* each process the requests take turns: a single one is between sending   *)
(* its job and taking the result, and but for its own worker all workers   *)
(* of the process are at rest.  That is why nobody needs to look which     *)
(* job a result is of.                                                     *)
(*                                                                         *)
(* Then, who holds the locks of jobs and repositories; that as long as     *)
(* nothing is killed and no build fails, every worker of a pool is alive;  *)
(* and from both, that a job is reported as failed only for its module,    *)
(* and that a client that shares neither jobs nor results is answered, and *)
(* with a whole archive.                                                   *)
(***************************************************************************)
EXTENDS CompileServer, FiniteSetTheorems, TLAPS

USE CompileServerAssumption, LoadsAssumption, NamesAssumption, StopAssumption

ThreadLabels == {"receive", "archive", "build", "lookup", "submit", "dispatch", "join", "start",
                 "wait", "respond", "download"}
WorkerLabels == {"gone", "idle", "open", "result", "compile", "pack", "save_ok", "save_failed",
                 "dump_ok", "dump_failed"}

\* Types, as far as the proofs need them.
Typed ==
  /\ todo \in [Threads -> Seq(Asks)]
  /\ pc \in [Threads -> ThreadLabels]
  /\ life \in [Servers -> Lives]
  /\ pool \in [Servers -> Seq(Commits)]
  /\ busy \in [Servers -> Threads \cup {Nobody}]
  /\ results = [s \in Servers |-> results[s]]
  /\ wpc \in [Workers -> WorkerLabels]
  /\ wjob = [w \in Workers |-> wjob[w]]
  /\ queue = [w \in Workers |-> queue[w]]
  /\ lib = [d \in DOMAIN lib |-> lib[d]]
  /\ \A t \in Threads : pc[t] # "receive" => todo[t] # <<>>

\* Who compiles a result or packs it holds its lock, and does not find it finished.
Compiling == \A w \in Workers : wpc[w] \in {"compile", "pack"} =>
  /\ Result(wjob[w]) \in DOMAIN locks /\ locks[Result(wjob[w])] = w
  /\ wpc[w] = "compile" => lib[Digest(wjob[w])] # "complete"

-----------------------------------------------------------------------------
(* Types.                                                                   *)

LEMMA AskedType ==
  ASSUME Typed, NEW t \in Threads, todo[t] # <<>>
  PROVE  Asked(t) \in Asks /\ Asked(t).commit \in Commits
BY DEF Typed, Asked

LEMMA HomeType == \A t \in Threads : Home(t) \in Servers
BY DEF Home

LEMMA WorkerType ==
  ASSUME Typed, NEW t \in Threads, todo[t] # <<>>
  PROVE  Worker(t) \in Workers
BY AskedType, HomeType DEF Typed, Worker, Workers

LEMMA TypedInit == Init => Typed
<1> SUFFICES ASSUME Init PROVE Typed  OBVIOUS
<1>1. todo \in [Threads -> Seq(Asks)]  BY DEF Init
<1>2. pc \in [Threads -> ThreadLabels]  BY DEF Init, ThreadLabels
<1>3. 0 \in Lives  BY DEF Lives
<1>4. life \in [Servers -> Lives]  BY <1>3 DEF Init
<1>5. wpc \in [Workers -> WorkerLabels]  BY DEF Init, WorkerLabels
<1>6. \A t \in Threads : pc[t] = "receive"  BY DEF Init
<1>7. pool \in [Servers -> Seq(Commits)] /\ busy \in [Servers -> Threads \cup {Nobody}]  BY DEF Init
<1>8. results = [s \in Servers |-> results[s]] /\ queue = [w \in Workers |-> queue[w]]
      /\ wjob = [w \in Workers |-> wjob[w]]
  BY DEF Init
<1>9. lib = [d \in DOMAIN lib |-> lib[d]]  BY DEF Init
<1> QED  BY <1>1, <1>2, <1>4, <1>5, <1>6, <1>7, <1>8, <1>9 DEF Typed

LEMMA TypedThread ==
  ASSUME Typed, NEW t \in Threads, Serve(t) \/ BuildFails(t)
  PROVE  Typed'
<1>0. /\ Home(t) \in Servers
      /\ pc[t] # "receive" \/ Checkout(t) => todo[t] # <<>>
      /\ todo[t] # <<>> => Asked(t).commit \in Commits
  BY HomeType, AskedType DEF Typed, Checkout
<1>1. life' \in [Servers -> Lives] /\ lib' = [d \in DOMAIN lib' |-> lib'[d]]
      /\ wjob' = [w \in Workers |-> wjob'[w]]
  BY DEF Typed, Serve, Checkout, Archive, Build, BuildFails, Lookup, Submit, Dispatch, Join, Start,
         Collect, Respond, Download, process, workers, files
<1>2. /\ pc' \in [Threads -> ThreadLabels]
      /\ todo' \in [Threads -> Seq(Asks)]
      /\ \A u \in Threads : pc'[u] # "receive" => todo'[u] # <<>>
  <2>1. todo[t] # <<>>
    BY <1>0 DEF Serve, Checkout, Archive, Build, BuildFails, Lookup, Submit, Dispatch, Join, Start,
           Collect, Respond, Download
  <2>2. ASSUME NEW how, Over(t, how)
        PROVE  /\ pc' \in [Threads -> ThreadLabels]
               /\ todo' \in [Threads -> Seq(Asks)]
               /\ \A u \in Threads : pc'[u] # "receive" => todo'[u] # <<>>
    <3>1. Tail(todo[t]) \in Seq(Asks)  BY <2>1 DEF Typed
    <3>2. todo' \in [Threads -> Seq(Asks)]  BY <2>2, <3>1 DEF Typed, Over
    <3> QED  BY <2>2, <3>2 DEF Typed, Over, Goto, ThreadLabels
  <2>3. ASSUME NEW label \in ThreadLabels, Goto(t, label), todo' = todo
        PROVE  /\ pc' \in [Threads -> ThreadLabels]
               /\ todo' \in [Threads -> Seq(Asks)]
               /\ \A u \in Threads : pc'[u] # "receive" => todo'[u] # <<>>
    BY <2>1, <2>3 DEF Typed, Goto
  <2>4. /\ "archive" \in ThreadLabels /\ "build" \in ThreadLabels /\ "lookup" \in ThreadLabels
        /\ "submit" \in ThreadLabels /\ "dispatch" \in ThreadLabels /\ "join" \in ThreadLabels
        /\ "start" \in ThreadLabels /\ "wait" \in ThreadLabels /\ "respond" \in ThreadLabels
        /\ "download" \in ThreadLabels
    BY DEF ThreadLabels
  <2>5. CASE Lookup(t) \/ Respond(t) \/ Download(t) \/ BuildFails(t)
    <3>1. (\E how : Over(t, how)) \/ (todo' = todo /\ \E label \in ThreadLabels : Goto(t, label))
      BY <2>4, <2>5 DEF Lookup, Respond, Download, BuildFails, Answer
    <3> QED  BY <2>2, <2>3, <3>1
  <2>6. CASE \/ Checkout(t) \/ Archive(t) \/ Build(t) \/ Submit(t)
             \/ Dispatch(t) \/ Join(t) \/ Start(t) \/ Collect(t)
    <3>1. todo' = todo /\ \E label \in ThreadLabels : Goto(t, label)
      BY <2>4, <2>6 DEF Checkout, Archive, Build, Submit, Dispatch, Join, Start, Collect
    <3> QED  BY <2>3, <3>1
  <2> QED  BY <2>5, <2>6 DEF Serve
<1>3. pool' \in [Servers -> Seq(Commits)]
  <2>1. CASE Dispatch(t)
    <3>1. Full(Home(t)) => Front(pool[Home(t)]) \in Seq(Commits)
      BY <1>0 DEF Typed, Full, Front
    <3> QED  BY <1>0, <2>1, <3>1 DEF Typed, Dispatch
  <2>2. CASE Start(t)
    BY <1>0, <2>2 DEF Typed, Start
  <2>3. CASE ~ (Dispatch(t) \/ Start(t))
    BY <2>3 DEF Typed, Serve, Checkout, Archive, Build, BuildFails, Lookup, Submit, Join,
           Collect, Respond, Download, process
  <2> QED  BY <2>1, <2>2, <2>3
<1>4. /\ busy' \in [Servers -> Threads \cup {Nobody}]
      /\ results' = [s \in Servers |-> results'[s]]
  <2>1. CASE Dispatch(t) \/ Collect(t)
    BY <1>0, <2>1 DEF Typed, Dispatch, Collect
  <2>2. CASE ~ (Dispatch(t) \/ Collect(t))
    BY <2>2 DEF Typed, Serve, Checkout, Archive, Build, BuildFails, Lookup, Submit, Join, Start,
           Respond, Download, process
  <2> QED  BY <2>1, <2>2
<1>5. /\ wpc' \in [Workers -> WorkerLabels]
      /\ queue' = [w \in Workers |-> queue'[w]]
  <2>1. CASE Dispatch(t)
    BY <2>1 DEF Typed, Dispatch, Send
  <2>2. CASE Start(t)
    BY <2>2 DEF Typed, Start, WorkerLabels
  <2>3. CASE ~ (Dispatch(t) \/ Start(t))
    BY <2>3 DEF Typed, Serve, Checkout, Archive, Build, BuildFails, Lookup, Submit, Join,
           Collect, Respond, Download, workers
  <2> QED  BY <2>1, <2>2, <2>3
<1> QED  BY <1>1, <1>2, <1>3, <1>4, <1>5 DEF Typed

LEMMA TypedWorker ==
  ASSUME Typed, NEW w \in Workers, Work(w) \/ KillWorker(w)
  PROVE  Typed'
<1>1. UNCHANGED <<todo, pc, life, pool, busy>>
  BY DEF Work, GetJob, Open, Enter, Compile, Pack, Save, Dump, KillWorker, Report, Finished, threads, process
<1>2. results' = [s \in Servers |-> results'[s]]
  BY DEF Typed, Work, GetJob, Open, Enter, Compile, Pack, Save, Dump, KillWorker, Report, Finished, process
<1>3. wpc' \in [Workers -> WorkerLabels]
  BY DEF Typed, Work, GetJob, Open, Enter, Compile, Pack, Save, Dump, KillWorker, WGoto, WorkerLabels
<1>4. wjob' = [v \in Workers |-> wjob'[v]] /\ queue' = [v \in Workers |-> queue'[v]]
  BY DEF Typed, Work, GetJob, Open, Enter, Compile, Pack, Save, Dump, KillWorker
<1>5. lib' = [d \in DOMAIN lib' |-> lib'[d]]
  BY DEF Typed, Work, GetJob, Open, Enter, Compile, Pack, Save, Dump, KillWorker, files
<1> QED  BY <1>1, <1>2, <1>3, <1>4, <1>5 DEF Typed

LEMMA TypedRestart ==
  ASSUME Typed, NEW s \in Servers, KillServer(s) \/ Timeout(s)
  PROVE  Typed'
<1>1. Restart(s)  BY DEF KillServer, Timeout
<1>2. /\ pc' \in [Threads -> ThreadLabels]
      /\ todo' \in [Threads -> Seq(Asks)]
      /\ \A u \in Threads : pc'[u] # "receive" => todo'[u] # <<>>
  BY <1>1 DEF Typed, Restart, ThreadLabels
<1>3. life' \in [Servers -> Lives]  BY <1>1 DEF Typed, Restart
<1>4. pool' \in [Servers -> Seq(Commits)]
  <2>1. <<>> \in Seq(Commits)  OBVIOUS
  <2> QED  BY <1>1, <2>1 DEF Typed, Restart
<1>6. busy' \in [Servers -> Threads \cup {Nobody}] /\ results' = [r \in Servers |-> results'[r]]
  BY <1>1 DEF Typed, Restart
<1>5. UNCHANGED <<workers, lib>>  BY <1>1 DEF Restart
<1> QED  BY <1>2, <1>3, <1>4, <1>5, <1>6 DEF Typed, workers

-----------------------------------------------------------------------------
(* Libraries.                                                               *)

\* A step keeps the locks of results that workers hold, but those of one worker.
KeepsResults(except) == \A j : \A w \in Workers \ except :
  Result(j) \in DOMAIN locks /\ locks[Result(j)] = w =>
    Result(j) \in DOMAIN locks' /\ locks'[Result(j)] = w

LEMMA TakeKeeps ==
  ASSUME NEW l, NEW who, Free(l), Take(l, who)
  PROVE  KeepsResults({}) /\ l \in DOMAIN locks' /\ locks'[l] = who
BY DEF Free, Take, KeepsResults

LEMMA DropKeeps ==
  ASSUME NEW holders, Drop(Held(holders))
  PROVE  KeepsResults(holders)
BY DEF Drop, Held, KeepsResults

LEMMA CompilingThread ==
  ASSUME Typed, Compiling, NEW t \in Threads, Serve(t) \/ BuildFails(t)
  PROVE  Compiling' /\ lib' = lib
<1>1. KeepsResults({})
  <2>1. CASE Checkout(t) \/ Archive(t)
    BY <2>1, TakeKeeps DEF Checkout, Archive, RepoFree, KeepsResults
  <2>2. CASE Build(t) \/ BuildFails(t)
    <3>1. Drop({Repo(t), Commit(t)})  BY <2>2 DEF Build, BuildFails
    <3>2. \A j : Result(j) # Repo(t) /\ Result(j) # Commit(t)
      BY DEF Result, Repo, Commit
    <3> QED  BY <3>1, <3>2 DEF Drop, KeepsResults
  <2>3. CASE ~ (Checkout(t) \/ Archive(t) \/ Build(t) \/ BuildFails(t))
    BY <2>3 DEF Serve, Lookup, Submit, Dispatch, Join, Start, Collect, Respond, Download, files, KeepsResults
  <2> QED  BY <2>1, <2>2, <2>3
<1>2. lib' = lib /\ wjob' = wjob /\ \A w \in Workers : wpc'[w] = wpc[w] \/ wpc'[w] = "idle"
  BY DEF Typed, Serve, Checkout, Archive, Build, BuildFails, Lookup, Submit, Dispatch, Join, Start,
         Collect, Respond, Download, files, workers
<1> QED  BY <1>1, <1>2 DEF Compiling, KeepsResults, Result

LEMMA CompilingWorker ==
  ASSUME Typed, Compiling, NEW v \in Workers, Work(v) \/ KillWorker(v)
  PROVE  Compiling' /\ \A d \in DOMAIN lib : lib[d] = "complete" => lib'[d] = "complete"
<1>1. /\ KeepsResults({v})
      /\ \A w \in Workers \ {v} : wpc'[w] = wpc[w] /\ wjob'[w] = wjob[w]
  <2>1. \A w \in Workers \ {v} : wpc'[w] = wpc[w] /\ wjob'[w] = wjob[w]
    BY DEF Typed, Work, GetJob, Open, Enter, Compile, Pack, Save, Dump, KillWorker, WGoto
  <2>2. CASE Open(v) \/ Enter(v)
    BY <2>1, <2>2, TakeKeeps DEF Open, Enter, KeepsResults
  <2>3. CASE Compile(v) \/ Pack(v) \/ KillWorker(v)
    BY <2>1, <2>3, DropKeeps DEF Compile, Pack, KillWorker, KeepsResults
  <2>4. CASE GetJob(v) \/ Save(v) \/ Dump(v)
    BY <2>1, <2>4 DEF GetJob, Save, Dump, files, KeepsResults
  <2> QED  BY <2>1, <2>2, <2>3, <2>4 DEF Work
\* Only who compiles a result changes the library, and only that of its job.
<1>2. \/ lib' = lib
      \/ Enter(v) /\ lib[Digest(wjob[v])] = Absent /\ lib' = [lib EXCEPT ![Digest(wjob[v])] = "partial"]
      \/ Compile(v) /\ \E x : lib' = [lib EXCEPT ![Digest(wjob[v])] = x]
  BY DEF Work, GetJob, Open, Enter, Compile, Pack, Save, Dump, KillWorker, files, MustBuild
<1>3. wpc[v] = "compile" => lib[Digest(wjob[v])] # "complete"
  BY DEF Compiling
<1>4. \A d \in DOMAIN lib : lib[d] = "complete" => lib'[d] = "complete"
  BY <1>2, <1>3 DEF Compile, Absent
<1>5. ASSUME NEW w \in Workers, w # v, wpc[w] \in {"compile", "pack"}
      PROVE  /\ Result(wjob[w]) \in DOMAIN locks' /\ locks'[Result(wjob[w])] = w
             /\ wpc[w] = "compile" => lib'[Digest(wjob[w])] # "complete"
  <2>1. Result(wjob[w]) \in DOMAIN locks /\ locks[Result(wjob[w])] = w
        /\ (wpc[w] = "compile" => lib[Digest(wjob[w])] # "complete")
    BY <1>5 DEF Compiling
  <2>2. Result(wjob[w]) \in DOMAIN locks' /\ locks'[Result(wjob[w])] = w
    BY <1>1, <1>5, <2>1 DEF KeepsResults
  <2>3. CASE lib' = lib  BY <2>1, <2>2, <2>3
  <2>4. CASE Enter(v) /\ lib' = [lib EXCEPT ![Digest(wjob[v])] = "partial"]
    <3>1. Digest(wjob[v]) # Digest(wjob[w])
      BY <2>1, <2>4 DEF Enter, Free, Result
    <3>2. lib'[Digest(wjob[w])] = lib[Digest(wjob[w])]
      BY <2>4, <3>1 DEF Typed
    <3> QED  BY <2>1, <2>2, <3>2
  <2>5. CASE Compile(v) /\ \E x : lib' = [lib EXCEPT ![Digest(wjob[v])] = x]
    <3>1. Result(wjob[v]) \in DOMAIN locks /\ locks[Result(wjob[v])] = v
      BY <2>5 DEF Compile, Compiling
    <3>2. Digest(wjob[v]) # Digest(wjob[w])
      BY <1>5, <2>1, <3>1 DEF Result
    <3>3. lib'[Digest(wjob[w])] = lib[Digest(wjob[w])]
      BY <2>5, <3>2 DEF Typed
    <3> QED  BY <2>1, <2>2, <3>3
  <2> QED  BY <1>2, <2>3, <2>4, <2>5
<1>6. wpc'[v] \in {"compile", "pack"} =>
        /\ Result(wjob'[v]) \in DOMAIN locks' /\ locks'[Result(wjob'[v])] = v
        /\ wpc'[v] = "compile" => lib'[Digest(wjob'[v])] # "complete"
  <2>1. CASE Enter(v)
    <3>1. wjob' = wjob /\ Result(wjob[v]) \in DOMAIN locks' /\ locks'[Result(wjob[v])] = v
      BY <2>1, TakeKeeps DEF Enter
    <3>2. CASE MustBuild(Digest(wjob[v]))
      <4>1. lib' = [lib EXCEPT ![Digest(wjob[v])] = "partial"] /\ lib[Digest(wjob[v])] = Absent
        BY <2>1, <3>2 DEF Enter, MustBuild
      <4>2. CASE Digest(wjob[v]) \in DOMAIN lib  BY <3>1, <4>1, <4>2
      <4>3. CASE Digest(wjob[v]) \notin DOMAIN lib
        <5>1. lib' = lib  BY <4>1, <4>3 DEF Typed
        <5> QED  BY <3>1, <4>1, <5>1 DEF Absent
      <4> QED  BY <4>2, <4>3
    <3>3. CASE ~ MustBuild(Digest(wjob[v]))
      BY <2>1, <3>1, <3>3 DEF Enter, WGoto, Typed
    <3> QED  BY <3>2, <3>3
  <2>2. CASE Compile(v)
    <3>1. CASE Digest(wjob[v]).module \in Failing
      BY <2>2, <3>1 DEF Compile, WGoto, Typed
    <3>2. CASE Digest(wjob[v]).module \notin Failing
      BY <2>2, <3>2 DEF Compile, WGoto, Typed, Compiling
    <3> QED  BY <3>1, <3>2
  <2>3. CASE GetJob(v) \/ Open(v) \/ Pack(v) \/ Save(v) \/ Dump(v) \/ KillWorker(v)
    <3>1. wpc'[v] \notin {"compile", "pack"}
      BY <2>3 DEF GetJob, Open, Pack, Save, Dump, KillWorker, WGoto, Typed
    <3> QED  BY <3>1
  <2> QED  BY <2>1, <2>2, <2>3 DEF Work
<1>7. Compiling'
  <2> SUFFICES ASSUME NEW w \in Workers, wpc'[w] \in {"compile", "pack"}
               PROVE  /\ Result(wjob'[w]) \in DOMAIN locks' /\ locks'[Result(wjob'[w])] = w
                      /\ wpc'[w] = "compile" => lib'[Digest(wjob'[w])] # "complete"
    BY DEF Compiling, Result, Digest
  <2>1. CASE w = v  BY <1>6, <2>1
  <2>2. CASE w # v  BY <1>1, <1>5, <2>2
  <2> QED  BY <2>1, <2>2
<1> QED  BY <1>4, <1>7

LEMMA CompilingRestart ==
  ASSUME Typed, Compiling, NEW s \in Servers, Restart(s)
  PROVE  Compiling' /\ lib' = lib
<1>1. PICK mine \in SUBSET Threads : Drop(Held(mine))  BY DEF Restart
<1>2. KeepsResults(mine)  BY <1>1, DropKeeps
<1>3. \A w \in Workers : w \notin mine  BY <1>1
<1>4. lib' = lib /\ wpc' = wpc /\ wjob' = wjob  BY DEF Restart, workers
<1> QED  BY <1>2, <1>3, <1>4 DEF Compiling, KeepsResults, Result

\* Variables have their types, and a worker that compiles or packs a result holds
\* the lock of the result (compile_job).
THEOREM LibraryInvariant == Spec => [](Typed /\ Compiling)
<1>1. Init => Typed /\ Compiling
  <2>1. Init => Compiling  BY DEF Init, Compiling
  <2> QED  BY <2>1, TypedInit
<1>2. Typed /\ Compiling /\ [Next]_vars => (Typed /\ Compiling)'
  <2> SUFFICES ASSUME Typed, Compiling, [Next]_vars PROVE Typed' /\ Compiling'  OBVIOUS
  <2>1. CASE UNCHANGED vars
    <3>1. UNCHANGED <<todo, pc, life, pool, busy, results, wpc, wjob, queue, lib, locks>>
      BY <2>1 DEF vars, files, threads, process, workers
    <3> QED  BY <3>1 DEF Typed, Compiling, Result
  <2>2. CASE \E t \in Threads : Serve(t) \/ BuildFails(t)
    BY <2>2, TypedThread, CompilingThread
  <2>3. CASE \E w \in Workers : Work(w) \/ KillWorker(w)
    BY <2>3, TypedWorker, CompilingWorker
  <2>4. CASE \E s \in Servers : KillServer(s) \/ Timeout(s)
    BY <2>4, TypedRestart, CompilingRestart DEF KillServer, Timeout
  <2> QED  BY <2>1, <2>2, <2>3, <2>4 DEF Next
<1> QED  BY <1>1, <1>2, PTL DEF Spec

\* A library that was finished is never touched again (compile_job).
THEOREM LibrariesKept == Spec => LibraryKept
<1>1. Typed /\ Compiling /\ [Next]_vars =>
        [\A d \in DOMAIN lib : lib[d] = "complete" => lib'[d] = "complete"]_vars
  <2> SUFFICES ASSUME Typed, Compiling, Next
               PROVE  \A d \in DOMAIN lib : lib[d] = "complete" => lib'[d] = "complete"
    OBVIOUS
  <2>1. CASE \E t \in Threads : Serve(t) \/ BuildFails(t)
    BY <2>1, CompilingThread
  <2>2. CASE \E w \in Workers : Work(w) \/ KillWorker(w)
    BY <2>2, CompilingWorker
  <2>3. CASE \E s \in Servers : KillServer(s) \/ Timeout(s)
    BY <2>3, CompilingRestart DEF KillServer, Timeout
  <2> QED  BY <2>1, <2>2, <2>3 DEF Next
<1> QED  BY <1>1, LibraryInvariant, PTL DEF Spec, LibraryKept

-----------------------------------------------------------------------------
(* The turns of the requests of a process.                                  *)

\* The worker of a commit, of the process's present life.
Mine(s, c) == <<s, life[s], c>>

Quiet(s, c) == \/ wpc[Mine(s, c)] = "gone"
               \/ wpc[Mine(s, c)] = "idle" /\ queue[Mine(s, c)] = <<>>

InPool(s, c) == wpc[Mine(s, c)] # "gone" => c \in ToSet(pool[s])

\* Nobody does anything for the process, ...
AtRest(s) == results[s] = <<>> /\ \A c \in Commits : Quiet(s, c) /\ InPool(s, c)

\* ... but end, ...
Stopping(s) ==
  /\ results[s] = <<>>
  /\ \E d \in Commits \ ToSet(pool[s]) :
       /\ \A c \in Commits \ {d} : Quiet(s, c) /\ InPool(s, c)
       /\ wpc[Mine(s, d)] # "gone" => wpc[Mine(s, d)] = "idle" /\ queue[Mine(s, d)] = <<Stop>>

\* ... but compile what a thread asked for, ...
Expecting(t) ==
  LET w == Worker(t)
  IN  /\ results[Home(t)] = <<>>
      /\ \A c \in Commits : InPool(Home(t), c) /\ (c # Asked(t).commit => Quiet(Home(t), c))
      /\ \/ wpc[w] = "gone"
         \/ wpc[w] = "idle" /\ queue[w] = <<JobOf(t)>>
         \/ wpc[w] # "idle" /\ queue[w] = <<>> /\ wjob[w] = JobOf(t)

\* ... which is all there is when it is done.
Delivered(t) ==
  /\ results[Home(t)] = <<JobOf(t)>>
  /\ \A c \in Commits : Quiet(Home(t), c) /\ InPool(Home(t), c)

\* There is room for the worker that a thread needs.
Room(t) == Asked(t).commit \notin ToSet(pool[Home(t)]) /\ Len(pool[Home(t)]) < MaxWorkers

Engaged == {"join", "start", "wait"}

Distinct(q) == \A i, j \in DOMAIN q : q[i] = q[j] => i = j

ThreadTurn(t) ==
  /\ pc[t] \in Engaged <=> busy[Home(t)] = t
  /\ pc[t] = "join" => Stopping(Home(t)) /\ Room(t)
  /\ pc[t] = "start" => AtRest(Home(t)) /\ Room(t)
  /\ pc[t] = "wait" => Expecting(t) \/ Delivered(t)

Turn(s) ==
  /\ busy[s] = Nobody => AtRest(s)
  /\ busy[s] # Nobody => Home(busy[s]) = s
  /\ Len(pool[s]) <= MaxWorkers /\ Distinct(pool[s])

\* Workers of lives to come do not exist.
Unborn == \A s \in Servers, l \in Lives, c \in Commits : life[s] < l => wpc[<<s, l, c>>] = "gone"

Turns == /\ \A s \in Servers : Turn(s)
         /\ \A t \in Threads : ThreadTurn(t)
         /\ Unborn

\* The last of a sequence is taken off it.
LEMMA FrontOfPool ==
  ASSUME NEW q \in Seq(Commits), q # <<>>, Distinct(q)
  PROVE  /\ Front(q) \in Seq(Commits) /\ Len(Front(q)) = Len(q) - 1 /\ Distinct(Front(q))
         /\ Last(q) \in Commits /\ ToSet(Front(q)) = ToSet(q) \ {Last(q)}
<1>1. Len(q) \in Nat \ {0} /\ DOMAIN q = 1 .. Len(q) /\ \A i \in 1 .. Len(q) : q[i] \in Commits
  OBVIOUS
<1>2. /\ Front(q) \in Seq(Commits) /\ Len(Front(q)) = Len(q) - 1
      /\ \A i \in 1 .. Len(q) - 1 : Front(q)[i] = q[i]
  BY <1>1 DEF Front
<1>3. DOMAIN Front(q) = 1 .. Len(q) - 1  BY <1>2
<1>4. Last(q) \in Commits  BY <1>1 DEF Last
<1>5. Distinct(Front(q))  BY <1>1, <1>2, <1>3 DEF Distinct
<1>6. ASSUME NEW x PROVE x \in ToSet(Front(q)) <=> x \in ToSet(q) \ {Last(q)}
  <2>1. x \in ToSet(Front(q)) <=> \E i \in 1 .. Len(q) - 1 : q[i] = x
    BY <1>2, <1>3 DEF ToSet
  <2>2. x \in ToSet(q) <=> \E i \in 1 .. Len(q) : q[i] = x
    BY <1>1 DEF ToSet
  <2> QED  BY <1>1, <2>1, <2>2 DEF Last, Distinct
<1> QED  BY <1>2, <1>4, <1>5, <1>6

LEMMA AppendToPool ==
  ASSUME NEW q \in Seq(Commits), Distinct(q), NEW c \in Commits \ ToSet(q)
  PROVE  /\ Len(Append(q, c)) = Len(q) + 1 /\ Distinct(Append(q, c))
         /\ ToSet(Append(q, c)) = ToSet(q) \cup {c}
<1>1. /\ Len(q) \in Nat /\ DOMAIN q = 1 .. Len(q)
      /\ Len(Append(q, c)) = Len(q) + 1 /\ DOMAIN Append(q, c) = 1 .. Len(q) + 1
      /\ \A i \in 1 .. Len(q) : Append(q, c)[i] = q[i]
      /\ Append(q, c)[Len(q) + 1] = c
  OBVIOUS
<1>2. \A i \in 1 .. Len(q) : q[i] # c  BY <1>1 DEF ToSet
<1>3. Distinct(Append(q, c))  BY <1>1, <1>2 DEF Distinct
<1>4. ASSUME NEW x PROVE x \in ToSet(Append(q, c)) <=> x \in ToSet(q) \cup {c}
  <2>1. x \in ToSet(Append(q, c)) <=> \E i \in 1 .. Len(q) + 1 : Append(q, c)[i] = x
    BY <1>1 DEF ToSet
  <2>2. x \in ToSet(q) <=> \E i \in 1 .. Len(q) : q[i] = x
    BY <1>1 DEF ToSet
  <2> QED  BY <1>1, <2>1, <2>2
<1> QED  BY <1>1, <1>3, <1>4

-----------------------------------------------------------------------------
(* What a step does not touch keeps its turn.                               *)

SameServer(s) ==
  /\ busy'[s] = busy[s] /\ results'[s] = results[s] /\ pool'[s] = pool[s] /\ life'[s] = life[s]
  /\ \A c \in Commits : /\ wpc'[Mine(s, c)] = wpc[Mine(s, c)]
                         /\ wjob'[Mine(s, c)] = wjob[Mine(s, c)]
                         /\ queue'[Mine(s, c)] = queue[Mine(s, c)]

SameThread(t) ==
  \/ pc[t] \in Engaged /\ pc'[t] = pc[t] /\ todo'[t] = todo[t]
  \/ pc[t] \notin Engaged /\ pc'[t] \notin Engaged

LEMMA FrameServer ==
  ASSUME NEW s \in Servers, SameServer(s), Turn(s)
  PROVE  Turn(s)'
BY DEF SameServer, Turn, AtRest, Quiet, InPool, Mine, Home

LEMMA FrameThread ==
  ASSUME Typed, NEW t \in Threads, SameServer(Home(t)), SameThread(t), ThreadTurn(t)
  PROVE  ThreadTurn(t)'
<1>1. \A s : Home(t)' = Home(t)  BY DEF Home
<1>2. CASE pc[t] \notin Engaged /\ pc'[t] \notin Engaged
  BY <1>1, <1>2 DEF ThreadTurn, SameServer, Engaged
<1>3. CASE pc[t] \in Engaged /\ pc'[t] = pc[t] /\ todo'[t] = todo[t]
  <2> DEFINE s == Home(t)
  <2>1. Asked(t)' = Asked(t) /\ JobOf(t)' = JobOf(t)
    BY <1>3 DEF Asked, JobOf, Job
  <2>2. todo[t] # <<>>  BY <1>3 DEF Typed, Engaged
  <2>3. Asked(t).commit \in Commits  BY <2>2, AskedType
  <2>4. Worker(t) = Mine(s, Asked(t).commit) /\ Worker(t)' = Worker(t)
    BY <2>1 DEF Worker, Mine, SameServer, Home
  <2>5. \A c \in Commits : (Quiet(s, c)' <=> Quiet(s, c)) /\ (InPool(s, c)' <=> InPool(s, c)) /\ Mine(s, c)' = Mine(s, c)
    BY DEF Quiet, InPool, Mine, SameServer, Home
  <2>6. Room(t)' <=> Room(t)  BY <2>1 DEF Room, SameServer, Home
  <2>7. AtRest(s)' <=> AtRest(s)  BY <2>5 DEF AtRest, SameServer, Home
  <2>8. Stopping(s) => Stopping(s)'  BY <2>5 DEF Stopping, SameServer, Home
  <2>9. Expecting(t) => Expecting(t)'
    BY <2>1, <2>3, <2>4, <2>5 DEF Expecting, SameServer, Home
  <2>10. Delivered(t) => Delivered(t)'
    BY <2>1, <2>5 DEF Delivered, SameServer, Home
  <2>11. busy'[Home(t)] = busy[Home(t)]  BY DEF SameServer
  <2> QED  BY <1>1, <1>3, <2>6, <2>7, <2>8, <2>9, <2>10, <2>11 DEF ThreadTurn
<1> QED  BY <1>2, <1>3 DEF SameThread

\* A step of thread t, whose turn it is or becomes: the other threads of its
\* process are not engaged, and other processes do not notice.
LEMMA OneTurn ==
  ASSUME Typed, Turns, NEW t \in Threads,
         busy[Home(t)] \in {t, Nobody}, busy'[Home(t)] \in {t, Nobody},
         \A r \in Servers \ {Home(t)} : SameServer(r),
         \A u \in Threads \ {t} : pc'[u] = pc[u] /\ todo'[u] = todo[u],
         Turn(Home(t))', ThreadTurn(t)', Unborn'
  PROVE  Turns'
<1>1. \A r \in Servers : Turn(r)'
  <2> SUFFICES ASSUME NEW r \in Servers PROVE Turn(r)'  OBVIOUS
  <2>1. CASE r = Home(t)  BY <2>1 DEF Home
  <2>2. CASE r # Home(t)  BY <2>2, FrameServer DEF Turns
  <2> QED  BY <2>1, <2>2
<1>2. \A u \in Threads : ThreadTurn(u)'
  <2> SUFFICES ASSUME NEW u \in Threads, u # t PROVE ThreadTurn(u)'  OBVIOUS
  <2>1. SameThread(u)  BY DEF SameThread
  <2>2. ThreadTurn(u) /\ Home(u) \in Servers  BY HomeType DEF Turns
  <2>3. CASE Home(u) # Home(t)  BY <2>1, <2>2, <2>3, FrameThread
  <2>4. CASE Home(u) = Home(t)
    <3>1. busy[Home(u)] # u /\ busy'[Home(u)] # u  BY <2>4
    <3>2. pc[u] \notin Engaged /\ pc'[u] \notin Engaged  BY <2>2, <3>1 DEF ThreadTurn
    <3> QED  BY <3>1, <3>2 DEF ThreadTurn, Engaged, Home
  <2> QED  BY <2>3, <2>4
<1> QED  BY <1>1, <1>2 DEF Turns

\* Steps that no turn depends on.
LEMMA TurnsFrame ==
  ASSUME Typed, Turns, Unborn',
         \A s \in Servers : SameServer(s), \A t \in Threads : SameThread(t)
  PROVE  Turns'
<1>1. \A s \in Servers : Turn(s)'  BY FrameServer DEF Turns
<1>2. \A t \in Threads : ThreadTurn(t)'  BY FrameThread, HomeType DEF Turns
<1> QED  BY <1>1, <1>2 DEF Turns

LEMMA DispatchStep ==
  ASSUME Typed, Turns, NEW t \in Threads, Dispatch(t)
  PROVE  Turns'
<1> DEFINE s == Home(t)
           c == Asked(t).commit
           w == Worker(t)
           d == Last(pool[s])
<1>1. /\ s \in Servers /\ todo[t] # <<>> /\ c \in Commits /\ w = Mine(s, c)
      /\ w \in Workers /\ life[s] \in Lives /\ pool[s] \in Seq(Commits)
  BY AskedType, HomeType, WorkerType DEF Dispatch, Typed, Worker, Mine
<1>2. /\ busy[s] = Nobody /\ busy' = [busy EXCEPT ![s] = t]
      /\ UNCHANGED <<todo, life, results, wjob, wpc>>
      /\ \E label \in Engaged : pc' = [pc EXCEPT ![t] = label]
  BY DEF Dispatch, Unlocked, Engaged, Goto
<1>3. AtRest(s) /\ Turn(s)  BY <1>1, <1>2 DEF Turns, Turn
<1>4. busy'[s] = t /\ pc'[t] \in Engaged /\ \A u \in Threads \ {t} : pc'[u] = pc[u] /\ todo'[u] = todo[u]
  BY <1>1, <1>2 DEF Typed
<1>5. Unborn'  BY <1>2 DEF Turns, Unborn
<1>6. JobOf(t)' = JobOf(t) /\ Asked(t)' = Asked(t) /\ Worker(t)' = w /\ Home(t)' = s
      /\ \A r, x : Mine(r, x)' = Mine(r, x)
  BY <1>2 DEF JobOf, Asked, Worker, Mine, Home
<1>7. /\ \A r \in Servers \ {s} : SameServer(r)
      /\ Turn(s)' /\ ThreadTurn(t)'
  <2>1. CASE c \in ToSet(pool[s])
    <3>1. queue' = [queue EXCEPT ![w] = Append(@, JobOf(t))] /\ pool' = pool /\ pc' = [pc EXCEPT ![t] = "wait"]
      BY <2>1 DEF Dispatch, Send, Goto
    <3>2. \A r \in Servers \ {s} : SameServer(r)
      BY <1>1, <1>2, <3>1 DEF Typed, SameServer, Mine
    <3>3. \A x \in Commits : x # c => Mine(s, x) # w  BY <1>1 DEF Mine
    <3>10. \A x \in Commits : x # c => queue'[Mine(s, x)] = queue[Mine(s, x)]
      BY <1>1, <3>1, <3>3 DEF Typed, Mine, Workers
    <3>4. \A x \in Commits : InPool(s, x)' /\ (x # c => Quiet(s, x)')
      <4> SUFFICES ASSUME NEW x \in Commits PROVE InPool(s, x)' /\ (x # c => Quiet(s, x)')  OBVIOUS
      <4>1. InPool(s, x)'  BY <1>2, <1>3, <1>6, <3>1 DEF AtRest, InPool
      <4>2. x # c => Quiet(s, x)'  BY <1>2, <1>3, <1>6, <3>10 DEF AtRest, Quiet
      <4> QED  BY <4>1, <4>2
    <3>5. wpc'[w] = "gone" \/ (wpc'[w] = "idle" /\ queue'[w] = <<JobOf(t)>>)
      <4>1. wpc[w] = "gone" \/ (wpc[w] = "idle" /\ queue[w] = <<>>)
        BY <1>1, <1>3 DEF AtRest, Quiet
      <4>2. queue'[w] = Append(queue[w], JobOf(t)) /\ wpc' = wpc
        BY <1>1, <1>2, <3>1 DEF Typed
      <4>3. queue[w] = <<>> => Append(queue[w], JobOf(t)) = <<JobOf(t)>>  OBVIOUS
      <4> QED  BY <4>1, <4>2, <4>3
    <3>6. Expecting(t)'
      BY <1>2, <1>3, <1>6, <3>4, <3>5 DEF Expecting, AtRest
    <3>7. pc'[t] = "wait"  BY <3>1 DEF Typed
    <3>8. ThreadTurn(t)'  BY <1>4, <1>6, <3>6, <3>7 DEF ThreadTurn, Engaged
    <3>9. Turn(s)'  BY <1>3, <1>4, <1>6, <3>1 DEF Turn, Home
    <3> QED  BY <3>2, <3>8, <3>9
  <2>2. CASE c \notin ToSet(pool[s]) /\ Full(s)
    <3>1. /\ queue' = [queue EXCEPT ![<<s, life[s], d>>] = Append(@, Stop)]
          /\ pool' = [pool EXCEPT ![s] = Front(@)] /\ pc' = [pc EXCEPT ![t] = "join"]
      BY <2>2 DEF Dispatch, Send, Goto
    <3>2. /\ pool'[s] = Front(pool[s]) /\ pc'[t] = "join"  BY <1>1, <3>1 DEF Typed
    <3>3. pool[s] # <<>> /\ Len(pool[s]) = MaxWorkers
      BY <1>1, <1>3, <2>2 DEF Full, Turn
    <3>4. /\ Len(pool'[s]) = MaxWorkers - 1 /\ Distinct(pool'[s])
          /\ d \in Commits /\ ToSet(pool'[s]) = ToSet(pool[s]) \ {d}
      BY <1>1, <1>3, <3>2, <3>3, FrontOfPool DEF Turn
    <3>5. \A r \in Servers \ {s} : SameServer(r)
      BY <1>1, <1>2, <3>1 DEF Typed, SameServer, Mine
    <3>6. \A x \in Commits : x # d => Mine(s, x) # Mine(s, d)  BY DEF Mine
    <3>7. \A x \in Commits \ {d} : queue'[Mine(s, x)] = queue[Mine(s, x)] /\ wpc' = wpc
      BY <1>1, <1>2, <3>1, <3>4, <3>6 DEF Typed, Mine, Workers
    <3>8. \A x \in Commits \ {d} : Quiet(s, x)' /\ InPool(s, x)'
      BY <1>3, <1>6, <3>4, <3>7 DEF AtRest, Quiet, InPool
    <3>9. wpc'[Mine(s, d)] # "gone" => wpc'[Mine(s, d)] = "idle" /\ queue'[Mine(s, d)] = <<Stop>>
      <4>1. Mine(s, d) \in Workers  BY <1>1, <3>4 DEF Mine, Workers
      <4>2. queue'[Mine(s, d)] = Append(queue[Mine(s, d)], Stop) /\ wpc' = wpc
        BY <1>2, <3>1, <4>1 DEF Typed, Mine
      <4>3. wpc[Mine(s, d)] = "gone" \/ (wpc[Mine(s, d)] = "idle" /\ queue[Mine(s, d)] = <<>>)
        BY <1>3, <3>4 DEF AtRest, Quiet
      <4>4. queue[Mine(s, d)] = <<>> => Append(queue[Mine(s, d)], Stop) = <<Stop>>  OBVIOUS
      <4> QED  BY <4>2, <4>3, <4>4
    <3>10. Stopping(s)'
      <4>1. d \in Commits \ ToSet(pool'[s])  BY <3>4
      <4>2. results'[s] = <<>>  BY <1>2, <1>3 DEF AtRest
      <4> QED  BY <1>6, <3>8, <3>9, <4>1, <4>2 DEF Stopping
    <3>11. Room(t)'
      <4>1. c \notin ToSet(pool'[s]) /\ Len(pool'[s]) < MaxWorkers  BY <2>2, <3>4
      <4> QED  BY <1>6, <4>1 DEF Room
    <3>12. ThreadTurn(t)'  BY <1>4, <1>6, <3>2, <3>10, <3>11 DEF ThreadTurn, Engaged
    <3>13. Turn(s)'
      <4>1. Len(pool'[s]) <= MaxWorkers  BY <3>4
      <4> QED  BY <1>4, <3>4, <4>1 DEF Turn, Home
    <3> QED  BY <3>5, <3>12, <3>13
  <2>3. CASE c \notin ToSet(pool[s]) /\ ~ Full(s)
    <3>1. queue' = queue /\ pool' = pool /\ wpc' = wpc /\ pc' = [pc EXCEPT ![t] = "start"]
      BY <2>3 DEF Dispatch, Goto
    <3>2. pc'[t] = "start"  BY <3>1 DEF Typed
    <3>3. \A r \in Servers \ {s} : SameServer(r)
      BY <1>1, <1>2, <3>1 DEF Typed, SameServer
    <3>4. AtRest(s)'  BY <1>2, <1>3, <1>6, <3>1 DEF AtRest, Quiet, InPool
    <3>5. Room(t)'
      <4>1. Len(pool[s]) < MaxWorkers  BY <1>1, <2>3 DEF Full
      <4> QED  BY <1>6, <2>3, <3>1, <4>1 DEF Room
    <3>6. ThreadTurn(t)'  BY <1>4, <1>6, <3>2, <3>4, <3>5 DEF ThreadTurn, Engaged
    <3>7. Turn(s)'  BY <1>3, <1>4, <3>1 DEF Turn, Home
    <3> QED  BY <3>3, <3>6, <3>7
  <2> QED  BY <2>1, <2>2, <2>3
<1> QED  BY <1>2, <1>4, <1>5, <1>7, OneTurn

LEMMA JoinStep ==
  ASSUME Typed, Turns, NEW t \in Threads, Join(t)
  PROVE  Turns'
<1> DEFINE s == Home(t)
<1>1. /\ s \in Servers /\ pc[t] = "join" /\ pc' = [pc EXCEPT ![t] = "start"]
      /\ UNCHANGED <<todo, life, pool, busy, results, wpc, wjob, queue>>
      /\ \A c \in Commits \ ToSet(pool[s]) : wpc[Mine(s, c)] = "gone"
  BY HomeType DEF Join, Goto, process, workers, Mine
<1>2. busy[s] = t /\ Stopping(s) /\ Room(t) /\ Turn(s)
  BY <1>1 DEF Turns, ThreadTurn, Engaged
<1>3. AtRest(s)
  <2>1. PICK d \in Commits \ ToSet(pool[s]) : \A c \in Commits \ {d} : Quiet(s, c) /\ InPool(s, c)
    BY <1>2 DEF Stopping
  <2>2. Quiet(s, d) /\ InPool(s, d)  BY <1>1, <2>1 DEF Quiet, InPool
  <2> QED  BY <1>2, <2>1, <2>2 DEF AtRest, Stopping
<1>4. \A r, c : Mine(r, c)' = Mine(r, c)  BY <1>1 DEF Mine
<1>5. AtRest(s)' /\ Room(t)' /\ Turn(s)'
  BY <1>1, <1>2, <1>3, <1>4 DEF AtRest, Quiet, InPool, Room, Asked, Turn, Home
<1>6. pc'[t] = "start" /\ \A u \in Threads \ {t} : pc'[u] = pc[u]  BY <1>1 DEF Typed
<1>7. ThreadTurn(t)'  BY <1>1, <1>2, <1>5, <1>6 DEF ThreadTurn, Engaged, Home
<1>8. Unborn'  BY <1>1 DEF Turns, Unborn
<1>9. \A r : SameServer(r)  BY <1>1 DEF SameServer
<1> QED  BY <1>1, <1>2, <1>5, <1>6, <1>7, <1>8, <1>9, OneTurn

LEMMA StartStep ==
  ASSUME Typed, Turns, NEW t \in Threads, Start(t)
  PROVE  Turns'
<1> DEFINE s == Home(t)
           c == Asked(t).commit
           w == Worker(t)
<1>1. /\ s \in Servers /\ c \in Commits /\ w = Mine(s, c)
      /\ w \in Workers /\ life[s] \in Lives /\ pool[s] \in Seq(Commits)
  BY AskedType, HomeType, WorkerType DEF Start, Typed, Worker, Mine
<1>2. /\ pc[t] = "start" /\ pc' = [pc EXCEPT ![t] = "wait"]
      /\ pool' = [pool EXCEPT ![s] = Append(@, c)]
      /\ wpc' = [wpc EXCEPT ![w] = "idle"]
      /\ queue' = [queue EXCEPT ![w] = <<JobOf(t)>>]
      /\ UNCHANGED <<todo, life, busy, results, wjob>>
  BY DEF Start, Goto
<1>3. busy[s] = t /\ AtRest(s) /\ Room(t) /\ Turn(s)
  BY <1>1, <1>2 DEF Turns, ThreadTurn, Engaged
<1>4. pc'[t] = "wait" /\ \A u \in Threads \ {t} : pc'[u] = pc[u]  BY <1>2 DEF Typed
<1>5. JobOf(t)' = JobOf(t) /\ Asked(t)' = Asked(t) /\ Worker(t)' = w
      /\ \A r, x : Mine(r, x)' = Mine(r, x)
  BY <1>2 DEF JobOf, Asked, Worker, Mine, Home
<1>6. \A r \in Servers \ {s} : SameServer(r)
  BY <1>1, <1>2 DEF Typed, SameServer, Mine
<1>7. /\ pool'[s] = Append(pool[s], c) /\ Len(pool'[s]) = Len(pool[s]) + 1
      /\ Distinct(pool'[s]) /\ ToSet(pool'[s]) = ToSet(pool[s]) \cup {c}
  BY <1>1, <1>2, <1>3, AppendToPool DEF Typed, Room, Turn
<1>8. Turn(s)'
  <2>1. Len(pool'[s]) <= MaxWorkers  BY <1>1, <1>3, <1>7 DEF Room
  <2>2. busy'[s] # Nobody  BY <1>2, <1>3
  <2> QED  BY <1>2, <1>3, <1>7, <2>1, <2>2 DEF Turn, Home
<1>9. \A x \in Commits : x # c => wpc'[Mine(s, x)] = wpc[Mine(s, x)] /\ queue'[Mine(s, x)] = queue[Mine(s, x)]
  <2>1. \A x \in Commits : x # c => Mine(s, x) # w /\ Mine(s, x) \in Workers
    BY <1>1 DEF Mine, Workers
  <2> QED  BY <1>2, <2>1 DEF Typed
<1>10. \A x \in Commits : InPool(s, x)' /\ (x # c => Quiet(s, x)')
  <2> SUFFICES ASSUME NEW x \in Commits PROVE InPool(s, x)' /\ (x # c => Quiet(s, x)')  OBVIOUS
  <2>1. CASE x = c  BY <1>7, <2>1 DEF InPool
  <2>2. CASE x # c  BY <1>3, <1>5, <1>7, <1>9, <2>2 DEF AtRest, InPool, Quiet
  <2> QED  BY <2>1, <2>2
<1>11. wpc'[w] = "idle" /\ queue'[w] = <<JobOf(t)>>  BY <1>1, <1>2 DEF Typed
<1>12. Expecting(t)'
  <2>1. results'[s] = <<>>  BY <1>2, <1>3 DEF AtRest
  <2> QED  BY <1>5, <1>10, <1>11, <2>1 DEF Expecting, Home
<1>13. ThreadTurn(t)'  BY <1>2, <1>3, <1>4, <1>12 DEF ThreadTurn, Engaged, Home
<1>14. Unborn'
  <2> SUFFICES ASSUME NEW r \in Servers, NEW l \in Lives, NEW x \in Commits, life[r] < l
               PROVE  wpc'[<<r, l, x>>] = "gone"
    BY <1>2 DEF Unborn
  <2>1. life[s] \in Int /\ l \in Int  BY <1>1 DEF Lives
  <2>2. <<r, l, x>> # w  BY <1>1, <2>1 DEF Mine
  <2>3. wpc'[<<r, l, x>>] = wpc[<<r, l, x>>]  BY <1>2, <2>2 DEF Typed, Workers
  <2> QED  BY <2>3 DEF Turns, Unborn
<1> QED  BY <1>2, <1>3, <1>4, <1>6, <1>8, <1>13, <1>14, OneTurn

LEMMA CollectStep ==
  ASSUME Typed, Turns, NEW t \in Threads, Collect(t)
  PROVE  Turns'
<1> DEFINE s == Home(t)
<1>1. /\ s \in Servers /\ pc[t] = "wait" /\ pc' = [pc EXCEPT ![t] = "respond"]
      /\ results[s] # <<>>
      /\ results' = [results EXCEPT ![s] = Tail(@)]
      /\ busy' = [busy EXCEPT ![s] = Nobody]
      /\ UNCHANGED <<todo, life, pool, wpc, wjob, queue>>
  BY HomeType DEF Collect, Goto, workers
<1>2. busy[s] = t /\ Turn(s) /\ Delivered(t)
  BY <1>1 DEF Turns, ThreadTurn, Engaged, Expecting
<1>3. \A r, c : Mine(r, c)' = Mine(r, c)  BY <1>1 DEF Mine
<1>4. results'[s] = <<>> /\ busy'[s] = Nobody
  <2>1. results'[s] = Tail(results[s]) /\ busy'[s] = Nobody  BY <1>1 DEF Typed
  <2>2. results[s] = <<JobOf(t)>>  BY <1>2 DEF Delivered
  <2> QED  BY <2>1, <2>2
<1>5. AtRest(s)'
  BY <1>1, <1>2, <1>3, <1>4 DEF Delivered, AtRest, Quiet, InPool
<1>6. Turn(s)'  BY <1>1, <1>2, <1>4, <1>5 DEF Turn, Home
<1>7. pc'[t] = "respond" /\ \A u \in Threads \ {t} : pc'[u] = pc[u]  BY <1>1 DEF Typed
<1>8. ThreadTurn(t)'  BY <1>4, <1>7 DEF ThreadTurn, Engaged, Home
<1>9. Unborn'  BY <1>1 DEF Turns, Unborn
<1>10. \A r \in Servers \ {s} : SameServer(r)  BY <1>1 DEF Typed, SameServer
<1> QED  BY <1>1, <1>2, <1>4, <1>6, <1>7, <1>8, <1>9, <1>10, OneTurn

LEMMA TurnsThread ==
  ASSUME Typed, Turns, NEW t \in Threads, Serve(t) \/ BuildFails(t)
  PROVE  Turns'
<1>1. CASE \/ Checkout(t) \/ Archive(t) \/ Build(t) \/ BuildFails(t) \/ Lookup(t)
           \/ Submit(t) \/ Respond(t) \/ Download(t)
  <2>1. UNCHANGED <<life, pool, busy, results, wpc, wjob, queue>>
    BY <1>1 DEF Checkout, Archive, Build, BuildFails, Lookup, Submit, Respond, Download, process, workers
  <2>2. \A s \in Servers : SameServer(s)  BY <2>1 DEF SameServer
  <2>3. Unborn'  BY <2>1 DEF Turns, Unborn
  <2>4. pc[t] \notin Engaged /\ pc'[t] \notin Engaged
    BY <1>1 DEF Typed, Engaged, Checkout, Archive, Build, BuildFails, Lookup, Submit, Respond, Download,
         Answer, Over, Goto
  <2>5. \A u \in Threads \ {t} : pc'[u] = pc[u] /\ todo'[u] = todo[u]
    BY <1>1 DEF Typed, Checkout, Archive, Build, BuildFails, Lookup, Submit, Respond, Download,
         Answer, Over, Goto
  <2>6. \A u \in Threads : SameThread(u)  BY <2>4, <2>5 DEF SameThread
  <2> QED  BY <2>2, <2>3, <2>6, TurnsFrame
<1> QED  BY <1>1, DispatchStep, JoinStep, StartStep, CollectStep DEF Serve

\* A worker that moves is not at rest, so that somebody waits for it: for its end
\* or for its result.
LEMMA TurnsWorker ==
  ASSUME Typed, Turns, NEW w \in Workers, Work(w) \/ KillWorker(w)
  PROVE  Turns'
<1>1. UNCHANGED <<todo, pc, life, pool, busy>>
  BY DEF Work, GetJob, Open, Enter, Compile, Pack, Save, Dump, KillWorker, Report, Finished, threads, process
<1>2. \A v \in Workers \ {w} : wpc'[v] = wpc[v] /\ wjob'[v] = wjob[v] /\ queue'[v] = queue[v]
  BY DEF Typed, Work, GetJob, Open, Enter, Compile, Pack, Save, Dump, KillWorker, WGoto
<1>3. wpc[w] # "gone" /\ (wpc[w] = "idle" => GetJob(w) /\ queue[w] # <<>>)
  BY DEF Work, GetJob, Open, Enter, Compile, Pack, Save, Dump, KillWorker
<1>4. Unborn'
  <2> SUFFICES ASSUME NEW s \in Servers, NEW l \in Lives, NEW c \in Commits, life[s] < l
               PROVE  wpc'[<<s, l, c>>] = "gone"
    BY <1>1 DEF Unborn
  <2>1. wpc[<<s, l, c>>] = "gone" /\ <<s, l, c>> \in Workers  BY DEF Turns, Unborn, Workers
  <2> QED  BY <1>2, <1>3, <2>1
<1>5. PICK s \in Servers, l \in Lives, c \in Commits : w = <<s, l, c>>
  BY DEF Workers
<1>6. \A r \in Servers : r # s => results'[r] = results[r]
  BY <1>5 DEF Typed, Work, GetJob, Open, Enter, Compile, Pack, Save, Dump, KillWorker, Report, Finished, process
<1>7. \A r \in Servers \ {s} : SameServer(r)
  <2> SUFFICES ASSUME NEW r \in Servers, r # s PROVE SameServer(r)  OBVIOUS
  <2>1. \A x \in Commits : Mine(r, x) \in Workers \ {w}  BY <1>5 DEF Mine, Workers, Typed
  <2> QED  BY <1>1, <1>2, <1>6, <2>1 DEF SameServer
<1>8. CASE l # life[s]
  <2>1. results'[s] = results[s]
    BY <1>5, <1>8 DEF Typed, Work, GetJob, Open, Enter, Compile, Pack, Save, Dump, KillWorker, Report, Finished, process
  <2>2. \A x \in Commits : Mine(s, x) \in Workers \ {w}  BY <1>5, <1>8 DEF Mine, Workers, Typed
  <2>3. SameServer(s)  BY <1>1, <1>2, <2>1, <2>2 DEF SameServer
  <2>4. \A t \in Threads : SameThread(t)  BY <1>1 DEF SameThread
  <2> QED  BY <1>4, <1>7, <2>3, <2>4, TurnsFrame
<1>9. CASE l = life[s]
  <2> DEFINE t == busy[s]
  <2>1. w = Mine(s, c) /\ ~ Quiet(s, c)  BY <1>3, <1>5, <1>9 DEF Mine, Quiet
  <2>2. ~ AtRest(s)  BY <2>1 DEF AtRest
  <2>3. t \in Threads /\ Home(t) = s /\ Turn(s) /\ ThreadTurn(t)
    BY <2>2 DEF Typed, Turns, Turn
  <2>4. (pc[t] = "join" /\ Stopping(s)) \/ (pc[t] = "wait" /\ Expecting(t))
    <3>1. ~ Delivered(t)  BY <2>1, <2>3 DEF Delivered
    <3> QED  BY <2>2, <2>3, <3>1 DEF ThreadTurn, Engaged
  <2>5. /\ JobOf(t)' = JobOf(t) /\ Asked(t)' = Asked(t) /\ Worker(t)' = Worker(t) /\ Home(t)' = s
        /\ \A r, x : Mine(r, x)' = Mine(r, x)
    BY <1>1, <2>3 DEF JobOf, Asked, Worker, Mine, Home
  <2>6. \A x \in Commits : x # c => (Quiet(s, x)' <=> Quiet(s, x)) /\ (InPool(s, x)' <=> InPool(s, x))
    <3>1. \A x \in Commits : x # c => Mine(s, x) \in Workers \ {w}
      BY <2>1 DEF Mine, Workers, Typed
    <3> QED  BY <1>1, <1>2, <2>5, <3>1 DEF Quiet, InPool
  <2>7. Turn(s)'  BY <1>1, <2>3 DEF Turn, Home
  <2>8. CASE pc[t] = "join"
    <3>1. Stopping(s)  BY <2>4, <2>8
    <3>2. PICK d \in Commits \ ToSet(pool[s]) :
            /\ \A x \in Commits \ {d} : Quiet(s, x) /\ InPool(s, x)
            /\ wpc[Mine(s, d)] # "gone" => wpc[Mine(s, d)] = "idle" /\ queue[Mine(s, d)] = <<Stop>>
      BY <3>1 DEF Stopping
    <3>3. c = d  BY <2>1, <3>2
    <3>4. GetJob(w) /\ queue[w] = <<Stop>>  BY <1>3, <2>1, <3>2, <3>3
    <3>5. wpc'[w] = "gone" /\ results' = results
      BY <3>4 DEF GetJob, WGoto, Typed, process
    <3>6. Stopping(s)'
      <4>1. \A x \in Commits \ {d} : Quiet(s, x)' /\ InPool(s, x)'  BY <2>6, <3>2, <3>3
      <4>2. d \in Commits \ ToSet(pool'[s])  BY <1>1
      <4>3. results'[s] = <<>>  BY <3>1, <3>5 DEF Stopping
      <4>4. wpc'[Mine(s, d)'] = "gone"  BY <2>1, <2>5, <3>3, <3>5
      <4> QED  BY <4>1, <4>2, <4>3, <4>4 DEF Stopping
    <3>7. Room(t)'  BY <1>1, <2>3, <2>5, <2>8 DEF ThreadTurn, Room, Home
    <3>8. ThreadTurn(t)'  BY <1>1, <2>3, <2>8, <3>6, <3>7 DEF ThreadTurn, Engaged, Home
    <3> QED  BY <1>1, <1>4, <1>7, <2>3, <2>7, <3>8, OneTurn
  <2>9. CASE pc[t] = "wait"
    <3>1. Expecting(t)  BY <2>4, <2>9
    <3>2. c = Asked(t).commit /\ w = Worker(t)
      BY <2>1, <2>3, <3>1 DEF Expecting, Worker, Mine
    <3>3. \/ GetJob(w) /\ wpc[w] = "idle" /\ queue[w] = <<JobOf(t)>>
          \/ ~ GetJob(w) /\ queue[w] = <<>> /\ wjob[w] = JobOf(t)
      <4>1. GetJob(w) => wpc[w] = "idle"  BY DEF GetJob
      <4> QED  BY <1>3, <3>1, <3>2, <4>1 DEF Expecting
    <3>4. results[s] = <<>>  BY <2>3, <3>1 DEF Expecting
    \* The worker is killed or told to stop, goes on, or is done.
    <3>5. \/ results'[s] = <<>> /\ wpc'[w] = "gone"
          \/ results'[s] = <<>> /\ wpc'[w] # "idle" /\ queue'[w] = <<>> /\ wjob'[w] = JobOf(t)
          \/ results'[s] = <<JobOf(t)>> /\ wpc'[w] = "idle" /\ queue'[w] = <<>>
      <4>1. CASE GetJob(w)
        <5>1. queue[w] = <<JobOf(t)>>  BY <3>3, <4>1
        <5>2. queue'[w] = <<>> /\ results'[s] = <<>>
          <6>1. queue'[w] = Tail(queue[w]) /\ results' = results  BY <4>1 DEF GetJob, Typed, process
          <6> QED  BY <3>4, <5>1, <6>1
        <5>3. wpc'[w] = "gone" \/ (wpc'[w] = "open" /\ wjob'[w] = JobOf(t))
          BY <4>1, <5>1 DEF GetJob, WGoto, Typed
        <5> QED  BY <5>2, <5>3
      <4>2. CASE Report(w) /\ wpc'[w] = "idle" /\ queue' = queue /\ ~ GetJob(w)
        <5>1. queue'[w] = <<>> /\ wjob[w] = JobOf(t)  BY <3>3, <4>2
        <5>2. results'[s] = Append(results[s], wjob[w])
          BY <1>5, <1>9, <4>2 DEF Report, Typed
        <5>3. results'[s] = <<JobOf(t)>>  BY <3>4, <5>1, <5>2
        <5> QED  BY <4>2, <5>1, <5>3
      <4>3. CASE /\ process' = process /\ wpc'[w] # "idle" /\ queue' = queue /\ wjob' = wjob /\ ~ GetJob(w)
        BY <3>3, <3>4, <4>3 DEF process
      <4>4. CASE ~ GetJob(w)
        <5>1. CASE Open(w)
          BY <4>2, <4>3, <4>4, <5>1 DEF Open, WGoto, Typed
        <5>2. CASE Dump(w)
          BY <4>2, <4>4, <5>2 DEF Dump, WGoto, Typed, Finished
        <5>3. CASE Enter(w) \/ Compile(w) \/ Pack(w) \/ Save(w) \/ KillWorker(w)
          BY <4>3, <4>4, <5>3 DEF Enter, Compile, Pack, Save, KillWorker, WGoto, Typed
        <5> QED  BY <4>4, <5>1, <5>2, <5>3 DEF Work
      <4> QED  BY <4>1, <4>4
    <3>6. \A x \in Commits : InPool(s, x)' /\ (x # c => Quiet(s, x)')
      <4> SUFFICES ASSUME NEW x \in Commits PROVE InPool(s, x)' /\ (x # c => Quiet(s, x)')  OBVIOUS
      <4>1. InPool(s, x)  BY <2>3, <3>1 DEF Expecting
      <4>2. CASE x # c  BY <2>3, <2>6, <3>1, <3>2, <4>1, <4>2 DEF Expecting
      <4>3. CASE x = c  BY <1>1, <1>3, <2>1, <4>1, <4>3 DEF InPool
      <4> QED  BY <4>2, <4>3
    <3>7. Expecting(t)' \/ Delivered(t)'
      <4>1. CASE results'[s] = <<>>
        <5>1. \/ wpc'[w] = "gone"
              \/ wpc'[w] # "idle" /\ queue'[w] = <<>> /\ wjob'[w] = JobOf(t)
          BY <3>5, <4>1
        <5>2. Expecting(t)'  BY <2>5, <3>2, <3>6, <4>1, <5>1 DEF Expecting
        <5> QED  BY <5>2
      <4>2. CASE results'[s] # <<>>
        <5>1. results'[s] = <<JobOf(t)>> /\ wpc'[w] = "idle" /\ queue'[w] = <<>>
          BY <3>5, <4>2
        <5>2. Quiet(s, c)'  BY <2>1, <2>5, <5>1 DEF Quiet
        <5>3. \A x \in Commits : Quiet(s, x)' /\ InPool(s, x)'  BY <3>6, <5>2
        <5>4. Delivered(t)'  BY <2>5, <5>1, <5>3 DEF Delivered
        <5> QED  BY <5>4
      <4> QED  BY <4>1, <4>2
    <3>8. ThreadTurn(t)'  BY <1>1, <2>3, <2>9, <3>7 DEF ThreadTurn, Engaged, Home
    <3> QED  BY <1>1, <1>4, <1>7, <2>3, <2>7, <3>8, OneTurn
  <2> QED  BY <2>4, <2>8, <2>9
<1> QED  BY <1>8, <1>9

LEMMA TurnsRestart ==
  ASSUME Typed, Turns, NEW s \in Servers, Restart(s)
  PROVE  Turns'
<1>1. /\ life[s] + 1 \in Lives /\ life' = [life EXCEPT ![s] = @ + 1]
      /\ pool' = [pool EXCEPT ![s] = <<>>] /\ results' = [results EXCEPT ![s] = <<>>]
      /\ busy' = [busy EXCEPT ![s] = Nobody]
      /\ UNCHANGED <<wpc, wjob, queue>>
  BY DEF Restart, workers
<1>2. \A u \in Threads : IF Home(u) = s THEN pc'[u] = "receive"
                                        ELSE pc'[u] = pc[u] /\ todo'[u] = todo[u]
  BY DEF Restart, Home
<1>3. /\ life'[s] = life[s] + 1 /\ pool'[s] = <<>> /\ results'[s] = <<>> /\ busy'[s] = Nobody
      /\ life[s] \in Nat
  BY <1>1 DEF Typed, Lives
<1>4. \A r \in Servers \ {s} : SameServer(r)
  BY <1>1 DEF Typed, SameServer
<1>5. AtRest(s)'
  <2>1. \A c \in Commits : wpc[<<s, life[s] + 1, c>>] = "gone"
    BY <1>1, <1>3 DEF Turns, Unborn
  <2>2. \A c \in Commits : wpc'[Mine(s, c)'] = "gone"  BY <1>1, <1>3, <2>1 DEF Mine
  <2> QED  BY <1>3, <2>2 DEF AtRest, Quiet, InPool
<1>6. Turn(s)'
  <2>1. Distinct(pool'[s]) /\ Len(pool'[s]) <= MaxWorkers  BY <1>3 DEF Distinct
  <2> QED  BY <1>3, <1>5, <2>1 DEF Turn
<1>7. \A r \in Servers : Turn(r)'
  BY <1>4, <1>6, FrameServer DEF Turns
<1>8. \A u \in Threads : ThreadTurn(u)'
  <2> SUFFICES ASSUME NEW u \in Threads PROVE ThreadTurn(u)'  OBVIOUS
  <2>1. CASE Home(u) = s
    <3>1. pc'[u] = "receive" /\ busy'[Home(u)] # u  BY <1>2, <1>3, <2>1
    <3> QED  BY <3>1 DEF ThreadTurn, Engaged, Home
  <2>2. CASE Home(u) # s
    <3>1. SameThread(u)  BY <1>2, <2>2 DEF SameThread
    <3>2. ThreadTurn(u) /\ SameServer(Home(u))  BY <1>4, <2>2, HomeType DEF Turns
    <3> QED  BY <3>1, <3>2, FrameThread
  <2> QED  BY <2>1, <2>2
<1>9. Unborn'
  <2> SUFFICES ASSUME NEW r \in Servers, NEW l \in Lives, NEW c \in Commits, life'[r] < l
               PROVE  wpc'[<<r, l, c>>] = "gone"
    BY DEF Unborn
  <2>1. life[r] \in Nat /\ l \in Nat /\ (life'[r] = life[r] \/ life'[r] = life[r] + 1)
    BY <1>1 DEF Typed, Lives
  <2>2. life[r] < l  BY <2>1
  <2> QED  BY <1>1, <2>2 DEF Turns, Unborn
<1> QED  BY <1>7, <1>8, <1>9 DEF Turns

\* In a process one thread is engaged with the workers, under the process's lock,
\* and all workers but the one it is engaged with are at rest (run_and_wait_job).
THEOREM TurnsInvariant == Spec => []Turns
<1>1. Init => Turns
  <2> SUFFICES ASSUME Init PROVE Turns  OBVIOUS
  <2>1. \A s \in Servers : /\ busy[s] = Nobody /\ results[s] = <<>> /\ pool[s] = <<>>
                           /\ life[s] \in Lives
    BY DEF Init, Lives
  <2>2. \A w \in Workers : wpc[w] = "gone"  BY DEF Init
  <2>3. \A s \in Servers, c \in Commits : wpc[Mine(s, c)] = "gone"
    BY <2>1, <2>2 DEF Mine, Workers
  <2>4. \A s \in Servers : AtRest(s)  BY <2>1, <2>3 DEF AtRest, Quiet, InPool
  <2>5. \A s \in Servers : Turn(s)  BY <2>1, <2>4 DEF Turn, Distinct
  <2>6. \A t \in Threads : ThreadTurn(t)
    <3> SUFFICES ASSUME NEW t \in Threads PROVE ThreadTurn(t)  OBVIOUS
    <3>1. pc[t] = "receive" /\ busy[Home(t)] # t  BY <2>1, HomeType DEF Init
    <3> QED  BY <3>1 DEF ThreadTurn, Engaged
  <2>7. Unborn  BY <2>2 DEF Unborn, Workers
  <2> QED  BY <2>5, <2>6, <2>7 DEF Turns
<1>2. Typed /\ Turns /\ [Next]_vars => Turns'
  <2> SUFFICES ASSUME Typed, Turns, [Next]_vars PROVE Turns'  OBVIOUS
  <2>1. CASE UNCHANGED vars
    <3>1. UNCHANGED <<todo, pc, life, pool, busy, results, wpc, wjob, queue>>
      BY <2>1 DEF vars, files, threads, process, workers
    <3>2. \A s \in Servers : SameServer(s)  BY <3>1 DEF SameServer
    <3>3. \A t \in Threads : SameThread(t)  BY <3>1 DEF SameThread
    <3>4. Unborn'  BY <3>1 DEF Turns, Unborn
    <3> QED  BY <3>2, <3>3, <3>4, TurnsFrame
  <2>2. CASE \E t \in Threads : Serve(t) \/ BuildFails(t)  BY <2>2, TurnsThread
  <2>3. CASE \E w \in Workers : Work(w) \/ KillWorker(w)  BY <2>3, TurnsWorker
  <2>4. CASE \E s \in Servers : KillServer(s) \/ Timeout(s)
    BY <2>4, TurnsRestart DEF KillServer, Timeout
  <2> QED  BY <2>1, <2>2, <2>3, <2>4 DEF Next
<1> QED  BY <1>1, <1>2, LibraryInvariant, PTL DEF Spec

\* The result that a thread takes from the queue of its process is that of its job
\* (run_and_wait_job).
THEOREM ResultsAreOwn == Spec => []OwnResult
<1>1. Typed /\ Turns => OwnResult
  <2> SUFFICES ASSUME Typed, Turns, NEW s \in Servers, results[s] # <<>>
               PROVE  /\ Len(results[s]) = 1 /\ busy[s] # Nobody
                      /\ pc[busy[s]] = "wait" /\ results[s][1] = JobOf(busy[s])
    BY DEF OwnResult
  <2>1. busy[s] # Nobody /\ busy[s] \in Threads /\ Home(busy[s]) = s
    BY DEF Typed, Turns, Turn, AtRest
  <2>2. ThreadTurn(busy[s]) /\ pc[busy[s]] \in Engaged  BY <2>1 DEF Turns, ThreadTurn
  <2>3. pc[busy[s]] = "wait" /\ Delivered(busy[s])
    BY <2>1, <2>2 DEF ThreadTurn, Engaged, Stopping, AtRest, Expecting
  <2>4. results[s] = <<JobOf(busy[s])>>  BY <2>1, <2>3 DEF Delivered
  <2> QED  BY <2>1, <2>3, <2>4
<1> QED  BY <1>1, LibraryInvariant, TurnsInvariant, PTL

LEMMA CardinalityOfPool ==
  ASSUME NEW q \in Seq(Commits), NEW S, S \subseteq ToSet(q)
  PROVE  IsFiniteSet(S) /\ Cardinality(S) \in Nat /\ Cardinality(S) <= Len(q)
<1>1. Len(q) \in Nat /\ DOMAIN q = 1 .. Len(q)  OBVIOUS
<1>2. IsFiniteSet(1 .. Len(q)) /\ Cardinality(1 .. Len(q)) = Len(q)
  <2>1. /\ IsFiniteSet(1 .. Len(q))
        /\ Cardinality(1 .. Len(q)) = IF 1 > Len(q) THEN 0 ELSE Len(q) - 1 + 1
    BY <1>1, FS_Interval
  <2> QED  BY <1>1, <2>1
<1>3. q \in Surjection(1 .. Len(q), ToSet(q))
  BY <1>1 DEF Surjection, ToSet
<1>4. IsFiniteSet(ToSet(q)) /\ Cardinality(ToSet(q)) <= Len(q)
  BY <1>2, <1>3, FS_Surjection
<1>5. IsFiniteSet(S) /\ Cardinality(S) <= Cardinality(ToSet(q))
  BY <1>4, FS_Subset
<1> QED  BY <1>1, <1>4, <1>5, FS_CardinalityType

\* A process has at most one job compiled at a time, and at most max_workers
\* workers, those told to stop included (CompilationWorkers).
THEOREM OneJobCompiled == Spec => []OneCompiling
<1>1. Typed /\ Turns => OneCompiling
  <2> SUFFICES ASSUME Typed, Turns, NEW s \in Servers
               PROVE  Cardinality(Occupied(s)) <= 1 /\ Cardinality(Alive(s)) <= MaxWorkers
    BY DEF OneCompiling
  <2>1. /\ Occupied(s) = {c \in Commits : ~ Quiet(s, c)}
        /\ Alive(s) = {c \in Commits : wpc[Mine(s, c)] # "gone"}
    BY DEF Occupied, Alive, Quiet, Mine
  <2>2. PICK e : /\ \A c \in Commits : c # e => Quiet(s, c) /\ InPool(s, c)
                 /\ Len(pool[s]) < MaxWorkers \/ \A c \in Commits : InPool(s, c)
    <3>1. CASE AtRest(s)  BY <3>1 DEF AtRest
    <3>2. CASE ~ AtRest(s)
      <4> DEFINE t == busy[s]
      <4>1. t \in Threads /\ Home(t) = s  BY <3>2 DEF Typed, Turns, Turn
      <4>2. ThreadTurn(t) /\ pc[t] \in Engaged  BY <4>1 DEF Turns, ThreadTurn
      <4>3. CASE Stopping(s) /\ Room(t)
        <5>1. PICK d \in Commits : \A c \in Commits \ {d} : Quiet(s, c) /\ InPool(s, c)
          BY <4>3 DEF Stopping
        <5>2. \A c \in Commits : c # d => Quiet(s, c) /\ InPool(s, c)  BY <5>1
        <5>3. Len(pool[s]) < MaxWorkers  BY <4>1, <4>3 DEF Room
        <5> QED  BY <5>2, <5>3
      <4>4. CASE Expecting(t)
        <5>1. \A c \in Commits : c # Asked(t).commit => Quiet(s, c) /\ InPool(s, c)
          BY <4>1, <4>4 DEF Expecting
        <5>2. \A c \in Commits : InPool(s, c)  BY <4>1, <4>4 DEF Expecting
        <5> QED  BY <5>1, <5>2
      <4>5. CASE Delivered(t)
        BY <4>1, <4>5 DEF Delivered
      <4> QED  BY <3>2, <4>1, <4>2, <4>3, <4>4, <4>5 DEF ThreadTurn, Engaged
    <3> QED  BY <3>1, <3>2
  <2>3. Cardinality(Occupied(s)) <= 1
    <3>1. Occupied(s) \subseteq {e}  BY <2>1, <2>2
    <3>2. IsFiniteSet({e}) /\ Cardinality({e}) = 1  BY FS_Singleton
    <3> QED  BY <3>1, <3>2, FS_Subset
  <2>4. pool[s] \in Seq(Commits) /\ Len(pool[s]) <= MaxWorkers /\ Len(pool[s]) \in Nat
    BY DEF Typed, Turns, Turn
  <2>5. Cardinality(Alive(s)) <= MaxWorkers
    <3>1. CASE Alive(s) \subseteq ToSet(pool[s])
      BY <2>4, <3>1, CardinalityOfPool
    <3>2. CASE ~ (Alive(s) \subseteq ToSet(pool[s]))
      <4>1. Len(pool[s]) < MaxWorkers /\ Alive(s) \ {e} \subseteq ToSet(pool[s])
        BY <2>1, <2>2, <3>2 DEF InPool
      <4>2. /\ IsFiniteSet(Alive(s) \ {e}) /\ Cardinality(Alive(s) \ {e}) \in Nat
            /\ Cardinality(Alive(s) \ {e}) <= Len(pool[s])
        BY <2>4, <4>1, CardinalityOfPool
      <4>3. /\ IsFiniteSet((Alive(s) \ {e}) \cup {e})
            /\ Cardinality((Alive(s) \ {e}) \cup {e}) = Cardinality(Alive(s) \ {e}) + 1
        BY <4>2, FS_AddElement
      <4>4. Alive(s) \subseteq (Alive(s) \ {e}) \cup {e}  OBVIOUS
      <4>5. IsFiniteSet(Alive(s)) /\ Cardinality(Alive(s)) <= Cardinality((Alive(s) \ {e}) \cup {e})
        BY <4>3, <4>4, FS_Subset
      <4>6. Cardinality(Alive(s)) \in Nat  BY <4>5, FS_CardinalityType
      <4> QED  BY <2>4, <4>1, <4>2, <4>3, <4>5, <4>6
    <3> QED  BY <3>1, <3>2
  <2> QED  BY <2>3, <2>5
<1> QED  BY <1>1, LibraryInvariant, TurnsInvariant, PTL

-----------------------------------------------------------------------------
(* What the variables hold.                                                 *)

Digests    == {Digest(j) : j \in Jobs}
Working(w) == wpc[w] \notin {"gone", "idle"}

Outcomes == {"none", "error", "failed", "done", "bad_archive", "dropped"}

\* Every request in the system comes from the load, every job from a request.
Shaped ==
  /\ faults \in Nat /\ outcome \in [Threads -> Outcomes]
  /\ \A t \in Threads : ToSet(todo[t]) \subseteq ToSet(load[t])
  /\ built \in [Commits -> {Absent, "partial", "built"}]
  /\ response \in [Jobs -> {Absent, "partial", "ok", "failed"}]
  /\ lib \in [Digests -> {Absent, "partial", "complete"}]
  /\ zip \in [Digests -> {Absent, "partial", "complete"}]
  /\ \A w \in Workers : /\ Working(w) => wjob[w] \in Jobs
                        /\ queue[w] \in Seq(Jobs \cup {Stop})

LEMMA TailSet ==
  ASSUME NEW S, NEW q \in Seq(S), q # <<>>
  PROVE  ToSet(Tail(q)) \subseteq ToSet(q) /\ Head(q) \in ToSet(q)
<1>1. /\ Len(q) \in Nat \ {0} /\ DOMAIN q = 1 .. Len(q) /\ DOMAIN Tail(q) = 1 .. Len(q) - 1
      /\ \A i \in 1 .. Len(q) - 1 : Tail(q)[i] = q[i + 1] /\ i + 1 \in 1 .. Len(q)
      /\ Head(q) = q[1]
  OBVIOUS
<1>2. ToSet(q) = {q[i] : i \in 1 .. Len(q)} /\ ToSet(Tail(q)) = {Tail(q)[i] : i \in 1 .. Len(q) - 1}
  BY <1>1 DEF ToSet
<1>3. Head(q) \in ToSet(q)  BY <1>1, <1>2
<1>4. ASSUME NEW x \in ToSet(Tail(q)) PROVE x \in ToSet(q)
  <2>1. PICK i \in 1 .. Len(q) - 1 : x = q[i + 1]  BY <1>1, <1>2
  <2> QED  BY <1>1, <1>2, <2>1
<1> QED  BY <1>3, <1>4

\* What a thread asks for is in the load.
LEMMA AskedShape ==
  ASSUME Typed, Shaped, NEW t \in Threads, todo[t] # <<>>
  PROVE  /\ Asked(t) \in ToSet(load[t]) /\ Asked(t) \in Requests
         /\ JobOf(t) \in Jobs /\ JobOf(t) \in JobsOf(t)
         /\ Digest(JobOf(t)) \in Digests
<1>1. Asked(t) \in ToSet(todo[t])  BY TailSet DEF Typed, Asked
<1>2. Asked(t) \in ToSet(load[t])  BY <1>1 DEF Shaped
<1>3. Asked(t) \in Requests  BY <1>2 DEF Requests
<1> QED  BY <1>2, <1>3 DEF JobOf, Jobs, JobsOf, Digests

LEMMA AskedNotStop ==
  ASSUME Typed, NEW t \in Threads, todo[t] # <<>>
  PROVE  JobOf(t) # Stop
BY AskedType DEF JobOf

LEMMA ShapedInit == Init => Shaped
<1> SUFFICES ASSUME Init PROVE Shaped  OBVIOUS
<1>1. faults \in Nat /\ outcome \in [Threads -> Outcomes]  BY DEF Init, Outcomes
<1>2. \A t \in Threads : ToSet(todo[t]) \subseteq ToSet(load[t])  BY DEF Init
<1>3. built \in [Commits -> {Absent, "partial", "built"}]  BY DEF Init
<1>4. response \in [Jobs -> {Absent, "partial", "ok", "failed"}]  BY DEF Init
<1>5. lib \in [Digests -> {Absent, "partial", "complete"}]
      /\ zip \in [Digests -> {Absent, "partial", "complete"}]
  BY DEF Init, Digests
<1>6. \A w \in Workers : ~ Working(w) /\ queue[w] \in Seq(Jobs \cup {Stop})
  BY DEF Init, Working
<1> QED  BY <1>1, <1>2, <1>3, <1>4, <1>5, <1>6 DEF Shaped

\* Requests and jobs are those of the load, which stays.
LEMMA SameLoad ==
  ASSUME load' = load
  PROVE  /\ Requests' = Requests /\ Jobs' = Jobs /\ Digests' = Digests
         /\ \A t : JobsOf(t)' = JobsOf(t)
BY DEF Requests, Jobs, Digests, JobsOf

LEMMA ShapedThread ==
  ASSUME Typed, Shaped, load' = load, NEW t \in Threads, Serve(t) \/ BuildFails(t)
  PROVE  Shaped'
<1>1. todo[t] # <<>>
  BY DEF Typed, Serve, BuildFails, Checkout, Archive, Build, Lookup, Submit, Dispatch, Join, Start,
         Collect, Respond, Download
<1>2. Asked(t).commit \in Commits /\ JobOf(t) \in Jobs  BY <1>1, AskedType, AskedShape
<1>3. faults' \in Nat
  BY DEF Shaped, Serve, BuildFails, Checkout, Archive, Build, Lookup, Submit, Dispatch, Join, Start,
         Collect, Respond, Download
<1>4. UNCHANGED <<response, lib, zip, wjob>>
  BY DEF Serve, BuildFails, Checkout, Archive, Build, Lookup, Submit, Dispatch, Join, Start,
         Collect, Respond, Download, files, workers
<1>5. \A u \in Threads : ToSet(todo'[u]) \subseteq ToSet(load'[u])
  <2>1. todo' = todo \/ todo' = [todo EXCEPT ![t] = Tail(@)]
    BY DEF Serve, BuildFails, Checkout, Archive, Build, Lookup, Submit, Dispatch, Join, Start,
           Collect, Respond, Download, Over, Answer
  <2>2. ToSet(Tail(todo[t])) \subseteq ToSet(todo[t])  BY <1>1, TailSet DEF Typed
  <2> QED  BY <2>1, <2>2 DEF Shaped, Typed
<1>8. outcome' \in [Threads -> Outcomes]
  BY DEF Shaped, Serve, BuildFails, Checkout, Archive, Build, Lookup, Submit, Dispatch, Join, Start,
         Collect, Respond, Download, Over, Answer, Outcomes
<1>6. built' \in [Commits -> {Absent, "partial", "built"}]
  BY <1>2 DEF Shaped, Serve, BuildFails, Checkout, Archive, Build, Lookup, Submit, Dispatch, Join, Start,
         Collect, Respond, Download, files
<1>7. \A w \in Workers : /\ Working(w)' => wjob[w] \in Jobs
                         /\ queue'[w] \in Seq(Jobs \cup {Stop})
  <2>1. CASE Dispatch(t)
    <3>1. wpc' = wpc  BY <2>1 DEF Dispatch
    <3>2. \A w \in Workers : \A m \in Jobs \cup {Stop} : Append(queue[w], m) \in Seq(Jobs \cup {Stop})
      BY DEF Shaped
    <3>3. queue' = queue \/ \E v, m : m \in Jobs \cup {Stop} /\ queue' = [queue EXCEPT ![v] = Append(@, m)]
      BY <1>2, <2>1 DEF Dispatch, Send
    <3>4. \A w \in Workers : queue'[w] \in Seq(Jobs \cup {Stop})
      <4>1. CASE queue' = queue  BY <4>1 DEF Shaped
      <4>2. CASE queue' # queue
        <5>1. PICK v, m : m \in Jobs \cup {Stop} /\ queue' = [queue EXCEPT ![v] = Append(@, m)]
          BY <3>3, <4>2
        <5>2. \A w \in Workers : queue'[w] = queue[w] \/ queue'[w] = Append(queue[w], m)
          BY <5>1 DEF Typed
        <5> QED  BY <3>2, <5>1, <5>2 DEF Shaped
      <4> QED  BY <4>1, <4>2
    <3> QED  BY <3>1, <3>4 DEF Shaped, Working
  <2>2. CASE Start(t)
    <3>1. <<JobOf(t)>> \in Seq(Jobs \cup {Stop})  BY <1>2
    <3>2. \A w \in Workers : queue'[w] \in Seq(Jobs \cup {Stop})
      BY <2>2, <3>1 DEF Start, Shaped, Typed
    <3>3. \A w \in Workers : Working(w)' => Working(w)  BY <2>2 DEF Start, Typed, Working
    <3> QED  BY <3>2, <3>3 DEF Shaped
  <2>3. CASE ~ (Dispatch(t) \/ Start(t))
    <3>1. wpc' = wpc /\ queue' = queue
      BY <2>3 DEF Serve, BuildFails, Checkout, Archive, Build, Lookup, Submit, Join, Collect, Respond,
             Download, workers
    <3> QED  BY <3>1 DEF Shaped, Working
  <2> QED  BY <2>1, <2>2, <2>3
<1> QED  BY <1>3, <1>4, <1>5, <1>6, <1>7, <1>8, SameLoad DEF Shaped

LEMMA ShapedWorker ==
  ASSUME Typed, Shaped, load' = load, NEW w \in Workers, Work(w) \/ KillWorker(w)
  PROVE  Shaped'
<1>1. faults' \in Nat /\ UNCHANGED <<todo, built, outcome>>
  BY DEF Shaped, Work, GetJob, Open, Enter, Compile, Pack, Save, Dump, KillWorker, threads, files
<1>2. response' \in [Jobs -> {Absent, "partial", "ok", "failed"}]
  BY DEF Shaped, Work, GetJob, Open, Enter, Compile, Pack, Save, Dump, KillWorker, files
<1>3. lib' \in [Digests -> {Absent, "partial", "complete"}]
  BY DEF Shaped, Work, GetJob, Open, Enter, Compile, Pack, Save, Dump, KillWorker, files
<1>4. zip' \in [Digests -> {Absent, "partial", "complete"}]
  BY DEF Shaped, Work, GetJob, Open, Enter, Compile, Pack, Save, Dump, KillWorker, files
<1>5. ASSUME NEW v \in Workers
      PROVE  (Working(v)' => wjob'[v] \in Jobs) /\ queue'[v] \in Seq(Jobs \cup {Stop})
  <2>1. CASE GetJob(w)
    <3>1. Head(queue[w]) \in Jobs \cup {Stop} /\ Tail(queue[w]) \in Seq(Jobs \cup {Stop})
      BY <2>1 DEF GetJob, Shaped
    <3>2. queue'[v] \in Seq(Jobs \cup {Stop})  BY <2>1, <3>1 DEF GetJob, Shaped, Typed
    <3> QED  BY <2>1, <3>1, <3>2 DEF GetJob, Shaped, Typed, Working, WGoto
  <2>2. CASE ~ GetJob(w)
    <3>1. queue' = queue /\ wjob' = wjob /\ Working(w)
      BY <2>2 DEF Working, Work, Open, Enter, Compile, Pack, Save, Dump, KillWorker
    <3>2. v # w => wpc'[v] = wpc[v]
      BY <2>2 DEF Typed, Work, Open, Enter, Compile, Pack, Save, Dump, KillWorker, WGoto
    <3> QED  BY <3>1, <3>2 DEF Shaped, Working
  <2> QED  BY <2>1, <2>2
<1> QED  BY <1>1, <1>2, <1>3, <1>4, <1>5, SameLoad DEF Shaped

LEMMA ShapedRestart ==
  ASSUME Typed, Shaped, load' = load, NEW s \in Servers, KillServer(s) \/ Timeout(s)
  PROVE  Shaped'
<1>1. Restart(s) /\ faults' \in Nat  BY DEF KillServer, Timeout, Shaped
<1>2. UNCHANGED <<built, response, lib, zip, wpc, wjob, queue>>  BY <1>1 DEF Restart, workers
<1>3. \A t \in Threads : pc[t] # "receive" => ToSet(Tail(todo[t])) \subseteq ToSet(todo[t])
  BY TailSet DEF Typed
<1>4. \A t \in Threads : ToSet(todo'[t]) \subseteq ToSet(load[t])
  BY <1>1, <1>3 DEF Shaped, Restart
<1>5. outcome' \in [Threads -> Outcomes]  BY <1>1 DEF Shaped, Restart, Outcomes
<1> QED  BY <1>1, <1>2, <1>4, <1>5, SameLoad DEF Shaped, Working

\* Jobs, results and what is kept of them come from the requests, and every
\* response, library and archive is of one of them.
THEOREM ShapeInvariant == Spec => []Shaped
<1>1. Typed /\ Shaped /\ [Next]_vars => Shaped'
  <2> SUFFICES ASSUME Typed, Shaped, [Next]_vars PROVE Shaped'  OBVIOUS
  <2>1. CASE UNCHANGED vars
    <3>1. UNCHANGED <<load, todo, outcome, built, response, lib, zip, wpc, wjob, queue, faults>>
      BY <2>1 DEF vars, files, threads, process, workers
    <3> QED  BY <3>1, SameLoad DEF Shaped, Working
  <2>2. CASE Next
    BY <2>2, ShapedThread, ShapedWorker, ShapedRestart DEF Next
  <2> QED  BY <2>1, <2>2
<1> QED  BY <1>1, ShapedInit, LibraryInvariant, PTL DEF Spec

-----------------------------------------------------------------------------
(* Who holds the locks of jobs and repositories.                            *)

\* A worker holds the lock of its job from when it finds no archive until it is
\* done, a thread that of the repository while it fills a commit's directory.
Holding ==
  /\ \A w \in Workers : wpc[w] \in {"result", "compile", "pack"} =>
       JobLock(wjob[w]) \in DOMAIN locks /\ locks[JobLock(wjob[w])] = w
  /\ \A t \in Threads : pc[t] \in {"archive", "build"} =>
       Repo(t) \in DOMAIN locks /\ locks[Repo(t)] = t

\* A step keeps the locks of others, those of commits apart.
KeepsLocks(except) == \A k \in DOMAIN locks : k.kind # "commit" /\ locks[k] \notin except =>
  k \in DOMAIN locks' /\ locks'[k] = locks[k]

LEMMA TakeKeepsLocks ==
  ASSUME NEW l, NEW who, Free(l), Take(l, who)
  PROVE  KeepsLocks({}) /\ l \in DOMAIN locks' /\ locks'[l] = who
BY DEF Free, Take, KeepsLocks

LEMMA DropKeepsLocks ==
  ASSUME NEW holders, Drop(Held(holders))
  PROVE  KeepsLocks(holders)
BY DEF Drop, Held, KeepsLocks

LEMMA ThreadLocks ==
  ASSUME Typed, Holding, NEW t \in Threads, Serve(t) \/ BuildFails(t)
  PROVE  KeepsLocks({t})
<1>1. CASE Checkout(t)
  BY <1>1, TakeKeepsLocks DEF Checkout, RepoFree, KeepsLocks
<1>2. CASE Archive(t)
  BY <1>2, TakeKeepsLocks DEF Archive, KeepsLocks
<1>3. CASE Build(t) \/ BuildFails(t)
  <2>1. Drop({Repo(t), Commit(t)}) /\ locks[Repo(t)] = t  BY <1>3 DEF Build, BuildFails, Holding
  <2>2. Commit(t).kind = "commit"  BY DEF Commit
  <2> QED  BY <2>1, <2>2 DEF Drop, KeepsLocks
<1>4. CASE ~ (Checkout(t) \/ Archive(t) \/ Build(t) \/ BuildFails(t))
  BY <1>4 DEF Serve, Lookup, Submit, Dispatch, Join, Start, Collect, Respond, Download, files, KeepsLocks
<1> QED  BY <1>1, <1>2, <1>3, <1>4

LEMMA WorkerLocks ==
  ASSUME Typed, NEW w \in Workers, Work(w) \/ KillWorker(w)
  PROVE  KeepsLocks({w})
<1>1. CASE Open(w) \/ Enter(w)
  BY <1>1, TakeKeepsLocks DEF Open, Enter, KeepsLocks
<1>2. CASE Compile(w) \/ Pack(w) \/ KillWorker(w)
  BY <1>2, DropKeepsLocks DEF Compile, Pack, KillWorker, KeepsLocks
<1>3. CASE GetJob(w) \/ Save(w) \/ Dump(w)
  BY <1>3 DEF GetJob, Save, Dump, files, KeepsLocks
<1> QED  BY <1>1, <1>2, <1>3 DEF Work

\* The other threads, and what the other workers do, stay as they are.
LEMMA OtherThreads ==
  ASSUME Typed, Shaped, NEW t \in Threads, Serve(t) \/ BuildFails(t)
  PROVE  /\ \A u \in Threads \ {t} : /\ pc'[u] = pc[u] /\ todo'[u] = todo[u] /\ outcome'[u] = outcome[u]
                                     /\ Asked(u)' = Asked(u) /\ JobOf(u)' = JobOf(u)
         /\ UNCHANGED <<response, lib, zip, wjob, life>>
         /\ \A w \in Workers : wpc'[w] = wpc[w] \/ (Start(t) /\ w = Worker(t) /\ wpc'[w] = "idle")
<1>1. \A u \in Threads \ {t} : pc'[u] = pc[u] /\ todo'[u] = todo[u] /\ outcome'[u] = outcome[u]
  <2>1. \A u \in Threads \ {t} : pc'[u] = pc[u]
    <3>1. \E label : pc' = [pc EXCEPT ![t] = label]
      BY DEF Serve, BuildFails, Checkout, Archive, Build, Lookup, Submit, Dispatch, Join, Start,
             Collect, Respond, Download, Over, Answer, Goto
    <3> QED  BY <3>1 DEF Typed
  <2>2. \A u \in Threads \ {t} : todo'[u] = todo[u]
    BY DEF Typed, Serve, BuildFails, Checkout, Archive, Build, Lookup, Submit, Dispatch, Join, Start,
           Collect, Respond, Download, Over, Answer, Goto
  <2>3. \A u \in Threads \ {t} : outcome'[u] = outcome[u]
    BY DEF Shaped, Serve, BuildFails, Checkout, Archive, Build, Lookup, Submit, Dispatch, Join, Start,
           Collect, Respond, Download, Over, Answer, Goto
  <2> QED  BY <2>1, <2>2, <2>3
<1>2. \A u \in Threads \ {t} : Asked(u)' = Asked(u) /\ JobOf(u)' = JobOf(u)
  BY <1>1 DEF Asked, JobOf, Job
<1>3. UNCHANGED <<response, lib, zip, wjob, life>>
  BY DEF Serve, BuildFails, Checkout, Archive, Build, Lookup, Submit, Dispatch, Join, Start,
         Collect, Respond, Download, files, workers, process
<1>4. \A w \in Workers : wpc'[w] = wpc[w] \/ (Start(t) /\ w = Worker(t) /\ wpc'[w] = "idle")
  BY DEF Typed, Serve, BuildFails, Checkout, Archive, Build, Lookup, Submit, Dispatch, Join, Start,
         Collect, Respond, Download, workers
<1> QED  BY <1>1, <1>2, <1>3, <1>4

LEMMA OtherWorkers ==
  ASSUME Typed, NEW w \in Workers, Work(w) \/ KillWorker(w)
  PROVE  /\ \A v \in Workers \ {w} : wpc'[v] = wpc[v] /\ wjob'[v] = wjob[v] /\ queue'[v] = queue[v]
         /\ UNCHANGED <<todo, pc, outcome, built, life, pool, busy>>
         /\ \A t : Asked(t)' = Asked(t) /\ JobOf(t)' = JobOf(t)
         /\ wpc[w] # "gone" /\ (wpc[w] = "idle" => GetJob(w))
         /\ ~ GetJob(w) => wjob' = wjob
<1>1. \A v \in Workers \ {w} : wpc'[v] = wpc[v] /\ wjob'[v] = wjob[v] /\ queue'[v] = queue[v]
  BY DEF Typed, Work, GetJob, Open, Enter, Compile, Pack, Save, Dump, KillWorker, WGoto
<1>2. UNCHANGED <<todo, pc, outcome, built, life, pool, busy>>
  BY DEF Work, GetJob, Open, Enter, Compile, Pack, Save, Dump, KillWorker, Report, Finished, threads,
         process, files
<1>3. wpc[w] # "gone" /\ (wpc[w] = "idle" => GetJob(w)) /\ (~ GetJob(w) => wjob' = wjob)
  BY DEF Work, GetJob, Open, Enter, Compile, Pack, Save, Dump, KillWorker
<1> QED  BY <1>1, <1>2, <1>3 DEF Asked, JobOf, Job

LEMMA HoldingThread ==
  ASSUME Typed, Shaped, Holding, NEW t \in Threads, Serve(t) \/ BuildFails(t)
  PROVE  Holding'
<1>1. KeepsLocks({t})  BY ThreadLocks
<1>2. ASSUME NEW w \in Workers, wpc'[w] \in {"result", "compile", "pack"}
      PROVE  JobLock(wjob'[w]) \in DOMAIN locks' /\ locks'[JobLock(wjob'[w])] = w
  <2>1. wpc'[w] = wpc[w] /\ wjob' = wjob  BY <1>2, OtherThreads
  <2>2. JobLock(wjob[w]) \in DOMAIN locks /\ locks[JobLock(wjob[w])] = w  BY <1>2, <2>1 DEF Holding
  <2>3. JobLock(wjob[w]).kind # "commit"  BY DEF JobLock
  <2>4. w # t  OBVIOUS
  <2> QED  BY <1>1, <2>1, <2>2, <2>3, <2>4 DEF KeepsLocks
<1>3. ASSUME NEW u \in Threads, pc'[u] \in {"archive", "build"}
      PROVE  Repo(u)' \in DOMAIN locks' /\ locks'[Repo(u)'] = u
  <2>1. CASE u # t
    <3>1. pc'[u] = pc[u] /\ Repo(u)' = Repo(u)  BY <2>1, OtherThreads DEF Repo
    <3>2. Repo(u) \in DOMAIN locks /\ locks[Repo(u)] = u  BY <1>3, <3>1 DEF Holding
    <3>3. Repo(u).kind # "commit"  BY DEF Repo
    <3> QED  BY <1>1, <2>1, <3>1, <3>2, <3>3 DEF KeepsLocks
  <2>2. CASE u = t
    <3>1. Checkout(t) \/ Archive(t)
      BY <1>3, <2>2 DEF Typed, Serve, BuildFails, Checkout, Archive, Build, Lookup, Submit, Dispatch,
         Join, Start, Collect, Respond, Download, Over, Answer, Goto
    <3>2. Repo(t)' = Repo(t)  BY <3>1 DEF Checkout, Archive, Repo, Asked
    <3>3. CASE Checkout(t)
      <4>1. Take(Repo(t), t) /\ Free(Repo(t))
        BY <1>3, <2>2, <3>3 DEF Checkout, RepoFree, Goto, Typed
      <4> QED  BY <2>2, <3>2, <4>1, TakeKeepsLocks
    <3>4. CASE Archive(t)
      <4>1. Repo(t) \in DOMAIN locks /\ locks[Repo(t)] = t  BY <3>4 DEF Archive, Holding
      <4>2. Free(Commit(t)) /\ Take(Commit(t), t) /\ Repo(t).kind # "commit" /\ t \notin {}
        BY <3>4 DEF Archive, Repo
      <4>3. KeepsLocks({})  BY <4>2, TakeKeepsLocks
      <4> QED  BY <2>2, <3>2, <4>1, <4>2, <4>3 DEF KeepsLocks
    <3> QED  BY <3>1, <3>3, <3>4
  <2> QED  BY <2>1, <2>2
<1> QED  BY <1>2, <1>3 DEF Holding, JobLock, Repo, Asked

LEMMA HoldingWorker ==
  ASSUME Typed, Holding, NEW v \in Workers, Work(v) \/ KillWorker(v)
  PROVE  Holding'
<1>1. KeepsLocks({v})  BY WorkerLocks
<1>2. ASSUME NEW w \in Workers, wpc'[w] \in {"result", "compile", "pack"}
      PROVE  JobLock(wjob'[w]) \in DOMAIN locks' /\ locks'[JobLock(wjob'[w])] = w
  <2>1. JobLock(wjob[w]).kind # "commit"  BY DEF JobLock
  <2>2. CASE w # v
    <3>1. wpc'[w] = wpc[w] /\ wjob'[w] = wjob[w]  BY <2>2, OtherWorkers
    <3>2. JobLock(wjob[w]) \in DOMAIN locks /\ locks[JobLock(wjob[w])] = w  BY <1>2, <3>1 DEF Holding
    <3> QED  BY <1>1, <2>1, <2>2, <3>1, <3>2 DEF KeepsLocks
  <2>3. CASE w = v
    <3>1. Open(v) \/ Enter(v) \/ Compile(v)
      BY <1>2, <2>3 DEF Typed, Work, GetJob, Pack, Save, Dump, KillWorker, WGoto
    <3>2. CASE Open(v)
      <4>1. Free(JobLock(wjob[v])) /\ Take(JobLock(wjob[v]), v) /\ wjob' = wjob
        BY <1>2, <2>3, <3>2 DEF Typed, Open, WGoto
      <4> QED  BY <2>3, <4>1, TakeKeepsLocks
    <3>3. CASE Enter(v)
      <4>1. Free(Result(wjob[v])) /\ Take(Result(wjob[v]), v) /\ wjob' = wjob
            /\ JobLock(wjob[v]) \in DOMAIN locks /\ locks[JobLock(wjob[v])] = v
        BY <3>3 DEF Enter, Holding
      <4>2. KeepsLocks({})  BY <4>1, TakeKeepsLocks
      <4> QED  BY <2>1, <2>3, <4>1, <4>2 DEF KeepsLocks
    <3>4. CASE Compile(v)
      <4>1. locks' = locks  BY <1>2, <2>3, <3>4 DEF Compile, Typed, WGoto
      <4> QED  BY <2>3, <3>4, <4>1 DEF Compile, Holding
    <3> QED  BY <3>1, <3>2, <3>3, <3>4
  <2> QED  BY <2>2, <2>3
<1>3. ASSUME NEW u \in Threads, pc'[u] \in {"archive", "build"}
      PROVE  Repo(u)' \in DOMAIN locks' /\ locks'[Repo(u)'] = u
  <2>1. pc'[u] = pc[u] /\ Repo(u)' = Repo(u)  BY OtherWorkers DEF Repo
  <2>2. Repo(u) \in DOMAIN locks /\ locks[Repo(u)] = u  BY <1>3, <2>1 DEF Holding
  <2>3. Repo(u).kind # "commit"  BY DEF Repo
  <2>4. u # v  OBVIOUS
  <2> QED  BY <1>1, <2>1, <2>2, <2>3, <2>4 DEF KeepsLocks
<1> QED  BY <1>2, <1>3 DEF Holding, JobLock, Repo, Asked

LEMMA HoldingRestart ==
  ASSUME Typed, Holding, NEW s \in Servers, Restart(s)
  PROVE  Holding'
<1> DEFINE mine == {t \in Threads : ServerOf[t] = s}
<1>1. KeepsLocks(mine)  BY DropKeepsLocks DEF Restart
<1>2. wpc' = wpc /\ wjob' = wjob  BY DEF Restart, workers
<1>3. ASSUME NEW w \in Workers, wpc'[w] \in {"result", "compile", "pack"}
      PROVE  JobLock(wjob'[w]) \in DOMAIN locks' /\ locks'[JobLock(wjob'[w])] = w
  <2>1. JobLock(wjob[w]).kind # "commit"  BY DEF JobLock
  <2>2. w \notin mine  OBVIOUS
  <2> QED  BY <1>1, <1>2, <1>3, <2>1, <2>2 DEF Holding, KeepsLocks
<1>4. ASSUME NEW u \in Threads, pc'[u] \in {"archive", "build"}
      PROVE  Repo(u)' \in DOMAIN locks' /\ locks'[Repo(u)'] = u
  <2>1. u \notin mine /\ pc'[u] = pc[u] /\ todo'[u] = todo[u]  BY <1>4 DEF Restart
  <2>2. Repo(u)' = Repo(u) /\ Repo(u).kind # "commit"  BY <2>1 DEF Repo, Asked
  <2> QED  BY <1>1, <1>4, <2>1, <2>2 DEF Holding, KeepsLocks
<1> QED  BY <1>3, <1>4 DEF Holding, JobLock, Repo, Asked

\* Who prepares a commit holds the lock of its repository, and who compiles a job
\* the lock of the job (clone_github_repo, compile_job).
THEOREM LocksHeld == Spec => []Holding
<1>1. Init => Holding  BY DEF Init, Holding
<1>2. Typed /\ Shaped /\ Holding /\ [Next]_vars => Holding'
  <2> SUFFICES ASSUME Typed, Shaped, Holding, [Next]_vars PROVE Holding'  OBVIOUS
  <2>1. CASE UNCHANGED vars
    <3>1. UNCHANGED <<todo, pc, wpc, wjob, locks>>  BY <2>1 DEF vars, files, threads, workers
    <3> QED  BY <3>1 DEF Holding, JobLock, Repo, Asked
  <2>2. CASE Next
    BY <2>2, HoldingThread, HoldingWorker, HoldingRestart DEF Next, KillServer, Timeout
  <2> QED  BY <2>1, <2>2
<1> QED  BY <1>1, <1>2, LibraryInvariant, ShapeInvariant, PTL DEF Spec

-----------------------------------------------------------------------------
(* As long as nothing is killed and no build fails.                         *)

\* Every worker of a pool is alive, and whoever waits, waits for one of them.
Attended ==
  /\ \A s \in Servers : life[s] = 0 /\ \A c \in ToSet(pool[s]) : wpc[Mine(s, c)] # "gone"
  /\ \A t \in Threads : pc[t] = "wait" => Asked(t).commit \in ToSet(pool[Home(t)])

LEMMA PoolIsOfCommits ==
  ASSUME Typed, NEW s \in Servers
  PROVE  ToSet(pool[s]) \subseteq Commits
<1>1. pool[s] \in Seq(Commits)  BY DEF Typed
<1> QED  BY <1>1 DEF ToSet

LEMMA NobodyStuck ==
  ASSUME Typed, Attended, NEW s \in Servers
  PROVE  ~ Stuck(s)
BY DEF Attended, Stuck, Worker, Mine, Home

LEMMA AttendedThread ==
  ASSUME Typed, Shaped, Turns, Attended, NEW t \in Threads, Serve(t)
  PROVE  Attended'
<1> DEFINE s == Home(t)
           c == Asked(t).commit
<1>1. s \in Servers /\ todo[t] # <<>> /\ c \in Commits
  <2>1. todo[t] # <<>>
    BY DEF Typed, Serve, Checkout, Archive, Build, Lookup, Submit, Dispatch, Join, Start, Collect,
           Respond, Download
  <2> QED  BY <2>1, AskedType, HomeType
<1>2. /\ life' = life
      /\ \A w \in Workers : wpc'[w] = wpc[w] \/ wpc'[w] = "idle"
      /\ \A u \in Threads \ {t} : pc'[u] = pc[u] /\ Asked(u)' = Asked(u)
  BY OtherThreads
<1>3. \A r \in Servers, x \in Commits : Mine(r, x)' = Mine(r, x) /\ Mine(r, x) \in Workers
  BY <1>2 DEF Mine, Workers, Typed
<1>4. CASE pool' = pool /\ (pc'[t] = "wait" => pc[t] = "wait" /\ Asked(t)' = Asked(t))
  <2>1. \A r \in Servers : life'[r] = 0 /\ \A x \in ToSet(pool'[r]) : wpc'[Mine(r, x)'] # "gone"
    BY <1>2, <1>3, <1>4, PoolIsOfCommits DEF Attended
  <2>3. \A u \in Threads : pc'[u] = "wait" => Asked(u)'.commit \in ToSet(pool'[Home(u)])
    BY <1>2, <1>4 DEF Attended
  <2> QED  BY <2>1, <2>3 DEF Attended, Home
<1>5. CASE Dispatch(t)
  <2>1. busy[s] = Nobody /\ wpc' = wpc /\ todo' = todo  BY <1>5 DEF Dispatch, Unlocked
  <2>2. \A u \in Threads \ {t} : Home(u) = s => pc[u] # "wait"
    BY <2>1 DEF Turns, ThreadTurn, Engaged
  <2>3. /\ \A r \in Servers \ {s} : pool'[r] = pool[r]
        /\ ToSet(pool'[s]) \subseteq ToSet(pool[s])
        /\ pc'[t] = "wait" => pool' = pool /\ c \in ToSet(pool[s])
    <3>1. CASE c \notin ToSet(pool[s]) /\ Full(s)
      <4>1. pool' = [pool EXCEPT ![s] = Front(@)] /\ pc'[t] = "join"
        BY <1>5, <3>1 DEF Dispatch, Goto, Typed
      <4>2. pool[s] \in Seq(Commits) /\ pool[s] # <<>> /\ Distinct(pool[s])
        BY <1>1, <3>1 DEF Full, Typed, Turns, Turn
      <4>3. ToSet(Front(pool[s])) \subseteq ToSet(pool[s])  BY <4>2, FrontOfPool
      <4> QED  BY <1>1, <4>1, <4>3 DEF Typed
    <3>2. CASE ~ (c \notin ToSet(pool[s]) /\ Full(s))
      <4>1. pool' = pool /\ (pc'[t] = "wait" => c \in ToSet(pool[s]))
        BY <1>5, <3>2 DEF Dispatch, Goto, Typed
      <4> QED  BY <4>1
    <3> QED  BY <3>1, <3>2
  <2>4. \A r \in Servers : ToSet(pool'[r]) \subseteq ToSet(pool[r])  BY <2>3
  <2>5. \A r \in Servers : life'[r] = 0 /\ \A x \in ToSet(pool'[r]) : wpc'[Mine(r, x)'] # "gone"
    <3> SUFFICES ASSUME NEW r \in Servers, NEW x \in ToSet(pool'[r])
                 PROVE  wpc'[Mine(r, x)'] # "gone"
      BY <1>2 DEF Attended
    <3>1. x \in ToSet(pool[r]) /\ x \in Commits  BY <2>4, PoolIsOfCommits
    <3>2. Mine(r, x)' = Mine(r, x) /\ wpc[Mine(r, x)] # "gone"  BY <1>3, <3>1 DEF Attended
    <3> QED  BY <2>1, <3>2
  <2>6. ASSUME NEW u \in Threads, pc'[u] = "wait" PROVE Asked(u)'.commit \in ToSet(pool'[Home(u)])
    <3>1. Asked(u)' = Asked(u)  BY <2>1 DEF Asked
    <3>2. CASE u = t  BY <2>3, <2>6, <3>1, <3>2
    <3>3. CASE u # t
      <4>1. pc[u] = "wait" /\ Home(u) # s /\ Home(u) \in Servers  BY <1>2, <2>2, <2>6, <3>3, HomeType
      <4> QED  BY <2>3, <3>1, <4>1 DEF Attended
    <3> QED  BY <3>2, <3>3
  <2> QED  BY <2>5, <2>6 DEF Attended, Home
<1>6. CASE Start(t)
  <2>1. /\ Worker(t) = Mine(s, c) /\ todo' = todo
        /\ pool' = [pool EXCEPT ![s] = Append(@, c)] /\ wpc' = [wpc EXCEPT ![Worker(t)] = "idle"]
    BY <1>6 DEF Start, Worker, Mine
  <2>2. pool[s] \in Seq(Commits) /\ Distinct(pool[s]) /\ c \notin ToSet(pool[s])
    BY <1>1, <1>6 DEF Typed, Turns, Turn, ThreadTurn, Room, Start
  <2>3. ToSet(Append(pool[s], c)) = ToSet(pool[s]) \cup {c}
    BY <1>1, <2>2, AppendToPool
  <2>4. /\ ToSet(pool'[s]) = ToSet(pool[s]) \cup {c} /\ wpc'[Mine(s, c)] = "idle"
        /\ \A r \in Servers \ {s} : pool'[r] = pool[r]
    BY <1>1, <1>3, <2>1, <2>3 DEF Typed
  <2>5. \A r \in Servers : life'[r] = 0 /\ \A x \in ToSet(pool'[r]) : wpc'[Mine(r, x)'] # "gone"
    <3> SUFFICES ASSUME NEW r \in Servers, NEW x \in ToSet(pool'[r])
                 PROVE  wpc'[Mine(r, x)'] # "gone"
      BY <1>2 DEF Attended
    <3>1. CASE r = s /\ x = c  BY <1>1, <1>3, <2>4, <3>1
    <3>2. CASE ~ (r = s /\ x = c)
      <4>1. x \in ToSet(pool[r]) /\ x \in Commits  BY <2>4, <3>2, PoolIsOfCommits
      <4> QED  BY <1>2, <1>3, <4>1 DEF Attended
    <3> QED  BY <3>1, <3>2
  <2>6. ASSUME NEW u \in Threads, pc'[u] = "wait" PROVE Asked(u)'.commit \in ToSet(pool'[Home(u)])
    <3>1. Asked(u)' = Asked(u)  BY <2>1 DEF Asked
    <3>2. CASE u = t  BY <2>4, <3>1, <3>2
    <3>3. CASE u # t
      <4>1. pc[u] = "wait" /\ Home(u) \in Servers  BY <1>2, <2>6, <3>3, HomeType
      <4> QED  BY <2>4, <3>1, <4>1 DEF Attended
    <3> QED  BY <3>2, <3>3
  <2> QED  BY <2>5, <2>6 DEF Attended, Home
<1>7. CASE ~ (Dispatch(t) \/ Start(t))
  <2>1. pool' = pool
    BY <1>7 DEF Serve, Checkout, Archive, Build, Lookup, Submit, Join, Collect, Respond, Download, process
  <2>2. pc'[t] # "wait"
    BY <1>7 DEF Typed, Serve, Checkout, Archive, Build, Lookup, Submit, Join, Collect, Respond, Download,
         Over, Answer, Goto
  <2> QED  BY <1>4, <2>1, <2>2
<1> QED  BY <1>5, <1>6, <1>7

LEMMA AttendedWorker ==
  ASSUME Typed, Turns, Attended, NEW w \in Workers, Work(w)
  PROVE  Attended'
<1>1. /\ UNCHANGED <<life, pool, pc>>
      /\ \A v \in Workers \ {w} : wpc'[v] = wpc[v]
      /\ \A t : Asked(t)' = Asked(t)
  BY OtherWorkers
<1>2. \A r, x : Mine(r, x)' = Mine(r, x)  BY <1>1 DEF Mine
<1>3. ASSUME NEW s \in Servers, NEW c \in ToSet(pool[s])
      PROVE  wpc'[Mine(s, c)] # "gone"
  <2>1. wpc[Mine(s, c)] # "gone" /\ c \in Commits  BY PoolIsOfCommits DEF Attended
  <2>2. CASE w # Mine(s, c)
    <3>1. Mine(s, c) \in Workers  BY <2>1 DEF Mine, Workers, Typed
    <3> QED  BY <1>1, <2>1, <2>2, <3>1
  <2>3. CASE w = Mine(s, c) /\ GetJob(w)
    <3>1. ~ Quiet(s, c)  BY <2>3 DEF GetJob, Quiet
    <3>2. PICK t \in Threads : Home(t) = s /\ pc[t] \in Engaged /\ ThreadTurn(t)
      <4>1. busy[s] \in Threads /\ Home(busy[s]) = s
        BY <2>1, <3>1 DEF Typed, Turns, Turn, AtRest
      <4> QED  BY <4>1 DEF Turns, ThreadTurn
    <3>3. pc[t] \notin {"join", "start"}
      BY <2>1, <3>1, <3>2 DEF ThreadTurn, AtRest, Stopping
    <3>4. Expecting(t) /\ c = Asked(t).commit
      BY <2>1, <3>1, <3>2, <3>3 DEF ThreadTurn, Engaged, Delivered, Expecting
    <3>5. queue[w] = <<JobOf(t)>>
      <4>1. w = Worker(t)  BY <2>3, <3>2, <3>4 DEF Worker, Mine
      <4> QED  BY <2>3, <3>4, <4>1 DEF Expecting, GetJob
    <3>6. Head(queue[w]) # Stop
      <4>1. JobOf(t) # Stop  BY <3>2, AskedNotStop DEF Typed, Engaged
      <4> QED  BY <3>5, <4>1
    <3> QED  BY <2>3, <3>6 DEF GetJob, WGoto, Typed
  <2>4. CASE w = Mine(s, c) /\ ~ GetJob(w)
    BY <2>4 DEF Work, Open, Enter, Compile, Pack, Save, Dump, WGoto, Typed
  <2> QED  BY <2>2, <2>3, <2>4
<1>4. \A s \in Servers : life'[s] = 0 /\ \A c \in ToSet(pool'[s]) : wpc'[Mine(s, c)'] # "gone"
  BY <1>1, <1>2, <1>3 DEF Attended
<1>5. \A t \in Threads : pc'[t] = "wait" => Asked(t)'.commit \in ToSet(pool'[Home(t)])
  BY <1>1 DEF Attended
<1> QED  BY <1>4, <1>5 DEF Attended, Home

\* Without faults a step is one of a thread or of a worker: no request waits for
\* a worker that is gone, so that gunicorn has nothing to time out.
LEMMA CalmSteps ==
  ASSUME Typed, Shaped, faults = 0 => Attended, Next, faults' = 0
  PROVE  /\ faults = 0
         /\ (\E t \in Threads : Serve(t)) \/ (\E w \in Workers : Work(w))
<1>1. \A t \in Threads : ~ BuildFails(t)  BY DEF BuildFails, Shaped
<1>2. \A w \in Workers : ~ KillWorker(w)  BY DEF KillWorker, Shaped
<1>3. \A s \in Servers : ~ KillServer(s)  BY DEF KillServer, Shaped
<1>4. faults = 0
  BY <1>1, <1>2, <1>3 DEF Next, Serve, Checkout, Archive, Build, Lookup, Submit, Dispatch, Join, Start,
     Collect, Respond, Download, Work, GetJob, Open, Enter, Compile, Pack, Save, Dump, Timeout
<1>5. \A s \in Servers : ~ Timeout(s)  BY <1>4, NobodyStuck DEF Timeout
<1> QED  BY <1>1, <1>2, <1>3, <1>4, <1>5 DEF Next

\* As long as nothing is killed, nobody waits for a worker that is gone
\* (run_and_wait_job, gunicorn's timeout).
THEOREM WorkersAttend == Spec => [](faults = 0 => Attended)
<1>1. Init => Attended
  <2> SUFFICES ASSUME Init PROVE Attended  OBVIOUS
  <2>1. \A s \in Servers : life[s] = 0 /\ ToSet(pool[s]) = {}  BY DEF Init, ToSet
  <2>2. \A t \in Threads : pc[t] # "wait"  BY DEF Init
  <2> QED  BY <2>1, <2>2 DEF Attended
<1>2. Typed /\ Shaped /\ Turns /\ (faults = 0 => Attended) /\ [Next]_vars => (faults = 0 => Attended)'
  <2> SUFFICES ASSUME Typed, Shaped, Turns, faults = 0 => Attended, [Next]_vars, faults' = 0
               PROVE  Attended'
    OBVIOUS
  <2>1. CASE UNCHANGED vars
    <3>1. UNCHANGED <<todo, pc, life, pool, wpc, faults>>
      BY <2>1 DEF vars, files, threads, process, workers
    <3> QED  BY <3>1 DEF Attended, Mine, Asked, Home
  <2>2. CASE Next
    <3>1. Attended /\ ((\E t \in Threads : Serve(t)) \/ (\E w \in Workers : Work(w)))
      BY <2>2, CalmSteps
    <3> QED  BY <3>1, AttendedThread, AttendedWorker
  <2> QED  BY <2>1, <2>2
<1> QED  BY <1>1, <1>2, LibraryInvariant, ShapeInvariant, TurnsInvariant, PTL DEF Spec

-----------------------------------------------------------------------------
(* Failures are those of the modules.                                       *)

Preparing == {"archive", "build"}

\* With the lock of the repository a thread finds the commit absent or built, and
\* what is not built is in the hands of one thread; so a worker finds hidet, and
\* only a module that does not compile makes a job fail.
Prepared ==
  /\ \A t \in Threads :
       /\ pc[t] = "archive" => built[Asked(t).commit] = Absent
       /\ pc[t] \notin Preparing \cup {"receive"} => built[Asked(t).commit] = "built"
  /\ \A c \in Commits : built[c] = "partial" => \E t \in Threads : pc[t] = "build" /\ Asked(t).commit = c
  /\ \A w \in Workers : /\ wpc[w] # "gone" => built[w[3]] = "built"
                        /\ wpc[w] \in {"save_failed", "dump_failed"} => wjob[w].module \in Failing
  /\ \A j \in Jobs : response[j] = "failed" => j.module \in Failing

\* Two threads do not prepare one commit at the same time.
LEMMA OneAtATime ==
  ASSUME Typed, Shaped, Holding, OneRepository,
         NEW t \in Threads, NEW u \in Threads, todo[t] # <<>>, u # t,
         pc[u] \in Preparing, Asked(u).commit = Asked(t).commit
  PROVE  ~ Free(Repo(t)) /\ pc[t] \notin Preparing
<1>1. Asked(t) \in Requests /\ Asked(u) \in Requests
  BY AskedShape DEF Typed, Preparing
<1>2. Repo(u) = Repo(t)  BY <1>1 DEF OneRepository, Repo
<1>3. Repo(t) \in DOMAIN locks /\ locks[Repo(t)] = u  BY <1>2 DEF Holding, Preparing
<1> QED  BY <1>3 DEF Free, Holding, Preparing

LEMMA PreparedThread ==
  ASSUME Typed, Shaped, Holding, OneRepository, Prepared, load' = load, NEW t \in Threads, Serve(t)
  PROVE  Prepared'
<1> DEFINE c == Asked(t).commit
<1>1. todo[t] # <<>> /\ c \in Commits
  <2>1. todo[t] # <<>>
    BY DEF Typed, Serve, Checkout, Archive, Build, Lookup, Submit, Dispatch, Join, Start, Collect,
           Respond, Download
  <2> QED  BY <2>1, AskedType
<1>2. /\ \A u \in Threads \ {t} : pc'[u] = pc[u] /\ Asked(u)' = Asked(u)
      /\ UNCHANGED <<response, wjob>>
      /\ \A w \in Workers : wpc'[w] = wpc[w] \/ (Start(t) /\ w = Worker(t) /\ wpc'[w] = "idle")
  BY OtherThreads
\* What happens to the commit, and where the thread goes.
<1>3. /\ built' = built
      /\ \/ pc'[t] = "receive"
         \/ pc'[t] = "archive" /\ Asked(t)' = Asked(t) /\ built[c] = Absent
         \/ pc'[t] \notin Preparing /\ Asked(t)' = Asked(t) /\ built[c] = "built"
      /\ pc[t] # "build"
      => Prepared'
  <2> SUFFICES ASSUME built' = built, pc[t] # "build",
                      \/ pc'[t] = "receive"
                      \/ pc'[t] = "archive" /\ Asked(t)' = Asked(t) /\ built[c] = Absent
                      \/ pc'[t] \notin Preparing /\ Asked(t)' = Asked(t) /\ built[c] = "built"
               PROVE  Prepared'
    OBVIOUS
  <2>1. \A u \in Threads :
          /\ pc'[u] = "archive" => built'[Asked(u)'.commit] = Absent
          /\ pc'[u] \notin Preparing \cup {"receive"} => built'[Asked(u)'.commit] = "built"
    <3> SUFFICES ASSUME NEW u \in Threads
                 PROVE  /\ pc'[u] = "archive" => built'[Asked(u)'.commit] = Absent
                        /\ pc'[u] \notin Preparing \cup {"receive"} => built'[Asked(u)'.commit] = "built"
      OBVIOUS
    <3>1. CASE u = t  BY <3>1 DEF Preparing
    <3>2. CASE u # t  BY <1>2, <3>2 DEF Prepared
    <3> QED  BY <3>1, <3>2
  <2>2. \A x \in Commits : built'[x] = "partial" => \E u \in Threads : pc'[u] = "build" /\ Asked(u)'.commit = x
    BY <1>2 DEF Prepared
  <2>3. \A w \in Workers : /\ wpc'[w] # "gone" => built'[w[3]] = "built"
                           /\ wpc'[w] \in {"save_failed", "dump_failed"} => wjob'[w].module \in Failing
    <3> SUFFICES ASSUME NEW w \in Workers
                 PROVE  /\ wpc'[w] # "gone" => built'[w[3]] = "built"
                        /\ wpc'[w] \in {"save_failed", "dump_failed"} => wjob'[w].module \in Failing
      OBVIOUS
    <3>1. CASE wpc'[w] = wpc[w]  BY <1>2, <3>1 DEF Prepared
    <3>2. CASE Start(t) /\ w = Worker(t) /\ wpc'[w] = "idle"
      <4>1. built[c] = "built"  BY <3>2 DEF Start, Prepared, Preparing
      <4>2. w[3] = c  BY <3>2 DEF Worker
      <4> QED  BY <3>2, <4>1, <4>2
    <3> QED  BY <1>2, <3>1, <3>2
  <2>4. \A j \in Jobs' : response'[j] = "failed" => j.module \in Failing
    BY <1>2, SameLoad DEF Prepared
  <2> QED  BY <2>1, <2>2, <2>3, <2>4 DEF Prepared
<1>4. CASE Checkout(t)
  <2>1. built' = built /\ Asked(t)' = Asked(t) /\ Free(Repo(t)) /\ pc[t] = "receive"
    BY <1>4 DEF Checkout, RepoFree, Asked
  <2>2. CASE built[c] = Absent
    BY <1>3, <1>4, <2>1, <2>2 DEF Checkout, Goto, Typed
  <2>3. CASE built[c] # Absent
    <3>1. built[c] # "partial"
      <4>1. ASSUME NEW u \in Threads, pc[u] = "build", Asked(u).commit = c PROVE FALSE
        <5>1. u # t  BY <2>1, <4>1
        <5> QED  BY <1>1, <2>1, <4>1, <5>1, OneAtATime DEF Preparing
      <4> QED  BY <1>1, <4>1 DEF Prepared
    <3>2. built[c] = "built"  BY <1>1, <2>3, <3>1 DEF Shaped
    <3>3. pc'[t] = "lookup"  BY <1>4, <2>3 DEF Checkout, Goto, Typed
    <3> QED  BY <1>3, <2>1, <3>2, <3>3 DEF Preparing
  <2> QED  BY <2>2, <2>3
<1>5. CASE Archive(t) \/ Build(t)
  <2>1. /\ pc[t] \in Preparing /\ Asked(t)' = Asked(t) /\ wpc' = wpc
        /\ \/ pc[t] = "archive" /\ pc'[t] = "build" /\ built' = [built EXCEPT ![c] = "partial"]
           \/ pc[t] = "build" /\ pc'[t] = "lookup" /\ built' = [built EXCEPT ![c] = "built"]
    BY <1>5 DEF Archive, Build, Asked, Preparing, Goto, Typed, workers
  <2>2. \A u \in Threads \ {t} : Asked(u).commit = c => pc[u] \notin Preparing
    BY <1>1, <2>1, OneAtATime
  <2>3. pc[t] = "archive" => built[c] = Absent  BY <2>1 DEF Prepared
  <2>4. \A x \in Commits \ {c} : built'[x] = built[x]  BY <2>1 DEF Shaped
  <2>5. built'[c] = IF pc[t] = "archive" THEN "partial" ELSE "built"  BY <1>1, <2>1 DEF Shaped
  <2>6. ASSUME NEW u \in Threads
        PROVE  /\ pc'[u] = "archive" => built'[Asked(u)'.commit] = Absent
               /\ pc'[u] \notin Preparing \cup {"receive"} => built'[Asked(u)'.commit] = "built"
    <3>1. CASE u = t  BY <2>1, <2>5, <3>1 DEF Preparing
    <3>2. CASE u # t /\ pc[u] # "receive"
      <4>1. Asked(u).commit \in Commits  BY <3>2, AskedType DEF Typed
      <4>2. CASE Asked(u).commit = c
        <5>1. pc[u] \notin Preparing /\ built[c] = "built"  BY <2>2, <3>2, <4>2 DEF Prepared
        <5>2. built'[c] = "built"  BY <2>1, <2>3, <2>5, <5>1 DEF Absent
        <5> QED  BY <1>2, <3>2, <4>2, <5>1, <5>2 DEF Preparing
      <4>3. CASE Asked(u).commit # c
        BY <1>2, <2>4, <3>2, <4>1, <4>3 DEF Prepared
      <4> QED  BY <4>2, <4>3
    <3>3. CASE u # t /\ pc[u] = "receive"  BY <1>2, <3>3
    <3> QED  BY <3>1, <3>2, <3>3
  <2>7. ASSUME NEW x \in Commits, built'[x] = "partial"
        PROVE  \E u \in Threads : pc'[u] = "build" /\ Asked(u)'.commit = x
    <3>1. CASE x = c  BY <2>1, <2>5, <2>7, <3>1
    <3>2. CASE x # c
      <4>1. PICK u \in Threads : pc[u] = "build" /\ Asked(u).commit = x
        BY <2>4, <2>7, <3>2 DEF Prepared
      <4> QED  BY <1>2, <3>2, <4>1
    <3> QED  BY <3>1, <3>2
  <2>8. ASSUME NEW w \in Workers
        PROVE  /\ wpc'[w] # "gone" => built'[w[3]] = "built"
               /\ wpc'[w] \in {"save_failed", "dump_failed"} => wjob'[w].module \in Failing
    <3>1. w[3] \in Commits  BY DEF Workers
    <3>2. built[w[3]] = "built" => built'[w[3]] = "built"
      BY <2>1, <2>3, <2>4, <2>5, <3>1 DEF Absent
    <3> QED  BY <1>2, <2>1, <3>2 DEF Prepared
  <2>9. \A j \in Jobs' : response'[j] = "failed" => j.module \in Failing
    BY <1>2, SameLoad DEF Prepared
  <2> QED  BY <2>6, <2>7, <2>8, <2>9 DEF Prepared
<1>6. CASE ~ (Checkout(t) \/ Archive(t) \/ Build(t))
  <2>1. built' = built /\ pc[t] \notin Preparing \cup {"receive"}
    BY <1>6 DEF Serve, Lookup, Submit, Dispatch, Join, Start, Collect, Respond, Download, files, Preparing
  <2>2. pc'[t] = "receive" \/ (pc'[t] \notin Preparing /\ todo' = todo)
    BY <1>6 DEF Typed, Serve, Lookup, Submit, Dispatch, Join, Start, Collect, Respond, Download, Over,
         Answer, Goto, Preparing
  <2>3. built[c] = "built"  BY <2>1 DEF Prepared
  <2> QED  BY <1>3, <2>1, <2>2, <2>3 DEF Asked, Preparing
<1> QED  BY <1>4, <1>5, <1>6

LEMMA PreparedWorker ==
  ASSUME Typed, Shaped, Prepared, load' = load, NEW w \in Workers, Work(w)
  PROVE  Prepared'
<1>1. /\ \A v \in Workers \ {w} : wpc'[v] = wpc[v] /\ wjob'[v] = wjob[v]
      /\ UNCHANGED <<pc, built>> /\ wpc[w] # "gone"
      /\ \A t : Asked(t)' = Asked(t)
  BY OtherWorkers
<1>2. /\ \A t \in Threads :
           /\ pc'[t] = "archive" => built'[Asked(t)'.commit] = Absent
           /\ pc'[t] \notin Preparing \cup {"receive"} => built'[Asked(t)'.commit] = "built"
      /\ \A c \in Commits : built'[c] = "partial" =>
           \E t \in Threads : pc'[t] = "build" /\ Asked(t)'.commit = c
  BY <1>1 DEF Prepared
<1>3. built[w[3]] = "built"  BY <1>1 DEF Prepared
<1>4. wpc'[w] \in {"save_failed", "dump_failed"} => wjob'[w].module \in Failing
  <2>1. CASE Open(w)
    <3>1. Importable(w)  BY <1>3 DEF Importable
    <3> QED  BY <2>1, <3>1 DEF Open, WGoto, Typed
  <2>2. CASE Compile(w)
    BY <2>2 DEF Compile, WGoto, Typed, Digest
  <2>3. CASE Save(w)
    BY <2>3 DEF Save, WGoto, Typed, Prepared
  <2>4. CASE GetJob(w) \/ Enter(w) \/ Pack(w) \/ Dump(w)
    BY <2>4 DEF GetJob, Enter, Pack, Dump, WGoto, Typed
  <2> QED  BY <2>1, <2>2, <2>3, <2>4 DEF Work
<1>5. \A j \in Jobs : response'[j] = "failed" => j.module \in Failing
  <2>1. CASE Save(w)
    BY <2>1 DEF Save, Shaped, Prepared
  <2>2. CASE Dump(w)
    BY <2>2 DEF Dump, Shaped, Prepared
  <2>3. CASE ~ (Save(w) \/ Dump(w))
    BY <2>3 DEF Work, GetJob, Open, Enter, Compile, Pack, files, Prepared
  <2> QED  BY <2>1, <2>2, <2>3
<1>6. \A v \in Workers : /\ wpc'[v] # "gone" => built'[v[3]] = "built"
                         /\ wpc'[v] \in {"save_failed", "dump_failed"} => wjob'[v].module \in Failing
  BY <1>1, <1>3, <1>4 DEF Prepared
<1> QED  BY <1>2, <1>5, <1>6, SameLoad DEF Prepared

\* Without faults, and when commits have one repository, a job is reported as failed
\* only when its module does not compile (clone_github_repo, compile_job).
THEOREM OnlyRealFailures == Spec => []FailuresAreReal
<1> DEFINE Inv == faults = 0 /\ OneRepository => Prepared
<1>1. Init => Inv
  <2> SUFFICES ASSUME Init PROVE Prepared  OBVIOUS
  <2>1. \A t \in Threads : pc[t] = "receive"  BY DEF Init
  <2>2. \A c \in Commits : built[c] = Absent  BY DEF Init
  <2>3. \A w \in Workers : wpc[w] = "gone"  BY DEF Init
  <2>4. \A j \in Jobs : response[j] = Absent  BY DEF Init
  <2> QED  BY <2>1, <2>2, <2>3, <2>4 DEF Prepared, Absent
<1>2. Typed /\ Shaped /\ Holding /\ (faults = 0 => Attended) /\ Inv /\ [Next]_vars => Inv'
  <2> SUFFICES ASSUME Typed, Shaped, Holding, faults = 0 => Attended, Inv, [Next]_vars,
                      faults' = 0, OneRepository'
               PROVE  Prepared'
    OBVIOUS
  <2>1. CASE UNCHANGED vars
    <3>1. UNCHANGED <<load, built, response, todo, pc, wpc, wjob, faults>>
      BY <2>1 DEF vars, files, threads, workers
    <3>2. OneRepository  BY <3>1, SameLoad DEF OneRepository
    <3> QED  BY <3>1, <3>2, SameLoad DEF Prepared, Asked
  <2>2. CASE Next
    <3>1. load' = load  BY <2>2 DEF Next
    <3>2. OneRepository  BY <3>1, SameLoad DEF OneRepository
    <3>3. faults = 0 /\ ((\E t \in Threads : Serve(t)) \/ (\E w \in Workers : Work(w)))
      BY <2>2, CalmSteps
    <3> QED  BY <3>1, <3>2, <3>3, PreparedThread, PreparedWorker
  <2> QED  BY <2>1, <2>2
<1>3. Inv => FailuresAreReal  BY DEF FailuresAreReal, Prepared
<1> QED  BY <1>1, <1>2, <1>3, LibraryInvariant, ShapeInvariant, LocksHeld, WorkersAttend, PTL DEF Spec

-----------------------------------------------------------------------------
(* Answers are whole.                                                       *)

Sole(j)  == \A i \in Jobs : Digest(i) = Digest(j) => i = j
Whole(d) == lib[d] = "complete" /\ zip[d] = "complete"

\* A library is half there only while it is compiled, and is there when it is packed.
LibrariesWhole ==
  /\ \A d \in Digests : lib[d] = "partial" => \E w \in Workers : wpc[w] = "compile" /\ Digest(wjob[w]) = d
  /\ \A w \in Workers : wpc[w] = "pack" => lib[Digest(wjob[w])] = "complete"

\* The archive of a job that shares its result with no other is written once,
\* before the job is answered.
ArchiveWhole(j) ==
  /\ zip[Digest(j)] # Absent =>
       Whole(Digest(j)) \/ \E w \in Workers : wpc[w] = "pack" /\ wjob[w] = j
  /\ response[j] = "ok" => Whole(Digest(j))
  /\ \A w \in Workers : wjob[w] = j =>
       /\ wpc[w] \in {"save_ok", "dump_ok"} => Whole(Digest(j))
       /\ wpc[w] \in {"result", "compile"} => zip[Digest(j)] = Absent
  /\ \A t \in Threads : pc[t] = "download" /\ JobOf(t) = j => Whole(Digest(j))

ArchivesWhole == \A j \in Jobs : Sole(j) => ArchiveWhole(j)

\* A response is half there only while a worker writes it, and when a thread has
\* its result the response that nobody else writes is there.
HasResult(t) == pc[t] = "respond" \/ (pc[t] = "wait" /\ results[Home(t)] # <<>>)

ResponsesWhole ==
  /\ \A j \in Jobs : response[j] = "partial" =>
       \E w \in Workers : wpc[w] \in {"dump_ok", "dump_failed"} /\ wjob[w] = j
  /\ \A t \in Threads :
       AloneWithJobs(t) /\ HasResult(t) => response[JobOf(t)] \in {"ok", "failed"}

\* A worker at work is that of a thread that waits.
LEMMA WorkedFor ==
  ASSUME Typed, Turns, Attended, NEW w \in Workers, Working(w)
  PROVE  \E t \in Threads : /\ pc[t] = "wait" /\ w = Worker(t) /\ wjob[w] = JobOf(t)
                            /\ results[Home(t)] = <<>> /\ busy[Home(t)] = t /\ Home(t) = w[1]
<1>1. PICK s \in Servers, l \in Lives, c \in Commits : w = <<s, l, c>>  BY DEF Workers
<1>2. life[s] = 0 /\ l \in Nat  BY DEF Attended, Lives
<1>3. ~ (0 < l)  BY <1>1, <1>2 DEF Turns, Unborn, Working
<1>4. w = Mine(s, c)  BY <1>1, <1>2, <1>3 DEF Mine
<1>5. ~ Quiet(s, c) /\ wpc[Mine(s, c)] # "idle"  BY <1>4 DEF Quiet, Working
<1>6. PICK t \in Threads : Home(t) = s /\ busy[s] = t /\ pc[t] \in Engaged /\ ThreadTurn(t)
  <2>1. busy[s] \in Threads /\ Home(busy[s]) = s
    BY <1>5 DEF Typed, Turns, Turn, AtRest
  <2> QED  BY <2>1 DEF Turns, ThreadTurn
<1>7. pc[t] \notin {"join", "start"}
  BY <1>5, <1>6 DEF ThreadTurn, AtRest, Stopping, Quiet
<1>8. pc[t] = "wait" /\ Expecting(t) /\ c = Asked(t).commit
  BY <1>5, <1>6, <1>7 DEF ThreadTurn, Engaged, Delivered, Expecting
<1>9. w = Worker(t)  BY <1>4, <1>6, <1>8 DEF Worker, Mine
<1>10. wjob[w] = JobOf(t) /\ results[Home(t)] = <<>>  BY <1>8, <1>9 DEF Expecting, Working
<1> QED  BY <1>1, <1>6, <1>8, <1>9, <1>10

\* The worker that does a job which only one thread sends is the one that thread
\* waits for.
LEMMA WorkedForAlone ==
  ASSUME Typed, Shaped, Turns, Attended, NEW w \in Workers, Working(w),
         NEW t \in Threads, todo[t] # <<>>, AloneWithJobs(t), wjob[w] = JobOf(t)
  PROVE  pc[t] = "wait" /\ w = Worker(t) /\ results[Home(t)] = <<>>
<1>1. PICK u \in Threads : pc[u] = "wait" /\ w = Worker(u) /\ wjob[w] = JobOf(u) /\ results[Home(u)] = <<>>
  BY WorkedFor
<1>2. JobOf(u) \in JobsOf(u) /\ JobOf(t) \in JobsOf(t)  BY <1>1, AskedShape DEF Typed
<1>3. u = t  BY <1>1, <1>2 DEF AloneWithJobs
<1> QED  BY <1>1, <1>3

\* Threads do not interfere with workers at work.
LEMMA ThreadLeavesWork ==
  ASSUME Typed, Shaped, Turns, NEW t \in Threads, Serve(t)
  PROVE  /\ wjob' = wjob
         /\ \A w \in Workers : wpc'[w] = wpc[w] \/ (~ Working(w) /\ ~ Working(w)')
<1>1. \A w \in Workers : wpc'[w] = wpc[w] \/ (Start(t) /\ w = Worker(t) /\ wpc'[w] = "idle")
  BY OtherThreads
<1>2. ASSUME Start(t) PROVE ~ Working(Worker(t))
  <2>1. pc[t] = "start" /\ AtRest(Home(t))  BY <1>2 DEF Start, Turns, ThreadTurn
  <2>2. todo[t] # <<>>  BY <2>1 DEF Typed
  <2>3. Asked(t).commit \in Commits  BY <2>2, AskedType
  <2> QED  BY <2>1, <2>3 DEF AtRest, Quiet, Worker, Mine, Working
<1> QED  BY <1>1, <1>2, OtherThreads DEF Working

LEMMA LibrariesThread ==
  ASSUME Typed, Shaped, Turns, LibrariesWhole, load' = load, NEW t \in Threads, Serve(t)
  PROVE  LibrariesWhole'
<1>1. lib' = lib /\ Digests' = Digests  BY OtherThreads, SameLoad
<1>2. wjob' = wjob /\ \A w \in Workers : (wpc'[w] \in {"compile", "pack"} \/ wpc[w] \in {"compile", "pack"}) => wpc'[w] = wpc[w]
  BY ThreadLeavesWork DEF Working
<1> QED  BY <1>1, <1>2 DEF LibrariesWhole, Digest

LEMMA LibrariesWorker ==
  ASSUME Typed, Shaped, Compiling, LibrariesWhole, load' = load, NEW v \in Workers, Work(v)
  PROVE  LibrariesWhole'
<1> DEFINE k == wjob[v]
<1>1. \A w \in Workers \ {v} : wpc'[w] = wpc[w] /\ wjob'[w] = wjob[w]  BY OtherWorkers
<1>2. \A d \in DOMAIN lib : lib[d] = "complete" => lib'[d] = "complete"  BY CompilingWorker
<1>3. \A w \in Workers : Working(w) => Digest(wjob[w]) \in Digests /\ wjob[w] \in Jobs
  BY DEF Shaped, Digests
<1>4. ASSUME NEW d \in Digests, lib'[d] = "partial"
      PROVE  \E w \in Workers : wpc'[w] = "compile" /\ Digest(wjob'[w]) = d
  <2>1. CASE Enter(v)
    <3>1. CASE MustBuild(Digest(k)) /\ d = Digest(k)
      BY <2>1, <3>1 DEF Enter, WGoto, Typed
    <3>2. CASE ~ (MustBuild(Digest(k)) /\ d = Digest(k))
      <4>1. lib[d] = "partial"  BY <1>4, <2>1, <3>2 DEF Enter, Shaped
      <4>2. PICK w \in Workers : wpc[w] = "compile" /\ Digest(wjob[w]) = d  BY <4>1 DEF LibrariesWhole
      <4>3. w # v  BY <2>1, <4>2 DEF Enter
      <4> QED  BY <1>1, <4>2, <4>3
    <3> QED  BY <3>1, <3>2
  <2>2. CASE Compile(v)
    <3>1. d # Digest(k) /\ lib[d] = "partial"
      <4>1. Digest(k) \in Digests  BY <1>3, <2>2 DEF Compile, Working
      <4> QED  BY <1>4, <2>2, <4>1 DEF Compile, Shaped, Absent
    <3>2. PICK w \in Workers : wpc[w] = "compile" /\ Digest(wjob[w]) = d  BY <3>1 DEF LibrariesWhole
    <3> QED  BY <1>1, <3>1, <3>2
  <2>3. CASE ~ (Enter(v) \/ Compile(v))
    <3>1. lib' = lib /\ wpc[v] # "compile"
      <4>1. lib' = lib  BY <2>3 DEF Work, GetJob, Open, Pack, Save, Dump, files
      <4>2. wpc[v] # "compile"  BY <2>3 DEF Work, GetJob, Open, Pack, Save, Dump
      <4> QED  BY <4>1, <4>2
    <3>2. PICK w \in Workers : wpc[w] = "compile" /\ Digest(wjob[w]) = d  BY <1>4, <3>1 DEF LibrariesWhole
    <3> QED  BY <1>1, <3>1, <3>2
  <2> QED  BY <2>1, <2>2, <2>3
<1>5. ASSUME wpc'[v] = "pack" PROVE lib'[Digest(wjob'[v])] = "complete"
  <2>1. Enter(v) \/ Compile(v)
    BY <1>5 DEF Work, GetJob, Open, Pack, Save, Dump, WGoto, Typed
  <2>2. wjob' = wjob /\ Digest(k) \in Digests  BY <1>3, <2>1 DEF Enter, Compile, Working
  <2>3. CASE Enter(v)
    <3>1. ~ MustBuild(Digest(k)) /\ lib' = lib  BY <1>5, <2>3 DEF Enter, WGoto, Typed
    <3>2. lib[Digest(k)] # "partial"
      <4>1. ASSUME NEW w \in Workers, wpc[w] = "compile", Digest(wjob[w]) = Digest(k) PROVE FALSE
        <5>1. Result(wjob[w]) \in DOMAIN locks  BY <4>1 DEF Compiling
        <5>2. Result(wjob[w]) = Result(k)  BY <4>1 DEF Result
        <5> QED  BY <2>3, <5>1, <5>2 DEF Enter, Free
      <4> QED  BY <2>2, <4>1 DEF LibrariesWhole
    <3> QED  BY <2>2, <3>1, <3>2 DEF MustBuild, Shaped
  <2>4. CASE Compile(v)
    BY <1>5, <2>2, <2>4 DEF Compile, WGoto, Typed, Shaped
  <2> QED  BY <2>1, <2>3, <2>4
<1>6. ASSUME NEW w \in Workers, wpc'[w] = "pack" PROVE lib'[Digest(wjob'[w])] = "complete"
  <2>1. CASE w = v  BY <1>5, <1>6, <2>1
  <2>2. CASE w # v
    <3>1. lib[Digest(wjob[w])] = "complete" /\ Digest(wjob[w]) \in Digests
      BY <1>1, <1>3, <1>6, <2>2 DEF LibrariesWhole, Working
    <3>2. lib'[Digest(wjob[w])] = "complete"  BY <1>2, <3>1 DEF Shaped
    <3> QED  BY <1>1, <2>2, <3>2
  <2> QED  BY <2>1, <2>2
<1> QED  BY <1>4, <1>6, SameLoad DEF LibrariesWhole, Digest

LEMMA ArchivesThread ==
  ASSUME Typed, Shaped, Turns, ArchivesWhole, load' = load, NEW t \in Threads, Serve(t)
  PROVE  ArchivesWhole'
<1>1. UNCHANGED <<lib, zip, response, wjob>> /\ Jobs' = Jobs  BY OtherThreads, SameLoad
<1>2. \A w \in Workers : Working(w)' => Working(w) /\ wpc'[w] = wpc[w]
  BY ThreadLeavesWork DEF Working
<1> SUFFICES ASSUME NEW j \in Jobs, Sole(j), ArchiveWhole(j)
             PROVE  ArchiveWhole(j)'
  BY <1>1 DEF ArchivesWhole, Sole, Digest
<1>4. Digest(j)' = Digest(j) /\ (Whole(Digest(j))' <=> Whole(Digest(j)))
  BY <1>1 DEF Whole, Digest
<1>5. zip'[Digest(j)] # Absent => Whole(Digest(j)) \/ \E w \in Workers : wpc'[w] = "pack" /\ wjob'[w] = j
  <2>1. \A w \in Workers : wpc[w] = "pack" => wpc'[w] = "pack"  BY ThreadLeavesWork DEF Working
  <2> QED  BY <1>1, <2>1 DEF ArchiveWhole
<1>6. \A w \in Workers : wjob'[w] = j =>
        /\ wpc'[w] \in {"save_ok", "dump_ok"} => Whole(Digest(j))
        /\ wpc'[w] \in {"result", "compile"} => zip'[Digest(j)] = Absent
  BY <1>1, <1>2 DEF ArchiveWhole, Working
<1>7. ASSUME NEW u \in Threads, pc'[u] = "download", JobOf(u)' = j PROVE Whole(Digest(j))
  <2>1. CASE u # t  BY <1>7, <2>1, OtherThreads DEF ArchiveWhole
  <2>2. CASE u = t
    <3>1. response[JobOf(t)] = "ok" /\ todo' = todo
      BY <1>7, <2>2 DEF Typed, Serve, Checkout, Archive, Build, Lookup, Submit, Dispatch, Join, Start,
             Collect, Respond, Download, Over, Answer, Goto
    <3>2. JobOf(t)' = JobOf(t)  BY <3>1 DEF JobOf, Asked, Job
    <3> QED  BY <1>7, <2>2, <3>1, <3>2 DEF ArchiveWhole
  <2> QED  BY <2>1, <2>2
<1> QED  BY <1>1, <1>4, <1>5, <1>6, <1>7 DEF ArchiveWhole

\* Only a worker that holds the lock of the job writes the archive of a result no
\* other job has.
LEMMA ArchivesWorker ==
  ASSUME Typed, Shaped, Compiling, Holding, LibrariesWhole, ArchivesWhole, load' = load,
         NEW v \in Workers, Work(v)
  PROVE  ArchivesWhole'
<1> SUFFICES ASSUME NEW j \in Jobs, Sole(j), ArchiveWhole(j)
             PROVE  ArchiveWhole(j)'
  BY SameLoad DEF ArchivesWhole, Sole, Digest
<1> DEFINE d == Digest(j)
           k == wjob[v]
<1>2. /\ \A w \in Workers \ {v} : wpc'[w] = wpc[w] /\ wjob'[w] = wjob[w]
      /\ ~ GetJob(v) => wjob' = wjob /\ Working(v)
      /\ pc' = pc /\ \A t : JobOf(t)' = JobOf(t)
  BY OtherWorkers DEF Working
<1>3. d \in Digests  BY DEF Digests
<1>4. Working(v) /\ Digest(k) = d => k = j  BY DEF Shaped, Sole
<1>5. lib[d] = "complete" => lib'[d] = "complete"  BY <1>3, CompilingWorker DEF Shaped
<1>6. wpc[v] \in {"result", "compile"} /\ Digest(k) = d => k = j /\ zip[d] = Absent
  BY <1>4 DEF Working, ArchiveWhole
\* The archive is touched by the worker of the job only.
<1>7. \/ zip'[d] = zip[d] /\ wpc[v] # "pack"
      \/ Digest(k) # d /\ zip'[d] = zip[d]
      \/ k = j /\ zip[d] = Absent /\ zip'[d] = "partial" /\ wpc[v] \in {"result", "compile"} /\ wpc'[v] = "pack"
      \/ k = j /\ Pack(v) /\ zip'[d] = "complete"
  <2>1. CASE Enter(v)
    <3>1. wpc[v] = "result"  BY <2>1 DEF Enter
    <3>2. CASE MustBuild(Digest(k))  BY <2>1, <3>1, <3>2 DEF Enter
    <3>3. CASE ~ MustBuild(Digest(k))
      <4>1. zip' = [zip EXCEPT ![Digest(k)] = "partial"] /\ wpc'[v] = "pack"
        BY <2>1, <3>3 DEF Enter, WGoto, Typed
      <4> QED  BY <1>3, <1>6, <3>1, <4>1 DEF Shaped
    <3> QED  BY <3>2, <3>3
  <2>2. CASE Compile(v)
    <3>1. wpc[v] = "compile"  BY <2>2 DEF Compile
    <3>2. CASE Digest(k).module \in Failing  BY <2>2, <3>1, <3>2 DEF Compile
    <3>3. CASE Digest(k).module \notin Failing
      <4>1. zip' = [zip EXCEPT ![Digest(k)] = "partial"] /\ wpc'[v] = "pack"
        BY <2>2, <3>3 DEF Compile, WGoto, Typed
      <4> QED  BY <1>3, <1>6, <3>1, <4>1 DEF Shaped
    <3> QED  BY <3>2, <3>3
  <2>3. CASE Pack(v)
    BY <1>3, <1>4, <2>3 DEF Pack, Shaped, Working
  <2>4. CASE ~ (Enter(v) \/ Compile(v) \/ Pack(v))
    <3>1. zip' = zip  BY <2>4 DEF Work, GetJob, Open, Save, Dump, files
    <3>2. wpc[v] # "pack"  BY <2>4 DEF Work, GetJob, Open, Save, Dump
    <3> QED  BY <3>1, <3>2
  <2> QED  BY <2>1, <2>2, <2>3, <2>4
<1>8. Whole(d) => Whole(d)'
  BY <1>5, <1>7 DEF Whole, Absent, Digest
<1>9. Pack(v) /\ k = j => Whole(d)'
  BY <1>5, <1>7 DEF Whole, Pack, LibrariesWhole, Digest
<1>10. Digest(j)' = d  BY DEF Digest
<1>11. zip'[d] # Absent => Whole(d)' \/ \E w \in Workers : wpc'[w] = "pack" /\ wjob'[w] = j
  <2>1. CASE zip'[d] = zip[d]
    <3>1. CASE zip[d] # Absent /\ ~ Whole(d)
      <4>1. PICK w \in Workers : wpc[w] = "pack" /\ wjob[w] = j  BY <3>1 DEF ArchiveWhole
      <4>2. CASE w # v  BY <1>2, <4>1, <4>2
      <4>3. CASE w = v
        <5>1. Pack(v)  BY <4>1, <4>3 DEF Work, GetJob, Open, Enter, Compile, Pack, Save, Dump
        <5> QED  BY <1>9, <4>1, <4>3, <5>1
      <4> QED  BY <4>2, <4>3
    <3> QED  BY <1>8, <2>1, <3>1
  <2>2. CASE k = j /\ wpc[v] \in {"result", "compile"} /\ wpc'[v] = "pack"
    <3>1. wjob' = wjob  BY <1>2, <2>2 DEF GetJob
    <3> QED  BY <2>2, <3>1
  <2>3. CASE k = j /\ Pack(v)  BY <1>9, <2>3
  <2> QED  BY <1>7, <2>1, <2>2, <2>3
<1>12. response'[j] = "ok" => Whole(d)'
  <2>1. response'[j] = response[j] \/ (Save(v) /\ response'[j] = "partial") \/ Dump(v)
    BY DEF Work, GetJob, Open, Enter, Compile, Pack, Save, Dump, files, Shaped
  <2>2. ASSUME Dump(v), response'[j] = "ok", response[j] # "ok" PROVE Whole(d)
    <3>1. k = j /\ wpc[v] = "dump_ok"  BY <2>2 DEF Dump, Shaped
    <3> QED  BY <3>1 DEF ArchiveWhole
  <2> QED  BY <1>8, <2>1, <2>2 DEF ArchiveWhole
<1>13. ASSUME NEW w \in Workers, wjob'[w] = j
       PROVE  /\ wpc'[w] \in {"save_ok", "dump_ok"} => Whole(d)'
              /\ wpc'[w] \in {"result", "compile"} => zip'[d] = Absent
  <2>1. CASE w # v
    <3>1. wpc'[w] = wpc[w] /\ wjob[w] = j  BY <1>2, <1>13, <2>1
    <3>2. ASSUME wpc[w] \in {"result", "compile"} PROVE zip'[d] = Absent
      <4>1. zip[d] = Absent /\ locks[JobLock(j)] = w  BY <3>1, <3>2 DEF ArchiveWhole, Holding
      <4>2. ~ (wpc[v] \in {"result", "compile", "pack"} /\ k = j)  BY <2>1, <4>1 DEF Holding
      <4> QED  BY <1>7, <4>1, <4>2 DEF Pack
    <3> QED  BY <1>8, <3>1, <3>2 DEF ArchiveWhole
  <2>2. CASE w = v /\ Open(v)
    <3>1. k = j /\ zip' = zip /\ Free(JobLock(k))  BY <1>13, <2>2 DEF Open
    <3>2. \A x \in Workers : ~ (wpc[x] = "pack" /\ wjob[x] = j)
      BY <3>1 DEF Holding, Free
    <3>3. zip[d] # Absent => Whole(d)  BY <3>2 DEF ArchiveWhole
    <3>4. /\ wpc'[v] \in {"save_ok", "dump_ok"} => zip[d] # Absent
          /\ wpc'[v] \in {"result", "compile"} => zip[d] = Absent
      BY <2>2, <3>1 DEF Open, WGoto, Typed
    <3> QED  BY <1>8, <2>2, <3>1, <3>3, <3>4
  <2>3. CASE w = v /\ Enter(v)
    <3>1. k = j /\ wpc[v] = "result"  BY <1>13, <2>3 DEF Enter
    <3>2. wpc'[v] \in {"compile", "pack"} /\ (wpc'[v] = "compile" => zip' = zip)
      BY <2>3 DEF Enter, WGoto, Typed
    <3> QED  BY <2>3, <3>1, <3>2 DEF ArchiveWhole
  <2>4. CASE w = v /\ Compile(v)
    <3>1. wpc'[v] \in {"save_failed", "pack"}  BY <2>4 DEF Compile, WGoto, Typed
    <3> QED  BY <2>4, <3>1
  <2>5. CASE w = v /\ Pack(v)
    <3>1. k = j /\ wpc'[v] = "save_ok"  BY <1>13, <2>5 DEF Pack, WGoto, Typed
    <3> QED  BY <1>9, <2>5, <3>1
  <2>6. CASE w = v /\ Save(v)
    <3>1. k = j /\ (wpc'[v] = "dump_ok" => wpc[v] = "save_ok") /\ wpc'[v] \in {"dump_ok", "dump_failed"}
      BY <1>13, <2>6 DEF Save, WGoto, Typed
    <3> QED  BY <1>8, <2>6, <3>1 DEF ArchiveWhole
  <2>7. CASE w = v /\ (GetJob(v) \/ Dump(v))
    <3>1. wpc'[v] \in {"gone", "open", "idle"}  BY <2>7 DEF GetJob, Dump, WGoto, Typed
    <3> QED  BY <2>7, <3>1
  <2> QED  BY <2>1, <2>2, <2>3, <2>4, <2>5, <2>6, <2>7 DEF Work
<1>14. \A t \in Threads : pc'[t] = "download" /\ JobOf(t)' = j => Whole(d)'
  BY <1>2, <1>8 DEF ArchiveWhole
<1> QED  BY <1>10, <1>11, <1>12, <1>13, <1>14 DEF ArchiveWhole

LEMMA ResponsesThread ==
  ASSUME Typed, Shaped, Turns, ResponsesWhole, load' = load, NEW t \in Threads, Serve(t)
  PROVE  ResponsesWhole'
<1>1. response' = response /\ Jobs' = Jobs /\ \A u \in Threads : AloneWithJobs(u)' <=> AloneWithJobs(u)
  BY OtherThreads, SameLoad DEF AloneWithJobs
<1>2. \A w \in Workers : wpc[w] \in {"dump_ok", "dump_failed"} => wpc'[w] = wpc[w] /\ wjob' = wjob
  BY ThreadLeavesWork DEF Working
<1>3. ASSUME NEW u \in Threads, HasResult(u)' PROVE HasResult(u) /\ JobOf(u)' = JobOf(u)
  <2>1. CASE u # t
    <3>1. pc'[u] = pc[u] /\ JobOf(u)' = JobOf(u)  BY <2>1, OtherThreads
    <3>2. results'[Home(u)] # <<>> => results[Home(u)] # <<>> \/ pc[u] # "wait"
      <4>1. CASE Collect(t)
        <5>1. pc[u] = "wait" => Home(u) # Home(t)
          BY <2>1, <4>1 DEF Collect, Turns, ThreadTurn, Engaged
        <5> QED  BY <4>1, <5>1, HomeType DEF Collect, Typed
      <4>2. CASE ~ Collect(t)
        <5>1. results' = results
          BY <4>2 DEF Serve, Checkout, Archive, Build, Lookup, Submit, Dispatch, Join, Start, Respond,
                 Download, process
        <5> QED  BY <5>1
      <4> QED  BY <4>1, <4>2
    <3> QED  BY <1>3, <3>1, <3>2 DEF HasResult, Home
  <2>2. CASE u = t
    <3>1. Collect(t) \/ Dispatch(t) \/ Start(t)
      BY <1>3, <2>2 DEF HasResult, Typed, Serve, Checkout, Archive, Build, Lookup, Submit, Dispatch, Join,
             Start, Collect, Respond, Download, Over, Answer, Goto
    <3>2. CASE Collect(t)
      BY <2>2, <3>2 DEF Collect, HasResult, JobOf, Asked, Job
    <3>3. CASE Dispatch(t) \/ Start(t)
      <4>1. results'[Home(t)] = <<>>
        <5>1. results' = results /\ AtRest(Home(t))
          BY <3>3, HomeType DEF Dispatch, Start, Turns, Turn, ThreadTurn, Unlocked
        <5> QED  BY <5>1 DEF AtRest
      <4>2. pc'[t] # "respond"  BY <3>3 DEF Dispatch, Start, Goto, Typed
      <4> QED  BY <1>3, <2>2, <4>1, <4>2 DEF HasResult, Home
    <3> QED  BY <3>1, <3>2, <3>3
  <2> QED  BY <2>1, <2>2
<1> QED  BY <1>1, <1>2, <1>3 DEF ResponsesWhole

LEMMA ResponsesWorker ==
  ASSUME Typed, Shaped, Turns, Attended, ResponsesWhole, load' = load, NEW v \in Workers, Work(v)
  PROVE  ResponsesWhole'
<1> DEFINE k == wjob[v]
<1>1. /\ \A w \in Workers \ {v} : wpc'[w] = wpc[w] /\ wjob'[w] = wjob[w]
      /\ pc' = pc /\ todo' = todo /\ \A t : JobOf(t)' = JobOf(t)
      /\ ~ GetJob(v) => wjob' = wjob /\ Working(v)
  BY OtherWorkers DEF Working
<1>2. ASSUME NEW j \in Jobs, response'[j] = "partial"
      PROVE  \E w \in Workers : wpc'[w] \in {"dump_ok", "dump_failed"} /\ wjob'[w] = j
  <2>1. CASE Save(v) /\ k = j
    BY <2>1 DEF Save, WGoto, Typed
  <2>2. CASE ~ (Save(v) /\ k = j)
    <3>1. response[j] = "partial" /\ ~ (Dump(v) /\ k = j)
      BY <1>2, <2>2 DEF Work, GetJob, Open, Enter, Compile, Pack, Save, Dump, files, Shaped
    <3>2. PICK w \in Workers : wpc[w] \in {"dump_ok", "dump_failed"} /\ wjob[w] = j
      BY <3>1 DEF ResponsesWhole
    <3>3. w # v
      BY <3>1, <3>2 DEF Work, GetJob, Open, Enter, Compile, Pack, Save, Dump
    <3> QED  BY <1>1, <3>2, <3>3
  <2> QED  BY <2>1, <2>2
<1>3. ASSUME NEW t \in Threads, AloneWithJobs(t), HasResult(t)'
      PROVE  response'[JobOf(t)] \in {"ok", "failed"}
  <2>1. pc[t] \in {"respond", "wait"} /\ todo[t] # <<>> /\ JobOf(t) \in Jobs
    <3>1. pc[t] \in {"respond", "wait"}  BY <1>1, <1>3 DEF HasResult
    <3>2. todo[t] # <<>>  BY <3>1 DEF Typed
    <3> QED  BY <3>1, <3>2, AskedShape
  <2>2. ASSUME NEW w \in Workers, Working(w), wjob[w] = JobOf(t)
        PROVE  pc[t] = "wait" /\ w = Worker(t) /\ results[Home(t)] = <<>>
    BY <1>3, <2>1, <2>2, WorkedForAlone
  <2>3. CASE Dump(v) /\ k = JobOf(t)
    BY <2>1, <2>3 DEF Dump, Shaped
  <2>4. CASE ~ (Dump(v) /\ k = JobOf(t)) /\ HasResult(t)
    <3>1. ~ (Working(v) /\ k = JobOf(t))  BY <2>2, <2>4 DEF HasResult
    <3>2. response'[JobOf(t)] = response[JobOf(t)]
      <4>1. response' = response \/ (Working(v) /\ \E x : response' = [response EXCEPT ![k] = x])
        BY DEF Working, Work, GetJob, Open, Enter, Compile, Pack, Save, Dump, files
      <4> QED  BY <2>1, <3>1, <4>1 DEF Shaped
    <3> QED  BY <1>3, <2>4, <3>2 DEF ResponsesWhole
  <2>5. CASE ~ (Dump(v) /\ k = JobOf(t)) /\ ~ HasResult(t)
    <3>1. pc[t] = "wait" /\ results[Home(t)] = <<>> /\ results'[Home(t)] # <<>>
      BY <1>1, <1>3, <2>5 DEF HasResult, Home
    <3>2. Open(v) \/ Dump(v)
      BY <3>1 DEF Work, GetJob, Enter, Compile, Pack, Save, process
    <3>3. PICK u \in Threads : /\ pc[u] = "wait" /\ v = Worker(u) /\ k = JobOf(u)
                               /\ busy[Home(u)] = u /\ Home(u) = v[1]
      BY <1>1, <3>2, WorkedFor DEF Open, Dump, GetJob
    <3>4. Home(t) = v[1]
      <4>1. results' = results \/ results' = [results EXCEPT ![v[1]] = Append(@, k)]
        BY <3>2 DEF Open, Dump, Finished, Report, process
      <4> QED  BY <3>1, <4>1, HomeType DEF Typed
    <3>5. u = t  BY <3>1, <3>3, <3>4 DEF Turns, ThreadTurn, Engaged
    <3>6. Open(v) /\ response[JobOf(t)] # Absent /\ response' = response
      <4>1. Open(v)  BY <2>5, <3>2, <3>3, <3>5
      <4>2. response[k] # Absent  BY <3>1, <4>1 DEF Open, process
      <4> QED  BY <3>3, <3>5, <4>1, <4>2 DEF Open
    <3>7. response[JobOf(t)] # "partial"
      <4>1. ASSUME NEW w \in Workers, wpc[w] \in {"dump_ok", "dump_failed"}, wjob[w] = JobOf(t) PROVE FALSE
        <5>1. w = Worker(t)  BY <2>2, <4>1 DEF Working
        <5> QED  BY <3>3, <3>5, <3>6, <4>1, <5>1 DEF Open
      <4> QED  BY <2>1, <4>1 DEF ResponsesWhole
    <3> QED  BY <2>1, <3>6, <3>7 DEF Shaped
  <2> QED  BY <2>3, <2>4, <2>5
<1>4. Jobs' = Jobs /\ \A t \in Threads : AloneWithJobs(t)' <=> AloneWithJobs(t)
  BY SameLoad DEF AloneWithJobs
<1> QED  BY <1>1, <1>2, <1>3, <1>4 DEF ResponsesWhole

\* What a thread is answered with.
LEMMA AnswersThread ==
  ASSUME Typed, Shaped, Turns, Attended, ArchivesWhole, ResponsesWhole,
         load' = load, NEW t \in Threads, Serve(t)
  PROVE  /\ outcome'[t] = "error" => outcome[t] = "error" \/ ~ AloneWithJobs(t)
         /\ outcome'[t] = "bad_archive" => outcome[t] = "bad_archive" \/ ~ AloneWithResults(t)
         /\ \A u \in Threads \ {t} : outcome'[u] = outcome[u]
<1>1. todo[t] # <<>> /\ JobOf(t) \in Jobs /\ JobOf(t) \in JobsOf(t)
  <2>1. todo[t] # <<>>
    BY DEF Typed, Serve, Checkout, Archive, Build, Lookup, Submit, Dispatch, Join, Start, Collect,
           Respond, Download
  <2> QED  BY <2>1, AskedShape
<1>2. ASSUME outcome'[t] = "error", outcome[t] # "error", AloneWithJobs(t) PROVE FALSE
  <2>1. \/ Lookup(t) /\ response[JobOf(t)] = "partial"
        \/ Respond(t) /\ response[JobOf(t)] \in {Absent, "partial"}
    BY <1>2 DEF Shaped, Serve, Checkout, Archive, Build, Lookup, Submit, Dispatch, Join, Start, Collect,
           Respond, Download, Over, Answer
  <2>2. CASE Lookup(t) /\ response[JobOf(t)] = "partial"
    <3>1. PICK w \in Workers : wpc[w] \in {"dump_ok", "dump_failed"} /\ wjob[w] = JobOf(t)
      BY <1>1, <2>2 DEF ResponsesWhole
    <3>2. pc[t] = "wait"  BY <1>1, <1>2, <3>1, WorkedForAlone DEF Working
    <3> QED  BY <2>2, <3>2 DEF Lookup
  <2>3. CASE Respond(t) /\ response[JobOf(t)] \in {Absent, "partial"}
    <3>1. HasResult(t)  BY <2>3 DEF Respond, HasResult
    <3> QED  BY <1>2, <2>3, <3>1 DEF ResponsesWhole, Absent
  <2> QED  BY <2>1, <2>2, <2>3
<1>3. ASSUME outcome'[t] = "bad_archive", outcome[t] # "bad_archive", AloneWithResults(t) PROVE FALSE
  <2>1. Download(t) /\ ~ Whole(Digest(JobOf(t)))
    BY <1>3 DEF Shaped, Serve, Checkout, Archive, Build, Lookup, Submit, Dispatch, Join, Start, Collect,
           Respond, Download, Over, Answer, Whole
  <2>2. Sole(JobOf(t))  BY <1>1, <1>3 DEF AloneWithResults, Sole
  <2> QED  BY <1>1, <2>1, <2>2 DEF ArchivesWhole, ArchiveWhole, Download
<1> QED  BY <1>2, <1>3, OtherThreads

AllWhole == LibrariesWhole /\ ArchivesWhole /\ ResponsesWhole /\ AnswersAreWhole

\* Without faults a client whose jobs nobody else sends is not told of an error, and
\* when they share no result with other jobs either, the archive it downloads is
\* whole (CompilationResource.post, compile_job, remote_build).
THEOREM WholeAnswers == Spec => []AnswersAreWhole
<1> DEFINE Inv == faults = 0 => AllWhole
<1>1. Init => Inv
  <2> SUFFICES ASSUME Init PROVE AllWhole  OBVIOUS
  <2>1. /\ \A w \in Workers : wpc[w] = "gone"
        /\ \A t \in Threads : pc[t] = "receive" /\ outcome[t] = "none"
        /\ \A d \in Digests : lib[d] = Absent /\ zip[d] = Absent
        /\ \A j \in Jobs : response[j] = Absent /\ Digest(j) \in Digests
    BY DEF Init, Digests
  <2>2. LibrariesWhole  BY <2>1 DEF LibrariesWhole, Absent
  <2>3. ArchivesWhole  BY <2>1 DEF ArchivesWhole, ArchiveWhole, Absent
  <2>4. ResponsesWhole  BY <2>1 DEF ResponsesWhole, HasResult, Absent
  <2>5. AnswersAreWhole  BY <2>1 DEF AnswersAreWhole
  <2> QED  BY <2>2, <2>3, <2>4, <2>5 DEF AllWhole
<1>2. /\ Typed /\ Compiling /\ Turns /\ Shaped /\ Holding /\ (faults = 0 => Attended)
      /\ Inv /\ [Next]_vars
      => Inv'
  <2> SUFFICES ASSUME Typed, Compiling, Turns, Shaped, Holding, faults = 0 => Attended,
                      Inv, [Next]_vars, faults' = 0
               PROVE  AllWhole'
    OBVIOUS
  <2>1. CASE UNCHANGED vars
    <3>1. UNCHANGED <<load, response, lib, zip, todo, pc, outcome, results, wpc, wjob, faults>>
      BY <2>1 DEF vars, files, threads, process, workers
    <3>2. AllWhole  BY <3>1
    <3>3. \A t : JobOf(t)' = JobOf(t) /\ (AloneWithJobs(t)' <=> AloneWithJobs(t))
                 /\ (AloneWithResults(t)' <=> AloneWithResults(t))
      BY <3>1, SameLoad DEF JobOf, Asked, Job, AloneWithJobs, AloneWithResults, Digest
    <3>4. LibrariesWhole'  BY <3>1, <3>2, SameLoad DEF AllWhole, LibrariesWhole, Digest
    <3>5. ArchivesWhole'
      <4>1. Jobs' = Jobs /\ (\A j : Sole(j)' <=> Sole(j))  BY <3>1, SameLoad DEF Sole, Digest
      <4>2. \A j : ArchiveWhole(j)' <=> ArchiveWhole(j)
        BY <3>1 DEF ArchiveWhole, Whole, Digest, JobOf, Asked, Job
      <4> QED  BY <3>2, <4>1, <4>2 DEF AllWhole, ArchivesWhole
    <3>6. ResponsesWhole'
      BY <3>1, <3>2, <3>3, SameLoad DEF AllWhole, ResponsesWhole, HasResult, Home
    <3>7. AnswersAreWhole'  BY <3>1, <3>2, <3>3 DEF AllWhole, AnswersAreWhole
    <3> QED  BY <3>4, <3>5, <3>6, <3>7 DEF AllWhole
  <2>2. CASE Next
    <3>1. load' = load /\ faults = 0 /\ Attended /\ AllWhole
          /\ ((\E t \in Threads : Serve(t)) \/ (\E w \in Workers : Work(w)))
      BY <2>2, CalmSteps DEF Next
    <3>2. \A t : (AloneWithJobs(t)' <=> AloneWithJobs(t)) /\ (AloneWithResults(t)' <=> AloneWithResults(t))
      BY <3>1, SameLoad DEF AloneWithJobs, AloneWithResults, Digest
    <3>3. ASSUME NEW t \in Threads, Serve(t) PROVE AllWhole'
      <4>1. AnswersAreWhole'
        BY <3>1, <3>2, <3>3, AnswersThread DEF AllWhole, AnswersAreWhole
      <4> QED
        BY <3>1, <3>3, <4>1, LibrariesThread, ArchivesThread, ResponsesThread DEF AllWhole
    <3>4. ASSUME NEW w \in Workers, Work(w) PROVE AllWhole'
      <4>1. outcome' = outcome  BY <3>4, OtherWorkers
      <4>2. AnswersAreWhole'  BY <3>1, <3>2, <4>1 DEF AllWhole, AnswersAreWhole
      <4> QED
        BY <3>1, <3>4, <4>2, LibrariesWorker, ArchivesWorker, ResponsesWorker DEF AllWhole
    <3> QED  BY <3>1, <3>3, <3>4
  <2> QED  BY <2>1, <2>2
<1>3. Inv => AnswersAreWhole  BY DEF AllWhole, AnswersAreWhole
<1> QED
  BY <1>1, <1>2, <1>3, LibraryInvariant, TurnsInvariant, ShapeInvariant, LocksHeld, WorkersAttend,
     PTL DEF Spec

=============================================================================
