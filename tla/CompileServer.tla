---------------------------- MODULE CompileServer ----------------------------
(***************************************************************************)
(* The compile server (apps/compile_server/resources): gunicorn processes  *)
(* whose threads answer requests, the worker processes that compile for    *)
(* them, one for each commit of hidet, and the files all of them share: the *)
(* commits that were checked out and built, the jobs and their responses,  *)
(* and the results, a library and its archive, which the client downloads  *)
(* (hidet/apps/compile_server/compilation.py).                             *)
(*                                                                         *)
(* A job is a commit and a workload; its result depends on the commit and  *)
(* on the module in the workload, so that two jobs may share it.  A file   *)
(* that is opened and then written can be seen half written in between.    *)
(***************************************************************************)
EXTENDS Integers, Sequences, FiniteSets, SequencesExt

CONSTANTS Servers,      \* the gunicorn processes
          Threads,      \* the threads that answer requests
          ServerOf,     \* the process of each thread
          Commits, Modules,
          Failing,      \* the modules that do not compile
          Stop,         \* the message that ends a worker
          Nobody,
          Loads,        \* what the clients send: a sequence of requests per thread
          MaxWorkers,   \* CompilationWorkers.max_workers
          MaxFaults     \* bound: processes killed and commits that fail to build

ASSUME CompileServerAssumption ==
  /\ ServerOf \in [Threads -> Servers] /\ Failing \subseteq Modules
  /\ MaxWorkers \in Nat \ {0} /\ MaxFaults \in Nat

\* Bound: a process is restarted after a fault only.
Lives   == 0 .. MaxFaults
Workers == Servers \X Lives \X Commits

\* What any of the loads asks.
Asks == UNION {ToSet(l[t]) : l \in Loads, t \in Threads}

ASSUME LoadsAssumption ==
  /\ \A l \in Loads : l \in [Threads -> Seq(Asks)]
  /\ \A r \in Asks : r.commit \in Commits

ASSUME NamesAssumption == Nobody \notin Threads /\ Threads \cap Workers = {}

VARIABLES load,         \* the load that was chosen
          built,        \* commits/<commit>: "absent", "partial" or "built"
          jobs,         \* the job files
          response,     \* the response file of each job
          lib, zip,     \* results/<digest> and its archive
          locks,        \* who holds each file lock, a partial function
          todo,         \* the requests each thread has still to answer
          pc,           \* where each thread is
          outcome,      \* how its last request ended
          life,         \* how often each process was restarted
          pool,         \* CompilationWorkers.workers, in the order of insertion
          busy,         \* the thread that holds the process's lock
          results,      \* the result_queue of each process
          wpc, wjob,    \* where each worker is, and its job
          queue,        \* its job_queue
          imported,     \* the workers that have imported hidet
          faults        \* bound counter

files   == <<built, jobs, response, lib, zip, locks>>
threads == <<todo, pc, outcome>>
process == <<life, pool, busy, results>>
workers == <<wpc, wjob, queue, imported>>
vars    == <<load, files, threads, process, workers, faults>>

\* A request is the repository and the commit its version names there, the
\* module, and what else tells its workload from others.
Job(r)    == [commit |-> r.commit, module |-> r.module, workload |-> r.workload]
Digest(j) == [commit |-> j.commit, module |-> j.module]

\* The message that ends a worker is none of the jobs.
ASSUME StopAssumption == \A r \in Asks : Job(r) # Stop

Requests  == UNION {ToSet(load[t]) : t \in Threads}
Jobs      == {Job(r) : r \in Requests}
Asked(t)  == Head(todo[t])
JobOf(t)  == Job(Asked(t))

\* The file locks.
Repo(t)    == [kind |-> "repo", of |-> Asked(t).repo]
Commit(t)  == [kind |-> "commit", of |-> Asked(t).commit]
JobLock(j) == [kind |-> "job", of |-> j]
Result(j)  == [kind |-> "result", of |-> Digest(j)]
Free(l)    == l \notin DOMAIN locks

Take(l, who)  == locks' = [k \in DOMAIN locks \cup {l} |-> IF k = l THEN who ELSE locks[k]]
Drop(ls)      == locks' = [k \in DOMAIN locks \ ls |-> locks[k]]
Held(holders) == {k \in DOMAIN locks : locks[k] \in holders}

Absent == "absent"

Init ==
  /\ load \in Loads
  /\ built = [c \in Commits |-> Absent]
  /\ jobs = {} /\ locks = <<>>
  /\ response = [j \in Jobs |-> Absent]
  /\ lib = [d \in {Digest(j) : j \in Jobs} |-> Absent] /\ zip = lib
  /\ todo = load
  /\ pc = [t \in Threads |-> "receive"] /\ outcome = [t \in Threads |-> "none"]
  /\ life = [s \in Servers |-> 0] /\ pool = [s \in Servers |-> <<>>]
  /\ busy = [s \in Servers |-> Nobody] /\ results = [s \in Servers |-> <<>>]
  /\ wpc = [w \in Workers |-> "gone"] /\ wjob = [w \in Workers |-> Nobody]
  /\ queue = [w \in Workers |-> <<>>]
  /\ imported = {} /\ faults = 0

Goto(t, label) == pc' = [pc EXCEPT ![t] = label]

\* The request is over, for the client.
Over(t, how) ==
  /\ outcome' = [outcome EXCEPT ![t] = how]
  /\ todo' = [todo EXCEPT ![t] = Tail(@)]
  /\ Goto(t, "receive")

-----------------------------------------------------------------------------
(* clone_github_repo                                                        *)

\* Mutant: a commit is looked for without the lock.
AnyRepo(t) == TRUE

RepoFree(t) == Free(Repo(t))

\* The directory of the commit is looked for under the lock of the repository,
\* whether or not somebody is still filling it.
Checkout(t) ==
  /\ pc[t] = "receive" /\ todo[t] # <<>> /\ RepoFree(t)
  /\ outcome' = [outcome EXCEPT ![t] = "none"]
  /\ IF built[Asked(t).commit] # Absent THEN Goto(t, "lookup") /\ UNCHANGED locks
     ELSE Goto(t, "archive") /\ Take(Repo(t), t)
  /\ UNCHANGED <<built, jobs, response, lib, zip, todo, process, workers, faults>>

Archive(t) ==
  /\ pc[t] = "archive" /\ Free(Commit(t))
  /\ Take(Commit(t), t)
  /\ built' = [built EXCEPT ![Asked(t).commit] = "partial"]
  /\ Goto(t, "build")
  /\ UNCHANGED <<jobs, response, lib, zip, todo, outcome, process, workers, faults>>

Build(t) ==
  /\ pc[t] = "build"
  /\ built' = [built EXCEPT ![Asked(t).commit] = "built"]
  /\ Drop({Repo(t), Commit(t)}) /\ Goto(t, "lookup")
  /\ UNCHANGED <<jobs, response, lib, zip, todo, outcome, process, workers, faults>>

\* cmake or make fails: status 500, and the directory stays.
BuildFails(t) ==
  /\ pc[t] = "build" /\ faults < MaxFaults
  /\ faults' = faults + 1
  /\ Drop({Repo(t), Commit(t)}) /\ Over(t, "error")
  /\ UNCHANGED <<built, jobs, response, lib, zip, process, workers>>

-----------------------------------------------------------------------------
(* CompilationResource.post                                                 *)

\* A response file that is there is read, and what cannot be read is an error.
Answer(t, r) == \/ r = "partial" /\ Over(t, "error")
                \/ r = "failed"  /\ Over(t, "failed")
                \/ r = "ok"      /\ Goto(t, "download") /\ UNCHANGED <<todo, outcome>>

Lookup(t) ==
  /\ pc[t] = "lookup"
  /\ IF response[JobOf(t)] = Absent THEN Goto(t, "submit") /\ UNCHANGED <<todo, outcome>>
     ELSE Answer(t, response[JobOf(t)])
  /\ UNCHANGED <<files, process, workers, faults>>

\* The job file is written, and read, under the lock of the job.
Submit(t) ==
  /\ pc[t] = "submit" /\ Free(JobLock(JobOf(t)))
  /\ jobs' = jobs \cup {JobOf(t)} /\ Goto(t, "dispatch")
  /\ UNCHANGED <<built, response, lib, zip, locks, todo, outcome, process, workers, faults>>

Home(t)     == ServerOf[t]
Worker(t)   == <<Home(t), life[Home(t)], Asked(t).commit>>
Send(w, m)  == queue' = [queue EXCEPT ![w] = Append(@, m)]

\* Mutant: the process's lock is not taken.
AnyTime(t) == TRUE

Unlocked(t) == busy[Home(t)] = Nobody

\* Mutant: a full pool takes another worker.
NeverFull(s) == FALSE

Full(s) == Len(pool[s]) >= MaxWorkers

\* run_and_wait_job: the worker of the commit is there, there is room for it, or
\* the worker that came last (dict.popitem) is told to stop.
Dispatch(t) ==
  LET s == Home(t)
      c == Asked(t).commit
  IN  /\ pc[t] = "dispatch" /\ Unlocked(t)
      /\ busy' = [busy EXCEPT ![s] = t]
      /\ CASE c \in ToSet(pool[s]) ->
                /\ Send(Worker(t), JobOf(t)) /\ Goto(t, "wait")
                /\ UNCHANGED <<pool, wpc>>
           [] c \notin ToSet(pool[s]) /\ Full(s) ->
                /\ Send(<<s, life[s], Last(pool[s])>>, Stop) /\ Goto(t, "join")
                /\ pool' = [pool EXCEPT ![s] = Front(@)] /\ UNCHANGED wpc
           [] OTHER -> pool' = pool /\ wpc' = wpc /\ queue' = queue /\ Goto(t, "start")
      /\ UNCHANGED <<files, todo, outcome, life, results, wjob, imported, faults>>

\* Only the worker that was told to stop is alive and not in the pool.
Join(t) ==
  LET s == Home(t)
  IN  /\ pc[t] = "join"
      /\ \A c \in Commits \ ToSet(pool[s]) : wpc[<<s, life[s], c>>] = "gone"
      /\ Goto(t, "start")
      /\ UNCHANGED <<files, todo, outcome, process, workers, faults>>

Start(t) ==
  LET s == Home(t)
      w == Worker(t)
  IN  /\ pc[t] = "start"
      /\ pool' = [pool EXCEPT ![s] = Append(@, Asked(t).commit)]
      /\ wpc' = [wpc EXCEPT ![w] = "idle"]
      /\ queue' = [queue EXCEPT ![w] = <<JobOf(t)>>]
      /\ imported' = imported \ {w}
      /\ Goto(t, "wait")
      /\ UNCHANGED <<files, todo, outcome, life, busy, results, wjob, faults>>

\* Any result ends the wait.
Collect(t) ==
  LET s == Home(t)
  IN  /\ pc[t] = "wait" /\ results[s] # <<>>
      /\ results' = [results EXCEPT ![s] = Tail(@)]
      /\ busy' = [busy EXCEPT ![s] = Nobody]
      /\ Goto(t, "respond")
      /\ UNCHANGED <<files, todo, outcome, life, pool, workers, faults>>

Respond(t) ==
  /\ pc[t] = "respond"
  /\ IF response[JobOf(t)] = Absent THEN Over(t, "error") ELSE Answer(t, response[JobOf(t)])
  /\ UNCHANGED <<files, process, workers, faults>>

\* remote_build: the client downloads the archive of the response and extracts it.
Download(t) ==
  /\ pc[t] = "download"
  /\ Over(t, IF zip[Digest(JobOf(t))] = "complete" /\ lib[Digest(JobOf(t))] = "complete"
             THEN "done" ELSE "bad_archive")
  /\ UNCHANGED <<files, process, workers, faults>>

Serve(t) ==
  \/ Checkout(t) \/ Archive(t) \/ Build(t)
  \/ Lookup(t) \/ Submit(t) \/ Dispatch(t) \/ Join(t) \/ Start(t)
  \/ Collect(t) \/ Respond(t) \/ Download(t)

-----------------------------------------------------------------------------
(* worker_process and compile_job                                           *)

WGoto(w, label) == wpc' = [wpc EXCEPT ![w] = label]

\* The result goes to the queue of the process that started the worker.
Report(w) ==
  /\ results' = IF life[w[1]] = w[2] THEN [results EXCEPT ![w[1]] = Append(@, wjob[w])]
                ELSE results
  /\ UNCHANGED <<life, pool, busy>>

GetJob(w) ==
  /\ wpc[w] = "idle" /\ queue[w] # <<>>
  /\ queue' = [queue EXCEPT ![w] = Tail(@)]
  /\ IF Head(queue[w]) = Stop THEN WGoto(w, "gone") /\ UNCHANGED wjob
     ELSE WGoto(w, "open") /\ wjob' = [wjob EXCEPT ![w] = Head(queue[w])]
  /\ UNCHANGED <<files, threads, process, imported, faults>>

Importable(w) == w \in imported \/ built[w[3]] = "built"

\* Under the lock of the job: it may have been compiled since; hidet is imported
\* in the worker's first job; and the archive is looked for without its lock.
Open(w) ==
  LET j == wjob[w]
  IN  /\ wpc[w] = "open" /\ Free(JobLock(j))
      /\ imported' = IF response[j] = Absent /\ Importable(w) THEN imported \cup {w} ELSE imported
      /\ CASE response[j] # Absent ->
                WGoto(w, "idle") /\ Report(w) /\ UNCHANGED locks
           [] response[j] = Absent /\ ~Importable(w) ->
                WGoto(w, "save_failed") /\ UNCHANGED <<locks, process>>
           [] response[j] = Absent /\ Importable(w) /\ zip[Digest(j)] # Absent ->
                WGoto(w, "save_ok") /\ UNCHANGED <<locks, process>>
           [] OTHER -> WGoto(w, "result") /\ Take(JobLock(j), w) /\ UNCHANGED process
      /\ UNCHANGED <<built, jobs, response, lib, zip, threads, wjob, queue, faults>>

\* Mutants: a library that is there is built again; a directory that is there is
\* taken for a library.
NoLibrary(d)  == TRUE
AnyLibrary(d) == FALSE

MustBuild(d) == lib[d] = Absent

\* Under the lock of the result; the archive is not looked for again.
Enter(w) ==
  LET d == Digest(wjob[w])
  IN  /\ wpc[w] = "result" /\ Free(Result(wjob[w]))
      /\ Take(Result(wjob[w]), w)
      /\ IF MustBuild(d)
         THEN lib' = [lib EXCEPT ![d] = "partial"] /\ WGoto(w, "compile") /\ UNCHANGED zip
         ELSE zip' = [zip EXCEPT ![d] = "partial"] /\ WGoto(w, "pack") /\ UNCHANGED lib
      /\ UNCHANGED <<built, jobs, response, threads, process, wjob, queue, imported, faults>>

Compile(w) ==
  LET d == Digest(wjob[w])
  IN  /\ wpc[w] = "compile"
      /\ IF d.module \in Failing
         THEN /\ lib' = [lib EXCEPT ![d] = Absent]
              /\ Drop(Held({w})) /\ WGoto(w, "save_failed") /\ UNCHANGED zip
         ELSE /\ lib' = [lib EXCEPT ![d] = "complete"] /\ zip' = [zip EXCEPT ![d] = "partial"]
              /\ WGoto(w, "pack") /\ UNCHANGED locks
      /\ UNCHANGED <<built, jobs, response, threads, process, wjob, queue, imported, faults>>

Pack(w) ==
  /\ wpc[w] = "pack"
  /\ zip' = [zip EXCEPT ![Digest(wjob[w])] = "complete"]
  /\ Drop(Held({w})) /\ WGoto(w, "save_ok")
  /\ UNCHANGED <<built, jobs, response, lib, threads, process, wjob, queue, imported, faults>>

\* save_response, when the lock of the job is free again: open the file ...
Save(w) ==
  /\ wpc[w] \in {"save_ok", "save_failed"}
  /\ response' = [response EXCEPT ![wjob[w]] = "partial"]
  /\ WGoto(w, IF wpc[w] = "save_ok" THEN "dump_ok" ELSE "dump_failed")
  /\ UNCHANGED <<built, jobs, lib, zip, locks, threads, process, wjob, queue, imported, faults>>

\* Mutant: no result is put when the job failed.
ReportSuccess(w) == IF wpc[w] = "dump_ok" THEN Report(w) ELSE UNCHANGED process

Finished(w) == Report(w)

\* ... and write it; then the worker tells its process.
Dump(w) ==
  /\ wpc[w] \in {"dump_ok", "dump_failed"}
  /\ response' = [response EXCEPT ![wjob[w]] = IF wpc[w] = "dump_ok" THEN "ok" ELSE "failed"]
  /\ WGoto(w, "idle") /\ Finished(w)
  /\ UNCHANGED <<built, jobs, lib, zip, locks, threads, wjob, queue, imported, faults>>

Work(w) == GetJob(w) \/ Open(w) \/ Enter(w) \/ Compile(w) \/ Pack(w) \/ Save(w) \/ Dump(w)

-----------------------------------------------------------------------------
(* Faults.                                                                  *)

\* A worker is killed; the system releases its locks.  Its process does not notice.
KillWorker(w) ==
  /\ wpc[w] \notin {"idle", "gone"} /\ faults < MaxFaults
  /\ faults' = faults + 1
  /\ WGoto(w, "gone") /\ Drop(Held({w}))
  /\ UNCHANGED <<built, jobs, response, lib, zip, threads, process, wjob, queue, imported>>

\* gunicorn kills a process and starts it again; its requests are dropped, and its
\* workers go on without it.
Restart(s) ==
  LET mine == {t \in Threads : ServerOf[t] = s}
      hit  == {t \in mine : pc[t] # "receive"}
  IN  /\ life[s] + 1 \in Lives
      /\ Drop(Held(mine))
      /\ outcome' = [t \in Threads |-> IF t \in hit THEN "dropped" ELSE outcome[t]]
      /\ todo' = [t \in Threads |-> IF t \in hit THEN Tail(todo[t]) ELSE todo[t]]
      /\ pc' = [t \in Threads |-> IF t \in hit THEN "receive" ELSE pc[t]]
      /\ life' = [life EXCEPT ![s] = @ + 1]
      /\ pool' = [pool EXCEPT ![s] = <<>>] /\ results' = [results EXCEPT ![s] = <<>>]
      /\ busy' = [busy EXCEPT ![s] = Nobody]
      /\ UNCHANGED <<built, jobs, response, lib, zip, workers>>

KillServer(s) == /\ faults < MaxFaults /\ faults' = faults + 1
                 /\ Restart(s)

\* A request waits for a worker that is gone.
Stuck(s) == \E t \in Threads : /\ Home(t) = s /\ pc[t] = "wait" /\ results[s] = <<>>
                               /\ wpc[Worker(t)] = "gone"

\* gunicorn's --timeout: a request may take an hour.
Timeout(s) == Stuck(s) /\ Restart(s) /\ UNCHANGED faults

-----------------------------------------------------------------------------

Next == /\ \/ \E t \in Threads : Serve(t) \/ BuildFails(t)
           \/ \E w \in Workers : Work(w) \/ KillWorker(w)
           \/ \E s \in Servers : KillServer(s) \/ Timeout(s)
        /\ UNCHANGED load

\* Threads and workers go on, file locks are polled until they are free, and
\* gunicorn's timeout comes; nobody needs to be killed.
Spec == /\ Init /\ [][Next]_vars
        /\ \A t \in Threads : WF_vars(Serve(t) /\ UNCHANGED load)
        /\ \A w \in Workers : WF_vars(Work(w) /\ UNCHANGED load)
        /\ \A s \in Servers : WF_vars(Timeout(s) /\ UNCHANGED load)

-----------------------------------------------------------------------------
(* Properties.                                                              *)

\* What a process takes from its result_queue is the result of the job it waits
\* for, although it does not look: there is never a second one (run_and_wait_job).
OwnResult == \A s \in Servers :
  results[s] # <<>> =>
    /\ Len(results[s]) = 1 /\ busy[s] # Nobody
    /\ pc[busy[s]] = "wait" /\ results[s][1] = JobOf(busy[s])

Occupied(s) == {c \in Commits : LET w == <<s, life[s], c>>
                                IN  wpc[w] # "gone" /\ (wpc[w] # "idle" \/ queue[w] # <<>>)}
Alive(s)    == {c \in Commits : wpc[<<s, life[s], c>>] # "gone"}

\* "Only one worker is compiling at the same time" in a process, and it never has
\* more workers than max_workers, those told to stop included.
OneCompiling == \A s \in Servers :
  Cardinality(Occupied(s)) <= 1 /\ Cardinality(Alive(s)) <= MaxWorkers

\* A library that was finished is not touched again, by whatever jobs, processes
\* and restarts: others zip and serve it (the locks of jobs and results).
LibraryKept == [][\A d \in DOMAIN lib : lib[d] = "complete" => lib'[d] = "complete"]_vars

OneRepository  == \A r, q \in Requests : r.commit = q.commit => r.repo = q.repo

JobsOf(t)      == {Job(r) : r \in ToSet(load[t])}
AloneWithJobs(t)    == \A u \in Threads \ {t} : JobsOf(t) \cap JobsOf(u) = {}
AloneWithResults(t) == \A j \in JobsOf(t), i \in Jobs : Digest(j) = Digest(i) => j = i

\* When nothing fails, a client whose jobs nobody else sends gets an answer that is
\* neither an error nor, when other jobs do not share its results, an archive that
\* is not whole.  (The response is written without the lock of its job, so that
\* another request may read half of it; and of two jobs with one result, the second
\* zips again an archive that the client of the first may be downloading, or
\* answers while the first still writes it.)
AnswersAreWhole == faults = 0 => \A t \in Threads :
  /\ outcome[t] = "error" => ~AloneWithJobs(t)
  /\ outcome[t] = "bad_archive" => ~AloneWithResults(t)

\* A compilation is reported as failed, which the response file keeps for ever,
\* only when the module does not compile: never because hidet was not there yet.
\* (With two repositories that share a commit, one builds it under the lock of
\* its repository while the other takes its directory for a finished one.)
FailuresAreReal == faults = 0 /\ OneRepository =>
  \A j \in Jobs : response[j] = "failed" => j.module \in Failing

\* Every request ends, answered or dropped, even when its worker is killed.
EveryoneAnswered == \A t \in Threads : <>[](todo[t] = <<>>)

=============================================================================
