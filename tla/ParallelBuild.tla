--------------------------- MODULE ParallelBuild ---------------------------
(***************************************************************************)
(* The parallel build of the tasks of a graph (build_task_batch in         *)
(* drivers/build_task.py over utils/multiprocess.py).  On the first level  *)
(* the processes of an executor, forked from the main one, build tasks     *)
(* from one queue.  On the second a task instantiates its schedules, fuses *)
(* and compiles its candidates, each time with a pool of processes of its  *)
(* own: at most two pools at once for local work and three for remote      *)
(* work, by two semaphores.  While a pool works, the global _job_queue of  *)
(* its process is set, from which the processes of the pool, that are      *)
(* forked, take their jobs.                                                *)
(***************************************************************************)
EXTENDS Integers, Sequences, FiniteSets, SequencesExt

CONSTANTS Tasks,
          Calls,      \* the calls of parallel_imap_2ndlevel a task makes: see Call
          Plans,      \* the batches a program builds, one after the other
          Workers,    \* the processes of an executor, in the order they start
          Main,
          MaxKills    \* bound: the processes that are killed

\* A call with one job or one worker runs "here", others in a pool; ok when no job raises.
Kinds == {"local", "remote"}
Call  == [kind : {"here"} \cup Kinds, ok : BOOLEAN]
Batch == [tasks : Seq(Tasks), parallel : BOOLEAN]

ASSUME ParallelBuildAssumption ==
  /\ Calls \in [Tasks -> Seq(Call)] /\ MaxKills \in Nat
  /\ \A plan \in Plans : plan \in Seq(Batch)
  /\ Workers \in Seq(ToSet(Workers)) /\ Main \notin ToSet(Workers)

Processes == ToSet(Workers) \cup {Main}

VARIABLES plan,      \* the batches to come
          batch,     \* the number of the batch, counting from 1, and its value
          waiting,   \* its tasks that nobody has taken
          doing,     \* where each process is
          queued,    \* the processes whose _job_queue is not None
          permits,   \* the two semaphores
          log,       \* the statuses of all batches, in the order they came
          ended,     \* how each batch ended
          kills      \* bound counter

batchVars == <<plan, batch, waiting, doing, queued, permits, log, ended, kills>>

Permits   == [local |-> 2, remote |-> 3]
NoProcess == [pc |-> "absent"]
Free      == [pc |-> "free"]

BatchInit == /\ plan \in Plans
             /\ batch = [no |-> 0] /\ waiting = <<>>
             /\ doing = [p \in Processes |-> NoProcess]
             /\ queued = {} /\ permits = Permits
             /\ log = <<>> /\ ended = <<>> /\ kills = 0

Running == batch.no > Len(ended)
Pooled(b) == b.parallel /\ Len(b.tasks) > 1 /\ Len(Workers) > 1
Team(b) == IF Pooled(b)
           THEN {Workers[i] : i \in 1 .. IF Len(b.tasks) < Len(Workers) THEN Len(b.tasks) ELSE Len(Workers)}
           ELSE {Main}

\* The processes of the executor are copies of the main one.
Forked(team) == {p \in team : Main \in queued}

StartBatch ==
  /\ ~Running /\ plan # <<>>
  /\ batch' = [no |-> batch.no + 1, tasks |-> Head(plan).tasks, parallel |-> Head(plan).parallel]
  /\ plan' = Tail(plan) /\ waiting' = Head(plan).tasks
  /\ LET team == Team(Head(plan))
     IN  /\ doing' = [p \in Processes |-> IF p \in team THEN Free ELSE NoProcess]
         /\ queued' = (queued \cap {Main}) \cup Forked(team)
  /\ UNCHANGED <<permits, log, ended, kills>>

\* A process takes the next task.
Take(p) ==
  /\ doing[p] = Free /\ waiting # <<>>
  /\ waiting' = Tail(waiting)
  /\ doing' = [doing EXCEPT ![p] = [pc |-> "call", task |-> Head(waiting), call |-> 1]]
  /\ UNCHANGED <<plan, batch, queued, permits, log, ended, kills>>

Current(p) == Calls[doing[p].task][doing[p].call]

\* _build_job catches the exception, and raises it again without the option: that is
\* the end of a batch in the main process.
Done(p, ok) ==
  /\ log' = Append(log, [task |-> doing[p].task, ok |-> ok, by |-> p, batch |-> batch.no])
  /\ doing' = [doing EXCEPT ![p] = Free]
  /\ waiting' = IF ok \/ batch.parallel THEN waiting ELSE <<>>

Proceed(p) ==
  /\ doing' = [doing EXCEPT ![p] = [pc |-> "call", task |-> doing[p].task, call |-> doing[p].call + 1]]
  /\ UNCHANGED <<log, waiting>>

Return(p) ==
  /\ doing[p].pc = "call" /\ doing[p].call > Len(Calls[doing[p].task])
  /\ Done(p, TRUE)
  /\ UNCHANGED <<plan, batch, queued, permits, ended, kills>>

\* The jobs of a call with one job or one worker, one after the other.
RunHere(p) ==
  /\ doing[p].pc = "call" /\ doing[p].call <= Len(Calls[doing[p].task])
  /\ Current(p).kind = "here"
  /\ IF Current(p).ok THEN Proceed(p) ELSE Done(p, FALSE)
  /\ UNCHANGED <<plan, batch, queued, permits, ended, kills>>

\* With a permit in hand, a process whose queue is set raises and returns the permit.
Enter(p) ==
  /\ doing[p].pc = "call" /\ doing[p].call <= Len(Calls[doing[p].task])
  /\ LET kind == Current(p).kind
     IN  /\ kind \in Kinds /\ permits[kind] > 0
         /\ IF p \in queued
            THEN Done(p, FALSE) /\ UNCHANGED <<queued, permits>>
            ELSE /\ doing' = [doing EXCEPT ![p].pc = "pool"]
                 /\ queued' = queued \cup {p}
                 /\ permits' = [permits EXCEPT ![kind] = @ - 1]
                 /\ UNCHANGED <<log, waiting>>
  /\ UNCHANGED <<plan, batch, ended, kills>>

\* Mutant: the queue stays set when the pool has ended.
KeepQueue(p, ok) == queued

\* Only a pool whose jobs all returned resets the queue.
ResetQueue(p, ok) == IF ok THEN queued \ {p} ELSE queued

\* Mutant: the permit is returned at the end of a pool, not when a job raised.
ReleaseAfterYield(kind, ok) == IF ok THEN [permits EXCEPT ![kind] = @ + 1] ELSE permits

ReturnPermit(kind, ok) == [permits EXCEPT ![kind] = @ + 1]

Leave(p) ==
  /\ doing[p].pc = "pool"
  /\ queued' = ResetQueue(p, Current(p).ok)
  /\ permits' = ReturnPermit(Current(p).kind, Current(p).ok)
  /\ IF Current(p).ok THEN Proceed(p) ELSE Done(p, FALSE)
  /\ UNCHANGED <<plan, batch, ended, kills>>

Failed(no) == SelectSeq(log, LAMBDA s : s.batch = no /\ ~s.ok)

\* All statuses are there, or the exception of a job has left map().
EndBatch ==
  /\ Running /\ waiting = <<>> /\ \A p \in Processes : doing[p] \in {NoProcess, Free}
  /\ ended' = Append(ended, IF Failed(batch.no) = <<>> THEN "built" ELSE "raised")
  /\ doing' = [p \in Processes |-> NoProcess]
  /\ UNCHANGED <<plan, batch, waiting, queued, permits, log, kills>>

-----------------------------------------------------------------------------
(* Processes are killed.                                                    *)

\* The executor finds a process gone: it ends the others with SIGTERM, and every
\* status that is missing raises BrokenProcessPool.  Permits that they hold are lost.
KillWorker ==
  /\ Running /\ kills < MaxKills
  /\ \E p \in ToSet(Workers) : doing[p] # NoProcess
  /\ kills' = kills + 1
  /\ doing' = [p \in Processes |-> NoProcess]
  /\ waiting' = <<>> /\ ended' = Append(ended, "broken")
  /\ UNCHANGED <<plan, batch, queued, permits, log>>

\* A process of a pool is gone: the pool starts another, but the result of the job that
\* it had never comes.
KillPoolProcess ==
  /\ kills < MaxKills
  /\ \E p \in Processes :
       /\ doing[p].pc = "pool"
       /\ doing' = [doing EXCEPT ![p].pc = "stuck"]
  /\ kills' = kills + 1
  /\ UNCHANGED <<plan, batch, waiting, queued, permits, log, ended>>

-----------------------------------------------------------------------------
ProcessStep(p) == Take(p) \/ Return(p) \/ RunHere(p) \/ Enter(p) \/ Leave(p)

BatchNext == \/ StartBatch \/ EndBatch
             \/ \E p \in Processes : ProcessStep(p)
             \/ KillWorker \/ KillPoolProcess

\* The program goes on, jobs end, and a semaphore that is free lets somebody pass.
Fairness == /\ WF_batchVars(StartBatch) /\ WF_batchVars(EndBatch)
            /\ \A p \in Processes : WF_batchVars(ProcessStep(p))

BatchSpec == BatchInit /\ [][BatchNext]_batchVars /\ Fairness

-----------------------------------------------------------------------------
(* Properties.                                                              *)

Raises(task, kinds) == \E i \in DOMAIN Calls[task] : Calls[task][i].kind \in kinds /\ ~Calls[task][i].ok
InPool(p) == doing[p].pc \in {"pool", "stuck"}
Holders(kind) == {p \in Processes : InPool(p) /\ Current(p).kind = kind}
Lost(kind) == Permits[kind] - permits[kind] - Cardinality(Holders(kind))

\* A task fails because one of its own jobs raises, or because a job of a pool raised
\* before in the same process, or in the main process before this one was forked.
FailuresAreReal == \A i \in DOMAIN log : ~log[i].ok /\ ~Raises(log[i].task, Kinds \cup {"here"}) =>
  \E j \in 1 .. i - 1 :
    /\ Raises(log[j].task, Kinds) /\ ~log[j].ok
    /\ log[j].by = Main \/ <<log[j].by, log[j].batch>> = <<log[i].by, log[i].batch>>

\* There are never more pools of a kind than permits, and however the pools ended, the
\* permits of those that did are there for the next, unless a process was killed.
PermitsKept == \A kind \in Kinds : Lost(kind) >= 0 /\ (kills = 0 => Lost(kind) = 0)

\* Every batch ends, the one whose worker is killed and those after it included, unless
\* a process of a pool was killed, or killed workers held all permits of a kind.
Stuck == \/ \E p \in Processes : doing[p].pc = "stuck"
         \/ kills > 0 /\ \E kind \in Kinds : Lost(kind) = Permits[kind]
EveryBatchEnds == <>((plan = <<>> /\ ~Running) \/ Stuck)

=============================================================================
