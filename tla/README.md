# hidet in TLA+

hidet is a deep-learning compiler. A model is imported as a *flow graph* of operators; each operator
is lowered through an intermediate representation to CUDA or C++ kernels; the kernels are built into
shared libraries that are kept in a cache on disk; and a generated *launch function* runs the graph
in a workspace that it lays out itself. Around the compiler there are a run time (memory pools,
dispatch tables, compiled graphs), a key-value store for processes that run together, and a server
that compiles for remote clients.

This directory holds TLA+ models of the parts of hidet that keep state, the TLC configurations that
check them on small instances, and TLAPS proofs about all of them: the memory planner, the launch
function, both stores, the operator cache, the memory pool, the dispatch tables, the compile server, the
parallel build, the functions that rewrite layouts, and the fast division. Paths in this file are relative
to the root of the repository; `PROJECT.json` maps every definition to the lines it models.

    tlc -workers 2 -config MCMemoryPlanner.cfg MCMemoryPlanner    # check a model
    tlapm MemoryPlannerProofs.tla                                 # check the proofs

## 1. The system

For each part: the state it keeps, its operations, whom it talks to, what is hard, and what makes it
correct.

### Memory planner (`include/hidet/runtime/memory_planner.h`): modelled and proved

A first-fit allocator of addresses of the workspace. State: `regions`, the sorted list of free
regions whose last one has no end (size -1), and `size_map`, from the addresses handed out to their
sizes, whose entries are never erased. Operations: `init`, `allocate` (round up, take the first
region that fits), `free` (merge with the neighbours), `used`. Called by the generated code of every
compiled graph only. Hard: which merge happens depends on the order of the frees; exact fit, larger
fit and the unbounded region are different paths; stale sizes. Correct: blocks never overlap, nothing
is lost, `used` bounds every block.

### Graph memory: the generated launch function (`drivers/build_graph.py`): modelled and proved

`get_workspace_size` replays the allocations of a run to find out how much workspace it needs;
`launch` makes them again inside the workspace and calls the kernels. State: for every tensor its
address variable, whether it is local, and how many uses are left (`Tensor2VarMap`), the planners of
the two devices, the measured sizes. Operations: making tensors share memory (`process_share_map`,
which first repeats until nothing changes), allocating the outputs of a node, calling it, freeing
inputs whose last use it was. Uses the planner; the buffers of outputs come from
`CompiledGraph._create_outputs`. Hard: counts that must survive the merging of variables, memory used
again inside one launch. Correct: no operand is overwritten before its last use, every output is
produced, the measured size is enough.

### File store (`distributed/store.py`, `FileStore`): modelled and proved

A key-value store of processes on one machine, kept as a log in one file under a file lock. State: the
log, the lock, each process's cache and the size it saw last, the count of clients (an entry of the
log). Operations: constructor, `set`, `get`, `wait`, `add`, `compare_set`, `delete_key`, the clean-up
at exit and in the handlers of SIGINT and SIGTERM. Hard: read-modify-write, processes killed at any
point, the last one removing the file while another joins, `get` that skips the scan, scans that raise
under the lock. Correct: calls are atomic, the count is true, the file goes with the last client, nobody is
stuck.

### TCP store and process groups (`distributed/store.py`, `TCPStore`; `distributed.py`, `group.py`): modelled in part, proved

One process serves a dictionary over TCP, a thread for each connection; the others send requests. A
reply is not tied to its request. State: the dictionary, the bytes on the way in both directions.
`init_process_group` publishes the NCCL id in the store, waits for everybody in NCCL and then shuts
the store down. Hard: late replies, threads, the shutdown. Correct: atomic calls, waits that are
true, a group that forms.

### Operator cache and build driver (`drivers/build_task.py`, `build_module.py`, `runtime/compiled_module.py`, `compiled_task.py`): modelled in part, proved

Every task has a directory with `version.txt`, `meta.json`, the library and its `func_types.pickle`.
State: those files, the directories of object files, their lock files. Operations: check the cache,
write the task's files, build each group of candidates under the lock of its directory, link, write
the types, clean up, load. Hard: several processes, of several versions, build the same task; they
are killed; checks read without the locks, and directories are removed without them, file by file.
Correct: one builder at a time, what is found is complete, a build fails only behind one that has
succeeded, and all end.

### Memory pool (`runtime/storage.py`): modelled in part, proved

A cache of device memory. State: lists of free blocks by size, `reserved_size`, the addresses the
device handed out. Operations: `malloc` (which empties the pool and collects garbage when the device
is full), `free`, `clear`; `Storage.__del__` calls `free`, also from the garbage collector. Hard: the
collector starting inside an operation, the limits. Correct: no block is lost, shared or given back
twice, `MemoryError` means that there is none.

### Dispatch tables, compiled tasks and graphs (`runtime/utils/dispatch_table.py`, `compiled_task.py`, `compiled_graph.py`): modelled in part, proved

Which of a task's kernels is the fastest for the dimensions at hand is measured and kept, in memory
and in a file per task and per graph. State: the tables in every process, the files, two locks for
each, the run-time symbol of the dynamic dimension. Operations: load, fill by measuring, pick, append
a line, run a graph by the fast or the slow path, clear. Hard: several processes measure and write;
measuring sets the symbol a call has already set; a killed process leaves half a file. Correct: the
kernel fits its input, processes agree, what was found is recorded, nobody waits for ever.

### Compile server and its client (`apps/compile_server`, `python/hidet/apps/compile_server`): modelled and proved

gunicorn processes with threads that answer requests; in each process a pool of workers, one for each
commit of hidet, to which a thread sends its job and from whose common queue it takes the result.
State: the commits that were checked out and built, the files of jobs, responses and results (a
library and its archive), the file locks; the pool, its lock, queues; what each worker has imported.
Operations: `clone_github_repo`, `CompilationResource.post`, `run_and_wait_job`, `worker_process`,
`compile_job`, the download. Hard: processes and workers that die, files looked for without their
locks, a result queue that does not say whose result it holds, two jobs with one result. Correct: a
request gets the answer of its own job, libraries are whole and stay, failures are real, every request
ends.

### Parallel build (`utils/multiprocess.py`, `drivers/build_task.py`): modelled and proved

An executor of processes builds the tasks of a graph; a task may start a pool of processes of its own
for its candidates, limited by two semaphores. State: the tasks that wait, where each process is, the
global `_job_queue` of each process, the semaphores. Operations: `parallel_imap_1stlevel`,
`parallel_imap_2ndlevel`, `build_task_batch`. Hard: a global that forked processes inherit, jobs that
raise, processes that are killed. Correct: failures have a cause, permits come back, batches end.

### Layout algebra (`ir/cute/layout.py`, `int_tuple.py`, `swizzle.py`): modelled in part, proved in part

Pure functions on layouts, lists of modes of a size and a stride, with which the compiler places the
elements of tensors in memory and registers. Hard: sizes and strides that do not divide each other,
stride 0, size 1, orders of modes; most assertions are partial. Correct: a rewritten layout is the
same function; composition, complement, inverses, division and product do what they document.

### Fast integer division (`src/hidet/runtime/int_fastdiv.cpp`, `ir/primitives/cuda/fastintdiv.py`): modelled in part, proved

The host calculates a multiplier and a shift for a divisor, and the kernel divides with them. Hard:
32-bit integers that wrap around on the way, negative numbers. Correct: it is the division of C.

### Not modelled yet (section 7 has the plan)

* **Graph cache** (`build_graph.py`, `compiled_graph.py`): the directory of a saved graph, written
  and extracted without a lock; `graph_string.txt` marks it as complete.
* **Workspaces and CUDA graphs** (`compiled_graph.py`, `cuda/graph.py`, the `context.cpp` files): who
  owns the memory that launches and replays use.
* **C++ helpers** (`symbols.cpp`, `callbacks.cpp`, `logging.cpp`): the symbols are a variable of
  `DispatchTable`, the others are registries without state that a property could be about.

### Not modelled, and why

Front ends (tables of translations), graph operators and tensors (numerical), graph transforms, the
tensor program IR with its visitors and transforms (rewriting of immutable trees: to say more than
that a tree is well formed needs the semantics of the IR), hidet script (a parser), code generator
and compiler drivers (text and external programs), wrappers of CUDA and HIP, options (a stack of
dictionaries in one process), command line, tests and benchmarks.

## 2. The modules

| module | what it is | the code |
|---|---|---|
| `Regions` | the planner's list of free regions, as operators | `memory_planner.h` |
| `MemoryPlanner` | a planner and its callers | `memory_planner.h` |
| `Allocator` | abstract: clients hold disjoint intervals | |
| `GraphMemory` | the generated functions; contains two planners | `build_graph.py`, `graph_impl.py` |
| `KeyValueStore` | abstract: a store with atomic calls | class `Store` |
| `FileStore`, `TcpStore` | its two implementations | `distributed/` |
| `OpCache` | the directory of one task and its builders | `drivers/`, `runtime/` |
| `MemoryPool` | the pool, the device and the collector | `runtime/storage.py` |
| `DispatchTable` | tables, their files and `run_async` | `runtime/` |
| `CompileServer` | processes, threads, workers and files of the server; its client | `apps/compile_server` |
| `ParallelBuild` | batches, executor, pools and semaphores | `utils/multiprocess.py`, `build_task.py` |
| `TensorLayouts`, `Swizzles` | the layout algebra, as operators | `ir/cute/` |
| `FastDivision` | host and kernel side of the division, as operators | `int_fastdiv.cpp`, `fastintdiv.py` |
| `LayoutRewriting` | two layouts, and what the functions that rewrite them promise | `ir/cute/` |
| `KernelArithmetic` | goes through inputs of these operators; what composing and inverting layouts promise | |
| `MemoryPlannerProofs`, `GraphMemoryProofs`, `FileStoreProofs`, `TcpStoreProofs`, `DispatchTableProofs`, `CompileServerProofs` | theorems about the module each is named after | |
| `BuildProofs` | theorems about `OpCache` and `ParallelBuild` | |
| `RuntimeProofs` | theorems about `MemoryPool`, `FastDivision` and `LayoutRewriting` | |
| `MC*` | instances for TLC | |

How they fit together: `GraphMemory` extends `Regions` and instantiates `MemoryPlanner` once for each
device; its property `PlannersLegal` says that the generated code makes a legal sequence of calls of
each planner, so what is proved of `MemoryPlanner` for all sizes holds inside every launch.
`GraphMemoryProofs` proves that, and instantiates `MemoryPlannerProofs` in the same way.
`MemoryPlanner` refines `Allocator`; `FileStore` and `TcpStore` both refine `KeyValueStore`. The other
modules share no state with each other: a graph's launch and its dispatch tables meet in `run_async`,
a parallel build and the server's workers both call the build driver of `OpCache`, but none reads the
others' variables. `KernelArithmetic` is no component: its state is an input of the pure operators, so
that TLC compares them with their definitions on every input, step by step. The variables are declared
where the expectations are stated: two layouts in `LayoutRewriting`, a divisor in `FastDivision`.

State and actions. A variable is named as in the code where there is one; variables marked *history*
or *bound* in their declarations exist only to state a property or to bound a run. A step is what
happens between two points where another process, a signal, the collector or a message can intervene:

* `MemoryPlanner`, `GraphMemory`: the code is sequential. A planner call is one step; in
  `GraphMemory` a step is one pass of a loop body of the generated code (a node that shares, an output,
  the call of a kernel, an input). `valid` and `place` say which tensors' values are in memory, and
  where: a kernel overwrites what was at the addresses of its outputs.
* `FileStore`: an access is reading the log and, for `add`, `compare_set` and the constructor,
  appending to it, both under the lock: two steps, between which a signal may arrive. Calls
  that only read or only append are one step. A scan that raises `KeyError` ends the process, and the
  system frees its lock, or the program catches the error and goes on (`"caught"`); after a `get` it goes
  on with the lock (`"holding"`), which `get` takes by hand and not with `with` (`store.py:182-194`): the
  lock is reentrant, so only the others wait for it. The value of a key is a number or `Empty`; encoding
  is left out, but `Entry` and `Deletion` keep what the prefixes distinguish. The two writes of one entry
  go to a buffer that is written when the file is closed, and are one step: a kill in between is not
  modelled.
* `TcpStore`: sending a request, a thread serving the next request of its connection, and reading a
  reply are steps; a connection is two sequences of tokens, and a read takes any non-empty part of
  what has arrived.
* `OpCache`: every file that is opened and then written is two steps, so that a kill leaves it partial
  (`"partial"`, or version 0). The compiler is two steps as well. So are the two looks at a file, `exists`
  and then `getsize` (`CheckModule` and `CheckSize`, `Exists` and then `SizeFails`, `SkipBuild` or
  `Compile`). The clean-up lists the directories, then each of them, and removes the object, the lock file
  and the directory one at a time, without a lock (`ListCandidates` to `Cleaned`); the lock or the source
  may then be missing for another process (`DirectoryGone`, `ObjectLost`).
* `MemoryPool`: the operations are cut wherever the collector can start and the outcome would
  differ; `Collect`, enabled at every cut, then frees any set of the garbage, to the end. `disturbed`
  records that the collector ran inside `clear`, or inside `malloc` or `free` and exceeded the limit
  there: then the code spoils the pool (section 5), and nothing is claimed.
* `CompileServer`: acquiring a file lock, opening a file, writing it, and putting into or taking from
  a queue are steps. A result is `"absent"`, `"partial"` or `"complete"`. `Restart` is gunicorn killing
  a process and starting it again: workers of the former life go on, and their results go nowhere.
* `ParallelBuild`: a step is a task taken from the queue, one call of `parallel_imap_2ndlevel` begun or
  ended. The jobs of a call are one outcome, `ok` or not, that the plan fixes.
* `KernelArithmetic`: a step appends a mode to one of the two layouts.
* `DispatchTable`: every acquisition of a lock, every look at a file and every write is a step; the
  file of a table that is rewritten whole is empty between opening and writing. A measurement may
  find any candidate the best.

The operators named in comments "Mutant: ..." are used by no specification. Each is a plausible slip
in the code, and replaces the definition below it to show that a property notices.

## 3. The runs

| run | states | what it shows |
|---|---|---|
| `planner` | 374,394 | all interleavings of the calls of four tensors |
| `graph_memory` | 532,797 | every graph of four nodes, and views of views in larger ones, are measured and launched |
| `view_freed_early` | violation | a view that two nodes read, or a view of a view, loses its memory before the last read |
| `filestore` | 79,029 | the file implements the atomic store; gets return and nobody is stuck |
| `opcache` | 478,757 | builders of one or two versions, killed or not |
| `opcache_upgrade` | violation | an upgrade runs the old library |
| `tcp_store` | 57,409 | server and two clients, with and without late reads |
| `memory_pool` | 11,729 | nothing is lost or shared, and the limits hold, with the collector anywhere |
| `dispatch` | 419,879 | tables, files and runs of a graph by two processes |
| `compile_server` | 77,193 | requests of one or several clients for jobs that differ, coincide or fail |
| `parallel_build` | 213,784 | two batches with tasks that fail, and a process that is killed |
| `kernel_arithmetic` | 61,471 | every pair of small layouts, every divisor of eight bits |

**planner** (`MCMemoryPlanner`): four tensors, alignment 2, sizes 0, 1 and 4 (nothing, a size that is
rounded up, two units), symmetric in the tensors. Four blocks are the fewest with which a freed one can
have free neighbours on both sides and a held one beyond them. The number of calls is not bounded.
`Coalesced`, `Accounted`, `LowestAddress` and the refinement `AllocatorSpec` are all also proved.

**graph_memory** (`MCGraphMemory`): all directed acyclic graphs of four nodes in which every tensor is
used, with one or two inputs per node, all choices of sizes 1 and 3 with alignment 2 (size 1 only, where
there are views), outputs beyond those nobody reads, one tensor on another device, and any nodes with one input as views (nodes that share
memory). Without views, four nodes are enough for a freed block to be taken by an output that does not
fit or fits partly. With them they are not: after a view of a view another node has to read it, and one
more has to follow, for its output to be in the workspace and to take the block. So there are also the
graphs of five nodes with two views or more, and of six nodes with three or more, whose last node gathers
what is unused and whose views are all of intermediate tensors. A launch may follow a launch without end.

Of all these the run has the graphs with `ViewsHandled`, the views with which the code's counts work:
the result of a view of an intermediate tensor is read once and has no view of its own, or it has two or
more, or the memory is that of one output; and no two outputs share memory unless it is an input's.
`OperandsIntact` is the property the design rests on, of those graphs; run `view_freed_early` has one
graph of each of the two kinds whose uses `process_share_map` counts wrong. `FitsWorkspace` connects the two
generated functions, `PlannersLegal` connects this module to the proofs, `Terminates` says that
`process_share_map` stops. `PlannersLegal`, too, holds only of graphs whose views are handled: two views of
one tensor that are each read twice free its block twice. An assumption of the module
(`ApartAreHandled`) checks that the graphs the theorems of section 6 are about are among these.
The third device of the code, `hip`, is left out: its planner is initialised, but a graph with an
intermediate tensor there is never compiled, because `get_full_addr` (`build_graph.py:495`) has bases for
`cpu` and `cuda` only and raises `KeyError`.

**filestore** (`MCFileStore`): three processes, two keys; one sets, adds, swaps and deletes, the
others read, wait and swap; a second family of programs has kills at every point, and a third, of two
processes, all signals and a key deleted twice, after which the log cannot be scanned, neither by a call
that takes the lock with `with` nor by `get`. `StoreSpec` is
the refinement, claimed of processes that are at most killed; `CountsClients` says that the count is the
number of users and that the file goes with the last, where no process is stopped.
`GetReturns` and `NobodyStuck` say that calls end and no lock is left behind, the latter for all signals
too. A program that catches the error of a `get` and lives on does leave the lock held, as long as it lives;
`NobodyStuck` excepts it by name (`"holding"`) and nothing else: the scans of the other calls that raise,
and the ends of processes that raise or are stopped, release it.

**opcache** (`MCOpCache`): two processes of one version with two object files each, or of two versions
with different groups; two kills at any point. The comments at `build_module.py:87-89` and `116-117` promise
that modules can be built in parallel and one process at a time builds one, but a process that is not
disturbed at all can fail: another one that has built the library removes the directories of the object
files without their locks, and the first then finds its lock file, its source or the object it was about
to measure gone (`FileNotFoundError`). `SomeBuildSucceeds` says what is left of the promise, without kills
and with processes that group the candidates alike: who fails does so behind a finished library, which
the next attempt loads. **opcache_upgrade**: a new version after an old one.

**tcp_store** (`MCTcpStore`): a server with two clients. Without late reads, `StoreSpec`
and `GroupForms`; with up to two of them, `WaitsAreTrue` still holds of the clients that were never
late. Three processes are the fewest of which two remote ones can race for the server's dictionary
while the server uses it itself.

**memory_pool** (`MCMemoryPool`): requests of 1, 2 and 3 bytes, blocks of 2, a limit of 4 and a device
of 8: four blocks, so that the limit and the device are both exceeded and sizes share a list or not.
Its constraint stops at states that are `disturbed`, of which no property speaks.

**dispatch** (`MCDispatchTable`): two processes, a dynamic and a static task, two candidates, split
points 1, 2 and 4 with dimensions inside, at the end of and beyond the intervals; both kinds of table;
one kill. Two processes are enough for one to meet what the other is writing or has left.

**compile_server** (`MCCompileServer`): a process with two threads, which contend for its lock, and one
with a single thread, which contends for the files; pools of one worker, so that a second commit
replaces the first; one fault: a build of a commit that fails, a worker or a process that is killed.
The loads have two clients with the same job, a job with another's result, a module that does not
compile, a second commit, and a commit that two repositories share. What holds only of some loads says
so in the property: the response is written without the lock of its job, and the archive read without
that of the result.

**parallel_build** (`MCParallelBuild`): three processes, so that a pool of two permits lets one wait;
two batches, so that the first leaves its mark on the second (a batch in the main process, whose queue
later executors inherit, included); one killed process, of the executor or of a pool. A process that is
killed may take two permits with it, because the executor ends the others.

**kernel_arithmetic** (`MCKernelArithmetic`): layouts of up to three modes, or two of up to two, of the
sizes and strides of the configuration: 1, powers of two, 3, and stride 0, with which every branch of
the functions is taken. Integers of eight bits instead of 32: all divisors but 0 with all dividends, and
the numbers wrap around as they would. `LayoutsKeepTheirFunction` and `LayoutsCompose` leave out what
the code gets wrong or leaves undefined (section 5); each exclusion is a named condition.
`LayoutsKeepTheirFunction` is also proved for all layouts, and `DividesExactly` for every width.

Deadlock is checked in `planner`, `graph_memory`, `opcache` (whose end is an action of its own) and
the pool. Where all processes simply end (`filestore`, `tcp_store`, `dispatch`, `compile_server`,
`parallel_build`, `kernel_arithmetic`) it is not; there `NobodyStuck`, `GetReturns`, `GroupForms`,
`EveryRunEnds`, `EveryoneAnswered` and `EveryBatchEnds` say who must get to the end.

## 4. Fairness

* `GraphMemory`: weak fairness of the program's own next step; it is sequential code. `Launch` is not
  fair: nobody must call it.
* `FileStore`: weak fairness of each process's step, except between the calls of a program that has caught
  an error, which need not call again. Processes are scheduled; the lock is
  polled and may be missed, so nothing is claimed that needs strong fairness: in `filestore` a
  lock is held only for the two steps of a bounded number of calls, or by a program that `NobodyStuck`
  excepts. Signals and timeouts are not fair.
* `OpCache`, `DispatchTable`: weak fairness of each process's step, for the same reason; compilers and
  measurements return. Kills are not fair.
* `TcpStore`: weak fairness of the server's threads, the clients and NCCL's meeting; late reads are
  not.
* `CompileServer`: weak fairness of every thread and worker (the file locks are polled, and held for a
  bounded number of steps) and of gunicorn's timeout, which is how a request ends whose worker was
  killed. Faults are not fair.
* `ParallelBuild`: weak fairness of the program (`StartBatch`, `EndBatch`) and of every process. A
  semaphore that is free lets somebody pass; jobs end. Kills are not fair.

## 5. What the runs found

The two runs that expect a violation show disagreements between the code and what it says of itself;
`PROJECT.json` ("findings") quotes the lines.

1. `build_graph.py:548`: merging a view with its input moves one use from the view to its input, so a view
   that is still to be read may have none left. The block of a view that two nodes read is freed after
   the first. And a view of a view loses its block before its only reader: with `t1 = f(x)`,
   `t2 = view(t1)`, `t3 = view(t2)`, `t4 = g(t3)`, `t5 = h(t4)` the counts are 2, 1 and 0, the block is
   freed at the second view, and `t4` is made in the memory of `t3`.
2. `build_module.py:262`: the skip test knows only files, so a new version keeps the old library.

Met while modelling. The properties leave these cases out by conditions that name them, or the models
do not reach them:

* `store.py:148`: `del self._cache[k]` raises when a log holds two deletions of a key, and so does every
  later scan; `get` then returns with the lock held (`store.py:182-194`), and a program that catches the
  error keeps all other processes from the store;
* `storage.py:422`: `clear` frees an address and then forgets it; when the collector runs `clear` again
  in between, the address is given back twice. (CPython before 3.12 starts the collector at any
  allocation; later versions between byte codes.)
* two outputs of a graph, one a view of the other: the second is never written (`build_graph.py:528`);
* SIGINT and SIGTERM count a process out twice (in the handler and at exit) and the file of the store
  goes too early; more processes than `world_size` raise in the constructor and are never counted out;
* a compiler that is killed leaves a partial object file that later builds take for a finished one;
  half-written types or meta data pass the cache check and fail in the load; who has built the library
  removes the directories of object files that others are at work on, without their locks
  (`build_task.py:165`), so that a process that looked for an object file, waits for the lock of a
  directory or compiles in it fails although nobody was killed; of three builders the second to finish
  removes the lock file that the third holds, and two build a module at once, which `build_module.py:116`
  excludes;
* after a late TCP reply all later replies of that connection are taken for the wrong request, a value
  may contain the bytes of a later request, and the server's own `get` does not wait;
* between `len(...) > 0` and `pop()` in `malloc` the collector may empty the list;
* a graph's table left empty by a kill raises `IndexError` in every later run of a new shape; a program
  with another dispatch option or other split points cannot load the tables of an earlier one; the
  candidates of an in-place task are measured on the caller's tensors;
* the compile server takes the worker that came last (`dict.popitem`) where the comment says the
  oldest (`compile_worker.py:130`); a response or an archive may be read while it is written; a commit
  that two repositories share is taken for built while one of them builds it, and the failure of its
  jobs is kept; the client takes a target whose name contains `arch`, such as `cpu_arch`, for one that
  has an architecture;
* the global `_job_queue` stays set when a job of a pool raises, and every later pool in that process,
  or in one forked from it, raises (`multiprocess.py:121`); a killed process keeps its permit, and a pool
  whose process is killed waits for ever;
* `build_task.py:350` pairs statuses in the order of completion with tasks in the order of submission;
* `utils/benchmark/bench.py:256` drops a candidate from the tournament by writing to `candidates[j]`, not
  to `candidates_data[j]`, which is what the other lines read;
* `get_workspace_size` writes three entries into the two of a static graph's buffer
  (`compiled_graph.py:234`);
* layouts: the postcondition of `composition` fails when modes carry into each other; `left_inverse`
  needs modes that tile, not only an injective layout (`(2,2):(1,3)`), neither of which their
  documentation asks for; the documentation of `complement` (`layout.py:427-428`) has the order
  reversed: it says `result(i) < result(i-1)`, where the result increases; `filter_lo_hi` is wrong for a
  mode that starts between the bounds and passes the upper one (`(4):(2)` for 1 and 4);
  `max_common_vector` gives 2 for `(4):(1)` and `(2,2):(0,1)`, which have one aligned element;
  `commutative` is wrong for negative shifts, and a swizzle of shift 0 recurses without end; the
  `fast_intmod` of `fastintdiv.py:63` calls the division;
* the workspace of a captured CUDA graph returns to the allocator when `run_async` returns.

## 6. What is proved

### The memory planner

`MemoryPlannerProofs` proves, for every set of tensors, every set of sizes in `Nat`
(`SizesAssumption`) and every positive alignment (`AlignmentAssumption`):

| theorem | statement |
|---|---|
| `Invariant` | `Spec => []IInv` |
| `TypeCorrect`, `CoalescedAlways` | types; the list is sorted, fully merged, and ends unbounded |
| `Disjointness` | blocks never share an address |
| `FreeListSeparate`, `NothingLost`, `AccountedAlways` | every address below the unbounded region is free or held, never both |
| `UsedBoundsBlocks` | `memory_planner_used` covers every block |
| `ReturnsToInitial` | when everything is returned the list is the initial one |
| `BlocksNeverMove` | a step changes neither the address nor the recorded size of a held block |
| `LowestAddressAlways` | a new block is put at the lowest address where it fits |
| `Refinement` | the planner implements `Allocator` |

The argument. `IInv` is `TypeOK /\ Coalesced /\ BlocksDisjoint /\ Partition`, where `Partition` says
that an address is free exactly when no tensor holds it. None of the properties is inductive alone:
`BlocksDisjoint` survives an allocation only if free addresses are held by nobody, and a free keeps
that only if blocks are disjoint (the returned addresses become free; another tensor holding one would
contradict `Partition`). `Coalesced` is needed because `GiveBack` looks at the direct neighbours of
the place where it inserts; and `NoLeak` needs `Partition` in both directions. `Coalesced` also turns
"everything is free" into "the list is the initial one" (`AllFree`).

There is one lemma for each operator: what `FirstFit`, `TakeFrom` and `GiveBack` do to the
list (still well formed) and to the set of free addresses (minus, or plus, exactly the block); they rest
on three lemmas about replacing, removing and inserting a region, and these on two about `RemoveAt` and
`InsertAt`. `StepInvariant` has one step for each action. `Refinement` maps a tensor
with a block to its interval and every other to the empty one.

### Graph memory

`GraphMemoryProofs`, for every set of graphs that are flow graphs (`GraphsAssumption`: topological
order, one producer for each tensor, `IdentityTask` for the nodes that share) and every alignment:

| theorem | statement |
|---|---|
| `PlanInvariant`, `RunInvariant` | the inductive invariants, for graphs with `ViewsApart` |
| `IntactOperands` | `Spec => [](ViewsApart(graph) => ValuesIntact /\ OperandsIntact)` |
| `LegalPlanners` | `Spec => PlannersLegal`, if `ViewsApart` holds of all graphs |
| `WorkspaceIsEnough` | `Spec => [](ViewsApart(graph) => FitsWorkspace)` |

`ViewsApart` says that the tensors of one sharing node are not those of another, that its two ends are
not both outputs of the graph (unless one is a view of a graph input) and that a view of an intermediate
tensor is read once. Every graph without views has it. It is not for the proof's convenience: without
the last part `ValuesIntact` is false (run `view_freed_early`), without the first it is false of a view
of a view (the same run), and without the second the buffer of an output is never written (section 5).
`ViewsHandled` admits more, such as several views of one tensor, or views of an output's memory; there the
invariant would have to speak of all the tensors in a variable, and they are only model-checked.

The argument has four layers.

*The shared map.* `process_share_map` keeps `ShareInv`: a node that shares was joined, its ends having
one variable and one use having moved from its output to its input (`Joined`, `Moved`), or is as it was;
and when a pass has changed nothing so far, no node behind it can act any more. The last part makes the
end of the loop mean something: the map is `Settled`.

*The counts.* `OperandsIntact` needs that a block is freed after the last read of every tensor in its
variable. `Counted` compares a count with the reads to come (`Left`): equal if the tensor is alone in
its variable; of two tensors in one variable, the input's count is larger than its reads by the use that
was moved, and the output's is never positive. So a count that is 1 when a tensor is read
belongs to the last read of a tensor alone in its variable (`LastUseIsLast`), and every tensor that was
made and is still needed keeps its block (`BusyAllocated`). It also follows that the block of an
intermediate tensor with a view is never freed in a launch, which costs memory and nothing else.

*The planner.* `CpuP` and `CudaP` are instances of `MemoryPlannerProofs`. Each step is described as what
it does on a device (`DevGrow`, `DevShrink`, `DevReset`), which is a step of the planner; the planner's
own invariant then says that held blocks are disjoint. With `Blocks` (a held block is as large as its
tensor, padding included) two tensors in use do not overlap (`BlocksApart`, `NotOverwritten`), and
`Values` (what was made and is needed is intact, and where `Addr` says) survives every kernel.

*The workspace.* `FitsWorkspace` compares two runs, and no relation between the variables of one
state says it. But what a generated function does with its variables depends on the graph alone: `Cur`
collects them, `Succ` is its next value, and every step of either function takes `Cur` to
`Succ(graph, Cur)` (`StepReplays`; the addresses of blocks that are not held are masked, since `launch`
starts with those the measurement left). `Replay` says that there is a set of such states that contains
the first one, is closed under `Succ` but at its end, and whose used memory was recorded in `workspace`;
the measurement adds to it, and a launch moves inside it.

### The file store

`FileStoreProofs`, for any finite set of processes, any keys other than the one of the count
(`FileStoreAssumption`) and any plans of calls whose values are numbers (`PlansAssumption`; a number
stands for a value that is not `b''`):

| theorem | statement |
|---|---|
| `StoreInvariant` | `TidyPlans` implies `Spec => []IInv` |
| `ClientsAreCounted` | `TidyPlans` and `Room` imply `Spec => []CountsClients` |
| `Refinement` | `TidyPlans` implies `Spec => StoreSpec`: the log in a file is a `KeyValueStore` |

The hypotheses are what the code needs. `TidyPlans`: in plans with no other signal than SIGKILL, a key
is deleted by one process at most, and each time after that process has set it again. A deletion of a
key that is not there is appended all the same, and every later scan raises `KeyError` (`del
self._cache[k]`), in the clean-up too; the third family of plans of the run `filestore` does that. The
module of the run evaluates the hypothesis for its plans (`PromisedPlansAreTidy`). `Room`: the world
size, if there is one, is not below the number of processes. One that comes after it is refused, but
only when it was counted, and it never takes itself off the count.

The argument. The contents are what `Update` finds in the log, a function of the whole log. The lemma
everything rests on is `UpdateAppend`: what is found after an entry is appended is what was found
before, with that entry applied (`Apply`); it holds since two scans agree as far as they read the same
entries (`ScansAgree`, by the least position at which they would not). So a process that holds the
lock between its scan and its write (`Locked`, `AtHand`) writes on what it has read (`Cached`), which is
why `add` and `compare_set` are atomic.

That no scan fails needs the counting. A key that a process has set, and is to delete, stays until then
(`Deletable`), unless the file is removed; so the file may go only when no such process is left, which
is what `Counting` says: the number in the log is that of the processes that joined and did not leave,
of which those that use the store are a part. A killed process stays counted, so that after a kill the
file never goes too early, at the price of not going at all. `Readable`, `Counting` and `Deletable`
are needed for each other. Every step is then shown to be, on the abstract store, a join, a leave, a
call or nothing (`Effect`), from which both the step of the invariant (`CountStep`, `DeletableStep`) and
that of the refinement (`StepMapped`) follow. `CountsClients` needs `Present` besides: when no process
is stopped, all that are counted are at work, and there is no file without them.

### The operator cache

`BuildProofs`, for any processes, versions, groups and kills (`OpCacheAssumption`; `Nobody` is no
process):

| theorem | statement |
|---|---|
| `Inductive` | `Spec => []IInv` |
| `OneLibraryBuilder` | two processes are never inside the library's directory, and a lock's holder is inside |
| `LibraryFinished` | `FoundIsComplete`: what passes for a finished library is one |
| `LibraryUntouched` | `LibraryStays`: a finished library is not written again |
| `OneBuilderOfTwo` | `AtMostTwo /\ Spec => []OneBuilder`: one process at a time builds any module |
| `UndisturbedInductive` | `Spec => []UndisturbedInv`: until a library is finished, nobody fails who is not disturbed |
| `FailuresLeaveLibrary` | `Spec => []SomeBuildSucceeds`: a process fails only behind a finished library |

`Guarded` says that a lock is held by somebody inside its directory, and who is inside the
library's holds its lock; `Ordered`, that its builder writes the types after the library; `Written`, that
types imply a library. `FoundIsComplete` alone is not inductive: a builder could overwrite a library
whose types another wrote, were it not for the lock (`Guarded`) and the order (`Ordered`).

`OneBuilderOfTwo` is about at most two processes, because the code needs that: of three, the
clean-up of the second removes the lock files that the third holds (section 5). With two, only one can
clean while the other builds, and who cleans builds nothing any more; so a process inside a module holds
its lock, or is the only one that still builds (`Locked`), as long as nobody is killed.

`FailuresLeaveLibrary` is about any number of processes, without kills and all alike. Its invariant
(`Undisturbed`) says what holds until the types are complete: nobody cleans, and nobody has failed; every
object file behind a process is whole (`Objects`), an object file half there has its compiler at work, and
one that is whole was made by somebody who groups the candidates alike, so that who finds it may link it.
The types are complete before the first of them cleans (`Way`), and stay so, whatever the clean-up then
does to the others (`CompleteStays`). Nothing is said of object files after a kill, nor of processes that
differ: a compiler that is killed leaves a partial file, and the next one takes it for a finished one.

### The TCP store

`TcpStoreProofs`, for any clients, plans and numbers of reads that give up (`PlansAssumption`: plans are
sequences of calls with numbers as values; `TcpStoreAssumption`: the server is a client, and
`worker_count` is no key of theirs):

| theorem | statement |
|---|---|
| `Inductive` | `Spec => []IInv` |
| `WaitsTrue` | `WaitsAreTrue`: a wait or a get of a client that never gave up returned when its key was there |
| `ExactExchange` | `Orderly` implies `Spec => [](IInv /\ Exactly)`: what is on each connection, to the byte |
| `Refinement` | `Orderly` implies `Spec => StoreSpec`: the server and its clients are a `KeyValueStore` |

Nothing in a reply says which request it answers, so `WaitsAreTrue` needs `Exchange`: of a client that
never gave up, there is on its connection exactly its one request or the one reply to it, and nothing
when it waits for none. `Meaning` adds what a reply says: the request under way is a `CHECK` of the key
of the call, a `READY` under way means that the key is there, and so does being past it. Both survive
the steps of the others because nobody touches another's connection and no step empties a key
(`Keeps`; `TCPStore` has no `delete_key`). The proof has one lemma for the steps of a client
(`StepPolite`), one for the thread that serves it (`ServePolite`), and one for what everybody else does
(`Undisturbed`).

`Refinement` is about plans in which no read gives up. A call is made on the abstract store when the
thread of its connection carries it out (or the server itself, in one step), although its client has
not read the reply: `CarriedOut` counts such a reply as an answer already. That this mapping is right
needs more than `Exchange`: which request, with which key and value, or which reply is on the way at
each point of a client's code (`Exact`). Every step is then shown to be, on the abstract store, a join,
a call or nothing (`Effect`), with one lemma for each step of a client and each request a thread serves;
reading a reply is nothing, since the answer read is the one that `CarriedOut` counted.

`Orderly` is what the code needs for it, and the module of the run evaluates it for its plans
(`PlansAreOrderly`). All processes meet before the first shuts the store down: without that, a client
whose connection is closed under it while it waits for the acknowledgement of a `set` takes the missing
byte for it and returns from a call that was never made. And the server does not get: its own `get` is
a look-up that waits for nothing and returns `b''` for a key that is not there, which no
client does.

### The dispatch tables

`DispatchTableProofs`, for any processes, tasks (at least one, `TasksAssumption`), candidates, split
points (two or more, increasing, from 1 on: `SplitsAssumption`; the options require it), calls and
kills (`PlansAssumption`: dimensions are positive; `NobodyAssumption`: nobody is no process):

| theorem | statement |
|---|---|
| `Inductive` | `Spec => []IInv` |
| `WritersExclude` | `OneWriter`: two processes never write one file at the same time |
| `FailsOnTorn` | `FailsOnTornOnly`: who fails has met a file that a kill left empty |
| `DataInvariant` | `Spec => []Fit` |
| `KernelsAlwaysFit` | `KernelsFit`: what was launched was measured for its inputs, and runs with their dimension |
| `KernelsAgree` | `Agreement`: one kernel of an interval task for one interval, in all processes |
| `RecordsInvariant` | `Spec => [](Fit /\ Records)` |
| `EveryRunRecorded` | `RunsAreRecorded`: what a run that returned has used is in the files |

Three layers, each on the one before. *The files* (`IInv`). `FailsOnTornOnly` needs `Whole`: a file
without its first part has a writer that holds its lock, or somebody was killed. That needs `Held` (the
lock of a file is held by exactly the process that writes it) and `Seen` (who reads or appends has seen
the file, and nobody removes it, although existence is asked without the lock). The steps fall into five
kinds (`Kinds`): without a lock, taking one, writing the first part, finishing, and stopping.

*The contents* (`Fit`). Everything that says which candidate is the best says so truly (`Right`): the
lines of every file, of every table in memory, what was picked so far, and what was launched. Of an
interval task "truly" includes that its file has the same candidate for the interval, which is what
makes processes agree: such a file is written once, because it is measured under its `t_lock` by who
found no file there (`Alone`), and a file with its first part never changes (`IntervalFilesStay`). The
symbol has the dimension of the call although measuring sets it, because with intervals the tables are
filled before the first call, never in one (`Phase`; `NeverMissing`: a table of intervals has a candidate
for every dimension, so a call never measures). That the interval that `Cell` names is the first that
covers a dimension, in the file, in the picks and in the rows that the graph's table has for every
integer, rests on `SplitsIncrease` and `PartOf`, which take the least counterexample (`LeastOf`).

*The runs* (`Records`). A run that takes the fast path writes nothing, so `RunsAreRecorded` needs to know
that what a process has in memory is in the files: of its tasks (`TasksKept`) but for the line that it is
about to add, and of the graph (`MemoryKept`); and that what the graph's file has, the files of the tasks
have (`GraphKept`), since another process reads the graph's file without looking at theirs again. This
holds because the line of a task is written before its kernel is launched, and that of the graph after
those of all tasks (`PicksKept`), and because a file of points only grows (`FileKeys`).

### The compile server

`CompileServerProofs`, for any processes, threads, commits, loads, pool sizes and numbers of faults
(`LoadsAssumption`: loads are sequences of requests for known commits; `NamesAssumption`: threads and
workers differ; `StopAssumption`: the message that ends a worker is no job):

| theorem | statement |
|---|---|
| `LibraryInvariant` | who compiles or packs a result holds its lock |
| `LibrariesKept` | `LibraryKept` |
| `TurnsInvariant` | in each process one thread is engaged with the workers, and all but its worker rest |
| `ResultsAreOwn` | `OwnResult`: the result in the queue is that of the job its process waits for |
| `OneJobCompiled` | `OneCompiling`: one worker at work, no more alive than allowed |
| `LocksHeld` | who holds the locks of jobs and repositories, whatever is killed |
| `WorkersAttend` | without faults every worker of a pool is alive and whoever waits has one |
| `OnlyRealFailures` | `FailuresAreReal`: without faults a job fails only for its module |
| `WholeAnswers` | `AnswersAreWhole`: without faults, a client alone gets no error and a whole archive |

`OwnResult` needs `Turns`, which follows a request through its turn: while its thread sends the job, no
worker of this life of the process works and the result queue is empty; then exactly one of the job in
the worker's queue, the worker at work on it, and the result in the queue is the case. Workers of former
lives do not matter because their results go nowhere, and those of lives to come because they are unborn
(`gone`, and never sent a job). A worker that was killed leaves its thread waiting with the process's
lock, so nobody else can take a wrong result either. `OneCompiling` follows: who is not at rest is the
one worker, and who is alive is in the pool or was told to stop.

`FailuresAreReal` and `AnswersAreWhole` speak of runs without faults, and are proved as
`faults = 0 => ...` from what holds always (`Holding`) and what holds until the first fault
(`Attended`). For the first, `Prepared`: a commit that a request gets past is built, because with one
repository of it the directory is looked for under the lock of whoever fills it; a worker is only sent
such commits, so `import` fails for nobody. For the second, three parts: `LibrariesWhole` (a library half
there has a compiler at work on it), `ArchivesWhole` (of a result that only one job has, an archive that
is there is whole or being packed by the worker of that job, which holds its lock from before it looked
until it is packed: so nobody packs it twice, and nobody answers before) and `ResponsesWhole` (a response
half there has its writer, who works for the one thread that waits; a client alone with its jobs is that
thread, so it looks only after the writer is done). Without `Sole`, that is with two jobs of one result,
`ArchivesWhole` is false, which is the hazard the property names.

### The parallel build

`BuildProofs`, for any tasks, batches, processes and kills (`ParallelBuild` calls its specification
`BatchSpec`):

| theorem | statement |
|---|---|
| `BatchInductive` | `BatchSpec => []BatchInv` |
| `PermitsAccounted` | `PermitsKept`: permits come back unless a process is killed, and are never exceeded |
| `FailuresHaveCauses` | `FailuresAreReal`: a task fails by its own jobs or by a pool that failed before |

`FailuresAreReal` needs `Leaks`: a queue that is set outside a pool was left by a failure in the log, of
this process in this batch or of the main process. `Teams` says who is at work: nobody between batches,
and not the main process beside its workers, so that what a fork inherits was left, not in use.
`PermitsKept` counts holders by cardinality, and needs `Pools` (who is in a pool is at a call that takes
a permit).

### The memory pool

`RuntimeProofs`, for any requests, block size, limit and capacity (`PoolAssumption`: requests and blocks
are positive), wherever the collector starts:

| theorem | statement |
|---|---|
| `Inductive` | `Spec => []IInv` |
| `LiveStayAllocated` | `LiveIsAllocated`: what the program or the collector can reach is allocated, and no two storages share an address |
| `NothingIsLost` | `NothingLost`: between calls the device holds the storages in use, the garbage and the pool, and `reserved_size` is the bytes of the pool |
| `ErrorsAreReal` | `MemoryErrorIsReal`: the device has no room beside what is in use |

`IInv` is `~ disturbed => Good`: as in the properties, nothing is claimed once the collector ran where
it may spoil a call. The heart of `Good` is `Owned`: every address of the device is that of exactly one
storage, which is in use, garbage, in the pool, or just popped by a `malloc` under way; nothing else
refers to an address of the device. Inside `clear` the pool still lists what was given back, up to a
position (`Place`), so `Owned` has that position as a parameter, and `clear` moves it one storage at a
time. `LiveIsAllocated` alone is not inductive, since a storage that the pool lists twice, or that is in
use as well, would break it only at the next `malloc`. `Counted` compares `reserved_size` with the bytes
of the pool; it is off by the storage under way (`Pending`), which the code adds or subtracts in a later
statement. `Retrying` says that after `clear` and the collection there is no garbage, which is
what makes a `MemoryError` real: all that the device holds is in use.

The collector may start between any two of these steps and free any set of the garbage in any order,
exceeding the limit or not. `Collected` is a fold of `free` over a sequence, with `clear` inside, itself a
fold over the lists; `Consistent` is what each `free` keeps of the call it interrupts.
The folds of the library are recursive functions by `CHOOSE`, which has the value one expects only if
such a function exists: that is proved by a least counterexample (`FoldExists`, `FlattenExists`), and
from it the sums (`BytesProperties`, `TotalProperties`) and the stages of a fold (`FoldStages`).

### The fast division

`RuntimeProofs`, for integers of any width from three bits on (`WidthAssumption`; the code's have 32):

| theorem | statement |
|---|---|
| `EveryDivisionIsExact` | `divisor \in Ints => DividesExactly`: the loop ends, and quotients and remainders are those of C, for every divisor but 0 and every dividend (but the smallest by -1, which has no quotient) |

The argument. *The loop* doubles a power of two and keeps its quotients and remainders by the divisor's
magnitude `ad` and by `anc`, which is the largest dividend before a multiple of `ad`. `Turned` says that
they are that after every turn, although they are calculated modulo 2^W: a sum that wraps around would
need a power that was already enough (`Enough`), and the loop would have stopped (`FirstFits`,
`SecondFits`). The condition in the code decides `Enough` by the quotients alone (`GoesOnDecides`), and
2^(2W-1) is enough (`LastEnough`), so there are at most W turns, and the multiplier is less than 2^W.
*The multiplier* m has m * ad = P + e for the power P, with e at most `ad` and so small that `anc` times
it is less than P (`Multiplier`). So m * x divided by P is x divided by `ad`, rounded down, for dividends up to
`anc` and the few beyond it (`FloorDivides`); for dividends of the other sign, rounding down gives one
less, which the kernel adds (`CeilingDivides`); the smallest integer, just beyond, is exact because P is a
multiple of it (`SurplusAtTop`). *The kernel* has m as a signed number, and adds or subtracts the dividend
when the sign is wrong (`MagicMultiplier`): the two are m times the dividend again, the upper half fits
in W bits, and two divisions are one by the product (`HighHalfFits`, `DivTwice`). With W = 2 the first
quotient wraps around, so three bits are needed.

### The layouts

`RuntimeProofs`, for layouts of any number of modes of any positive sizes and any strides from 0:

| theorem | statement |
|---|---|
| `CoalesceKeepsLayouts` | `Coalesce` gives a layout of the same size with the same offset at every index |
| `GroupKeepsLayouts` | the parts of `Group`, when its assertions hold, are the layout one after the other, and the first has the size asked for |
| `ReshapeKeepsLayouts` | `CommonReshape`, when its assertions hold, gives two layouts of one shape, each with the offsets of the layout it came from |
| `ReduceKeepsLayouts` | `FilterLoHi` leaves the part of an offset below `lo` and that above `hi`, under the conditions that `Reduced` names |
| `RewritingKeepsLayouts` | `lhs \in Layouts /\ rhs \in Layouts => LayoutsKeepTheirFunction` |

The argument. A layout is empty or another one with a mode more, so that a set with the empty layout,
closed under adding a mode, holds all layouts (`AllLayouts`, from a least length). `Offset` does not
bound the coordinate of a layout of one mode, and depends on the number of modes; `Whole` bounds every
coordinate, is the same for every index of the layout (`WholeIsOffset`), and for any index grows by one
summand with each mode (`WholeAppend`). Two layouts are the `Same` when they have one size and one
`Whole` for every index, which adding modes preserves (`SameAppend`).

A mode that starts where the one before ends makes one mode with it (`ModeInTwo`), because a coordinate
in a product of sizes is one in the first and one in the second (`TwoCoordinates`). On this rest three
functions. *coalesce* merges such modes, and leaves out those of size 1 (`MergeKeeps`). *group* keeps,
while it goes through the modes, that the two parts are `Same` as what it has read, and cuts at most one
mode in two (`CutKeeps`); the first part comes to the size that was asked for because what was counted
before divides it (`Fitting`).
*common_reshape* keeps, at every turn of the loop, that what it has put out, with what it has left of
each layout, is `Same` as that layout (`UsedKeeps`), and what it puts out has one shape (`SameShape`).

*filter_lo_hi* changes offsets. What a mode adds to an offset is split into a part below `lo`, one between
`lo` and `hi` and one above (`IsSplit`); for each of the four things that become of a mode,
`FilterModeKeeps` says that what it becomes adds the first and the third. The sums of the first parts and
of the second stay below `lo` and `hi / lo` (`NoCarry`), so the sums of the three are the split of the
offset (`SplitUnique`, `FilteredSums`). The proof showed two conditions of `InStep` to be stronger than
needed: a mode that ends at or below `lo` may start and end anywhere there, and one that starts between
the bounds need only end by `hi`.

### Only model-checked

`LayoutsCompose`: composition, complement, the inverses, division, product and common vectors, which
sort modes, choose prefixes and recurse, and the swizzles, whose bits are beyond the provers (a module
that uses `Bitwise` can have no theorem); graphs with several views of one tensor, or views of views, in
`GraphMemory`; and all liveness.
Out of the prover's reach are liveness under fairness, `ENABLED`, and the library's induction theorems,
which take an operator as a parameter. For a scan that is a function of the number of entries (`Update`),
for the folds of the memory pool and of the layouts and for the turns of the division's loop a least
counterexample does instead.

## 7. Plan

The most important behaviour first, as it was built: planner, launch function, the two stores, the
operator cache, the pool, the dispatch tables, the compile server, the parallel build, the layouts and
the division. Next:

1. *Graph cache*: two processes that save, extract and load one graph.
2. *Workspaces and CUDA graphs*: ownership of the memory of captured launches, composed with the pool.
3. *Task mappings and the layouts of atoms* (`ir/mapping.py`, `ir/cute/`): the two directions are inverse.
4. *Proofs*: `IntactOperands` for all graphs with `ViewsHandled`; composition and inverses of layouts.

An abstract specification worth adding is a *build service* (a request is answered by a complete library
of the requested version) over the operator cache and the compile server.
