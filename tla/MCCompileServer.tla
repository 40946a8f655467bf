-------------------------- MODULE MCCompileServer --------------------------
(***************************************************************************)
(* CompileServer for TLC: a process with two threads and one with a single *)
(* thread.                                                                 *)
(***************************************************************************)
EXTENDS CompileServer

CONSTANTS a, b, a1, a2, b1, c1, c2, good, bad

MCServers == {a, b}
MCThreads == {a1, a2, b1}
MCServerOf == [t \in MCThreads |-> IF t = b1 THEN b ELSE a]
MCCommits == {c1, c2}
MCModules == {good, bad}

Request(r, c, m, w) == [repo |-> r, commit |-> c, module |-> m, workload |-> w]
Loading(x, y, z)    == [t \in MCThreads |-> CASE t = a1 -> x [] t = a2 -> y [] t = b1 -> z]

First  == Request(1, c1, good, 1)   \* a job, the same from a fork of the repository,
Forked == Request(2, c1, good, 1)
Alias  == Request(1, c1, good, 2)   \* another workload with the same result,
Broken == Request(1, c1, bad, 1)    \* one that fails,
Newer  == Request(1, c2, good, 1)   \* and one of another commit

MCLoads == {Loading(<<First>>, <<Newer>>, <<First>>),
            Loading(<<First, Newer>>, <<>>, <<Alias>>),
            Loading(<<Broken>>, <<First>>, <<Broken>>),
            Loading(<<First, First>>, <<Newer>>, <<>>),
            Loading(<<First>>, <<>>, <<Forked>>)}
============================================================================
