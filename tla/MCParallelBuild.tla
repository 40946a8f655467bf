-------------------------- MODULE MCParallelBuild --------------------------
(* ParallelBuild for TLC: an executor of three processes.                  *)
EXTENDS ParallelBuild

CONSTANTS w1, w2, w3, plain, tuned, served, broken, bad

MCTasks   == {plain, tuned, served, broken, bad}
MCWorkers == <<w1, w2, w3>>

Local(ok)  == [kind |-> "local", ok |-> ok]
Remote(ok) == [kind |-> "remote", ok |-> ok]
Here(ok)   == [kind |-> "here", ok |-> ok]

\* A task with one candidate, two with many, one of which compiles on the server, one
\* whose candidates do not compile, and one that fails in its own process.
MCCalls == [t \in MCTasks |-> CASE t = plain  -> <<Here(TRUE)>>
                                [] t = tuned  -> <<Local(TRUE), Local(TRUE)>>
                                [] t = served -> <<Local(TRUE), Remote(TRUE)>>
                                [] t = broken -> <<Here(TRUE), Local(FALSE)>>
                                [] t = bad    -> <<Here(FALSE)>>]

On(tasks)  == [tasks |-> tasks, parallel |-> TRUE]
Off(tasks) == [tasks |-> tasks, parallel |-> FALSE]

MCPlans == {<<On(<<broken, tuned, plain, tuned>>), On(<<tuned, served>>)>>,
            <<On(<<broken, broken, tuned, served>>), On(<<tuned>>)>>,
            <<On(<<broken>>), On(<<tuned, bad>>)>>,
            <<Off(<<bad, tuned>>), On(<<served, served, served>>)>>,
            <<Off(<<tuned, broken, plain>>), Off(<<tuned>>)>>}
============================================================================
