----------------------------- MODULE MCOpCache -----------------------------
(* OpCache for TLC: two processes of one version or of two, that make as    *)
(* many object files as each other or not.                                  *)
EXTENDS OpCache

CONSTANTS p1, p2

MCProcs == {p1, p2}

Both(x, y) == [p \in MCProcs |-> IF p = p1 THEN x ELSE y]

Alike    == [version |-> Both(1, 1), groups |-> Both(2, 2)]
Upgrade  == [version |-> Both(1, 2), groups |-> Both(1, 2)]
Plain    == [version |-> Both(1, 2), groups |-> Both(0, 0)]

MCCasts    == {Alike, Upgrade}
PlainCasts == {Plain}
============================================================================
