--------------------------- MODULE MCNodeRuntime ---------------------------
(* An instance of NodeRuntime for TLC: a key that three executors may be   *)
(* called for at once, and one that is called for alone.                   *)
EXTENDS NodeRuntime, TLC

CONSTANTS e1, e2, e3, k1, k2, o1, o2, bad

MCExecutor == {e1, e2, e3}
MCKey == {k1, k2}
MCShared == {k1}
MCOutput == {o1, o2, bad}
MCUndeclared == {bad}

Symmetry == Permutations(MCExecutor) \cup Permutations({o1, o2})
=============================================================================
