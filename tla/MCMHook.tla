------------------------------ MODULE MCMHook ------------------------------
(* MHook with backtraces of two frames, so that callers have callers. *)
EXTENDS MHook, TLC

TwoLevels == {<<1, 3>>, <<1, 4>>, <<2, 3>>}
OneLevel  == {<<1>>, <<2>>, <<3>>}
Symmetry  == Permutations(Threads) \cup Permutations(Ptrs)
=============================================================================
