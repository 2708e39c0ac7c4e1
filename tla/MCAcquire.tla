----------------------------- MODULE MCAcquire -----------------------------
(* Small instances of the download manager for TLC. *)
EXTENDS Acquire, TLC

Sym == Permutations(Tasks) \cup Permutations(Procs)
=============================================================================
