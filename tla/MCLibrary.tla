----------------------------- MODULE MCLibrary ------------------------------
(* The library on a few copies and viewers, for TLC. *)
EXTENDS Library, TLC

CONSTANTS c1, c2, e1
\* Every download is a copy of the same episode.
MCEpisodeOf == [d \in Downloads |-> e1]
Sym == Permutations(Downloads) \cup Permutations(Devices)
=============================================================================
