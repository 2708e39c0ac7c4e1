-------------------------- MODULE MCTorrentBackend --------------------------
(* A pack of two episodes that share a piece, for TLC. *)
EXTENDS TorrentBackend, TLC

CONSTANTS e1, e2
\* Episode 1 is in pieces 0 and 1, episode 2 in pieces 1 to 3.
MCBegin == e1 :> 0 @@ e2 :> 1
MCEnd == e1 :> 2 @@ e2 :> 4
Sym == Permutations(Tasks)
=============================================================================
