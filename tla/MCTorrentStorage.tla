-------------------------- MODULE MCTorrentStorage --------------------------
(* Two files that share a piece, for TLC. *)
EXTENDS TorrentStorage, TLC

CONSTANTS f1, f2
MCFilesOf == 0 :> {f1} @@ 1 :> {f1, f2} @@ 2 :> {f2}
\* A file with no piece of its own: WantedIsNamed fails with it.
MCSmallFilesOf == 0 :> {f1} @@ 1 :> {f1, f2}
=============================================================================
