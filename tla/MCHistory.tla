----------------------------- MODULE MCHistory -----------------------------
(* A series of two seasons with a special, and a film, for TLC. *)
EXTENDS History, TLC

CONSTANTS show, film

Pilot == <<1, 2>>
Second == <<2, 1>>
Special == <<0, 1>>
MCEpisodesOf == [t \in {show} |-> {Pilot, Second, Special}]

\* The pilot is out, the second season is announced, the special has no date.
MCReleased ==
  (<<show, Pilot>> :> 0) @@ (<<show, Second>> :> 1) @@ (<<show, Special>> :> Undated)
  @@ (<<film, TheTitle>> :> 1)

Sym == Permutations(Procs)
=============================================================================
