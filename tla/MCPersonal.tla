----------------------------- MODULE MCPersonal -----------------------------
(* Two cores and one title, for TLC. *)
EXTENDS Personal, TLC

CONSTANTS v1, v2, b, accent

\* Core b is the older version: of the accent it takes v1 alone, and its table
\* may still hold the v2 a newer one left there.
MCAccepts == [c \in Cores |-> [k \in Prefs |-> IF c # b /\ k = accent THEN {v1, v2} ELSE {v1}]]
MCLeft == [c \in Cores |-> IF c = b THEN {v2} ELSE {}]

\* The file of one core is carried about in a behaviour; what a second file
\* would bring back is worked out in CoresConverge.
OneFile == Cardinality({c \in Cores : file[c] # None}) <= 1

Sym == Permutations(Queries) \cup Permutations(Words)
=============================================================================
