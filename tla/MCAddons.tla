------------------------------ MODULE MCAddons ------------------------------
(* Two configurations of one addon and another addon of the same name. *)
EXTENDS Addons, TLC

CONSTANTS u1, u2, u3, a, b, name

MCIdOf == (u1 :> a) @@ (u2 :> a) @@ (u3 :> b)
MCNameOf == [u \in {u1, u2, u3} |-> name]
MCSeeds == <<u1>>
=============================================================================
