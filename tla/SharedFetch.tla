---------------------------- MODULE SharedFetch ----------------------------
(***************************************************************************)
(* What a flight group promises those who use it, without its calls,       *)
(* goroutines and channels: of each key at most one fetch is out, everyone *)
(* who asks meanwhile gets its answer, who leaves takes nothing from the   *)
(* others, and once closed it starts no more and ends those that are out.  *)
(* Flight.tla is the detailed specification.                               *)
(***************************************************************************)
EXTENDS Integers

CONSTANTS Keys, Callers, NoKey

VARIABLES
  out,     \* how many fetches of each key are out
  fresh,   \* keys whose answer has just come, and is still handed out
  want,    \* the key each caller waits for
  ready,   \* whether its answer is there
  shut,    \* the group is closed
  ended    \* a Close has returned

vars == <<out, fresh, want, ready, shut, ended>>

Init ==
  /\ out = [k \in Keys |-> 0] /\ fresh = {}
  /\ want = [p \in Callers |-> NoKey] /\ ready = [p \in Callers |-> FALSE]
  /\ shut = FALSE /\ ended = FALSE

Wants(p, k, r) ==
  /\ want[p] = NoKey
  /\ want' = [want EXCEPT ![p] = k] /\ ready' = [ready EXCEPT ![p] = r]
  /\ UNCHANGED <<fresh, shut, ended>>

Start(p, k) ==
  /\ out[k] = 0 /\ k \notin fresh /\ ~shut
  /\ Wants(p, k, FALSE) /\ out' = [out EXCEPT ![k] = 1]

Join(p, k) == out[k] = 1 /\ Wants(p, k, FALSE) /\ UNCHANGED out

\* The answer that has just come, or the refusal of a closed group.
Late(p, k) == out[k] = 0 /\ (k \in fresh \/ shut) /\ Wants(p, k, TRUE) /\ UNCHANGED out

\* The answer is there for exactly those who wait for this fetch.
Answer(k) ==
  /\ out[k] = 1 /\ out' = [out EXCEPT ![k] = 0]
  /\ fresh' = fresh \cup {k}
  /\ ready' = [p \in Callers |-> ready[p] \/ want[p] = k]
  /\ UNCHANGED <<want, shut, ended>>

Forget(k) == k \in fresh /\ fresh' = fresh \ {k} /\ UNCHANGED <<out, want, ready, shut, ended>>

Ends(p) ==
  /\ want' = [want EXCEPT ![p] = NoKey] /\ ready' = [ready EXCEPT ![p] = FALSE]
  /\ UNCHANGED <<out, fresh, shut, ended>>

Take(p) == want[p] # NoKey /\ ready[p] /\ Ends(p)
Leave(p) == want[p] # NoKey /\ ~ready[p] /\ Ends(p)

Close == ~shut /\ shut' = TRUE /\ UNCHANGED <<out, fresh, want, ready, ended>>

CloseReturns ==
  /\ shut /\ ~ended /\ fresh = {} /\ \A k \in Keys : out[k] = 0
  /\ ended' = TRUE /\ UNCHANGED <<out, fresh, want, ready, shut>>

Next ==
  \/ \E p \in Callers, k \in Keys : Start(p, k) \/ Join(p, k) \/ Late(p, k)
  \/ \E p \in Callers : Take(p) \/ Leave(p)
  \/ \E k \in Keys : Answer(k) \/ Forget(k)
  \/ Close \/ CloseReturns

Spec == Init /\ [][Next]_vars

\* A fetch that is out is answered in the end: only Answer ends one.
EveryFetchEnds == \A k \in Keys : []<>(out[k] = 0)

\* Whoever has an answer ready is told in the end: only Take ends such a wait.
EveryAnswerIsTaken == \A p \in Callers : []<>(~ready[p])

FairSpec == Spec /\ EveryFetchEnds /\ EveryAnswerIsTaken
=============================================================================
