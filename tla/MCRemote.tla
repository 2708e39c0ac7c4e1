------------------------------ MODULE MCRemote ------------------------------
(* One core and its media server, for TLC. *)
EXTENDS Remote, TLC

\* Where two downloads are too many for every behaviour: those in which the
\* core is linked first, and nothing of the link changes after.
LinkedFirst ==
  /\ running = NoDevice => asked = 0
  /\ running # NoDevice => linking = NotLinking /\ code = NoCode /\ saved.dev = running
  /\ Linked \/ running = NoDevice
  /\ revoking = NoDevice
=============================================================================
