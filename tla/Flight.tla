------------------------------- MODULE Flight -------------------------------
(***************************************************************************)
(* One fetch per key at a time, shared by everyone who asks while it is    *)
(* out (core/internal/flight/flight.go).  The catalog and the artwork      *)
(* proxy send their provider requests through such a group.                *)
(*                                                                         *)
(* Each critical section of Group.mu is one step; so is each of the rest   *)
(* of the fetch's goroutine: the fetch itself, the close of Call.done, and *)
(* the deferred wg.Done.  What fetch does is the caller's: here it returns *)
(* some answer, sooner or later.                                           *)
(***************************************************************************)
EXTENDS Integers, FiniteSets

CONSTANTS
  Keys,     \* what is fetched
  Calls,    \* every Call Go makes (a bound)
  Callers,  \* goroutines that ask
  Closers,  \* goroutines that call Close
  Answers,  \* what a fetch returns, an error included
  NoKey, NoCall, NoAnswer, ErrClosed

ASSUME FlightAssumption ==
  /\ NoKey \notin Keys /\ NoCall \notin Calls
  /\ NoAnswer \notin Answers \cup {ErrClosed} /\ ErrClosed \notin Answers

VARIABLES
  calls,     \* Group.calls
  closed,    \* Group.closed
  cancelled, \* Group.ctx is cancelled
  call,      \* the Calls, and how far the goroutine of each has come
  caller,    \* who waits on which Call, and the last answer each was given
  closer     \* how far each Close has come

vars == <<calls, closed, cancelled, call, caller, closer>>

\* "running": fetch is out; "answered": it returned; "deleted": it is out of
\* the map; "done": Call.done is closed; "finished": wg.Done.
CallStates == {"none", "running", "answered", "deleted", "done", "finished"}
Unmade == [key |-> NoKey, state |-> "none", val |-> NoAnswer]

TypeOK ==
  /\ calls \in [Keys -> Calls \cup {NoCall}]
  /\ closed \in BOOLEAN
  /\ cancelled \in BOOLEAN
  /\ call \in [Calls -> [key : Keys \cup {NoKey}, state : CallStates,
                         val : Answers \cup {NoAnswer, ErrClosed}]]
  /\ caller \in [Callers -> [call : Calls \cup {NoCall},
                             val : Answers \cup {NoAnswer, ErrClosed}]]
  /\ closer \in [Closers -> {"no", "closed", "waiting", "returned"}]

Init ==
  /\ calls = [k \in Keys |-> NoCall]
  /\ closed = FALSE
  /\ cancelled = FALSE
  /\ call = [c \in Calls |-> Unmade]
  /\ caller = [p \in Callers |-> [call |-> NoCall, val |-> NoAnswer]]
  /\ closer = [q \in Closers |-> "no"]

\* What wg counts: a goroutine that has not ended.
Out(c) == call[c].state \in {"running", "answered", "deleted", "done"}

-----------------------------------------------------------------------------
WaitOn(p, c) == caller' = [caller EXCEPT ![p] = [call |-> c, val |-> NoAnswer]]

\* Go joins the fetch in flight under the key.
Join(p, k) ==
  /\ caller[p].call = NoCall
  /\ calls[k] # NoCall
  /\ WaitOn(p, calls[k])
  /\ UNCHANGED <<calls, closed, cancelled, call, closer>>

\* Mutant: Go does not look whether the group is closed.
FetchClosed(p, k, c) ==
  /\ caller[p].call = NoCall
  /\ calls[k] = NoCall
  /\ call[c] = Unmade
  /\ call' = [call EXCEPT ![c] = [key |-> k, state |-> "running", val |-> NoAnswer]]
  /\ calls' = [calls EXCEPT ![k] = c]
  /\ WaitOn(p, c)
  /\ UNCHANGED <<closed, cancelled, closer>>

\* Mutant: a fetch is started and not kept in the map.
FetchUnkept(p, k, c) ==
  /\ caller[p].call = NoCall
  /\ calls[k] = NoCall
  /\ call[c] = Unmade
  /\ ~closed
  /\ call' = [call EXCEPT ![c] = [key |-> k, state |-> "running", val |-> NoAnswer]]
  /\ WaitOn(p, c)
  /\ UNCHANGED <<calls, closed, cancelled, closer>>

\* Go starts a fetch, there being none.
Fetch(p, k, c) ==
  /\ caller[p].call = NoCall
  /\ calls[k] = NoCall
  /\ call[c] = Unmade
  /\ ~closed
  /\ call' = [call EXCEPT ![c] = [key |-> k, state |-> "running", val |-> NoAnswer]]
  /\ calls' = [calls EXCEPT ![k] = c]
  /\ WaitOn(p, c)
  /\ UNCHANGED <<closed, cancelled, closer>>

\* Go of a closed group: a Call that is done, with ErrClosed, and no goroutine.
Refuse(p, k, c) ==
  /\ caller[p].call = NoCall
  /\ calls[k] = NoCall
  /\ call[c] = Unmade
  /\ closed
  /\ call' = [call EXCEPT ![c] = [key |-> k, state |-> "finished", val |-> ErrClosed]]
  /\ WaitOn(p, c)
  /\ UNCHANGED <<calls, closed, cancelled, closer>>

\* The fetch returns; one whose context is cancelled may have an answer all
\* the same.
Answer(c, v) ==
  /\ call[c].state = "running"
  /\ call' = [call EXCEPT ![c] = [key |-> @.key, state |-> "answered", val |-> v]]
  /\ UNCHANGED <<calls, closed, cancelled, caller, closer>>

Delete(c) ==
  /\ call[c].state = "answered"
  /\ calls' = [calls EXCEPT ![call[c].key] = NoCall]
  /\ call' = [call EXCEPT ![c].state = "deleted"]
  /\ UNCHANGED <<closed, cancelled, caller, closer>>

Done(c) ==
  /\ call[c].state = "deleted"
  /\ call' = [call EXCEPT ![c].state = "done"]
  /\ UNCHANGED <<calls, closed, cancelled, caller, closer>>

\* Mutant: the goroutine of a cancelled fetch ends without wg.Done.
FinishUncancelled(c) ==
  /\ call[c].state = "done" /\ ~cancelled
  /\ call' = [call EXCEPT ![c].state = "finished"]
  /\ UNCHANGED <<calls, closed, cancelled, caller, closer>>

Finish(c) ==
  /\ call[c].state = "done"
  /\ call' = [call EXCEPT ![c].state = "finished"]
  /\ UNCHANGED <<calls, closed, cancelled, caller, closer>>

\* Wait returns the answer once Call.done is closed ...
Return(p) ==
  LET c == caller[p].call IN
  /\ c # NoCall
  /\ call[c].state \in {"done", "finished"}
  /\ caller' = [caller EXCEPT ![p] = [call |-> NoCall, val |-> call[c].val]]
  /\ UNCHANGED <<calls, closed, cancelled, call, closer>>

\* Mutant: a caller that stops waiting takes the fetch out of the map.
LeaveCancels(p) ==
  /\ caller[p].call # NoCall
  /\ caller' = [caller EXCEPT ![p] = [call |-> NoCall, val |-> NoAnswer]]
  /\ calls' = [k \in Keys |-> IF calls[k] = caller[p].call THEN NoCall ELSE calls[k]]
  /\ UNCHANGED <<closed, cancelled, call, closer>>

\* ... or the caller's context ends first, and the fetch carries on.  A caller
\* that never waits, Cached and a stale page, leaves at once.
Leave(p) ==
  /\ caller[p].call # NoCall
  /\ caller' = [caller EXCEPT ![p] = [call |-> NoCall, val |-> NoAnswer]]
  /\ UNCHANGED <<calls, closed, cancelled, call, closer>>

-----------------------------------------------------------------------------
\* Close refuses new fetches, cancels those in flight, and waits for them.
Close(q) ==
  /\ closer[q] = "no"
  /\ closed' = TRUE
  /\ closer' = [closer EXCEPT ![q] = "closed"]
  /\ UNCHANGED <<calls, cancelled, call, caller>>

Cancel(q) ==
  /\ closer[q] = "closed"
  /\ cancelled' = TRUE
  /\ closer' = [closer EXCEPT ![q] = "waiting"]
  /\ UNCHANGED <<calls, closed, call, caller>>

CloseReturns(q) ==
  /\ closer[q] = "waiting"
  /\ \A c \in Calls : ~Out(c)
  /\ closer' = [closer EXCEPT ![q] = "returned"]
  /\ UNCHANGED <<calls, closed, cancelled, call, caller>>

-----------------------------------------------------------------------------
GoroutineStep(c) == (\E v \in Answers : Answer(c, v)) \/ Delete(c) \/ Done(c) \/ Finish(c)
CloserStep(q) == Cancel(q) \/ CloseReturns(q)

Next ==
  \/ \E p \in Callers, k \in Keys : Join(p, k) \/ \E c \in Calls : Fetch(p, k, c) \/ Refuse(p, k, c)
  \/ \E p \in Callers : Return(p) \/ Leave(p)
  \/ \E c \in Calls : GoroutineStep(c)
  \/ \E q \in Closers : Close(q) \/ CloserStep(q)

Spec == Init /\ [][Next]_vars

\* The scheduler runs every goroutine; a fetch ends, since the HTTP clients
\* behind it have a timeout and it is cancelled with the group.
FairSpec ==
  /\ Spec
  /\ \A c \in Calls : WF_vars(GoroutineStep(c))
  /\ \A p \in Callers : WF_vars(Return(p))
  /\ \A q \in Closers : WF_vars(CloserStep(q))

-----------------------------------------------------------------------------
\* "runs one fetch per key at a time": no two fetches of one key are out.
OneFetch ==
  \A c, d \in Calls :
    /\ call[c].state = "running" /\ call[d].state = "running"
    /\ call[c].key = call[d].key
    => c = d

\* "Close cancels and waits for what is out so nothing writes to a store after
\* it is closed": once a Close has returned no fetch is out, nor ever will be
\* whoever asks, and the last waiters have something to wake them.
NothingAfterClose ==
  (\E q \in Closers : closer[q] = "returned") =>
    \A c \in Calls : call[c].state \in {"none", "finished"}

\* "a caller that leaves stops waiting, but the answer is still fetched": a
\* fetch that is out can be joined until it has its answer.
FetchGoesOn ==
  \A c \in Calls : call[c].state = "running" => calls[call[c].key] = c

\* Everyone who waits is answered, whoever else leaves and whenever the group
\* closes, and is answered by the fetch joined, never by nothing.
WaitersAnswered ==
  \A p \in Callers : caller[p].call # NoCall ~> caller[p].call = NoCall

\* Close returns, however many fetches are out when it is called.
CloseEnds == \A q \in Closers : closer[q] # "no" ~> closer[q] = "returned"

-----------------------------------------------------------------------------
\* What the callers of a group see of it: of a Call, whether its fetch is out,
\* and whether the map still hands out its answer.
Waiting(p) == caller[p].call # NoCall
FetchesOf(k) == {c \in Calls : call[c].state = "running" /\ call[c].key = k}

OutOf == [k \in Keys |-> Cardinality(FetchesOf(k))]
FreshKeys == {k \in Keys : calls[k] # NoCall /\ call[calls[k]].state = "answered"}
Wanted == [p \in Callers |-> IF Waiting(p) THEN call[caller[p].call].key ELSE NoKey]
IsReady == [p \in Callers |-> Waiting(p) /\ call[caller[p].call].state # "running"]
HasEnded == \E q \in Closers : closer[q] = "returned"

Shared == INSTANCE SharedFetch WITH
  out <- OutOf, fresh <- FreshKeys, want <- Wanted, ready <- IsReady, shut <- closed, ended <- HasEnded

\* "runs one fetch per key at a time, shared by everyone who asks while it is
\* out": the group implements SharedFetch, its promises of an answer included.
SharesFetches == Shared!FairSpec
=============================================================================
