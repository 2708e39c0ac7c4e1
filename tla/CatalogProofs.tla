---------------------------- MODULE CatalogProofs ----------------------------
(***************************************************************************)
(* The group of fetches first: one fetch per key, none after Close, for    *)
(* any number of keys, callers, fetches and closers; and the group as a    *)
(* SharedFetch.                                                            *)
(*                                                                         *)
(* Then the catalogue, which keeps what the group it asks through promises *)
(* and adds its own: details as Meta gave them, an answer from what is     *)
(* kept, and no fetch that writes once Close has returned.                 *)
(***************************************************************************)
EXTENDS Catalog, FiniteSetTheorems, TLAPS

\* A fetch is in the map from its start until its goroutine takes it out.
Kept ==
  \A c \in Calls : call[c].state \in {"running", "answered"} =>
    call[c].key \in Keys /\ calls[call[c].key] = c

\* Close sets closed before anything else, and nothing sets it back.
ClosersClosed == \A q \in Closers : closer[q] # "no" => closed

IInv == TypeOK /\ Kept /\ ClosersClosed /\ NothingAfterClose

LEMMA InitInv == Init => IInv
<1> SUFFICES ASSUME Init PROVE IInv
  OBVIOUS
<1>1. \A c \in Calls : call[c] = [key |-> NoKey, state |-> "none", val |-> NoAnswer]
  BY DEF Init, Unmade
<1>2. call \in [Calls -> [key : Keys \cup {NoKey}, state : CallStates,
                         val : Answers \cup {NoAnswer, ErrClosed}]]
  BY <1>1 DEF Init, CallStates
<1>3. TypeOK
  BY <1>2 DEF Init, TypeOK
<1>4. Kept /\ NothingAfterClose
  BY <1>1 DEF Kept, NothingAfterClose
<1>5. ClosersClosed
  BY DEF Init, ClosersClosed
<1> QED BY <1>3, <1>4, <1>5 DEF IInv

LEMMA NextInv == IInv /\ [Next]_vars => IInv'
<1> SUFFICES ASSUME IInv, [Next]_vars PROVE IInv'
  OBVIOUS
<1> USE FlightAssumption DEF IInv, TypeOK, Kept, ClosersClosed, NothingAfterClose, CallStates
<1>1. ASSUME NEW p \in Callers, NEW k \in Keys, Join(p, k) PROVE IInv'
  BY <1>1 DEF Join, WaitOn
<1>2. ASSUME NEW p \in Callers, NEW k \in Keys, NEW c \in Calls, Fetch(p, k, c) PROVE IInv'
  <2>1. TypeOK' /\ ClosersClosed'
    BY <1>2 DEF Fetch, WaitOn
  <2>2. Kept'
    \* No other fetch of k can be out: it would be what calls[k] says.
    BY <1>2 DEF Fetch, WaitOn, Unmade
  <2>3. NothingAfterClose'
    \* closed is false, so no Close has begun, let alone returned.
    BY <1>2 DEF Fetch, WaitOn
  <2> QED BY <2>1, <2>2, <2>3
<1>3. ASSUME NEW p \in Callers, NEW k \in Keys, NEW c \in Calls, Refuse(p, k, c) PROVE IInv'
  BY <1>3 DEF Refuse, WaitOn, Unmade
<1>4. ASSUME NEW p \in Callers, Return(p) PROVE IInv'
  BY <1>4 DEF Return
<1>5. ASSUME NEW p \in Callers, Leave(p) PROVE IInv'
  BY <1>5 DEF Leave
<1>6. ASSUME NEW c \in Calls, NEW v \in Answers, Answer(c, v) PROVE IInv'
  <2>1. TypeOK'
    BY <1>6 DEF Answer
  <2>2. \A d \in Calls : /\ call'[d].key = call[d].key
                         /\ d # c => call'[d].state = call[d].state
    BY <1>6 DEF Answer
  <2>3. call[c].state = "running" /\ call'[c].state = "answered"
    BY <1>6 DEF Answer
  <2>4. Kept'
    BY <1>6, <2>2, <2>3 DEF Answer
  <2>5. ClosersClosed' /\ NothingAfterClose'
    BY <1>6, <2>2, <2>3 DEF Answer
  <2> QED BY <2>1, <2>4, <2>5
<1>7. ASSUME NEW c \in Calls, Delete(c) PROVE IInv'
  <2>1. call[c].key \in Keys /\ calls[call[c].key] = c
    BY <1>7 DEF Delete
  <2>2. \A d \in Calls \ {c} : call[d].state \in {"running", "answered"} => call[d].key # call[c].key
    BY <2>1
  <2>3. TypeOK' /\ ClosersClosed' /\ NothingAfterClose'
    BY <1>7 DEF Delete
  <2>4. ASSUME NEW d \in Calls, call'[d].state \in {"running", "answered"}
        PROVE  call'[d].key \in Keys /\ calls'[call'[d].key] = d
    <3>1. d # c /\ call'[d] = call[d]
      BY <1>7, <2>4 DEF Delete
    <3>2. call[d].key \in Keys /\ calls[call[d].key] = d /\ call[d].key # call[c].key
      BY <2>2, <2>4, <3>1
    <3> QED BY <1>7, <3>1, <3>2 DEF Delete
  <2> QED BY <2>3, <2>4
<1>8. ASSUME NEW c \in Calls, Done(c) PROVE IInv'
  BY <1>8 DEF Done
<1>9. ASSUME NEW c \in Calls, Finish(c) PROVE IInv'
  BY <1>9 DEF Finish
<1>10. ASSUME NEW q \in Closers, Close(q) PROVE IInv'
  BY <1>10 DEF Close
<1>11. ASSUME NEW q \in Closers, Cancel(q) PROVE IInv'
  BY <1>11 DEF Cancel
<1>12. ASSUME NEW q \in Closers, CloseReturns(q) PROVE IInv'
  BY <1>12 DEF CloseReturns, Out
<1>13. CASE UNCHANGED vars
  BY <1>13 DEF vars
<1> QED
  BY <1>1, <1>2, <1>3, <1>4, <1>5, <1>6, <1>7, <1>8, <1>9, <1>10, <1>11, <1>12, <1>13
     DEF Next, GoroutineStep, CloserStep

LEMMA Inductive == Spec => []IInv
  BY InitInv, NextInv, PTL DEF Spec

\* flight.Group runs one fetch per key at a time, however many callers ask
\* for it and whoever of them leaves.
THEOREM OneFetchPerKey == Spec => []OneFetch
<1>1. IInv => OneFetch
  BY DEF IInv, Kept, OneFetch
<1> QED BY <1>1, Inductive, PTL

\* Once Close has returned no goroutine of the group is left, so nothing
\* writes to a store closed after it.
THEOREM ClosedIsQuiet == Spec => []NothingAfterClose
<1>1. IInv => NothingAfterClose
  BY DEF IInv
<1> QED BY <1>1, Inductive, PTL

\* A fetch that is out stays where a caller can join it: leaving it only
\* stops the waiting.
THEOREM FetchIsKept == Spec => []FetchGoesOn
<1>1. IInv => FetchGoesOn
  BY DEF IInv, Kept, FetchGoesOn
<1> QED BY <1>1, Inductive, PTL

-----------------------------------------------------------------------------
(* The group implements SharedFetch, step by step.                          *)

\* What the map holds is a fetch of that key, out or with its answer just come;
\* a call that was made has a key, and nobody waits on one that was not.
MapHolds ==
  \A k \in Keys : calls[k] # NoCall =>
    call[calls[k]].key = k /\ call[calls[k]].state \in {"running", "answered"}
Made == \A c \in Calls : call[c].state # "none" => call[c].key \in Keys
WaitersHaveCalls == \A p \in Callers : Waiting(p) => call[caller[p].call].state # "none"

SInv == IInv /\ MapHolds /\ Made /\ WaitersHaveCalls

LEMMA NextSInv == SInv /\ [Next]_vars => SInv'
<1> SUFFICES ASSUME SInv, [Next]_vars PROVE SInv'
  OBVIOUS
<1> USE FlightAssumption DEF SInv, IInv, TypeOK, CallStates, MapHolds, Made, WaitersHaveCalls, Waiting
<1>0. IInv'
  BY NextInv
<1>1. ASSUME NEW p \in Callers, NEW k \in Keys, Join(p, k) PROVE SInv'
  BY <1>0, <1>1 DEF Join, WaitOn
<1>2. ASSUME NEW p \in Callers, NEW k \in Keys, NEW c \in Calls, Fetch(p, k, c) \/ Refuse(p, k, c) PROVE SInv'
  <2>1. /\ call[c] = Unmade /\ calls[k] = NoCall
        /\ calls' = calls \/ (calls' = [calls EXCEPT ![k] = c] /\ call'[c].state = "running")
        /\ call'[c].key = k /\ call'[c].state \in {"running", "finished"}
        /\ \A d \in Calls : d # c => call'[d] = call[d]
        /\ caller' = [caller EXCEPT ![p] = [call |-> c, val |-> NoAnswer]]
    BY <1>2 DEF Fetch, Refuse, WaitOn
  <2>2. call[c].state = "none"
    BY <2>1 DEF Unmade
  <2>3. MapHolds'
    <3> SUFFICES ASSUME NEW j \in Keys, calls'[j] # NoCall
                 PROVE  call'[calls'[j]].key = j /\ call'[calls'[j]].state \in {"running", "answered"}
      OBVIOUS
    <3>1. CASE j = k
      BY <2>1, <3>1
    <3>2. CASE j # k
      BY <2>1, <2>2, <3>2
    <3> QED
      BY <3>1, <3>2
  <2>4. Made'
    BY <2>1
  <2>5. WaitersHaveCalls'
    BY <2>1, <2>2
  <2> QED
    BY <1>0, <2>3, <2>4, <2>5
<1>3. ASSUME NEW p \in Callers, Return(p) \/ Leave(p) PROVE SInv'
  BY <1>0, <1>3 DEF Return, Leave
<1>4. ASSUME NEW c \in Calls, GoroutineStep(c) PROVE SInv'
  <2>1. /\ call'[c].key = call[c].key /\ call[c].state # "none" /\ call'[c].state # "none"
        /\ call'[c].state = "answered" \/ call[c].state \notin {"running", "answered"}
             \/ calls' = [calls EXCEPT ![call[c].key] = NoCall]
        /\ calls' = calls \/ calls' = [calls EXCEPT ![call[c].key] = NoCall]
        /\ \A d \in Calls : d # c => call'[d] = call[d]
        /\ caller' = caller
    BY <1>4 DEF GoroutineStep, Answer, Delete, Done, Finish
  <2>2. MapHolds'
    BY <2>1
  <2>3. Made' /\ WaitersHaveCalls'
    BY <2>1
  <2> QED
    BY <1>0, <2>2, <2>3
<1>5. ASSUME NEW q \in Closers, Close(q) \/ CloserStep(q) PROVE SInv'
  BY <1>0, <1>5 DEF CloserStep, Close, Cancel, CloseReturns
<1>6. CASE UNCHANGED vars
  BY <1>0, <1>6 DEF vars
<1> QED
  BY <1>1, <1>2, <1>3, <1>4, <1>5, <1>6 DEF Next

LEMMA AtMostOne ==
  ASSUME NEW S, NEW x, \A y \in S : y = x
  PROVE  Cardinality(S) = IF x \in S THEN 1 ELSE 0
<1>1. CASE x \in S
  <2>1. S = {x}
    BY <1>1
  <2> QED
    BY <1>1, <2>1, FS_Singleton
<1>2. CASE x \notin S
  <2>1. S = {}
    BY <1>2
  <2> QED
    BY <1>2, <2>1, FS_EmptySet
<1> QED
  BY <1>1, <1>2

\* How many fetches of a key are out, as the map tells it.
OutIn(m, cl) == [k \in Keys |-> IF m[k] # NoCall /\ cl[m[k]].state = "running" THEN 1 ELSE 0]

LEMMA OutAsMapped == SInv => OutOf = OutIn(calls, call)
<1> SUFFICES ASSUME SInv, NEW k \in Keys
             PROVE  Cardinality(FetchesOf(k)) = IF calls[k] # NoCall /\ call[calls[k]].state = "running" THEN 1 ELSE 0
  BY DEF OutOf, OutIn
<1>1. \A y \in FetchesOf(k) : y = calls[k]
  BY DEF SInv, IInv, Kept, FetchesOf
<1>2. calls[k] \in FetchesOf(k) <=> calls[k] # NoCall /\ call[calls[k]].state = "running"
  BY FlightAssumption DEF SInv, IInv, TypeOK, MapHolds, FetchesOf
<1> QED
  BY <1>1, <1>2, AtMostOne

\* A caller's call is of Keys, so what it wants tells whether it waits.
LEMMA Waits ==
  ASSUME SInv, NEW p \in Callers
  PROVE  /\ caller[p].call = NoCall <=> Wanted[p] = NoKey
         /\ Waiting(p) => caller[p].call \in Calls /\ Wanted[p] = call[caller[p].call].key /\ Wanted[p] \in Keys
BY FlightAssumption DEF SInv, IInv, TypeOK, Made, WaitersHaveCalls, Waiting, Wanted

LEMMA JoinShared ==
  ASSUME SInv, NEW p \in Callers, NEW k \in Keys, Join(p, k), OutOf = OutIn(calls, call), OutOf' = OutIn(calls', call')
  PROVE  Shared!Join(p, k) \/ Shared!Late(p, k)
<1>1. /\ calls[k] \in Calls /\ call[calls[k]].key = k /\ call[calls[k]].state \in {"running", "answered"}
      /\ calls' = calls /\ call' = call /\ closed' = closed /\ closer' = closer
      /\ caller' = [caller EXCEPT ![p] = [call |-> calls[k], val |-> NoAnswer]] /\ caller[p].call = NoCall
  BY FlightAssumption DEF SInv, IInv, TypeOK, MapHolds, Join, WaitOn
<1>2. OutOf' = OutOf /\ FreshKeys' = FreshKeys /\ closed' = closed /\ HasEnded' = HasEnded
  BY <1>1 DEF FreshKeys, HasEnded, OutIn
<1>3. OutOf[k] = IF call[calls[k]].state = "running" THEN 1 ELSE 0
  BY <1>1, FlightAssumption DEF OutIn
<1>4. k \in FreshKeys <=> call[calls[k]].state = "answered"
  BY <1>1, FlightAssumption DEF FreshKeys
<1>5. Wanted[p] = NoKey /\ Wanted' = [Wanted EXCEPT ![p] = k]
  BY <1>1, FlightAssumption DEF Wanted, Waiting, SInv, IInv, TypeOK
<1>6. IsReady' = [IsReady EXCEPT ![p] = call[calls[k]].state # "running"]
  BY <1>1, FlightAssumption DEF IsReady, Waiting, SInv, IInv, TypeOK
<1> QED
  BY <1>1, <1>2, <1>3, <1>4, <1>5, <1>6 DEF Shared!Join, Shared!Late, Shared!Wants

\* A call that starts or refuses a fetch of a key none is out for.
LEMMA NewCall ==
  ASSUME SInv, NEW p \in Callers, NEW k \in Keys, NEW c \in Calls, NEW state,
         caller[p].call = NoCall, calls[k] = NoCall, call[c] = Unmade,
         call'[c].key = k, call'[c].state = state,
         \A d \in Calls : d # c => call'[d] = call[d],
         WaitOn(p, c), OutOf = OutIn(calls, call)
  PROVE  /\ OutOf[k] = 0 /\ k \notin FreshKeys
         /\ \A j \in Keys : calls[j] # c
         /\ Wanted[p] = NoKey /\ Wanted' = [Wanted EXCEPT ![p] = k]
         /\ IsReady' = [IsReady EXCEPT ![p] = (state # "running")]
<1>1. caller' = [caller EXCEPT ![p] = [call |-> c, val |-> NoAnswer]]
  BY DEF WaitOn
<1>2. \A q \in Callers : Waiting(q) => caller[q].call # c /\ caller[q].call \in Calls
  BY FlightAssumption DEF SInv, IInv, TypeOK, WaitersHaveCalls, Waiting, Unmade
<1>3. Wanted[p] = NoKey /\ Wanted' = [Wanted EXCEPT ![p] = k]
  BY <1>1, <1>2, FlightAssumption DEF Wanted, Waiting, SInv, IInv, TypeOK
<1>4. IsReady' = [IsReady EXCEPT ![p] = (state # "running")]
  BY <1>1, <1>2, FlightAssumption DEF IsReady, Waiting, SInv, IInv, TypeOK
<1>5. OutOf[k] = 0 /\ k \notin FreshKeys
  BY DEF OutIn, FreshKeys
<1>6. \A j \in Keys : calls[j] # c
  BY FlightAssumption DEF SInv, MapHolds, Unmade
<1> QED
  BY <1>3, <1>4, <1>5, <1>6

LEMMA FetchShared ==
  ASSUME SInv, NEW p \in Callers, NEW k \in Keys, NEW c \in Calls, Fetch(p, k, c),
         OutOf = OutIn(calls, call), OutOf' = OutIn(calls', call')
  PROVE  Shared!Start(p, k)
<1>1. /\ call'[c].key = k /\ call'[c].state = "running" /\ \A d \in Calls : d # c => call'[d] = call[d]
      /\ calls' = [calls EXCEPT ![k] = c]
  BY DEF Fetch, SInv, IInv, TypeOK
<1>2. /\ caller[p].call = NoCall /\ calls[k] = NoCall /\ call[c] = Unmade /\ ~closed
      /\ WaitOn(p, c) /\ UNCHANGED <<closed, closer>>
  BY DEF Fetch
<1>3. /\ OutOf[k] = 0 /\ k \notin FreshKeys /\ \A j \in Keys : calls[j] # c
      /\ Wanted[p] = NoKey /\ Wanted' = [Wanted EXCEPT ![p] = k]
      /\ IsReady' = [IsReady EXCEPT ![p] = FALSE]
  BY <1>1, <1>2, NewCall
<1>4. \A j \in Keys : /\ calls'[j] = IF j = k THEN c ELSE calls[j]
                      /\ j # k /\ calls[j] # NoCall => calls[j] \in Calls /\ call'[calls[j]] = call[calls[j]]
  BY <1>1, <1>3 DEF SInv, IInv, TypeOK
<1>5. OutOf' = [OutOf EXCEPT ![k] = 1]
  BY <1>1, <1>4, FlightAssumption DEF OutIn
<1>6. FreshKeys' = FreshKeys
  BY <1>1, <1>3, <1>4 DEF FreshKeys
<1> QED
  BY <1>2, <1>3, <1>5, <1>6 DEF Shared!Start, Shared!Wants, HasEnded

LEMMA RefuseShared ==
  ASSUME SInv, NEW p \in Callers, NEW k \in Keys, NEW c \in Calls, Refuse(p, k, c),
         OutOf = OutIn(calls, call), OutOf' = OutIn(calls', call')
  PROVE  Shared!Late(p, k)
<1>1. /\ call'[c].key = k /\ call'[c].state = "finished" /\ \A d \in Calls : d # c => call'[d] = call[d]
  BY DEF Refuse, SInv, IInv, TypeOK
<1>2. /\ caller[p].call = NoCall /\ calls[k] = NoCall /\ call[c] = Unmade /\ closed
      /\ WaitOn(p, c) /\ UNCHANGED <<calls, closed, closer>>
  BY DEF Refuse
<1>3. /\ OutOf[k] = 0 /\ \A j \in Keys : calls[j] # c
      /\ Wanted[p] = NoKey /\ Wanted' = [Wanted EXCEPT ![p] = k]
      /\ IsReady' = [IsReady EXCEPT ![p] = ("finished" # "running")]
  BY <1>1, <1>2, NewCall
<1>4. \A j \in Keys : calls[j] # NoCall => call'[calls[j]] = call[calls[j]]
  BY <1>1, <1>3 DEF SInv, IInv, TypeOK
<1>5. OutOf' = OutOf /\ FreshKeys' = FreshKeys
  BY <1>2, <1>4 DEF OutIn, FreshKeys
<1> QED
  <2>1. IsReady' = [IsReady EXCEPT ![p] = TRUE]
    BY <1>3
  <2> QED
    BY <1>2, <1>3, <1>5, <2>1 DEF Shared!Late, Shared!Wants, HasEnded

LEMMA AnswerShared ==
  ASSUME SInv, NEW c \in Calls, NEW v \in Answers, Answer(c, v),
         OutOf = OutIn(calls, call), OutOf' = OutIn(calls', call')
  PROVE  Shared!Answer(call[c].key)
<1> DEFINE k == call[c].key
<1>1. /\ call[c].state = "running" /\ call'[c].key = k /\ call'[c].state = "answered"
      /\ \A d \in Calls : d # c => call'[d] = call[d]
      /\ UNCHANGED <<calls, closed, cancelled, caller, closer>>
  BY DEF Answer, SInv, IInv, TypeOK
<1>2. k \in Keys /\ calls[k] = c /\ \A j \in Keys : j # k => calls[j] # c
  BY <1>1, FlightAssumption DEF SInv, IInv, Kept, MapHolds
<1>3. \A j \in Keys : j # k /\ calls[j] # NoCall => call'[calls[j]] = call[calls[j]]
  BY <1>1, <1>2 DEF SInv, IInv, TypeOK
<1>4. OutOf[k] = 1 /\ OutOf' = [OutOf EXCEPT ![k] = 0]
  <2>1. \A j \in Keys : j # k => OutOf'[j] = OutOf[j]
    BY <1>1, <1>3 DEF OutIn
  <2>2. OutOf[k] = 1 /\ OutOf'[k] = 0
    BY <1>1, <1>2, FlightAssumption DEF OutIn
  <2> HIDE DEF k
  <2> QED
    BY <2>1, <2>2, <1>2 DEF OutIn
<1>5. FreshKeys' = FreshKeys \cup {k}
  BY <1>1, <1>2, <1>3, FlightAssumption DEF FreshKeys
<1>6. Wanted' = Wanted
  BY <1>1 DEF Wanted, Waiting, SInv, IInv, TypeOK
<1>7. ASSUME NEW p \in Callers PROVE IsReady'[p] = (IsReady[p] \/ Wanted[p] = k)
  <2>1. CASE Waiting(p)
    <3>1. caller[p].call \in Calls /\ Wanted[p] = call[caller[p].call].key
      BY <2>1, Waits
    <3>2. call[caller[p].call].state = "running" /\ Wanted[p] = k => caller[p].call = c
      BY <1>2, <3>1 DEF SInv, IInv, Kept
    <3>3. IsReady[p] = (call[caller[p].call].state # "running") /\ IsReady'[p] = (call'[caller[p].call].state # "running")
      BY <1>1, <2>1 DEF IsReady, Waiting
    <3> QED
      BY <1>1, <3>1, <3>2, <3>3
  <2>2. CASE ~Waiting(p)
    BY <1>1, <1>2, <2>2, FlightAssumption DEF IsReady, Wanted, Waiting
  <2> QED
    BY <2>1, <2>2
<1>8. IsReady' = [p \in Callers |-> IsReady[p] \/ Wanted[p] = k]
  BY <1>7 DEF IsReady
<1> QED
  BY <1>1, <1>4, <1>5, <1>6, <1>8 DEF Shared!Answer, HasEnded

LEMMA DeleteShared ==
  ASSUME SInv, NEW c \in Calls, Delete(c),
         OutOf = OutIn(calls, call), OutOf' = OutIn(calls', call')
  PROVE  Shared!Forget(call[c].key)
<1> DEFINE k == call[c].key
<1>1. /\ call[c].state = "answered" /\ call'[c].key = k /\ call'[c].state = "deleted"
      /\ \A d \in Calls : d # c => call'[d] = call[d]
      /\ calls' = [calls EXCEPT ![k] = NoCall] /\ UNCHANGED <<closed, cancelled, caller, closer>>
  BY DEF Delete, SInv, IInv, TypeOK
<1>2. k \in Keys /\ calls[k] = c /\ \A j \in Keys : j # k => calls[j] # c
  BY <1>1, FlightAssumption DEF SInv, IInv, Kept, MapHolds
<1>3. \A j \in Keys : /\ calls'[j] = IF j = k THEN NoCall ELSE calls[j]
                      /\ j # k /\ calls[j] # NoCall => call'[calls[j]] = call[calls[j]]
  BY <1>1, <1>2 DEF SInv, IInv, TypeOK
<1>4. OutOf' = OutOf
  BY <1>1, <1>2, <1>3 DEF OutIn
<1>5. k \in FreshKeys /\ FreshKeys' = FreshKeys \ {k}
  BY <1>1, <1>2, <1>3, FlightAssumption DEF FreshKeys
<1>6. Wanted' = Wanted /\ IsReady' = IsReady
  BY <1>1 DEF Wanted, IsReady, Waiting, SInv, IInv, TypeOK
<1> QED
  BY <1>1, <1>4, <1>5, <1>6 DEF Shared!Forget, HasEnded

LEMMA DoneShared ==
  ASSUME SInv, NEW c \in Calls, Done(c) \/ Finish(c),
         OutOf = OutIn(calls, call), OutOf' = OutIn(calls', call')
  PROVE  UNCHANGED Shared!vars
<1>1. /\ call[c].state \in {"deleted", "done"} /\ call'[c].key = call[c].key /\ call'[c].state \in {"done", "finished"}
      /\ \A d \in Calls : d # c => call'[d] = call[d]
      /\ UNCHANGED <<calls, closed, cancelled, caller, closer>>
  BY DEF Done, Finish, SInv, IInv, TypeOK
<1>2. \A j \in Keys : calls[j] # NoCall => calls[j] \in Calls /\ calls[j] # c
  BY <1>1 DEF SInv, IInv, TypeOK, MapHolds
<1>3. OutOf' = OutOf /\ FreshKeys' = FreshKeys
  BY <1>1, <1>2 DEF OutIn, FreshKeys
<1>4. Wanted' = Wanted /\ IsReady' = IsReady
  BY <1>1 DEF Wanted, IsReady, Waiting, SInv, IInv, TypeOK
<1> QED
  BY <1>1, <1>3, <1>4 DEF Shared!vars, HasEnded

\* A caller takes an answer that is there, or leaves before it is.
LEMMA LeaveShared ==
  ASSUME SInv, NEW p \in Callers, Return(p) \/ Leave(p),
         OutOf = OutIn(calls, call), OutOf' = OutIn(calls', call')
  PROVE  Shared!Take(p) \/ Shared!Leave(p)
<1>1. /\ Waiting(p) /\ UNCHANGED <<calls, closed, cancelled, call, closer>>
      /\ caller'[p].call = NoCall /\ \A q \in Callers : q # p => caller'[q] = caller[q]
  BY DEF Return, Leave, Waiting, SInv, IInv, TypeOK
<1>2. Wanted[p] # NoKey
  BY <1>1, Waits, FlightAssumption
<1>3. Wanted' = [Wanted EXCEPT ![p] = NoKey] /\ IsReady' = [IsReady EXCEPT ![p] = FALSE]
  BY <1>1 DEF Wanted, IsReady, Waiting
<1>4. OutOf' = OutOf /\ FreshKeys' = FreshKeys
  BY <1>1 DEF OutIn, FreshKeys
<1> QED
  BY <1>1, <1>2, <1>3, <1>4 DEF Shared!Take, Shared!Leave, Shared!Ends, HasEnded

LEMMA CloseShared ==
  ASSUME SInv, NEW q \in Closers, Close(q) \/ CloserStep(q),
         OutOf = OutIn(calls, call), OutOf' = OutIn(calls', call')
  PROVE  Shared!Close \/ Shared!CloseReturns \/ UNCHANGED Shared!vars
<1>1. UNCHANGED <<calls, call, caller>>
  BY DEF Close, CloserStep, Cancel, CloseReturns
<1>2. UNCHANGED <<OutOf, FreshKeys, Wanted, IsReady>>
  BY <1>1 DEF OutIn, FreshKeys, Wanted, IsReady, Waiting
<1>3. CASE Close(q)
  <2>1. HasEnded' = HasEnded /\ closed'
    BY <1>3 DEF Close, HasEnded, SInv, IInv, TypeOK
  <2> QED
    BY <1>2, <2>1 DEF Shared!Close, Shared!vars, SInv, IInv, TypeOK
<1>4. CASE Cancel(q)
  BY <1>2, <1>4 DEF Cancel, HasEnded, Shared!vars, SInv, IInv, TypeOK
<1>5. CASE CloseReturns(q)
  <2>1. closed /\ HasEnded' /\ closed' = closed
    BY <1>5 DEF CloseReturns, HasEnded, SInv, IInv, TypeOK, ClosersClosed
  <2>2. FreshKeys = {} /\ \A k \in Keys : OutOf[k] = 0
    BY <1>5 DEF CloseReturns, Out, FreshKeys, OutIn, SInv, IInv, TypeOK
  <2> QED
    BY <1>2, <2>1, <2>2 DEF Shared!CloseReturns, Shared!vars
<1> QED
  BY <1>3, <1>4, <1>5 DEF CloserStep

LEMMA StepShared ==
  ASSUME SInv, [Next]_vars, OutOf = OutIn(calls, call), OutOf' = OutIn(calls', call')
  PROVE  [Shared!Next]_(Shared!vars)
<1>1. ASSUME NEW p \in Callers, NEW k \in Keys, Join(p, k) PROVE Shared!Next
  BY <1>1, JoinShared DEF Shared!Next
<1>2. ASSUME NEW p \in Callers, NEW k \in Keys, NEW c \in Calls, Fetch(p, k, c) \/ Refuse(p, k, c) PROVE Shared!Next
  BY <1>2, FetchShared, RefuseShared DEF Shared!Next
<1>3. ASSUME NEW p \in Callers, Return(p) \/ Leave(p) PROVE Shared!Next
  BY <1>3, LeaveShared DEF Shared!Next
<1>4. ASSUME NEW c \in Calls, GoroutineStep(c) PROVE Shared!Next \/ UNCHANGED Shared!vars
  <2>1. call[c].state # "none" => call[c].key \in Keys
    BY DEF SInv, Made
  <2>2. ASSUME NEW v \in Answers, Answer(c, v) PROVE Shared!Next
    BY <2>1, <2>2, AnswerShared DEF Answer, Shared!Next
  <2>3. CASE Delete(c)
    BY <2>1, <2>3, DeleteShared DEF Delete, Shared!Next
  <2> QED
    BY <1>4, <2>2, <2>3, DoneShared DEF GoroutineStep
<1>5. ASSUME NEW q \in Closers, Close(q) \/ CloserStep(q) PROVE Shared!Next \/ UNCHANGED Shared!vars
  BY <1>5, CloseShared DEF Shared!Next
<1>6. CASE UNCHANGED vars
  <2>1. OutOf' = OutOf
    BY <1>6 DEF vars, OutIn
  <2> QED
    BY <1>6, <2>1 DEF vars, Shared!vars, FreshKeys, Wanted, IsReady, Waiting, HasEnded
<1> QED
  BY <1>1, <1>2, <1>3, <1>4, <1>5, <1>6 DEF Next

LEMMA InitShared == Init => Shared!Init
<1> SUFFICES ASSUME Init PROVE Shared!Init
  OBVIOUS
<1>1. \A c \in Calls : call[c].state = "none"
  BY DEF Init, Unmade
<1>2. \A k \in Keys : FetchesOf(k) = {}
  BY <1>1 DEF FetchesOf
<1>3. OutOf = [k \in Keys |-> 0]
  BY <1>2, FS_EmptySet DEF OutOf
<1>4. FreshKeys = {} /\ Wanted = [p \in Callers |-> NoKey] /\ IsReady = [p \in Callers |-> FALSE]
  BY DEF Init, FreshKeys, Wanted, IsReady, Waiting
<1>5. closed = FALSE /\ HasEnded = FALSE
  BY DEF Init, HasEnded
<1> QED
  BY <1>3, <1>4, <1>5 DEF Shared!Init

\* flight.Group is a SharedFetch: of each key one fetch is out, everyone who
\* asks meanwhile gets its answer, who leaves takes nothing from the others,
\* and a closed group starts nothing and has nothing out once Close returns.
THEOREM GroupSharesFetches == Spec => Shared!Spec
<1>1. Init => SInv
  BY InitInv, FlightAssumption DEF Init, SInv, MapHolds, Made, WaitersHaveCalls, Waiting, Unmade
<1>2. Spec => []SInv
  BY <1>1, NextSInv, PTL DEF Spec
<1>3. SInv /\ SInv' /\ [Next]_vars => [Shared!Next]_(Shared!vars)
  <2>1. SInv' => (OutOf = OutIn(calls, call))'
    BY OutAsMapped, PTL
  <2>2. SInv' => OutOf' = OutIn(calls', call')
    BY <2>1 DEF OutIn
  <2> QED
    BY <2>2, OutAsMapped, StepShared
<1> QED
  BY <1>2, <1>3, InitShared, PTL DEF Spec, Shared!Spec

-----------------------------------------------------------------------------
(* The catalogue. *)

Requests == [at : {"idle", "go", "wait", "find", "rows"}, op : {"item", "cached", "page", "rows", "find"},
             key : Keys \cup {NoKey}, kept : BOOLEAN, waits : BOOLEAN,
             answer : {"none", "kept", "full", "error"}, then : Pages \cup {NoKey}]

\* A request has a key where it goes with one, and an error for an answer only
\* if it found nothing kept.
Sound(r) ==
  /\ r \in Requests
  /\ r.at = "go" => r.key \in Keys
  /\ r.at = "find" => r.key \in Titles
  /\ r.at = "rows" => r.then \in Pages
  /\ r.answer = "error" => ~r.kept

AskersSound == asker \in [Callers -> Requests] /\ \A p \in Callers : Sound(asker[p])
ItemsOK == DOMAIN items \subseteq Titles /\ \A t \in DOMAIN items : items[t].detailed \in BOOLEAN

\* Only a fetch that is out has work to do.
WorkIsOut ==
  /\ work \in [Calls -> {"none", "queued", "out", "listed", "blank"}]
  /\ \A c \in Calls : work[c] # "none" => call[c].state = "running"

CInv == AskersSound /\ ItemsOK /\ DetailsAsFetched /\ WorkIsOut

-----------------------------------------------------------------------------
(* The requests.                                                            *)

LEMMA NextCallFacts == NextCall \subseteq Calls
BY DEF NextCall

LEMMA NoRequestSound == NoRequest \in Requests /\ Sound(NoRequest) /\ Served \in Requests /\ Sound(Served)
BY FlightAssumption DEF NoRequest, Served, Requests, Sound

LEMMA RequestSound ==
  ASSUME NEW op \in {"item", "cached", "page", "rows", "find"}, NEW k \in Keys, NEW kept \in BOOLEAN, NEW waits \in BOOLEAN
  PROVE  /\ Sound(Request(op, k, kept, waits)) /\ Request(op, k, kept, waits).answer = "none"
         /\ Request(op, k, kept, waits).at = "go"
BY FlightAssumption DEF NoRequest, Request, Requests, Sound

\* What an asker becomes.
LEMMA ReadsSound ==
  ASSUME AskersSound, NEW p \in Callers, NEW r, Sound(r), asker' = [asker EXCEPT ![p] = r]
  PROVE  AskersSound'
BY DEF AskersSound, Sound

LEMMA BrowseSound ==
  ASSUME NEW k \in Pages
  PROVE  Sound(Browse(k))
<1> DEFINE kept == k \in DOMAIN pages
<1>1. k \in Keys
  BY CatalogAssumption
<1>2. kept \in BOOLEAN /\ (~kept) \in BOOLEAN
  OBVIOUS
<1>3. Sound(Request("page", k, kept, ~kept))
  BY <1>1, <1>2, RequestSound
<1> QED
  BY <1>3, NoRequestSound DEF Browse

LEMMA RowsOfSound ==
  ASSUME NEW k \in Rows
  PROVE  Sound(RowsOf(k)) /\ RowsOf(k).at = "go" /\ RowsOf(k).answer = "none"
<1> DEFINE kept == ProviderRows(k)
           waits == ~(kept /\ k \in Relays)
<1>1. k \in Keys
  BY CatalogAssumption
<1>2. kept \in BOOLEAN /\ waits \in BOOLEAN
  BY DEF ProviderRows
<1>3. RowsOf(k) = Request("rows", k, kept, waits)
  BY DEF RowsOf
<1> HIDE DEF kept, waits
<1> QED
  BY <1>1, <1>2, <1>3, RequestSound

Asking(p) ==
  \/ \E t \in Titles : AskItem(p, t) \/ AskCached(p, t) \/ AskFind(p, t)
  \/ \E k \in Pages : AskPage(p, k)
  \/ \E k \in Rows : AskRows(p, k) \/ \E page \in Pages : AskSearch(p, k, page)

LEMMA AskingSound ==
  ASSUME AskersSound, ItemsOK, NEW p \in Callers, Asking(p) \/ SearchBrowses(p)
  PROVE  AskersSound' /\ UNCHANGED <<vars, cache, work>>
<1>1. ASSUME NEW t \in Titles, AskItem(p, t) \/ AskCached(p, t) \/ AskFind(p, t)
      PROVE  \E r : Sound(r) /\ Reads(p, r)
  <2>1. t \in Keys
    BY CatalogAssumption
  <2>2. CASE AskItem(p, t)
    <3>1. items[t].detailed \in BOOLEAN /\ (~items[t].detailed) \in BOOLEAN
      BY <2>2 DEF AskItem, ItemsOK
    <3>2. Sound(Request("item", t, TRUE, ~items[t].detailed))
      BY <2>1, <3>1, RequestSound
    <3> QED
      BY <2>2, <3>2, NoRequestSound DEF AskItem
  <2>3. CASE AskCached(p, t)
    <3>1. Sound(Request("cached", t, TRUE, FALSE))
      BY <2>1, RequestSound
    <3> QED
      BY <2>3, <3>1, NoRequestSound DEF AskCached
  <2>4. CASE AskFind(p, t)
    <3> DEFINE r == [Request("find", t, FALSE, TRUE) EXCEPT !.at = "find"]
    <3>1. Sound(r)
      BY <2>1, FlightAssumption DEF Request, NoRequest, Requests, Sound
    <3>2. Reads(p, r)
      BY <2>4 DEF AskFind
    <3> QED
      BY <3>1, <3>2
  <2> QED
    BY <1>1, <2>2, <2>3, <2>4
<1>2. ASSUME NEW k \in Pages, AskPage(p, k) PROVE \E r : Sound(r) /\ Reads(p, r)
  BY <1>2, BrowseSound DEF AskPage
<1>3. ASSUME NEW k \in Rows, AskRows(p, k) PROVE \E r : Sound(r) /\ Reads(p, r)
  BY <1>3, RowsOfSound DEF AskRows
<1>4. ASSUME NEW k \in Rows, NEW page \in Pages, AskSearch(p, k, page) PROVE \E r : Sound(r) /\ Reads(p, r)
  <2> DEFINE row == RowsOf(k)
             r == [row EXCEPT !.then = page]
  <2>1. row \in Requests /\ row.at = "go" /\ row.answer = "none" /\ row.key \in Keys
    BY RowsOfSound DEF Sound
  <2>2. Reads(p, r)
    BY <1>4, Zenon DEF AskSearch
  <2> HIDE DEF row
  <2>3. Sound(r)
    BY <2>1 DEF Sound, Requests
  <2> HIDE DEF r
  <2> QED
    BY <2>2, <2>3
<1>5. ASSUME SearchBrowses(p) PROVE \E r : Sound(r) /\ Reads(p, r)
  <2>1. asker[p].then \in Pages
    BY <1>5 DEF SearchBrowses, AskersSound, Sound
  <2> QED
    BY <1>5, <2>1, BrowseSound DEF SearchBrowses
<1>6. \E r : Sound(r) /\ Reads(p, r)
  BY <1>1, <1>2, <1>3, <1>4, <1>5 DEF Asking
<1> QED
  BY <1>6, ReadsSound DEF Reads, cache

LEMMA GoesOnSound ==
  ASSUME AskersSound, NEW p \in Callers, NEW kept \in BOOLEAN, NEW answer \in {"kept", "full", "error"},
         answer = "error" => ~kept, GoesOn(p, kept, answer)
  PROVE  AskersSound'
<1> DEFINE r == [NoRequest EXCEPT !.kept = kept, !.answer = answer,
    !.at = IF asker[p].then # NoKey /\ answer # "error" THEN "rows" ELSE "idle",
    !.then = IF answer # "error" THEN asker[p].then ELSE NoKey]
<1>1. asker[p].then \in Pages \cup {NoKey}
  BY DEF AskersSound, Requests
<1>2. Sound(r)
  BY <1>1, FlightAssumption DEF NoRequest, Requests, Sound
<1>3. asker' = [asker EXCEPT ![p] = r]
  BY DEF GoesOn
<1> QED
  BY <1>2, <1>3, ReadsSound

\* Every other step of a request, but Find's write.
LEMMA RequestSteps ==
  ASSUME AskersSound, NEW p \in Callers, Go(p) \/ Answered(p) \/ ServedAtOnce(p) \/ GoesAway(p)
  PROVE  AskersSound' /\ UNCHANGED cache
<1>0. Sound(asker[p]) /\ asker[p] \in Requests
  BY DEF AskersSound
<1>1. CASE Go(p)
  <2> DEFINE r == [asker[p] EXCEPT !.at = "wait"]
  <2>1. Sound(r)
    BY <1>0 DEF Sound, Requests
  <2>2. asker' = [asker EXCEPT ![p] = r]
    BY <1>1 DEF Go
  <2> QED
    BY <1>1, <2>1, <2>2, ReadsSound DEF Go
<1>2. CASE Answered(p)
  <2> DEFINE answer == Outcome(p, call[caller[p].call].val)
  <2>1. asker[p].kept \in BOOLEAN
    BY <1>0 DEF Requests
  <2>2. answer \in {"kept", "full", "error"} /\ (answer = "error" => ~asker[p].kept)
    BY DEF Outcome
  <2>3. GoesOn(p, asker[p].kept, answer) /\ UNCHANGED cache
    BY <1>2 DEF Answered
  <2> HIDE DEF answer
  <2> QED
    BY <2>1, <2>2, <2>3, GoesOnSound
<1>3. CASE ServedAtOnce(p)
  BY <1>3, GoesOnSound DEF ServedAtOnce
<1>4. CASE GoesAway(p)
  BY <1>4, NoRequestSound, ReadsSound DEF GoesAway
<1> QED
  BY <1>1, <1>2, <1>3, <1>4

LEMMA FoundSound ==
  ASSUME AskersSound, NEW p \in Callers, Found(p)
  PROVE  AskersSound'
<1> DEFINE full == [NoRequest EXCEPT !.answer = "full"]
           error == [NoRequest EXCEPT !.answer = "error"]
<1>1. asker' = [asker EXCEPT ![p] = full] \/ asker' = [asker EXCEPT ![p] = error]
  BY DEF Found
<1>2. Sound(full) /\ Sound(error)
  BY FlightAssumption DEF NoRequest, Requests, Sound
<1> HIDE DEF full, error
<1> QED
  BY <1>1, <1>2, ReadsSound

-----------------------------------------------------------------------------
(* The fetches.                                                             *)

LEMMA OkAnswers == Ok \in Answers /\ Failed \in Answers
BY CatalogAssumption

\* What a fetch does to its Call, and the work it leaves.
LEMMA FetchSteps ==
  ASSUME WorkIsOut, NEW c \in Calls, FetchStep(c)
  PROVE  /\ call[c].state = "running" /\ (UNCHANGED vars \/ \E v \in Answers : Answer(c, v))
         /\ UNCHANGED asker
         /\ \E w \in {"none", "out", "listed", "blank"} : work' = [work EXCEPT ![c] = w] /\ (w = "none" \/ UNCHANGED vars)
<1>1. work[c] # "none"
  BY DEF FetchStep, TakeSlot, FetchFails, FetchItem, FetchPage, KeepPage, FetchRows
<1>2. CASE TakeSlot(c)
  BY <1>1, <1>2 DEF TakeSlot, WorkIsOut
<1>3. CASE FetchPage(c)
  BY <1>1, <1>3 DEF FetchPage, WorkIsOut
<1>4. CASE FetchFails(c) \/ FetchItem(c) \/ KeepPage(c) \/ FetchRows(c)
  <2>1. (Ends(c, Ok) \/ Ends(c, Failed)) /\ UNCHANGED asker
    BY <1>4 DEF FetchFails, FetchItem, KeepPage, FetchRows
  <2> QED
    BY <1>1, <2>1, OkAnswers DEF Ends, WorkIsOut
<1> QED
  BY <1>2, <1>3, <1>4 DEF FetchStep

\* The groups' steps, as the catalogue takes them.
LEMMA CatalogStep == AskersSound /\ WorkIsOut /\ [CatalogNext]_allVars => [Next]_vars
<1> SUFFICES ASSUME AskersSound, WorkIsOut, [CatalogNext]_allVars PROVE [Next]_vars
  OBVIOUS
<1>1. ASSUME NEW p \in Callers, Asking(p) PROVE UNCHANGED vars
  BY <1>1 DEF Asking, AskItem, AskCached, AskFind, AskPage, AskRows, AskSearch, Reads
<1>2. ASSUME NEW p \in Callers, Go(p) PROVE Next
  <2>1. asker[p].key \in Keys
    BY <1>2 DEF Go, AskersSound, Sound
  <2> QED
    BY <1>2, <2>1, NextCallFacts DEF Go, Next
<1>3. ASSUME NEW p \in Callers, Answered(p) \/ ServedAtOnce(p) \/ GoesAway(p) PROVE Next
  BY <1>3 DEF Answered, ServedAtOnce, GoesAway, Next
<1>4. ASSUME NEW p \in Callers, SearchBrowses(p) \/ Found(p) PROVE UNCHANGED vars
  BY <1>4 DEF SearchBrowses, Found, Reads
<1>5. ASSUME NEW c \in Calls, CallStep(c) PROVE Next \/ UNCHANGED vars
  BY <1>5, FetchSteps DEF CallStep, Next, GoroutineStep
<1>6. ASSUME NEW q \in Closers, Close(q) \/ CloseStep(q) PROVE Next
  BY <1>6 DEF CloseStep, Next
<1>7. CASE Tick \/ UNCHANGED allVars
  BY <1>7 DEF Tick, allVars
<1> QED
  BY <1>1, <1>2, <1>3, <1>4, <1>5, <1>6, <1>7 DEF CatalogNext, RequestStep, Asking

-----------------------------------------------------------------------------
(* What is kept.                                                            *)

\* An answer of Meta comes with its time; one of a page leaves it be.
LEMMA UpsertKeeps ==
  ASSUME ItemsOK, DetailsAsFetched, NEW ts \in SUBSET Titles, NEW detailed \in BOOLEAN, UpsertItems(ts, detailed)
  PROVE  ItemsOK' /\ DetailsAsFetched'
<1>1. /\ items' = [t \in DOMAIN items \cup ts |-> IF t \in ts THEN Upserted(t, detailed) ELSE items[t]]
      /\ metaAt' = [t \in Titles |-> IF t \in ts /\ detailed THEN now ELSE metaAt[t]]
  BY DEF UpsertItems
<1>2. DOMAIN items' = DOMAIN items \cup ts /\ DOMAIN items' \subseteq Titles
  BY <1>1 DEF ItemsOK
<1>3. ASSUME NEW t \in DOMAIN items'
      PROVE  /\ items'[t].detailed \in BOOLEAN
             /\ items'[t].detailed => items'[t].payload = "meta" /\ items'[t].at = metaAt'[t]
  <2>0. t \in Titles /\ t \in DOMAIN items \cup ts
    BY <1>2, <1>3
  <2>1. CASE t \notin ts
    <3>1. items'[t] = items[t] /\ metaAt'[t] = metaAt[t] /\ t \in DOMAIN items
      BY <1>1, <2>0, <2>1
    <3> QED
      BY <3>1 DEF ItemsOK, DetailsAsFetched
  <2>2. CASE t \in ts
    <3> DEFINE had == t \in DOMAIN items /\ items[t].detailed
    <3>1. /\ items'[t].detailed = (had \/ detailed)
          /\ items'[t].payload = IF had \/ detailed THEN "meta" ELSE "row"
          /\ items'[t].at = IF had /\ ~detailed THEN items[t].at ELSE now
      BY <1>1, <2>0, <2>2 DEF Upserted
    <3>2. had \in BOOLEAN /\ (had => items[t].at = metaAt[t])
      BY DEF ItemsOK, DetailsAsFetched
    <3>3. metaAt'[t] = IF detailed THEN now ELSE metaAt[t]
      BY <1>1, <2>0, <2>2
    <3> HIDE DEF had
    <3> QED
      BY <3>1, <3>2, <3>3
  <2> QED
    BY <2>1, <2>2
<1> QED
  BY <1>2, <1>3 DEF ItemsOK, DetailsAsFetched

\* Who writes: a fetch that is out, and Find.
LEMMA FetchKeeps ==
  ASSUME ItemsOK, DetailsAsFetched, NEW c \in Calls, FetchStep(c)
  PROVE  ItemsOK' /\ DetailsAsFetched'
<1>1. CASE FetchItem(c)
  BY <1>1, UpsertKeeps DEF FetchItem
<1>2. CASE FetchPage(c)
  <2>1. Lists[call[c].key] \in SUBSET Titles
    BY <1>2, CatalogAssumption DEF FetchPage
  <2> QED
    BY <1>2, <2>1, UpsertKeeps DEF FetchPage
<1>3. CASE TakeSlot(c) \/ FetchFails(c) \/ KeepPage(c) \/ FetchRows(c)
  <2>1. UNCHANGED <<items, metaAt>>
    BY <1>3 DEF TakeSlot, FetchFails, KeepPage, FetchRows, cache
  <2> QED
    BY <2>1 DEF ItemsOK, DetailsAsFetched
<1> QED
  BY <1>1, <1>2, <1>3 DEF FetchStep

LEMMA FoundKeeps ==
  ASSUME ItemsOK, DetailsAsFetched, AskersSound, NEW p \in Callers, Found(p)
  PROVE  ItemsOK' /\ DetailsAsFetched'
<1>1. {asker[p].key} \in SUBSET Titles
  BY DEF Found, AskersSound, Sound
<1>2. CASE UpsertItems({asker[p].key}, TRUE)
  BY <1>1, <1>2, UpsertKeeps
<1>3. CASE UNCHANGED <<items, metaAt>>
  BY <1>3 DEF ItemsOK, DetailsAsFetched
<1> QED
  BY <1>2, <1>3 DEF Found

\* A fetch that is started has work; one refused, answered or ended has none.
LEMMA GoWork ==
  ASSUME IInv, WorkIsOut, NEW p \in Callers, Go(p)
  PROVE  WorkIsOut'
<1> DEFINE k == asker[p].key
<1>1. CASE Join(p, k) /\ UNCHANGED work
  BY <1>1 DEF Join, WorkIsOut
<1>2. ASSUME NEW c \in NextCall, Fetch(p, k, c),
             work' = [work EXCEPT ![c] = IF asker[p].op = "cached" THEN "queued" ELSE "out"]
      PROVE  WorkIsOut'
  <2>1. c \in Calls /\ call'[c].state = "running" /\ \A d \in Calls : d # c => call'[d] = call[d]
    BY <1>2, NextCallFacts DEF Fetch, IInv, TypeOK
  <2> QED
    BY <1>2, <2>1 DEF WorkIsOut
<1>3. ASSUME NEW c \in NextCall, Refuse(p, k, c), UNCHANGED work
      PROVE  WorkIsOut'
  <2>1. c \in Calls /\ call[c].state = "none" /\ \A d \in Calls : d # c => call'[d] = call[d]
    BY <1>3, NextCallFacts DEF Refuse, IInv, TypeOK, Unmade
  <2> QED
    BY <1>3, <2>1 DEF WorkIsOut
<1> QED
  BY <1>1, <1>2, <1>3 DEF Go

LEMMA CallWork ==
  ASSUME IInv, WorkIsOut, NEW c \in Calls, CallStep(c)
  PROVE  WorkIsOut'
<1>1. CASE FetchStep(c)
  <2>1. /\ call[c].state = "running" /\ (UNCHANGED vars \/ \E v \in Answers : Answer(c, v))
        /\ \E w \in {"none", "out", "listed", "blank"} : work' = [work EXCEPT ![c] = w] /\ (w = "none" \/ UNCHANGED vars)
    BY <1>1, FetchSteps
  <2>2. \A d \in Calls : d # c => call'[d] = call[d]
    BY <2>1 DEF vars, Answer, IInv, TypeOK
  <2> QED
    BY <2>1, <2>2 DEF WorkIsOut, vars
<1>2. CASE (Delete(c) \/ Done(c) \/ Finish(c)) /\ UNCHANGED catalogVars
  <2>1. call[c].state # "running" /\ work' = work /\ \A d \in Calls : d # c => call'[d] = call[d]
    BY <1>2 DEF Delete, Done, Finish, catalogVars, IInv, TypeOK
  <2> QED
    BY <2>1 DEF WorkIsOut
<1> QED
  BY <1>1, <1>2 DEF CallStep

LEMMA NextCInv == IInv /\ CInv /\ [CatalogNext]_allVars => CInv'
<1> SUFFICES ASSUME IInv, CInv, [CatalogNext]_allVars PROVE CInv'
  OBVIOUS
<1> USE DEF CInv
<1>1. ASSUME NEW p \in Callers, Asking(p) \/ SearchBrowses(p) PROVE CInv'
  BY <1>1, AskingSound DEF vars, cache, ItemsOK, DetailsAsFetched, WorkIsOut
<1>2. ASSUME NEW p \in Callers, Go(p) PROVE CInv'
  BY <1>2, RequestSteps, GoWork DEF cache, ItemsOK, DetailsAsFetched
<1>3. ASSUME NEW p \in Callers, Answered(p) \/ ServedAtOnce(p) \/ GoesAway(p) PROVE CInv'
  <2>1. AskersSound' /\ UNCHANGED cache
    BY <1>3, RequestSteps
  <2>2. UNCHANGED <<call, work>>
    BY <1>3 DEF Answered, ServedAtOnce, GoesAway, Return, Leave
  <2> QED
    BY <2>1, <2>2 DEF cache, ItemsOK, DetailsAsFetched, WorkIsOut
<1>4. ASSUME NEW p \in Callers, Found(p) PROVE CInv'
  BY <1>4, FoundSound, FoundKeeps DEF Found, vars, WorkIsOut
<1>5. ASSUME NEW c \in Calls, CallStep(c) PROVE CInv'
  <2>1. CASE FetchStep(c)
    BY <1>5, <2>1, FetchSteps, FetchKeeps, CallWork DEF AskersSound
  <2>2. CASE UNCHANGED catalogVars
    BY <1>5, <2>2, CallWork DEF catalogVars, cache, AskersSound, ItemsOK, DetailsAsFetched
  <2> QED
    BY <1>5, <2>1, <2>2 DEF CallStep
<1>6. ASSUME NEW q \in Closers, (Close(q) \/ CloserStep(q)) /\ UNCHANGED catalogVars PROVE CInv'
  BY <1>6 DEF CloserStep, Close, Cancel, CloseReturns, catalogVars, cache, AskersSound, ItemsOK, DetailsAsFetched, WorkIsOut
<1>7. CASE Tick \/ UNCHANGED allVars
  BY <1>7 DEF Tick, allVars, vars, catalogVars, cache, AskersSound, ItemsOK, DetailsAsFetched, WorkIsOut
<1> QED
  BY <1>1, <1>2, <1>3, <1>4, <1>5, <1>6, <1>7 DEF CatalogNext, RequestStep, Asking, CloseStep

LEMMA InitCInv == CatalogInit => CInv
<1> SUFFICES ASSUME CatalogInit PROVE CInv
  OBVIOUS
<1>1. AskersSound
  BY NoRequestSound DEF CatalogInit, AskersSound
<1>2. PICK old \in SUBSET Titles : items = [t \in old |-> Expired(t)] /\ metaAt = [t \in Titles |-> NoTime]
  BY DEF CatalogInit
<1>3. ItemsOK /\ DetailsAsFetched
  BY <1>2 DEF ItemsOK, DetailsAsFetched, Expired
<1>4. WorkIsOut
  BY DEF CatalogInit, WorkIsOut
<1> QED
  BY <1>1, <1>3, <1>4 DEF CInv

LEMMA CatalogInvariant == CatalogSpec => [](IInv /\ CInv) /\ Spec
<1>1. CatalogInit => Init /\ IInv /\ CInv
  BY InitCInv, InitInv DEF CatalogInit
<1>2. IInv /\ CInv /\ [CatalogNext]_allVars => [Next]_vars
  BY CatalogStep DEF CInv
<1>3. IInv /\ CInv /\ [CatalogNext]_allVars => IInv' /\ CInv'
  BY <1>2, NextInv, NextCInv
<1> QED
  BY <1>1, <1>2, <1>3, PTL DEF CatalogSpec, Spec

-----------------------------------------------------------------------------
\* The catalogue uses its groups as the group is specified: whatever is proved
\* of flight.Group holds of the provider requests.
THEOREM CatalogUsesGroup == CatalogSpec => Spec /\ Shared!Spec
BY CatalogInvariant, GroupSharesFetches, PTL

\* The catalogue asks a provider for one thing once at a time.
THEOREM CatalogOneFetch == CatalogSpec => []OneFetch
BY CatalogInvariant, OneFetchPerKey, PTL

\* Service.Close leaves no goroutine of a fetch behind.
THEOREM CatalogClosedIsQuiet == CatalogSpec => []NothingAfterClose
BY CatalogInvariant, ClosedIsQuiet, PTL

\* upsertItem: details are Meta's, and as old as Meta's answer, in whatever
\* order pages and details come.
THEOREM DetailsKeepTheirTime == CatalogSpec => []DetailsAsFetched
<1>1. CInv => DetailsAsFetched
  BY DEF CInv
<1> QED
  BY <1>1, CatalogInvariant, PTL

\* Outcome: no request that found something kept is answered with an error.
THEOREM KeptIsServed == CatalogSpec => []ServedFromCache
<1>1. CInv => ServedFromCache
  BY DEF CInv, AskersSound, Sound, ServedFromCache
<1> QED
  BY <1>1, CatalogInvariant, PTL

\* Once Close has returned no fetch has work left, so only Find writes.
THEOREM FetchesStopWriting == CatalogSpec => FetchesWriteBeforeClose
<1> DEFINE Quiet == (\E q \in Closers : closer[q] = "returned") =>
       UNCHANGED pages /\ \A t \in Titles :
         metaAt'[t] # metaAt[t] \/ (t \in DOMAIN items' /\ (t \notin DOMAIN items \/ items'[t] # items[t])) =>
           \E p \in Callers : asker[p].at = "find" /\ asker[p].key = t
<1>1. IInv /\ CInv /\ [CatalogNext]_allVars => [Quiet]_allVars
  <2> SUFFICES ASSUME IInv, CInv, [CatalogNext]_allVars, NEW q \in Closers, closer[q] = "returned"
               PROVE  Quiet
    OBVIOUS
  <2>1. \A c \in Calls : ~FetchStep(c)
    <3>1. \A c \in Calls : call[c].state # "running"
      BY DEF IInv, NothingAfterClose
    <3> QED
      BY <3>1, FetchSteps DEF CInv
  <2>2. ASSUME UNCHANGED cache PROVE Quiet
    BY <2>2 DEF cache
  <2>3. ASSUME NEW p \in Callers, Found(p) PROVE Quiet
    <3>1. UNCHANGED pages /\ asker[p].at = "find"
      BY <2>3 DEF Found
    <3>2. \A t \in Titles : t # asker[p].key =>
            metaAt'[t] = metaAt[t] /\ (t \in DOMAIN items' => t \in DOMAIN items /\ items'[t] = items[t])
      BY <2>3 DEF Found, UpsertItems
    <3> QED
      BY <3>1, <3>2
  <2>4. ASSUME NEW p \in Callers, Asking(p) \/ RequestStep(p) \/ GoesAway(p) PROVE Quiet
    BY <2>2, <2>3, <2>4, AskingSound, RequestSteps DEF RequestStep, CInv
  <2>5. ASSUME NEW c \in Calls, CallStep(c) PROVE Quiet
    BY <2>1, <2>2, <2>5 DEF CallStep, catalogVars
  <2>6. ASSUME NEW r \in Closers, (Close(r) /\ UNCHANGED catalogVars) \/ CloseStep(r) PROVE Quiet
    BY <2>2, <2>6 DEF CloseStep, catalogVars
  <2>7. CASE Tick \/ UNCHANGED allVars
    BY <2>2, <2>7 DEF Tick, allVars, catalogVars
  <2> HIDE DEF Quiet
  <2> QED
    BY <2>4, <2>5, <2>6, <2>7 DEF CatalogNext, Asking
<1> QED
  BY <1>1, CatalogInvariant, PTL DEF CatalogSpec, FetchesWriteBeforeClose
==============================================================================
