----------------------------- MODULE ViewerProofs -----------------------------
(***************************************************************************)
(* A viewer's own data, for any number of titles, episodes, requests,      *)
(* cores and searches.                                                     *)
(*                                                                         *)
(* History first: no play takes a mark away, marking an episode watched    *)
(* leaves the series going on behind it, whatever is started gets on the   *)
(* shelf, and the shelves agree on what plays next.                        *)
(*                                                                         *)
(* Then Personal, core by core: the search just recorded comes first, the  *)
(* subscribers of the preferences have what is stored, a file imported     *)
(* twice changes nothing, and two cores that import one another agree.     *)
(***************************************************************************)
EXTENDS History, Personal, FiniteSetTheorems, NaturalsInduction, WellFoundedInduction, TLAPS

Keys == Nat \X Nat
Todos == {<<>>, <<"look", "write", "list">>, <<"write", "list">>, <<"list">>,
          <<"seen", "mark", "list">>, <<"mark", "list">>,
          <<"score">>, <<"list", "write">>, <<"write">>}
Handlers == [todo : Todos, t : Titles \cup {NoKey}, k : Keys \cup {NoKey},
             pos : {Start, Opening, Middle, End}, mark : Marks, had : BOOLEAN,
             marked : SUBSET Keys, at : 0..MaxNow]

Shapes ==
  /\ DOMAIN progress = Titles /\ DOMAIN rated = Titles
  /\ proc \in [Procs -> Handlers]

\* The episodes a handler is about to mark end with the one it was asked for.
MarksThrough(t, k, marked) ==
  /\ marked \subseteq KeysOf(t)
  /\ \E m \in marked : /\ m[1] # 0 /\ (k # NoKey => m = k)
                       /\ \A o \in marked \ {m} : Before(o, m)

\* What a handler under way knows of what it was asked.
Sound(r) ==
  /\ r.todo # <<>> => r.t \in Titles
  /\ r.todo \in {<<"look", "write", "list">>, <<"write", "list">>, <<"list", "write">>, <<"write">>}
     => r.k \in KeysOf(r.t)
  /\ r.todo = <<"score">> => r.t \in Known /\ r.k \in KeysOf(r.t) \cup {TheTitle} /\ ~r.had
  /\ r.todo = <<"seen", "mark", "list">>
     => r.t \in Series /\ (r.k # NoKey => r.k \in KeysOf(r.t) /\ r.k[1] > 0)
  /\ r.todo = <<"mark", "list">>
     => r.t \in Series /\ MarksThrough(r.t, r.k, r.marked) /\ r.at <= now

\* Handler p is sure to try to list t.
Owes(p, t) ==
  proc[p].t = t /\ ~proc[p].had /\ proc[p].todo \in {<<"list">>, <<"list", "write">>}

\* t is listed, or it is known why not.
Placed(t) == t \in DOMAIN list \cup takenOut \cup missed
Promised(t) == Placed(t) \/ \E p \in Procs : Owes(p, t)

\* A title with entries is listed, was taken out or missed, or some handler
\* lists it yet.
EntriesPromised == \A t \in Known : Entries(t) # {} => Promised(t)

\* So is one that a handler writes an entry of without listing it.
LeansOn(r) == (r.had /\ r.todo # <<>>) \/ r.todo = <<"write">>
WritesPromised == \A p \in Procs, t \in Known : proc[p].t = t /\ LeansOn(proc[p]) => Promised(t)

IInv ==
  /\ Shapes /\ TypeOK /\ \A p \in Procs : Sound(proc[p])
  /\ EntriesPromised /\ WritesPromised

-----------------------------------------------------------------------------
LEMMA SomeLeast ==
  ASSUME NEW S \in SUBSET Nat, S # {}
  PROVE  \E m \in S : \A j \in S : m <= j
<1> DEFINE R == OpToRel(<, Nat)
<1>1. \E x \in S : \A y \in S : <<y, x>> \notin R
  BY NatLessThanWellFounded, WFMin, Zenon
<1>a. \A x, y \in Nat : y < x => <<y, x>> \in R
  BY DEF OpToRel
<1> HIDE DEF R
<1>2. PICK x \in S : \A y \in S : <<y, x>> \notin R
  BY <1>1
<1>3. ASSUME NEW y \in S PROVE x <= y
  <2>1. x \in Nat /\ y \in Nat
    OBVIOUS
  <2>2. ~(y < x)
    BY <1>a, <1>2, <2>1
  <2> QED
    BY <2>1, <2>2
<1> QED
  BY <1>3

\* A strict total order R on the set S, as a set of pairs.
Orders(R, S) ==
  /\ \A a \in S : <<a, a>> \notin R
  /\ \A a, b \in S : a # b => <<a, b>> \in R \/ <<b, a>> \in R
  /\ \A a, b, c \in S : <<a, b>> \in R /\ <<b, c>> \in R => <<a, c>> \in R

\* A finite set has a last element in any strict total order.
LEMMA SomeLast ==
  ASSUME NEW S, IsFiniteSet(S), S # {}, NEW R, Orders(R, S)
  PROVE  \E m \in S : \A o \in S \ {m} : <<o, m>> \in R
<1> DEFINE Above(x) == {y \in S : <<x, y>> \in R}
           Counts == {Cardinality(Above(x)) : x \in S}
<1>1. \A x \in S : IsFiniteSet(Above(x)) /\ Cardinality(Above(x)) \in Nat
  BY FS_Subset, FS_CardinalityType
<1>2. Counts \in SUBSET Nat /\ Counts # {}
  BY <1>1
<1>3. PICK n \in Counts : \A j \in Counts : n <= j
  <2> HIDE DEF Counts
  <2> QED
    BY <1>2, SomeLeast
<1>4. PICK m \in S : Cardinality(Above(m)) = n
  BY <1>3
<1>5. ASSUME NEW o \in S \ {m} PROVE <<o, m>> \in R
  <2>1. SUFFICES ASSUME <<m, o>> \in R PROVE FALSE
    BY DEF Orders
  <2>2. Above(o) \in SUBSET Above(m) /\ o \in Above(m) /\ o \notin Above(o)
    BY <2>1 DEF Orders
  <2>3. Cardinality(Above(o)) <= Cardinality(Above(m)) /\ Cardinality(Above(o)) # Cardinality(Above(m))
    <3> HIDE DEF Above
    <3>1. IsFiniteSet(Above(m))
      BY <1>1
    <3> QED
      BY <2>2, <3>1, FS_Subset
  <2>4. Cardinality(Above(m)) <= Cardinality(Above(o))
    BY <1>3, <1>4
  <2>5. Cardinality(Above(o)) \in Nat /\ Cardinality(Above(m)) \in Nat
    BY <1>1
  <2> HIDE DEF Above
  <2> QED
    BY <2>3, <2>4, <2>5
<1> QED
  BY <1>5

-----------------------------------------------------------------------------
LEMMA KeysAre ==
  ASSUME NEW t \in Titles
  PROVE  /\ KeysOf(t) \subseteq Keys /\ NoKey \notin Keys /\ TheTitle \in Keys
         /\ IsFiniteSet(KeysOf(t))
         /\ t \in Series => TheTitle \notin KeysOf(t)
<1>1. \A x \in Keys : x[1] \in Nat /\ x[2] \in Nat
  BY DEF Keys
<1>2. TheTitle \in Keys
  BY DEF TheTitle, Keys
<1>3. CASE t \in Series
  BY <1>2, <1>3, HistoryAssumption DEF KeysOf, Keys, TheTitle
<1>4. CASE t \notin Series
  BY <1>2, <1>4, HistoryAssumption, FS_Singleton DEF KeysOf, Keys
<1> QED
  BY <1>3, <1>4

LEMMA BeforeOrders ==
  /\ \A a \in Keys : ~Before(a, a)
  /\ \A a, b \in Keys : a # b => Before(a, b) \/ Before(b, a)
  /\ \A a, b \in Keys : Before(a, b) => ~Before(b, a) /\ a # b
  /\ \A a, b, c \in Keys : Before(a, b) /\ Before(b, c) => Before(a, c)
<1>1. \A x \in Keys : x[1] \in Nat /\ x[2] \in Nat /\ x = <<x[1], x[2]>>
  BY DEF Keys
<1> QED
  BY <1>1 DEF Before

LEMMA AfterOrders ==
  /\ \A a \in Keys : ~After(a, a)
  /\ \A a, b \in Keys : a # b => After(a, b) \/ After(b, a)
  /\ \A a, b \in Keys : After(a, b) => ~After(b, a) /\ a # b
  /\ \A a, b, c \in Keys : After(a, b) /\ After(b, c) => After(a, c)
  /\ \A a, b \in Keys : a[1] # 0 /\ b[1] # 0 => (After(a, b) <=> Before(b, a))
<1>1. \A x \in Keys : x[1] \in Nat /\ x[2] \in Nat /\ x = <<x[1], x[2]>>
  BY DEF Keys
<1> QED
  BY <1>1 DEF After, Before

LEMMA LastBefore ==
  ASSUME NEW S \in SUBSET Keys, IsFiniteSet(S), S # {}
  PROVE  \E m \in S : \A o \in S \ {m} : Before(o, m)
<1> DEFINE R == {x \in Keys \X Keys : Before(x[1], x[2])}
<1>1. \A a, b \in Keys : <<a, b>> \in R <=> Before(a, b)
  OBVIOUS
<1> HIDE DEF R
<1>2. Orders(R, S)
  BY <1>1, BeforeOrders DEF Orders
<1>3. PICK m \in S : \A o \in S \ {m} : <<o, m>> \in R
  BY <1>2, SomeLast
<1> QED
  BY <1>1, <1>3

LEMMA FirstBefore ==
  ASSUME NEW S \in SUBSET Keys, IsFiniteSet(S), S # {}
  PROVE  \E m \in S : \A o \in S \ {m} : Before(m, o)
<1> DEFINE R == {x \in Keys \X Keys : Before(x[2], x[1])}
<1>1. \A a, b \in Keys : <<a, b>> \in R <=> Before(b, a)
  OBVIOUS
<1> HIDE DEF R
<1>2. Orders(R, S)
  BY <1>1, BeforeOrders DEF Orders
<1>3. PICK m \in S : \A o \in S \ {m} : <<o, m>> \in R
  BY <1>2, SomeLast
<1> QED
  BY <1>1, <1>3

LEMMA FirstAndLastAfter ==
  ASSUME NEW S \in SUBSET Keys, IsFiniteSet(S), S # {}
  PROVE  /\ \E m \in S : \A o \in S \ {m} : After(m, o)
         /\ \E m \in S : \A o \in S \ {m} : After(o, m)
<1> DEFINE R == {x \in Keys \X Keys : After(x[2], x[1])}
           Q == {x \in Keys \X Keys : After(x[1], x[2])}
<1>1. \A a, b \in Keys : (<<a, b>> \in R <=> After(b, a)) /\ (<<a, b>> \in Q <=> After(a, b))
  OBVIOUS
<1> HIDE DEF R, Q
<1>2. Orders(R, S) /\ Orders(Q, S)
  BY <1>1, AfterOrders DEF Orders
<1>3. PICK m \in S : \A o \in S \ {m} : <<o, m>> \in R
  BY <1>2, SomeLast
<1>4. PICK f \in S : \A o \in S \ {f} : <<o, f>> \in Q
  BY <1>2, SomeLast
<1> QED
  BY <1>1, <1>3, <1>4

-----------------------------------------------------------------------------
\* The parts of TypeOK that a call of the store writes.
RowsOf(t, rows) ==
  /\ DOMAIN rows \subseteq KeysOf(t)
  /\ \A k \in DOMAIN rows : rows[k] \in Entry /\ rows[k].at <= now

Counts == asked \in 0..MaxRequests /\ faults \in 0..MaxFaults
Lists == DOMAIN list \subseteq Known /\ \A t \in DOMAIN list : list[t] \in 0..now

LEMMA TypeIs ==
  TypeOK <=> /\ now \in 0..MaxNow /\ Counts
             /\ \A t \in Titles : RowsOf(t, progress[t]) /\ rated[t] \subseteq KeysOf(t) \cup {TheTitle}
             /\ Lists
             /\ \A p \in Procs : \A i \in DOMAIN proc[p].todo : proc[p].todo[i] \in Steps
BY DEF TypeOK, Counts, RowsOf, Lists

LEMMA TodosAreSteps ==
  ASSUME NEW todo \in Todos
  PROVE  \A i \in DOMAIN todo : todo[i] \in Steps
BY DEF Todos, Steps

\* What is done, from what there is to do, and what is left after it.
LEMMA DoingIs ==
  ASSUME Shapes, NEW p \in Procs
  PROVE  /\ Doing(p, "look") => proc[p].todo = <<"look", "write", "list">>
         /\ Doing(p, "write") => proc[p].todo \in {<<"write", "list">>, <<"write">>}
         /\ Doing(p, "list") => proc[p].todo \in {<<"list">>, <<"list", "write">>}
         /\ Doing(p, "seen") => proc[p].todo = <<"seen", "mark", "list">>
         /\ Doing(p, "mark") => proc[p].todo = <<"mark", "list">>
         /\ Doing(p, "score") => proc[p].todo = <<"score">>
<1>1. proc[p].todo \in Todos
  BY DEF Shapes, Handlers
<1> QED
  BY <1>1 DEF Todos, Doing

\* A step of handler p that leaves it as r.
LEMMA ProcStep ==
  ASSUME IInv, NEW p \in Procs, NEW r \in Handlers, Sound(r), proc' = [proc EXCEPT ![p] = r],
         now' = now
  PROVE  /\ proc' \in [Procs -> Handlers] /\ proc'[p] = r
         /\ \A q \in Procs : q # p => proc'[q] = proc[q]
         /\ \A q \in Procs : Sound(proc[q])'
         /\ \A q \in Procs : \A i \in DOMAIN proc'[q].todo : proc'[q].todo[i] \in Steps
<1>1. proc \in [Procs -> Handlers]
  BY DEF IInv, Shapes
<1>2. proc' \in [Procs -> Handlers] /\ proc'[p] = r /\ \A q \in Procs : q # p => proc'[q] = proc[q]
  BY <1>1
<1>3. ASSUME NEW q \in Procs PROVE Sound(proc[q])'
  BY <1>2 DEF IInv, Sound
<1>4. ASSUME NEW q \in Procs PROVE \A i \in DOMAIN proc'[q].todo : proc'[q].todo[i] \in Steps
  <2>1. proc'[q].todo \in Todos
    BY <1>2 DEF Handlers
  <2> QED
    BY <2>1, TodosAreSteps
<1> QED
  BY <1>2, <1>3, <1>4

\* A step keeps what was promised, if what it owed it still owes or has done.
LEMMA PromiseStep ==
  ASSUME NEW p \in Procs, NEW t, Promised(t),
         \A q \in Procs : q # p => proc'[q] = proc[q],
         Placed(t) => Placed(t)', Owes(p, t) => Owes(p, t)' \/ Placed(t)'
  PROVE  Promised(t)'
BY DEF Promised, Owes

\* What a step has to show of the promises.
LEMMA PromisesKept ==
  ASSUME IInv, NEW p \in Procs, \A q \in Procs : q # p => proc'[q] = proc[q],
         \A t \in Known : Promised(t) => Promised(t)',
         \A t \in Known : Entries(t)' # {} => Entries(t) # {} \/ Promised(t)',
         \A t \in Known : proc'[p].t = t /\ LeansOn(proc'[p]) => Promised(t)'
  PROVE  EntriesPromised' /\ WritesPromised'
<1>1. EntriesPromised'
  BY DEF IInv, EntriesPromised
<1>2. WritesPromised'
  BY DEF IInv, WritesPromised
<1> QED
  BY <1>1, <1>2

\* The entries of a title are replaced.
LEMMA RowsReplaced ==
  ASSUME IInv, NEW t \in Titles, NEW rows, RowsOf(t, rows), now' = now,
         progress' = [progress EXCEPT ![t] = rows]
  PROVE  /\ DOMAIN progress' = Titles /\ Entries(t)' = DOMAIN rows
         /\ \A o \in Titles : o # t => progress'[o] = progress[o]
         /\ \A o \in Titles : RowsOf(o, progress[o])'
<1>1. /\ DOMAIN progress' = Titles /\ progress'[t] = rows
      /\ \A o \in Titles : o # t => progress'[o] = progress[o]
  BY DEF IInv, Shapes
<1>2. \A o \in Titles : RowsOf(o, progress[o])
  BY TypeIs DEF IInv
<1> QED
  BY <1>1, <1>2 DEF RowsOf, Entries

\* Nothing is written but what is left to do.
LEMMA OnlyProc ==
  ASSUME IInv, UNCHANGED <<now, progress, list, rated, takenOut, missed>>, Counts',
         NEW p \in Procs, NEW r \in Handlers, Sound(r), proc' = [proc EXCEPT ![p] = r],
         \A t \in Known : Owes(p, t) => Owes(p, t)',
         \A t \in Known : r.t = t /\ LeansOn(r) => Promised(t)
  PROVE  IInv'
<1>1. /\ proc' \in [Procs -> Handlers] /\ proc'[p] = r
      /\ \A q \in Procs : q # p => proc'[q] = proc[q]
      /\ \A q \in Procs : Sound(proc[q])'
      /\ \A q \in Procs : \A i \in DOMAIN proc'[q].todo : proc'[q].todo[i] \in Steps
  BY ProcStep
<1>2. Shapes'
  BY <1>1 DEF IInv, Shapes
<1>3. TypeOK'
  BY <1>1 DEF IInv, TypeOK, Counts
<1>4. \A t \in Known : Promised(t) => Promised(t)'
  BY <1>1, PromiseStep DEF Placed
<1>5. EntriesPromised' /\ WritesPromised'
  BY <1>1, <1>4, PromisesKept DEF Entries
<1> QED
  BY <1>1, <1>2, <1>3, <1>5 DEF IInv

-----------------------------------------------------------------------------
(* The handlers that only change what is left to do. *)

Long == {<<"look", "write", "list">>, <<"write", "list">>, <<"seen", "mark", "list">>,
         <<"mark", "list">>, <<"list", "write">>}

LEMMA TodosDiffer ==
  /\ Todos = Long \cup {<<>>, <<"list">>, <<"score">>, <<"write">>}
  /\ \A todo \in Long : todo \notin {<<>>, <<"list">>, <<"score">>, <<"write">>}
  /\ <<>> \notin {<<"list">>, <<"score">>, <<"write">>}
  /\ <<"list">> # <<"write">> /\ <<"score">> # <<"write">> /\ <<"score">> # <<"list">>
<1>1. /\ \A todo \in Long : Len(todo) > 1
      /\ \A todo \in {<<"list">>, <<"score">>, <<"write">>} : Len(todo) = 1
      /\ Len(<<>>) = 0
  BY DEF Long
<1>2. <<"list">> # <<"write">> /\ <<"score">> # <<"write">> /\ <<"score">> # <<"list">>
  OBVIOUS
<1> QED
  BY <1>1, <1>2 DEF Todos, Long

LEMMA IdleIs ==
  Idle \in Handlers /\ Sound(Idle) /\ ~LeansOn(Idle) /\ Idle.todo = <<>>
<1>1. 0 \in 0..MaxNow
  BY HistoryAssumption
<1>2. Idle \in Handlers
  BY <1>1 DEF Idle, Handlers, Todos, Marks, Start, Opening, Middle, End
<1>4. <<>> # <<"write">>
  BY TodosDiffer
<1> QED
  BY <1>2, <1>4 DEF Idle, Sound, LeansOn

LEMMA Asks ==
  ASSUME IInv, NEW p \in Procs, NEW r, Ask(p, r), UNCHANGED faults
  PROVE  Counts' /\ proc' = [proc EXCEPT ![p] = r] /\ \A t : ~Owes(p, t)
<1>1. Counts'
  BY HistoryAssumption DEF IInv, TypeOK, Counts, Ask
<1> QED
  BY <1>1 DEF Ask, Owes

LEMMA GoesOnIs ==
  ASSUME IInv, NEW p \in Procs, NEW todo \in Todos, GoesOn(p, todo)
  PROVE  \E r \in Handlers : /\ proc' = [proc EXCEPT ![p] = r]
                             /\ todo = <<>> => r = Idle
                             /\ todo # <<>> => r = [proc[p] EXCEPT !.todo = todo]
<1> DEFINE r == IF todo = <<>> THEN Idle ELSE [proc[p] EXCEPT !.todo = todo]
<1>1. proc' = [proc EXCEPT ![p] = r]
  BY DEF GoesOn, IInv, Shapes
<1>2. r \in Handlers
  BY IdleIs DEF IInv, Shapes, Handlers
<1> QED
  BY <1>1, <1>2

LEMMA PutProgressAsks ==
  ASSUME IInv, NEW p \in Procs, NEW t \in Titles, NEW k \in KeysOf(t),
         NEW pos \in {Start, Opening, Middle, End}, NEW mark \in Marks,
         HandlePutProgress(p, t, k, pos, mark)
  PROVE  IInv'
<1> DEFINE todo == IF mark = "none" /\ pos \in {Start, Opening} THEN <<"look", "write", "list">>
                   ELSE <<"write", "list">>
           r == [Idle EXCEPT !.todo = todo, !.t = t, !.k = k, !.pos = pos, !.mark = mark,
                             !.had = Entries(t) # {}]
<1>1. Ask(p, r) /\ UNCHANGED <<now, progress, list, rated, faults, takenOut, missed>>
  BY DEF HandlePutProgress
<1>2. todo \in {<<"look", "write", "list">>, <<"write", "list">>}
  OBVIOUS
<1> HIDE DEF todo
<1>3. /\ r.todo = todo /\ r.t = t /\ r.k = k /\ r.had = (Entries(t) # {})
      /\ r.pos = pos /\ r.mark = mark /\ r.marked = {} /\ r.at = 0
      /\ r \in Handlers
  <2>1. todo \in Todos /\ k \in Keys
    BY <1>2, KeysAre DEF Todos
  <2> QED
    BY <2>1, IdleIs DEF Idle, Handlers
<1> HIDE DEF r
<1>4. Sound(r)
  BY <1>2, <1>3 DEF Sound
<1>5. \A o \in Known : r.t = o /\ LeansOn(r) => Promised(o)
  BY <1>2, <1>3, TodosDiffer DEF LeansOn, IInv, EntriesPromised, Long
<1>6. Counts' /\ proc' = [proc EXCEPT ![p] = r] /\ \A o : ~Owes(p, o)
  BY <1>1, Asks
<1> QED
  BY <1>1, <1>3, <1>4, <1>5, <1>6, OnlyProc

LEMMA WatchedThroughAsks ==
  ASSUME IInv, NEW p \in Procs, NEW t \in Titles, NEW k \in KeysOf(t) \cup {NoKey},
         HandleWatchedThrough(p, t, k)
  PROVE  IInv'
<1> DEFINE r == [Idle EXCEPT !.todo = <<"seen", "mark", "list">>, !.t = t, !.k = k,
                             !.had = Entries(t) # {}]
<1>1. Ask(p, r) /\ UNCHANGED <<now, progress, list, rated, faults, takenOut, missed>> /\ t \in Series
      /\ (k # NoKey => k[1] > 0)
  BY DEF HandleWatchedThrough
<1>3. /\ r.todo = <<"seen", "mark", "list">> /\ r.t = t /\ r.k = k /\ r.had = (Entries(t) # {})
      /\ r \in Handlers
  <2>1. k \in Keys \cup {NoKey}
    BY KeysAre
  <2> QED
    BY <2>1, IdleIs DEF Idle, Handlers, Todos
<1> HIDE DEF r
<1>4. Sound(r)
  BY <1>1, <1>3 DEF Sound
<1>5. \A o \in Known : r.t = o /\ LeansOn(r) => Promised(o)
  BY <1>3, TodosDiffer DEF LeansOn, IInv, EntriesPromised, Long
<1>6. Counts' /\ proc' = [proc EXCEPT ![p] = r] /\ \A o : ~Owes(p, o)
  BY <1>1, Asks
<1> QED
  BY <1>1, <1>3, <1>4, <1>5, <1>6, OnlyProc

LEMMA WatchedAtKeeps ==
  ASSUME IInv, NEW p \in Procs, WatchedAt(p)
  PROVE  IInv'
<1>1. proc[p].todo = <<"look", "write", "list">>
  BY DoingIs DEF IInv, WatchedAt
<1>2. PICK todo \in {<<"write", "list">>, <<"list">>} : GoesOn(p, todo)
  BY <1>1 DEF WatchedAt
<1>3. PICK r \in Handlers : /\ proc' = [proc EXCEPT ![p] = r]
                            /\ r = [proc[p] EXCEPT !.todo = todo]
  BY <1>2, GoesOnIs DEF Todos
<1>4. proc[p] \in Handlers /\ Sound(proc[p]) /\ proc' \in [Procs -> Handlers] /\ proc'[p] = r
  BY <1>3 DEF IInv, Shapes
<1>5. /\ r.todo = todo /\ r.t = proc[p].t /\ r.k = proc[p].k /\ r.had = proc[p].had
  BY <1>3, <1>4 DEF Handlers
<1>6. Sound(r)
  BY <1>1, <1>4, <1>5 DEF Sound
<1>7. UNCHANGED <<now, progress, list, rated, takenOut, missed>> /\ Counts'
  BY DEF WatchedAt, IInv, TypeOK, Counts
<1>8. \A t : ~Owes(p, t)
  BY <1>1 DEF Owes
<1>9. \A t \in Known : r.t = t /\ LeansOn(r) => Promised(t)
  BY <1>1, <1>2, <1>5, TodosDiffer DEF LeansOn, IInv, WritesPromised, Long
<1> QED
  BY <1>3, <1>6, <1>7, <1>8, <1>9, OnlyProc

\* What is marked ends with the episode named, or the last one out.
LEMMA MarkedThrough ==
  ASSUME NEW t \in Series, NEW k \in KeysOf(t) \cup {NoKey}, Marked(t, k) # {},
         k # NoKey => k \in KeysOf(t) /\ k[1] > 0 /\ Aired(t, k)
  PROVE  MarksThrough(t, k, Marked(t, k))
<1> DEFINE upTo == {e \in KeysOf(t) : e[1] # 0 /\ Aired(t, e) /\ (k # NoKey => ~Before(k, e))}
<1>1. t \in Titles /\ KeysOf(t) \subseteq Keys /\ IsFiniteSet(KeysOf(t))
  BY KeysAre, HistoryAssumption DEF Known
<1>2. upTo \subseteq KeysOf(t) /\ upTo \in SUBSET Keys /\ IsFiniteSet(upTo)
  BY <1>1, FS_Subset
<1>3. Marked(t, k) \subseteq upTo /\ \A m \in upTo : (\A o \in upTo \ {m} : Before(o, m)) => m \in Marked(t, k)
  BY DEF Marked
<1>4. upTo # {}
  BY <1>3
<1>5. \A e \in upTo : e[1] # 0 /\ (k # NoKey => ~Before(k, e))
  OBVIOUS
<1>6. k # NoKey => k \in upTo
  BY <1>1, BeforeOrders
<1> HIDE DEF upTo
<1>7. PICK m \in upTo : \A o \in upTo \ {m} : Before(o, m)
  BY <1>2, <1>4, LastBefore
<1>8. m \in Marked(t, k) /\ m[1] # 0 /\ \A o \in Marked(t, k) \ {m} : Before(o, m)
  BY <1>3, <1>5, <1>7
<1>9. k # NoKey => m = k
  BY <1>5, <1>6, <1>7
<1> QED
  BY <1>2, <1>3, <1>8, <1>9 DEF MarksThrough

LEMMA WatchedThroughKeeps ==
  ASSUME IInv, NEW p \in Procs, WatchedThrough(p)
  PROVE  IInv'
<1> DEFINE marked == Marked(proc[p].t, proc[p].k)
<1>1. /\ proc[p] \in Handlers /\ Sound(proc[p]) /\ proc[p].todo = <<"seen", "mark", "list">>
      /\ now \in 0..MaxNow /\ now <= now
  BY DoingIs DEF IInv, WatchedThrough, Shapes, TypeOK
<1>2. /\ proc[p].t \in Series /\ proc[p].k \in KeysOf(proc[p].t) \cup {NoKey}
      /\ proc[p].k # NoKey => proc[p].k \in KeysOf(proc[p].t) /\ proc[p].k[1] > 0
  BY <1>1 DEF Sound
<1>3. UNCHANGED <<now, progress, list, rated, takenOut, missed>> /\ Counts'
  BY DEF WatchedThrough, IInv, TypeOK, Counts
<1>4. \A t : ~Owes(p, t)
  BY <1>1 DEF Owes
<1>5. CASE proc[p].k # NoKey /\ ~Aired(proc[p].t, proc[p].k)
  <2>1. proc' = [proc EXCEPT ![p] = Idle]
    BY <1>5 DEF WatchedThrough
  <2> QED
    BY <1>3, <1>4, <2>1, IdleIs, OnlyProc
<1>6. CASE ~(proc[p].k # NoKey /\ ~Aired(proc[p].t, proc[p].k)) /\ marked = {}
  <2> DEFINE r == [proc[p] EXCEPT !.todo = <<"list">>]
  <2>1. proc' = [proc EXCEPT ![p] = r]
    BY <1>6 DEF WatchedThrough
  <2>2. r.t = proc[p].t /\ r.todo = <<"list">> /\ r.had = proc[p].had /\ r \in Handlers
    BY <1>1 DEF Handlers, Todos
  <2> HIDE DEF r
  <2>3. Sound(r)
    <3>1. <<"list">> \notin Long /\ <<"list">> \notin {<<>>, <<"score">>, <<"write">>}
      BY TodosDiffer
    <3>2. r.t \in Titles
      BY <1>1, <1>2, <2>2, HistoryAssumption DEF Known
    <3> QED
      BY <2>2, <3>1, <3>2 DEF Sound, Long
  <2>4. \A t \in Known : r.t = t /\ LeansOn(r) => Promised(t)
    BY <1>1, <2>2, TodosDiffer DEF LeansOn, IInv, WritesPromised, Long
  <2> QED
    BY <1>3, <1>4, <2>1, <2>2, <2>3, <2>4, OnlyProc
<1>7. CASE ~(proc[p].k # NoKey /\ ~Aired(proc[p].t, proc[p].k)) /\ marked # {}
  <2> DEFINE r == [proc[p] EXCEPT !.todo = <<"mark", "list">>, !.marked = marked, !.at = now]
  <2>1. proc' = [proc EXCEPT ![p] = r]
    <3>1. Tail(proc[p].todo) = <<"mark", "list">>
      BY <1>1
    <3>2. proc' = [proc EXCEPT ![p] =
            [proc[p] EXCEPT !.todo = Tail(proc[p].todo), !.marked = marked, !.at = now]]
      BY <1>7 DEF WatchedThrough
    <3> QED
      BY <3>1, <3>2
  <2>2. MarksThrough(proc[p].t, proc[p].k, marked)
    BY <1>2, <1>7, MarkedThrough
  <2>3. marked \in SUBSET Keys
    BY <1>2, <2>2, KeysAre, HistoryAssumption DEF MarksThrough, Known
  <2> HIDE DEF marked
  <2>4. /\ r.t = proc[p].t /\ r.todo = <<"mark", "list">> /\ r.had = proc[p].had /\ r \in Handlers
        /\ r.k = proc[p].k /\ r.marked = marked /\ r.at = now
    BY <1>1, <2>3 DEF Handlers, Todos
  <2> HIDE DEF r
  <2>5. Sound(r)
    BY <1>1, <1>2, <2>2, <2>4, TodosDiffer, HistoryAssumption DEF Sound, Long, Known
  <2>6. \A t \in Known : r.t = t /\ LeansOn(r) => Promised(t)
    BY <1>1, <2>4, TodosDiffer DEF LeansOn, IInv, WritesPromised, Long
  <2> QED
    BY <1>3, <1>4, <2>1, <2>4, <2>5, <2>6, OnlyProc
<1> QED
  BY <1>5, <1>6, <1>7

LEMMA MarkScoredKeeps ==
  ASSUME IInv, NEW p \in Procs, MarkScored(p)
  PROVE  IInv'
<1> DEFINE t == proc[p].t
           k == proc[p].k
           mark == k \notin Entries(t) /\ (k = TheTitle => t \in Films)
<1>1. proc[p] \in Handlers /\ Sound(proc[p]) /\ proc[p].todo = <<"score">>
  BY DoingIs DEF IInv, MarkScored, Shapes
<1>2. t \in Known /\ k \in KeysOf(t) \cup {TheTitle} /\ ~proc[p].had /\ t \in Titles
  BY <1>1, HistoryAssumption DEF Sound
<1>3. UNCHANGED <<now, progress, list, rated, takenOut, missed>> /\ Counts'
  BY DEF MarkScored, IInv, TypeOK, Counts
<1>4. \A o : ~Owes(p, o)
  BY <1>1, TodosDiffer DEF Owes, Long
<1>5. CASE mark
  <2> DEFINE all == IF Entries(t) = {} THEN <<"list", "write">> ELSE <<"write">>
             r == [proc[p] EXCEPT !.todo = all, !.mark = "watched"]
  <2>1. proc' = [proc EXCEPT ![p] = r]
    BY <1>5 DEF MarkScored
  <2>2. all \in {<<"list", "write">>, <<"write">>} /\ (all = <<"write">> => Entries(t) # {})
    BY TodosDiffer DEF Long
  <2> HIDE DEF all
  <2>3. r.t = t /\ r.k = k /\ r.todo = all /\ r.had = proc[p].had /\ r \in Handlers
    BY <1>1, <2>2 DEF Handlers, Todos, Marks
  <2> HIDE DEF r
  <2>4. k \in KeysOf(t)
    BY <1>2, <1>5, HistoryAssumption DEF KeysOf
  <2>5. Sound(r)
    BY <1>2, <2>2, <2>3, <2>4, TodosDiffer DEF Sound, Long
  <2>6. \A o \in Known : r.t = o /\ LeansOn(r) => Promised(o)
    BY <1>2, <2>2, <2>3, TodosDiffer DEF LeansOn, IInv, EntriesPromised, Long
  <2> QED
    BY <1>3, <1>4, <2>1, <2>3, <2>5, <2>6, OnlyProc
<1>6. CASE ~mark /\ Entries(t) # {}
  <2>1. proc' = [proc EXCEPT ![p] = Idle]
    BY <1>6 DEF MarkScored
  <2> QED
    BY <1>3, <1>4, <2>1, IdleIs, OnlyProc
<1>7. CASE ~mark /\ Entries(t) = {}
  <2> DEFINE r == [proc[p] EXCEPT !.todo = <<"list">>]
  <2>1. proc' = [proc EXCEPT ![p] = r]
    BY <1>7, TodosDiffer DEF MarkScored
  <2>2. r.t = t /\ r.todo = <<"list">> /\ r.had = proc[p].had /\ r \in Handlers
    BY <1>1 DEF Handlers, Todos
  <2> HIDE DEF r
  <2>3. Sound(r) /\ ~LeansOn(r)
    BY <1>2, <2>2, TodosDiffer DEF Sound, LeansOn, Long
  <2> QED
    BY <1>3, <1>4, <2>1, <2>2, <2>3, OnlyProc
<1> QED
  BY <1>5, <1>6, <1>7

-----------------------------------------------------------------------------
(* The calls that write. *)

\* What a step has to show, whichever tables it writes.
LEMMA StepKeeps ==
  ASSUME IInv, NEW p \in Procs, NEW r \in Handlers, Sound(r), proc' = [proc EXCEPT ![p] = r],
         now' = now, Counts',
         DOMAIN progress' = Titles, \A t \in Titles : RowsOf(t, progress[t])',
         DOMAIN rated' = Titles, \A t \in Titles : rated'[t] \subseteq KeysOf(t) \cup {TheTitle},
         Lists', \A t \in Known : Placed(t) => Placed(t)',
         \A t \in Known : Owes(p, t) => Owes(p, t)' \/ Placed(t)',
         \A t \in Known : Entries(t)' # {} => Entries(t) # {} \/ Promised(t)',
         \A t \in Known : r.t = t /\ LeansOn(r) => Promised(t) \/ Placed(t)'
  PROVE  IInv'
<1>1. /\ proc' \in [Procs -> Handlers] /\ proc'[p] = r
      /\ \A q \in Procs : q # p => proc'[q] = proc[q]
      /\ \A q \in Procs : Sound(proc[q])'
      /\ \A q \in Procs : \A i \in DOMAIN proc'[q].todo : proc'[q].todo[i] \in Steps
  BY ProcStep
<1>2. Shapes'
  BY <1>1 DEF Shapes
<1>3. TypeOK'
  <2>1. now' \in 0..MaxNow
    BY DEF IInv, TypeOK
  <2>2. \A t \in Titles : /\ DOMAIN progress'[t] \subseteq KeysOf(t)
                          /\ \A k \in DOMAIN progress'[t] : progress'[t][k] \in Entry
                                                            /\ progress'[t][k].at <= now'
    BY DEF RowsOf
  <2>3. DOMAIN list' \subseteq Known /\ \A t \in DOMAIN list' : list'[t] \in 0..now'
    BY DEF Lists
  <2> QED
    BY <1>1, <2>1, <2>2, <2>3 DEF TypeOK, Counts
<1>4. \A t \in Known : Promised(t) => Promised(t)'
  BY <1>1, PromiseStep
<1>5. \A t \in Known : Placed(t)' => Promised(t)'
  BY DEF Promised
<1>6. EntriesPromised' /\ WritesPromised'
  BY <1>1, <1>4, <1>5, PromisesKept
<1> QED
  BY <1>1, <1>2, <1>3, <1>6 DEF IInv

\* What a step has of the tables it leaves alone.
LEMMA TablesAre ==
  ASSUME IInv, now' = now
  PROVE  /\ progress' = progress => DOMAIN progress' = Titles /\ \A t \in Titles : RowsOf(t, progress[t])'
         /\ rated' = rated => /\ DOMAIN rated' = Titles
                              /\ \A t \in Titles : rated'[t] \subseteq KeysOf(t) \cup {TheTitle}
         /\ list' = list => Lists'
         /\ progress' = progress => \A t \in Titles : Entries(t)' = Entries(t)
BY TypeIs DEF IInv, Shapes, RowsOf, Lists, Entries

LEMMA KnownAre == ASSUME NEW t \in Known PROVE t \in Titles
BY HistoryAssumption

LEMMA ListIsIn ==
  ASSUME IInv, now' = now, NEW t \in Known, Add(t)
  PROVE  Lists' /\ t \in DOMAIN list' /\ DOMAIN list \subseteq DOMAIN list' /\ missed' = missed \ {t}
<1>1. Lists /\ now \in 0..now
  BY TypeIs DEF IInv, TypeOK
<1>2. list' = (IF t \in DOMAIN list THEN list ELSE With(list, t, now)) /\ missed' = missed \ {t}
  BY DEF Add, AddToList
<1> QED
  BY <1>1, <1>2 DEF Lists, With

LEMMA ListWhatIsWatchedKeeps ==
  ASSUME IInv, NEW p \in Procs, ListWhatIsWatched(p)
  PROVE  IInv'
<1> DEFINE h == proc[p]
<1>1. h \in Handlers /\ Sound(h) /\ h.todo \in {<<"list">>, <<"list", "write">>} /\ h.t \in Titles
  <2>1. h \in Handlers /\ Sound(h) /\ h.todo \in {<<"list">>, <<"list", "write">>}
    BY DoingIs DEF IInv, ListWhatIsWatched, Shapes
  <2>2. h.todo # <<>>
    BY <2>1, TodosDiffer DEF Long
  <2> QED
    BY <2>1, <2>2 DEF Sound
<1>2. PICK todo \in {<<>>, <<"write">>} : GoesOn(p, todo) /\ (todo = <<"write">> => h.todo = <<"list", "write">>)
  <2>1. GoesOn(p, Tail(h.todo))
    BY DEF ListWhatIsWatched
  <2>2. CASE h.todo = <<"list">>
    <3>1. Tail(h.todo) = <<>>
      BY <2>2
    <3> QED
      BY <2>1, <3>1, TodosDiffer
  <2>3. CASE h.todo = <<"list", "write">>
    <3>1. Tail(h.todo) = <<"write">>
      BY <2>3
    <3> QED
      BY <2>1, <2>3, <3>1
  <2> QED
    BY <1>1, <2>2, <2>3
<1>3. PICK r \in Handlers : /\ proc' = [proc EXCEPT ![p] = r]
                            /\ todo = <<>> => r = Idle
                            /\ todo # <<>> => r = [h EXCEPT !.todo = todo]
  BY <1>2, GoesOnIs DEF Todos
<1>5. r.todo = todo /\ (todo = <<"write">> => r.t = h.t /\ r.k = h.k /\ r.had = h.had)
  BY <1>1, <1>2, <1>3, IdleIs, TodosDiffer DEF Handlers
<1>6. Sound(r)
  BY <1>1, <1>2, <1>3, <1>5, IdleIs, TodosDiffer DEF Sound, Long
<1>7. now' = now /\ Counts' /\ UNCHANGED <<progress, rated, takenOut>>
  BY DEF ListWhatIsWatched, IInv, TypeOK, Counts
<1>8. /\ Lists' /\ \A t \in Known : Placed(t) => Placed(t)'
      /\ h.t \in Known => h.had \/ h.t \in DOMAIN list'
  <2>1. IF h.had THEN UNCHANGED <<list, missed>> ELSE Add(h.t)
    BY DEF ListWhatIsWatched
  <2>2. CASE h.had \/ h.t \notin Known
    <3>1. UNCHANGED <<list, missed>>
      BY <2>1, <2>2 DEF Add
    <3> QED
      BY <1>7, <2>2, <3>1, TablesAre DEF Placed
  <2>3. CASE ~h.had /\ h.t \in Known
    BY <1>7, <2>1, <2>3, ListIsIn DEF Placed
  <2> QED
    BY <2>2, <2>3
<1>9. \A t \in Known : Owes(p, t) => Placed(t)'
  BY <1>8 DEF Owes, Placed
<1>10. \A t \in Known : r.t = t /\ LeansOn(r) => Promised(t) \/ Placed(t)'
  <2>1. CASE todo = <<>>
    BY <1>3, <2>1, IdleIs
  <2>2. CASE todo = <<"write">>
    <3>1. h.todo # <<>>
      BY <1>1, TodosDiffer DEF Long
    <3> QED
      BY <1>5, <1>8, <2>2, <3>1 DEF IInv, WritesPromised, LeansOn, Placed
  <2> QED
    BY <2>1, <2>2
<1> QED
  BY <1>3, <1>6, <1>7, <1>8, <1>9, <1>10, TablesAre, StepKeeps, KnownAre

\* UpsertProgress keeps the watched mark of an entry there, unless it is told one.
LEMMA UpsertedIs ==
  ASSUME NEW t, NEW k, NEW mark, NEW e \in Entry, Upserted(t, k, e, mark),
         k \in DOMAIN progress[t] => progress[t][k] \in Entry
  PROVE  \E f \in Entry : /\ f.at = e.at
                          /\ progress' = [progress EXCEPT ![t] = With(progress[t], k, f)]
                          /\ mark = "none" /\ k \in DOMAIN progress[t] /\ progress[t][k].watched => f.watched
<1> DEFINE w == IF mark = "none" /\ k \in DOMAIN progress[t] THEN progress[t][k].watched \/ e.watched ELSE e.watched
           f == [e EXCEPT !.watched = w]
<1>1. progress' = [progress EXCEPT ![t] = With(progress[t], k, f)]
  BY Zenon DEF Upserted
<1>2. e.watched \in BOOLEAN /\ (k \in DOMAIN progress[t] => progress[t][k].watched \in BOOLEAN)
  BY DEF Entry
<1>3. w \in BOOLEAN /\ (mark = "none" /\ k \in DOMAIN progress[t] /\ progress[t][k].watched => w)
  BY <1>2, Zenon
<1> HIDE DEF w
<1>4. f \in Entry /\ f.at = e.at /\ f.watched = w
  BY <1>3 DEF Entry
<1> HIDE DEF f
<1> QED
  BY <1>1, <1>3, <1>4

\* A report is written with its mark, and what a play had is kept.
LEMMA PutWritesIs ==
  ASSUME IInv, NEW p \in Procs, PutWrites(p)
  PROVE  LET h == proc[p]
             rows == progress[h.t]
         IN  /\ h.t \in Titles /\ h.k \in KeysOf(h.t)
             /\ \E e \in Entry : /\ e.at = now
                                 /\ progress' = [progress EXCEPT ![h.t] = With(rows, h.k, e)]
                                 /\ h.mark = "none" /\ h.k \in DOMAIN rows /\ rows[h.k].watched => e.watched
<1> DEFINE h == proc[p]
           rows == progress[h.t]
           finished == IF h.mark = "none" THEN h.pos = End ELSE h.mark = "watched"
           pos == IF finished \/ h.mark # "none" THEN Start ELSE h.pos
           d == [pos |-> pos, watched |-> finished, at |-> now, hidden |-> FALSE]
<1>1. h \in Handlers /\ Sound(h) /\ h.todo \in {<<"write", "list">>, <<"write">>}
  BY DoingIs DEF IInv, PutWrites, Shapes
<1>2. h.todo # <<>>
  BY <1>1, TodosDiffer DEF Long
<1>3. h.t \in Titles /\ h.k \in KeysOf(h.t)
  BY <1>1, <1>2 DEF Sound
<1>4. Upserted(h.t, h.k, d, h.mark)
  BY DEF PutWrites
<1>5. d \in Entry
  <2>1. h.pos \in {Start, Opening, Middle, End} /\ now \in 0..MaxNow
    BY <1>1 DEF Handlers, IInv, TypeOK
  <2>2. h.mark = "none" /\ h.pos = End => finished
    OBVIOUS
  <2>3. finished \in BOOLEAN
    OBVIOUS
  <2> HIDE DEF finished, h
  <2>4. pos \in {Start, Opening, Middle}
    BY <2>1, <2>2
  <2> HIDE DEF pos
  <2> QED
    BY <2>1, <2>3, <2>4 DEF Entry
<1>6. h.k \in DOMAIN rows => rows[h.k] \in Entry
  BY <1>3, TypeIs DEF IInv, RowsOf
<1>7. d.at = now
  OBVIOUS
<1> HIDE DEF d
<1> QED
  BY <1>3, <1>4, <1>5, <1>6, <1>7, UpsertedIs

LEMMA PutWritesKeeps ==
  ASSUME IInv, NEW p \in Procs, PutWrites(p)
  PROVE  IInv'
<1> DEFINE h == proc[p]
<1>1. h \in Handlers /\ Sound(h) /\ h.todo \in {<<"write", "list">>, <<"write">>}
  BY DoingIs DEF IInv, PutWrites, Shapes
<1>2. PICK todo \in {<<"list">>, <<>>} :
        /\ GoesOn(p, todo)
        /\ h.todo = <<"write", "list">> <=> todo = <<"list">>
  <2>1. GoesOn(p, Tail(h.todo))
    BY DEF PutWrites
  <2>2. CASE h.todo = <<"write", "list">>
    <3>1. Tail(h.todo) = <<"list">>
      BY <2>2
    <3> QED
      BY <2>1, <2>2, <3>1
  <2>3. CASE h.todo = <<"write">>
    <3>1. Tail(h.todo) = <<>>
      BY <2>3
    <3> QED
      BY <2>1, <2>3, <3>1, TodosDiffer DEF Long
  <2> QED
    BY <1>1, <2>2, <2>3
<1>3. PICK r \in Handlers : /\ proc' = [proc EXCEPT ![p] = r]
                            /\ todo = <<>> => r = Idle
                            /\ todo # <<>> => r = [h EXCEPT !.todo = todo]
  <2>1. todo \in Todos
    BY TodosDiffer
  <2> QED
    BY <1>2, <2>1, GoesOnIs
<1>4. now' = now /\ Counts' /\ UNCHANGED <<list, rated, takenOut, missed>>
  BY DEF PutWrites, IInv, TypeOK, Counts
<1>5. PICK e \in Entry : h.t \in Titles /\ h.k \in KeysOf(h.t) /\ e.at = now
                         /\ progress' = [progress EXCEPT ![h.t] = With(progress[h.t], h.k, e)]
  BY PutWritesIs
<1>6. RowsOf(h.t, With(progress[h.t], h.k, e)) /\ DOMAIN With(progress[h.t], h.k, e) = Entries(h.t) \cup {h.k}
  <2>1. RowsOf(h.t, progress[h.t]) /\ now \in 0..MaxNow
    BY <1>5, TypeIs DEF IInv, TypeOK
  <2> QED
    BY <1>5, <2>1 DEF RowsOf, With, Entries
<1>7. /\ DOMAIN progress' = Titles
      /\ \A o \in Titles : o # h.t => progress'[o] = progress[o]
      /\ \A o \in Titles : RowsOf(o, progress[o])'
  BY <1>4, <1>5, <1>6, RowsReplaced
<1>8. r.todo = todo /\ (todo = <<"list">> => r.t = h.t /\ r.k = h.k /\ r.had = h.had)
  BY <1>1, <1>2, <1>3, IdleIs, TodosDiffer DEF Handlers
<1>9. Sound(r)
  <2>1. CASE todo = <<>>
    BY <1>3, <2>1, IdleIs
  <2>2. CASE todo = <<"list">>
    BY <1>1, <1>5, <1>8, <2>2, TodosDiffer DEF Sound, Long
  <2> QED
    BY <2>1, <2>2
<1>10. proc'[p] = r
  BY <1>3 DEF IInv, Shapes
<1>11. \A t \in Known : Owes(p, t) => Owes(p, t)'
  <2>1. h.todo \notin {<<"list">>, <<"list", "write">>}
    BY <1>1, TodosDiffer DEF Long
  <2> QED
    BY <2>1 DEF Owes
<1>12. \A t \in Known : r.t = t /\ LeansOn(r) => Promised(t)
  <2>1. CASE todo = <<>>
    BY <1>3, <2>1, IdleIs
  <2>2. CASE todo = <<"list">>
    <3>1. h.todo # <<>> /\ r.todo # <<"write">>
      BY <1>1, <1>8, <2>2, TodosDiffer DEF Long
    <3> QED
      BY <1>8, <2>2, <3>1 DEF IInv, WritesPromised, LeansOn
  <2> QED
    BY <2>1, <2>2
<1>13. ASSUME NEW t \in Known, Entries(t)' # {} PROVE Entries(t) # {} \/ Promised(t)'
  <2>1. CASE t # h.t
    <3>1. progress'[t] = progress[t]
      BY <1>7, <2>1, KnownAre
    <3> QED
      BY <1>13, <3>1 DEF Entries
  <2>2. CASE t = h.t
    <3>1. CASE ~h.had /\ h.todo = <<"write", "list">>
      <4>1. Owes(p, t)'
        BY <1>2, <1>8, <1>10, <2>2, <3>1 DEF Owes
      <4> QED
        BY <4>1 DEF Promised
    <3>2. CASE h.had \/ h.todo = <<"write">>
      <4>1. h.todo # <<>>
        BY <1>1, TodosDiffer DEF Long
      <4>2. Promised(t)
        BY <2>2, <3>2, <4>1 DEF IInv, WritesPromised, LeansOn
      <4>3. \A q \in Procs : q # p => proc'[q] = proc[q]
        BY <1>3 DEF IInv, Shapes
      <4>4. Placed(t) => Placed(t)'
        BY <1>4 DEF Placed
      <4> QED
        BY <1>11, <4>2, <4>3, <4>4, PromiseStep
    <3> QED
      BY <1>1, <3>1, <3>2
  <2> QED
    BY <2>1, <2>2
<1> QED
  BY <1>3, <1>4, <1>7, <1>9, <1>11, <1>12, <1>13, TablesAre, StepKeeps DEF Placed

LEMMA MarkWatchedIs ==
  ASSUME IInv, NEW p \in Procs, MarkWatched(p)
  PROVE  LET h == proc[p]
             e == [pos |-> Start, watched |-> TRUE, at |-> h.at, hidden |-> FALSE]
             rows == [k \in Entries(h.t) \cup h.marked |-> IF k \in h.marked THEN e ELSE progress[h.t][k]]
         IN  /\ h \in Handlers /\ Sound(h) /\ h.todo = <<"mark", "list">>
             /\ h.t \in Series /\ h.t \in Titles /\ h.marked \subseteq KeysOf(h.t)
             /\ e \in Entry /\ h.at <= now /\ h.at \in Nat /\ now' = now
             /\ progress' = [progress EXCEPT ![h.t] = rows]
             /\ RowsOf(h.t, rows)
<1> DEFINE h == proc[p]
           e == [pos |-> Start, watched |-> TRUE, at |-> h.at, hidden |-> FALSE]
           rows == [k \in Entries(h.t) \cup h.marked |-> IF k \in h.marked THEN e ELSE progress[h.t][k]]
<1>1. h \in Handlers /\ Sound(h) /\ h.todo = <<"mark", "list">> /\ now' = now
  BY DoingIs DEF IInv, MarkWatched, Shapes
<1>2. h.t \in Series /\ h.t \in Titles /\ h.marked \subseteq KeysOf(h.t) /\ h.at <= now
  BY <1>1, HistoryAssumption DEF Sound, MarksThrough, Known
<1>3. h.at \in 0..MaxNow /\ h.at \in Nat
  BY <1>1, HistoryAssumption DEF Handlers
<1>4. e \in Entry
  BY <1>3 DEF Entry
<1>5. progress' = [progress EXCEPT ![h.t] = rows]
  BY DEF MarkWatched, Entries
<1>6. e.at = h.at
  OBVIOUS
<1> HIDE DEF e
<1>7. RowsOf(h.t, rows)
  <2>1. RowsOf(h.t, progress[h.t])
    BY <1>2, TypeIs DEF IInv
  <2> QED
    BY <1>2, <1>4, <1>6, <2>1 DEF RowsOf, Entries
<1> QED
  BY <1>1, <1>2, <1>3, <1>4, <1>5, <1>7 DEF e

LEMMA MarkWatchedKeeps ==
  ASSUME IInv, NEW p \in Procs, MarkWatched(p)
  PROVE  IInv'
<1> DEFINE h == proc[p]
           e == [pos |-> Start, watched |-> TRUE, at |-> h.at, hidden |-> FALSE]
           rows == [k \in Entries(h.t) \cup h.marked |-> IF k \in h.marked THEN e ELSE progress[h.t][k]]
<1>1. /\ h \in Handlers /\ Sound(h) /\ h.todo = <<"mark", "list">>
      /\ h.t \in Titles /\ now' = now /\ progress' = [progress EXCEPT ![h.t] = rows] /\ RowsOf(h.t, rows)
  BY MarkWatchedIs
<1> HIDE DEF rows
<1>2. GoesOn(p, <<"list">>)
  <2>1. Tail(h.todo) = <<"list">>
    BY <1>1
  <2> QED
    BY <2>1 DEF MarkWatched
<1>3. <<"list">> \in Todos /\ <<"list">> # <<>> /\ <<"list">> \notin Long
  BY TodosDiffer
<1>4. PICK r \in Handlers : proc' = [proc EXCEPT ![p] = r] /\ r = [h EXCEPT !.todo = <<"list">>]
  BY <1>2, <1>3, GoesOnIs
<1>5. /\ r.todo = <<"list">> /\ r.t = h.t /\ r.had = h.had /\ proc'[p] = r
      /\ \A q \in Procs : q # p => proc'[q] = proc[q]
  BY <1>1, <1>4 DEF Handlers, IInv, Shapes
<1>6. Sound(r)
  BY <1>1, <1>3, <1>5, TodosDiffer DEF Sound, Long
<1>7. Counts' /\ UNCHANGED <<list, rated, takenOut, missed>>
  BY DEF MarkWatched, IInv, TypeOK, Counts
<1>8. /\ DOMAIN progress' = Titles
      /\ \A o \in Titles : o # h.t => progress'[o] = progress[o]
      /\ \A o \in Titles : RowsOf(o, progress[o])'
  BY <1>1, RowsReplaced
<1>9. \A t : ~Owes(p, t)
  BY <1>1 DEF Owes
<1>10. \A t \in Known : h.t = t => Promised(t)'
  <2> TAKE t \in Known
  <2>1. CASE h.t = t /\ h.had
    <3>1. h.todo # <<>>
      BY <1>1, TodosDiffer DEF Long
    <3>2. Promised(t)
      BY <2>1, <3>1 DEF IInv, WritesPromised, LeansOn
    <3> QED
      BY <1>5, <1>7, <1>9, <3>2, PromiseStep DEF Placed
  <2>2. CASE h.t = t /\ ~h.had
    <3>1. Owes(p, t)'
      BY <1>5, <2>2 DEF Owes
    <3> QED
      BY <3>1 DEF Promised
  <2> QED
    BY <2>1, <2>2
<1>11. \A t \in Known : Entries(t)' # {} => Entries(t) # {} \/ Promised(t)'
  BY <1>8, <1>10, KnownAre DEF Entries
<1>12. \A t \in Known : r.t = t /\ LeansOn(r) => Promised(t)
  <2>1. h.todo # <<>> /\ r.todo # <<"write">>
    BY <1>1, <1>5, TodosDiffer DEF Long
  <2> QED
    BY <1>5, <2>1 DEF IInv, WritesPromised, LeansOn
<1> QED
  BY <1>1, <1>4, <1>6, <1>7, <1>8, <1>9, <1>11, <1>12, TablesAre, StepKeeps DEF Placed

\* A request answered at once is left with nothing to do.
LEMMA AskedIdle ==
  ASSUME IInv, NEW p \in Procs, Ask(p, Idle), UNCHANGED faults
  PROVE  /\ Counts' /\ proc' = [proc EXCEPT ![p] = Idle]
         /\ Idle \in Handlers /\ Sound(Idle) /\ ~LeansOn(Idle) /\ \A t : ~Owes(p, t)
BY Asks, IdleIs

LEMMA RateKeeps ==
  ASSUME IInv, NEW p \in Procs, NEW t \in Titles, NEW k \in KeysOf(t) \cup {TheTitle}, HandleRate(p, t, k)
  PROVE  IInv'
<1> DEFINE r == [Idle EXCEPT !.todo = <<"score">>, !.t = t, !.k = k]
<1>1. Ask(p, r) /\ t \in Known /\ rated' = [rated EXCEPT ![t] = @ \cup {k}]
      /\ UNCHANGED <<now, progress, list, faults, takenOut, missed>>
  BY DEF HandleRate, SetRating
<1>2. r.todo = <<"score">> /\ r.t = t /\ r.k = k /\ ~r.had /\ r \in Handlers
  <2>1. k \in Keys
    BY KeysAre
  <2> QED
    BY <2>1, IdleIs DEF Idle, Handlers, Todos
<1> HIDE DEF r
<1>3. Sound(r) /\ ~LeansOn(r)
  BY <1>1, <1>2, TodosDiffer DEF Sound, LeansOn, Long
<1>4. Counts' /\ proc' = [proc EXCEPT ![p] = r] /\ \A o : ~Owes(p, o)
  BY <1>1, Asks
<1>5. DOMAIN rated' = Titles /\ \A o \in Titles : rated'[o] \subseteq KeysOf(o) \cup {TheTitle}
  BY <1>1, TypeIs DEF IInv, Shapes
<1> QED
  BY <1>1, <1>2, <1>3, <1>4, <1>5, TablesAre, StepKeeps, KnownAre DEF Placed

LEMMA UnrateKeeps ==
  ASSUME IInv, NEW p \in Procs, NEW t \in Titles, NEW k, HandleUnrate(p, t, k)
  PROVE  IInv'
<1>1. Ask(p, Idle) /\ rated' = [rated EXCEPT ![t] = @ \ {k}] /\ UNCHANGED <<now, progress, list, faults, takenOut, missed>>
  BY DEF HandleUnrate
<1>2. DOMAIN rated' = Titles /\ \A o \in Titles : rated'[o] \subseteq KeysOf(o) \cup {TheTitle}
  BY <1>1, TypeIs DEF IInv, Shapes
<1> QED
  BY <1>1, <1>2, AskedIdle, TablesAre, StepKeeps, KnownAre DEF Placed

\* Rows of a title that had entries are replaced by a request.
LEMMA RowsKeep ==
  ASSUME IInv, NEW p \in Procs, NEW t \in Titles, NEW rows, RowsOf(t, rows), Entries(t) # {},
         Ask(p, Idle), progress' = [progress EXCEPT ![t] = rows],
         UNCHANGED <<now, list, rated, faults, takenOut, missed>>
  PROVE  IInv'
<1>1. /\ DOMAIN progress' = Titles
      /\ \A o \in Titles : o # t => progress'[o] = progress[o]
      /\ \A o \in Titles : RowsOf(o, progress[o])'
  BY RowsReplaced
<1>2. \A o \in Known : Entries(o)' # {} => Entries(o) # {}
  BY <1>1, KnownAre DEF Entries
<1> QED
  BY <1>1, <1>2, AskedIdle, TablesAre, StepKeeps DEF Placed

LEMMA DeleteProgressKeeps ==
  ASSUME IInv, NEW p \in Procs, NEW t \in Titles, NEW k, HandleDeleteProgress(p, t, k)
  PROVE  IInv'
<1> DEFINE keys == IF k = NoKey THEN Entries(t) ELSE {k}
           rows == [e \in Entries(t) \ keys |-> progress[t][e]]
<1>1. RowsOf(t, progress[t]) /\ DOMAIN progress = Titles
  BY TypeIs DEF IInv, Shapes
<1>2. RowsOf(t, rows)
  <2> HIDE DEF keys
  <2> QED
    BY <1>1 DEF RowsOf, Entries
<1>3. progress' = [progress EXCEPT ![t] = rows]
  <2>1. DeleteProgress(t, keys)
    BY DEF HandleDeleteProgress
  <2> HIDE DEF keys
  <2> QED
    BY <1>1, <2>1 DEF DeleteProgress, Entries
<1> HIDE DEF rows
<1> QED
  BY <1>2, <1>3, RowsKeep DEF HandleDeleteProgress

LEMMA HideKeeps ==
  ASSUME IInv, NEW p \in Procs, NEW t \in Titles, HandleHideFromContinue(p, t)
  PROVE  IInv'
<1> DEFINE rows == [k \in Entries(t) |-> [progress[t][k] EXCEPT !.hidden = TRUE]]
<1>1. RowsOf(t, progress[t]) /\ DOMAIN progress = Titles
  BY TypeIs DEF IInv, Shapes
<1>2. ASSUME NEW e \in Entry PROVE [e EXCEPT !.hidden = TRUE] \in Entry /\ [e EXCEPT !.hidden = TRUE].at = e.at
  BY DEF Entry
<1>3. RowsOf(t, rows)
  BY <1>1, <1>2 DEF RowsOf, Entries
<1>4. progress' = [progress EXCEPT ![t] = rows]
  BY DEF HandleHideFromContinue, Entries
<1> HIDE DEF rows
<1> QED
  BY <1>3, <1>4, RowsKeep DEF HandleHideFromContinue

LEMMA AddToListKeeps ==
  ASSUME IInv, NEW p \in Procs, NEW t \in Titles, HandleAddToList(p, t)
  PROVE  IInv'
<1>1. Ask(p, Idle) /\ Add(t) /\ takenOut' = takenOut \ {t} /\ UNCHANGED <<now, progress, rated, faults>>
  BY DEF HandleAddToList
<1>2. Lists' /\ \A o \in Known : Placed(o) => Placed(o)'
  <2>1. CASE t \in Known
    BY <1>1, <2>1, ListIsIn DEF Placed
  <2>2. CASE t \notin Known
    BY <1>1, <2>2, TablesAre DEF Add, Placed
  <2> QED
    BY <2>1, <2>2
<1> QED
  BY <1>1, <1>2, AskedIdle, TablesAre, StepKeeps, KnownAre

LEMMA RemoveFromListKeeps ==
  ASSUME IInv, NEW p \in Procs, NEW t \in Titles, HandleRemoveFromList(p, t)
  PROVE  IInv'
<1>1. /\ Ask(p, Idle) /\ list' = [o \in DOMAIN list \ {t} |-> list[o]]
      /\ takenOut' = takenOut \cup {t} /\ UNCHANGED <<now, progress, rated, faults, missed>>
  BY DEF HandleRemoveFromList
<1>2. Lists
  BY TypeIs DEF IInv
<1>3. Lists' /\ \A o \in Known : Placed(o) => Placed(o)'
  BY <1>1, <1>2 DEF Lists, Placed
<1> QED
  BY <1>1, <1>3, AskedIdle, TablesAre, StepKeeps, KnownAre

\* A handler whose call fails has nothing left to do, or goes on past adding to
\* the list a title that is then missed.
LEMMA FailsKeeps ==
  ASSUME IInv, NEW p \in Procs, Fails(p)
  PROVE  IInv'
<1> DEFINE h == proc[p]
           adds == Doing(p, "list") /\ ~h.had
<1>1. h \in Handlers /\ Sound(h) /\ h.todo # <<>> /\ h.t \in Titles
  BY DEF Fails, IInv, Shapes, Sound
<1>2. /\ Counts' /\ UNCHANGED <<now, progress, list, rated, takenOut>>
      /\ missed' = IF adds /\ h.t \in Known \ DOMAIN list THEN missed \cup {h.t} ELSE missed
  BY HistoryAssumption DEF Fails, IInv, TypeOK, Counts
<1>3. \A t \in Known : Placed(t) => Placed(t)'
  BY <1>2 DEF Placed
<1>4. \A t \in Known : adds /\ h.t = t => Placed(t)'
  BY <1>2 DEF Placed
<1>5. \A t \in Known : Owes(p, t) => adds /\ h.t = t
  BY DEF Owes, Doing
<1>6. adds => h.todo \in {<<"list">>, <<"list", "write">>}
  BY DoingIs DEF IInv
<1>7. GoesOn(p, IF adds THEN Tail(h.todo) ELSE <<>>)
  BY DEF Fails
<1> HIDE DEF adds
<1>8. CASE adds /\ h.todo = <<"list", "write">>
  <2> DEFINE r == [h EXCEPT !.todo = <<"write">>]
  <2>1. GoesOn(p, <<"write">>)
    <3>1. Tail(h.todo) = <<"write">>
      BY <1>8
    <3> QED
      BY <1>7, <1>8, <3>1
  <2>2. proc' = [proc EXCEPT ![p] = r] /\ r \in Handlers
    BY <2>1, GoesOnIs, TodosDiffer DEF Todos
  <2>3. r.todo = <<"write">> /\ r.t = h.t /\ r.k = h.k
    BY <1>1 DEF Handlers
  <2> HIDE DEF r
  <2>4. Sound(r)
    BY <1>1, <1>8, <2>3, TodosDiffer DEF Sound, Long
  <2> QED
    BY <1>2, <1>3, <1>4, <1>5, <1>8, <2>2, <2>3, <2>4, TablesAre, StepKeeps, KnownAre
<1>9. CASE ~(adds /\ h.todo = <<"list", "write">>)
  <2>1. GoesOn(p, <<>>)
    <3>1. CASE adds
      <4>1. h.todo = <<"list">>
        BY <1>6, <1>9, <3>1
      <4>2. Tail(h.todo) = <<>>
        BY <4>1
      <4> QED
        BY <1>7, <3>1, <4>2
    <3>2. CASE ~adds
      BY <1>7, <3>2
    <3> QED
      BY <3>1, <3>2
  <2>2. proc' = [proc EXCEPT ![p] = Idle]
    BY <2>1, GoesOnIs DEF Todos
  <2> QED
    BY <1>2, <1>3, <1>4, <1>5, <2>2, IdleIs, TablesAre, StepKeeps, KnownAre
<1> QED
  BY <1>8, <1>9

\* What a handler that is cut off was about to add is missed.
LEMMA StopKeeps ==
  ASSUME IInv, Stop
  PROVE  IInv'
<1>1. /\ Counts' /\ UNCHANGED <<now, progress, list, rated, takenOut>> /\ proc' = [p \in Procs |-> Idle]
      /\ missed' = missed \cup ({proc[p].t : p \in {q \in Procs : Doing(q, "list") /\ ~proc[q].had}}
                               \cap (Known \ DOMAIN list))
  BY HistoryAssumption DEF Stop, IInv, TypeOK, Counts
<1>2. ASSUME NEW t \in Known, Promised(t) PROVE Placed(t)'
  <2>1. CASE Placed(t)
    BY <1>1, <2>1 DEF Placed
  <2>2. CASE \E p \in Procs : Owes(p, t)
    <3>1. PICK p \in Procs : Owes(p, t)
      BY <2>2
    <3>2. Doing(p, "list") /\ ~proc[p].had /\ proc[p].t = t
      BY <3>1 DEF Owes, Doing
    <3> QED
      BY <1>1, <3>2 DEF Placed
  <2> QED
    BY <1>2, <2>1, <2>2 DEF Promised
<1>3. \A p \in Procs : proc'[p] = Idle
  BY <1>1
<1>4. Shapes' /\ \A p \in Procs : Sound(proc[p])'
  <2>1. Shapes'
    BY <1>1, IdleIs DEF IInv, Shapes
  <2>2. ASSUME NEW p \in Procs PROVE Sound(proc[p])'
    BY <1>3, IdleIs, TodosDiffer DEF Sound, Long
  <2> QED
    BY <2>1, <2>2
<1>5. TypeOK'
  <2>1. \A p \in Procs : proc'[p].todo = <<>>
    BY <1>3, IdleIs
  <2> QED
    BY <1>1, <2>1 DEF IInv, TypeOK, Counts
<1>6. EntriesPromised'
  BY <1>1, <1>2 DEF IInv, EntriesPromised, Promised, Entries
<1>7. WritesPromised'
  BY <1>3, IdleIs DEF WritesPromised, LeansOn
<1> QED
  BY <1>4, <1>5, <1>6, <1>7 DEF IInv

LEMMA TickKeeps ==
  ASSUME IInv, Tick
  PROVE  IInv'
<1>1. now \in 0..MaxNow /\ now' = now + 1 /\ now' \in 0..MaxNow /\ now \in Nat
      /\ UNCHANGED <<progress, list, rated, proc, asked, faults, takenOut, missed>>
  BY HistoryAssumption DEF IInv, TypeOK, Counts, Tick
<1>2. Shapes' /\ EntriesPromised' /\ WritesPromised'
  BY <1>1 DEF IInv, Shapes, EntriesPromised, WritesPromised, Promised, Placed, Owes, Entries
<1>3. ASSUME NEW p \in Procs PROVE Sound(proc[p])'
  <2>1. proc[p].at \in 0..MaxNow /\ Sound(proc[p])
    BY DEF IInv, Shapes, Handlers
  <2> QED
    BY <1>1, <2>1 DEF Sound
<1>4. TypeOK'
  <2>1. ASSUME NEW t \in Titles PROVE RowsOf(t, progress[t])'
    <3>1. RowsOf(t, progress[t])
      BY TypeIs DEF IInv
    <3>2. ASSUME NEW k \in DOMAIN progress[t] PROVE progress[t][k].at <= now'
      BY <1>1, <3>1, <3>2, HistoryAssumption DEF RowsOf, Entry
    <3> QED
      BY <1>1, <3>1, <3>2 DEF RowsOf
  <2>2. Lists'
    <3>1. Lists
      BY TypeIs DEF IInv
    <3> QED
      BY <1>1, <3>1 DEF Lists
  <2>3. \A t \in Titles : /\ DOMAIN progress'[t] \subseteq KeysOf(t)
                          /\ \A k \in DOMAIN progress'[t] : progress'[t][k] \in Entry
                                                            /\ progress'[t][k].at <= now'
    BY <2>1 DEF RowsOf
  <2>4. DOMAIN list' \subseteq Known /\ \A t \in DOMAIN list' : list'[t] \in 0..now'
    BY <2>2 DEF Lists
  <2> QED
    BY <1>1, <2>3, <2>4 DEF TypeOK, Counts, IInv
<1> QED
  BY <1>2, <1>3, <1>4 DEF IInv

-----------------------------------------------------------------------------
LEMMA InitInv == Init => IInv
<1> SUFFICES ASSUME Init PROVE IInv
  OBVIOUS
<1>1. Shapes /\ \A p \in Procs : proc[p] = Idle
  BY IdleIs DEF Init, Shapes
<1>2. TypeOK
  <2>1. \A p \in Procs : proc[p].todo = <<>>
    BY <1>1, IdleIs
  <2>2. \A t \in Titles : DOMAIN progress[t] = {} /\ rated[t] = {}
    BY DEF Init, Nothing
  <2>3. DOMAIN list = {} /\ now \in 0..MaxNow /\ Counts
    BY HistoryAssumption DEF Init, Nothing, Counts
  <2> QED
    BY <2>1, <2>2, <2>3 DEF TypeOK, Counts
<1>3. EntriesPromised
  BY KnownAre DEF Init, Nothing, EntriesPromised, Entries
<1>4. WritesPromised
  BY <1>1, IdleIs DEF WritesPromised
<1> QED
  BY <1>1, <1>2, <1>3, <1>4, IdleIs DEF IInv

LEMMA StepInv ==
  ASSUME IInv, NEW p \in Procs, Step(p)
  PROVE  IInv'
BY WatchedAtKeeps, PutWritesKeeps, ListWhatIsWatchedKeeps, WatchedThroughKeeps, MarkWatchedKeeps,
   MarkScoredKeeps DEF Step

LEMMA RequestInv ==
  ASSUME IInv, NEW p \in Procs, NEW t \in Titles, Request(p, t)
  PROVE  IInv'
<1>1. CASE \E k \in KeysOf(t), pos \in Reports : HandlePutProgress(p, t, k, pos, "none")
  <2>1. "none" \in Marks /\ Reports \subseteq {Start, Opening, Middle, End}
    BY HistoryAssumption DEF Marks
  <2> QED
    BY <1>1, <2>1, PutProgressAsks
<1>2. CASE \E k \in KeysOf(t), mark \in {"watched", "unwatched"} : HandlePutProgress(p, t, k, Start, mark)
  <2>1. {"watched", "unwatched"} \subseteq Marks
    BY DEF Marks
  <2> QED
    BY <1>2, <2>1, PutProgressAsks
<1>3. CASE \E k : HandleDeleteProgress(p, t, k)
  BY <1>3, DeleteProgressKeeps
<1>4. CASE \E k \in KeysOf(t) \cup {NoKey} : HandleWatchedThrough(p, t, k)
  BY <1>4, WatchedThroughAsks
<1>5. CASE \E k \in KeysOf(t) \cup {TheTitle} : HandleRate(p, t, k) \/ HandleUnrate(p, t, k)
  BY <1>5, RateKeeps, UnrateKeeps
<1>6. CASE HandleHideFromContinue(p, t)
  BY <1>6, HideKeeps
<1>7. CASE HandleAddToList(p, t)
  BY <1>7, AddToListKeeps
<1>8. CASE HandleRemoveFromList(p, t)
  BY <1>8, RemoveFromListKeeps
<1> QED
  BY <1>1, <1>2, <1>3, <1>4, <1>5, <1>6, <1>7, <1>8 DEF Request

LEMMA NextInv == IInv /\ [Next]_vars => IInv'
<1> SUFFICES ASSUME IInv, [Next]_vars PROVE IInv'
  OBVIOUS
<1>1. CASE UNCHANGED vars
  <2>1. UNCHANGED <<now, progress, list, rated, proc, asked, faults, takenOut, missed>>
    BY <1>1 DEF vars
  <2> QED
    BY <2>1 DEF IInv, Shapes, TypeOK, Sound, EntriesPromised, WritesPromised, Promised, Placed, Owes, Entries
<1> QED
  BY <1>1, TickKeeps, StopKeeps, StepInv, FailsKeeps, RequestInv DEF Next

LEMMA Invariant == Spec => []IInv
BY InitInv, NextInv, PTL DEF Spec

\* Entries, the list, the scores and what each handler under way has read stay
\* in their types.
THEOREM HistoryTypeCorrect == Spec => []TypeOK
<1>1. IInv => TypeOK
  BY DEF IInv
<1> QED
  BY Invariant, <1>1, PTL

LEMMA InvListed == IInv => StartedIsListed
BY DEF IInv, EntriesPromised, Promised, Placed, Owes, StartedIsListed

\* A title somebody has started is on My list once no request on it is under
\* way, unless it was taken out by hand or the one call that was to add it
\* failed or was cut off: a handler that found no entry before its own tries to
\* list it, whatever the others write, and one that found an entry leans on the
\* handler that wrote it (listWhatIsWatched, markScored).
THEOREM WhatIsStartedIsListed == Spec => []StartedIsListed
BY Invariant, InvListed, PTL

-----------------------------------------------------------------------------
(* What a step of a handler may do. *)

\* The step a handler took is the one it was doing.
LEMMA TookIs ==
  ASSUME IInv, [Next]_vars, NEW p \in Procs, NEW step, Took(p, step)
  PROVE  Step(p)
<1>1. ASSUME NEW q \in Procs, q # p, Step(q) PROVE FALSE
  <2>1. proc'[p] = proc[p]
    BY <1>1 DEF Step, WatchedAt, PutWrites, ListWhatIsWatched, WatchedThrough, MarkWatched,
                MarkScored, GoesOn, IInv, Shapes
  <2> QED
    BY <2>1 DEF Took
<1>2. ASSUME NEW q \in Procs, NEW r, Ask(q, r) PROVE FALSE
  <2>1. proc[p].todo # <<>> /\ proc'[p] # proc[p]
    BY DEF Took, Doing
  <2> QED
    BY <1>2, <2>1 DEF Ask, IInv, Shapes
<1>3. ASSUME NEW q \in Procs, NEW t \in Titles, Request(q, t) PROVE FALSE
  BY <1>2, <1>3 DEF Request, HandlePutProgress, HandleDeleteProgress, HandleWatchedThrough, HandleRate,
                    HandleUnrate, HandleHideFromContinue, HandleAddToList, HandleRemoveFromList
<1>4. CASE Tick \/ UNCHANGED vars
  BY <1>4 DEF Tick, vars, Took
<1>5. faults' = faults /\ faults # faults + 1
  BY HistoryAssumption DEF Took, IInv, TypeOK
<1> QED
  BY <1>1, <1>3, <1>4, <1>5 DEF Next, Stop, Fails

LEMMA TookWrite ==
  ASSUME IInv, [Next]_vars, NEW p \in Procs, Took(p, "write")
  PROVE  PutWrites(p)
<1>1. Step(p) /\ Doing(p, "write")
  BY TookIs DEF Took
<1> QED
  BY <1>1 DEF Step, WatchedAt, ListWhatIsWatched, WatchedThrough, MarkWatched, MarkScored, Doing

LEMMA TookMark ==
  ASSUME IInv, [Next]_vars, NEW p \in Procs, Took(p, "mark")
  PROVE  MarkWatched(p)
<1>1. Step(p) /\ Doing(p, "mark")
  BY TookIs DEF Took
<1> QED
  BY <1>1 DEF Step, WatchedAt, ListWhatIsWatched, WatchedThrough, PutWrites, MarkScored, Doing

LEMMA WriteKeepsMarks ==
  ASSUME IInv, [Next]_vars, NEW p \in Procs, Took(p, "write"), proc[p].mark = "none",
         NEW k \in Entries(proc[p].t), progress[proc[p].t][k].watched
  PROVE  progress'[proc[p].t][k].watched
<1> DEFINE t == proc[p].t
           n == proc[p].k
<1>1. PICK e \in Entry : /\ t \in Titles /\ progress' = [progress EXCEPT ![t] = With(progress[t], n, e)]
                         /\ n \in DOMAIN progress[t] /\ progress[t][n].watched => e.watched
  BY TookWrite, PutWritesIs
<1>2. progress'[t][k] = IF k = n THEN e ELSE progress[t][k]
  BY <1>1 DEF With, Entries, IInv, Shapes
<1> QED
  BY <1>1, <1>2 DEF Entries

\* "watched" is a latch: whatever position a player reports, however late, and
\* whatever another client wrote since it was read, no play takes the mark of
\* an episode away (Put, UpsertProgress).
THEOREM PlaysKeepTheMark == Spec => PlaysNeverUnwatch
<1>1. IInv /\ [Next]_vars =>
        [\A p \in Procs : Took(p, "write") /\ proc[p].mark = "none" =>
           \A k \in Entries(proc[p].t) : progress[proc[p].t][k].watched => progress'[proc[p].t][k].watched]_vars
  BY WriteKeepsMarks
<1> QED
  BY Invariant, <1>1, PTL DEF Spec, PlaysNeverUnwatch

-----------------------------------------------------------------------------
\* The entry k of t was written after every other, or with them and further on.
IsLatest(t, k, keys) ==
  \A o \in keys \ {k} :
    \/ progress[t][o].at < progress[t][k].at
    \/ progress[t][o].at = progress[t][k].at /\ Before(o, k)

\* There is one such entry at most.
LEMMA LatestIs ==
  ASSUME TypeOK, NEW t \in Titles, NEW keys \in SUBSET Entries(t), NEW m \in keys, IsLatest(t, m, keys)
  PROVE  LatestEntry(t, keys) = m
<1>1. keys \subseteq Keys /\ \A k \in keys : progress[t][k].at \in Int
  BY KeysAre, TypeIs, HistoryAssumption DEF RowsOf, Entry, Entries
<1>2. ASSUME NEW k \in keys, IsLatest(t, k, keys) PROVE k = m
  <2>1. SUFFICES ASSUME k # m PROVE FALSE
    OBVIOUS
  <2>2. /\ progress[t][k].at < progress[t][m].at \/ (progress[t][k].at = progress[t][m].at /\ Before(k, m))
        /\ progress[t][m].at < progress[t][k].at \/ (progress[t][m].at = progress[t][k].at /\ Before(m, k))
    BY <1>2, <2>1 DEF IsLatest
  <2> QED
    BY <1>1, <2>2, BeforeOrders
<1> QED
  BY <1>2, Zenon DEF LatestEntry, IsLatest

\* A finished episode of the story is gone on from once it is the latest.
GoesOnFromLatest ==
  TypeOK => \A t \in Titles, m \in Keys :
    m \in Entries(t) /\ m[1] # 0 /\ Finished(t, m) /\ IsLatest(t, m, Entries(t))
    => GoesOnFrom(t) = m /\ NextOf(t) = NextEpisode(t, m)

LEMMA FromLatest == GoesOnFromLatest
<1> SUFFICES ASSUME TypeOK, NEW t \in Titles, NEW m \in Keys, m \in Entries(t), m[1] # 0,
                    Finished(t, m), IsLatest(t, m, Entries(t))
             PROVE  GoesOnFrom(t) = m /\ NextOf(t) = NextEpisode(t, m)
  BY DEF GoesOnFromLatest
<1>1. LatestEntry(t, Entries(t)) = m
  BY LatestIs
<1>2. GoesOnFrom(t) = m
  BY <1>1 DEF GoesOnFrom
<1>3. m # NoKey
  BY KeysAre
<1> QED
  BY <1>2, <1>3 DEF NextOf

LEMMA MarkedGoesOn ==
  ASSUME IInv, [Next]_vars, NEW p \in Procs, NEW t \in Series, proc[p].t = t, Took(p, "mark"),
         \A k \in Entries(t) \ proc[p].marked : progress[t][k].at < proc[p].at
  PROVE  LET r == proc[p]
             last == IF r.k # NoKey THEN r.k
                     ELSE CHOOSE k \in r.marked : \A o \in r.marked \ {k} : Before(o, k)
         IN  /\ NextOf(t)' = NextEpisode(t, last)
             /\ Upcoming(t)' = IF NextEpisode(t, last) = NoKey THEN FollowingEpisode(t, last) ELSE NoKey
<1> DEFINE r == proc[p]
           e == [pos |-> Start, watched |-> TRUE, at |-> r.at, hidden |-> FALSE]
           rows == [k \in Entries(t) \cup r.marked |-> IF k \in r.marked THEN e ELSE progress[t][k]]
           last == IF r.k # NoKey THEN r.k
                   ELSE CHOOSE k \in r.marked : \A o \in r.marked \ {k} : Before(o, k)
<1>1. /\ Sound(r) /\ r.todo = <<"mark", "list">> /\ t \in Titles /\ now' = now
      /\ progress' = [progress EXCEPT ![t] = rows] /\ r.marked \subseteq KeysOf(t)
  BY TookMark, MarkWatchedIs
<1>2. PICK m \in r.marked : /\ m[1] # 0 /\ (r.k # NoKey => m = r.k)
                            /\ \A o \in r.marked \ {m} : Before(o, m)
  BY <1>1 DEF Sound, MarksThrough
<1>3. r.marked \subseteq Keys /\ m \in Keys
  BY <1>1, KeysAre
<1>4. last = m
  <2>1. ASSUME NEW k \in r.marked, \A o \in r.marked \ {k} : Before(o, k) PROVE k = m
    BY <1>2, <1>3, <2>1, BeforeOrders
  <2>2. (CHOOSE k \in r.marked : \A o \in r.marked \ {k} : Before(o, k)) = m
    BY <1>2, <2>1, Zenon
  <2> QED
    BY <1>2, <2>2
<1>5. progress'[t] = rows /\ Entries(t)' = Entries(t) \cup r.marked
  BY <1>1 DEF IInv, Shapes, Entries
<1>6. \A k \in Entries(t)' : progress'[t][k] = IF k \in r.marked THEN e ELSE progress[t][k]
  BY <1>5
<1>7. m \in Entries(t)' /\ Finished(t, m)'
  BY <1>5, <1>6 DEF Finished
<1>8. IsLatest(t, m, Entries(t))'
  <2> SUFFICES ASSUME NEW o \in Entries(t)', o # m
               PROVE  \/ progress'[t][o].at < progress'[t][m].at
                      \/ progress'[t][o].at = progress'[t][m].at /\ Before(o, m)
    BY DEF IsLatest
  <2>1. progress'[t][m].at = r.at
    BY <1>6, <1>7
  <2>2. CASE o \in r.marked
    BY <1>2, <1>6, <2>1, <2>2
  <2>3. CASE o \notin r.marked
    BY <1>5, <1>6, <2>1, <2>3
  <2> QED
    BY <2>2, <2>3
<1>9. TypeOK' /\ GoesOnFromLatest'
  BY NextInv, FromLatest, PTL DEF IInv
<1>10. GoesOnFrom(t)' = m /\ NextOf(t)' = NextEpisode(t, m)'
  BY <1>1, <1>2, <1>3, <1>7, <1>8, <1>9 DEF GoesOnFromLatest
<1>11. NextEpisode(t, m)' = NextEpisode(t, m) /\ \A f : Aired(t, f)' = Aired(t, f)
  BY <1>1 DEF NextEpisode, Aired
<1>12. Upcoming(t)' = IF NextEpisode(t, m) = NoKey THEN FollowingEpisode(t, m) ELSE NoKey
  <2> DEFINE f == FollowingEpisode(t, m)
  <2>1. Upcoming(t)' = IF f # NoKey /\ ~Aired(t, f) THEN f ELSE NoKey
    <3>1. m # NoKey
      BY <1>3, <1>1, KeysAre
    <3> QED
      BY <1>7, <1>10, <1>11, <3>1 DEF Upcoming
  <2>2. NextEpisode(t, m) = IF f # NoKey /\ Aired(t, f) THEN f ELSE NoKey
    BY DEF NextEpisode
  <2> HIDE DEF f
  <2>3. NextEpisode(t, m) = NoKey <=> f = NoKey \/ ~Aired(t, f)
    BY <2>2
  <2> QED
    BY <2>1, <2>3 DEF f
<1> HIDE DEF last
<1> QED
  BY <1>4, <1>10, <1>11, <1>12 DEF last

\* "so the series goes on from there": after all episodes up to one are marked,
\* what plays next is the episode behind it, or the page opens on that episode
\* when it is not out, whatever was watched before and in whatever order, if
\* nothing is newer than the marks (WatchedThrough, latestEntry, goesOnFrom).
THEOREM MarkedThroughGoesOn == Spec => GoesOnFromMarked
<1>1. IInv /\ [Next]_vars =>
        [\A p \in Procs, t \in Series :
           LET r == proc[p]
               last == IF r.k # NoKey THEN r.k
                       ELSE CHOOSE k \in r.marked : \A o \in r.marked \ {k} : Before(o, k)
           IN  /\ r.t = t /\ Took(p, "mark")
               /\ \A k \in Entries(t) \ r.marked : progress[t][k].at < r.at
               => /\ NextOf(t)' = NextEpisode(t, last)
                  /\ Upcoming(t)' = IF NextEpisode(t, last) = NoKey THEN FollowingEpisode(t, last) ELSE NoKey]_vars
  BY MarkedGoesOn
<1> QED
  BY Invariant, <1>1, PTL DEF Spec, GoesOnFromMarked

-----------------------------------------------------------------------------
(* The shelves over the entries of one title. *)

LEMMA KnownEntries ==
  ASSUME TypeOK, NEW t \in Known
  PROVE  /\ t \in Titles /\ Entries(t) \subseteq KeysOf(t) /\ KeysOf(t) \subseteq Keys
         /\ IsFiniteSet(KeysOf(t)) /\ NoKey \notin Keys /\ TheTitle \in Keys
         /\ \A k \in Entries(t) : progress[t][k] \in Entry
BY KnownAre, KeysAre, TypeIs DEF RowsOf, Entries

LEMMA PlayedIsViewed ==
  ASSUME TypeOK, NEW t \in Known
  PROVE  Listed(t).played <=> \E k \in Entries(t) : <<t, k>> \in Viewings
<1>1. \A k \in Entries(t) : progress[t][k].pos # Start <=> progress[t][k].pos > Start
  BY KnownEntries DEF Entry, Start, Opening, Middle
<1>2. \A k \in Entries(t) : <<t, k>> \in Viewings <=> progress[t][k].watched \/ progress[t][k].pos > Start
  BY DEF Viewings
<1>3. Listed(t).played <=> Played(t)
  BY DEF Listed
<1> QED
  BY <1>1, <1>2, <1>3 DEF Played

\* Nothing of the story that is watched comes after the furthest episode.
LEMMA FurthestIs ==
  ASSUME TypeOK, NEW t \in Known
  PROVE  /\ Furthest(t) \in Keys
         /\ Furthest(t) = TheTitle \/ (Furthest(t) \in Watched(t) /\ Furthest(t)[1] > 0)
         /\ \A k \in Watched(t) : k[1] # 0 => ~After(k, Furthest(t))
<1> DEFINE story == {k \in Watched(t) : k[1] > 0}
<1>1. Watched(t) \subseteq KeysOf(t) /\ Watched(t) \subseteq Keys /\ IsFiniteSet(story) /\ story \in SUBSET Keys
  BY KnownEntries, FS_Subset DEF Watched
<1>2. \A k \in Keys : k[1] > 0 <=> k[1] # 0
  BY DEF Keys
<1>3. \A k \in Watched(t) : k[1] # 0 => k \in story
  BY <1>1, <1>2
<1>4. \A k \in story : k \in Watched(t) /\ k[1] > 0
  OBVIOUS
<1>5. Furthest(t) = IF story = {} THEN TheTitle ELSE CHOOSE k \in story : \A o \in story \ {k} : After(k, o)
  BY DEF Furthest
<1> HIDE DEF story
<1>6. CASE story = {}
  BY <1>3, <1>5, <1>6, KnownEntries
<1>7. CASE story # {}
  <2>1. \E k \in story : \A o \in story \ {k} : After(k, o)
    BY <1>1, <1>7, FirstAndLastAfter
  <2>2. Furthest(t) \in story /\ \A o \in story \ {Furthest(t)} : After(Furthest(t), o)
    BY <1>5, <1>7, <2>1, Zenon
  <2>3. \A k \in story : ~After(k, Furthest(t))
    BY <1>1, <2>2, AfterOrders
  <2> QED
    BY <1>1, <1>3, <1>4, <2>2, <2>3
<1> QED
  BY <1>6, <1>7

LEMMA NewEpisodeIs ==
  ASSUME TypeOK, NEW t \in Known, NewEpisode(t) # NoKey
  PROVE  LET shelf == NewEpisode(t) IN
         /\ t \in Series /\ shelf \in KeysOf(t) /\ shelf[1] # 0 /\ Aired(t, shelf)
         /\ After(shelf, Furthest(t))
<1> DEFINE out == {k \in KeysOf(t) : /\ k[1] # 0 /\ Released[<<t, k>>] # Undated /\ Aired(t, k)
                                     /\ After(k, Furthest(t))}
           first == CHOOSE k \in out : \A o \in out \ {k} : After(o, k)
<1>1. t \in Series /\ out # {} /\ NewEpisode(t) = first
  BY Zenon DEF NewEpisode
<1>2. IsFiniteSet(out) /\ out \in SUBSET Keys
  BY KnownEntries, FS_Subset
<1>3. \A k \in out : k \in KeysOf(t) /\ k[1] # 0 /\ Aired(t, k) /\ After(k, Furthest(t))
  OBVIOUS
<1>4. first \in out
  <2> HIDE DEF out
  <2>1. \E k \in out : \A o \in out \ {k} : After(o, k)
    BY <1>1, <1>2, FirstAndLastAfter
  <2> QED
    BY <2>1, Zenon
<1> HIDE DEF out, first
<1> QED
  BY <1>1, <1>3, <1>4

\* New episodes shows a series of which more is out than watched.
LEMMA NewIsNotSeen ==
  ASSUME TypeOK, NEW t \in Known, NewEpisode(t) # NoKey
  PROVE  ~SeenAll(t) /\ Listed(t).watched < Listed(t).released
<1> DEFINE shelf == NewEpisode(t)
           seen == SeenOf(t) \cap Watched(t)
<1>1. shelf \in SeenOf(t)
  BY NewEpisodeIs DEF SeenOf
<1>2. shelf \notin Watched(t)
  BY NewEpisodeIs, FurthestIs
<1>3. IsFiniteSet(SeenOf(t))
  BY KnownEntries, FS_Subset DEF SeenOf
<1>4. seen \in SUBSET SeenOf(t) /\ seen # SeenOf(t)
  BY <1>1, <1>2
<1>5. /\ Cardinality(seen) <= Cardinality(SeenOf(t)) /\ Cardinality(seen) # Cardinality(SeenOf(t))
      /\ IsFiniteSet(seen)
  <2> HIDE DEF seen
  <2> QED
    BY <1>3, <1>4, FS_Subset
<1>6. Cardinality(seen) \in Nat /\ Cardinality(SeenOf(t)) \in Nat
  BY <1>3, <1>5, FS_CardinalityType
<1>7. Cardinality(seen) < Cardinality(SeenOf(t))
  <2> HIDE DEF seen
  <2> QED
    BY <1>5, <1>6
<1>8. Listed(t).watched = Cardinality(seen) /\ Listed(t).released = Cardinality(SeenOf(t))
  BY DEF Listed
<1>9. ~SeenAll(t)
  BY <1>1, <1>2 DEF SeenAll
<1> QED
  BY <1>7, <1>8, <1>9

\* There is a latest entry.
LEMMA LatestThere ==
  ASSUME TypeOK, NEW t \in Known, NEW keys \in SUBSET Entries(t), keys # {}
  PROVE  LatestEntry(t, keys) \in keys
<1> DEFINE R == {x \in keys \X keys :
                   \/ progress[t][x[1]].at < progress[t][x[2]].at
                   \/ progress[t][x[1]].at = progress[t][x[2]].at /\ Before(x[1], x[2])}
<1>1. keys \subseteq Keys /\ IsFiniteSet(keys) /\ \A k \in keys : progress[t][k].at \in Int
  BY KnownEntries, FS_Subset, HistoryAssumption DEF Entry
<1>2. \A a, b \in keys : <<a, b>> \in R <=> \/ progress[t][a].at < progress[t][b].at
                                            \/ progress[t][a].at = progress[t][b].at /\ Before(a, b)
  OBVIOUS
<1> HIDE DEF R
<1>3. Orders(R, keys)
  BY <1>1, <1>2, BeforeOrders DEF Orders
<1>4. PICK m \in keys : \A o \in keys \ {m} : <<o, m>> \in R
  BY <1>1, <1>3, SomeLast
<1>5. IsLatest(t, m, keys)
  BY <1>2, <1>4 DEF IsLatest
<1> QED
  BY <1>5, Zenon DEF LatestEntry, IsLatest

LEMMA GoesOnFromIs ==
  ASSUME TypeOK, NEW t \in Known, GoesOnFrom(t) # NoKey
  PROVE  GoesOnFrom(t) \in Entries(t)
<1> DEFINE story == {k \in Entries(t) : k[1] > 0}
<1>1. Entries(t) # {} /\ LatestEntry(t, Entries(t)) \in Entries(t)
  BY LatestThere DEF GoesOnFrom
<1>2. story # {} => LatestEntry(t, story) \in Entries(t)
  BY LatestThere
<1>3. GoesOnFrom(t) = LatestEntry(t, Entries(t)) \/ (story # {} /\ GoesOnFrom(t) = LatestEntry(t, story))
  BY <1>1 DEF GoesOnFrom
<1> QED
  BY <1>1, <1>2, <1>3

LEMMA EarliestIs ==
  ASSUME NEW S \in SUBSET Keys, NEW m \in S, \A o \in S \ {m} : Before(m, o)
  PROVE  Earliest(S) = m
<1>1. ASSUME NEW k \in S, \A o \in S \ {k} : Before(k, o) PROVE k = m
  BY <1>1, BeforeOrders
<1> QED
  BY <1>1, Zenon DEF Earliest

LEMMA EarliestThere ==
  ASSUME NEW S \in SUBSET Keys, IsFiniteSet(S), S # {}
  PROVE  Earliest(S) \in S /\ \A o \in S \ {Earliest(S)} : Before(Earliest(S), o)
BY FirstBefore, Zenon DEF Earliest

\* The episode New episodes shows is the one played next, with none between.
LEMMA NewIsNext ==
  ASSUME TypeOK, NEW t \in Known, NewEpisode(t) # NoKey,
         GoesOnFrom(t) = Furthest(t), Finished(t, GoesOnFrom(t)),
         \A k \in KeysOf(t) : ~(k[1] # 0 /\ After(k, Furthest(t)) /\ After(NewEpisode(t), k))
  PROVE  NextOf(t) = NewEpisode(t) /\ (t \in Continue \/ Hidden(t))
<1> DEFINE from == GoesOnFrom(t)
           shelf == NewEpisode(t)
           after == {e \in KeysOf(t) : Before(from, e)}
<1>1. /\ t \in Series /\ shelf \in KeysOf(t) /\ shelf[1] # 0 /\ Aired(t, shelf) /\ After(shelf, from)
      /\ KeysOf(t) \subseteq Keys /\ NoKey \notin Keys /\ Furthest(t) \in Keys
  BY NewEpisodeIs, KnownEntries, FurthestIs
<1>2. from # NoKey /\ from \in Entries(t) /\ from \in KeysOf(t)
  BY <1>1, GoesOnFromIs, KnownEntries
<1>3. from[1] # 0
  <2>1. TheTitle \notin KeysOf(t)
    BY <1>1, KnownAre, KeysAre
  <2>2. from \in Watched(t) /\ from[1] > 0
    BY <1>2, <2>1, FurthestIs
  <2>3. from[1] \in Nat
    BY <1>1, <1>2 DEF Keys
  <2> QED
    BY <2>2, <2>3
<1>4. shelf \in after
  BY <1>1, <1>2, <1>3, AfterOrders
<1>5. ASSUME NEW o \in after, o # shelf PROVE Before(shelf, o)
  <2>1. o \in KeysOf(t) /\ Before(from, o) /\ o \in Keys /\ shelf \in Keys
    BY <1>1
  <2>2. CASE o[1] = 0
    BY <1>1, <2>1, <2>2 DEF Before
  <2>3. CASE o[1] # 0
    <3>1. After(o, from)
      BY <1>1, <1>2, <1>3, <2>1, <2>3, AfterOrders
    <3>2. ~After(shelf, o)
      BY <2>1, <2>3, <3>1
    <3> QED
      BY <1>1, <1>5, <2>1, <2>3, <3>2, AfterOrders
  <2> QED
    BY <2>2, <2>3
<1>6. Earliest(after) = shelf
  <2>1. after \in SUBSET Keys
    BY <1>1
  <2> HIDE DEF after, shelf
  <2> QED
    BY <1>4, <1>5, <2>1, EarliestIs
<1>7. FollowingEpisode(t, from) = shelf
  BY <1>1, <1>2, <1>4, <1>6 DEF FollowingEpisode
<1>8. NextOf(t) = shelf
  BY <1>1, <1>2, <1>7 DEF NextOf, NextEpisode
<1>9. t \in Continue \/ Hidden(t)
  BY <1>8 DEF Continue
<1> QED
  BY <1>8, <1>9

\* The day of an episode that is not out.
LEMMA DueIs ==
  ASSUME TypeOK, NEW t \in Known, NEW k \in KeysOf(t)
  PROVE  /\ Released[<<t, k>>] \in Int /\ now \in Int
         /\ ~Aired(t, k) <=> Released[<<t, k>>] # Undated /\ Released[<<t, k>>] > now
<1>1. Released[<<t, k>>] \in {Undated} \cup Nat /\ now \in Int
  BY HistoryAssumption DEF TypeOK
<1> QED
  BY <1>1 DEF Aired, Undated

\* Episode a comes out after b.
ComesLater(t, a, b) ==
  IF Released[<<t, a>>] # Released[<<t, b>>]
  THEN Released[<<t, a>>] > Released[<<t, b>>] ELSE After(a, b)

Due(t) == {k \in KeysOf(t) : (t \in Series => k[1] # 0) /\ ~Aired(t, k)}

LEMMA ComingUpIs ==
  ASSUME TypeOK, NEW t \in Known, Due(t) # {}
  PROVE  ComingUp(t) \in Due(t) /\ \A o \in Due(t) \ {ComingUp(t)} : ComesLater(t, o, ComingUp(t))
<1> DEFINE S == Due(t)
           R == {x \in S \X S : ComesLater(t, x[1], x[2])}
<1>1. S \subseteq KeysOf(t) /\ S \in SUBSET Keys /\ IsFiniteSet(S)
  BY KnownEntries, FS_Subset DEF Due
<1>2. \A a, b \in S : <<a, b>> \in R <=> ComesLater(t, a, b)
  OBVIOUS
<1>3. \A k \in S : k \in Keys /\ Released[<<t, k>>] \in Int
  BY <1>1, DueIs
<1>4. ComingUp(t) = CHOOSE k \in S : \A o \in S \ {k} : ComesLater(t, o, k)
  BY DEF ComingUp, ComesLater, Due
<1> HIDE DEF R, S
<1>5. Orders(R, S)
  <2>1. ASSUME NEW a \in S PROVE <<a, a>> \notin R
    BY <1>2, <1>3, AfterOrders DEF ComesLater
  <2>2. ASSUME NEW a \in S, NEW b \in S, a # b PROVE <<a, b>> \in R \/ <<b, a>> \in R
    <3>1. Released[<<t, a>>] = Released[<<t, b>>] => After(a, b) \/ After(b, a)
      BY <1>3, <2>2, AfterOrders
    <3>2. ComesLater(t, a, b) \/ ComesLater(t, b, a)
      BY <1>3, <3>1 DEF ComesLater
    <3> QED
      BY <1>2, <3>2
  <2>3. ASSUME NEW a \in S, NEW b \in S, NEW c \in S, <<a, b>> \in R, <<b, c>> \in R
        PROVE  <<a, c>> \in R
    <3>1. ComesLater(t, a, b) /\ ComesLater(t, b, c)
      BY <1>2, <2>3
    <3>2. After(a, b) /\ After(b, c) => After(a, c)
      BY <1>3, AfterOrders
    <3>3. ComesLater(t, a, c)
      BY <1>3, <3>1, <3>2 DEF ComesLater
    <3> QED
      BY <1>2, <3>3
  <2> QED
    BY <2>1, <2>2, <2>3 DEF Orders
<1>6. \E m \in S : \A o \in S \ {m} : <<o, m>> \in R
  BY <1>1, <1>5, SomeLast DEF S
<1>7. \E m \in S : \A o \in S \ {m} : ComesLater(t, o, m)
  BY <1>2, <1>6
<1>8. ComingUp(t) \in S /\ \A o \in S \ {ComingUp(t)} : ComesLater(t, o, ComingUp(t))
  BY <1>4, <1>7, Zenon
<1> QED
  BY <1>8 DEF S

LEMMA UpcomingIs ==
  ASSUME TypeOK, NEW t \in Known, Upcoming(t) # NoKey
  PROVE  LET from == GoesOnFrom(t)
             f == Upcoming(t)
         IN  /\ from # NoKey /\ Finished(t, from) /\ f = FollowingEpisode(t, from) /\ ~Aired(t, f)
             /\ t \in Series /\ from \in KeysOf(t) /\ f \in KeysOf(t)
             /\ \A o \in KeysOf(t) : Before(from, o) /\ o # f => Before(f, o)
<1> DEFINE from == GoesOnFrom(t)
           f == Upcoming(t)
           after == {e \in KeysOf(t) : Before(from, e)}
<1>1. from # NoKey /\ Finished(t, from) /\ f = FollowingEpisode(t, from) /\ ~Aired(t, f)
  BY DEF Upcoming
<1>2. t \in Series /\ from \in KeysOf(t) /\ after # {} /\ f = Earliest(after)
  BY <1>1 DEF FollowingEpisode
<1>3. after \in SUBSET Keys /\ IsFiniteSet(after)
  BY KnownEntries, FS_Subset
<1>4. f \in after /\ \A o \in after \ {f} : Before(f, o)
  <2> HIDE DEF after, f
  <2> QED
    BY <1>2, <1>3, EarliestThere
<1> QED
  BY <1>1, <1>2, <1>4

\* What a series waits for is coming up, and not on Continue watching.
LEMMA WaitsIsComing ==
  ASSUME TypeOK, NEW t \in Known, Upcoming(t) # NoKey, Upcoming(t)[1] # 0
  PROVE  /\ t \notin Continue
         /\ ComingUp(t) # NoKey /\ Released[<<t, ComingUp(t)>>] <= Released[<<t, Upcoming(t)>>]
         /\ InOrder(t, GoesOnFrom(t)) => ComingUp(t) = Upcoming(t)
<1> DEFINE from == GoesOnFrom(t)
           f == Upcoming(t)
           c == ComingUp(t)
<1>1. /\ from # NoKey /\ Finished(t, from) /\ f = FollowingEpisode(t, from) /\ ~Aired(t, f)
      /\ t \in Series /\ from \in KeysOf(t) /\ f \in KeysOf(t) /\ f[1] # 0
      /\ \A o \in KeysOf(t) : Before(from, o) /\ o # f => Before(f, o)
  BY UpcomingIs
<1>2. t \notin Continue
  BY <1>1 DEF Continue, NextOf, NextEpisode
<1>3. f \in Due(t)
  BY <1>1 DEF Due
<1>4. c \in Due(t) /\ \A o \in Due(t) \ {c} : ComesLater(t, o, c)
  BY <1>3, ComingUpIs
<1>5. /\ \A k \in Due(t) : k \in KeysOf(t) /\ k[1] # 0 /\ ~Aired(t, k)
      /\ KeysOf(t) \subseteq Keys /\ NoKey \notin Keys
  BY <1>1, KnownEntries DEF Due
<1>6. \A k \in KeysOf(t) : Released[<<t, k>>] \in Int /\ now \in Int
  BY DueIs
<1> HIDE DEF from, f, c
<1>7. c # NoKey /\ Released[<<t, c>>] <= Released[<<t, f>>]
  BY <1>3, <1>4, <1>5, <1>6 DEF ComesLater
<1>8. ASSUME InOrder(t, from) PROVE c = f
  <2>1. SUFFICES ASSUME c # f PROVE FALSE
    OBVIOUS
  <2>2. /\ from[1] # 0 /\ Released[<<t, from>>] # Undated /\ Aired(t, from)
        /\ \A a, b \in KeysOf(t) : /\ a[1] # 0 /\ Released[<<t, a>>] # Undated
                                   /\ b[1] # 0 /\ Released[<<t, b>>] # Undated /\ After(b, a)
                                   => Released[<<t, a>>] <= Released[<<t, b>>]
    BY <1>8 DEF InOrder
  <2>3. /\ Released[<<t, c>>] # Undated /\ Released[<<t, c>>] > now /\ c[1] # 0 /\ c \in KeysOf(t) /\ c \in Keys
        /\ Released[<<t, f>>] # Undated /\ f \in Keys /\ from \in Keys
    BY <1>1, <1>3, <1>4, <1>5, DueIs
  <2>4. Released[<<t, from>>] <= now
    BY <1>1, <2>2, DueIs
  <2>5. After(c, from)
    <3>1. ~After(from, c)
      <4>1. now \in Int /\ Released[<<t, from>>] \in Int /\ Released[<<t, c>>] \in Int
        BY <1>1, <1>6, <2>3
      <4> QED
        BY <1>1, <2>2, <2>3, <2>4, <4>1
    <3>2. c # from
      BY <1>5, <1>4, <2>2
    <3> QED
      BY <2>3, <3>1, <3>2, AfterOrders
  <2>6. Before(from, c)
    BY <2>2, <2>3, <2>5, AfterOrders
  <2>7. After(c, f)
    <3>1. Before(f, c)
      BY <1>1, <2>1, <2>3, <2>6
    <3> QED
      BY <1>1, <2>3, <3>1, AfterOrders
  <2>8. Released[<<t, f>>] <= Released[<<t, c>>]
    BY <1>1, <2>2, <2>3, <2>7
  <2>9. ComesLater(t, f, c)
    BY <1>3, <1>4, <2>1
  <2>10. Released[<<t, f>>] = Released[<<t, c>>] /\ ~After(f, c)
    BY <1>1, <1>6, <1>7, <2>3, <2>7, <2>8, AfterOrders
  <2> QED
    BY <2>9, <2>10 DEF ComesLater
<1> QED
  BY <1>2, <1>7, <1>8 DEF from, f, c

LEMMA ShelvesFollow == TypeOK => ShelvesAgree
<1> SUFFICES ASSUME TypeOK, NEW t \in Followed
             PROVE  LET from == GoesOnFrom(t)
                        shelf == NewEpisode(t)
                        waits == Upcoming(t)
                        between == {k \in KeysOf(t) : k[1] # 0 /\ After(k, Furthest(t)) /\ After(shelf, k)}
                    IN
                    /\ Listed(t).played <=> \E k \in Entries(t) : <<t, k>> \in Viewings
                    /\ shelf # NoKey => ~SeenAll(t) /\ Listed(t).watched < Listed(t).released
                    /\ shelf # NoKey /\ from = Furthest(t) /\ Finished(t, from) /\ between = {}
                       => NextOf(t) = shelf /\ (t \in Continue \/ Hidden(t))
                    /\ waits # NoKey /\ waits[1] # 0
                       => /\ t \notin Continue
                          /\ ComingUp(t) # NoKey /\ Released[<<t, ComingUp(t)>>] <= Released[<<t, waits>>]
                          /\ InOrder(t, from) => ComingUp(t) = waits
  BY DEF ShelvesAgree
<1>1. t \in Known
  BY DEF Followed
<1>2. Listed(t).played <=> \E k \in Entries(t) : <<t, k>> \in Viewings
  BY <1>1, PlayedIsViewed
<1>3. NewEpisode(t) # NoKey => ~SeenAll(t) /\ Listed(t).watched < Listed(t).released
  BY <1>1, NewIsNotSeen
<1>4. /\ NewEpisode(t) # NoKey /\ GoesOnFrom(t) = Furthest(t) /\ Finished(t, GoesOnFrom(t))
      /\ {k \in KeysOf(t) : k[1] # 0 /\ After(k, Furthest(t)) /\ After(NewEpisode(t), k)} = {}
      => NextOf(t) = NewEpisode(t) /\ (t \in Continue \/ Hidden(t))
  BY <1>1, NewIsNext
<1>5. Upcoming(t) # NoKey /\ Upcoming(t)[1] # 0
      => /\ t \notin Continue
         /\ ComingUp(t) # NoKey /\ Released[<<t, ComingUp(t)>>] <= Released[<<t, Upcoming(t)>>]
         /\ InOrder(t, GoesOnFrom(t)) => ComingUp(t) = Upcoming(t)
  BY <1>1, WaitsIsComing
<1> QED
  BY <1>2, <1>3, <1>4, <1>5

\* New episodes, Coming up, Continue watching, the history and what plays next
\* are computed apart, from two orders of episodes; over any entries, dates and
\* marks they agree (NewEpisodes, ComingUp, List, Continue, next, upcoming).
THEOREM TheShelvesAgree == Spec => []ShelvesAgree
<1>1. IInv => ShelvesAgree
  BY ShelvesFollow DEF IInv
<1> QED
  BY Invariant, <1>1, PTL

-----------------------------------------------------------------------------
(* The search history: the latest of a table in a strict total order. *)

Places == [at : Nat \cup {-1}, id : Nat]
Gone == [at |-> -1, id |-> 0]

\* Finitely many searches are kept, each in a row of its own.
Table(s) ==
  /\ s \in [Queries -> Places]
  /\ \A q \in Queries : s[q].at = -1 => s[q] = Gone
  /\ IsFiniteSet(Kept(s))
  /\ \A q, r \in Kept(s) : s[q].id = s[r].id => q = r

Newer(s, q) == {r \in Kept(s) : NewestFirst(s, r, q)}

LEMMA KeptAre ==
  ASSUME NEW s, Table(s)
  PROVE  /\ \A q \in Queries : s[q].at \in Int /\ s[q].id \in Nat /\ s[q].at >= -1
         /\ \A q \in Queries : q \notin Kept(s) => s[q] = Gone
         /\ Kept(s) \subseteq Queries
BY DEF Table, Kept, Places

LEMMA NewestFirstOrders ==
  ASSUME NEW s, Table(s)
  PROVE  /\ \A q \in Queries : ~NewestFirst(s, q, q)
         /\ \A q, r \in Kept(s) : q # r => NewestFirst(s, q, r) \/ NewestFirst(s, r, q)
         /\ \A q, r \in Queries : NewestFirst(s, q, r) => ~NewestFirst(s, r, q)
         /\ \A q, r, x \in Queries : NewestFirst(s, q, r) /\ NewestFirst(s, r, x) => NewestFirst(s, q, x)
<1>1. \A q \in Queries : s[q].at \in Int /\ s[q].id \in Int
  BY KeptAre
<1>2. Kept(s) \subseteq Queries /\ \A q, r \in Kept(s) : q # r => s[q].id # s[r].id
  BY KeptAre DEF Table
<1> QED
  BY <1>1, <1>2 DEF NewestFirst

LEMMA NewerAre ==
  ASSUME NEW s, Table(s), NEW q
  PROVE  /\ Newer(s, q) \in SUBSET Kept(s) /\ IsFiniteSet(Newer(s, q))
         /\ Cardinality(Newer(s, q)) \in Nat
<1>1. Newer(s, q) \in SUBSET Kept(s) /\ IsFiniteSet(Kept(s))
  BY DEF Newer, Table
<1> QED
  BY <1>1, FS_Subset, FS_CardinalityType

\* The newer of two searches has fewer before it.
LEMMA FewerNewer ==
  ASSUME NEW s, Table(s), NEW q \in Kept(s), NEW r \in Kept(s), NewestFirst(s, r, q)
  PROVE  /\ Newer(s, r) \subseteq Newer(s, q)
         /\ Cardinality(Newer(s, r)) < Cardinality(Newer(s, q))
<1>1. Newer(s, r) \in SUBSET Newer(s, q) /\ r \in Newer(s, q) /\ r \notin Newer(s, r)
  BY NewestFirstOrders, KeptAre DEF Newer
<1>2. /\ IsFiniteSet(Newer(s, q)) /\ Cardinality(Newer(s, q)) \in Nat
      /\ Cardinality(Newer(s, r)) \in Nat
  BY NewerAre
<1>3. Cardinality(Newer(s, r)) <= Cardinality(Newer(s, q))
      /\ Cardinality(Newer(s, r)) # Cardinality(Newer(s, q))
  BY <1>1, <1>2, FS_Subset
<1> QED
  BY <1>1, <1>2, <1>3

LEMMA TrimmedIs ==
  ASSUME NEW s, Table(s)
  PROVE  /\ \A q \in Queries : Trimmed(s)[q] = IF Cardinality(Newer(s, q)) < Keep THEN s[q] ELSE Gone
         /\ Kept(Trimmed(s)) = {q \in Kept(s) : Cardinality(Newer(s, q)) < Keep}
         /\ \A q \in Queries : Trimmed(s)[q] = IF q \in Kept(Trimmed(s)) THEN s[q] ELSE Gone
         /\ Table(Trimmed(s))
<1> DEFINE t == Trimmed(s)
<1>1. /\ t = [q \in Queries |-> t[q]]
      /\ \A q \in Queries : t[q] = IF Cardinality(Newer(s, q)) < Keep THEN s[q] ELSE Gone
  BY DEF Trimmed, Newer, Gone
<1>2. \A q \in Queries : /\ s[q].at \in Int /\ s[q].at >= -1 /\ (q \notin Kept(s) => s[q] = Gone)
                         /\ (q \in Kept(s) <=> s[q].at >= 0)
                         /\ s[q] \in Places
  BY KeptAre DEF Kept, Table
<1>3. Gone \in Places /\ Gone.at = -1
  BY DEF Gone, Places
<1> HIDE DEF t
<1>4. \A q \in Queries : q \in Kept(t) <=> t[q].at >= 0
  BY DEF Kept
<1>5. Kept(t) = {q \in Kept(s) : Cardinality(Newer(s, q)) < Keep}
  BY <1>1, <1>2, <1>3, <1>4 DEF Kept
<1>6. \A q \in Queries : t[q] = IF q \in Kept(t) THEN s[q] ELSE Gone
  BY <1>1, <1>2, <1>5
<1>7. t \in [Queries -> Places]
  BY <1>1, <1>2, <1>3
<1>8. \A q \in Queries : t[q].at = -1 => t[q] = Gone
  BY <1>2, <1>4, <1>6
<1>9. IsFiniteSet(Kept(t)) /\ Kept(t) \subseteq Kept(s)
  BY <1>5, FS_Subset DEF Table
<1>10. \A q, r \in Kept(t) : t[q].id = t[r].id => q = r
  <2>1. \A q \in Kept(t) : q \in Queries /\ q \in Kept(s) /\ t[q] = s[q]
    BY <1>6, <1>9, KeptAre
  <2> QED
    BY <2>1 DEF Table
<1>11. Table(t)
  BY <1>7, <1>8, <1>9, <1>10 DEF Table
<1> QED
  BY <1>1, <1>5, <1>6, <1>11 DEF t

\* What is kept is newer than what is forgotten.
LEMMA KeptIsNewer ==
  ASSUME NEW s, Table(s), NEW r \in Kept(Trimmed(s)), NEW x \in Kept(s), x \notin Kept(Trimmed(s))
  PROVE  NewestFirst(s, r, x)
<1>1. /\ r \in Kept(s) /\ Cardinality(Newer(s, r)) < Keep /\ ~(Cardinality(Newer(s, x)) < Keep)
  BY TrimmedIs
<1>2. r # x /\ Cardinality(Newer(s, r)) \in Nat /\ Cardinality(Newer(s, x)) \in Nat /\ Keep \in Nat
  BY <1>1, NewerAre, PersonalAssumption
<1>3. ~NewestFirst(s, x, r)
  BY <1>1, <1>2, FewerNewer
<1> QED
  BY <1>1, <1>2, <1>3, NewestFirstOrders

\* No more than Keep are kept.
LEMMA KeptAtMost ==
  ASSUME NEW s, Table(s)
  PROVE  /\ IsFiniteSet(Kept(Trimmed(s))) /\ Cardinality(Kept(Trimmed(s))) \in Nat
         /\ Cardinality(Kept(Trimmed(s))) <= Keep
<1> DEFINE K == Kept(Trimmed(s))
           R == {x \in K \X K : NewestFirst(s, x[1], x[2])}
<1>1. K \subseteq Kept(s) /\ IsFiniteSet(K) /\ \A q \in K : Cardinality(Newer(s, q)) < Keep
  BY TrimmedIs DEF Table
<1>2. \A q, r \in K : <<q, r>> \in R <=> NewestFirst(s, q, r)
  OBVIOUS
<1> HIDE DEF K, R
<1>3. Cardinality(K) \in Nat
  BY <1>1, FS_CardinalityType
<1>4. CASE K = {}
  BY <1>1, <1>3, <1>4, FS_EmptySet, PersonalAssumption DEF K
<1>5. CASE K # {}
  <2>1. Orders(R, K)
    BY <1>1, <1>2, NewestFirstOrders, KeptAre DEF Orders
  <2>2. PICK m \in K : \A o \in K \ {m} : <<o, m>> \in R
    BY <1>1, <1>5, <2>1, SomeLast
  <2>3. K \ {m} \in SUBSET Newer(s, m)
    BY <1>1, <1>2, <2>2 DEF Newer
  <2>4. IsFiniteSet(Newer(s, m)) /\ Cardinality(Newer(s, m)) \in Nat
    BY NewerAre
  <2>5. Cardinality(K \ {m}) <= Cardinality(Newer(s, m)) /\ Cardinality(K \ {m}) = Cardinality(K) - 1
    BY <1>1, <2>2, <2>3, <2>4, FS_Subset, FS_RemoveElement
  <2>6. Cardinality(Newer(s, m)) < Keep /\ Keep \in Nat
    BY <1>1, <2>2, PersonalAssumption
  <2>7. Cardinality(K) <= Keep
    BY <1>3, <2>4, <2>5, <2>6
  <2> QED
    BY <1>1, <1>3, <2>7 DEF K
<1> QED
  BY <1>4, <1>5

\* If any is forgotten, there are Keep that are kept.
LEMMA KeptIsFull ==
  ASSUME NEW s, Table(s), NEW x \in Kept(s), x \notin Kept(Trimmed(s))
  PROVE  Cardinality(Kept(Trimmed(s))) >= Keep
<1> DEFINE K == Kept(Trimmed(s))
           F == Kept(s) \ K
           R == {y \in F \X F : NewestFirst(s, y[2], y[1])}
<1>1. IsFiniteSet(F) /\ F # {} /\ F \subseteq Kept(s) /\ IsFiniteSet(K)
  BY KeptAtMost, FS_Subset DEF Table
<1>2. \A q, r \in F : <<q, r>> \in R <=> NewestFirst(s, r, q)
  OBVIOUS
<1>3. \A q \in F : ~(Cardinality(Newer(s, q)) < Keep)
  BY TrimmedIs
<1>4. \A q \in Kept(s) : q \in K \/ q \in F
  OBVIOUS
<1> HIDE DEF K, F, R
<1>5. Orders(R, F)
  BY <1>1, <1>2, NewestFirstOrders, KeptAre DEF Orders
<1>6. PICK m \in F : \A o \in F \ {m} : <<o, m>> \in R
  BY <1>1, <1>5, SomeLast
<1>7. Newer(s, m) \in SUBSET K
  <2> SUFFICES ASSUME NEW q \in Newer(s, m), q \in F PROVE FALSE
    BY <1>4 DEF Newer
  <2>1. NewestFirst(s, q, m) /\ q \in Kept(s) /\ q \in Queries /\ m \in Queries
    BY <1>1, KeptAre DEF Newer
  <2>2. q # m
    BY <2>1, NewestFirstOrders
  <2>3. NewestFirst(s, m, q)
    BY <1>2, <1>6, <2>2
  <2> QED
    BY <2>1, <2>3, NewestFirstOrders
<1>8. Cardinality(Newer(s, m)) <= Cardinality(K) /\ Cardinality(K) \in Nat
      /\ Cardinality(Newer(s, m)) \in Nat /\ ~(Cardinality(Newer(s, m)) < Keep) /\ Keep \in Nat
  BY <1>1, <1>3, <1>6, <1>7, FS_Subset, FS_CardinalityType, NewerAre, PersonalAssumption
<1> QED
  BY <1>8 DEF K

-----------------------------------------------------------------------------
(* A search recorded, and a file's merged. *)

LEMMA StampIs ==
  ASSUME NEW s, Table(s), time \in Nat
  PROVE  Stamp(s) \in Nat /\ \A r \in Kept(s) : s[r].at < Stamp(s)
<1> DEFINE A == {-1} \cup {s[q].at : q \in Kept(s)}
           last == CHOOSE a \in A : \A r \in Kept(s) : s[r].at <= a
           R == {x \in Kept(s) \X Kept(s) : NewestFirst(s, x[2], x[1])}
<1>1. \A q \in Kept(s) : s[q].at \in Nat /\ q \in Queries
  BY DEF Table, Kept, Places
<1>2. \E a \in A : \A r \in Kept(s) : s[r].at <= a
  <2>1. CASE Kept(s) = {}
    BY <2>1
  <2>2. CASE Kept(s) # {}
    <3>1. \A q, r \in Kept(s) : <<q, r>> \in R <=> NewestFirst(s, r, q)
      OBVIOUS
    <3> HIDE DEF R
    <3>2. Orders(R, Kept(s))
      BY <1>1, <3>1, NewestFirstOrders DEF Orders
    <3>3. PICK m \in Kept(s) : \A o \in Kept(s) \ {m} : <<o, m>> \in R
      BY <2>2, <3>2, SomeLast DEF Table
    <3>4. \A r \in Kept(s) : s[r].at <= s[m].at
      <4> SUFFICES ASSUME NEW r \in Kept(s), r # m PROVE s[r].at <= s[m].at
        BY <1>1
      <4>1. NewestFirst(s, m, r)
        BY <3>1, <3>3
      <4> QED
        BY <1>1, <4>1 DEF NewestFirst
    <3> QED
      BY <3>4
  <2> QED
    BY <2>1, <2>2
<1>3. last \in A /\ \A r \in Kept(s) : s[r].at <= last
  <2> HIDE DEF A
  <2> QED
    BY <1>2, Zenon
<1>4. last \in Int /\ last >= -1
  <2>1. \A a \in A : a \in Int /\ a >= -1
    BY <1>1
  <2> HIDE DEF A, last
  <2> QED
    BY <1>3, <2>1
<1>5. Stamp(s) = IF time > last THEN time ELSE last + 1
  BY DEF Stamp
<1> HIDE DEF last, A
<1> QED
  BY <1>1, <1>3, <1>4, <1>5

LEMMA FreshIdIs ==
  ASSUME NEW s, Table(s)
  PROVE  FreshId(s) \in Nat /\ \A r \in Kept(s) : s[r].id < FreshId(s)
<1> DEFINE A == {0} \cup {s[q].id : q \in Kept(s)}
           last == CHOOSE i \in A : \A r \in Kept(s) : s[r].id <= i
           R == {x \in Kept(s) \X Kept(s) : s[x[1]].id < s[x[2]].id}
<1>1. \A q \in Kept(s) : s[q].id \in Nat /\ \A r \in Kept(s) : s[q].id = s[r].id => q = r
  BY KeptAre DEF Table
<1>2. \E i \in A : \A r \in Kept(s) : s[r].id <= i
  <2>1. CASE Kept(s) = {}
    BY <2>1
  <2>2. CASE Kept(s) # {}
    <3>1. \A q, r \in Kept(s) : <<q, r>> \in R <=> s[q].id < s[r].id
      OBVIOUS
    <3> HIDE DEF R
    <3>2. Orders(R, Kept(s))
      BY <1>1, <3>1 DEF Orders
    <3>3. PICK m \in Kept(s) : \A o \in Kept(s) \ {m} : <<o, m>> \in R
      BY <2>2, <3>2, SomeLast DEF Table
    <3>4. \A r \in Kept(s) : s[r].id <= s[m].id
      <4> SUFFICES ASSUME NEW r \in Kept(s), r # m PROVE s[r].id <= s[m].id
        BY <1>1
      <4>1. s[r].id < s[m].id
        BY <3>1, <3>3
      <4> QED
        BY <1>1, <4>1
    <3> QED
      BY <3>4
  <2> QED
    BY <2>1, <2>2
<1>3. last \in A /\ \A r \in Kept(s) : s[r].id <= last
  <2> HIDE DEF A
  <2> QED
    BY <1>2, Zenon
<1>4. last \in Nat
  <2>1. \A i \in A : i \in Nat
    BY <1>1
  <2> HIDE DEF A, last
  <2> QED
    BY <1>3, <2>1
<1>5. FreshId(s) = 1 + last
  BY DEF FreshId
<1> HIDE DEF last, A
<1> QED
  BY <1>1, <1>3, <1>4, <1>5

LEMMA PutIs ==
  ASSUME NEW s, Table(s), NEW q \in Queries, NEW at \in Nat
  PROVE  LET t == PutSearch(s, q, at) IN
         /\ Table(t) /\ Kept(t) = Kept(s) \cup {q}
         /\ t[q].at = at /\ \A r \in Queries : r # q => t[r] = s[r]
<1> DEFINE t == PutSearch(s, q, at)
           id == IF q \in Kept(s) THEN s[q].id ELSE FreshId(s)
<1>1. FreshId(s) \in Nat /\ \A r \in Kept(s) : s[r].id < FreshId(s)
  BY FreshIdIs
<1>2. id \in Nat
  BY <1>1, KeptAre
<1>3. t = [s EXCEPT ![q] = [at |-> at, id |-> id]]
  BY DEF PutSearch, Table
<1>4. \A r \in Kept(s) : r # q => s[r].id # id
  BY <1>1, KeptAre DEF Table
<1> HIDE DEF t, id
<1>5. t \in [Queries -> Places] /\ t[q] = [at |-> at, id |-> id] /\ \A r \in Queries : r # q => t[r] = s[r]
  BY <1>2, <1>3 DEF Table, Places
<1>6. Kept(t) = Kept(s) \cup {q}
  BY <1>5 DEF Kept
<1>7. IsFiniteSet(Kept(t))
  BY <1>6, FS_AddElement DEF Table
<1>8. \A r \in Queries : t[r].at = -1 => t[r] = Gone
  BY <1>5 DEF Table
<1>9. \A x, r \in Kept(t) : t[x].id = t[r].id => x = r
  <2>1. \A r \in Kept(t) : r \in Queries /\ (r # q => r \in Kept(s) /\ t[r] = s[r])
    BY <1>5, <1>6 DEF Kept
  <2>2. t[q].id = id
    BY <1>5
  <2> QED
    BY <1>4, <2>1, <2>2 DEF Table
<1>10. Table(t)
  BY <1>5, <1>7, <1>8, <1>9 DEF Table
<1> QED
  BY <1>5, <1>6, <1>10 DEF t

\* The search just recorded is the first, and no more than Keep are kept.
LEMMA RecordedIsFirst ==
  ASSUME NEW s, Table(s), NEW q \in Queries, time \in Nat
  PROVE  LET t == Trimmed(PutSearch(s, q, Stamp(s))) IN
         /\ Table(t) /\ Cardinality(Kept(t)) <= Keep
         /\ \A r \in Kept(t) \ {q} : NewestFirst(t, q, r)
<1> DEFINE p == PutSearch(s, q, Stamp(s))
           t == Trimmed(p)
<1>1. Stamp(s) \in Nat /\ \A r \in Kept(s) : s[r].at < Stamp(s)
  BY StampIs
<1>2. /\ Table(p) /\ Kept(p) = Kept(s) \cup {q} /\ p[q].at = Stamp(s)
      /\ \A r \in Queries : r # q => p[r] = s[r]
  BY <1>1, PutIs
<1> HIDE DEF p
<1>3. \A r \in Kept(p) \ {q} : r \in Queries /\ p[r].at \in Int /\ p[r].at < p[q].at
  BY <1>1, <1>2, KeptAre
<1>4. Newer(p, q) = {}
  <2>1. \A r \in Kept(p) \ {q} : ~NewestFirst(p, r, q)
    BY <1>1, <1>2, <1>3 DEF NewestFirst
  <2>2. ~NewestFirst(p, q, q)
    BY <1>2, NewestFirstOrders
  <2> QED
    BY <2>1, <2>2 DEF Newer
<1>5. Cardinality(Newer(p, q)) < Keep
  BY <1>4, FS_EmptySet, PersonalAssumption
<1>6. /\ Table(t) /\ q \in Kept(t) /\ Kept(t) \subseteq Kept(p)
      /\ \A r \in Kept(t) : r \in Queries => t[r] = p[r]
  BY <1>2, <1>5, TrimmedIs
<1>7. Cardinality(Kept(t)) <= Keep
  BY <1>2, KeptAtMost
<1> HIDE DEF t
<1>8. \A r \in Kept(t) \ {q} : NewestFirst(t, q, r)
  BY <1>1, <1>2, <1>3, <1>6 DEF NewestFirst
<1> QED
  BY <1>6, <1>7, <1>8 DEF t, p

\* The table an import writes before it is trimmed: ImportSearches(s, f).
Fresh(s, f) == {q \in Kept(f) : f[q].at > s[q].at} \ Kept(s)
Place(s, f, q) == Cardinality({r \in Fresh(s, f) : NewestFirst(f, r, q)})
Merged(s, f) ==
  [q \in Queries |->
     IF q \in Fresh(s, f) THEN [at |-> f[q].at, id |-> FreshId(s) + Place(s, f, q)]
     ELSE IF q \in Kept(f) /\ f[q].at > s[q].at THEN [at |-> f[q].at, id |-> s[q].id] ELSE s[q]]

LEMMA ImportIsMerged ==
  ASSUME NEW s, NEW f
  PROVE  ImportSearches(s, f) = Trimmed(Merged(s, f))
BY DEF ImportSearches, Merged, Fresh, Place

\* The new rows have rowids of their own, in the order of the file.
LEMMA PlacesDiffer ==
  ASSUME NEW s, NEW f, Table(s), Table(f)
  PROVE  /\ \A q \in Fresh(s, f) : Place(s, f, q) \in Nat
         /\ \A q, r \in Fresh(s, f) : Place(s, f, q) = Place(s, f, r) => q = r
<1> DEFINE F == Fresh(s, f)
           B(q) == {r \in F : NewestFirst(f, r, q)}
<1>1. F \subseteq Kept(f) /\ IsFiniteSet(F)
  <2>1. F \in SUBSET Kept(f)
    BY DEF Fresh
  <2> QED
    BY <2>1, FS_Subset DEF Table
<1> HIDE DEF F
<1>2. \A q : B(q) \in SUBSET F
  OBVIOUS
<1>3. \A q : IsFiniteSet(B(q)) /\ Cardinality(B(q)) \in Nat
  <2> TAKE q
  <2>1. B(q) \in SUBSET F
    OBVIOUS
  <2> HIDE DEF B
  <2> QED
    BY <1>1, <2>1, FS_Subset, FS_CardinalityType
<1>4. ASSUME NEW q \in F, NEW r \in F, NewestFirst(f, r, q) PROVE Cardinality(B(r)) < Cardinality(B(q))
  <2>1. B(r) \in SUBSET B(q) /\ r \in B(q) /\ r \notin B(r)
    BY <1>1, <1>4, NewestFirstOrders, KeptAre
  <2> HIDE DEF B
  <2>2. Cardinality(B(r)) <= Cardinality(B(q)) /\ Cardinality(B(r)) # Cardinality(B(q))
    BY <1>3, <2>1, FS_Subset
  <2> QED
    BY <1>3, <2>2
<1>5. ASSUME NEW q \in F, NEW r \in F, q # r PROVE Cardinality(B(q)) # Cardinality(B(r))
  <2>1. NewestFirst(f, q, r) \/ NewestFirst(f, r, q)
    BY <1>1, <1>5, NewestFirstOrders
  <2> HIDE DEF B
  <2> QED
    BY <1>3, <1>4, <2>1
<1>6. \A q : Place(s, f, q) = Cardinality(B(q))
  BY DEF Place, F
<1> HIDE DEF B
<1> QED
  BY <1>3, <1>5, <1>6 DEF F

\* An import keeps every search of both, at the later of its two times.
LEMMA MergedIs ==
  ASSUME NEW s, NEW f, Table(s), Table(f)
  PROVE  LET m == Merged(s, f) IN
         /\ Table(m) /\ Kept(m) = Kept(s) \cup Kept(f)
         /\ \A q \in Queries : m[q].at = IF f[q].at > s[q].at THEN f[q].at ELSE s[q].at
         /\ \A q \in Queries : f[q].at <= s[q].at => m[q] = s[q]
<1> DEFINE m == Merged(s, f)
           F == Fresh(s, f)
<1>1. FreshId(s) \in Nat /\ \A r \in Kept(s) : s[r].id < FreshId(s)
  BY FreshIdIs
<1>2. \A q \in Queries : /\ s[q].at \in Int /\ s[q].id \in Nat /\ s[q].at >= -1 /\ s[q] \in Places
                         /\ f[q].at \in Int /\ f[q].id \in Nat /\ f[q].at >= -1
                         /\ (q \notin Kept(s) => s[q] = Gone)
                         /\ (q \in Kept(s) <=> s[q].at >= 0) /\ (q \in Kept(f) <=> f[q].at >= 0)
  BY KeptAre DEF Table, Kept
<1>3. \A q \in F : Place(s, f, q) \in Nat
  BY PlacesDiffer
<1>4. /\ m = [q \in Queries |-> m[q]]
      /\ \A q \in Queries : m[q] =
           IF q \in F THEN [at |-> f[q].at, id |-> FreshId(s) + Place(s, f, q)]
           ELSE IF q \in Kept(f) /\ f[q].at > s[q].at THEN [at |-> f[q].at, id |-> s[q].id] ELSE s[q]
  BY DEF Merged
<1>5. \A q \in Queries : q \in F <=> q \in Kept(f) /\ q \notin Kept(s)
  BY <1>2 DEF Fresh, Gone
<1>5a. F \subseteq Queries
  BY KeptAre DEF Fresh
<1> HIDE DEF m, F
<1>6. \A q \in Queries : m[q].at = IF f[q].at > s[q].at THEN f[q].at ELSE s[q].at
  <2> TAKE q \in Queries
  <2>1. CASE q \in F
    BY <1>2, <1>4, <1>5, <2>1 DEF Gone
  <2>2. CASE q \notin F /\ q \in Kept(f) /\ f[q].at > s[q].at
    BY <1>4, <2>2
  <2>3. CASE ~(f[q].at > s[q].at)
    BY <1>2, <1>4, <1>5, <2>3 DEF Gone
  <2>4. q \notin Kept(f) => ~(f[q].at > s[q].at)
    BY <1>2
  <2> QED
    BY <2>1, <2>2, <2>3, <2>4
<1>7. \A q \in Queries : f[q].at <= s[q].at => m[q] = s[q]
  BY <1>2, <1>4, <1>5 DEF Gone
<1>8. Kept(m) = Kept(s) \cup Kept(f)
  BY <1>2, <1>6 DEF Kept
<1>9. m \in [Queries -> Places]
  <2>1. \A q \in Queries : m[q] \in Places
    <3> TAKE q \in Queries
    <3>1. CASE q \in F
      BY <1>1, <1>2, <1>3, <1>4, <1>5, <3>1 DEF Places
    <3>2. CASE q \notin F /\ q \in Kept(f) /\ f[q].at > s[q].at
      BY <1>2, <1>4, <3>2 DEF Places
    <3>3. CASE q \notin F /\ ~(q \in Kept(f) /\ f[q].at > s[q].at)
      BY <1>2, <1>4, <3>3
    <3> QED
      BY <3>1, <3>2, <3>3
  <2> QED
    BY <1>4, <2>1
<1>10. \A q \in Queries : m[q].at = -1 => m[q] = Gone
  BY <1>2, <1>6, <1>7 DEF Gone
<1>11. IsFiniteSet(Kept(m))
  <2>1. IsFiniteSet(Kept(s)) /\ IsFiniteSet(Kept(f))
    BY DEF Table
  <2>2. IsFiniteSet(Kept(s) \cup Kept(f))
    BY <2>1, FS_Union
  <2> QED
    BY <1>8, <2>2
<1>12. \A q \in Queries : /\ q \in F => m[q].id = FreshId(s) + Place(s, f, q)
                          /\ q \in Kept(s) => m[q].id = s[q].id
                          /\ q \in Kept(m) /\ q \notin F => q \in Kept(s)
  BY <1>4, <1>5, <1>8
<1>13. ASSUME NEW q \in Kept(m), NEW r \in Kept(m), m[q].id = m[r].id PROVE q = r
  <2>1. q \in Queries /\ r \in Queries
    BY DEF Kept
  <2>2. CASE q \in F /\ r \in F
    <3>1. Place(s, f, q) = Place(s, f, r)
      BY <1>1, <1>3, <1>12, <1>13, <2>1, <2>2
    <3> QED
      BY <2>2, <3>1, PlacesDiffer DEF F
  <2>3. CASE q \in F /\ r \notin F
    BY <1>1, <1>2, <1>3, <1>12, <1>13, <2>1, <2>3
  <2>4. CASE q \notin F /\ r \in F
    BY <1>1, <1>2, <1>3, <1>12, <1>13, <2>1, <2>4
  <2>5. CASE q \notin F /\ r \notin F
    BY <1>12, <1>13, <2>1, <2>5 DEF Table
  <2> QED
    BY <2>2, <2>3, <2>4, <2>5
<1>14. Table(m)
  BY <1>9, <1>10, <1>11, <1>13 DEF Table
<1> QED
  BY <1>6, <1>7, <1>8, <1>14 DEF m

\* What Apart says of two tables of searches.
Aside(s, f) ==
  /\ \A q \in Kept(s), r \in Kept(f) : s[q].at = f[r].at => q = r
  /\ \A q, r \in Kept(f) : f[q].at = f[r].at => q = r

\* What is forgotten of a file is older than all that is kept.
LEMMA ForgottenIsOlder ==
  ASSUME NEW s, NEW f, Table(s), Table(f), Aside(s, f),
         NEW r \in Kept(Trimmed(Merged(s, f))), NEW x \in Kept(f), x \notin Kept(Trimmed(Merged(s, f)))
  PROVE  f[x].at < Merged(s, f)[r].at
<1> DEFINE m == Merged(s, f)
<1>1. /\ Table(m) /\ Kept(m) = Kept(s) \cup Kept(f)
      /\ \A q \in Queries : m[q].at = IF f[q].at > s[q].at THEN f[q].at ELSE s[q].at
  BY MergedIs
<1> HIDE DEF m
<1>2. /\ r \in Kept(m) /\ x \in Kept(m) /\ r \in Queries /\ x \in Queries /\ r # x
  BY <1>1, TrimmedIs, KeptAre DEF m
<1>3. NewestFirst(m, r, x)
  BY <1>1, <1>2, KeptIsNewer DEF m
<1>4. /\ m[r].at \in Int /\ m[x].at \in Int /\ s[r].at \in Int /\ f[r].at \in Int
      /\ s[x].at \in Int /\ f[x].at \in Int /\ m[r].at >= 0
  BY <1>1, <1>2, KeptAre DEF Kept
<1>5. m[r].at >= m[x].at /\ m[x].at >= f[x].at
  BY <1>1, <1>2, <1>3, <1>4 DEF NewestFirst
<1>6. m[r].at # f[x].at
  <2>1. CASE m[r].at = f[r].at
    <3>1. r \in Kept(f)
      BY <1>2, <1>4, <2>1 DEF Kept
    <3> QED
      BY <1>2, <2>1, <3>1 DEF Aside
  <2>2. CASE m[r].at = s[r].at
    <3>1. r \in Kept(s)
      BY <1>2, <1>4, <2>2 DEF Kept
    <3> QED
      BY <1>2, <2>2, <3>1 DEF Aside
  <2> QED
    BY <1>1, <1>2, <2>1, <2>2
<1> QED
  BY <1>4, <1>5, <1>6 DEF m

\* A table that has what was kept, and besides it only older searches of which
\* some were forgotten, keeps the same.
LEMMA KeepsTheSame ==
  ASSUME NEW m, NEW n, Table(m), Table(n), Kept(Trimmed(m)) \subseteq Kept(n),
         Kept(n) \subseteq Kept(m),
         \A x \in Kept(n) \ Kept(Trimmed(m)), r \in Kept(Trimmed(m)) : n[x].at < n[r].at
  PROVE  Kept(Trimmed(n)) = Kept(Trimmed(m))
<1> DEFINE K == Kept(Trimmed(m))
<1>1. IsFiniteSet(K) /\ Cardinality(K) \in Nat /\ Cardinality(K) <= Keep /\ Keep \in Nat
  BY KeptAtMost, PersonalAssumption
<1>2. \A x \in Kept(n) \ K : Cardinality(K) >= Keep
  BY KeptIsFull
<1>3. Kept(Trimmed(n)) = {q \in Kept(n) : Cardinality(Newer(n, q)) < Keep}
  BY TrimmedIs
<1>4. \A q : /\ IsFiniteSet(Newer(n, q)) /\ Cardinality(Newer(n, q)) \in Nat
             /\ Newer(n, q) \subseteq Kept(n)
  BY NewerAre
<1>5. \A q \in Kept(n) : q \in Queries /\ n[q].at \in Int
  BY KeptAre
<1> HIDE DEF K
<1>6. ASSUME NEW r \in K PROVE Cardinality(Newer(n, r)) < Keep
  <2>1. \A x \in Kept(n) \ K : x \notin Newer(n, r)
    BY <1>5, <1>6 DEF K, Newer, NewestFirst
  <2>2. r \notin Newer(n, r)
    BY <1>5, <1>6, NewestFirstOrders DEF K, Newer
  <2>3. Newer(n, r) \in SUBSET (K \ {r})
    BY <1>4, <2>1, <2>2
  <2>4. IsFiniteSet(K \ {r}) /\ Cardinality(K \ {r}) = Cardinality(K) - 1
    BY <1>1, <1>6, FS_RemoveElement
  <2>5. Cardinality(Newer(n, r)) <= Cardinality(K \ {r})
    BY <2>3, <2>4, FS_Subset
  <2> QED
    BY <1>1, <1>4, <2>4, <2>5
<1>7. ASSUME NEW x \in Kept(n) \ K PROVE ~(Cardinality(Newer(n, x)) < Keep)
  <2>1. K \in SUBSET Newer(n, x)
    BY <1>5, <1>7 DEF K, Newer, NewestFirst
  <2>2. Cardinality(K) <= Cardinality(Newer(n, x))
    BY <1>4, <2>1, FS_Subset
  <2> QED
    BY <1>1, <1>2, <1>4, <2>2
<1>8. K \subseteq Kept(n)
  BY DEF K
<1> QED
  BY <1>3, <1>6, <1>7, <1>8 DEF K

\* The table that another import of the file, or an import of the table into
\* the other core, writes before it is trimmed.
LEMMA MergedAgain ==
  ASSUME NEW s, NEW f, Table(s), Table(f), Aside(s, f), NEW n, Table(n),
         Kept(n) = Kept(Trimmed(Merged(s, f))) \cup Kept(f),
         \A q \in Kept(Trimmed(Merged(s, f))) : n[q].at = Merged(s, f)[q].at,
         \A q \in Kept(f) \ Kept(Trimmed(Merged(s, f))) : n[q].at = f[q].at
  PROVE  Kept(Trimmed(n)) = Kept(Trimmed(Merged(s, f)))
<1> DEFINE m == Merged(s, f)
           K == Kept(Trimmed(m))
<1>1. Table(m) /\ Kept(m) = Kept(s) \cup Kept(f)
  BY MergedIs
<1>2. K \subseteq Kept(m)
  BY <1>1, TrimmedIs
<1>3. \A x \in Kept(n) \ K, r \in K : n[x].at < n[r].at
  BY ForgottenIsOlder
<1>4. K \subseteq Kept(n) /\ Kept(n) \subseteq Kept(m)
  BY <1>1, <1>2
<1> HIDE DEF m
<1> QED
  BY <1>1, <1>3, <1>4, KeepsTheSame DEF m

LEMMA SearchesTwice ==
  ASSUME NEW s, NEW f, Table(s), Table(f), Aside(s, f)
  PROVE  ImportSearches(ImportSearches(s, f), f) = ImportSearches(s, f)
<1> DEFINE m == Merged(s, f)
           t == Trimmed(m)
           n == Merged(t, f)
<1>1. /\ Table(m) /\ Kept(m) = Kept(s) \cup Kept(f)
      /\ \A q \in Queries : m[q].at = IF f[q].at > s[q].at THEN f[q].at ELSE s[q].at
  BY MergedIs
<1>2. /\ Table(t) /\ Kept(t) \subseteq Kept(m)
      /\ \A q \in Queries : t[q] = IF q \in Kept(t) THEN m[q] ELSE Gone
  BY <1>1, TrimmedIs
<1>3. /\ Table(n) /\ Kept(n) = Kept(t) \cup Kept(f)
      /\ \A q \in Queries : n[q].at = IF f[q].at > t[q].at THEN f[q].at ELSE t[q].at
      /\ \A q \in Queries : f[q].at <= t[q].at => n[q] = t[q]
  BY <1>2, MergedIs
<1>4. /\ \A q \in Queries : n[q] \in Places /\ f[q].at \in Int /\ s[q].at \in Int /\ f[q].at >= -1
      /\ Kept(t) \subseteq Queries
      /\ \A q \in Kept(f) : q \in Queries /\ f[q].at >= 0
  BY <1>2, <1>3, KeptAre DEF Table, Kept
<1>5. ImportSearches(ImportSearches(s, f), f) = Trimmed(n) /\ ImportSearches(s, f) = t
  BY ImportIsMerged
<1> HIDE DEF m, t, n
<1>6. \A q \in Kept(t) : n[q] = t[q] /\ t[q] = m[q]
  BY <1>1, <1>2, <1>3, <1>4
<1>7. \A q \in Kept(f) \ Kept(t) : n[q].at = f[q].at
  BY <1>2, <1>3, <1>4 DEF Gone
<1>8. Kept(Trimmed(n)) = Kept(t)
  BY <1>3, <1>6, <1>7, MergedAgain DEF m, t
<1>9. /\ Trimmed(n) = [q \in Queries |-> Trimmed(n)[q]]
      /\ \A q \in Queries : Trimmed(n)[q] = IF q \in Kept(Trimmed(n)) THEN n[q] ELSE Gone
  BY <1>3, TrimmedIs DEF Trimmed
<1>10. t = [q \in Queries |-> t[q]]
  BY <1>2 DEF Table
<1>11. \A q \in Queries : Trimmed(n)[q] = t[q]
  BY <1>2, <1>6, <1>8, <1>9
<1>12. Trimmed(n) = t
  BY <1>9, <1>10, <1>11
<1> QED
  BY <1>5, <1>12

LEMMA SearchesConverge ==
  ASSUME NEW s, NEW f, Table(s), Table(f), Aside(s, f)
  PROVE  \A q \in Queries : ImportSearches(s, f)[q].at = ImportSearches(f, ImportSearches(s, f))[q].at
<1> DEFINE m == Merged(s, f)
           t == Trimmed(m)
           n == Merged(f, t)
<1>1. /\ Table(m) /\ Kept(m) = Kept(s) \cup Kept(f)
      /\ \A q \in Queries : m[q].at = IF f[q].at > s[q].at THEN f[q].at ELSE s[q].at
  BY MergedIs
<1>2. /\ Table(t) /\ Kept(t) \subseteq Kept(m)
      /\ \A q \in Queries : t[q] = IF q \in Kept(t) THEN m[q] ELSE Gone
  BY <1>1, TrimmedIs
<1>3. /\ Table(n) /\ Kept(n) = Kept(f) \cup Kept(t)
      /\ \A q \in Queries : n[q].at = IF t[q].at > f[q].at THEN t[q].at ELSE f[q].at
  BY <1>2, MergedIs
<1>4. /\ \A q \in Queries : f[q].at \in Int /\ s[q].at \in Int /\ f[q].at >= -1
      /\ Kept(t) \subseteq Queries
      /\ \A q \in Kept(f) : q \in Queries /\ f[q].at >= 0
  BY <1>2, KeptAre DEF Kept
<1>5. ImportSearches(f, ImportSearches(s, f)) = Trimmed(n) /\ ImportSearches(s, f) = t
  BY ImportIsMerged
<1> HIDE DEF m, t, n
<1>6. \A q \in Kept(t) : n[q].at = t[q].at /\ t[q] = m[q]
  BY <1>1, <1>2, <1>3, <1>4
<1>7. \A q \in Kept(f) \ Kept(t) : n[q].at = f[q].at
  BY <1>2, <1>3, <1>4 DEF Gone
<1>8. Kept(Trimmed(n)) = Kept(t)
  BY <1>3, <1>6, <1>7, MergedAgain DEF m, t
<1>9. \A q \in Queries : Trimmed(n)[q] = IF q \in Kept(Trimmed(n)) THEN n[q] ELSE Gone
  BY <1>3, TrimmedIs
<1>10. \A q \in Queries : Trimmed(n)[q].at = t[q].at
  BY <1>2, <1>6, <1>8, <1>9 DEF Gone
<1> QED
  BY <1>5, <1>10

-----------------------------------------------------------------------------
(* The tables of a core and its file. *)

Times == -1..MaxTime
Said == Picks \cup {None}
Chosen == [pack : Said, tracks : Said, at : Times, pickedAt : Times]
Stores == [entry : [Rows -> Row], listed : Times,
           choice : Chosen,
           search : [Queries -> Places], prefs : [Prefs -> Values \cup {None}]]

Store(d) ==
  /\ d \in Stores /\ Table(d.search)
  /\ d.listed <= time /\ d.choice.pickedAt <= d.choice.at /\ d.choice.at <= time

\* The titles and the searches of a file, and then its preferences.
Doc(f) ==
  /\ f = [entry |-> f.entry, listed |-> f.listed, tracks |-> f.tracks, search |-> f.search, prefs |-> f.prefs]
  /\ f.entry \in [Rows -> Row] /\ Table(f.search)
  /\ f.listed \in Times /\ f.listed <= time
  /\ f.tracks.val \in Said /\ f.tracks.at \in Times /\ f.tracks.pickedAt \in Times
  /\ f.tracks.at <= time /\ (f.tracks.at >= 0 => f.tracks.pickedAt <= f.tracks.at)
  /\ f.prefs # None => f.prefs \in [PersonalPrefs -> Values \cup {None}]

\* A core takes the preferences it wrote itself.
Own(c, f) == f.prefs # None => \A k \in PersonalPrefs : f.prefs[k] \in Accepts[c][k] \cup {None}

\* The tracks of a choice about to be saved were picked before.
Choosing ==
  /\ choosing \in [Cores -> Chosen \cup {None}]
  /\ \A c \in Cores : choosing[c] # None => choosing[c].pickedAt <= time

PersonalInv ==
  /\ time \in 0..MaxTime /\ writes \in 0..MaxWrites
  /\ telling \subseteq Cores /\ untold \subseteq Cores /\ Choosing
  /\ applied \in [Cores -> [Prefs -> Values \cup {Default}]]
  /\ DOMAIN data = Cores /\ DOMAIN file = Cores
  /\ \A c \in Cores : Store(data[c])
  /\ \A c \in Cores : file[c] # None => Doc(file[c]) /\ Own(c, file[c])
  /\ AppliedIsStored

LEMMA GetIs ==
  ASSUME NEW d, d.prefs \in [Prefs -> Values \cup {None}]
  PROVE  Get(d) \in [Prefs -> Values \cup {Default}]
BY DEF Get

LEMMA TimesAre == 
  /\ MaxTime \in Nat /\ -1 \in Times
  /\ \A a \in Times : a \in Int /\ a >= -1 /\ a <= MaxTime
  /\ \A a \in Int : a >= -1 /\ a <= MaxTime => a \in Times
BY PersonalAssumption DEF Times

LEMMA PersonalInitInv == PersonalInit => PersonalInv
<1> SUFFICES ASSUME PersonalInit PROVE PersonalInv
  OBVIOUS
<1>1. PICK left \in [Cores -> [PersonalPrefs -> Values \cup {None}]] :
        data = [c \in Cores |-> [Empty EXCEPT !.prefs = SetPreferences(@, left[c])]]
  BY DEF PersonalInit
<1>2. /\ time = 0 /\ writes = 0 /\ telling = {} /\ untold = {} /\ file = [c \in Cores |-> None]
      /\ applied = [c \in Cores |-> Get(data[c])] /\ choosing = [c \in Cores |-> None]
  BY DEF PersonalInit
<1>3. Table(Empty.search)
  <2>1. Kept(Empty.search) = {}
    BY DEF Kept, Empty
  <2> QED
    BY <2>1, FS_EmptySet DEF Table, Empty, Places, Gone
<1>4. ASSUME NEW c \in Cores PROVE Store(data[c])
  <2> DEFINE p == SetPreferences(Empty.prefs, left[c])
  <2>1. left[c] \in [PersonalPrefs -> Values \cup {None}]
    BY <1>1
  <2>2. p \in [Prefs -> Values \cup {None}]
    BY <2>1 DEF SetPreferences, Empty
  <2>3. data[c] = [Empty EXCEPT !.prefs = p]
    BY <1>1 DEF Empty
  <2> HIDE DEF p
  <2>4. data[c].search = Empty.search /\ data[c].listed = -1 /\ data[c].choice = Empty.choice
        /\ data[c].entry = Empty.entry /\ data[c].prefs = p
        /\ data[c] = [entry |-> Empty.entry, listed |-> -1, choice |-> Empty.choice,
                      search |-> Empty.search, prefs |-> p]
    BY <2>3 DEF Empty
  <2>5. Empty.entry \in [Rows -> Row] /\ Empty.search \in [Queries -> Places]
    BY <1>3, TimesAre DEF Empty, Row, NoRow, Table, Times
  <2>6. Empty.choice \in Chosen
    BY TimesAre DEF Empty, Said, Chosen
  <2>7. Empty.choice.pickedAt = -1 /\ Empty.choice.at = -1
    BY DEF Empty
  <2> QED
    BY <1>2, <1>3, <2>2, <2>4, <2>5, <2>6, <2>7, TimesAre DEF Store, Stores
<1>5. \A c \in Cores : data[c].prefs \in [Prefs -> Values \cup {None}]
  BY <1>4 DEF Store, Stores
<1>6. applied \in [Cores -> [Prefs -> Values \cup {Default}]]
  BY <1>2, <1>5, GetIs
<1>7. DOMAIN data = Cores /\ DOMAIN file = Cores /\ \A c \in Cores : file[c] = None
  BY <1>1, <1>2
<1>8. AppliedIsStored /\ Choosing
  BY <1>2 DEF AppliedIsStored, Choosing
<1> QED
  BY <1>2, <1>4, <1>6, <1>7, <1>8, PersonalAssumption DEF PersonalInv

\* A change of a core's tables, told afterwards or leaving its preferences.
LEMMA WrittenKeeps ==
  ASSUME PersonalInv, NEW c \in Cores, NEW d, time' = time, writes' \in 0..MaxWrites,
         data' = [data EXCEPT ![c] = d], Store(d),
         UNCHANGED <<applied, untold, file>>, choosing' = choosing \/ choosing' = [choosing EXCEPT ![c] = None],
         \/ telling' = telling \cup {c}
         \/ telling' = telling /\ d.prefs = data[c].prefs
  PROVE  PersonalInv'
<1>2. DOMAIN data' = Cores /\ data'[c] = d /\ \A o \in Cores : o # c => data'[o] = data[o]
  BY DEF PersonalInv
<1>3. \A o \in Cores : Store(data[o])' 
  <2>1. \A o \in Cores : Store(data'[o])
    BY <1>2 DEF PersonalInv
  <2> QED
    BY <2>1 DEF Store
<1>4. \A o \in Cores : (file[o] # None => Doc(file[o]) /\ Own(o, file[o]))'
  BY DEF PersonalInv, Doc, Own
<1>5. AppliedIsStored'
  <2> SUFFICES ASSUME NEW o \in Cores, o \notin telling' \cup untold PROVE applied[o] = Get(data'[o])
    BY DEF AppliedIsStored
  <2>1. o \notin telling \cup untold /\ data'[o].prefs = data[o].prefs
    BY <1>2
  <2>2. applied[o] = Get(data[o])
    BY <2>1 DEF PersonalInv, AppliedIsStored
  <2> QED
    BY <2>1, <2>2 DEF Get
<1>6. telling' \subseteq Cores /\ untold' \subseteq Cores
  BY DEF PersonalInv
<1>7. Choosing'
  BY DEF PersonalInv, Choosing
<1> QED
  BY <1>2, <1>3, <1>4, <1>5, <1>6, <1>7 DEF PersonalInv

LEMMA ChangedKeeps ==
  ASSUME PersonalInv, NEW c \in Cores, NEW d, Changed(c, d), Store(d),
         UNCHANGED <<applied, choosing, untold, file>>,
         \/ telling' = telling \cup {c}
         \/ telling' = telling /\ d.prefs = data[c].prefs
  PROVE  PersonalInv'
<1>1. /\ time' = time /\ writes' \in 0..MaxWrites /\ data' = [data EXCEPT ![c] = d]
  BY PersonalAssumption DEF Changed, PersonalInv
<1> QED
  BY <1>1, WrittenKeeps

LEMMA SettingIs ==
  ASSUME NEW prefs \in [Prefs -> Values \cup {None}], NEW changes,
         \A k \in DOMAIN changes : changes[k] \in Values \cup {None}
  PROVE  SetPreferences(prefs, changes) \in [Prefs -> Values \cup {None}]
BY DEF SetPreferences

\* An import leaves tables a core can have.
LEMMA ImportIs ==
  ASSUME time \in 0..MaxTime, NEW d, Store(d), NEW f, Doc(f),
         f.prefs \in [PersonalPrefs -> Values \cup {None}]
  PROVE  LET i == ImportPersonal(d, f) IN
         /\ Store(i)
         /\ i = [entry |-> [e \in Rows |-> Later(f.entry[e], d.entry[e])],
                 listed |-> IF d.listed < 0 THEN f.listed ELSE d.listed,
                 choice |-> IF f.tracks.at > d.choice.at
                            THEN [pack |-> d.choice.pack, tracks |-> f.tracks.val, at |-> f.tracks.at,
                                  pickedAt |-> f.tracks.pickedAt]
                            ELSE d.choice,
                 search |-> ImportSearches(d.search, f.search),
                 prefs |-> ImportPreferences(d.prefs, f.prefs)]
<1> DEFINE entry == [e \in Rows |-> Later(f.entry[e], d.entry[e])]
           listed == IF d.listed < 0 THEN f.listed ELSE d.listed
           choice == IF f.tracks.at > d.choice.at
                     THEN [d.choice EXCEPT !.tracks = f.tracks.val, !.at = f.tracks.at,
                                           !.pickedAt = f.tracks.pickedAt]
                     ELSE d.choice
           search == ImportSearches(d.search, f.search)
           prefs == ImportPreferences(d.prefs, f.prefs)
           i == ImportPersonal(d, f)
<1>1. /\ d \in Stores /\ Table(d.search) /\ Table(f.search)
      /\ d.choice \in Chosen
      /\ d.entry \in [Rows -> Row] /\ d.listed \in Times /\ d.prefs \in [Prefs -> Values \cup {None}]
  BY DEF Store, Stores, Doc
<1>2. i = [d EXCEPT !.entry = entry, !.listed = listed, !.choice = choice, !.search = search, !.prefs = prefs]
  BY <1>1 DEF ImportPersonal, ImportTitle, Stores
<1>3. entry \in [Rows -> Row]
  BY <1>1 DEF Later, Doc
<1>4. listed \in Times /\ listed <= time
  BY <1>1, TimesAre DEF Doc, Store
<1>5. f.tracks.at > d.choice.at =>
        choice = [pack |-> d.choice.pack, tracks |-> f.tracks.val, at |-> f.tracks.at,
                  pickedAt |-> f.tracks.pickedAt]
  BY <1>1 DEF Chosen
<1>6. choice \in Chosen
      /\ choice.pickedAt <= choice.at /\ choice.at <= time
  <2>1. CASE f.tracks.at > d.choice.at
    <3>1. f.tracks.at >= 0
      BY <1>1, <2>1, TimesAre DEF Doc, Chosen
    <3> QED
      BY <1>1, <1>5, <2>1, <3>1 DEF Doc, Chosen
  <2>2. CASE ~(f.tracks.at > d.choice.at)
    BY <1>1, <2>2 DEF Store
  <2> QED
    BY <2>1, <2>2
<1>7. Table(search)
  BY <1>1, ImportIsMerged, MergedIs, TrimmedIs
<1>8. prefs \in [Prefs -> Values \cup {None}]
  <2> DEFINE changes == [k \in {x \in PersonalPrefs : f.prefs[x] # None} |-> f.prefs[k]]
  <2>1. \A k \in DOMAIN changes : changes[k] \in Values \cup {None}
    BY DEF Doc
  <2> HIDE DEF changes
  <2>2. SetPreferences(d.prefs, changes) \in [Prefs -> Values \cup {None}]
    BY <1>1, <2>1, SettingIs
  <2> QED
    BY <2>2 DEF ImportPreferences, changes
<1> HIDE DEF entry, listed, choice, search, prefs, i
<1>9. i = [entry |-> entry, listed |-> listed, choice |-> choice, search |-> search, prefs |-> prefs]
  BY <1>1, <1>2 DEF Stores
<1>10. Store(i)
  <2>1. search \in [Queries -> Places]
    BY <1>7 DEF Table
  <2> QED
    BY <1>3, <1>4, <1>6, <1>7, <1>8, <1>9, <2>1 DEF Store, Stores
<1> QED
  BY <1>5, <1>9, <1>10 DEF entry, listed, choice, search, prefs, i

LEMMA ImportParts ==
  ASSUME time \in 0..MaxTime, NEW d, Store(d), NEW f, Doc(f),
         f.prefs \in [PersonalPrefs -> Values \cup {None}], NEW i, i = ImportPersonal(d, f)
  PROVE  /\ Store(i)
         /\ i.entry = [e \in Rows |-> Later(f.entry[e], d.entry[e])]
         /\ i.listed = IF d.listed < 0 THEN f.listed ELSE d.listed
         /\ i.search = ImportSearches(d.search, f.search)
         /\ i.prefs = ImportPreferences(d.prefs, f.prefs)
BY ImportIs

\* A core's tables with one of them replaced.
LEMMA StoreWith ==
  ASSUME NEW d, Store(d)
  PROVE  /\ \A x : x \in [Rows -> Row] => Store([d EXCEPT !.entry = x])
         /\ \A x : x \in Times /\ x <= time => Store([d EXCEPT !.listed = x])
         /\ \A x : /\ x \in Chosen
                   /\ x.pickedAt <= x.at /\ x.at <= time
                   => Store([d EXCEPT !.choice = x])
         /\ \A x : Table(x) => Store([d EXCEPT !.search = x])
         /\ \A x : x \in [Prefs -> Values \cup {None}] => Store([d EXCEPT !.prefs = x])
<1>1. d \in Stores /\ Table(d.search)
  BY DEF Store
<1>2. \A x : Table(x) => x \in [Queries -> Places]
  BY DEF Table
<1> QED
  BY <1>1, <1>2 DEF Store, Stores

LEMMA StoreIs ==
  ASSUME NEW d, Store(d)
  PROVE  /\ d.entry \in [Rows -> Row] /\ d.listed \in Times /\ d.listed <= time
         /\ d.choice \in Chosen /\ d.choice.at \in Times /\ d.choice.pickedAt \in Times
         /\ d.choice.tracks \in Said
         /\ d.choice.pickedAt <= d.choice.at /\ d.choice.at <= time
         /\ Table(d.search) /\ d.search \in [Queries -> Places]
         /\ d.prefs \in [Prefs -> Values \cup {None}]
         /\ d = [entry |-> d.entry, listed |-> d.listed, choice |-> d.choice, search |-> d.search,
                 prefs |-> d.prefs]
BY DEF Store, Stores, Chosen

LEMMA WriteEntryKeeps ==
  ASSUME PersonalInv, NEW c \in Cores, NEW e \in Rows, NEW v \in Words, WriteEntry(c, e, v)
  PROVE  PersonalInv'
<1> DEFINE x == [data[c].entry EXCEPT ![e] = [val |-> v, at |-> time]]
           d == [data[c] EXCEPT !.entry = x]
<1>1. Store(data[c]) /\ time \in 0..MaxTime
  BY DEF PersonalInv
<1>2. x \in [Rows -> Row]
  BY <1>1, StoreIs, PersonalAssumption DEF Row
<1>3. Changed(c, [data[c] EXCEPT !.entry[e] = [val |-> v, at |-> time]]) /\ UNCHANGED <<applied, choosing, telling, untold, file>>
  BY DEF WriteEntry
<1>4. [data[c] EXCEPT !.entry[e] = [val |-> v, at |-> time]] = d /\ d.prefs = data[c].prefs
  BY <1>1, StoreIs
<1> HIDE DEF x
<1>5. Store(d)
  BY <1>1, <1>2, StoreWith
<1> QED
  BY <1>3, <1>4, <1>5, ChangedKeeps

LEMMA ListTitleKeeps ==
  ASSUME PersonalInv, NEW c \in Cores, ListTitle(c)
  PROVE  PersonalInv'
<1> DEFINE d == [data[c] EXCEPT !.listed = time]
<1>1. Store(data[c]) /\ time \in Times /\ time <= time
  BY PersonalAssumption DEF PersonalInv, Times
<1>2. Changed(c, d) /\ UNCHANGED <<applied, choosing, telling, untold, file>>
  BY DEF ListTitle
<1>3. Store(d) /\ d.prefs = data[c].prefs
  BY <1>1, StoreWith, StoreIs
<1> QED
  BY <1>2, <1>3, ChangedKeeps

\* What is about to be saved, and whether the subscribers know, change; the
\* tables and the files do not.
LEMMA TablesKeep ==
  ASSUME PersonalInv, UNCHANGED <<time, data, file>>, writes' \in 0..MaxWrites,
         telling' \subseteq Cores, untold' \subseteq Cores, Choosing',
         applied' \in [Cores -> [Prefs -> Values \cup {Default}]], AppliedIsStored'
  PROVE  PersonalInv'
<1>1. \A o \in Cores : Store(data[o])' /\ (file[o] # None => Doc(file[o]) /\ Own(o, file[o]))'
  BY DEF PersonalInv, Store, Doc, Own
<1> QED
  BY <1>1 DEF PersonalInv

LEMMA ChangeChoiceKeeps ==
  ASSUME PersonalInv, NEW c \in Cores, NEW choice \in Chosen, choice.pickedAt <= time, ChangeChoice(c, choice)
  PROVE  PersonalInv'
<1>1. /\ writes' \in 0..MaxWrites /\ choosing' = [choosing EXCEPT ![c] = choice]
      /\ UNCHANGED <<time, data, applied, telling, untold, file>>
  BY PersonalAssumption DEF ChangeChoice, PersonalInv
<1>2. Choosing'
  BY <1>1 DEF PersonalInv, Choosing
<1>3. AppliedIsStored'
  BY <1>1 DEF PersonalInv, AppliedIsStored, Get
<1> QED
  BY <1>1, <1>2, <1>3, TablesKeep DEF PersonalInv

LEMMA RememberKeeps ==
  ASSUME PersonalInv, NEW c \in Cores, NEW v \in Picks, RememberSource(c, v) \/ RememberTracks(c, v)
  PROVE  PersonalInv'
<1>1. Store(data[c]) /\ time \in Times
  BY PersonalAssumption DEF PersonalInv, Times
<1>2. data[c].choice \in Chosen /\ data[c].choice.pickedAt <= time /\ v \in Said
  BY <1>1, StoreIs, TimesAre DEF Said, Chosen
<1>3. CASE RememberSource(c, v)
  <2> DEFINE x == [data[c].choice EXCEPT !.pack = v]
  <2>1. x \in Chosen /\ x.pickedAt <= time
    BY <1>2 DEF Chosen
  <2>2. ChangeChoice(c, x)
    BY <1>3 DEF RememberSource
  <2> HIDE DEF x
  <2> QED
    BY <2>1, <2>2, ChangeChoiceKeeps
<1>4. CASE RememberTracks(c, v)
  <2> DEFINE x == [data[c].choice EXCEPT !.tracks = v, !.pickedAt = time]
  <2>1. x \in Chosen /\ x.pickedAt = time
    BY <1>1, <1>2 DEF Chosen
  <2>2. ChangeChoice(c, x)
    BY <1>4 DEF RememberTracks
  <2> HIDE DEF x
  <2>3. x.pickedAt <= time
    BY <1>1, <2>1, TimesAre
  <2> QED
    BY <2>1, <2>2, <2>3, ChangeChoiceKeeps
<1> QED
  BY <1>3, <1>4

LEMMA SaveChoiceKeeps ==
  ASSUME PersonalInv, NEW c \in Cores, SaveChoice(c) \/ ChoiceNotSaved(c)
  PROVE  PersonalInv'
<1>1. /\ choosing[c] \in Chosen /\ choosing[c].pickedAt <= time
      /\ choosing' = [choosing EXCEPT ![c] = None] /\ writes' = writes
      /\ UNCHANGED <<time, applied, telling, untold, file>>
  BY DEF PersonalInv, Choosing, SaveChoice, ChoiceNotSaved
<1>2. CASE SaveChoice(c)
  <2> DEFINE x == [choosing[c] EXCEPT !.at = time]
             d == [data[c] EXCEPT !.choice = x]
  <2>1. Store(data[c]) /\ time \in Times
    BY PersonalAssumption DEF PersonalInv, Times
  <2>2. x \in Chosen /\ x.pickedAt <= x.at /\ x.at <= time
    BY <1>1, <2>1, TimesAre DEF Chosen
  <2>3. data' = [data EXCEPT ![c] = d]
    BY <1>2 DEF SaveChoice
  <2> HIDE DEF x
  <2>4. Store(d) /\ d.prefs = data[c].prefs
    BY <2>1, <2>2, StoreWith, StoreIs
  <2> HIDE DEF d
  <2> QED
    BY <1>1, <2>3, <2>4, WrittenKeeps DEF PersonalInv
<1>3. CASE ChoiceNotSaved(c)
  <2>1. data' = data /\ Choosing'
    BY <1>1, <1>3 DEF ChoiceNotSaved, PersonalInv, Choosing
  <2>2. AppliedIsStored'
    BY <1>1, <2>1 DEF PersonalInv, AppliedIsStored, Get
  <2> QED
    BY <1>1, <2>1, <2>2, TablesKeep DEF PersonalInv
<1> QED
  BY <1>2, <1>3

LEMMA RecordSearchKeeps ==
  ASSUME PersonalInv, NEW c \in Cores, NEW q \in Queries, RecordSearch(c, q)
  PROVE  PersonalInv'
<1> DEFINE s == data[c].search
           x == Trimmed(PutSearch(s, q, Stamp(s)))
           d == [data[c] EXCEPT !.search = x]
<1>1. Store(data[c]) /\ time \in Nat
  BY PersonalAssumption DEF PersonalInv
<1>2. Table(x)
  BY <1>1, StoreIs, RecordedIsFirst
<1>3. Changed(c, d) /\ UNCHANGED <<applied, choosing, telling, untold, file>>
  BY DEF RecordSearch
<1> HIDE DEF x
<1>4. Store(d) /\ d.prefs = data[c].prefs
  BY <1>1, <1>2, StoreWith, StoreIs
<1> QED
  BY <1>3, <1>4, ChangedKeeps

LEMMA ForgetSearchesKeeps ==
  ASSUME PersonalInv, NEW c \in Cores, NEW gone, ForgetSearches(c, gone)
  PROVE  PersonalInv'
<1> DEFINE s == data[c].search
           x == [q \in Queries |-> IF q \in gone THEN [at |-> -1, id |-> 0] ELSE s[q]]
           d == [data[c] EXCEPT !.search = x]
<1>1. Store(data[c]) /\ Table(s)
  BY StoreIs DEF PersonalInv
<1>2. \A q \in Queries : x[q] = IF q \in gone THEN Gone ELSE s[q]
  BY DEF Gone
<1>3. x \in [Queries -> Places]
  BY <1>1 DEF Table, Places
<1>4. Changed(c, d) /\ UNCHANGED <<applied, choosing, telling, untold, file>>
  BY DEF ForgetSearches
<1> HIDE DEF x
<1>5. \A q \in Kept(x) : q \in Queries /\ q \in Kept(s) /\ x[q] = s[q]
  BY <1>2 DEF Kept, Gone
<1>6. IsFiniteSet(Kept(x))
  <2>1. Kept(x) \in SUBSET Kept(s) /\ IsFiniteSet(Kept(s))
    BY <1>1, <1>5 DEF Table
  <2> QED
    BY <2>1, FS_Subset
<1>7. Table(x)
  BY <1>1, <1>2, <1>3, <1>5, <1>6 DEF Table
<1>8. Store(d) /\ d.prefs = data[c].prefs
  BY <1>1, <1>7, StoreWith, StoreIs
<1> QED
  BY <1>4, <1>8, ChangedKeeps

LEMMA PatchKeeps ==
  ASSUME PersonalInv, NEW c \in Cores, NEW k \in Prefs, NEW v \in Values \cup {None}, Patch(c, k, v)
  PROVE  PersonalInv'
<1> DEFINE changes == [x \in {k} |-> v]
           x == SetPreferences(data[c].prefs, changes)
           d == [data[c] EXCEPT !.prefs = x]
<1>1. Store(data[c]) /\ data[c].prefs \in [Prefs -> Values \cup {None}]
  BY StoreIs DEF PersonalInv
<1>2. Changed(c, d) /\ UNCHANGED <<applied, choosing, untold, file>> /\ telling' = telling \cup {c}
  BY DEF Patch, Locked
<1>3. x \in [Prefs -> Values \cup {None}]
  BY <1>1, SettingIs
<1> HIDE DEF x
<1>4. Store(d)
  BY <1>1, <1>3, StoreWith
<1> QED
  BY <1>2, <1>4, ChangedKeeps

LEMMA ResetKeeps ==
  ASSUME PersonalInv, NEW c \in Cores, Reset(c)
  PROVE  PersonalInv'
<1> DEFINE changes == [k \in Prefs |-> None]
           x == SetPreferences(data[c].prefs, changes)
           d == [data[c] EXCEPT !.prefs = x]
<1>1. Store(data[c]) /\ data[c].prefs \in [Prefs -> Values \cup {None}]
  BY StoreIs DEF PersonalInv
<1>2. Changed(c, d) /\ UNCHANGED <<applied, choosing, untold, file>> /\ telling' = telling \cup {c}
  BY DEF Reset, Locked
<1>3. x \in [Prefs -> Values \cup {None}]
  BY <1>1, SettingIs
<1> HIDE DEF x
<1>4. Store(d)
  BY <1>1, <1>3, StoreWith
<1> QED
  BY <1>2, <1>4, ChangedKeeps

LEMMA ImportKeeps ==
  ASSUME PersonalInv, NEW c \in Cores, NEW from \in Cores, Import(c, from)
  PROVE  PersonalInv'
<1>1. /\ Store(data[c]) /\ time \in 0..MaxTime /\ Doc(file[from])
      /\ file[from].prefs \in [PersonalPrefs -> Values \cup {None}]
  BY DEF PersonalInv, Import, Doc
<1>2. /\ Changed(c, ImportPersonal(data[c], file[from])) /\ UNCHANGED <<applied, choosing, untold, file>>
      /\ telling' = telling \cup {c}
  BY DEF Import, Locked
<1>3. Store(ImportPersonal(data[c], file[from]))
  BY <1>1, ImportIs
<1> QED
  BY <1>2, <1>3, ChangedKeeps

LEMMA NotifyKeeps ==
  ASSUME PersonalInv, NEW c \in Cores, Notify(c) \/ NotifyFails(c)
  PROVE  PersonalInv'
<1>1. UNCHANGED <<time, data, choosing, file, writes>> /\ telling' = telling \ {c}
  BY DEF Notify, NotifyFails
<1>2. Choosing'
  BY <1>1 DEF PersonalInv, Choosing
<1>3. CASE Notify(c)
  <2>1. untold' = untold \ {c} /\ applied' = [applied EXCEPT ![c] = Get(data[c])]
    BY <1>3 DEF Notify
  <2>2. Get(data[c]) \in [Prefs -> Values \cup {Default}]
    BY StoreIs, GetIs DEF PersonalInv
  <2>3. applied' \in [Cores -> [Prefs -> Values \cup {Default}]]
    BY <2>1, <2>2 DEF PersonalInv
  <2>4. AppliedIsStored'
    BY <1>1, <2>1 DEF PersonalInv, AppliedIsStored, Get
  <2> QED
    BY <1>1, <1>2, <2>1, <2>3, <2>4, TablesKeep DEF PersonalInv
<1>4. CASE NotifyFails(c)
  <2>1. untold' = untold \cup {c} /\ applied' = applied
    BY <1>4 DEF NotifyFails
  <2>2. AppliedIsStored'
    BY <1>1, <2>1 DEF PersonalInv, AppliedIsStored, Get
  <2> QED
    BY <1>1, <1>2, <2>1, <2>2, TablesKeep DEF PersonalInv
<1> QED
  BY <1>3, <1>4

\* A core's file replaced.
LEMMA FiledKeeps ==
  ASSUME PersonalInv, NEW c \in Cores, NEW f, Doc(f), Own(c, f), file' = [file EXCEPT ![c] = f],
         UNCHANGED <<time, data, applied, choosing, telling, untold, writes>>
  PROVE  PersonalInv'
<1>1. DOMAIN file' = Cores /\ \A o \in Cores : file'[o] = IF o = c THEN f ELSE file[o]
  BY DEF PersonalInv
<1>2. \A o \in Cores : file'[o] # None => Doc(file'[o]) /\ Own(o, file'[o])
  BY <1>1 DEF PersonalInv
<1>3. \A o \in Cores : (file[o] # None => Doc(file[o]) /\ Own(o, file[o]))'
  BY <1>2 DEF Doc, Own
<1>4. \A o \in Cores : Store(data[o])'
  BY DEF PersonalInv, Store
<1>5. AppliedIsStored' /\ Choosing'
  BY DEF PersonalInv, AppliedIsStored, Choosing, Get
<1> QED
  BY <1>1, <1>3, <1>4, <1>5 DEF PersonalInv

\* What a core exports is a file.
LEMMA ExportIs ==
  ASSUME time \in 0..MaxTime, NEW d, Store(d), NEW c \in Cores
  PROVE  /\ Doc(ExportPersonal(d)) /\ ExportPersonal(d).prefs = None
         /\ StoredPersonal(c, d) \in [PersonalPrefs -> Values \cup {None}]
         /\ \A k \in PersonalPrefs : StoredPersonal(c, d)[k] \in Accepts[c][k] \cup {None}
<1>1. StoredPersonal(c, d) \in [PersonalPrefs -> Values \cup {None}]
  BY StoreIs, PersonalAssumption DEF StoredPersonal
<1>2. \A k \in PersonalPrefs : StoredPersonal(c, d)[k] \in Accepts[c][k] \cup {None}
  BY DEF StoredPersonal
<1>3. /\ ExportPersonal(d).entry = d.entry /\ ExportPersonal(d).listed = d.listed
      /\ ExportPersonal(d).search = d.search /\ ExportPersonal(d).prefs = None
      /\ ExportPersonal(d).tracks = ExportTracks(d)
      /\ ExportPersonal(d) =
           [entry |-> ExportPersonal(d).entry, listed |-> ExportPersonal(d).listed,
            tracks |-> ExportPersonal(d).tracks, search |-> ExportPersonal(d).search,
            prefs |-> ExportPersonal(d).prefs]
  BY DEF ExportPersonal, ExportEntries, ExportSearches
<1>4. /\ ExportTracks(d).val = d.choice.tracks /\ ExportTracks(d).pickedAt = d.choice.pickedAt
      /\ ExportTracks(d).at \in {-1, d.choice.at}
  BY DEF ExportTracks
<1>5. d.choice.at \in Times /\ d.choice.pickedAt \in Times /\ d.choice.tracks \in Said
      /\ d.choice.pickedAt <= d.choice.at /\ d.choice.at <= time
  BY StoreIs
<1>6. -1 <= time
  BY TimesAre
<1> QED
  BY <1>1, <1>2, <1>3, <1>4, <1>5, <1>6, StoreIs, TimesAre DEF Doc

LEMMA ExportKeeps ==
  ASSUME PersonalInv, NEW c \in Cores, Export(c) \/ ExportPrefs(c)
  PROVE  PersonalInv'
<1>1. Store(data[c]) /\ time \in 0..MaxTime
  BY DEF PersonalInv
<1>2. CASE Export(c)
  <2>1. Doc(ExportPersonal(data[c])) /\ Own(c, ExportPersonal(data[c]))
    BY <1>1, ExportIs DEF Own
  <2>2. file' = [file EXCEPT ![c] = ExportPersonal(data[c])] /\ UNCHANGED <<time, data, applied, choosing, telling, untold, writes>>
    BY <1>2 DEF Export
  <2> QED
    BY <2>1, <2>2, FiledKeeps
<1>3. CASE ExportPrefs(c)
  <2> DEFINE f == [file[c] EXCEPT !.prefs = StoredPersonal(c, data[c])]
  <2>1. file' = [file EXCEPT ![c] = f] /\ UNCHANGED <<time, data, applied, choosing, telling, untold, writes>> /\ file[c] # None
    BY <1>3 DEF ExportPrefs
  <2>2. /\ f.entry = file[c].entry /\ f.listed = file[c].listed /\ f.tracks = file[c].tracks
        /\ f.search = file[c].search /\ f.prefs = StoredPersonal(c, data[c])
        /\ f = [entry |-> f.entry, listed |-> f.listed, tracks |-> f.tracks, search |-> f.search,
                prefs |-> f.prefs]
    <3>1. file[c] = [entry |-> file[c].entry, listed |-> file[c].listed, tracks |-> file[c].tracks,
                     search |-> file[c].search, prefs |-> file[c].prefs]
      BY <2>1 DEF PersonalInv, Doc
    <3>2. f = [entry |-> file[c].entry, listed |-> file[c].listed, tracks |-> file[c].tracks,
               search |-> file[c].search, prefs |-> StoredPersonal(c, data[c])]
      BY <3>1
    <3> HIDE DEF f
    <3> QED
      BY <3>2
  <2>3. Doc(f) /\ Own(c, f)
    BY <1>1, <2>1, <2>2, ExportIs DEF PersonalInv, Doc, Own
  <2> HIDE DEF f
  <2> QED
    BY <2>1, <2>3, FiledKeeps
<1> QED
  BY <1>2, <1>3

LEMMA PersonalStepInv == PersonalInv /\ [PersonalNext]_personalVars => PersonalInv'
<1> SUFFICES ASSUME PersonalInv, [PersonalNext]_personalVars PROVE PersonalInv'
  OBVIOUS
<1>1. CASE UNCHANGED personalVars
  <2>1. UNCHANGED <<time, data, applied, choosing, telling, untold, file, writes>>
    BY <1>1 DEF personalVars
  <2>2. \A o \in Cores : Store(data[o])' /\ (file[o] # None => Doc(file[o]) /\ Own(o, file[o]))'
    BY <2>1 DEF PersonalInv, Store, Doc, Own
  <2>3. AppliedIsStored' /\ Choosing'
    BY <2>1 DEF PersonalInv, AppliedIsStored, Choosing, Get
  <2> QED
    BY <2>1, <2>2, <2>3 DEF PersonalInv
<1>2. CASE TimePasses
  <2>1. UNCHANGED <<data, applied, choosing, telling, untold, file, writes>> /\ time' \in 0..MaxTime /\ time' = time + 1
    BY <1>2, PersonalAssumption DEF TimePasses, PersonalInv
  <2>2. \A a \in Times : a <= time => a <= time'
    BY <2>1, TimesAre DEF PersonalInv
  <2>3. ASSUME NEW o \in Cores PROVE Store(data[o])'
    <3>1. Store(data[o])
      BY DEF PersonalInv
    <3>2. data[o].listed \in Times /\ data[o].choice.at \in Times
      BY <3>1, StoreIs
    <3> QED
      BY <2>1, <2>2, <3>1, <3>2 DEF Store
  <2>4. ASSUME NEW o \in Cores PROVE (file[o] # None => Doc(file[o]) /\ Own(o, file[o]))'
    <3>1. file[o] # None => Doc(file[o]) /\ Own(o, file[o])
      BY DEF PersonalInv
    <3> QED
      BY <2>1, <2>2, <3>1 DEF Doc, Own
  <2>5. AppliedIsStored'
    BY <2>1 DEF PersonalInv, AppliedIsStored, Get
  <2>6. Choosing'
    BY <2>1, <2>2 DEF PersonalInv, Choosing, Chosen
  <2> QED
    BY <2>1, <2>3, <2>4, <2>5, <2>6 DEF PersonalInv
<1>3. ASSUME NEW c \in Cores, Change(c) PROVE PersonalInv'
  <2>1. ASSUME NEW e \in Rows, NEW v \in Words, WriteEntry(c, e, v) PROVE PersonalInv'
    BY <2>1, WriteEntryKeeps
  <2>2. CASE ListTitle(c)
    BY <2>2, ListTitleKeeps
  <2>3. ASSUME NEW v \in Picks, RememberSource(c, v) \/ RememberTracks(c, v) PROVE PersonalInv'
    BY <2>3, RememberKeeps
  <2>4. ASSUME NEW q \in Queries, RecordSearch(c, q) PROVE PersonalInv'
    BY <2>4, RecordSearchKeeps
  <2>5. ASSUME NEW gone, ForgetSearches(c, gone) PROVE PersonalInv'
    BY <2>5, ForgetSearchesKeeps
  <2>6. ASSUME NEW k \in Prefs, NEW v \in Values \cup {None}, Patch(c, k, v) PROVE PersonalInv'
    BY <2>6, PatchKeeps
  <2>7. CASE Reset(c)
    BY <2>7, ResetKeeps
  <2>8. ASSUME NEW from \in Cores, Import(c, from) PROVE PersonalInv'
    BY <2>8, ImportKeeps
  <2> QED
    BY <1>3, <2>1, <2>2, <2>3, <2>4, <2>5, <2>6, <2>7, <2>8 DEF Change
<1>4. ASSUME NEW c \in Cores, Notify(c) \/ NotifyFails(c) PROVE PersonalInv'
  BY <1>4, NotifyKeeps
<1>5. ASSUME NEW c \in Cores, Export(c) \/ ExportPrefs(c) PROVE PersonalInv'
  BY <1>5, ExportKeeps
<1>6. ASSUME NEW c \in Cores, SaveChoice(c) \/ ChoiceNotSaved(c) PROVE PersonalInv'
  BY <1>6, SaveChoiceKeeps
<1> QED
  BY <1>1, <1>2, <1>3, <1>4, <1>5, <1>6 DEF PersonalNext

\* The tables of each core are tables the code can read, its file is one that a
\* core of its version wrote, and its subscribers have what is stored unless
\* telling them the last change failed.
THEOREM PersonalInductive == PersonalSpec => []PersonalInv
BY PersonalInitInv, PersonalStepInv, PTL DEF PersonalSpec

\* Changes, exports and imports keep the tables of every core in their types.
THEOREM PersonalTypeCorrect == PersonalSpec => []PersonalTypeOK
<1>1. PersonalInv => PersonalTypeOK
  <2> SUFFICES ASSUME PersonalInv PROVE PersonalTypeOK
    OBVIOUS
  <2>1. ASSUME NEW c \in Cores
        PROVE  /\ data[c].entry \in [Rows -> Row] /\ data[c].listed \in -1..time
               /\ data[c].choice.at >= data[c].choice.pickedAt
               /\ data[c].prefs \in [Prefs -> Values \cup {None}]
    <3>1. Store(data[c])
      BY DEF PersonalInv
    <3>2. /\ data[c].listed \in Times /\ data[c].listed <= time
          /\ data[c].choice.at \in Int /\ data[c].choice.pickedAt \in Int
      BY <3>1, StoreIs, TimesAre
    <3> QED
      BY <3>1, <3>2, StoreIs, TimesAre DEF PersonalInv
  <2> QED
    BY <2>1 DEF PersonalInv, PersonalTypeOK, Choosing, Chosen, Choice, Said, Times
<1> QED
  BY <1>1, PersonalInductive, PTL

\* Once no change of a core's preferences is being told, those who apply them
\* have the stored ones, or the telling of the last change failed: patches,
\* resets and imports take one lock from the store to the last subscriber, or
\* to the failure (Patch, Reset, Write, notify).
THEOREM AppliedAsStored == PersonalSpec => []AppliedIsStored
<1>1. PersonalInv => AppliedIsStored
  BY DEF PersonalInv
<1> QED
  BY <1>1, PersonalInductive, PTL

\* A search just recorded is the first the field offers and no more than Keep
\* are kept, whatever was imported from clocks ahead (RecordSearch,
\* trimSearches).
THEOREM TheLatestSearchIsFirst == PersonalSpec => RecordedComesFirst
<1> DEFINE First(c, q) ==
      LET s == data'[c].search IN
      /\ \A r \in Kept(s) \ {q} : NewestFirst(s, q, r)
      /\ Cardinality(Kept(s)) <= Keep
<1>1. ASSUME PersonalInv, NEW c \in Cores, NEW q \in Queries, RecordSearch(c, q) PROVE First(c, q)
  <2> DEFINE x == Trimmed(PutSearch(data[c].search, q, Stamp(data[c].search)))
  <2>1. Table(data[c].search) /\ time \in Nat
    BY <1>1, StoreIs, PersonalAssumption DEF PersonalInv
  <2>2. data' = [data EXCEPT ![c] = [data[c] EXCEPT !.search = x]]
    BY <1>1 DEF RecordSearch, Changed
  <2>3. /\ Cardinality(Kept(x)) <= Keep /\ \A r \in Kept(x) \ {q} : NewestFirst(x, q, r)
    BY <2>1, RecordedIsFirst
  <2>4. "search" \in DOMAIN data[c] /\ DOMAIN data = Cores
    BY <1>1, StoreIs DEF PersonalInv, Store, Stores
  <2> HIDE DEF x
  <2>5. data'[c].search = x
    BY <2>2, <2>4
  <2> QED
    BY <2>3, <2>5
<1>2. PersonalInv /\ [PersonalNext]_personalVars =>
        [\A c \in Cores, q \in Queries : RecordSearch(c, q) =>
           LET s == data'[c].search IN
           /\ \A r \in Kept(s) \ {q} : NewestFirst(s, q, r)
           /\ Cardinality(Kept(s)) <= Keep]_personalVars
  BY <1>1
<1> QED
  BY <1>2, PersonalInductive, PTL DEF PersonalSpec, RecordedComesFirst

\* An import changes nothing the second time.
LEMMA ImportAgain ==
  ASSUME time \in 0..MaxTime, NEW d, Store(d), NEW f, Doc(f),
         f.prefs \in [PersonalPrefs -> Values \cup {None}], Apart(d, f)
  PROVE  ImportPersonal(ImportPersonal(d, f), f) = ImportPersonal(d, f)
<1> DEFINE i == ImportPersonal(d, f)
           j == ImportPersonal(i, f)
<1>1. /\ Store(i)
      /\ i.entry = [e \in Rows |-> Later(f.entry[e], d.entry[e])]
      /\ i.listed = IF d.listed < 0 THEN f.listed ELSE d.listed
      /\ i.choice = IF f.tracks.at > d.choice.at
                    THEN [pack |-> d.choice.pack, tracks |-> f.tracks.val, at |-> f.tracks.at,
                          pickedAt |-> f.tracks.pickedAt]
                    ELSE d.choice
      /\ i.search = ImportSearches(d.search, f.search)
      /\ i.prefs = ImportPreferences(d.prefs, f.prefs)
  BY ImportIs
<1> HIDE DEF i
<1>2. /\ Store(j)
      /\ j.entry = [e \in Rows |-> Later(f.entry[e], i.entry[e])]
      /\ j.listed = IF i.listed < 0 THEN f.listed ELSE i.listed
      /\ j.choice = IF f.tracks.at > i.choice.at
                    THEN [pack |-> i.choice.pack, tracks |-> f.tracks.val, at |-> f.tracks.at,
                          pickedAt |-> f.tracks.pickedAt]
                    ELSE i.choice
      /\ j.search = ImportSearches(i.search, f.search)
      /\ j.prefs = ImportPreferences(i.prefs, f.prefs)
  BY <1>1, ImportIs
<1> HIDE DEF j
<1>3. j.entry = i.entry
  <2>1. \A e \in Rows : f.entry[e].at \in Int /\ d.entry[e].at \in Int
    BY StoreIs DEF Doc, Row
  <2>2. \A e \in Rows : Later(f.entry[e], i.entry[e]) = i.entry[e]
    BY <1>1, <2>1 DEF Later
  <2> QED
    BY <1>1, <1>2, <2>2
<1>4. j.listed = i.listed
  BY <1>1, <1>2
<1>5. j.choice = i.choice
  <2>1. f.tracks.at \in Int /\ d.choice.at \in Int
    BY StoreIs, TimesAre DEF Doc
  <2>2. CASE f.tracks.at > d.choice.at
    <3>1. i.choice.at = f.tracks.at
      BY <1>1, <2>2
    <3> QED
      BY <1>2, <2>1, <3>1
  <2>3. CASE ~(f.tracks.at > d.choice.at)
    BY <1>1, <1>2, <2>3
  <2> QED
    BY <2>2, <2>3
<1>6. j.search = i.search
  <2>1. Table(d.search) /\ Table(f.search) /\ Aside(d.search, f.search)
    BY StoreIs DEF Doc, Apart, Aside
  <2> QED
    BY <1>1, <1>2, <2>1, SearchesTwice
<1>7. j.prefs = i.prefs
  <2> DEFINE changes == [k \in {x \in PersonalPrefs : f.prefs[x] # None} |-> f.prefs[k]]
  <2>1. \A p : ImportPreferences(p, f.prefs) = [k \in Prefs |-> IF k \in DOMAIN changes THEN changes[k] ELSE p[k]]
    BY DEF ImportPreferences, SetPreferences
  <2> HIDE DEF changes
  <2>2. i.prefs = [k \in Prefs |-> IF k \in DOMAIN changes THEN changes[k] ELSE d.prefs[k]]
    BY <1>1, <2>1
  <2>3. j.prefs = [k \in Prefs |-> IF k \in DOMAIN changes THEN changes[k] ELSE i.prefs[k]]
    BY <1>2, <2>1
  <2>4. \A k \in Prefs : j.prefs[k] = i.prefs[k]
    BY <2>2, <2>3
  <2>5. j.prefs \in [Prefs -> Values \cup {None}] /\ i.prefs \in [Prefs -> Values \cup {None}]
    BY <1>1, <1>2, StoreIs
  <2> QED
    BY <2>4, <2>5
<1>8. j = i
  BY <1>1, <1>2, <1>3, <1>4, <1>5, <1>6, <1>7, StoreIs
<1> QED
  BY <1>8 DEF i, j

\* A second import of a file changes no entry, date, choice, search, rowid or
\* preference, whatever the core and the file hold, and a core takes back its
\* own file (ImportPersonal, StoredPersonal, ValidatePersonal).
THEOREM ImportedTwiceIsOnce == PersonalSpec => []ImportTwiceChangesNothing
<1>1. ASSUME PersonalInv PROVE ImportTwiceChangesNothing
  <2> SUFFICES ASSUME NEW c \in Cores, NEW from \in Cores,
                      file[from] # None, file[from].prefs # None, Apart(data[c], file[from])
               PROVE  /\ from = c => ValidatePersonal(c, file[from].prefs)
                      /\ LET once == ImportPersonal(data[c], file[from])
                         IN  ImportPersonal(once, file[from]) = once
    BY DEF ImportTwiceChangesNothing
  <2>1. /\ time \in 0..MaxTime /\ Store(data[c]) /\ Doc(file[from]) /\ Own(from, file[from])
        /\ file[from].prefs \in [PersonalPrefs -> Values \cup {None}]
    BY <1>1 DEF PersonalInv, Doc
  <2>2. from = c => ValidatePersonal(c, file[from].prefs)
    BY <2>1 DEF ValidatePersonal, Validate, Own, Doc
  <2> QED
    BY <2>1, <2>2, ImportAgain
<1> QED
  BY <1>1, PersonalInductive, PTL

\* The file a core would write now is one, with preferences.
LEMMA ExportedIs ==
  ASSUME time \in 0..MaxTime, NEW c \in Cores, NEW d, Store(d)
  PROVE  LET f == Exported(c, d) IN
         /\ f.entry = d.entry /\ f.listed = d.listed /\ f.search = d.search
         /\ f.prefs = StoredPersonal(c, d)
         /\ f.prefs \in [PersonalPrefs -> Values \cup {None}]
         /\ Doc(f)
<1> DEFINE e == ExportPersonal(d)
           p == StoredPersonal(c, d)
           f == Exported(c, d)
<1>1. Doc(e) /\ p \in [PersonalPrefs -> Values \cup {None}]
  BY ExportIs
<1>2. e.entry = d.entry /\ e.listed = d.listed /\ e.search = d.search
  BY DEF ExportPersonal, ExportEntries, ExportSearches
<1>3. f = [e EXCEPT !.prefs = p]
  BY DEF Exported
<1> HIDE DEF e, p
<1>4. e = [entry |-> e.entry, listed |-> e.listed, tracks |-> e.tracks, search |-> e.search, prefs |-> e.prefs]
  BY <1>1 DEF Doc
<1>5. f = [entry |-> e.entry, listed |-> e.listed, tracks |-> e.tracks, search |-> e.search, prefs |-> p]
  BY <1>3, <1>4
<1> HIDE DEF f
<1>6. /\ f.entry = e.entry /\ f.listed = e.listed /\ f.tracks = e.tracks /\ f.search = e.search /\ f.prefs = p
      /\ f = [entry |-> f.entry, listed |-> f.listed, tracks |-> f.tracks, search |-> f.search, prefs |-> f.prefs]
  BY <1>5
<1>7. Doc(f)
  BY <1>1, <1>6 DEF Doc
<1> QED
  BY <1>1, <1>2, <1>6, <1>7 DEF f, p

\* The personal preferences of two versions that take each other's.
LEMMA PreferencesConverge ==
  ASSUME NEW c \in Cores, NEW o \in Cores, NEW d, NEW g,
         d.prefs \in [Prefs -> Values \cup {None}], g.prefs \in [Prefs -> Values \cup {None}],
         ValidatePersonal(c, StoredPersonal(o, g)), Validate(c, d.prefs), Validate(o, d.prefs),
         NEW mine, mine.prefs = ImportPreferences(d.prefs, StoredPersonal(o, g)),
         NEW theirs, theirs.prefs = ImportPreferences(g.prefs, StoredPersonal(c, mine))
  PROVE  /\ StoredPersonal(c, mine) = StoredPersonal(o, theirs)
         /\ \A k \in Prefs \ PersonalPrefs : mine.prefs[k] = d.prefs[k] /\ theirs.prefs[k] = g.prefs[k]
<1> DEFINE P == StoredPersonal(o, g)
           Q == StoredPersonal(c, mine)
<1>0. PersonalPrefs \subseteq Prefs /\ None \notin Values /\ \A k \in Prefs : Accepts[c][k] \subseteq Values /\ Accepts[o][k] \subseteq Values
  BY PersonalAssumption
<1>1. \A k \in PersonalPrefs : P[k] = IF g.prefs[k] \in Accepts[o][k] THEN g.prefs[k] ELSE None
  BY DEF StoredPersonal
<1>2. \A k \in PersonalPrefs : Q[k] = IF mine.prefs[k] \in Accepts[c][k] THEN mine.prefs[k] ELSE None
  BY DEF StoredPersonal
<1>3. \A k \in PersonalPrefs : StoredPersonal(o, theirs)[k] = IF theirs.prefs[k] \in Accepts[o][k] THEN theirs.prefs[k] ELSE None
  BY DEF StoredPersonal
<1>4. \A p, x, k : k \in Prefs => ImportPreferences(p, x)[k] = IF k \in PersonalPrefs /\ x[k] # None THEN x[k] ELSE p[k]
  BY DEF ImportPreferences, SetPreferences
<1>5. \A k \in PersonalPrefs : P[k] \in Accepts[c][k] \cup {None}
  BY DEF ValidatePersonal, Validate, StoredPersonal
<1>6. \A k \in Prefs : d.prefs[k] \in Accepts[c][k] \cup {None} /\ d.prefs[k] \in Accepts[o][k] \cup {None}
  BY DEF Validate
<1> HIDE DEF P, Q
<1>7. \A k \in Prefs : /\ mine.prefs[k] = IF k \in PersonalPrefs /\ P[k] # None THEN P[k] ELSE d.prefs[k]
                       /\ theirs.prefs[k] = IF k \in PersonalPrefs /\ Q[k] # None THEN Q[k] ELSE g.prefs[k]
  BY <1>4 DEF P, Q
<1>8. ASSUME NEW k \in PersonalPrefs PROVE StoredPersonal(c, mine)[k] = StoredPersonal(o, theirs)[k]
  <2>1. k \in Prefs /\ mine.prefs[k] \in Accepts[c][k] \cup {None} /\ mine.prefs[k] \in Accepts[o][k] \cup {None}
    BY <1>0, <1>1, <1>5, <1>6, <1>7
  <2>2. Q[k] = mine.prefs[k]
    BY <1>2, <2>1
  <2>3. CASE mine.prefs[k] = None
    <3>1. P[k] = None /\ theirs.prefs[k] = g.prefs[k]
      BY <1>7, <2>1, <2>2, <2>3
    <3>2. g.prefs[k] \notin Accepts[o][k]
      BY <1>0, <1>1, <3>1
    <3> QED
      BY <1>3, <2>2, <2>3, <3>1, <3>2 DEF Q
  <2>4. CASE mine.prefs[k] # None
    <3>1. theirs.prefs[k] = mine.prefs[k] /\ mine.prefs[k] \in Accepts[o][k]
      BY <1>7, <2>1, <2>2, <2>4
    <3> QED
      BY <1>3, <2>2, <3>1 DEF Q
  <2> QED
    BY <2>3, <2>4
<1>9. StoredPersonal(c, mine) = StoredPersonal(o, theirs)
  BY <1>8 DEF StoredPersonal
<1> QED
  BY <1>7, <1>9

\* Two cores that import one another's files end up with the same entries,
\* searches, list and personal preferences, though each may have had to forget
\* searches to make room for the other's (ImportPersonal, Later).
THEOREM CoresAgree == PersonalSpec => []CoresConverge
<1>1. ASSUME PersonalInv PROVE CoresConverge
  <2> SUFFICES
        ASSUME NEW c \in Cores, NEW o \in Cores, Apart(data[c], Exported(o, data[o])),
               ValidatePersonal(c, StoredPersonal(o, data[o])), Validate(c, data[c].prefs),
               Validate(o, data[c].prefs)
        PROVE  LET mine == ImportPersonal(data[c], Exported(o, data[o]))
                   theirs == ImportPersonal(data[o], Exported(c, mine))
               IN  /\ mine.entry = theirs.entry
                   /\ \A e \in Rows : mine.entry[e].at >= data[c].entry[e].at /\ mine.entry[e].at >= data[o].entry[e].at
                   /\ (mine.listed < 0) = (theirs.listed < 0)
                   /\ \A q \in Queries : mine.search[q].at = theirs.search[q].at
                   /\ StoredPersonal(c, mine) = StoredPersonal(o, theirs)
                   /\ \A k \in Prefs \ PersonalPrefs : mine.prefs[k] = data[c].prefs[k] /\ theirs.prefs[k] = data[o].prefs[k]
    BY DEF CoresConverge
  <2> DEFINE d == data[c]
             g == data[o]
             f == Exported(o, g)
             mine == ImportPersonal(d, f)
             h == Exported(c, mine)
             theirs == ImportPersonal(g, h)
  <2>1. Store(d) /\ Store(g) /\ time \in 0..MaxTime
    BY <1>1 DEF PersonalInv
  <2>2. /\ f.entry = g.entry /\ f.listed = g.listed /\ f.search = g.search
        /\ f.prefs = StoredPersonal(o, g) /\ f.prefs \in [PersonalPrefs -> Values \cup {None}] /\ Doc(f)
    BY <2>1, ExportedIs
  <2>3. Apart(d, f)
    OBVIOUS
  <2> HIDE DEF f, mine, h, theirs
  <2>4. /\ Store(mine)
        /\ mine.entry = [e \in Rows |-> Later(f.entry[e], d.entry[e])]
        /\ mine.listed = IF d.listed < 0 THEN f.listed ELSE d.listed
        /\ mine.search = ImportSearches(d.search, f.search)
        /\ mine.prefs = ImportPreferences(d.prefs, f.prefs)
    BY <2>1, <2>2, ImportParts DEF mine
  <2>5. /\ h.entry = mine.entry /\ h.listed = mine.listed /\ h.search = mine.search
        /\ h.prefs = StoredPersonal(c, mine) /\ h.prefs \in [PersonalPrefs -> Values \cup {None}] /\ Doc(h)
    BY <2>1, <2>4, ExportedIs DEF h
  <2>6. /\ Store(theirs)
        /\ theirs.entry = [e \in Rows |-> Later(h.entry[e], g.entry[e])]
        /\ theirs.listed = IF g.listed < 0 THEN h.listed ELSE g.listed
        /\ theirs.search = ImportSearches(g.search, h.search)
        /\ theirs.prefs = ImportPreferences(g.prefs, h.prefs)
    BY <2>1, <2>5, ImportParts DEF theirs
  <2> HIDE DEF d, g
  <2>7. \A e \in Rows : /\ g.entry[e].at \in Int /\ d.entry[e].at \in Int
                        /\ (d.entry[e].at = g.entry[e].at => d.entry[e] = g.entry[e])
    <3>1. \A e \in Rows : g.entry[e] \in Row /\ d.entry[e] \in Row
      BY <2>1, StoreIs
    <3>2. \A e \in Rows : d.entry[e].at = g.entry[e].at => d.entry[e] = g.entry[e]
      BY <2>2, <2>3 DEF Apart
    <3> QED
      BY <3>1, <3>2 DEF Row
  <2>8. \A e \in Rows : /\ mine.entry[e] = IF g.entry[e].at > d.entry[e].at THEN g.entry[e] ELSE d.entry[e]
                        /\ theirs.entry[e] = IF mine.entry[e].at > g.entry[e].at THEN mine.entry[e] ELSE g.entry[e]
    BY <2>2, <2>4, <2>5, <2>6 DEF Later
  <2>9. \A e \in Rows : /\ theirs.entry[e] = mine.entry[e]
                        /\ mine.entry[e].at >= d.entry[e].at /\ mine.entry[e].at >= g.entry[e].at
    <3> TAKE e \in Rows
    <3>1. CASE g.entry[e].at > d.entry[e].at
      BY <2>7, <2>8, <3>1
    <3>2. CASE d.entry[e].at > g.entry[e].at
      BY <2>7, <2>8, <3>2
    <3>3. CASE d.entry[e].at = g.entry[e].at
      BY <2>7, <2>8, <3>3
    <3> QED
      BY <2>7, <3>1, <3>2, <3>3
  <2>10. mine.entry = theirs.entry
    BY <2>4, <2>6, <2>9, StoreIs
  <2>11. (mine.listed < 0) = (theirs.listed < 0)
    <3>1. d.listed \in Int /\ g.listed \in Int
      BY <2>1, StoreIs, TimesAre
    <3> QED
      BY <2>2, <2>4, <2>5, <2>6, <3>1
  <2>12. \A q \in Queries : mine.search[q].at = theirs.search[q].at
    <3>1. Table(d.search) /\ Table(g.search)
      BY <2>1, StoreIs
    <3>2. Aside(d.search, g.search)
      BY <2>2, <2>3 DEF Apart, Aside
    <3> QED
      BY <2>2, <2>4, <2>5, <2>6, <3>1, <3>2, SearchesConverge
  <2>13. /\ StoredPersonal(c, mine) = StoredPersonal(o, theirs)
         /\ \A k \in Prefs \ PersonalPrefs : mine.prefs[k] = d.prefs[k] /\ theirs.prefs[k] = g.prefs[k]
    <3>1. d.prefs \in [Prefs -> Values \cup {None}] /\ g.prefs \in [Prefs -> Values \cup {None}]
      BY <2>1, StoreIs
    <3>2. ValidatePersonal(c, StoredPersonal(o, g)) /\ Validate(c, d.prefs) /\ Validate(o, d.prefs)
      BY DEF d, g
    <3> QED
      BY <2>2, <2>4, <2>5, <2>6, <3>1, <3>2, PreferencesConverge
  <2> QED
    BY <2>9, <2>10, <2>11, <2>12, <2>13 DEF mine, theirs, h, f, d, g
<1> QED
  BY <1>1, PersonalInductive, PTL
===============================================================================
