------------------------ MODULE TorrentBackendProofs ------------------------
(***************************************************************************)
(* The counts of the BitTorrent backend, for any number of downloads, of   *)
(* torrents and of files in them, and any layout of the files over pieces. *)
(***************************************************************************)
EXTENDS TorrentBackend, FiniteSetTheorems, TLAPS

Task == [state : TaskStates, hash : Hashes \cup {NoHash}, index : Files \cup {NoFile}, file : Files \cup {NoFile}]

Holds(r, h) == r.hash = h /\ r.state \notin {"none", "closed"}
Wants(r, h, f) == r.hash = h /\ r.file = f /\ r.state \in {"running", "unwant"}

\* What a task says of itself is what it does.
TaskOK(r) ==
  /\ r.state # "none" => r.hash \in Hashes
  /\ r.state = "unwant" => r.file \in Files

\* Each count is the number of tasks it counts, and there are only so many.
Counted(h) ==
  /\ IsFiniteSet(Unreleased(h)) /\ shared[h].refs = Cardinality(Unreleased(h))
  /\ \A f \in Files : IsFiniteSet(Wanting(h, f)) /\ shared[h].wanted[f] = Cardinality(Wanting(h, f))

\* An end piece is counted at least once for each file that is wanted and ends
\* in it.  A second reader of a file counts it again, and takes nothing back.
InUse(h, i) == {f \in Files : shared[h].wanted[f] > 0 /\ i \in Ends(f)}
EndsCounted(h) ==
  \A i \in Pieces : IsFiniteSet(InUse(h, i)) /\ Cardinality(InUse(h, i)) <= shared[h].ends[i]

\* The swarm is asked for the files that are wanted, their ends first.
AskedFor(h) ==
  \A f \in Files :
    /\ f \in asked[h] <=> shared[h].wanted[f] > 0
    /\ shared[h].wanted[f] > 0 => Ends(f) \subseteq next[h]

IInv ==
  /\ TypeOK
  /\ \A t \in Tasks : TaskOK(task[t])
  /\ \A h \in Hashes : Counted(h) /\ EndsCounted(h) /\ AskedFor(h)

One(b) == IF b THEN 1 ELSE 0

-----------------------------------------------------------------------------
(* Counting.                                                                *)

\* One element more or less.
LEMMA CountOne ==
  ASSUME NEW S, NEW T, NEW x, IsFiniteSet(S), \A y : y # x => (y \in S <=> y \in T)
  PROVE  /\ IsFiniteSet(T) /\ Cardinality(S) \in Nat /\ Cardinality(T) \in Nat
         /\ Cardinality(T) = Cardinality(S) + One(x \in T) - One(x \in S)
         /\ x \in S => Cardinality(S) > 0
<1>1. CASE x \in T
  <2>1. T = S \cup {x}
    BY <1>1
  <2> QED
    BY <1>1, <2>1, FS_AddElement, FS_CardinalityType, FS_EmptySet DEF One
<1>2. CASE x \notin T
  <2>1. T = S \ {x}
    BY <1>2
  <2> QED
    BY <1>2, <2>1, FS_RemoveElement, FS_CardinalityType, FS_EmptySet DEF One
<1> QED
  BY <1>1, <1>2

\* What a step of one task does to the counts of its torrent and its file.
LEMMA TaskCounts ==
  ASSUME IInv, NEW t \in Tasks, NEW r \in Task, task' = [task EXCEPT ![t] = r], NEW h \in Hashes
  PROVE  /\ IsFiniteSet(Unreleased(h)')
         /\ Cardinality(Unreleased(h)') = shared[h].refs + One(Holds(r, h)) - One(Holds(task[t], h))
         /\ \A f \in Files :
              /\ IsFiniteSet(Wanting(h, f)')
              /\ Cardinality(Wanting(h, f)') = shared[h].wanted[f] + One(Wants(r, h, f)) - One(Wants(task[t], h, f))
<1>0. /\ task'[t] = r /\ \A u \in Tasks : u # t => task'[u] = task[u]
      /\ Counted(h)
  BY DEF IInv, TypeOK
<1>1. /\ \A u : u # t => (u \in Unreleased(h) <=> u \in Unreleased(h)')
      /\ t \in Unreleased(h) <=> Holds(task[t], h)
      /\ t \in Unreleased(h)' <=> Holds(r, h)
  BY <1>0 DEF Unreleased, Holds
<1>2. ASSUME NEW f \in Files
      PROVE  /\ \A u : u # t => (u \in Wanting(h, f) <=> u \in Wanting(h, f)')
             /\ t \in Wanting(h, f) <=> Wants(task[t], h, f)
             /\ t \in Wanting(h, f)' <=> Wants(r, h, f)
  BY <1>0 DEF Wanting, Wants
<1>3. /\ IsFiniteSet(Unreleased(h)')
      /\ Cardinality(Unreleased(h)') = shared[h].refs + One(Holds(r, h)) - One(Holds(task[t], h))
  BY <1>0, <1>1, CountOne DEF Counted, One
<1>4. ASSUME NEW f \in Files
      PROVE  /\ IsFiniteSet(Wanting(h, f)')
             /\ Cardinality(Wanting(h, f)') = shared[h].wanted[f] + One(Wants(r, h, f)) - One(Wants(task[t], h, f))
  BY <1>0, <1>2, CountOne DEF Counted, One
<1> QED
  BY <1>3, <1>4

\* A task that is counted is counted at least once.
LEMMA CountedOnce ==
  ASSUME IInv, NEW t \in Tasks, NEW h \in Hashes
  PROVE  /\ Holds(task[t], h) => shared[h].refs > 0
         /\ \A f \in Files : Wants(task[t], h, f) => shared[h].wanted[f] > 0
<1>0. Counted(h)
  BY DEF IInv
<1>1. Holds(task[t], h) => t \in Unreleased(h)
  BY DEF Holds, Unreleased
<1>2. \A f \in Files : Wants(task[t], h, f) => t \in Wanting(h, f)
  BY DEF Wants, Wanting
<1> QED
  BY <1>0, <1>1, <1>2, CountOne DEF Counted

LEMMA EndsArePieces == \A f \in Files : Ends(f) \subseteq Pieces
BY TorrentBackendAssumption DEF Ends, Pieces

\* What a step has to do to the counts beside changing its task.
Follows(h, old, new) ==
  /\ shared'[h].refs = shared[h].refs + One(Holds(new, h)) - One(Holds(old, h))
  /\ \A f \in Files : shared'[h].wanted[f] = shared[h].wanted[f] + One(Wants(new, h, f)) - One(Wants(old, h, f))

LEMMA TaskSteps ==
  ASSUME IInv, TypeOK', NEW t \in Tasks, NEW r \in Task, TaskOK(r), task' = [task EXCEPT ![t] = r],
         \A h \in Hashes : Follows(h, task[t], r) /\ EndsCounted(h)' /\ AskedFor(h)'
  PROVE  IInv'
<1>1. \A u \in Tasks : TaskOK(task'[u])
  BY DEF IInv, TypeOK
<1>2. \A h \in Hashes : Counted(h)'
  BY TaskCounts DEF Follows, Counted
<1> QED
  BY <1>1, <1>2 DEF IInv

\* A torrent a step leaves alone.
LEMMA OtherTorrent ==
  ASSUME IInv, NEW h \in Hashes, shared'[h] = shared[h], asked'[h] = asked[h], next'[h] = next[h]
  PROVE  EndsCounted(h)' /\ AskedFor(h)'
<1>1. EndsCounted(h) /\ AskedFor(h)
  BY DEF IInv
<1>2. \A i \in Pieces : InUse(h, i)' = InUse(h, i)
  BY DEF InUse
<1> QED
  BY <1>1, <1>2 DEF EndsCounted, AskedFor

LEMMA TaskAlone ==
  ASSUME IInv, NEW t \in Tasks, NEW r \in Task, TaskOK(r), task' = [task EXCEPT ![t] = r],
         UNCHANGED <<shared, asked, next, info>>, closing' \in {"open", "closing", "closed"}, left' \subseteq Tasks,
         \A h \in Hashes : (Holds(r, h) <=> Holds(task[t], h)) /\ \A f \in Files : Wants(r, h, f) <=> Wants(task[t], h, f)
  PROVE  IInv'
<1>1. TypeOK'
  BY DEF IInv, TypeOK, Task
<1>2. ASSUME NEW h \in Hashes PROVE Follows(h, task[t], r)
  <2>1. shared[h].refs \in Nat /\ shared[h].wanted \in [Files -> Nat] /\ shared'[h] = shared[h]
    BY DEF IInv, TypeOK
  <2>2. One(Holds(r, h)) = One(Holds(task[t], h)) /\ One(Holds(r, h)) \in Nat
    BY DEF One
  <2>3. \A f \in Files : One(Wants(r, h, f)) = One(Wants(task[t], h, f)) /\ One(Wants(r, h, f)) \in Nat
    BY DEF One
  <2> QED
    BY <2>1, <2>2, <2>3 DEF Follows
<1>3. \A h \in Hashes : EndsCounted(h)' /\ AskedFor(h)'
  BY OtherTorrent
<1> QED
  BY <1>1, <1>2, <1>3, TaskSteps

LEMMA BeginCloseInv ==
  ASSUME IInv, NEW t \in Tasks, BeginClose(t), UNCHANGED <<shared, asked, next, info, closing, left>>
  PROVE  IInv'
<1> DEFINE r == [task[t] EXCEPT !.state = IF task[t].file = NoFile THEN "leave" ELSE "unwant"]
<1>1. task' = [task EXCEPT ![t] = r] /\ task[t].state = "running"
  BY DEF BeginClose
<1>2. task[t] \in Task /\ TaskOK(task[t])
  BY DEF IInv, TypeOK, Task
<1>3. r \in Task /\ TaskOK(r)
  BY <1>1, <1>2 DEF Task, TaskOK, TaskStates
<1>4. \A h \in Hashes : (Holds(r, h) <=> Holds(task[t], h)) /\ \A f \in Files : Wants(r, h, f) <=> Wants(task[t], h, f)
  BY <1>1, <1>2, TorrentBackendAssumption DEF Holds, Wants, Task
<1> HIDE DEF r
<1> QED
  BY <1>1, <1>3, <1>4, TaskAlone DEF IInv, TypeOK

LEMMA LeaveInv ==
  ASSUME IInv, NEW t \in Tasks, Leave(t)
  PROVE  IInv'
<1> DEFINE r == [task[t] EXCEPT !.state = "release"]
<1>1. /\ task' = [task EXCEPT ![t] = r] /\ task[t].state = "leave"
      /\ UNCHANGED <<shared, asked, next, info, closing, left>>
  BY DEF Leave
<1>2. task[t] \in Task /\ TaskOK(task[t])
  BY DEF IInv, TypeOK, Task
<1>3. r \in Task /\ TaskOK(r)
  BY <1>1, <1>2 DEF Task, TaskOK, TaskStates
<1>4. \A h \in Hashes : (Holds(r, h) <=> Holds(task[t], h)) /\ \A f \in Files : Wants(r, h, f) <=> Wants(task[t], h, f)
  BY <1>1, <1>2 DEF Holds, Wants, Task
<1> HIDE DEF r
<1> QED
  BY <1>1, <1>3, <1>4, TaskAlone DEF IInv, TypeOK

Torrent == [refs : Nat, wanted : [Files -> Nat], ends : [Pieces -> Nat]]

\* A step that changes one torrent.
LEMMA TorrentSet ==
  ASSUME IInv, NEW h \in Hashes, NEW new \in Torrent, shared' = [shared EXCEPT ![h] = new]
  PROVE  /\ shared' \in [Hashes -> Torrent] /\ shared'[h] = new
         /\ \A j \in Hashes : j # h => shared'[j] = shared[j]
BY DEF IInv, TypeOK, Torrent

LEMMA StartInv ==
  ASSUME IInv, NEW t \in Tasks, NEW h \in Hashes, NEW index \in Files \cup {NoFile}, Start(t, h, index)
  PROVE  IInv'
<1> DEFINE r == [state |-> "running", hash |-> h, index |-> index, file |-> NoFile]
           new == [shared[h] EXCEPT !.refs = @ + 1]
<1>0. shared[h] \in Torrent
  BY DEF IInv, TypeOK, Torrent
<1>1. /\ shared' = [shared EXCEPT ![h] = new] /\ info' \in {info, info \cup {h}}
      /\ task' = [task EXCEPT ![t] = r] /\ task[t].state = "none"
      /\ UNCHANGED <<asked, next, closing, left>>
  BY DEF Start, NoTaskYet
<1>2. r \in Task /\ TaskOK(r)
  BY DEF Task, TaskOK, TaskStates
<1>n. new \in Torrent /\ new.refs = shared[h].refs + 1 /\ new.wanted = shared[h].wanted /\ new.ends = shared[h].ends
  BY <1>0 DEF Torrent
<1> HIDE DEF new
<1>4. /\ shared' \in [Hashes -> Torrent] /\ shared'[h] = new
      /\ \A j \in Hashes : j # h => shared'[j] = shared[j]
  BY <1>1, <1>n, TorrentSet
<1>3. TypeOK'
  BY <1>1, <1>2, <1>4 DEF IInv, TypeOK, Task, Torrent
<1>5. ASSUME NEW j \in Hashes PROVE Follows(j, task[t], r)
  BY <1>1, <1>4, <1>n, TorrentBackendAssumption DEF Follows, Holds, Wants, One, IInv, TypeOK
<1>6. ASSUME NEW j \in Hashes PROVE EndsCounted(j)' /\ AskedFor(j)'
  <2>1. EndsCounted(j) /\ AskedFor(j)
    BY DEF IInv
  <2>2. shared'[j].wanted = shared[j].wanted /\ shared'[j].ends = shared[j].ends
    BY <1>4, <1>n
  <2>3. \A i \in Pieces : InUse(j, i)' = InUse(j, i)
    BY <2>2 DEF InUse
  <2> QED
    BY <1>1, <2>1, <2>2, <2>3 DEF EndsCounted, AskedFor
<1> HIDE DEF r
<1> QED
  BY <1>1, <1>2, <1>3, <1>5, <1>6, TaskSteps

\* want counts a reader of the file, and the file's ends with it.
LEMMA WantFacts ==
  ASSUME IInv, NEW h \in Hashes, NEW f \in Files, Want(h, f)
  PROVE  /\ shared' \in [Hashes -> Torrent] /\ asked' \in [Hashes -> SUBSET Files] /\ next' \in [Hashes -> SUBSET Pieces]
         /\ \A j \in Hashes : shared'[j].refs = shared[j].refs
         /\ \A j \in Hashes, g \in Files :
              shared'[j].wanted[g] = IF j = h /\ g = f THEN shared[j].wanted[g] + 1 ELSE shared[j].wanted[g]
         /\ \A j \in Hashes : EndsCounted(j)' /\ AskedFor(j)'
<1> DEFINE ends == [i \in Pieces |-> shared[h].ends[i] + (IF i \in Ends(f) THEN 1 ELSE 0)]
           wanted == [shared[h].wanted EXCEPT ![f] = @ + 1]
           new == [shared[h] EXCEPT !.wanted = wanted, !.ends = ends]
<1>1. /\ shared[h] \in Torrent /\ shared[h].refs \in Nat /\ shared[h].wanted \in [Files -> Nat]
      /\ shared[h].ends \in [Pieces -> Nat]
  BY DEF IInv, TypeOK, Torrent
<1>2. shared' = [shared EXCEPT ![h] = new]
  BY <1>1 DEF Want, IInv, TypeOK, Torrent
<1>3. wanted \in [Files -> Nat] /\ \A g \in Files : wanted[g] = shared[h].wanted[g] + One(g = f)
  BY <1>1 DEF One
<1>4. ends \in [Pieces -> Nat] /\ \A i \in Pieces : ends[i] = shared[h].ends[i] + One(i \in Ends(f))
  BY <1>1 DEF One
<1> HIDE DEF wanted, ends
<1>5. new \in Torrent /\ new.refs = shared[h].refs /\ new.wanted = wanted /\ new.ends = ends
  BY <1>1, <1>3, <1>4 DEF Torrent
<1> HIDE DEF new
<1>6. /\ shared' \in [Hashes -> Torrent] /\ shared'[h] = new
      /\ \A j \in Hashes : j # h => shared'[j] = shared[j]
  BY <1>2, <1>5, TorrentSet
<1>7. /\ asked' = [asked EXCEPT ![h] = @ \cup {f}] /\ next' = [next EXCEPT ![h] = @ \cup Ends(f)]
      /\ asked' \in [Hashes -> SUBSET Files] /\ next' \in [Hashes -> SUBSET Pieces]
  BY EndsArePieces DEF Want, IInv, TypeOK
<1>8. EndsCounted(h)'
  <2> SUFFICES ASSUME NEW i \in Pieces
               PROVE  IsFiniteSet(InUse(h, i)') /\ Cardinality(InUse(h, i)') <= ends[i]
    BY <1>5, <1>6 DEF EndsCounted
  <2>1. IsFiniteSet(InUse(h, i)) /\ Cardinality(InUse(h, i)) <= shared[h].ends[i]
    BY DEF IInv, EndsCounted
  <2>2. \A g : g # f => (g \in InUse(h, i) <=> g \in InUse(h, i)')
    BY <1>1, <1>3, <1>5, <1>6 DEF InUse, One
  <2>3. f \in InUse(h, i)' => i \in Ends(f)
    BY DEF InUse
  <2>4. /\ IsFiniteSet(InUse(h, i)') /\ Cardinality(InUse(h, i)) \in Nat
        /\ Cardinality(InUse(h, i)') = Cardinality(InUse(h, i)) + One(f \in InUse(h, i)') - One(f \in InUse(h, i))
    BY <2>1, <2>2, CountOne
  <2>5. shared[h].ends[i] \in Nat
    BY <1>1
  <2> QED
    BY <1>4, <2>1, <2>3, <2>4, <2>5 DEF One
<1>9. AskedFor(h)'
  <2>1. AskedFor(h) /\ asked'[h] = asked[h] \cup {f} /\ next'[h] = next[h] \cup Ends(f)
    BY <1>7 DEF IInv, TypeOK
  <2>2. \A g \in Files : shared'[h].wanted[g] > 0 <=> g = f \/ shared[h].wanted[g] > 0
    BY <1>1, <1>3, <1>5, <1>6 DEF One
  <2> QED
    BY <2>1, <2>2 DEF AskedFor
<1>10. \A j \in Hashes : j # h => asked'[j] = asked[j] /\ next'[j] = next[j]
  BY <1>7 DEF IInv, TypeOK
<1>11. \A j \in Hashes : EndsCounted(j)' /\ AskedFor(j)'
  BY <1>6, <1>8, <1>9, <1>10, OtherTorrent
<1>12. ASSUME NEW j \in Hashes, NEW g \in Files
       PROVE  shared'[j].wanted[g] = IF j = h /\ g = f THEN shared[j].wanted[g] + 1 ELSE shared[j].wanted[g]
  BY <1>1, <1>3, <1>5, <1>6 DEF One
<1> QED
  BY <1>5, <1>6, <1>7, <1>11, <1>12

LEMMA SelectFileInv ==
  ASSUME IInv, NEW t \in Tasks, SelectFile(t)
  PROVE  IInv'
<1>0. /\ task[t] \in Task /\ task[t].state = "running" /\ task[t].file = NoFile /\ TaskOK(task[t])
  BY DEF SelectFile, IInv, TypeOK, Task
<1>1. PICK h \in Hashes, f \in Files : h = task[t].hash /\ f = ChooseFile(task[t].index)
  BY <1>0, TorrentBackendAssumption DEF ChooseFile, TaskOK
<1> DEFINE r == [task[t] EXCEPT !.file = f]
<1>2. Want(h, f) /\ task' = [task EXCEPT ![t] = r] /\ UNCHANGED <<info, closing, left>>
  BY <1>1 DEF SelectFile
<1>3. r \in Task /\ TaskOK(r) /\ r.hash = h /\ r.file = f /\ r.state = "running"
  BY <1>0, <1>1 DEF Task, TaskOK
<1> HIDE DEF r
<1>4. TypeOK'
  BY <1>2, <1>3, WantFacts DEF IInv, TypeOK, Task, Torrent
<1>5. ASSUME NEW j \in Hashes PROVE Follows(j, task[t], r)
  <2>1. Holds(r, j) <=> Holds(task[t], j)
    BY <1>0, <1>1, <1>3 DEF Holds
  <2>2. \A g \in Files : ~Wants(task[t], j, g) /\ (Wants(r, j, g) <=> j = h /\ g = f)
    BY <1>0, <1>3, TorrentBackendAssumption DEF Wants
  <2>3. shared[j].refs \in Nat /\ shared[j].wanted \in [Files -> Nat]
    BY DEF IInv, TypeOK
  <2> QED
    BY <1>2, <2>1, <2>2, <2>3, WantFacts DEF Follows, One
<1> QED
  BY <1>2, <1>3, <1>4, <1>5, WantFacts, TaskSteps

\* A reader that is not the last of its file only counts itself out.
LEMMA UnwantOneFacts ==
  ASSUME IInv, NEW h \in Hashes, NEW f \in Files, shared[h].wanted[f] > 1,
         shared' = [shared EXCEPT ![h].wanted[f] = @ - 1], UNCHANGED <<asked, next>>
  PROVE  /\ shared' \in [Hashes -> Torrent]
         /\ \A j \in Hashes : shared'[j].refs = shared[j].refs
         /\ \A j \in Hashes, g \in Files :
              shared'[j].wanted[g] = IF j = h /\ g = f THEN shared[j].wanted[g] - 1 ELSE shared[j].wanted[g]
         /\ \A j \in Hashes : EndsCounted(j)' /\ AskedFor(j)'
<1> DEFINE wanted == [shared[h].wanted EXCEPT ![f] = @ - 1]
           new == [shared[h] EXCEPT !.wanted = wanted]
<1>1. /\ shared[h] \in Torrent /\ shared[h].refs \in Nat /\ shared[h].wanted \in [Files -> Nat]
      /\ shared[h].ends \in [Pieces -> Nat]
  BY DEF IInv, TypeOK, Torrent
<1>2. shared' = [shared EXCEPT ![h] = new]
  BY <1>1 DEF IInv, TypeOK, Torrent
<1>3. wanted \in [Files -> Nat] /\ \A g \in Files : wanted[g] = shared[h].wanted[g] - One(g = f)
  BY <1>1 DEF One
<1>4. \A g \in Files : wanted[g] > 0 <=> shared[h].wanted[g] > 0
  BY <1>1, <1>3 DEF One
<1> HIDE DEF wanted
<1>5. new \in Torrent /\ new.refs = shared[h].refs /\ new.wanted = wanted /\ new.ends = shared[h].ends
  BY <1>1, <1>3 DEF Torrent
<1> HIDE DEF new
<1>6. /\ shared' \in [Hashes -> Torrent] /\ shared'[h] = new
      /\ \A j \in Hashes : j # h => shared'[j] = shared[j]
  BY <1>2, <1>5, TorrentSet
<1>7. \A i \in Pieces : InUse(h, i)' = InUse(h, i)
  BY <1>4, <1>5, <1>6 DEF InUse
<1>8. EndsCounted(h)' /\ AskedFor(h)'
  <2>1. EndsCounted(h) /\ AskedFor(h) /\ asked'[h] = asked[h] /\ next'[h] = next[h]
    BY DEF IInv
  <2> QED
    BY <1>4, <1>5, <1>6, <1>7, <2>1 DEF EndsCounted, AskedFor
<1>9. \A j \in Hashes : EndsCounted(j)' /\ AskedFor(j)'
  BY <1>6, <1>8, OtherTorrent
<1>10. ASSUME NEW j \in Hashes, NEW g \in Files
       PROVE  shared'[j].wanted[g] = IF j = h /\ g = f THEN shared[j].wanted[g] - 1 ELSE shared[j].wanted[g]
  BY <1>1, <1>3, <1>5, <1>6 DEF One
<1> QED
  BY <1>5, <1>6, <1>9, <1>10

\* The last reader of a file takes it off the swarm, and of its end pieces
\* those that no other wanted file is counted at.
LEMMA UnwantLastFacts ==
  ASSUME IInv, NEW h \in Hashes, NEW f \in Files, shared[h].wanted[f] = 1,
         NEW ends \in [Pieces -> Int], \A i \in Pieces : ends[i] = shared[h].ends[i] - One(i \in Ends(f)),
         shared' = [shared EXCEPT ![h].wanted[f] = 0, ![h].ends = ends],
         asked' = [asked EXCEPT ![h] = @ \ {f}],
         next' = [next EXCEPT ![h] = @ \ {i \in Ends(f) : ends[i] <= 0}]
  PROVE  /\ shared' \in [Hashes -> Torrent] /\ asked' \in [Hashes -> SUBSET Files] /\ next' \in [Hashes -> SUBSET Pieces]
         /\ \A j \in Hashes : shared'[j].refs = shared[j].refs
         /\ \A j \in Hashes, g \in Files :
              shared'[j].wanted[g] = IF j = h /\ g = f THEN shared[j].wanted[g] - 1 ELSE shared[j].wanted[g]
         /\ \A j \in Hashes : EndsCounted(j)' /\ AskedFor(j)'
<1> DEFINE wanted == [shared[h].wanted EXCEPT ![f] = 0]
           new == [shared[h] EXCEPT !.wanted = wanted, !.ends = ends]
<1>1. /\ shared[h] \in Torrent /\ shared[h].refs \in Nat /\ shared[h].wanted \in [Files -> Nat]
      /\ shared[h].ends \in [Pieces -> Nat]
  BY DEF IInv, TypeOK, Torrent
<1>2. shared' = [shared EXCEPT ![h] = new]
  BY <1>1 DEF IInv, TypeOK, Torrent
<1>3. wanted \in [Files -> Nat] /\ \A g \in Files : wanted[g] = IF g = f THEN 0 ELSE shared[h].wanted[g]
  BY <1>1
<1> HIDE DEF wanted
\* The file is itself counted at each of its ends until now.
<1>4. ASSUME NEW i \in Pieces
      PROVE  /\ IsFiniteSet({g \in Files : wanted[g] > 0 /\ i \in Ends(g)})
             /\ Cardinality({g \in Files : wanted[g] > 0 /\ i \in Ends(g)}) <= ends[i]
             /\ ends[i] \in Nat
             /\ ends[i] = 0 => {g \in Files : wanted[g] > 0 /\ i \in Ends(g)} = {}
  <2> DEFINE U == {g \in Files : wanted[g] > 0 /\ i \in Ends(g)}
  <2>1. IsFiniteSet(InUse(h, i)) /\ Cardinality(InUse(h, i)) <= shared[h].ends[i]
    BY DEF IInv, EndsCounted
  <2>2. \A g : g # f => (g \in InUse(h, i) <=> g \in U)
    BY <1>3 DEF InUse
  <2>3. f \notin U /\ (f \in InUse(h, i) <=> i \in Ends(f))
    BY <1>3 DEF InUse
  <2> HIDE DEF U
  <2>4. /\ IsFiniteSet(U) /\ Cardinality(U) \in Nat /\ Cardinality(InUse(h, i)) \in Nat
        /\ Cardinality(U) = Cardinality(InUse(h, i)) + One(f \in U) - One(f \in InUse(h, i))
    BY <2>1, <2>2, CountOne
  <2>5. shared[h].ends[i] \in Nat /\ ends[i] = shared[h].ends[i] - One(i \in Ends(f))
    BY <1>1
  <2>6. Cardinality(U) <= ends[i] /\ ends[i] \in Nat
    BY <2>1, <2>3, <2>4, <2>5 DEF One
  <2>7. ends[i] = 0 => U = {}
    BY <2>4, <2>6, FS_EmptySet
  <2> QED
    BY <2>4, <2>6, <2>7 DEF U
<1>5. /\ ends \in [Pieces -> Nat]
      /\ new \in Torrent /\ new.refs = shared[h].refs /\ new.wanted = wanted /\ new.ends = ends
  BY <1>1, <1>3, <1>4 DEF Torrent
<1> HIDE DEF new
<1>6. /\ shared' \in [Hashes -> Torrent] /\ shared'[h] = new
      /\ \A j \in Hashes : j # h => shared'[j] = shared[j]
  BY <1>2, <1>5, TorrentSet
<1>7. /\ asked' \in [Hashes -> SUBSET Files] /\ next' \in [Hashes -> SUBSET Pieces]
      /\ asked'[h] = asked[h] \ {f} /\ next'[h] = next[h] \ {i \in Ends(f) : ends[i] <= 0}
      /\ \A j \in Hashes : j # h => asked'[j] = asked[j] /\ next'[j] = next[j]
  BY DEF IInv, TypeOK
<1>8. EndsCounted(h)'
  <2>1. \A i \in Pieces : InUse(h, i)' = {g \in Files : wanted[g] > 0 /\ i \in Ends(g)}
    BY <1>5, <1>6 DEF InUse
  <2> QED
    BY <1>4, <1>5, <1>6, <2>1 DEF EndsCounted
<1>9. AskedFor(h)'
  <2>1. AskedFor(h)
    BY DEF IInv
  <2>2. shared'[h].wanted = wanted
    BY <1>5, <1>6
  <2>3. ASSUME NEW g \in Files, wanted[g] > 0 PROVE Ends(g) \subseteq next'[h]
    <3>1. g # f /\ shared[h].wanted[g] > 0
      BY <1>3, <2>3
    <3>2. \A i \in Ends(g) : ends[i] # 0 /\ ends[i] \in Nat
      BY <1>4, <2>3, EndsArePieces
    <3> QED
      BY <1>7, <2>1, <3>1, <3>2 DEF AskedFor
  <2> QED
    BY <1>3, <1>7, <2>1, <2>2, <2>3 DEF AskedFor
<1>10. \A j \in Hashes : EndsCounted(j)' /\ AskedFor(j)'
  BY <1>6, <1>7, <1>8, <1>9, OtherTorrent
<1>11. ASSUME NEW j \in Hashes, NEW g \in Files
       PROVE  shared'[j].wanted[g] = IF j = h /\ g = f THEN shared[j].wanted[g] - 1 ELSE shared[j].wanted[g]
  BY <1>1, <1>3, <1>5, <1>6
<1> QED
  BY <1>5, <1>6, <1>7, <1>10, <1>11

LEMMA UnwantInv ==
  ASSUME IInv, NEW t \in Tasks, Unwant(t)
  PROVE  IInv'
<1>0. task[t] \in Task /\ task[t].state = "unwant" /\ TaskOK(task[t])
  BY DEF Unwant, IInv, TypeOK, Task
<1> DEFINE h == task[t].hash
           f == task[t].file
           r == [task[t] EXCEPT !.state = "leave"]
           ends == [i \in Pieces |-> shared[h].ends[i] - (IF i \in Ends(f) THEN 1 ELSE 0)]
<1>2. /\ task' = [task EXCEPT ![t] = r] /\ UNCHANGED <<info, closing, left>>
      /\ IF shared[h].wanted[f] <= 1
         THEN /\ shared' = [shared EXCEPT ![h].wanted[f] = 0, ![h].ends = ends]
              /\ asked' = [asked EXCEPT ![h] = @ \ {f}]
              /\ next' = [next EXCEPT ![h] = @ \ {i \in Ends(f) : ends[i] <= 0}]
         ELSE /\ shared' = [shared EXCEPT ![h].wanted[f] = @ - 1]
              /\ UNCHANGED <<asked, next>>
  BY DEF Unwant
<1>1. h \in Hashes /\ f \in Files /\ h = task[t].hash /\ f = task[t].file
  BY <1>0 DEF TaskOK
<1>3. r \in Task /\ TaskOK(r) /\ r.hash = h /\ r.file = f /\ r.state = "leave"
  BY <1>0, <1>1 DEF Task, TaskOK, TaskStates
<1> HIDE DEF h, f
<1>4. /\ ends \in [Pieces -> Int] /\ \A i \in Pieces : ends[i] = shared[h].ends[i] - One(i \in Ends(f))
  BY <1>1 DEF IInv, TypeOK, One
<1> HIDE DEF r, ends
<1>5. shared[h].wanted[f] \in Nat /\ shared[h].wanted[f] > 0
  <2>1. Wants(task[t], h, f)
    BY <1>0, <1>1 DEF Wants
  <2> QED
    BY <1>1, <2>1, CountedOnce DEF IInv, TypeOK
<1>6. /\ shared' \in [Hashes -> Torrent] /\ asked' \in [Hashes -> SUBSET Files] /\ next' \in [Hashes -> SUBSET Pieces]
      /\ \A j \in Hashes : shared'[j].refs = shared[j].refs
      /\ \A j \in Hashes, g \in Files :
           shared'[j].wanted[g] = IF j = h /\ g = f THEN shared[j].wanted[g] - 1 ELSE shared[j].wanted[g]
      /\ \A j \in Hashes : EndsCounted(j)' /\ AskedFor(j)'
  <2>1. CASE shared[h].wanted[f] <= 1
    <3>1. shared[h].wanted[f] = 1
      BY <1>5, <2>1
    <3>2. PICK e : e = ends
      OBVIOUS
    <3>3. /\ e \in [Pieces -> Int] /\ \A i \in Pieces : e[i] = shared[h].ends[i] - One(i \in Ends(f))
          /\ shared' = [shared EXCEPT ![h].wanted[f] = 0, ![h].ends = e]
          /\ asked' = [asked EXCEPT ![h] = @ \ {f}]
          /\ next' = [next EXCEPT ![h] = @ \ {i \in Ends(f) : e[i] <= 0}]
      BY <1>2, <1>4, <2>1, <3>2
    <3> QED
      BY <1>1, <3>1, <3>3, UnwantLastFacts
  <2>2. CASE shared[h].wanted[f] > 1
    <3>1. ~(shared[h].wanted[f] <= 1)
      BY <1>5, <2>2
    <3>2. asked \in [Hashes -> SUBSET Files] /\ next \in [Hashes -> SUBSET Pieces]
      BY DEF IInv, TypeOK
    <3> QED
      BY <1>1, <1>2, <2>2, <3>1, <3>2, UnwantOneFacts
  <2> QED
    BY <1>5, <2>1, <2>2
<1>7. TypeOK'
  BY <1>2, <1>3, <1>6 DEF IInv, TypeOK, Task, Torrent
<1>8. ASSUME NEW j \in Hashes PROVE Follows(j, task[t], r)
  <2>1. Holds(r, j) <=> Holds(task[t], j)
    BY <1>0, <1>1, <1>3 DEF Holds
  <2>2. \A g \in Files : ~Wants(r, j, g) /\ (Wants(task[t], j, g) <=> j = h /\ g = f)
    BY <1>0, <1>1, <1>3 DEF Wants
  <2>3. shared[j].refs \in Nat /\ shared[j].wanted \in [Files -> Nat]
    BY DEF IInv, TypeOK
  <2>4. One(Holds(r, j)) = One(Holds(task[t], j)) /\ One(Holds(r, j)) \in Nat
    BY <2>1 DEF One
  <2>5. \A g \in Files : /\ One(Wants(r, j, g)) = 0
                         /\ One(Wants(task[t], j, g)) = IF j = h /\ g = f THEN 1 ELSE 0
    BY <2>2 DEF One
  <2>6. shared'[j].refs = shared[j].refs + One(Holds(r, j)) - One(Holds(task[t], j))
    BY <1>6, <2>3, <2>4
  <2>7. \A g \in Files :
          shared'[j].wanted[g] = shared[j].wanted[g] + One(Wants(r, j, g)) - One(Wants(task[t], j, g))
    BY <1>6, <2>3, <2>5
  <2> QED
    BY <2>6, <2>7 DEF Follows
<1> QED
  BY <1>2, <1>3, <1>6, <1>7, <1>8, TaskSteps

LEMMA ReleaseInv ==
  ASSUME IInv, NEW t \in Tasks, Release(t)
  PROVE  IInv'
<1>0. task[t] \in Task /\ task[t].state = "release" /\ TaskOK(task[t])
  BY DEF Release, IInv, TypeOK, Task
<1>1. PICK h \in Hashes : h = task[t].hash
  BY <1>0 DEF TaskOK
<1> DEFINE r == [task[t] EXCEPT !.state = "closed"]
           less == [shared[h] EXCEPT !.refs = @ - 1]
<1>2. /\ task' = [task EXCEPT ![t] = r] /\ UNCHANGED <<closing, left>>
      /\ IF shared[h].refs > 1
         THEN shared' = [shared EXCEPT ![h].refs = @ - 1] /\ UNCHANGED <<asked, next, info>>
         ELSE /\ shared' = [shared EXCEPT ![h] = NoTorrent]
              /\ asked' = [asked EXCEPT ![h] = {}]
              /\ next' = [next EXCEPT ![h] = {}]
              /\ info' = info \ {h}
  BY <1>1 DEF Release
<1>3. r \in Task /\ TaskOK(r) /\ r.hash = h /\ r.state = "closed"
  BY <1>0, <1>1 DEF Task, TaskOK, TaskStates
<1> HIDE DEF r
<1>4. Holds(task[t], h) /\ shared[h].refs \in Nat /\ shared[h].refs > 0 /\ shared[h] \in Torrent
  <2>1. Holds(task[t], h)
    BY <1>0, <1>1 DEF Holds
  <2> QED
    BY <2>1, CountedOnce DEF IInv, TypeOK, Torrent
\* The only task on a torrent is releasing it, so nothing is wanted of it.
<1>5. shared[h].refs = 1 => \A g \in Files : shared[h].wanted[g] = 0
  <2> SUFFICES ASSUME shared[h].refs = 1, NEW g \in Files PROVE shared[h].wanted[g] = 0
    OBVIOUS
  <2>1. Counted(h)
    BY DEF IInv
  <2>2. t \in Unreleased(h)
    BY <1>4 DEF Holds, Unreleased
  <2>3. Unreleased(h) = {t}
    BY <2>1, <2>2, FS_Singleton DEF Counted
  <2>4. Wanting(h, g) \subseteq Unreleased(h) /\ t \notin Wanting(h, g)
    BY <1>0 DEF Wanting, Unreleased
  <2> QED
    BY <2>1, <2>3, <2>4, FS_EmptySet DEF Counted
<1>6. ASSUME NEW new \in Torrent, shared' = [shared EXCEPT ![h] = new],
             new.refs = shared[h].refs - 1, new.wanted = shared[h].wanted,
             asked' \in [Hashes -> SUBSET Files], next' \in [Hashes -> SUBSET Pieces], info' \subseteq Hashes,
             EndsCounted(h)' /\ AskedFor(h)',
             \A j \in Hashes : j # h => asked'[j] = asked[j] /\ next'[j] = next[j]
      PROVE  IInv'
  <2>1. /\ shared' \in [Hashes -> Torrent] /\ shared'[h] = new
        /\ \A j \in Hashes : j # h => shared'[j] = shared[j]
    BY <1>6, TorrentSet
  <2>2. TypeOK'
    BY <1>2, <1>3, <1>6, <2>1 DEF IInv, TypeOK, Task, Torrent
  <2>3. ASSUME NEW j \in Hashes PROVE Follows(j, task[t], r)
    <3>1. ~Holds(r, j) /\ (Holds(task[t], j) <=> j = h)
      BY <1>0, <1>1, <1>3 DEF Holds
    <3>2. \A g \in Files : ~Wants(r, j, g) /\ ~Wants(task[t], j, g)
      BY <1>0, <1>3 DEF Wants
    <3>3. shared[j].refs \in Nat /\ shared[j].wanted \in [Files -> Nat]
      BY DEF IInv, TypeOK
    <3>4. /\ shared'[j].refs = shared[j].refs - One(j = h)
          /\ shared'[j].wanted = shared[j].wanted
      BY <1>6, <2>1, <3>3 DEF One
    <3> QED
      BY <3>1, <3>2, <3>3, <3>4 DEF Follows, One
  <2>4. \A j \in Hashes : EndsCounted(j)' /\ AskedFor(j)'
    BY <1>6, <2>1, OtherTorrent
  <2> QED
    BY <1>2, <1>3, <2>2, <2>3, <2>4, TaskSteps
<1>7. CASE shared[h].refs > 1
  <2>1. /\ shared' = [shared EXCEPT ![h] = less]
        /\ UNCHANGED <<asked, next, info>>
    BY <1>2, <1>7 DEF IInv, TypeOK
  <2>2. less \in Torrent /\ less.refs = shared[h].refs - 1 /\ less.wanted = shared[h].wanted /\ less.ends = shared[h].ends
    BY <1>4, <1>7 DEF Torrent
  <2> HIDE DEF less
  <2>3. EndsCounted(h) /\ AskedFor(h) /\ shared'[h] = less
    BY <2>1, <2>2, TorrentSet DEF IInv
  <2>4. \A i \in Pieces : InUse(h, i)' = InUse(h, i)
    BY <2>2, <2>3 DEF InUse
  <2>5. EndsCounted(h)' /\ AskedFor(h)'
    BY <2>1, <2>2, <2>3, <2>4 DEF EndsCounted, AskedFor
  <2>6. asked' \in [Hashes -> SUBSET Files] /\ next' \in [Hashes -> SUBSET Pieces] /\ info' \subseteq Hashes
    BY <2>1 DEF IInv, TypeOK
  <2> QED
    BY <1>6, <2>1, <2>2, <2>5, <2>6
<1>8. CASE shared[h].refs = 1
  <2>1. /\ shared' = [shared EXCEPT ![h] = NoTorrent]
        /\ asked' = [asked EXCEPT ![h] = {}]
        /\ next' = [next EXCEPT ![h] = {}]
        /\ info' = info \ {h}
    BY <1>2, <1>8
  <2>2. /\ NoTorrent \in Torrent /\ NoTorrent.refs = 0
        /\ NoTorrent.wanted = shared[h].wanted
        /\ \A f \in Files : NoTorrent.wanted[f] = 0
        /\ \A i \in Pieces : NoTorrent.ends[i] = 0
    <3>1. shared[h].wanted \in [Files -> Nat]
      BY DEF IInv, TypeOK
    <3> QED
      BY <1>5, <1>8, <3>1 DEF NoTorrent, Torrent
  <2>3. shared'[h] = NoTorrent
    BY <2>1, <2>2, TorrentSet
  <2>4. /\ asked' \in [Hashes -> SUBSET Files] /\ next' \in [Hashes -> SUBSET Pieces] /\ info' \subseteq Hashes
        /\ asked'[h] = {} /\ \A j \in Hashes : j # h => asked'[j] = asked[j] /\ next'[j] = next[j]
    BY <2>1 DEF IInv, TypeOK
  <2>5. \A i \in Pieces : InUse(h, i)' = {}
    BY <2>2, <2>3 DEF InUse
  <2>6. EndsCounted(h)'
    BY <2>2, <2>3, <2>5, FS_EmptySet DEF EndsCounted
  <2>7. AskedFor(h)'
    BY <2>2, <2>3, <2>4 DEF AskedFor
  <2>8. NoTorrent.refs = shared[h].refs - 1
    BY <1>8, <2>2
  <2> QED
    BY <1>6, <2>1, <2>2, <2>4, <2>6, <2>7, <2>8
<1> QED
  BY <1>4, <1>7, <1>8

\* A step that leaves the torrents and the tasks alone.
LEMMA AsideInv ==
  ASSUME IInv, UNCHANGED <<shared, asked, next, task>>, info' \subseteq Hashes,
         closing' \in {"open", "closing", "closed"}, left' \subseteq Tasks
  PROVE  IInv'
<1>1. TypeOK'
  BY DEF IInv, TypeOK
<1>2. \A t \in Tasks : TaskOK(task'[t])
  BY DEF IInv
<1>3. ASSUME NEW h \in Hashes PROVE (Counted(h) /\ EndsCounted(h) /\ AskedFor(h))'
  <2>1. Counted(h)'
    BY DEF IInv, Counted, Unreleased, Wanting
  <2>2. EndsCounted(h)' /\ AskedFor(h)'
    BY OtherTorrent
  <2> QED
    BY <2>1, <2>2
<1> QED
  BY <1>1, <1>2, <1>3 DEF IInv

LEMMA InitInv == Init => IInv
<1> SUFFICES ASSUME Init PROVE IInv
  OBVIOUS
<1>1. NoTorrent \in Torrent
  BY DEF NoTorrent, Torrent
<1>2. TypeOK
  BY <1>1 DEF Init, TypeOK, TaskStates, NoTaskYet, Torrent
<1>3. ASSUME NEW h \in Hashes PROVE Counted(h) /\ EndsCounted(h) /\ AskedFor(h)
  <2>1. /\ shared[h].refs = 0 /\ asked[h] = {}
        /\ \A f \in Files : shared[h].wanted[f] = 0
        /\ \A i \in Pieces : shared[h].ends[i] = 0
    BY DEF Init, NoTorrent
  <2>2. Unreleased(h) = {} /\ \A f \in Files : Wanting(h, f) = {}
    BY DEF Init, NoTaskYet, Unreleased, Wanting
  <2>3. \A i \in Pieces : InUse(h, i) = {}
    BY <2>1 DEF InUse
  <2> QED
    BY <2>1, <2>2, <2>3, FS_EmptySet DEF Counted, EndsCounted, AskedFor
<1>4. \A t \in Tasks : TaskOK(task[t])
  BY DEF Init, NoTaskYet, TaskOK
<1> QED
  BY <1>2, <1>3, <1>4 DEF IInv

LEMMA NextInv == IInv /\ [Next]_vars => IInv'
<1> SUFFICES ASSUME IInv, [Next]_vars PROVE IInv'
  OBVIOUS
<1>0. info \subseteq Hashes /\ closing \in {"open", "closing", "closed"} /\ left \subseteq Tasks
  BY DEF IInv, TypeOK
<1>1. ASSUME NEW t \in Tasks, NEW h \in Hashes, NEW index \in Files \cup {NoFile}, Start(t, h, index) PROVE IInv'
  BY <1>1, StartInv
<1>2. ASSUME NEW h \in Hashes, GotInfo(h) PROVE IInv'
  BY <1>0, <1>2, AsideInv DEF GotInfo
<1>3. ASSUME NEW t \in Tasks, CloseTask(t) PROVE IInv'
  BY <1>3, BeginCloseInv DEF CloseTask
<1>4. ASSUME NEW t \in Tasks, SelectFile(t) PROVE IInv'
  BY <1>4, SelectFileInv
<1>5. ASSUME NEW t \in Tasks, Unwant(t) PROVE IInv'
  BY <1>5, UnwantInv
<1>6. ASSUME NEW t \in Tasks, Leave(t) PROVE IInv'
  BY <1>6, LeaveInv
<1>7. ASSUME NEW t \in Tasks, Release(t) PROVE IInv'
  BY <1>7, ReleaseInv
<1>8. ASSUME CloseBackend PROVE IInv'
  BY <1>0, <1>8, AsideInv DEF CloseBackend
<1>9. ASSUME NEW t \in Tasks, CloseEach(t) PROVE IInv'
  <2>1. CASE BeginClose(t) /\ UNCHANGED left
    BY <1>9, <2>1, BeginCloseInv DEF CloseEach
  <2>2. CASE left' = left \ {t} /\ UNCHANGED task
    BY <1>0, <1>9, <2>2, AsideInv DEF CloseEach
  <2> QED
    BY <1>9, <2>1, <2>2 DEF CloseEach
<1>10. ASSUME CloseClient PROVE IInv'
  BY <1>0, <1>10, AsideInv DEF CloseClient
<1>11. ASSUME UNCHANGED vars PROVE IInv'
  BY <1>0, <1>11, AsideInv DEF vars
<1> QED
  BY <1>1, <1>2, <1>3, <1>4, <1>5, <1>6, <1>7, <1>8, <1>9, <1>10, <1>11 DEF Next, TaskStep, CloserStep

\* The counts agree for any number of torrents, files and downloads.
THEOREM Invariant == Spec => []IInv
BY InitInv, NextInv, PTL DEF Spec

-----------------------------------------------------------------------------
(* What the counts are for.                                                 *)

\* Start counts a download on its torrent and release counts it out, the last
\* one dropping the torrent from the client: at every moment the count is the
\* number of downloads that have not released it.
THEOREM TorrentsAreCounted == Spec => []RefsCount
<1>1. IInv => RefsCount
  BY DEF IInv, Counted, RefsCount
<1> QED
  BY <1>1, Invariant, PTL

\* unwant puts a file back to none, and an end piece, only when nobody else
\* counts on it: an open download's file stays on the swarm with its ends
\* first, whatever the other downloads of the pack do.
THEOREM OpenTasksAreAsked == Spec => []RunningAsked
<1>1. IInv => RunningAsked
  <2> SUFFICES ASSUME IInv, NEW t \in Tasks, task[t].state = "running", task[t].file # NoFile
               PROVE  task[t].file \in asked[task[t].hash] /\ Ends(task[t].file) \subseteq next[task[t].hash]
    BY DEF RunningAsked
  <2>1. PICK h \in Hashes, f \in Files : h = task[t].hash /\ f = task[t].file
    BY DEF IInv, TypeOK, TaskOK
  <2>2. Wants(task[t], h, f)
    BY <2>1 DEF Wants
  <2>3. shared[h].wanted[f] > 0 /\ AskedFor(h)
    BY <2>2, CountedOnce DEF IInv
  <2> QED
    BY <2>1, <2>3 DEF AskedFor
<1> QED
  BY <1>1, Invariant, PTL

\* The last reader of a file takes it off the swarm: no file is asked for that
\* no open download wants.
THEOREM NothingElseIsAsked == Spec => []StoppedNotAsked
<1>1. IInv => StoppedNotAsked
  <2> SUFFICES ASSUME IInv, NEW h \in Hashes, NEW f \in Files, f \in asked[h]
               PROVE  Wanting(h, f) # {}
    BY DEF StoppedNotAsked
  <2>1. Counted(h) /\ AskedFor(h)
    BY DEF IInv
  <2>2. shared[h].wanted[f] > 0
    BY <2>1 DEF AskedFor
  <2> QED
    BY <2>1, <2>2, FS_EmptySet DEF Counted
<1> QED
  BY <1>1, Invariant, PTL
=============================================================================
