--------------------------- MODULE TorrentBackend ---------------------------
(***************************************************************************)
(* The BitTorrent backend: one torrent per infohash, shared and counted by *)
(* the downloads (tasks) over it, and what each of them asks the swarm for *)
(* (core/internal/acquire/torrent/backend.go).                             *)
(*                                                                         *)
(* Each critical section of Backend.mu or task.mu is one step.  The        *)
(* goroutine that selects a task's file runs beside everything else and    *)
(* holds task.mu around want, so the selection is one step; Close is four: *)
(* mark the task closed, unwant its file, leave b.tasks, release.          *)
(* The client (anacrolix/torrent) keeps a priority per file and per piece. *)
(***************************************************************************)
EXTENDS Integers, FiniteSets

CONSTANTS
  Tasks,      \* every task Start makes (a bound)
  Hashes,     \* infohashes
  Files,      \* the files of each torrent
  NumPieces,  \* how many pieces they lie over
  BeginPiece, \* the first piece holding any of a file
  EndPiece,   \* the piece after the last one
  Largest,    \* the largest video among them, taken when no file is named
  NoFile, NoHash

Pieces == 0 .. (NumPieces - 1)

ASSUME TorrentBackendAssumption ==
  /\ NumPieces \in Nat
  /\ BeginPiece \in [Files -> Nat] /\ EndPiece \in [Files -> 0 .. NumPieces]
  /\ Largest \in Files
  /\ NoFile \notin Files /\ NoHash \notin Hashes

VARIABLES
  shared,   \* b.shared: per infohash, the torrent and who wants what of it
  asked,    \* the client's file priorities: files being downloaded
  next,     \* the client's piece priorities: pieces at priority "next"
  info,     \* infohashes whose running torrent has its metadata
  task,     \* the tasks
  closing,  \* Backend.Close: "open", "closing" or "closed" (the client)
  left      \* the tasks Backend.Close has yet to close

vars == <<shared, asked, next, info, task, closing, left>>

\* A torrent counts its downloads, and how many of them want each file and
\* each end piece; zero refs stands for a torrent not in the map.
NoTorrent == [refs |-> 0, wanted |-> [f \in Files |-> 0], ends |-> [i \in Pieces |-> 0]]

\* "unwant", "leave" and "release" are the steps of a Close under way.
TaskStates == {"none", "running", "unwant", "leave", "release", "closed"}
NoTaskYet == [state |-> "none", hash |-> NoHash, index |-> NoFile, file |-> NoFile]

Running(h) == shared[h].refs > 0

TypeOK ==
  /\ shared \in [Hashes -> [refs : Nat, wanted : [Files -> Nat], ends : [Pieces -> Nat]]]
  /\ asked \in [Hashes -> SUBSET Files]
  /\ next \in [Hashes -> SUBSET Pieces]
  /\ info \subseteq Hashes
  /\ task \in [Tasks -> [state : TaskStates, hash : Hashes \cup {NoHash},
                         index : Files \cup {NoFile}, file : Files \cup {NoFile}]]
  /\ closing \in {"open", "closing", "closed"}
  /\ left \subseteq Tasks

Init ==
  /\ shared = [h \in Hashes |-> NoTorrent]
  /\ asked = [h \in Hashes |-> {}]
  /\ next = [h \in Hashes |-> {}]
  /\ info = {}
  /\ task = [t \in Tasks |-> NoTaskYet]
  /\ closing = "open"
  /\ left = {}

-----------------------------------------------------------------------------
\* ends: the first and the last piece holding any of a file.
Ends(f) == IF EndPiece[f] <= BeginPiece[f] THEN {} ELSE {BeginPiece[f], EndPiece[f] - 1}

\* The pieces a file is in.
PiecesOf(f) == BeginPiece[f] .. (EndPiece[f] - 1)

ChooseFile(index) == IF index \in Files THEN index ELSE Largest

\* The pieces the client asks the swarm for.
Requested(h) == next[h] \cup UNION {PiecesOf(f) : f \in asked[h]}

\* Start: the torrent is added to the client the first time, with its metadata
\* when an earlier run saved it, and counted every time.
Start(t, h, index) ==
  /\ closing = "open"
  /\ task[t] = NoTaskYet
  /\ shared' = [shared EXCEPT ![h].refs = @ + 1]
  /\ IF Running(h) THEN UNCHANGED info ELSE info' \in {info, info \cup {h}}
  /\ task' = [task EXCEPT ![t] = [state |-> "running", hash |-> h, index |-> index, file |-> NoFile]]
  /\ UNCHANGED <<asked, next, closing, left>>

\* The metadata arrives from a peer.
GotInfo(h) ==
  /\ Running(h) /\ h \notin info
  /\ info' = info \cup {h}
  /\ UNCHANGED <<shared, asked, next, task, closing, left>>

\* want: asks the swarm for a file, its ends first, and counts who asks.
Want(h, f) ==
  /\ shared' = [shared EXCEPT ![h].wanted[f] = @ + 1,
                              ![h].ends = [i \in Pieces |-> @[i] + (IF i \in Ends(f) THEN 1 ELSE 0)]]
  /\ asked' = [asked EXCEPT ![h] = @ \cup {f}]
  /\ next' = [next EXCEPT ![h] = @ \cup Ends(f)]

\* selectFile, of a task that is still open.
SelectFile(t) ==
  LET h == task[t].hash
      f == ChooseFile(task[t].index)
  IN
  /\ task[t].state = "running" /\ task[t].file = NoFile
  /\ h \in info
  /\ Want(h, f)
  /\ task' = [task EXCEPT ![t].file = f]
  /\ UNCHANGED <<info, closing, left>>

\* task.Close, once: the task is marked closed and lets go of its file.
BeginClose(t) ==
  /\ task[t].state = "running"
  /\ task' = [task EXCEPT ![t].state = IF task[t].file = NoFile THEN "leave" ELSE "unwant"]

\* The manager closes a task.
CloseTask(t) ==
  /\ BeginClose(t)
  /\ UNCHANGED <<shared, asked, next, info, closing, left>>

\* Mutant: the end pieces are put back to none whoever else counts on them.
UnwantEnds(t) ==
  LET h == task[t].hash
      f == task[t].file
      last == shared[h].wanted[f] <= 1
  IN
  /\ task[t].state = "unwant"
  /\ shared' = [shared EXCEPT ![h].wanted[f] = @ - 1]
  /\ asked' = IF last THEN [asked EXCEPT ![h] = @ \ {f}] ELSE asked
  /\ next' = IF last THEN [next EXCEPT ![h] = @ \ Ends(f)] ELSE next
  /\ task' = [task EXCEPT ![t].state = "leave"]
  /\ UNCHANGED <<info, closing, left>>

\* Mutant: an off-by-one in the count, and no reader is ever the last.
UnwantNever(t) ==
  /\ task[t].state = "unwant"
  /\ shared' = [shared EXCEPT ![task[t].hash].wanted[task[t].file] = @ - 1]
  /\ task' = [task EXCEPT ![t].state = "leave"]
  /\ UNCHANGED <<asked, next, info, closing, left>>

\* unwant: only the last reader of a file takes it off the swarm, and then
\* the end pieces no other file counts.
Unwant(t) ==
  LET h == task[t].hash
      f == task[t].file
      last == shared[h].wanted[f] <= 1
      ends == [i \in Pieces |-> shared[h].ends[i] - (IF i \in Ends(f) THEN 1 ELSE 0)]
  IN
  /\ task[t].state = "unwant"
  /\ IF last
     THEN /\ shared' = [shared EXCEPT ![h].wanted[f] = 0, ![h].ends = ends]
          /\ asked' = [asked EXCEPT ![h] = @ \ {f}]
          /\ next' = [next EXCEPT ![h] = @ \ {i \in Ends(f) : ends[i] <= 0}]
     ELSE /\ shared' = [shared EXCEPT ![h].wanted[f] = @ - 1]
          /\ UNCHANGED <<asked, next>>
  /\ task' = [task EXCEPT ![t].state = "leave"]
  /\ UNCHANGED <<info, closing, left>>

\* onClose takes the task out of b.tasks, and releases the torrent after.
Leave(t) ==
  /\ task[t].state = "leave"
  /\ task' = [task EXCEPT ![t].state = "release"]
  /\ UNCHANGED <<shared, asked, next, info, closing, left>>

\* Mutant: a release drops the torrent without looking at who else is on it.
ReleaseDrops(t) ==
  LET h == task[t].hash IN
  /\ task[t].state = "release"
  /\ shared' = [shared EXCEPT ![h] = NoTorrent]
  /\ asked' = [asked EXCEPT ![h] = {}]
  /\ next' = [next EXCEPT ![h] = {}]
  /\ info' = info \ {h}
  /\ task' = [task EXCEPT ![t].state = "closed"]
  /\ UNCHANGED <<closing, left>>

\* release: the last download of a torrent drops it from the client.
Release(t) ==
  LET h == task[t].hash IN
  /\ task[t].state = "release"
  /\ IF shared[h].refs > 1
     THEN /\ shared' = [shared EXCEPT ![h].refs = @ - 1]
          /\ UNCHANGED <<asked, next, info>>
     ELSE /\ shared' = [shared EXCEPT ![h] = NoTorrent]
          /\ asked' = [asked EXCEPT ![h] = {}]
          /\ next' = [next EXCEPT ![h] = {}]
          /\ info' = info \ {h}
  /\ task' = [task EXCEPT ![t].state = "closed"]
  /\ UNCHANGED <<closing, left>>

-----------------------------------------------------------------------------
\* Backend.Close refuses new tasks, takes those in b.tasks, closes each one
\* and waits for it, and closes the client.
InTasks(t) == task[t].state \in {"running", "unwant", "leave"}

CloseBackend ==
  /\ closing = "open"
  /\ closing' = "closing"
  /\ left' = {t \in Tasks : InTasks(t)}
  /\ UNCHANGED <<shared, asked, next, info, task>>

\* Mutant: Close waits for the tasks without closing them.
CloseEachWaits(t) ==
  /\ closing = "closing" /\ t \in left
  /\ task[t].state = "closed" /\ left' = left \ {t}
  /\ UNCHANGED <<shared, asked, next, info, task, closing>>

CloseEach(t) ==
  /\ closing = "closing" /\ t \in left
  /\ \/ BeginClose(t) /\ UNCHANGED left
     \/ task[t].state = "closed" /\ left' = left \ {t} /\ UNCHANGED task
  /\ UNCHANGED <<shared, asked, next, info, closing>>

CloseClient ==
  /\ closing = "closing" /\ left = {}
  /\ closing' = "closed"
  /\ UNCHANGED <<shared, asked, next, info, task, left>>

TaskStep(t) == SelectFile(t) \/ Unwant(t) \/ Leave(t) \/ Release(t)
CloserStep == (\E t \in Tasks : CloseEach(t)) \/ CloseClient

Next ==
  \/ \E t \in Tasks, h \in Hashes, index \in Files \cup {NoFile} : Start(t, h, index)
  \/ \E h \in Hashes : GotInfo(h)
  \/ \E t \in Tasks : CloseTask(t) \/ TaskStep(t)
  \/ CloseBackend \/ CloserStep

Spec == Init /\ [][Next]_vars

\* A Close that has begun goes on, and Backend.Close does not give up.
FairSpec ==
  /\ Spec
  /\ \A t \in Tasks : WF_vars(Unwant(t)) /\ WF_vars(Leave(t)) /\ WF_vars(Release(t))
  /\ WF_vars(CloserStep)

-----------------------------------------------------------------------------
Unreleased(h) == {t \in Tasks : task[t].hash = h /\ task[t].state \notin {"none", "closed"}}
Wanting(h, f) == {t \in Tasks : /\ task[t].hash = h /\ task[t].file = f
                                /\ task[t].state \in {"running", "unwant"}}

\* The torrent is in the client exactly while some task has not released it.
RefsCount == \A h \in Hashes : shared[h].refs = Cardinality(Unreleased(h))

\* "nothing a still-running episode asked for goes with it": whatever other
\* tasks of the pack close, an open task's file stays on the swarm, its ends
\* first.
RunningAsked ==
  \A t \in Tasks :
    task[t].state = "running" /\ task[t].file # NoFile =>
      /\ task[t].file \in asked[task[t].hash]
      /\ Ends(task[t].file) \subseteq next[task[t].hash]

\* "what the last reader of a file asked for goes with it": a file is asked
\* for only while a task wants it.
StoppedNotAsked ==
  \A h \in Hashes, f \in Files : f \in asked[h] => Wanting(h, f) # {}

\* "a file nothing wants any more would still be asked for, one piece at each
\* end": while another episode of the pack goes on, no piece is asked for that
\* no wanted file is in.
NoPieceLeft ==
  \A h \in Hashes :
    (\E t \in Tasks : task[t].hash = h /\ task[t].state = "running") =>
    Requested(h) \subseteq UNION {PiecesOf(f) : f \in {g \in Files : Wanting(h, g) # {}}}

\* Backend.Close: "Tasks first: they drop torrents and close storages, which a
\* closed client can no longer do for them."
TasksFirst == closing = "closed" => \A h \in Hashes : ~Running(h)

\* Closing the backend ends, and with it every torrent.
BackendCloses == closing = "closing" ~> (closing = "closed" /\ \A h \in Hashes : ~Running(h))
=============================================================================
