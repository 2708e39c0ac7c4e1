------------------------------ MODULE Acquire ------------------------------
(***************************************************************************)
(* The download manager: which downloads exist, what their rows say, and   *)
(* which backend task moves their bytes (core/internal/acquire/manager.go, *)
(* with recover of network.go and SaveDownload of store/downloads.go).     *)
(*                                                                         *)
(* Two locks protect the manager.  startMu serialises every operation that *)
(* starts, stops, pauses or removes a download, and is held for the whole  *)
(* of it.  mu protects the maps for the length of one read or write, so    *)
(* each critical section of mu is one step here; everything a call read    *)
(* under mu and uses after unlocking it is a field of its record in calls. *)
(* Looking at downloads (Get, List, Find, File) takes only mu, and runs    *)
(* beside every other operation.                                           *)
(***************************************************************************)
EXTENDS Integers

CONSTANTS
  Ids,        \* the download ids newID may return
  Locs,       \* the locators of sources
  FileLocs,   \* those of scheme "file"; the others are torrents
  Procs,      \* goroutines running an operation of the manager
  Tasks,      \* identities of backend tasks alive at once (a bound)
  MaxCrashes, \* bound on restarts of the core
  Requests,   \* the operations asked of the manager (a bound on a run)
  Fails,      \* which store calls may fail: a subset of {"save", "delete"}
  NoRow, NoTask, NoId, NoProc

(***************************************************************************)
(* A row.  Of its fields the model keeps the locator, the state, who       *)
(* paused it, whether the path (and with it the size) of its file is known *)
(* and whether Identify has named its title.                               *)
(***************************************************************************)
States == {"active", "done", "paused", "failed"}
Row == [loc : Locs, state : States, byUser : BOOLEAN, path : BOOLEAN, titled : BOOLEAN]

IsFile(row) == row.loc \in FileLocs

\* What a new Start writes for a locator nobody has asked for.
NewRow(loc) ==
  [loc |-> loc, state |-> "active", byUser |-> FALSE, path |-> FALSE, titled |-> FALSE]

\* A local file's task is a value (path and size) and holds nothing: two of
\* them on one path compare equal.
FileTask == "file"

ASSUME AcquireAssumption ==
  /\ FileLocs \subseteq Locs
  /\ Fails \subseteq {"save", "delete"}
  /\ Requests \subseteq {"look", "start", "open", "pause", "unpause", "share", "recover",
                        "remove", "identify"}
  /\ MaxCrashes \in Nat
  /\ NoRow \notin Row
  /\ NoId \notin Ids
  /\ NoProc \notin Procs
  /\ FileTask \notin Tasks
  /\ NoTask \notin Tasks \cup {FileTask}

LockedOps == {"start", "open", "create", "pause", "unpause", "share",
              "recover", "remove", "answer"}
Ops == LockedOps \cup {"look", "none"}
Pcs == {"idle", "copied", "tasked", "forget", "read", "snapped", "close",
        "resave", "restartRow", "starting", "failRow", "failSave", "pausing",
        "create", "createRow", "delete"}

VARIABLES
  rows,     \* m.rows: what memory says of each download
  store,    \* the downloads table
  tasks,    \* m.tasks
  open,     \* the download each live backend task moves bytes for, or NoId
  disk,     \* what is on disk of each torrent download and each local file
  startMu,  \* who holds startMu
  calls,    \* the operations under way
  used,     \* ids newID has returned
  resume,   \* stored rows Resume has yet to load: nonempty while booting
  crashes

vars == <<rows, store, tasks, open, disk, startMu, calls, used, resume, crashes>>

Places == Ids \cup FileLocs
\* Where the bytes of a download are: a local file is the user's own.
Place(id, row) == IF IsFile(row) THEN row.loc ELSE id

Call == [op : Ops, pc : Pcs, id : Ids \cup {NoId}, row : Row \cup {NoRow},
         task : Tasks \cup {FileTask, NoTask}, dirty : BOOLEAN, stalled : BOOLEAN]

IdleCall == [op |-> "none", pc |-> "idle", id |-> NoId, row |-> NoRow,
             task |-> NoTask, dirty |-> FALSE, stalled |-> FALSE]

TypeOK ==
  /\ rows \in [Ids -> Row \cup {NoRow}]
  /\ store \in [Ids -> Row \cup {NoRow}]
  /\ tasks \in [Ids -> Tasks \cup {FileTask, NoTask}]
  /\ open \in [Tasks -> Ids \cup {NoId}]
  /\ disk \in [Places -> {"unknown", "part", "whole"}]
  /\ startMu \in Procs \cup {NoProc}
  /\ calls \in [Procs -> Call]
  /\ used \subseteq Ids
  /\ resume \subseteq Ids
  /\ crashes \in 0..MaxCrashes

Init ==
  /\ rows = [id \in Ids |-> NoRow]
  /\ store = [id \in Ids |-> NoRow]
  /\ tasks = [id \in Ids |-> NoTask]
  /\ open = [t \in Tasks |-> NoId]
  /\ disk = [x \in Places |-> IF x \in FileLocs THEN "whole" ELSE "unknown"]
  /\ startMu = NoProc
  /\ calls = [p \in Procs |-> IdleCall]
  /\ used = {}
  /\ resume = {}
  /\ crashes = 0

-----------------------------------------------------------------------------
(* Helpers of the steps.                                                    *)

At(p, pc) == calls[p].pc = pc

\* The next step of p's operation, with some of its locals changed.
Goto(p, c) == calls' = [calls EXCEPT ![p] = c]

\* Mutant: a path out of an operation that forgets to unlock startMu.
ReturnLocked(p) ==
  /\ calls' = [calls EXCEPT ![p] = IdleCall]
  /\ UNCHANGED startMu

\* The operation returns; a deferred Unlock lets go of startMu.
Return(p) ==
  /\ calls' = [calls EXCEPT ![p] = IdleCall]
  /\ startMu' = IF startMu = p THEN NoProc ELSE startMu

\* SaveDownload writes a whole row over the stored one, or fails.
Saved(id, row) == store' = [store EXCEPT ![id] = row]
SaveFailed == "save" \in Fails /\ UNCHANGED store
SaveDownload(id, row) == Saved(id, row) \/ SaveFailed

\* settled: what a download nothing is running for can say for itself.
Settled(row, d) ==
  IF row.state = "done" \/ (row.state = "paused" /\ ~row.byUser)
  THEN [row EXCEPT !.state = IF row.path /\ d = "whole" THEN "done" ELSE "paused"]
  ELSE row

\* What snapshot merges into a row from a task that says d of its file: a
\* local file is done while it is whole, a torrent when all its bytes are in.
Merged(row, d) ==
  IF IsFile(row)
  THEN Settled([row EXCEPT !.path = TRUE, !.state = "done"], d)
  ELSE [row EXCEPT !.path = @ \/ d # "unknown",
                   !.state = IF d = "whole" THEN "done" ELSE @]

\* restart writes the row only when there is something to change in it.
Restarted(row) == [row EXCEPT !.state = "active", !.byUser = FALSE]
RestartPc(row) == IF row = Restarted(row) THEN "starting" ELSE "resave"

\* A backend task nothing refers to.
FreeTasks == {t \in Tasks : /\ open[t] = NoId
                            /\ \A id \in Ids : tasks[id] # t
                            /\ \A p \in Procs : calls[p].task # t}

-----------------------------------------------------------------------------
(* The operations, each from its first critical section.                    *)

\* Get, Find, and List for each row it copied: no startMu.
BeginLook(p, id) ==
  /\ resume = {} /\ At(p, "idle") /\ rows[id] # NoRow
  /\ Goto(p, [IdleCall EXCEPT !.op = "look", !.pc = "copied", !.id = id, !.row = rows[id]])
  /\ UNCHANGED <<rows, store, tasks, open, disk, startMu, used, resume, crashes>>

\* SetPaused (pause, unpause), StopSharing (share) and recover, which only
\* looks at a running download that is not a local file.
BeginLocked(p, op, id) ==
  /\ resume = {} /\ At(p, "idle") /\ startMu = NoProc /\ rows[id] # NoRow
  /\ op = "recover" => tasks[id] # NoTask /\ ~IsFile(rows[id])
  /\ startMu' = p
  /\ Goto(p, [IdleCall EXCEPT !.op = op, !.pc = "copied", !.id = id, !.row = rows[id]])
  /\ UNCHANGED <<rows, store, tasks, open, disk, used, resume, crashes>>

\* start of a locator some row already has (findByLocator).
BeginKnown(p, op, loc) ==
  /\ resume = {} /\ At(p, "idle") /\ startMu = NoProc
  /\ \E id \in Ids :
       /\ rows[id] # NoRow /\ rows[id].loc = loc
       /\ startMu' = p
       /\ Goto(p, [IdleCall EXCEPT !.op = op, !.pc = "copied", !.id = id, !.row = rows[id]])
  /\ UNCHANGED <<rows, store, tasks, open, disk, used, resume, crashes>>

\* Mutant: the locator is looked up and the row created outside startMu.
BeginNewUnlocked(p, op, loc) ==
  /\ resume = {} /\ At(p, "idle")
  /\ \A id \in Ids : rows[id] # NoRow => rows[id].loc # loc
  /\ loc \in FileLocs => op = "open"
  /\ \E id \in Ids \ used :
       /\ used' = used \cup {id}
       /\ Goto(p, [IdleCall EXCEPT !.op = "create", !.pc = "create", !.id = id, !.row = NewRow(loc)])
  /\ UNCHANGED <<rows, store, tasks, open, disk, startMu, resume, crashes>>

\* start of a new one.  A local file only comes in through OpenLocal.
BeginNew(p, op, loc) ==
  /\ resume = {} /\ At(p, "idle") /\ startMu = NoProc
  /\ \A id \in Ids : rows[id] # NoRow => rows[id].loc # loc
  /\ loc \in FileLocs => op = "open"
  /\ \E id \in Ids \ used :
       /\ used' = used \cup {id}
       /\ startMu' = p
       /\ Goto(p, [IdleCall EXCEPT !.op = "create", !.pc = "create", !.id = id, !.row = NewRow(loc)])
  /\ UNCHANGED <<rows, store, tasks, open, disk, resume, crashes>>

\* Mutant: Remove takes the row out and leaves its task in the map.
BeginRemoveKeepsTask(p, id) ==
  /\ resume = {} /\ At(p, "idle") /\ startMu = NoProc /\ rows[id] # NoRow
  /\ startMu' = p
  /\ rows' = [rows EXCEPT ![id] = NoRow]
  /\ Goto(p, [IdleCall EXCEPT !.op = "remove", !.id = id, !.row = rows[id], !.task = tasks[id],
                              !.pc = IF tasks[id] = NoTask THEN "delete" ELSE "close"])
  /\ UNCHANGED <<store, tasks, open, disk, used, resume, crashes>>

\* Remove takes the row and the task out of memory first.
BeginRemove(p, id) ==
  /\ resume = {} /\ At(p, "idle") /\ startMu = NoProc /\ rows[id] # NoRow
  /\ startMu' = p
  /\ rows' = [rows EXCEPT ![id] = NoRow]
  /\ tasks' = [tasks EXCEPT ![id] = NoTask]
  /\ Goto(p, [IdleCall EXCEPT !.op = "remove", !.id = id, !.row = rows[id], !.task = tasks[id],
                              !.pc = IF tasks[id] = NoTask THEN "delete" ELSE "close"])
  /\ UNCHANGED <<store, open, disk, used, resume, crashes>>

\* Identify names the title of a download, under mu throughout.
Identify(id) ==
  /\ resume = {} /\ rows[id] # NoRow
  /\ rows' = [rows EXCEPT ![id] = [@ EXCEPT !.titled = TRUE]]
  /\ SaveDownload(id, rows'[id])
  /\ UNCHANGED <<tasks, open, disk, startMu, calls, used, resume, crashes>>

-----------------------------------------------------------------------------
(* snapshot: read the task, ask it or the disk, write down what changed.    *)

SnapshotTask(p) ==
  /\ At(p, "copied")
  /\ Goto(p, [calls[p] EXCEPT !.task = tasks[calls[p].id], !.pc = "tasked"])
  /\ UNCHANGED <<rows, store, tasks, open, disk, startMu, used, resume, crashes>>

\* A torrent that has not got its metadata yet says nothing of its file.
SnapshotRead(p) ==
  LET c == calls[p]
      d == disk[Place(c.id, c.row)]
      says == IF c.task = NoTask THEN {Settled(c.row, d)}
              ELSE IF IsFile(c.row) THEN {Merged(c.row, d)}
              ELSE {Merged(c.row, "unknown"), Merged(c.row, d)}
  IN
  /\ c.pc = "tasked"
  /\ \E updated \in says :
       Goto(p, [c EXCEPT !.row = updated, !.dirty = (updated # c.row),
                         !.pc = IF IsFile(c.row) /\ c.task # NoTask /\ updated.state = "paused"
                                THEN "forget" ELSE "read"])
  /\ UNCHANGED <<rows, store, tasks, open, disk, startMu, used, resume, crashes>>

\* A local file gone from under its task: the next Start opens it afresh.
SnapshotForget(p) ==
  LET c == calls[p] IN
  /\ c.pc = "forget"
  /\ tasks' = IF tasks[c.id] = c.task THEN [tasks EXCEPT ![c.id] = NoTask] ELSE tasks
  /\ Goto(p, [c EXCEPT !.pc = "read"])
  /\ UNCHANGED <<rows, store, open, disk, startMu, used, resume, crashes>>

\* Mutant: a snapshot is written over a pause made since it was taken.
PersistOverPause(id, snap) ==
  IF rows[id] = NoRow
  THEN UNCHANGED <<rows, store>>
  ELSE /\ rows' = [rows EXCEPT ![id] = [@ EXCEPT !.state = snap.state, !.path = snap.path]]
       /\ SaveDownload(id, rows'[id])

\* Mutant: the whole snapshot is written, the pause in it included.
PersistWhole(id, snap) ==
  IF rows[id] = NoRow
  THEN UNCHANGED <<rows, store>>
  ELSE rows' = [rows EXCEPT ![id] = snap] /\ SaveDownload(id, snap)

\* Mutant: a snapshot taken before Remove puts the removed row back.
PersistRemoved(id, snap) ==
  IF rows[id] # NoRow /\ rows[id].byUser
  THEN UNCHANGED <<rows, store>>
  ELSE rows' = [rows EXCEPT ![id] = snap] /\ SaveDownload(id, snap)

\* persist takes the state and the path of the snapshot, and nothing of a row
\* that is gone or that the user paused since.
Persist(id, snap) ==
  IF rows[id] = NoRow \/ rows[id].byUser
  THEN UNCHANGED <<rows, store>>
  ELSE /\ rows' = [rows EXCEPT ![id] = [@ EXCEPT !.state = snap.state, !.path = snap.path]]
       /\ SaveDownload(id, rows'[id])

\* The end of a snapshot.  Only an active transfer that is still the one it
\* read can be found stalled.
SnapshotEnd(p) ==
  LET c == calls[p] IN
  /\ c.pc = "read"
  /\ IF c.dirty THEN Persist(c.id, c.row) ELSE UNCHANGED <<rows, store>>
  /\ IF c.op \in {"look", "answer"}
     THEN Return(p)
     ELSE /\ \E stalled \in {FALSE} \cup
                {c.row.state = "active" /\ c.task \in Tasks /\ tasks[c.id] = c.task} :
               Goto(p, [c EXCEPT !.pc = "snapped", !.dirty = FALSE, !.stalled = stalled])
          /\ UNCHANGED startMu
  /\ UNCHANGED <<tasks, open, disk, used, resume, crashes>>

-----------------------------------------------------------------------------
(* What an operation does about the snapshot.                               *)

\* stopTask: out of m.tasks under mu, and closed after.
StopTask(p, next) ==
  LET c == calls[p] IN
  /\ tasks' = [tasks EXCEPT ![c.id] = NoTask]
  /\ Goto(p, [c EXCEPT !.task = tasks[c.id], !.stalled = FALSE,
                       !.pc = IF tasks[c.id] = NoTask THEN next ELSE "close"])
  /\ UNCHANGED startMu

\* Nothing is left to do after this snapshot: the operation returns it.
Settles(c) ==
  \/ c.op # "share" /\ c.row.state = "done"
  \/ c.op \in {"start", "open"} /\ tasks[c.id] # NoTask /\ ~c.stalled
  \/ c.op \in {"pause", "unpause"} /\ IsFile(c.row)
  \/ c.op = "unpause" /\ c.row.state = "active" /\ tasks[c.id] # NoTask
  \/ c.op = "recover" /\ ~c.stalled
  \/ c.op = "share" /\ (c.row.state # "done" \/ IsFile(c.row) \/ tasks[c.id] = NoTask)

\* Play stops a stalled transfer; a resume restarts over what is running.
Stops(c) ==
  \/ c.op \in {"pause", "share", "recover"}
  \/ c.op \in {"start", "open"} /\ tasks[c.id] # NoTask

AfterStop(c) ==
  CASE c.op = "pause"  -> "pausing"
    [] c.op = "remove" -> "delete"
    [] OTHER           -> RestartPc(c.row)

Decide(p) ==
  LET c == calls[p] IN
  /\ c.pc = "snapped"
  /\ \/ Settles(c) /\ Return(p) /\ UNCHANGED tasks
     \/ ~Settles(c) /\ Stops(c) /\ StopTask(p, AfterStop(c))
     \/ /\ ~Settles(c) /\ ~Stops(c)
        /\ Goto(p, [c EXCEPT !.pc = RestartPc(c.row), !.stalled = FALSE])
        /\ UNCHANGED <<tasks, startMu>>
  /\ UNCHANGED <<rows, store, open, disk, used, resume, crashes>>

\* Task.Close, outside mu, and on to what the operation stopped it for.
CloseTask(p) ==
  LET c == calls[p] IN
  /\ c.pc = "close"
  /\ open' = [t \in Tasks |-> IF t = c.task THEN NoId ELSE open[t]]
  /\ \/ c.op = "share" /\ Return(p)
     \/ /\ c.op # "share"
        /\ Goto(p, [c EXCEPT !.task = NoTask, !.pc = AfterStop(c)])
        /\ UNCHANGED startMu
  /\ UNCHANGED <<rows, store, tasks, disk, used, resume, crashes>>

\* Mutant: a pause that could not be saved is kept in memory.
PauseUnsaved(p) ==
  LET id == calls[p].id
      paused == [rows[id] EXCEPT !.state = "paused", !.byUser = TRUE]
  IN
  /\ At(p, "pausing")
  /\ SaveDownload(id, paused)
  /\ rows' = [rows EXCEPT ![id] = paused]
  /\ Return(p)
  /\ UNCHANGED <<tasks, open, disk, used, resume, crashes>>

\* The pause itself: mu is held through the write, and the fields it does not
\* change are those of the row now, not of the snapshot.
Pause(p) ==
  LET id == calls[p].id
      paused == [rows[id] EXCEPT !.state = "paused", !.byUser = TRUE]
  IN
  /\ At(p, "pausing")
  /\ \/ Saved(id, paused) /\ rows' = [rows EXCEPT ![id] = paused]
     \/ SaveFailed /\ UNCHANGED rows
  /\ Return(p)
  /\ UNCHANGED <<tasks, open, disk, used, resume, crashes>>

-----------------------------------------------------------------------------
(* restart, startTask, fail, and the row of a new download.                 *)

\* restart saves the row it was given, as active, before it sets it in memory.
RestartSave(p) ==
  LET c == calls[p] IN
  /\ c.pc = "resave"
  /\ \/ /\ Saved(c.id, Restarted(c.row))
        /\ Goto(p, [c EXCEPT !.row = Restarted(c.row), !.pc = "restartRow"])
        /\ UNCHANGED startMu
     \/ SaveFailed /\ Return(p)
  /\ UNCHANGED <<rows, tasks, open, disk, used, resume, crashes>>

CreateSave(p) ==
  LET c == calls[p] IN
  /\ c.pc = "create"
  /\ \/ /\ Saved(c.id, c.row)
        /\ Goto(p, [c EXCEPT !.pc = "createRow"])
        /\ UNCHANGED startMu
     \/ SaveFailed /\ Return(p)
  /\ UNCHANGED <<rows, tasks, open, disk, used, resume, crashes>>

SetRow(p) ==
  LET c == calls[p] IN
  /\ c.pc \in {"restartRow", "createRow"}
  /\ rows' = [rows EXCEPT ![c.id] = c.row]
  /\ Goto(p, [c EXCEPT !.pc = "starting"])
  /\ UNCHANGED <<store, tasks, open, disk, startMu, used, resume, crashes>>

\* The backend's Start: a local file must be there to open.
BackendStart(id, row) ==
  IF IsFile(row)
  THEN /\ disk[row.loc] = "whole"
       /\ tasks' = [tasks EXCEPT ![id] = FileTask]
       /\ UNCHANGED open
  ELSE \E t \in FreeTasks :
         /\ tasks' = [tasks EXCEPT ![id] = t]
         /\ open' = [open EXCEPT ![t] = id]

BackendRefuses(row) == IsFile(row) => disk[row.loc] # "whole"

\* A restart and a new download answer with one more snapshot, under startMu
\* still; recover does not look again.
StartTask(p) ==
  LET c == calls[p] IN
  /\ c.pc = "starting"
  /\ BackendStart(c.id, c.row)
  /\ IF c.op = "recover"
     THEN Return(p)
     ELSE /\ Goto(p, [IdleCall EXCEPT !.op = "answer", !.pc = "copied", !.id = c.id,
                        !.row = IF c.op = "create" THEN c.row ELSE rows[c.id]])
          /\ UNCHANGED startMu
  /\ UNCHANGED <<rows, store, disk, used, resume, crashes>>

StartFails(p) ==
  LET c == calls[p] IN
  /\ c.pc = "starting"
  /\ BackendRefuses(c.row)
  /\ Goto(p, [c EXCEPT !.row.state = "failed", !.pc = "failRow"])
  /\ UNCHANGED <<rows, store, tasks, open, disk, startMu, used, resume, crashes>>

\* fail sets the row it was given in memory, and then saves it.
FailRow(p) ==
  LET c == calls[p] IN
  /\ c.pc = "failRow"
  /\ rows' = [rows EXCEPT ![c.id] = c.row]
  /\ Goto(p, [c EXCEPT !.pc = "failSave"])
  /\ UNCHANGED <<store, tasks, open, disk, startMu, used, resume, crashes>>

FailSave(p) ==
  /\ At(p, "failSave")
  /\ SaveDownload(calls[p].id, calls[p].row)
  /\ Return(p)
  /\ UNCHANGED <<rows, tasks, open, disk, used, resume, crashes>>

\* The end of Remove: the stored row, and the data if it is asked for.  A
\* local file is never deleted.
DeleteDownload(p) ==
  LET c == calls[p] IN
  /\ c.pc = "delete"
  /\ \/ /\ store' = [store EXCEPT ![c.id] = NoRow]
        /\ \E deleteData \in BOOLEAN :
             disk' = IF deleteData /\ ~IsFile(c.row)
                     THEN [disk EXCEPT ![c.id] = "unknown"] ELSE disk
     \/ "delete" \in Fails /\ UNCHANGED <<store, disk>>
  /\ Return(p)
  /\ UNCHANGED <<rows, tasks, open, used, resume, crashes>>

-----------------------------------------------------------------------------
(* The bytes, and the core going away and coming back.                      *)

Arrive(t) ==
  /\ open[t] # NoId
  /\ disk[open[t]] # "whole"
  /\ disk' = [disk EXCEPT ![open[t]] = IF @ = "unknown" THEN "part" ELSE "whole"]
  /\ UNCHANGED <<rows, store, tasks, open, startMu, calls, used, resume, crashes>>

\* Outside the app: a finished file cut short or deleted, a local file put back.
Outside(x) ==
  /\ \/ disk[x] = "whole" /\ disk' = [disk EXCEPT ![x] = "part"]
     \/ x \in FileLocs /\ disk[x] # "whole" /\ disk' = [disk EXCEPT ![x] = "whole"]
  /\ UNCHANGED <<rows, store, tasks, open, startMu, calls, used, resume, crashes>>

\* The core stops, by Close or by a crash: rows, tasks and operations are
\* memory; the table and the files stay.
Stop ==
  /\ crashes < MaxCrashes
  /\ crashes' = crashes + 1
  /\ rows' = [id \in Ids |-> NoRow]
  /\ tasks' = [id \in Ids |-> NoTask]
  /\ open' = [t \in Tasks |-> NoId]
  /\ startMu' = NoProc
  /\ calls' = [p \in Procs |-> IdleCall]
  /\ resume' = {id \in Ids : store[id] # NoRow}
  /\ UNCHANGED <<store, disk, used>>

\* Resume of one stored row, before the core serves anything.  A row that is
\* neither active nor failed is settled against its file; the others restart.
ResumeSettled(id) ==
  LET row == store[id] IN
  /\ id \in resume /\ row.state \in {"done", "paused"}
  /\ LET updated == Settled(row, disk[Place(id, row)]) IN
       /\ rows' = [rows EXCEPT ![id] = updated]
       /\ IF updated # row THEN SaveDownload(id, updated) ELSE UNCHANGED store
  /\ resume' = resume \ {id}
  /\ UNCHANGED <<tasks, open, disk, startMu, calls, used, crashes>>

ResumeRestart(id) ==
  LET row == store[id]
      again == Restarted(row)
      failed == [again EXCEPT !.state = "failed"]
  IN
  /\ id \in resume /\ row.state \in {"active", "failed"}
  /\ \/ /\ BackendStart(id, row)
        /\ rows' = [rows EXCEPT ![id] = again]
        /\ Saved(id, again)
     \/ /\ BackendRefuses(row)
        /\ rows' = [rows EXCEPT ![id] = failed]
        /\ Saved(id, failed) \/ ("save" \in Fails /\ Saved(id, again))
        /\ UNCHANGED <<tasks, open>>
     \/ /\ SaveFailed /\ row.state = "failed"
        /\ rows' = [rows EXCEPT ![id] = row]
        /\ UNCHANGED <<tasks, open>>
  /\ resume' = resume \ {id}
  /\ UNCHANGED <<disk, startMu, calls, used, crashes>>

-----------------------------------------------------------------------------
Begin(p) ==
  \/ \E id \in Ids :
        \/ "look" \in Requests /\ BeginLook(p, id)
        \/ "remove" \in Requests /\ BeginRemove(p, id)
        \/ \E op \in Requests \cap {"pause", "unpause", "share", "recover"} : BeginLocked(p, op, id)
  \/ \E op \in Requests \cap {"start", "open"}, loc \in Locs :
        /\ op = "open" => loc \in FileLocs
        /\ BeginKnown(p, op, loc) \/ BeginNew(p, op, loc)

Step(p) ==
  \/ SnapshotTask(p) \/ SnapshotRead(p) \/ SnapshotForget(p) \/ SnapshotEnd(p)
  \/ Decide(p) \/ CloseTask(p) \/ Pause(p)
  \/ RestartSave(p) \/ CreateSave(p) \/ SetRow(p)
  \/ StartTask(p) \/ StartFails(p) \/ FailRow(p) \/ FailSave(p)
  \/ DeleteDownload(p)

Environment ==
  \/ \E t \in Tasks : Arrive(t)
  \/ \E x \in Places : Outside(x)

Boot == \E id \in Ids : ResumeSettled(id) \/ ResumeRestart(id)

Next ==
  \/ \E p \in Procs : Begin(p) \/ Step(p)
  \/ "identify" \in Requests /\ \E id \in Ids : Identify(id)
  \/ Environment
  \/ Stop
  \/ Boot

Spec == Init /\ [][Next]_vars

\* Goroutines run: an operation under way takes its next step, and a boot goes
\* on until it has loaded every row.
FairSpec == Spec /\ (\A p \in Procs : WF_vars(Step(p))) /\ WF_vars(Boot)

-----------------------------------------------------------------------------
(* Properties.                                                              *)

Known(id) == rows[id] # NoRow

\* A download the user paused is paused and nothing in m.tasks runs for it,
\* and the store never says otherwise (SetPaused; persist's early return).
UserPauseHolds ==
  \A id \in Ids :
    /\ Known(id) /\ rows[id].byUser => rows[id].state = "paused" /\ tasks[id] = NoTask
    /\ store[id] # NoRow /\ store[id].byUser => store[id].state = "paused"

\* A pause lasts "restarts of the core included": while memory says the user
\* paused a download so does the store, except between the two writes of the
\* restart that lifts the pause.
PauseSurvives ==
  \A id \in Ids :
    Known(id) /\ rows[id].byUser =>
      \/ store[id] # NoRow /\ store[id].byUser
      \/ \E p \in Procs : calls[p].id = id /\ At(p, "restartRow")

\* Only a Play or a resume lifts a user's pause: no snapshot, no network
\* recovery, no Identify, no failed start; and a boot loads it as it was kept.
UserPauseLifted ==
  [][\A id \in Ids :
       /\ Known(id) /\ rows[id].byUser /\ rows'[id] # NoRow /\ ~rows'[id].byUser =>
            \E p \in Procs : calls[p].id = id /\ calls[p].op \in {"start", "open", "unpause"}
       /\ id \in resume /\ store[id].byUser /\ rows'[id] # NoRow => rows'[id].byUser]_vars

\* One download per source: no two rows share a locator, in memory or in the
\* store, whatever is created, removed, crashed and resumed (startMu,
\* findByLocator).
UniqueLocator ==
  \A a, b \in Ids : a # b =>
    /\ Known(a) /\ Known(b) => rows[a].loc # rows[b].loc
    /\ store[a] # NoRow /\ store[b] # NoRow => store[a].loc # store[b].loc

\* While the core runs, a download that was removed never comes back: the only
\* row that appears is the one a Start has just created.
NeverReturns ==
  [][resume = {} => \A id \in Ids :
       ~Known(id) /\ rows'[id] # NoRow =>
         \E p \in Procs : calls[p].id = id /\ calls[p].op = "create"
                           /\ At(p, "createRow")]_vars

\* Whatever m.tasks runs has its row, in memory and in the store: a crash at
\* any moment leaves something Resume can take up again.
RunningIsRecorded ==
  \A id \in Ids : tasks[id] # NoTask => Known(id) /\ store[id] # NoRow

\* No path through an operation keeps startMu for ever, whatever fails in it.
StartMuReleased == startMu # NoProc ~> startMu = NoProc

\* acquire.go says of a paused download that nothing is running for it.
PausedMeansStopped ==
  \A id \in Ids : Known(id) /\ rows[id].state = "paused" => tasks[id] \notin Tasks

\* SetPaused: "A pause stops the transfer": no backend task moves bytes of a
\* download the user paused.
UserPauseStopsTransfer ==
  \A t \in Tasks, id \in Ids :
    open[t] = id /\ Known(id) => ~rows[id].byUser

\* Resume "restarts at boot what was running when the core stopped": with no
\* operation under way, the store calls a download paused by the user only if
\* memory does.
PauseOnlyIfAsked ==
  \A id \in Ids :
    /\ Known(id) /\ store[id] # NoRow /\ store[id].byUser
    /\ \A p \in Procs : calls[p].id # id
    => rows[id].byUser

\* A title Identify has given is never taken back off the row.
TitleKept ==
  [][\A id \in Ids : Known(id) /\ rows[id].titled /\ rows'[id] # NoRow => rows'[id].titled]_vars
=============================================================================
