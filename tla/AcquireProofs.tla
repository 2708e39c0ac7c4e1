--------------------------- MODULE AcquireProofs ---------------------------
(***************************************************************************)
(* Proofs, for any number of downloads, sources, goroutines, tasks and     *)
(* restarts, of what startMu and the early returns of persist guarantee.   *)
(***************************************************************************)
EXTENDS Acquire, TLAPS

SnapshotPcs == {"copied", "tasked", "forget", "read"}
RestartPcs == {"resave", "restartRow", "starting", "failRow", "failSave"}

\* Which steps each operation goes through.
Control(c) ==
  /\ c.op = "none" => c = IdleCall
  /\ c.op # "none" => c.id \in Ids /\ c.row \in Row /\ c.pc # "idle"
  /\ c.op \in {"look", "answer"} => c.pc \in SnapshotPcs
  /\ c.op = "create" => c.pc \in {"create", "createRow", "starting", "failRow", "failSave"}
  /\ c.op = "remove" => c.pc \in {"close", "delete"}
  /\ c.op = "pause" => c.pc \in SnapshotPcs \cup {"snapped", "close", "pausing"}
  /\ c.op = "share" => c.pc \in SnapshotPcs \cup {"snapped", "close"}
  /\ c.op \in {"start", "open", "unpause", "recover"} =>
       c.pc \in SnapshotPcs \cup {"snapped", "close"} \cup RestartPcs

\* startMu is held by the one operation that locks it, and by none at boot.
Locking ==
  /\ \A p \in Procs : calls[p].op \in LockedOps <=> startMu = p
  /\ resume # {} => \A p \in Procs : calls[p] = IdleCall

\* What the row an operation copied still says of the row in memory: nothing
\* but the holder of startMu creates, removes, pauses or resumes.
CopiedRow(c) ==
  /\ c.op \in LockedOps \ {"remove"} /\ c.pc \notin {"create", "createRow"} =>
       /\ rows[c.id] # NoRow
       /\ rows[c.id].loc = c.row.loc
       /\ rows[c.id].byUser /\ c.pc # "restartRow" => c.row.byUser
  /\ c.pc \in {"create", "createRow"} => rows[c.id] = NoRow
  /\ c.pc = "create" => c.id \in used
  /\ c.op = "remove" => rows[c.id] = NoRow
  /\ c.pc \in {"create", "createRow", "restartRow", "starting", "failRow", "failSave"} => ~c.row.byUser
  /\ c.op = "pause" /\ c.pc \in {"close", "pausing"} => tasks[c.id] = NoTask

\* The store has a row for every row in memory, of the same source, and none
\* under an id newID has not returned.
Recorded ==
  /\ \A id \in Ids : store[id] # NoRow => id \in used
  /\ \A id \in Ids : rows[id] # NoRow => store[id] # NoRow /\ store[id].loc = rows[id].loc
  /\ \A id \in resume : store[id] # NoRow /\ rows[id] = NoRow
  /\ \A p \in Procs : calls[p].pc = "createRow" =>
       store[calls[p].id] # NoRow /\ store[calls[p].id].loc = calls[p].row.loc

RunningHasRow == \A id \in Ids : tasks[id] # NoTask => rows[id] # NoRow

IInv ==
  /\ TypeOK
  /\ \A p \in Procs : Control(calls[p]) /\ CopiedRow(calls[p])
  /\ Locking
  /\ Recorded
  /\ RunningHasRow
  /\ UserPauseHolds

\* Where a stored row is not in memory, an operation or a boot is putting it
\* there or taking it away, provided the store deletes what Remove asks.
Loaded ==
  \A id \in Ids : store[id] # NoRow =>
    \/ rows[id] # NoRow
    \/ id \in resume
    \/ \E p \in Procs : calls[p].id = id /\ (calls[p].op = "remove" \/ calls[p].pc = "createRow")

\* The lookup of a new download found nothing, and startMu keeps it so.
NewLocator ==
  \A p \in Procs : calls[p].pc \in {"create", "createRow"} =>
    \A id \in Ids : rows[id] # NoRow => rows[id].loc # calls[p].row.loc

StoreUnique ==
  \A a, b \in Ids :
    a # b /\ store[a] # NoRow /\ store[b] # NoRow => store[a].loc # store[b].loc

UInv == Loaded /\ NewLocator /\ StoreUnique

-----------------------------------------------------------------------------
(* The operators rows and calls are built with.                             *)

\* No helper changes the source of a row, and none but restart its pause.
LEMMA RowFacts ==
  ASSUME NEW row \in Row, NEW d
  PROVE  /\ Settled(row, d) \in Row
         /\ Settled(row, d).loc = row.loc
         /\ Settled(row, d).byUser = row.byUser
         /\ row.byUser => Settled(row, d).state \in {row.state, "paused", "done"}
         /\ row.byUser /\ row.state = "paused" => Settled(row, d) = row
         /\ Merged(row, d) \in Row
         /\ Merged(row, d).loc = row.loc
         /\ Merged(row, d).byUser = row.byUser
         /\ Restarted(row) \in Row
         /\ Restarted(row).loc = row.loc
         /\ Restarted(row).byUser = FALSE
         /\ RestartPc(row) \in {"starting", "resave"}
         /\ RestartPc(row) = "starting" => ~row.byUser
<1>1. Settled(row, d) \in Row /\ Settled(row, d).loc = row.loc /\ Settled(row, d).byUser = row.byUser
  BY DEF Settled, Row, States
<1>2. row.byUser /\ row.state = "paused" => Settled(row, d) = row
  BY DEF Settled, Row, States
<1>3. Merged(row, d) \in Row /\ Merged(row, d).loc = row.loc /\ Merged(row, d).byUser = row.byUser
  BY DEF Merged, Settled, Row, States
<1>4. Restarted(row) \in Row /\ Restarted(row).loc = row.loc /\ Restarted(row).byUser = FALSE
  BY DEF Restarted, Row, States
<1>5. RestartPc(row) \in {"starting", "resave"} /\ (RestartPc(row) = "starting" => ~row.byUser)
  BY <1>4 DEF RestartPc
<1> QED
  BY <1>1, <1>2, <1>3, <1>4, <1>5 DEF Settled, Row, States

LEMMA NewRowFacts ==
  ASSUME NEW loc \in Locs
  PROVE  NewRow(loc) \in Row /\ NewRow(loc).loc = loc /\ NewRow(loc).byUser = FALSE
BY DEF NewRow, Row, States

LEMMA IdleCallFacts == IdleCall \in Call /\ Control(IdleCall) /\ CopiedRow(IdleCall)
BY DEF IdleCall, Call, Control, CopiedRow, Ops, Pcs, LockedOps

-----------------------------------------------------------------------------
LEMMA InitIInv == Init => IInv
<1> SUFFICES ASSUME Init PROVE IInv
  OBVIOUS
<1> USE AcquireAssumption
<1>1. TypeOK
  BY IdleCallFacts DEF Init, TypeOK, Places
<1>2. \A p \in Procs : Control(calls[p]) /\ CopiedRow(calls[p])
  BY IdleCallFacts DEF Init
<1>3. Locking
  BY DEF Init, Locking, IdleCall, LockedOps
<1>4. Recorded /\ RunningHasRow /\ UserPauseHolds
  BY DEF Init, Recorded, RunningHasRow, UserPauseHolds, IdleCall, Known
<1> QED
  BY <1>1, <1>2, <1>3, <1>4 DEF IInv

\* What is known of an operation under way.
LEMMA Underway ==
  ASSUME IInv, NEW p \in Procs, calls[p].pc # "idle"
  PROVE  /\ calls[p] \in Call
         /\ calls[p].op # "none"
         /\ calls[p].id \in Ids
         /\ calls[p].row \in Row
         /\ calls[p].task \in Tasks \cup {FileTask, NoTask}
         /\ resume = {}
         /\ Control(calls[p])
         /\ CopiedRow(calls[p])
<1>1. calls[p] \in Call /\ Control(calls[p]) /\ CopiedRow(calls[p])
  BY DEF IInv, TypeOK
<1>2. calls[p].op # "none"
  BY <1>1 DEF Control, IdleCall
<1>3. calls[p].id \in Ids /\ calls[p].row \in Row /\ calls[p].task \in Tasks \cup {FileTask, NoTask}
  BY <1>1, <1>2 DEF Control, Call
<1>4. resume = {}
  BY DEF IInv, Locking, IdleCall
<1> QED
  BY <1>1, <1>2, <1>3, <1>4

\* Nobody else is in an operation that takes startMu.
LEMMA Alone ==
  ASSUME IInv, NEW p \in Procs, calls[p].op \in LockedOps, NEW q \in Procs, q # p
  PROVE  /\ calls[q].op \in {"look", "none"}
         /\ calls[q].pc \in SnapshotPcs \cup {"idle"}
<1>1. calls[q].op \in Ops /\ Control(calls[q]) /\ calls[q].op \notin LockedOps
  BY DEF IInv, TypeOK, Call, Locking
<1> QED
  BY <1>1 DEF Ops, Control, IdleCall

\* An operation that returns leaves the lock, and the others, in order.
LEMMA Returns ==
  ASSUME IInv, NEW p \in Procs, Return(p), calls[p].pc # "idle", resume' = resume
  PROVE  /\ calls' \in [Procs -> Call]
         /\ calls'[p] = IdleCall
         /\ \A q \in Procs : q # p => calls'[q] = calls[q]
         /\ startMu' \in Procs \cup {NoProc}
         /\ Control(calls[p])'
         /\ CopiedRow(calls[p])'
         /\ Locking'
<1> USE AcquireAssumption
<1>1. /\ calls' \in [Procs -> Call]
      /\ calls'[p] = IdleCall
      /\ \A q \in Procs : q # p => calls'[q] = calls[q]
  BY IdleCallFacts DEF IInv, TypeOK, Return
<1>2. startMu' \in Procs \cup {NoProc}
  BY DEF IInv, TypeOK, Return
<1>3. Control(calls[p])' /\ CopiedRow(calls[p])'
  BY <1>1 DEF Control, CopiedRow, IdleCall, LockedOps
<1>4. \A q \in Procs : calls'[q].op \in LockedOps <=> startMu' = q
  BY <1>1 DEF IInv, TypeOK, Locking, Return, IdleCall, LockedOps
<1>5. resume' = {}
  BY Underway
<1> QED
  BY <1>1, <1>2, <1>3, <1>4, <1>5 DEF Locking

\* A step of an operation that goes on keeps the lock as it was.
LEMMA GoesOn ==
  ASSUME IInv, NEW p \in Procs, calls[p].pc # "idle",
         UNCHANGED <<startMu, resume>>,
         calls' \in [Procs -> Call],
         calls'[p].op \in LockedOps <=> calls[p].op \in LockedOps,
         \A q \in Procs : q # p => calls'[q] = calls[q]
  PROVE  Locking'
<1>1. resume' = {}
  BY Underway
<1> QED
  BY <1>1 DEF IInv, Locking

\* While an operation holds startMu the others have copied no row that counts.
LEMMA OthersLook ==
  ASSUME IInv, NEW p \in Procs, calls[p].op \in LockedOps,
         NEW q \in Procs, q # p, calls'[q] = calls[q]
  PROVE  Control(calls[q])' /\ CopiedRow(calls[q])'
<1>1. /\ calls[q].op \in {"look", "none"}
      /\ calls[q].pc \in SnapshotPcs \cup {"idle"}
  BY Alone
<1>2. Control(calls[q])
  BY DEF IInv
<1>3. Control(calls[q])'
  BY <1>2 DEF Control
<1>4. CopiedRow(calls[q])'
  BY <1>1 DEF CopiedRow, LockedOps, SnapshotPcs
<1> QED
  BY <1>3, <1>4

\* What a step may do to the rows and the tasks beside an operation that has
\* copied a row: neither make nor remove one, nor change its pause.
LEMMA OthersKeep ==
  ASSUME IInv, NEW q \in Procs, calls'[q] = calls[q], used' = used,
         \A id \in Ids : /\ rows'[id] = NoRow <=> rows[id] = NoRow
                         /\ rows[id] # NoRow => rows'[id].loc = rows[id].loc
                                               /\ rows'[id].byUser = rows[id].byUser
                         /\ tasks'[id] \in {tasks[id], NoTask}
  PROVE  Control(calls[q])' /\ CopiedRow(calls[q])'
<1>1. CASE calls[q].op = "none"
  <2>1. calls'[q] = IdleCall /\ Control(calls[q])
    BY <1>1 DEF IInv, Control
  <2>2. Control(calls[q])'
    BY <2>1 DEF Control
  <2>3. CopiedRow(calls[q])'
    BY <2>1 DEF CopiedRow, IdleCall, LockedOps
  <2> QED
    BY <2>2, <2>3
<1>2. CASE calls[q].op # "none"
  <2>1. calls[q].id \in Ids /\ Control(calls[q]) /\ CopiedRow(calls[q])
    BY <1>2 DEF IInv, Control
  <2> QED
    BY <2>1 DEF Control, CopiedRow
<1> QED
  BY <1>1, <1>2

-----------------------------------------------------------------------------
(* snapshot.                                                                *)

LEMMA SnapshotTaskIInv ==
  ASSUME IInv, NEW p \in Procs, SnapshotTask(p)
  PROVE  IInv'
<1> USE AcquireAssumption DEF SnapshotTask, Goto, At
<1> DEFINE c == calls[p]
<1>0. /\ c \in Call /\ c.id \in Ids /\ c.row \in Row /\ Control(c) /\ CopiedRow(c)
      /\ c.op # "none" /\ resume = {}
  BY Underway
<1>1. /\ calls' \in [Procs -> Call]
      /\ calls'[p].op = c.op /\ calls'[p].id = c.id /\ calls'[p].row = c.row /\ calls'[p].pc = "tasked"
      /\ \A q \in Procs : q # p => calls'[q] = calls[q]
  <2>1. tasks[c.id] \in Tasks \cup {FileTask, NoTask}
    BY <1>0 DEF IInv, TypeOK
  <2>2. [c EXCEPT !.task = tasks[c.id], !.pc = "tasked"] \in Call
    BY <1>0, <2>1 DEF Call, Pcs
  <2> QED
    BY <1>0, <2>2 DEF IInv, TypeOK, Call
<1>2. TypeOK'
  BY <1>1 DEF IInv, TypeOK
<1>3. (Control(calls[p]) /\ CopiedRow(calls[p]))'
  BY <1>0, <1>1 DEF Control, CopiedRow, SnapshotPcs
<1>4. ASSUME NEW q \in Procs, q # p PROVE (Control(calls[q]) /\ CopiedRow(calls[q]))'
  BY <1>1, <1>4, OthersKeep
<1>5. Locking'
  BY <1>0, <1>1, GoesOn
<1>6. Recorded' /\ RunningHasRow' /\ UserPauseHolds'
  BY <1>0, <1>1 DEF IInv, Recorded, RunningHasRow, UserPauseHolds, Known
<1> QED
  BY <1>1, <1>2, <1>3, <1>4, <1>5, <1>6 DEF IInv

LEMMA SnapshotReadIInv ==
  ASSUME IInv, NEW p \in Procs, SnapshotRead(p)
  PROVE  IInv'
<1> USE AcquireAssumption
<1> DEFINE c == calls[p]
<1>p. c.pc = "tasked" /\ UNCHANGED <<rows, store, tasks, open, disk, startMu, used, resume, crashes>>
  BY DEF SnapshotRead
<1>0. /\ c \in Call /\ c.id \in Ids /\ c.row \in Row /\ Control(c) /\ CopiedRow(c)
      /\ c.op # "none" /\ resume = {}
  BY <1>p, Underway
<1>u. PICK updated \in Row :
        /\ updated.loc = c.row.loc /\ updated.byUser = c.row.byUser
        /\ calls' = [calls EXCEPT ![p] =
             [c EXCEPT !.row = updated, !.dirty = (updated # c.row),
                       !.pc = IF IsFile(c.row) /\ c.task # NoTask /\ updated.state = "paused"
                              THEN "forget" ELSE "read"]]
  <2> DEFINE d == disk[Place(c.id, c.row)]
  <2>1. \E updated \in {Settled(c.row, d), Merged(c.row, "unknown"), Merged(c.row, d)} :
          calls' = [calls EXCEPT ![p] =
             [c EXCEPT !.row = updated, !.dirty = (updated # c.row),
                       !.pc = IF IsFile(c.row) /\ c.task # NoTask /\ updated.state = "paused"
                              THEN "forget" ELSE "read"]]
    BY DEF SnapshotRead, Goto
  <2>2. \A updated \in {Settled(c.row, d), Merged(c.row, "unknown"), Merged(c.row, d)} :
          updated \in Row /\ updated.loc = c.row.loc /\ updated.byUser = c.row.byUser
    <3>1. c.row \in Row
      BY <1>0
    <3>2. \A e : /\ Settled(c.row, e) \in Row /\ Merged(c.row, e) \in Row
                /\ Settled(c.row, e).loc = c.row.loc /\ Merged(c.row, e).loc = c.row.loc
                /\ Settled(c.row, e).byUser = c.row.byUser /\ Merged(c.row, e).byUser = c.row.byUser
      BY <3>1, RowFacts
    <3> QED
      BY <3>2
  <2> QED
    BY <2>1, <2>2
<1>1. /\ calls' \in [Procs -> Call]
      /\ calls'[p].op = c.op /\ calls'[p].id = c.id /\ calls'[p].pc \in {"forget", "read"}
      /\ calls'[p].row \in Row /\ calls'[p].row.loc = c.row.loc /\ calls'[p].row.byUser = c.row.byUser
      /\ \A q \in Procs : q # p => calls'[q] = calls[q]
  <2>2. [c EXCEPT !.row = updated, !.dirty = (updated # c.row),
                  !.pc = IF IsFile(c.row) /\ c.task # NoTask /\ updated.state = "paused"
                         THEN "forget" ELSE "read"] \in Call
    BY <1>0, <1>u DEF Call, Pcs
  <2> QED
    BY <1>0, <1>u, <2>2 DEF IInv, TypeOK, Call
<1>2. TypeOK'
  BY <1>1, <1>p DEF IInv, TypeOK
<1>3. (Control(calls[p]) /\ CopiedRow(calls[p]))'
  BY <1>0, <1>1, <1>p DEF Control, CopiedRow, SnapshotPcs
<1>4. ASSUME NEW q \in Procs, q # p PROVE (Control(calls[q]) /\ CopiedRow(calls[q]))'
  BY <1>1, <1>p, <1>4, OthersKeep
<1>5. Locking'
  BY <1>0, <1>1, <1>p, GoesOn
<1>6. Recorded' /\ RunningHasRow' /\ UserPauseHolds'
  BY <1>0, <1>1, <1>p DEF IInv, Recorded, RunningHasRow, UserPauseHolds, Known
<1> QED
  BY <1>1, <1>2, <1>3, <1>4, <1>5, <1>6 DEF IInv

LEMMA SnapshotForgetIInv ==
  ASSUME IInv, NEW p \in Procs, SnapshotForget(p)
  PROVE  IInv'
<1> USE AcquireAssumption DEF SnapshotForget, Goto
<1> DEFINE c == calls[p]
<1>0. /\ c \in Call /\ c.id \in Ids /\ c.row \in Row /\ Control(c) /\ CopiedRow(c)
      /\ c.op # "none" /\ resume = {}
  BY Underway
<1>t. /\ tasks' \in [Ids -> Tasks \cup {FileTask, NoTask}]
      /\ \A id \in Ids : tasks'[id] \in {tasks[id], NoTask}
  BY <1>0 DEF IInv, TypeOK
<1>1. /\ calls' \in [Procs -> Call]
      /\ calls'[p].op = c.op /\ calls'[p].id = c.id /\ calls'[p].row = c.row /\ calls'[p].pc = "read"
      /\ \A q \in Procs : q # p => calls'[q] = calls[q]
  <2>2. [c EXCEPT !.pc = "read"] \in Call
    BY <1>0 DEF Call, Pcs
  <2> QED
    BY <1>0, <2>2 DEF IInv, TypeOK, Call
<1>2. TypeOK'
  BY <1>1, <1>t DEF IInv, TypeOK
<1>3. (Control(calls[p]) /\ CopiedRow(calls[p]))'
  BY <1>0, <1>1, <1>t DEF Control, CopiedRow, SnapshotPcs
<1>4. ASSUME NEW q \in Procs, q # p PROVE (Control(calls[q]) /\ CopiedRow(calls[q]))'
  BY <1>1, <1>t, <1>4, OthersKeep
<1>5. Locking'
  BY <1>0, <1>1, GoesOn
<1>6. Recorded' /\ RunningHasRow' /\ UserPauseHolds'
  BY <1>0, <1>1, <1>t DEF IInv, Recorded, RunningHasRow, UserPauseHolds, Known
<1> QED
  BY <1>1, <1>2, <1>3, <1>4, <1>5, <1>6 DEF IInv

\* persist changes neither the source nor the pause of a row, and takes no row
\* that is gone or paused by the user.
LEMMA PersistFacts ==
  ASSUME IInv, NEW id \in Ids, NEW snap \in Row, Persist(id, snap)
  PROVE  /\ rows' \in [Ids -> Row \cup {NoRow}]
         /\ store' \in [Ids -> Row \cup {NoRow}]
         /\ \A i \in Ids :
              /\ rows'[i] = NoRow <=> rows[i] = NoRow
              /\ rows[i] # NoRow => rows'[i].loc = rows[i].loc /\ rows'[i].byUser = rows[i].byUser
              /\ rows[i] # NoRow /\ rows[i].byUser => rows'[i] = rows[i]
              /\ store'[i] = store[i] \/ (rows'[i] # NoRow /\ ~rows[i].byUser /\ store'[i] = rows'[i])
<1> USE AcquireAssumption
<1> DEFINE new == [rows[id] EXCEPT !.state = snap.state, !.path = snap.path]
<1>1. CASE rows[id] = NoRow \/ rows[id].byUser
  BY <1>1 DEF Persist, IInv, TypeOK
<1>2. CASE rows[id] # NoRow /\ ~rows[id].byUser
  <2>1. rows[id] \in Row
    BY <1>2 DEF IInv, TypeOK
  <2>2. new \in Row /\ new.loc = rows[id].loc /\ new.byUser = rows[id].byUser
    BY <2>1 DEF Row
  <2>3. rows' = [rows EXCEPT ![id] = new]
    BY <1>2, <2>1 DEF Persist, Row, IInv, TypeOK
  <2>4. store' = [store EXCEPT ![id] = rows'[id]] \/ store' = store
    BY <1>2 DEF Persist, SaveDownload, Saved, SaveFailed
  <2>5. rows'[id] = new /\ \A i \in Ids : i # id => rows'[i] = rows[i]
    BY <2>3 DEF IInv, TypeOK
  <2>6. /\ rows' \in [Ids -> Row \cup {NoRow}]
        /\ store' \in [Ids -> Row \cup {NoRow}]
    BY <2>2, <2>3, <2>4, <2>5 DEF IInv, TypeOK
  <2>7. \A i \in Ids : store'[i] = store[i] \/ (i = id /\ store'[i] = new)
    BY <2>4, <2>5 DEF IInv, TypeOK
  <2> QED
    BY <1>2, <2>1, <2>2, <2>5, <2>6, <2>7
<1> QED
  BY <1>1, <1>2

LEMMA SnapshotEndIInv ==
  ASSUME IInv, NEW p \in Procs, SnapshotEnd(p)
  PROVE  IInv'
<1> USE AcquireAssumption
<1> DEFINE c == calls[p]
<1>p. c.pc = "read" /\ UNCHANGED <<tasks, open, disk, used, resume, crashes>>
  BY DEF SnapshotEnd
<1>0. /\ c \in Call /\ c.id \in Ids /\ c.row \in Row /\ Control(c) /\ CopiedRow(c)
      /\ c.op # "none" /\ resume = {}
  BY <1>p, Underway
<1>r. /\ rows' \in [Ids -> Row \cup {NoRow}]
      /\ store' \in [Ids -> Row \cup {NoRow}]
      /\ \A i \in Ids :
           /\ rows'[i] = NoRow <=> rows[i] = NoRow
           /\ rows[i] # NoRow => rows'[i].loc = rows[i].loc /\ rows'[i].byUser = rows[i].byUser
           /\ rows[i] # NoRow /\ rows[i].byUser => rows'[i] = rows[i]
           /\ store'[i] = store[i] \/ (rows'[i] # NoRow /\ ~rows[i].byUser /\ store'[i] = rows'[i])
  <2>1. CASE c.dirty
    <3>1. Persist(c.id, c.row)
      BY <2>1 DEF SnapshotEnd
    <3> QED
      BY <1>0, <3>1, PersistFacts
  <2>2. CASE ~c.dirty
    BY <2>2 DEF SnapshotEnd, IInv, TypeOK
  <2> QED
    BY <2>1, <2>2
<1>1. /\ calls' \in [Procs -> Call]
      /\ \A q \in Procs : q # p => calls'[q] = calls[q]
      /\ startMu' \in Procs \cup {NoProc}
      /\ Control(calls[p])' /\ CopiedRow(calls[p])'
      /\ Locking'
      /\ calls'[p].pc # "createRow"
  <2>1. CASE c.op \in {"look", "answer"}
    <3>1. Return(p)
      BY <2>1 DEF SnapshotEnd
    <3> QED
      BY <1>p, <3>1, Returns DEF IdleCall
  <2>2. CASE c.op \notin {"look", "answer"}
    <3>1. PICK stalled \in BOOLEAN :
            calls' = [calls EXCEPT ![p] = [c EXCEPT !.pc = "snapped", !.dirty = FALSE, !.stalled = stalled]]
      BY <2>2 DEF SnapshotEnd, Goto
    <3>2. startMu' = startMu
      BY <2>2 DEF SnapshotEnd
    <3>3. [c EXCEPT !.pc = "snapped", !.dirty = FALSE, !.stalled = stalled] \in Call
      BY <1>0 DEF Call, Pcs
    <3>4. /\ calls' \in [Procs -> Call]
          /\ calls'[p].op = c.op /\ calls'[p].id = c.id /\ calls'[p].row = c.row /\ calls'[p].pc = "snapped"
          /\ \A q \in Procs : q # p => calls'[q] = calls[q]
      BY <1>0, <3>1, <3>3 DEF IInv, TypeOK, Call
    <3>5. Control(calls[p])'
      BY <1>0, <1>p, <2>2, <3>4 DEF Control, SnapshotPcs
    <3>6. CopiedRow(calls[p])'
      BY <1>0, <1>p, <1>r, <3>4 DEF CopiedRow
    <3>7. Locking'
      BY <1>0, <1>p, <3>2, <3>4, GoesOn
    <3> QED
      BY <3>2, <3>4, <3>5, <3>6, <3>7 DEF IInv, TypeOK
  <2> QED
    BY <2>1, <2>2
<1>2. TypeOK'
  BY <1>1, <1>p, <1>r DEF IInv, TypeOK
<1>4. ASSUME NEW q \in Procs, q # p PROVE (Control(calls[q]) /\ CopiedRow(calls[q]))'
  BY <1>1, <1>p, <1>r, <1>4, OthersKeep
<1>5. Recorded'
  <2>1. \A i \in Ids : rows'[i] # NoRow => store'[i] # NoRow /\ store'[i].loc = rows'[i].loc
    BY <1>r DEF IInv, Recorded
  <2>2. \A i \in Ids : store'[i] # NoRow => i \in used'
    BY <1>p, <1>r DEF IInv, Recorded
  <2>3. ASSUME NEW q \in Procs, calls'[q].pc = "createRow"
        PROVE  store'[calls'[q].id] # NoRow /\ store'[calls'[q].id].loc = calls'[q].row.loc
    <3>1. q # p /\ calls'[q] = calls[q] /\ calls[q].pc = "createRow"
      BY <1>1, <2>3
    <3>2. calls[q].id \in Ids /\ rows[calls[q].id] = NoRow
      BY <3>1, Underway DEF CopiedRow
    <3> QED
      BY <1>r, <3>1, <3>2 DEF IInv, Recorded
  <2> QED
    BY <1>p, <1>0, <2>1, <2>2, <2>3 DEF Recorded
<1>6. RunningHasRow' /\ UserPauseHolds'
  BY <1>r, <1>p DEF IInv, RunningHasRow, UserPauseHolds, Known
<1> QED
  BY <1>1, <1>2, <1>4, <1>5, <1>6 DEF IInv

-----------------------------------------------------------------------------
(* The steps of an operation that holds startMu.                            *)

LEMMA Holding ==
  ASSUME IInv, NEW p \in Procs, calls[p].pc \notin SnapshotPcs \cup {"idle"}
  PROVE  /\ calls[p] \in Call /\ calls[p].id \in Ids /\ calls[p].row \in Row
         /\ Control(calls[p]) /\ CopiedRow(calls[p])
         /\ calls[p].op \in LockedOps /\ startMu = p /\ resume = {}
<1>1. /\ calls[p] \in Call /\ calls[p].id \in Ids /\ calls[p].row \in Row
      /\ Control(calls[p]) /\ CopiedRow(calls[p]) /\ calls[p].op # "none" /\ resume = {}
  BY Underway
<1>2. calls[p].op \in Ops /\ calls[p].op # "look"
  BY <1>1 DEF Call, Control
<1>3. calls[p].op \in LockedOps
  BY <1>1, <1>2 DEF Ops
<1> QED
  BY <1>1, <1>3 DEF IInv, Locking

LEMMA SetRowIInv ==
  ASSUME IInv, NEW p \in Procs, SetRow(p)
  PROVE  IInv'
<1> USE AcquireAssumption
<1> DEFINE c == calls[p]
<1>p. /\ c.pc \in {"restartRow", "createRow"}
      /\ rows' = [rows EXCEPT ![c.id] = c.row]
      /\ calls' = [calls EXCEPT ![p] = [c EXCEPT !.pc = "starting"]]
      /\ UNCHANGED <<store, tasks, open, disk, startMu, used, resume, crashes>>
  BY DEF SetRow, Goto
<1>0. /\ c \in Call /\ c.id \in Ids /\ c.row \in Row /\ Control(c) /\ CopiedRow(c)
      /\ c.op \in LockedOps /\ startMu = p /\ resume = {}
  BY <1>p, Holding DEF SnapshotPcs
<1>r. /\ rows' \in [Ids -> Row \cup {NoRow}]
      /\ rows'[c.id] = c.row /\ rows'[c.id] # NoRow /\ ~c.row.byUser
      /\ \A i \in Ids : i # c.id => rows'[i] = rows[i]
  BY <1>0, <1>p DEF IInv, TypeOK, CopiedRow
<1>1. /\ calls' \in [Procs -> Call]
      /\ \A q \in Procs : q # p => calls'[q] = calls[q]
      /\ startMu' \in Procs \cup {NoProc}
      /\ Control(calls[p])' /\ CopiedRow(calls[p])'
      /\ Locking'
      /\ calls'[p].pc # "createRow"
  <2>2. [c EXCEPT !.pc = "starting"] \in Call
    BY <1>0 DEF Call, Pcs
  <2>3. /\ calls' \in [Procs -> Call]
        /\ calls'[p].op = c.op /\ calls'[p].id = c.id /\ calls'[p].row = c.row /\ calls'[p].pc = "starting"
        /\ \A q \in Procs : q # p => calls'[q] = calls[q]
    BY <1>0, <1>p, <2>2 DEF IInv, TypeOK, Call, LockedOps
  <2>4. Control(calls[p])'
    BY <1>0, <1>p, <2>3 DEF Control, SnapshotPcs, RestartPcs, IdleCall
  <2>5. CopiedRow(calls[p])'
    BY <1>0, <1>p, <2>3, <1>r DEF CopiedRow, Control, SnapshotPcs
  <2>6. Locking'
    BY <1>0, <1>p, <2>3, GoesOn
  <2> QED
    BY <1>0, <1>p, <2>3, <2>4, <2>5, <2>6 DEF IInv, TypeOK
<1>2. TypeOK'
  BY <1>1, <1>p, <1>r DEF IInv, TypeOK
<1>4. ASSUME NEW q \in Procs, q # p PROVE (Control(calls[q]) /\ CopiedRow(calls[q]))'
  BY <1>0, <1>1, <1>4, OthersLook
<1>n. \A q \in Procs : calls'[q].pc # "createRow"
  <2>1. ASSUME NEW q \in Procs, q # p PROVE calls'[q].pc # "createRow"
    BY <1>0, <1>1, <2>1, Alone DEF SnapshotPcs
  <2> QED
    BY <1>1, <2>1 DEF IdleCall
<1>5. Recorded'
  <2>1. store[c.id] # NoRow /\ store[c.id].loc = c.row.loc
    BY <1>0, <1>p DEF IInv, Recorded, CopiedRow, Control, SnapshotPcs
  <2> QED
    BY <1>0, <1>p, <1>r, <1>n, <2>1 DEF IInv, Recorded
<1>6. RunningHasRow'
  BY <1>p, <1>r DEF IInv, RunningHasRow
<1>7. UserPauseHolds'
  BY <1>p, <1>r DEF IInv, UserPauseHolds, Known
<1> QED
  BY <1>1, <1>2, <1>4, <1>5, <1>6, <1>7 DEF IInv

LEMMA FailRowIInv ==
  ASSUME IInv, NEW p \in Procs, FailRow(p)
  PROVE  IInv'
<1> USE AcquireAssumption
<1> DEFINE c == calls[p]
<1>p. /\ c.pc = "failRow"
      /\ rows' = [rows EXCEPT ![c.id] = c.row]
      /\ calls' = [calls EXCEPT ![p] = [c EXCEPT !.pc = "failSave"]]
      /\ UNCHANGED <<store, tasks, open, disk, startMu, used, resume, crashes>>
  BY DEF FailRow, Goto
<1>0. /\ c \in Call /\ c.id \in Ids /\ c.row \in Row /\ Control(c) /\ CopiedRow(c)
      /\ c.op \in LockedOps /\ startMu = p /\ resume = {}
  BY <1>p, Holding DEF SnapshotPcs
<1>r. /\ rows' \in [Ids -> Row \cup {NoRow}]
      /\ rows'[c.id] = c.row /\ rows'[c.id] # NoRow /\ ~c.row.byUser
      /\ \A i \in Ids : i # c.id => rows'[i] = rows[i]
  BY <1>0, <1>p DEF IInv, TypeOK, CopiedRow
<1>1. /\ calls' \in [Procs -> Call]
      /\ \A q \in Procs : q # p => calls'[q] = calls[q]
      /\ startMu' \in Procs \cup {NoProc}
      /\ Control(calls[p])' /\ CopiedRow(calls[p])'
      /\ Locking'
      /\ calls'[p].pc # "createRow"
  <2>2. [c EXCEPT !.pc = "failSave"] \in Call
    BY <1>0 DEF Call, Pcs
  <2>3. /\ calls' \in [Procs -> Call]
        /\ calls'[p].op = c.op /\ calls'[p].id = c.id /\ calls'[p].row = c.row /\ calls'[p].pc = "failSave"
        /\ \A q \in Procs : q # p => calls'[q] = calls[q]
    BY <1>0, <1>p, <2>2 DEF IInv, TypeOK, Call, LockedOps
  <2>4. Control(calls[p])'
    BY <1>0, <1>p, <2>3 DEF Control, SnapshotPcs, RestartPcs, IdleCall
  <2>5. CopiedRow(calls[p])'
    BY <1>0, <1>p, <2>3, <1>r DEF CopiedRow, Control, SnapshotPcs
  <2>6. Locking'
    BY <1>0, <1>p, <2>3, GoesOn
  <2> QED
    BY <1>0, <1>p, <2>3, <2>4, <2>5, <2>6 DEF IInv, TypeOK
<1>2. TypeOK'
  BY <1>1, <1>p, <1>r DEF IInv, TypeOK
<1>4. ASSUME NEW q \in Procs, q # p PROVE (Control(calls[q]) /\ CopiedRow(calls[q]))'
  BY <1>0, <1>1, <1>4, OthersLook
<1>n. \A q \in Procs : calls'[q].pc # "createRow"
  <2>1. ASSUME NEW q \in Procs, q # p PROVE calls'[q].pc # "createRow"
    BY <1>0, <1>1, <2>1, Alone DEF SnapshotPcs
  <2> QED
    BY <1>1, <2>1 DEF IdleCall
<1>5. Recorded'
  <2>1. store[c.id] # NoRow /\ store[c.id].loc = c.row.loc
    BY <1>0, <1>p DEF IInv, Recorded, CopiedRow, Control, SnapshotPcs
  <2> QED
    BY <1>0, <1>p, <1>r, <1>n, <2>1 DEF IInv, Recorded
<1>6. RunningHasRow'
  BY <1>p, <1>r DEF IInv, RunningHasRow
<1>7. UserPauseHolds'
  BY <1>p, <1>r DEF IInv, UserPauseHolds, Known
<1> QED
  BY <1>1, <1>2, <1>4, <1>5, <1>6, <1>7 DEF IInv

LEMMA StartFailsIInv ==
  ASSUME IInv, NEW p \in Procs, StartFails(p)
  PROVE  IInv'
<1> USE AcquireAssumption
<1> DEFINE c == calls[p]
<1>p. /\ c.pc = "starting"
      /\ calls' = [calls EXCEPT ![p] = [c EXCEPT !.row = [c.row EXCEPT !.state = "failed"], !.pc = "failRow"]]
      /\ UNCHANGED <<rows, store, tasks, open, disk, startMu, used, resume, crashes>>
  BY DEF StartFails, Goto
<1>0. /\ c \in Call /\ c.id \in Ids /\ c.row \in Row /\ Control(c) /\ CopiedRow(c)
      /\ c.op \in LockedOps /\ startMu = p /\ resume = {}
  BY <1>p, Holding DEF SnapshotPcs
<1>r. [c.row EXCEPT !.state = "failed"] \in Row
  BY <1>0 DEF Row, States
<1>1. /\ calls' \in [Procs -> Call]
      /\ \A q \in Procs : q # p => calls'[q] = calls[q]
      /\ startMu' \in Procs \cup {NoProc}
      /\ Control(calls[p])' /\ CopiedRow(calls[p])'
      /\ Locking'
      /\ calls'[p].pc # "createRow"
  <2>2. [c EXCEPT !.row = [c.row EXCEPT !.state = "failed"], !.pc = "failRow"] \in Call
    BY <1>0, <1>r DEF Call, Pcs
  <2>3. /\ calls' \in [Procs -> Call]
        /\ calls'[p].op = c.op /\ calls'[p].id = c.id /\ calls'[p].pc = "failRow"
        /\ calls'[p].row = [c.row EXCEPT !.state = "failed"]
        /\ \A q \in Procs : q # p => calls'[q] = calls[q]
    BY <1>0, <1>p, <2>2 DEF IInv, TypeOK, Call, LockedOps
  <2>4. Control(calls[p])'
    BY <1>0, <1>p, <2>3, <1>r DEF Control, SnapshotPcs, RestartPcs, IdleCall
  <2>5. CopiedRow(calls[p])'
    BY <1>0, <1>p, <2>3 DEF CopiedRow, Control, SnapshotPcs, Row
  <2>6. Locking'
    BY <1>0, <1>p, <2>3, GoesOn
  <2> QED
    BY <1>0, <1>p, <2>3, <2>4, <2>5, <2>6 DEF IInv, TypeOK
<1>2. TypeOK'
  BY <1>1, <1>p DEF IInv, TypeOK
<1>4. ASSUME NEW q \in Procs, q # p PROVE (Control(calls[q]) /\ CopiedRow(calls[q]))'
  BY <1>0, <1>1, <1>4, OthersLook
<1>n. \A q \in Procs : calls'[q].pc # "createRow"
  <2>1. ASSUME NEW q \in Procs, q # p PROVE calls'[q].pc # "createRow"
    BY <1>0, <1>1, <2>1, Alone DEF SnapshotPcs
  <2> QED
    BY <1>1, <2>1 DEF IdleCall
<1>5. Recorded'
  BY <1>0, <1>p, <1>n DEF IInv, Recorded
<1>6. RunningHasRow'
  BY <1>p DEF IInv, RunningHasRow
<1>7. UserPauseHolds'
  BY <1>p DEF IInv, UserPauseHolds, Known
<1> QED
  BY <1>1, <1>2, <1>4, <1>5, <1>6, <1>7 DEF IInv

LEMMA RestartSaveIInv ==
  ASSUME IInv, NEW p \in Procs, RestartSave(p)
  PROVE  IInv'
<1> USE AcquireAssumption
<1> DEFINE c == calls[p]
           new == Restarted(c.row)
<1>p. /\ c.pc = "resave"
      /\ \/ /\ store' = [store EXCEPT ![c.id] = new]
            /\ calls' = [calls EXCEPT ![p] = [c EXCEPT !.row = new, !.pc = "restartRow"]]
            /\ UNCHANGED startMu
         \/ store' = store /\ Return(p)
      /\ UNCHANGED <<rows, tasks, open, disk, used, resume, crashes>>
  BY DEF RestartSave, Goto, Saved, SaveFailed
<1>0. /\ c \in Call /\ c.id \in Ids /\ c.row \in Row /\ Control(c) /\ CopiedRow(c)
      /\ c.op \in LockedOps /\ startMu = p /\ resume = {}
  BY <1>p, Holding DEF SnapshotPcs
<1>r. new \in Row /\ new.loc = c.row.loc /\ new.byUser = FALSE
  BY <1>0, RowFacts
<1>s. rows[c.id] # NoRow /\ rows[c.id].loc = c.row.loc
  BY <1>0, <1>p DEF CopiedRow, Control
<1>t. /\ store' \in [Ids -> Row \cup {NoRow}]
      /\ \A i \in Ids : store'[i] = store[i] \/ (i = c.id /\ store'[i] = new)
  BY <1>0, <1>p, <1>r DEF IInv, TypeOK
<1>1. /\ calls' \in [Procs -> Call]
      /\ \A q \in Procs : q # p => calls'[q] = calls[q]
      /\ startMu' \in Procs \cup {NoProc}
      /\ Control(calls[p])' /\ CopiedRow(calls[p])'
      /\ Locking'
      /\ calls'[p].pc # "createRow"
  <2>a. CASE calls' = [calls EXCEPT ![p] = [c EXCEPT !.row = new, !.pc = "restartRow"]] /\ UNCHANGED startMu
    <3>2. [c EXCEPT !.row = new, !.pc = "restartRow"] \in Call
      BY <1>0, <1>r DEF Call, Pcs
    <3>3. /\ calls' \in [Procs -> Call]
          /\ calls'[p].op = c.op /\ calls'[p].id = c.id /\ calls'[p].row = new /\ calls'[p].pc = "restartRow"
          /\ \A q \in Procs : q # p => calls'[q] = calls[q]
      BY <1>0, <2>a, <3>2 DEF IInv, TypeOK, Call, LockedOps
    <3>4. Control(calls[p])'
      BY <1>0, <1>p, <1>r, <3>3 DEF Control, SnapshotPcs, RestartPcs, IdleCall
    <3>5. CopiedRow(calls[p])'
      BY <1>0, <1>p, <1>r, <1>s, <3>3 DEF CopiedRow, Control, SnapshotPcs
    <3>6. Locking'
      BY <1>0, <1>p, <2>a, <3>3, GoesOn
    <3> QED
      BY <1>0, <2>a, <3>3, <3>4, <3>5, <3>6 DEF IInv, TypeOK
  <2>b. CASE Return(p)
    BY <1>p, <2>b, Returns DEF IdleCall
  <2> QED
    BY <1>p, <2>a, <2>b
<1>2. TypeOK'
  BY <1>1, <1>p, <1>t DEF IInv, TypeOK
<1>4. ASSUME NEW q \in Procs, q # p PROVE (Control(calls[q]) /\ CopiedRow(calls[q]))'
  BY <1>0, <1>1, <1>4, OthersLook
<1>n. \A q \in Procs : calls'[q].pc # "createRow"
  <2>1. ASSUME NEW q \in Procs, q # p PROVE calls'[q].pc # "createRow"
    BY <1>0, <1>1, <2>1, Alone DEF SnapshotPcs
  <2> QED
    BY <1>1, <2>1 DEF IdleCall
<1>5. Recorded'
  BY <1>0, <1>p, <1>n, <1>r, <1>s, <1>t DEF IInv, Recorded
<1>6. RunningHasRow'
  BY <1>p DEF IInv, RunningHasRow
<1>7. UserPauseHolds'
  BY <1>p, <1>r, <1>t DEF IInv, UserPauseHolds, Known
<1> QED
  BY <1>1, <1>2, <1>4, <1>5, <1>6, <1>7 DEF IInv

LEMMA CreateSaveIInv ==
  ASSUME IInv, NEW p \in Procs, CreateSave(p)
  PROVE  IInv'
<1> USE AcquireAssumption
<1> DEFINE c == calls[p]
<1>p. /\ c.pc = "create"
      /\ \/ /\ store' = [store EXCEPT ![c.id] = c.row]
            /\ calls' = [calls EXCEPT ![p] = [c EXCEPT !.pc = "createRow"]]
            /\ UNCHANGED startMu
         \/ store' = store /\ Return(p)
      /\ UNCHANGED <<rows, tasks, open, disk, used, resume, crashes>>
  BY DEF CreateSave, Goto, Saved, SaveFailed
<1>0. /\ c \in Call /\ c.id \in Ids /\ c.row \in Row /\ Control(c) /\ CopiedRow(c)
      /\ c.op \in LockedOps /\ startMu = p /\ resume = {}
  BY <1>p, Holding DEF SnapshotPcs
<1>r. rows[c.id] = NoRow /\ ~c.row.byUser
  BY <1>0, <1>p DEF CopiedRow
<1>t. /\ store' \in [Ids -> Row \cup {NoRow}]
      /\ \A i \in Ids : store'[i] = store[i] \/ (i = c.id /\ store'[i] = c.row)
  BY <1>0, <1>p DEF IInv, TypeOK
<1>1. /\ calls' \in [Procs -> Call]
      /\ \A q \in Procs : q # p => calls'[q] = calls[q]
      /\ startMu' \in Procs \cup {NoProc}
      /\ Control(calls[p])' /\ CopiedRow(calls[p])'
      /\ Locking'
      /\ calls'[p].pc = "createRow" =>
           calls'[p].id = c.id /\ calls'[p].row = c.row /\ store'[c.id] = c.row
  <2>a. CASE /\ store' = [store EXCEPT ![c.id] = c.row] /\ UNCHANGED startMu
             /\ calls' = [calls EXCEPT ![p] = [c EXCEPT !.pc = "createRow"]]
    <3>2. [c EXCEPT !.pc = "createRow"] \in Call
      BY <1>0 DEF Call, Pcs
    <3>3. /\ calls' \in [Procs -> Call]
          /\ calls'[p].op = c.op /\ calls'[p].id = c.id /\ calls'[p].row = c.row /\ calls'[p].pc = "createRow"
          /\ \A q \in Procs : q # p => calls'[q] = calls[q]
      BY <1>0, <2>a, <3>2 DEF IInv, TypeOK, Call, LockedOps
    <3>4. Control(calls[p])'
      BY <1>0, <1>p, <3>3 DEF Control, SnapshotPcs, RestartPcs, IdleCall
    <3>5. CopiedRow(calls[p])'
      BY <1>0, <1>p, <1>r, <3>3 DEF CopiedRow, Control, SnapshotPcs
    <3>6. Locking'
      BY <1>0, <1>p, <2>a, <3>3, GoesOn
    <3>7. store'[c.id] = c.row
      BY <1>0, <2>a DEF IInv, TypeOK
    <3> QED
      BY <1>0, <2>a, <3>3, <3>4, <3>5, <3>6, <3>7 DEF IInv, TypeOK
  <2>b. CASE Return(p)
    BY <1>p, <2>b, Returns DEF IdleCall
  <2> QED
    BY <1>p, <2>a, <2>b
<1>2. TypeOK'
  BY <1>1, <1>p, <1>t DEF IInv, TypeOK
<1>4. ASSUME NEW q \in Procs, q # p PROVE (Control(calls[q]) /\ CopiedRow(calls[q]))'
  BY <1>0, <1>1, <1>4, OthersLook
<1>5. Recorded'
  <2>1. /\ \A i \in Ids : rows'[i] # NoRow => store'[i] # NoRow /\ store'[i].loc = rows'[i].loc
        /\ \A i \in Ids : store'[i] # NoRow => i \in used'
    BY <1>0, <1>p, <1>r, <1>t DEF IInv, Recorded, CopiedRow
  <2>2. ASSUME NEW q \in Procs, calls'[q].pc = "createRow"
        PROVE  store'[calls'[q].id] # NoRow /\ store'[calls'[q].id].loc = calls'[q].row.loc
    <3>1. q = p
      BY <1>0, <1>1, <2>2, Alone DEF SnapshotPcs
    <3> QED
      BY <1>0, <1>1, <2>2, <3>1
  <2> QED
    BY <1>0, <1>p, <2>1, <2>2 DEF Recorded
<1>6. RunningHasRow'
  BY <1>p DEF IInv, RunningHasRow
<1>7. UserPauseHolds'
  BY <1>p, <1>r, <1>t DEF IInv, UserPauseHolds, Known
<1> QED
  BY <1>1, <1>2, <1>4, <1>5, <1>6, <1>7 DEF IInv

LEMMA PauseIInv ==
  ASSUME IInv, NEW p \in Procs, Pause(p)
  PROVE  IInv'
<1> USE AcquireAssumption
<1> DEFINE c == calls[p]
           paused == [rows[c.id] EXCEPT !.state = "paused", !.byUser = TRUE]
<1>p. /\ c.pc = "pausing"
      /\ \/ store' = [store EXCEPT ![c.id] = paused] /\ rows' = [rows EXCEPT ![c.id] = paused]
         \/ store' = store /\ rows' = rows
      /\ Return(p)
      /\ UNCHANGED <<tasks, open, disk, used, resume, crashes>>
  BY DEF Pause, At, Saved, SaveFailed
<1>0. /\ c \in Call /\ c.id \in Ids /\ c.row \in Row /\ Control(c) /\ CopiedRow(c)
      /\ c.op \in LockedOps /\ startMu = p /\ resume = {}
  BY <1>p, Holding DEF SnapshotPcs
<1>r. c.op = "pause" /\ rows[c.id] \in Row /\ rows[c.id] # NoRow /\ tasks[c.id] = NoTask
  <2>1. c.op = "pause"
    BY <1>0, <1>p DEF Control, LockedOps, SnapshotPcs, RestartPcs
  <2> QED
    BY <1>0, <1>p, <2>1 DEF CopiedRow, LockedOps, IInv, TypeOK
<1>s. paused \in Row /\ paused.loc = rows[c.id].loc /\ paused.byUser = TRUE /\ paused.state = "paused"
  BY <1>r DEF Row, States
<1>t. /\ rows' \in [Ids -> Row \cup {NoRow}] /\ store' \in [Ids -> Row \cup {NoRow}]
      /\ \A i \in Ids : \/ rows'[i] = rows[i] /\ store'[i] = store[i]
                        \/ i = c.id /\ rows'[i] = paused /\ store'[i] = paused
  BY <1>0, <1>p, <1>s DEF IInv, TypeOK
<1>1. /\ calls' \in [Procs -> Call]
      /\ \A q \in Procs : q # p => calls'[q] = calls[q]
      /\ startMu' \in Procs \cup {NoProc}
      /\ Control(calls[p])' /\ CopiedRow(calls[p])'
      /\ Locking'
      /\ calls'[p].pc # "createRow"
  BY <1>p, Returns DEF IdleCall
<1>2. TypeOK'
  BY <1>1, <1>p, <1>t DEF IInv, TypeOK
<1>4. ASSUME NEW q \in Procs, q # p PROVE (Control(calls[q]) /\ CopiedRow(calls[q]))'
  BY <1>0, <1>1, <1>4, OthersLook
<1>n. \A q \in Procs : calls'[q].pc # "createRow"
  <2>1. ASSUME NEW q \in Procs, q # p PROVE calls'[q].pc # "createRow"
    BY <1>0, <1>1, <2>1, Alone DEF SnapshotPcs
  <2> QED
    BY <1>1, <2>1 DEF IdleCall
<1>5. Recorded'
  BY <1>0, <1>p, <1>n, <1>r, <1>s, <1>t DEF IInv, Recorded
<1>6. RunningHasRow'
  BY <1>p, <1>r, <1>t DEF IInv, RunningHasRow
<1>7. UserPauseHolds'
  <2> HIDE DEF paused
  <2>1. ASSUME NEW i \in Ids
        PROVE  /\ rows'[i] # NoRow /\ rows'[i].byUser => rows'[i].state = "paused" /\ tasks'[i] = NoTask
               /\ store'[i] # NoRow /\ store'[i].byUser => store'[i].state = "paused"
    <3>1. CASE rows'[i] = rows[i] /\ store'[i] = store[i]
      BY <1>p, <3>1 DEF IInv, UserPauseHolds, Known
    <3>2. CASE i = c.id /\ rows'[i] = paused /\ store'[i] = paused
      BY <1>p, <1>r, <1>s, <3>2
    <3> QED
      BY <1>t, <3>1, <3>2
  <2> QED
    BY <2>1 DEF UserPauseHolds, Known
<1> QED
  BY <1>1, <1>2, <1>4, <1>5, <1>6, <1>7 DEF IInv

LEMMA FailSaveIInv ==
  ASSUME IInv, NEW p \in Procs, FailSave(p)
  PROVE  IInv'
<1> USE AcquireAssumption
<1> DEFINE c == calls[p]
<1>p. /\ c.pc = "failSave"
      /\ store' = [store EXCEPT ![c.id] = c.row] \/ store' = store
      /\ Return(p)
      /\ UNCHANGED <<rows, tasks, open, disk, used, resume, crashes>>
  BY DEF FailSave, At, SaveDownload, Saved, SaveFailed
<1>0. /\ c \in Call /\ c.id \in Ids /\ c.row \in Row /\ Control(c) /\ CopiedRow(c)
      /\ c.op \in LockedOps /\ startMu = p /\ resume = {}
  BY <1>p, Holding DEF SnapshotPcs
<1>r. rows[c.id] # NoRow /\ rows[c.id].loc = c.row.loc /\ ~c.row.byUser
  BY <1>0, <1>p DEF CopiedRow, Control
<1>t. /\ store' \in [Ids -> Row \cup {NoRow}]
      /\ \A i \in Ids : store'[i] = store[i] \/ (i = c.id /\ store'[i] = c.row)
  BY <1>0, <1>p DEF IInv, TypeOK
<1>1. /\ calls' \in [Procs -> Call]
      /\ \A q \in Procs : q # p => calls'[q] = calls[q]
      /\ startMu' \in Procs \cup {NoProc}
      /\ Control(calls[p])' /\ CopiedRow(calls[p])'
      /\ Locking'
      /\ calls'[p].pc # "createRow"
  BY <1>p, Returns DEF IdleCall
<1>2. TypeOK'
  BY <1>1, <1>p, <1>t DEF IInv, TypeOK
<1>4. ASSUME NEW q \in Procs, q # p PROVE (Control(calls[q]) /\ CopiedRow(calls[q]))'
  BY <1>0, <1>1, <1>4, OthersLook
<1>n. \A q \in Procs : calls'[q].pc # "createRow"
  <2>1. ASSUME NEW q \in Procs, q # p PROVE calls'[q].pc # "createRow"
    BY <1>0, <1>1, <2>1, Alone DEF SnapshotPcs
  <2> QED
    BY <1>1, <2>1 DEF IdleCall
<1>5. Recorded'
  BY <1>0, <1>p, <1>n, <1>r, <1>t DEF IInv, Recorded
<1>6. RunningHasRow'
  BY <1>p DEF IInv, RunningHasRow
<1>7. UserPauseHolds'
  BY <1>p, <1>r, <1>t DEF IInv, UserPauseHolds, Known
<1> QED
  BY <1>1, <1>2, <1>4, <1>5, <1>6, <1>7 DEF IInv

LEMMA DeleteDownloadIInv ==
  ASSUME IInv, NEW p \in Procs, DeleteDownload(p)
  PROVE  IInv'
<1> USE AcquireAssumption
<1> DEFINE c == calls[p]
<1>p. /\ c.pc = "delete"
      /\ store' = [store EXCEPT ![c.id] = NoRow] \/ store' = store
      /\ disk' \in {disk, [disk EXCEPT ![c.id] = "unknown"]}
      /\ Return(p)
      /\ UNCHANGED <<rows, tasks, open, used, resume, crashes>>
  BY DEF DeleteDownload
<1>0. /\ c \in Call /\ c.id \in Ids /\ c.row \in Row /\ Control(c) /\ CopiedRow(c)
      /\ c.op \in LockedOps /\ startMu = p /\ resume = {}
  BY <1>p, Holding DEF SnapshotPcs
<1>r. rows[c.id] = NoRow
  BY <1>0, <1>p DEF CopiedRow, Control, LockedOps, SnapshotPcs, RestartPcs
<1>t. /\ store' \in [Ids -> Row \cup {NoRow}]
      /\ \A i \in Ids : store'[i] = store[i] \/ (i = c.id /\ store'[i] = NoRow)
      /\ disk' \in [Places -> {"unknown", "part", "whole"}]
  BY <1>0, <1>p DEF IInv, TypeOK
<1>1. /\ calls' \in [Procs -> Call]
      /\ \A q \in Procs : q # p => calls'[q] = calls[q]
      /\ startMu' \in Procs \cup {NoProc}
      /\ Control(calls[p])' /\ CopiedRow(calls[p])'
      /\ Locking'
      /\ calls'[p].pc # "createRow"
  BY <1>p, Returns DEF IdleCall
<1>2. TypeOK'
  BY <1>1, <1>p, <1>t DEF IInv, TypeOK
<1>4. ASSUME NEW q \in Procs, q # p PROVE (Control(calls[q]) /\ CopiedRow(calls[q]))'
  BY <1>0, <1>1, <1>4, OthersLook
<1>n. \A q \in Procs : calls'[q].pc # "createRow"
  <2>1. ASSUME NEW q \in Procs, q # p PROVE calls'[q].pc # "createRow"
    BY <1>0, <1>1, <2>1, Alone DEF SnapshotPcs
  <2> QED
    BY <1>1, <2>1 DEF IdleCall
<1>5. Recorded'
  BY <1>0, <1>p, <1>n, <1>r, <1>t DEF IInv, Recorded
<1>6. RunningHasRow'
  BY <1>p DEF IInv, RunningHasRow
<1>7. UserPauseHolds'
  BY <1>p, <1>t DEF IInv, UserPauseHolds, Known
<1> QED
  BY <1>1, <1>2, <1>4, <1>5, <1>6, <1>7 DEF IInv

LEMMA DecideIInv ==
  ASSUME IInv, NEW p \in Procs, Decide(p)
  PROVE  IInv'
<1> USE AcquireAssumption
<1> DEFINE c == calls[p]
           next == IF tasks[c.id] = NoTask THEN AfterStop(c) ELSE "close"
           stopped == [c EXCEPT !.task = tasks[c.id], !.stalled = FALSE, !.pc = next]
           onward == [c EXCEPT !.pc = RestartPc(c.row), !.stalled = FALSE]
<1>p. /\ c.pc = "snapped"
      /\ UNCHANGED <<rows, store, open, disk, used, resume, crashes>>
  BY DEF Decide
<1>a. \/ Return(p) /\ tasks' = tasks
      \/ /\ ~Settles(c) /\ Stops(c) /\ UNCHANGED startMu
         /\ tasks' = [tasks EXCEPT ![c.id] = NoTask]
         /\ calls' = [calls EXCEPT ![p] = stopped]
      \/ /\ ~Settles(c) /\ ~Stops(c) /\ UNCHANGED <<tasks, startMu>>
         /\ calls' = [calls EXCEPT ![p] = onward]
  BY DEF Decide, StopTask, Goto
<1>0. /\ c \in Call /\ c.id \in Ids /\ c.row \in Row /\ Control(c) /\ CopiedRow(c)
      /\ c.op \in LockedOps /\ startMu = p /\ resume = {}
  BY <1>p, Holding DEF SnapshotPcs
<1>b. c.op \in {"start", "open", "unpause", "recover", "pause", "share"}
  BY <1>0, <1>p DEF Control, LockedOps, SnapshotPcs
<1>c. RestartPc(c.row) \in {"starting", "resave"} /\ (RestartPc(c.row) = "starting" => ~c.row.byUser)
  BY <1>0, RowFacts
<1>t. /\ tasks' \in [Ids -> Tasks \cup {FileTask, NoTask}]
      /\ \A i \in Ids : tasks'[i] \in {tasks[i], NoTask}
  BY <1>0, <1>a DEF IInv, TypeOK
<1>1. /\ calls' \in [Procs -> Call]
      /\ \A q \in Procs : q # p => calls'[q] = calls[q]
      /\ startMu' \in Procs \cup {NoProc}
      /\ Control(calls[p])' /\ CopiedRow(calls[p])'
      /\ Locking'
      /\ calls'[p].pc # "createRow"
  <2>a. CASE Return(p)
    BY <1>p, <2>a, Returns DEF IdleCall
  <2>b. CASE /\ ~Settles(c) /\ Stops(c) /\ UNCHANGED startMu
             /\ tasks' = [tasks EXCEPT ![c.id] = NoTask] /\ calls' = [calls EXCEPT ![p] = stopped]
    <3>1. /\ c.op = "pause" => next \in {"pausing", "close"}
          /\ c.op = "share" => next = "close"
          /\ c.op \in {"start", "open", "recover"} => next \in {"close", "starting", "resave"}
          /\ c.op # "unpause"
          /\ next = "starting" => ~c.row.byUser
      BY <1>b, <1>c, <2>b DEF Settles, Stops, AfterStop
    <3> HIDE DEF next
    <3>2. tasks[c.id] \in Tasks \cup {FileTask, NoTask}
      BY <1>0 DEF IInv, TypeOK
    <3>3. stopped \in Call
      BY <1>0, <1>b, <3>1, <3>2 DEF Call, Pcs
    <3>4. /\ calls' \in [Procs -> Call]
          /\ calls'[p].op = c.op /\ calls'[p].id = c.id /\ calls'[p].row = c.row /\ calls'[p].pc = next
          /\ \A q \in Procs : q # p => calls'[q] = calls[q]
      BY <1>0, <2>b, <3>3 DEF IInv, TypeOK, Call
    <3>5. Control(calls[p])'
      BY <1>0, <1>b, <3>1, <3>4 DEF Control, SnapshotPcs, RestartPcs
    <3>6. tasks'[c.id] = NoTask
      BY <1>0, <2>b DEF IInv, TypeOK
    <3>7. CopiedRow(calls[p])'
      BY <1>0, <1>b, <1>p, <3>1, <3>4, <3>6 DEF CopiedRow
    <3>8. Locking'
      BY <1>0, <1>p, <2>b, <3>4, GoesOn
    <3> QED
      BY <1>0, <1>b, <2>b, <3>1, <3>4, <3>5, <3>7, <3>8 DEF IInv, TypeOK
  <2>c. CASE /\ ~Settles(c) /\ ~Stops(c) /\ UNCHANGED <<tasks, startMu>>
             /\ calls' = [calls EXCEPT ![p] = onward]
    <3>1. c.op \in {"start", "open", "unpause"}
      BY <1>b, <2>c DEF Stops
    <3>3. onward \in Call
      BY <1>0, <1>c DEF Call, Pcs
    <3>4. /\ calls' \in [Procs -> Call]
          /\ calls'[p].op = c.op /\ calls'[p].id = c.id /\ calls'[p].row = c.row
          /\ calls'[p].pc = RestartPc(c.row)
          /\ \A q \in Procs : q # p => calls'[q] = calls[q]
      BY <1>0, <2>c, <3>3 DEF IInv, TypeOK, Call
    <3>5. Control(calls[p])'
      BY <1>0, <1>c, <3>1, <3>4 DEF Control, SnapshotPcs, RestartPcs
    <3>7. CopiedRow(calls[p])'
      BY <1>0, <1>c, <1>p, <2>c, <3>1, <3>4 DEF CopiedRow
    <3>8. Locking'
      BY <1>0, <1>p, <2>c, <3>4, GoesOn
    <3> QED
      BY <1>0, <1>c, <2>c, <3>4, <3>5, <3>7, <3>8 DEF IInv, TypeOK
  <2> QED
    BY <1>a, <2>a, <2>b, <2>c
<1>2. TypeOK'
  BY <1>1, <1>p, <1>t DEF IInv, TypeOK
<1>4. ASSUME NEW q \in Procs, q # p PROVE (Control(calls[q]) /\ CopiedRow(calls[q]))'
  BY <1>0, <1>1, <1>4, OthersLook
<1>n. \A q \in Procs : calls'[q].pc # "createRow"
  <2>1. ASSUME NEW q \in Procs, q # p PROVE calls'[q].pc # "createRow"
    BY <1>0, <1>1, <2>1, Alone DEF SnapshotPcs
  <2> QED
    BY <1>1, <2>1 DEF IdleCall
<1>5. Recorded'
  BY <1>0, <1>p, <1>n DEF IInv, Recorded
<1>6. RunningHasRow'
  BY <1>p, <1>t DEF IInv, RunningHasRow
<1>7. UserPauseHolds'
  BY <1>p, <1>t DEF IInv, UserPauseHolds, Known
<1> QED
  BY <1>1, <1>2, <1>4, <1>5, <1>6, <1>7 DEF IInv

LEMMA CloseTaskIInv ==
  ASSUME IInv, NEW p \in Procs, CloseTask(p)
  PROVE  IInv'
<1> USE AcquireAssumption
<1> DEFINE c == calls[p]
           closed == [c EXCEPT !.task = NoTask, !.pc = AfterStop(c)]
<1>p. /\ c.pc = "close"
      /\ open' = [t \in Tasks |-> IF t = c.task THEN NoId ELSE open[t]]
      /\ UNCHANGED <<rows, store, tasks, disk, used, resume, crashes>>
  BY DEF CloseTask
<1>a. \/ Return(p)
      \/ c.op # "share" /\ UNCHANGED startMu /\ calls' = [calls EXCEPT ![p] = closed]
  BY DEF CloseTask, Goto
<1>0. /\ c \in Call /\ c.id \in Ids /\ c.row \in Row /\ Control(c) /\ CopiedRow(c)
      /\ c.op \in LockedOps /\ startMu = p /\ resume = {}
  BY <1>p, Holding DEF SnapshotPcs
<1>c. RestartPc(c.row) \in {"starting", "resave"} /\ (RestartPc(c.row) = "starting" => ~c.row.byUser)
  BY <1>0, RowFacts
<1>t. open' \in [Tasks -> Ids \cup {NoId}]
  BY <1>p DEF IInv, TypeOK
<1>1. /\ calls' \in [Procs -> Call]
      /\ \A q \in Procs : q # p => calls'[q] = calls[q]
      /\ startMu' \in Procs \cup {NoProc}
      /\ Control(calls[p])' /\ CopiedRow(calls[p])'
      /\ Locking'
      /\ calls'[p].pc # "createRow"
  <2>a. CASE Return(p)
    BY <1>p, <2>a, Returns DEF IdleCall
  <2>b. CASE c.op # "share" /\ UNCHANGED startMu /\ calls' = [calls EXCEPT ![p] = closed]
    <3>0. c.op \in {"pause", "remove", "start", "open", "unpause", "recover"}
      BY <1>0, <1>p, <2>b DEF Control, LockedOps, SnapshotPcs
    <3>1. /\ c.op = "pause" => AfterStop(c) = "pausing"
          /\ c.op = "remove" => AfterStop(c) = "delete"
          /\ c.op \in {"start", "open", "unpause", "recover"} =>
               AfterStop(c) \in {"starting", "resave"}
          /\ AfterStop(c) = "starting" => ~c.row.byUser
      BY <1>c, <3>0 DEF AfterStop
    <3>3. closed \in Call
      BY <1>0, <3>0, <3>1 DEF Call, Pcs
    <3>4. /\ calls' \in [Procs -> Call]
          /\ calls'[p].op = c.op /\ calls'[p].id = c.id /\ calls'[p].row = c.row
          /\ calls'[p].pc = AfterStop(c)
          /\ \A q \in Procs : q # p => calls'[q] = calls[q]
      BY <1>0, <2>b, <3>3 DEF IInv, TypeOK, Call
    <3>5. Control(calls[p])'
      BY <1>0, <3>0, <3>1, <3>4 DEF Control, SnapshotPcs, RestartPcs
    <3>7. CopiedRow(calls[p])'
      BY <1>0, <1>p, <3>0, <3>1, <3>4 DEF CopiedRow
    <3>8. Locking'
      BY <1>0, <1>p, <2>b, <3>4, GoesOn
    <3> QED
      BY <1>0, <2>b, <3>0, <3>1, <3>4, <3>5, <3>7, <3>8 DEF IInv, TypeOK
  <2> QED
    BY <1>a, <2>a, <2>b
<1>2. TypeOK'
  BY <1>1, <1>p, <1>t DEF IInv, TypeOK
<1>4. ASSUME NEW q \in Procs, q # p PROVE (Control(calls[q]) /\ CopiedRow(calls[q]))'
  BY <1>0, <1>1, <1>4, OthersLook
<1>n. \A q \in Procs : calls'[q].pc # "createRow"
  <2>1. ASSUME NEW q \in Procs, q # p PROVE calls'[q].pc # "createRow"
    BY <1>0, <1>1, <2>1, Alone DEF SnapshotPcs
  <2> QED
    BY <1>1, <2>1 DEF IdleCall
<1>5. Recorded'
  BY <1>0, <1>p, <1>n DEF IInv, Recorded
<1>6. RunningHasRow'
  BY <1>p DEF IInv, RunningHasRow
<1>7. UserPauseHolds'
  BY <1>p DEF IInv, UserPauseHolds, Known
<1> QED
  BY <1>1, <1>2, <1>4, <1>5, <1>6, <1>7 DEF IInv

\* A backend that starts sets one task, and touches no other download's.
LEMMA BackendStartFacts ==
  ASSUME IInv, NEW id \in Ids, NEW row \in Row, BackendStart(id, row)
  PROVE  /\ tasks' \in [Ids -> Tasks \cup {FileTask, NoTask}]
         /\ open' \in [Tasks -> Ids \cup {NoId}]
         /\ \A i \in Ids : i # id => tasks'[i] = tasks[i]
<1>1. CASE IsFile(row)
  BY <1>1 DEF BackendStart, IInv, TypeOK
<1>2. CASE ~IsFile(row)
  <2>1. PICK t \in Tasks : tasks' = [tasks EXCEPT ![id] = t] /\ open' = [open EXCEPT ![t] = id]
    BY <1>2 DEF BackendStart, FreeTasks
  <2> QED
    BY <2>1 DEF IInv, TypeOK
<1> QED
  BY <1>1, <1>2

LEMMA StartTaskIInv ==
  ASSUME IInv, NEW p \in Procs, StartTask(p)
  PROVE  IInv'
<1> USE AcquireAssumption
<1> DEFINE c == calls[p]
           again == [IdleCall EXCEPT !.op = "answer", !.pc = "copied", !.id = c.id,
                                     !.row = IF c.op = "create" THEN c.row ELSE rows[c.id]]
<1>p. /\ c.pc = "starting" /\ BackendStart(c.id, c.row)
      /\ UNCHANGED <<rows, store, disk, used, resume, crashes>>
  BY DEF StartTask
<1>a. \/ Return(p)
      \/ UNCHANGED startMu /\ calls' = [calls EXCEPT ![p] = again]
  BY DEF StartTask, Goto
<1>0. /\ c \in Call /\ c.id \in Ids /\ c.row \in Row /\ Control(c) /\ CopiedRow(c)
      /\ c.op \in LockedOps /\ startMu = p /\ resume = {}
  BY <1>p, Holding DEF SnapshotPcs
<1>b. /\ rows[c.id] # NoRow /\ rows[c.id] \in Row /\ rows[c.id].loc = c.row.loc
      /\ ~rows[c.id].byUser /\ ~c.row.byUser
  BY <1>0, <1>p DEF CopiedRow, Control, IInv, TypeOK
<1>t. /\ tasks' \in [Ids -> Tasks \cup {FileTask, NoTask}]
      /\ open' \in [Tasks -> Ids \cup {NoId}]
      /\ \A i \in Ids : i # c.id => tasks'[i] = tasks[i]
  BY <1>0, <1>p, BackendStartFacts
<1>1. /\ calls' \in [Procs -> Call]
      /\ \A q \in Procs : q # p => calls'[q] = calls[q]
      /\ startMu' \in Procs \cup {NoProc}
      /\ Control(calls[p])' /\ CopiedRow(calls[p])'
      /\ Locking'
      /\ calls'[p].pc # "createRow"
  <2>a. CASE Return(p)
    BY <1>p, <2>a, Returns DEF IdleCall
  <2>b. CASE UNCHANGED startMu /\ calls' = [calls EXCEPT ![p] = again]
    <3>3. again \in Call
      BY <1>0, <1>b DEF Call, Pcs, Ops, LockedOps, IdleCall
    <3>4. /\ calls' \in [Procs -> Call]
          /\ calls'[p].op = "answer" /\ calls'[p].id = c.id /\ calls'[p].pc = "copied"
          /\ calls'[p].row \in {c.row, rows[c.id]}
          /\ \A q \in Procs : q # p => calls'[q] = calls[q]
      BY <1>0, <2>b, <3>3 DEF IInv, TypeOK, IdleCall
    <3>5. Control(calls[p])'
      BY <1>0, <1>b, <3>4 DEF Control, SnapshotPcs
    <3>7. CopiedRow(calls[p])'
      BY <1>0, <1>p, <1>b, <3>4 DEF CopiedRow
    <3>8. Locking'
      BY <1>0, <1>p, <2>b, <3>4, GoesOn DEF LockedOps
    <3> QED
      BY <1>0, <2>b, <3>4, <3>5, <3>7, <3>8 DEF IInv, TypeOK
  <2> QED
    BY <1>a, <2>a, <2>b
<1>2. TypeOK'
  BY <1>1, <1>p, <1>t DEF IInv, TypeOK
<1>4. ASSUME NEW q \in Procs, q # p PROVE (Control(calls[q]) /\ CopiedRow(calls[q]))'
  BY <1>0, <1>1, <1>4, OthersLook
<1>n. \A q \in Procs : calls'[q].pc # "createRow"
  <2>1. ASSUME NEW q \in Procs, q # p PROVE calls'[q].pc # "createRow"
    BY <1>0, <1>1, <2>1, Alone DEF SnapshotPcs
  <2> QED
    BY <1>1, <2>1 DEF IdleCall
<1>5. Recorded'
  BY <1>0, <1>p, <1>n DEF IInv, Recorded
<1>6. RunningHasRow'
  BY <1>p, <1>b, <1>t DEF IInv, RunningHasRow
<1>7. UserPauseHolds'
  BY <1>p, <1>b, <1>t DEF IInv, UserPauseHolds, Known
<1> QED
  BY <1>1, <1>2, <1>4, <1>5, <1>6, <1>7 DEF IInv

-----------------------------------------------------------------------------
(* The beginnings of the operations.                                        *)

\* Nobody holds startMu: the operations under way only look.
LEMMA NoneHolds ==
  ASSUME IInv, startMu = NoProc, NEW q \in Procs
  PROVE  /\ calls[q].op \in {"look", "none"}
         /\ calls[q].pc \in SnapshotPcs \cup {"idle"}
<1>1. calls[q].op \in Ops /\ Control(calls[q]) /\ calls[q].op \notin LockedOps
  BY AcquireAssumption DEF IInv, TypeOK, Call, Locking
<1> QED
  BY <1>1 DEF Ops, Control, IdleCall

LEMMA NoneHoldsKeep ==
  ASSUME IInv, startMu = NoProc, NEW q \in Procs, calls'[q] = calls[q]
  PROVE  Control(calls[q])' /\ CopiedRow(calls[q])'
<1>1. calls[q].op \in {"look", "none"} /\ calls[q].pc \in SnapshotPcs \cup {"idle"}
  BY NoneHolds
<1>2. Control(calls[q])'
  BY DEF IInv, Control
<1>3. CopiedRow(calls[q])'
  BY <1>1 DEF CopiedRow, LockedOps, SnapshotPcs
<1> QED
  BY <1>2, <1>3

\* An operation that begins by taking startMu.
LEMMA Locks ==
  ASSUME IInv, NEW p \in Procs, startMu = NoProc, startMu' = p, resume' = {},
         calls'[p].op \in LockedOps,
         \A q \in Procs : q # p => calls'[q] = calls[q]
  PROVE  Locking'
<1>1. \A q \in Procs : calls[q].op \notin LockedOps
  BY AcquireAssumption DEF IInv, Locking
<1> QED
  BY <1>1 DEF Locking

LEMMA BeginLookIInv ==
  ASSUME IInv, NEW p \in Procs, NEW id \in Ids, BeginLook(p, id)
  PROVE  IInv'
<1> USE AcquireAssumption
<1> DEFINE new == [IdleCall EXCEPT !.op = "look", !.pc = "copied", !.id = id, !.row = rows[id]]
<1>p. /\ resume = {} /\ calls[p].pc = "idle" /\ rows[id] # NoRow
      /\ calls' = [calls EXCEPT ![p] = new]
      /\ UNCHANGED <<rows, store, tasks, open, disk, startMu, used, resume, crashes>>
  BY DEF BeginLook, At, Goto
<1>0. calls[p].op = "none" /\ rows[id] \in Row
  BY <1>p DEF IInv, TypeOK, Control
<1>1. /\ calls' \in [Procs -> Call]
      /\ calls'[p].op = "look" /\ calls'[p].id = id /\ calls'[p].row = rows[id] /\ calls'[p].pc = "copied"
      /\ \A q \in Procs : q # p => calls'[q] = calls[q]
  <2>1. new \in Call
    BY <1>0 DEF Call, Pcs, Ops, IdleCall
  <2> QED
    BY <1>p, <2>1 DEF IInv, TypeOK, IdleCall
<1>2. TypeOK'
  BY <1>1, <1>p DEF IInv, TypeOK
<1>3. (Control(calls[p]) /\ CopiedRow(calls[p]))'
  BY <1>0, <1>1 DEF Control, CopiedRow, SnapshotPcs, LockedOps
<1>4. ASSUME NEW q \in Procs, q # p PROVE (Control(calls[q]) /\ CopiedRow(calls[q]))'
  BY <1>1, <1>p, <1>4, OthersKeep
<1>5. Locking'
  BY <1>0, <1>1, <1>p DEF IInv, Locking, LockedOps
<1>6. Recorded' /\ RunningHasRow' /\ UserPauseHolds'
  BY <1>0, <1>1, <1>p DEF IInv, Recorded, RunningHasRow, UserPauseHolds, Known
<1> QED
  BY <1>1, <1>2, <1>3, <1>4, <1>5, <1>6 DEF IInv

LEMMA BeginLockedIInv ==
  ASSUME IInv, NEW p \in Procs, NEW id \in Ids,
         NEW op \in {"pause", "unpause", "share", "recover"}, BeginLocked(p, op, id)
  PROVE  IInv'
<1> USE AcquireAssumption
<1> DEFINE new == [IdleCall EXCEPT !.op = op, !.pc = "copied", !.id = id, !.row = rows[id]]
<1>p. /\ resume = {} /\ calls[p].pc = "idle" /\ startMu = NoProc /\ rows[id] # NoRow
      /\ startMu' = p /\ calls' = [calls EXCEPT ![p] = new]
      /\ UNCHANGED <<rows, store, tasks, open, disk, used, resume, crashes>>
  BY DEF BeginLocked, At, Goto
<1>0. rows[id] \in Row
  BY <1>p DEF IInv, TypeOK
<1>1. /\ calls' \in [Procs -> Call]
      /\ calls'[p].op = op /\ calls'[p].id = id /\ calls'[p].row = rows[id] /\ calls'[p].pc = "copied"
      /\ \A q \in Procs : q # p => calls'[q] = calls[q]
  <2>1. new \in Call
    BY <1>0 DEF Call, Pcs, Ops, LockedOps, IdleCall
  <2> QED
    BY <1>p, <2>1 DEF IInv, TypeOK, IdleCall
<1>2. TypeOK'
  BY <1>1, <1>p DEF IInv, TypeOK
<1>3. (Control(calls[p]) /\ CopiedRow(calls[p]))'
  BY <1>0, <1>1, <1>p DEF Control, CopiedRow, SnapshotPcs, LockedOps
<1>4. ASSUME NEW q \in Procs, q # p PROVE (Control(calls[q]) /\ CopiedRow(calls[q]))'
  BY <1>p, <1>1, <1>4, NoneHoldsKeep
<1>5. Locking'
  BY <1>1, <1>p, Locks DEF LockedOps
<1>n. \A q \in Procs : calls'[q].pc # "createRow"
  BY <1>1, <1>p, NoneHolds DEF SnapshotPcs
<1>6. Recorded' /\ RunningHasRow' /\ UserPauseHolds'
  BY <1>n, <1>p DEF IInv, Recorded, RunningHasRow, UserPauseHolds, Known
<1> QED
  BY <1>1, <1>2, <1>3, <1>4, <1>5, <1>6 DEF IInv

LEMMA BeginKnownIInv ==
  ASSUME IInv, NEW p \in Procs, NEW loc \in Locs,
         NEW op \in {"start", "open"}, BeginKnown(p, op, loc)
  PROVE  IInv'
<1> USE AcquireAssumption
<1>i. PICK id \in Ids :
        /\ rows[id] # NoRow /\ rows[id].loc = loc /\ startMu' = p
        /\ calls' = [calls EXCEPT ![p] =
             [IdleCall EXCEPT !.op = op, !.pc = "copied", !.id = id, !.row = rows[id]]]
  BY DEF BeginKnown, Goto
<1> DEFINE new == [IdleCall EXCEPT !.op = op, !.pc = "copied", !.id = id, !.row = rows[id]]
<1>p. /\ resume = {} /\ calls[p].pc = "idle" /\ startMu = NoProc /\ rows[id] # NoRow
      /\ startMu' = p /\ calls' = [calls EXCEPT ![p] = new]
      /\ UNCHANGED <<rows, store, tasks, open, disk, used, resume, crashes>>
  BY <1>i DEF BeginKnown, At, Goto
<1>0. rows[id] \in Row
  BY <1>p DEF IInv, TypeOK
<1>1. /\ calls' \in [Procs -> Call]
      /\ calls'[p].op = op /\ calls'[p].id = id /\ calls'[p].row = rows[id] /\ calls'[p].pc = "copied"
      /\ \A q \in Procs : q # p => calls'[q] = calls[q]
  <2>1. new \in Call
    BY <1>0 DEF Call, Pcs, Ops, LockedOps, IdleCall
  <2> QED
    BY <1>p, <2>1 DEF IInv, TypeOK, IdleCall
<1>2. TypeOK'
  BY <1>1, <1>p DEF IInv, TypeOK
<1>3. (Control(calls[p]) /\ CopiedRow(calls[p]))'
  BY <1>0, <1>1, <1>p DEF Control, CopiedRow, SnapshotPcs, LockedOps
<1>4. ASSUME NEW q \in Procs, q # p PROVE (Control(calls[q]) /\ CopiedRow(calls[q]))'
  BY <1>p, <1>1, <1>4, NoneHoldsKeep
<1>5. Locking'
  BY <1>1, <1>p, Locks DEF LockedOps
<1>n. \A q \in Procs : calls'[q].pc # "createRow"
  BY <1>1, <1>p, NoneHolds DEF SnapshotPcs
<1>6. Recorded' /\ RunningHasRow' /\ UserPauseHolds'
  BY <1>n, <1>p DEF IInv, Recorded, RunningHasRow, UserPauseHolds, Known
<1> QED
  BY <1>1, <1>2, <1>3, <1>4, <1>5, <1>6 DEF IInv

LEMMA BeginNewIInv ==
  ASSUME IInv, NEW p \in Procs, NEW loc \in Locs,
         NEW op \in {"start", "open"}, BeginNew(p, op, loc)
  PROVE  IInv'
<1> USE AcquireAssumption
<1>i. PICK id \in Ids \ used :
        /\ used' = used \cup {id} /\ startMu' = p
        /\ calls' = [calls EXCEPT ![p] =
             [IdleCall EXCEPT !.op = "create", !.pc = "create", !.id = id, !.row = NewRow(loc)]]
  BY DEF BeginNew, Goto
<1> DEFINE new == [IdleCall EXCEPT !.op = "create", !.pc = "create", !.id = id, !.row = NewRow(loc)]
<1>p. /\ resume = {} /\ startMu = NoProc
      /\ UNCHANGED <<rows, store, tasks, open, disk, resume, crashes>>
  BY DEF BeginNew
<1>0. NewRow(loc) \in Row /\ ~NewRow(loc).byUser /\ rows[id] = NoRow
  BY NewRowFacts DEF IInv, Recorded
<1>1. /\ calls' \in [Procs -> Call]
      /\ calls'[p].op = "create" /\ calls'[p].id = id /\ calls'[p].row = NewRow(loc) /\ calls'[p].pc = "create"
      /\ \A q \in Procs : q # p => calls'[q] = calls[q]
  <2>1. new \in Call
    BY <1>0 DEF Call, Pcs, Ops, LockedOps, IdleCall
  <2> QED
    BY <1>i, <2>1 DEF IInv, TypeOK, IdleCall
<1>2. TypeOK'
  BY <1>1, <1>i, <1>p DEF IInv, TypeOK
<1>3. (Control(calls[p]) /\ CopiedRow(calls[p]))'
  BY <1>0, <1>1, <1>i, <1>p DEF Control, CopiedRow, SnapshotPcs, LockedOps
<1>4. ASSUME NEW q \in Procs, q # p PROVE (Control(calls[q]) /\ CopiedRow(calls[q]))'
  BY <1>p, <1>1, <1>4, NoneHoldsKeep
<1>5. Locking'
  BY <1>1, <1>i, <1>p, Locks DEF LockedOps
<1>n. \A q \in Procs : calls'[q].pc # "createRow"
  BY <1>1, <1>p, NoneHolds DEF SnapshotPcs
<1>6. Recorded' /\ RunningHasRow' /\ UserPauseHolds'
  BY <1>i, <1>n, <1>p DEF IInv, Recorded, RunningHasRow, UserPauseHolds, Known
<1> QED
  BY <1>1, <1>2, <1>3, <1>4, <1>5, <1>6 DEF IInv

LEMMA BeginRemoveIInv ==
  ASSUME IInv, NEW p \in Procs, NEW id \in Ids, BeginRemove(p, id)
  PROVE  IInv'
<1> USE AcquireAssumption
<1> DEFINE new == [IdleCall EXCEPT !.op = "remove", !.id = id, !.row = rows[id], !.task = tasks[id],
                                   !.pc = IF tasks[id] = NoTask THEN "delete" ELSE "close"]
<1>p. /\ resume = {} /\ startMu = NoProc /\ rows[id] # NoRow /\ startMu' = p
      /\ rows' = [rows EXCEPT ![id] = NoRow] /\ tasks' = [tasks EXCEPT ![id] = NoTask]
      /\ calls' = [calls EXCEPT ![p] = new]
      /\ UNCHANGED <<store, open, disk, used, resume, crashes>>
  BY DEF BeginRemove, Goto
<1>0. rows[id] \in Row /\ tasks[id] \in Tasks \cup {FileTask, NoTask}
  BY <1>p DEF IInv, TypeOK
<1>r. /\ rows' \in [Ids -> Row \cup {NoRow}] /\ tasks' \in [Ids -> Tasks \cup {FileTask, NoTask}]
      /\ rows'[id] = NoRow /\ tasks'[id] = NoTask
      /\ \A i \in Ids : i # id => rows'[i] = rows[i] /\ tasks'[i] = tasks[i]
  BY <1>p DEF IInv, TypeOK
<1>1. /\ calls' \in [Procs -> Call]
      /\ calls'[p].op = "remove" /\ calls'[p].id = id /\ calls'[p].row = rows[id]
      /\ calls'[p].pc \in {"delete", "close"}
      /\ \A q \in Procs : q # p => calls'[q] = calls[q]
  <2>1. new \in Call
    BY <1>0 DEF Call, Pcs, Ops, LockedOps, IdleCall
  <2> QED
    BY <1>p, <2>1 DEF IInv, TypeOK, IdleCall
<1>2. TypeOK'
  BY <1>1, <1>p, <1>r DEF IInv, TypeOK
<1>3. (Control(calls[p]) /\ CopiedRow(calls[p]))'
  BY <1>0, <1>1, <1>p, <1>r DEF Control, CopiedRow, SnapshotPcs, LockedOps
<1>4. ASSUME NEW q \in Procs, q # p PROVE (Control(calls[q]) /\ CopiedRow(calls[q]))'
  BY <1>p, <1>1, <1>4, NoneHoldsKeep
<1>5. Locking'
  BY <1>1, <1>p, Locks DEF LockedOps
<1>n. \A q \in Procs : calls'[q].pc # "createRow"
  BY <1>1, <1>p, NoneHolds DEF SnapshotPcs
<1>6. Recorded' /\ RunningHasRow' /\ UserPauseHolds'
  BY <1>n, <1>p, <1>r DEF IInv, Recorded, RunningHasRow, UserPauseHolds, Known
<1> QED
  BY <1>1, <1>2, <1>3, <1>4, <1>5, <1>6 DEF IInv

-----------------------------------------------------------------------------
(* Identify, the bytes, the end of the core and its boot.                   *)

LEMMA IdentifyIInv ==
  ASSUME IInv, NEW id \in Ids, Identify(id)
  PROVE  IInv'
<1> USE AcquireAssumption
<1> DEFINE new == [rows[id] EXCEPT !.titled = TRUE]
<1>p. /\ resume = {} /\ rows[id] # NoRow /\ rows' = [rows EXCEPT ![id] = new]
      /\ store' = [store EXCEPT ![id] = rows'[id]] \/ store' = store
      /\ UNCHANGED <<tasks, open, disk, startMu, calls, used, resume, crashes>>
  BY DEF Identify, SaveDownload, Saved, SaveFailed, IInv, TypeOK
<1>0. rows[id] \in Row
  BY <1>p DEF IInv, TypeOK
<1>1. /\ new \in Row /\ new.loc = rows[id].loc /\ new.byUser = rows[id].byUser
      /\ new.state = rows[id].state
  BY <1>0 DEF Row
<1> HIDE DEF new
<1>r. /\ rows' \in [Ids -> Row \cup {NoRow}] /\ store' \in [Ids -> Row \cup {NoRow}]
      /\ rows'[id] = new /\ \A i \in Ids : i # id => rows'[i] = rows[i]
      /\ \A i \in Ids : store'[i] = store[i] \/ (i = id /\ store'[i] = new)
  BY <1>p, <1>1 DEF IInv, TypeOK
<1>2. TypeOK'
  BY <1>p, <1>r DEF IInv, TypeOK
<1>4. ASSUME NEW q \in Procs PROVE (Control(calls[q]) /\ CopiedRow(calls[q]))'
  BY <1>0, <1>1, <1>p, <1>r, OthersKeep
<1>5. Locking'
  BY <1>p DEF IInv, Locking
<1>6. Recorded'
  <2>1. ASSUME NEW q \in Procs, calls[q].pc = "createRow" PROVE calls[q].id \in Ids /\ calls[q].id # id
    BY <1>p, <2>1, Underway DEF CopiedRow
  <2>3. \A i \in Ids : store'[i] # NoRow => i \in used'
    BY <1>p, <1>r DEF IInv, Recorded
  <2>4. \A i \in Ids : rows'[i] # NoRow => store'[i] # NoRow /\ store'[i].loc = rows'[i].loc
    BY <1>0, <1>1, <1>p, <1>r DEF IInv, Recorded
  <2>5. \A q \in Procs : calls'[q].pc = "createRow" =>
           store'[calls'[q].id] # NoRow /\ store'[calls'[q].id].loc = calls'[q].row.loc
    BY <1>p, <1>r, <2>1 DEF IInv, Recorded
  <2> QED
    BY <1>p, <2>3, <2>4, <2>5 DEF Recorded
<1>7. RunningHasRow' /\ UserPauseHolds'
  BY <1>0, <1>1, <1>p, <1>r DEF IInv, RunningHasRow, UserPauseHolds, Known
<1> QED
  BY <1>2, <1>4, <1>5, <1>6, <1>7 DEF IInv

LEMMA EnvironmentIInv ==
  ASSUME IInv, Environment
  PROVE  IInv'
<1> USE AcquireAssumption
<1>p. UNCHANGED <<rows, store, tasks, open, startMu, calls, used, resume, crashes>>
  BY DEF Environment, Arrive, Outside
<1>1. disk' \in [Places -> {"unknown", "part", "whole"}]
  <2>1. ASSUME NEW t \in Tasks, Arrive(t) PROVE disk' \in [Places -> {"unknown", "part", "whole"}]
    BY <2>1 DEF Arrive, IInv, TypeOK
  <2>2. ASSUME NEW x \in Places, Outside(x) PROVE disk' \in [Places -> {"unknown", "part", "whole"}]
    BY <2>2 DEF Outside, IInv, TypeOK
  <2> QED
    BY <2>1, <2>2 DEF Environment
<1>2. TypeOK'
  BY <1>p, <1>1 DEF IInv, TypeOK
<1>3. ASSUME NEW q \in Procs PROVE (Control(calls[q]) /\ CopiedRow(calls[q]))'
  BY <1>p, OthersKeep
<1> QED
  BY <1>p, <1>2, <1>3 DEF IInv, Locking, Recorded, RunningHasRow, UserPauseHolds, Known

LEMMA StopIInv ==
  ASSUME IInv, Stop
  PROVE  IInv'
<1> USE AcquireAssumption DEF Stop
<1>1. TypeOK'
  BY IdleCallFacts DEF IInv, TypeOK
<1>2. ASSUME NEW q \in Procs PROVE (Control(calls[q]) /\ CopiedRow(calls[q]))'
  <2>1. calls'[q] = IdleCall
    OBVIOUS
  <2> QED
    BY <2>1 DEF Control, CopiedRow, IdleCall, LockedOps
<1>3. Locking'
  BY DEF Locking, IdleCall, LockedOps
<1>4. Recorded' /\ RunningHasRow' /\ UserPauseHolds'
  BY DEF IInv, Recorded, RunningHasRow, UserPauseHolds, Known, IdleCall
<1> QED
  BY <1>1, <1>2, <1>3, <1>4 DEF IInv

LEMMA ResumeSettledIInv ==
  ASSUME IInv, NEW id \in Ids, ResumeSettled(id)
  PROVE  IInv'
<1> USE AcquireAssumption
<1> DEFINE row == store[id]
           updated == Settled(row, disk[Place(id, row)])
<1>p. /\ id \in resume /\ rows' = [rows EXCEPT ![id] = updated]
      /\ store' = [store EXCEPT ![id] = updated] \/ store' = store
      /\ resume' = resume \ {id}
      /\ UNCHANGED <<tasks, open, disk, startMu, calls, used, crashes>>
  BY DEF ResumeSettled, SaveDownload, Saved, SaveFailed
<1>0. row # NoRow /\ row \in Row
  BY <1>p DEF IInv, Recorded, TypeOK
<1>1. /\ updated \in Row /\ updated.loc = row.loc /\ updated.byUser = row.byUser
      /\ row.byUser /\ row.state = "paused" => updated = row
  <2>1. \A e : /\ Settled(row, e) \in Row
              /\ Settled(row, e).loc = row.loc
              /\ Settled(row, e).byUser = row.byUser
    BY <1>0, RowFacts
  <2>2. \A e : row.byUser /\ row.state = "paused" => Settled(row, e) = row
    BY <1>0, RowFacts
  <2>3. updated \in Row /\ updated.loc = row.loc /\ updated.byUser = row.byUser
    BY <2>1
  <2>4. row.byUser /\ row.state = "paused" => updated = row
    BY <2>2
  <2> QED
    BY <2>3, <2>4
<1>h. tasks[id] = NoTask
  BY <1>p DEF IInv, Recorded, RunningHasRow
<1> HIDE DEF updated, row
<1>r. /\ rows' \in [Ids -> Row \cup {NoRow}] /\ store' \in [Ids -> Row \cup {NoRow}]
      /\ rows'[id] = updated /\ \A i \in Ids : i # id => rows'[i] = rows[i]
      /\ \A i \in Ids : store'[i] = store[i] \/ (i = id /\ store'[i] = updated)
  BY <1>p, <1>1 DEF IInv, TypeOK
<1>2. TypeOK'
  BY <1>p, <1>r DEF IInv, TypeOK
<1>4. ASSUME NEW q \in Procs PROVE (Control(calls[q]) /\ CopiedRow(calls[q]))'
  <2>1. calls'[q] = IdleCall /\ calls[q] = IdleCall
    BY <1>p DEF IInv, Locking
  <2> QED
    BY <2>1 DEF Control, CopiedRow, IdleCall, LockedOps
<1>5. Locking'
  BY <1>p DEF IInv, Locking
<1>n. \A q \in Procs : calls'[q].pc # "createRow"
  BY <1>p DEF IInv, Locking, IdleCall
<1>6. Recorded'
  <2>0. id \in used /\ \A i \in resume' : i \in resume /\ i # id
    BY <1>0, <1>p DEF IInv, Recorded, row
  <2>1. \A i \in Ids : store'[i] # NoRow => i \in used'
    BY <1>p, <1>r, <2>0 DEF IInv, Recorded
  <2>2. \A i \in Ids : rows'[i] # NoRow => store'[i] # NoRow /\ store'[i].loc = rows'[i].loc
    BY <1>0, <1>r, <1>1 DEF IInv, Recorded, row
  <2>3. \A i \in resume' : store'[i] # NoRow /\ rows'[i] = NoRow
    BY <1>r, <2>0 DEF IInv, Recorded, TypeOK
  <2> QED
    BY <1>n, <2>1, <2>2, <2>3 DEF Recorded
<1>7. RunningHasRow'
  BY <1>1, <1>p, <1>r DEF IInv, RunningHasRow
<1>8. UserPauseHolds'
  <2>1. row.byUser => row.state = "paused"
    BY <1>0 DEF IInv, UserPauseHolds, row
  <2> QED
    BY <1>0, <1>1, <1>h, <1>p, <1>r, <2>1 DEF IInv, UserPauseHolds, Known
<1> QED
  BY <1>2, <1>4, <1>5, <1>6, <1>7, <1>8 DEF IInv

LEMMA ResumeRestartIInv ==
  ASSUME IInv, NEW id \in Ids, ResumeRestart(id)
  PROVE  IInv'
<1> USE AcquireAssumption
<1> DEFINE row == store[id]
           again == Restarted(row)
           failed == [again EXCEPT !.state = "failed"]
<1>p. /\ id \in resume /\ row.state \in {"active", "failed"}
      /\ resume' = resume \ {id}
      /\ UNCHANGED <<disk, startMu, calls, used, crashes>>
  BY DEF ResumeRestart
<1>a. /\ \E new \in {again, failed, row} : rows' = [rows EXCEPT ![id] = new]
      /\ store' = store \/ \E new \in {again, failed} : store' = [store EXCEPT ![id] = new]
      /\ BackendStart(id, row) \/ UNCHANGED <<tasks, open>>
  BY DEF ResumeRestart, Saved, SaveFailed
<1>0. row # NoRow /\ row \in Row
  BY <1>p DEF IInv, Recorded, TypeOK
<1>1. ~row.byUser
  BY <1>0, <1>p DEF IInv, UserPauseHolds
<1>b. again \in Row /\ again.loc = row.loc /\ again.byUser = FALSE
  BY <1>0, RowFacts
<1>c. failed \in Row /\ failed.loc = row.loc /\ failed.byUser = FALSE
  BY <1>b DEF Row, States
<1>t. /\ tasks' \in [Ids -> Tasks \cup {FileTask, NoTask}]
      /\ open' \in [Tasks -> Ids \cup {NoId}]
      /\ \A i \in Ids : i # id => tasks'[i] = tasks[i]
  BY <1>0, <1>a, BackendStartFacts DEF IInv, TypeOK
<1> HIDE DEF row, again, failed
<1>r. /\ rows' \in [Ids -> Row \cup {NoRow}] /\ store' \in [Ids -> Row \cup {NoRow}]
      /\ rows'[id] \in Row /\ rows'[id].loc = row.loc /\ ~rows'[id].byUser
      /\ \A i \in Ids : i # id => rows'[i] = rows[i]
      /\ \A i \in Ids : \/ store'[i] = store[i]
                        \/ i = id /\ store'[i] \in Row /\ store'[i].loc = row.loc /\ ~store'[i].byUser
  BY <1>0, <1>1, <1>a, <1>b, <1>c DEF IInv, TypeOK
<1>2. TypeOK'
  BY <1>p, <1>r, <1>t DEF IInv, TypeOK
<1>4. ASSUME NEW q \in Procs PROVE (Control(calls[q]) /\ CopiedRow(calls[q]))'
  <2>1. calls'[q] = IdleCall /\ calls[q] = IdleCall
    BY <1>p DEF IInv, Locking
  <2> QED
    BY <2>1 DEF Control, CopiedRow, IdleCall, LockedOps
<1>5. Locking'
  BY <1>p DEF IInv, Locking
<1>n. \A q \in Procs : calls'[q].pc # "createRow"
  BY <1>p DEF IInv, Locking, IdleCall
<1>6. Recorded'
  <2>0. id \in used /\ \A i \in resume' : i \in resume /\ i # id
    BY <1>0, <1>p DEF IInv, Recorded, row
  <2>1. \A i \in Ids : store'[i] # NoRow => i \in used'
    BY <1>p, <1>r, <2>0 DEF IInv, Recorded
  <2>2. \A i \in Ids : rows'[i] # NoRow => store'[i] # NoRow /\ store'[i].loc = rows'[i].loc
    BY <1>0, <1>r DEF IInv, Recorded, row
  <2>3. \A i \in resume' : store'[i] # NoRow /\ rows'[i] = NoRow
    BY <1>r, <2>0 DEF IInv, Recorded, TypeOK
  <2> QED
    BY <1>n, <2>1, <2>2, <2>3 DEF Recorded
<1>7. RunningHasRow'
  BY <1>p, <1>r, <1>t DEF IInv, RunningHasRow
<1>8. UserPauseHolds'
  BY <1>p, <1>r, <1>t DEF IInv, UserPauseHolds, Known
<1> QED
  BY <1>2, <1>4, <1>5, <1>6, <1>7, <1>8 DEF IInv

-----------------------------------------------------------------------------
(* The theorems.                                                            *)

LEMMA NextIInv == IInv /\ [Next]_vars => IInv'
<1> SUFFICES ASSUME IInv, [Next]_vars PROVE IInv'
  OBVIOUS
<1>1. ASSUME NEW p \in Procs, Begin(p) PROVE IInv'
  BY <1>1, BeginLookIInv, BeginRemoveIInv, BeginLockedIInv, BeginKnownIInv, BeginNewIInv DEF Begin
<1>2. ASSUME NEW p \in Procs, Step(p) PROVE IInv'
  BY <1>2, SnapshotTaskIInv, SnapshotReadIInv, SnapshotForgetIInv, SnapshotEndIInv,
     DecideIInv, CloseTaskIInv, PauseIInv, RestartSaveIInv, CreateSaveIInv, SetRowIInv,
     StartTaskIInv, StartFailsIInv, FailRowIInv, FailSaveIInv, DeleteDownloadIInv DEF Step
<1>3. ASSUME NEW id \in Ids, Identify(id) PROVE IInv'
  BY <1>3, IdentifyIInv
<1>4. CASE Environment
  BY <1>4, EnvironmentIInv
<1>5. CASE Stop
  BY <1>5, StopIInv
<1>6. CASE Boot
  BY <1>6, ResumeSettledIInv, ResumeRestartIInv DEF Boot
<1>7. CASE UNCHANGED vars
  <2>1. UNCHANGED <<rows, store, tasks, open, disk, startMu, calls, used, resume, crashes>>
    BY <1>7 DEF vars
  <2>2. ASSUME NEW q \in Procs PROVE (Control(calls[q]) /\ CopiedRow(calls[q]))'
    BY <2>1, OthersKeep
  <2> QED
    BY <2>1, <2>2 DEF IInv, TypeOK, Locking, Recorded, RunningHasRow, UserPauseHolds, Known
<1> QED
  BY <1>1, <1>2, <1>3, <1>4, <1>5, <1>6, <1>7 DEF Next

\* The inductive invariant of the manager, in every state it can reach.
LEMMA Invariant == Spec => []IInv
<1>1. Init => IInv
  BY InitIInv
<1>2. IInv /\ [Next]_vars => IInv'
  BY NextIInv
<1> QED
  BY <1>1, <1>2, PTL DEF Spec

\* Every variable keeps its type, whatever interleaving of the operations.
THEOREM TypeCorrect == Spec => []TypeOK
<1>1. IInv => TypeOK
  BY DEF IInv
<1> QED
  BY <1>1, Invariant, PTL

\* A download the user paused is paused, in memory and in the store, and no
\* task runs for it: no snapshot, recovery or failed start undoes a pause.
THEOREM UserPauseIsKept == Spec => []UserPauseHolds
<1>1. IInv => UserPauseHolds
  BY DEF IInv
<1> QED
  BY <1>1, Invariant, PTL

\* Whatever runs is in memory and in the store, at every moment.
THEOREM RunningRecorded == Spec => []RunningIsRecorded
<1>1. IInv => RunningIsRecorded
  BY DEF IInv, RunningHasRow, Recorded, RunningIsRecorded, Known
<1> QED
  BY <1>1, Invariant, PTL

-----------------------------------------------------------------------------
(* What the steps of an operation do to the rows: between its creation and  *)
(* its removal a row keeps its source, in memory and in the store.          *)

SourceKept(old, new) == (old = NoRow <=> new = NoRow) /\ (old # NoRow => new.loc = old.loc)

\* The pause of a row survives in memory but for restart's second write, and
\* one in memory is also stored but between restart's two writes.
PauseKept(p, id) ==
  /\ rows[id] # NoRow /\ rows[id].byUser =>
       rows'[id].byUser \/ (calls[p].pc = "restartRow" /\ calls[p].id = id)
  /\ rows'[id] # NoRow /\ rows'[id].byUser =>
       \/ /\ rows[id] # NoRow /\ rows[id].byUser /\ store'[id] = store[id]
          /\ ~(calls[p].pc = "restartRow" /\ calls[p].id = id)
       \/ store'[id] # NoRow /\ store'[id].byUser
       \/ calls'[p].id = id /\ calls'[p].pc = "restartRow"
  /\ rows'[id] # NoRow /\ rows'[id].byUser => rows[id].byUser \/ calls[p].op = "pause"

KeepsRows(p) ==
  \A id \in Ids :
    /\ SourceKept(rows[id], rows'[id]) /\ SourceKept(store[id], store'[id])
    /\ PauseKept(p, id)

LEMMA UnchangedRows ==
  ASSUME IInv, NEW p \in Procs, calls[p].pc # "restartRow", UNCHANGED <<rows, store>>
  PROVE  KeepsRows(p)
BY DEF KeepsRows, SourceKept, PauseKept

LEMMA SnapshotEndRows ==
  ASSUME IInv, NEW p \in Procs, SnapshotEnd(p)
  PROVE  KeepsRows(p)
<1>1. calls[p].pc = "read"
  BY DEF SnapshotEnd
<1>2. calls[p].id \in Ids /\ calls[p].row \in Row
  BY <1>1, Underway
<1>3. CASE calls[p].dirty
  <2>1. Persist(calls[p].id, calls[p].row)
    BY <1>3 DEF SnapshotEnd
  <2>2. \A i \in Ids :
          /\ rows'[i] = NoRow <=> rows[i] = NoRow
          /\ rows[i] # NoRow => rows'[i].loc = rows[i].loc /\ rows'[i].byUser = rows[i].byUser
          /\ store'[i] = store[i] \/ (rows'[i] # NoRow /\ ~rows[i].byUser /\ store'[i] = rows'[i])
    BY <1>2, <2>1, PersistFacts
  <2>3. \A i \in Ids : rows[i] # NoRow => store[i] # NoRow /\ store[i].loc = rows[i].loc
    BY DEF IInv, Recorded
  <2> QED
    BY <1>1, <2>2, <2>3 DEF KeepsRows, SourceKept, PauseKept
<1>4. CASE ~calls[p].dirty
  BY <1>1, <1>4, UnchangedRows DEF SnapshotEnd
<1> QED
  BY <1>3, <1>4

LEMMA PauseRows ==
  ASSUME IInv, NEW p \in Procs, Pause(p)
  PROVE  KeepsRows(p)
<1> USE AcquireAssumption
<1> DEFINE id == calls[p].id
           paused == [rows[id] EXCEPT !.state = "paused", !.byUser = TRUE]
<1>1. calls[p].pc = "pausing"
  BY DEF Pause, At
<1>2. id \in Ids /\ rows[id] # NoRow /\ rows[id] \in Row /\ calls[p].op = "pause"
  BY <1>1, Holding DEF SnapshotPcs, CopiedRow, Control, IInv, TypeOK, LockedOps, RestartPcs
<1>3. paused \in Row /\ paused.loc = rows[id].loc /\ paused.byUser
  BY <1>2 DEF Row, States
<1>4. store[id] # NoRow /\ store[id].loc = rows[id].loc
  BY <1>2 DEF IInv, Recorded
<1>5. \/ store' = [store EXCEPT ![id] = paused] /\ rows' = [rows EXCEPT ![id] = paused]
      \/ UNCHANGED <<rows, store>>
  BY DEF Pause, Saved, SaveFailed
<1> HIDE DEF paused
<1>6. CASE store' = [store EXCEPT ![id] = paused] /\ rows' = [rows EXCEPT ![id] = paused]
  BY <1>2, <1>3, <1>4, <1>6 DEF IInv, TypeOK, KeepsRows, SourceKept, PauseKept
<1> QED
  BY <1>1, <1>5, <1>6, UnchangedRows

LEMMA RestartSaveRows ==
  ASSUME IInv, NEW p \in Procs, RestartSave(p)
  PROVE  KeepsRows(p)
<1> USE AcquireAssumption
<1> DEFINE c == calls[p]
           again == Restarted(c.row)
<1>1. c.pc = "resave" /\ rows' = rows
  BY DEF RestartSave
<1>2. c \in Call /\ c.id \in Ids /\ c.row \in Row /\ rows[c.id] # NoRow /\ rows[c.id].loc = c.row.loc
  BY <1>1, Holding DEF SnapshotPcs, CopiedRow, Control
<1>3. again \in Row /\ again.loc = c.row.loc
  BY <1>2, RowFacts
<1>4. store[c.id] # NoRow /\ store[c.id].loc = rows[c.id].loc
  BY <1>2 DEF IInv, Recorded
<1>5. \/ /\ store' = [store EXCEPT ![c.id] = again]
         /\ calls' = [calls EXCEPT ![p] = [c EXCEPT !.row = again, !.pc = "restartRow"]]
      \/ UNCHANGED store
  BY DEF RestartSave, Saved, SaveFailed, Goto
<1> HIDE DEF again
<1>6. CASE /\ store' = [store EXCEPT ![c.id] = again]
           /\ calls' = [calls EXCEPT ![p] = [c EXCEPT !.row = again, !.pc = "restartRow"]]
  <2>1. calls'[p].id = c.id /\ calls'[p].pc = "restartRow"
    BY <1>2, <1>6 DEF IInv, TypeOK, Call
  <2> QED
    BY <1>1, <1>2, <1>3, <1>4, <1>6, <2>1 DEF IInv, TypeOK, KeepsRows, SourceKept, PauseKept
<1> QED
  BY <1>1, <1>5, <1>6, UnchangedRows

LEMMA RestartRowRows ==
  ASSUME IInv, NEW p \in Procs, SetRow(p), calls[p].pc = "restartRow"
  PROVE  KeepsRows(p)
<1> USE AcquireAssumption
<1> DEFINE c == calls[p]
<1>1. rows' = [rows EXCEPT ![c.id] = c.row] /\ store' = store
  BY DEF SetRow
<1>2. /\ c.id \in Ids /\ c.row \in Row /\ rows[c.id] # NoRow /\ rows[c.id].loc = c.row.loc
      /\ ~c.row.byUser
  BY Holding DEF SnapshotPcs, CopiedRow, Control
<1> QED
  BY <1>1, <1>2 DEF IInv, TypeOK, KeepsRows, SourceKept, PauseKept

LEMMA FailRowRows ==
  ASSUME IInv, NEW p \in Procs, FailRow(p)
  PROVE  KeepsRows(p)
<1> USE AcquireAssumption
<1> DEFINE c == calls[p]
<1>1. c.pc = "failRow" /\ rows' = [rows EXCEPT ![c.id] = c.row] /\ store' = store
  BY DEF FailRow
<1>2. /\ c.id \in Ids /\ c.row \in Row /\ rows[c.id] # NoRow /\ rows[c.id].loc = c.row.loc
      /\ ~c.row.byUser /\ ~rows[c.id].byUser
  BY <1>1, Holding DEF SnapshotPcs, CopiedRow, Control
<1> QED
  BY <1>1, <1>2 DEF IInv, TypeOK, KeepsRows, SourceKept, PauseKept

LEMMA FailSaveRows ==
  ASSUME IInv, NEW p \in Procs, FailSave(p)
  PROVE  KeepsRows(p)
<1> USE AcquireAssumption
<1> DEFINE c == calls[p]
<1>1. /\ c.pc = "failSave" /\ rows' = rows
      /\ store' = [store EXCEPT ![c.id] = c.row] \/ store' = store
  BY DEF FailSave, At, SaveDownload, Saved, SaveFailed
<1>2. /\ c.id \in Ids /\ c.row \in Row /\ rows[c.id] # NoRow /\ rows[c.id].loc = c.row.loc
      /\ ~rows[c.id].byUser
  BY <1>1, Holding DEF SnapshotPcs, CopiedRow, Control
<1>3. store[c.id] # NoRow /\ store[c.id].loc = rows[c.id].loc
  BY <1>2 DEF IInv, Recorded
<1> QED
  BY <1>1, <1>2, <1>3 DEF IInv, TypeOK, KeepsRows, SourceKept, PauseKept

\* Every step but those of a creation and the end of a removal.
LEMMA StepRows ==
  ASSUME IInv, NEW p \in Procs, Step(p), calls[p].pc \notin {"create", "createRow", "delete"}
  PROVE  KeepsRows(p)
<1>1. CASE \/ SnapshotTask(p) \/ SnapshotRead(p) \/ SnapshotForget(p) \/ Decide(p)
           \/ CloseTask(p) \/ StartTask(p) \/ StartFails(p)
  <2>1. UNCHANGED <<rows, store>> /\ calls[p].pc # "restartRow"
    BY <1>1 DEF At, SnapshotTask, SnapshotRead, SnapshotForget, Decide, CloseTask, StartTask, StartFails
  <2> QED
    BY <2>1, UnchangedRows
<1>2. CASE SetRow(p)
  BY <1>2, RestartRowRows DEF SetRow
<1>3. CASE CreateSave(p) \/ DeleteDownload(p)
  BY <1>3 DEF CreateSave, DeleteDownload
<1> QED
  BY <1>1, <1>2, <1>3, SnapshotEndRows, PauseRows, RestartSaveRows, FailRowRows, FailSaveRows DEF Step

\* Identify writes what memory says, with a title.
LEMMA IdentifyRows ==
  ASSUME IInv, NEW id \in Ids, Identify(id)
  PROVE  \A i \in Ids :
           /\ SourceKept(rows[i], rows'[i]) /\ SourceKept(store[i], store'[i])
           /\ rows[i] # NoRow => rows'[i].byUser = rows[i].byUser
           /\ store'[i] = store[i] \/ (rows'[i] # NoRow /\ store'[i] = rows'[i])
<1> USE AcquireAssumption
<1> DEFINE named == [rows[id] EXCEPT !.titled = TRUE]
<1>1. rows[id] # NoRow /\ rows[id] \in Row /\ store[id] # NoRow /\ store[id].loc = rows[id].loc
  BY DEF Identify, IInv, TypeOK, Recorded
<1>2. named \in Row /\ named.loc = rows[id].loc /\ named.byUser = rows[id].byUser
  BY <1>1 DEF Row
<1>3. rows' = [rows EXCEPT ![id] = named] /\ rows'[id] = named
  BY DEF Identify, IInv, TypeOK
<1>4. store' = [store EXCEPT ![id] = named] \/ store' = store
  BY <1>3 DEF Identify, SaveDownload, Saved, SaveFailed
<1> HIDE DEF named
<1> QED
  BY <1>1, <1>2, <1>3, <1>4 DEF IInv, TypeOK, SourceKept

-----------------------------------------------------------------------------
(* What a step makes of the record of its own operation, and of no other.   *)

\* A creation goes from its first write to its second with the same row, a
\* removal goes on until it deletes, and no operation becomes a recovery.
CallGoesOn(p) ==
  /\ \A q \in Procs : q # p => calls'[q] = calls[q]
  /\ calls'[p].pc \in {"create", "createRow"} =>
       calls[p].pc = "create" /\ calls'[p].pc = "createRow"
         /\ calls'[p].id = calls[p].id /\ calls'[p].row = calls[p].row
  /\ calls[p].op = "remove" =>
       calls[p].pc = "delete" \/ (calls'[p].op = "remove" /\ calls'[p].id = calls[p].id)
  /\ calls'[p].op = "recover" => calls[p].op = "recover" /\ calls'[p].id = calls[p].id

\* What an operation becomes that keeps its name and its download, or returns.
LEMMA CallBecomes ==
  ASSUME IInv, NEW p \in Procs, NEW c, calls' = [calls EXCEPT ![p] = c],
         calls[p].op = "remove" => calls[p].pc = "delete" \/ (c.op = "remove" /\ c.id = calls[p].id),
         c.op = "recover" => calls[p].op = "recover" /\ c.id = calls[p].id,
         c.pc \notin {"create", "createRow"}
  PROVE  CallGoesOn(p)
BY DEF IInv, TypeOK, CallGoesOn

LEMMA CallReturns ==
  ASSUME IInv, NEW p \in Procs, Return(p), calls[p].op = "remove" => calls[p].pc = "delete"
  PROVE  CallGoesOn(p)
BY CallBecomes DEF Return, IdleCall

LEMMA StepCalls ==
  ASSUME IInv, NEW p \in Procs, Step(p)
  PROVE  CallGoesOn(p)
<1> DEFINE c == calls[p]
<1>0. c.pc # "idle"
  BY DEF Step, At, SnapshotTask, SnapshotRead, SnapshotForget, SnapshotEnd, Decide, CloseTask, Pause,
         RestartSave, CreateSave, SetRow, StartTask, StartFails, FailRow, FailSave, DeleteDownload
<1>1. c \in Call /\ Control(c)
  BY <1>0, Underway
<1>2. CASE SnapshotTask(p)
  <2>1. calls' = [calls EXCEPT ![p] = [c EXCEPT !.task = tasks[c.id], !.pc = "tasked"]]
    BY <1>2 DEF SnapshotTask, Goto
  <2> QED
    BY <1>1, <2>1, CallBecomes DEF Call
<1>3. CASE SnapshotRead(p)
  <2>1. PICK new : /\ calls' = [calls EXCEPT ![p] = new]
                   /\ new.op = c.op /\ new.id = c.id /\ new.pc \in {"forget", "read"}
    <3>1. PICK u : calls' = [calls EXCEPT ![p] =
             [c EXCEPT !.row = u, !.dirty = (u # c.row),
                       !.pc = IF IsFile(c.row) /\ c.task # NoTask /\ u.state = "paused"
                              THEN "forget" ELSE "read"]]
      BY <1>3 DEF SnapshotRead, Goto
    <3> DEFINE new == [c EXCEPT !.row = u, !.dirty = (u # c.row),
                       !.pc = IF IsFile(c.row) /\ c.task # NoTask /\ u.state = "paused"
                              THEN "forget" ELSE "read"]
    <3>2. new.op = c.op /\ new.id = c.id /\ new.pc \in {"forget", "read"}
      BY <1>1 DEF Call
    <3> QED
      BY <3>1, <3>2
  <2> QED
    BY <1>1, <2>1, CallBecomes
<1>4. CASE SnapshotForget(p)
  <2>1. calls' = [calls EXCEPT ![p] = [c EXCEPT !.pc = "read"]]
    BY <1>4 DEF SnapshotForget, Goto
  <2> QED
    BY <1>1, <2>1, CallBecomes DEF Call
<1>5. CASE SnapshotEnd(p)
  <2>0. c.pc = "read"
    BY <1>5 DEF SnapshotEnd
  <2>1. CASE Return(p)
    BY <1>1, <2>0, <2>1, CallReturns DEF Control
  <2>2. CASE ~Return(p)
    <3>1. PICK s : calls' = [calls EXCEPT ![p] = [c EXCEPT !.pc = "snapped", !.dirty = FALSE, !.stalled = s]]
      BY <1>5, <2>2 DEF SnapshotEnd, Goto
    <3> QED
      BY <1>1, <3>1, CallBecomes DEF Call
  <2> QED
    BY <2>1, <2>2
<1>6. CASE Decide(p)
  <2>0. c.pc = "snapped" /\ c.op # "remove"
    BY <1>1, <1>6 DEF Decide, Control
  <2>1. CASE Return(p)
    BY <2>0, <2>1, CallReturns
  <2>2. CASE StopTask(p, AfterStop(c))
    <3>1. calls' = [calls EXCEPT ![p] =
            [c EXCEPT !.task = tasks[c.id], !.stalled = FALSE,
                      !.pc = IF tasks[c.id] = NoTask THEN AfterStop(c) ELSE "close"]]
      BY <2>2 DEF StopTask, Goto
    <3>2. AfterStop(c) \notin {"create", "createRow"}
      BY DEF AfterStop, RestartPc
    <3> QED
      BY <1>1, <2>0, <3>1, <3>2, CallBecomes DEF Call
  <2>3. CASE calls' = [calls EXCEPT ![p] = [c EXCEPT !.pc = RestartPc(c.row), !.stalled = FALSE]]
    BY <1>1, <2>0, <2>3, CallBecomes DEF Call, RestartPc
  <2> QED
    BY <1>6, <2>1, <2>2, <2>3 DEF Decide, Goto
<1>7. CASE CloseTask(p)
  <2>1. CASE c.op = "share" /\ Return(p)
    BY <2>1, CallReturns
  <2>2. CASE calls' = [calls EXCEPT ![p] = [c EXCEPT !.task = NoTask, !.pc = AfterStop(c)]]
    <3>1. AfterStop(c) \notin {"create", "createRow"}
      BY DEF AfterStop, RestartPc
    <3> QED
      BY <1>1, <2>2, <3>1, CallBecomes DEF Call
  <2> QED
    BY <1>7, <2>1, <2>2 DEF CloseTask, Goto
<1>8. CASE Pause(p) \/ FailSave(p) \/ DeleteDownload(p)
  <2>1. Return(p) /\ c.pc \in {"pausing", "failSave", "delete"}
    BY <1>8 DEF Pause, FailSave, DeleteDownload, At
  <2> QED
    BY <1>1, <2>1, CallReturns DEF Control
<1>9. CASE RestartSave(p)
  <2>0. c.pc = "resave" /\ c.op # "remove"
    BY <1>1, <1>9 DEF RestartSave, Control
  <2>1. CASE Return(p)
    BY <2>0, <2>1, CallReturns
  <2>2. CASE calls' = [calls EXCEPT ![p] = [c EXCEPT !.row = Restarted(c.row), !.pc = "restartRow"]]
    BY <1>1, <2>0, <2>2, CallBecomes DEF Call
  <2> QED
    BY <1>9, <2>1, <2>2 DEF RestartSave, Goto
<1>10. CASE CreateSave(p)
  <2>0. c.pc = "create" /\ c.op = "create"
    BY <1>1, <1>10 DEF CreateSave, Control, Call, Ops, LockedOps, SnapshotPcs, RestartPcs, IdleCall
  <2>1. CASE Return(p)
    BY <2>0, <2>1, CallReturns
  <2>2. CASE calls' = [calls EXCEPT ![p] = [c EXCEPT !.pc = "createRow"]]
    BY <1>1, <2>0, <2>2 DEF IInv, TypeOK, Call, CallGoesOn
  <2> QED
    BY <1>10, <2>1, <2>2 DEF CreateSave, Goto
<1>11. CASE SetRow(p)
  <2>1. calls' = [calls EXCEPT ![p] = [c EXCEPT !.pc = "starting"]]
    BY <1>11 DEF SetRow, Goto
  <2> QED
    BY <1>1, <2>1, CallBecomes DEF Call
<1>12. CASE StartTask(p)
  <2>0. c.pc = "starting" /\ c.op # "remove"
    BY <1>1, <1>12 DEF StartTask, Control
  <2>1. CASE Return(p)
    BY <2>0, <2>1, CallReturns
  <2>2. CASE ~Return(p)
    <3>1. calls' = [calls EXCEPT ![p] =
            [IdleCall EXCEPT !.op = "answer", !.pc = "copied", !.id = c.id,
                             !.row = IF c.op = "create" THEN c.row ELSE rows[c.id]]]
      BY <1>12, <2>2 DEF StartTask, Goto
    <3> QED
      BY <2>0, <3>1, CallBecomes DEF IdleCall
  <2> QED
    BY <2>1, <2>2
<1>13. CASE StartFails(p)
  <2>1. calls' = [calls EXCEPT ![p] = [c EXCEPT !.row.state = "failed", !.pc = "failRow"]]
    BY <1>13 DEF StartFails, Goto
  <2> QED
    BY <1>1, <2>1, CallBecomes DEF Call
<1>14. CASE FailRow(p)
  <2>1. calls' = [calls EXCEPT ![p] = [c EXCEPT !.pc = "failSave"]]
    BY <1>14 DEF FailRow, Goto
  <2> QED
    BY <1>1, <2>1, CallBecomes DEF Call
<1> QED
  BY <1>2, <1>3, <1>4, <1>5, <1>6, <1>7, <1>8, <1>9, <1>10, <1>11, <1>12, <1>13, <1>14 DEF Step

-----------------------------------------------------------------------------
(* The pause in memory and in the store.                                    *)

LEMMA BeginKeeps ==
  ASSUME IInv, NEW p \in Procs, Begin(p)
  PROVE  /\ store' = store /\ resume = {} /\ resume' = {}
         /\ \A id \in Ids : rows'[id] = rows[id] \/ rows'[id] = NoRow
         /\ calls[p].pc = "idle"
         /\ \A q \in Procs : q # p => calls'[q] = calls[q]
BY DEF Begin, BeginLook, BeginRemove, BeginLocked, BeginKnown, BeginNew, Goto, At, IInv, TypeOK

\* Of a boot: each row is loaded with the pause it was stored with.
LEMMA BootKeeps ==
  ASSUME IInv, Boot
  PROVE  /\ calls' = calls /\ resume # {}
         /\ \A id \in Ids :
              \/ rows'[id] = rows[id] /\ store'[id] = store[id]
              \/ /\ id \in resume /\ rows[id] = NoRow /\ rows'[id] # NoRow
                 /\ store[id] # NoRow /\ store'[id] # NoRow
                 /\ rows'[id].loc = store[id].loc /\ store'[id].loc = store[id].loc
                 /\ rows'[id].byUser = store[id].byUser /\ store'[id].byUser = store[id].byUser
<1> USE AcquireAssumption
<1>1. ASSUME NEW id \in Ids, ResumeSettled(id)
      PROVE  /\ id \in resume /\ calls' = calls
             /\ \E new \in Row : /\ new.loc = store[id].loc /\ new.byUser = store[id].byUser
                                 /\ rows' = [rows EXCEPT ![id] = new]
                                 /\ store' = [store EXCEPT ![id] = new] \/ store' = store
  <2> DEFINE new == Settled(store[id], disk[Place(id, store[id])])
  <2>1. id \in resume /\ calls' = calls /\ rows' = [rows EXCEPT ![id] = new]
    BY <1>1 DEF ResumeSettled
  <2>2. store' = [store EXCEPT ![id] = new] \/ store' = store
    BY <1>1 DEF ResumeSettled, SaveDownload, Saved, SaveFailed
  <2>3. store[id] \in Row
    BY <2>1 DEF IInv, Recorded, TypeOK
  <2>4. new \in Row /\ new.loc = store[id].loc /\ new.byUser = store[id].byUser
    BY <2>3, RowFacts
  <2> QED
    BY <2>1, <2>2, <2>4
<1>2. ASSUME NEW id \in Ids, ResumeRestart(id)
      PROVE  /\ id \in resume /\ calls' = calls
             /\ \E new, kept \in Row :
                  /\ new.loc = store[id].loc /\ new.byUser = store[id].byUser
                  /\ kept.loc = store[id].loc /\ kept.byUser = store[id].byUser
                  /\ rows' = [rows EXCEPT ![id] = new]
                  /\ store' = [store EXCEPT ![id] = kept] \/ store' = store
  <2> DEFINE again == Restarted(store[id])
             failed == [again EXCEPT !.state = "failed"]
  <2>1. /\ id \in resume /\ calls' = calls /\ store[id].state \in {"active", "failed"}
        /\ \E new \in {again, failed, store[id]} : rows' = [rows EXCEPT ![id] = new]
        /\ store' = store \/ \E kept \in {again, failed} : store' = [store EXCEPT ![id] = kept]
    BY <1>2 DEF ResumeRestart, Saved, SaveFailed
  <2>2. store[id] \in Row /\ store[id].byUser = FALSE
    BY <2>1 DEF IInv, Recorded, TypeOK, UserPauseHolds, Row
  <2>3. again \in Row /\ again.loc = store[id].loc /\ again.byUser = FALSE
    BY <2>2, RowFacts
  <2>4. failed \in Row /\ failed.loc = store[id].loc /\ failed.byUser = FALSE
    BY <2>3 DEF Row, States
  <2> HIDE DEF again, failed
  <2> QED
    BY <2>1, <2>2, <2>3, <2>4
<1>3. \A id \in resume : rows[id] = NoRow /\ store[id] # NoRow
  BY DEF IInv, Recorded
<1> QED
  BY <1>1, <1>2, <1>3 DEF Boot, IInv, TypeOK

\* Once startMu has let recover look, the user's pause cannot come under it:
\* recover only begins on a download that runs.
RecoverAwake ==
  \A p \in Procs : calls[p].op = "recover" =>
    rows[calls[p].id] # NoRow /\ ~rows[calls[p].id].byUser

PInv == IInv /\ PauseSurvives /\ RecoverAwake

LEMMA InitPInv == Init => PInv
BY InitIInv DEF Init, PInv, PauseSurvives, RecoverAwake, Known, IdleCall

LEMMA StepPInv ==
  ASSUME PInv, NEW p \in Procs, Step(p)
  PROVE  PauseSurvives' /\ RecoverAwake'
<1> USE DEF PInv
<1>0. IInv /\ CallGoesOn(p)
  BY StepCalls
<1>1. CASE calls[p].pc \notin {"create", "createRow", "delete"}
  <2>1. KeepsRows(p)
    BY <1>1, StepRows
  <2>2. PauseSurvives'
    BY <1>0, <2>1 DEF KeepsRows, PauseKept, SourceKept, CallGoesOn, PauseSurvives, Known, At
  <2>3. ASSUME NEW q \in Procs, calls'[q].op = "recover"
        PROVE  rows'[calls'[q].id] # NoRow /\ ~rows'[calls'[q].id].byUser
    <3>1. calls[q].op = "recover" /\ calls'[q].id = calls[q].id
      BY <1>0, <2>3 DEF CallGoesOn
    <3>2. calls[p].op # "pause"
      BY <3>1, Alone DEF LockedOps
    <3>3. calls[q].id \in Ids
      BY <3>1 DEF IInv, Control
    <3> QED
      BY <2>1, <3>1, <3>2, <3>3 DEF KeepsRows, PauseKept, SourceKept, RecoverAwake
  <2> QED
    BY <2>2, <2>3 DEF RecoverAwake
<1>2. CASE calls[p].pc \in {"create", "createRow", "delete"}
  <2>0. /\ calls[p].id \in Ids /\ calls[p].row \in Row /\ rows[calls[p].id] = NoRow /\ startMu = p
        /\ calls[p].op \in {"create", "remove"} /\ (calls[p].pc # "delete" => ~calls[p].row.byUser)
        /\ resume = {}
    BY <1>2, Holding DEF SnapshotPcs, RestartPcs, CopiedRow, Control, LockedOps
  <2>1. /\ \A i \in Ids : i # calls[p].id => rows'[i] = rows[i] /\ store'[i] = store[i]
        /\ \/ rows' = rows
           \/ rows' = [rows EXCEPT ![calls[p].id] = calls[p].row] /\ calls[p].pc = "createRow"
    BY <1>2, <2>0 DEF Step, At, SnapshotTask, SnapshotRead, SnapshotForget, SnapshotEnd, Decide, CloseTask,
           Pause, RestartSave, CreateSave, SetRow, StartTask, StartFails, FailRow, FailSave, DeleteDownload,
           Saved, SaveFailed, IInv, TypeOK
  <2>2. ASSUME NEW q \in Procs PROVE calls[q].op # "recover" /\ calls[q].pc # "restartRow"
    BY <1>2, <2>0, Alone DEF LockedOps, SnapshotPcs
  <2>3. PauseSurvives'
    BY <2>0, <2>1, <2>2 DEF PauseSurvives, Known, At, IInv, TypeOK
  <2>4. RecoverAwake'
    BY <1>0, <2>2 DEF CallGoesOn, RecoverAwake
  <2> QED
    BY <2>3, <2>4
<1> QED
  BY <1>1, <1>2

LEMMA BeginPInv ==
  ASSUME PInv, NEW p \in Procs, Begin(p)
  PROVE  PauseSurvives' /\ RecoverAwake'
<1> USE DEF PInv
<1>1. PauseSurvives'
  BY BeginKeeps DEF PauseSurvives, Known, At
<1>2. ASSUME NEW id \in Ids, BeginLook(p, id) PROVE RecoverAwake'
  BY <1>2 DEF BeginLook, Goto, IdleCall, RecoverAwake, IInv, TypeOK
<1>3. ASSUME NEW id \in Ids, BeginRemove(p, id) PROVE RecoverAwake'
  <2>1. \A q \in Procs : calls[q].op # "recover"
    BY <1>3, NoneHolds DEF BeginRemove
  <2> QED
    BY <1>3, <2>1 DEF BeginRemove, Goto, IdleCall, RecoverAwake, IInv, TypeOK
<1>4. ASSUME NEW id \in Ids, NEW op \in {"pause", "unpause", "share", "recover"}, BeginLocked(p, op, id)
      PROVE  RecoverAwake'
  <2>1. op = "recover" => rows[id] # NoRow /\ ~rows[id].byUser
    BY <1>4 DEF BeginLocked, IInv, UserPauseHolds, Known
  <2> QED
    BY <1>4, <2>1 DEF BeginLocked, Goto, IdleCall, RecoverAwake, IInv, TypeOK
<1>5. ASSUME NEW op \in {"start", "open"}, NEW loc \in Locs, BeginKnown(p, op, loc) \/ BeginNew(p, op, loc)
      PROVE  RecoverAwake'
  <2>1. /\ rows' = rows
        /\ \E c : c.op # "recover" /\ calls' = [calls EXCEPT ![p] = c]
    <3>1. CASE BeginKnown(p, op, loc)
      <4>1. PICK id \in Ids : Goto(p, [IdleCall EXCEPT !.op = op, !.pc = "copied", !.id = id, !.row = rows[id]])
        BY <3>1 DEF BeginKnown
      <4>2. [IdleCall EXCEPT !.op = op, !.pc = "copied", !.id = id, !.row = rows[id]].op # "recover"
        BY DEF IdleCall
      <4> QED
        BY <3>1, <4>1, <4>2 DEF BeginKnown, Goto
    <3>2. CASE BeginNew(p, op, loc)
      <4>1. PICK id \in Ids : Goto(p, [IdleCall EXCEPT !.op = "create", !.pc = "create", !.id = id, !.row = NewRow(loc)])
        BY <3>2 DEF BeginNew
      <4>2. [IdleCall EXCEPT !.op = "create", !.pc = "create", !.id = id, !.row = NewRow(loc)].op # "recover"
        BY DEF IdleCall
      <4> QED
        BY <3>2, <4>1, <4>2 DEF BeginNew, Goto
    <3> QED
      BY <1>5, <3>1, <3>2
  <2> QED
    BY <2>1 DEF RecoverAwake, IInv, TypeOK
<1> QED
  BY <1>1, <1>2, <1>3, <1>4, <1>5 DEF Begin

LEMMA NextPInv == PInv /\ [Next]_vars => PInv'
<1> SUFFICES ASSUME PInv, [Next]_vars PROVE PInv'
  OBVIOUS
<1>0. IInv /\ IInv'
  BY NextIInv DEF PInv
<1>1. ASSUME NEW p \in Procs, Begin(p) \/ Step(p) PROVE PInv'
  BY <1>0, <1>1, BeginPInv, StepPInv DEF PInv
<1>2. ASSUME NEW id \in Ids, Identify(id) PROVE PInv'
  <2>1. calls' = calls
    BY <1>2 DEF Identify
  <2>2. \A p \in Procs : calls[p].op = "recover" => calls[p].id \in Ids
    BY <1>0 DEF IInv, Control
  <2> QED
    BY <1>0, <1>2, <2>1, <2>2, IdentifyRows DEF PInv, PauseSurvives, RecoverAwake, Known, At, SourceKept
<1>3. CASE Environment
  BY <1>0, <1>3 DEF Environment, Arrive, Outside, PInv, PauseSurvives, RecoverAwake, Known, At
<1>4. CASE Stop
  BY <1>0, <1>4 DEF Stop, PInv, PauseSurvives, RecoverAwake, Known, At, IdleCall
<1>5. CASE Boot
  <2>1. \A p \in Procs : calls[p] = IdleCall
    BY <1>0, <1>5, BootKeeps DEF IInv, Locking
  <2> QED
    BY <1>0, <1>5, <2>1, BootKeeps DEF PInv, PauseSurvives, RecoverAwake, Known, At, IdleCall
<1>6. CASE UNCHANGED vars
  BY <1>0, <1>6 DEF vars, PInv, PauseSurvives, RecoverAwake, Known, At
<1> QED
  BY <1>1, <1>2, <1>3, <1>4, <1>5, <1>6 DEF Next

LEMMA PauseInvariant == Spec => []PInv
BY InitPInv, NextPInv, PTL DEF Spec

\* A pause of the user's is in the store as well as in memory, but between the
\* two writes of the restart that lifts it: a crash does not lift it.
THEOREM PauseIsStored == Spec => []PauseSurvives
<1>1. PInv => PauseSurvives
  BY DEF PInv
<1> QED
  BY <1>1, PauseInvariant, PTL

\* What one step may do to a pause.
LEMMA LiftedStep ==
  ASSUME PInv, [Next]_vars, NEW id \in Ids
  PROVE  /\ Known(id) /\ rows[id].byUser /\ rows'[id] # NoRow /\ ~rows'[id].byUser =>
              \E p \in Procs : calls[p].id = id /\ calls[p].op \in {"start", "open", "unpause"}
         /\ id \in resume /\ store[id].byUser /\ rows'[id] # NoRow => rows'[id].byUser
<1> USE DEF PInv, Known
<1>0. id \in resume => rows[id] = NoRow
  BY DEF IInv, Recorded
<1>1. ASSUME NEW p \in Procs, Begin(p) PROVE rows'[id] = rows[id] \/ rows'[id] = NoRow
  BY <1>1, BeginKeeps
<1>2. ASSUME NEW p \in Procs, Step(p), rows[id] # NoRow, rows[id].byUser, rows'[id] # NoRow, ~rows'[id].byUser
      PROVE  calls[p].id = id /\ calls[p].op \in {"start", "open", "unpause"}
  <2>1. CASE calls[p].pc \notin {"create", "createRow", "delete"}
    <3>1. calls[p].pc = "restartRow" /\ calls[p].id = id
      BY <1>2, <2>1, StepRows DEF KeepsRows, PauseKept
    <3>2. calls[p].op \in {"start", "open", "unpause", "recover"}
      BY <3>1, Holding DEF SnapshotPcs, Control, LockedOps
    <3> QED
      BY <1>2, <3>1, <3>2 DEF RecoverAwake
  <2>2. CASE calls[p].pc \in {"create", "createRow", "delete"}
    <3>1. calls[p].id \in Ids /\ rows[calls[p].id] = NoRow
      BY <2>2, Holding DEF SnapshotPcs, RestartPcs, CopiedRow, Control, LockedOps
    <3>2. rows' = rows \/ rows' = [rows EXCEPT ![calls[p].id] = calls[p].row]
      BY <1>2, <2>2 DEF Step, At, SnapshotTask, SnapshotRead, SnapshotForget, SnapshotEnd, Decide, CloseTask,
           Pause, RestartSave, CreateSave, SetRow, StartTask, StartFails, FailRow, FailSave, DeleteDownload
    <3> QED
      BY <1>2, <3>1, <3>2 DEF IInv, TypeOK
  <2> QED
    BY <2>1, <2>2
<1>3. ASSUME NEW p \in Procs, Step(p) PROVE resume = {}
  <2>1. calls[p].pc # "idle"
    BY <1>3 DEF Step, At, SnapshotTask, SnapshotRead, SnapshotForget, SnapshotEnd, Decide, CloseTask, Pause,
         RestartSave, CreateSave, SetRow, StartTask, StartFails, FailRow, FailSave, DeleteDownload
  <2> QED
    BY <2>1, Underway
<1>4. ASSUME NEW i \in Ids, Identify(i) PROVE resume = {} /\ (rows[id] # NoRow => rows'[id].byUser = rows[id].byUser)
  BY <1>4, IdentifyRows DEF Identify
<1>5. CASE Environment \/ UNCHANGED vars
  BY <1>0, <1>5 DEF Environment, Arrive, Outside, vars
<1>6. CASE Stop
  BY <1>6 DEF Stop
<1>7. CASE Boot
  BY <1>0, <1>7, BootKeeps
<1> QED
  BY <1>0, <1>1, <1>2, <1>3, <1>4, <1>5, <1>6, <1>7, BeginKeeps DEF Next

\* Only a Play or a resume of the user's lifts a pause; a boot loads each row
\* with the pause it was stored with.
THEOREM OnlyUserLifts == Spec => UserPauseLifted
<1>1. PInv /\ [Next]_vars =>
        [\A id \in Ids :
           /\ Known(id) /\ rows[id].byUser /\ rows'[id] # NoRow /\ ~rows'[id].byUser =>
                \E p \in Procs : calls[p].id = id /\ calls[p].op \in {"start", "open", "unpause"}
           /\ id \in resume /\ store[id].byUser /\ rows'[id] # NoRow => rows'[id].byUser]_vars
  BY LiftedStep
<1> QED
  BY <1>1, PauseInvariant, PTL DEF Spec, UserPauseLifted

\* While the core runs, the only row that appears is the one its creation has
\* just stored: no snapshot under way brings back a download that was removed.
THEOREM RemovedStaysRemoved == Spec => NeverReturns
<1> DEFINE Returned == resume = {} => \A id \in Ids :
             ~Known(id) /\ rows'[id] # NoRow =>
               \E p \in Procs : calls[p].id = id /\ calls[p].op = "create" /\ At(p, "createRow")
<1>1. ASSUME IInv, [Next]_vars, resume = {}, NEW id \in Ids, rows[id] = NoRow, rows'[id] # NoRow
      PROVE  \E p \in Procs : calls[p].id = id /\ calls[p].op = "create" /\ calls[p].pc = "createRow"
  <2>1. ASSUME NEW p \in Procs, Begin(p) PROVE FALSE
    BY <1>1, <2>1, BeginKeeps
  <2>2. ASSUME NEW p \in Procs, Step(p)
        PROVE  calls[p].id = id /\ calls[p].op = "create" /\ calls[p].pc = "createRow"
    <3>1. CASE calls[p].pc \notin {"create", "createRow", "delete"}
      BY <1>1, <2>2, <3>1, StepRows DEF KeepsRows, SourceKept
    <3>2. CASE calls[p].pc \in {"create", "createRow", "delete"}
      <4>1. rows' = rows \/ (calls[p].pc = "createRow" /\ rows' = [rows EXCEPT ![calls[p].id] = calls[p].row])
        BY <2>2, <3>2 DEF Step, At, SnapshotTask, SnapshotRead, SnapshotForget, SnapshotEnd, Decide, CloseTask,
           Pause, RestartSave, CreateSave, SetRow, StartTask, StartFails, FailRow, FailSave, DeleteDownload
      <4>2. calls[p].pc = "createRow" => calls[p].op = "create"
        BY <1>1, Holding DEF SnapshotPcs, RestartPcs, Control, LockedOps
      <4> QED
        BY <1>1, <4>1, <4>2 DEF IInv, TypeOK
    <3> QED
      BY <3>1, <3>2
  <2>3. ASSUME NEW i \in Ids, Identify(i) PROVE FALSE
    BY <1>1, <2>3, IdentifyRows DEF SourceKept
  <2>4. CASE Environment \/ Stop \/ UNCHANGED vars
    BY <1>1, <2>4 DEF Environment, Arrive, Outside, Stop, vars
  <2>5. CASE Boot
    BY <1>1, <2>5, BootKeeps
  <2> QED
    BY <1>1, <2>1, <2>2, <2>3, <2>4, <2>5 DEF Next
<1>2. IInv /\ [Next]_vars => [Returned]_vars
  BY <1>1 DEF Known, At
<1> QED
  BY <1>2, Invariant, PTL DEF Spec, NeverReturns

-----------------------------------------------------------------------------
(* One download per source.                                                 *)

LEMMA StepUInv ==
  ASSUME IInv, UInv, "delete" \notin Fails, NEW p \in Procs, Step(p)
  PROVE  UInv'
<1> USE DEF UInv
<1> DEFINE c == calls[p]
<1>0. CallGoesOn(p)
  BY StepCalls
<1>a. c.pc # "idle"
  BY DEF Step, At, SnapshotTask, SnapshotRead, SnapshotForget, SnapshotEnd, Decide, CloseTask, Pause,
         RestartSave, CreateSave, SetRow, StartTask, StartFails, FailRow, FailSave, DeleteDownload
<1>b. c.id \in Ids /\ c.row \in Row /\ resume = {}
  BY <1>a, Underway
<1>1. CASE c.pc \notin {"create", "createRow", "delete"}
  <2>1. \A id \in Ids : SourceKept(rows[id], rows'[id]) /\ SourceKept(store[id], store'[id])
    BY <1>1, StepRows DEF KeepsRows
  <2>2. Loaded'
    BY <1>0, <1>1, <1>b, <2>1 DEF Loaded, CallGoesOn, SourceKept
  <2>3. NewLocator'
    BY <1>0, <1>1, <2>1 DEF NewLocator, CallGoesOn, SourceKept
  <2>4. StoreUnique'
    BY <2>1 DEF StoreUnique, SourceKept
  <2> QED
    BY <2>2, <2>3, <2>4
<1>c. ASSUME c.pc \in {"create", "createRow", "delete"}
      PROVE  /\ c.op \in {"create", "remove"} /\ rows[c.id] = NoRow
             /\ \A q \in Procs : q # p => calls[q].op # "remove" /\ calls[q].pc \notin {"create", "createRow"}
  <2>1. c.op \in LockedOps /\ Control(c) /\ CopiedRow(c)
    BY <1>c, Holding DEF SnapshotPcs
  <2>2. c.op \in {"create", "remove"} /\ rows[c.id] = NoRow
    BY <1>c, <2>1 DEF SnapshotPcs, RestartPcs, Control, CopiedRow, LockedOps
  <2> QED
    BY <2>1, <2>2, Alone DEF SnapshotPcs
<1>2. CASE c.pc = "create"
  <2>1. /\ rows' = rows
        /\ \/ store' = [store EXCEPT ![c.id] = c.row] /\ calls' = [calls EXCEPT ![p] = [c EXCEPT !.pc = "createRow"]]
           \/ store' = store /\ Return(p)
    BY <1>2 DEF Step, At, Goto, SnapshotTask, SnapshotRead, SnapshotForget, SnapshotEnd, Decide, CloseTask, Pause,
         RestartSave, CreateSave, SetRow, StartTask, StartFails, FailRow, FailSave, DeleteDownload, Saved, SaveFailed
  <2>2. \A id \in Ids : store[id] # NoRow => rows[id] # NoRow /\ rows[id].loc # c.row.loc /\ store[id].loc = rows[id].loc
    <3>1. ASSUME NEW id \in Ids, store[id] # NoRow PROVE rows[id] # NoRow
      <4>1. c.op # "remove"
        BY <1>2, <1>a, Underway DEF Control
      <4> QED
        BY <1>2, <1>b, <1>c, <3>1, <4>1 DEF Loaded
    <3> QED
      BY <1>2, <3>1 DEF NewLocator, IInv, Recorded
  <2>3. /\ \A id \in Ids : id # c.id => store'[id] = store[id]
        /\ store'[c.id] \in {store[c.id], c.row}
        /\ store' = store \/ (calls'[p].pc = "createRow" /\ calls'[p].id = c.id)
    <3>1. calls \in [Procs -> Call] /\ store \in [Ids -> Row \cup {NoRow}] /\ c \in Call
      BY DEF IInv, TypeOK
    <3> QED
      BY <1>b, <2>1, <3>1 DEF Call
  <2>4. Loaded'
    BY <2>1, <2>2, <2>3 DEF Loaded
  <2>5. NewLocator'
    BY <1>0, <1>2, <2>1 DEF NewLocator, CallGoesOn
  <2>6. StoreUnique'
    BY <2>2, <2>3, <1>c, <1>2 DEF StoreUnique
  <2> QED
    BY <2>4, <2>5, <2>6
<1>3. CASE c.pc = "createRow"
  <2>1. SetRow(p)
    BY <1>3 DEF Step, At, SnapshotTask, SnapshotRead, SnapshotForget, SnapshotEnd, Decide, CloseTask, Pause,
         RestartSave, CreateSave, SetRow, StartTask, StartFails, FailRow, FailSave, DeleteDownload
  <2>2. store' = store /\ rows' = [rows EXCEPT ![c.id] = c.row] /\ c.row # NoRow
    BY <1>b, <2>1, AcquireAssumption DEF SetRow
  <2>3. c.op # "remove"
    BY <1>3, <1>a, Underway DEF Control
  <2>4. Loaded'
    BY <1>3, <1>b, <1>c, <2>2, <2>3 DEF Loaded, IInv, TypeOK
  <2>5. NewLocator'
    BY <1>0, <1>3, <1>c DEF NewLocator, CallGoesOn
  <2> QED
    BY <2>2, <2>4, <2>5 DEF StoreUnique
<1>4. CASE c.pc = "delete"
  <2>1. DeleteDownload(p)
    BY <1>4 DEF Step, At, SnapshotTask, SnapshotRead, SnapshotForget, SnapshotEnd, Decide, CloseTask, Pause,
         RestartSave, CreateSave, SetRow, StartTask, StartFails, FailRow, FailSave, DeleteDownload
  <2>2. store' = [store EXCEPT ![c.id] = NoRow] /\ rows' = rows
    BY <2>1 DEF DeleteDownload
  <2>3. \A id \in Ids : store'[id] = IF id = c.id THEN NoRow ELSE store[id]
    BY <2>2 DEF IInv, TypeOK
  <2>4. Loaded'
    BY <1>4, <1>b, <1>c, <2>2, <2>3 DEF Loaded
  <2>5. NewLocator'
    BY <1>0, <1>4, <1>c DEF NewLocator, CallGoesOn
  <2>6. StoreUnique'
    BY <2>3 DEF StoreUnique
  <2> QED
    BY <2>4, <2>5, <2>6
<1> QED
  BY <1>1, <1>2, <1>3, <1>4

LEMMA BeginUInv ==
  ASSUME IInv, UInv, NEW p \in Procs, Begin(p)
  PROVE  UInv'
<1> USE DEF UInv
<1>0. /\ store' = store /\ resume = {} /\ calls[p] = IdleCall
      /\ \A q \in Procs : q # p => calls'[q] = calls[q]
  <2>1. calls[p].pc = "idle" /\ Control(calls[p])
    BY BeginKeeps DEF IInv
  <2> QED
    BY <2>1, BeginKeeps DEF Control
<1>1. StoreUnique'
  BY <1>0 DEF StoreUnique
<1>2. CASE rows' = rows
  <2>1. Loaded'
    BY <1>0, <1>2 DEF Loaded, IdleCall
  <2>2. ASSUME calls'[p].pc \in {"create", "createRow"}, NEW id \in Ids, rows[id] # NoRow
        PROVE  rows[id].loc # calls'[p].row.loc
    <3>1. ASSUME NEW i \in Ids, BeginLook(p, i) \/ BeginRemove(p, i) PROVE FALSE
      <4> DEFINE look == [IdleCall EXCEPT !.op = "look", !.pc = "copied", !.id = i, !.row = rows[i]]
                 remove == [IdleCall EXCEPT !.op = "remove", !.id = i, !.row = rows[i], !.task = tasks[i],
                                            !.pc = IF tasks[i] = NoTask THEN "delete" ELSE "close"]
      <4>1. \E new \in {look, remove} : calls' = [calls EXCEPT ![p] = new]
        BY <3>1 DEF BeginLook, BeginRemove, Goto
      <4>2. look.pc \notin {"create", "createRow"} /\ remove.pc \notin {"create", "createRow"}
        BY DEF IdleCall
      <4> HIDE DEF look, remove
      <4> QED
        BY <2>2, <4>1, <4>2 DEF IInv, TypeOK
    <3>2. ASSUME NEW i \in Ids, NEW op, BeginLocked(p, op, i) PROVE FALSE
      <4> DEFINE new == [IdleCall EXCEPT !.op = op, !.pc = "copied", !.id = i, !.row = rows[i]]
      <4>1. calls' = [calls EXCEPT ![p] = new] /\ new.pc = "copied"
        BY <3>2 DEF BeginLocked, Goto, IdleCall
      <4> HIDE DEF new
      <4> QED
        BY <2>2, <4>1 DEF IInv, TypeOK
    <3>3. ASSUME NEW op, NEW loc, BeginKnown(p, op, loc) PROVE FALSE
      <4>1. PICK i \in Ids : Goto(p, [IdleCall EXCEPT !.op = op, !.pc = "copied", !.id = i, !.row = rows[i]])
        BY <3>3 DEF BeginKnown
      <4> QED
        BY <2>2, <4>1 DEF Goto, IdleCall, IInv, TypeOK
    <3>4. ASSUME NEW op, NEW loc \in Locs, BeginNew(p, op, loc) PROVE rows[id].loc # calls'[p].row.loc
      <4>1. PICK i \in Ids : Goto(p, [IdleCall EXCEPT !.op = "create", !.pc = "create", !.id = i, !.row = NewRow(loc)])
        BY <3>4 DEF BeginNew
      <4>2. calls'[p].row.loc = loc
        BY <4>1, NewRowFacts DEF Goto, IdleCall, IInv, TypeOK
      <4> QED
        BY <2>2, <3>4, <4>2 DEF BeginNew
    <3> QED
      BY <3>1, <3>2, <3>3, <3>4 DEF Begin
  <2>3. NewLocator'
    BY <1>0, <1>2, <2>2 DEF NewLocator
  <2> QED
    BY <1>1, <2>1, <2>3
<1>3. CASE rows' # rows
  <2>1. PICK id \in Ids : BeginRemove(p, id)
    BY <1>3 DEF Begin, BeginLook, BeginLocked, BeginKnown, BeginNew
  <2> DEFINE new == [IdleCall EXCEPT !.op = "remove", !.id = id, !.row = rows[id], !.task = tasks[id],
                                     !.pc = IF tasks[id] = NoTask THEN "delete" ELSE "close"]
  <2>2. new.op = "remove" /\ new.id = id /\ new.pc \in {"delete", "close"}
    BY DEF IdleCall
  <2>3. startMu = NoProc /\ rows' = [rows EXCEPT ![id] = NoRow] /\ calls' = [calls EXCEPT ![p] = new]
    BY <2>1 DEF BeginRemove, Goto
  <2> HIDE DEF new
  <2>4. calls'[p] = new /\ \A i \in Ids : rows'[i] = IF i = id THEN NoRow ELSE rows[i]
    BY <2>3 DEF IInv, TypeOK
  <2>5. Loaded'
    BY <1>0, <2>2, <2>4 DEF Loaded, IdleCall
  <2>6. \A q \in Procs : calls'[q].pc \notin {"create", "createRow"}
    BY <1>0, <2>2, <2>3, <2>4, NoneHolds DEF SnapshotPcs
  <2>7. NewLocator'
    BY <2>6 DEF NewLocator
  <2> QED
    BY <1>1, <2>5, <2>7
<1> QED
  BY <1>2, <1>3

LEMMA NextUInv == "delete" \notin Fails /\ IInv /\ UInv /\ [Next]_vars => UInv'
<1> SUFFICES ASSUME "delete" \notin Fails, IInv, UInv, [Next]_vars PROVE UInv'
  OBVIOUS
<1>1. ASSUME NEW p \in Procs, Begin(p) \/ Step(p) PROVE UInv'
  BY <1>1, BeginUInv, StepUInv
<1>2. ASSUME NEW id \in Ids, Identify(id) PROVE UInv'
  <2>1. calls' = calls /\ resume' = resume
    BY <1>2 DEF Identify
  <2> QED
    BY <1>2, <2>1, IdentifyRows DEF UInv, Loaded, NewLocator, StoreUnique, SourceKept
<1>3. CASE Environment \/ UNCHANGED vars
  BY <1>3 DEF Environment, Arrive, Outside, vars, UInv, Loaded, NewLocator, StoreUnique
<1>4. CASE Stop
  BY <1>4 DEF Stop, UInv, Loaded, NewLocator, StoreUnique, IdleCall
<1>5. CASE Boot
  <2>1. \A p \in Procs : calls[p] = IdleCall
    BY <1>5, BootKeeps DEF IInv, Locking
  <2>2. calls' = calls
    BY <1>5, BootKeeps
  <2>3. \A id \in Ids : id \in resume /\ id \notin resume' => rows'[id] # NoRow
    <3>1. ASSUME NEW id \in Ids, ResumeSettled(id) PROVE resume' = resume \ {id} /\ rows'[id] # NoRow
      <4>1. store[id] \in Row
        BY <3>1 DEF ResumeSettled, IInv, Recorded, TypeOK
      <4> DEFINE new == Settled(store[id], disk[Place(id, store[id])])
      <4>2. rows' = [rows EXCEPT ![id] = new] /\ resume' = resume \ {id}
        BY <3>1 DEF ResumeSettled
      <4>3. new \in Row
        BY <4>1, RowFacts
      <4> HIDE DEF new
      <4> QED
        BY <4>2, <4>3, AcquireAssumption DEF IInv, TypeOK
    <3>2. ASSUME NEW id \in Ids, ResumeRestart(id) PROVE resume' = resume \ {id} /\ rows'[id] # NoRow
      <4> DEFINE again == Restarted(store[id])
                 failed == [again EXCEPT !.state = "failed"]
      <4>1. store[id] \in Row
        BY <3>2 DEF ResumeRestart, IInv, Recorded, TypeOK
      <4>2. again \in Row /\ failed \in Row
        BY <4>1, RowFacts DEF Row, States
      <4>3. \E new \in {again, failed, store[id]} : rows' = [rows EXCEPT ![id] = new]
        BY <3>2 DEF ResumeRestart
      <4>4. resume' = resume \ {id}
        BY <3>2 DEF ResumeRestart
      <4> HIDE DEF again, failed
      <4> QED
        BY <3>2, <4>1, <4>2, <4>3, <4>4, AcquireAssumption DEF IInv, TypeOK
    <3> QED
      BY <1>5, <3>1, <3>2 DEF Boot
  <2>4. NewLocator'
    BY <2>1, <2>2 DEF NewLocator, IdleCall
  <2>5. Loaded'
    BY <1>5, <2>2, <2>3, BootKeeps DEF UInv, Loaded
  <2>6. StoreUnique'
    BY <1>5, BootKeeps DEF UInv, StoreUnique
  <2> QED
    BY <2>4, <2>5, <2>6 DEF UInv
<1> QED
  BY <1>1, <1>2, <1>3, <1>4, <1>5 DEF Next

\* While the store deletes what Remove asks of it, no two downloads are of one
\* source, in memory or in the store (startMu, findByLocator).
THEOREM OneRowPerSource ==
  ASSUME "delete" \notin Fails
  PROVE  Spec => []UniqueLocator
<1>1. Init => UInv
  BY DEF Init, UInv, Loaded, NewLocator, StoreUnique, IdleCall
<1>2. IInv /\ UInv => UniqueLocator
  BY DEF IInv, Recorded, UInv, StoreUnique, UniqueLocator, Known
<1>3. IInv /\ UInv /\ [Next]_vars => UInv'
  BY NextUInv
<1> QED
  BY <1>1, <1>2, <1>3, Invariant, InitIInv, NextIInv, PTL DEF Spec
=============================================================================
