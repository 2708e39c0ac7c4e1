--------------------------- MODULE TorrentStorage ---------------------------
(***************************************************************************)
(* The files of one torrent on disk: which pieces are recorded as complete,*)
(* which bytes are there, and under which of its two names each file is    *)
(* (core/internal/acquire/torrent/storage.go).                             *)
(*                                                                         *)
(* The client hashes pieces on several goroutines, one at a time per       *)
(* piece; Free runs beside them under Backend.mu, as does Want.  A critical*)
(* section of markMu or of a file's mu is one step, a rename is one, and   *)
(* the core may crash between any two.  A piece with no record and one     *)
(* recorded as missing are the same here, as they are to mark and count.   *)
(***************************************************************************)
EXTENDS Integers, FiniteSets

CONSTANTS
  Files, Pieces,
  FilesOf,    \* the files a piece holds any of
  MaxCrashes, \* a bound
  MaxDamage,  \* how often a file is deleted outside the app (a bound)
  NoFile

ASSUME TorrentStorageAssumption ==
  /\ FilesOf \in [Pieces -> (SUBSET Files) \ {{}}]
  /\ IsFiniteSet(Pieces)
  /\ MaxCrashes \in Nat /\ MaxDamage \in Nat
  /\ NoFile \notin Files

VARIABLES
  rec,     \* the completion record, on disk: pieces recorded as complete
  bytes,   \* per piece and file: "no", "dirty" (written) or "synced"
  name,    \* per file: "none", "part" or "whole", its own name
  open,    \* the storage is open
  count,   \* storedFile.missing, or Uncounted
  freed,   \* storedFile.freed
  op,      \* per piece, the hash under way and the renames it has left
  lost,    \* Completion found a file gone: pieces left to mark, files left to demote
  free,    \* Free under way
  crashes, damage

vars == <<rec, bytes, name, open, count, freed, op, lost, free, crashes, damage>>

Uncounted == -1
NoOp == [pc |-> "idle", files |-> {}]
NoLost == [todo |-> {}, files |-> {}]
NoFree == [pc |-> "idle", file |-> NoFile, todo |-> {}]

PiecesOf(f) == {p \in Pieces : f \in FilesOf[p]}
\* The pieces that hold nothing but f.
Own(f) == {p \in Pieces : FilesOf[p] = {f}}
Missing(f) == Cardinality(PiecesOf(f) \ rec)

TypeOK ==
  /\ rec \subseteq Pieces
  /\ bytes \in [Pieces -> [Files -> {"no", "dirty", "synced"}]]
  /\ name \in [Files -> {"none", "part", "whole"}]
  /\ open \in BOOLEAN
  /\ count \in [Files -> Nat \cup {Uncounted}]
  /\ freed \subseteq Files
  /\ op \in [Pieces -> [pc : {"idle", "sync", "mark", "promote"}, files : SUBSET Files]]
  /\ lost \in [todo : SUBSET Pieces, files : SUBSET Files]
  /\ free \in [pc : {"idle", "forget", "shrink", "replace"}, file : Files \cup {NoFile}, todo : SUBSET Pieces]
  /\ crashes \in 0 .. MaxCrashes /\ damage \in 0 .. MaxDamage

Init ==
  /\ rec = {}
  /\ bytes = [p \in Pieces |-> [f \in Files |-> "no"]]
  /\ name = [f \in Files |-> "none"]
  /\ open = FALSE
  /\ count = [f \in Files |-> Uncounted]
  /\ freed = {}
  /\ op = [p \in Pieces |-> NoOp]
  /\ lost = NoLost
  /\ free = NoFree
  /\ crashes = 0 /\ damage = 0

\* shrink holds the file's mu from the rename to the end.
Locked(f) == free.pc = "replace" /\ free.file = f

\* storedPiece.freed: a piece free took out of its file.
FreedPiece(p) == \E f \in freed : FilesOf[p] = {f}

-----------------------------------------------------------------------------
\* count, of the files of a piece that flipped: counted from the record, which
\* has the piece already, the first time.
Counted(f, record, delta) ==
  IF count[f] = Uncounted THEN Cardinality(PiecesOf(f) \ record)
  ELSE IF count[f] + delta < 0 THEN 0 ELSE count[f] + delta

\* Mutant: the files are left as a crash left them.
OpenAsIs ==
  /\ ~open
  /\ open' = TRUE
  /\ UNCHANGED <<rec, bytes, name, count, freed, op, lost, free, crashes, damage>>

\* OpenTorrent settles every file: the name its record calls for.
OpenTorrent ==
  /\ ~open
  /\ open' = TRUE
  /\ count' = [f \in Files |-> IF name[f] = "none" THEN count[f] ELSE Missing(f)]
  /\ name' = [f \in Files |-> IF name[f] = "none" THEN "none"
                              ELSE IF Missing(f) = 0 THEN "whole" ELSE "part"]
  /\ UNCHANGED <<rec, bytes, freed, op, lost, free, crashes, damage>>

\* A chunk of a piece arrives; use creates the file for it.
WriteAt(p) ==
  /\ open /\ p \notin rec /\ op[p] = NoOp /\ lost = NoLost
  /\ \A f \in FilesOf[p] : ~Locked(f)
  /\ bytes' = [bytes EXCEPT ![p] = [f \in Files |-> IF f \in FilesOf[p] THEN "dirty" ELSE @[f]]]
  /\ name' = [f \in Files |-> IF f \in FilesOf[p] /\ name[f] = "none" THEN "part" ELSE name[f]]
  /\ UNCHANGED <<rec, open, count, freed, op, lost, free, crashes, damage>>

\* The client's hash of a piece read every byte of it, and passed.
Hash(p) ==
  /\ open /\ p \notin rec /\ op[p] = NoOp /\ lost = NoLost /\ ~FreedPiece(p)
  /\ \A f \in FilesOf[p] : bytes[p][f] # "no" /\ ~Locked(f)
  /\ op' = [op EXCEPT ![p].pc = "sync"]
  /\ UNCHANGED <<rec, bytes, name, open, count, freed, lost, free, crashes, damage>>

Synced(fs) ==
  [q \in Pieces |-> [f \in Files |-> IF f \in fs /\ bytes[q][f] = "dirty" THEN "synced" ELSE bytes[q][f]]]

\* MarkComplete syncs the files of the piece ...
Sync(p) ==
  /\ open /\ op[p].pc = "sync"
  /\ \A f \in FilesOf[p] : ~Locked(f)
  /\ bytes' = Synced(FilesOf[p])
  /\ op' = [op EXCEPT ![p].pc = "mark"]
  /\ UNCHANGED <<rec, name, open, count, freed, lost, free, crashes, damage>>

\* Mutant: a freed piece is recorded like any other.
MarkFreed(p) ==
  LET flipped == p \notin rec
      next == [f \in Files |-> IF f \in FilesOf[p] /\ flipped THEN Counted(f, rec \cup {p}, -1) ELSE count[f]]
      whole == {f \in FilesOf[p] : flipped /\ next[f] = 0}
  IN
  /\ open /\ op[p].pc = "mark"
  /\ rec' = rec \cup {p}
  /\ count' = next
  /\ op' = [op EXCEPT ![p] = IF whole = {} THEN NoOp ELSE [pc |-> "promote", files |-> whole]]
  /\ UNCHANGED <<bytes, name, open, freed, lost, free, crashes, damage>>

\* ... marks it, unless it is freed: recorded and counted in one step ...
Mark(p) ==
  LET flipped == p \notin rec /\ ~FreedPiece(p)
      next == [f \in Files |-> IF f \in FilesOf[p] /\ flipped THEN Counted(f, rec \cup {p}, -1) ELSE count[f]]
      whole == {f \in FilesOf[p] : flipped /\ next[f] = 0}
  IN
  /\ open /\ op[p].pc = "mark"
  /\ rec' = IF flipped THEN rec \cup {p} ELSE rec
  /\ count' = next
  /\ op' = [op EXCEPT ![p] = IF whole = {} THEN NoOp ELSE [pc |-> "promote", files |-> whole]]
  /\ UNCHANGED <<bytes, name, open, freed, lost, free, crashes, damage>>

\* ... and gives the files it made whole their own name.
Promote(p, f) ==
  /\ open /\ op[p].pc = "promote" /\ f \in op[p].files /\ ~Locked(f)
  /\ name' = [name EXCEPT ![f] = IF @ = "part" THEN "whole" ELSE @]
  /\ op' = [op EXCEPT ![p] = IF @.files = {f} THEN NoOp ELSE [pc |-> "promote", files |-> @.files \ {f}]]
  /\ UNCHANGED <<rec, bytes, open, count, freed, lost, free, crashes, damage>>

-----------------------------------------------------------------------------
\* A file is deleted outside the app while the core is stopped.
Damage(f) ==
  /\ ~open /\ damage < MaxDamage /\ name[f] # "none"
  /\ damage' = damage + 1
  /\ name' = [name EXCEPT ![f] = "none"]
  /\ bytes' = [p \in Pieces |-> [bytes[p] EXCEPT ![f] = "no"]]
  /\ UNCHANGED <<rec, open, count, freed, op, lost, free, crashes>>

\* Completion of a recorded piece finds its file gone: every piece of the file
\* is to be marked.  The client asks with its own lock held, so hashes under
\* way go on beside it and nothing new begins.
Completion(p, f) ==
  /\ open /\ p \in rec /\ f \in FilesOf[p] /\ name[f] = "none" /\ lost = NoLost
  /\ lost' = [todo |-> PiecesOf(f), files |-> {}]
  /\ UNCHANGED <<rec, bytes, name, open, count, freed, op, free, crashes, damage>>

\* Mutant: a piece is counted whether it flips or not.
MarkNotCompleteAgain(p) ==
  /\ open /\ p \in lost.todo /\ lost.files = {}
  /\ rec' = rec \ {p}
  /\ count' = [f \in Files |-> IF f \in FilesOf[p] THEN Counted(f, rec \ {p}, 1) ELSE count[f]]
  /\ lost' = [todo |-> lost.todo \ {p}, files |-> IF p \in rec THEN FilesOf[p] ELSE {}]
  /\ UNCHANGED <<bytes, name, open, freed, op, free, crashes, damage>>

\* MarkNotComplete: a piece that flips is counted, and demotes its files.
MarkNotComplete(p) ==
  LET flipped == p \in rec IN
  /\ open /\ p \in lost.todo /\ lost.files = {}
  /\ rec' = rec \ {p}
  /\ count' = [f \in Files |-> IF f \in FilesOf[p] /\ flipped THEN Counted(f, rec \ {p}, 1) ELSE count[f]]
  /\ lost' = [todo |-> lost.todo \ {p}, files |-> IF flipped THEN FilesOf[p] ELSE {}]
  /\ UNCHANGED <<bytes, name, open, freed, op, free, crashes, damage>>

Demote(f) ==
  /\ open /\ f \in lost.files /\ ~Locked(f)
  /\ name' = [name EXCEPT ![f] = IF @ = "whole" THEN "part" ELSE @]
  /\ lost' = [lost EXCEPT !.files = @ \ {f}]
  /\ UNCHANGED <<rec, bytes, open, count, freed, op, free, crashes, damage>>

-----------------------------------------------------------------------------
\* free: the pieces of the file alone are recorded as missing ...
FreeMark(f) ==
  /\ open /\ free = NoFree
  /\ freed' = freed \cup {f}
  /\ rec' = rec \ Own(f)
  /\ free' = [pc |-> "forget", file |-> f, todo |-> Own(f)]
  /\ UNCHANGED <<bytes, name, open, count, op, lost, crashes, damage>>

\* ... the client hears of each once no hash of it is under way ...
Forget(p) ==
  /\ open /\ free.pc = "forget" /\ p \in free.todo /\ op[p] = NoOp
  /\ free' = [free EXCEPT !.todo = @ \ {p}]
  /\ UNCHANGED <<rec, bytes, name, open, count, freed, op, lost, crashes, damage>>

\* ... the count is taken anew the next time ...
FreeUncount ==
  /\ open /\ free.pc = "forget" /\ free.todo = {}
  /\ count' = [count EXCEPT ![free.file] = Uncounted]
  /\ free' = [free EXCEPT !.pc = "shrink"]
  /\ UNCHANGED <<rec, bytes, name, open, freed, op, lost, crashes, damage>>

\* ... the file goes back to its .part name ...
Shrink ==
  /\ open /\ free.pc = "shrink"
  /\ name' = [name EXCEPT ![free.file] = IF @ = "whole" THEN "part" ELSE @]
  /\ free' = [free EXCEPT !.pc = "replace"]
  /\ UNCHANGED <<rec, bytes, open, count, freed, op, lost, crashes, damage>>

\* Mutant: the whole file goes, the pieces its neighbours share with it too.
ReplaceNothing ==
  LET f == free.file IN
  /\ open /\ free.pc = "replace"
  /\ bytes' = [p \in Pieces |-> [bytes[p] EXCEPT ![f] = "no"]]
  /\ name' = [name EXCEPT ![f] = "none"]
  /\ free' = NoFree
  /\ UNCHANGED <<rec, open, count, freed, op, lost, crashes, damage>>

\* ... and is replaced by a file with only the bytes it shares, synced, or by
\* none when it shares nothing.
Replace ==
  LET f == free.file IN
  /\ open /\ free.pc = "replace"
  /\ bytes' = [p \in Pieces |-> [bytes[p] EXCEPT ![f] =
       IF p \in Own(f) THEN "no" ELSE IF @ = "dirty" THEN "synced" ELSE @]]
  /\ name' = [name EXCEPT ![f] = IF PiecesOf(f) = Own(f) THEN "none" ELSE @]
  /\ free' = NoFree
  /\ UNCHANGED <<rec, open, count, freed, op, lost, crashes, damage>>

\* want: the file is downloaded again.
Want(f) ==
  /\ open /\ free = NoFree /\ f \in freed
  /\ freed' = freed \ {f}
  /\ UNCHANGED <<rec, bytes, name, open, count, op, lost, free, crashes, damage>>

\* The core stops between two steps; bytes not synced may be gone.
Crash ==
  /\ open /\ crashes < MaxCrashes
  /\ crashes' = crashes + 1
  /\ open' = FALSE
  /\ \E gone \in SUBSET {p \in Pieces : \E f \in Files : bytes[p][f] = "dirty"} :
       bytes' = [p \in Pieces |-> [f \in Files |-> IF p \in gone /\ bytes[p][f] = "dirty" THEN "no" ELSE bytes[p][f]]]
  /\ count' = [f \in Files |-> Uncounted]
  /\ freed' = {} /\ op' = [p \in Pieces |-> NoOp] /\ lost' = NoLost /\ free' = NoFree
  /\ UNCHANGED <<rec, name, damage>>

Next ==
  \/ OpenTorrent \/ FreeUncount \/ Shrink \/ Replace \/ Crash
  \/ \E p \in Pieces : WriteAt(p) \/ Hash(p) \/ Sync(p) \/ Mark(p) \/ MarkNotComplete(p) \/ Forget(p)
  \/ \E p \in Pieces, f \in Files : Promote(p, f) \/ Completion(p, f)
  \/ \E f \in Files : Demote(f) \/ Damage(f) \/ FreeMark(f) \/ Want(f)

Spec == Init /\ [][Next]_vars

-----------------------------------------------------------------------------
Quiet(f) == /\ free.file # f
            /\ lost = NoLost
            /\ \A p \in Pieces : f \notin op[p].files

\* MarkComplete: "a crash never leaves a record of data that is not there", nor
\* does free, however the two meet: but for a file deleted outside, a piece
\* recorded as complete has all its bytes synced.
RecordHasBytes ==
  damage = 0 => \A p \in rec : \A f \in FilesOf[p] : bytes[p][f] = "synced"

\* markMu: no piece is taken off a count twice.  But for a free under way, a
\* count is that of the record.
CountRight ==
  \A f \in Files : count[f] # Uncounted /\ free.file # f => count[f] = Missing(f)

\* freed: "A hash of it that read the bytes before they went, or a chunk that
\* was on its way, must not make it complete again".
FreedStaysMissing == \A f \in freed : Own(f) \cap rec = {}

\* settle: no crash leaves "a whole file under .part for good": once nothing is
\* under way, a file every piece of which is in has its own name.
WholeIsNamed ==
  \A f \in Files :
    open /\ Quiet(f) /\ name[f] # "none" /\ PiecesOf(f) \subseteq rec => name[f] = "whole"

\* current: the file's bytes are under "its own name once complete, the .part
\* name until then": the same of a file that is wanted, whatever was done to it
\* before.
WantedIsNamed ==
  \A f \in Files :
    open /\ Quiet(f) /\ f \notin freed /\ name[f] # "none" /\ PiecesOf(f) \subseteq rec => name[f] = "whole"

\* MarkNotComplete: "a file under its own name is one the library treats as
\* whole": once nothing is under way, such a file has every piece in.
WholeNameIsWhole ==
  \A f \in Files :
    open /\ Quiet(f) /\ name[f] = "whole" => PiecesOf(f) \subseteq rec
=============================================================================
