------------------------ MODULE TorrentStorageProofs ------------------------
(***************************************************************************)
(* The record of a torrent's pieces and the bytes and names of its files,  *)
(* for any number of files and pieces, any layout of the one over the      *)
(* other, and any number of crashes and of files deleted outside.          *)
(***************************************************************************)
EXTENDS TorrentStorage, FiniteSetTheorems, TLAPS

Hashing == [pc : {"idle", "sync", "mark", "promote"}, files : SUBSET Files]

\* A core that is stopped remembers nothing.
Stopped ==
  ~open => /\ count = [f \in Files |-> Uncounted] /\ freed = {}
           /\ op = [p \in Pieces |-> NoOp] /\ lost = NoLost /\ free = NoFree

\* A hash is of a piece not recorded yet, and nothing takes a byte from under
\* it: what it read is there until it is recorded.
HashOK(p) ==
  /\ op[p].pc # "promote" => op[p].files = {}
  /\ op[p].pc \in {"sync", "mark"} => p \notin rec
  /\ op[p].pc = "sync" => \A f \in FilesOf[p] : bytes[p][f] # "no"
  /\ op[p].pc = "mark" => \A f \in FilesOf[p] : bytes[p][f] = "synced"

\* A file is freed for as long as its free goes on, and no hash is of a piece
\* the client has heard is gone.
FreeOK ==
  /\ free.pc = "idle" => free = NoFree
  /\ free.pc # "idle" =>
       /\ free.file \in freed
       /\ \A p \in Own(free.file) : p \notin free.todo => op[p] = NoOp
  /\ free.pc \in {"shrink", "replace"} => free.todo = {}

\* A file to demote lacks a piece that no hash is about to record.
LostOK ==
  \A f \in lost.files : \E q \in PiecesOf(f) : q \notin rec /\ op[q].pc \notin {"sync", "mark"}

\* No piece is taken off a count twice: but for a free that has withdrawn
\* pieces and not reset the count yet, a count is that of the record.
Exact(f) ==
  count[f] # Uncounted /\ ~(free.pc = "forget" /\ free.file = f) => count[f] = Missing(f)

IInv ==
  /\ TypeOK
  /\ Stopped /\ FreeOK /\ LostOK
  /\ RecordHasBytes /\ FreedStaysMissing
  /\ \A p \in Pieces : HashOK(p)
  /\ \A f \in Files : Exact(f)

-----------------------------------------------------------------------------
(* Counting.                                                                *)

\* A piece that is recorded is one less to come, and one struck from the
\* record is one more.
LEMMA OnePiece ==
  ASSUME NEW f \in Files, NEW record, NEW p \in PiecesOf(f), p \notin record
  PROVE  /\ Cardinality(PiecesOf(f) \ record) \in Nat
         /\ Cardinality(PiecesOf(f) \ (record \cup {p})) \in Nat
         /\ Cardinality(PiecesOf(f) \ record) = Cardinality(PiecesOf(f) \ (record \cup {p})) + 1
<1> DEFINE S == PiecesOf(f) \ (record \cup {p})
<1>1. PiecesOf(f) \ record = S \cup {p} /\ p \notin S
  OBVIOUS
<1>2. IsFiniteSet(S)
  <2>1. S \subseteq Pieces
    BY DEF PiecesOf
  <2> QED
    BY <2>1, FS_Subset, TorrentStorageAssumption
<1> HIDE DEF S
<1>3. IsFiniteSet(S \cup {p}) /\ Cardinality(S \cup {p}) = Cardinality(S) + 1
  BY <1>1, <1>2, FS_AddElement
<1> QED
  BY <1>1, <1>2, <1>3, FS_CardinalityType DEF S

LEMMA CountsPieces ==
  ASSUME NEW f \in Files, NEW record
  PROVE  /\ Cardinality(PiecesOf(f) \ record) \in Nat
         /\ Cardinality(PiecesOf(f) \ record) = 0 <=> PiecesOf(f) \subseteq record
<1>1. IsFiniteSet(PiecesOf(f) \ record)
  <2>1. PiecesOf(f) \ record \subseteq Pieces
    BY DEF PiecesOf
  <2> QED
    BY <2>1, FS_Subset, TorrentStorageAssumption
<1> QED
  BY <1>1, FS_EmptySet, FS_CardinalityType

\* Recording a piece: each of its files is counted from the record afresh, or
\* takes one off a count that was right.
LEMMA MarkCounts ==
  ASSUME IInv, NEW p \in Pieces, p \notin rec, NEW f \in FilesOf[p]
  PROVE  /\ Counted(f, rec \cup {p}, -1) \in Nat
         /\ ~(free.pc = "forget" /\ free.file = f) => Counted(f, rec \cup {p}, -1) = Cardinality(PiecesOf(f) \ (rec \cup {p}))
<1>1. f \in Files /\ p \in PiecesOf(f)
  BY TorrentStorageAssumption DEF PiecesOf
<1>2. /\ Cardinality(PiecesOf(f) \ rec) \in Nat
      /\ Cardinality(PiecesOf(f) \ (rec \cup {p})) \in Nat
      /\ Cardinality(PiecesOf(f) \ rec) = Cardinality(PiecesOf(f) \ (rec \cup {p})) + 1
  BY <1>1, OnePiece
<1>3. count[f] \in Nat \cup {Uncounted} /\ Exact(f)
  BY <1>1 DEF IInv, TypeOK
<1> QED
  BY <1>2, <1>3 DEF Counted, Exact, Missing, Uncounted

\* Striking one from the record.
LEMMA StrikeCounts ==
  ASSUME IInv, NEW p \in Pieces, p \in rec, NEW f \in FilesOf[p]
  PROVE  /\ Counted(f, rec \ {p}, 1) \in Nat
         /\ ~(free.pc = "forget" /\ free.file = f) => Counted(f, rec \ {p}, 1) = Cardinality(PiecesOf(f) \ (rec \ {p}))
<1>1. f \in Files /\ p \in PiecesOf(f)
  BY TorrentStorageAssumption DEF PiecesOf
<1>2. p \notin rec \ {p} /\ (rec \ {p}) \cup {p} = rec
  OBVIOUS
<1>r. PICK r : r = rec \ {p}
  OBVIOUS
<1>3. /\ Cardinality(PiecesOf(f) \ (rec \ {p})) \in Nat
      /\ Cardinality(PiecesOf(f) \ rec) \in Nat
      /\ Cardinality(PiecesOf(f) \ (rec \ {p})) = Cardinality(PiecesOf(f) \ rec) + 1
  <2>1. p \in PiecesOf(f) /\ p \notin r /\ r \cup {p} = rec
    BY <1>1, <1>2, <1>r
  <2>2. /\ Cardinality(PiecesOf(f) \ r) \in Nat
        /\ Cardinality(PiecesOf(f) \ (r \cup {p})) \in Nat
        /\ Cardinality(PiecesOf(f) \ r) = Cardinality(PiecesOf(f) \ (r \cup {p})) + 1
    BY <1>1, <2>1, OnePiece
  <2> QED
    BY <1>r, <2>1, <2>2
<1>4. count[f] \in Nat \cup {Uncounted} /\ Exact(f)
  BY <1>1 DEF IInv, TypeOK
<1> QED
  BY <1>3, <1>4 DEF Counted, Exact, Missing, Uncounted

-----------------------------------------------------------------------------
(* What the steps of a hash have in common.                                 *)

\* A step of the hash of one piece leaves a free alone: no hash of a piece the
\* client has heard is gone is under way, and none begins.
LEMMA FreeKept ==
  ASSUME IInv, NEW p \in Pieces, \A q \in Pieces : q # p => op'[q] = op[q],
         free' = free, freed' = freed, op[p].pc # "idle" \/ ~FreedPiece(p)
  PROVE  FreeOK'
<1>1. FreeOK
  BY DEF IInv
<1>2. ASSUME free.pc # "idle", p \in Own(free.file), p \notin free.todo PROVE FALSE
  <2>1. op[p] = NoOp /\ free.file \in freed
    BY <1>1, <1>2 DEF FreeOK
  <2>2. FreedPiece(p) /\ op[p].pc = "idle"
    BY <1>2, <2>1 DEF FreedPiece, Own, NoOp
  <2> QED
    BY <2>2
<1>3. \A q \in Own(free.file) : q \in Pieces
  BY DEF Own
<1>4. Own(free.file)' = Own(free.file)
  BY DEF Own
<1> QED
  BY <1>1, <1>2, <1>3, <1>4 DEF FreeOK

\* Nor does it record the piece a file to demote lacks.
LEMMA LostKept ==
  ASSUME IInv, NEW p \in Pieces, \A q \in Pieces : q # p => op'[q] = op[q] /\ (q \in rec' => q \in rec),
         lost'.files \subseteq lost.files,
         op[p].pc \in {"sync", "mark"} \/ (rec' = rec /\ op'[p].pc \notin {"sync", "mark"})
  PROVE  LostOK'
<1>1. LostOK
  BY DEF IInv
<1> SUFFICES ASSUME NEW f \in lost'.files
             PROVE  \E q \in PiecesOf(f) : q \notin rec' /\ op'[q].pc \notin {"sync", "mark"}
  BY DEF LostOK, PiecesOf
<1>2. PICK q \in PiecesOf(f) : q \notin rec /\ op[q].pc \notin {"sync", "mark"}
  BY <1>1 DEF LostOK
<1>3. q \in Pieces
  BY DEF PiecesOf
<1> QED
  BY <1>2, <1>3

\* Another piece's hash is as it was while its bytes are.
LEMMA HashKept ==
  ASSUME IInv, NEW q \in Pieces, op'[q] = op[q], q \in rec' => q \in rec,
         op[q].pc # "idle" => \A f \in FilesOf[q] : bytes'[q][f] = bytes[q][f]
                              \/ (bytes[q][f] = "dirty" /\ bytes'[q][f] = "synced")
  PROVE  HashOK(q)'
<1>1. HashOK(q)
  BY DEF IInv
<1> QED
  BY <1>1 DEF HashOK

\* What Mark does, of a piece that is not recorded yet.
Finished(p) == {f \in FilesOf[p] : ~FreedPiece(p) /\ Counted(f, rec \cup {p}, -1) = 0}
LEMMA MarkFacts ==
  ASSUME IInv, NEW p \in Pieces, Mark(p)
  PROVE  /\ open /\ op[p].pc = "mark" /\ op[p].files = {} /\ p \notin rec
         /\ \A f \in FilesOf[p] : bytes[p][f] = "synced"
         /\ rec' = IF FreedPiece(p) THEN rec ELSE rec \cup {p}
         /\ count' = [f \in Files |-> IF f \in FilesOf[p] /\ ~FreedPiece(p) THEN Counted(f, rec \cup {p}, -1) ELSE count[f]]
         /\ \A q \in Pieces : q # p => op'[q] = op[q]
         /\ op'[p] = IF Finished(p) = {} THEN NoOp ELSE [pc |-> "promote", files |-> Finished(p)]
         /\ op' \in [Pieces -> Hashing]
         /\ UNCHANGED <<bytes, name, open, freed, lost, free, crashes, damage>>
<1> DEFINE next == [f \in Files |-> IF f \in FilesOf[p] /\ p \notin rec /\ ~FreedPiece(p)
                                    THEN Counted(f, rec \cup {p}, -1) ELSE count[f]]
           whole == {f \in FilesOf[p] : p \notin rec /\ ~FreedPiece(p) /\ next[f] = 0}
<1>1. /\ open /\ op[p].pc = "mark"
      /\ rec' = IF p \notin rec /\ ~FreedPiece(p) THEN rec \cup {p} ELSE rec
      /\ count' = next
      /\ op' = [op EXCEPT ![p] = IF whole = {} THEN NoOp ELSE [pc |-> "promote", files |-> whole]]
      /\ UNCHANGED <<bytes, name, open, freed, lost, free, crashes, damage>>
  BY DEF Mark
<1>2. op[p].files = {} /\ p \notin rec /\ \A f \in FilesOf[p] : bytes[p][f] = "synced"
  BY <1>1 DEF IInv, HashOK
<1>3. FilesOf[p] \subseteq Files
  BY TorrentStorageAssumption
<1>4. whole = Finished(p) /\ Finished(p) \subseteq Files
  BY <1>2, <1>3 DEF Finished
<1>5. /\ op'[p] = IF whole = {} THEN NoOp ELSE [pc |-> "promote", files |-> whole]
      /\ \A q \in Pieces : q # p => op'[q] = op[q]
  BY <1>1 DEF IInv, TypeOK
<1> HIDE DEF whole
<1>6. op' \in [Pieces -> Hashing]
  BY <1>1, <1>4 DEF IInv, TypeOK, Hashing, NoOp
<1> QED
  BY <1>1, <1>2, <1>4, <1>5, <1>6

-----------------------------------------------------------------------------
(* Every step keeps the invariant.                                          *)
LEMMA OpenTorrentInv ==
  ASSUME IInv, OpenTorrent
  PROVE  IInv'
<1>1. TypeOK'
  BY CountsPieces DEF IInv, TypeOK, OpenTorrent, Missing
<1>2. Stopped'
  BY DEF IInv, NoOp, NoLost, NoFree, Stopped, OpenTorrent
<1>3. FreeOK'
  BY DEF IInv, NoOp, NoLost, NoFree, FreeOK, Own, OpenTorrent
<1>4. LostOK'
  BY DEF IInv, NoOp, NoLost, NoFree, LostOK, PiecesOf, OpenTorrent
<1>5. RecordHasBytes'
  BY DEF IInv, RecordHasBytes, OpenTorrent
<1>6. FreedStaysMissing'
  BY DEF IInv, FreedStaysMissing, Own, OpenTorrent
<1>7. ASSUME NEW q \in Pieces PROVE HashOK(q)'
  BY DEF IInv, NoOp, NoLost, NoFree, HashOK, OpenTorrent
<1>8. ASSUME NEW g \in Files PROVE Exact(g)'
  BY DEF IInv, Exact, Missing, PiecesOf, OpenTorrent
<1> QED
  BY <1>1, <1>2, <1>3, <1>4, <1>5, <1>6, <1>7, <1>8 DEF IInv

LEMMA WriteAtInv ==
  ASSUME IInv, NEW p \in Pieces, WriteAt(p)
  PROVE  IInv'
<1>1. TypeOK'
  BY DEF IInv, TypeOK, NoOp, NoLost, NoFree, WriteAt
<1>2. Stopped'
  BY DEF IInv, NoOp, NoLost, NoFree, Stopped, WriteAt
<1>3. FreeOK'
  BY DEF IInv, NoOp, NoLost, NoFree, FreeOK, Own, WriteAt
<1>4. LostOK'
  BY DEF IInv, NoOp, NoLost, NoFree, LostOK, PiecesOf, WriteAt
<1>5. RecordHasBytes'
  BY DEF IInv, RecordHasBytes, WriteAt
<1>6. FreedStaysMissing'
  BY DEF IInv, FreedStaysMissing, Own, WriteAt
<1>7. ASSUME NEW q \in Pieces PROVE HashOK(q)'
  <2>1. op'[q] = op[q] /\ rec' = rec /\ (op[q].pc # "idle" => bytes'[q] = bytes[q])
    BY DEF WriteAt, NoOp, IInv, TypeOK
  <2> QED
    BY <2>1, HashKept
<1>8. ASSUME NEW g \in Files PROVE Exact(g)'
  BY DEF IInv, Exact, Missing, PiecesOf, WriteAt
<1> QED
  BY <1>1, <1>2, <1>3, <1>4, <1>5, <1>6, <1>7, <1>8 DEF IInv

LEMMA HashInv ==
  ASSUME IInv, NEW p \in Pieces, Hash(p)
  PROVE  IInv'
<1>a. /\ op'[p].pc = "sync" /\ op'[p].files = {} /\ \A q \in Pieces : q # p => op'[q] = op[q]
      /\ ~FreedPiece(p) /\ \A f \in FilesOf[p] : bytes[p][f] # "no"
      /\ lost = NoLost /\ p \notin rec
      /\ UNCHANGED <<rec, bytes, name, open, count, freed, lost, free, crashes, damage>>
  BY DEF Hash, NoOp, IInv, TypeOK
<1>1. TypeOK'
  BY DEF IInv, TypeOK, NoOp, NoLost, NoFree, Hash
<1>2. Stopped'
  BY DEF IInv, NoOp, NoLost, NoFree, Stopped, Hash
<1>3. FreeOK'
  BY <1>a, FreeKept
<1>4. LostOK'
  BY <1>a DEF LostOK, NoLost
<1>5. RecordHasBytes'
  BY DEF IInv, RecordHasBytes, Hash
<1>6. FreedStaysMissing'
  BY DEF IInv, FreedStaysMissing, Own, Hash
<1>7. ASSUME NEW q \in Pieces PROVE HashOK(q)'
  <2>1. CASE q = p
    BY <1>a, <2>1 DEF HashOK
  <2>2. CASE q # p
    BY <1>a, <2>2, HashKept
  <2> QED
    BY <2>1, <2>2
<1>8. ASSUME NEW g \in Files PROVE Exact(g)'
  BY DEF IInv, Exact, Missing, PiecesOf, Hash
<1> QED
  BY <1>1, <1>2, <1>3, <1>4, <1>5, <1>6, <1>7, <1>8 DEF IInv

LEMMA SyncInv ==
  ASSUME IInv, NEW p \in Pieces, Sync(p)
  PROVE  IInv'
<1>a. /\ op[p].pc = "sync" /\ op'[p].pc = "mark" /\ op'[p].files = op[p].files /\ op' \in [Pieces -> Hashing]
      /\ \A q \in Pieces : q # p => op'[q] = op[q]
      /\ UNCHANGED <<rec, name, open, count, freed, lost, free, crashes, damage>>
  BY DEF Sync, IInv, TypeOK, Hashing
<1>b. /\ bytes' \in [Pieces -> [Files -> {"no", "dirty", "synced"}]]
      /\ \A q \in Pieces, f \in Files :
           bytes'[q][f] = IF f \in FilesOf[p] /\ bytes[q][f] = "dirty" THEN "synced" ELSE bytes[q][f]
  BY DEF Sync, Synced, IInv, TypeOK
<1>c. \A q \in Pieces : FilesOf[q] \subseteq Files
  BY TorrentStorageAssumption
<1>1. TypeOK'
  BY <1>a, <1>b DEF IInv, TypeOK, Hashing
<1>2. Stopped'
  BY DEF IInv, NoOp, NoLost, NoFree, Stopped, Sync
<1>3. FreeOK'
  BY <1>a, FreeKept
<1>4. LostOK'
  BY <1>a, LostKept
<1>5. RecordHasBytes'
  <2>1. rec \subseteq Pieces /\ RecordHasBytes
    BY DEF IInv, TypeOK
  <2> QED
    BY <1>a, <1>b, <1>c, <2>1 DEF RecordHasBytes
<1>6. FreedStaysMissing'
  BY DEF IInv, FreedStaysMissing, Own, Sync
<1>7. ASSUME NEW q \in Pieces PROVE HashOK(q)'
  <2>1. CASE q = p
    <3>1. HashOK(p) /\ bytes \in [Pieces -> [Files -> {"no", "dirty", "synced"}]]
      BY DEF IInv, TypeOK
    <3>2. \A f \in FilesOf[p] : bytes'[p][f] = "synced"
      BY <1>a, <1>b, <1>c, <3>1 DEF HashOK
    <3> QED
      BY <1>a, <2>1, <3>1, <3>2 DEF HashOK
  <2>2. CASE q # p
    BY <1>a, <1>b, <1>c, <2>2, HashKept
  <2> QED
    BY <2>1, <2>2
<1>8. ASSUME NEW g \in Files PROVE Exact(g)'
  BY DEF IInv, Exact, Missing, PiecesOf, Sync
<1> QED
  BY <1>1, <1>2, <1>3, <1>4, <1>5, <1>6, <1>7, <1>8 DEF IInv

LEMMA MarkInv ==
  ASSUME IInv, NEW p \in Pieces, Mark(p)
  PROVE  IInv'
<1>a. \A f \in FilesOf[p] : f \in Files
  BY TorrentStorageAssumption
<1>m. /\ open /\ op[p].pc = "mark" /\ op[p].files = {} /\ p \notin rec
      /\ \A f \in FilesOf[p] : bytes[p][f] = "synced"
      /\ rec' = IF FreedPiece(p) THEN rec ELSE rec \cup {p}
      /\ count' = [f \in Files |-> IF f \in FilesOf[p] /\ ~FreedPiece(p) THEN Counted(f, rec \cup {p}, -1) ELSE count[f]]
      /\ \A q \in Pieces : q # p => op'[q] = op[q]
      /\ op'[p].pc \notin {"sync", "mark"} /\ (op'[p].pc # "promote" => op'[p].files = {})
      /\ op' \in [Pieces -> Hashing]
      /\ UNCHANGED <<bytes, name, open, freed, lost, free, crashes, damage>>
  <2>1. op'[p] = NoOp \/ op'[p] = [pc |-> "promote", files |-> Finished(p)]
    BY MarkFacts
  <2>2. op'[p].pc \notin {"sync", "mark"} /\ (op'[p].pc # "promote" => op'[p].files = {})
    BY <2>1 DEF NoOp
  <2> QED
    BY <2>2, MarkFacts
<1>1. TypeOK'
  <2>1. \A f \in FilesOf[p] : Counted(f, rec \cup {p}, -1) \in Nat
    BY <1>m, MarkCounts
  <2> QED
    BY <2>1, <1>m DEF IInv, TypeOK, Hashing
<1>2. Stopped'
  BY <1>m DEF Stopped
<1>3. FreeOK'
  <2>1. op[p].pc = "mark" /\ (\A q \in Pieces : q # p => op'[q] = op[q]) /\ free' = free /\ freed' = freed
    BY <1>m
  <2> QED
    BY <2>1, FreeKept
<1>4. LostOK'
  <2>1. /\ op[p].pc = "mark" /\ lost' = lost
        /\ \A q \in Pieces : q # p => op'[q] = op[q] /\ (q \in rec' => q \in rec)
    BY <1>m
  <2> QED
    BY <2>1, LostKept
<1>5. RecordHasBytes'
  <2>1. RecordHasBytes
    BY DEF IInv
  <2> QED
    BY <2>1, <1>m DEF RecordHasBytes
<1>6. FreedStaysMissing'
  <2>1. FreedStaysMissing
    BY DEF IInv
  <2> QED
    BY <2>1, <1>m DEF FreedStaysMissing, FreedPiece, Own
<1>7. ASSUME NEW q \in Pieces PROVE HashOK(q)'
  <2>1. CASE q = p
    BY <2>1, <1>m DEF HashOK, NoOp
  <2>2. CASE q # p
    <3>1. op'[q] = op[q] /\ (q \in rec' => q \in rec) /\ bytes' = bytes
      BY <2>2, <1>m
    <3> QED
      BY <3>1, HashKept
  <2> QED
    BY <2>1, <2>2
<1>8. ASSUME NEW g \in Files PROVE Exact(g)'
  <2>1. Exact(g) /\ p \notin rec /\ free' = free
    BY <1>m DEF IInv
  <2>2. CASE g \in FilesOf[p] /\ ~FreedPiece(p)
    <3>1. count'[g] = Counted(g, rec \cup {p}, -1) /\ rec' = rec \cup {p}
      BY <2>2, <1>m
    <3>2. ~(free.pc = "forget" /\ free.file = g) => count'[g] = Cardinality(PiecesOf(g) \ rec')
      BY <1>m, <2>1, <2>2, <3>1, MarkCounts
    <3> QED
      BY <2>1, <3>2 DEF Exact, Missing, PiecesOf
  <2>3. CASE ~(g \in FilesOf[p] /\ ~FreedPiece(p))
    <3>1. count'[g] = count[g]
      BY <2>3, <1>m
    <3>2. PiecesOf(g) \ rec' = PiecesOf(g) \ rec
      BY <2>3, <1>m DEF PiecesOf
    <3>3. Missing(g)' = Missing(g)
      BY <3>2 DEF Missing, PiecesOf
    <3> QED
      BY <2>1, <3>1, <3>3 DEF Exact
  <2> QED
    BY <2>2, <2>3
<1> QED
  BY <1>1, <1>2, <1>3, <1>4, <1>5, <1>6, <1>7, <1>8 DEF IInv

LEMMA PromoteInv ==
  ASSUME IInv, NEW p \in Pieces, NEW f \in Files, Promote(p, f)
  PROVE  IInv'
<1>a. op[p] \in Hashing /\ op[p].pc = "promote"
  BY DEF Promote, IInv, TypeOK, Hashing
<1>b. /\ op'[p] \in Hashing /\ op'[p].pc \notin {"sync", "mark"}
      /\ op'[p].pc # "promote" => op'[p].files = {}
  <2>1. CASE op[p].files = {f}
    <3>1. op'[p] = NoOp
      BY <2>1 DEF Promote, IInv, TypeOK
    <3> QED
      BY <3>1 DEF Hashing, NoOp
  <2>2. CASE op[p].files # {f}
    <3>1. op'[p] = [pc |-> "promote", files |-> op[p].files \ {f}]
      BY <2>2 DEF Promote, IInv, TypeOK
    <3> QED
      BY <1>a, <3>1 DEF Hashing
  <2> QED
    BY <2>1, <2>2
<1>c. /\ \A q \in Pieces : q # p => op'[q] = op[q]
      /\ op' \in [Pieces -> Hashing]
      /\ UNCHANGED <<rec, bytes, open, count, freed, lost, free, crashes, damage>>
  BY <1>b DEF Promote, IInv, TypeOK, Hashing
<1>1. TypeOK'
  BY <1>c DEF Promote, IInv, TypeOK, Hashing
<1>2. Stopped'
  BY DEF IInv, NoOp, NoLost, NoFree, Stopped, Promote
<1>3. FreeOK'
  BY <1>a, <1>c, FreeKept
<1>4. LostOK'
  BY <1>b, <1>c, LostKept
<1>5. RecordHasBytes'
  BY DEF IInv, RecordHasBytes, Promote
<1>6. FreedStaysMissing'
  BY DEF IInv, FreedStaysMissing, Own, Promote
<1>7. ASSUME NEW q \in Pieces PROVE HashOK(q)'
  <2>1. CASE q = p
    BY <1>b, <2>1 DEF HashOK
  <2>2. CASE q # p
    BY <1>c, <2>2, HashKept
  <2> QED
    BY <2>1, <2>2
<1>8. ASSUME NEW g \in Files PROVE Exact(g)'
  BY DEF IInv, Exact, Missing, PiecesOf, Promote
<1> QED
  BY <1>1, <1>2, <1>3, <1>4, <1>5, <1>6, <1>7, <1>8 DEF IInv

LEMMA DamageInv ==
  ASSUME IInv, NEW f \in Files, Damage(f)
  PROVE  IInv'
<1>a. ~open /\ \A q \in Pieces : op[q] = NoOp /\ op'[q] = NoOp
  BY DEF Damage, IInv, Stopped
<1>1. TypeOK'
  BY TorrentStorageAssumption DEF IInv, TypeOK, Damage
<1>2. Stopped'
  BY DEF IInv, NoOp, NoLost, NoFree, Stopped, Damage
<1>3. FreeOK'
  BY DEF IInv, NoOp, NoLost, NoFree, FreeOK, Own, Damage
<1>4. LostOK'
  BY DEF IInv, NoOp, NoLost, NoFree, LostOK, PiecesOf, Damage
<1>5. RecordHasBytes'
  <2>1. damage' # 0
    BY DEF Damage, IInv, TypeOK
  <2> QED
    BY <2>1 DEF RecordHasBytes
<1>6. FreedStaysMissing'
  BY DEF IInv, FreedStaysMissing, Own, Damage
<1>7. ASSUME NEW q \in Pieces PROVE HashOK(q)'
  BY <1>a DEF HashOK, NoOp
<1>8. ASSUME NEW g \in Files PROVE Exact(g)'
  BY DEF IInv, Exact, Missing, PiecesOf, Damage
<1> QED
  BY <1>1, <1>2, <1>3, <1>4, <1>5, <1>6, <1>7, <1>8 DEF IInv

LEMMA CompletionInv ==
  ASSUME IInv, NEW p \in Pieces, NEW f \in Files, Completion(p, f)
  PROVE  IInv'
<1>1. TypeOK'
  BY DEF IInv, TypeOK, PiecesOf, Completion
<1>2. Stopped'
  BY DEF IInv, NoOp, NoLost, NoFree, Stopped, Completion
<1>3. FreeOK'
  BY DEF IInv, NoOp, NoLost, NoFree, FreeOK, Own, Completion
<1>4. LostOK'
  BY DEF IInv, NoOp, NoLost, NoFree, LostOK, PiecesOf, Completion
<1>5. RecordHasBytes'
  BY DEF IInv, RecordHasBytes, Completion
<1>6. FreedStaysMissing'
  BY DEF IInv, FreedStaysMissing, Own, Completion
<1>7. ASSUME NEW q \in Pieces PROVE HashOK(q)'
  BY DEF IInv, NoOp, NoLost, NoFree, HashOK, Completion
<1>8. ASSUME NEW g \in Files PROVE Exact(g)'
  BY DEF IInv, Exact, Missing, PiecesOf, Completion
<1> QED
  BY <1>1, <1>2, <1>3, <1>4, <1>5, <1>6, <1>7, <1>8 DEF IInv

LEMMA MarkNotCompleteInv ==
  ASSUME IInv, NEW p \in Pieces, MarkNotComplete(p)
  PROVE  IInv'
<1>a. \A f \in FilesOf[p] : f \in Files /\ p \in PiecesOf(f)
  BY TorrentStorageAssumption DEF PiecesOf
<1>1. TypeOK'
  <2>1. p \in rec => \A f \in FilesOf[p] : Counted(f, rec \ {p}, 1) \in Nat
    BY StrikeCounts
  <2>2. FilesOf[p] \subseteq Files
    BY <1>a
  <2> QED
    BY <2>1, <2>2 DEF IInv, TypeOK, MarkNotComplete
<1>2. Stopped'
  BY DEF IInv, NoOp, NoLost, NoFree, Stopped, MarkNotComplete
<1>3. FreeOK'
  BY DEF IInv, NoOp, NoLost, NoFree, FreeOK, Own, MarkNotComplete
<1>4. LostOK'
  <2>1. p \in rec => op[p].pc \notin {"sync", "mark"}
    BY DEF IInv, HashOK
  <2>2. /\ lost'.files = IF p \in rec THEN FilesOf[p] ELSE {}
        /\ p \notin rec' /\ op' = op
    BY DEF MarkNotComplete
  <2> QED
    BY <1>a, <2>1, <2>2 DEF LostOK, PiecesOf
<1>5. RecordHasBytes'
  BY DEF IInv, RecordHasBytes, MarkNotComplete
<1>6. FreedStaysMissing'
  BY DEF IInv, FreedStaysMissing, Own, MarkNotComplete
<1>7. ASSUME NEW q \in Pieces PROVE HashOK(q)'
  BY DEF IInv, NoOp, NoLost, NoFree, HashOK, MarkNotComplete
<1>8. ASSUME NEW g \in Files PROVE Exact(g)'
  <2>1. /\ Exact(g) /\ free' = free /\ rec' = rec \ {p}
        /\ count'[g] = IF g \in FilesOf[p] /\ p \in rec THEN Counted(g, rec \ {p}, 1) ELSE count[g]
    BY DEF IInv, MarkNotComplete
  <2>2. CASE g \in FilesOf[p] /\ p \in rec
    <3>1. ~(free.pc = "forget" /\ free.file = g) => count'[g] = Cardinality(PiecesOf(g) \ rec')
      BY <2>1, <2>2, StrikeCounts
    <3> QED
      BY <2>1, <3>1 DEF Exact, Missing, PiecesOf
  <2>3. CASE ~(g \in FilesOf[p] /\ p \in rec)
    <3>1. PiecesOf(g) \ rec' = PiecesOf(g) \ rec
      BY <2>1, <2>3 DEF PiecesOf
    <3>2. Missing(g)' = Missing(g)
      BY <3>1 DEF Missing, PiecesOf
    <3> QED
      BY <2>1, <2>3, <3>2 DEF Exact
  <2> QED
    BY <2>2, <2>3
<1> QED
  BY <1>1, <1>2, <1>3, <1>4, <1>5, <1>6, <1>7, <1>8 DEF IInv

LEMMA DemoteInv ==
  ASSUME IInv, NEW f \in Files, Demote(f)
  PROVE  IInv'
<1>1. TypeOK'
  BY DEF IInv, TypeOK, NoOp, NoLost, NoFree, Demote
<1>2. Stopped'
  BY DEF IInv, NoOp, NoLost, NoFree, Stopped, Demote
<1>3. FreeOK'
  BY DEF IInv, NoOp, NoLost, NoFree, FreeOK, Own, Demote
<1>4. LostOK'
  BY DEF IInv, NoOp, NoLost, NoFree, LostOK, PiecesOf, Demote
<1>5. RecordHasBytes'
  BY DEF IInv, RecordHasBytes, Demote
<1>6. FreedStaysMissing'
  BY DEF IInv, FreedStaysMissing, Own, Demote
<1>7. ASSUME NEW q \in Pieces PROVE HashOK(q)'
  BY DEF IInv, NoOp, NoLost, NoFree, HashOK, Demote
<1>8. ASSUME NEW g \in Files PROVE Exact(g)'
  BY DEF IInv, Exact, Missing, PiecesOf, Demote
<1> QED
  BY <1>1, <1>2, <1>3, <1>4, <1>5, <1>6, <1>7, <1>8 DEF IInv

LEMMA FreeMarkInv ==
  ASSUME IInv, NEW f \in Files, FreeMark(f)
  PROVE  IInv'
<1>1. TypeOK'
  BY DEF IInv, TypeOK, Own, FreeMark
<1>2. Stopped'
  BY DEF IInv, NoOp, NoLost, NoFree, Stopped, FreeMark
<1>3. FreeOK'
  BY DEF IInv, NoOp, NoLost, NoFree, FreeOK, Own, FreeMark
<1>4. LostOK'
  BY DEF IInv, NoOp, NoLost, NoFree, LostOK, PiecesOf, FreeMark
<1>5. RecordHasBytes'
  BY DEF IInv, RecordHasBytes, FreeMark
<1>6. FreedStaysMissing'
  BY DEF IInv, FreedStaysMissing, Own, FreeMark
<1>7. ASSUME NEW q \in Pieces PROVE HashOK(q)'
  BY DEF IInv, NoOp, NoLost, NoFree, HashOK, FreeMark
<1>8. ASSUME NEW g \in Files PROVE Exact(g)'
  <2>1. Exact(g) /\ free = NoFree /\ rec' = rec \ Own(f) /\ count' = count /\ free' = [pc |-> "forget", file |-> f, todo |-> Own(f)]
    BY DEF IInv, FreeMark
  <2>2. CASE g = f
    BY <2>1, <2>2 DEF Exact
  <2>3. CASE g # f
    <3>1. PiecesOf(g) \ rec' = PiecesOf(g) \ rec
      BY <2>1, <2>3 DEF PiecesOf, Own
    <3>2. Missing(g)' = Missing(g)
      BY <3>1 DEF Missing, PiecesOf
    <3> QED
      BY <2>1, <3>2 DEF Exact, NoFree
  <2> QED
    BY <2>2, <2>3
<1> QED
  BY <1>1, <1>2, <1>3, <1>4, <1>5, <1>6, <1>7, <1>8 DEF IInv

LEMMA ForgetInv ==
  ASSUME IInv, NEW p \in Pieces, Forget(p)
  PROVE  IInv'
<1>1. TypeOK'
  BY DEF IInv, TypeOK, NoOp, NoLost, NoFree, Forget
<1>2. Stopped'
  BY DEF IInv, NoOp, NoLost, NoFree, Stopped, Forget
<1>3. FreeOK'
  BY DEF IInv, NoOp, NoLost, NoFree, FreeOK, Own, Forget
<1>4. LostOK'
  BY DEF IInv, NoOp, NoLost, NoFree, LostOK, PiecesOf, Forget
<1>5. RecordHasBytes'
  BY DEF IInv, RecordHasBytes, Forget
<1>6. FreedStaysMissing'
  BY DEF IInv, FreedStaysMissing, Own, Forget
<1>7. ASSUME NEW q \in Pieces PROVE HashOK(q)'
  BY DEF IInv, NoOp, NoLost, NoFree, HashOK, Forget
<1>8. ASSUME NEW g \in Files PROVE Exact(g)'
  BY DEF IInv, Exact, Missing, PiecesOf, Forget
<1> QED
  BY <1>1, <1>2, <1>3, <1>4, <1>5, <1>6, <1>7, <1>8 DEF IInv

LEMMA FreeUncountInv ==
  ASSUME IInv, FreeUncount
  PROVE  IInv'
<1>1. TypeOK'
  BY DEF IInv, TypeOK, NoOp, NoLost, NoFree, FreeUncount
<1>2. Stopped'
  BY DEF IInv, NoOp, NoLost, NoFree, Stopped, FreeUncount
<1>3. FreeOK'
  BY DEF IInv, NoOp, NoLost, NoFree, FreeOK, Own, FreeUncount
<1>4. LostOK'
  BY DEF IInv, NoOp, NoLost, NoFree, LostOK, PiecesOf, FreeUncount
<1>5. RecordHasBytes'
  BY DEF IInv, RecordHasBytes, FreeUncount
<1>6. FreedStaysMissing'
  BY DEF IInv, FreedStaysMissing, Own, FreeUncount
<1>7. ASSUME NEW q \in Pieces PROVE HashOK(q)'
  BY DEF IInv, NoOp, NoLost, NoFree, HashOK, FreeUncount
<1>8. ASSUME NEW g \in Files PROVE Exact(g)'
  <2>1. Exact(g) /\ rec' = rec /\ free'.file = free.file /\ count' = [count EXCEPT ![free.file] = Uncounted]
    BY DEF IInv, FreeUncount
  <2>2. Missing(g)' = Missing(g)
    BY <2>1 DEF Missing, PiecesOf
  <2>3. CASE g = free.file
    BY <2>1, <2>3 DEF Exact, IInv, TypeOK
  <2>4. CASE g # free.file
    BY <2>1, <2>2, <2>4 DEF Exact, IInv, TypeOK
  <2> QED
    BY <2>3, <2>4
<1> QED
  BY <1>1, <1>2, <1>3, <1>4, <1>5, <1>6, <1>7, <1>8 DEF IInv

LEMMA ShrinkInv ==
  ASSUME IInv, Shrink
  PROVE  IInv'
<1>1. TypeOK'
  BY DEF IInv, TypeOK, NoOp, NoLost, NoFree, Shrink
<1>2. Stopped'
  BY DEF IInv, NoOp, NoLost, NoFree, Stopped, Shrink
<1>3. FreeOK'
  BY DEF IInv, NoOp, NoLost, NoFree, FreeOK, Own, Shrink
<1>4. LostOK'
  BY DEF IInv, NoOp, NoLost, NoFree, LostOK, PiecesOf, Shrink
<1>5. RecordHasBytes'
  BY DEF IInv, RecordHasBytes, Shrink
<1>6. FreedStaysMissing'
  BY DEF IInv, FreedStaysMissing, Own, Shrink
<1>7. ASSUME NEW q \in Pieces PROVE HashOK(q)'
  BY DEF IInv, NoOp, NoLost, NoFree, HashOK, Shrink
<1>8. ASSUME NEW g \in Files PROVE Exact(g)'
  BY DEF IInv, Exact, Missing, PiecesOf, Shrink
<1> QED
  BY <1>1, <1>2, <1>3, <1>4, <1>5, <1>6, <1>7, <1>8 DEF IInv

LEMMA ReplaceInv ==
  ASSUME IInv, Replace
  PROVE  IInv'
<1>a. /\ free.pc = "replace" /\ free.file \in freed /\ free.file \in Files
      /\ \A q \in Own(free.file) : op[q] = NoOp /\ q \notin rec
  BY DEF Replace, IInv, FreeOK, FreedStaysMissing, TypeOK
<1>b. /\ bytes' \in [Pieces -> [Files -> {"no", "dirty", "synced"}]]
      /\ \A q \in Pieces, g \in Files :
           q \notin Own(free.file) => bytes'[q][g] = bytes[q][g] \/ (bytes[q][g] = "dirty" /\ bytes'[q][g] = "synced")
  BY <1>a DEF Replace, IInv, TypeOK
<1>c. /\ free' = NoFree /\ UNCHANGED <<rec, open, count, freed, op, lost, crashes, damage>>
      /\ name' \in [Files -> {"none", "part", "whole"}]
  BY DEF Replace, IInv, TypeOK
<1>d. \A q \in Pieces : FilesOf[q] \subseteq Files
  BY TorrentStorageAssumption
<1>1. TypeOK'
  BY <1>b, <1>c DEF IInv, TypeOK, NoFree
<1>2. Stopped'
  BY DEF IInv, NoOp, NoLost, NoFree, Stopped, Replace
<1>3. FreeOK'
  BY <1>c DEF FreeOK, NoFree
<1>4. LostOK'
  BY DEF IInv, NoOp, NoLost, NoFree, LostOK, PiecesOf, Replace
<1>5. RecordHasBytes'
  <2>1. rec \subseteq Pieces /\ RecordHasBytes
    BY DEF IInv, TypeOK
  <2> QED
    BY <1>a, <1>b, <1>c, <1>d, <2>1 DEF RecordHasBytes
<1>6. FreedStaysMissing'
  BY DEF IInv, FreedStaysMissing, Own, Replace
<1>7. ASSUME NEW q \in Pieces PROVE HashOK(q)'
  <2>1. op[q].pc # "idle" => q \notin Own(free.file)
    BY <1>a DEF NoOp
  <2> QED
    BY <1>b, <1>c, <1>d, <2>1, HashKept
<1>8. ASSUME NEW g \in Files PROVE Exact(g)'
  BY DEF IInv, Exact, Missing, PiecesOf, Replace
<1> QED
  BY <1>1, <1>2, <1>3, <1>4, <1>5, <1>6, <1>7, <1>8 DEF IInv

LEMMA WantInv ==
  ASSUME IInv, NEW f \in Files, Want(f)
  PROVE  IInv'
<1>1. TypeOK'
  BY DEF IInv, TypeOK, NoOp, NoLost, NoFree, Want
<1>2. Stopped'
  BY DEF IInv, NoOp, NoLost, NoFree, Stopped, Want
<1>3. FreeOK'
  BY DEF IInv, NoOp, NoLost, NoFree, FreeOK, Own, Want
<1>4. LostOK'
  BY DEF IInv, NoOp, NoLost, NoFree, LostOK, PiecesOf, Want
<1>5. RecordHasBytes'
  BY DEF IInv, RecordHasBytes, Want
<1>6. FreedStaysMissing'
  BY DEF IInv, FreedStaysMissing, Own, Want
<1>7. ASSUME NEW q \in Pieces PROVE HashOK(q)'
  BY DEF IInv, NoOp, NoLost, NoFree, HashOK, Want
<1>8. ASSUME NEW g \in Files PROVE Exact(g)'
  BY DEF IInv, Exact, Missing, PiecesOf, Want
<1> QED
  BY <1>1, <1>2, <1>3, <1>4, <1>5, <1>6, <1>7, <1>8 DEF IInv

LEMMA CrashInv ==
  ASSUME IInv, Crash
  PROVE  IInv'
<1>a. /\ bytes' \in [Pieces -> [Files -> {"no", "dirty", "synced"}]]
      /\ \A q \in Pieces, g \in Files : bytes[q][g] = "synced" => bytes'[q][g] = "synced"
  <2>1. PICK gone \in SUBSET {p \in Pieces : \E f \in Files : bytes[p][f] = "dirty"} :
          bytes' = [p \in Pieces |-> [f \in Files |-> IF p \in gone /\ bytes[p][f] = "dirty" THEN "no" ELSE bytes[p][f]]]
    BY DEF Crash
  <2> QED
    BY <2>1 DEF IInv, TypeOK
<1>b. /\ rec' = rec /\ damage' = damage /\ name' = name /\ crashes' \in 0 .. MaxCrashes
      /\ op' = [p \in Pieces |-> NoOp] /\ lost' = NoLost /\ free' = NoFree /\ freed' = {}
      /\ count' = [f \in Files |-> Uncounted] /\ open' = FALSE
  BY TorrentStorageAssumption DEF Crash, IInv, TypeOK
<1>c. \A q \in Pieces : FilesOf[q] \subseteq Files
  BY TorrentStorageAssumption
<1>1. TypeOK'
  BY <1>a, <1>b DEF IInv, TypeOK, NoOp, NoLost, NoFree
<1>2. Stopped'
  BY DEF IInv, NoOp, NoLost, NoFree, Stopped, Crash
<1>3. FreeOK'
  BY <1>b DEF FreeOK, NoFree
<1>4. LostOK'
  BY <1>b DEF LostOK, NoLost
<1>5. RecordHasBytes'
  <2>1. rec \subseteq Pieces /\ RecordHasBytes
    BY DEF IInv, TypeOK
  <2> QED
    BY <1>a, <1>b, <1>c, <2>1 DEF RecordHasBytes
<1>6. FreedStaysMissing'
  BY DEF IInv, FreedStaysMissing, Own, Crash
<1>7. ASSUME NEW q \in Pieces PROVE HashOK(q)'
  BY <1>b DEF HashOK, NoOp
<1>8. ASSUME NEW g \in Files PROVE Exact(g)'
  BY <1>b DEF Exact
<1> QED
  BY <1>1, <1>2, <1>3, <1>4, <1>5, <1>6, <1>7, <1>8 DEF IInv

LEMMA InitInv == Init => IInv
<1> SUFFICES ASSUME Init PROVE IInv
  OBVIOUS
<1>1. TypeOK
  <2>1. bytes \in [Pieces -> [Files -> {"no", "dirty", "synced"}]]
    BY DEF Init
  <2>2. NoOp \in Hashing
    BY DEF NoOp, Hashing
  <2>3. op \in [Pieces -> Hashing]
    BY <2>2 DEF Init
  <2>4. crashes \in 0 .. MaxCrashes /\ damage \in 0 .. MaxDamage
    BY TorrentStorageAssumption DEF Init
  <2>5. lost \in [todo : SUBSET Pieces, files : SUBSET Files]
    BY DEF Init, NoLost
  <2> QED
    BY <2>1, <2>3, <2>4, <2>5 DEF Init, TypeOK, Hashing, Uncounted, NoFree
<1>2. Stopped /\ FreeOK /\ LostOK
  BY DEF Init, Stopped, FreeOK, LostOK, NoLost, NoFree
<1>3. RecordHasBytes /\ FreedStaysMissing
  BY DEF Init, RecordHasBytes, FreedStaysMissing
<1>4. (\A p \in Pieces : HashOK(p)) /\ \A f \in Files : Exact(f)
  BY DEF Init, HashOK, Exact, NoOp
<1> QED
  BY <1>1, <1>2, <1>3, <1>4 DEF IInv

LEMMA NextInv == IInv /\ [Next]_vars => IInv'
<1> SUFFICES ASSUME IInv, [Next]_vars PROVE IInv'
  OBVIOUS
<1>1. CASE OpenTorrent
  BY <1>1, OpenTorrentInv
<1>2. CASE FreeUncount
  BY <1>2, FreeUncountInv
<1>3. CASE Shrink
  BY <1>3, ShrinkInv
<1>4. CASE Replace
  BY <1>4, ReplaceInv
<1>5. CASE Crash
  BY <1>5, CrashInv
<1>6. CASE \E p \in Pieces : WriteAt(p)
  BY <1>6, WriteAtInv
<1>7. CASE \E p \in Pieces : Hash(p)
  BY <1>7, HashInv
<1>8. CASE \E p \in Pieces : Sync(p)
  BY <1>8, SyncInv
<1>9. CASE \E p \in Pieces : Mark(p)
  BY <1>9, MarkInv
<1>10. CASE \E p \in Pieces : MarkNotComplete(p)
  BY <1>10, MarkNotCompleteInv
<1>11. CASE \E p \in Pieces : Forget(p)
  BY <1>11, ForgetInv
<1>12. CASE \E p \in Pieces, f \in Files : Promote(p, f)
  BY <1>12, PromoteInv
<1>13. CASE \E p \in Pieces, f \in Files : Completion(p, f)
  BY <1>13, CompletionInv
<1>14. CASE \E f \in Files : Demote(f)
  BY <1>14, DemoteInv
<1>15. CASE \E f \in Files : Damage(f)
  BY <1>15, DamageInv
<1>16. CASE \E f \in Files : FreeMark(f)
  BY <1>16, FreeMarkInv
<1>17. CASE \E f \in Files : Want(f)
  BY <1>17, WantInv
<1>18. CASE UNCHANGED vars
  BY <1>18 DEF vars, IInv, TypeOK, Stopped, FreeOK, LostOK, RecordHasBytes, FreedStaysMissing, HashOK, Exact,
                  Missing, PiecesOf, Own
<1> QED
  BY <1>1, <1>2, <1>3, <1>4, <1>5, <1>6, <1>7, <1>8, <1>9, <1>10, <1>11, <1>12, <1>13, <1>14, <1>15, <1>16,
     <1>17, <1>18 DEF Next

\* Record, bytes and counts agree for any number of files and pieces.
THEOREM Invariant == Spec => []IInv
BY InitInv, NextInv, PTL DEF Spec

-----------------------------------------------------------------------------
(* What the record promises.                                                *)

\* MarkComplete syncs before it records, and free strikes a piece from the
\* record, and waits its hash out, before its bytes go: whatever the order of
\* hashes, frees and crashes, a recorded piece has all its bytes on disk,
\* unless a file was deleted outside.
THEOREM RecordedIsOnDisk == Spec => []RecordHasBytes
<1>1. IInv => RecordHasBytes
  BY DEF IInv
<1> QED
  BY <1>1, Invariant, PTL

\* mark turns down a piece that is the freed file's alone: a hash that read its
\* bytes before they went does not bring it back.
THEOREM FreedIsForgotten == Spec => []FreedStaysMissing
<1>1. IInv => FreedStaysMissing
  BY DEF IInv
<1> QED
  BY <1>1, Invariant, PTL

\* mark records and counts under markMu, so a piece changes a count once each
\* time it flips: but for a free under way, a count is that of the record.
THEOREM CountsFollowTheRecord == Spec => []CountRight
<1>1. IInv => CountRight
  BY DEF IInv, Exact, CountRight
<1> QED
  BY <1>1, Invariant, PTL

-----------------------------------------------------------------------------
(* A whole file has its own name.                                           *)

\* Until then a rename of it is ahead, or its free.
Named(f) ==
  /\ open /\ free.file # f /\ (\A p \in Pieces : f \notin op[p].files)
  /\ name[f] # "none" /\ PiecesOf(f) \subseteq rec
  => name[f] = "whole"

\* A step that brings no piece in, takes no rename off and leaves the name.
LEMMA NameKept ==
  ASSUME NEW f \in Files, Named(f), open' => open, free'.file = free.file \/ free.file = NoFile,
         name'[f] = name[f], rec' \subseteq rec,
         \A p \in Pieces : f \in op[p].files => f \in op'[p].files
  PROVE  Named(f)'
<1>1. free.file # NoFile \/ free.file # f
  BY TorrentStorageAssumption
<1>2. PiecesOf(f)' = PiecesOf(f)
  BY DEF PiecesOf
<1> QED
  BY <1>1, <1>2, TorrentStorageAssumption DEF Named

LEMMA MarkNames ==
  ASSUME IInv, NEW f \in Files, Named(f), NEW p \in Pieces, Mark(p)
  PROVE  Named(f)'
<1>1. /\ open /\ op[p].files = {} /\ p \notin rec /\ name' = name /\ free' = free
      /\ rec' = IF FreedPiece(p) THEN rec ELSE rec \cup {p}
      /\ \A q \in Pieces : q # p => op'[q] = op[q]
      /\ op'[p] = IF Finished(p) = {} THEN NoOp ELSE [pc |-> "promote", files |-> Finished(p)]
  BY MarkFacts
<1>2. PiecesOf(f)' = PiecesOf(f)
  BY DEF PiecesOf
<1> SUFFICES ASSUME open', free'.file # f, \A q \in Pieces : f \notin op'[q].files,
                    name'[f] # "none", PiecesOf(f) \subseteq rec'
             PROVE  name'[f] = "whole"
  BY <1>2 DEF Named
<1>3. \A q \in Pieces : f \notin op[q].files
  BY <1>1
<1>4. CASE PiecesOf(f) \subseteq rec
  BY <1>1, <1>3, <1>4 DEF Named
\* The last piece of the file is this one, and the count says so.
<1>5. CASE ~(PiecesOf(f) \subseteq rec)
  <2>1. f \in FilesOf[p] /\ ~FreedPiece(p) /\ rec' = rec \cup {p}
    BY <1>1, <1>5 DEF PiecesOf
  <2>2. Counted(f, rec \cup {p}, -1) = Cardinality(PiecesOf(f) \ (rec \cup {p}))
    BY <1>1, <2>1, MarkCounts
  <2>3. Cardinality(PiecesOf(f) \ (rec \cup {p})) = 0
    BY <2>1, CountsPieces
  <2>4. f \in Finished(p)
    BY <2>1, <2>2, <2>3 DEF Finished
  <2>5. f \in op'[p].files
    BY <1>1, <2>4
  <2> QED
    BY <2>5
<1> QED
  BY <1>4, <1>5

LEMMA NextNames ==
  ASSUME IInv, NEW f \in Files, Own(f) # {}, Named(f), [Next]_vars
  PROVE  Named(f)'
<1>0. /\ TypeOK /\ \A p \in Pieces : HashOK(p)
      /\ PiecesOf(f)' = PiecesOf(f) /\ Own(f) \subseteq PiecesOf(f) /\ PiecesOf(f) \subseteq Pieces
  BY DEF IInv, PiecesOf, Own
<1>1. CASE OpenTorrent
  BY <1>0, <1>1, CountsPieces DEF OpenTorrent, Named, TypeOK, Missing
<1>2. CASE FreeUncount
  BY <1>2, NameKept DEF FreeUncount
<1>3. CASE Shrink
  <2>1. CASE free.file = f
    BY <1>3, <2>1 DEF Shrink, Named
  <2>2. CASE free.file # f
    <3>1. name'[f] = name[f]
      BY <1>0, <1>3, <2>2 DEF Shrink, TypeOK
    <3> QED
      BY <1>3, <3>1, NameKept DEF Shrink
  <2> QED
    BY <2>1, <2>2
<1>4. CASE Replace
  <2>1. CASE free.file = f
    \* A file just freed lacks the pieces that are its own.
    <3>1. Own(f) \cap rec = {} /\ rec' = rec
      BY <1>4, <2>1 DEF Replace, IInv, FreeOK, FreedStaysMissing
    <3> QED
      BY <1>0, <3>1 DEF Named
  <2>2. CASE free.file # f
    <3>1. name'[f] = name[f]
      BY <1>0, <1>4, <2>2 DEF Replace, TypeOK
    <3> QED
      BY <1>4, <2>2, <3>1, <1>0 DEF Replace, Named
  <2> QED
    BY <2>1, <2>2
<1>5. CASE Crash
  BY <1>5 DEF Crash, Named
<1>6. ASSUME NEW p \in Pieces, WriteAt(p) PROVE Named(f)'
  <2>1. CASE f \in FilesOf[p] /\ name[f] = "none"
    <3>1. p \in PiecesOf(f) /\ p \notin rec'
      BY <1>6, <2>1 DEF WriteAt, PiecesOf
    <3> QED
      BY <1>0, <3>1 DEF Named
  <2>2. CASE ~(f \in FilesOf[p] /\ name[f] = "none")
    BY <1>6, <2>2, NameKept DEF WriteAt
  <2> QED
    BY <2>1, <2>2
<1>7. ASSUME NEW p \in Pieces, Hash(p) PROVE Named(f)'
  <2>1. \A q \in Pieces : op'[q].files = op[q].files
    BY <1>0, <1>7 DEF Hash, TypeOK
  <2> QED
    BY <1>7, <2>1, NameKept DEF Hash
<1>8. ASSUME NEW p \in Pieces, Sync(p) PROVE Named(f)'
  <2>1. \A q \in Pieces : op'[q].files = op[q].files
    BY <1>0, <1>8 DEF Sync, TypeOK
  <2> QED
    BY <1>8, <2>1, NameKept DEF Sync
<1>9. ASSUME NEW p \in Pieces, Mark(p) PROVE Named(f)'
  BY <1>9, MarkNames
<1>10. ASSUME NEW p \in Pieces, MarkNotComplete(p) PROVE Named(f)'
  BY <1>10, NameKept DEF MarkNotComplete
<1>11. ASSUME NEW p \in Pieces, Forget(p) PROVE Named(f)'
  BY <1>11, NameKept DEF Forget
<1>12. ASSUME NEW p \in Pieces, NEW g \in Files, Promote(p, g) PROVE Named(f)'
  <2>1. CASE f = g
    BY <1>0, <1>12, <2>1 DEF Promote, Named, TypeOK
  <2>2. CASE f # g
    <3>1. name'[f] = name[f]
      BY <1>0, <1>12, <2>2 DEF Promote, TypeOK
    <3>2. \A q \in Pieces : f \in op[q].files => f \in op'[q].files
      BY <1>0, <1>12, <2>2 DEF Promote, TypeOK
    <3> QED
      BY <1>12, <3>1, <3>2, NameKept DEF Promote
  <2> QED
    BY <2>1, <2>2
<1>13. ASSUME NEW p \in Pieces, NEW g \in Files, Completion(p, g) PROVE Named(f)'
  BY <1>13, NameKept DEF Completion
<1>14. ASSUME NEW g \in Files, Demote(g) PROVE Named(f)'
  <2>1. CASE f = g
    \* The file is short of the piece that made it one to demote.
    <3>1. ~(PiecesOf(f) \subseteq rec)
      BY <1>14, <2>1 DEF Demote, IInv, LostOK
    <3> QED
      BY <1>0, <1>14, <3>1 DEF Demote, Named
  <2>2. CASE f # g
    <3>1. name'[f] = name[f]
      BY <1>0, <1>14, <2>2 DEF Demote, TypeOK
    <3> QED
      BY <1>14, <3>1, NameKept DEF Demote
  <2> QED
    BY <2>1, <2>2
<1>15. ASSUME NEW g \in Files, Damage(g) PROVE Named(f)'
  BY <1>15 DEF Damage, Named
<1>16. ASSUME NEW g \in Files, FreeMark(g) PROVE Named(f)'
  BY <1>16, NameKept DEF FreeMark, NoFree
<1>17. ASSUME NEW g \in Files, Want(g) PROVE Named(f)'
  BY <1>17, NameKept DEF Want
<1>18. CASE UNCHANGED vars
  BY <1>18, NameKept DEF vars
<1> QED
  BY <1>1, <1>2, <1>3, <1>4, <1>5, <1>6, <1>7, <1>8, <1>9, <1>10, <1>11, <1>12, <1>13, <1>14, <1>15, <1>16,
     <1>17, <1>18 DEF Next

\* The count tells the hash that brings the last piece in, settle makes up for
\* a rename a crash cut short, and a file is demoted only for a piece that is
\* gone: once nothing is under way a whole file has its own name.  That is of
\* files with a piece of their own: one that shares every piece it has stays
\* whole through a free that took its name.
THEOREM WholeFilesAreNamed ==
  ASSUME \A f \in Files : Own(f) # {}
  PROVE  Spec => []WholeIsNamed
<1> DEFINE NInv == \A f \in Files : Named(f)
<1>1. Init => NInv
  BY DEF Init, Named
<1>2. IInv /\ NInv /\ [Next]_vars => NInv'
  BY NextNames
<1>3. NInv => WholeIsNamed
  BY DEF Named, WholeIsNamed, Quiet
<1> QED
  BY <1>1, <1>2, <1>3, Invariant, PTL DEF Spec
=============================================================================
