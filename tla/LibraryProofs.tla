--------------------------- MODULE LibraryProofs ----------------------------
(***************************************************************************)
(* What the library never frees, for any number of downloads, viewers and  *)
(* requests, and whatever the keep policy, its limits and the disk limit.  *)
(***************************************************************************)
EXTENDS Library, TLAPS

Row == [state : States, updated : Ages, gone : {"no", "freed", "removed"}]
Streams == [pc : {"idle", "lookup", "found", "touch", "serving"}, dl : Downloads \cup {NoDownload}]
Asks == [pc : {"idle", "fits", "pick", "hold", "list", "free"}, dl : Downloads \cup {NoDownload}]

Typed ==
  /\ dl \in [Downloads -> Row]
  /\ stopped \in [Downloads -> 0 .. Settle]
  /\ fresh \in [Downloads -> 0 .. Settle]
  /\ stream \in [Viewers -> Streams]
  /\ request \in [Viewers -> Asks]

\* Play counts a stream before its file is looked up, and a pass finds it busy.
StreamsOf == \A v \in Viewers : stream[v].pc # "idle" => stream[v].dl \in Downloads

\* A request is on some download; one that Service.Start has just run for, on
\* one that has not settled.
RequestsOf ==
  \A v \in Viewers :
    /\ request[v].pc # "idle" => request[v].dl \in Downloads
    /\ request[v].pc = "pick" => stopped[request[v].dl] > 0

IInv == Typed /\ StreamsOf /\ RequestsOf /\ StreamNotFreed

-----------------------------------------------------------------------------
(* Ages.                                                                    *)

LEMMA MaxOfNats ==
  ASSUME NEW a \in Nat, NEW b \in Nat, NEW c \in Nat, NEW d \in Nat
  PROVE  Max({a, b, c, d}) \in Nat
<1> DEFINE S == {a, b, c, d}
<1>1. \E x \in S : \A y \in S : x >= y
  OBVIOUS
<1>2. Max(S) \in S
  BY <1>1 DEF Max
<1> QED
  BY <1>2

LEMMA CapIsNat == Cap \in Nat
BY MaxOfNats, LibraryAssumption DEF Cap

LEMMA OlderIsAge == ASSUME NEW age \in Ages PROVE Older(age) \in Ages
<1> DEFINE S == {age + 1, Cap}
<1>1. age \in Nat /\ age # Never
  BY CapIsNat DEF Ages, Never
<1>2. \E x \in S : \A y \in S : x <= y
  BY <1>1, CapIsNat
<1>3. Min(S) \in S /\ \A y \in S : Min(S) <= y
  BY <1>2 DEF Min
<1> HIDE DEF S
<1>4. Older(age) = Min(S)
  BY <1>1 DEF Older, S
<1>5. Min(S) \in Nat /\ Min(S) <= Cap
  BY <1>1, <1>3, CapIsNat DEF S
<1> QED
  BY <1>4, <1>5, CapIsNat DEF Ages

\* One tick less, of a settle time under way.
LEMMA TickLess ==
  ASSUME NEW n \in 0 .. Settle
  PROVE  Max({n - 1, 0}) = IF n > 0 THEN n - 1 ELSE 0
<1> DEFINE S == {n - 1, 0}
<1>1. \E x \in S : \A y \in S : x >= y
  BY LibraryAssumption
<1>2. Max(S) \in S /\ \A y \in S : Max(S) >= y
  BY <1>1 DEF Max
<1> HIDE DEF S
<1>3. Max(S) = IF n > 0 THEN n - 1 ELSE 0
  BY <1>2, LibraryAssumption DEF S
<1> QED
  BY <1>3 DEF S

LEMMA ZeroIsAge == 0 \in Ages
BY CapIsNat DEF Ages

-----------------------------------------------------------------------------
(* What a step makes of the rows.                                           *)

RowsTyped == dl' \in [Downloads -> Row]

\* Only rows that are not busy go.
FreesIdle == \A d \in Downloads : dl'[d].gone = "freed" => dl[d].gone = "freed" \/ ~Busy(d)

\* Only rows nobody streams go.
FreesUnplayed == \A d \in Downloads : dl'[d].gone = "freed" => dl[d].gone = "freed" \/ ~Playing(d)

LEMMA IdleIsUnplayed == FreesIdle => FreesUnplayed
BY DEF FreesIdle, FreesUnplayed, Busy

LEMMA RowsKept == ASSUME Typed, UNCHANGED dl PROVE RowsTyped /\ FreesIdle
BY DEF Typed, RowsTyped, FreesIdle

\* Manager.Remove touches the row it is given, if there is one.
LEMMA FreedRows ==
  ASSUME Typed, NEW d
  PROVE  /\ Freed(d) \in [Downloads -> Row]
         /\ \A e \in Downloads : e # d => Freed(d)[e] = dl[e]
BY DEF Freed, Typed, Row

LEMMA RowChanged ==
  ASSUME Typed, NEW d \in Downloads, NEW row \in Row, row.gone # "freed",
         dl' = [dl EXCEPT ![d] = row]
  PROVE  RowsTyped /\ FreesIdle
BY DEF Typed, RowsTyped, FreesIdle

LEMMA StartRows ==
  ASSUME Typed, NEW v, NEW d \in Downloads, NEW then, Starts(v, d, then), dl[d].gone = "no"
  PROVE  RowsTyped /\ FreesIdle
<1> DEFINE row == [dl[d] EXCEPT !.state = "active", !.updated = 0]
<1>1. dl[d] \in Row
  BY DEF Typed
<1>2. row \in Row /\ row.gone # "freed"
  BY <1>1, ZeroIsAge DEF Row, States, Active
<1>3. dl' = dl \/ dl' = [dl EXCEPT ![d] = row]
  BY DEF Starts
<1> HIDE DEF row
<1> QED
  BY <1>2, <1>3, RowsKept, RowChanged

LEMMA RemoveRows ==
  ASSUME Typed, NEW d \in Downloads, RemoveDownload(d)
  PROVE  RowsTyped /\ FreesIdle
<1> DEFINE row == [dl[d] EXCEPT !.gone = "removed"]
<1>1. row \in Row /\ row.gone # "freed" /\ dl' = [dl EXCEPT ![d] = row]
  BY DEF RemoveDownload, Typed, Row
<1> HIDE DEF row
<1> QED
  BY <1>1, RowChanged

LEMMA TransferRows ==
  ASSUME Typed, NEW d \in Downloads, Arrive(d) \/ Stall(d)
  PROVE  RowsTyped /\ FreesIdle
<1> DEFINE row == IF Arrive(d) THEN [dl[d] EXCEPT !.state = "seeding", !.updated = 0]
                  ELSE [dl[d] EXCEPT !.state = "waiting"]
<1>1. dl[d] \in Row /\ dl[d].gone = "no"
  BY DEF Arrive, Stall, Typed, Known, Present, Rows
<1>2. row \in Row /\ row.gone # "freed"
  BY <1>1, ZeroIsAge DEF Row, States, Active, Done
<1>3. dl' = [dl EXCEPT ![d] = row]
  BY <1>1 DEF Arrive, Stall
<1> HIDE DEF row
<1> QED
  BY <1>2, <1>3, RowChanged

LEMMA PauseRows ==
  ASSUME Typed, NEW d \in Downloads, PauseReplaced(d)
  PROVE  RowsTyped /\ FreesIdle
<1> DEFINE row == [dl[d] EXCEPT !.state = "paused", !.updated = 0]
<1>1. dl[d] \in Row /\ (Known(d) => dl[d].gone = "no")
  BY DEF Typed, Known, Present, Rows
<1>2. row \in Row /\ (Known(d) => row.gone # "freed")
  BY <1>1, ZeroIsAge DEF Row, States
<1>3. dl' = dl \/ (Known(d) /\ dl' = [dl EXCEPT ![d] = row])
  BY DEF PauseReplaced
<1> HIDE DEF row
<1> QED
  BY <1>2, <1>3, RowsKept, RowChanged

LEMMA SharingRows ==
  ASSUME Typed, NEW d \in Downloads, StopSharing(d)
  PROVE  RowsTyped /\ FreesIdle
<1> DEFINE row == [dl[d] EXCEPT !.state = "done"]
<1>1. dl[d] \in Row /\ (Known(d) => dl[d].gone = "no")
  BY DEF Typed, Known, Present, Rows
<1>2. row \in Row /\ (Known(d) => row.gone # "freed")
  BY <1>1 DEF Row, States, Done
<1>3. dl' = dl \/ (Known(d) /\ dl' = [dl EXCEPT ![d] = row])
  BY DEF StopSharing
<1> HIDE DEF row
<1> QED
  BY <1>2, <1>3, RowsKept, RowChanged

\* A pass frees under mu, and asks whether the download is busy there.
LEMMA PassRows ==
  ASSUME Typed, PassStep
  PROVE  RowsTyped /\ FreesIdle
<1>1. ASSUME DropReplaced PROVE RowsTyped /\ FreesIdle
  <2> DEFINE d == pass.at
  <2>1. dl' = dl \/ (~Busy(d) /\ dl' = Freed(d))
    BY <1>1 DEF DropReplaced
  <2> HIDE DEF d
  <2> QED
    BY <2>1, RowsKept, FreedRows DEF RowsTyped, FreesIdle
<1>2. ASSUME NEW c, FreeCandidate(c) PROVE RowsTyped /\ FreesIdle
  <2> DEFINE d == c.dl
  <2>1. dl' = dl \/ (~Busy(d) /\ dl' = Freed(d))
    BY <1>2 DEF FreeCandidate
  <2> HIDE DEF d
  <2> QED
    BY <2>1, RowsKept, FreedRows DEF RowsTyped, FreesIdle
<1>3. ASSUME BeginPass \/ ChooseCopies \/ ListShared \/ ListFinished \/ ReadProgress \/ EndPass
      PROVE RowsTyped /\ FreesIdle
  BY <1>3, RowsKept DEF BeginPass, ChooseCopies, ListShared, ListFinished, ReadProgress, EndPass
<1> QED
  BY <1>1, <1>2, <1>3, PauseRows, SharingRows DEF PassStep

\* Service.Released asks only whether a stream is open.
LEMMA ReleasedRows ==
  ASSUME Typed, NEW v \in Viewers, ReleasedFrees(v)
  PROVE  RowsTyped /\ FreesUnplayed
<1> DEFINE d == request[v].dl
<1>1. dl' = dl \/ (~Playing(d) /\ dl' = Freed(d))
  BY DEF ReleasedFrees
<1> HIDE DEF d
<1> QED
  BY <1>1, RowsKept, IdleIsUnplayed, FreedRows DEF RowsTyped, FreesUnplayed

LEMMA TickRows == ASSUME Typed, Tick PROVE RowsTyped /\ FreesIdle
<1>1. ASSUME NEW d \in Downloads PROVE dl'[d] \in Row /\ dl'[d].gone = dl[d].gone
  <2>1. dl[d] \in Row /\ Older(dl[d].updated) \in Ages
    BY OlderIsAge DEF Typed, Row
  <2>2. dl'[d] = dl[d] \/ dl'[d] = [dl[d] EXCEPT !.updated = Older(dl[d].updated)]
    BY DEF Tick
  <2> QED
    BY <2>1, <2>2 DEF Row
<1>2. dl' = [d \in Downloads |-> dl'[d]]
  BY DEF Tick
<1> QED
  BY <1>1, <1>2 DEF RowsTyped, FreesIdle

-----------------------------------------------------------------------------
(* What a step makes of the streams and the requests.                       *)

\* A stream has found its download, or has the file it had.
FindsFile ==
  \A v \in Viewers :
    stream'[v].pc \in {"found", "touch", "serving"} =>
      \/ stream'[v].dl = stream[v].dl /\ stream[v].pc \in {"found", "touch", "serving"}
      \/ dl'[stream'[v].dl].gone # "freed"

StreamsTyped == stream' \in [Viewers -> Streams] /\ StreamsOf'

LEMMA StreamsKept == ASSUME IInv, UNCHANGED stream PROVE StreamsTyped /\ FindsFile
BY DEF IInv, Typed, StreamsOf, StreamsTyped, FindsFile

LEMMA PlayStream ==
  ASSUME IInv, NEW v \in Viewers, NEW d \in Downloads, Play(v, d)
  PROVE  StreamsTyped /\ FindsFile
BY DEF IInv, Typed, StreamsOf, StreamsTyped, FindsFile, Play, Streams

\* Manager.File finds no freed download.
LEMMA StepStream ==
  ASSUME IInv, NEW v \in Viewers, StreamStep(v)
  PROVE  StreamsTyped /\ FindsFile
<1> USE DEF IInv, Typed, StreamsOf, StreamsTyped, FindsFile, Streams
<1>1. ASSUME Lookup(v) PROVE StreamsTyped /\ FindsFile
  BY <1>1 DEF Lookup, Known, Present, Rows
<1>2. ASSUME Opened(v) PROVE StreamsTyped /\ FindsFile
  BY <1>2 DEF Opened
<1>3. ASSUME StreamHolds(v) PROVE StreamsTyped /\ FindsFile
  BY <1>3 DEF StreamHolds
<1>4. ASSUME EndStream(v) PROVE StreamsTyped /\ FindsFile
  BY <1>4 DEF EndStream, Idle
<1> QED
  BY <1>1, <1>2, <1>3, <1>4 DEF StreamStep

SettlingTyped == stopped' \in [Downloads -> 0 .. Settle] /\ fresh' \in [Downloads -> 0 .. Settle]

\* Nothing but the passing of time settles a download, and only a start makes
\* one fresh.
Freshens ==
  \A d \in Downloads :
    \/ fresh'[d] <= fresh[d] /\ stopped[d] <= stopped'[d]
    \/ stopped'[d] = Settle /\ dl'[d].gone # "freed"

LEMMA StoppedKept == ASSUME Typed, UNCHANGED <<stopped, fresh>> PROVE SettlingTyped /\ Freshens
BY LibraryAssumption DEF Typed, SettlingTyped, Freshens

LEMMA StreamSettles ==
  ASSUME Typed, NEW d,
         \/ UNCHANGED fresh /\ stopped' = [stopped EXCEPT ![d] = Settle]
         \/ UNCHANGED stopped /\ fresh' = [fresh EXCEPT ![d] = 0]
  PROVE  SettlingTyped /\ Freshens
<1>1. Settle \in 0 .. Settle /\ 0 \in 0 .. Settle
  BY LibraryAssumption
<1>2. \A e \in Downloads :
        /\ stopped[e] \in 0 .. Settle /\ fresh[e] \in 0 .. Settle
        /\ stopped'[e] \in {stopped[e], Settle} /\ fresh'[e] \in {fresh[e], 0}
  BY DEF Typed
<1>3. stopped' = [e \in Downloads |-> stopped'[e]] /\ fresh' = [e \in Downloads |-> fresh'[e]]
  BY DEF Typed
<1>4. \A e \in Downloads : fresh'[e] <= fresh[e] /\ stopped[e] <= stopped'[e]
  BY <1>2, LibraryAssumption
<1> QED
  BY <1>1, <1>2, <1>3, <1>4 DEF SettlingTyped, Freshens

LEMMA StartSettles ==
  ASSUME Typed, NEW v, NEW d \in Downloads, NEW then, Starts(v, d, then), dl[d].gone = "no"
  PROVE  SettlingTyped /\ Freshens
<1>1. Settle \in 0 .. Settle
  BY LibraryAssumption
<1>2. stopped' = [stopped EXCEPT ![d] = Settle] /\ fresh' = [fresh EXCEPT ![d] = Settle]
  BY DEF Starts
<1>3. SettlingTyped
  BY <1>1, <1>2 DEF SettlingTyped, Typed
<1>4. dl'[d].gone # "freed" /\ stopped'[d] = Settle
  BY <1>2 DEF Starts, Typed, Row
<1>5. \A e \in Downloads \ {d} : fresh'[e] = fresh[e] /\ stopped'[e] = stopped[e]
  BY <1>2 DEF Typed
<1>6. \A e \in Downloads : fresh[e] \in Nat /\ stopped[e] \in Nat
  BY LibraryAssumption DEF Typed
<1> QED
  BY <1>3, <1>4, <1>5, <1>6 DEF Freshens

LEMMA TickSettles ==
  ASSUME Typed, Tick
  PROVE  /\ SettlingTyped
         /\ \A d \in Downloads : fresh[d] <= stopped[d] => fresh'[d] <= stopped'[d]
         /\ \A d \in Downloads : fresh'[d] > 0 => fresh[d] > 0
<1>1. \A d \in Downloads :
        /\ stopped[d] \in 0 .. Settle /\ fresh[d] \in 0 .. Settle
        /\ stopped'[d] = Max({stopped[d] - 1, 0}) /\ fresh'[d] = Max({fresh[d] - 1, 0})
  BY DEF Typed, Tick
<1>2. \A d \in Downloads :
        /\ stopped'[d] = IF stopped[d] > 0 THEN stopped[d] - 1 ELSE 0
        /\ fresh'[d] = IF fresh[d] > 0 THEN fresh[d] - 1 ELSE 0
  BY <1>1, TickLess
<1>3. stopped' = [d \in Downloads |-> stopped'[d]] /\ fresh' = [d \in Downloads |-> fresh'[d]]
  BY DEF Tick
<1>4. ASSUME NEW d \in Downloads
      PROVE  /\ stopped'[d] \in 0 .. Settle /\ fresh'[d] \in 0 .. Settle
             /\ fresh[d] <= stopped[d] => fresh'[d] <= stopped'[d]
             /\ fresh'[d] > 0 => fresh[d] > 0
  <2>1. Settle \in Nat /\ stopped[d] \in 0 .. Settle /\ fresh[d] \in 0 .. Settle
    BY <1>1, LibraryAssumption
  <2>2. /\ stopped'[d] = IF stopped[d] > 0 THEN stopped[d] - 1 ELSE 0
        /\ fresh'[d] = IF fresh[d] > 0 THEN fresh[d] - 1 ELSE 0
    BY <1>2
  <2> QED
    BY <2>1, <2>2
<1> QED
  BY <1>3, <1>4 DEF SettlingTyped

RequestsTyped == request' \in [Viewers -> Asks]

\* A request is one there was, on the same download, or has just begun; it
\* picks what it has just started.
PlaysStarted ==
  \A v \in Viewers :
    /\ request'[v].pc # "idle" =>
         request'[v].dl \in Downloads \/ (request'[v].dl = request[v].dl /\ request[v].pc # "idle")
    /\ request'[v].pc = "pick" => request'[v] = request[v] \/ stopped'[request'[v].dl] = Settle

LEMMA RequestsKept == ASSUME Typed, UNCHANGED request PROVE RequestsTyped /\ PlaysStarted
BY DEF Typed, RequestsTyped, PlaysStarted

LEMMA StartRequest ==
  ASSUME Typed, NEW v \in Viewers, NEW d \in Downloads, NEW then \in {"pick", "hold"}, Starts(v, d, then)
  PROVE  RequestsTyped /\ PlaysStarted
<1>1. stopped'[d] = Settle
  BY DEF Starts, Typed
<1> QED
  BY <1>1 DEF Typed, RequestsTyped, PlaysStarted, Starts, Asks

LEMMA PrefetchRequest ==
  ASSUME Typed, NEW v \in Viewers, NEW d \in Downloads, Prefetch(v, d)
  PROVE  RequestsTyped /\ PlaysStarted
BY DEF Typed, RequestsTyped, PlaysStarted, Prefetch, Asks

LEMMA ReleaseRequest ==
  ASSUME Typed, NEW v \in Devices, NEW d \in Downloads, Release(v, d)
  PROVE  RequestsTyped /\ PlaysStarted
BY DEF Typed, RequestsTyped, PlaysStarted, Release, Asks, Viewers

LEMMA StepRequest ==
  ASSUME Typed, NEW v \in Viewers, Picked(v) \/ StartHolds(v) \/ ReleasedLooks(v) \/ ReleasedFrees(v)
  PROVE  RequestsTyped /\ PlaysStarted
<1> USE DEF Typed, RequestsTyped, PlaysStarted, Asks
<1>1. ASSUME Picked(v) PROVE RequestsTyped /\ PlaysStarted
  BY <1>1 DEF Picked
<1>2. ASSUME StartHolds(v) PROVE RequestsTyped /\ PlaysStarted
  BY <1>2 DEF StartHolds, Idle
<1>3. ASSUME ReleasedLooks(v) PROVE RequestsTyped /\ PlaysStarted
  <2>1. \/ request' = [request EXCEPT ![v] = Idle]
        \/ request' = [request EXCEPT ![v] = [pc |-> "free", dl |-> request[v].dl]]
    BY <1>3 DEF ReleasedLooks
  <2> QED
    BY <1>3, <2>1 DEF Idle, ReleasedLooks
<1>4. ASSUME ReleasedFrees(v) PROVE RequestsTyped /\ PlaysStarted
  BY <1>4 DEF ReleasedFrees, Idle
<1> QED
  BY <1>1, <1>2, <1>3, <1>4

-----------------------------------------------------------------------------
(* What a step keeps.                                                       *)

LEMMA PassKeepsRest == ASSUME PassStep PROVE UNCHANGED <<stopped, stream, request, fresh>>
BY DEF PassStep, BeginPass, ChooseCopies, DropReplaced, ListShared, ListFinished, ReadProgress,
       EndPass, PauseReplaced, StopSharing, FreeCandidate

LEMMA ReleaseKeepsRest == ASSUME NEW v, NEW d, Release(v, d) PROVE UNCHANGED <<dl, stopped, stream, fresh>>
BY DEF Release

\* The requests that touch neither rows, streams nor starts.
Aside ==
  \/ \E v \in Devices, d \in Downloads, w \in {"yes", "no"} : PutHold(v, d, w)
  \/ \E e \in Episodes, kind \in {"none", "unwatched", "watched"} : SetProgress(e, kind)
  \/ (\E v \in Devices : ReleaseDevice(v)) \/ RevokeDevice

LEMMA AsideKeeps == ASSUME Aside \/ UNCHANGED vars PROVE UNCHANGED <<dl, stopped, stream, request, fresh>>
BY DEF Aside, PutHold, SetProgress, ReleaseDevice, RevokeDevice, vars

\* Everything a step leaves: its rows, streams, settling and requests typed;
\* nothing streamed freed, no file found that was.
Fine ==
  /\ RowsTyped /\ StreamsTyped /\ SettlingTyped /\ RequestsTyped
  /\ FreesUnplayed /\ FindsFile /\ PlaysStarted

LEMMA NextIsFine ==
  ASSUME IInv, [Next]_vars
  PROVE  /\ Fine
         /\ Freshens \/ Tick
         /\ (\A v \in Viewers : request[v].pc # "free") => FreesIdle
<1> USE DEF Fine
<1> DEFINE Rest == /\ Freshens \/ Tick
                   /\ (\A v \in Viewers : request[v].pc # "free") => FreesIdle
<1>0. Typed
  BY DEF IInv
<1>1. ASSUME PassStep PROVE Fine /\ Rest
  BY <1>0, <1>1, PassKeepsRest, PassRows, IdleIsUnplayed, StreamsKept, StoppedKept, RequestsKept
<1>2. ASSUME NEW v \in Viewers, NEW d \in Downloads, Play(v, d) PROVE Fine /\ Rest
  <2>1. UNCHANGED <<dl, stopped, request, fresh>>
    BY <1>2 DEF Play
  <2> QED
    BY <1>0, <1>2, <2>1, RowsKept, IdleIsUnplayed, PlayStream, StoppedKept, RequestsKept
<1>3. ASSUME NEW v \in Viewers, NEW d \in Downloads, NEW then \in {"pick", "hold"}, Starts(v, d, then),
             dl[d].gone = "no", UNCHANGED stream
      PROVE  Fine /\ Rest
  BY <1>0, <1>3, StartRows, IdleIsUnplayed, StreamsKept, StartSettles, StartRequest
<1>4. ASSUME NEW v \in Viewers, NEW d \in Downloads, Start(v, d) PROVE Fine /\ Rest
  BY <1>3, <1>4 DEF Start
<1>5. ASSUME NEW v \in Viewers, NEW d \in Downloads, Prefetch(v, d) PROVE Fine /\ Rest
  <2>1. UNCHANGED <<dl, stopped, stream, fresh>>
    BY <1>5 DEF Prefetch
  <2> QED
    BY <1>0, <1>5, <2>1, RowsKept, IdleIsUnplayed, StreamsKept, StoppedKept, PrefetchRequest
<1>6. ASSUME NEW v \in Devices, NEW d \in Downloads, Release(v, d) PROVE Fine /\ Rest
  BY <1>0, <1>6, ReleaseKeepsRest, RowsKept, IdleIsUnplayed, StreamsKept, StoppedKept, ReleaseRequest
<1>7. ASSUME NEW v \in Viewers, RequestStep(v) PROVE Fine /\ Rest
  <2>1. CASE StartPrefetch(v)
    <3> DEFINE d == request[v].dl
    <3>1. d \in Downloads /\ UNCHANGED stream
      BY <2>1 DEF StartPrefetch, IInv, RequestsOf
    <3>2. CASE dl[d].gone = "no" /\ Starts(v, d, "hold")
      BY <1>3, <3>1, <3>2
    <3>3. CASE request' = [request EXCEPT ![v] = Idle] /\ UNCHANGED <<dl, stopped, fresh>>
      <4>1. RequestsTyped /\ PlaysStarted
        BY <1>0, <3>3 DEF Typed, RequestsTyped, PlaysStarted, Asks, Idle
      <4> QED
        BY <1>0, <3>1, <3>3, <4>1, RowsKept, IdleIsUnplayed, StreamsKept, StoppedKept
    <3> QED
      BY <2>1, <3>2, <3>3 DEF StartPrefetch
  <2>2. CASE Picked(v) \/ StartHolds(v) \/ ReleasedLooks(v) \/ ReleasedFrees(v)
    <3>1. UNCHANGED <<stopped, stream, fresh>> /\ (UNCHANGED dl \/ ReleasedFrees(v))
      BY <2>2 DEF Picked, StartHolds, ReleasedLooks, ReleasedFrees
    <3>2. ReleasedFrees(v) => request[v].pc = "free"
      BY DEF ReleasedFrees
    <3>3. RowsTyped /\ FreesUnplayed /\ (FreesIdle \/ request[v].pc = "free")
      BY <1>0, <3>1, <3>2, RowsKept, IdleIsUnplayed, ReleasedRows
    <3> QED
      BY <1>0, <2>2, <3>1, <3>3, StreamsKept, StoppedKept, StepRequest
  <2> QED
    BY <1>7, <2>1, <2>2 DEF RequestStep
<1>8. ASSUME NEW v \in Viewers, StreamStep(v) PROVE Fine /\ Rest
  <2> DEFINE d == stream[v].dl
  <2>1. /\ UNCHANGED <<dl, request>>
        /\ \/ UNCHANGED <<stopped, fresh>>
           \/ UNCHANGED fresh /\ stopped' = [stopped EXCEPT ![d] = Settle]
           \/ UNCHANGED stopped /\ fresh' = [fresh EXCEPT ![d] = 0]
    BY <1>8 DEF StreamStep, Lookup, Opened, StreamHolds, EndStream
  <2> HIDE DEF d
  <2>2. SettlingTyped /\ Freshens
    BY <1>0, <2>1, StoppedKept, StreamSettles
  <2> QED
    BY <1>0, <1>8, <2>1, <2>2, RowsKept, IdleIsUnplayed, StepStream, RequestsKept
<1>9. ASSUME NEW d \in Downloads, RemoveDownload(d) \/ Arrive(d) \/ Stall(d) PROVE Fine /\ Rest
  <2>1. UNCHANGED <<stopped, stream, request, fresh>>
    BY <1>9 DEF RemoveDownload, Arrive, Stall
  <2>2. RowsTyped /\ FreesIdle
    BY <1>0, <1>9, RemoveRows, TransferRows
  <2> QED
    BY <1>0, <2>1, <2>2, IdleIsUnplayed, StreamsKept, StoppedKept, RequestsKept
<1>10. ASSUME Tick PROVE Fine /\ Rest
  <2>1. UNCHANGED <<stream, request>>
    BY <1>10 DEF Tick
  <2> QED
    BY <1>0, <1>10, <2>1, TickRows, TickSettles, IdleIsUnplayed, StreamsKept, RequestsKept
<1>11. ASSUME Aside \/ UNCHANGED vars PROVE Fine /\ Rest
  BY <1>0, <1>11, AsideKeeps, RowsKept, IdleIsUnplayed, StreamsKept, StoppedKept, RequestsKept
<1> HIDE DEF Fine, Rest
<1>12. Fine /\ Rest
  BY <1>1, <1>2, <1>4, <1>5, <1>6, <1>7, <1>8, <1>9, <1>10, <1>11 DEF Next, Aside
<1> QED
  BY <1>12 DEF Rest

LEMMA InitInv == Init => IInv
<1> SUFFICES ASSUME Init PROVE IInv
  OBVIOUS
<1>1. dl \in [Downloads -> Row]
  BY ZeroIsAge DEF Init, Row, States
<1> QED
  BY <1>1, LibraryAssumption DEF Init, IInv, Typed, StreamsOf, RequestsOf, StreamNotFreed, Streams, Asks, Idle

LEMMA NextInv == IInv /\ [Next]_vars => IInv'
<1> SUFFICES ASSUME IInv, [Next]_vars PROVE IInv'
  OBVIOUS
<1>1. Fine
  BY NextIsFine
<1>2. Typed' /\ StreamsOf'
  BY <1>1 DEF Fine, RowsTyped, StreamsTyped, SettlingTyped, RequestsTyped, Typed
<1>3. RequestsOf'
  <2> SUFFICES ASSUME NEW v \in Viewers, request'[v].pc # "idle"
               PROVE  /\ request'[v].dl \in Downloads
                      /\ request'[v].pc = "pick" => stopped'[request'[v].dl] > 0
    BY DEF RequestsOf
  <2> DEFINE d == request'[v].dl
  <2>1. d \in Downloads
    BY <1>1 DEF Fine, PlaysStarted, IInv, RequestsOf
  <2>2. CASE request'[v].pc = "pick" /\ stopped'[d] = Settle
    BY <2>1, <2>2, LibraryAssumption
  <2>3. CASE request'[v].pc = "pick" /\ request'[v] = request[v]
    <3>1. ~Tick /\ stopped[d] > 0
      BY <2>3 DEF Tick, IInv, RequestsOf
    <3>2. stopped[d] \in Nat /\ stopped'[d] \in Nat
      BY <1>2, <2>1, LibraryAssumption DEF IInv, Typed
    <3>3. stopped[d] <= stopped'[d] \/ stopped'[d] = Settle
      BY <2>1, <3>1, NextIsFine DEF Freshens
    <3> QED
      BY <2>1, <3>1, <3>2, <3>3, LibraryAssumption
  <2> QED
    BY <1>1, <2>1, <2>2, <2>3 DEF Fine, PlaysStarted
<1>4. StreamNotFreed'
  <2> SUFFICES ASSUME NEW v \in Viewers, stream'[v].pc \in {"found", "touch", "serving"},
                      dl'[stream'[v].dl].gone = "freed"
               PROVE  FALSE
    BY DEF StreamNotFreed
  <2> DEFINE d == stream'[v].dl
  <2>1. d \in Downloads
    BY <1>2 DEF StreamsOf
  <2>2. CASE d = stream[v].dl /\ stream[v].pc \in {"found", "touch", "serving"}
    <3>1. Playing(d)
      BY <2>2 DEF Playing
    <3>2. dl[d].gone # "freed"
      BY <2>2 DEF IInv, StreamNotFreed
    <3> QED
      BY <1>1, <2>1, <3>1, <3>2 DEF Fine, FreesUnplayed
  <2> QED
    BY <1>1, <2>2 DEF Fine, FindsFile
<1> QED
  BY <1>2, <1>3, <1>4 DEF IInv

-----------------------------------------------------------------------------
(* StreamNotFreed.                                                          *)

\* For any policy and any schedule, no download goes while a stream of it
\* has found its file: every removal of the library is made under mu, and
\* looks there at the streams Play has counted.
THEOREM StreamKeepsItsFile == Spec => []StreamNotFreed
<1>1. Init => IInv
  BY InitInv
<1>2. IInv /\ [Next]_vars => IInv'
  BY NextInv
<1>3. IInv => StreamNotFreed
  BY DEF IInv
<1> QED
  BY <1>1, <1>2, <1>3, PTL DEF Spec

-----------------------------------------------------------------------------
(* StartedNotFreed, where no device lets go of a download: Service.Released *)
(* asks only for open streams, and one device's release frees what another  *)
(* viewer has started and not opened yet.                                   *)

NoRelease == Devices = {} \/ "release" \notin Requests

\* Nothing is being let go, and what was started and has not been opened is
\* there, and settles no sooner than it may be opened.
FreshSettles ==
  /\ \A v \in Viewers : request[v].pc \notin {"list", "free"}
  /\ \A d \in Downloads : fresh[d] <= stopped[d]
  /\ StartedNotFreed

LEMMA NoReleaseRequest ==
  ASSUME NoRelease, IInv, FreshSettles, [Next]_vars
  PROVE  \A v \in Viewers : request'[v].pc \notin {"list", "free"}
<1> DEFINE Quiet == \A u \in Viewers : request'[u].pc \notin {"list", "free"}
<1> USE DEF FreshSettles, IInv, Typed
<1>1. ASSUME UNCHANGED request PROVE Quiet
  BY <1>1
<1>2. ASSUME NEW u \in Viewers, NEW d, Start(u, d) \/ Prefetch(u, d) PROVE Quiet
  BY <1>2 DEF Start, Starts, Prefetch
<1>3. ASSUME NEW u \in Devices, NEW d \in Downloads, Release(u, d) PROVE FALSE
  BY <1>3 DEF Release, Ask, NoRelease
<1>4. ASSUME NEW u \in Viewers, RequestStep(u) PROVE Quiet
  <2>1. CASE Picked(u)
    BY <2>1 DEF Picked
  <2>2. CASE StartHolds(u)
    BY <2>2 DEF StartHolds, Idle
  <2>3. CASE StartPrefetch(u)
    BY <2>3 DEF StartPrefetch, Starts, Idle
  <2>4. ~ReleasedLooks(u) /\ ~ReleasedFrees(u)
    BY DEF ReleasedLooks, ReleasedFrees
  <2> QED
    BY <1>4, <2>1, <2>2, <2>3, <2>4 DEF RequestStep
<1>5. ASSUME NEW u, NEW d, Play(u, d) PROVE UNCHANGED request
  BY <1>5 DEF Play
<1>6. ASSUME NEW u, StreamStep(u) PROVE UNCHANGED request
  BY <1>6 DEF StreamStep, Lookup, Opened, StreamHolds, EndStream
<1>7. ASSUME NEW d, RemoveDownload(d) \/ Arrive(d) \/ Stall(d) PROVE UNCHANGED request
  BY <1>7 DEF RemoveDownload, Arrive, Stall
<1>8. Tick => UNCHANGED request
  BY DEF Tick
<1>9. Quiet
  BY <1>1, <1>2, <1>3, <1>4, <1>5, <1>6, <1>7, <1>8, PassKeepsRest, AsideKeeps DEF Next, Aside
<1> QED
  BY <1>9

LEMMA FreshInv ==
  ASSUME NoRelease, IInv, FreshSettles, [Next]_vars
  PROVE  FreshSettles'
<1>1. Fine /\ (Freshens \/ Tick) /\ FreesIdle
  BY NextIsFine DEF FreshSettles
<1>2. ASSUME NEW d \in Downloads
      PROVE  fresh'[d] <= stopped'[d] /\ (fresh'[d] > 0 => dl'[d].gone # "freed")
  <2>1. /\ fresh[d] \in 0 .. Settle /\ stopped[d] \in 0 .. Settle /\ fresh[d] <= stopped[d]
        /\ fresh'[d] \in 0 .. Settle /\ stopped'[d] \in 0 .. Settle
    BY <1>1 DEF IInv, Typed, FreshSettles, Fine, SettlingTyped
  <2>2. ASSUME fresh[d] > 0 PROVE dl'[d].gone # "freed"
    <3>1. Busy(d)
      BY <2>1, <2>2, LibraryAssumption DEF Busy
    <3> QED
      BY <1>1, <2>2, <3>1 DEF FreesIdle, FreshSettles, StartedNotFreed
  <2>3. CASE Tick
    BY <2>1, <2>2, <2>3, TickSettles DEF IInv, FreshSettles
  <2>4. CASE fresh'[d] <= fresh[d] /\ stopped[d] <= stopped'[d]
    BY <2>1, <2>2, <2>4, LibraryAssumption
  <2>5. CASE stopped'[d] = Settle /\ dl'[d].gone # "freed"
    BY <2>1, <2>5, LibraryAssumption
  <2> QED
    BY <1>1, <2>3, <2>4, <2>5 DEF Freshens
<1> QED
  BY <1>2, NoReleaseRequest DEF FreshSettles, StartedNotFreed

\* Whatever else the owner and the devices do, and whatever the passes find
\* expired, what a viewer has started stays until a stream of it opens, or
\* until it has had the settle time for one.
THEOREM StartKeepsItsFile == ASSUME NoRelease PROVE Spec => []StartedNotFreed
<1>1. Init => IInv /\ FreshSettles
  <2> SUFFICES ASSUME Init PROVE FreshSettles
    BY InitInv
  <2>1. \A d \in Downloads : fresh[d] = 0 /\ stopped[d] = 0
    BY DEF Init
  <2> QED
    BY <2>1 DEF Init, FreshSettles, StartedNotFreed, Idle
<1>2. IInv /\ FreshSettles /\ [Next]_vars => (IInv /\ FreshSettles)'
  BY NextInv, FreshInv
<1>3. FreshSettles => StartedNotFreed
  BY DEF FreshSettles
<1> QED
  BY <1>1, <1>2, <1>3, PTL DEF Spec

-----------------------------------------------------------------------------
(* DeadPickKeepsOld.                                                        *)

ChoiceRecords == [kind : {"none", "picked", "played"}, played : BOOLEAN, over : SUBSET Downloads]

\* Of two downloads at most one was chosen after the other, and what counts as
\* opened has opened.
Ordered(choices) ==
  /\ choices \in [Downloads -> ChoiceRecords]
  /\ \A c \in Downloads : choices[c].kind = "played" => choices[c].played
  /\ \A c, d \in Downloads : d \in choices[c].over => c \notin choices[d].over

\* While a pass drops copies, each episode it takes for opened has a copy that
\* opened and that is not among them.
OpenedStays ==
  /\ pass = [pc |-> pass.pc, rows |-> pass.rows, opened |-> pass.opened, todo |-> pass.todo,
             at |-> pass.at, used |-> pass.used]
  /\ pass.pc \in {"replace", "drop"} =>
       \A e \in pass.opened : \E c \in Downloads \ pass.todo : EpisodeOf[c] = e /\ recent[c].played
  /\ pass.pc = "drop" => pass.at \in pass.todo

CopiesInv == Ordered(recent) /\ OpenedStays

LEMMA ChoosesInOrder ==
  ASSUME CopiesInv, NEW d, NEW kind \in {"picked", "played"}, Choose(d, kind), UNCHANGED pass
  PROVE  CopiesInv'
<1> USE DEF CopiesInv
<1>1. \A c \in Downloads :
        /\ c = d => recent'[c] = [kind |-> kind, played |-> kind = "played" \/ recent[d].played,
                                  over |-> {o \in Downloads \ {d} : recent[o].kind # "none"}]
        /\ c # d => recent'[c] = [recent[c] EXCEPT !.over = @ \ {d}]
  BY DEF Choose
<1>2. recent' = [c \in Downloads |-> recent'[c]]
  BY DEF Choose
<1>3. ASSUME NEW c \in Downloads
      PROVE  /\ recent'[c] \in ChoiceRecords /\ (recent'[c].kind = "played" => recent'[c].played)
             /\ (recent[c].played => recent'[c].played)
             /\ c # d => recent'[c].over = recent[c].over \ {d}
             /\ c = d => d \notin recent'[c].over
  <2>1. recent[c] \in ChoiceRecords /\ (recent[c].kind = "played" => recent[c].played)
    BY DEF Ordered
  <2>2. CASE c = d
    <3> DEFINE w == kind = "played" \/ recent[d].played
               o == {x \in Downloads \ {d} : recent[x].kind # "none"}
    <3>1. w \in BOOLEAN /\ (kind = "played" => w) /\ (recent[c].played => w) /\ o \in SUBSET Downloads /\ d \notin o
      BY <2>2
    <3>2. recent'[c] = [kind |-> kind, played |-> w, over |-> o]
      BY <1>1, <2>2
    <3> HIDE DEF w, o
    <3> QED
      BY <2>2, <3>1, <3>2 DEF ChoiceRecords
  <2>3. CASE c # d
    <3> DEFINE o == recent[c].over \ {d}
    <3>1. o \in SUBSET Downloads /\ recent'[c] = [recent[c] EXCEPT !.over = o]
      BY <1>1, <2>1, <2>3 DEF ChoiceRecords
    <3> HIDE DEF o
    <3>2. recent'[c].over = o /\ recent'[c].kind = recent[c].kind /\ recent'[c].played = recent[c].played
          /\ recent'[c] \in ChoiceRecords
      BY <2>1, <3>1 DEF ChoiceRecords
    <3> QED
      BY <2>1, <2>3, <3>2 DEF o
  <2> QED
    BY <2>2, <2>3
<1>4. \A c, x \in Downloads : x \in recent'[c].over => c \notin recent'[x].over
  <2> SUFFICES ASSUME NEW c \in Downloads, NEW x \in Downloads, x \in recent'[c].over, c \in recent'[x].over
               PROVE  FALSE
    OBVIOUS
  <2>1. c # d /\ x # d
    BY <1>3
  <2> QED
    BY <1>3, <2>1 DEF Ordered
<1>5. Ordered(recent)'
  BY <1>2, <1>3, <1>4 DEF Ordered
<1>6. OpenedStays'
  BY <1>3 DEF OpenedStays
<1> QED
  BY <1>5, <1>6

\* What the pass keeps is in order, and the copy chosen last is not replaced.
LEMMA ChosenStays ==
  ASSUME CopiesInv, ChooseCopies
  PROVE  CopiesInv'
<1> DEFINE kept == KeptChoices
           known == {d \in Downloads : Present(pass.rows, d)}
           opened == {e \in Episodes : \E c \in Chosen(e, kept) : kept[c].kind = "played"}
<1>1. /\ recent' = kept
      /\ pass' = [pass EXCEPT !.pc = "replace", !.todo = Replaced(kept), !.opened = opened]
  BY DEF ChooseCopies
<1>2. kept = [d \in Downloads |-> IF d \in known THEN [recent[d] EXCEPT !.over = @ \cap known] ELSE NotChosen]
  BY DEF KeptChoices
<1>3. Ordered(recent)
  BY DEF CopiesInv
<1> HIDE DEF kept, known
<1>4. ASSUME NEW d \in Downloads
      PROVE  /\ kept[d] \in ChoiceRecords /\ kept[d].over \subseteq recent[d].over
             /\ kept[d].kind = "played" => kept[d].played
  <2>1. recent[d] \in ChoiceRecords /\ (recent[d].kind = "played" => recent[d].played)
    BY <1>3 DEF Ordered
  <2> DEFINE o == recent[d].over \cap known
  <2>2. o \in SUBSET Downloads /\ o \subseteq recent[d].over
        /\ (kept[d] = [recent[d] EXCEPT !.over = o] \/ kept[d] = NotChosen)
    BY <1>2, <2>1 DEF ChoiceRecords
  <2> HIDE DEF o
  <2>3. CASE kept[d] = NotChosen
    BY <2>3 DEF ChoiceRecords, NotChosen
  <2>4. CASE kept[d] = [recent[d] EXCEPT !.over = o]
    BY <2>1, <2>2, <2>4 DEF ChoiceRecords
  <2> QED
    BY <2>2, <2>3, <2>4
<1>5. Ordered(kept)
  BY <1>2, <1>3, <1>4 DEF Ordered
<1>6. ASSUME NEW e \in opened
      PROVE  \E c \in Downloads \ Replaced(kept) : EpisodeOf[c] = e /\ kept[c].played
  <2>1. PICK c \in Chosen(e, kept) : kept[c].kind = "played"
    OBVIOUS
  <2>2. /\ c \in Downloads /\ EpisodeOf[c] = e
        /\ \A x \in Chosen(e, kept) : x \in Downloads /\ (x # c => x \in kept[c].over /\ c \in kept[x].over)
    BY DEF Chosen
  <2>3. Chosen(e, kept) \ {c} = {}
    BY <1>5, <2>2 DEF Ordered
  <2>4. c \notin Replaced(kept)
    BY <2>2, <2>3 DEF Replaced
  <2> QED
    BY <1>4, <2>1, <2>2, <2>4
<1>7. OpenedStays'
  <2>1. pass' = [pc |-> "replace", rows |-> pass.rows, opened |-> opened, todo |-> Replaced(kept),
                 at |-> pass.at, used |-> pass.used]
    BY <1>1 DEF CopiesInv, OpenedStays
  <2>2. \A e \in opened : \E c \in Downloads \ Replaced(kept) : EpisodeOf[c] = e /\ recent'[c].played
    BY <1>1, <1>6
  <2> HIDE DEF opened
  <2>3. /\ pass'.pc = "replace" /\ pass'.opened = opened /\ pass'.todo = Replaced(kept)
        /\ pass' = [pc |-> pass'.pc, rows |-> pass'.rows, opened |-> pass'.opened, todo |-> pass'.todo,
                    at |-> pass'.at, used |-> pass'.used]
    BY <2>1
  <2> QED
    BY <2>2, <2>3 DEF OpenedStays
<1> QED
  BY <1>1, <1>5, <1>7 DEF CopiesInv

LEMMA PassKeepsCopies ==
  ASSUME CopiesInv, PassStep
  PROVE  CopiesInv'
<1>0. pass = [pc |-> pass.pc, rows |-> pass.rows, opened |-> pass.opened, todo |-> pass.todo,
              at |-> pass.at, used |-> pass.used]
  BY DEF CopiesInv, OpenedStays
<1>1. ASSUME ChooseCopies PROVE CopiesInv'
  BY <1>1, ChosenStays
<1>2. ASSUME NEW d \in Downloads, PauseReplaced(d) PROVE CopiesInv'
  <2>1. /\ UNCHANGED recent /\ pass.pc = "replace" /\ d \in pass.todo
        /\ pass' = [pc |-> "drop", rows |-> pass.rows, opened |-> pass.opened, todo |-> pass.todo,
                    at |-> d, used |-> pass.used]
    BY <1>0, <1>2 DEF PauseReplaced
  <2> QED
    BY <2>1 DEF CopiesInv, OpenedStays
<1>3. ASSUME DropReplaced PROVE CopiesInv'
  <2>1. /\ UNCHANGED recent /\ pass.pc = "drop"
        /\ pass' = [pc |-> "replace", rows |-> pass.rows, opened |-> pass.opened,
                    todo |-> pass.todo \ {pass.at}, at |-> NoDownload, used |-> pass.used]
    BY <1>0, <1>3 DEF DropReplaced
  <2> QED
    BY <2>1 DEF CopiesInv, OpenedStays
<1>4. ASSUME UNCHANGED recent, pass'.pc \notin {"replace", "drop"},
             pass' = [pc |-> pass'.pc, rows |-> pass'.rows, opened |-> pass'.opened, todo |-> pass'.todo,
                      at |-> pass'.at, used |-> pass'.used]
      PROVE  CopiesInv'
  BY <1>4 DEF CopiesInv, OpenedStays
<1>5. ASSUME BeginPass \/ ListShared \/ ListFinished \/ ReadProgress \/ EndPass PROVE CopiesInv'
  <2> DEFINE Shape(p) == p = [pc |-> p.pc, rows |-> p.rows, opened |-> p.opened, todo |-> p.todo,
                              at |-> p.at, used |-> p.used]
  <2>1. Shape(IdlePass) /\ IdlePass.pc = "idle"
    BY DEF IdlePass
  <2>2. UNCHANGED recent /\ pass'.pc \notin {"replace", "drop"} /\ Shape(pass')
    <3>1. CASE BeginPass
      BY <1>0, <3>1 DEF BeginPass
    <3>2. CASE ListShared
      BY <3>2 DEF ListShared, IdlePass
    <3>3. CASE ListFinished
      BY <1>0, <3>3 DEF ListFinished
    <3>4. CASE ReadProgress
      BY <3>4 DEF ReadProgress, IdlePass
    <3>5. CASE EndPass
      BY <2>1, <3>5 DEF EndPass
    <3> QED
      BY <1>5, <3>1, <3>2, <3>3, <3>4, <3>5
  <2> QED
    BY <1>4, <2>2
<1>6. ASSUME NEW d \in Downloads, StopSharing(d) PROVE CopiesInv'
  BY <1>0, <1>4, <1>6 DEF StopSharing
<1>7. ASSUME NEW c, FreeCandidate(c) PROVE CopiesInv'
  <2> DEFINE used == IF /\ (c.lapsed \/ c.age >= Settle) /\ (Expired(c) \/ (DiskLimit > 0 /\ pass.used > DiskLimit))
                        /\ ~Busy(c.dl) /\ Known(c.dl)
                     THEN pass.used - 1 ELSE pass.used
  <2>1. pass.pc = "free" /\ UNCHANGED recent /\ pass' = [pass EXCEPT !.todo = @ \ {c}, !.used = used]
    BY <1>0, <1>7 DEF FreeCandidate
  <2> HIDE DEF used
  <2> QED
    BY <1>0, <1>4, <2>1
<1> QED
  BY <1>1, <1>2, <1>3, <1>5, <1>6, <1>7 DEF PassStep

LEMMA CopiesStep ==
  ASSUME CopiesInv, [Next]_vars
  PROVE  CopiesInv' /\ (PassStep \/ UNCHANGED pass)
<1>1. ASSUME UNCHANGED <<recent, pass>> PROVE CopiesInv' /\ UNCHANGED pass
  BY <1>1 DEF CopiesInv, Ordered, OpenedStays
<1>2. ASSUME PassStep PROVE CopiesInv'
  BY <1>2, PassKeepsCopies
<1>3. ASSUME NEW v \in Viewers, RequestStep(v) PROVE CopiesInv' /\ UNCHANGED pass
  BY <1>1, <1>3, ChoosesInOrder DEF RequestStep, StartPrefetch, Picked, StartHolds, ReleasedLooks, ReleasedFrees
<1>4. ASSUME NEW v \in Viewers, StreamStep(v) PROVE CopiesInv' /\ UNCHANGED pass
  BY <1>1, <1>4, ChoosesInOrder DEF StreamStep, Lookup, Opened, StreamHolds, EndStream
<1>5. ASSUME NEW v, NEW d, Play(v, d) \/ Start(v, d) \/ Prefetch(v, d) \/ Release(v, d)
      PROVE  UNCHANGED <<recent, pass>>
  BY <1>5 DEF Play, Start, Prefetch, Release
<1>6. ASSUME NEW d, RemoveDownload(d) \/ Arrive(d) \/ Stall(d) PROVE UNCHANGED <<recent, pass>>
  BY <1>6 DEF RemoveDownload, Arrive, Stall
<1>7. ASSUME Tick \/ Aside \/ UNCHANGED vars PROVE UNCHANGED <<recent, pass>>
  BY <1>7 DEF Tick, Aside, PutHold, SetProgress, ReleaseDevice, RevokeDevice, vars
<1> QED
  BY <1>1, <1>2, <1>3, <1>4, <1>5, <1>6, <1>7 DEF Next, Aside

\* A copy the viewer goes back to while a pass may drop it is busy by then.
BackIsBusy ==
  pass.pc \in {"replace", "drop"} =>
    \A d \in Downloads \cap pass.todo : d \in Chosen(EpisodeOf[d], recent) => Busy(d)

\* A download stays busy until time passes.
LEMMA BusyStays ==
  ASSUME IInv, [Next]_vars, ~Tick, NEW d \in Downloads, Busy(d)
  PROVE  Busy(d)'
<1>1. ASSUME stopped[d] > 0 PROVE stopped'[d] > 0
  <2>1. stopped[d] \in 0 .. Settle /\ stopped'[d] \in 0 .. Settle
    BY NextIsFine DEF IInv, Typed, Fine, SettlingTyped
  <2>2. stopped[d] <= stopped'[d] \/ stopped'[d] = Settle
    BY NextIsFine DEF Freshens
  <2> QED
    BY <1>1, <2>1, <2>2, LibraryAssumption
<1>2. ASSUME NEW v \in Viewers, stream[v].pc # "idle", stream[v].dl = d
      PROVE  (\E u \in Viewers : stream'[u].pc # "idle" /\ stream'[u].dl = d) \/ stopped'[d] > 0
  <2> USE DEF IInv, Typed, Streams
  <2>1. ASSUME UNCHANGED stream PROVE stream'[v].pc # "idle" /\ stream'[v].dl = d
    BY <1>2, <2>1
  <2>2. ASSUME NEW u \in Viewers, NEW e, Play(u, e) PROVE stream'[v].pc # "idle" /\ stream'[v].dl = d
    BY <1>2, <2>2 DEF Play
  <2>3. ASSUME NEW u \in Viewers, Lookup(u) \/ Opened(u) \/ StreamHolds(u)
        PROVE  stream'[v].pc # "idle" /\ stream'[v].dl = d
    <3>1. stream[v] \in Streams
      OBVIOUS
    <3>2. stream' = [stream EXCEPT ![u].pc = "found"] \/ stream' = [stream EXCEPT ![u].pc = "touch"]
          \/ stream' = [stream EXCEPT ![u].pc = "serving"]
      BY <2>3 DEF Lookup, Opened, StreamHolds
    <3>3. stream'[v] = stream[v] \/ \E pc \in {"found", "touch", "serving"} : stream'[v] = [stream[v] EXCEPT !.pc = pc]
      BY <3>2
    <3> QED
      BY <1>2, <3>1, <3>3
  <2>4. ASSUME NEW u \in Viewers, EndStream(u)
        PROVE  (\E w \in Viewers : stream'[w].pc # "idle" /\ stream'[w].dl = d) \/ stopped'[d] > 0
    <3>1. CASE u # v
      BY <1>2, <2>4, <3>1 DEF EndStream
    <3>2. CASE u = v /\ \E w \in Viewers \ {v} : stream[w].pc # "idle" /\ stream[w].dl = d
      BY <1>2, <2>4, <3>2 DEF EndStream
    <3>3. CASE u = v /\ stopped' = [stopped EXCEPT ![d] = Settle]
      BY <3>3, LibraryAssumption
    <3> QED
      BY <1>2, <2>4, <3>1, <3>2, <3>3 DEF EndStream
  <2>5. ASSUME NEW u, RequestStep(u) PROVE UNCHANGED stream
    BY <2>5 DEF RequestStep, StartPrefetch, Picked, StartHolds, ReleasedLooks, ReleasedFrees
  <2>6. ASSUME NEW u, NEW e, Start(u, e) \/ Prefetch(u, e) \/ Release(u, e) PROVE UNCHANGED stream
    BY <2>6 DEF Start, Prefetch, Release
  <2>7. ASSUME NEW e, RemoveDownload(e) \/ Arrive(e) \/ Stall(e) PROVE UNCHANGED stream
    BY <2>7 DEF RemoveDownload, Arrive, Stall
  <2> QED
    BY <2>1, <2>2, <2>3, <2>4, <2>5, <2>6, <2>7, PassKeepsRest, AsideKeeps DEF Next, StreamStep, Aside
<1> QED
  BY <1>1, <1>2 DEF Busy, Playing

\* Only choosing a copy again makes it the one chosen last.
LEMMA ChosenAgain ==
  ASSUME Ordered(recent), NEW x, NEW kind \in {"picked", "played"}, Choose(x, kind), NEW d \in Downloads, d # x,
         d \in Chosen(EpisodeOf[d], recent')
  PROVE  d \in Chosen(EpisodeOf[d], recent)
<1> DEFINE e == EpisodeOf[d]
<1>1. \A c \in Downloads \ {x} :
        recent'[c].over = recent[c].over \ {x} /\ recent'[c].kind = recent[c].kind
  BY DEF Choose, Ordered, ChoiceRecords
<1>2. recent'[d].kind # "none" /\ recent[d].kind # "none"
  BY <1>1 DEF Chosen
<1>3. ASSUME NEW c \in Downloads, EpisodeOf[c] = e, recent[c].kind # "none", c # d
      PROVE  c \in recent[d].over
  <2>1. CASE c # x
    BY <1>1, <1>3, <2>1 DEF Chosen
  <2>2. CASE c = x
    <3>1. recent'[x].kind # "none" /\ x \notin recent'[d].over
      BY <1>1, <1>3, <2>2 DEF Choose
    <3> QED
      BY <1>3, <2>2, <3>1 DEF Chosen
  <2> QED
    BY <2>1, <2>2
<1> QED
  BY <1>2, <1>3 DEF Chosen

LEMMA ChangesChoices ==
  ASSUME [Next]_vars
  PROVE  UNCHANGED recent \/ ChooseCopies \/ \E v \in Viewers : Picked(v) \/ Opened(v)
<1>1. ASSUME PassStep PROVE UNCHANGED recent \/ ChooseCopies
  BY <1>1 DEF PassStep, BeginPass, DropReplaced, ListShared, ListFinished, ReadProgress, EndPass,
              PauseReplaced, StopSharing, FreeCandidate
<1>2. ASSUME NEW v \in Viewers, RequestStep(v) \/ StreamStep(v)
      PROVE  UNCHANGED recent \/ Picked(v) \/ Opened(v)
  BY <1>2 DEF RequestStep, StartPrefetch, StartHolds, ReleasedLooks, ReleasedFrees,
              StreamStep, Lookup, StreamHolds, EndStream
<1>3. ASSUME NEW v, NEW d, Play(v, d) \/ Start(v, d) \/ Prefetch(v, d) \/ Release(v, d)
      PROVE  UNCHANGED recent
  BY <1>3 DEF Play, Start, Prefetch, Release
<1>4. ASSUME NEW d, RemoveDownload(d) \/ Arrive(d) \/ Stall(d) PROVE UNCHANGED recent
  BY <1>4 DEF RemoveDownload, Arrive, Stall
<1>5. ASSUME Tick \/ Aside \/ UNCHANGED vars PROVE UNCHANGED recent
  BY <1>5 DEF Tick, Aside, PutHold, SetProgress, ReleaseDevice, RevokeDevice, vars
<1> QED
  BY <1>1, <1>2, <1>3, <1>4, <1>5 DEF Next, Aside

\* A pass goes on dropping what it chose to, and time stands still.
LEMMA StaysReplacing ==
  ASSUME CopiesInv, [Next]_vars, pass'.pc \in {"replace", "drop"}, ~ChooseCopies
  PROVE  pass.pc \in {"replace", "drop"} /\ pass'.todo \subseteq pass.todo /\ ~Tick
<1>1. CASE UNCHANGED pass
  BY <1>1 DEF Tick
<1>2. CASE PassStep
  <2>0. pass = [pc |-> pass.pc, rows |-> pass.rows, opened |-> pass.opened, todo |-> pass.todo,
                at |-> pass.at, used |-> pass.used]
    BY DEF CopiesInv, OpenedStays
  <2>1. ~BeginPass /\ ~ListFinished
    BY <2>0 DEF BeginPass, ListFinished
  <2>2. ASSUME ListShared PROVE pass'.pc = "share"
    BY <2>2 DEF ListShared, IdlePass
  <2>8. ~EndPass
    BY DEF EndPass, IdlePass
  <2>7. ~ReadProgress
    BY DEF ReadProgress, IdlePass
  <2>3. ASSUME NEW d, StopSharing(d) PROVE FALSE
    BY <2>0, <2>3 DEF StopSharing
  <2>4. ASSUME NEW c, FreeCandidate(c) PROVE FALSE
    <3> DEFINE used == pass'.used
    <3>1. pass.pc = "free" /\ pass'.pc = pass.pc
      BY <2>0, <2>4 DEF FreeCandidate
    <3> QED
      BY <3>1
  <2>5. ASSUME NEW d, PauseReplaced(d)
        PROVE  pass.pc = "replace" /\ pass'.todo = pass.todo
    BY <2>0, <2>5 DEF PauseReplaced
  <2>6. ASSUME DropReplaced
        PROVE  pass.pc = "drop" /\ pass'.todo = pass.todo \ {pass.at}
    BY <2>0, <2>6 DEF DropReplaced
  <2> QED
    BY <1>2, <2>1, <2>2, <2>3, <2>4, <2>5, <2>6, <2>7, <2>8 DEF PassStep, Tick
<1> QED
  BY <1>1, <1>2, CopiesStep

LEMMA BackStaysBusy ==
  ASSUME IInv, CopiesInv, BackIsBusy, [Next]_vars
  PROVE  BackIsBusy'
<1> SUFFICES ASSUME pass'.pc \in {"replace", "drop"}, NEW d \in Downloads, d \in pass'.todo,
                    d \in Chosen(EpisodeOf[d], recent')
             PROVE  Busy(d)'
  BY DEF BackIsBusy, Chosen
<1>1. CASE ChooseCopies
  <2>1. Ordered(recent') /\ recent' = KeptChoices /\ pass'.todo = Replaced(KeptChoices)
    BY <1>1, ChosenStays DEF CopiesInv, ChooseCopies, Ordered, OpenedStays
  <2>2. PICK c \in Chosen(EpisodeOf[d], recent') : c # d
    BY <2>1 DEF Replaced
  <2>3. c \in Downloads /\ c \in recent'[d].over /\ d \in recent'[c].over
    BY <2>2 DEF Chosen
  <2> QED
    BY <2>1, <2>3 DEF Ordered
<1>2. CASE pass.pc \in {"replace", "drop"} /\ pass'.todo \subseteq pass.todo /\ ~Tick
  <2>1. CASE d \in Chosen(EpisodeOf[d], recent)
    BY <1>2, <2>1, BusyStays DEF BackIsBusy
  <2>2. CASE \E v \in Viewers : Picked(v) /\ request[v].dl = d
    <3>1. stopped[d] > 0
      BY <2>2 DEF IInv, RequestsOf, Picked
    <3> QED
      BY <1>2, <3>1, BusyStays DEF Busy
  <2>3. CASE \E v \in Viewers : Opened(v) /\ stream[v].dl = d
    BY <1>2, <2>3, BusyStays DEF Busy, Playing, Opened
  <2>4. UNCHANGED recent \/ (\E v \in Viewers : Picked(v) \/ Opened(v)) \/ ChooseCopies
    BY ChangesChoices
  <2> QED
    BY <1>1, <2>1, <2>2, <2>3, <2>4, ChosenAgain DEF Picked, Opened, CopiesInv
<1> QED
  BY <1>1, <1>2, StaysReplacing

\* Whatever is picked, played and dropped meanwhile, a pass that replaces the
\* copies of an episode frees one only if another has opened, and not one the
\* viewer has gone back to: a pick whose swarm is dead costs them nothing.
THEOREM DeadPickKeepsBytes == Spec => DeadPickKeepsOld
<1> DEFINE Inv == IInv /\ CopiesInv /\ BackIsBusy
           Old(d) == pass.pc = "drop" /\ pass' # pass /\ dl[d].gone = "no" /\ dl'[d].gone = "freed" =>
                       /\ \E c \in Downloads \ {d} : EpisodeOf[c] = EpisodeOf[d] /\ recent[c].played
                       /\ d \notin Chosen(EpisodeOf[d], recent)
<1>1. Init => Inv
  <2> SUFFICES ASSUME Init PROVE CopiesInv /\ BackIsBusy
    BY InitInv
  <2>1. Ordered(recent)
    BY DEF Init, Ordered, NotChosen, ChoiceRecords
  <2>2. OpenedStays /\ BackIsBusy
    BY DEF Init, OpenedStays, BackIsBusy, IdlePass
  <2> QED
    BY <2>1, <2>2 DEF CopiesInv
<1>2. Inv /\ [Next]_vars => Inv'
  BY NextInv, CopiesStep, BackStaysBusy
<1>3. ASSUME Inv, [Next]_vars, NEW d \in Downloads,
             pass.pc = "drop", pass' # pass, dl[d].gone = "no", dl'[d].gone = "freed"
      PROVE  /\ \E c \in Downloads \ {d} : EpisodeOf[c] = EpisodeOf[d] /\ recent[c].played
             /\ d \notin Chosen(EpisodeOf[d], recent)
  <2>1. PassStep
    BY <1>3, CopiesStep
  <2>2. DropReplaced
    BY <1>3, <2>1 DEF PassStep, BeginPass, ChooseCopies, ListShared, ListFinished, ReadProgress, EndPass,
                      PauseReplaced, StopSharing, FreeCandidate
  <2> DEFINE at == pass.at
  <2>3. dl' = dl \/ (EpisodeOf[at] \in pass.opened /\ ~Busy(at) /\ dl' = Freed(at))
    BY <2>2 DEF DropReplaced
  <2>4. at \in pass.todo
    BY <1>3 DEF CopiesInv, OpenedStays
  <2> HIDE DEF at
  <2>5. EpisodeOf[at] \in pass.opened /\ ~Busy(at) /\ d = at
    BY <1>3, <2>3, FreedRows DEF IInv
  <2> QED
    BY <1>3, <2>4, <2>5 DEF CopiesInv, OpenedStays, BackIsBusy
<1>4. Inv /\ [Next]_vars => [\A d \in Downloads : Old(d)]_vars
  BY <1>3
<1> QED
  BY <1>1, <1>2, <1>4, PTL DEF Spec, DeadPickKeepsOld
=============================================================================
