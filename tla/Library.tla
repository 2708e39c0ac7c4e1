------------------------------ MODULE Library -------------------------------
(***************************************************************************)
(* The keep policy: which downloads the core frees, and when               *)
(* (core/internal/library/library.go), with the requests that start, play  *)
(* and let go of downloads (core/internal/api) and the devices' holds on   *)
(* them (acquire.Manager.Hold, Release, ReleaseDevice).                    *)
(*                                                                         *)
(* A pass reads the rows, then the progress, decides, and frees one        *)
(* download at a time under Service.mu; requests run between its steps.    *)
(* Time is kept as ages, which stop counting at Cap: nothing tells apart   *)
(* two ages past every limit.  A pass or a handler takes no time worth     *)
(* counting against the settle time; a stream does.  The transfers inside  *)
(* acquire.Manager are module Acquire's: here a download is active,        *)
(* waiting (nothing arrives), paused, seeding or done.                     *)
(***************************************************************************)
EXTENDS Integers, FiniteSets, FiniteSetsExt

CONSTANTS
  Downloads, Episodes,
  EpisodeOf,      \* the episode each download is a copy of
  Owner, Devices, \* the viewer whose progress is kept here; paired devices
  Keep,           \* preferences.Keep: "watched", "days" or "forever"
  Settle, KeepDays, KeepWatched, KeepUnwatched, \* limits, in ticks
  DiskLimit,      \* in downloads, each taking one; 0 for none
  Requests,       \* the kinds of request the environment makes
  MaxRequests,    \* how many of them (a bound)
  NoDownload, NoDevice

Viewers == Devices \cup {Owner}
Cap == Max({Settle, KeepDays, KeepWatched, KeepUnwatched})
Ages == 0 .. Cap
Never == -1

ASSUME LibraryAssumption ==
  /\ EpisodeOf \in [Downloads -> Episodes]
  /\ Owner \notin Devices /\ NoDevice \notin Viewers /\ NoDownload \notin Downloads
  /\ Keep \in {"watched", "days", "forever"}
  /\ {Settle, KeepDays, KeepUnwatched} \subseteq Nat \ {0}
  /\ {KeepWatched, DiskLimit, MaxRequests} \subseteq Nat

VARIABLES
  dl,       \* the downloads: their state, the age of its last change, and whether they went
  said,     \* the owner's progress on each episode
  holds,    \* each device's hold on each download
  stopped,  \* Service.stopped: ticks left until the download has settled
  recent,   \* Service.played and picked: how and after which others each was last chosen
  stream,   \* one stream per viewer
  request,  \* one start or release per viewer
  pass,     \* the cleaning goroutine
  revoking, revoked, \* the device being revoked, those that were
  asked,    \* requests made so far
  fresh     \* not in the code: ticks in which what was last started may yet be opened first

vars == <<dl, said, holds, stopped, recent, stream, request, pass, revoking, revoked, asked, fresh>>

Active == {"active", "waiting"}
Done == {"seeding", "done"}
States == Active \cup Done \cup {"none", "paused"}
\* kind: which of the two was last; played: opened at any time; over: the
\* downloads whose last choice was before.
NotChosen == [kind |-> "none", played |-> FALSE, over |-> {}]
NoHold == [state |-> "none", watched |-> Never, active |-> 0]
Idle == [pc |-> "idle", dl |-> NoDownload]
IdlePass == [pc |-> "idle", rows |-> <<>>, opened |-> {}, todo |-> {}, at |-> NoDownload, used |-> 0]

Present(rows, d) == rows.dl[d].state # "none" /\ rows.dl[d].gone = "no"
Rows == [dl |-> dl, holds |-> holds]
Known(d) == Present(Rows, d)
Playing(d) == \E v \in Viewers : stream[v].pc # "idle" /\ stream[v].dl = d

TypeOK ==
  /\ dl \in [Downloads -> [state : States, updated : Ages, gone : {"no", "freed", "removed"}]]
  /\ said \in [Episodes -> [kind : {"none", "unwatched", "watched"}, age : Ages]]
  /\ holds \in [Downloads -> [Devices -> [state : {"none", "held", "released"},
                                          watched : Ages \cup {Never}, active : Ages]]]
  /\ stopped \in [Downloads -> 0 .. Settle]
  /\ recent \in [Downloads -> [kind : {"none", "picked", "played"}, played : BOOLEAN, over : SUBSET Downloads]]
  /\ stream \in [Viewers -> [pc : {"idle", "lookup", "found", "touch", "serving"},
                             dl : Downloads \cup {NoDownload}]]
  /\ request \in [Viewers -> [pc : {"idle", "fits", "pick", "hold", "list", "free"},
                              dl : Downloads \cup {NoDownload}]]
  /\ pass.pc \in {"idle", "choose", "replace", "drop", "share", "progress", "free"}
  /\ revoking \in Devices \cup {NoDevice} /\ revoked \subseteq Devices
  /\ asked \in 0 .. MaxRequests
  /\ fresh \in [Downloads -> 0 .. Settle]

Init ==
  /\ dl = [d \in Downloads |-> [state |-> "none", updated |-> 0, gone |-> "no"]]
  /\ said = [e \in Episodes |-> [kind |-> "none", age |-> 0]]
  /\ holds = [d \in Downloads |-> [v \in Devices |-> NoHold]]
  /\ stopped = [d \in Downloads |-> 0]
  /\ recent = [d \in Downloads |-> NotChosen]
  /\ stream = [v \in Viewers |-> Idle]
  /\ request = [v \in Viewers |-> Idle]
  /\ pass = IdlePass
  /\ revoking = NoDevice /\ revoked = {}
  /\ asked = 0
  /\ fresh = [d \in Downloads |-> 0]

-----------------------------------------------------------------------------
(* What the policy reads. *)

\* Mutant: an unwatched hold lasts while the transfer runs, bytes or not.
LastsWaiting(hold, row) ==
  /\ hold.state = "held"
  /\ IF hold.watched # Never
     THEN Min({hold.watched, hold.active}) < Max({KeepWatched, Settle})
     ELSE row.state \in Active \/ Min({hold.active, row.updated}) < KeepUnwatched

\* Lasts: a released hold never; a watched one for its rule, the settle time
\* at least; an unwatched one while bytes arrive, and for its rule after.
Lasts(hold, row) ==
  /\ hold.state = "held"
  /\ IF hold.watched # Never
     THEN Min({hold.watched, hold.active}) < Max({KeepWatched, Settle})
     ELSE row.state = "active" \/ Min({hold.active, row.updated}) < KeepUnwatched

\* finished: what of rows the policy may free.  Everyone with a say has
\* watched it, and its age counts from the latest of them; or it is lapsed,
\* held by devices none of whose holds lasts, and the owner has no say.
Candidate(d, age, held, lapsed) == [dl |-> d, age |-> age, held |-> held, lapsed |-> lapsed]

Finished(rows, progress) ==
  LET mine(d) == progress[EpisodeOf[d]]
      holders(d) == {v \in Devices : rows.holds[d][v].state # "none"}
      lasting(d) == {v \in Devices : Lasts(rows.holds[d][v], rows.dl[d])}
      listed == {d \in Downloads : Present(rows, d) /\ mine(d).kind # "unwatched"}
      own == {d \in listed : mine(d).kind = "watched" /\ lasting(d) = {}}
      lapsed == {d \in listed : mine(d).kind = "none" /\ holders(d) # {} /\ lasting(d) = {}}
      held == {d \in listed : /\ lasting(d) # {}
                              /\ \A v \in lasting(d) : rows.holds[d][v].watched # Never}
      ages(d) == {rows.holds[d][v].watched : v \in lasting(d)}
                   \cup (IF mine(d).kind = "watched" THEN {mine(d).age} ELSE {})
  IN  {Candidate(d, mine(d).age, FALSE, FALSE) : d \in own}
        \cup {Candidate(d, Cap + 1, TRUE, TRUE) : d \in lapsed}
        \cup {Candidate(d, Min(ages(d)), TRUE, FALSE) : d \in held}

\* Usage: every download takes one, arrived or still arriving.
Usage(rows) == Cardinality({d \in Downloads : Present(rows, d)})

\* Room: what the disk limit leaves, watched downloads counted as room; the
\* free disk itself never runs out here.
Room == IF DiskLimit = 0 THEN Cardinality(Downloads)
        ELSE DiskLimit - (Usage(Rows) - Cardinality(Finished(Rows, said)))

\* Fits: the core's answer to a prefetch.
Fits == 1 <= Room

\* Mutant: only a download that just stopped is busy, not one with a stream.
BusyStopped(d) == stopped[d] > 0

\* busy: a stream is open or still settling.
Busy(d) == Playing(d) \/ stopped[d] > 0

\* Manager.Remove, called by the library.
Freed(d) == [dl EXCEPT ![d].gone = IF Known(d) THEN "freed" ELSE @]

-----------------------------------------------------------------------------
(* Requests. *)

Ask(kind) ==
  /\ kind \in Requests
  /\ asked < MaxRequests
  /\ asked' = asked + 1

\* A revoked device is turned away at the door.
May(v) == v \notin revoked

Choose(d, kind) ==
  recent' = [c \in Downloads |->
    IF c = d THEN [kind |-> kind, played |-> kind = "played" \/ recent[d].played,
                   over |-> {o \in Downloads \ {d} : recent[o].kind # "none"}]
    ELSE [recent[c] EXCEPT !.over = @ \ {d}]]

\* Manager.Hold: a device's first word makes its hold; an activity takes a
\* release back, and starts the unwatched clock again.
Held(hold, watched, active) ==
  [state |-> IF hold.state = "none" \/ active THEN "held" ELSE hold.state,
   watched |-> CASE watched = "keep" -> hold.watched
                 [] watched = "no" -> Never
                 [] watched = "yes" -> IF hold.watched = Never THEN 0 ELSE hold.watched,
   active |-> IF hold.state = "none" \/ active THEN 0 ELSE hold.active]

Hold(v, d, watched, active) ==
  holds' = IF v \in Devices /\ Known(d) THEN [holds EXCEPT ![d][v] = Held(@, watched, active)] ELSE holds

\* Mutant: what was started does not count as just played.
StartsUnsettled(v, d, then) ==
  /\ dl' = IF dl[d].state \in {"none", "paused"} THEN [dl EXCEPT ![d].state = "active", ![d].updated = 0] ELSE dl
  /\ fresh' = [fresh EXCEPT ![d] = Settle]
  /\ request' = [request EXCEPT ![v] = [pc |-> then, dl |-> d]]
  /\ UNCHANGED stopped

\* Service.Start runs Manager.Start with passes held off and counts the
\* download as just played.
Starts(v, d, then) ==
  /\ dl' = IF dl[d].state \in {"none", "paused"} THEN [dl EXCEPT ![d].state = "active", ![d].updated = 0] ELSE dl
  /\ stopped' = [stopped EXCEPT ![d] = Settle]
  /\ fresh' = [fresh EXCEPT ![d] = Settle]
  /\ request' = [request EXCEPT ![v] = [pc |-> then, dl |-> d]]

\* startDownload: Play pressed ...
Start(v, d) ==
  /\ Ask("start") /\ May(v) /\ request[v].pc = "idle" /\ dl[d].gone = "no"
  /\ Starts(v, d, "pick")
  /\ UNCHANGED <<said, holds, recent, stream, pass, revoking, revoked>>

\* ... or a prefetch, which has to fit first; the room is measured, and
\* passes and other starts may run before it starts.
Prefetch(v, d) ==
  /\ Ask("start") /\ May(v) /\ request[v].pc = "idle" /\ dl[d].gone = "no" /\ Fits
  /\ request' = [request EXCEPT ![v] = [pc |-> "fits", dl |-> d]]
  /\ UNCHANGED <<dl, said, holds, stopped, recent, stream, pass, revoking, revoked, fresh>>

\* What went meanwhile starts as another row, which is none of these.
StartPrefetch(v) ==
  LET d == request[v].dl IN
  /\ request[v].pc = "fits"
  /\ \/ dl[d].gone = "no" /\ Starts(v, d, "hold")
     \/ /\ dl[d].gone # "no"
        /\ request' = [request EXCEPT ![v] = Idle]
        /\ UNCHANGED <<dl, stopped, fresh>>
  /\ UNCHANGED <<said, holds, recent, stream, pass, revoking, revoked, asked>>

\* ... then, unless it is a prefetch, Picked ...
Picked(v) ==
  /\ request[v].pc = "pick"
  /\ Choose(request[v].dl, "picked")
  /\ request' = [request EXCEPT ![v].pc = "hold"]
  /\ UNCHANGED <<dl, said, holds, stopped, stream, pass, revoking, revoked, asked, fresh>>

\* ... then a device's hold, unwatched.
StartHolds(v) ==
  /\ request[v].pc = "hold"
  /\ Hold(v, request[v].dl, "no", TRUE)
  /\ request' = [request EXCEPT ![v] = Idle]
  /\ UNCHANGED <<dl, said, stopped, recent, stream, pass, revoking, revoked, asked, fresh>>

\* handleStream: Play counts the stream before the file is looked up.
Play(v, d) ==
  /\ Ask("play") /\ May(v) /\ stream[v].pc = "idle" /\ dl[d].state # "none"
  /\ stream' = [stream EXCEPT ![v] = [pc |-> "lookup", dl |-> d]]
  /\ UNCHANGED <<dl, said, holds, stopped, recent, request, pass, revoking, revoked, fresh>>

\* Manager.File: a running download, or a finished one.
Lookup(v) ==
  /\ stream[v].pc = "lookup"
  /\ Known(stream[v].dl) /\ dl[stream[v].dl].state \in Active \cup Done
  /\ stream' = [stream EXCEPT ![v].pc = "found"]
  /\ UNCHANGED <<dl, said, holds, stopped, recent, request, pass, revoking, revoked, asked, fresh>>

Opened(v) ==
  /\ stream[v].pc = "found"
  /\ Choose(stream[v].dl, "played")
  /\ stream' = [stream EXCEPT ![v].pc = "touch"]
  /\ fresh' = [fresh EXCEPT ![stream[v].dl] = 0]
  /\ UNCHANGED <<dl, said, holds, stopped, request, pass, revoking, revoked, asked>>

\* "Playing a download is holding it, whoever started it."
StreamHolds(v) ==
  /\ stream[v].pc = "touch"
  /\ Hold(v, stream[v].dl, "keep", TRUE)
  /\ stream' = [stream EXCEPT ![v].pc = "serving"]
  /\ UNCHANGED <<dl, said, stopped, recent, request, pass, revoking, revoked, asked, fresh>>

\* The stream ends, played out or failed at any point: the func Play returned.
EndStream(v) ==
  LET d == stream[v].dl IN
  /\ stream[v].pc \in {"lookup", "found", "serving"}
  /\ stream' = [stream EXCEPT ![v] = Idle]
  /\ stopped' = IF \E u \in Viewers \ {v} : stream[u].pc # "idle" /\ stream[u].dl = d
                THEN stopped ELSE [stopped EXCEPT ![d] = Settle]
  /\ UNCHANGED <<dl, said, holds, recent, request, pass, revoking, revoked, asked, fresh>>

\* handlePutHold: a device says whether its viewer watched the episode.
PutHold(v, d, watched) ==
  /\ Ask("puthold") /\ May(v) /\ v \in Devices /\ Known(d)
  /\ Hold(v, d, watched, FALSE)
  /\ UNCHANGED <<dl, said, stopped, recent, stream, request, pass, revoking, revoked, fresh>>

\* handleRemoveDownload, of a device: Manager.Release ...
Release(v, d) ==
  /\ Ask("release") /\ May(v) /\ v \in Devices /\ request[v].pc = "idle"
  /\ Known(d) /\ \E u \in Devices : holds[d][u].state # "none"
  /\ holds' = [holds EXCEPT ![d][v] =
       IF @.state = "none" THEN [state |-> "released", watched |-> Never, active |-> Cap]
       ELSE [@ EXCEPT !.state = "released"]]
  /\ request' = [request EXCEPT ![v] = [pc |-> "list", dl |-> d]]
  /\ UNCHANGED <<dl, said, stopped, recent, stream, pass, revoking, revoked, fresh>>

\* ... then Service.Released: whether no hold on it lasts is read first ...
ReleasedLooks(v) ==
  LET d == request[v].dl IN
  /\ request[v].pc = "list"
  /\ request' = [request EXCEPT ![v] =
       IF \E c \in Finished(Rows, said) : c.dl = d /\ c.lapsed THEN [pc |-> "free", dl |-> d] ELSE Idle]
  /\ UNCHANGED <<dl, said, holds, stopped, recent, stream, pass, revoking, revoked, asked, fresh>>

\* ... and the file goes unless a stream of it is open.
ReleasedFrees(v) ==
  /\ request[v].pc = "free"
  /\ dl' = IF Playing(request[v].dl) THEN dl ELSE Freed(request[v].dl)
  /\ request' = [request EXCEPT ![v] = Idle]
  /\ UNCHANGED <<said, holds, stopped, recent, stream, pass, revoking, revoked, asked, fresh>>

\* The owner deletes a download.
RemoveDownload(d) ==
  /\ Ask("remove") /\ Known(d)
  /\ dl' = [dl EXCEPT ![d].gone = "removed"]
  /\ UNCHANGED <<said, holds, stopped, recent, stream, request, pass, revoking, revoked, fresh>>

\* The owner's progress: watched, or not any more, or a rewatch under way.
SetProgress(e, kind) ==
  /\ Ask("progress")
  /\ said' = [said EXCEPT ![e] = [kind |-> kind, age |-> 0]]
  /\ UNCHANGED <<dl, holds, stopped, recent, stream, request, pass, revoking, revoked, fresh>>

\* handleRevokeDevice: every hold of the device is released, and then the
\* device is.
ReleaseDevice(v) ==
  /\ Ask("revoke") /\ May(v) /\ revoking = NoDevice
  /\ holds' = [d \in Downloads |-> [holds[d] EXCEPT ![v].state = IF @ = "held" THEN "released" ELSE @]]
  /\ revoking' = v
  /\ UNCHANGED <<dl, said, stopped, recent, stream, request, pass, revoked, fresh>>

RevokeDevice ==
  /\ revoking # NoDevice
  /\ revoked' = revoked \cup {revoking}
  /\ revoking' = NoDevice
  /\ UNCHANGED <<dl, said, holds, stopped, recent, stream, request, pass, asked, fresh>>

-----------------------------------------------------------------------------
(* The transfers, and time. *)

Arrive(d) ==
  /\ Known(d) /\ dl[d].state \in Active
  /\ dl' = [dl EXCEPT ![d].state = "seeding", ![d].updated = 0]
  /\ UNCHANGED <<said, holds, stopped, recent, stream, request, pass, revoking, revoked, asked, fresh>>

\* The swarm runs dry.
Stall(d) ==
  /\ Ask("stall") /\ Known(d) /\ dl[d].state = "active"
  /\ dl' = [dl EXCEPT ![d].state = "waiting"]
  /\ UNCHANGED <<said, holds, stopped, recent, stream, request, pass, revoking, revoked, fresh>>

Older(age) == IF age = Never THEN Never ELSE Min({age + 1, Cap})

Tick ==
  /\ pass.pc = "idle"
  /\ \A v \in Viewers : request[v].pc = "idle" /\ stream[v].pc \in {"idle", "serving"}
  /\ dl' = [d \in Downloads |-> IF dl[d].gone = "no" /\ dl[d].state # "none"
                               THEN [dl[d] EXCEPT !.updated = Older(@)] ELSE dl[d]]
  /\ said' = [e \in Episodes |-> [said[e] EXCEPT !.age = IF said[e].kind = "watched" THEN Older(@) ELSE 0]]
  /\ holds' = [d \in Downloads |-> [v \in Devices |->
       IF holds[d][v] = NoHold THEN NoHold
       ELSE [holds[d][v] EXCEPT !.watched = Older(@), !.active = Older(@)]]]
  /\ stopped' = [d \in Downloads |-> Max({stopped[d] - 1, 0})]
  /\ fresh' = [d \in Downloads |-> Max({fresh[d] - 1, 0})]
  /\ UNCHANGED <<recent, stream, request, pass, revoking, revoked, asked>>

-----------------------------------------------------------------------------
(* A pass: Clean, on the ticker or a Kick, which only makes it sooner. *)

\* dropReplaced lists the rows.
BeginPass ==
  /\ pass.pc = "idle"
  /\ pass' = [pass EXCEPT !.pc = "choose", !.rows = Rows]
  /\ UNCHANGED <<dl, said, holds, stopped, recent, stream, request, revoking, revoked, asked, fresh>>

\* The ids the rows listed have; the others are forgotten.
KeptChoices ==
  LET known == {d \in Downloads : Present(pass.rows, d)}
  IN  [d \in Downloads |-> IF d \in known THEN [recent[d] EXCEPT !.over = @ \cap known] ELSE NotChosen]

\* The copy of an episode that was chosen last, if any was.
Chosen(e, kept) ==
  LET copies == {c \in Downloads : EpisodeOf[c] = e /\ kept[c].kind # "none"}
  IN  {c \in copies : copies \ {c} \subseteq kept[c].over}

\* The unfinished copies that another one replaces.
Replaced(kept) ==
  {d \in Downloads : /\ Present(pass.rows, d) /\ pass.rows.dl[d].state \notin Done
                     /\ Chosen(EpisodeOf[d], kept) \ {d} # {}}

\* Mutant: a copy picked counts as opened.
ChooseCopiesOpened ==
  LET kept == KeptChoices IN
  /\ pass.pc = "choose"
  /\ recent' = kept
  /\ pass' = [pass EXCEPT !.pc = "replace", !.todo = Replaced(kept),
       !.opened = {e \in Episodes : Chosen(e, kept) # {}}]
  /\ UNCHANGED <<dl, said, holds, stopped, stream, request, revoking, revoked, asked, fresh>>

\* Under mu, the rest are forgotten and the chosen copies worked out, with
\* whether each has opened since it was picked.
ChooseCopies ==
  LET kept == KeptChoices IN
  /\ pass.pc = "choose"
  /\ recent' = kept
  /\ pass' = [pass EXCEPT !.pc = "replace", !.todo = Replaced(kept),
       !.opened = {e \in Episodes : \E c \in Chosen(e, kept) : kept[c].kind = "played"}]
  /\ UNCHANGED <<dl, said, holds, stopped, stream, request, revoking, revoked, asked, fresh>>

\* Manager.SetPaused refuses a row that has finished since.
PauseReplaced(d) ==
  /\ pass.pc = "replace" /\ d \in pass.todo
  /\ dl' = IF pass.rows.dl[d].state \in Active /\ Known(d) /\ dl[d].state \notin Done
           THEN [dl EXCEPT ![d].state = "paused", ![d].updated = 0] ELSE dl
  /\ pass' = [pass EXCEPT !.pc = "drop", !.at = d]
  /\ UNCHANGED <<said, holds, stopped, recent, stream, request, revoking, revoked, asked, fresh>>

\* The copy goes if the chosen one has opened, and it has settled itself.
DropReplaced ==
  LET d == pass.at IN
  /\ pass.pc = "drop"
  /\ dl' = IF EpisodeOf[d] \in pass.opened /\ ~Busy(d) THEN Freed(d) ELSE dl
  /\ pass' = [pass EXCEPT !.pc = "replace", !.todo = @ \ {d}, !.at = NoDownload]
  /\ UNCHANGED <<said, holds, stopped, recent, stream, request, revoking, revoked, asked, fresh>>

\* The finished torrents still shared are listed ...
ListShared ==
  /\ pass.pc = "replace" /\ pass.todo = {}
  /\ pass' = [IdlePass EXCEPT !.pc = "share",
       !.todo = {d \in Downloads : Known(d) /\ dl[d].state = "seeding"}]
  /\ UNCHANGED <<dl, said, holds, stopped, recent, stream, request, revoking, revoked, asked, fresh>>

\* ... and stopped, those not busy.
StopSharing(d) ==
  /\ pass.pc = "share" /\ d \in pass.todo
  /\ dl' = IF ~Busy(d) /\ Known(d) /\ dl[d].state = "seeding" THEN [dl EXCEPT ![d].state = "done"] ELSE dl
  /\ pass' = [pass EXCEPT !.todo = @ \ {d}]
  /\ UNCHANGED <<said, holds, stopped, recent, stream, request, revoking, revoked, asked, fresh>>

ListFinished ==
  /\ pass.pc = "share" /\ pass.todo = {}
  /\ pass' = [pass EXCEPT !.pc = "progress", !.rows = Rows]
  /\ UNCHANGED <<dl, said, holds, stopped, recent, stream, request, revoking, revoked, asked, fresh>>

\* finished reads the progress; Usage measures the disk.
ReadProgress ==
  /\ pass.pc = "progress"
  /\ pass' = [IdlePass EXCEPT !.pc = "free", !.todo = Finished(pass.rows, said), !.used = Usage(pass.rows)]
  /\ UNCHANGED <<dl, said, holds, stopped, recent, stream, request, revoking, revoked, asked, fresh>>

\* Mutant: a download watched is freed by the days to keep alone.
ExpiredDays(c) == c.lapsed \/ (~c.held /\ Keep = "days" /\ c.age >= KeepDays)

Expired(c) == c.lapsed \/ (~c.held /\ (Keep = "watched" \/ (Keep = "days" /\ c.age >= KeepDays)))

\* The candidate watched longest ago: freed when the policy has expired it or
\* the disk is over the limit, and it is neither playing nor settling.
FreeCandidate(c) ==
  LET over == DiskLimit > 0 /\ pass.used > DiskLimit
      goes == (c.lapsed \/ c.age >= Settle) /\ (Expired(c) \/ over) /\ ~Busy(c.dl)
  IN
  /\ pass.pc = "free" /\ c \in pass.todo
  /\ \A b \in pass.todo : b.age <= c.age
  /\ dl' = IF goes THEN Freed(c.dl) ELSE dl
  /\ pass' = [pass EXCEPT !.todo = @ \ {c}, !.used = IF goes /\ Known(c.dl) THEN @ - 1 ELSE @]
  /\ UNCHANGED <<said, holds, stopped, recent, stream, request, revoking, revoked, asked, fresh>>

EndPass ==
  /\ pass.pc = "free" /\ pass.todo = {}
  /\ pass' = IdlePass
  /\ UNCHANGED <<dl, said, holds, stopped, recent, stream, request, revoking, revoked, asked, fresh>>

PassStep ==
  \/ BeginPass \/ ChooseCopies \/ DropReplaced \/ ListShared \/ ListFinished \/ ReadProgress \/ EndPass
  \/ \E d \in Downloads : PauseReplaced(d) \/ StopSharing(d)
  \/ \E c \in pass.todo : FreeCandidate(c)

RequestStep(v) == StartPrefetch(v) \/ Picked(v) \/ StartHolds(v) \/ ReleasedLooks(v) \/ ReleasedFrees(v)
StreamStep(v) == Lookup(v) \/ Opened(v) \/ StreamHolds(v) \/ EndStream(v)

Next ==
  \/ PassStep
  \/ \E v \in Viewers, d \in Downloads : Play(v, d) \/ Start(v, d) \/ Prefetch(v, d)
  \/ \E v \in Devices, d \in Downloads : Release(v, d) \/ \E w \in {"yes", "no"} : PutHold(v, d, w)
  \/ \E v \in Viewers : RequestStep(v) \/ StreamStep(v)
  \/ \E d \in Downloads : RemoveDownload(d) \/ Arrive(d) \/ Stall(d)
  \/ \E e \in Episodes, kind \in {"none", "unwatched", "watched"} : SetProgress(e, kind)
  \/ (\E v \in Devices : ReleaseDevice(v)) \/ RevokeDevice
  \/ Tick

Spec == Init /\ [][Next]_vars

\* Time passes, the ticker fires, handlers go on and streams end.
FairSpec ==
  /\ Spec
  /\ WF_vars(PassStep) /\ SF_vars(Tick)
  /\ \A v \in Viewers : WF_vars(RequestStep(v)) /\ WF_vars(StreamStep(v))
  /\ \A d \in Downloads : WF_vars(dl[d].state = "active" /\ Arrive(d))

-----------------------------------------------------------------------------
\* "mu is held through a removal, so a stream cannot start on a file that is
\* being freed": the library frees nothing a stream has found.
StreamNotFreed ==
  \A v \in Viewers :
    stream[v].pc \in {"found", "touch", "serving"} => dl[stream[v].dl].gone # "freed"

\* "a player opens the stream only once the file is ready, and pressing Play
\* on a watched episode to see it again must not free it in between": what a
\* viewer starts is there from the start until a stream of it opens, or until
\* it has had the settle time to.
StartedNotFreed == \A d \in Downloads : fresh[d] > 0 => dl[d].gone # "freed"

\* "a pick whose swarm turns out dead leaves the viewer going back to the old
\* copy, which still has its bytes", and "switching back soon after finds it
\* where it was": a pass drops a copy only once another copy of the episode
\* has opened, and never the one the viewer has chosen last by now.
DeadPickKeepsOld ==
  [][\A d \in Downloads :
       pass.pc = "drop" /\ pass' # pass /\ dl[d].gone = "no" /\ dl'[d].gone = "freed" =>
         /\ \E c \in Downloads \ {d} : EpisodeOf[c] = EpisodeOf[d] /\ recent[c].played
         /\ d \notin Chosen(EpisodeOf[d], recent)]_vars

\* Picked "chooses the copy at once, so the copy played before does not pause
\* it while it waits for peers": the copy chosen last is not paused.
PickedNotPaused == \A e \in Episodes : \A d \in Chosen(e, recent) : dl[d].state # "paused"

\* dropReplaced: "A finished copy stays": with nothing watched and nothing
\* held, no finished copy is freed.
FinishedCopyStays ==
  [][\A d \in Downloads :
       dl[d].state \in Done /\ dl[d].gone = "no" /\ dl'[d].gone = "freed"
       => said[EpisodeOf[d]].kind # "none"]_vars

\* Clean: "A download nobody finished is never freed by the policy": not one
\* the viewer marked unwatched, or began again, while the pass was under way.
UnwatchedStays ==
  [][\A d \in Downloads :
       dl[d].gone = "no" /\ dl'[d].gone = "freed" => said[EpisodeOf[d]].kind # "unwatched"]_vars

\* handleRevokeDevice: "Its holds go first: a hold left behind would keep its
\* files forever": a revoked device holds nothing.
RevokedHoldsNothing ==
  \A v \in revoked, d \in Downloads : holds[d][v].state # "held"

\* Under Keep = "watched" what the owner watched goes, whatever starts and
\* streams get in the way of the passes meanwhile.
WatchedGoes ==
  \A d \in Downloads :
    Known(d) /\ said[EpisodeOf[d]].kind = "watched" ~>
      dl[d].gone # "no" \/ said[EpisodeOf[d]].kind # "watched"

\* "nothing a device holds stays forever": a held download the owner has no
\* say in goes.
NothingStaysForever ==
  \A d \in Downloads :
    Known(d) /\ (\E v \in Devices : holds[d][v].state # "none") ~>
      dl[d].gone # "no" \/ said[EpisodeOf[d]].kind # "none"
=============================================================================
