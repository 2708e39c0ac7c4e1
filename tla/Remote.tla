------------------------------- MODULE Remote -------------------------------
(***************************************************************************)
(* A core linked to a media server: core/internal/remote, and the handlers *)
(* of core/internal/api on both sides of the link (remote.go, link.go,     *)
(* devices.go, mode.go).  The server hands out devices for pairing codes   *)
(* and keeps a hold of each device on each download; the linked core tells *)
(* it, over a network that fails, what its viewer watched and wants kept.  *)
(*                                                                         *)
(* A request is sent, let in by requireToken, and handled, three steps; it *)
(* is lost on the way, or handled after the one who sent it has given up.  *)
(* What a hold says beside the watched mark (subtitle languages and keep   *)
(* rules) is one value of Wishes; a core has one for each download, and    *)
(* those the server takes for no valid ones, as more languages than it     *)
(* reads, are Refused.  Of the links a core keeps only the one to this     *)
(* server is modelled; certificates and proofs are left out.               *)
(***************************************************************************)
EXTENDS Integers, FiniteSets

CONSTANTS
  Downloads,   \* ids of the server's downloads
  Unmatched,   \* those of a file no title was matched to
  Devices,     \* every device id the server mints (a bound)
  Wishes,      \* languages and keep rules a viewer can want
  Refused,     \* those of them the server answers with a 400
  Default,     \* those of a hold whose device said none
  MaxCodes, MaxRequests, MaxFaults,   \* bounds: codes, what viewer and owner do, what fails
  NoDevice, NoCode

ASSUME RemoteAssumption ==
  /\ Unmatched \subseteq Downloads /\ Default \in Wishes \ Refused
  /\ NoDevice \notin Devices /\ NoCode \notin Nat
  /\ {MaxCodes, MaxRequests, MaxFaults} \subseteq Nat

VARIABLES
  mode, up,    \* the server: LUMEO_MODE, and whether it can be reached
  code,        \* Server.pairCode, by the count of codes so far
  devices,     \* the table devices
  rows,        \* the server's downloads
  held,        \* Manager.held: of each download, the holds by device
  revoking,    \* handleRevokeDevice under way, between its two writes
  wire,        \* requests of devices under way
  watched,     \* the linked core: the episodes finished, by their download
  wish,        \* what its preferences and choices come to, for each download
  saved,       \* its file of links: the device of the one kept, and whether it is used
  running,     \* the device of remote.Server, as loaded at the start
  kick,        \* Server.holdsKick is full
  learned,     \* Server.byServer: downloads whose title is known
  pass,        \* KeepHolds
  linking,     \* the command that links, and how far it has come
  issued, minted, asked, faults   \* counts and past of the bounds

server == <<mode, up, code, devices, rows, held, revoking>>
core == <<watched, wish, saved, running, kick, learned, pass, linking>>
bounds == <<issued, minted, asked, faults>>
vars == <<server, wire, core, bounds>>

Hold == [watched : BOOLEAN, wish : Wishes, released : BOOLEAN]
Request == [op : {"hold", "start", "play", "delete"}, d : Downloads, dev : Devices,
            watched : BOOLEAN, wish : Wishes, letIn : BOOLEAN, late : BOOLEAN]
NoHolds == [x \in {} |-> x]
NoWishes == [d \in Downloads |-> Default]
Asleep == [at |-> "off", rows |-> {}, watched |-> {}, wish |-> NoWishes]
NoLink == [dev |-> NoDevice, use |-> FALSE]
NotLinking == [at |-> "no", code |-> NoCode, dev |-> NoDevice, mode |-> "full"]

TypeOK ==
  /\ mode \in {"media", "full"} /\ {up, kick} \subseteq BOOLEAN
  /\ devices \subseteq minted /\ minted \subseteq Devices /\ revoking \in Devices \cup {NoDevice}
  /\ \A d \in Downloads : \A v \in DOMAIN held[d] : v \in minted /\ held[d][v] \in Hold
  /\ \A d \in Downloads \ rows : held[d] = NoHolds
  /\ wire \subseteq Request
  /\ {saved.dev, running} \subseteq minted \cup {NoDevice} /\ watched \subseteq Downloads
  /\ wish \in [Downloads -> Wishes] /\ saved.use \in BOOLEAN /\ (saved.use => saved.dev # NoDevice)
  /\ pass.at \in {"off", "idle", "due", "read", "rows", "telling"}
  /\ linking.at \in {"no", "probe", "pair", "paired"}

Init ==
  /\ mode = "media" /\ up = TRUE /\ code = NoCode /\ devices = {} /\ revoking = NoDevice
  /\ rows = {} /\ held = [d \in Downloads |-> NoHolds] /\ wire = {}
  /\ watched = {} /\ wish = NoWishes /\ saved = NoLink /\ running = NoDevice
  /\ kick = FALSE /\ learned = {} /\ pass = Asleep /\ linking = NotLinking
  /\ issued = 0 /\ minted = {} /\ asked = 0 /\ faults = 0

Fault == faults < MaxFaults /\ faults' = faults + 1

-----------------------------------------------------------------------------
(* Pairing: the owner's code, and the command that trades it for a link. *)

HandlePairing ==
  /\ issued < MaxCodes
  /\ issued' = issued + 1 /\ code' = issued + 1
  /\ UNCHANGED <<mode, up, devices, rows, held, revoking, wire, core, minted, asked, faults>>

\* Ten minutes pass.
Expire ==
  /\ code # NoCode /\ code' = NoCode
  /\ UNCHANGED <<mode, up, devices, rows, held, revoking, wire, core, bounds>>

\* The viewer types a code, perhaps for the second time.
BeginLink ==
  /\ linking = NotLinking
  /\ \E c \in 1..issued : linking' = [NotLinking EXCEPT !.at = "probe", !.code = c]
  /\ UNCHANGED <<server, wire, watched, wish, saved, running, kick, learned, pass, bounds>>

\* Asked first, a full server is turned down before it pairs a device.
Probe ==
  /\ linking.at = "probe"
  /\ linking' = IF up /\ mode = "media" THEN [linking EXCEPT !.at = "pair"] ELSE NotLinking
  /\ UNCHANGED <<server, wire, watched, wish, saved, running, kick, learned, pass, bounds>>

\* Ids are random; which one comes is of no matter.
NewDevice == LET left == Devices \ minted IN IF left = {} THEN {} ELSE {CHOOSE v \in left : TRUE}

Valid == up /\ code = linking.code

\* Mutant: the code is not cleared.
HandlePairKeepsCode ==
  /\ linking.at = "pair"
  /\ \/ /\ Valid
        /\ \E v \in NewDevice :
             /\ devices' = devices \cup {v} /\ minted' = minted \cup {v}
             /\ linking' = [linking EXCEPT !.at = "paired", !.dev = v, !.mode = mode]
        /\ UNCHANGED code
        /\ UNCHANGED faults
     \/ /\ IF Valid THEN Fault ELSE UNCHANGED faults
        /\ linking' = NotLinking /\ UNCHANGED <<devices, minted, code>>
  /\ UNCHANGED <<mode, up, rows, held, revoking, wire, watched, wish, saved, running, kick, learned,
                 pass, issued, asked>>

\* A device whose row cannot be saved leaves the code to be used again.
HandlePair ==
  /\ linking.at = "pair"
  /\ \/ /\ Valid
        /\ \E v \in NewDevice :
             /\ devices' = devices \cup {v} /\ minted' = minted \cup {v}
             /\ linking' = [linking EXCEPT !.at = "paired", !.dev = v, !.mode = mode]
        /\ code' = NoCode
        /\ UNCHANGED faults
     \/ /\ IF Valid THEN Fault ELSE UNCHANGED faults
        /\ linking' = NotLinking /\ UNCHANGED <<devices, minted, code>>
  /\ UNCHANGED <<mode, up, rows, held, revoking, wire, watched, wish, saved, running, kick, learned,
                 pass, issued, asked>>

\* remote.Save: kept in place of an earlier link to the server, and used.
SaveLink(v) == saved' = [dev |-> v, use |-> TRUE]

\* The command keeps its link, unless the answer is lost, the file cannot be
\* written or the server changed its mode: the device stays paired, for its
\* owner to revoke.
Save ==
  /\ linking.at = "paired"
  /\ linking' = NotLinking
  /\ \/ (IF linking.mode = "media" THEN SaveLink(linking.dev) ELSE UNCHANGED saved) /\ UNCHANGED faults
     \/ Fault /\ UNCHANGED saved
  /\ UNCHANGED <<server, wire, watched, wish, running, kick, learned, pass, issued, minted, asked>>

\* The server answers a device: its credential is known, and its mode is media.
Answers(v) == up /\ mode = "media" /\ v \in devices

\* A client that paired hands its credential over; it is kept once the server
\* has taken it.
HandlePutLink ==
  /\ linking.at = "paired"
  /\ linking' = NotLinking
  /\ IF Answers(linking.dev) THEN SaveLink(linking.dev) ELSE UNCHANGED saved
  /\ UNCHANGED <<server, wire, watched, wish, running, kick, learned, pass, bounds>>

Links == /\ saved # NoLink /\ asked < MaxRequests /\ asked' = asked + 1
         /\ UNCHANGED <<server, wire, watched, wish, running, kick, learned, pass, linking, issued, minted, faults>>

\* The link kept is used from the next start, or none is.
HandleUseLink == Links /\ \E use \in BOOLEAN : saved' = [saved EXCEPT !.use = use]

Forget == Links /\ saved' = NoLink

\* remote.Load.
Loaded == IF saved.use THEN saved.dev ELSE NoDevice

\* A link is used from the next start on.  What the core had sent is late now.
Restart ==
  /\ Fault
  /\ running' = Loaded /\ kick' = FALSE /\ learned' = {} /\ linking' = NotLinking
  /\ pass' = [Asleep EXCEPT !.at = IF Loaded = NoDevice THEN "off" ELSE "due"]
  /\ wire' = {[q EXCEPT !.late = TRUE] : q \in wire}
  /\ UNCHANGED <<server, watched, wish, saved, issued, minted, asked>>

-----------------------------------------------------------------------------
(* The server's holds: acquire.Manager, through the handlers of a device. *)

NewHold == [watched |-> FALSE, wish |-> Default, released |-> FALSE]
HoldOf(d, v) == IF v \in DOMAIN held[d] THEN held[d][v] ELSE NewHold
SetHold(d, v, h) == [held EXCEPT ![d] = [x \in DOMAIN @ \cup {v} |-> IF x = v THEN h ELSE @[x]]]

\* Mutant: the server takes what a core tells it for playing the download.
PutHoldActive(q) == [watched |-> q.watched, wish |-> q.wish, released |-> FALSE]

\* handlePutHold says nothing of being active: a release stays.
PutHold(q) == [HoldOf(q.d, q.dev) EXCEPT !.watched = q.watched, !.wish = q.wish]

\* Starting is being about to watch it; both it and playing hold it again.
StartHold(q) == [watched |-> FALSE, wish |-> q.wish, released |-> FALSE]
PlayHold(q) == [HoldOf(q.d, q.dev) EXCEPT !.released = FALSE]

\* A download nobody holds is the owner's, and no device's to let go of.
Held(q) ==
  CASE q.op = "hold" -> SetHold(q.d, q.dev, PutHold(q))
    [] q.op = "start" -> SetHold(q.d, q.dev, StartHold(q))
    [] q.op = "play" -> SetHold(q.d, q.dev, PlayHold(q))
    [] q.op = "delete" ->
         IF held[q.d] = NoHolds THEN held
         ELSE SetHold(q.d, q.dev, [HoldOf(q.d, q.dev) EXCEPT !.released = TRUE])

\* A full server keeps no holds, languages or rules that are not valid are
\* turned down, and of a download that is gone there is nothing to do.
Takes(q) ==
  /\ mode = "media"
  /\ q.op \in {"hold", "start"} => q.wish \notin Refused
  /\ q.d \in rows \/ q.op = "start"

\* KeepHolds is told how its request went, and leaves the rows that are left
\* when it failed; nobody waits for a late one.
Told(q, ok) ==
  pass' = IF q.op = "hold" /\ ~q.late THEN [pass EXCEPT !.at = IF ok THEN "rows" ELSE "idle"] ELSE pass

\* requireToken: the credential is looked up when the request comes in.
LetIn(q) ==
  /\ up /\ ~q.letIn
  /\ IF q.dev \in devices
     THEN wire' = (wire \ {q}) \cup {[q EXCEPT !.letIn = TRUE]} /\ UNCHANGED pass
     ELSE wire' = wire \ {q} /\ Told(q, FALSE)
  /\ UNCHANGED <<server, watched, wish, saved, running, kick, learned, linking, bounds>>

Handle(q) ==
  /\ up /\ q.letIn
  /\ wire' = wire \ {q}
  /\ IF Takes(q) THEN held' = Held(q) /\ rows' = rows \cup {q.d} ELSE UNCHANGED <<held, rows>>
  /\ Told(q, Takes(q))
  /\ UNCHANGED <<mode, up, code, devices, revoking, watched, wish, saved, running, kick, learned, linking, bounds>>

\* Its holds go first ...
ReleaseDevice(v) ==
  /\ revoking = NoDevice /\ v \in devices
  /\ revoking' = v
  /\ held' = [d \in Downloads |-> [x \in DOMAIN held[d] |->
                IF x = v THEN [held[d][x] EXCEPT !.released = TRUE] ELSE held[d][x]]]
  /\ UNCHANGED <<mode, up, code, devices, rows, wire, core, bounds>>

\* ... then its row.
RevokeDevice ==
  /\ revoking # NoDevice
  /\ devices' = devices \ {revoking} /\ revoking' = NoDevice
  /\ UNCHANGED <<mode, up, code, rows, held, wire, core, bounds>>

\* The owner starts a download, or one that no hold keeps is freed.
OwnerStarts(d) ==
  /\ d \notin rows /\ asked < MaxRequests /\ asked' = asked + 1
  /\ rows' = rows \cup {d}
  /\ UNCHANGED <<mode, up, code, devices, held, revoking, wire, core, issued, minted, faults>>

Free(d) ==
  /\ d \in rows /\ held[d] # NoHolds /\ \A v \in DOMAIN held[d] : held[d][v].released
  /\ rows' = rows \ {d} /\ held' = [held EXCEPT ![d] = NoHolds]
  /\ UNCHANGED <<mode, up, code, devices, revoking, wire, core, bounds>>

\* The server is stopped and started again, its owner having set its mode.
ServerRestarts ==
  /\ Fault
  /\ \E m \in {"media", "full"} : mode' = m
  /\ code' = NoCode /\ revoking' = NoDevice /\ wire' = {}
  /\ pass' = IF pass.at = "telling" THEN [pass EXCEPT !.at = "idle"] ELSE pass
  /\ UNCHANGED <<up, devices, rows, held, watched, wish, saved, running, kick, learned, linking,
                 issued, minted, asked>>

-----------------------------------------------------------------------------
(* The network. *)

Away == up /\ Fault /\ up' = FALSE
        /\ UNCHANGED <<mode, code, devices, rows, held, revoking, wire, core, issued, minted, asked>>
Back == ~up /\ up' = TRUE
        /\ UNCHANGED <<mode, code, devices, rows, held, revoking, wire, core, bounds>>

\* A request is lost before the server has it.
Lose(q) ==
  /\ ~q.letIn /\ Fault
  /\ wire' = wire \ {q} /\ Told(q, FALSE)
  /\ UNCHANGED <<server, watched, wish, saved, running, kick, learned, linking, issued, minted, asked>>

\* The answer does not come in time; the request may still be handled.
GiveUp(q) ==
  /\ q.op = "hold" /\ ~q.late /\ Fault
  /\ wire' = (wire \ {q}) \cup {[q EXCEPT !.late = TRUE]} /\ Told(q, FALSE)
  /\ UNCHANGED <<server, watched, wish, saved, running, kick, learned, linking, issued, minted, asked>>

-----------------------------------------------------------------------------
(* The linked core: what its viewer does, and KeepHolds. *)

Asks(op, d, w, y) ==
  [op |-> op, d |-> d, dev |-> running, watched |-> w, wish |-> y, letIn |-> FALSE, late |-> FALSE]

\* localID, serverID: what either core calls the title of a download, which
\* is asked for once.
Translates(d) == d \notin Unmatched /\ (d \in learned \/ Answers(running))

Sends(op, d) ==
  /\ running # NoDevice /\ asked < MaxRequests /\ asked' = asked + 1
  /\ wire' = wire \cup {Asks(op, d, FALSE, wish[d])}

\* A stream or a delete the core passes on for its client.
Forward(op, d) == Sends(op, d) /\ UNCHANGED <<server, core, issued, minted, faults>>

\* remoteStartDownload: by the server's name for the title, if there is one.
ForwardStart(d) ==
  /\ d \notin Unmatched => Translates(d)
  /\ Sends("start", d)
  /\ learned' = IF d \in Unmatched THEN learned ELSE learned \cup {d}
  /\ UNCHANGED <<server, watched, wish, saved, running, kick, pass, linking, issued, minted, faults>>

\* holdsChange: a handler that changes what the holds say, and then the kick.
Kicked == kick' = (running # NoDevice)

Watch(d) ==
  /\ asked < MaxRequests /\ asked' = asked + 1
  /\ watched' = IF d \in watched THEN watched \ {d} ELSE watched \cup {d}
  /\ Kicked
  /\ UNCHANGED <<server, wire, wish, saved, running, learned, pass, linking, issued, minted, faults>>

\* A preference, for every download, or a choice of subtitles, for one title.
Prefer(y) ==
  /\ asked < MaxRequests /\ asked' = asked + 1
  /\ \E D \in {Downloads} \cup {{d} : d \in Downloads} :
       wish' = [d \in Downloads |-> IF d \in D THEN y ELSE wish[d]]
  /\ wish' # wish /\ Kicked
  /\ UNCHANGED <<server, wire, watched, saved, running, learned, pass, linking, issued, minted, faults>>

\* Mutant: the holds are compared on a change only.
WakeOnKick ==
  /\ pass.at = "idle" /\ kick
  /\ kick' = FALSE /\ pass' = [pass EXCEPT !.at = "due"]
  /\ UNCHANGED <<server, wire, watched, wish, saved, running, learned, linking, bounds>>

\* The select of KeepHolds: the ticker, or the kick.
Wake ==
  /\ pass.at = "idle"
  /\ UNCHANGED kick \/ (kick /\ kick' = FALSE)
  /\ pass' = [pass EXCEPT !.at = "due"]
  /\ UNCHANGED <<server, wire, watched, wish, saved, running, learned, linking, bounds>>

\* A list of downloads as a device gets it: none it let go of.
SeenBy(v) ==
  {<<d, held[d][v]>> : d \in {e \in rows : v \in DOMAIN held[e] /\ ~held[e][v].released}}

ListHolds ==
  /\ pass.at = "due"
  /\ pass' = IF Answers(running) THEN [pass EXCEPT !.at = "read", !.rows = SeenBy(running)]
             ELSE [pass EXCEPT !.at = "idle"]
  /\ UNCHANGED <<server, wire, watched, wish, saved, running, kick, learned, linking, bounds>>

ReadProgress ==
  /\ pass.at = "read"
  /\ pass' = [pass EXCEPT !.at = "rows", !.watched = watched, !.wish = wish]
  /\ UNCHANGED <<server, wire, watched, wish, saved, running, kick, learned, linking, bounds>>

\* One row: passed over when it has no title here, or the hold says what is
\* so; told to the server otherwise, and waited for.
TellRow(row) ==
  LET d == row[1]
      w == d \in pass.watched
      same == row[2].watched = w /\ row[2].wish = pass.wish[d]
  IN  /\ pass.at = "rows"
      /\ learned' = IF Translates(d) THEN learned \cup {d} ELSE learned
      /\ IF Translates(d) /\ ~same
         THEN /\ pass' = [pass EXCEPT !.at = "telling", !.rows = @ \ {row}]
              /\ wire' = wire \cup {Asks("hold", d, w, pass.wish[d])}
         ELSE pass' = [pass EXCEPT !.rows = @ \ {row}] /\ UNCHANGED wire
      /\ UNCHANGED <<server, watched, wish, saved, running, kick, linking, bounds>>

PassEnds ==
  /\ pass.at = "rows" /\ pass.rows = {}
  /\ pass' = [pass EXCEPT !.at = "idle"]
  /\ UNCHANGED <<server, wire, watched, wish, saved, running, kick, learned, linking, bounds>>

KeepHolds == ListHolds \/ ReadProgress \/ (\E row \in pass.rows : TellRow(row)) \/ PassEnds

-----------------------------------------------------------------------------
Serve == \E q \in wire : LetIn(q) \/ Handle(q)

Next ==
  \/ HandlePairing \/ Expire \/ BeginLink \/ Probe \/ HandlePair \/ Save
  \/ HandlePutLink \/ HandleUseLink \/ Forget \/ Restart
  \/ \E v \in Devices : ReleaseDevice(v)
  \/ RevokeDevice \/ ServerRestarts \/ Away \/ Back
  \/ \E d \in Downloads : OwnerStarts(d) \/ Free(d) \/ Watch(d) \/ ForwardStart(d)
  \/ \E d \in Downloads, op \in {"play", "delete"} : Forward(op, d)
  \/ \E y \in Wishes : Prefer(y)
  \/ \E q \in wire : LetIn(q) \/ Handle(q) \/ Lose(q) \/ GiveUp(q)
  \/ Wake \/ KeepHolds

Spec == Init /\ [][Next]_vars

\* The goroutine of KeepHolds runs, its ticker fires every ten minutes, and a
\* server that can be reached handles what it is sent.
FairSpec == Spec /\ WF_vars(Wake) /\ WF_vars(KeepHolds) /\ WF_vars(Serve)

-----------------------------------------------------------------------------
\* The downloads this core's device holds, and can name.
Mine == {d \in rows \ Unmatched : running \in DOMAIN held[d] /\ ~held[d][running].released}
Follows(d) == held[d][running].watched = (d \in watched) /\ held[d][running].wish = wish[d]
Linked == up /\ mode = "media" /\ running \in devices

\* KeepHolds: "what changed while the server was away is sent once it is back".
\* Once this core's device stays taken by a media server it can reach, and
\* nothing its viewer wants of what it holds is refused there, every hold the
\* device has comes to say what the viewer watched and wants, and goes on
\* saying it, whatever was lost, answered late, refused or left half done before.
HoldsFollow ==
  <>[](Linked /\ \A d \in Mine : wish[d] \notin Refused) => <>[](\A d \in Mine : Follows(d))

\* The same of a single hold, whatever the viewer wants of the others: a row
\* that is refused ends every pass before the rows behind it.
EachHoldFollows ==
  \A d \in Downloads :
    <>[](Linked /\ wish[d] \notin Refused) => <>[](d \in Mine => Follows(d))

\* syncHolds: "holding it again is starting or playing it".  A download the
\* device let go of while a pass was telling the server of it stays let go of.
ReleasedStays ==
  [][\A d \in rows : \A v \in DOMAIN held[d] :
       held[d][v].released /\ v \in DOMAIN held'[d] /\ ~held'[d][v].released
         => \E q \in wire \ wire' : q.d = d /\ q.dev = v /\ q.op \in {"start", "play"}]_vars

\* A code pairs one device, though the answer be lost and the code typed again.
OneDeviceACode == Cardinality(minted) <= issued

\* handleRevokeDevice: "Its holds go first: a hold left behind would keep its
\* files forever".  A request of the device let in before and handled after
\* leaves one behind.
RevokedHoldsNothing ==
  \A d \in rows : \A v \in DOMAIN held[d] \ devices : held[d][v].released
=============================================================================
