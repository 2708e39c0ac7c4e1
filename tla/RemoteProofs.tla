---------------------------- MODULE RemoteProofs ----------------------------
(***************************************************************************)
(* What holds between a media server and the cores linked to it, for any   *)
(* devices, downloads and wishes, and however many codes, requests and     *)
(* faults: one device to a code, and a release that only starting or       *)
(* playing takes back.                                                     *)
(***************************************************************************)
EXTENDS Remote, FiniteSetTheorems, TLAPS

MintedOrNone == minted \cup {NoDevice}
Passes == [at : {"off", "idle", "due", "read", "rows", "telling"},
           rows : SUBSET (Downloads \X Hold), watched : SUBSET Downloads, wish : [Downloads -> Wishes]]
Commands == [at : {"no", "probe", "pair", "paired"}, code : Nat \cup {NoCode},
             dev : Devices \cup {NoDevice}, mode : {"media", "full"}]

\* The server: the holds are of devices that paired, on downloads it has.
ServerOK ==
  /\ mode \in {"media", "full"} /\ up \in BOOLEAN
  /\ devices \subseteq minted /\ minted \subseteq Devices /\ revoking \in Devices \cup {NoDevice}
  /\ rows \subseteq Downloads

HoldsOK ==
  /\ DOMAIN held = Downloads
  /\ \A d \in Downloads : \A v \in DOMAIN held[d] : v \in minted /\ held[d][v] \in Hold
  /\ \A d \in Downloads \ rows : held[d] = NoHolds

\* The linked core: what it is linked by has paired, and only a core that is
\* linked runs KeepHolds.
CoreOK ==
  /\ saved \in [dev : MintedOrNone, use : BOOLEAN] /\ (saved.use => saved.dev # NoDevice)
  /\ running \in MintedOrNone
  /\ watched \subseteq Downloads /\ wish \in [Downloads -> Wishes] /\ kick \in BOOLEAN

PassOK == pass \in Passes /\ (pass.at # "off" => running # NoDevice)

LinkingOK ==
  /\ linking \in Commands
  /\ linking.at = "paired" => linking.dev \in minted
  /\ linking.at \in {"probe", "pair"} => linking.code \in Nat

\* Only a linked core waits for the answer to a hold it told.
WireOK ==
  /\ wire \subseteq Request
  /\ \A q \in wire : q.dev \in minted /\ (q.op = "hold" /\ ~q.late => running # NoDevice)

\* A code not used up yet is one that no device has paired with.
One(b) == IF b THEN 1 ELSE 0
CodesOK ==
  /\ IsFiniteSet(minted) /\ issued \in Nat /\ code \in Nat \cup {NoCode}
  /\ Cardinality(minted) + One(code # NoCode) <= issued

IInv == ServerOK /\ HoldsOK /\ CoreOK /\ PassOK /\ LinkingOK /\ WireOK /\ CodesOK

-----------------------------------------------------------------------------
(* What a step leaves alone keeps its part of the invariant.                *)

LEMMA ServerKept ==
  ASSUME ServerOK, UNCHANGED <<mode, up, devices, rows, revoking, minted>> PROVE ServerOK'
BY DEF ServerOK

LEMMA HoldsKept == ASSUME HoldsOK, UNCHANGED <<held, rows, minted>> PROVE HoldsOK'
BY DEF HoldsOK

LEMMA CoreKept ==
  ASSUME CoreOK, UNCHANGED <<saved, running, watched, wish, kick, minted>> PROVE CoreOK'
BY DEF CoreOK, MintedOrNone

LEMMA PassKept == ASSUME PassOK, UNCHANGED <<pass, running>> PROVE PassOK'
BY DEF PassOK

LEMMA LinkingKept == ASSUME LinkingOK, UNCHANGED <<linking, minted>> PROVE LinkingOK'
BY DEF LinkingOK

LEMMA WireKept == ASSUME WireOK, UNCHANGED <<wire, running, minted>> PROVE WireOK'
BY DEF WireOK

LEMMA CodesKept == ASSUME CodesOK, UNCHANGED <<minted, issued, code>> PROVE CodesOK'
BY DEF CodesOK

LEMMA ExpiredKept == ASSUME CodesOK, UNCHANGED <<minted, issued>>, code' = NoCode PROVE CodesOK'
<1>1. Cardinality(minted) \in Nat
  BY FS_CardinalityType DEF CodesOK
<1> QED
  BY <1>1, RemoteAssumption DEF CodesOK, One

-----------------------------------------------------------------------------
(* Requests and holds.                                                      *)

\* A request let in, or given up on, is the same request.
LEMMA RequestGoesOn ==
  ASSUME NEW q \in Request
  PROVE  /\ [q EXCEPT !.letIn = TRUE] \in Request /\ [q EXCEPT !.late = TRUE] \in Request
         /\ [q EXCEPT !.letIn = TRUE].dev = q.dev /\ [q EXCEPT !.late = TRUE].dev = q.dev
         /\ [q EXCEPT !.letIn = TRUE].op = q.op /\ [q EXCEPT !.letIn = TRUE].late = q.late
         /\ [q EXCEPT !.late = TRUE].late
BY DEF Request

\* What a linked core sends is in its device's name.
LEMMA AsksRequest ==
  ASSUME IInv, running # NoDevice, NEW op \in {"hold", "start", "play", "delete"},
         NEW d \in Downloads, NEW w \in BOOLEAN, NEW y \in Wishes
  PROVE  Asks(op, d, w, y) \in Request /\ Asks(op, d, w, y).dev \in minted
BY DEF IInv, CoreOK, ServerOK, MintedOrNone, Asks, Request

LEMMA ToldKept ==
  ASSUME IInv, NEW q \in wire, NEW ok \in BOOLEAN, Told(q, ok), UNCHANGED running
  PROVE  PassOK'
<1>1. q.op = "hold" /\ ~q.late => running # NoDevice
  BY DEF IInv, WireOK
<1>2. PassOK
  BY DEF IInv
<1>3. CASE UNCHANGED pass
  BY <1>2, <1>3 DEF PassOK
<1>4. CASE /\ q.op = "hold" /\ ~q.late
           /\ \E at \in {"rows", "idle"} : pass' = [pass EXCEPT !.at = at]
  BY <1>1, <1>2, <1>4 DEF PassOK, Passes
<1> QED
  BY <1>3, <1>4 DEF Told

\* A hold set leaves every other as it was.
LEMMA SetHoldTyped ==
  ASSUME IInv, NEW d \in Downloads, NEW v \in minted, NEW h \in Hold
  PROVE  /\ DOMAIN SetHold(d, v, h) = Downloads
         /\ \A e \in Downloads : e # d => SetHold(d, v, h)[e] = held[e]
         /\ DOMAIN SetHold(d, v, h)[d] = DOMAIN held[d] \cup {v}
         /\ \A x \in DOMAIN SetHold(d, v, h)[d] :
              SetHold(d, v, h)[d][x] = IF x = v THEN h ELSE held[d][x]
BY DEF IInv, HoldsOK, SetHold

LEMMA HoldOfTyped ==
  ASSUME IInv, NEW d \in Downloads, NEW v PROVE HoldOf(d, v) \in Hold
BY RemoteAssumption DEF IInv, HoldsOK, HoldOf, NewHold, Hold

\* What a request makes of the holds: nothing, or the hold it names.
LEMMA HeldSets ==
  ASSUME IInv, NEW q \in wire
  PROVE  \E h \in Hold :
           /\ Held(q) = held \/ Held(q) = SetHold(q.d, q.dev, h)
           /\ h.released \/ ~HoldOf(q.d, q.dev).released \/ q.op \in {"start", "play"}
<1> DEFINE was == HoldOf(q.d, q.dev)
<1>1. q \in Request
  BY DEF IInv, WireOK
<1>2. was \in Hold
  BY <1>1, HoldOfTyped DEF Request
<1>3. CASE q.op = "hold"
  <2>1. PutHold(q) \in Hold /\ PutHold(q).released = was.released
    BY <1>1, <1>2 DEF PutHold, Hold, Request
  <2> QED
    BY <1>3, <2>1 DEF Held, Hold
<1>4. CASE q.op = "start"
  <2>1. StartHold(q) \in Hold
    BY <1>1 DEF StartHold, Hold, Request
  <2> QED
    BY <1>4, <2>1 DEF Held
<1>5. CASE q.op = "play"
  <2>1. PlayHold(q) \in Hold
    BY <1>1, <1>2 DEF PlayHold, Hold, Request
  <2> QED
    BY <1>5, <2>1 DEF Held
<1>6. CASE q.op = "delete"
  <2>1. [was EXCEPT !.released = TRUE] \in Hold /\ [was EXCEPT !.released = TRUE].released
    BY <1>2 DEF Hold
  <2> QED
    BY <1>6, <2>1 DEF Held
<1> QED
  BY <1>1, <1>3, <1>4, <1>5, <1>6 DEF Request

LEMMA SeenTyped == ASSUME IInv, NEW v PROVE SeenBy(v) \in SUBSET (Downloads \X Hold)
BY DEF IInv, HoldsOK, ServerOK, SeenBy

-----------------------------------------------------------------------------
(* Pairing and linking. *)

LEMMA HandlePairingInv == ASSUME IInv, HandlePairing PROVE IInv'
<1>1. UNCHANGED <<mode, up, devices, rows, held, revoking, wire, watched, wish, saved, running,
     kick, pass, linking, minted>>
  BY DEF HandlePairing, core
<1>2. CodesOK'
  <2>1. Cardinality(minted) \in Nat
    BY FS_CardinalityType DEF IInv, CodesOK
  <2> QED
    BY <1>1, <2>1, RemoteAssumption DEF IInv, CodesOK, One, HandlePairing
<1> QED
  BY <1>1, <1>2, ServerKept, HoldsKept, CoreKept, PassKept, LinkingKept, WireKept DEF IInv

LEMMA ExpireInv == ASSUME IInv, Expire PROVE IInv'
<1>1. UNCHANGED <<mode, up, devices, rows, held, revoking, wire, watched, wish, saved, running,
     kick, pass, linking, issued, minted>>
  BY DEF Expire, core, bounds
<1>2. CodesOK'
  BY <1>1, ExpiredKept DEF IInv, Expire
<1> QED
  BY <1>1, <1>2, ServerKept, HoldsKept, CoreKept, PassKept, LinkingKept, WireKept DEF IInv

LEMMA BeginLinkInv == ASSUME IInv, BeginLink PROVE IInv'
<1>1. UNCHANGED <<mode, up, code, devices, rows, held, revoking, wire, watched, wish, saved,
     running, kick, pass, issued, minted>>
  BY DEF BeginLink, server, bounds, NotLinking
<1>2. LinkingOK'
  <2>1. PICK c \in 1..issued : linking' = [NotLinking EXCEPT !.at = "probe", !.code = c]
    BY DEF BeginLink
  <2>2. c \in Nat
    BY DEF IInv, CodesOK
  <2> QED
    BY <2>1, <2>2 DEF LinkingOK, Commands, NotLinking
<1> QED
  BY <1>1, <1>2, ServerKept, HoldsKept, CoreKept, PassKept, WireKept, CodesKept DEF IInv

LEMMA ProbeInv == ASSUME IInv, Probe PROVE IInv'
<1>1. UNCHANGED <<mode, up, code, devices, rows, held, revoking, wire, watched, wish, saved,
     running, kick, pass, issued, minted>>
  BY DEF Probe, server, bounds, NotLinking
<1>2. LinkingOK'
  BY <1>1 DEF IInv, LinkingOK, Commands, Probe, server, bounds, NotLinking
<1> QED
  BY <1>1, <1>2, ServerKept, HoldsKept, CoreKept, PassKept, WireKept, CodesKept DEF IInv

\* The code goes with the device it paired, or no device is paired at all.
LEMMA HandlePairInv == ASSUME IInv, HandlePair PROVE IInv'
<1>1. UNCHANGED <<mode, up, rows, held, revoking, wire, watched, wish, saved, running, kick,
     pass, issued>>
  BY DEF HandlePair
<1>2. \/ \E v \in Devices : /\ code # NoCode /\ code' = NoCode
                            /\ devices' = devices \cup {v} /\ minted' = minted \cup {v}
                            /\ linking' = [linking EXCEPT !.at = "paired", !.dev = v, !.mode = mode]
      \/ linking' = NotLinking /\ UNCHANGED <<devices, minted, code>>
  <2>1. NewDevice \subseteq Devices
    BY DEF NewDevice
  <2>2. linking.at = "pair" => linking.code # NoCode
    BY RemoteAssumption DEF IInv, LinkingOK
  <2> QED
    BY <2>1, <2>2 DEF HandlePair, Valid
<1>3. ASSUME NEW v \in Devices, code # NoCode, code' = NoCode,
             devices' = devices \cup {v}, minted' = minted \cup {v},
             linking' = [linking EXCEPT !.at = "paired", !.dev = v, !.mode = mode]
      PROVE IInv'
  <2> USE DEF IInv
  <2>1. ServerOK'
    BY <1>1, <1>3 DEF ServerOK
  <2>2. HoldsOK'
    BY <1>1, <1>3 DEF HoldsOK
  <2>3. CoreOK'
    BY <1>1, <1>3 DEF CoreOK, MintedOrNone
  <2>4. PassOK'
    BY <1>1, PassKept
  <2>5. LinkingOK'
    BY <1>1, <1>3 DEF LinkingOK, Commands, ServerOK
  <2>6. WireOK'
    BY <1>1, <1>3 DEF WireOK
  <2>7. CodesOK'
    <3> DEFINE M == minted \cup {v}
    <3>0. IsFiniteSet(minted)
      BY DEF CodesOK
    <3>a. IsFiniteSet(M) /\ Cardinality(M) = IF v \in minted THEN Cardinality(minted) ELSE Cardinality(minted) + 1
      BY <3>0, FS_AddElement
    <3>b. Cardinality(M) \in Nat /\ Cardinality(minted) \in Nat
      BY <3>0, <3>a, FS_CardinalityType
    <3>c. minted' = M
      BY <1>3
    <3> HIDE DEF M
    <3>1. IsFiniteSet(minted') /\ Cardinality(minted') <= Cardinality(minted) + 1 /\ Cardinality(minted') \in Nat
      BY <3>a, <3>b, <3>c
    <3>2. Cardinality(minted) \in Nat
      BY FS_CardinalityType DEF CodesOK
    <3> QED
      BY <1>1, <1>3, <3>1, <3>2 DEF CodesOK, One
  <2> QED
    BY <2>1, <2>2, <2>3, <2>4, <2>5, <2>6, <2>7
<1>4. ASSUME linking' = NotLinking, UNCHANGED <<devices, minted, code>> PROVE IInv'
  <2>1. LinkingOK'
    BY <1>4 DEF LinkingOK, Commands, NotLinking
  <2> QED
    BY <1>1, <1>4, <2>1, ServerKept, HoldsKept, CoreKept, PassKept, WireKept, CodesKept DEF IInv
<1> QED
  BY <1>2, <1>3, <1>4

LEMMA SaveInv == ASSUME IInv, Save PROVE IInv'
<1>1. UNCHANGED <<mode, up, code, devices, rows, held, revoking, wire, watched, wish, running,
     kick, pass, issued, minted>>
  BY DEF Save, server, NotLinking
<1>2. CoreOK'
  <2>1. linking.dev \in minted /\ linking.dev # NoDevice
    BY RemoteAssumption DEF IInv, LinkingOK, ServerOK, Save
  <2>2. saved' = saved \/ saved' = [dev |-> linking.dev, use |-> TRUE]
    BY DEF Save, server, SaveLink
  <2>3. CoreOK /\ MintedOrNone' = MintedOrNone
    BY <1>1 DEF IInv, MintedOrNone
  <2>4. saved' \in [dev : MintedOrNone, use : BOOLEAN] /\ (saved'.use => saved'.dev # NoDevice)
    <3>1. CASE saved' = saved
      BY <2>3, <3>1 DEF CoreOK
    <3>2. CASE saved' = [dev |-> linking.dev, use |-> TRUE]
      BY <2>1, <3>2 DEF MintedOrNone
    <3> QED
      BY <2>2, <3>1, <3>2
  <2> QED
    BY <1>1, <2>3, <2>4 DEF CoreOK
<1>3. LinkingOK'
  BY <1>1 DEF IInv, LinkingOK, Commands, Save, server, NotLinking
<1> QED
  BY <1>1, <1>2, <1>3, ServerKept, HoldsKept, PassKept, WireKept, CodesKept DEF IInv

LEMMA HandlePutLinkInv == ASSUME IInv, HandlePutLink PROVE IInv'
<1>1. UNCHANGED <<mode, up, code, devices, rows, held, revoking, wire, watched, wish, running,
     kick, pass, issued, minted>>
  BY DEF HandlePutLink, server, bounds, NotLinking
<1>2. CoreOK'
  <2>1. linking.dev \in minted /\ linking.dev # NoDevice
    BY RemoteAssumption DEF IInv, LinkingOK, ServerOK, HandlePutLink
  <2>2. saved' = saved \/ saved' = [dev |-> linking.dev, use |-> TRUE]
    BY DEF HandlePutLink, server, bounds, SaveLink
  <2>3. CoreOK /\ MintedOrNone' = MintedOrNone
    BY <1>1 DEF IInv, MintedOrNone
  <2>4. saved' \in [dev : MintedOrNone, use : BOOLEAN] /\ (saved'.use => saved'.dev # NoDevice)
    <3>1. CASE saved' = saved
      BY <2>3, <3>1 DEF CoreOK
    <3>2. CASE saved' = [dev |-> linking.dev, use |-> TRUE]
      BY <2>1, <3>2 DEF MintedOrNone
    <3> QED
      BY <2>2, <3>1, <3>2
  <2> QED
    BY <1>1, <2>3, <2>4 DEF CoreOK
<1>3. LinkingOK'
  BY <1>1 DEF IInv, LinkingOK, Commands, HandlePutLink, server, bounds, NotLinking
<1> QED
  BY <1>1, <1>2, <1>3, ServerKept, HoldsKept, PassKept, WireKept, CodesKept DEF IInv

LEMMA HandleUseLinkInv == ASSUME IInv, HandleUseLink PROVE IInv'
<1>1. UNCHANGED <<mode, up, code, devices, rows, held, revoking, wire, watched, wish, running,
     kick, pass, linking, issued, minted>>
  BY DEF HandleUseLink, Links, server, NoLink
<1>2. CoreOK'
  BY <1>1 DEF IInv, CoreOK, MintedOrNone, HandleUseLink, Links, server, NoLink
<1> QED
  BY <1>1, <1>2, ServerKept, HoldsKept, PassKept, LinkingKept, WireKept, CodesKept DEF IInv

LEMMA ForgetInv == ASSUME IInv, Forget PROVE IInv'
<1>1. UNCHANGED <<mode, up, code, devices, rows, held, revoking, wire, watched, wish, running,
     kick, pass, linking, issued, minted>>
  BY DEF Forget, Links, server, NoLink
<1>2. CoreOK'
  BY <1>1 DEF IInv, CoreOK, MintedOrNone, Forget, Links, server, NoLink
<1> QED
  BY <1>1, <1>2, ServerKept, HoldsKept, PassKept, LinkingKept, WireKept, CodesKept DEF IInv

LEMMA RestartInv == ASSUME IInv, Restart PROVE IInv'
<1>1. UNCHANGED <<mode, up, code, devices, rows, held, revoking, watched, wish, saved, issued,
     minted>>
  BY DEF Restart, server, Loaded, NotLinking
<1>2. CoreOK'
  BY <1>1 DEF IInv, CoreOK, MintedOrNone, Restart, server, Loaded, NotLinking
<1>3. PassOK'
  <2>1. pass' \in Passes
    BY RemoteAssumption DEF IInv, PassOK, Passes, Restart, Asleep, NoWishes
  <2> QED
    BY <2>1 DEF PassOK, Restart, Asleep
<1>4. LinkingOK'
  BY <1>1 DEF IInv, LinkingOK, Commands, Restart, server, Loaded, NotLinking
<1>5. WireOK'
  <2>1. \A q \in wire : q \in Request /\ q.dev \in minted
    BY DEF IInv, WireOK
  <2>2. \A p \in wire' : p \in Request /\ p.dev \in minted /\ p.late
    <3> TAKE p \in wire'
    <3>1. PICK q \in wire : p = [q EXCEPT !.late = TRUE]
      BY DEF Restart
    <3> QED
      BY <2>1, <3>1, RequestGoesOn
  <2> QED
    BY <1>1, <2>2 DEF WireOK
<1> QED
  BY <1>1, <1>2, <1>3, <1>4, <1>5, ServerKept, HoldsKept, CodesKept DEF IInv

-----------------------------------------------------------------------------
(* The server. *)

LEMMA ReleaseDeviceInv == ASSUME IInv, NEW v \in Devices, ReleaseDevice(v) PROVE IInv'
<1>1. UNCHANGED <<mode, up, code, devices, rows, wire, watched, wish, saved, running, kick,
     pass, linking, issued, minted>>
  BY DEF ReleaseDevice, core, bounds
<1>2. ServerOK'
  BY <1>1 DEF IInv, ServerOK, ReleaseDevice, core, bounds
<1>3. HoldsOK'
  <2> DEFINE Let(d) == [x \in DOMAIN held[d] |->
                          IF x = v THEN [held[d][x] EXCEPT !.released = TRUE] ELSE held[d][x]]
  <2>1. held' = [d \in Downloads |-> Let(d)]
    BY DEF ReleaseDevice
  <2>2. ASSUME NEW d \in Downloads, NEW x \in DOMAIN held[d] PROVE x \in minted /\ Let(d)[x] \in Hold
    BY DEF IInv, HoldsOK, Hold
  <2>3. ASSUME NEW d \in Downloads \ rows PROVE Let(d) = NoHolds
    BY DEF IInv, HoldsOK, NoHolds
  <2> HIDE DEF Let
  <2>4. \A d \in Downloads : DOMAIN Let(d) = DOMAIN held[d]
    BY DEF Let
  <2> QED
    BY <1>1, <2>1, <2>2, <2>3, <2>4 DEF HoldsOK
<1> QED
  BY <1>1, <1>2, <1>3, CoreKept, PassKept, LinkingKept, WireKept, CodesKept DEF IInv

LEMMA RevokeDeviceInv == ASSUME IInv, RevokeDevice PROVE IInv'
<1>1. UNCHANGED <<mode, up, code, rows, held, wire, watched, wish, saved, running, kick, pass,
     linking, issued, minted>>
  BY DEF RevokeDevice, core, bounds
<1>2. ServerOK'
  BY <1>1 DEF IInv, ServerOK, RevokeDevice, core, bounds
<1> QED
  BY <1>1, <1>2, HoldsKept, CoreKept, PassKept, LinkingKept, WireKept, CodesKept DEF IInv

LEMMA ServerRestartsInv == ASSUME IInv, ServerRestarts PROVE IInv'
<1>1. UNCHANGED <<up, devices, rows, held, watched, wish, saved, running, kick, linking,
     issued, minted>>
  BY DEF ServerRestarts
<1>2. ServerOK'
  BY <1>1 DEF IInv, ServerOK, ServerRestarts
<1>3. PassOK'
  BY <1>1 DEF IInv, PassOK, Passes, ServerRestarts
<1>4. WireOK'
  BY <1>1 DEF IInv, WireOK, ServerRestarts
<1>5. CodesOK'
  BY <1>1, ExpiredKept DEF IInv, ServerRestarts
<1> QED
  BY <1>1, <1>2, <1>3, <1>4, <1>5, HoldsKept, CoreKept, LinkingKept DEF IInv

LEMMA AwayInv == ASSUME IInv, Away PROVE IInv'
<1>1. UNCHANGED <<mode, code, devices, rows, held, revoking, wire, watched, wish, saved,
     running, kick, pass, linking, issued, minted>>
  BY DEF Away, core
<1>2. ServerOK'
  BY <1>1 DEF IInv, ServerOK, Away, core
<1> QED
  BY <1>1, <1>2, HoldsKept, CoreKept, PassKept, LinkingKept, WireKept, CodesKept DEF IInv

LEMMA BackInv == ASSUME IInv, Back PROVE IInv'
<1>1. UNCHANGED <<mode, code, devices, rows, held, revoking, wire, watched, wish, saved,
     running, kick, pass, linking, issued, minted>>
  BY DEF Back, core, bounds
<1>2. ServerOK'
  BY <1>1 DEF IInv, ServerOK, Back, core, bounds
<1> QED
  BY <1>1, <1>2, HoldsKept, CoreKept, PassKept, LinkingKept, WireKept, CodesKept DEF IInv

LEMMA OwnerStartsInv == ASSUME IInv, NEW d \in Downloads, OwnerStarts(d) PROVE IInv'
<1>1. UNCHANGED <<mode, up, code, devices, held, revoking, wire, watched, wish, saved, running,
     kick, pass, linking, issued, minted>>
  BY DEF OwnerStarts, core
<1>2. ServerOK'
  BY <1>1 DEF IInv, ServerOK, OwnerStarts, core
<1>3. HoldsOK'
  BY <1>1 DEF IInv, HoldsOK, OwnerStarts, core
<1> QED
  BY <1>1, <1>2, <1>3, CoreKept, PassKept, LinkingKept, WireKept, CodesKept DEF IInv

LEMMA FreeInv == ASSUME IInv, NEW d \in Downloads, Free(d) PROVE IInv'
<1>1. UNCHANGED <<mode, up, code, devices, revoking, wire, watched, wish, saved, running, kick,
     pass, linking, issued, minted>>
  BY DEF Free, core, bounds, NoHolds
<1>2. ServerOK'
  BY <1>1 DEF IInv, ServerOK, Free, core, bounds, NoHolds
<1>3. HoldsOK'
  BY <1>1 DEF IInv, HoldsOK, Free, core, bounds, NoHolds
<1> QED
  BY <1>1, <1>2, <1>3, CoreKept, PassKept, LinkingKept, WireKept, CodesKept DEF IInv

LEMMA LetInInv == ASSUME IInv, NEW q \in wire, LetIn(q) PROVE IInv'
<1>1. UNCHANGED <<mode, up, code, devices, rows, held, revoking, watched, wish, saved, running,
     kick, linking, issued, minted>>
  BY DEF LetIn, server, bounds, Told
<1>2. PassOK'
  <2>1. Told(q, FALSE) \/ UNCHANGED pass
    BY DEF LetIn
  <2>2. FALSE \in BOOLEAN
    OBVIOUS
  <2> QED
    BY <1>1, <2>1, <2>2, ToldKept, PassKept DEF IInv
<1>3. WireOK'
  <2> DEFINE p == [q EXCEPT !.letIn = TRUE]
  <2>1. wire' \subseteq wire \cup {p}
    BY DEF LetIn
  <2>2. q \in Request /\ p \in Request /\ p.dev = q.dev /\ p.op = q.op /\ p.late = q.late
    BY RequestGoesOn DEF IInv, WireOK
  <2> HIDE DEF p
  <2> QED
    BY <1>1, <2>1, <2>2 DEF IInv, WireOK
<1> QED
  BY <1>1, <1>2, <1>3, ServerKept, HoldsKept, CoreKept, LinkingKept, CodesKept DEF IInv

LEMMA HandleInv == ASSUME IInv, NEW q \in wire, Handle(q) PROVE IInv'
<1>1. UNCHANGED <<mode, up, code, devices, revoking, watched, wish, saved, running, kick,
     linking, issued, minted>>
  BY DEF Handle, bounds, Told
<1>2. ServerOK'
  <2>1. q.d \in Downloads
    BY DEF IInv, WireOK, Request
  <2> QED
    BY <1>1, <2>1 DEF IInv, ServerOK, Handle
<1>3. HoldsOK'
  <2>1. q.d \in Downloads /\ q.dev \in minted
    BY DEF IInv, WireOK, Request
  <2>2. HoldsOK
    BY DEF IInv
  <2>3. CASE UNCHANGED <<held, rows>>
    BY <1>1, <2>2, <2>3 DEF HoldsOK
  <2>4. CASE held' = Held(q) /\ rows' = rows \cup {q.d}
    <3>1. PICK h \in Hold : Held(q) = held \/ Held(q) = SetHold(q.d, q.dev, h)
      BY HeldSets
    <3>2. CASE held' = held
      BY <1>1, <2>2, <2>4, <3>2 DEF HoldsOK
    <3>3. CASE held' = SetHold(q.d, q.dev, h)
      <4>1. /\ DOMAIN held' = Downloads
            /\ \A e \in Downloads : e # q.d => held'[e] = held[e]
            /\ DOMAIN held'[q.d] = DOMAIN held[q.d] \cup {q.dev}
            /\ \A x \in DOMAIN held'[q.d] : held'[q.d][x] = IF x = q.dev THEN h ELSE held[q.d][x]
        BY <2>1, <3>3, SetHoldTyped
      <4>2. ASSUME NEW e \in Downloads,
     NEW x \in DOMAIN held'[e] PROVE x \in minted /\ held'[e][x] \in Hold
        BY <2>1, <2>2, <4>1, <4>2 DEF HoldsOK
      <4>3. ASSUME NEW e \in Downloads \ rows' PROVE held'[e] = NoHolds
        BY <2>2, <2>4, <4>1, <4>3 DEF HoldsOK
      <4> QED
        BY <1>1, <4>1, <4>2, <4>3 DEF HoldsOK
    <3> QED
      BY <2>4, <3>1, <3>2, <3>3
  <2> QED
    BY <2>3, <2>4 DEF Handle
<1>4. PassOK'
  <2>1. Told(q, Takes(q)) \/ UNCHANGED pass
    BY DEF Handle
  <2>2. Takes(q) \in BOOLEAN
    BY DEF Takes
  <2> QED
    BY <1>1, <2>1, <2>2, ToldKept, PassKept DEF IInv
<1>5. WireOK'
  BY <1>1 DEF IInv, WireOK, Handle, bounds, Told
<1> QED
  BY <1>1, <1>2, <1>3, <1>4, <1>5, CoreKept, LinkingKept, CodesKept DEF IInv

LEMMA LoseInv == ASSUME IInv, NEW q \in wire, Lose(q) PROVE IInv'
<1>1. UNCHANGED <<mode, up, code, devices, rows, held, revoking, watched, wish, saved, running,
     kick, linking, issued, minted>>
  BY DEF Lose, server, Told
<1>2. PassOK'
  <2>1. Told(q, FALSE) \/ UNCHANGED pass
    BY DEF Lose
  <2>2. FALSE \in BOOLEAN
    OBVIOUS
  <2> QED
    BY <1>1, <2>1, <2>2, ToldKept, PassKept DEF IInv
<1>3. WireOK'
  BY <1>1 DEF IInv, WireOK, Lose, server, Told
<1> QED
  BY <1>1, <1>2, <1>3, ServerKept, HoldsKept, CoreKept, LinkingKept, CodesKept DEF IInv

LEMMA GiveUpInv == ASSUME IInv, NEW q \in wire, GiveUp(q) PROVE IInv'
<1>1. UNCHANGED <<mode, up, code, devices, rows, held, revoking, watched, wish, saved, running,
     kick, linking, issued, minted>>
  BY DEF GiveUp, server, Told
<1>2. PassOK'
  <2>1. Told(q, FALSE) \/ UNCHANGED pass
    BY DEF GiveUp
  <2>2. FALSE \in BOOLEAN
    OBVIOUS
  <2> QED
    BY <1>1, <2>1, <2>2, ToldKept, PassKept DEF IInv
<1>3. WireOK'
  <2> DEFINE p == [q EXCEPT !.late = TRUE]
  <2>1. wire' \subseteq wire \cup {p}
    BY DEF GiveUp
  <2>2. q \in Request /\ p \in Request /\ p.dev = q.dev /\ p.late
    BY RequestGoesOn DEF IInv, WireOK
  <2> HIDE DEF p
  <2> QED
    BY <1>1, <2>1, <2>2 DEF IInv, WireOK
<1> QED
  BY <1>1, <1>2, <1>3, ServerKept, HoldsKept, CoreKept, LinkingKept, CodesKept DEF IInv

-----------------------------------------------------------------------------
(* The linked core. *)

LEMMA ForwardInv == ASSUME IInv, NEW op \in {"play", "delete"}, NEW d \in Downloads, Forward(op, d) PROVE IInv'
<1>1. UNCHANGED <<mode, up, code, devices, rows, held, revoking, watched, wish, saved, running,
     kick, pass, linking, issued, minted>>
  BY DEF Forward, Sends, server, core
<1>2. WireOK'
  <2> DEFINE p == Asks(op, d, FALSE, wish[d])
  <2>1. running # NoDevice /\ wire' = wire \cup {p}
    BY DEF Forward, Sends
  <2>2. wish[d] \in Wishes
    BY DEF IInv, CoreOK
  <2>3. p \in Request /\ p.dev \in minted
    BY <2>1, <2>2, AsksRequest
  <2> HIDE DEF p
  <2> QED
    BY <1>1, <2>1, <2>3 DEF IInv, WireOK
<1> QED
  BY <1>1, <1>2, ServerKept, HoldsKept, CoreKept, PassKept, LinkingKept, CodesKept DEF IInv

LEMMA ForwardStartInv == ASSUME IInv, NEW d \in Downloads, ForwardStart(d) PROVE IInv'
<1>1. UNCHANGED <<mode, up, code, devices, rows, held, revoking, watched, wish, saved, running,
     kick, pass, linking, issued, minted>>
  BY DEF ForwardStart, Sends, server
<1>2. WireOK'
  <2> DEFINE p == Asks("start", d, FALSE, wish[d])
  <2>1. running # NoDevice /\ wire' = wire \cup {p}
    BY DEF ForwardStart, Sends
  <2>2. wish[d] \in Wishes
    BY DEF IInv, CoreOK
  <2>3. p \in Request /\ p.dev \in minted
    BY <2>1, <2>2, AsksRequest
  <2> HIDE DEF p
  <2> QED
    BY <1>1, <2>1, <2>3 DEF IInv, WireOK
<1> QED
  BY <1>1, <1>2, ServerKept, HoldsKept, CoreKept, PassKept, LinkingKept, CodesKept DEF IInv

LEMMA WatchInv == ASSUME IInv, NEW d \in Downloads, Watch(d) PROVE IInv'
<1>1. UNCHANGED <<mode, up, code, devices, rows, held, revoking, wire, wish, saved, running,
     pass, linking, issued, minted>>
  BY DEF Watch, Kicked, server
<1>2. CoreOK'
  BY <1>1 DEF IInv, CoreOK, MintedOrNone, Watch, Kicked, server
<1> QED
  BY <1>1, <1>2, ServerKept, HoldsKept, PassKept, LinkingKept, WireKept, CodesKept DEF IInv

LEMMA PreferInv == ASSUME IInv, NEW y \in Wishes, Prefer(y) PROVE IInv'
<1>1. UNCHANGED <<mode, up, code, devices, rows, held, revoking, wire, watched, saved, running,
     pass, linking, issued, minted>>
  BY DEF Prefer, Kicked, server
<1>2. CoreOK'
  BY <1>1 DEF IInv, CoreOK, MintedOrNone, Prefer, Kicked, server
<1> QED
  BY <1>1, <1>2, ServerKept, HoldsKept, PassKept, LinkingKept, WireKept, CodesKept DEF IInv

LEMMA WakeInv == ASSUME IInv, Wake PROVE IInv'
<1>1. UNCHANGED <<mode, up, code, devices, rows, held, revoking, wire, watched, wish, saved,
     running, linking, issued, minted>>
  BY DEF Wake, server, bounds
<1>2. CoreOK'
  BY <1>1 DEF IInv, CoreOK, MintedOrNone, Wake, server, bounds
<1>3. PassOK'
  BY <1>1 DEF IInv, PassOK, Passes, Wake, server, bounds
<1> QED
  BY <1>1, <1>2, <1>3, ServerKept, HoldsKept, LinkingKept, WireKept, CodesKept DEF IInv

LEMMA ListHoldsInv == ASSUME IInv, ListHolds PROVE IInv'
<1>1. UNCHANGED <<mode, up, code, devices, rows, held, revoking, wire, watched, wish, saved,
     running, kick, linking, issued, minted>>
  BY DEF ListHolds, server, bounds
<1>2. PassOK'
  <2>1. SeenBy(running) \in SUBSET (Downloads \X Hold)
    BY SeenTyped
  <2>2. pass \in Passes /\ running # NoDevice
    BY DEF IInv, PassOK, ListHolds
  <2>3. \/ pass' = [pass EXCEPT !.at = "read", !.rows = SeenBy(running)]
        \/ pass' = [pass EXCEPT !.at = "idle"]
    BY DEF ListHolds
  <2>4. pass' \in Passes
    BY <2>1, <2>2, <2>3 DEF Passes
  <2> QED
    BY <1>1, <2>2, <2>4 DEF PassOK
<1> QED
  BY <1>1, <1>2, ServerKept, HoldsKept, CoreKept, LinkingKept, WireKept, CodesKept DEF IInv

LEMMA ReadProgressInv == ASSUME IInv, ReadProgress PROVE IInv'
<1>1. UNCHANGED <<mode, up, code, devices, rows, held, revoking, wire, watched, wish, saved,
     running, kick, linking, issued, minted>>
  BY DEF ReadProgress, server, bounds, CoreOK
<1>2. PassOK'
  BY <1>1 DEF IInv, PassOK, Passes, ReadProgress, server, bounds, CoreOK
<1> QED
  BY <1>1, <1>2, ServerKept, HoldsKept, CoreKept, LinkingKept, WireKept, CodesKept DEF IInv

LEMMA TellRowInv == ASSUME IInv, NEW row \in pass.rows, TellRow(row) PROVE IInv'
<1>1. UNCHANGED <<mode, up, code, devices, rows, held, revoking, watched, wish, saved, running,
     kick, linking, issued, minted>>
  BY DEF TellRow, server, bounds
<1>2. PassOK'
  <2>1. pass \in Passes /\ running # NoDevice
    BY DEF IInv, PassOK, TellRow
  <2>2. \/ pass' = [pass EXCEPT !.at = "telling", !.rows = pass.rows \ {row}]
        \/ pass' = [pass EXCEPT !.rows = pass.rows \ {row}]
    BY DEF TellRow
  <2>3. pass' \in Passes
    BY <2>1, <2>2 DEF Passes
  <2> QED
    BY <1>1, <2>1, <2>3 DEF PassOK
<1>3. WireOK'
  <2> DEFINE p == Asks("hold", row[1], row[1] \in pass.watched, pass.wish[row[1]])
  <2>1. running # NoDevice /\ row[1] \in Downloads /\ pass.wish[row[1]] \in Wishes
    BY DEF IInv, PassOK, Passes, TellRow
  <2>2. wire' \subseteq wire \cup {p}
    BY DEF TellRow
  <2>3. p \in Request /\ p.dev \in minted
    <3>1. (row[1] \in pass.watched) \in BOOLEAN
      OBVIOUS
    <3> QED
      BY <2>1, <3>1, AsksRequest
  <2> HIDE DEF p
  <2> QED
    BY <1>1, <2>1, <2>2, <2>3 DEF IInv, WireOK
<1> QED
  BY <1>1, <1>2, <1>3, ServerKept, HoldsKept, CoreKept, LinkingKept, CodesKept DEF IInv

LEMMA PassEndsInv == ASSUME IInv, PassEnds PROVE IInv'
<1>1. UNCHANGED <<mode, up, code, devices, rows, held, revoking, wire, watched, wish, saved,
     running, kick, linking, issued, minted>>
  BY DEF PassEnds, server, bounds
<1>2. PassOK'
  BY <1>1 DEF IInv, PassOK, Passes, PassEnds, server, bounds
<1> QED
  BY <1>1, <1>2, ServerKept, HoldsKept, CoreKept, LinkingKept, WireKept, CodesKept DEF IInv

-----------------------------------------------------------------------------
LEMMA InitInv == Init => IInv
<1> SUFFICES ASSUME Init PROVE IInv
  OBVIOUS
<1>1. ServerOK /\ HoldsOK
  BY DEF Init, ServerOK, HoldsOK, NoHolds
<1>2. CoreOK /\ PassOK /\ LinkingOK /\ WireOK
  BY RemoteAssumption DEF Init, CoreOK, MintedOrNone, NoLink, PassOK, Passes, Asleep, NoWishes,
     LinkingOK, Commands, NotLinking, WireOK
<1>3. CodesOK
  BY FS_EmptySet DEF Init, CodesOK, One
<1> QED
  BY <1>1, <1>2, <1>3 DEF IInv

LEMMA NextInv == IInv /\ [Next]_vars => IInv'
<1> SUFFICES ASSUME IInv, [Next]_vars PROVE IInv'
  OBVIOUS
<1>1. CASE UNCHANGED vars
  BY <1>1, ServerKept, HoldsKept, CoreKept, PassKept, LinkingKept, WireKept, CodesKept
  DEF vars, server, core, bounds, IInv
<1>2. CASE \/ HandlePairing \/ Expire \/ BeginLink \/ Probe \/ HandlePair \/ Save
           \/ HandlePutLink \/ HandleUseLink \/ Forget \/ Restart
  BY <1>2, HandlePairingInv, ExpireInv, BeginLinkInv, ProbeInv, HandlePairInv, SaveInv,
     HandlePutLinkInv, HandleUseLinkInv, ForgetInv, RestartInv
<1>3. CASE \/ \E v \in Devices : ReleaseDevice(v)
           \/ RevokeDevice \/ ServerRestarts \/ Away \/ Back
           \/ \E d \in Downloads : OwnerStarts(d) \/ Free(d)
  BY <1>3, ReleaseDeviceInv, RevokeDeviceInv, ServerRestartsInv, AwayInv, BackInv,
     OwnerStartsInv, FreeInv
<1>4. CASE \E q \in wire : LetIn(q) \/ Handle(q) \/ Lose(q) \/ GiveUp(q)
  BY <1>4, LetInInv, HandleInv, LoseInv, GiveUpInv
<1>5. CASE \/ \E d \in Downloads : Watch(d) \/ ForwardStart(d)
           \/ \E d \in Downloads, op \in {"play", "delete"} : Forward(op, d)
           \/ \E y \in Wishes : Prefer(y)
  BY <1>5, WatchInv, ForwardStartInv, ForwardInv, PreferInv
<1>6. CASE Wake \/ KeepHolds
  BY <1>6, WakeInv, ListHoldsInv, ReadProgressInv, TellRowInv, PassEndsInv DEF KeepHolds
<1> QED
  BY <1>1, <1>2, <1>3, <1>4, <1>5, <1>6 DEF Next

\* The state is well formed, and IInv holds, whatever is lost or revoked.
THEOREM Invariant == Spec => []IInv
<1>1. Init => IInv
  BY InitInv
<1>2. IInv /\ [Next]_vars => IInv'
  BY NextInv
<1> QED
  BY <1>1, <1>2, PTL DEF Spec

\* Type correctness.
THEOREM TypeCorrect == Spec => []TypeOK
<1>1. IInv => TypeOK
  BY DEF IInv, TypeOK, ServerOK, HoldsOK, CoreOK, MintedOrNone, PassOK, Passes, LinkingOK,
     Commands, WireOK
<1> QED
  BY <1>1, Invariant, PTL

\* handlePair clears the code in the step that mints the device, so however
\* often a code is typed, and whichever answers are lost, the server has no
\* more devices than it gave out codes.
THEOREM CodePairsOne == Spec => []OneDeviceACode
<1>1. IInv => OneDeviceACode
  <2> SUFFICES ASSUME IInv PROVE OneDeviceACode
    OBVIOUS
  <2>1. Cardinality(minted) \in Nat
    BY FS_CardinalityType DEF IInv, CodesOK
  <2> QED
    BY <2>1 DEF IInv, CodesOK, One, OneDeviceACode
<1> QED
  BY <1>1, Invariant, PTL

-----------------------------------------------------------------------------
(* ReleasedStays.                                                           *)

\* What a step may make of a hold that was let go of.
StaysReleased ==
  \A d \in rows : \A v \in DOMAIN held[d] :
     held[d][v].released /\ v \in DOMAIN held'[d] /\ ~held'[d][v].released
       => \E q \in wire \ wire' : q.d = d /\ q.dev = v /\ q.op \in {"start", "play"}

\* Only the download and the device of a request have their hold set.
LEMMA HandleReleases == ASSUME IInv, NEW q \in wire, Handle(q) PROVE StaysReleased
<1> SUFFICES ASSUME NEW d \in rows, NEW v \in DOMAIN held[d], held[d][v].released,
                    v \in DOMAIN held'[d], ~held'[d][v].released
             PROVE  q.d = d /\ q.dev = v /\ q.op \in {"start", "play"}
  BY DEF StaysReleased, Handle
<1>1. d \in Downloads /\ q.d \in Downloads /\ q.dev \in minted
  BY DEF IInv, ServerOK, WireOK, Request
<1>2. PICK h \in Hold : /\ Held(q) = held \/ Held(q) = SetHold(q.d, q.dev, h)
                        /\ h.released \/ ~HoldOf(q.d, q.dev).released \/ q.op \in {"start", "play"}
  BY HeldSets
<1>3. held' = SetHold(q.d, q.dev, h)
  BY <1>2 DEF Handle
<1>4. q.d = d /\ q.dev = v /\ ~h.released
  BY <1>1, <1>3, SetHoldTyped
<1>5. HoldOf(q.d, q.dev) = held[d][v]
  BY <1>4 DEF HoldOf
<1> QED
  BY <1>2, <1>4, <1>5

LEMMA OtherReleases ==
  ASSUME IInv, [Next]_vars, \A q \in wire : ~Handle(q)
  PROVE  StaysReleased
<1>1. ASSUME NEW v \in Devices, ReleaseDevice(v) PROVE StaysReleased
  BY <1>1 DEF ReleaseDevice, StaysReleased, IInv, HoldsOK, ServerOK, Hold
<1>2. ASSUME NEW d \in Downloads, Free(d) PROVE StaysReleased
  BY <1>2 DEF Free, StaysReleased, IInv, HoldsOK, ServerOK, NoHolds
<1>3. ASSUME UNCHANGED held PROVE StaysReleased
  BY <1>3 DEF StaysReleased
<1>4. ASSUME UNCHANGED vars PROVE UNCHANGED held
  BY <1>4 DEF vars, server
<1>5. ASSUME \/ HandlePairing \/ Expire \/ BeginLink \/ Probe \/ HandlePair \/ Save
             \/ HandlePutLink \/ HandleUseLink \/ Forget \/ Restart
      PROVE UNCHANGED held
  BY <1>5 DEF HandlePairing, Expire, BeginLink, Probe, HandlePair, Save, HandlePutLink,
     HandleUseLink, Forget, Links, Restart, server
<1>6. ASSUME RevokeDevice \/ ServerRestarts \/ Away \/ Back PROVE UNCHANGED held
  BY <1>6 DEF RevokeDevice, ServerRestarts, Away, Back
<1>7. ASSUME NEW d, OwnerStarts(d) \/ Watch(d) \/ ForwardStart(d) \/ (\E op : Forward(op, d)) \/ (\E y : Prefer(y))
      PROVE UNCHANGED held
  BY <1>7 DEF OwnerStarts, Watch, ForwardStart, Forward, Prefer, server
<1>8. ASSUME NEW q, LetIn(q) \/ Lose(q) \/ GiveUp(q) PROVE UNCHANGED held
  BY <1>8 DEF LetIn, Lose, GiveUp, server
<1>9. ASSUME Wake \/ KeepHolds PROVE UNCHANGED held
  BY <1>9 DEF Wake, KeepHolds, ListHolds, ReadProgress, TellRow, PassEnds, server
<1> QED
  BY <1>1, <1>2, <1>3, <1>4, <1>5, <1>6, <1>7, <1>8, <1>9 DEF Next

\* A download a device let go of stays let go of, whatever the linked core
\* tells the server late, twice or from what it read before.
THEOREM ReleaseStays == Spec => ReleasedStays
<1>1. IInv /\ [Next]_vars => [StaysReleased]_vars
  BY HandleReleases, OtherReleases
<1> QED
  BY <1>1, Invariant, PTL DEF Spec, ReleasedStays, StaysReleased
=============================================================================
