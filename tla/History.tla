------------------------------ MODULE History ------------------------------
(***************************************************************************)
(* What the viewer has watched of each title, what plays next, My list and *)
(* the scores: core/internal/progress, watchlist and ratings, their tables *)
(* in core/internal/store and the handlers of core/internal/api that       *)
(* change them.                                                            *)
(*                                                                         *)
(* Every call of the store is one step, so that the handlers of two        *)
(* clients interleave between what one reads and what it writes.  A        *)
(* position is how far into the episode it lies, as Put tells apart; the   *)
(* duration and the subtitle delay are left out.  The kick of the library  *)
(* that ends a play is modelled in Library.                                *)
(***************************************************************************)
EXTENDS Integers, Sequences, FiniteSets

CONSTANTS
  Titles,       \* ids with an entry: films, series, and local files by hash
  Films,        \* the titles that are films
  Series,       \* the titles that are series
  EpisodesOf,   \* what the catalogue lists of each series, as <<season, number>>
  Released,     \* the day of each <<title, key>>, Undated for none
  Recent,       \* watchlist.recent
  Procs,        \* handlers under way at once
  Reports,      \* the positions reported: of Start, Opening, Middle and End
  MaxNow, MaxRequests, MaxFaults,   \* bounds on the clock, on requests and failures, and on failures
  NoKey

Undated == -1
Nothing == [k \in {} |-> k]   \* a table with no rows
TheTitle == <<0, 0>>   \* the key of a film, a file, or a score of a title
Known == Films \cup Series
KeysOf(t) == IF t \in Series THEN EpisodesOf[t] ELSE {TheTitle}

\* Where a report lies in the episode: at its start, under rewatchFrom, in the
\* middle, from 90% on.  The last leaves no position, so it is never stored.
Start == 0
Opening == 1
Middle == 2
End == 3

ASSUME HistoryAssumption ==
  /\ Films \cap Series = {} /\ Known \subseteq Titles
  /\ \A t \in Series : EpisodesOf[t] \subseteq Nat \X (Nat \ {0}) /\ IsFiniteSet(EpisodesOf[t])
  /\ \A t \in Known : \A k \in KeysOf(t) : Released[<<t, k>>] \in {Undated} \cup Nat
  /\ NoKey \notin Nat \X Nat /\ Reports \subseteq {Start, Opening, Middle, End}
  /\ Recent \in Nat /\ {MaxNow, MaxRequests, MaxFaults} \subseteq Nat

VARIABLES
  now,       \* the clock, in the whole seconds updated_at keeps
  progress,  \* the table progress: for each title, its entries by key
  list,      \* the table list: when each title in it was added
  rated,     \* the table ratings: the keys with a score, by title
  proc,      \* the handlers under way
  asked,     \* how many requests there were
  faults,    \* how many calls failed, or stops there were
  takenOut,  \* titles taken out of the list by hand (not in the code)
  missed     \* titles whose adding to the list failed or was cut off (not in the code)

vars == <<now, progress, list, rated, proc, asked, faults, takenOut, missed>>

Entry == [pos : {Start, Opening, Middle}, watched : BOOLEAN, at : 0..MaxNow, hidden : BOOLEAN]
Marks == {"none", "watched", "unwatched"}
Steps == {"look", "write", "seen", "mark", "list", "score"}
Idle == [todo |-> <<>>, t |-> NoKey, k |-> NoKey, pos |-> Start, mark |-> "none",
         had |-> FALSE, marked |-> {}, at |-> 0]

TypeOK ==
  /\ now \in 0..MaxNow /\ asked \in 0..MaxRequests /\ faults \in 0..MaxFaults
  /\ \A t \in Titles :
       /\ DOMAIN progress[t] \subseteq KeysOf(t)
       /\ \A k \in DOMAIN progress[t] : progress[t][k] \in Entry /\ progress[t][k].at <= now
       /\ rated[t] \subseteq KeysOf(t) \cup {TheTitle}
  /\ DOMAIN list \subseteq Known /\ \A t \in DOMAIN list : list[t] \in 0..now
  /\ \A p \in Procs : \A i \in DOMAIN proc[p].todo : proc[p].todo[i] \in Steps

Init ==
  /\ now = 0 /\ asked = 0 /\ faults = 0
  /\ progress = [t \in Titles |-> Nothing]
  /\ list = Nothing
  /\ rated = [t \in Titles |-> {}]
  /\ proc = [p \in Procs |-> Idle]
  /\ takenOut = {} /\ missed = {}

-----------------------------------------------------------------------------
(* What plays next: progress.go, over the entries of one title. *)

Entries(t) == DOMAIN progress[t]
Finished(t, k) == progress[t][k].watched /\ progress[t][k].pos = Start
Aired(t, k) == Released[<<t, k>>] = Undated \/ Released[<<t, k>>] <= now

\* Watching order: season 0, the specials, goes last.
Before(a, b) ==
  IF a[1] # b[1]
  THEN IF a[1] = 0 \/ b[1] = 0 THEN b[1] = 0 ELSE a[1] < b[1]
  ELSE a[2] < b[2]

Earliest(keys) == CHOOSE k \in keys : \A o \in keys \ {k} : Before(k, o)

\* The episode after k, aired or not; a special never follows a story.
FollowingEpisode(t, k) ==
  LET after == {e \in KeysOf(t) : Before(k, e)} IN
  IF t \notin Series \/ k \notin KeysOf(t) \/ after = {} THEN NoKey
  ELSE IF Earliest(after)[1] = 0 /\ k[1] # 0 THEN NoKey ELSE Earliest(after)

NextEpisode(t, k) ==
  LET f == FollowingEpisode(t, k) IN IF f # NoKey /\ Aired(t, f) THEN f ELSE NoKey

\* The entry updated last; of several marked in one moment, the furthest on.
LatestEntry(t, keys) ==
  CHOOSE k \in keys : \A o \in keys \ {k} :
    \/ progress[t][o].at < progress[t][k].at
    \/ progress[t][o].at = progress[t][k].at /\ Before(o, k)

\* A special watched to the end is an aside: the story goes on from the story.
GoesOnFrom(t) ==
  LET latest == LatestEntry(t, Entries(t))
      story == {k \in Entries(t) : k[1] > 0}
  IN  IF Entries(t) = {} THEN NoKey
      ELSE IF latest[1] # 0 \/ ~Finished(t, latest) \/ story = {} THEN latest
      ELSE LatestEntry(t, story)

Upcoming(t) ==
  LET from == GoesOnFrom(t)
      f == FollowingEpisode(t, from)
  IN  IF from # NoKey /\ Finished(t, from) /\ f # NoKey /\ ~Aired(t, f) THEN f ELSE NoKey

\* The key of the entry next answers with: the one under way, else the one
\* that follows, with its own entry or a new one.
NextOf(t) ==
  LET from == GoesOnFrom(t) IN
  IF from = NoKey THEN NoKey
  ELSE IF ~Finished(t, from) THEN from ELSE NextEpisode(t, from)

\* Titles whose every entry is hidden are not on Continue watching.
Hidden(t) == Entries(t) # {} /\ \A k \in Entries(t) : progress[t][k].hidden

Continue == {t \in Known : ~Hidden(t) /\ NextOf(t) # NoKey}

\* History: what the catalogue knows and was watched, or stopped part way.
Viewings == {v \in UNION {{t} \X Entries(t) : t \in Known} :
               progress[v[1]][v[2]].watched \/ progress[v[1]][v[2]].pos > Start}

-----------------------------------------------------------------------------
(* My list and its shelves: watchlist.go, over what is followed. *)

Followed == {t \in Known : t \in DOMAIN list \/ Entries(t) # {}}

\* Mutant: the season is not looked at.
AfterNumber(a, b) == a[2] > b[2]

After(a, b) == IF a[1] # b[1] THEN a[1] > b[1] ELSE a[2] > b[2]

Watched(t) == {k \in Entries(t) : progress[t][k].watched}

Furthest(t) ==
  LET story == {k \in Watched(t) : k[1] > 0} IN
  IF story = {} THEN TheTitle ELSE CHOOSE k \in story : \A o \in story \ {k} : After(k, o)

\* The episode New episodes shows a series by: the first out after the
\* furthest watched, when it came out lately.
NewEpisode(t) ==
  LET out == {k \in KeysOf(t) : /\ k[1] # 0 /\ Released[<<t, k>>] # Undated /\ Aired(t, k)
                                /\ After(k, Furthest(t))}
      first == CHOOSE k \in out : \A o \in out \ {k} : After(o, k)
  IN  IF t \notin Series \/ out = {} \/ now - Released[<<t, first>>] > Recent THEN NoKey ELSE first

\* The episode, or film, Coming up shows a title by: the soonest not out yet.
ComingUp(t) ==
  LET due == {k \in KeysOf(t) : (t \in Series => k[1] # 0) /\ ~Aired(t, k)}
      later(a, b) == IF Released[<<t, a>>] # Released[<<t, b>>]
                     THEN Released[<<t, a>>] > Released[<<t, b>>] ELSE After(a, b)
  IN  IF due = {} THEN NoKey ELSE CHOOSE k \in due : \A o \in due \ {k} : later(o, k)

\* The episodes out, specials aside; an undated one counts as out.
SeenOf(t) == {k \in KeysOf(t) : t \in Series => k[1] # 0 /\ Aired(t, k)}

\* progressByTitle's played, what "To watch" leaves out: not an entry marked
\* unwatched.
Played(t) == \E k \in Entries(t) : progress[t][k].watched \/ progress[t][k].pos # Start

\* List: what a tile of My list says of a title.
Listed(t) == [watched |-> Cardinality(SeenOf(t) \cap Watched(t)), released |-> Cardinality(SeenOf(t)),
              played |-> Played(t), rated |-> TheTitle \in rated[t]]

SeenAll(t) == SeenOf(t) # {} /\ SeenOf(t) \subseteq Watched(t)

-----------------------------------------------------------------------------
(* The writes of the store. *)

With(f, k, v) == [x \in DOMAIN f \cup {k} |-> IF x = k THEN v ELSE f[x]]

\* Mutant: a report of the middle takes the watched mark away.
UpsertedUnlatched(t, k, e, mark) == progress' = [progress EXCEPT ![t] = With(@, k, e)]

\* UpsertProgress: a mark is taken as it is, a play only ever adds one.
Upserted(t, k, e, mark) ==
  progress' = [progress EXCEPT ![t] = With(@, k,
    [e EXCEPT !.watched = IF mark = "none" /\ k \in DOMAIN progress[t]
                          THEN progress[t][k].watched \/ @ ELSE @])]

DeleteProgress(t, keys) ==
  progress' = [progress EXCEPT ![t] = [k \in DOMAIN @ \ keys |-> @[k]]]

\* AddToList keeps the date of a title already there.
AddToList(t) == list' = IF t \in DOMAIN list THEN list ELSE With(list, t, now)

\* A title unknown to the catalogue is refused.
Add(t) == IF t \in Known THEN AddToList(t) /\ missed' = missed \ {t} ELSE UNCHANGED <<list, missed>>

\* Only a title the catalogue knows has a score.
SetRating(t, k) == t \in Known /\ rated' = [rated EXCEPT ![t] = @ \cup {k}]

-----------------------------------------------------------------------------
(* The handlers.  proc[p].todo is what is left of one to do. *)

Ask(p, request) ==
  /\ proc[p].todo = <<>> /\ asked + faults < MaxRequests
  /\ asked' = asked + 1
  /\ proc' = [proc EXCEPT ![p] = request]

Doing(p, step) == proc[p].todo # <<>> /\ Head(proc[p].todo) = step
GoesOn(p, todo) ==
  proc' = [proc EXCEPT ![p] = IF todo = <<>> THEN Idle ELSE [@ EXCEPT !.todo = todo]]

\* Mutant: whether the title has entries is asked once the report is written.
HandlePutProgressLate(p, t, k, pos, mark) ==
  /\ Ask(p, [Idle EXCEPT !.todo = IF mark = "none" /\ pos \in {Start, Opening}
                                  THEN <<"look", "write", "list">> ELSE <<"write", "list">>,
                         !.t = t, !.k = k, !.pos = pos, !.mark = mark, !.had = TRUE])
  /\ UNCHANGED <<now, progress, list, rated, faults, takenOut, missed>>

\* handlePutProgress reads what the title had before Put; Put looks at the
\* stored entry only for a report of the opening.
HandlePutProgress(p, t, k, pos, mark) ==
  /\ Ask(p, [Idle EXCEPT !.todo = IF mark = "none" /\ pos \in {Start, Opening}
                                  THEN <<"look", "write", "list">> ELSE <<"write", "list">>,
                         !.t = t, !.k = k, !.pos = pos, !.mark = mark, !.had = Entries(t) # {}])
  /\ UNCHANGED <<now, progress, list, rated, faults, takenOut, missed>>

\* watchedAt: an entry watched, and not being watched again, is kept.
WatchedAt(p) ==
  LET r == proc[p] IN
  /\ Doing(p, "look")
  /\ GoesOn(p, IF r.k \in Entries(r.t) /\ Finished(r.t, r.k) THEN Tail(Tail(r.todo)) ELSE Tail(r.todo))
  /\ UNCHANGED <<now, progress, list, rated, asked, faults, takenOut, missed>>

\* The rest of Put, from finished on.
PutWrites(p) ==
  LET r == proc[p]
      finished == IF r.mark = "none" THEN r.pos = End ELSE r.mark = "watched"
  IN
  /\ Doing(p, "write")
  /\ Upserted(r.t, r.k, [pos |-> IF finished \/ r.mark # "none" THEN Start ELSE r.pos,
                         watched |-> finished, at |-> now, hidden |-> FALSE], r.mark)
  /\ GoesOn(p, Tail(r.todo))
  /\ UNCHANGED <<now, list, rated, asked, faults, takenOut, missed>>

\* listWhatIsWatched: the first time only.
ListWhatIsWatched(p) ==
  /\ Doing(p, "list")
  /\ IF proc[p].had THEN UNCHANGED <<list, missed>> ELSE Add(proc[p].t)
  /\ GoesOn(p, Tail(proc[p].todo))
  /\ UNCHANGED <<now, progress, rated, asked, faults, takenOut>>

\* handleWatchedThrough, up to the episode named, or NoKey for all.
HandleWatchedThrough(p, t, through) ==
  /\ t \in Series /\ (through # NoKey => through[1] > 0)
  /\ Ask(p, [Idle EXCEPT !.todo = <<"seen", "mark", "list">>, !.t = t, !.k = through,
                         !.had = Entries(t) # {}])
  /\ UNCHANGED <<now, progress, list, rated, faults, takenOut, missed>>

\* Mutant: the last is not marked again.
MarkedOnce(t, through) ==
  {k \in KeysOf(t) : /\ k[1] # 0 /\ Aired(t, k) /\ (through # NoKey => ~Before(through, k))
                     /\ ~(k \in Entries(t) /\ Finished(t, k))}

\* The story aired up to through that is not watched, and its last whatever
\* that is.
Marked(t, through) ==
  LET upTo == {k \in KeysOf(t) : k[1] # 0 /\ Aired(t, k) /\ (through # NoKey => ~Before(through, k))}
  IN  {k \in upTo : (k \in Entries(t) => ~Finished(t, k)) \/ \A o \in upTo \ {k} : Before(o, k)}

\* WatchedThrough reads the entries and the clock; an episode that has not
\* aired is refused, and there may be none to mark.
WatchedThrough(p) ==
  LET r == proc[p]
      marked == Marked(r.t, r.k)
  IN
  /\ Doing(p, "seen")
  /\ proc' = [proc EXCEPT ![p] =
       IF r.k # NoKey /\ ~Aired(r.t, r.k) THEN Idle
       ELSE IF marked = {} THEN [r EXCEPT !.todo = <<"list">>]
       ELSE [r EXCEPT !.todo = Tail(@), !.marked = marked, !.at = now]]
  /\ UNCHANGED <<now, progress, list, rated, asked, faults, takenOut, missed>>

\* One transaction, at the time read before it.
MarkWatched(p) ==
  LET r == proc[p] IN
  /\ Doing(p, "mark")
  /\ progress' = [progress EXCEPT ![r.t] =
       [k \in DOMAIN @ \cup r.marked |->
          IF k \in r.marked THEN [pos |-> Start, watched |-> TRUE, at |-> r.at, hidden |-> FALSE]
          ELSE @[k]]]
  /\ GoesOn(p, Tail(r.todo))
  /\ UNCHANGED <<now, list, rated, asked, faults, takenOut, missed>>

HandleRate(p, t, k) ==
  /\ Ask(p, [Idle EXCEPT !.todo = <<"score">>, !.t = t, !.k = k])
  /\ SetRating(t, k)
  /\ UNCHANGED <<now, progress, list, faults, takenOut, missed>>

\* markScored: a title never played joins the list, and what was scored is
\* marked watched, a series as a whole aside.
MarkScored(p) ==
  LET r == proc[p]
      mark == r.k \notin Entries(r.t) /\ (r.k = TheTitle => r.t \in Films)
      joins == Entries(r.t) = {}
  IN
  /\ Doing(p, "score")
  /\ proc' = [proc EXCEPT ![p] =
       IF mark THEN [r EXCEPT !.todo = IF joins THEN <<"list", "write">> ELSE <<"write">>,
                              !.mark = "watched"]
       ELSE IF joins THEN [r EXCEPT !.todo = <<"list">>] ELSE Idle]
  /\ UNCHANGED <<now, progress, list, rated, asked, faults, takenOut, missed>>

\* The handlers that make one call of the store.
HandleUnrate(p, t, k) ==
  /\ Ask(p, Idle) /\ k \in rated[t]
  /\ rated' = [rated EXCEPT ![t] = @ \ {k}]
  /\ UNCHANGED <<now, progress, list, faults, takenOut, missed>>

\* One episode, or every entry of the title for NoKey.
HandleDeleteProgress(p, t, k) ==
  /\ Ask(p, Idle) /\ Entries(t) # {}
  /\ DeleteProgress(t, IF k = NoKey THEN Entries(t) ELSE {k})
  /\ UNCHANGED <<now, list, rated, faults, takenOut, missed>>

HandleHideFromContinue(p, t) ==
  /\ Ask(p, Idle) /\ Entries(t) # {}
  /\ progress' = [progress EXCEPT ![t] = [k \in DOMAIN @ |-> [@[k] EXCEPT !.hidden = TRUE]]]
  /\ UNCHANGED <<now, list, rated, faults, takenOut, missed>>

HandleAddToList(p, t) ==
  /\ Ask(p, Idle)
  /\ Add(t)
  /\ takenOut' = takenOut \ {t}
  /\ UNCHANGED <<now, progress, rated, faults>>

HandleRemoveFromList(p, t) ==
  /\ Ask(p, Idle) /\ t \in DOMAIN list
  /\ list' = [o \in DOMAIN list \ {t} |-> list[o]]
  /\ takenOut' = takenOut \cup {t}
  /\ UNCHANGED <<now, progress, rated, faults, missed>>

\* A call fails, its client gone or the store in trouble.  Adding to the list
\* is only logged, and the handler goes on; anything else ends it.
Fails(p) ==
  LET r == proc[p]
      adds == Doing(p, "list") /\ ~r.had
  IN
  /\ r.todo # <<>> /\ asked + faults < MaxRequests /\ faults < MaxFaults
  /\ faults' = faults + 1
  /\ GoesOn(p, IF adds THEN Tail(r.todo) ELSE <<>>)
  /\ missed' = IF adds /\ r.t \in Known \ DOMAIN list THEN missed \cup {r.t} ELSE missed
  /\ UNCHANGED <<now, progress, list, rated, asked, takenOut>>

\* The core is stopped or killed, the handlers where they are.
Stop ==
  LET adding == {proc[p].t : p \in {q \in Procs : Doing(q, "list") /\ ~proc[q].had}} IN
  /\ asked + faults < MaxRequests /\ faults < MaxFaults /\ \E p \in Procs : proc[p].todo # <<>>
  /\ faults' = faults + 1
  /\ proc' = [p \in Procs |-> Idle]
  /\ missed' = missed \cup (adding \cap (Known \ DOMAIN list))
  /\ UNCHANGED <<now, progress, list, rated, asked, takenOut>>

Tick ==
  /\ now < MaxNow
  /\ now' = now + 1
  /\ UNCHANGED <<progress, list, rated, proc, asked, faults, takenOut, missed>>

-----------------------------------------------------------------------------
Request(p, t) ==
  \/ \E k \in KeysOf(t) :
       \/ \E pos \in Reports : HandlePutProgress(p, t, k, pos, "none")
       \/ \E mark \in {"watched", "unwatched"} : HandlePutProgress(p, t, k, Start, mark)
       \/ HandleDeleteProgress(p, t, k)
  \/ \E k \in KeysOf(t) \cup {NoKey} : HandleWatchedThrough(p, t, k)
  \/ \E k \in KeysOf(t) \cup {TheTitle} : HandleRate(p, t, k) \/ HandleUnrate(p, t, k)
  \/ HandleDeleteProgress(p, t, NoKey)
  \/ HandleHideFromContinue(p, t)
  \/ HandleAddToList(p, t)
  \/ HandleRemoveFromList(p, t)

Step(p) ==
  \/ WatchedAt(p) \/ PutWrites(p) \/ ListWhatIsWatched(p)
  \/ WatchedThrough(p) \/ MarkWatched(p) \/ MarkScored(p)

Next == Tick \/ Stop \/ \E p \in Procs : Step(p) \/ Fails(p) \/ \E t \in Titles : Request(p, t)

Spec == Init /\ [][Next]_vars

-----------------------------------------------------------------------------
\* Handler p takes the step, which does not fail.
Took(p, step) == Doing(p, step) /\ proc'[p] # proc[p] /\ UNCHANGED faults

\* "so the series goes on from there": unless another entry was written since
\* the request read the clock, what plays next once a series is marked watched
\* through an episode is the one after it, whatever was watched before, and
\* the episode the title's page opens on is the one after it when that is not
\* out (WatchedThrough, latestEntry, goesOnFrom).
GoesOnFromMarked ==
  [][\A p \in Procs, t \in Series :
       LET r == proc[p]
           last == IF r.k # NoKey THEN r.k
                   ELSE CHOOSE k \in r.marked : \A o \in r.marked \ {k} : Before(o, k)
       IN  /\ r.t = t /\ Took(p, "mark")
           /\ \A k \in Entries(t) \ r.marked : progress[t][k].at < r.at
           => /\ NextOf(t)' = NextEpisode(t, last)
              /\ Upcoming(t)' = IF NextEpisode(t, last) = NoKey THEN FollowingEpisode(t, last) ELSE NoKey]_vars

\* Episode from of t is out, and the days of the story follow its order.
InOrder(t, from) ==
  LET dated == {k \in KeysOf(t) : k[1] # 0 /\ Released[<<t, k>>] # Undated} IN
  /\ from \in dated /\ Aired(t, from)
  /\ \A a, b \in dated : After(b, a) => Released[<<t, a>>] <= Released[<<t, b>>]

\* The shelves of My list, Continue watching and the history are computations
\* of their own over the same entries, with two orders of episodes.  They
\* agree: a title My list has as played has a viewing in the history, and more
\* of it out than watched if it is on New episodes; one whose furthest episode
\* is the last watched goes on with the episode on that shelf, if none undated
\* lies between, and Continue watching has it too unless it is hidden; what a
\* series watched to the last episode out waits for is not on Continue
\* watching, and Coming up has that episode, or one that is out no later when
\* the episodes do not come out in their order (NewEpisodes, ComingUp, List;
\* Continue, next, upcoming; History).
ShelvesAgree ==
  \A t \in Followed :
    LET from == GoesOnFrom(t)
        shelf == NewEpisode(t)
        waits == Upcoming(t)
        between == {k \in KeysOf(t) : k[1] # 0 /\ After(k, Furthest(t)) /\ After(shelf, k)}
    IN
    /\ Listed(t).played <=> \E k \in Entries(t) : <<t, k>> \in Viewings
    /\ shelf # NoKey => ~SeenAll(t) /\ Listed(t).watched < Listed(t).released
    /\ shelf # NoKey /\ from = Furthest(t) /\ Finished(t, from) /\ between = {}
       => NextOf(t) = shelf /\ (t \in Continue \/ Hidden(t))
    /\ waits # NoKey /\ waits[1] # 0
       => /\ t \notin Continue
          /\ ComingUp(t) # NoKey /\ Released[<<t, ComingUp(t)>>] <= Released[<<t, waits>>]
          /\ InOrder(t, from) => ComingUp(t) = waits

\* "puts a title someone starts watching in their list": with no request on it
\* under way, a title with an entry is on the list unless it was taken out by
\* hand, or the one call that was to add it failed or was cut off, whichever
\* handlers of two clients met on its first entry (listWhatIsWatched,
\* markScored).
StartedIsListed ==
  \A t \in Known :
    /\ Entries(t) # {} /\ \A p \in Procs : proc[p].t # t
    => t \in DOMAIN list \cup takenOut \cup missed

\* The same with nothing said of failures.  The entry is written before the
\* title is added, and "only the first time": where adding it fails, which is
\* logged, or the core stops in between, no later report adds it: not an
\* invariant.
EveryStartIsListed ==
  \A t \in Known :
    /\ Entries(t) # {} /\ \A p \in Procs : proc[p].t # t
    => t \in DOMAIN list \cup takenOut

\* "watched" is a latch: a report of a position, however far back and however
\* late it is written, never takes the mark away (Put, UpsertProgress).
PlaysNeverUnwatch ==
  [][\A p \in Procs : Took(p, "write") /\ proc[p].mark = "none" =>
       \A k \in Entries(proc[p].t) : progress[proc[p].t][k].watched => progress'[proc[p].t][k].watched]_vars

\* "Opened by mistake and closed, it stays watched, and stays out of Continue
\* watching": a report of the opening leaves a finished entry as it is.  Put
\* reads the entry and writes it in two calls, so the report of another client
\* that finishes the episode in between is undone: not an invariant.
OpeningKeepsFinished ==
  [][\A p \in Procs, t \in Titles :
       Took(p, "write") /\ proc[p].t = t /\ proc[p].mark = "none" /\ proc[p].pos \in {Start, Opening} =>
         \A k \in Entries(t) : Finished(t, k) => Finished(t, k)']_vars

\* "a title taken out of the list stays out while it is being finished": two
\* first reports both find no entry, and the second lists again a title taken
\* out between them: not an invariant.
TakenOutStaysOut ==
  [][\A p \in Procs : Took(p, "list") => DOMAIN list' \cap takenOut = {}]_vars
=============================================================================
