------------------------------ MODULE Personal ------------------------------
(***************************************************************************)
(* A viewer's own data on several cores and the files that carry it from   *)
(* one to another: core/internal/personal and its tables in                *)
(* core/internal/store/personal.go, the choices of core/internal/progress, *)
(* core/internal/searches, and core/internal/preferences, whose lock an    *)
(* import takes and whose subscribers it tells.                            *)
(*                                                                         *)
(* One title, known by its IMDb id on every core, has watch entries,       *)
(* scores, a place on My list and a choice of tracks.  What an entry says  *)
(* is a model value; when it was written is a time.  How an entry comes to *)
(* be is History's; here a write replaces it.                              *)
(***************************************************************************)
EXTENDS Integers, FiniteSets

CONSTANTS
  Cores,
  Rows,       \* the rows that merge by their time: episodes and scores
  Words,         \* what an entry may say
  Picks,         \* the copies and the tracks a viewer may choose
  Values,        \* what a preference may be
  Queries,       \* searches, by their key
  Prefs,         \* the preferences
  PersonalPrefs, \* those that move with the viewer (personalKeys)
  Accepts,       \* the values each core's version takes for a preference
  Left,          \* the values another version may have left in its table
  Keep,          \* searches.Keep
  MaxTime, MaxWrites,   \* bounds on the clock and on the changes made
  Default,       \* what a preference is while it is not set
  None           \* no row, no value, no file

ASSUME PersonalAssumption ==
  /\ None \notin Values \cup Words \cup Picks \cup {Default} /\ PersonalPrefs \subseteq Prefs
  /\ Accepts \in [Cores -> [Prefs -> SUBSET Values]] /\ Left \in [Cores -> SUBSET Values]
  /\ Keep \in Nat \ {0} /\ MaxTime \in Nat /\ MaxWrites \in Nat

VARIABLES
  time,     \* the time, the same on every core
  data,     \* the tables of each core
  applied,  \* what the subscribers of each core were last told
  choosing, \* the choice about to be saved, of each core whose choiceMu is held
  telling,  \* cores whose preferences' mu is held, between store and notify
  untold,   \* cores whose subscribers were not told the last change (not in the code)
  file,     \* the last export of each core
  writes    \* how many changes there were

personalVars == <<time, data, applied, choosing, telling, untold, file, writes>>

NoRow == [val |-> None, at |-> -1]
Empty ==
  [entry |-> [e \in Rows |-> NoRow],
   listed |-> -1,
   \* pack: the copy picked; at: updated_at; pickedAt: when the tracks
   \* themselves were last picked (not in the code).
   choice |-> [pack |-> None, tracks |-> None, at |-> -1, pickedAt |-> -1],
   \* at -1: no row; id: the rowid.
   search |-> [q \in Queries |-> [at |-> -1, id |-> 0]],
   prefs |-> [k \in Prefs |-> None]]

\* The document: the defaults, and over them what is stored and decodes, be it
\* a value this core takes or one another version left.
Get(d) == [k \in Prefs |-> IF d.prefs[k] = None THEN Default ELSE d.prefs[k]]

\* validate: every key has a value this core takes, or a null.
Validate(c, doc) == \A k \in DOMAIN doc : doc[k] \in Accepts[c][k] \cup {None}

SetPreferences(prefs, changes) == [k \in Prefs |-> IF k \in DOMAIN changes THEN changes[k] ELSE prefs[k]]

Row == [val : Words \cup {None}, at : -1..MaxTime]
Choice == [pack : Picks \cup {None}, tracks : Picks \cup {None}, at : -1..MaxTime, pickedAt : -1..MaxTime]
PersonalTypeOK ==
  /\ time \in 0..MaxTime /\ writes \in 0..MaxWrites
  /\ telling \subseteq Cores /\ untold \subseteq Cores
  /\ choosing \in [Cores -> Choice \cup {None}]
  /\ applied \in [Cores -> [Prefs -> Values \cup {Default}]]
  /\ \A c \in Cores :
       /\ data[c].entry \in [Rows -> Row]
       /\ data[c].listed \in -1..time
       /\ data[c].choice.at >= data[c].choice.pickedAt
       /\ data[c].prefs \in [Prefs -> Values \cup {None}]

PersonalInit ==
  /\ time = 0 /\ writes = 0
  /\ \E left \in [Cores -> [PersonalPrefs -> Values \cup {None}]] :
       /\ \A c \in Cores, k \in PersonalPrefs : left[c][k] \in Left[c] \cup {None}
       /\ data = [c \in Cores |-> [Empty EXCEPT !.prefs = SetPreferences(@, left[c])]]
  /\ applied = [c \in Cores |-> Get(data[c])]
  /\ choosing = [c \in Cores |-> None] /\ telling = {} /\ untold = {}
  /\ file = [c \in Cores |-> None]

-----------------------------------------------------------------------------
(* The search history. *)

Kept(s) == {q \in Queries : s[q].at >= 0}
NewestFirst(s, q, r) == s[q].at > s[r].at \/ (s[q].at = s[r].at /\ s[q].id > s[r].id)

\* trimSearches: all but the latest Keep are forgotten.
Trimmed(s) ==
  [q \in Queries |->
     IF Cardinality({r \in Kept(s) : NewestFirst(s, r, q)}) < Keep THEN s[q] ELSE [at |-> -1, id |-> 0]]

\* SQLite gives a new row the largest rowid and one more.
FreshId(s) == 1 + CHOOSE i \in {0} \cup {s[q].id : q \in Kept(s)} : \A r \in Kept(s) : s[r].id <= i

\* An update keeps its row's rowid.
PutSearch(s, q, at) ==
  [s EXCEPT ![q] = [at |-> at, id |-> IF q \in Kept(s) THEN @.id ELSE FreshId(s)]]

\* Mutant: a search is stamped with the clock alone.
StampOfClock(s) == time

\* A search is stamped after every one before it.
Stamp(s) ==
  LET last == CHOOSE a \in {-1} \cup {s[q].at : q \in Kept(s)} : \A r \in Kept(s) : s[r].at <= a
  IN  IF time > last THEN time ELSE last + 1

-----------------------------------------------------------------------------
(* Export and import. *)

ExportEntries(d) == d.entry

\* The tracks, if any were picked, with the time of the choice.
ExportTracks(d) ==
  [val |-> d.choice.tracks, at |-> IF d.choice.tracks = None THEN -1 ELSE d.choice.at,
   pickedAt |-> d.choice.pickedAt]

ExportSearches(d) == d.search

\* The title, with its place on My list, and the searches; the preferences
\* come after.
ExportPersonal(d) ==
  [entry |-> ExportEntries(d), listed |-> d.listed, tracks |-> ExportTracks(d),
   search |-> ExportSearches(d), prefs |-> None]

\* The preferences that are set, of the viewer's own, to a value this core
\* takes.
StoredPersonal(c, d) == [k \in PersonalPrefs |-> IF d.prefs[k] \in Accepts[c][k] THEN d.prefs[k] ELSE None]

\* Mutant: an entry of the file is written over whatever the core has.
FromFile(row, old) == IF row.at >= 0 THEN row ELSE old

\* An entry is written where the core has none or an older one.
Later(row, old) == IF row.at > old.at THEN row ELSE old

\* My list keeps the core's date; the copy picked stays, only tracks move.
ImportTitle(d, doc) ==
  [d EXCEPT !.entry = [e \in Rows |-> Later(doc.entry[e], d.entry[e])],
            !.listed = IF @ < 0 THEN doc.listed ELSE @,
            !.choice = IF doc.tracks.at > @.at
                       THEN [@ EXCEPT !.tracks = doc.tracks.val, !.at = doc.tracks.at,
                                      !.pickedAt = doc.tracks.pickedAt]
                       ELSE @]

\* Mutant: what is imported is recorded as if searched for now.
ImportSearchesNow(s, found) ==
  Trimmed([q \in Queries |->
    IF q \in Kept(found) THEN [at |-> Stamp(s), id |-> FreshId(s)] ELSE s[q]])

\* The file lists its searches newest first, and each is written in turn
\* where the core has none or an older one; then all but the latest are
\* forgotten.
ImportSearches(s, found) ==
  LET wins == {q \in Kept(found) : found[q].at > s[q].at}
      new == wins \ Kept(s)
      place(q) == Cardinality({r \in new : NewestFirst(found, r, q)})
      base == FreshId(s)
  IN  Trimmed([q \in Queries |->
        IF q \in new THEN [at |-> found[q].at, id |-> base + place(q)]
        ELSE IF q \in wins THEN [at |-> found[q].at, id |-> s[q].id] ELSE s[q]])

\* ValidatePersonal, before anything is written: a file with one value this
\* core refuses is refused whole.
ValidatePersonal(c, doc) == Validate(c, doc) /\ DOMAIN doc \subseteq PersonalPrefs

\* Only the keys the file has.
ImportPreferences(prefs, doc) ==
  SetPreferences(prefs, [k \in {x \in PersonalPrefs : doc[x] # None} |-> doc[k]])

\* One transaction.
ImportPersonal(d, doc) ==
  [ImportTitle(d, doc) EXCEPT !.search = ImportSearches(@, doc.search),
                              !.prefs = ImportPreferences(@, doc.prefs)]

-----------------------------------------------------------------------------
Changed(c, d) ==
  /\ writes < MaxWrites
  /\ writes' = writes + 1
  /\ data' = [data EXCEPT ![c] = d]
  /\ UNCHANGED time

\* A play, a mark or a score.
WriteEntry(c, e, v) ==
  /\ Changed(c, [data[c] EXCEPT !.entry[e] = [val |-> v, at |-> time]])
  /\ UNCHANGED <<applied, choosing, telling, untold, file>>

ListTitle(c) ==
  /\ data[c].listed < 0
  /\ Changed(c, [data[c] EXCEPT !.listed = time])
  /\ UNCHANGED <<applied, choosing, telling, untold, file>>

\* changeChoice, under choiceMu, reads the choice and changes what it read.
ChangeChoice(c, choice) ==
  /\ choosing[c] = None /\ writes < MaxWrites
  /\ writes' = writes + 1
  /\ choosing' = [choosing EXCEPT ![c] = choice]
  /\ UNCHANGED <<time, data, applied, telling, untold, file>>

RememberSource(c, v) == ChangeChoice(c, [data[c].choice EXCEPT !.pack = v])

RememberTracks(c, v) == ChangeChoice(c, [data[c].choice EXCEPT !.tracks = v, !.pickedAt = time])

\* Every column is written, with the time; an import takes no choiceMu.
SaveChoice(c) ==
  /\ choosing[c] # None
  /\ data' = [data EXCEPT ![c].choice = [choosing[c] EXCEPT !.at = time]]
  /\ choosing' = [choosing EXCEPT ![c] = None]
  /\ UNCHANGED <<time, applied, telling, untold, file, writes>>

ChoiceNotSaved(c) ==
  /\ choosing[c] # None
  /\ choosing' = [choosing EXCEPT ![c] = None]
  /\ UNCHANGED <<time, data, applied, telling, untold, file, writes>>

RecordSearch(c, q) ==
  /\ Changed(c, [data[c] EXCEPT !.search = Trimmed(PutSearch(@, q, Stamp(@)))])
  /\ UNCHANGED <<applied, choosing, telling, untold, file>>

\* One search, or all of them.
ForgetSearches(c, gone) ==
  /\ gone \cap Kept(data[c].search) # {}
  /\ Changed(c, [data[c] EXCEPT !.search =
                 [q \in Queries |-> IF q \in gone THEN [at |-> -1, id |-> 0] ELSE @[q]]])
  /\ UNCHANGED <<applied, choosing, telling, untold, file>>

\* The changes of preferences take mu, store, and tell the subscribers what is
\* stored before they let it go.
Locked(c) == c \notin telling /\ telling' = telling \cup {c}

\* A value, or None to reset the key; what validate refuses is not stored.
Patch(c, k, v) ==
  /\ Locked(c)
  /\ LET changes == [x \in {k} |-> v] IN
     Validate(c, changes) /\ Changed(c, [data[c] EXCEPT !.prefs = SetPreferences(@, changes)])
  /\ UNCHANGED <<applied, choosing, untold, file>>

Reset(c) ==
  /\ Locked(c)
  /\ Changed(c, [data[c] EXCEPT !.prefs = SetPreferences(@, [k \in Prefs |-> None])])
  /\ UNCHANGED <<applied, choosing, untold, file>>

\* Mutant: the import stores preferences behind the back of the subscribers.
ImportUntold(c, from) ==
  /\ file[from] # None /\ file[from].prefs # None /\ ValidatePersonal(c, file[from].prefs)
  /\ Changed(c, ImportPersonal(data[c], file[from]))
  /\ UNCHANGED <<applied, choosing, telling, untold, file>>

\* Import under the preferences' Write.
Import(c, from) ==
  /\ file[from] # None /\ file[from].prefs # None /\ ValidatePersonal(c, file[from].prefs)
  /\ Locked(c)
  /\ Changed(c, ImportPersonal(data[c], file[from]))
  /\ UNCHANGED <<applied, choosing, untold, file>>

Notify(c) ==
  /\ c \in telling
  /\ applied' = [applied EXCEPT ![c] = Get(data[c])]
  /\ telling' = telling \ {c} /\ untold' = untold \ {c}
  /\ UNCHANGED <<time, data, choosing, file, writes>>

\* The document cannot be read back, the client gone: nobody is told.
NotifyFails(c) ==
  /\ c \in telling
  /\ telling' = telling \ {c} /\ untold' = untold \cup {c}
  /\ UNCHANGED <<time, data, applied, choosing, file, writes>>

\* Export reads the titles and searches in one transaction, then the
\* preferences.
Export(c) ==
  /\ file' = [file EXCEPT ![c] = ExportPersonal(data[c])]
  /\ UNCHANGED <<time, data, applied, choosing, telling, untold, writes>>

ExportPrefs(c) ==
  /\ file[c] # None /\ file[c].prefs = None
  /\ file' = [file EXCEPT ![c].prefs = StoredPersonal(c, data[c])]
  /\ UNCHANGED <<time, data, applied, choosing, telling, untold, writes>>

TimePasses ==
  /\ time < MaxTime
  /\ time' = time + 1
  /\ UNCHANGED <<data, applied, choosing, telling, untold, file, writes>>

-----------------------------------------------------------------------------
Change(c) ==
  \/ \E e \in Rows, v \in Words : WriteEntry(c, e, v)
  \/ ListTitle(c)
  \/ \E v \in Picks : RememberSource(c, v) \/ RememberTracks(c, v)
  \/ \E q \in Queries : RecordSearch(c, q) \/ ForgetSearches(c, {q})
  \/ ForgetSearches(c, Queries)
  \/ \E k \in Prefs, v \in Values \cup {None} : Patch(c, k, v)
  \/ Reset(c)
  \/ \E from \in Cores : Import(c, from)

PersonalNext ==
  \/ TimePasses
  \/ \E c \in Cores :
       \/ Change(c) \/ SaveChoice(c) \/ ChoiceNotSaved(c) \/ Notify(c) \/ NotifyFails(c)
       \/ Export(c) \/ ExportPrefs(c)

PersonalSpec == PersonalInit /\ [][PersonalNext]_personalVars

-----------------------------------------------------------------------------
\* The file a core would write now.
Exported(c, d) == [ExportPersonal(d) EXCEPT !.prefs = StoredPersonal(c, d)]

\* Two rows written in the same second, or two searches in the same
\* millisecond, say nothing of which is later.  Of two searches of the file in
\* one millisecond, the one it lists first is written first and has the lesser
\* rowid, so a core that has no room for both lists them the other way around.
Apart(d, doc) ==
  /\ \A e \in Rows : d.entry[e].at = doc.entry[e].at => d.entry[e] = doc.entry[e]
  /\ \A q \in Kept(d.search), r \in Kept(doc.search) : d.search[q].at = doc.search[r].at => q = r
  /\ \A q, r \in Kept(doc.search) : doc.search[q].at = doc.search[r].at => q = r

\* "importing a file twice changes nothing the second time", with nothing
\* written in between, whatever file it is and whatever the core holds; and a
\* core takes back the file it wrote, though another version left in its table
\* what it would refuse (ImportPersonal, ValidatePersonal, StoredPersonal).
ImportTwiceChangesNothing ==
  \A c, from \in Cores :
    /\ file[from] # None /\ file[from].prefs # None /\ Apart(data[c], file[from])
    => /\ from = c => ValidatePersonal(c, file[from].prefs)
       /\ LET once == ImportPersonal(data[c], file[from]) IN ImportPersonal(once, file[from]) = once

\* "An import merges: of two entries for the same episode or score the later
\* one wins, a title already on My list keeps its date, and nothing is
\* removed": a core that imports another's file, and the other that imports
\* the file of the first, hold the same entries, searches, list and personal
\* preferences, in whichever order, and each keeps its machine's settings;
\* this for versions that take each other's preferences.
CoresConverge ==
  \A c \in Cores : \A o \in Cores \ {c} :
    /\ Apart(data[c], Exported(o, data[o]))
    /\ ValidatePersonal(c, StoredPersonal(o, data[o])) /\ Validate(c, data[c].prefs) /\ Validate(o, data[c].prefs)
    => LET mine == ImportPersonal(data[c], Exported(o, data[o]))
           theirs == ImportPersonal(data[o], Exported(c, mine))
       IN  /\ mine.entry = theirs.entry
          /\ \A e \in Rows : mine.entry[e].at >= data[c].entry[e].at /\ mine.entry[e].at >= data[o].entry[e].at
          /\ (mine.listed < 0) = (theirs.listed < 0)
          /\ \A q \in Queries : mine.search[q].at = theirs.search[q].at
          /\ StoredPersonal(c, mine) = StoredPersonal(o, theirs)
          /\ \A k \in Prefs \ PersonalPrefs : mine.prefs[k] = data[c].prefs[k] /\ theirs.prefs[k] = data[o].prefs[k]

\* "puts query first ... and forgets all but the latest keep": whatever was
\* imported, from a core whose clock was ahead too, the search just recorded
\* is the first the field offers (RecordSearch).
RecordedComesFirst ==
  [][\A c \in Cores, q \in Queries : RecordSearch(c, q) =>
       LET s == data'[c].search IN
       /\ \A r \in Kept(s) \ {q} : NewestFirst(s, q, r)
       /\ Cardinality(Kept(s)) <= Keep]_personalVars

\* "mu orders changes, so subscribers see them in the order they were stored":
\* once no change is being told, what applies the preferences has what is
\* stored, after a patch, a reset and an import alike, unless the telling of
\* the last change failed; the next one told makes up for it (Patch, Reset,
\* Write, notify).
AppliedIsStored == \A c \in Cores : c \notin telling \cup untold => applied[c] = Get(data[c])

\* Subscribe: "has fn called with the whole document after every change, before
\* the change is answered".  Where notify cannot read the document back, the
\* change stays stored and nobody is told: not an invariant.
EveryChangeIsTold == \A c \in Cores : c \notin telling => applied[c] = Get(data[c])

\* "of two entries for the same episode, score or tracks the later one wins":
\* of the tracks of two cores, those picked last are kept.  RememberSource
\* moves updated_at, with no track picked, so that an older pick, or none at
\* all, beats the file's, in different seconds too: not an invariant.
LaterTracksWin ==
  \A c, from \in Cores :
    /\ file[from] # None /\ file[from].prefs # None
    /\ file[from].tracks.at # data[c].choice.at
    => ImportPersonal(data[c], file[from]).choice.pickedAt >= file[from].tracks.pickedAt

\* StoredPersonal: "nor is a stored value this core would refuse, which Get
\* skips too".  Get skips what does not decode, and a value another version
\* left decodes: not an invariant.
GetSkipsRefused == \A c \in Cores, k \in Prefs : Get(data[c])[k] \in Accepts[c][k] \cup {Default}
=============================================================================
