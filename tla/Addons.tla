------------------------------- MODULE Addons -------------------------------
(***************************************************************************)
(* The list of installed addons, core/internal/addons, over its table in   *)
(* core/internal/store: installing, reconfiguring, reordering and removing *)
(* them while their manifests are being fetched, over restarts.            *)
(*                                                                         *)
(* A critical section of Service.mu is one step, the write of the store it *)
(* makes included; the write may fail, and then changes nothing.  A        *)
(* manifest is the URL it was fetched from: what IdOf and NameOf say of it *)
(* is what the addon there answers.                                        *)
(***************************************************************************)
EXTENDS Integers, Sequences, FiniteSets, FiniteSetsExt

CONSTANTS
  Urls,      \* addresses of addons
  IdOf,      \* the manifest's id at each
  NameOf,    \* its name, as the slug uniqueID makes of it
  Seeds,     \* the addresses a new database starts with, in order
  MaxOps, MaxFaults,   \* bounds: requests, and what fails or stops
  NoManifest

ASSUME AddonsAssumption ==
  /\ Seeds \in Seq(Urls) /\ NoManifest \notin Urls
  /\ MaxOps \in Nat /\ MaxFaults \in Nat

VARIABLES
  table,     \* the table addons, by id
  created,   \* DB.createdAddons: the table has just been made
  running,   \* the core runs
  entries,   \* Service.entries
  fetches,   \* manifest requests out, of Refresh and of retryMissing
  retried,   \* retriedAt lies less than a minute back
  probes,    \* addresses Add has asked and that answered
  down,      \* addresses nothing answers at
  made,      \* entries and clients made so far
  ops, faults

vars == <<table, created, running, entries, fetches, retried, probes, down, made, ops, faults>>

Ids == {NameOf[u] : u \in Urls} \X (1..(Len(Seeds) + MaxOps))
Record == [url : Urls, enabled : BOOLEAN, position : Nat, manifest : Urls \cup {NoManifest}]

\* An entry is the record, and which entry and which client it is.
RecordOf(e) == [url |-> e.url, enabled |-> e.enabled, position |-> e.position, manifest |-> e.manifest]
EntryOf(id, r, key) ==
  [id |-> id, url |-> r.url, enabled |-> r.enabled, position |-> r.position,
   manifest |-> r.manifest, key |-> key, client |-> key]

TypeOK ==
  /\ DOMAIN table \subseteq Ids /\ \A id \in DOMAIN table : table[id] \in Record
  /\ \A i \in DOMAIN entries : entries[i].id \in Ids /\ RecordOf(entries[i]) \in Record
  /\ \A f \in fetches : f.by \in {"run", "retry"} /\ f.url \in Urls
  /\ probes \subseteq Urls /\ down \subseteq Urls /\ {created, running, retried} \subseteq BOOLEAN

Init ==
  /\ table = [id \in {} |-> id] /\ created = TRUE /\ running = FALSE
  /\ entries = <<>> /\ fetches = {} /\ retried = FALSE /\ probes = {}
  /\ down \in SUBSET Urls /\ made = 0 /\ ops = 0 /\ faults = 0

-----------------------------------------------------------------------------
(* The store. *)

\* PutAddons: several rows, one change.
Put(rows) == [id \in DOMAIN table \cup DOMAIN rows |-> IF id \in DOMAIN rows THEN rows[id] ELSE table[id]]

\* Addons, ORDER BY position: every row once.  created_at and the id, which
\* part two rows of one position, are left out: any order of such rows will do.
IdsInOrder(t) ==
  {s \in [1..Cardinality(DOMAIN t) -> DOMAIN t] :
     /\ \A id \in DOMAIN t : \E i \in DOMAIN s : s[i] = id
     /\ \A i, j \in DOMAIN s : i < j => s[i] # s[j] /\ t[s[i]].position <= t[s[j]].position}

Op == running /\ ops < MaxOps /\ ops' = ops + 1
Fault == faults < MaxFaults /\ faults' = faults + 1

-----------------------------------------------------------------------------
\* Two seeds of one name: -2, -3 after the first.
SeedId(i) ==
  <<NameOf[Seeds[i]], Cardinality({j \in 1..i : NameOf[Seeds[j]] = NameOf[Seeds[i]]})>>

SeedRows ==
  [id \in {SeedId(i) : i \in DOMAIN Seeds} |->
     LET i == CHOOSE j \in DOMAIN Seeds : SeedId(j) = id
     IN  [url |-> Seeds[i], enabled |-> TRUE, position |-> i - 1, manifest |-> NoManifest]]

\* Load: the seed on the run that made the table and on no later one; then
\* what is stored.
Load ==
  /\ ~running /\ running' = TRUE
  /\ table' = IF created THEN Put(SeedRows) ELSE table
  /\ created' = FALSE
  /\ \E ids \in IdsInOrder(table') :
       /\ entries' = [i \in DOMAIN ids |-> EntryOf(ids[i], table'[ids[i]], made + i)]
       /\ made' = made + Len(ids)
  /\ retried' = FALSE
  /\ UNCHANGED <<fetches, probes, down, ops, faults>>

Stop ==
  /\ running /\ Fault
  /\ running' = FALSE /\ entries' = <<>> /\ fetches' = {} /\ probes' = {}
  /\ UNCHANGED <<table, created, retried, down, made, ops>>

-----------------------------------------------------------------------------
(* Manifests, asked for behind the requests. *)

FetchOf(e, by) == [key |-> e.key, client |-> e.client, url |-> e.url, by |-> by]

\* Mutant: those that never answered are left to the requests.
RefreshKnown ==
  /\ running /\ \A f \in fetches : f.by # "run"
  /\ \E i \in DOMAIN entries : entries[i].manifest # NoManifest
  /\ fetches' = fetches \cup {FetchOf(entries[i], "run") : i \in {j \in DOMAIN entries : entries[j].manifest # NoManifest}}
  /\ UNCHANGED <<table, created, running, entries, retried, probes, down, made, ops, faults>>

\* Run asks every addon once an hour, and waits for them all.
Refresh ==
  /\ running /\ \A f \in fetches : f.by # "run"
  /\ entries # <<>>
  /\ fetches' = fetches \cup {FetchOf(entries[i], "run") : i \in DOMAIN entries}
  /\ UNCHANGED <<table, created, running, entries, retried, probes, down, made, ops, faults>>

Missing == {i \in DOMAIN entries : entries[i].enabled /\ entries[i].manifest = NoManifest}

\* A request that needs addons asks those that never answered, once a minute.
RetryMissing ==
  /\ running /\ Missing # {} /\ ~retried
  /\ retried' = TRUE
  /\ fetches' = fetches \cup {FetchOf(entries[i], "retry") : i \in Missing}
  /\ UNCHANGED <<table, created, running, entries, probes, down, made, ops, faults>>

Minute ==
  /\ retried /\ retried' = FALSE
  /\ UNCHANGED <<table, created, running, entries, fetches, probes, down, made, ops, faults>>

\* remember: in the store, and once that has succeeded on the entry.
Remember(i, u) ==
  LET e == [entries[i] EXCEPT !.manifest = u]
  IN  /\ table' = Put([id \in {e.id} |-> RecordOf(e)])
      /\ entries' = [entries EXCEPT ![i] = e]

\* Mutant: the answer is kept for whatever entry it was asked for.
AboutEntry(f) == {i \in DOMAIN entries : entries[i].key = f.key}

\* The entry an answer is about: still installed, and not reconfigured.
About(f) == {i \in DOMAIN entries : entries[i].key = f.key /\ entries[i].client = f.client}

\* The answer, or the error, of one fetch.  An addon that does not answer
\* keeps the manifest it had.
Answer(f) ==
  /\ fetches' = fetches \ {f}
  /\ IF f.url \in down \/ About(f) = {} THEN UNCHANGED <<table, entries, faults>>
     ELSE \/ (\E i \in About(f) : Remember(i, f.url)) /\ UNCHANGED faults
          \/ Fault /\ UNCHANGED <<table, entries>>
  /\ UNCHANGED <<created, running, retried, probes, down, made, ops>>

-----------------------------------------------------------------------------
(* What a client asks for. *)

\* Add asks the address before it takes the lock.
Probe(u) ==
  /\ Op /\ u \notin down \cup probes
  /\ probes' = probes \cup {u}
  /\ UNCHANGED <<table, created, running, entries, fetches, retried, down, made, faults>>

\* The addon installed from that manifest already, if its manifest is known.
Installed(u) ==
  {i \in DOMAIN entries : entries[i].manifest # NoManifest /\ IdOf[entries[i].manifest] = IdOf[u]}

First(is) == CHOOSE i \in is : \A j \in is : i <= j

\* Its /configure page handed back another URL: the entry gets a new client.
Reconfigure(u) ==
  LET i == First(Installed(u))
      e == [entries[i] EXCEPT !.url = u, !.manifest = u, !.client = made + 1]
  IN  /\ Installed(u) # {}
      /\ table' = Put([id \in {e.id} |-> RecordOf(e)])
      /\ entries' = [entries EXCEPT ![i] = e]

UniqueID(name) ==
  LET free == {n \in 1..(Len(entries) + 1) : \A i \in DOMAIN entries : entries[i].id # <<name, n>>}
  IN  <<name, First(free)>>

\* After the last; there may be gaps, left by those removed.
LastPlace ==
  LET taken == {entries[i].position : i \in DOMAIN entries}
  IN  IF taken = {} THEN 0 ELSE Max(taken) + 1

Install(u) ==
  LET r == [url |-> u, enabled |-> TRUE, position |-> LastPlace, manifest |-> u]
      id == UniqueID(NameOf[u])
  IN  /\ Installed(u) = {}
      /\ table' = Put([x \in {id} |-> r])
      /\ entries' = Append(entries, EntryOf(id, r, made + 1))

Add(u) ==
  /\ u \in probes /\ probes' = probes \ {u}
  /\ \/ (Reconfigure(u) \/ Install(u)) /\ made' = made + 1 /\ UNCHANGED faults
     \/ Fault /\ UNCHANGED <<table, entries, made>>
  /\ UNCHANGED <<created, running, fetches, retried, down, ops>>

\* entries with the one at i moved to the place to, counted from 0.
Moved(i, to) ==
  LET rest == [j \in 1..(Len(entries) - 1) |-> entries[IF j < i THEN j ELSE j + 1]]
  IN  [j \in DOMAIN entries |->
         IF j <= to THEN rest[j] ELSE IF j = to + 1 THEN entries[i] ELSE rest[j - 1]]

\* Mutant: only the addon that moved is written.
RowsOne(order, i) ==
  LET here == CHOOSE j \in DOMAIN order : order[j].key = entries[i].key
  IN  [id \in {entries[i].id} |-> RecordOf(order[here])]

\* Every row is written, since moving one renumbers the others.
Rows(order, i) ==
  [id \in {order[j].id : j \in DOMAIN order} |-> RecordOf(order[CHOOSE j \in DOMAIN order : order[j].id = id])]

Update(i, enabled, to) ==
  LET changed == Moved(i, to)
      order == [j \in DOMAIN entries |-> [changed[j] EXCEPT
                  !.position = j - 1, !.enabled = IF changed[j].key = entries[i].key THEN enabled ELSE @]]
  IN  /\ Op
      /\ \/ table' = Put(Rows(order, i)) /\ entries' = order /\ UNCHANGED faults
         \/ Fault /\ UNCHANGED <<table, entries>>
      /\ UNCHANGED <<created, running, fetches, retried, probes, down, made>>

Without(i) == [j \in 1..(Len(entries) - 1) |-> entries[IF j < i THEN j ELSE j + 1]]

Remove(i) ==
  /\ Op
  /\ \/ /\ table' = [id \in DOMAIN table \ {entries[i].id} |-> table[id]]
        /\ entries' = Without(i)
        /\ UNCHANGED faults
     \/ Fault /\ UNCHANGED <<table, entries>>
  /\ UNCHANGED <<created, running, fetches, retried, probes, down, made>>

Change(u) ==
  /\ Fault
  /\ down' = IF u \in down THEN down \ {u} ELSE down \cup {u}
  /\ UNCHANGED <<table, created, running, entries, fetches, retried, probes, made, ops>>

-----------------------------------------------------------------------------
Next ==
  \/ Load \/ Stop \/ Refresh \/ RetryMissing \/ Minute
  \/ \E f \in fetches : Answer(f)
  \/ \E u \in Urls : Probe(u) \/ Add(u) \/ Change(u)
  \/ \E i \in DOMAIN entries : Remove(i)
       \/ \E enabled \in BOOLEAN, to \in 0..(Len(entries) - 1) : Update(i, enabled, to)

Spec == Init /\ [][Next]_vars

\* A core that was stopped is started again, Run goes round, and a request
\* ends, by its timeout at the latest.
FairSpec == Spec /\ WF_vars(Load) /\ WF_vars(Refresh) /\ WF_vars(\E f \in fetches : Answer(f))

-----------------------------------------------------------------------------
\* Update: "a PATCH the database refused is a list that did not change, in the
\* answer and in the next request alike".  Whatever is installed, moved and
\* removed while answers arrive, a core started now would read the very list
\* this one has, in its order, and there is one such order.
InOrder ==
  running =>
    /\ Cardinality(DOMAIN table) = Len(entries)
    /\ \A i \in DOMAIN entries : entries[i].id \in DOMAIN table /\ table[entries[i].id] = RecordOf(entries[i])
    /\ \A i, j \in DOMAIN entries : i < j => entries[i].position < entries[j].position

\* refresh: "the answer is about an addon that is no longer installed".  No
\* addon is taken for what the address it was pointed away from says it is.
ManifestOfUrl == \A id \in DOMAIN table : table[id].manifest \in {NoManifest, table[id].url}

\* retryMissing: a core should not "keep useless addons until it is
\* restarted".  An addon whose address comes to answer is known in the end.
MissingArrives ==
  \A u \in Urls : <>[](u \notin down) => []<>(\A id \in DOMAIN table : table[id].url = u => table[id].manifest = u)

\* Add: pasting a URL of the same manifest id "is meant to change the addon,
\* not to install it twice".  An addon whose own manifest has not come yet is
\* not recognised, and is installed twice.
InstalledOnce ==
  \A i, j \in DOMAIN entries :
    /\ entries[i].manifest # NoManifest /\ entries[j].manifest # NoManifest
    /\ IdOf[entries[i].manifest] = IdOf[entries[j].manifest]
    => i = j
=============================================================================
