------------------------------ MODULE Catalog ------------------------------
(***************************************************************************)
(* The catalogue: providers behind a cache (core/internal/catalog), its    *)
(* tables in core/internal/store and the handlers that ask it.  It sends   *)
(* every provider request through the groups of Flight, whose actions are  *)
(* composed here with what is read before a fetch and written by it.       *)
(*                                                                         *)
(* A title is named by its key in the external ids.  Of its payload only   *)
(* where it came from is kept: a page of a catalogue, which has no         *)
(* episodes, or Meta, which has.  The three groups are one: their keys     *)
(* differ, and Close closes one after the other.                           *)
(***************************************************************************)
EXTENDS Flight, Sequences

CONSTANTS
  Titles,    \* keys of titles
  Pages,     \* keys of pages
  Lists,     \* the titles the provider may list on each page
  Rows,      \* keys of providers, for their rows
  Relays,    \* the provider that is a media server, if there is a link
  TTL,       \* how long a copy is fresh
  Slots,     \* the capacity of Service.background
  Ok, Failed,
  MaxNow, MaxAsks,   \* bounds on the clock and on the requests made
  NoTime

ASSUME CatalogAssumption ==
  /\ Keys = Titles \cup Pages \cup Rows /\ Answers = {Ok, Failed}
  /\ Lists \in [Pages -> SUBSET Titles] /\ Relays \subseteq Rows /\ TTL \in Nat \ {0} /\ Slots \in Nat \ {0}
  /\ MaxNow \in Nat /\ NoTime \notin Nat

VARIABLES
  now,      \* the clock
  items,    \* the table items, by key: detailed, the payload, updated_at
  pages,    \* the tables catalog_pages, of pages with titles, and catalog_rows: when
            \* each was fetched
  asker,    \* who asks for what, and what they read
  work,     \* how far the fetch of each Call has come
  slots,    \* Calls that hold a slot of Service.background
  metaAt,   \* when the details of each title were last fetched (not in the code)
  asks      \* how many requests there were

cache == <<items, pages, metaAt>>
catalogVars == <<now, cache, asker, work, slots, asks>>
allVars == <<vars, catalogVars>>

Item == [detailed : BOOLEAN, payload : {"row", "meta"}, at : Nat \cup {NoTime}]
NoRequest == [at |-> "idle", op |-> "item", key |-> NoKey, kept |-> FALSE, waits |-> FALSE, answer |-> "none",
              then |-> NoKey]   \* the page a search goes on to

CatalogTypeOK ==
  /\ TypeOK /\ now \in 0..MaxNow
  /\ DOMAIN items \subseteq Titles /\ \A t \in DOMAIN items : items[t] \in Item
  /\ DOMAIN pages \subseteq Pages \cup Rows
  /\ \A p \in Callers : asker[p].at \in {"idle", "go", "wait", "find", "rows"} /\ asker[p].answer \in {"none", "kept", "full", "error"}
  /\ \A c \in Calls : work[c] \in {"none", "queued", "out", "listed", "blank"}
  /\ slots \subseteq Calls

\* expireCatalog: what another core version wrote is kept, and is stale.
Expired(t) == [detailed |-> TRUE, payload |-> "meta", at |-> NoTime]

CatalogInit ==
  /\ Init
  /\ now = 0 /\ pages = [k \in {} |-> k] /\ asks = 0
  /\ \E old \in SUBSET Titles :
       items = [t \in old |-> Expired(t)] /\ metaAt = [t \in Titles |-> NoTime]
  /\ asker = [p \in Callers |-> NoRequest]
  /\ work = [c \in Calls |-> "none"] /\ slots = {}

IsFresh(at) == at # NoTime /\ now - at < TTL

-----------------------------------------------------------------------------
(* The store. *)

\* Mutant: seeing a title in a list makes its details look fresh.
UpsertedTouched(t, detailed) ==
  LET had == t \in DOMAIN items /\ items[t].detailed
  IN  [detailed |-> had \/ detailed, payload |-> IF had \/ detailed THEN "meta" ELSE "row", at |-> now]

\* upsertItem: an answer of Meta replaces what was there; one of a catalogue
\* leaves Meta's answer, and the time it came, be.
Upserted(t, detailed) ==
  LET had == t \in DOMAIN items /\ items[t].detailed
  IN  [detailed |-> had \/ detailed,
       payload |-> IF had \/ detailed THEN "meta" ELSE "row",
       at |-> IF had /\ ~detailed THEN items[t].at ELSE now]

UpsertItems(ts, detailed) ==
  /\ items' = [t \in DOMAIN items \cup ts |-> IF t \in ts THEN Upserted(t, detailed) ELSE items[t]]
  /\ metaAt' = [t \in Titles |-> IF t \in ts /\ detailed THEN now ELSE metaAt[t]]

SavePage(k) == pages' = [x \in DOMAIN pages \cup {k} |-> IF x = k THEN now ELSE pages[x]]

\* A page kept without titles is one never fetched, and takes the place of the
\* page kept before.
SaveBlankPage(k) == pages' = [x \in DOMAIN pages \ {k} |-> pages[x]]

\* Rows are kept without a time: they are asked for every time.
SaveProviderRows(k) == pages' = [x \in DOMAIN pages \cup {k} |-> IF x = k THEN NoTime ELSE pages[x]]
ProviderRows(k) == k \in DOMAIN pages

-----------------------------------------------------------------------------
(* A request reads the cache, and asks a provider if what it read calls for it. *)

Asks(p) == asker[p].at = "idle" /\ caller[p].call = NoCall /\ asks < MaxAsks /\ asks' = asks + 1

Request(op, k, kept, waits) == [NoRequest EXCEPT !.at = "go", !.op = op, !.key = k, !.kept = kept, !.waits = waits]
Served == [NoRequest EXCEPT !.kept = TRUE, !.answer = "kept"]
Reads(p, r) == asker' = [asker EXCEPT ![p] = r] /\ UNCHANGED <<vars, now, cache, work, slots>>

\* Service.Item: details fetched before are served, fresh or not.
AskItem(p, t) ==
  /\ Asks(p) /\ t \in DOMAIN items
  /\ Reads(p, IF items[t].detailed /\ IsFresh(items[t].at) THEN Served
              ELSE Request("item", t, TRUE, ~items[t].detailed))

\* Service.Cached never waits, and its fetches take turns.
AskCached(p, t) ==
  /\ Asks(p) /\ t \in DOMAIN items
  /\ Reads(p, IF items[t].detailed /\ IsFresh(items[t].at) THEN Served
              ELSE Request("cached", t, TRUE, FALSE))

\* Service.Browse: a page kept is served as it is, a page never fetched
\* waits, and so does one without titles.
Browse(k) ==
  LET kept == k \in DOMAIN pages
  IN  IF kept /\ IsFresh(pages[k]) THEN Served ELSE Request("page", k, kept, ~kept)

AskPage(p, k) == Asks(p) /\ Reads(p, Browse(k))

\* Service.rowsOf: an addon is asked, and what is kept answers for it when it
\* cannot; what is kept of a relay answers at once.
RowsOf(k) == Request("rows", k, ProviderRows(k), ~(ProviderRows(k) /\ k \in Relays))

\* Service.Rows, of one provider.
AskRows(p, k) == Asks(p) /\ Reads(p, RowsOf(k))

\* Service.Search: the rows, and then the page of the query in one of them.
AskSearch(p, k, page) == Asks(p) /\ Reads(p, [RowsOf(k) EXCEPT !.then = page])

SearchBrowses(p) ==
  /\ asker[p].at = "rows"
  /\ Reads(p, Browse(asker[p].then))
  /\ UNCHANGED asks

\* Find of a title never seen asks Meta itself, outside the groups.
AskFind(p, t) == Asks(p) /\ t \notin DOMAIN items /\ Reads(p, [Request("find", t, FALSE, TRUE) EXCEPT !.at = "find"])

Found(p) ==
  /\ asker[p].at = "find"
  /\ \/ /\ UpsertItems({asker[p].key}, TRUE)
        /\ asker' = [asker EXCEPT ![p] = [NoRequest EXCEPT !.answer = "full"]]
     \/ asker' = [asker EXCEPT ![p] = [NoRequest EXCEPT !.answer = "error"]] /\ UNCHANGED <<items, metaAt>>
  /\ UNCHANGED <<vars, now, pages, work, slots, asks>>

NextCall == LET left == {c \in Calls : call[c] = Unmade} IN IF left = {} THEN {} ELSE {CHOOSE c \in left : TRUE}

\* Group.Go with the fetch of the request; Cached's waits for a slot first.
Go(p) ==
  LET k == asker[p].key IN
  /\ asker[p].at = "go"
  /\ asker' = [asker EXCEPT ![p].at = "wait"]
  /\ \/ Join(p, k) /\ UNCHANGED work
     \/ \E c \in NextCall :
          /\ Fetch(p, k, c)
          /\ work' = [work EXCEPT ![c] = IF asker[p].op = "cached" THEN "queued" ELSE "out"]
     \/ (\E c \in NextCall : Refuse(p, k, c)) /\ UNCHANGED work
  /\ UNCHANGED <<now, cache, slots, asks>>

\* Mutant: a failed fetch is the answer, whatever is kept.
OutcomeError(p, v) == IF v = Ok THEN "full" ELSE "error"

\* An error costs the freshness of what is kept, not the answer.
Outcome(p, v) == IF v = Ok THEN "full" ELSE IF asker[p].kept THEN "kept" ELSE "error"

\* A search whose provider has rows goes on to its page.
GoesOn(p, kept, answer) ==
  asker' = [asker EXCEPT ![p] = [NoRequest EXCEPT !.kept = kept, !.answer = answer,
    !.at = IF asker[p].then # NoKey /\ answer # "error" THEN "rows" ELSE "idle",
    !.then = IF answer # "error" THEN asker[p].then ELSE NoKey]]

Answered(p) ==
  /\ asker[p].at = "wait" /\ asker[p].waits
  /\ Return(p)
  /\ GoesOn(p, asker[p].kept, Outcome(p, call[caller[p].call].val))
  /\ UNCHANGED <<now, cache, work, slots, asks>>

\* What is kept is served at once, the fetch going on behind it.
ServedAtOnce(p) ==
  /\ asker[p].at = "wait" /\ ~asker[p].waits
  /\ Leave(p)
  /\ GoesOn(p, TRUE, "kept")
  /\ UNCHANGED <<now, cache, work, slots, asks>>

\* A client that waits goes away.
GoesAway(p) ==
  /\ asker[p].at = "wait" /\ asker[p].waits
  /\ Leave(p)
  /\ asker' = [asker EXCEPT ![p] = NoRequest]
  /\ UNCHANGED <<now, cache, work, slots, asks>>

-----------------------------------------------------------------------------
(* The fetches, on the group's context. *)

Ends(c, v) ==
  /\ Answer(c, v)
  /\ work' = [work EXCEPT ![c] = "none"]
  /\ slots' = slots \ {c}

TakeSlot(c) ==
  /\ work[c] = "queued" /\ Cardinality(slots) < Slots
  /\ slots' = slots \cup {c} /\ work' = [work EXCEPT ![c] = "out"]
  /\ UNCHANGED <<vars, now, cache, asker, asks>>

\* The provider cannot be reached or knows no such thing; or the context is
\* cancelled, before a slot is free or later.
FetchFails(c) ==
  /\ work[c] = "out" \/ (work[c] = "queued" /\ cancelled)
  /\ Ends(c, Failed)
  /\ UNCHANGED <<now, cache, asker, asks>>

FetchItem(c) ==
  /\ work[c] = "out" /\ call[c].key \in Titles
  /\ UpsertItems({call[c].key}, TRUE) /\ UNCHANGED pages
  /\ Ends(c, Ok)
  /\ UNCHANGED <<now, asker, asks>>

\* fetchPage: the titles, and then the page.
FetchPage(c) ==
  /\ work[c] = "out" /\ call[c].key \in Pages
  /\ \E ts \in SUBSET Lists[call[c].key] :
       /\ UpsertItems(ts, FALSE) /\ UNCHANGED pages
       /\ work' = [work EXCEPT ![c] = IF ts = {} THEN "blank" ELSE "listed"]
  /\ UNCHANGED <<vars, now, asker, slots, asks>>

\* A page that could not be written is answered all the same.
KeepPage(c) ==
  /\ work[c] \in {"listed", "blank"}
  /\ \/ work[c] = "listed" /\ SavePage(call[c].key)
     \/ work[c] = "blank" /\ SaveBlankPage(call[c].key)
     \/ UNCHANGED pages
  /\ UNCHANGED <<items, metaAt>>
  /\ Ends(c, Ok)
  /\ UNCHANGED <<now, asker, asks>>

\* Rows are kept when they changed; rows not written are answered all the same.
FetchRows(c) ==
  /\ work[c] = "out" /\ call[c].key \in Rows
  /\ SaveProviderRows(call[c].key) \/ UNCHANGED pages
  /\ UNCHANGED <<items, metaAt>>
  /\ Ends(c, Ok)
  /\ UNCHANGED <<now, asker, asks>>

Tick ==
  /\ now < MaxNow /\ now' = now + 1
  /\ UNCHANGED <<vars, cache, asker, work, slots, asks>>

-----------------------------------------------------------------------------
FetchStep(c) == TakeSlot(c) \/ FetchFails(c) \/ FetchItem(c) \/ FetchPage(c) \/ KeepPage(c) \/ FetchRows(c)
CallStep(c) == FetchStep(c) \/ ((Delete(c) \/ Done(c) \/ Finish(c)) /\ UNCHANGED catalogVars)
CloseStep(q) == CloserStep(q) /\ UNCHANGED catalogVars
RequestStep(p) == Go(p) \/ SearchBrowses(p) \/ Answered(p) \/ ServedAtOnce(p) \/ Found(p)

CatalogNext ==
  \/ \E p \in Callers, t \in Titles : AskItem(p, t) \/ AskCached(p, t) \/ AskFind(p, t)
  \/ \E p \in Callers, k \in Pages : AskPage(p, k)
  \/ \E p \in Callers, k \in Rows : AskRows(p, k) \/ \E page \in Pages : AskSearch(p, k, page)
  \/ \E p \in Callers : RequestStep(p) \/ GoesAway(p)
  \/ \E c \in Calls : CallStep(c)
  \/ \E q \in Closers : (Close(q) /\ UNCHANGED catalogVars) \/ CloseStep(q)
  \/ Tick

CatalogSpec == CatalogInit /\ [][CatalogNext]_allVars

\* The goroutines run; a provider's client has a timeout, so every fetch ends.
CatalogFairSpec ==
  /\ CatalogSpec
  /\ \A c \in Calls : WF_allVars(CallStep(c))
  /\ \A p \in Callers : WF_allVars(RequestStep(p))
  /\ \A q \in Closers : WF_allVars(CloseStep(q))

-----------------------------------------------------------------------------
\* ItemState: "seeing the title in a list must not make them look fresh", nor
\* take the episodes away.  Details are Meta's, and as old as Meta's answer,
\* whichever pages with the title on them were fetched before, meanwhile and
\* since.
DetailsAsFetched ==
  \A t \in DOMAIN items : items[t].detailed => items[t].payload = "meta" /\ items[t].at = metaAt[t]

\* "A provider that is down costs freshness, not the page": nobody is answered
\* with an error whose request found something kept, be the fetch one's own or
\* another's, failed, cancelled or refused.
ServedFromCache == \A p \in Callers : asker[p].answer = "error" => ~asker[p].kept

\* Service.Close: "so none writes to the store after it is closed".  Find's
\* write is its caller's, and no group waits for it.
NoWriteAfterClose ==
  [][(\E q \in Closers : closer[q] = "returned") => UNCHANGED cache]_allVars

\* What Close does keep of it: the groups' fetches write nothing once it has
\* returned, not even one asked for since, so that what is written then is the
\* title of a Find under way.
FetchesWriteBeforeClose ==
  [][(\E q \in Closers : closer[q] = "returned") =>
       UNCHANGED pages /\ \A t \in Titles :
         metaAt'[t] # metaAt[t] \/ (t \in DOMAIN items' /\ (t \notin DOMAIN items \/ items'[t] # items[t])) =>
           \E p \in Callers : asker[p].at = "find" /\ asker[p].key = t]_allVars
=============================================================================
