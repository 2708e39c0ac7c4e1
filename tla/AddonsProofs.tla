---------------------------- MODULE AddonsProofs ----------------------------
(***************************************************************************)
(* What the list of addons and its table keep to each other, for any       *)
(* addresses and any seeds, and however many requests and faults.          *)
(***************************************************************************)
EXTENDS Addons, FiniteSetTheorems, WellFoundedInduction, TLAPS

Names == {NameOf[u] : u \in Urls}
Manifests == Urls \cup {NoManifest}
Entry == [id : Names \X Nat, url : Urls, enabled : BOOLEAN, position : Nat,
          manifest : Manifests, key : Nat, client : Nat]

\* A row, or an entry, knows no manifest but that of its own address.
OwnManifest(r) == r.manifest \in {NoManifest, r.url}

\* The rows of a table: a finite number, no two in one place.
Stored(t) ==
  /\ IsFiniteSet(DOMAIN t)
  /\ \A id \in DOMAIN t : id \in Names \X Nat /\ t[id] \in Record /\ OwnManifest(t[id])
  /\ \A a, b \in DOMAIN t : a # b => t[a].position # t[b].position

\* A list in order, with as many clients as entries, all made by now.
Listed(s, now) ==
  /\ s \in Seq(Entry)
  /\ \A i \in DOMAIN s : OwnManifest(s[i]) /\ s[i].client <= now
  /\ \A i, j \in DOMAIN s : i # j => s[i].client # s[j].client /\ s[i].id # s[j].id
  /\ \A i, j \in DOMAIN s : i < j => s[i].position < s[j].position

\* The table and the list say the same.
Agree(t, s) ==
  /\ DOMAIN t = {s[i].id : i \in DOMAIN s}
  /\ \A i \in DOMAIN s : t[s[i].id] = RecordOf(s[i])

\* A client asks one address, that of its entry while it has one.
Asked(fs, s, now) ==
  \A f \in fs :
    /\ f.url \in Urls /\ f.client \in Nat /\ f.client <= now
    /\ \A i \in DOMAIN s : s[i].client = f.client => s[i].url = f.url

IInv ==
  /\ Stored(table) /\ (created => ~running /\ DOMAIN table = {})
  /\ made \in Nat /\ probes \subseteq Urls
  /\ Listed(entries, made)
  /\ Asked(fetches, entries, made)
  /\ running => Agree(table, entries)
  /\ ~running => entries = <<>> /\ fetches = {} /\ probes = {}

-----------------------------------------------------------------------------
(* The first of a set of numbers, and lists.                                *)

LEMMA FirstIsLeast ==
  ASSUME NEW S \in SUBSET Nat, S # {}
  PROVE  First(S) \in S /\ \A j \in S : First(S) <= j
<1> DEFINE R == OpToRel(<, Nat)
<1>1. \E x \in S : \A y \in S : <<y, x>> \notin R
  BY NatLessThanWellFounded, WFMin
<1>a. \A x, y \in Nat : y < x => <<y, x>> \in R
  BY DEF OpToRel
<1> HIDE DEF R
<1>2. PICK x \in S : \A y \in S : <<y, x>> \notin R
  BY <1>1
<1>3. ASSUME NEW y \in S PROVE x <= y
  <2>1. x \in Nat /\ y \in Nat
    OBVIOUS
  <2>2. ~(y < x)
    BY <1>a, <1>2, <2>1
  <2> QED
    BY <2>1, <2>2
<1> QED
  BY <1>3 DEF First

\* A function on 1..n is a list of n.
LEMMA ListIs ==
  ASSUME NEW S, NEW n \in Nat, NEW s \in [1..n -> S]
  PROVE  s \in Seq(S) /\ Len(s) = n /\ DOMAIN s = 1..n
OBVIOUS

LEMMA ListHas ==
  ASSUME NEW S, NEW s \in Seq(S)
  PROVE  Len(s) \in Nat /\ DOMAIN s = 1..Len(s) /\ s \in [1..Len(s) -> S]
OBVIOUS

LEMMA RowIs ==
  ASSUME NEW e \in Entry
  PROVE  /\ RecordOf(e) \in Record /\ RecordOf(e).position = e.position
         /\ RecordOf(e).url = e.url /\ RecordOf(e).manifest = e.manifest
BY DEF Entry, Record, RecordOf, Manifests

-----------------------------------------------------------------------------
(* A table that says what a list in order says is well formed, and has as   *)
(* many rows.                                                               *)

LEMMA TableOfList ==
  ASSUME NEW t, NEW s, NEW now, Listed(s, now), Agree(t, s)
  PROVE  Stored(t) /\ Cardinality(DOMAIN t) = Len(s)
<1> DEFINE n == Len(s)
           f == [i \in 1..n |-> s[i].id]
<1>1. n \in Nat /\ DOMAIN s = 1..n /\ s \in [1..n -> Entry]
  BY ListHas DEF Listed
<1>2. f \in Bijection(1..n, DOMAIN t)
  <2>1. f \in [1..n -> DOMAIN t] /\ \A id \in DOMAIN t : \E i \in 1..n : f[i] = id
    BY <1>1 DEF Agree
  <2>2. \A i, j \in 1..n : f[i] = f[j] => i = j
    BY <1>1 DEF Listed
  <2> QED
    BY <2>1, <2>2 DEF Bijection, Injection, Surjection, IsInjective
<1>3. IsFiniteSet(DOMAIN t) /\ Cardinality(DOMAIN t) = n
  <2>1. ExistsBijection(1..n, DOMAIN t)
    BY <1>2 DEF ExistsBijection
  <2>2. IsFiniteSet(1..n)
    BY <1>1, FS_Interval
  <2> QED
    BY <1>1, <2>1, <2>2, FS_Bijection, FS_CountingElements
<1>4. ASSUME NEW i \in 1..n
      PROVE s[i].id \in Names \X Nat /\ t[s[i].id] \in Record /\ OwnManifest(t[s[i].id])
  <2>1. s[i] \in Entry /\ OwnManifest(s[i]) /\ t[s[i].id] = RecordOf(s[i])
    BY <1>1 DEF Agree, Listed
  <2> QED
    BY <2>1, RowIs DEF Entry, OwnManifest
<1>5. ASSUME NEW i \in 1..n, NEW j \in 1..n, i # j
      PROVE t[s[i].id].position # t[s[j].id].position
  <2>1. s[i].position # s[j].position
    <3>1. s[i].position \in Nat /\ s[j].position \in Nat
      BY <1>1 DEF Entry
    <3> QED
      BY <1>1, <1>5, <3>1 DEF Listed
  <2> QED
    BY <1>1, <2>1, RowIs DEF Agree
<1>6. \A id \in DOMAIN t : \E i \in 1..n : id = s[i].id
  BY <1>1 DEF Agree
<1>7. \A id \in DOMAIN t : id \in Names \X Nat /\ t[id] \in Record /\ OwnManifest(t[id])
  BY <1>4, <1>6
<1>8. \A a, b \in DOMAIN t : a # b => t[a].position # t[b].position
  BY <1>5, <1>6
<1> QED
  BY <1>3, <1>7, <1>8 DEF Stored

-----------------------------------------------------------------------------
(* Loading: the seeds, and the list of what is stored.                      *)

LEMMA SeedsStored == Stored(SeedRows)
<1> DEFINE n == Len(Seeds)
           at(id) == CHOOSE j \in DOMAIN Seeds : SeedId(j) = id
<1>1. n \in Nat /\ DOMAIN Seeds = 1..n /\ Seeds \in [1..n -> Urls]
  BY ListHas, AddonsAssumption
<1>2. DOMAIN SeedRows = {SeedId(i) : i \in 1..n}
  BY <1>1 DEF SeedRows
<1>3. ASSUME NEW i \in 1..n PROVE SeedId(i) \in Names \X Nat
  <2> DEFINE same == {j \in 1..i : NameOf[Seeds[j]] = NameOf[Seeds[i]]}
  <2>1. Cardinality(same) \in Nat
    <3>1. IsFiniteSet(1..i)
      BY FS_Interval
    <3> QED
      BY <3>1, FS_Subset, FS_CardinalityType
  <2>2. SeedId(i) = <<NameOf[Seeds[i]], Cardinality(same)>>
    BY DEF SeedId
  <2> HIDE DEF same
  <2> QED
    BY <1>1, <2>1, <2>2 DEF Names
<1>4. IsFiniteSet(DOMAIN SeedRows)
  <2> DEFINE f == [i \in 1..n |-> SeedId(i)]
  <2>1. f \in Surjection(1..n, DOMAIN SeedRows)
    BY <1>2 DEF Surjection
  <2>2. IsFiniteSet(1..n)
    BY <1>1, FS_Interval
  <2> QED
    BY <2>1, <2>2, FS_Surjection
<1>5. ASSUME NEW id \in DOMAIN SeedRows
      PROVE  /\ at(id) \in 1..n /\ SeedId(at(id)) = id
             /\ SeedRows[id] = [url |-> Seeds[at(id)], enabled |-> TRUE,
                                position |-> at(id) - 1, manifest |-> NoManifest]
  <2>1. at(id) \in 1..n /\ SeedId(at(id)) = id
    BY <1>1, <1>2
  <2> QED
    BY <1>1, <1>2, <2>1 DEF SeedRows
<1> HIDE DEF at, n
<1>6. ASSUME NEW id \in DOMAIN SeedRows
      PROVE  /\ id \in Names \X Nat /\ SeedRows[id] \in Record /\ OwnManifest(SeedRows[id])
             /\ SeedRows[id].position = at(id) - 1
  <2> DEFINE j == at(id)
  <2>1. j \in 1..n /\ id = SeedId(j)
    BY <1>5
  <2>2. SeedRows[id] = [url |-> Seeds[j], enabled |-> TRUE, position |-> j - 1, manifest |-> NoManifest]
    BY <1>5
  <2>3. id \in Names \X Nat
    BY <1>3, <2>1
  <2> HIDE DEF j
  <2>4. Seeds[j] \in Urls /\ j - 1 \in Nat
    BY <1>1, <2>1
  <2>5. SeedRows[id] \in Record /\ OwnManifest(SeedRows[id]) /\ SeedRows[id].position = j - 1
    BY <2>2, <2>4 DEF Record, OwnManifest
  <2> QED
    BY <2>3, <2>5 DEF j
<1>7. \A a, b \in DOMAIN SeedRows : a # b => SeedRows[a].position # SeedRows[b].position
  BY <1>1, <1>5, <1>6
<1> QED
  BY <1>4, <1>6, <1>7 DEF Stored

\* What is read from a table in the order of its places.
LEMMA LoadedList ==
  ASSUME NEW t, Stored(t), NEW now \in Nat, NEW ids \in IdsInOrder(t), NEW s,
         s = [i \in DOMAIN ids |-> EntryOf(ids[i], t[ids[i]], now + i)]
  PROVE  Listed(s, now + Len(ids)) /\ Agree(t, s) /\ Len(ids) \in Nat
<1> DEFINE n == Cardinality(DOMAIN t)
<1>1. n \in Nat
  BY FS_CardinalityType DEF Stored
<1> HIDE DEF n
<1>2. /\ ids \in [1..n -> DOMAIN t]
      /\ \A id \in DOMAIN t : \E i \in 1..n : ids[i] = id
      /\ \A i, j \in 1..n : i < j => ids[i] # ids[j] /\ t[ids[i]].position <= t[ids[j]].position
  BY DEF IdsInOrder, n
<1>3. Len(ids) = n
  BY <1>1, <1>2, ListIs
<1>4. ASSUME NEW i \in 1..n
      PROVE  /\ s[i] \in Entry /\ OwnManifest(s[i]) /\ RecordOf(s[i]) = t[ids[i]]
             /\ s[i].id = ids[i] /\ s[i].client = now + i /\ s[i].position = t[ids[i]].position
  <2> DEFINE r == t[ids[i]]
  <2>1. r \in Record /\ OwnManifest(r) /\ ids[i] \in Names \X Nat
    BY <1>2 DEF Stored
  <2>2. s[i] = EntryOf(ids[i], r, now + i)
    BY <1>2
  <2> HIDE DEF r
  <2>3. /\ EntryOf(ids[i], r, now + i) \in Entry /\ OwnManifest(EntryOf(ids[i], r, now + i))
        /\ RecordOf(EntryOf(ids[i], r, now + i)) = r
    BY <1>1, <2>1 DEF EntryOf, Entry, Record, RecordOf, OwnManifest, Manifests
  <2> QED
    BY <2>2, <2>3 DEF EntryOf, r
<1>5. DOMAIN s = 1..n /\ s \in Seq(Entry)
  BY <1>1, <1>2, <1>4, ListIs
<1>6. ASSUME NEW i \in 1..n, NEW j \in 1..n, i # j PROVE ids[i] # ids[j]
  BY <1>2, <1>6
<1>7. ASSUME NEW i \in 1..n, NEW j \in 1..n, i < j PROVE s[i].position < s[j].position
  <2>1. ids[i] # ids[j] /\ t[ids[i]].position <= t[ids[j]].position
    BY <1>2, <1>7
  <2>2. t[ids[i]].position # t[ids[j]].position
    BY <1>2, <2>1 DEF Stored
  <2>3. t[ids[i]].position \in Nat /\ t[ids[j]].position \in Nat
    BY <1>2 DEF Stored, Record
  <2> QED
    BY <1>4, <2>1, <2>2, <2>3
<1>8. Listed(s, now + n)
  <2>1. \A i \in 1..n : OwnManifest(s[i]) /\ s[i].client <= now + n
    BY <1>1, <1>4
  <2>2. \A i, j \in 1..n : i # j => s[i].client # s[j].client /\ s[i].id # s[j].id
    BY <1>1, <1>4, <1>6
  <2> QED
    BY <1>5, <1>7, <2>1, <2>2 DEF Listed
<1>9. Agree(t, s)
  <2>1. DOMAIN t = {s[i].id : i \in 1..n}
    <3>1. \A i \in 1..n : s[i].id \in DOMAIN t
      BY <1>2, <1>4
    <3>2. \A id \in DOMAIN t : \E i \in 1..n : id = s[i].id
      BY <1>2, <1>4
    <3> QED
      BY <3>1, <3>2
  <2>2. \A i \in 1..n : t[s[i].id] = RecordOf(s[i])
    BY <1>4
  <2> QED
    BY <1>5, <2>1, <2>2 DEF Agree
<1> QED
  BY <1>1, <1>3, <1>8, <1>9

-----------------------------------------------------------------------------
(* One entry changed, added, moved or removed, with its row.                *)

LEMMA EntrySet ==
  ASSUME Listed(entries, made), Agree(table, entries), made \in Nat, NEW now \in Nat, made <= now,
         NEW i \in DOMAIN entries, NEW e \in Entry,
         e.id = entries[i].id, e.position = entries[i].position, OwnManifest(e),
         e.client <= now, e.client = entries[i].client \/ e.client > made
  PROVE  /\ Listed([entries EXCEPT ![i] = e], now)
         /\ Agree(Put([id \in {e.id} |-> RecordOf(e)]), [entries EXCEPT ![i] = e])
<1> DEFINE n == Len(entries)
           s == [entries EXCEPT ![i] = e]
           t == Put([id \in {e.id} |-> RecordOf(e)])
<1>1. n \in Nat /\ DOMAIN entries = 1..n /\ entries \in [1..n -> Entry]
  BY ListHas DEF Listed
<1>2. s \in [1..n -> Entry] /\ \A j \in 1..n : s[j] = IF j = i THEN e ELSE entries[j]
  BY <1>1
<1>3. DOMAIN s = 1..n /\ s \in Seq(Entry)
  BY <1>1, <1>2, ListIs
<1>4. DOMAIN t = DOMAIN table \cup {e.id} /\ \A id \in DOMAIN t : t[id] = IF id = e.id THEN RecordOf(e) ELSE table[id]
  BY DEF Put
<1> HIDE DEF n, s, t
<1>5. \A j \in 1..n : /\ entries[j].client \in Nat /\ entries[j].client <= made
                      /\ OwnManifest(entries[j])
  BY <1>1 DEF Listed, Entry
<1>6. \A j, k \in 1..n : j # k => entries[j].client # entries[k].client /\ entries[j].id # entries[k].id
  BY <1>1 DEF Listed
<1>7. Listed(s, now)
  <2>1. \A j \in 1..n : OwnManifest(s[j]) /\ s[j].client <= now /\ s[j].id = entries[j].id
                        /\ s[j].position = entries[j].position
    BY <1>1, <1>2, <1>5
  <2>2. e.client \in Nat
    BY DEF Entry
  <2>3. \A j, k \in 1..n : j # k => s[j].client # s[k].client
    BY <1>1, <1>2, <1>5, <1>6, <2>2
  <2>4. \A j, k \in 1..n : j < k => s[j].position < s[k].position
    BY <1>1, <2>1 DEF Listed
  <2> QED
    BY <1>3, <1>6, <2>1, <2>3, <2>4 DEF Listed
<1>8. Agree(t, s)
  <2>1. \A j \in 1..n : s[j].id = entries[j].id
    BY <1>1, <1>2
  <2>2. DOMAIN t = {s[j].id : j \in 1..n}
    <3>1. DOMAIN table = {entries[j].id : j \in 1..n}
      BY <1>1 DEF Agree
    <3>2. DOMAIN t = DOMAIN table
      BY <1>1, <1>4, <3>1
    <3>3. \A j \in 1..n : s[j].id \in DOMAIN t
      BY <2>1, <3>1, <3>2
    <3>4. \A id \in DOMAIN t : \E j \in 1..n : id = s[j].id
      BY <2>1, <3>1, <3>2
    <3> QED
      BY <3>3, <3>4
  <2>3. ASSUME NEW j \in 1..n PROVE t[s[j].id] = RecordOf(s[j])
    <3>1. CASE j = i
      BY <1>1, <1>2, <1>4, <2>1, <2>2, <3>1
    <3>2. CASE j # i
      BY <1>1, <1>2, <1>4, <1>6, <2>1, <2>2, <3>2 DEF Agree
    <3> QED
      BY <3>1, <3>2
  <2> QED
    BY <1>3, <2>2, <2>3 DEF Agree
<1> QED
  BY <1>7, <1>8 DEF s, t

LEMMA EntryAdded ==
  ASSUME Listed(entries, made), Agree(table, entries), made \in Nat,
         NEW e \in Entry, e.client = made + 1, OwnManifest(e),
         \A i \in DOMAIN entries : entries[i].id # e.id /\ entries[i].position < e.position
  PROVE  /\ Listed(Append(entries, e), made + 1)
         /\ Agree(Put([id \in {e.id} |-> RecordOf(e)]), Append(entries, e))
<1> DEFINE n == Len(entries)
           s == Append(entries, e)
           t == Put([id \in {e.id} |-> RecordOf(e)])
<1>1. n \in Nat /\ DOMAIN entries = 1..n /\ entries \in [1..n -> Entry]
  BY ListHas DEF Listed
<1>2. /\ s \in Seq(Entry) /\ DOMAIN s = 1..(n + 1)
      /\ \A i \in 1..n : s[i] = entries[i]
      /\ s[n + 1] = e
  BY <1>1 DEF Listed
<1>3. DOMAIN t = DOMAIN table \cup {e.id} /\ \A id \in DOMAIN t : t[id] = IF id = e.id THEN RecordOf(e) ELSE table[id]
  BY DEF Put
<1> HIDE DEF n, s, t
<1>4. \A i \in 1..n : /\ entries[i].client \in Nat /\ entries[i].client <= made /\ OwnManifest(entries[i])
                      /\ entries[i].id # e.id /\ entries[i].position < e.position
  BY <1>1 DEF Listed, Entry
<1>5. \A i \in 1..(n + 1) : i \in 1..n \/ i = n + 1
  BY <1>1
<1>6. Listed(s, made + 1)
  <2>1. \A i \in 1..(n + 1) : OwnManifest(s[i]) /\ s[i].client <= made + 1
    BY <1>2, <1>4, <1>5
  <2>2. \A i, j \in 1..n : i # j => s[i].client # s[j].client /\ s[i].id # s[j].id
    BY <1>1, <1>2 DEF Listed
  <2>3. \A i \in 1..n : s[i].client # s[n + 1].client /\ s[i].id # s[n + 1].id
    BY <1>2, <1>4
  <2>4. ASSUME NEW i \in 1..(n + 1), NEW j \in 1..(n + 1), i < j PROVE s[i].position < s[j].position
    <3>1. i \in 1..n
      BY <1>1, <2>4
    <3>2. CASE j \in 1..n
      BY <1>1, <1>2, <2>4, <3>1, <3>2 DEF Listed
    <3>3. CASE j = n + 1
      BY <1>2, <1>4, <3>1, <3>3
    <3> QED
      BY <1>5, <3>2, <3>3
  <2> QED
    BY <1>2, <1>5, <2>1, <2>2, <2>3, <2>4 DEF Listed
<1>7. Agree(t, s)
  <2>1. DOMAIN table = {entries[i].id : i \in 1..n}
    BY <1>1 DEF Agree
  <2>2. DOMAIN t = {s[i].id : i \in 1..(n + 1)}
    <3>1. \A id \in DOMAIN t : \E i \in 1..(n + 1) : id = s[i].id
      BY <1>1, <1>2, <1>3, <2>1
    <3>2. \A i \in 1..(n + 1) : s[i].id \in DOMAIN t
      BY <1>2, <1>3, <1>5, <2>1
    <3> QED
      BY <3>1, <3>2
  <2>3. ASSUME NEW i \in 1..n PROVE t[s[i].id] = RecordOf(s[i])
    BY <1>1, <1>2, <1>3, <1>4, <2>1 DEF Agree
  <2>4. t[s[n + 1].id] = RecordOf(s[n + 1])
    BY <1>2, <1>3
  <2> QED
    BY <1>2, <1>5, <2>2, <2>3, <2>4 DEF Agree
<1> QED
  BY <1>6, <1>7 DEF s, t

\* Without: those after the one removed come one place earlier.
LEMMA EntryRemoved ==
  ASSUME Listed(entries, made), Agree(table, entries), NEW i \in DOMAIN entries
  PROVE  /\ Listed(Without(i), made)
         /\ Agree([id \in DOMAIN table \ {entries[i].id} |-> table[id]], Without(i))
         /\ \A j \in DOMAIN Without(i) : \E k \in DOMAIN entries : Without(i)[j] = entries[k]
<1> DEFINE n == Len(entries)
           s == Without(i)
           t == [id \in DOMAIN table \ {entries[i].id} |-> table[id]]
           p(j) == IF j < i THEN j ELSE j + 1
<1>1. n \in Nat /\ DOMAIN entries = 1..n /\ entries \in [1..n -> Entry] /\ i \in 1..n
  BY ListHas DEF Listed
<1>2. n - 1 \in Nat
  BY <1>1
<1>3. s = [j \in 1..(n - 1) |-> entries[p(j)]]
  BY DEF Without
<1>4. \A j \in 1..(n - 1) : p(j) \in 1..n /\ p(j) # i
  BY <1>1
<1>5. \A j, k \in 1..(n - 1) : j < k => p(j) < p(k)
  BY <1>1
<1>6. \A j, k \in 1..(n - 1) : j # k => p(j) # p(k)
  BY <1>1
<1>7. \A k \in 1..n : k # i => \E j \in 1..(n - 1) : p(j) = k
  <2> SUFFICES ASSUME NEW k \in 1..n, k # i PROVE \E j \in 1..(n - 1) : p(j) = k
    OBVIOUS
  <2>1. CASE k < i
    BY <1>1, <2>1
  <2>2. CASE k > i
    <3>1. k - 1 \in 1..(n - 1) /\ p(k - 1) = k
      BY <1>1, <2>2
    <3> QED
      BY <3>1
  <2> QED
    BY <1>1, <2>1, <2>2
<1> HIDE DEF n, s, p, t
<1>8. s \in [1..(n - 1) -> Entry] /\ \A j \in 1..(n - 1) : s[j] = entries[p(j)]
  BY <1>1, <1>3, <1>4
<1>9. DOMAIN s = 1..(n - 1) /\ s \in Seq(Entry)
  BY <1>2, <1>8, ListIs
<1>10. Listed(s, made)
  BY <1>1, <1>4, <1>5, <1>6, <1>8, <1>9 DEF Listed
<1>11. Agree(t, s)
  <2>1. DOMAIN table = {entries[j].id : j \in 1..n} /\ DOMAIN t = DOMAIN table \ {entries[i].id}
    BY <1>1 DEF Agree, t
  <2>2. \A j \in 1..n : j # i => entries[j].id # entries[i].id
    BY <1>1 DEF Listed
  <2>3. \A j \in 1..(n - 1) : s[j].id \in DOMAIN t
    BY <1>4, <1>8, <2>1, <2>2
  <2>4. \A id \in DOMAIN t : \E j \in 1..(n - 1) : id = s[j].id
    <3> TAKE id \in DOMAIN t
    <3>1. PICK k \in 1..n : id = entries[k].id /\ k # i
      BY <2>1
    <3>2. PICK j \in 1..(n - 1) : p(j) = k
      BY <1>7, <3>1
    <3> QED
      BY <1>8, <3>1, <3>2
  <2>5. DOMAIN t = {s[j].id : j \in 1..(n - 1)}
    BY <2>3, <2>4
  <2>6. \A j \in 1..(n - 1) : t[s[j].id] = RecordOf(s[j])
    BY <1>1, <1>4, <1>8, <2>3 DEF Agree, t
  <2> QED
    BY <1>9, <2>5, <2>6 DEF Agree
<1> QED
  BY <1>1, <1>4, <1>8, <1>9, <1>10, <1>11 DEF s, t

\* Moved: the entries in another order, each once.
LEMMA EntriesMoved ==
  ASSUME Listed(entries, made), NEW i \in DOMAIN entries, NEW to \in 0..(Len(entries) - 1)
  PROVE  \E p \in [1..Len(entries) -> 1..Len(entries)] :
           /\ \A j \in 1..Len(entries) : Moved(i, to)[j] = entries[p[j]]
           /\ \A j, k \in 1..Len(entries) : j # k => p[j] # p[k]
           /\ \A k \in 1..Len(entries) : \E j \in 1..Len(entries) : p[j] = k
<1> DEFINE n == Len(entries)
           r(j) == IF j < i THEN j ELSE j + 1
           m(j) == IF j <= to THEN r(j) ELSE IF j = to + 1 THEN i ELSE r(j - 1)
           p == [j \in 1..n |-> m(j)]
<1>1. n \in Nat /\ DOMAIN entries = 1..n /\ i \in 1..n /\ to \in 0..(n - 1)
  BY ListHas DEF Listed
<1>2. ASSUME NEW j \in 1..n PROVE m(j) \in 1..n
  BY <1>1
<1>3. ASSUME NEW j \in 1..n PROVE Moved(i, to)[j] = entries[m(j)]
  <2> DEFINE rest == [k \in 1..(n - 1) |-> entries[IF k < i THEN k ELSE k + 1]]
  <2>1. Moved(i, to)[j] = IF j <= to THEN rest[j] ELSE IF j = to + 1 THEN entries[i] ELSE rest[j - 1]
    BY <1>1 DEF Moved
  <2>2. j <= to => j \in 1..(n - 1)
    BY <1>1
  <2>3. ~(j <= to) /\ j # to + 1 => j - 1 \in 1..(n - 1)
    BY <1>1
  <2>4. \A k \in 1..(n - 1) : rest[k] = entries[r(k)]
    OBVIOUS
  <2> HIDE DEF rest
  <2> QED
    BY <2>1, <2>2, <2>3, <2>4
<1>4. ASSUME NEW j \in 1..n, NEW k \in 1..n, j # k PROVE m(j) # m(k)
  BY <1>1, <1>4
<1>5. ASSUME NEW k \in 1..n PROVE \E j \in 1..n : m(j) = k
  <2> DEFINE q == IF k < i THEN k ELSE k - 1
             j == IF k = i THEN to + 1 ELSE IF q <= to THEN q ELSE q + 1
  <2>1. j \in 1..n /\ m(j) = k
    BY <1>1
  <2> QED
    BY <2>1
<1> HIDE DEF m
<1>6. p \in [1..n -> 1..n]
  BY <1>2
<1>7. \A j \in 1..n : p[j] = m(j)
  OBVIOUS
<1> HIDE DEF p
<1>8. \A j \in 1..n : Moved(i, to)[j] = entries[p[j]]
  BY <1>3, <1>7
<1>9. \A j, k \in 1..n : j # k => p[j] # p[k]
  BY <1>4, <1>7
<1>10. \A k \in 1..n : \E j \in 1..n : p[j] = k
  BY <1>5, <1>7
<1> QED
  BY <1>6, <1>8, <1>9, <1>10

\* Update: the entries in their new order, numbered, and every row written.
LEMMA EntriesNumbered ==
  ASSUME Listed(entries, made), Agree(table, entries), NEW i,
         NEW n \in Nat, DOMAIN entries = 1..n, NEW p \in [1..n -> 1..n],
         \A j, k \in 1..n : j # k => p[j] # p[k],
         \A k \in 1..n : \E j \in 1..n : p[j] = k,
         NEW order, DOMAIN order = 1..n, order \in Seq(Entry),
         \A j \in 1..n :
           /\ order[j].position = j - 1 /\ OwnManifest(order[j])
           /\ order[j].id = entries[p[j]].id /\ order[j].client = entries[p[j]].client
  PROVE  Listed(order, made) /\ Agree(Put(Rows(order, i)), order)
<1> DEFINE t == Put(Rows(order, i))
<1>1. \A j \in 1..n : p[j] \in 1..n
  OBVIOUS
<1>2. DOMAIN t = DOMAIN table \cup {order[j].id : j \in 1..n}
  BY DEF Put, Rows
<1>3. ASSUME NEW j \in 1..n, NEW k \in 1..n, j # k
      PROVE order[j].client # order[k].client /\ order[j].id # order[k].id
  <2>1. p[j] \in 1..n /\ p[k] \in 1..n /\ p[j] # p[k]
    BY <1>3
  <2>2. /\ order[j].id = entries[p[j]].id /\ order[j].client = entries[p[j]].client
        /\ order[k].id = entries[p[k]].id /\ order[k].client = entries[p[k]].client
    OBVIOUS
  <2>3. /\ entries[p[j]].client # entries[p[k]].client
        /\ entries[p[j]].id # entries[p[k]].id
    BY <2>1 DEF Listed
  <2> QED
    BY <2>2, <2>3
<1>4. ASSUME NEW j \in 1..n PROVE t[order[j].id] = RecordOf(order[j])
  <2> DEFINE id == order[j].id
             at == CHOOSE k \in 1..n : order[k].id = id
  <2>1. at \in 1..n /\ order[at].id = id
    OBVIOUS
  <2>2. at = j
    BY <1>3, <2>1
  <2>3. id \in DOMAIN Rows(order, i) /\ Rows(order, i)[id] = RecordOf(order[at])
    BY DEF Rows
  <2>4. t[id] = Rows(order, i)[id]
    BY <1>2, <2>3 DEF Put
  <2> QED
    BY <2>2, <2>3, <2>4
<1> HIDE DEF t
<1>5. Listed(order, made)
  <2>1. ASSUME NEW j \in 1..n, NEW k \in 1..n, j < k PROVE order[j].position < order[k].position
    <3>1. order[j].position = j - 1 /\ order[k].position = k - 1
      OBVIOUS
    <3> QED
      BY <2>1, <3>1
  <2>2. \A j \in 1..n : order[j].client <= made
    BY <1>1 DEF Listed
  <2> QED
    BY <1>3, <2>1, <2>2 DEF Listed
<1>6. Agree(t, order)
  <2>1. \A id \in DOMAIN table : \E j \in 1..n : id = order[j].id
    <3> TAKE id \in DOMAIN table
    <3>1. PICK k \in 1..n : id = entries[k].id
      BY DEF Agree
    <3>2. PICK j \in 1..n : p[j] = k
      OBVIOUS
    <3> QED
      BY <3>1, <3>2
  <2>2. DOMAIN t = {order[j].id : j \in 1..n}
    BY <1>2, <2>1
  <2> QED
    BY <1>4, <2>2 DEF Agree
<1> QED
  BY <1>5, <1>6 DEF t

Numbered(order, i, to) ==
  /\ order = [j \in DOMAIN entries |-> order[j]]
  /\ \A j \in DOMAIN entries : \E b \in BOOLEAN \cup {Moved(i, to)[j].enabled} :
       order[j] = [Moved(i, to)[j] EXCEPT !.position = j - 1, !.enabled = b]

LEMMA EntriesUpdated ==
  ASSUME Listed(entries, made), Agree(table, entries),
         NEW i \in DOMAIN entries, NEW to \in 0..(Len(entries) - 1),
         NEW order, Numbered(order, i, to)
  PROVE  /\ Listed(order, made) /\ Agree(Put(Rows(order, i)), order)
         /\ \A j \in DOMAIN order : \E k \in DOMAIN entries :
              order[j].client = entries[k].client /\ order[j].url = entries[k].url
<1> DEFINE n == Len(entries)
<1>1. n \in Nat /\ DOMAIN entries = 1..n /\ entries \in [1..n -> Entry]
  BY ListHas DEF Listed
<1>2. PICK p \in [1..n -> 1..n] :
           /\ \A j \in 1..n : Moved(i, to)[j] = entries[p[j]]
           /\ \A j, k \in 1..n : j # k => p[j] # p[k]
           /\ \A k \in 1..n : \E j \in 1..n : p[j] = k
  BY EntriesMoved
<1>3. ASSUME NEW j \in 1..n
      PROVE  /\ order[j] \in Entry /\ order[j].position = j - 1 /\ OwnManifest(order[j])
             /\ order[j].id = entries[p[j]].id /\ order[j].client = entries[p[j]].client
             /\ order[j].url = entries[p[j]].url
  <2>0. Moved(i, to)[j] = entries[p[j]]
    BY <1>2
  <2>1. PICK b \in BOOLEAN \cup {Moved(i, to)[j].enabled} :
          order[j] = [Moved(i, to)[j] EXCEPT !.position = j - 1, !.enabled = b]
    BY <1>1 DEF Numbered
  <2>2. p[j] \in 1..n
    BY <1>2
  <2> DEFINE e == entries[p[j]]
  <2>3. e \in Entry
    BY <1>1, <2>2
  <2>4. OwnManifest(e)
    BY <1>1, <2>2 DEF Listed
  <2>b. b \in BOOLEAN
    BY <2>0, <2>1, <2>3 DEF Entry
  <2>5. j - 1 \in Nat
    BY <1>1
  <2>6. order[j] = [e EXCEPT !.position = j - 1, !.enabled = b]
    BY <2>0, <2>1
  <2> HIDE DEF e
  <2> DEFINE place == j - 1
             f == [e EXCEPT !.position = place, !.enabled = b]
  <2>a. place \in Nat
    BY <2>5
  <2> HIDE DEF place
  <2>8. /\ f \in Entry /\ f.position = place /\ OwnManifest(f)
        /\ f.id = e.id /\ f.client = e.client /\ f.url = e.url
    BY <2>3, <2>4, <2>a, <2>b DEF Entry, OwnManifest
  <2>9. order[j] = f
    BY <2>6 DEF place
  <2> HIDE DEF f
  <2>7. /\ order[j] \in Entry /\ order[j].position = j - 1 /\ OwnManifest(order[j])
        /\ order[j].id = e.id /\ order[j].client = e.client /\ order[j].url = e.url
    BY <2>8, <2>9 DEF place
  <2> QED
    BY <2>7 DEF e
<1>4. DOMAIN order = 1..n /\ order \in Seq(Entry)
  <2>1. order \in [1..n -> Entry]
    BY <1>1, <1>3 DEF Numbered
  <2> QED
    BY <1>1, <2>1, ListIs
<1> HIDE DEF n
<1>5. Listed(order, made) /\ Agree(Put(Rows(order, i)), order)
  <2>1. \A j \in 1..n : /\ order[j].position = j - 1 /\ OwnManifest(order[j])
                        /\ order[j].id = entries[p[j]].id /\ order[j].client = entries[p[j]].client
    BY <1>3
  <2>2. /\ \A j, k \in 1..n : j # k => p[j] # p[k]
        /\ \A k \in 1..n : \E j \in 1..n : p[j] = k
    BY <1>2
  <2> QED
    BY <1>1, <1>4, <2>1, <2>2, EntriesNumbered
<1>6. \A j \in 1..n : p[j] \in 1..n /\ order[j].client = entries[p[j]].client /\ order[j].url = entries[p[j]].url
  BY <1>2, <1>3
<1> QED
  BY <1>1, <1>4, <1>5, <1>6

LEMMA UniqueIDIsNew ==
  ASSUME Listed(entries, made), NEW name \in Names
  PROVE  UniqueID(name) \in Names \X Nat /\ \A i \in DOMAIN entries : entries[i].id # UniqueID(name)
<1> DEFINE n == Len(entries)
           free == {k \in 1..(n + 1) : \A i \in DOMAIN entries : entries[i].id # <<name, k>>}
<1>1. n \in Nat /\ DOMAIN entries = 1..n
  BY ListHas DEF Listed
<1>2. free # {}
  <2> SUFFICES ASSUME free = {} PROVE FALSE
    OBVIOUS
  <2> DEFINE f == [k \in 1..(n + 1) |-> CHOOSE i \in 1..n : entries[i].id = <<name, k>>]
  <2>1. ASSUME NEW k \in 1..(n + 1) PROVE f[k] \in 1..n /\ entries[f[k]].id = <<name, k>>
    <3>1. \E i \in 1..n : entries[i].id = <<name, k>>
      BY <1>1
    <3> QED
      BY <3>1
  <2> HIDE DEF f
  <2>2. f \in [1..(n + 1) -> 1..n]
    BY <2>1 DEF f
  <2>3. /\ IsFiniteSet(1..n) /\ IsFiniteSet(1..(n + 1))
        /\ Cardinality(1..n) = n /\ Cardinality(1..(n + 1)) = n + 1
    <3>1. /\ IsFiniteSet(1..n)
          /\ Cardinality(1..n) = IF 1 > n THEN 0 ELSE n - 1 + 1
      BY <1>1, FS_Interval
    <3>2. /\ IsFiniteSet(1..(n + 1))
          /\ Cardinality(1..(n + 1)) = IF 1 > n + 1 THEN 0 ELSE n + 1 - 1 + 1
      BY <1>1, FS_Interval
    <3> QED
      BY <1>1, <3>1, <3>2
  <2>4. \E j, k \in 1..(n + 1) : j # k /\ f[j] = f[k]
    <3> DEFINE S == 1..(n + 1)
               T == 1..n
    <3>1. IsFiniteSet(S) /\ IsFiniteSet(T) /\ Cardinality(T) < Cardinality(S) /\ f \in [S -> T]
      BY <1>1, <2>2, <2>3
    <3> HIDE DEF S, T
    <3>2. \E j, k \in S : j # k /\ f[j] = f[k]
      BY <3>1, FS_PigeonHole
    <3> QED
      BY <3>2 DEF S
  <2> QED
    BY <2>1, <2>4
<1>3. First(free) \in free
  <2>1. free \in SUBSET Nat
    BY <1>1
  <2> HIDE DEF free
  <2> QED
    BY <1>2, <2>1, FirstIsLeast
<1>4. UniqueID(name) = <<name, First(free)>>
  BY DEF UniqueID
<1> DEFINE m == First(free)
<1>5. m \in free /\ UniqueID(name) = <<name, m>>
  BY <1>3, <1>4
<1> HIDE DEF m
<1>6. m \in Nat /\ \A i \in DOMAIN entries : entries[i].id # <<name, m>>
  BY <1>1, <1>5
<1> QED
  BY <1>5, <1>6

LEMMA LastPlaceIsLast ==
  ASSUME Listed(entries, made)
  PROVE  LastPlace \in Nat /\ \A i \in DOMAIN entries : entries[i].position < LastPlace
<1> DEFINE n == Len(entries)
           taken == {entries[i].position : i \in DOMAIN entries}
<1>a. n \in Nat /\ DOMAIN entries = 1..n /\ \A i \in 1..n : entries[i] \in Entry
  BY ListHas DEF Listed
<1>1. n \in Nat /\ DOMAIN entries = 1..n /\ \A i \in 1..n : entries[i].position \in Nat
  BY <1>a DEF Entry
<1>2. CASE n = 0
  <2>1. taken = {}
    BY <1>1, <1>2
  <2> QED
    BY <1>1, <1>2, <2>1 DEF LastPlace
<1>3. CASE n # 0
  <2> DEFINE last == entries[n].position
  <2>1. n \in 1..n
    BY <1>1, <1>3
  <2>2. last \in Nat /\ last \in taken
    BY <1>1, <2>1
  <2>3. \A i \in 1..n : entries[i].position <= last
    <3> TAKE i \in 1..n
    <3>1. i < n => entries[i].position < last
      BY <1>1, <2>1 DEF Listed
    <3> QED
      BY <1>1, <2>1, <3>1
  <2>4. \A x \in taken : x \in Nat /\ last >= x
    BY <1>1, <2>2, <2>3
  <2> HIDE DEF last
  <2>5. Max(taken) = last
    <3>1. Max(taken) \in taken /\ \A x \in taken : Max(taken) >= x
      <4> HIDE DEF taken
      <4> QED
        BY <2>2, <2>4 DEF Max
    <3> DEFINE m == Max(taken)
    <3>2. m \in taken /\ m >= last
      BY <2>2, <3>1
    <3>3. m \in Nat /\ last >= m
      BY <2>4, <3>2
    <3> HIDE DEF m
    <3>4. m = last
      BY <2>2, <3>2, <3>3
    <3> QED
      BY <3>4 DEF m
  <2>6. LastPlace = last + 1
    BY <2>2, <2>5 DEF LastPlace
  <2> QED
    BY <1>1, <2>2, <2>3, <2>6
<1> QED
  BY <1>2, <1>3

-----------------------------------------------------------------------------
(* The requests out for manifests.                                          *)

\* Requests stay about what they asked for while the entries keep their
\* clients and addresses, or get clients made since.
LEMMA AskedKept ==
  ASSUME NEW fs, NEW s, NEW now \in Nat, Asked(fs, s, now),
         NEW gs \in SUBSET fs, NEW r, NEW later \in Nat, now <= later,
         \A j \in DOMAIN r :
           \/ \E k \in DOMAIN s : r[j].client = s[k].client /\ r[j].url = s[k].url
           \/ r[j].client \in Nat /\ r[j].client > now
  PROVE  Asked(gs, r, later)
<1> SUFFICES ASSUME NEW f \in gs
             PROVE  /\ f.url \in Urls /\ f.client \in Nat /\ f.client <= later
                    /\ \A j \in DOMAIN r : r[j].client = f.client => r[j].url = f.url
  BY DEF Asked
<1>1. /\ f.url \in Urls /\ f.client \in Nat /\ f.client <= now
      /\ \A k \in DOMAIN s : s[k].client = f.client => s[k].url = f.url
  BY DEF Asked
<1> QED
  BY <1>1

\* A list of none but entries there were before changes no request.
LEMMA AskedOfThem ==
  ASSUME NEW fs, NEW s, NEW now, Asked(fs, s, now), NEW r,
         \A j \in DOMAIN r : \E k \in DOMAIN s : r[j].client = s[k].client /\ r[j].url = s[k].url
  PROVE  Asked(fs, r, now)
BY DEF Asked

LEMMA AskedMore ==
  ASSUME Listed(entries, made), made \in Nat, Asked(fetches, entries, made),
         NEW I \in SUBSET DOMAIN entries, NEW by
  PROVE  Asked(fetches \cup {FetchOf(entries[i], by) : i \in I}, entries, made)
<1> DEFINE n == Len(entries)
<1>1. n \in Nat /\ DOMAIN entries = 1..n /\ entries \in [1..n -> Entry]
  BY ListHas DEF Listed
<1> HIDE DEF n
<1>2. ASSUME NEW i \in I
      PROVE  LET f == FetchOf(entries[i], by)
             IN  /\ f.url \in Urls /\ f.client \in Nat /\ f.client <= made
                 /\ \A j \in DOMAIN entries : entries[j].client = f.client => entries[j].url = f.url
  <2>1. entries[i] \in Entry /\ entries[i].client <= made
    BY <1>1 DEF Listed
  <2>2. \A j \in DOMAIN entries : entries[j].client = entries[i].client => j = i
    BY DEF Listed
  <2>3. FetchOf(entries[i], by).url = entries[i].url /\ FetchOf(entries[i], by).client = entries[i].client
    BY DEF FetchOf
  <2> QED
    BY <2>1, <2>2, <2>3 DEF Entry
<1> QED
  BY <1>2 DEF Asked

-----------------------------------------------------------------------------
(* Every step.                                                              *)

LEMMA InitInv == Init => IInv
<1> SUFFICES ASSUME Init PROVE IInv
  OBVIOUS
<1>1. DOMAIN table = {} /\ entries = <<>> /\ DOMAIN entries = {}
  BY DEF Init
<1>2. Stored(table)
  BY <1>1, FS_EmptySet DEF Stored
<1>3. Listed(entries, made)
  BY <1>1 DEF Listed
<1> QED
  BY <1>1, <1>2, <1>3 DEF Init, IInv, Asked

LEMMA LoadInv == ASSUME IInv, Load PROVE IInv'
<1>1. Stored(table')
  <2>1. CASE created
    <3>1. Put(SeedRows) = SeedRows
      BY <2>1 DEF IInv, Put, SeedRows
    <3> QED
      BY <2>1, <3>1, SeedsStored DEF Load
  <2> QED
    BY <2>1 DEF IInv, Load
<1>2. /\ ~running /\ running' /\ ~created' /\ UNCHANGED <<fetches, probes>>
      /\ fetches = {} /\ probes \subseteq Urls /\ made \in Nat
  BY DEF Load, IInv
<1>3. PICK ids \in IdsInOrder(table') :
        /\ entries' = [i \in DOMAIN ids |-> EntryOf(ids[i], table'[ids[i]], made + i)]
        /\ made' = made + Len(ids)
  BY DEF Load
<1>4. Listed(entries', made') /\ Agree(table', entries') /\ made' \in Nat
  <2> DEFINE t == table'
             s == entries'
  <2>1. Stored(t) /\ ids \in IdsInOrder(t)
    BY <1>1, <1>3
  <2>2. s = [i \in DOMAIN ids |-> EntryOf(ids[i], t[ids[i]], made + i)]
    BY <1>3
  <2> HIDE DEF t, s
  <2>3. Listed(s, made + Len(ids)) /\ Agree(t, s) /\ Len(ids) \in Nat
    BY <1>2, <2>1, <2>2, LoadedList
  <2> QED
    BY <1>2, <1>3, <2>3 DEF t, s
<1> QED
  BY <1>1, <1>2, <1>4 DEF IInv, Asked

LEMMA StopInv == ASSUME IInv, Stop PROVE IInv'
<1>1. /\ entries' = <<>> /\ DOMAIN entries' = {} /\ fetches' = {} /\ probes' = {} /\ ~running'
      /\ UNCHANGED <<table, created, made>>
  BY DEF Stop
<1>2. Listed(entries', made')
  BY <1>1 DEF Listed
<1> QED
  BY <1>1, <1>2 DEF IInv, Asked

\* A running core whose table and list change together.
LEMMA ChangedTogether ==
  ASSUME IInv, running', UNCHANGED <<created>>, running, made' \in Nat, probes' \subseteq Urls,
         Listed(entries', made'), Agree(table', entries'), Asked(fetches', entries', made')
  PROVE  IInv'
<1>1. Stored(table')
  BY TableOfList
<1> QED
  BY <1>1 DEF IInv

\* ... and one whose list stays.
LEMMA ListStays ==
  ASSUME IInv, UNCHANGED <<table, created, running, entries, made>>,
         probes' \subseteq Urls, running \/ (probes' = {} /\ fetches' = {}),
         Asked(fetches', entries, made)
  PROVE  IInv'
BY DEF IInv

LEMMA AsksInv == ASSUME IInv, Refresh \/ RetryMissing PROVE IInv'
<1>1. UNCHANGED <<table, created, running, entries, probes, made>> /\ running
  BY DEF Refresh, RetryMissing
<1>2. PICK I \in SUBSET DOMAIN entries, by \in {"run", "retry"} :
        fetches' = fetches \cup {FetchOf(entries[i], by) : i \in I}
  <2>1. CASE Refresh
    BY <2>1 DEF Refresh
  <2>2. CASE RetryMissing
    <3>1. Missing \in SUBSET DOMAIN entries
      BY DEF Missing
    <3> QED
      BY <2>2, <3>1 DEF RetryMissing
  <2> QED
    BY <2>1, <2>2
<1>3. Asked(fetches', entries, made)
  BY <1>2, AskedMore DEF IInv
<1> QED
  BY <1>1, <1>3, ListStays DEF IInv

LEMMA ProbeInv == ASSUME IInv, NEW u \in Urls, Probe(u) PROVE IInv'
<1>1. UNCHANGED <<table, created, running, entries, fetches, made>> /\ running /\ probes' = probes \cup {u}
  BY DEF Probe, Op
<1> QED
  BY <1>1, ListStays DEF IInv

LEMMA IdleInv == ASSUME IInv, UNCHANGED <<table, created, running, entries, fetches, probes, made>> PROVE IInv'
BY ListStays DEF IInv

\* The answer of a fetch goes to the entry whose client asked, and is its
\* address's.
LEMMA AnswerInv == ASSUME IInv, NEW f \in fetches, Answer(f) PROVE IInv'
<1>1. running /\ made \in Nat
  BY DEF IInv
<1>2. UNCHANGED <<created, running, probes, made>> /\ fetches' = fetches \ {f}
  BY DEF Answer
<1>3. CASE UNCHANGED <<table, entries>>
  <2>1. Asked(fetches', entries, made)
    BY <1>2 DEF IInv, Asked
  <2> QED
    BY <1>1, <1>2, <1>3, <2>1, ListStays DEF IInv
<1>4. ASSUME NEW i \in About(f), Remember(i, f.url) PROVE IInv'
  <2> DEFINE e == [entries[i] EXCEPT !.manifest = f.url]
  <2>1. i \in DOMAIN entries /\ entries[i].client = f.client
    BY DEF About
  <2>2. entries[i].url = f.url /\ f.url \in Urls
    BY <2>1 DEF IInv, Asked
  <2>3. entries[i] \in Entry /\ entries[i].client <= made
    BY <2>1, ListHas DEF IInv, Listed
  <2>4. /\ e \in Entry /\ OwnManifest(e) /\ e.id = entries[i].id /\ e.position = entries[i].position
        /\ e.client = entries[i].client /\ e.url = entries[i].url
    BY <2>2, <2>3 DEF Entry, Manifests, OwnManifest
  <2>5. table' = Put([id \in {e.id} |-> RecordOf(e)]) /\ entries' = [entries EXCEPT ![i] = e]
    BY <1>4 DEF Remember
  <2> HIDE DEF e
  <2>6. Listed(entries', made) /\ Agree(table', entries')
    <3>1. Listed(entries, made) /\ Agree(table, entries) /\ made <= made /\ e.client <= made
      BY <1>1, <2>3, <2>4 DEF IInv
    <3> QED
      BY <1>1, <2>1, <2>4, <2>5, <3>1, EntrySet
  <2>7. Asked(fetches', entries', made)
    <3>1. \A j \in DOMAIN entries' : j \in DOMAIN entries /\ entries'[j].client = entries[j].client
                                     /\ entries'[j].url = entries[j].url
      BY <2>4, <2>5
    <3>2. fetches' \in SUBSET fetches /\ Asked(fetches, entries, made) /\ made <= made
      BY <1>1, <1>2 DEF IInv
    <3> QED
      BY <1>1, <3>1, <3>2, AskedKept
  <2> QED
    BY <1>1, <1>2, <2>6, <2>7, ChangedTogether DEF IInv
<1> QED
  BY <1>3, <1>4 DEF Answer

LEMMA ReconfigureKeeps ==
  ASSUME IInv, running, NEW u \in Urls, Reconfigure(u)
  PROVE  /\ Listed(entries', made + 1) /\ Agree(table', entries')
         /\ Asked(fetches, entries', made + 1)
<1> DEFINE i == First(Installed(u))
           e == [entries[i] EXCEPT !.url = u, !.manifest = u, !.client = made + 1]
<1>1. made \in Nat /\ made + 1 \in Nat /\ made <= made + 1
  BY DEF IInv
<1>2. i \in DOMAIN entries
  <2>1. Installed(u) \in SUBSET Nat /\ Installed(u) # {} /\ Installed(u) \subseteq DOMAIN entries
    BY ListHas DEF IInv, Listed, Installed, Reconfigure
  <2> QED
    BY <2>1, FirstIsLeast
<1>3. table' = Put([id \in {e.id} |-> RecordOf(e)]) /\ entries' = [entries EXCEPT ![i] = e]
  BY DEF Reconfigure
<1> HIDE DEF i
<1>4. entries[i] \in Entry
  BY <1>2, ListHas DEF IInv, Listed
<1>5. /\ e \in Entry /\ OwnManifest(e) /\ e.id = entries[i].id /\ e.position = entries[i].position
      /\ e.client = made + 1
  BY <1>1, <1>4 DEF Entry, Manifests, OwnManifest
<1> HIDE DEF e
<1>6. Listed(entries', made + 1) /\ Agree(table', entries')
  <2>1. e.client <= made + 1 /\ e.client > made
    BY <1>1, <1>5
  <2> QED
    BY <1>1, <1>2, <1>3, <1>5, <2>1, EntrySet DEF IInv
<1>7. Asked(fetches, entries', made + 1)
  <2>1. \A j \in DOMAIN entries' : \/ \E k \in DOMAIN entries : /\ entries'[j].client = entries[k].client
                                                                /\ entries'[j].url = entries[k].url
                                   \/ entries'[j].client \in Nat /\ entries'[j].client > made
    BY <1>1, <1>3, <1>5
  <2> QED
    BY <1>1, <2>1, AskedKept DEF IInv
<1> QED
  BY <1>6, <1>7

LEMMA InstallKeeps ==
  ASSUME IInv, running, NEW u \in Urls, Install(u)
  PROVE  /\ Listed(entries', made + 1) /\ Agree(table', entries')
         /\ Asked(fetches, entries', made + 1)
<1> DEFINE id == UniqueID(NameOf[u])
           r == [url |-> u, enabled |-> TRUE, position |-> LastPlace, manifest |-> u]
           e == EntryOf(id, r, made + 1)
<1>1. made \in Nat /\ made + 1 \in Nat /\ made <= made + 1 /\ Listed(entries, made) /\ Agree(table, entries)
  BY DEF IInv
<1>2. id \in Names \X Nat /\ \A i \in DOMAIN entries : entries[i].id # id
  BY <1>1, UniqueIDIsNew DEF Names
<1>3. LastPlace \in Nat /\ \A i \in DOMAIN entries : entries[i].position < LastPlace
  BY <1>1, LastPlaceIsLast
<1>4. table' = Put([x \in {id} |-> r]) /\ entries' = Append(entries, e)
  BY DEF Install
<1> HIDE DEF id
<1>5. /\ e \in Entry /\ OwnManifest(e) /\ e.id = id /\ e.position = LastPlace /\ e.client = made + 1
      /\ RecordOf(e) = r
  BY <1>1, <1>2, <1>3 DEF EntryOf, Entry, Manifests, OwnManifest, RecordOf
<1> HIDE DEF e, r
<1>6. Listed(entries', made + 1) /\ Agree(table', entries')
  <2>1. table' = Put([x \in {e.id} |-> RecordOf(e)])
    BY <1>4, <1>5
  <2>2. \A i \in DOMAIN entries : entries[i].id # e.id /\ entries[i].position < e.position
    BY <1>2, <1>3, <1>5
  <2> QED
    BY <1>1, <1>4, <1>5, <2>1, <2>2, EntryAdded
<1>7. Asked(fetches, entries', made + 1)
  <2> DEFINE n == Len(entries)
  <2>1. n \in Nat /\ DOMAIN entries = 1..n
    BY <1>1, ListHas DEF Listed
  <2>2. DOMAIN entries' = 1..(n + 1) /\ entries'[n + 1] = e /\ \A j \in 1..n : entries'[j] = entries[j]
    BY <1>1, <1>4 DEF Listed
  <2> HIDE DEF n
  <2>3. \A j \in 1..(n + 1) : j \in 1..n \/ j = n + 1
    BY <2>1
  <2>4. \A j \in DOMAIN entries' : \/ \E k \in DOMAIN entries : /\ entries'[j].client = entries[k].client
                                                                /\ entries'[j].url = entries[k].url
                                   \/ entries'[j].client \in Nat /\ entries'[j].client > made
    BY <1>1, <1>5, <2>1, <2>2, <2>3
  <2> QED
    BY <1>1, <2>4, AskedKept DEF IInv
<1> QED
  BY <1>6, <1>7

LEMMA AddInv == ASSUME IInv, NEW u \in Urls, Add(u) PROVE IInv'
<1>1. running /\ made \in Nat /\ probes' \subseteq Urls
  BY DEF Add, IInv
<1>2. UNCHANGED <<created, running, fetches>>
  BY DEF Add
<1>3. CASE UNCHANGED <<table, entries, made>>
  BY <1>1, <1>2, <1>3, ListStays DEF IInv
<1>4. CASE (Reconfigure(u) \/ Install(u)) /\ made' = made + 1
  <2>1. /\ Listed(entries', made') /\ Agree(table', entries')
        /\ Asked(fetches, entries', made')
    BY <1>1, <1>4, ReconfigureKeeps, InstallKeeps
  <2> QED
    BY <1>1, <1>2, <1>4, <2>1, ChangedTogether
<1> QED
  BY <1>3, <1>4 DEF Add

LEMMA UpdateInv ==
  ASSUME IInv, NEW i \in DOMAIN entries, NEW on \in BOOLEAN, NEW to \in 0..(Len(entries) - 1), Update(i, on, to)
  PROVE  IInv'
<1> DEFINE order == [j \in DOMAIN entries |-> [Moved(i, to)[j] EXCEPT
                       !.position = j - 1,
                       !.enabled = IF Moved(i, to)[j].key = entries[i].key THEN on ELSE @]]
<1>1. running /\ made \in Nat /\ UNCHANGED <<created, running, fetches, probes, made>>
  BY DEF Update, Op, IInv
<1>2. UNCHANGED <<table, entries>> \/ (table' = Put(Rows(order, i)) /\ entries' = order)
  BY DEF Update
<1>3. order = [j \in DOMAIN entries |-> order[j]]
  OBVIOUS
<1>4. i \in DOMAIN entries /\ Listed(entries, made) /\ Agree(table, entries)
  BY <1>1 DEF IInv
<1>5. Numbered(order, i, to)
  <2> DEFINE b(j) == IF Moved(i, to)[j].key = entries[i].key THEN on ELSE Moved(i, to)[j].enabled
  <2>1. \A j \in DOMAIN entries : order[j] = [Moved(i, to)[j] EXCEPT !.position = j - 1, !.enabled = b(j)]
    OBVIOUS
  <2>2. \A j \in DOMAIN entries : b(j) \in BOOLEAN \cup {Moved(i, to)[j].enabled}
    OBVIOUS
  <2> QED
    BY <1>3, <2>1, <2>2 DEF Numbered
<1> HIDE DEF order
<1>6. CASE UNCHANGED <<table, entries>>
  BY <1>1, <1>6, IdleInv
<1>7. CASE table' = Put(Rows(order, i)) /\ entries' = order
  <2>1. /\ Listed(order, made) /\ Agree(Put(Rows(order, i)), order)
        /\ \A j \in DOMAIN order : \E k \in DOMAIN entries :
             order[j].client = entries[k].client /\ order[j].url = entries[k].url
    BY <1>4, <1>5, EntriesUpdated
  <2>2. Asked(fetches, order, made)
    <3>1. Asked(fetches, entries, made)
      BY DEF IInv
    <3>2. \A j \in DOMAIN order : \E k \in DOMAIN entries :
            order[j].client = entries[k].client /\ order[j].url = entries[k].url
      BY <2>1
    <3> QED
      BY <3>1, <3>2, AskedOfThem
  <2> QED
    BY <1>1, <1>7, <2>1, <2>2, ChangedTogether DEF IInv
<1> QED
  BY <1>2, <1>6, <1>7

LEMMA RemoveInv == ASSUME IInv, NEW i \in DOMAIN entries, Remove(i) PROVE IInv'
<1> DEFINE t == [id \in DOMAIN table \ {entries[i].id} |-> table[id]]
           s == Without(i)
<1>1. running /\ made \in Nat /\ UNCHANGED <<created, running, fetches, probes, made>>
  BY DEF Remove, Op, IInv
<1>2. UNCHANGED <<table, entries>> \/ (table' = t /\ entries' = s)
  BY DEF Remove
<1>3. Listed(entries, made) /\ Agree(table, entries)
  BY <1>1 DEF IInv
<1>4. Listed(s, made) /\ Agree(t, s) /\ \A j \in DOMAIN s : \E k \in DOMAIN entries : s[j] = entries[k]
  BY <1>3, EntryRemoved
<1> HIDE DEF t, s
<1>5. Asked(fetches, s, made)
  <2>1. Asked(fetches, entries, made)
    BY DEF IInv
  <2>2. \A j \in DOMAIN s : \E k \in DOMAIN entries : s[j].client = entries[k].client /\ s[j].url = entries[k].url
    BY <1>4
  <2> QED
    BY <2>1, <2>2, AskedOfThem
<1>6. CASE UNCHANGED <<table, entries>>
  BY <1>1, <1>6, IdleInv
<1>7. CASE table' = t /\ entries' = s
  BY <1>1, <1>4, <1>5, <1>7, ChangedTogether DEF IInv
<1> QED
  BY <1>2, <1>6, <1>7

LEMMA NextInv == IInv /\ [Next]_vars => IInv'
<1> SUFFICES ASSUME IInv, [Next]_vars PROVE IInv'
  OBVIOUS
<1>1. CASE Minute \/ (\E u \in Urls : Change(u)) \/ UNCHANGED vars
  BY <1>1, IdleInv DEF Minute, Change, vars
<1> QED
  BY <1>1, LoadInv, StopInv, AsksInv, AnswerInv, ProbeInv, AddInv, UpdateInv, RemoveInv DEF Next

\* The list in order, the table as the list says, whatever is asked.
THEOREM Invariant == Spec => []IInv
<1>1. Init => IInv
  BY InitInv
<1>2. IInv /\ [Next]_vars => IInv'
  BY NextInv
<1> QED
  BY <1>1, <1>2, PTL DEF Spec

\* A core started now would read the very list the running one has: each
\* write of the list is one change of the table, failed or done, and no two
\* entries share a place or an id.
THEOREM ListIsStored == Spec => []InOrder
<1>1. IInv => InOrder
  BY TableOfList DEF IInv, InOrder, Listed, Agree
<1> QED
  BY <1>1, Invariant, PTL

\* An answer that arrives after its addon was pointed elsewhere, or taken
\* out and put back, is kept for no addon.
THEOREM ManifestsOwn == Spec => []ManifestOfUrl
<1>1. IInv => ManifestOfUrl
  BY DEF IInv, Stored, OwnManifest, ManifestOfUrl
<1> QED
  BY <1>1, Invariant, PTL
=============================================================================
