---------------------------- MODULE CatalogProofs ----------------------------
(***************************************************************************)
(* Proofs about the catalog: the cache of its pages, its products, the     *)
(* images of a product, imports, and the tree of categories.               *)
(***************************************************************************)
EXTENDS MCBackOffice, Folding, SequenceTheorems

-----------------------------------------------------------------------------
(* Sequences.                                                              *)

\* What is left of a sequence without one of its places.
LEMMA Removed ==
  ASSUME NEW S, NEW s \in Seq(S), NEW p \in 1..Len(s)
  PROVE  /\ RemoveAt(s, p) \in Seq(S)
         /\ Len(RemoveAt(s, p)) = Len(s) - 1
         /\ \A n \in 1..(Len(s) - 1) : RemoveAt(s, p)[n] = IF n < p THEN s[n] ELSE s[n + 1]
<1> DEFINE a == SubSeq(s, 1, p - 1)
           b == SubSeq(s, p + 1, Len(s))
<1>1. Len(s) \in Nat /\ p \in Int /\ p - 1 \in Int /\ p + 1 \in Int /\ Len(s) \in Int
  BY LenProperties
<1>2. \A n \in 1..Len(s) : s[n] \in S
  BY ElementOfSeq
<1>3. /\ a \in Seq(S) /\ Len(a) = p - 1
      /\ \A n \in 1..(p - 1) : a[n] = s[n]
  BY <1>1, <1>2, SubSeqProperties
<1>4. /\ b \in Seq(S) /\ Len(b) = Len(s) - p
      /\ \A n \in 1..(Len(s) - p) : b[n] = s[p + n]
  BY <1>1, <1>2, SubSeqProperties
<1>5. RemoveAt(s, p) = a \o b
  BY DEF RemoveAt
<1> HIDE DEF a, b
<1>6. /\ a \o b \in Seq(S) /\ Len(a \o b) = Len(s) - 1
      /\ \A n \in 1..(Len(s) - 1) : (a \o b)[n] = IF n < p THEN s[n] ELSE s[n + 1]
  <2>1. a \o b \in Seq(S) /\ Len(a \o b) = Len(a) + Len(b)
    BY <1>3, <1>4, ConcatProperties
  <2>2. ASSUME NEW n \in 1..(Len(a) + Len(b))
        PROVE  (a \o b)[n] = IF n <= Len(a) THEN a[n] ELSE b[n - Len(a)]
    BY <1>3, <1>4
  <2>3. ASSUME NEW n \in 1..(Len(s) - 1)
        PROVE  (a \o b)[n] = IF n < p THEN s[n] ELSE s[n + 1]
    <3>1. n \in 1..(Len(a) + Len(b))
      BY <1>1, <1>3, <1>4
    <3>2. CASE n < p
      BY <1>1, <1>3, <2>2, <3>1, <3>2
    <3>3. CASE ~(n < p)
      BY <1>1, <3>3, <1>3, <1>4, <2>2, <3>1
    <3> QED BY <3>2, <3>3
  <2> QED BY <1>1, <1>3, <1>4, <2>1, <2>3
<1> QED BY <1>5, <1>6

-----------------------------------------------------------------------------
(* The cache: the inductive invariant.                                     *)

Entry == [key : CacheKeys, value : Nat, expires : Nat, readAt : Nat, took : Nat, raced : BOOLEAN]
Load == [step : {"none", "asking", "storing"}, value : Nat, readAt : Nat, raced : BOOLEAN]

CacheTypes ==
  /\ entries \in [Instances -> Seq(Entry)] /\ loading \in [Instances -> [CacheKeys -> Load]]
  /\ version \in Nat /\ untold \subseteq 1..version /\ cleared \in [Instances -> 0..version] /\ cacheClock \in Nat

\* An entry says when it was read and how long that took, and is as new as the last change its instance heard of,
\* unless it raced it.
EntrySound(e, c) == e.expires = e.readAt + e.took + TTL /\ (e.value >= c \/ e.raced)
OfOneKeyEach(es) == \A m, n \in 1..Len(es) : es[m].key = es[n].key => m = n
EntriesSound(es, c) == Len(es) <= MAX_ENTRIES /\ OfOneKeyEach(es) /\ \A n \in 1..Len(es) : EntrySound(es[n], c)
CacheSound == \A i \in Instances : EntriesSound(entries[i], cleared[i])

\* A load that is about to store read the database by now, and after the last change its instance heard of, or raced it.
LoadSound(l, c, now) ==
  /\ l.readAt <= now
  /\ l.step = "storing" => l.value >= c \/ l.raced
  /\ l.value <= version
LoadsSound == \A i \in Instances, k \in CacheKeys : LoadSound(loading[i][k], cleared[i], cacheClock)

CacheInv == CacheTypes /\ CacheSound /\ LoadsSound

\* Without a key: its entry goes and the others stay.
LEMMA WithoutKey ==
  ASSUME NEW es \in Seq(Entry), NEW c, EntriesSound(es, c), NEW k \in CacheKeys
  PROVE  /\ Without(es, k) \in Seq(Entry) /\ EntriesSound(Without(es, k), c)
         /\ has(es, k) => Len(Without(es, k)) < MAX_ENTRIES
         /\ \A n \in 1..Len(Without(es, k)) : Without(es, k)[n].key # k
<1>1. DOMAIN es = 1..Len(es) /\ Len(es) \in Nat
  BY LenProperties
<1>2. CASE ~has(es, k)
  BY <1>2, <1>1 DEF Without, has, At
<1>3. CASE has(es, k)
  <2> DEFINE p == CHOOSE n \in At(es, k) : TRUE
             w == RemoveAt(es, p)
  <2>1. p \in 1..Len(es) /\ es[p].key = k
    BY <1>1, <1>3 DEF has, At
  <2>2. Without(es, k) = w
    BY <1>3 DEF Without
  <2> HIDE DEF p
  <2>3. /\ w \in Seq(Entry) /\ Len(w) = Len(es) - 1
        /\ \A n \in 1..(Len(es) - 1) : w[n] = IF n < p THEN es[n] ELSE es[n + 1]
    BY <2>1, Removed
  <2> HIDE DEF w
  <2>4. MAX_ENTRIES \in Nat
    BY PublicCacheAssumption
  <2>5. ASSUME NEW n \in 1..Len(w)
        PROVE  \E m \in 1..Len(es) : w[n] = es[m] /\ m # p /\ m = IF n < p THEN n ELSE n + 1
    <3>1. Len(es) \in Nat /\ p \in Nat /\ n \in Nat /\ n <= Len(es) - 1
      BY <1>1, <2>1, <2>3
    <3>2. w[n] = IF n < p THEN es[n] ELSE es[n + 1]
      BY <2>3, <2>5, <3>1
    <3>3. CASE n < p
      BY <2>5, <3>1, <3>2, <3>3
    <3>4. CASE ~(n < p)
      BY <2>5, <3>1, <3>2, <3>4
    <3> QED
      BY <3>3, <3>4
  <2>6. OfOneKeyEach(w)
    BY <2>5, <1>1, <2>1, <2>3 DEF OfOneKeyEach, EntriesSound
  <2>7. ASSUME NEW n \in 1..Len(w) PROVE EntrySound(w[n], c) /\ w[n].key # k
    BY <2>5, <2>1 DEF EntriesSound, OfOneKeyEach
  <2>8. Len(w) <= MAX_ENTRIES /\ Len(w) < MAX_ENTRIES
    BY <1>1, <2>3, <2>4 DEF EntriesSound
  <2> QED BY <2>2, <2>3, <2>6, <2>7, <2>8 DEF EntriesSound
<1> QED BY <1>2, <1>3

\* An entry added at the end, under a key that no other has.
LEMMA Added ==
  ASSUME NEW es \in Seq(Entry), NEW c, EntriesSound(es, c), NEW e \in Entry, EntrySound(e, c),
         \A n \in 1..Len(es) : es[n].key # e.key
  PROVE  /\ Append(es, e) \in Seq(Entry) /\ OfOneKeyEach(Append(es, e)) /\ Len(Append(es, e)) = Len(es) + 1
         /\ \A n \in 1..Len(Append(es, e)) : EntrySound(Append(es, e)[n], c)
<1> DEFINE a == Append(es, e)
<1>1. /\ a \in Seq(Entry) /\ Len(a) = Len(es) + 1 /\ a[Len(es) + 1] = e
      /\ \A n \in 1..Len(es) : a[n] = es[n]
  BY AppendProperties
<1>2. Len(es) \in Nat
  BY LenProperties
<1> HIDE DEF a
<1>3. OfOneKeyEach(a)
  BY <1>1, <1>2 DEF OfOneKeyEach, EntriesSound
<1>4. ASSUME NEW n \in 1..Len(a) PROVE EntrySound(a[n], c)
  BY <1>1, <1>2 DEF EntriesSound
<1> QED BY <1>1, <1>3, <1>4 DEF a

\* Storing a sound entry in a cache keeps its entries sound.
LEMMA SetSound ==
  ASSUME NEW es \in Seq(Entry), NEW c, EntriesSound(es, c), NEW e \in Entry, EntrySound(e, c)
  PROVE  set(es, e) \in Seq(Entry) /\ EntriesSound(set(es, e), c)
<1> DEFINE w == Without(es, e.key)
           all == Append(w, e)
<1>1. e.key \in CacheKeys
  BY DEF Entry
<1>2. w \in Seq(Entry) /\ EntriesSound(w, c) /\ \A n \in 1..Len(w) : w[n].key # e.key
  BY <1>1, WithoutKey
<1> HIDE DEF w
<1>3. /\ all \in Seq(Entry) /\ OfOneKeyEach(all) /\ Len(all) = Len(w) + 1
      /\ \A n \in 1..Len(all) : EntrySound(all[n], c)
  BY <1>2, Added
<1>4. set(es, e) = IF Len(all) > MAX_ENTRIES THEN Tail(all) ELSE all
  BY DEF set, w
<1> HIDE DEF all
<1>5. MAX_ENTRIES \in Nat /\ Len(w) \in Nat /\ Len(w) <= MAX_ENTRIES
  BY <1>2, PublicCacheAssumption, LenProperties DEF EntriesSound
<1>6. CASE Len(all) > MAX_ENTRIES
  <2>1. all # <<>>
    BY <1>3, <1>5, EmptySeq
  <2>2. /\ Tail(all) \in Seq(Entry) /\ Len(Tail(all)) = Len(all) - 1
        /\ \A n \in 1..Len(Tail(all)) : Tail(all)[n] = all[n + 1]
    BY <1>3, <2>1, HeadTailProperties
  <2>3. OfOneKeyEach(Tail(all))
    BY <1>3, <1>5, <2>2 DEF OfOneKeyEach
  <2>4. \A n \in 1..Len(Tail(all)) : EntrySound(Tail(all)[n], c)
    BY <1>3, <1>5, <2>2
  <2> QED BY <1>3, <1>4, <1>5, <1>6, <2>2, <2>3, <2>4 DEF EntriesSound
<1>7. CASE ~(Len(all) > MAX_ENTRIES)
  BY <1>3, <1>4, <1>5, <1>7 DEF EntriesSound
<1> QED BY <1>6, <1>7

\* A hit moves its entry to the end.
LEMMA GetSound ==
  ASSUME NEW es \in Seq(Entry), NEW c, EntriesSound(es, c), NEW k \in CacheKeys, has(es, k)
  PROVE  get(es, k) \in Seq(Entry) /\ EntriesSound(get(es, k), c)
<1>1. /\ Without(es, k) \in Seq(Entry) /\ EntriesSound(Without(es, k), c) /\ Len(Without(es, k)) < MAX_ENTRIES
      /\ \A n \in 1..Len(Without(es, k)) : Without(es, k)[n].key # k
  BY WithoutKey
<1>2. Of(es, k) \in Entry /\ Of(es, k).key = k /\ EntrySound(Of(es, k), c)
  BY LenProperties, ElementOfSeq DEF Of, has, At, EntriesSound
<1>3. /\ get(es, k) \in Seq(Entry) /\ OfOneKeyEach(get(es, k)) /\ Len(get(es, k)) = Len(Without(es, k)) + 1
      /\ \A n \in 1..Len(get(es, k)) : EntrySound(get(es, k)[n], c)
  BY <1>1, <1>2, Added DEF get
<1>4. Len(Without(es, k)) \in Nat /\ MAX_ENTRIES \in Nat
  BY <1>1, PublicCacheAssumption, LenProperties
<1> QED BY <1>1, <1>3, <1>4 DEF EntriesSound

\* An older hearing is enough for an entry that knows of a newer one.
LEMMA NothingSound == ASSUME NEW c PROVE <<>> \in Seq(Entry) /\ EntriesSound(<<>>, c)
<1>1. <<>> \in Seq(Entry) /\ Len(<<>>) = 0 /\ MAX_ENTRIES \in Nat
  BY EmptySeq, PublicCacheAssumption
<1> QED BY <1>1 DEF EntriesSound, OfOneKeyEach

\* Instances start with empty caches.
LEMMA CacheStart == CacheInit => CacheInv
<1> SUFFICES ASSUME CacheInit PROVE CacheInv
  OBVIOUS
<1>1. NoLoad \in Load /\ LoadSound(NoLoad, 0, 0)
  BY DEF CacheInit, NoLoad, Load, LoadSound
<1>2. CacheTypes
  BY <1>1, NothingSound DEF CacheInit, CacheTypes
<1>3. CacheSound
  BY NothingSound DEF CacheInit, CacheSound
<1>4. LoadsSound
  BY <1>1 DEF CacheInit, LoadsSound
<1> QED BY <1>2, <1>3, <1>4 DEF CacheInv

\* A change of the entries of one instance alone.
LEMMA OneCacheChanges ==
  ASSUME CacheInv, NEW i \in Instances, NEW es \in Seq(Entry), EntriesSound(es, cleared[i]),
         entries' = [entries EXCEPT ![i] = es], Kept
  PROVE  entries' \in [Instances -> Seq(Entry)] /\ CacheSound'
<1>1. \A j \in Instances : entries'[j] = IF j = i THEN es ELSE entries[j]
  BY DEF CacheInv, CacheTypes
<1>2. cleared' = cleared
  BY DEF Kept
<1>3. ASSUME NEW j \in Instances PROVE EntriesSound(entries'[j], cleared[j])
  BY <1>1 DEF CacheInv, CacheSound
<1>4. CacheSound' <=> \A j \in Instances : EntriesSound(entries'[j], cleared'[j])
  BY DEF CacheSound, EntriesSound, EntrySound
<1> QED BY <1>2, <1>3, <1>4 DEF CacheInv, CacheTypes

\* A change of one load alone.
LEMMA OneLoadChanges ==
  ASSUME CacheInv, NEW i \in Instances, NEW k \in CacheKeys, NEW l \in Load, LoadSound(l, cleared[i], cacheClock),
         loading' = [loading EXCEPT ![i][k] = l], Kept
  PROVE  loading' \in [Instances -> [CacheKeys -> Load]] /\ LoadsSound'
<1>1. loading \in [Instances -> [CacheKeys -> Load]]
  BY DEF CacheInv, CacheTypes
<1>2. loading' \in [Instances -> [CacheKeys -> Load]]
  BY <1>1
<1>3. \A j \in Instances, x \in CacheKeys : loading'[j][x] = IF j = i /\ x = k THEN l ELSE loading[j][x]
  BY <1>1
<1>4. version' = version /\ cleared' = cleared /\ cacheClock' = cacheClock
  BY DEF Kept
<1>5. \A j \in Instances, x \in CacheKeys : LoadSound(loading'[j][x], cleared[j], cacheClock)
  BY <1>3 DEF CacheInv, LoadsSound
<1> QED BY <1>2, <1>4, <1>5 DEF LoadsSound, LoadSound

\* A step that leaves the catalog, and of the caches only sound ones, keeps the invariant.
LEMMA CacheKept ==
  ASSUME CacheInv, Kept, entries' \in [Instances -> Seq(Entry)], CacheSound',
         loading' \in [Instances -> [CacheKeys -> Load]], LoadsSound'
  PROVE  CacheInv'
<1>1. CacheTypes'
  BY DEF CacheInv, CacheTypes, Kept
<1> QED BY <1>1 DEF CacheInv

\* Loads that nobody touched stay sound.
LEMMA SameLoads ==
  ASSUME CacheInv, Kept, UNCHANGED loading
  PROVE  loading' \in [Instances -> [CacheKeys -> Load]] /\ LoadsSound'
BY DEF CacheInv, CacheTypes, Kept, LoadsSound, LoadSound

\* Entries that nobody touched stay sound.
LEMMA SameEntries ==
  ASSUME CacheInv, Kept, UNCHANGED entries
  PROVE  entries' \in [Instances -> Seq(Entry)] /\ CacheSound'
BY DEF CacheInv, CacheTypes, Kept, CacheSound, EntriesSound, OfOneKeyEach, EntrySound

\* What the parts of the invariant say of one instance and key.
LEMMA CacheFacts ==
  ASSUME CacheInv, NEW i \in Instances, NEW k \in CacheKeys
  PROVE  /\ entries[i] \in Seq(Entry) /\ EntriesSound(entries[i], cleared[i])
         /\ loading[i][k] \in Load /\ LoadSound(loading[i][k], cleared[i], cacheClock)
         /\ cleared[i] \in Nat /\ cleared[i] <= version /\ version \in Nat /\ cacheClock \in Nat /\ TTL \in Nat
BY PublicCacheAssumption DEF CacheInv, CacheTypes, CacheSound, LoadsSound

\* An answer from the cache keeps the invariant.
LEMMA CacheHit == ASSUME CacheInv, NEW i \in Instances, NEW k \in CacheKeys, hit(i, k) PROVE CacheInv'
<1>1. Kept /\ UNCHANGED loading /\ entries' = [entries EXCEPT ![i] = get(entries[i], k)] /\ has(entries[i], k)
  BY DEF hit
<1>2. get(entries[i], k) \in Seq(Entry) /\ EntriesSound(get(entries[i], k), cleared[i])
  BY <1>1, CacheFacts, GetSound
<1>3. entries' \in [Instances -> Seq(Entry)] /\ CacheSound'
  BY <1>1, <1>2, OneCacheChanges
<1> QED BY <1>1, <1>3, SameLoads, CacheKept

\* Starting a load keeps the invariant.
LEMMA CacheMiss == ASSUME CacheInv, NEW i \in Instances, NEW k \in CacheKeys, miss(i, k) PROVE CacheInv'
<1> DEFINE l == [loading[i][k] EXCEPT !.step = "asking"]
<1>1. /\ Kept /\ entries' = [entries EXCEPT ![i] = Without(entries[i], k)]
      /\ loading' = [loading EXCEPT ![i][k].step = "asking"]
  BY DEF miss
<1>2. loading' = [loading EXCEPT ![i][k] = l]
  BY <1>1
<1>3. l \in Load /\ LoadSound(l, cleared[i], cacheClock)
  BY CacheFacts DEF Load, LoadSound
<1> HIDE DEF l
<1>4. Without(entries[i], k) \in Seq(Entry) /\ EntriesSound(Without(entries[i], k), cleared[i])
  BY CacheFacts, WithoutKey
<1>5. entries' \in [Instances -> Seq(Entry)] /\ CacheSound'
  BY <1>1, <1>4, OneCacheChanges
<1>6. loading' \in [Instances -> [CacheKeys -> Load]] /\ LoadsSound'
  BY <1>1, <1>2, <1>3, OneLoadChanges
<1> QED BY <1>1, <1>5, <1>6, CacheKept

\* Reading the catalog for a load keeps the invariant.
LEMMA CacheLoad == ASSUME CacheInv, NEW i \in Instances, NEW k \in CacheKeys, load(i, k) PROVE CacheInv'
<1> DEFINE l == [loading[i][k] EXCEPT !.step = "storing", !.value = version, !.readAt = cacheClock]
<1>1. Kept /\ UNCHANGED entries /\ loading' = [loading EXCEPT ![i][k] = l]
  BY DEF load
<1>2. l \in Load /\ LoadSound(l, cleared[i], cacheClock)
  <2>1. /\ loading[i][k] \in Load /\ cleared[i] \in Nat /\ cleared[i] <= version
        /\ version \in Nat /\ cacheClock \in Nat
    BY CacheFacts
  <2>2. l \in Load /\ l.step = "storing" /\ l.value = version /\ l.readAt = cacheClock
    BY <2>1 DEF Load
  <2> HIDE DEF l
  <2> QED BY <2>1, <2>2 DEF LoadSound
<1> HIDE DEF l
<1>3. loading' \in [Instances -> [CacheKeys -> Load]] /\ LoadsSound'
  BY <1>1, <1>2, OneLoadChanges
<1> QED BY <1>1, <1>3, SameEntries, CacheKept

\* No load is a sound one.
LEMMA QuietSound == ASSUME NEW c \in Nat, NEW now \in Nat, version \in Nat PROVE NoLoad \in Load /\ LoadSound(NoLoad, c, now)
BY DEF NoLoad, Load, LoadSound

\* Storing what a load read keeps the invariant, the catalog having changed since or not.
LEMMA CacheStore == ASSUME CacheInv, NEW i \in Instances, NEW k \in CacheKeys, store(i, k) PROVE CacheInv'
<1> DEFINE l == loading[i][k]
           e == [key |-> k, value |-> l.value, expires |-> cacheClock + TTL, readAt |-> l.readAt,
                 took |-> cacheClock - l.readAt, raced |-> l.raced]
<1>1. /\ Kept /\ l.step = "storing" /\ entries' = [entries EXCEPT ![i] = set(entries[i], e)]
      /\ loading' = [loading EXCEPT ![i][k] = NoLoad]
  BY DEF store
<1>2. l \in Load /\ LoadSound(l, cleared[i], cacheClock) /\ cacheClock \in Nat /\ TTL \in Nat
  BY CacheFacts
<1>3. e \in Entry /\ EntrySound(e, cleared[i])
  <2>1. l.value \in Nat /\ l.readAt \in Nat /\ l.readAt <= cacheClock /\ l.raced \in BOOLEAN
    BY <1>2 DEF Load, LoadSound
  <2>2. cacheClock - l.readAt \in Nat /\ cacheClock + TTL = l.readAt + (cacheClock - l.readAt) + TTL
    BY <1>2, <2>1
  <2>3. l.value >= cleared[i] \/ l.raced
    BY <1>1, <1>2 DEF LoadSound
  <2>4. e \in Entry
    BY <1>2, <2>1, <2>2 DEF Entry
  <2>5. EntrySound(e, cleared[i])
    BY <2>2, <2>3 DEF EntrySound
  <2> QED BY <2>4, <2>5
<1> HIDE DEF e
<1>4. set(entries[i], e) \in Seq(Entry) /\ EntriesSound(set(entries[i], e), cleared[i])
  BY <1>3, CacheFacts, SetSound
<1>5. entries' \in [Instances -> Seq(Entry)] /\ CacheSound'
  BY <1>1, <1>4, OneCacheChanges
<1>6. NoLoad \in Load /\ LoadSound(NoLoad, cleared[i], cacheClock)
  BY CacheFacts, QuietSound
<1>7. loading' \in [Instances -> [CacheKeys -> Load]] /\ LoadsSound'
  BY <1>1, <1>6, OneLoadChanges
<1> QED BY <1>1, <1>5, <1>7, CacheKept

\* A load that fails keeps the invariant.
LEMMA CacheFail == ASSUME CacheInv, NEW i \in Instances, NEW k \in CacheKeys, failLoad(i, k) PROVE CacheInv'
<1>1. Kept /\ UNCHANGED entries /\ loading' = [loading EXCEPT ![i][k] = NoLoad]
  BY DEF failLoad
<1>2. NoLoad \in Load /\ LoadSound(NoLoad, cleared[i], cacheClock)
  BY CacheFacts, QuietSound
<1>3. loading' \in [Instances -> [CacheKeys -> Load]] /\ LoadsSound'
  BY <1>1, <1>2, OneLoadChanges
<1> QED BY <1>1, <1>3, SameEntries, CacheKept

\* An instance that starts again keeps the invariant.
LEMMA CacheRestart == ASSUME CacheInv, NEW i \in Instances, restart(i) PROVE CacheInv'
<1>1. /\ Kept /\ entries' = [entries EXCEPT ![i] = <<>>]
      /\ loading' = [loading EXCEPT ![i] = [k \in CacheKeys |-> NoLoad]]
  BY DEF restart
<1>2. entries' \in [Instances -> Seq(Entry)] /\ CacheSound'
  BY <1>1, NothingSound, OneCacheChanges
<1>3. \A j \in Instances : cleared[j] \in Nat /\ version \in Nat /\ cacheClock \in Nat
  BY DEF CacheInv, CacheTypes
<1>4. NoLoad \in Load /\ \A j \in Instances : LoadSound(NoLoad, cleared[j], cacheClock)
  BY <1>3, QuietSound
<1>5. loading' \in [Instances -> [CacheKeys -> Load]]
  BY <1>1, <1>4 DEF CacheInv, CacheTypes
<1>6. \A j \in Instances, x \in CacheKeys : loading'[j][x] = IF j = i THEN NoLoad ELSE loading[j][x]
  BY <1>1 DEF CacheInv, CacheTypes
<1>7. \A j \in Instances, x \in CacheKeys : LoadSound(loading'[j][x], cleared[j], cacheClock)
  BY <1>4, <1>6 DEF CacheInv, LoadsSound
<1>8. LoadsSound'
  BY <1>1, <1>7 DEF LoadsSound, LoadSound, Kept
<1> QED BY <1>1, <1>2, <1>5, <1>8, CacheKept

\* A change of the catalog keeps the invariant: what is cached gets its time to be cleared.
LEMMA CacheChange == ASSUME CacheInv, NEW told \in BOOLEAN, changeCatalog(told) PROVE CacheInv'
<1>1. version' = version + 1 /\ version \in Nat /\ untold' \subseteq 1..version'
  BY DEF CacheInv, CacheTypes, changeCatalog
<1>2. CacheTypes'
  BY <1>1 DEF CacheInv, CacheTypes, changeCatalog
<1>3. CacheSound'
  BY DEF CacheInv, CacheSound, changeCatalog, EntriesSound, EntrySound, OfOneKeyEach
<1>4. LoadsSound'
  BY CacheFacts, <1>1 DEF LoadsSound, changeCatalog, Load, LoadSound
<1> QED BY <1>2, <1>3, <1>4 DEF CacheInv

\* An event of the catalog clears the cache and keeps the invariant.
LEMMA CacheCleared == ASSUME CacheInv, NEW i \in Instances, NEW n \in 1..MaxVersions, onCatalogEvent(i, n) PROVE CacheInv'
<1> DEFINE c == IF n > cleared[i] THEN n ELSE cleared[i]
<1>1. /\ n \in untold /\ entries' = [entries EXCEPT ![i] = <<>>] /\ cleared' = [cleared EXCEPT ![i] = c]
      /\ untold' \subseteq untold /\ version' = version /\ cacheClock' = cacheClock
      /\ loading' = [loading EXCEPT ![i] = [k \in CacheKeys |-> [loading[i][k] EXCEPT !.raced = @ \/ loading[i][k].step = "storing"]]]
  BY DEF onCatalogEvent, clear
<1>2. c \in 0..version /\ version \in Nat
  BY <1>1 DEF CacheInv, CacheTypes
<1> HIDE DEF c
<1>3. \A k \in CacheKeys : LET l == [loading[i][k] EXCEPT !.raced = @ \/ loading[i][k].step = "storing"] IN
        l \in Load /\ LoadSound(l, c, cacheClock)
  <2> TAKE k \in CacheKeys
  <2> DEFINE l == loading[i][k]
             r == l.raced \/ l.step = "storing"
             m == [l EXCEPT !.raced = r]
  <2>1. l \in Load /\ LoadSound(l, cleared[i], cacheClock)
    BY CacheFacts
  <2> HIDE DEF l
  <2>2. r \in BOOLEAN
    OBVIOUS
  <2>3. l.step = "storing" => r
    OBVIOUS
  <2> HIDE DEF r
  <2>4. m \in Load /\ m.step = l.step /\ m.readAt = l.readAt /\ m.value = l.value /\ m.raced = r
    BY <2>1, <2>2 DEF Load
  <2>5. LoadSound(m, c, cacheClock)
    BY <2>1, <2>3, <2>4 DEF LoadSound
  <2> QED BY <2>4, <2>5 DEF r, l
<1>4. entries' \in [Instances -> Seq(Entry)] /\ cleared' \in [Instances -> 0..version]
  BY <1>1, <1>2, NothingSound DEF CacheInv, CacheTypes
<1>5. \A j \in Instances, x \in CacheKeys :
        loading'[j][x] = IF j = i THEN [loading[i][x] EXCEPT !.raced = @ \/ loading[i][x].step = "storing"] ELSE loading[j][x]
  BY <1>1 DEF CacheInv, CacheTypes
<1>6. loading' \in [Instances -> [CacheKeys -> Load]]
  BY <1>1, <1>3 DEF CacheInv, CacheTypes
<1>7. \A j \in Instances : /\ cleared'[j] = IF j = i THEN c ELSE cleared[j]
                           /\ entries'[j] = IF j = i THEN <<>> ELSE entries[j]
  BY <1>1 DEF CacheInv, CacheTypes
<1>8. CacheTypes'
  BY <1>1, <1>4, <1>6 DEF CacheInv, CacheTypes
<1>9. CacheSound'
  BY <1>7, NothingSound DEF CacheInv, CacheSound, EntriesSound, EntrySound
<1>10. LoadsSound'
  <2>1. \A j \in Instances, x \in CacheKeys : LoadSound(loading'[j][x], cleared'[j], cacheClock)
    BY <1>3, <1>5, <1>7 DEF CacheInv, LoadsSound
  <2> QED BY <1>1, <2>1 DEF LoadsSound, LoadSound
<1> QED BY <1>8, <1>9, <1>10 DEF CacheInv

\* Time passes no deadline.
LEMMA CacheClockTicks == ASSUME CacheInv, CacheTick PROVE CacheInv'
<1>1. cacheClock \in Nat /\ cacheClock' = cacheClock + 1
  BY DEF CacheInv, CacheTypes, CacheTick
<1>2. CacheTypes'
  BY <1>1 DEF CacheInv, CacheTypes, CacheTick
<1>3. CacheSound'
  BY DEF CacheInv, CacheSound, CacheTick, EntriesSound, EntrySound, OfOneKeyEach
<1>4. LoadsSound'
  BY CacheFacts, <1>1 DEF LoadsSound, CacheTick, Load, LoadSound
<1> QED BY <1>2, <1>3, <1>4 DEF CacheInv

\* Each step of visitors, instances, the catalog and time keeps the invariant.
LEMMA CacheStep == CacheInv /\ [CacheNext]_cacheVars => CacheInv'
<1> SUFFICES ASSUME CacheInv, [CacheNext]_cacheVars PROVE CacheInv'
  OBVIOUS
<1>1. ASSUME NEW i \in Instances, NEW k \in CacheKeys, hit(i, k) \/ miss(i, k) \/ load(i, k) \/ store(i, k) \/ failLoad(i, k)
      PROVE  CacheInv'
  BY <1>1, CacheHit, CacheMiss, CacheLoad, CacheStore, CacheFail
<1>2. ASSUME NEW told \in BOOLEAN, changeCatalog(told) PROVE CacheInv'
  BY <1>2, CacheChange
<1>3. ASSUME NEW i \in Instances, restart(i) \/ \E n \in 1..MaxVersions : onCatalogEvent(i, n) PROVE CacheInv'
  BY <1>3, CacheRestart, CacheCleared
<1>4. CASE CacheTick
  BY <1>4, CacheClockTicks
<1>5. CASE UNCHANGED cacheVars
  BY <1>5, SameEntries, SameLoads, CacheKept DEF cacheVars, Kept
<1> QED BY <1>1, <1>2, <1>3, <1>4, <1>5 DEF CacheNext

\* The invariant has what visitors may read.
LEMMA CacheSafe == CacheInv => CacheIsFresh
<1> SUFFICES ASSUME CacheInv PROVE CacheIsFresh
  OBVIOUS
<1>1. ASSUME NEW i \in Instances
      PROVE  /\ DOMAIN entries[i] = 1..Len(entries[i]) /\ EntriesSound(entries[i], cleared[i])
             /\ \A n \in 1..Len(entries[i]) : entries[i][n] \in Entry
  BY LenProperties, ElementOfSeq DEF CacheInv, CacheTypes, CacheSound
<1>2. ASSUME NEW i \in Instances, NEW e \in Values(i)
      PROVE  e \in Entry /\ EntrySound(e, cleared[i])
  BY <1>1 DEF Values, EntriesSound
<1>3. StaleAtMostTTL
  BY <1>2, PublicCacheAssumption DEF StaleAtMostTTL, Entry, EntrySound, expired, CacheInv, CacheTypes
<1>4. ClearedUnlessRaced
  BY <1>2 DEF ClearedUnlessRaced, EntrySound
<1>5. CacheIsBounded
  BY <1>1 DEF CacheIsBounded, EntriesSound, OfOneKeyEach
<1> QED BY <1>3, <1>4, <1>5 DEF CacheIsFresh

\* The cache of public reads: whatever instances load, use, clear and restart, nothing that can be answered is older than
\* the time to live and the load it came from, nor older than the last change its instance heard of but for a load that
\* raced it, and the cache keeps to its limit.
THEOREM CacheIsAlwaysFresh == CacheSpec => []CacheIsFresh
<1>1. CacheInit => CacheInv
  BY CacheStart
<1>2. CacheInv /\ [CacheNext]_cacheVars => CacheInv'
  BY CacheStep
<1>3. CacheInv => CacheIsFresh
  BY CacheSafe
<1> QED BY <1>1, <1>2, <1>3, PTL DEF CacheSpec

-----------------------------------------------------------------------------
(* Products: the inductive invariant.                                      *)

Variant == [status : {"ACTIVE", "DISCONTINUED"}, sku : Skus, options : Options]
ProductRow == [status : {"DRAFT", "PUBLISHED", "ARCHIVED"}, firstPublished : BOOLEAN, slug : Slugs,
               variants : UNION {[D -> Variant] : D \in SUBSET ProductVariantIds}, version : Nat]

OneNames(row) == \A v, u \in ids(row) : row.variants[v].options.names = row.variants[u].options.names
\* What a later row keeps of one that was published.
Keeps(row, next) ==
  row.firstPublished =>
    /\ next.slug = row.slug /\ next.firstPublished
    /\ \A v \in ids(row) : /\ v \in ids(next)
                           /\ next.variants[v].sku = row.variants[v].sku /\ next.variants[v].options = row.variants[v].options
\* What a change makes of a row.
Changes(row, next) == next \in ProductRow /\ next.version = row.version /\ OneNames(next) /\ Keeps(row, next)

\* A change of the current version is one of the product there is.
EditSound(edit) ==
  edit.reading =>
    /\ edit.row \in ProductRow /\ OneNames(edit.row) /\ edit.row.version <= product.version
    /\ edit.row.version = product.version => Keeps(product, edit.row)
ProductsInv ==
  /\ product \in ProductRow /\ OneNames(product)
  /\ productEdits \in [ProductEditors -> [reading : BOOLEAN, row : ProductRow \cup {<<>>}]]
  /\ \A e \in ProductEditors : EditSound(productEdits[e])

\* The fields of a product are as they are declared.
LEMMA RowFields ==
  ASSUME NEW row \in ProductRow
  PROVE  /\ row.status \in {"DRAFT", "PUBLISHED", "ARCHIVED"} /\ row.firstPublished \in BOOLEAN /\ row.slug \in Slugs
         /\ row.version \in Nat /\ ids(row) \subseteq ProductVariantIds
         /\ row.variants \in [ids(row) -> Variant]
<1>1. PICK D \in SUBSET ProductVariantIds : row.variants \in [D -> Variant]
  BY DEF ProductRow
<1>2. ids(row) = D
  BY <1>1 DEF ids
<1> QED BY <1>1, <1>2 DEF ProductRow

\* A row with one variant added or changed.
LEMMA WithVariant ==
  ASSUME NEW row \in ProductRow, NEW v \in ProductVariantIds, NEW variant \in Variant
  PROVE  LET next == withVariant(row, v, variant) IN
         /\ next \in ProductRow /\ next.version = row.version /\ next.slug = row.slug
         /\ next.firstPublished = row.firstPublished /\ ids(next) = ids(row) \cup {v}
         /\ \A u \in ids(next) : next.variants[u] = IF u = v THEN variant ELSE row.variants[u]
<1> DEFINE m == [u \in ids(row) \cup {v} |-> IF u = v THEN variant ELSE row.variants[u]]
           next == [row EXCEPT !.variants = m]
<1>1. m \in [ids(row) \cup {v} -> Variant] /\ ids(row) \cup {v} \in SUBSET ProductVariantIds
  BY RowFields
<1>2. m \in UNION {[D -> Variant] : D \in SUBSET ProductVariantIds}
  BY <1>1
<1>3. DOMAIN m = ids(row) \cup {v} /\ \A u \in ids(row) \cup {v} : m[u] = IF u = v THEN variant ELSE row.variants[u]
  OBVIOUS
<1> HIDE DEF m
<1>4. /\ next \in ProductRow /\ next.version = row.version /\ next.slug = row.slug
      /\ next.firstPublished = row.firstPublished /\ next.variants = m
  BY <1>2 DEF ProductRow
<1>5. withVariant(row, v, variant) = next
  BY DEF withVariant, m
<1> HIDE DEF next
<1> QED BY <1>3, <1>4, <1>5 DEF ids

\* assertOptionNames looks at one of the others, which all have the same names.
LEMMA OptionNamesAgree ==
  ASSUME NEW row \in ProductRow, OneNames(row), NEW v, NEW names, hasOptionNames(row, v, names),
         NEW u \in ids(row) \ {v}
  PROVE  row.variants[u].options.names = names
<1> DEFINE S == {row.variants[x] : x \in ids(row) \ {v}}
           chosen == CHOOSE variant \in S : TRUE
<1>1. row.variants[u] \in S
  OBVIOUS
<1>2. chosen \in S
  BY <1>1
<1>3. PICK x \in ids(row) \ {v} : chosen = row.variants[x]
  BY <1>2
<1>4. chosen.options.names = names
  BY DEF hasOptionNames
<1> QED BY <1>3, <1>4 DEF OneNames

\* Editing the details of a product is a change its history allows.
LEMMA DetailsChange ==
  ASSUME NEW row \in ProductRow, OneNames(row), NEW slug \in Slugs, NEW next \in editDetails(row, slug)
  PROVE  Changes(row, next)
<1>1. next = [row EXCEPT !.slug = slug] /\ (slug # row.slug => ~row.firstPublished)
  BY DEF editDetails
<1>2. /\ next \in ProductRow /\ next.version = row.version /\ next.slug = slug
      /\ next.firstPublished = row.firstPublished /\ next.variants = row.variants
  BY <1>1 DEF ProductRow
<1> QED BY <1>1, <1>2 DEF Changes, OneNames, Keeps, ids

\* So is adding a variant.
LEMMA AddChange ==
  ASSUME NEW row \in ProductRow, OneNames(row), NEW v \in ProductVariantIds, NEW sku \in Skus, NEW o \in Options,
         NEW next \in addVariant(row, v, sku, o)
  PROVE  Changes(row, next)
<1> DEFINE variant == [status |-> "ACTIVE", sku |-> sku, options |-> o]
<1>1. variant \in Variant /\ variant.options = o
  BY DEF Variant
<1> HIDE DEF variant
<1>2. next = withVariant(row, v, variant) /\ v \notin ids(row) /\ hasOptionNames(row, v, o.names)
  BY DEF addVariant, variant
<1>3. /\ next \in ProductRow /\ next.version = row.version /\ next.slug = row.slug
      /\ next.firstPublished = row.firstPublished /\ ids(next) = ids(row) \cup {v}
      /\ \A u \in ids(next) : next.variants[u] = IF u = v THEN variant ELSE row.variants[u]
  BY <1>1, <1>2, WithVariant
<1>4. \A u \in ids(row) : row.variants[u].options.names = o.names
  BY <1>2, OptionNamesAgree
<1>5. OneNames(next)
  BY <1>1, <1>3, <1>4 DEF OneNames
<1>6. Keeps(row, next)
  BY <1>2, <1>3 DEF Keeps
<1> QED BY <1>3, <1>5, <1>6 DEF Changes

\* So is editing a variant.
LEMMA UpdateChange ==
  ASSUME NEW row \in ProductRow, OneNames(row), NEW v \in ids(row), NEW sku \in Skus, NEW o \in Options,
         NEW next \in updateVariant(row, v, sku, o)
  PROVE  Changes(row, next)
<1> DEFINE current == row.variants[v]
           variant == [current EXCEPT !.sku = sku, !.options = o]
<1>1. current \in Variant /\ v \in ProductVariantIds
  BY RowFields
<1>2. variant \in Variant /\ variant.options = o /\ variant.sku = sku
  BY <1>1 DEF Variant
<1> HIDE DEF variant
<1>3. /\ next = withVariant(row, v, variant)
      /\ sku # current.sku => ~row.firstPublished
      /\ o # current.options => ~row.firstPublished /\ hasOptionNames(row, v, o.names)
  BY DEF updateVariant, variant
<1>4. /\ next \in ProductRow /\ next.version = row.version /\ next.slug = row.slug
      /\ next.firstPublished = row.firstPublished /\ ids(next) = ids(row) \cup {v}
      /\ \A u \in ids(next) : next.variants[u] = IF u = v THEN variant ELSE row.variants[u]
  BY <1>1, <1>2, <1>3, WithVariant
<1>5. \A u \in ids(row) \ {v} : row.variants[u].options.names = o.names
  BY <1>3, OptionNamesAgree DEF OneNames
<1>6. OneNames(next)
  BY <1>2, <1>4, <1>5 DEF OneNames
<1>7. Keeps(row, next)
  BY <1>2, <1>3, <1>4 DEF Keeps
<1> QED BY <1>4, <1>6, <1>7 DEF Changes

\* A new status for a variant.
LEMMA StatusChange ==
  ASSUME NEW row \in ProductRow, OneNames(row), NEW v \in ids(row), NEW status \in {"ACTIVE", "DISCONTINUED"},
         NEW next, next = withVariant(row, v, [row.variants[v] EXCEPT !.status = status])
  PROVE  Changes(row, next)
<1> DEFINE variant == [row.variants[v] EXCEPT !.status = status]
<1>1. row.variants[v] \in Variant /\ v \in ProductVariantIds
  BY RowFields
<1>2. variant \in Variant /\ variant.options = row.variants[v].options /\ variant.sku = row.variants[v].sku
  BY <1>1 DEF Variant
<1> HIDE DEF variant
<1>3. /\ next \in ProductRow /\ next.version = row.version /\ next.slug = row.slug
      /\ next.firstPublished = row.firstPublished /\ ids(next) = ids(row) \cup {v}
      /\ \A u \in ids(next) : next.variants[u] = IF u = v THEN variant ELSE row.variants[u]
  BY <1>1, <1>2, WithVariant DEF variant
<1>4. OneNames(next)
  BY <1>2, <1>3 DEF OneNames
<1>5. Keeps(row, next)
  BY <1>2, <1>3 DEF Keeps
<1> QED BY <1>3, <1>4, <1>5 DEF Changes

\* So are publishing, archiving and reactivating it.
LEMMA LifecycleChange ==
  ASSUME NEW row \in ProductRow, OneNames(row), NEW next \in publish(row) \cup archive(row) \cup reactivate(row)
  PROVE  Changes(row, next)
<1>1. PICK status \in {"DRAFT", "PUBLISHED", "ARCHIVED"} :
        \/ next = [row EXCEPT !.status = status, !.firstPublished = TRUE]
        \/ next = [row EXCEPT !.status = status]
  BY DEF publish, archive, reactivate
<1>2. CASE next = [row EXCEPT !.status = status, !.firstPublished = TRUE]
  <2>1. /\ next \in ProductRow /\ next.version = row.version /\ next.slug = row.slug
        /\ next.firstPublished = TRUE /\ next.variants = row.variants
    BY <1>2 DEF ProductRow
  <2> QED BY <2>1 DEF Changes, OneNames, Keeps, ids
<1>3. CASE next = [row EXCEPT !.status = status]
  BY <1>3 DEF ProductRow, Changes, OneNames, Keeps, ids
<1> QED BY <1>1, <1>2, <1>3

\* Whatever a change reads of the product, it makes a change of it.
LEMMA ReadChange ==
  ASSUME ProductsInv, NEW e \in ProductEditors, NEW rows, \A row \in rows : Changes(product, row), readProduct(e, rows)
  PROVE  ProductsInv'
<1>1. PICK row \in rows : productEdits' = [productEdits EXCEPT ![e] = [reading |-> TRUE, row |-> row]]
  BY DEF readProduct
<1>2. product' = product
  BY DEF readProduct
<1>3. Changes(product, row)
  OBVIOUS
<1>4. productEdits' \in [ProductEditors -> [reading : BOOLEAN, row : ProductRow \cup {<<>>}]]
  BY <1>1, <1>3 DEF ProductsInv, Changes
<1>5. product.version \in Nat
  BY RowFields DEF ProductsInv
<1>6. ASSUME NEW d \in ProductEditors PROVE EditSound(productEdits'[d])
  <2>1. CASE d = e
    BY <1>1, <2>1, <1>3, <1>5 DEF ProductsInv, EditSound, Changes
  <2>2. CASE d # e
    BY <1>1, <2>2 DEF ProductsInv
  <2> QED BY <2>1, <2>2
<1>7. (\A d \in ProductEditors : EditSound(productEdits[d]))'
  BY <1>2, <1>6 DEF EditSound
<1> QED BY <1>2, <1>4, <1>7 DEF ProductsInv

\* A save: the product becomes what a change of the current version made of it, and the other changes are of older ones.
LEMMA SaveChange ==
  ASSUME ProductsInv, NEW e \in ProductEditors, saveProduct(e)
  PROVE  ProductsInv' /\ Keeps(product, product')
<1> DEFINE row == productEdits[e].row
           saved == [row EXCEPT !.version = @ + 1]
<1>1. /\ productEdits[e].reading /\ productEdits' = [productEdits EXCEPT ![e] = NoProductEdit]
      /\ product' = IF row.version = product.version THEN saved ELSE product
  BY DEF saveProduct, isSameVersion
<1>2. EditSound(productEdits[e])
  BY DEF ProductsInv
<1>3. /\ row \in ProductRow /\ OneNames(row) /\ row.version <= product.version
      /\ row.version = product.version => Keeps(product, row)
  BY <1>1, <1>2 DEF EditSound
<1> HIDE DEF row
<1>4. productEdits' \in [ProductEditors -> [reading : BOOLEAN, row : ProductRow \cup {<<>>}]]
  BY <1>1 DEF ProductsInv, NoProductEdit
<1>5. \A d \in ProductEditors : productEdits'[d] = IF d = e THEN NoProductEdit ELSE productEdits[d]
  BY <1>1 DEF ProductsInv
<1>6. ~NoProductEdit.reading
  BY DEF NoProductEdit
<1>7. CASE row.version # product.version
  BY <1>1, <1>7, <1>5, <1>6, <1>4 DEF ProductsInv, EditSound, Keeps
<1>8. CASE row.version = product.version
  <2>1. product' = saved
    BY <1>1, <1>8
  <2>2. /\ row.version \in Nat /\ saved \in ProductRow /\ saved.version = row.version + 1 /\ saved.slug = row.slug
        /\ saved.firstPublished = row.firstPublished /\ saved.variants = row.variants
    BY <1>3 DEF ProductRow
  <2> HIDE DEF saved
  <2>3. OneNames(saved) /\ Keeps(product, saved)
    BY <1>3, <1>8, <2>2 DEF OneNames, Keeps, ids
  <2>4. ASSUME NEW d \in ProductEditors, productEdits'[d].reading
        PROVE  /\ productEdits'[d].row \in ProductRow /\ OneNames(productEdits'[d].row)
               /\ productEdits'[d].row.version < saved.version
    BY <1>5, <1>6, <2>4, RowFields, <1>8, <2>2 DEF ProductsInv, EditSound
  <2>5. ASSUME NEW d \in ProductEditors PROVE EditSound(productEdits[d])'
    BY <2>2, <2>4, RowFields, <2>1 DEF EditSound, OneNames, Keeps, ids
  <2> QED BY <1>4, <2>1, <2>2, <2>3, <2>5 DEF ProductsInv
<1> QED BY <1>7, <1>8

\* No product is there at first.
LEMMA ProductsStart == ProductsInit => ProductsInv
<1> SUFFICES ASSUME ProductsInit PROVE ProductsInv
  OBVIOUS
<1>1. PICK slug \in Slugs :
        product = [status |-> "DRAFT", firstPublished |-> FALSE, slug |-> slug, variants |-> <<>>, version |-> 1]
  BY DEF ProductsInit
<1>2. <<>> \in [1..0 -> Variant] /\ 1..0 = {}
  BY EmptySeq, LenProperties
<1>3. <<>> \in UNION {[D -> Variant] : D \in SUBSET ProductVariantIds}
  BY <1>2
<1>4. product \in ProductRow
  BY <1>1, <1>3 DEF ProductRow
<1>5. OneNames(product)
  BY <1>1, <1>2 DEF OneNames, ids
<1>6. \A e \in ProductEditors : productEdits[e] = NoProductEdit
  BY DEF ProductsInit
<1>7. productEdits \in [ProductEditors -> [reading : BOOLEAN, row : ProductRow \cup {<<>>}]]
  BY DEF ProductsInit, NoProductEdit
<1>8. \A e \in ProductEditors : EditSound(productEdits[e])
  BY <1>6 DEF EditSound, NoProductEdit
<1> QED BY <1>4, <1>5, <1>7, <1>8 DEF ProductsInv

\* A step of one change: it reads, and the product stays, or it saves.
LEMMA ProductStep ==
  ASSUME ProductsInv, NEW e \in ProductEditors,
         startDetails(e) \/ startAdd(e) \/ startUpdate(e) \/ startVariantStatus(e) \/ startLifecycle(e) \/ saveProduct(e)
  PROVE  ProductsInv' /\ Keeps(product, product')
<1>1. product \in ProductRow /\ OneNames(product)
  BY DEF ProductsInv
<1>2. ASSUME NEW rows, readProduct(e, rows), \A row \in rows : Changes(product, row)
      PROVE  ProductsInv' /\ Keeps(product, product')
  BY <1>2, ReadChange DEF readProduct, Keeps
<1>3. CASE startDetails(e)
  BY <1>3, <1>1, <1>2, DetailsChange DEF startDetails
<1>4. CASE startAdd(e)
  BY <1>4, <1>1, <1>2, AddChange DEF startAdd
<1>5. CASE startUpdate(e)
  BY <1>5, <1>1, <1>2, UpdateChange DEF startUpdate
<1>6. CASE startVariantStatus(e)
  <2>1. PICK v \in ids(product) : readProduct(e, discontinueVariant(product, v) \cup reactivateVariant(product, v))
    BY <1>6 DEF startVariantStatus
  <2>2. ASSUME NEW next \in discontinueVariant(product, v) \cup reactivateVariant(product, v)
        PROVE  Changes(product, next)
    BY <1>1, StatusChange DEF discontinueVariant, reactivateVariant
  <2> QED BY <1>2, <2>1, <2>2
<1>7. CASE startLifecycle(e)
  BY <1>1, <1>2, <1>7, LifecycleChange DEF startLifecycle
<1>8. CASE saveProduct(e)
  BY <1>8, SaveChange
<1> QED BY <1>3, <1>4, <1>5, <1>6, <1>7, <1>8

\* Concurrent changes of a product: its variants share one set of option names, and once published it keeps its slug and
\* what identifies its variants, also through changes that read it before.
THEOREM ProductsAlwaysStaySold == ProductsSpec => ProductsStaySold
<1>1. ProductsInit => ProductsInv
  BY ProductsStart
<1>2. ProductsInv /\ [ProductsNext]_productsVars => ProductsInv'
  <2> SUFFICES ASSUME ProductsInv, [ProductsNext]_productsVars PROVE ProductsInv'
    OBVIOUS
  <2>1. CASE UNCHANGED productsVars
    BY <2>1 DEF productsVars, ProductsInv, EditSound, OneNames, Keeps, ids
  <2>2. CASE ProductsNext
    BY <2>2, ProductStep DEF ProductsNext
  <2> QED BY <2>1, <2>2
<1>3. ProductsInv => OneSetOfOptionNames
  BY DEF ProductsInv, OneNames, OneSetOfOptionNames
<1>4. ProductsInv /\ [ProductsNext]_productsVars =>
        [product.firstPublished =>
           /\ product'.slug = product.slug /\ product'.firstPublished
           /\ \A v \in ids(product) : /\ v \in ids(product')
                                      /\ product'.variants[v].sku = product.variants[v].sku
                                      /\ product'.variants[v].options = product.variants[v].options]_productsVars
  BY ProductStep DEF ProductsNext, Keeps
<1> QED BY <1>1, <1>2, <1>3, <1>4, PTL DEF ProductsSpec, ProductsStaySold, PublishedKeepsIdentity

-----------------------------------------------------------------------------
(* The images of a product: the inductive invariant.                       *)

ImageSteps == {"none", "checked", "saved", "kept", "deleting", "done"}

\* The rows are added once, and the file of a row is given up only by an upload that took its transaction for failed.
ImageSound(i) ==
  /\ imageSteps[i] \in {"none", "checked", "saved"} => i \notin InGallery
  /\ imageSteps[i] = "saved" => i \in files
  /\ i \in InGallery => i \in files \/ i \in lostAnswers
  /\ i \in InGallery /\ imageSteps[i] = "deleting" => i \in lostAnswers
  /\ i \in files /\ i \notin InGallery => imageSteps[i] \in {"saved", "deleting"} \/ i \in leftBehind
Rows(g) == g \in Seq(Images) /\ IsInjective(g) /\ Len(g) <= MAX_IMAGES_PER_PRODUCT
GalleryInv ==
  /\ productStatus \in {"DRAFT", "ARCHIVED"} /\ files \subseteq Images /\ Rows(gallery)
  /\ imageSteps \in [Images -> ImageSteps]
  /\ \A i \in Images : ImageSound(i)

\* A row more, of an image that had none.
LEMMA RowAdded ==
  ASSUME NEW g, Rows(g), Len(g) < MAX_IMAGES_PER_PRODUCT, NEW i \in Images, i \notin ToSet(g)
  PROVE  Rows(Append(g, i)) /\ ToSet(Append(g, i)) = ToSet(g) \cup {i}
<1> DEFINE h == Append(g, i)
<1>1. g \in Seq(Images) /\ Len(g) \in Nat /\ DOMAIN g = 1..Len(g)
  BY LenProperties DEF Rows
<1>2. /\ h \in Seq(Images) /\ Len(h) = Len(g) + 1 /\ h[Len(g) + 1] = i
      /\ \A n \in 1..Len(g) : h[n] = g[n]
  BY <1>1, AppendProperties
<1> HIDE DEF h
<1>3. DOMAIN h = 1..(Len(g) + 1)
  BY <1>2, LenProperties
<1>4. \A n \in 1..(Len(g) + 1) : n \in 1..Len(g) \/ n = Len(g) + 1
  BY <1>1
<1>5. \A n \in 1..Len(g) : n \in 1..(Len(g) + 1) /\ g[n] # i
  BY <1>1 DEF ToSet
<1>6. IsInjective(h)
  BY <1>3, <1>1, <1>2, <1>4, <1>5 DEF IsInjective, Rows
<1>7. ToSet(h) = ToSet(g) \cup {i}
  BY <1>1, <1>2, <1>3, <1>4, <1>5 DEF ToSet
<1>8. Len(h) <= MAX_IMAGES_PER_PRODUCT
  BY <1>1, <1>2, GalleryAssumption
<1>9. Rows(h) /\ ToSet(h) = ToSet(g) \cup {i}
  BY <1>2, <1>6, <1>7, <1>8 DEF Rows
<1> QED BY <1>9 DEF h

\* A row less.
LEMMA RowRemoved ==
  ASSUME NEW g, Rows(g), NEW p \in DOMAIN g
  PROVE  Rows(RemoveAt(g, p)) /\ ToSet(RemoveAt(g, p)) = ToSet(g) \ {g[p]}
<1> DEFINE h == RemoveAt(g, p)
<1>1. g \in Seq(Images) /\ Len(g) \in Nat /\ DOMAIN g = 1..Len(g) /\ p \in 1..Len(g)
  BY LenProperties DEF Rows
<1>2. /\ h \in Seq(Images) /\ Len(h) = Len(g) - 1
      /\ \A n \in 1..(Len(g) - 1) : h[n] = IF n < p THEN g[n] ELSE g[n + 1]
  BY <1>1, Removed
<1> HIDE DEF h
<1>3. DOMAIN h = 1..(Len(g) - 1)
  BY <1>2, LenProperties
<1>4. \A a, b \in 1..Len(g) : g[a] = g[b] => a = b
  BY <1>1 DEF Rows, IsInjective
\* Where the row of a place was.
<1> DEFINE was(n) == IF n < p THEN n ELSE n + 1
<1>5. ASSUME NEW n \in 1..(Len(g) - 1)
      PROVE  was(n) \in 1..Len(g) /\ was(n) # p /\ h[n] = g[was(n)]
  BY <1>1, <1>2, <1>5
<1>6. ASSUME NEW m \in 1..(Len(g) - 1), NEW n \in 1..(Len(g) - 1), was(m) = was(n)
      PROVE  m = n
  BY <1>1, <1>6
<1>7. ASSUME NEW m \in 1..Len(g), m # p
      PROVE  \E n \in 1..(Len(g) - 1) : was(n) = m
  <2>1. CASE m < p
    BY <1>1, <1>7, <2>1
  <2>2. CASE ~(m < p)
    BY <1>1, <1>7, <2>2
  <2> QED BY <2>1, <2>2
<1> HIDE DEF was
<1>8. IsInjective(h)
  BY <1>3, <1>4, <1>5, <1>6 DEF IsInjective
<1>9. ToSet(h) = ToSet(g) \ {g[p]}
  <2>1. ASSUME NEW x \in ToSet(h) PROVE x \in ToSet(g) \ {g[p]}
    BY <1>3, <2>1, <1>1, <1>4, <1>5 DEF ToSet
  <2>2. ASSUME NEW x \in ToSet(g) \ {g[p]} PROVE x \in ToSet(h)
    <3>1. PICK m \in 1..Len(g) : x = g[m] /\ m # p
      BY <1>1, <2>2 DEF ToSet
    <3>2. PICK n \in 1..(Len(g) - 1) : was(n) = m
      BY <1>7, <3>1
    <3> QED BY <1>3, <1>5, <3>1, <3>2 DEF ToSet
  <2> QED BY <2>1, <2>2
<1>10. Len(h) <= MAX_IMAGES_PER_PRODUCT
  BY <1>1, <1>2, GalleryAssumption DEF Rows
<1>11. Rows(h) /\ ToSet(h) = ToSet(g) \ {g[p]}
  BY <1>2, <1>8, <1>9, <1>10 DEF Rows
<1> QED BY <1>11 DEF h

\* The same rows in another order: as many places for as many images, so none is there twice.
LEMMA RowsReordered ==
  ASSUME NEW g, Rows(g), NEW order \in [1..Len(g) -> ToSet(g)], ToSet(order) = ToSet(g)
  PROVE  Rows(order)
<1> DEFINE spots == 1..Len(g)
<1>1. g \in Seq(Images) /\ Len(g) \in Nat /\ DOMAIN g = spots /\ \A n \in spots : g[n] \in Images
  BY LenProperties, ElementOfSeq DEF Rows
<1>2. g \in Bijection(spots, ToSet(g))
  BY <1>1 DEF ToSet, Rows, Bijection, Injection, Surjection
<1>3. IsFiniteSet(spots)
  BY <1>1, FS_Interval
<1>4. Cardinality(spots) = Cardinality(ToSet(g))
  BY <1>2, <1>3, FS_Bijection DEF ExistsBijection
<1>5. order \in Surjection(spots, ToSet(g))
  BY DEF ToSet, Surjection
<1> HIDE DEF spots
<1>6. IsInjective(order)
  BY <1>3, <1>4, <1>5, FS_SurjSameCardinalityImpliesInj DEF Injection
<1>7. order \in Seq(Images) /\ Len(order) = Len(g)
  BY <1>1, SeqDef, LenProperties DEF ToSet
<1> QED BY <1>6, <1>7 DEF Rows

\* A gallery starts without images.
LEMMA GalleryStart == GalleryInit => GalleryInv
<1> SUFFICES ASSUME GalleryInit PROVE GalleryInv
  OBVIOUS
<1>1. Rows(<<>>)
  BY GalleryAssumption, EmptySeq DEF Rows, IsInjective
<1>2. InGallery = {}
  BY DEF GalleryInit, InGallery, ToSet
<1> QED BY <1>1, <1>2 DEF GalleryInit, GalleryInv, ImageSound, ImageSteps

\* The rows stay: what remains to see is each image.
LEMMA CheckKeeps ==
  ASSUME GalleryInv, NEW i \in Images, checkUpload(i)
  PROVE  GalleryInv'
BY DEF GalleryInv, checkUpload, moveTo, ImageSteps, ImageSound, InGallery

\* A file saved before its image is added keeps the invariant.
LEMMA SaveKeeps ==
  ASSUME GalleryInv, NEW i \in Images, saveFile(i)
  PROVE  GalleryInv'
BY DEF GalleryInv, saveFile, moveTo, ImageSteps, ImageSound, InGallery

\* A file deleted after its image was removed keeps the invariant.
LEMMA DeleteKeeps ==
  ASSUME GalleryInv, NEW i \in Images, deleteFile(i)
  PROVE  GalleryInv'
BY DEF GalleryInv, deleteFile, moveTo, ImageSteps, ImageSound, InGallery

\* An instance that stops between file and row leaves a file too many, never one too few.
LEMMA CrashKeeps ==
  ASSUME GalleryInv, crashUploads
  PROVE  GalleryInv'
BY DEF GalleryInv, crashUploads, ImageSteps, ImageSound, InGallery

\* Archiving and reactivating the product leave the gallery.
LEMMA StatusKeeps ==
  ASSUME GalleryInv, archiveProduct \/ reactivateProduct
  PROVE  GalleryInv'
BY DEF GalleryInv, archiveProduct, reactivateProduct, ImageSound, InGallery

\* Adding an image keeps the invariant.
LEMMA AddKeeps ==
  ASSUME GalleryInv, NEW i \in Images, addImage(i)
  PROVE  GalleryInv'
<1>1. CASE UNCHANGED gallery
  BY <1>1 DEF GalleryInv, addImage, failUpload, moveTo, ImageSteps, ImageSound, InGallery
<1>2. CASE hasRoom /\ gallery' = Append(gallery, i)
  <2>1. i \notin ToSet(gallery) /\ Len(gallery) < MAX_IMAGES_PER_PRODUCT
    BY <1>2 DEF GalleryInv, addImage, ImageSound, InGallery, hasRoom
  <2>2. Rows(gallery') /\ InGallery' = InGallery \cup {i}
    BY <1>2, <2>1, RowAdded DEF GalleryInv, InGallery
  <2>3. /\ imageSteps[i] = "saved" /\ UNCHANGED <<productStatus, files, leftBehind>>
        /\ imageSteps \in [Images -> ImageSteps] /\ imageSteps' \in [Images -> ImageSteps]
        /\ \A j \in Images : ImageSound(j)
    BY DEF GalleryInv, addImage, failUpload, moveTo, ImageSteps
  <2>4. \/ imageSteps' = [imageSteps EXCEPT ![i] = "kept"] /\ lostAnswers' = lostAnswers
        \/ imageSteps' = [imageSteps EXCEPT ![i] = "deleting"] /\ lostAnswers' = lostAnswers \cup {i}
        \/ UNCHANGED gallery
    BY DEF addImage, failUpload, moveTo
  <2>5. ASSUME NEW j \in Images PROVE ImageSound(j)'
    BY <1>1, <2>2, <2>3, <2>4 DEF GalleryInv, ImageSound
  <2> QED BY <2>2, <2>3, <2>5 DEF GalleryInv
<1> QED BY <1>1, <1>2 DEF addImage

\* Removing an image keeps the invariant.
LEMMA RemoveKeeps ==
  ASSUME GalleryInv, NEW i \in Images, remove(i)
  PROVE  GalleryInv'
<1> DEFINE p == CHOOSE n \in DOMAIN gallery : gallery[n] = i
<1>1. p \in DOMAIN gallery /\ gallery[p] = i
  BY DEF remove, InGallery, ToSet
<1>2. gallery' = RemoveAt(gallery, p)
  BY DEF remove
<1> HIDE DEF p
<1>3. Rows(gallery') /\ InGallery' = InGallery \ {i}
  BY <1>1, <1>2, RowRemoved DEF GalleryInv, InGallery
<1> QED BY <1>3 DEF GalleryInv, remove, moveTo, ImageSteps, ImageSound

\* A new order has the images the gallery had.
LEMMA ReorderKeeps ==
  ASSUME GalleryInv, NEW order \in [1..Len(gallery) -> InGallery], reorderImages(order)
  PROVE  GalleryInv'
<1>1. Rows(gallery') /\ InGallery' = InGallery
  BY RowsReordered DEF GalleryInv, reorderImages, InGallery
<1> QED BY <1>1 DEF GalleryInv, reorderImages, ImageSound

\* Each step on the gallery keeps the invariant.
LEMMA GalleryStep == GalleryInv /\ [GalleryNext]_galleryVars => GalleryInv'
<1> SUFFICES ASSUME GalleryInv, [GalleryNext]_galleryVars PROVE GalleryInv'
  OBVIOUS
<1>1. CASE UNCHANGED galleryVars
  BY <1>1 DEF galleryVars, GalleryInv, ImageSound, InGallery
<1>2. CASE GalleryNext
  BY <1>2, CheckKeeps, SaveKeeps, AddKeeps, DeleteKeeps, RemoveKeeps, ReorderKeeps, StatusKeeps, CrashKeeps DEF GalleryNext
<1> QED BY <1>1, <1>2

\* The invariant has a file for each image, and the limit of the gallery.
LEMMA GallerySafe == GalleryInv => GalleryHasItsFiles
<1> SUFFICES ASSUME GalleryInv PROVE GalleryHasItsFiles
  OBVIOUS
<1>1. InGallery \subseteq Images
  BY LenProperties, ElementOfSeq DEF GalleryInv, Rows, InGallery, ToSet
<1> QED BY <1>1 DEF GalleryInv, Rows, ImageSound, GalleryHasItsFiles, GalleryTypeOK, ImagesHaveFiles, NoFileForgotten

\* The images of a product: at most the limit, each once; a row has its file but where the answer of its transaction was
\* lost, and a file without a row is in the hands of a request, or was left behind.
THEOREM GalleryAlwaysHasItsFiles == GallerySpec => []GalleryHasItsFiles
<1>1. GalleryInit => GalleryInv
  BY GalleryStart
<1>2. GalleryInv /\ [GalleryNext]_galleryVars => GalleryInv'
  BY GalleryStep
<1>3. GalleryInv => GalleryHasItsFiles
  BY GallerySafe
<1> QED BY <1>1, <1>2, <1>3, PTL DEF GallerySpec

-----------------------------------------------------------------------------
(* Imports of products from a file.                                        *)

\* A variant of the catalog, and what makes a catalog whole.
IsVariant(v) ==
  /\ v \in [slug : {v.slug}, sku : {v.sku}, gtin : {v.gtin}, options : {v.options}, active : {v.active}]
  /\ v.active \in BOOLEAN
IsWhole(products, variants, labels) ==
  /\ \A p, q \in products : p.slug = q.slug => p = q
  /\ \A v, w \in variants :
       /\ v.sku = w.sku => v = w
       /\ v.active /\ w.active /\ v.gtin = w.gtin /\ v.gtin # NoGtin => v = w
       /\ \E p \in products : p.slug = v.slug
  /\ \A p \in products : p.labels \subseteq Labels /\ \A l \in p.labels : labels[l] # "NONE"
  /\ \A v \in variants : IsVariant(v)

\* The product and the variant of a row.
ProductOf(row) == [slug |-> row.slug, title |-> row.title, labels |-> row.labels]
VariantOf(row) == VariantRow(row.slug, row.sku, row.gtin, row.options)

\* The fields of the variant of a row.
LEMMA VariantIs ==
  ASSUME NEW row
  PROVE  /\ IsVariant(VariantOf(row)) /\ VariantOf(row).active = TRUE /\ VariantOf(row).slug = row.slug
         /\ VariantOf(row).sku = row.sku /\ VariantOf(row).gtin = row.gtin /\ VariantOf(row).options = row.options
  BY DEF IsVariant, VariantOf, VariantRow

\* The rows of a file are numbered, and the first of a slug is one of them.
LEMMA RowsAre ==
  ASSUME NEW rows \in ImportFiles
  PROVE  /\ Len(rows) \in Nat /\ DOMAIN rows = 1..Len(rows)
         /\ \A i \in 1..Len(rows) : rows[i].labels \subseteq Labels
<1>1. rows \in Seq({rows[i] : i \in DOMAIN rows})
  BY ProductImportAssumption
<1>2. Len(rows) \in Nat /\ DOMAIN rows = 1..Len(rows)
  <2> DEFINE S == {rows[i] : i \in DOMAIN rows}
  <2> HIDE DEF S
  <2>1. rows \in Seq(S)
    BY <1>1 DEF S
  <2> QED
    BY <2>1, LenProperties
<1> QED
  BY <1>2, ProductImportAssumption

\* The first row of a slug, which names the product of every row of it.
LEMMA FirstIs ==
  ASSUME NEW rows \in ImportFiles, NEW i \in Read(rows)
  PROVE  /\ FirstRow(rows, rows[i].slug) \in Read(rows) /\ FirstRow(rows, rows[i].slug) \in FirstRows(rows)
         /\ rows[FirstRow(rows, rows[i].slug)].slug = rows[i].slug
         /\ FirstRow(rows, rows[i].slug) <= i
         /\ \A j \in Read(rows) : rows[j].slug = rows[i].slug => FirstRow(rows, rows[i].slug) <= j
<1> DEFINE slug == rows[i].slug
<1> DEFINE own == RowsOf(rows, slug)
<1>1. Read(rows) \subseteq 1..Len(rows) /\ Len(rows) \in Nat
  BY RowsAre DEF Read
<1>2. own \subseteq Nat /\ i \in own
  BY <1>1 DEF RowsOf
<1>3. \E x \in own : \A y \in own : x <= y
  <2> HIDE DEF own
  <2> QED
    BY <1>2, LeastNat
<1>4. Min(own) \in own /\ \A y \in own : Min(own) <= y
  <2> HIDE DEF own
  <2> QED
    BY <1>3 DEF Min
<1>5. FirstRow(rows, slug) \in own /\ \A y \in own : FirstRow(rows, slug) <= y
  BY <1>4 DEF FirstRow
<1>6. FirstRow(rows, slug) \in FirstRows(rows)
  BY DEF FirstRows, FileSlugs
<1> QED
  BY <1>2, <1>5, <1>6 DEF RowsOf

\* A first row is the first of its slug.
LEMMA FirstRowsAre ==
  ASSUME NEW rows \in ImportFiles, NEW i \in FirstRows(rows)
  PROVE  i \in Read(rows) /\ i = FirstRow(rows, rows[i].slug)
<1>1. PICK k \in Read(rows) : i = FirstRow(rows, rows[k].slug)
  BY DEF FirstRows, FileSlugs
<1>2. i \in Read(rows) /\ rows[i].slug = rows[k].slug
  BY <1>1, FirstIs
<1> QED
  BY <1>1, <1>2

\* The products and variants of the rows of a file that was checked, and what the database refuses of them.
ProductsOf(rows) == {ProductOf(rows[i]) : i \in FirstRows(rows)}
VariantsOf(rows) == {VariantOf(rows[i]) : i \in DOMAIN rows}
RowErrors(rows) == parseRow(rows) \cup productsOf(rows) \cup rejectRepeated(rows)
RefusedBy(rows, products, variants, labels) ==
  \/ \E p \in products, q \in ProductsOf(rows) : p.slug = q.slug
  \/ \E v \in variants, w \in VariantsOf(rows) : v.sku = w.sku \/ (v.active /\ v.gtin # NoGtin /\ v.gtin = w.gtin)
  \/ \E v, w \in VariantsOf(rows) : v # w /\ v.slug = w.slug /\ v.options = w.options
  \/ \E p \in ProductsOf(rows) : \E l \in p.labels : labels[l] = "NONE"

\* A file without errors that the database does not refuse leaves a whole catalog.
LEMMA WrittenIsWhole ==
  ASSUME NEW rows \in ImportFiles, RowErrors(rows) = {}, NEW products, NEW variants, NEW labels,
         IsWhole(products, variants, labels), ~RefusedBy(rows, products, variants, labels)
  PROVE  IsWhole(products \cup ProductsOf(rows), variants \cup VariantsOf(rows), labels)
<1> DEFINE P == products \cup ProductsOf(rows)
<1> DEFINE V == variants \cup VariantsOf(rows)
<1>1. DOMAIN rows = Read(rows) /\ DOMAIN rows = 1..Len(rows) /\ Len(rows) \in Nat /\ parseRow(rows) = {} /\ rejectRepeated(rows) = {}
  BY RowsAre DEF RowErrors, parseRow, Read
<1>2. ASSUME NEW p \in P, NEW q \in P, p.slug = q.slug
      PROVE  p = q
  <2>1. CASE p \in products /\ q \in products
    BY <1>2, <2>1 DEF IsWhole
  <2>2. CASE p \in ProductsOf(rows) /\ q \in ProductsOf(rows)
    BY <2>2, <1>2, FirstRowsAre DEF ProductsOf, ProductOf
  <2> QED
    BY <1>2, <2>1, <2>2 DEF RefusedBy
<1>3. ASSUME NEW i \in DOMAIN rows, NEW j \in DOMAIN rows,
             rows[i].sku = rows[j].sku \/ (rows[i].gtin = rows[j].gtin /\ rows[i].gtin # NoGtin)
      PROVE  i = j
  BY <1>1, <1>3 DEF rejectRepeated
<1>4. ASSUME NEW v \in V, NEW w \in V, v.sku = w.sku \/ (v.active /\ w.active /\ v.gtin = w.gtin /\ v.gtin # NoGtin)
      PROVE  v = w
  <2>1. CASE v \in variants /\ w \in variants
    BY <1>4, <2>1 DEF IsWhole
  <2>2. CASE v \in VariantsOf(rows) /\ w \in VariantsOf(rows)
    <3>1. PICK i \in DOMAIN rows, j \in DOMAIN rows : v = VariantOf(rows[i]) /\ w = VariantOf(rows[j])
      BY <2>2 DEF VariantsOf
    <3>2. rows[i].sku = rows[j].sku \/ (rows[i].gtin = rows[j].gtin /\ rows[i].gtin # NoGtin)
      BY <1>4, <3>1, VariantIs
    <3>3. i = j
      BY <1>3, <3>2
    <3> QED
      BY <3>1, <3>3
  <2>3. CASE v \in variants /\ w \in VariantsOf(rows)
    BY <1>4, <2>3 DEF RefusedBy
  <2>4. CASE w \in variants /\ v \in VariantsOf(rows)
    BY <1>4, <2>4 DEF RefusedBy
  <2> QED
    BY <2>1, <2>2, <2>3, <2>4
<1>5. ASSUME NEW v \in V PROVE (\E p \in P : p.slug = v.slug) /\ IsVariant(v)
  <2>1. CASE v \in variants
    BY <2>1 DEF IsWhole
  <2>2. CASE v \in VariantsOf(rows)
    <3>1. PICK i \in DOMAIN rows : v = VariantOf(rows[i])
      BY <2>2 DEF VariantsOf
    <3> DEFINE f == FirstRow(rows, rows[i].slug)
    <3>2. f \in FirstRows(rows) /\ rows[f].slug = rows[i].slug
      BY <1>1, FirstIs
    <3> HIDE DEF f
    <3>3. ProductOf(rows[f]) \in P /\ ProductOf(rows[f]).slug = rows[i].slug
      BY <3>2 DEF ProductsOf, ProductOf
    <3>4. v.slug = rows[i].slug /\ IsVariant(v)
      BY <3>1, VariantIs
    <3> QED
      BY <3>3, <3>4
  <2> QED
    BY <2>1, <2>2
<1>6. ASSUME NEW p \in P PROVE p.labels \subseteq Labels /\ \A l \in p.labels : labels[l] # "NONE"
  <2>1. CASE p \in products
    BY <2>1 DEF IsWhole
  <2>2. CASE p \in ProductsOf(rows)
    <3>1. PICK i \in FirstRows(rows) : p = ProductOf(rows[i])
      BY <2>2 DEF ProductsOf
    <3>2. i \in DOMAIN rows
      BY <1>1, FirstRowsAre
    <3>3. p.labels \subseteq Labels
      BY <1>1, <3>1, <3>2, RowsAre DEF ProductOf
    <3> QED
      BY <2>2, <3>3 DEF RefusedBy
  <2> QED
    BY <2>1, <2>2
<1> HIDE DEF P, V
<1>7. IsWhole(P, V, labels)
  BY <1>2, <1>4, <1>5, <1>6 DEF IsWhole
<1> QED
  BY <1>7 DEF P, V

-----------------------------------------------------------------------------
\* The options of the rows before one, of its slug, that were built.
BuiltBefore(rows, slug, errors, k, refusedRows) ==
  {rows[i].options : i \in {j \in 1..(k - 1) : rows[j].slug = slug /\ j \notin errors /\ j \notin refusedRows}}

\* Which rows of a product are refused for their options: each is compared with those before it that were built.
LEMMA BuiltAre ==
  ASSUME NEW rows \in ImportFiles, NEW slug, NEW errors
  PROVE  /\ builtOptions(rows, slug, errors) \subseteq 1..Len(rows)
         /\ \A k \in 1..Len(rows) :
              k \in builtOptions(rows, slug, errors) <=>
                /\ rows[k].slug = slug /\ k \notin errors
                /\ refused(BuiltBefore(rows, slug, errors, k, builtOptions(rows, slug, errors)), rows[k].options)
<1> DEFINE N == Len(rows)
<1> DEFINE seq == [i \in DOMAIN rows |-> [slug |-> rows[i].slug, options |-> rows[i].options, line |-> i]]
<1> DEFINE O == {rows[i].options : i \in DOMAIN rows}
<1> DEFINE A == [done : SUBSET O, errors : SUBSET (1..N)]
<1> DEFINE base == [done |-> {}, errors |-> {}]
<1> DEFINE op(acc, row) == IF row.slug # slug \/ row.line \in errors THEN acc
                           ELSE IF refused(acc.done, row.options) THEN [acc EXCEPT !.errors = @ \cup {row.line}]
                           ELSE [acc EXCEPT !.done = @ \cup {row.options}]
<1> DEFINE G == [p \in (1..N) \X A |-> op(p[2], seq[p[1]])]
<1>0. N \in Nat /\ DOMAIN rows = 1..N /\ DOMAIN seq = 1..N
  BY RowsAre
<1>s. ASSUME NEW i \in 1..N
      PROVE  seq[i].slug = rows[i].slug /\ seq[i].options = rows[i].options /\ seq[i].line = i /\ rows[i].options \in O
  BY <1>0
<1>1. base \in A
  OBVIOUS
<1>a. ASSUME NEW acc \in A, NEW i \in 1..N
      PROVE  op(acc, seq[i]) \in A
  <2>1. CASE seq[i].slug # slug \/ seq[i].line \in errors
    BY <2>1
  <2>2. CASE ~(seq[i].slug # slug \/ seq[i].line \in errors) /\ refused(acc.done, seq[i].options)
    <3>1. op(acc, seq[i]) = [acc EXCEPT !.errors = @ \cup {seq[i].line}]
      BY <2>2
    <3> HIDE DEF op, seq
    <3>2. op(acc, seq[i]) = [acc EXCEPT !.errors = @ \cup {i}]
      BY <3>1, <1>s
    <3> QED
      BY <3>2
  <2>3. CASE ~(seq[i].slug # slug \/ seq[i].line \in errors) /\ ~refused(acc.done, seq[i].options)
    <3>1. op(acc, seq[i]) = [acc EXCEPT !.done = @ \cup {seq[i].options}]
      BY <2>3
    <3> HIDE DEF op, seq, O
    <3>2. op(acc, seq[i]) = [acc EXCEPT !.done = @ \cup {rows[i].options}] /\ rows[i].options \in O
      BY <3>1, <1>s
    <3> QED
      BY <3>2
  <2> QED
    BY <2>1, <2>2, <2>3
<1>2. G \in [(1..N) \X A -> A]
  <2> HIDE DEF op, seq, A
  <2> QED
    BY <1>0, <1>a
<1>3. PICK f : Iterates(f, N, base, A, G)
  <2> HIDE DEF N, G, base, A
  <2> QED
    BY <1>0, <1>1, <1>2, FoldExists
<1>4. f = [s \in SUBSET (DOMAIN seq) |-> IF s = {} THEN base ELSE op(f[s \ {Max(s)}], seq[Max(s)])]
  <2>1. f \in [SUBSET (1..N) -> A]
    BY <1>3 DEF Iterates
  <2>2. ASSUME NEW s \in SUBSET (1..N), s # {}
        PROVE  f[s] = op(f[s \ {Max(s)}], seq[Max(s)])
    <3>1. Max(s) \in 1..N /\ s \ {Max(s)} \in SUBSET (1..N)
      BY <1>0, <2>2, MaxIsOne
    <3>2. f[s] = G[<<Max(s), f[s \ {Max(s)}]>>]
      BY <1>3, <2>2 DEF Iterates
    <3>3. f[s \ {Max(s)}] \in A
      BY <2>1, <3>1
    <3> HIDE DEF op, seq, A
    <3> QED
      BY <3>1, <3>2, <3>3
  <2>3. f[{}] = base
    BY <1>3 DEF Iterates
  <2> HIDE DEF G, base, A, op, seq
  <2> QED
    BY <1>0, <2>1, <2>2, <2>3
<1> DEFINE iter == CHOOSE it : it = [s \in SUBSET (DOMAIN seq) |-> IF s = {} THEN base ELSE op(it[s \ {Max(s)}], seq[Max(s)])]
<1>5. iter = [s \in SUBSET (DOMAIN seq) |-> IF s = {} THEN base ELSE op(iter[s \ {Max(s)}], seq[Max(s)])]
  <2> HIDE DEF base, G, A, op, seq
  <2> QED
    BY <1>4
<1>6. builtOptions(rows, slug, errors) = iter[1..N].errors
  BY <1>0 DEF builtOptions, FoldLeft, MapThenFoldSet
<1>7. iter[1..0] = base
  <2>1. 1..0 = {}
    OBVIOUS
  <2> HIDE DEF base, G, A, op, seq, iter
  <2> QED
    BY <1>5, <2>1
<1>8. ASSUME NEW i \in Nat, i + 1 <= N
      PROVE  iter[1..(i + 1)] = op(iter[1..i], seq[i + 1])
  <2>1. i + 1 \in 1..N
    BY <1>0, <1>8
  <2>2. /\ 1..(i + 1) \in SUBSET (1..N) /\ 1..(i + 1) # {} /\ Max(1..(i + 1)) = i + 1
        /\ (1..(i + 1)) \ {Max(1..(i + 1))} = 1..i
    BY <1>0, <2>1, FirstOnes
  <2> HIDE DEF base, G, A, op, seq, iter
  <2> QED
    BY <1>0, <1>5, <2>2
<1> HIDE DEF iter
<1> DEFINE Counted(i) ==
  /\ iter[1..i] \in A
  /\ iter[1..i].errors \subseteq 1..i
  /\ iter[1..i].done = BuiltBefore(rows, slug, errors, i + 1, iter[1..i].errors)
  /\ \A k \in 1..i :
       k \in iter[1..i].errors <=>
         /\ rows[k].slug = slug /\ k \notin errors
         /\ refused(BuiltBefore(rows, slug, errors, k, iter[1..i].errors), rows[k].options)
<1> DEFINE T == {i \in Nat : i <= N => Counted(i)}
<1>9. 0 \in T
  <2>1. Counted(0)
    <3>1. iter[1..0].errors = {} /\ iter[1..0].done = {} /\ 1..0 = {} /\ 1..(0 + 1 - 1) = {}
      BY <1>7
    <3>2. BuiltBefore(rows, slug, errors, 0 + 1, {}) = {}
      BY <3>1 DEF BuiltBefore
    <3> HIDE DEF A, base
    <3> QED
      BY <1>1, <1>7, <3>1, <3>2
  <2> HIDE DEF Counted
  <2> QED
    BY <2>1
<1>10. ASSUME NEW i \in Nat, i \in T
       PROVE  i + 1 \in T
  <2> SUFFICES ASSUME i + 1 <= N
               PROVE  Counted(i + 1)
    OBVIOUS
  <2> DEFINE acc == iter[1..i]
  <2> DEFINE next == iter[1..(i + 1)]
  <2>0. i + 1 \in 1..N /\ Counted(i)
    <3> HIDE DEF Counted
    <3> QED
      BY <1>0, <1>10
  <2>1. next = op(acc, seq[i + 1])
    BY <1>8
  <2>2. acc \in A /\ next \in A
    BY <1>a, <2>0, <2>1
  <2>3. /\ acc.errors \subseteq 1..i
        /\ acc.done = BuiltBefore(rows, slug, errors, i + 1, acc.errors)
        /\ \A k \in 1..i :
             k \in acc.errors <=>
               /\ rows[k].slug = slug /\ k \notin errors
               /\ refused(BuiltBefore(rows, slug, errors, k, acc.errors), rows[k].options)
    BY <2>0
  <2>4. \/ /\ rows[i + 1].slug # slug \/ i + 1 \in errors
           /\ next = acc
        \/ /\ rows[i + 1].slug = slug /\ i + 1 \notin errors /\ refused(acc.done, rows[i + 1].options)
           /\ next = [acc EXCEPT !.errors = @ \cup {i + 1}]
        \/ /\ rows[i + 1].slug = slug /\ i + 1 \notin errors /\ ~refused(acc.done, rows[i + 1].options)
           /\ next = [acc EXCEPT !.done = @ \cup {rows[i + 1].options}]
    <3>1. seq[i + 1].slug = rows[i + 1].slug /\ seq[i + 1].options = rows[i + 1].options /\ seq[i + 1].line = i + 1
      BY <1>s, <2>0
    <3> HIDE DEF seq, acc, next
    <3> QED
      BY <2>1, <3>1
  <2> HIDE DEF acc, next, Counted, seq, op, base, G
  <2>5. next.errors = IF rows[i + 1].slug = slug /\ i + 1 \notin errors /\ refused(acc.done, rows[i + 1].options)
                      THEN acc.errors \cup {i + 1} ELSE acc.errors
    BY <2>2, <2>4
  <2>6. next.done = IF rows[i + 1].slug = slug /\ i + 1 \notin errors /\ ~refused(acc.done, rows[i + 1].options)
                    THEN acc.done \cup {rows[i + 1].options} ELSE acc.done
    BY <2>2, <2>4
  <2> HIDE DEF A
  <2>7. \A k \in 1..i : k \in next.errors <=> k \in acc.errors
    BY <2>5
  <2>8. ASSUME NEW k \in 1..(i + 1)
        PROVE  BuiltBefore(rows, slug, errors, k, next.errors) = BuiltBefore(rows, slug, errors, k, acc.errors)
    BY <2>7 DEF BuiltBefore
  <2>9. i + 1 \in next.errors <=> rows[i + 1].slug = slug /\ i + 1 \notin errors /\ refused(acc.done, rows[i + 1].options)
    BY <2>3, <2>5
  <2>10. next.done = BuiltBefore(rows, slug, errors, (i + 1) + 1, next.errors)
    <3> DEFINE J == {j \in 1..(i + 1 - 1) : rows[j].slug = slug /\ j \notin errors /\ j \notin next.errors}
    <3> DEFINE K == {j \in 1..(i + 1 + 1 - 1) : rows[j].slug = slug /\ j \notin errors /\ j \notin next.errors}
    <3>1. acc.done = {rows[j].options : j \in J}
      <4>1. i + 1 \in 1..(i + 1)
        OBVIOUS
      <4>2. acc.done = BuiltBefore(rows, slug, errors, i + 1, next.errors)
        BY <2>3, <2>8, <4>1
      <4> QED
        BY <4>2 DEF BuiltBefore
    <3>2. BuiltBefore(rows, slug, errors, (i + 1) + 1, next.errors) = {rows[j].options : j \in K}
      BY DEF BuiltBefore
    <3>3. K = IF rows[i + 1].slug = slug /\ i + 1 \notin errors /\ i + 1 \notin next.errors THEN J \cup {i + 1} ELSE J
      OBVIOUS
    <3>4. next.done = IF i + 1 \in K THEN acc.done \cup {rows[i + 1].options} ELSE acc.done
      BY <2>6, <2>9
    <3>5. IF i + 1 \in K THEN K = J \cup {i + 1} ELSE K = J
      BY <3>3
    <3> HIDE DEF J, K
    <3> QED
      BY <3>1, <3>2, <3>4, <3>5, ZenonT(30)
  <2>11. \A k \in 1..(i + 1) :
           k \in next.errors <=>
             /\ rows[k].slug = slug /\ k \notin errors
             /\ refused(BuiltBefore(rows, slug, errors, k, next.errors), rows[k].options)
    BY <2>3, <2>8, <2>9, <2>7
  <2>12. next.errors \subseteq 1..(i + 1)
    BY <2>3, <2>5
  <2> QED
    BY <2>2, <2>10, <2>11, <2>12 DEF Counted, next
<1>11. Counted(N)
  <2> HIDE DEF Counted
  <2>1. N \in T
    <3> HIDE DEF T
    <3> QED
      BY <1>0, <1>9, <1>10, NatSets
  <2> QED
    BY <1>0, <2>1
<1> HIDE DEF base, G, A, op, seq
<1> QED
  BY <1>6, <1>11

-----------------------------------------------------------------------------
\* What the checks find in a file against a catalog, query by query, and what is built then.
TakenSlugs(rows, products) == {i \in FirstRows(rows) : \E p \in products : p.slug = rows[i].slug}
TakenSkus(rows, variants) == {i \in Read(rows) : \E v \in variants : v.sku = rows[i].sku}
TakenGtins(rows, variants) ==
  {i \in Read(rows) : rows[i].gtin # NoGtin /\ \E v \in variants : v.active /\ v.gtin = rows[i].gtin}
UnusableOf(rows, some, labels) == {i \in FirstRows(rows) : \E l \in rows[i].labels \cap some : labels[l] # "ACTIVE"}
Checked(rows, start) ==
  RowErrors(rows) \cup TakenSlugs(rows, start.listed.products) \cup TakenSkus(rows, start.listed.variants)
    \cup TakenGtins(rows, start.listed.variants) \cup UnusableOf(rows, Brands, start.label) \cup UnusableOf(rows, CategoryNames, start.label)
BuiltErrors(rows, errors) ==
  UNION {builtOptions(rows, slug, errors) : slug \in {one \in FileSlugs(rows) : rows[FirstRow(rows, one)].title # NoTitle}}
Bad(rows, start) == Checked(rows, start) \cup BuiltErrors(rows, Checked(rows, start))

\* The options of the rows before one, of its slug.
OptionsBefore(rows, k) == {rows[i].options : i \in {j \in 1..(k - 1) : rows[j].slug = rows[k].slug}}

\* After rows without errors, a row has one if a check found it or its options are refused.
LEMMA BadIs ==
  ASSUME NEW rows \in ImportFiles, NEW start, NEW k \in 1..Len(rows), \A i \in 1..(k - 1) : i \notin Bad(rows, start)
  PROVE  k \in Bad(rows, start) <=> k \in Checked(rows, start) \/ refused(OptionsBefore(rows, k), rows[k].options)
<1> DEFINE C == Checked(rows, start)
<1> DEFINE slug == rows[k].slug
<1> DEFINE f == FirstRow(rows, slug)
<1> DEFINE B(s) == builtOptions(rows, s, C)
<1>0. Len(rows) \in Nat /\ DOMAIN rows = 1..Len(rows)
  BY RowsAre
<1>1. SUFFICES ASSUME k \notin C
               PROVE  k \in BuiltErrors(rows, C) <=> refused(OptionsBefore(rows, k), rows[k].options)
  BY DEF Bad
<1>2. k \in Read(rows)
  BY <1>0, <1>1 DEF Checked, RowErrors, parseRow, Read
<1>3. f \in FirstRows(rows) /\ f \in Read(rows) /\ rows[f].slug = slug /\ f <= k
  BY <1>2, FirstIs
<1>4. f \notin C
  <2>1. f \in 1..Len(rows)
    BY <1>0, <1>3 DEF Read
  <2> HIDE DEF f, C
  <2>2. CASE f = k
    BY <1>1, <2>2
  <2>3. CASE f < k
    BY <1>0, <2>1, <2>3 DEF Bad, C
  <2> QED
    BY <1>0, <1>3, <2>1, <2>2, <2>3
<1>5. rows[f].title # NoTitle
  BY <1>3, <1>4 DEF Checked, RowErrors, productsOf
<1>6. slug \in FileSlugs(rows)
  BY <1>2 DEF FileSlugs
<1> HIDE DEF C, f
<1>7. k \in BuiltErrors(rows, C) <=> k \in B(slug)
  <2>1. k \in B(slug) => k \in BuiltErrors(rows, C)
    BY <1>5, <1>6 DEF BuiltErrors, f
  <2>2. ASSUME k \in BuiltErrors(rows, C) PROVE k \in B(slug)
    BY <2>2, BuiltAre DEF BuiltErrors
  <2> QED
    BY <2>1, <2>2
<1>8. \A i \in 1..(k - 1) : i \notin C /\ i \notin B(slug)
  BY <1>5, <1>6 DEF Bad, C, BuiltErrors, f
<1>9. BuiltBefore(rows, slug, C, k, B(slug)) = OptionsBefore(rows, k)
  BY <1>8 DEF BuiltBefore, OptionsBefore
<1>10. k \in B(slug) <=> refused(BuiltBefore(rows, slug, C, k, B(slug)), rows[k].options)
  BY <1>1, BuiltAre
<1> QED
  BY <1>7, <1>9, <1>10

\* Creating a row by hand, over what the rows before it left.
HandFits(products, variants, row, start) ==
  LET own == {p \in products : p.slug = row.slug}
      others == {v \in variants : v.slug = row.slug} IN
  /\ row.wellFormed /\ row.right
  /\ own = {} => row.title # NoTitle /\ \A l \in row.labels : start.label[l] = "ACTIVE"
  /\ \A p \in own : /\ p \notin start.listed.products
                    /\ row.title \in {NoTitle, p.title} /\ row.labels \in {{}, p.labels}
  /\ \A v \in variants : v.sku # row.sku /\ (v.active /\ row.gtin # NoGtin => v.gtin # row.gtin)
  /\ \A v \in others : Names(v.options) = Names(row.options) /\ v.options # row.options
ProductsBefore(rows, start, k) == start.listed.products \cup {ProductOf(rows[i]) : i \in {j \in FirstRows(rows) : j < k}}
VariantsBefore(rows, start, k) == start.listed.variants \cup {VariantOf(rows[i]) : i \in 1..(k - 1)}

\* Its SKU and its GTIN are free if and only if the checks found none of them.
LEMMA CodesFit ==
  ASSUME NEW rows \in ImportFiles, NEW start, NEW k \in Read(rows), \A i \in 1..(k - 1) : i \in Read(rows)
  PROVE  (\A v \in VariantsBefore(rows, start, k) : v.sku # rows[k].sku /\ (v.active /\ rows[k].gtin # NoGtin => v.gtin # rows[k].gtin))
           <=> /\ k \notin rejectRepeated(rows)
               /\ k \notin TakenSkus(rows, start.listed.variants) /\ k \notin TakenGtins(rows, start.listed.variants)
<1> DEFINE row == rows[k]
<1> DEFINE Free(v) == v.sku # row.sku /\ (v.active /\ row.gtin # NoGtin => v.gtin # row.gtin)
<1>0. Read(rows) \subseteq 1..Len(rows) /\ Len(rows) \in Nat
  BY RowsAre DEF Read
<1>1. (\A v \in start.listed.variants : Free(v)) <=>
        k \notin TakenSkus(rows, start.listed.variants) /\ k \notin TakenGtins(rows, start.listed.variants)
  BY DEF TakenSkus, TakenGtins
<1>2. (\A i \in 1..(k - 1) : Free(VariantOf(rows[i]))) <=> k \notin rejectRepeated(rows)
  <2>1. \A i \in 1..(k - 1) : Free(VariantOf(rows[i])) <=> rows[i].sku # row.sku /\ (row.gtin # NoGtin => rows[i].gtin # row.gtin)
    BY VariantIs
  <2>2. \A j \in Read(rows) : j < k <=> j \in 1..(k - 1)
    BY <1>0
  <2> HIDE DEF Free, row
  <2>3. k \in rejectRepeated(rows) <=>
          \E j \in Read(rows) : j < k /\ (rows[j].sku = row.sku \/ (row.gtin # NoGtin /\ rows[j].gtin = row.gtin))
    BY DEF rejectRepeated, row
  <2> QED
    BY <2>1, <2>2, <2>3
<1>3. (\A v \in VariantsBefore(rows, start, k) : Free(v)) <=>
        (\A v \in start.listed.variants : Free(v)) /\ (\A i \in 1..(k - 1) : Free(VariantOf(rows[i])))
  <2> HIDE DEF Free
  <2> QED
    BY DEF VariantsBefore
<1> QED
  BY <1>1, <1>2, <1>3

\* Its options go with those of the product if and only if they are not refused.
LEMMA OptionsFit ==
  ASSUME NEW rows \in ImportFiles, NEW start, NEW k \in Read(rows),
         \A v \in start.listed.variants : v.slug # rows[k].slug
  PROVE  (\A v \in VariantsBefore(rows, start, k) :
            v.slug = rows[k].slug => Names(v.options) = Names(rows[k].options) /\ v.options # rows[k].options)
           <=> ~refused(OptionsBefore(rows, k), rows[k].options)
<1> DEFINE Fit(options) == Names(options) = Names(rows[k].options) /\ options # rows[k].options
<1>1. refused(OptionsBefore(rows, k), rows[k].options) <=> \E options \in OptionsBefore(rows, k) : ~Fit(options)
  BY DEF refused
<1>2. ASSUME NEW i \in 1..(k - 1)
      PROVE  VariantOf(rows[i]).slug = rows[i].slug /\ VariantOf(rows[i]).options = rows[i].options
  BY VariantIs
<1> HIDE DEF Fit
<1>3. (\A v \in VariantsBefore(rows, start, k) : v.slug = rows[k].slug => Fit(v.options)) <=>
        \A i \in 1..(k - 1) : rows[i].slug = rows[k].slug => Fit(rows[i].options)
  BY <1>2 DEF VariantsBefore
<1>4. (\A options \in OptionsBefore(rows, k) : Fit(options)) <=>
        \A i \in 1..(k - 1) : rows[i].slug = rows[k].slug => Fit(rows[i].options)
  BY DEF OptionsBefore
<1>5. (\A v \in VariantsBefore(rows, start, k) : v.slug = rows[k].slug => Fit(v.options))
        <=> ~refused(OptionsBefore(rows, k), rows[k].options)
  BY <1>1, <1>3, <1>4
<1> QED
  BY <1>5 DEF Fit

\* What a catalog of before says of the rows of the file.
StartIsWhole(start) == IsWhole(start.listed.products, start.listed.variants, start.label)

\* After rows without errors, the staff can create a row by hand if and only if the import finds no error in it; and
\* it is a new product by hand if and only if it is the first row of its slug.
LEMMA FitsOrBad ==
  ASSUME NEW rows \in ImportFiles, NEW start, StartIsWhole(start), NEW k \in 1..Len(rows),
         \A i \in 1..(k - 1) : i \notin Bad(rows, start)
  PROVE  /\ HandFits(ProductsBefore(rows, start, k), VariantsBefore(rows, start, k), rows[k], start) <=> k \notin Bad(rows, start)
         /\ k \notin Bad(rows, start) =>
              ({p \in ProductsBefore(rows, start, k) : p.slug = rows[k].slug} = {} <=> k \in FirstRows(rows))
<1> DEFINE C == Checked(rows, start)
<1> DEFINE products == ProductsBefore(rows, start, k)
<1> DEFINE variants == VariantsBefore(rows, start, k)
<1> DEFINE row == rows[k]
<1> DEFINE own == {p \in products : p.slug = row.slug}
<1>0. Len(rows) \in Nat /\ DOMAIN rows = 1..Len(rows) /\ k \in Nat
  BY RowsAre
<1>1. \A i \in 1..(k - 1) : i \notin C /\ i \in Read(rows)
  <2> TAKE i \in 1..(k - 1)
  <2>1. i \notin C /\ i \in DOMAIN rows
    BY <1>0 DEF Bad
  <2> QED
    BY <2>1 DEF Checked, RowErrors, parseRow, Read
<1>2. CASE k \notin Read(rows)
  BY <1>0, <1>2 DEF Read, Bad, Checked, RowErrors, parseRow, HandFits
<1>3. CASE k \in Read(rows)
  <2> DEFINE f == FirstRow(rows, row.slug)
  <2>1. /\ f \in FirstRows(rows) /\ f \in Read(rows) /\ rows[f].slug = row.slug /\ f <= k /\ f \in 1..Len(rows)
        /\ \A j \in Read(rows) : rows[j].slug = row.slug => f <= j
    BY <1>0, <1>3, FirstIs DEF Read
  <2>2. row.wellFormed /\ (k \in parseRow(rows) <=> ~row.right)
    BY <1>0, <1>3 DEF Read, parseRow
  <2>3. (\A v \in variants : v.sku # row.sku /\ (v.active /\ row.gtin # NoGtin => v.gtin # row.gtin))
          <=> /\ k \notin rejectRepeated(rows)
              /\ k \notin TakenSkus(rows, start.listed.variants) /\ k \notin TakenGtins(rows, start.listed.variants)
    BY <1>1, <1>3, CodesFit
  <2>4. ASSUME NEW p \in start.listed.products, p.slug = row.slug PROVE f \in C
    BY <2>1, <2>4 DEF Checked, TakenSlugs
  <2>5. ASSUME NEW p, p \in own, p \notin start.listed.products
        PROVE  f < k /\ p = ProductOf(rows[f])
    BY <2>5, FirstRowsAre DEF ProductsBefore, ProductOf
  <2>6. f < k => ProductOf(rows[f]) \in own
    BY <2>1 DEF ProductsBefore, ProductOf
  <2>7. ASSUME \A p \in start.listed.products : p.slug # row.slug
        PROVE  (\A v \in {w \in variants : w.slug = row.slug} : Names(v.options) = Names(row.options) /\ v.options # row.options)
                 <=> ~refused(OptionsBefore(rows, k), row.options)
    BY <2>7, <1>3, OptionsFit DEF StartIsWhole, IsWhole
  <2>8. k \in Bad(rows, start) <=> k \in C \/ refused(OptionsBefore(rows, k), row.options)
    BY <1>1, BadIs
  <2>9. k \in C <=> \/ ~row.right \/ k \in productsOf(rows) \/ k \in rejectRepeated(rows)
                    \/ k \in TakenSlugs(rows, start.listed.products) \/ k \in TakenSkus(rows, start.listed.variants)
                    \/ k \in TakenGtins(rows, start.listed.variants)
                    \/ k \in UnusableOf(rows, Brands, start.label) \/ k \in UnusableOf(rows, CategoryNames, start.label)
    BY <2>2 DEF Checked, RowErrors
  <2>10. HandFits(products, variants, row, start) <=>
           /\ row.right
           /\ own = {} => row.title # NoTitle /\ \A l \in row.labels : start.label[l] = "ACTIVE"
           /\ \A p \in own : /\ p \notin start.listed.products
                             /\ row.title \in {NoTitle, p.title} /\ row.labels \in {{}, p.labels}
           /\ \A v \in variants : v.sku # row.sku /\ (v.active /\ row.gtin # NoGtin => v.gtin # row.gtin)
           /\ \A v \in {w \in variants : w.slug = row.slug} : Names(v.options) = Names(row.options) /\ v.options # row.options
    BY <2>2 DEF HandFits
  <2>11. CASE f = k
    <3>1. k \in FirstRows(rows)
      BY <2>1, <2>11
    <3>2. own \subseteq start.listed.products
      BY <2>5, <2>11, <1>0
    <3>3. k \in productsOf(rows) <=> row.title = NoTitle
      BY <3>1 DEF productsOf
    <3>4. (k \in UnusableOf(rows, Brands, start.label) \/ k \in UnusableOf(rows, CategoryNames, start.label))
            <=> ~\A l \in row.labels : start.label[l] = "ACTIVE"
      BY <1>0, <3>1, RowsAre DEF UnusableOf, Labels
    <3>5. CASE own # {}
      BY <3>2, <3>5, <2>4, <2>11, <2>10, <2>8
    <3>6. CASE own = {}
      <4>1. \A p \in start.listed.products : p.slug # row.slug
        BY <3>6 DEF ProductsBefore
      <4>2. k \notin TakenSlugs(rows, start.listed.products)
        BY <4>1 DEF TakenSlugs
      <4> HIDE DEF own, products, variants, row, C, f
      <4>3. HandFits(products, variants, row, start) <=>
              /\ row.right /\ row.title # NoTitle /\ (\A l \in row.labels : start.label[l] = "ACTIVE")
              /\ k \notin rejectRepeated(rows)
              /\ k \notin TakenSkus(rows, start.listed.variants) /\ k \notin TakenGtins(rows, start.listed.variants)
              /\ ~refused(OptionsBefore(rows, k), row.options)
        BY <2>3, <2>7, <2>10, <3>6, <4>1
      <4>4. HandFits(products, variants, row, start) <=> k \notin Bad(rows, start)
        BY <2>8, <2>9, <3>3, <3>4, <4>2, <4>3
      <4> QED
        BY <3>1, <3>6, <4>4 DEF own, products, variants, row
    <3> QED
      BY <3>5, <3>6
  <2>12. CASE f < k
    <3>1. k \notin FirstRows(rows)
      BY <1>0, <2>1, <2>12, FirstRowsAre
    <3>2. f \notin C
      BY <1>0, <1>1, <2>1, <2>12
    <3>3. \A p \in start.listed.products : p.slug # row.slug
      BY <2>4, <3>2
    <3>4. own = {ProductOf(rows[f])}
      BY <2>5, <2>6, <2>12, <3>3
    <3>5. ProductOf(rows[f]) \notin start.listed.products
      BY <2>1, <3>3 DEF ProductOf
    <3>6. k \in productsOf(rows) <=> ~(row.title \in {NoTitle, rows[f].title} /\ row.labels \in {{}, rows[f].labels})
      BY <1>3, <3>1 DEF productsOf, sameCell
    <3>7. /\ k \notin TakenSlugs(rows, start.listed.products)
          /\ k \notin UnusableOf(rows, Brands, start.label) /\ k \notin UnusableOf(rows, CategoryNames, start.label)
      BY <3>1 DEF TakenSlugs, UnusableOf
    <3>8. ProductOf(rows[f]).title = rows[f].title /\ ProductOf(rows[f]).labels = rows[f].labels
      BY DEF ProductOf
    <3> HIDE DEF own, products, variants, row, C, f
    <3>9. HandFits(products, variants, row, start) <=>
            /\ row.right /\ row.title \in {NoTitle, rows[f].title} /\ row.labels \in {{}, rows[f].labels}
            /\ k \notin rejectRepeated(rows)
            /\ k \notin TakenSkus(rows, start.listed.variants) /\ k \notin TakenGtins(rows, start.listed.variants)
            /\ ~refused(OptionsBefore(rows, k), row.options)
      BY <2>3, <2>7, <2>10, <3>3, <3>4, <3>5, <3>8
    <3>10. HandFits(products, variants, row, start) <=> k \notin Bad(rows, start)
      BY <2>8, <2>9, <3>6, <3>7, <3>9
    <3> QED
      BY <3>1, <3>4, <3>10 DEF own, products, variants, row
  <2> QED
    BY <1>0, <2>1, <2>11, <2>12
<1> QED
  BY <1>2, <1>3

\* By hand the rows of a file can all be created if and only if the import finds no error in it, and leave the same catalog.
LEMMA HandIs ==
  ASSUME NEW rows \in ImportFiles, NEW start, StartIsWhole(start)
  PROVE  /\ ByHand(rows, start).ok = (Bad(rows, start) = {})
         /\ Bad(rows, start) = {} => /\ ByHand(rows, start).products = start.listed.products \cup ProductsOf(rows)
                                    /\ ByHand(rows, start).variants = start.listed.variants \cup VariantsOf(rows)
<1> DEFINE N == Len(rows)
<1> DEFINE P == start.listed.products \cup {ProductOf(rows[i]) : i \in 1..N}
<1> DEFINE V == start.listed.variants \cup {VariantOf(rows[i]) : i \in 1..N}
<1> DEFINE A == [ok : BOOLEAN, products : SUBSET P, variants : SUBSET V]
<1> DEFINE base == [ok |-> TRUE, products |-> start.listed.products, variants |-> start.listed.variants]
<1> DEFINE op(acc, row) ==
      LET own == {p \in acc.products : p.slug = row.slug}
          others == {v \in acc.variants : v.slug = row.slug}
          isNew == own = {}
          fits == /\ row.wellFormed /\ row.right
                  /\ isNew => row.title # NoTitle /\ \A l \in row.labels : start.label[l] = "ACTIVE"
                  /\ \A p \in own : /\ p \notin start.listed.products
                                    /\ row.title \in {NoTitle, p.title} /\ row.labels \in {{}, p.labels}
                  /\ \A v \in acc.variants : v.sku # row.sku /\ (v.active /\ row.gtin # NoGtin => v.gtin # row.gtin)
                  /\ \A v \in others : Names(v.options) = Names(row.options) /\ v.options # row.options IN
      IF ~fits THEN [acc EXCEPT !.ok = FALSE]
      ELSE [ok |-> acc.ok,
            products |-> IF isNew THEN acc.products \cup {[slug |-> row.slug, title |-> row.title, labels |-> row.labels]} ELSE acc.products,
            variants |-> acc.variants \cup {VariantRow(row.slug, row.sku, row.gtin, row.options)}]
<1> DEFINE G == [p \in (1..N) \X A |-> op(p[2], rows[p[1]])]
<1>0. N \in Nat /\ DOMAIN rows = 1..N
  BY RowsAre
<1>1. base \in A
  OBVIOUS
<1>b. ASSUME NEW acc, NEW row
      PROVE  op(acc, row) = IF ~HandFits(acc.products, acc.variants, row, start) THEN [acc EXCEPT !.ok = FALSE]
                            ELSE [ok |-> acc.ok,
                                  products |-> IF {p \in acc.products : p.slug = row.slug} = {} THEN acc.products \cup {ProductOf(row)}
                                               ELSE acc.products,
                                  variants |-> acc.variants \cup {VariantOf(row)}]
  BY DEF HandFits, ProductOf, VariantOf
<1> HIDE DEF op
<1>a. ASSUME NEW acc \in A, NEW i \in 1..N
      PROVE  op(acc, rows[i]) \in A
  <2>1. ProductOf(rows[i]) \in P /\ VariantOf(rows[i]) \in V
    OBVIOUS
  <2> HIDE DEF P, V
  <2>2. CASE ~HandFits(acc.products, acc.variants, rows[i], start)
    BY <1>b, <2>2
  <2>3. CASE HandFits(acc.products, acc.variants, rows[i], start)
    <3> DEFINE some == IF {p \in acc.products : p.slug = rows[i].slug} = {} THEN acc.products \cup {ProductOf(rows[i])} ELSE acc.products
    <3> DEFINE more == acc.variants \cup {VariantOf(rows[i])}
    <3>1. op(acc, rows[i]) = [ok |-> acc.ok, products |-> some, variants |-> more]
      BY <1>b, <2>3
    <3>2. acc.ok \in BOOLEAN /\ some \in SUBSET P /\ more \in SUBSET V
      BY <2>1
    <3> HIDE DEF some, more
    <3> QED
      BY <3>1, <3>2
  <2> QED
    BY <2>2, <2>3
<1>2. G \in [(1..N) \X A -> A]
  <2> HIDE DEF A
  <2> QED
    BY <1>0, <1>a
<1>3. PICK f : Iterates(f, N, base, A, G)
  <2> HIDE DEF N, G, base, A
  <2> QED
    BY <1>0, <1>1, <1>2, FoldExists
<1>4. f = [s \in SUBSET (DOMAIN rows) |-> IF s = {} THEN base ELSE op(f[s \ {Max(s)}], rows[Max(s)])]
  <2>1. f \in [SUBSET (1..N) -> A]
    BY <1>3 DEF Iterates
  <2>2. ASSUME NEW s \in SUBSET (1..N), s # {}
        PROVE  f[s] = op(f[s \ {Max(s)}], rows[Max(s)])
    <3>1. Max(s) \in 1..N /\ s \ {Max(s)} \in SUBSET (1..N)
      BY <1>0, <2>2, MaxIsOne
    <3>2. f[s] = G[<<Max(s), f[s \ {Max(s)}]>>]
      BY <1>3, <2>2 DEF Iterates
    <3>3. f[s \ {Max(s)}] \in A
      BY <2>1, <3>1
    <3> HIDE DEF A
    <3> QED
      BY <3>1, <3>2, <3>3
  <2>3. f[{}] = base
    BY <1>3 DEF Iterates
  <2> HIDE DEF G, base, A
  <2> QED
    BY <1>0, <2>1, <2>2, <2>3
<1> DEFINE iter == CHOOSE it : it = [s \in SUBSET (DOMAIN rows) |-> IF s = {} THEN base ELSE op(it[s \ {Max(s)}], rows[Max(s)])]
<1>5. iter = [s \in SUBSET (DOMAIN rows) |-> IF s = {} THEN base ELSE op(iter[s \ {Max(s)}], rows[Max(s)])]
  <2> HIDE DEF base, G, A
  <2> QED
    BY <1>4
<1>6. ByHand(rows, start) = iter[1..N]
  BY <1>0 DEF ByHand, FoldLeft, MapThenFoldSet, op
<1>7. iter[1..0] = base
  <2>1. 1..0 = {}
    OBVIOUS
  <2> HIDE DEF base, G, A, iter
  <2> QED
    BY <1>5, <2>1
<1>8. ASSUME NEW i \in Nat, i + 1 <= N
      PROVE  iter[1..(i + 1)] = op(iter[1..i], rows[i + 1])
  <2>1. i + 1 \in 1..N
    BY <1>0, <1>8
  <2>2. /\ 1..(i + 1) \in SUBSET (1..N) /\ 1..(i + 1) # {} /\ Max(1..(i + 1)) = i + 1
        /\ (1..(i + 1)) \ {Max(1..(i + 1))} = 1..i
    BY <1>0, <2>1, FirstOnes
  <2> HIDE DEF base, G, A, iter
  <2> QED
    BY <1>0, <1>5, <2>2
<1> HIDE DEF iter
<1> DEFINE Agrees(i) ==
  /\ iter[1..i] \in A
  /\ iter[1..i].ok <=> \A k \in 1..i : k \notin Bad(rows, start)
  /\ iter[1..i].ok => /\ iter[1..i].products = ProductsBefore(rows, start, i + 1)
                      /\ iter[1..i].variants = VariantsBefore(rows, start, i + 1)
<1> DEFINE T == {i \in Nat : i <= N => Agrees(i)}
<1>9. 0 \in T
  <2>1. ProductsBefore(rows, start, 0 + 1) = start.listed.products
    BY <1>0, FirstRowsAre DEF Read, ProductsBefore
  <2>2. VariantsBefore(rows, start, 0 + 1) = start.listed.variants
    BY DEF VariantsBefore
  <2>3. iter[1..0] \in A
    <3> HIDE DEF A, base
    <3> QED
      BY <1>1, <1>7
  <2>4. iter[1..0].ok = TRUE /\ iter[1..0].products = start.listed.products /\ iter[1..0].variants = start.listed.variants
    BY <1>7
  <2>5. 1..0 = {}
    OBVIOUS
  <2>6. Agrees(0)
    <3> HIDE DEF A, base
    <3> QED
      BY <2>1, <2>2, <2>3, <2>4, <2>5
  <2> HIDE DEF Agrees
  <2> QED
    BY <2>6
<1>10. ASSUME NEW i \in Nat, i \in T
       PROVE  i + 1 \in T
  <2> SUFFICES ASSUME i + 1 <= N
               PROVE  Agrees(i + 1)
    OBVIOUS
  <2> DEFINE acc == iter[1..i]
  <2> DEFINE next == iter[1..(i + 1)]
  <2> DEFINE row == rows[i + 1]
  <2>0. i + 1 \in 1..N /\ Agrees(i)
    <3> HIDE DEF Agrees
    <3> QED
      BY <1>0, <1>10
  <2>1. next = op(acc, row)
    BY <1>8
  <2>2. acc \in A /\ next \in A
    BY <1>a, <2>0, <2>1
  <2>3. /\ acc.ok <=> \A k \in 1..i : k \notin Bad(rows, start)
        /\ acc.ok => acc.products = ProductsBefore(rows, start, i + 1) /\ acc.variants = VariantsBefore(rows, start, i + 1)
    BY <2>0
  <2> HIDE DEF acc, next, row, Agrees, P, V, base, G
  <2>4. (\A k \in 1..(i + 1) : k \notin Bad(rows, start)) <=> (\A k \in 1..i : k \notin Bad(rows, start)) /\ i + 1 \notin Bad(rows, start)
    OBVIOUS
  <2>5. next = IF ~HandFits(acc.products, acc.variants, row, start) THEN [acc EXCEPT !.ok = FALSE]
               ELSE [ok |-> acc.ok,
                     products |-> IF {p \in acc.products : p.slug = row.slug} = {} THEN acc.products \cup {ProductOf(row)} ELSE acc.products,
                     variants |-> acc.variants \cup {VariantOf(row)}]
    BY <1>b, <2>1
  <2>6. CASE ~acc.ok
    <3>1. next.ok = FALSE
      BY <2>2, <2>5, <2>6
    <3>2. ~\A k \in 1..(i + 1) : k \notin Bad(rows, start)
      BY <2>3, <2>4, <2>6
    <3> HIDE DEF A
    <3> QED
      BY <2>2, <3>1, <3>2 DEF Agrees, next
  <2>7. CASE acc.ok
    <3>1. \A k \in 1..((i + 1) - 1) : k \notin Bad(rows, start)
      BY <2>3, <2>7
    <3>2. /\ HandFits(acc.products, acc.variants, row, start) <=> i + 1 \notin Bad(rows, start)
          /\ i + 1 \notin Bad(rows, start) => ({p \in acc.products : p.slug = row.slug} = {} <=> i + 1 \in FirstRows(rows))
      BY <2>0, <2>3, <2>7, <3>1, FitsOrBad DEF row
    <3>3. CASE i + 1 \in Bad(rows, start)
      <4>1. next = [acc EXCEPT !.ok = FALSE]
        BY <2>5, <3>2, <3>3
      <4>2. next.ok = FALSE
        BY <2>2, <4>1
      <4>3. ~\A k \in 1..(i + 1) : k \notin Bad(rows, start)
        BY <2>4, <3>3
      <4> HIDE DEF A
      <4> QED
        BY <2>2, <4>2, <4>3 DEF Agrees, next
    <3>4. CASE i + 1 \notin Bad(rows, start)
      <4>1. /\ next.ok = acc.ok /\ next.variants = acc.variants \cup {VariantOf(row)}
            /\ next.products = IF i + 1 \in FirstRows(rows) THEN acc.products \cup {ProductOf(row)} ELSE acc.products
        BY <2>5, <3>2, <3>4
      <4>2. next.products = ProductsBefore(rows, start, (i + 1) + 1)
        <5> DEFINE J == {j \in FirstRows(rows) : j < i + 1}
        <5> DEFINE K == {j \in FirstRows(rows) : j < (i + 1) + 1}
        <5>1. K = IF i + 1 \in FirstRows(rows) THEN J \cup {i + 1} ELSE J
          BY <1>0, FirstRowsAre DEF Read
        <5>2. acc.products = start.listed.products \cup {ProductOf(rows[j]) : j \in J}
          BY <2>3, <2>7 DEF ProductsBefore
        <5>3. ProductsBefore(rows, start, (i + 1) + 1) = start.listed.products \cup {ProductOf(rows[j]) : j \in K}
          BY DEF ProductsBefore
        <5> HIDE DEF J, K
        <5>4. CASE i + 1 \in FirstRows(rows)
          BY <4>1, <5>1, <5>4, <5>2, <5>3 DEF row
        <5>5. CASE i + 1 \notin FirstRows(rows)
          BY <4>1, <5>1, <5>2, <5>3, <5>5
        <5> QED
          BY <5>4, <5>5
      <4>3. next.variants = VariantsBefore(rows, start, (i + 1) + 1)
        BY <2>3, <2>7, <4>1 DEF VariantsBefore, row
      <4>4. \A k \in 1..(i + 1) : k \notin Bad(rows, start)
        BY <2>3, <2>4, <2>7, <3>4
      <4> HIDE DEF A
      <4> QED
        BY <2>2, <2>7, <4>1, <4>2, <4>3, <4>4 DEF Agrees, next
    <3> QED
      BY <3>3, <3>4
  <2> QED
    BY <2>6, <2>7
<1>11. Agrees(N)
  <2> HIDE DEF Agrees
  <2>1. N \in T
    <3> HIDE DEF T
    <3> QED
      BY <1>0, <1>9, <1>10, NatSets
  <2> QED
    BY <1>0, <2>1
<1> HIDE DEF base, G, P, V
<1>12. Bad(rows, start) \subseteq 1..N
  <2>1. FirstRows(rows) \subseteq 1..N /\ Read(rows) \subseteq 1..N
    BY <1>0, FirstRowsAre DEF Read
  <2>2. Checked(rows, start) \subseteq 1..N
    BY <1>0, <2>1 DEF Checked, RowErrors, parseRow, productsOf, rejectRepeated, TakenSlugs, TakenSkus, TakenGtins, UnusableOf
  <2>3. BuiltErrors(rows, Checked(rows, start)) \subseteq 1..N
    BY BuiltAre DEF BuiltErrors
  <2> QED
    BY <2>2, <2>3 DEF Bad
<1>13. ProductsBefore(rows, start, N + 1) = start.listed.products \cup ProductsOf(rows)
  BY <1>0, FirstRowsAre DEF Read, ProductsBefore, ProductsOf
<1>14. VariantsBefore(rows, start, N + 1) = start.listed.variants \cup VariantsOf(rows)
  BY <1>0 DEF VariantsBefore, VariantsOf
<1>15. iter[1..N].ok \in BOOLEAN
  BY <1>11
<1>16. iter[1..N].ok <=> Bad(rows, start) = {}
  <2> HIDE DEF A
  <2>1. iter[1..N].ok <=> \A k \in 1..N : k \notin Bad(rows, start)
    BY <1>11
  <2> QED
    BY <1>12, <2>1
<1> QED
  <2> HIDE DEF A
  <2> QED
    BY <1>6, <1>11, <1>13, <1>14, <1>15, <1>16

\* A file in which the import finds no error is not refused by the database over the catalog it was checked against.
LEMMA CheckedIsAccepted ==
  ASSUME NEW rows \in ImportFiles, NEW start, StartIsWhole(start), Bad(rows, start) = {}
  PROVE  ~RefusedBy(rows, start.listed.products, start.listed.variants, start.label)
<1> DEFINE products == start.listed.products
<1> DEFINE variants == start.listed.variants
<1>0. Len(rows) \in Nat /\ DOMAIN rows = 1..Len(rows)
  BY RowsAre
<1>1. Checked(rows, start) = {}
  BY DEF Bad
<1>2. DOMAIN rows = Read(rows)
  BY <1>1 DEF Checked, RowErrors, parseRow, Read
<1>3. ~\E p \in products, q \in ProductsOf(rows) : p.slug = q.slug
  BY <1>1 DEF ProductsOf, TakenSlugs, ProductOf, Checked
<1>4. ~\E v \in variants, w \in VariantsOf(rows) : v.sku = w.sku \/ (v.active /\ v.gtin # NoGtin /\ v.gtin = w.gtin)
  <2> SUFFICES ASSUME NEW v \in variants, NEW i \in DOMAIN rows, NEW w, w = VariantOf(rows[i]),
                      v.sku = w.sku \/ (v.active /\ v.gtin # NoGtin /\ v.gtin = w.gtin)
               PROVE  FALSE
    BY DEF VariantsOf
  <2>1. w.sku = rows[i].sku /\ w.gtin = rows[i].gtin
    BY VariantIs
  <2>2. i \in TakenSkus(rows, variants) \/ i \in TakenGtins(rows, variants)
    BY <1>2, <2>1 DEF TakenSkus, TakenGtins
  <2> QED
    BY <1>1, <2>2 DEF Checked
<1>5. ASSUME NEW i \in DOMAIN rows, NEW j \in DOMAIN rows, i < j, rows[i].slug = rows[j].slug, rows[i].options = rows[j].options
      PROVE  FALSE
  <2>1. \A k \in 1..(j - 1) : k \notin Bad(rows, start)
    OBVIOUS
  <2>2. ~refused(OptionsBefore(rows, j), rows[j].options)
    BY <1>0, <2>1, BadIs
  <2>3. i \in 1..(j - 1)
    BY <1>0, <1>5
  <2>4. rows[i].options \in OptionsBefore(rows, j)
    BY <1>5, <2>3 DEF OptionsBefore
  <2> QED
    BY <1>5, <2>2, <2>4 DEF refused
<1>6. ~\E v, w \in VariantsOf(rows) : v # w /\ v.slug = w.slug /\ v.options = w.options
  <2> SUFFICES ASSUME NEW i \in DOMAIN rows, NEW j \in DOMAIN rows, VariantOf(rows[i]) # VariantOf(rows[j]),
                      VariantOf(rows[i]).slug = VariantOf(rows[j]).slug, VariantOf(rows[i]).options = VariantOf(rows[j]).options
               PROVE  FALSE
    BY DEF VariantsOf
  <2>1. rows[i].slug = rows[j].slug /\ rows[i].options = rows[j].options
    BY VariantIs
  <2>2. i # j
    OBVIOUS
  <2>3. i < j \/ j < i
    BY <1>0, <2>2
  <2> QED
    BY <1>5, <2>1, <2>3
<1>7. ~\E p \in ProductsOf(rows) : \E l \in p.labels : start.label[l] = "NONE"
  <2> SUFFICES ASSUME NEW i \in FirstRows(rows), NEW l \in ProductOf(rows[i]).labels, start.label[l] = "NONE"
               PROVE  FALSE
    BY DEF ProductsOf
  <2>1. i \in DOMAIN rows /\ l \in rows[i].labels
    BY <1>2, FirstRowsAre DEF ProductOf
  <2>2. l \in Labels
    BY <1>0, <2>1, RowsAre
  <2>3. i \in UnusableOf(rows, Brands, start.label) \/ i \in UnusableOf(rows, CategoryNames, start.label)
    BY <2>1, <2>2 DEF UnusableOf, Labels
  <2> QED
    BY <1>1, <2>3 DEF Checked
<1> QED
  BY <1>3, <1>4, <1>6, <1>7 DEF RefusedBy

-----------------------------------------------------------------------------
(* Imports of products: the inductive invariant.                            *)

\* The errors that an import nobody disturbs has before each of its steps.
ErrorsBefore(step, rows, start) ==
  LET catalog == start.listed
      slugs == RowErrors(rows) \cup TakenSlugs(rows, catalog.products)
      skus == slugs \cup TakenSkus(rows, catalog.variants)
      gtins == skus \cup TakenGtins(rows, catalog.variants)
      brands == gtins \cup UnusableOf(rows, Brands, start.label) IN
  CASE step = "slugs" -> RowErrors(rows)
    [] step = "skus" -> slugs
    [] step = "gtins" -> skus
    [] step = "brands" -> gtins
    [] step = "categories" -> brands
    [] step = "build" -> Checked(rows, start)
    [] OTHER -> Bad(rows, start)

\* Each step adds what its query found.
LEMMA ErrorsAre ==
  ASSUME NEW rows, NEW start
  PROVE  /\ ErrorsBefore("slugs", rows, start) = RowErrors(rows)
         /\ ErrorsBefore("skus", rows, start) = ErrorsBefore("slugs", rows, start) \cup TakenSlugs(rows, start.listed.products)
         /\ ErrorsBefore("gtins", rows, start) = ErrorsBefore("skus", rows, start) \cup TakenSkus(rows, start.listed.variants)
         /\ ErrorsBefore("brands", rows, start) = ErrorsBefore("gtins", rows, start) \cup TakenGtins(rows, start.listed.variants)
         /\ ErrorsBefore("categories", rows, start) = ErrorsBefore("brands", rows, start) \cup UnusableOf(rows, Brands, start.label)
         /\ ErrorsBefore("build", rows, start) = ErrorsBefore("categories", rows, start) \cup UnusableOf(rows, CategoryNames, start.label)
         /\ ErrorsBefore("build", rows, start) = Checked(rows, start)
         /\ ErrorsBefore("write", rows, start) = Bad(rows, start)
  BY DEF ErrorsBefore, Checked

\* The fields of an import, and of what it keeps of the catalog when it began.
IsRun(r) ==
  /\ r \in [step : {r.step}, file : {r.file}, dryRun : {r.dryRun}, errors : {r.errors}, quiet : {r.quiet}, before : {r.before}]
  /\ r.step \in {"none", "slugs", "skus", "gtins", "brands", "categories", "build", "write", "refused", "conflict", "imported"}
\* The steps of an import that has not ended.
Underway == {"slugs", "skus", "gtins", "brands", "categories", "build", "write"}

\* An import under way has the errors of its rows and, while nobody else changed the catalog, exactly those that the
\* catalog it began with gives them; it writes without any. Once done, the catalog says what it did.
RunSound(r, now, labels) ==
  /\ r.step # "none" => r.file \in ImportFiles /\ StartIsWhole(r.before)
  /\ r.step \in Underway => RowErrors(r.file) \subseteq r.errors
  /\ r.step = "write" => r.errors = {}
  /\ r.step \in Underway /\ r.quiet =>
       r.errors = ErrorsBefore(r.step, r.file, r.before) /\ r.before.listed = now /\ r.before.label = labels
  /\ r.step = "imported" /\ ~r.dryRun =>
       /\ ProductsOf(r.file) \subseteq now.products
       /\ \A w \in VariantsOf(r.file) : \E v \in now.variants : v = [w EXCEPT !.active = v.active]
       /\ RowErrors(r.file) = {}
  /\ r.step \in {"refused", "conflict", "imported"} /\ r.quiet =>
       LET hand == ByHand(r.file, r.before) IN
       /\ r.step = IF hand.ok THEN "imported" ELSE "refused"
       /\ now = IF hand.ok /\ ~r.dryRun THEN [products |-> hand.products, variants |-> hand.variants] ELSE r.before.listed

\* The catalog is whole, and the import is sound.
ImportInv ==
  /\ listed = [products |-> listed.products, variants |-> listed.variants]
  /\ IsWhole(listed.products, listed.variants, label)
  /\ IsRun(productImport) /\ RunSound(productImport, listed, label)
  /\ label = [l \in Labels |-> label[l]]

\* What an import creates is what the rows of its file say.
LEMMA NewAre ==
  ASSUME file \in ImportFiles
  PROVE  NewProducts = ProductsOf(file) /\ NewVariants = VariantsOf(file)
  BY DEF NewProducts, NewVariants, ProductsOf, VariantsOf, ProductOf, VariantOf, FileLines

\* Errors found all at once refuse a file exactly when its rows one by one would be (HandIs).
LEMMA ImportImplies == ImportInv => ProductImportHolds
<1> SUFFICES ASSUME ImportInv
             PROVE  ProductImportHolds
  OBVIOUS
<1>1. ImportAsByHand
  BY DEF ImportInv, RunSound, ImportAsByHand, Done, file
<1>2. ImportIsWhole
  <2>1. /\ \A p, q \in listed.products : p.slug = q.slug => p = q
        /\ \A v, w \in listed.variants :
             /\ v.sku = w.sku => v = w
             /\ v.active /\ w.active /\ v.gtin = w.gtin /\ v.gtin # NoGtin => v = w
             /\ \E p \in listed.products : p.slug = v.slug
        /\ \A p \in listed.products : \A l \in p.labels : label[l] # "NONE"
    BY DEF ImportInv, IsWhole
  <2>2. ASSUME productImport.step = "imported", ~productImport.dryRun
        PROVE  /\ NewProducts \subseteq listed.products
               /\ \A w \in NewVariants : \E v \in listed.variants : v = [w EXCEPT !.active = v.active]
    BY <2>2, NewAre DEF ImportInv, RunSound, file
  <2> QED
    BY <2>1, <2>2 DEF ImportIsWhole
<1> QED
  BY <1>1, <1>2 DEF ProductImportHolds

\* An import that begins.
LEMMA Executes ==
  ASSUME ImportInv, NEW rows \in ImportFiles, NEW dryRun \in BOOLEAN, execute(rows, dryRun)
  PROVE  ImportInv'
<1> DEFINE start == [listed |-> listed, label |-> label]
<1> DEFINE next == [step |-> "slugs", file |-> rows, dryRun |-> dryRun, errors |-> RowErrors(rows), quiet |-> TRUE, before |-> start]
<1>1. productImport' = next /\ UNCHANGED <<listed, label>>
  BY DEF execute, RowErrors
<1>2. start.listed = listed /\ start.label = label /\ StartIsWhole(start)
  BY DEF StartIsWhole, ImportInv
<1> HIDE DEF start
<1>3. next.step = "slugs" /\ next.file = rows /\ next.errors = RowErrors(rows) /\ next.before = start /\ IsRun(next)
  BY DEF IsRun
<1> HIDE DEF next
<1>4. RunSound(next, listed, label)
  BY <1>2, <1>3, ErrorsAre DEF RunSound, Underway
<1> QED
  BY <1>1, <1>3, <1>4 DEF ImportInv

\* A check adds the lines it rejects.
LEMMA Checks ==
  ASSUME ImportInv, NEW step \in Underway \ {"build", "write"}, NEW next \in Underway \ {"write"}, NEW lines, Rejects(step, next, lines),
         ErrorsBefore(next, file, productImport.before) = ErrorsBefore(step, file, productImport.before) \cup lines \/ ~productImport.quiet
  PROVE  ImportInv'
<1> DEFINE r == productImport
<1> DEFINE after == [r EXCEPT !.step = next, !.errors = @ \cup lines]
<1>1. r.step = step /\ productImport' = after /\ UNCHANGED <<listed, label>>
  BY DEF Rejects
<1>2. IsRun(r) /\ RunSound(r, listed, label) /\ file = r.file
  BY DEF ImportInv, file
<1>3. ErrorsBefore(next, r.file, r.before) = ErrorsBefore(step, r.file, r.before) \cup lines \/ ~r.quiet
  BY <1>2
<1> HIDE DEF r
<1>4. /\ after \in [step : {next}, file : {r.file}, dryRun : {r.dryRun}, errors : {r.errors \cup lines}, quiet : {r.quiet}, before : {r.before}]
  BY <1>2 DEF IsRun
<1> HIDE DEF after
<1>5. /\ after.step = next /\ after.file = r.file /\ after.errors = r.errors \cup lines /\ after.quiet = r.quiet /\ after.before = r.before
  BY <1>4
<1>6. IsRun(after)
  BY <1>4, <1>5 DEF IsRun, Underway
<1>7. /\ r.file \in ImportFiles /\ StartIsWhole(r.before) /\ RowErrors(r.file) \subseteq r.errors
      /\ r.quiet => r.errors = ErrorsBefore(step, r.file, r.before) /\ r.before.listed = listed /\ r.before.label = label
  BY <1>1, <1>2 DEF RunSound, Underway
<1>8. after.quiet => after.errors = ErrorsBefore(after.step, after.file, after.before)
  BY <1>3, <1>5, <1>7
<1>9. RunSound(after, listed, label)
  BY <1>5, <1>7, <1>8 DEF RunSound, Underway
<1> QED
  BY <1>1, <1>6, <1>9 DEF ImportInv

\* The five checks against the catalog.
LEMMA ChecksKeep ==
  ASSUME ImportInv, takenSlugs \/ takenSkus \/ takenGtinKeys \/ brandsOf \/ categoriesOf
  PROVE  ImportInv'
<1> DEFINE r == productImport
<1>0. \A step \in Underway : r.step = step /\ r.quiet => r.before.listed = listed /\ r.before.label = label
  BY DEF ImportInv, RunSound
<1> HIDE DEF r
<1>1. CASE takenSlugs
  <2> DEFINE lines == {i \in FirstRows(file) : \E p \in listed.products : p.slug = file[i].slug}
  <2>1. Rejects("slugs", "skus", lines)
    BY <1>1 DEF takenSlugs
  <2>2. r.quiet => r.before.listed = listed
    BY <1>0, <2>1 DEF Rejects, Underway, r
  <2>3. ErrorsBefore("skus", file, r.before) = ErrorsBefore("slugs", file, r.before) \cup lines \/ ~r.quiet
    BY <2>2, ErrorsAre DEF TakenSlugs
  <2> HIDE DEF lines
  <2> QED
    BY <2>1, <2>3, Checks DEF Underway, r
<1>2. CASE takenSkus
  <2> DEFINE lines == {i \in Read(file) : \E v \in listed.variants : v.sku = file[i].sku}
  <2>1. Rejects("skus", "gtins", lines)
    BY <1>2 DEF takenSkus
  <2>2. r.quiet => r.before.listed = listed
    BY <1>0, <2>1 DEF Rejects, Underway, r
  <2>3. ErrorsBefore("gtins", file, r.before) = ErrorsBefore("skus", file, r.before) \cup lines \/ ~r.quiet
    BY <2>2, ErrorsAre DEF TakenSkus
  <2> HIDE DEF lines
  <2> QED
    BY <2>1, <2>3, Checks DEF Underway, r
<1>3. CASE takenGtinKeys
  <2> DEFINE lines == {i \in Read(file) : file[i].gtin # NoGtin /\ \E v \in listed.variants : v.active /\ v.gtin = file[i].gtin}
  <2>1. Rejects("gtins", "brands", lines)
    BY <1>3 DEF takenGtinKeys
  <2>2. r.quiet => r.before.listed = listed
    BY <1>0, <2>1 DEF Rejects, Underway, r
  <2>3. ErrorsBefore("brands", file, r.before) = ErrorsBefore("gtins", file, r.before) \cup lines \/ ~r.quiet
    BY <2>2, ErrorsAre DEF TakenGtins
  <2> HIDE DEF lines
  <2> QED
    BY <2>1, <2>3, Checks DEF Underway, r
<1>4. CASE brandsOf
  <2> DEFINE lines == UnusableOf(file, Brands, label)
  <2>1. Rejects("brands", "categories", lines)
    BY <1>4 DEF brandsOf, Unusable, UnusableOf
  <2>2. r.quiet => r.before.label = label
    BY <1>0, <2>1 DEF Rejects, Underway, r
  <2> HIDE DEF lines
  <2>3. ErrorsBefore("categories", file, r.before) = ErrorsBefore("brands", file, r.before) \cup lines \/ ~r.quiet
    BY <2>2, ErrorsAre DEF lines
  <2> QED
    BY <2>1, <2>3, Checks DEF Underway, r
<1>5. CASE categoriesOf
  <2> DEFINE lines == UnusableOf(file, CategoryNames, label)
  <2>1. Rejects("categories", "build", lines)
    BY <1>5 DEF categoriesOf, Unusable, UnusableOf
  <2>2. r.quiet => r.before.label = label
    BY <1>0, <2>1 DEF Rejects, Underway, r
  <2> HIDE DEF lines
  <2>3. ErrorsBefore("build", file, r.before) = ErrorsBefore("categories", file, r.before) \cup lines \/ ~r.quiet
    BY <2>2, ErrorsAre DEF lines
  <2> QED
    BY <2>1, <2>3, Checks DEF Underway, r
<1> QED
  BY <1>1, <1>2, <1>3, <1>4, <1>5

\* Building the products, after which the import writes or refuses.
LEMMA Builds ==
  ASSUME ImportInv, build
  PROVE  ImportInv'
<1> DEFINE r == productImport
<1> DEFINE all == r.errors \cup BuiltErrors(r.file, r.errors)
<1> DEFINE step == IF all = {} THEN "write" ELSE "refused"
<1> DEFINE after == [r EXCEPT !.errors = all, !.step = step]
<1>1. r.step = "build" /\ productImport' = after /\ UNCHANGED <<listed, label>>
  BY DEF build, BuiltErrors, file
<1>2. IsRun(r) /\ RunSound(r, listed, label)
  BY DEF ImportInv
<1> HIDE DEF r
<1>3. /\ r.file \in ImportFiles /\ StartIsWhole(r.before) /\ RowErrors(r.file) \subseteq r.errors
      /\ r.quiet => r.errors = Checked(r.file, r.before) /\ r.before.listed = listed /\ r.before.label = label
  BY <1>1, <1>2, ErrorsAre DEF RunSound, Underway
<1>4. r.quiet => all = Bad(r.file, r.before)
  BY <1>3 DEF Bad
<1>5. RowErrors(r.file) \subseteq all
  BY <1>3
<1>6. (all = {} /\ step = "write") \/ (all # {} /\ step = "refused")
  OBVIOUS
<1> HIDE DEF all, step
<1>7. after \in [step : {step}, file : {r.file}, dryRun : {r.dryRun}, errors : {all}, quiet : {r.quiet}, before : {r.before}]
  BY <1>2 DEF IsRun
<1> HIDE DEF after
<1>8. /\ after.step = step /\ after.file = r.file /\ after.errors = all /\ after.quiet = r.quiet /\ after.before = r.before
      /\ after.dryRun = r.dryRun
  BY <1>7
<1>9. IsRun(after)
  BY <1>6, <1>7, <1>8 DEF IsRun
<1>10. CASE all = {}
  <2>1. r.quiet => all = ErrorsBefore("write", r.file, r.before)
    BY <1>4, ErrorsAre
  <2>2. RunSound(after, listed, label)
    BY <1>3, <1>5, <1>6, <1>8, <1>10, <2>1 DEF RunSound, Underway
  <2> QED
    BY <1>1, <1>9, <2>2 DEF ImportInv
<1>11. CASE all # {}
  <2>1. r.quiet => ByHand(r.file, r.before).ok = FALSE
    BY <1>3, <1>4, <1>11, HandIs
  <2>2. RunSound(after, listed, label)
    BY <1>3, <1>6, <1>8, <1>11, <2>1 DEF RunSound, Underway
  <2> QED
    BY <1>1, <1>9, <2>2 DEF ImportInv
<1> QED
  BY <1>10, <1>11

\* The transaction.
LEMMA Inserts ==
  ASSUME ImportInv, insertNew
  PROVE  ImportInv'
<1> DEFINE r == productImport
<1> DEFINE Refused == RefusedBy(r.file, listed.products, listed.variants, label)
<1> DEFINE step == IF Refused THEN "conflict" ELSE "imported"
<1> DEFINE after == [r EXCEPT !.step = step]
<1> DEFINE now == [products |-> listed.products \cup ProductsOf(r.file), variants |-> listed.variants \cup VariantsOf(r.file)]
<1>1. r.step = "write" /\ file = r.file
  BY DEF insertNew, file
<1>2. IsRun(r) /\ RunSound(r, listed, label) /\ IsWhole(listed.products, listed.variants, label)
      /\ listed = [products |-> listed.products, variants |-> listed.variants]
  BY DEF ImportInv
<1> HIDE DEF r
<1>3. /\ r.file \in ImportFiles /\ StartIsWhole(r.before) /\ RowErrors(r.file) = {}
      /\ r.quiet => Bad(r.file, r.before) = {} /\ r.before.listed = listed /\ r.before.label = label
  BY <1>1, <1>2, ErrorsAre DEF RunSound, Underway
<1>4. Violated <=> Refused
  BY <1>1, <1>3, NewAre DEF Violated, RefusedBy
<1>5. /\ productImport' = after /\ UNCHANGED label
      /\ listed' = IF Refused \/ r.dryRun THEN listed ELSE now
  BY <1>1, <1>3, <1>4, NewAre DEF insertNew, r
<1>6. after \in [step : {step}, file : {r.file}, dryRun : {r.dryRun}, errors : {r.errors}, quiet : {r.quiet}, before : {r.before}]
  BY <1>2 DEF IsRun
<1>7. step = (IF Refused THEN "conflict" ELSE "imported") /\ step \in {"conflict", "imported"}
  OBVIOUS
<1> HIDE DEF after, step
<1>8. /\ after.step = step /\ after.file = r.file /\ after.quiet = r.quiet /\ after.before = r.before /\ after.dryRun = r.dryRun
  BY <1>6
<1>9. IsRun(after)
  BY <1>6, <1>7, <1>8 DEF IsRun
<1>10. r.quiet => /\ ~Refused /\ ByHand(r.file, r.before).ok = TRUE
                  /\ ByHand(r.file, r.before).products = listed.products \cup ProductsOf(r.file)
                  /\ ByHand(r.file, r.before).variants = listed.variants \cup VariantsOf(r.file)
  <2> SUFFICES ASSUME r.quiet
               PROVE  /\ ~Refused /\ ByHand(r.file, r.before).ok = TRUE
                      /\ ByHand(r.file, r.before).products = listed.products \cup ProductsOf(r.file)
                      /\ ByHand(r.file, r.before).variants = listed.variants \cup VariantsOf(r.file)
    OBVIOUS
  <2>1. Bad(r.file, r.before) = {} /\ r.before.listed = listed /\ r.before.label = label
    BY <1>3
  <2>2. ~RefusedBy(r.file, r.before.listed.products, r.before.listed.variants, r.before.label)
    BY <1>3, <2>1, CheckedIsAccepted
  <2>3. /\ ByHand(r.file, r.before).ok = (Bad(r.file, r.before) = {})
        /\ ByHand(r.file, r.before).products = r.before.listed.products \cup ProductsOf(r.file)
        /\ ByHand(r.file, r.before).variants = r.before.listed.variants \cup VariantsOf(r.file)
    BY <1>3, <2>1, HandIs
  <2>4. ~Refused
    BY <2>1, <2>2
  <2>5. ByHand(r.file, r.before).ok = TRUE
    BY <2>1, <2>3
  <2> HIDE DEF Refused
  <2> QED
    BY <2>1, <2>3, <2>4, <2>5
<1> HIDE DEF Refused
<1>11. CASE Refused
  <2>1. ~r.quiet /\ step = "conflict" /\ listed' = listed
    BY <1>5, <1>7, <1>10, <1>11
  <2>2. RunSound(after, listed, label)
    BY <1>3, <1>8, <2>1 DEF RunSound, Underway
  <2> QED
    BY <1>2, <1>5, <1>9, <2>1, <2>2 DEF ImportInv
<1>12. CASE ~Refused /\ r.dryRun
  <2>1. step = "imported" /\ listed' = listed
    BY <1>5, <1>7, <1>12
  <2>2. RunSound(after, listed, label)
    BY <1>3, <1>8, <1>10, <1>12, <2>1 DEF RunSound, Underway
  <2> QED
    BY <1>2, <1>5, <1>9, <2>1, <2>2 DEF ImportInv
<1>13. CASE ~Refused /\ ~r.dryRun
  <2>1. step = "imported" /\ listed' = now
    BY <1>5, <1>7, <1>13
  <2>2. now.products = listed.products \cup ProductsOf(r.file) /\ now.variants = listed.variants \cup VariantsOf(r.file)
        /\ now = [products |-> now.products, variants |-> now.variants]
    OBVIOUS
  <2>3. IsWhole(now.products, now.variants, label)
    BY <1>2, <1>3, <1>13, <2>2, WrittenIsWhole DEF Refused
  <2> HIDE DEF now
  <2>4. \A w \in VariantsOf(r.file) : \E v \in now.variants : v = [w EXCEPT !.active = v.active]
    BY VariantIs, <2>2 DEF VariantsOf, IsVariant
  <2>5. RunSound(after, now, label)
    BY <1>10, <2>2, <1>3, <1>8, <1>13, <2>1, <2>4 DEF RunSound, Underway
  <2> QED
    BY <1>5, <1>9, <2>1, <2>2, <2>3, <2>5 DEF ImportInv
<1> QED
  BY <1>11, <1>12, <1>13

\* While others change the catalog, an import is not quiet any more, and what it wrote stays, maybe discontinued.
LEMMA OthersKeep ==
  ASSUME ImportInv, Meanwhile, NEW products, NEW variants, listed' = [products |-> products, variants |-> variants],
         IsWhole(products, variants, label'), label' = [l \in Labels |-> label'[l]],
         listed.products \subseteq products,
         \A v \in listed.variants : \E w \in variants : w = [v EXCEPT !.active = w.active]
  PROVE  ImportInv'
<1> DEFINE r == productImport
<1> DEFINE after == [r EXCEPT !.quiet = FALSE]
<1>1. r.step # "none" /\ productImport' = after
  BY DEF Meanwhile
<1>2. IsRun(r) /\ RunSound(r, listed, label) /\ listed' = [products |-> listed'.products, variants |-> listed'.variants]
      /\ listed'.products = products /\ listed'.variants = variants
  BY DEF ImportInv
<1> HIDE DEF r
<1>3. after \in [step : {r.step}, file : {r.file}, dryRun : {r.dryRun}, errors : {r.errors}, quiet : {FALSE}, before : {r.before}]
  BY <1>2 DEF IsRun
<1> HIDE DEF after
<1>4. /\ after.step = r.step /\ after.file = r.file /\ after.errors = r.errors /\ after.quiet = FALSE /\ after.before = r.before
      /\ after.dryRun = r.dryRun
  BY <1>3
<1>5. IsRun(after)
  BY <1>2, <1>3, <1>4 DEF IsRun
<1>6. ASSUME r.step = "imported", ~r.dryRun
      PROVE  /\ ProductsOf(r.file) \subseteq products
             /\ \A w \in VariantsOf(r.file) : \E v \in variants : v = [w EXCEPT !.active = v.active]
  <2>1. /\ ProductsOf(r.file) \subseteq listed.products
        /\ \A w \in VariantsOf(r.file) : \E v \in listed.variants : v = [w EXCEPT !.active = v.active]
    BY <1>2, <1>6 DEF RunSound
  <2>2. ASSUME NEW w \in VariantsOf(r.file) PROVE \E v \in variants : v = [w EXCEPT !.active = v.active]
    BY <2>1, VariantIs DEF VariantsOf, IsVariant
  <2> QED
    BY <2>1, <2>2
<1>7. RunSound(after, listed', label')
  BY <1>1, <1>2, <1>4, <1>6 DEF RunSound, Underway
<1> QED
  BY <1>1, <1>2, <1>5, <1>7 DEF ImportInv

\* Another product that takes a SKU, a GTIN or a slug of the file.
LEMMA CreatesLike ==
  ASSUME ImportInv, NEW i \in Read(file), createLike(i)
  PROVE  ImportInv'
<1> DEFINE row == file[i]
<1> DEFINE p == [slug |-> row.slug, title |-> row.title, labels |-> {}]
<1> DEFINE v == VariantOf(row)
<1> DEFINE products == listed.products \cup {p}
<1> DEFINE variants == listed.variants \cup {v}
<1>1. /\ Meanwhile /\ listed' = [products |-> products, variants |-> variants] /\ UNCHANGED label
      /\ ~\E q \in listed.products : q.slug = row.slug
      /\ ~\E w \in listed.variants : w.sku = row.sku \/ (w.active /\ w.gtin # NoGtin /\ w.gtin = row.gtin)
  BY DEF createLike, VariantOf
<1>2. IsWhole(listed.products, listed.variants, label) /\ label = [l \in Labels |-> label[l]]
      /\ \A w \in listed.variants : IsVariant(w)
  BY DEF ImportInv, IsWhole
<1>3. p.slug = row.slug /\ p.labels = {}
  OBVIOUS
<1>4. IsVariant(v) /\ v.active = TRUE /\ v.slug = row.slug /\ v.sku = row.sku /\ v.gtin = row.gtin
  BY VariantIs
<1> HIDE DEF row, p, v
<1>5. IsWhole(products, variants, label)
  <2>1. \A a, b \in products : a.slug = b.slug => a = b
    BY <1>1, <1>2, <1>3 DEF IsWhole
  <2>2. ASSUME NEW a \in variants, NEW b \in variants
        PROVE  /\ a.sku = b.sku => a = b
               /\ a.active /\ b.active /\ a.gtin = b.gtin /\ a.gtin # NoGtin => a = b
               /\ \E q \in products : q.slug = a.slug
    BY <1>1, <1>2, <1>4, <1>3 DEF IsWhole
  <2>3. \A q \in products : q.labels \subseteq Labels /\ \A l \in q.labels : label[l] # "NONE"
    BY <1>2, <1>3 DEF IsWhole
  <2>4. \A w \in variants : IsVariant(w)
    BY <1>2, <1>4
  <2> HIDE DEF products, variants
  <2> QED
    BY <2>1, <2>2, <2>3, <2>4 DEF IsWhole
<1>6. \A w \in listed.variants : \E u \in variants : u = [w EXCEPT !.active = u.active]
  BY <1>2 DEF IsVariant
<1>7. listed.products \subseteq products
  OBVIOUS
<1> HIDE DEF products, variants
<1> QED
  BY <1>1, <1>2, <1>5, <1>6, <1>7, OthersKeep

\* A variant that gives its GTIN free.
LEMMA Discontinues ==
  ASSUME ImportInv, NEW v \in listed.variants, discontinueOne(v)
  PROVE  ImportInv'
<1> DEFINE u == [v EXCEPT !.active = FALSE]
<1> DEFINE variants == (listed.variants \ {v}) \cup {u}
<1>1. Meanwhile /\ listed' = [listed EXCEPT !.variants = variants] /\ UNCHANGED label
  BY DEF discontinueOne
<1>2. /\ IsWhole(listed.products, listed.variants, label) /\ label = [l \in Labels |-> label[l]]
      /\ listed = [products |-> listed.products, variants |-> listed.variants]
      /\ \A w \in listed.variants : IsVariant(w)
  BY DEF ImportInv, IsWhole
<1>3. u \in [slug : {v.slug}, sku : {v.sku}, gtin : {v.gtin}, options : {v.options}, active : {FALSE}]
  BY <1>2 DEF IsVariant
<1>4. u.slug = v.slug /\ u.sku = v.sku /\ u.gtin = v.gtin /\ u.options = v.options /\ u.active = FALSE
  BY <1>3
<1>5. IsVariant(u)
  BY <1>3, <1>4 DEF IsVariant
<1>6. u = [v EXCEPT !.active = u.active]
  BY <1>4
<1> HIDE DEF u
<1>7. listed' = [products |-> listed.products, variants |-> variants]
  <2> HIDE DEF variants
  <2> QED
    BY <1>1, <1>2
<1>8. IsWhole(listed.products, variants, label)
  <2>1. ASSUME NEW a \in variants, NEW b \in variants
        PROVE  /\ a.sku = b.sku => a = b
               /\ a.active /\ b.active /\ a.gtin = b.gtin /\ a.gtin # NoGtin => a = b
               /\ \E q \in listed.products : q.slug = a.slug
    BY <1>2, <1>4 DEF IsWhole
  <2>2. \A w \in variants : IsVariant(w)
    BY <1>2, <1>5
  <2> HIDE DEF variants
  <2> QED
    BY <1>2, <2>1, <2>2 DEF IsWhole
<1>9. ASSUME NEW w \in listed.variants PROVE \E x \in variants : x = [w EXCEPT !.active = x.active]
  <2>1. CASE w = v
    BY <1>6, <2>1
  <2>2. CASE w # v
    BY <1>2, <2>2 DEF IsVariant
  <2> QED
    BY <2>1, <2>2
<1> HIDE DEF variants
<1> QED
  BY <1>1, <1>2, <1>7, <1>8, <1>9, OthersKeep

\* A brand or category that comes or goes.
LEMMA SetsLabel ==
  ASSUME ImportInv, NEW l \in Labels, NEW status \in LabelStatuses, setLabel(l, status)
  PROVE  ImportInv'
<1>1. /\ Meanwhile /\ UNCHANGED listed /\ label' = [label EXCEPT ![l] = status]
      /\ status = "NONE" => \A p \in listed.products : l \notin p.labels
  BY DEF setLabel
<1>2. /\ IsWhole(listed.products, listed.variants, label) /\ label = [k \in Labels |-> label[k]]
      /\ listed = [products |-> listed.products, variants |-> listed.variants]
      /\ \A w \in listed.variants : IsVariant(w)
  BY DEF ImportInv, IsWhole
<1>3. label' = [k \in Labels |-> label'[k]] /\ \A k \in Labels : label'[k] = IF k = l THEN status ELSE label[k]
  BY <1>1, <1>2
<1>4. \A p \in listed.products : p.labels \subseteq Labels /\ \A k \in p.labels : label'[k] # "NONE"
  BY <1>1, <1>2, <1>3 DEF IsWhole
<1>5. IsWhole(listed.products, listed.variants, label')
  BY <1>2, <1>4 DEF IsWhole
<1>6. \A w \in listed.variants : \E u \in listed.variants : u = [w EXCEPT !.active = u.active]
  BY <1>2 DEF IsVariant
<1>7. listed' = [products |-> listed.products, variants |-> listed.variants] /\ listed.products \subseteq listed.products
  BY <1>1, <1>2
<1> QED
  BY <1>1, <1>3, <1>5, <1>6, <1>7, OthersKeep

\* Every step of the import and of the others.
LEMMA ImportStep == ImportInv /\ [ImportNext]_importVars => ImportInv'
<1> SUFFICES ASSUME ImportInv, ImportNext \/ UNCHANGED importVars
             PROVE  ImportInv'
  OBVIOUS
<1>1. CASE UNCHANGED importVars
  BY <1>1 DEF importVars, ImportInv
<1>2. CASE ImportNext
  BY <1>2, Executes, ChecksKeep, Builds, Inserts, CreatesLike, Discontinues, SetsLabel DEF ImportNext
<1> QED
  BY <1>1, <1>2

\* No import has begun.
LEMMA ImportStarts == ImportInit => ImportInv
<1> SUFFICES ASSUME ImportInit
             PROVE  ImportInv
  OBVIOUS
<1> DEFINE p == [slug |-> OldProduct.slug, title |-> OldProduct.title, labels |-> {}]
<1> DEFINE v == VariantRow(OldProduct.slug, OldProduct.sku, OldProduct.gtin, {})
<1>1. listed = [products |-> {p}, variants |-> {v}] /\ label \in [Labels -> {"ACTIVE", "INACTIVE"}] /\ productImport = NoImport
  BY DEF ImportInit
<1>2. p.slug = v.slug /\ p.labels = {} /\ IsVariant(v)
  BY DEF VariantRow, IsVariant
<1> HIDE DEF p, v
<1>3. IsWhole({p}, {v}, label)
  BY <1>2 DEF IsWhole
<1>4. IsRun(NoImport) /\ NoImport.step = "none"
  BY DEF NoImport, IsRun
<1>5. RunSound(NoImport, listed, label)
  BY <1>4 DEF RunSound, Underway
<1>6. listed.products = {p} /\ listed.variants = {v}
  BY <1>1
<1> QED
  BY <1>1, <1>3, <1>4, <1>5, <1>6 DEF ImportInv

-----------------------------------------------------------------------------
(* The catalog of states and municipalities.                               *)

\* A catalog of municipalities, where one in force has a name; and one of states.
IsCatalog(c) ==
  /\ c = [code \in Codes |-> [name |-> c[code].name, active |-> c[code].active]]
  /\ \A code \in Codes : c[code].active \in BOOLEAN /\ (c[code].active => c[code].name # NoName)
IsStates(n) == n = [s \in StateCodes |-> n[s]]

\* The snapshot of a complete file names every state and municipality it has.
LEMMA SnapshotSound ==
  ASSUME NEW rows, IsComplete(rows), NEW snapshot, snapshot = SnapshotOf(rows)
  PROVE  /\ snapshot.states = [s \in StateCodes |-> snapshot.states[s]]
         /\ \A s \in StateCodes : snapshot.states[s] # NoName
         /\ DOMAIN snapshot.places \subseteq Codes
         /\ \A code \in DOMAIN snapshot.places :
              /\ snapshot.places[code] = [name |-> snapshot.places[code].name, active |-> TRUE]
              /\ snapshot.places[code].name # NoName
<1> DEFINE R == {rows[i] : i \in DOMAIN rows}
<1>1. \A row \in R : WellFormed(row)
  BY DEF IsComplete
<1>2. \A s \in StateCodes : \E row \in R : row.state = s
  BY DEF IsComplete
<1>3. /\ snapshot.states = [s \in StateCodes |-> (CHOOSE row \in R : row.state = s).stateName]
      /\ snapshot.places = [code \in {codeOf(row) : row \in R} |-> [name |-> (CHOOSE row \in R : codeOf(row) = code).name, active |-> TRUE]]
  BY DEF SnapshotOf
<1> HIDE DEF R
<1>4. ASSUME NEW s \in StateCodes PROVE (CHOOSE row \in R : row.state = s).stateName # NoName
  BY <1>2, <1>1 DEF WellFormed
<1>5. ASSUME NEW code \in {codeOf(row) : row \in R}
      PROVE  (CHOOSE row \in R : codeOf(row) = code).name # NoName /\ code \in Codes
  BY <1>1 DEF codeOf, Codes, WellFormed
<1>6. snapshot.states = [s \in StateCodes |-> snapshot.states[s]] /\ \A s \in StateCodes : snapshot.states[s] # NoName
  BY <1>3, <1>4
<1>7. DOMAIN snapshot.places = {codeOf(row) : row \in R}
  BY <1>3
<1>8. ASSUME NEW code \in DOMAIN snapshot.places
      PROVE  /\ code \in Codes
             /\ snapshot.places[code] = [name |-> snapshot.places[code].name, active |-> TRUE]
             /\ snapshot.places[code].name # NoName
  <2>1. snapshot.places[code] = [name |-> (CHOOSE row \in R : codeOf(row) = code).name, active |-> TRUE]
    BY <1>3, <1>7
  <2>2. (CHOOSE row \in R : codeOf(row) = code).name # NoName /\ code \in Codes
    BY <1>5, <1>7
  <2> QED
    BY <2>1, <2>2
<1> QED
  BY <1>6, <1>8

\* What the plan finds: the municipalities stored before, those that left the file, changed their name or came back.
Known(seen, snapshot) == DOMAIN snapshot.places \cap StoredIn(seen.places)
Missing(seen, snapshot) == ActiveIn(seen.places) \ DOMAIN snapshot.places
Renamed(seen, snapshot) == {code \in Known(seen, snapshot) : seen.places[code].name # snapshot.places[code].name}
Reactivated(seen, snapshot) == Known(seen, snapshot) \ ActiveIn(seen.places)
Created(seen, snapshot) == DOMAIN snapshot.places \ Known(seen, snapshot)
Touched(seen, snapshot) ==
  Created(seen, snapshot) \cup Renamed(seen, snapshot) \cup Reactivated(seen, snapshot) \cup Missing(seen, snapshot)

\* The plan, part by part.
StatesToSave(seen, snapshot) == [s \in {s \in StateCodes : seen.states[s] # snapshot.states[s]} |-> snapshot.states[s]]
PlacesToSave(seen, snapshot) ==
  [code \in Touched(seen, snapshot) |->
     IF code \in Missing(seen, snapshot) THEN [seen.places[code] EXCEPT !.active = FALSE] ELSE snapshot.places[code]]
SummaryOf(seen, snapshot) ==
  [created |-> Cardinality(Created(seen, snapshot)), renamed |-> Cardinality(Renamed(seen, snapshot)),
   deactivated |-> Cardinality(Missing(seen, snapshot)), reactivated |-> Cardinality(Reactivated(seen, snapshot))]

\* The plan is these three.
LEMMA PlanIs ==
  ASSUME NEW seen, NEW snapshot
  PROVE  planGeoCatalogImport(seen, snapshot) =
           [states |-> StatesToSave(seen, snapshot), places |-> PlacesToSave(seen, snapshot), summary |-> SummaryOf(seen, snapshot)]
  BY DEF planGeoCatalogImport, StatesToSave, PlacesToSave, SummaryOf, Known, Missing, Renamed, Reactivated, Created, Touched

\* A written plan leaves a catalog, stores what was stored, and leaves every state stored, whatever others wrote.
LEMMA PlanWrites ==
  ASSUME NEW rows, IsComplete(rows), NEW seen, IsCatalog(seen.places), NEW plan, plan = planGeoCatalogImport(seen, SnapshotOf(rows)),
         NEW now, IsCatalog(now), NEW names, IsStates(names),
         \A s \in StateCodes : seen.states[s] # NoName => names[s] # NoName
  PROVE  /\ IsCatalog(Over(now, plan.places))
         /\ StoredIn(now) \subseteq StoredIn(Over(now, plan.places))
         /\ IsStates(Over(names, plan.states))
         /\ StatesIn(Over(names, plan.states)) = StateCodes
<1> DEFINE snapshot == SnapshotOf(rows)
<1> DEFINE w == Over(now, plan.places)
<1> DEFINE n == Over(names, plan.states)
<1>1. /\ \A s \in StateCodes : snapshot.states[s] # NoName
      /\ DOMAIN snapshot.places \subseteq Codes
      /\ \A code \in DOMAIN snapshot.places :
           /\ snapshot.places[code] = [name |-> snapshot.places[code].name, active |-> TRUE]
           /\ snapshot.places[code].name # NoName
  BY SnapshotSound
<1>2. /\ plan.states = [s \in {s \in StateCodes : seen.states[s] # snapshot.states[s]} |-> snapshot.states[s]]
      /\ plan.places = [code \in Touched(seen, snapshot) |->
                          IF code \in Missing(seen, snapshot) THEN [seen.places[code] EXCEPT !.active = FALSE]
                          ELSE snapshot.places[code]]
  <2>1. plan = planGeoCatalogImport(seen, snapshot)
    OBVIOUS
  <2> HIDE DEF snapshot
  <2>2. plan = [states |-> StatesToSave(seen, snapshot), places |-> PlacesToSave(seen, snapshot), summary |-> SummaryOf(seen, snapshot)]
    BY <2>1, PlanIs
  <2>3. plan.states = StatesToSave(seen, snapshot) /\ plan.places = PlacesToSave(seen, snapshot)
    BY <2>2
  <2> QED
    BY <2>3 DEF StatesToSave, PlacesToSave
<1> HIDE DEF snapshot
<1>3. DOMAIN now = Codes /\ DOMAIN names = StateCodes
  BY DEF IsCatalog, IsStates
<1>4. ASSUME NEW code \in DOMAIN plan.places
      PROVE  /\ plan.places[code] = [name |-> plan.places[code].name, active |-> plan.places[code].active]
             /\ plan.places[code].active \in BOOLEAN /\ plan.places[code].name # NoName
  <2>1. CASE code \in Missing(seen, snapshot)
    <3>1. code \in Codes /\ seen.places[code].active
      BY <2>1 DEF Missing, ActiveIn
    <3>2. seen.places[code] = [name |-> seen.places[code].name, active |-> seen.places[code].active] /\ seen.places[code].name # NoName
      BY <3>1 DEF IsCatalog
    <3>3. plan.places[code] = [seen.places[code] EXCEPT !.active = FALSE]
      BY <1>2, <2>1
    <3> QED
      BY <3>2, <3>3
  <2>2. CASE code \notin Missing(seen, snapshot)
    <3>1. code \in DOMAIN snapshot.places /\ plan.places[code] = snapshot.places[code]
      BY <1>2, <2>2 DEF Touched, Created, Renamed, Reactivated, Known
    <3>2. /\ snapshot.places[code] = [name |-> snapshot.places[code].name, active |-> TRUE]
          /\ snapshot.places[code].name # NoName
      BY <1>1, <3>1
    <3>3. /\ plan.places[code] = [name |-> plan.places[code].name, active |-> TRUE]
          /\ plan.places[code].name # NoName
      BY <3>1, <3>2
    <3>4. plan.places[code].active = TRUE
      BY <3>3
    <3> QED
      BY <3>3, <3>4
  <2> QED
    BY <2>1, <2>2
<1>5. w = [code \in Codes |-> IF code \in DOMAIN plan.places THEN plan.places[code] ELSE now[code]]
  BY <1>3 DEF Over
<1>6. n = [s \in StateCodes |-> IF s \in DOMAIN plan.states THEN plan.states[s] ELSE names[s]]
  BY <1>3 DEF Over
<1> HIDE DEF w, n
<1>7. ASSUME NEW code \in Codes
      PROVE  /\ w[code] = [name |-> w[code].name, active |-> w[code].active]
             /\ w[code].active \in BOOLEAN /\ (w[code].active => w[code].name # NoName)
             /\ now[code].name # NoName => w[code].name # NoName
  <2>1. CASE code \in DOMAIN plan.places
    BY <1>4, <1>5, <2>1
  <2>2. CASE code \notin DOMAIN plan.places
    BY <1>5, <2>2 DEF IsCatalog
  <2> QED
    BY <2>1, <2>2
<1>8. ASSUME NEW s \in StateCodes PROVE n[s] # NoName
  <2>1. CASE seen.states[s] # snapshot.states[s]
    BY <1>1, <1>2, <1>6, <2>1
  <2>2. CASE seen.states[s] = snapshot.states[s]
    BY <1>2, <1>6, <2>2, <1>1
  <2> QED
    BY <2>1, <2>2
<1>9. IsCatalog(w)
  BY <1>5, <1>7 DEF IsCatalog
<1>10. StoredIn(now) \subseteq StoredIn(w)
  BY <1>7 DEF StoredIn
<1>11. IsStates(n) /\ StatesIn(n) = StateCodes
  BY <1>6, <1>8 DEF IsStates, StatesIn
<1> QED
  BY <1>9, <1>10, <1>11 DEF w, n

\* A plan made of what is still stored leaves exactly the catalog of the file.
LEMMA PlanLeavesTheFile ==
  ASSUME NEW rows, IsComplete(rows), NEW seen, IsCatalog(seen.places), IsStates(seen.states),
         NEW plan, plan = planGeoCatalogImport(seen, SnapshotOf(rows)), NEW snapshot, snapshot = SnapshotOf(rows)
  PROVE  /\ Over(seen.states, plan.states) = snapshot.states
         /\ ActiveIn(Over(seen.places, plan.places)) = DOMAIN snapshot.places
         /\ \A code \in DOMAIN snapshot.places : Over(seen.places, plan.places)[code] = snapshot.places[code]
<1> DEFINE w == Over(seen.places, plan.places)
<1> DEFINE n == Over(seen.states, plan.states)
<1>1. /\ snapshot.states = [s \in StateCodes |-> snapshot.states[s]]
      /\ DOMAIN snapshot.places \subseteq Codes
      /\ \A code \in DOMAIN snapshot.places :
           /\ snapshot.places[code] = [name |-> snapshot.places[code].name, active |-> TRUE]
           /\ snapshot.places[code].name # NoName
  BY SnapshotSound
<1>2. plan.states = StatesToSave(seen, snapshot) /\ plan.places = PlacesToSave(seen, snapshot)
  BY PlanIs
<1>3. DOMAIN seen.places = Codes /\ DOMAIN seen.states = StateCodes
  BY DEF IsCatalog, IsStates
<1>4. n = [s \in StateCodes |-> IF s \in DOMAIN plan.states THEN plan.states[s] ELSE seen.states[s]]
  BY <1>3 DEF Over
<1>5. w = [code \in Codes |-> IF code \in DOMAIN plan.places THEN plan.places[code] ELSE seen.places[code]]
  BY <1>3 DEF Over
<1> HIDE DEF w, n
<1>6. n = snapshot.states
  BY <1>2, <1>4, <1>1 DEF StatesToSave
<1>7. DOMAIN plan.places = Touched(seen, snapshot)
  BY <1>2 DEF PlacesToSave
<1>8. ASSUME NEW code \in DOMAIN snapshot.places PROVE w[code] = snapshot.places[code] /\ w[code].active /\ code \in Codes
  <2>0. code \in Codes /\ snapshot.places[code] = [name |-> snapshot.places[code].name, active |-> TRUE]
    BY <1>1
  <2>1. code \notin Missing(seen, snapshot)
    BY DEF Missing
  <2>2. CASE code \in Touched(seen, snapshot)
    BY <1>2, <1>5, <1>7, <2>0, <2>1, <2>2 DEF PlacesToSave
  <2>3. CASE code \notin Touched(seen, snapshot)
    <3>1. w[code] = seen.places[code]
      BY <1>5, <1>7, <2>0, <2>3
    <3>2. code \in Known(seen, snapshot)
      BY <2>3 DEF Touched, Created
    <3>3. code \in ActiveIn(seen.places)
      BY <2>3, <3>2 DEF Touched, Reactivated
    <3>4. seen.places[code].name = snapshot.places[code].name
      BY <2>3, <3>2 DEF Touched, Renamed
    <3>5. seen.places[code] = [name |-> seen.places[code].name, active |-> seen.places[code].active] /\ seen.places[code].active = TRUE
      BY <2>0, <3>3 DEF IsCatalog, ActiveIn
    <3>6. seen.places[code] = snapshot.places[code]
      BY <2>0, <3>4, <3>5
    <3> QED
      BY <2>0, <3>1, <3>5, <3>6
  <2> QED
    BY <2>2, <2>3
<1>9. ASSUME NEW code \in Codes, code \notin DOMAIN snapshot.places PROVE ~w[code].active
  <2>1. CASE code \in ActiveIn(seen.places)
    BY <1>9, <2>1, <1>2, <1>5, <1>7 DEF Missing, Touched, PlacesToSave, IsCatalog
  <2>2. CASE code \notin ActiveIn(seen.places)
    <3>1. code \notin Touched(seen, snapshot)
      BY <1>9, <2>2 DEF Touched, Missing, Created, Renamed, Reactivated, Known
    <3> QED
      BY <1>5, <1>7, <2>2, <3>1 DEF ActiveIn
  <2> QED
    BY <2>1, <2>2
<1>10. ActiveIn(w) = DOMAIN snapshot.places
  BY <1>8, <1>9 DEF ActiveIn
<1> QED
  BY <1>6, <1>8, <1>10 DEF w, n

\* The function of nothing is the empty sequence.
LEMMA NothingIsEmpty ==
  ASSUME NEW f, DOMAIN f = {}, f = [x \in {} |-> f[x]]
  PROVE  f = <<>>
<1>1. 1..0 = {}
  OBVIOUS
<1>2. f \in [1..0 -> {}]
  BY <1>1
<1>3. f \in Seq({})
  BY <1>2, 0 \in Nat, SeqDef
<1>4. Len(f) = 0
  BY <1>1, <1>3, LenProperties
<1> QED
  BY <1>3, <1>4, EmptySeq

\* Over the catalog of its own file an import plans nothing.
LEMMA NothingDiffers ==
  ASSUME NEW rows, IsComplete(rows), NEW snapshot, snapshot = SnapshotOf(rows), NEW seen, IsCatalog(seen.places),
         seen.states = snapshot.states, ActiveIn(seen.places) = DOMAIN snapshot.places,
         \A code \in DOMAIN snapshot.places : seen.places[code] = snapshot.places[code]
  PROVE  planGeoCatalogImport(seen, snapshot) = NoPlan
<1>1. /\ DOMAIN snapshot.places \subseteq Codes
      /\ \A code \in DOMAIN snapshot.places : snapshot.places[code].name # NoName
  BY SnapshotSound
<1>2. Known(seen, snapshot) = DOMAIN snapshot.places
  BY <1>1 DEF Known, StoredIn
<1>3. Created(seen, snapshot) = {} /\ Renamed(seen, snapshot) = {} /\ Reactivated(seen, snapshot) = {} /\ Missing(seen, snapshot) = {}
  BY <1>2 DEF Created, Renamed, Reactivated, Missing
<1>4. Touched(seen, snapshot) = {}
  BY <1>3 DEF Touched
<1>5. StatesToSave(seen, snapshot) = <<>>
  <2> DEFINE f == StatesToSave(seen, snapshot)
  <2>1. DOMAIN f = {} /\ f = [x \in {} |-> f[x]]
    BY DEF StatesToSave
  <2> HIDE DEF f
  <2>2. f = <<>>
    BY <2>1, NothingIsEmpty
  <2> QED
    BY <2>2 DEF f
<1>6. PlacesToSave(seen, snapshot) = <<>>
  <2> DEFINE f == PlacesToSave(seen, snapshot)
  <2>1. DOMAIN f = {} /\ f = [x \in {} |-> f[x]]
    BY <1>4 DEF PlacesToSave
  <2> HIDE DEF f
  <2>2. f = <<>>
    BY <2>1, NothingIsEmpty
  <2> QED
    BY <2>2 DEF f
<1>7. SummaryOf(seen, snapshot) = [created |-> 0, renamed |-> 0, deactivated |-> 0, reactivated |-> 0]
  BY <1>3, FS_EmptySet DEF SummaryOf
<1> QED
  BY <1>5, <1>6, <1>7, PlanIs DEF NoPlan

\* Two finite sets with nothing in common count together.
LEMMA ApartCount ==
  ASSUME NEW S, NEW T, IsFiniteSet(S), IsFiniteSet(T), S \cap T = {}
  PROVE  IsFiniteSet(S \cup T) /\ Cardinality(S \cup T) = Cardinality(S) + Cardinality(T)
<1>1. Cardinality(S) \in Nat /\ Cardinality(T) \in Nat /\ Cardinality({}) = 0
  BY FS_CardinalityType, FS_EmptySet
<1>2. IsFiniteSet(S \cup T) /\ Cardinality(S \cup T) = Cardinality(S) + Cardinality(T) - Cardinality(S \cap T)
  BY FS_Union
<1>3. Cardinality(S \cap T) = 0
  BY <1>1
<1> QED
  BY <1>1, <1>2, <1>3

\* What a plan counts is what it changes of the municipalities in force.
LEMMA PlanCounts ==
  ASSUME NEW rows, IsComplete(rows), NEW snapshot, snapshot = SnapshotOf(rows), NEW seen, IsCatalog(seen.places),
         NEW plan, plan = planGeoCatalogImport(seen, snapshot)
  PROVE  Cardinality(DOMAIN snapshot.places) - Cardinality(ActiveIn(seen.places)) =
           plan.summary.created + plan.summary.reactivated - plan.summary.deactivated
<1> DEFINE F == DOMAIN snapshot.places
<1> DEFINE A == ActiveIn(seen.places)
<1> DEFINE K == Known(seen, snapshot)
<1> DEFINE C == Created(seen, snapshot)
<1> DEFINE R == Reactivated(seen, snapshot)
<1> DEFINE M == Missing(seen, snapshot)
<1>1. F \subseteq Codes /\ A \subseteq Codes /\ IsFiniteSet(Codes)
  BY SnapshotSound, GeoAssumption, FS_Product DEF ActiveIn, Codes
<1>2. A \cap F \subseteq K
  BY <1>1 DEF IsCatalog, ActiveIn, StoredIn, Known
<1>3. K \subseteq F /\ C = F \ K /\ R = K \ A /\ M = A \ F
  BY DEF Known, Created, Reactivated, Missing
<1>4. plan.summary.created = Cardinality(C) /\ plan.summary.reactivated = Cardinality(R) /\ plan.summary.deactivated = Cardinality(M)
  BY PlanIs DEF SummaryOf
<1> HIDE DEF F, A, K, C, R, M
<1>5. IsFiniteSet(F) /\ IsFiniteSet(A)
  BY <1>1, FS_Subset
<1>6. F = (C \cup R) \cup (A \cap F) /\ (C \cup R) \cap (A \cap F) = {} /\ C \cap R = {}
  BY <1>2, <1>3
<1>7. A = M \cup (A \cap F) /\ M \cap (A \cap F) = {}
  BY <1>3
<1>8. IsFiniteSet(C) /\ IsFiniteSet(R) /\ IsFiniteSet(M) /\ IsFiniteSet(A \cap F)
  BY <1>3, <1>5, <1>6, <1>7, FS_Subset
<1>9. /\ Cardinality(C) \in Nat /\ Cardinality(R) \in Nat /\ Cardinality(M) \in Nat /\ Cardinality(A \cap F) \in Nat
      /\ Cardinality({}) = 0
  BY <1>8, FS_CardinalityType, FS_EmptySet
<1>10. Cardinality(C \cup R) = Cardinality(C) + Cardinality(R) /\ IsFiniteSet(C \cup R)
  BY <1>6, <1>8, ApartCount
<1>11. Cardinality(F) = Cardinality(C) + Cardinality(R) + Cardinality(A \cap F)
  <2> DEFINE B == A \cap F
  <2> DEFINE D == C \cup R
  <2>1. IsFiniteSet(D) /\ IsFiniteSet(B) /\ D \cap B = {} /\ F = D \cup B
    BY <1>6, <1>8, <1>10
  <2> HIDE DEF D, B
  <2>2. Cardinality(F) = Cardinality(D) + Cardinality(B)
    BY <2>1, ApartCount
  <2> QED
    BY <1>10, <2>2 DEF D, B
<1>12. Cardinality(A) = Cardinality(M) + Cardinality(A \cap F)
  <2> DEFINE B == A \cap F
  <2>1. IsFiniteSet(M) /\ IsFiniteSet(B) /\ M \cap B = {} /\ A = M \cup B
    BY <1>7, <1>8
  <2> HIDE DEF B
  <2>2. Cardinality(A) = Cardinality(M) + Cardinality(B)
    BY <2>1, ApartCount
  <2> QED
    BY <2>2 DEF B
<1>13. Cardinality(F) - Cardinality(A) = Cardinality(C) + Cardinality(R) - Cardinality(M)
  BY <1>9, <1>11, <1>12
<1> QED
  BY <1>4, <1>13 DEF F, A

\* What an import under way holds: its file is complete; what it read of the states is still stored; its plan is made
\* of what it read; and while it is alone that is what is stored. One that ended alone tells what it changed.
IsImport(r) ==
  /\ r \in [step : {r.step}, file : {r.file}, dryRun : {r.dryRun}, seen : {r.seen}, plan : {r.plan}, alone : {r.alone},
            before : {r.before}, after : {r.after}]
  /\ r.seen \in [states : {r.seen.states}, places : {r.seen.places}]
ImportSound(r, names, catalog) ==
  /\ IsImport(r)
  /\ r.step \in {"loadStates", "loadPlaces", "save", "written"} => IsComplete(r.file)
  /\ r.step \in {"loadPlaces", "save", "written"} =>
       /\ IsStates(r.seen.states) /\ \A s \in StateCodes : r.seen.states[s] # NoName => names[s] # NoName
       /\ r.alone => r.seen.states = names
  /\ r.step \in {"save", "written"} =>
       /\ IsCatalog(r.seen.places) /\ r.plan = planGeoCatalogImport(r.seen, SnapshotOf(r.file))
       /\ r.alone => r.seen.places = catalog /\ r.before = Cardinality(ActiveIn(catalog))
  /\ r.step = "done" /\ ~r.dryRun /\ r.alone =>
       r.after - r.before = r.plan.summary.created + r.plan.summary.reactivated - r.plan.summary.deactivated

GeoInv ==
  /\ IsCatalog(places) /\ IsStates(states)
  /\ geoImport = [i \in Importers |-> geoImport[i]]
  /\ \A i \in Importers : ImportSound(geoImport[i], states, places)
  /\ CatalogIsTheFile /\ AddressesStayKnown

\* An import that goes on, and writes nothing, keeps the invariant if it is sound.
LEMMA GoesOn ==
  ASSUME GeoInv, NEW i \in Importers, NEW import, Goes(i, import), ImportSound(import, states, places), NothingWritten
  PROVE  GeoInv'
<1>1. UNCHANGED <<states, places, addresses, lastFile>>
  BY DEF NothingWritten
<1>2. geoImport' = [j \in Importers |-> IF j = i THEN import ELSE geoImport[j]]
  BY DEF Goes, GeoInv
<1>3. \A j \in Importers : ImportSound(geoImport'[j], states', places')
  BY <1>1, <1>2 DEF GeoInv
<1>4. geoImport' = [j \in Importers |-> geoImport'[j]]
  BY <1>2
<1>5. CatalogIsTheFile' /\ AddressesStayKnown'
  BY <1>1 DEF GeoInv, CatalogIsTheFile, AddressesStayKnown
<1> QED
  BY <1>1, <1>3, <1>4, <1>5 DEF GeoInv

\* The first two reads.
LEMMA LoadsStates ==
  ASSUME GeoInv, NEW i \in Importers, loadStates(i)
  PROVE  GeoInv'
<1> DEFINE r == geoImport[i]
<1> DEFINE next == [r EXCEPT !.step = "loadPlaces", !.seen.states = states, !.alone = TRUE]
<1>1. ImportSound(r, states, places) /\ IsStates(states)
  BY DEF GeoInv
<1>2. r.step = "loadStates" /\ Goes(i, next) /\ NothingWritten
  BY DEF loadStates
<1>3. IsComplete(r.file) /\ IsImport(r)
  BY <1>1, <1>2 DEF ImportSound
<1> HIDE DEF r
<1>4. next \in [step : {"loadPlaces"}, file : {r.file}, dryRun : {r.dryRun}, seen : {[states |-> states, places |-> r.seen.places]},
                plan : {r.plan}, alone : {TRUE}, before : {r.before}, after : {r.after}]
  BY <1>3 DEF IsImport
<1> HIDE DEF next
<1>5. IsImport(next) /\ next.step = "loadPlaces" /\ next.file = r.file /\ next.seen.states = states
  BY <1>4 DEF IsImport
<1>6. ImportSound(next, states, places)
  BY <1>1, <1>3, <1>5 DEF ImportSound
<1> QED
  BY <1>2, <1>6, GoesOn

\* The second read, of the municipalities, makes the plan.
LEMMA LoadsPlaces ==
  ASSUME GeoInv, NEW i \in Importers, loadPlaces(i)
  PROVE  GeoInv'
<1> DEFINE r == geoImport[i]
<1> DEFINE seen == [r.seen EXCEPT !.places = places]
<1> DEFINE planned == planGeoCatalogImport(seen, SnapshotOf(r.file))
<1> DEFINE step == IF r.dryRun THEN "done" ELSE "save"
<1> DEFINE next == [r EXCEPT !.step = step, !.seen = seen, !.plan = planned, !.before = Cardinality(ActiveIn(places))]
<1>1. ImportSound(r, states, places) /\ IsCatalog(places)
  BY DEF GeoInv
<1>2. r.step = "loadPlaces" /\ Goes(i, next) /\ NothingWritten
  BY DEF loadPlaces
<1>3. /\ IsComplete(r.file) /\ IsImport(r) /\ IsStates(r.seen.states)
      /\ \A s \in StateCodes : r.seen.states[s] # NoName => states[s] # NoName
      /\ r.alone => r.seen.states = states
  BY <1>1, <1>2 DEF ImportSound
<1> HIDE DEF r
<1>4. seen = [states |-> r.seen.states, places |-> places]
  BY <1>3 DEF IsImport
<1> HIDE DEF seen, planned, step
<1>5. next \in [step : {step}, file : {r.file}, dryRun : {r.dryRun}, seen : {seen},
                plan : {planned}, alone : {r.alone}, before : {Cardinality(ActiveIn(places))}, after : {r.after}]
  BY <1>3 DEF IsImport
<1> HIDE DEF next
<1>6. /\ next.step = step /\ next.file = r.file /\ next.seen = seen /\ next.plan = planned /\ next.alone = r.alone
      /\ next.before = Cardinality(ActiveIn(places)) /\ next.dryRun = r.dryRun
  BY <1>5
<1>7. IsImport(next) /\ next.seen.states = r.seen.states /\ next.seen.places = places
  BY <1>4, <1>5 DEF IsImport
<1>8. step \in {"done", "save"} /\ (step = "done" => r.dryRun)
  BY DEF step
<1>9. next.plan = planGeoCatalogImport(next.seen, SnapshotOf(next.file))
  BY <1>6 DEF planned
<1>10. ImportSound(next, states, places)
  BY <1>1, <1>3, <1>6, <1>7, <1>8, <1>9 DEF ImportSound
<1> QED
  BY <1>2, <1>10, GoesOn

\* An import that begins, writes without committing, or fails.
LEMMA BeginsOrEnds ==
  ASSUME GeoInv, NEW i \in Importers,
         \/ \E rows \in GeoFiles, dryRun \in BOOLEAN : importCatalog(i, rows, dryRun)
         \/ saveCatalog(i) \/ failImport(i)
  PROVE  GeoInv'
<1>0. NoGeoImport.file = <<>> /\ IsImport(NoGeoImport)
  BY DEF NoGeoImport, IsImport
<1>1. CASE \E rows \in GeoFiles, dryRun \in BOOLEAN : importCatalog(i, rows, dryRun)
  <2>1. PICK rows \in GeoFiles, dryRun \in BOOLEAN : importCatalog(i, rows, dryRun)
    BY <1>1
  <2>2. CASE IsComplete(rows)
    <3> DEFINE next == [NoGeoImport EXCEPT !.step = "loadStates", !.file = rows, !.dryRun = dryRun]
    <3>1. Goes(i, next) /\ NothingWritten
      BY <2>1, <2>2 DEF importCatalog
    <3>2. IsImport(next) /\ next.step = "loadStates" /\ next.file = rows
      BY DEF IsImport, NoGeoImport
    <3> HIDE DEF next
    <3>3. ImportSound(next, states, places)
      BY <2>2, <3>2 DEF ImportSound
    <3> QED
      BY <3>1, <3>3, GoesOn
  <2>3. CASE ~IsComplete(rows)
    <3> DEFINE next == [NoGeoImport EXCEPT !.step = "refused"]
    <3>1. Goes(i, next) /\ NothingWritten
      BY <2>1, <2>3 DEF importCatalog
    <3>2. IsImport(next) /\ next.step = "refused"
      BY DEF IsImport, NoGeoImport
    <3> HIDE DEF next
    <3>3. ImportSound(next, states, places)
      BY <3>2 DEF ImportSound
    <3> QED
      BY <3>1, <3>3, GoesOn
  <2> QED
    BY <2>2, <2>3
<1>2. CASE saveCatalog(i)
  <2> DEFINE r == geoImport[i]
  <2> DEFINE next == [r EXCEPT !.step = "written"]
  <2>1. ImportSound(r, states, places)
    BY DEF GeoInv
  <2>2. r.step = "save" /\ Goes(i, next) /\ NothingWritten
    BY <1>2 DEF saveCatalog
  <2> HIDE DEF r
  <2>3. IsImport(r)
    BY <2>1 DEF ImportSound
  <2>4. next = [step |-> "written", file |-> r.file, dryRun |-> r.dryRun, seen |-> r.seen, plan |-> r.plan,
                alone |-> r.alone, before |-> r.before, after |-> r.after]
    BY <2>3 DEF IsImport
  <2> HIDE DEF next
  <2>5. /\ next.step = "written" /\ next.file = r.file /\ next.seen = r.seen /\ next.plan = r.plan /\ next.alone = r.alone
        /\ next.before = r.before
    BY <2>4
  <2>6. IsImport(next)
    BY <2>3, <2>4 DEF IsImport
  <2>7. ImportSound(next, states, places)
    BY <2>1, <2>2, <2>5, <2>6 DEF ImportSound
  <2> QED
    BY <2>2, <2>7, GoesOn
<1>3. CASE failImport(i)
  <2> DEFINE next == [NoGeoImport EXCEPT !.step = "failed"]
  <2>1. Goes(i, next) /\ NothingWritten
    BY <1>3 DEF failImport
  <2>2. IsImport(next) /\ next.step = "failed"
    BY DEF IsImport, NoGeoImport
  <2> HIDE DEF next
  <2>3. ImportSound(next, states, places)
    BY <2>2 DEF ImportSound
  <2> QED
    BY <2>1, <2>3, GoesOn
<1> QED
  BY <1>1, <1>2, <1>3

\* The commit of one: those that read before are not alone any more.
LEMMA Commits ==
  ASSUME GeoInv, NEW i \in Importers, commitCatalog(i)
  PROVE  GeoInv'
<1> DEFINE r == geoImport[i]
<1> DEFINE w == Over(places, r.plan.places)
<1> DEFINE n == Over(states, r.plan.states)
<1> DEFINE next == [r EXCEPT !.step = "done", !.after = Cardinality(ActiveIn(w))]
<1>1. ImportSound(r, states, places) /\ IsCatalog(places) /\ IsStates(states)
  BY DEF GeoInv
<1>2. /\ r.step = "written" /\ states' = n /\ places' = w
      /\ lastFile' = IF r.alone THEN r.file ELSE <<>>
      /\ geoImport' = [j \in Importers |-> IF j = i THEN next ELSE [geoImport[j] EXCEPT !.alone = FALSE]]
      /\ UNCHANGED addresses
  BY DEF commitCatalog
<1> HIDE DEF r, w, n
<1>3. /\ IsImport(r) /\ IsComplete(r.file) /\ IsStates(r.seen.states) /\ IsCatalog(r.seen.places)
      /\ \A s \in StateCodes : r.seen.states[s] # NoName => states[s] # NoName
      /\ r.plan = planGeoCatalogImport(r.seen, SnapshotOf(r.file))
      /\ r.alone => r.seen.states = states /\ r.seen.places = places /\ r.before = Cardinality(ActiveIn(places))
  BY <1>1, <1>2 DEF ImportSound
<1>4. IsCatalog(w) /\ StoredIn(places) \subseteq StoredIn(w) /\ IsStates(n) /\ StatesIn(n) = StateCodes
  BY <1>1, <1>3, PlanWrites DEF w, n
<1>5. r.alone => /\ n = SnapshotOf(r.file).states /\ ActiveIn(w) = DOMAIN SnapshotOf(r.file).places
                 /\ \A code \in DOMAIN SnapshotOf(r.file).places : w[code] = SnapshotOf(r.file).places[code]
  BY <1>3, PlanLeavesTheFile DEF w, n
<1>6. next \in [step : {"done"}, file : {r.file}, dryRun : {r.dryRun}, seen : {r.seen},
                plan : {r.plan}, alone : {r.alone}, before : {r.before}, after : {Cardinality(ActiveIn(w))}]
  BY <1>3 DEF IsImport
<1> HIDE DEF next
<1>7. ImportSound(next, n, w)
  <2>1. /\ next.step = "done" /\ next.plan = r.plan /\ next.alone = r.alone /\ next.before = r.before
        /\ next.after = Cardinality(ActiveIn(w))
    BY <1>6
  <2>2. IsImport(next)
    BY <1>3, <1>6 DEF IsImport
  <2>3. r.alone => next.after - next.before = next.plan.summary.created + next.plan.summary.reactivated - next.plan.summary.deactivated
    BY <1>3, <1>5, <2>1, PlanCounts
  <2> QED
    BY <2>1, <2>2, <2>3 DEF ImportSound
<1>8. ASSUME NEW j \in Importers, j # i
      PROVE  ImportSound([geoImport[j] EXCEPT !.alone = FALSE], n, w)
  <2> DEFINE q == geoImport[j]
  <2> DEFINE other == [q EXCEPT !.alone = FALSE]
  <2>1. ImportSound(q, states, places)
    BY DEF GeoInv
  <2> HIDE DEF q
  <2>2. IsImport(q)
    BY <2>1 DEF ImportSound
  <2>3. other \in [step : {q.step}, file : {q.file}, dryRun : {q.dryRun}, seen : {q.seen},
                  plan : {q.plan}, alone : {FALSE}, before : {q.before}, after : {q.after}]
    BY <2>2 DEF IsImport
  <2> HIDE DEF other
  <2>4. other.step = q.step /\ other.file = q.file /\ other.seen = q.seen /\ other.plan = q.plan /\ other.alone = FALSE
    BY <2>3
  <2>5. IsImport(other)
    BY <2>2, <2>3 DEF IsImport
  <2>6. \A s \in StateCodes : n[s] # NoName
    BY <1>4 DEF StatesIn
  <2>7. ImportSound(other, n, w)
    BY <2>1, <2>4, <2>5, <2>6 DEF ImportSound
  <2> QED
    BY <2>7 DEF other, q
<1>9. ASSUME NEW j \in Importers PROVE ImportSound(geoImport'[j], states', places')
  <2>1. CASE j = i
    BY <1>2, <1>7, <2>1
  <2>2. CASE j # i
    BY <1>2, <2>2, <1>8
  <2> QED
    BY <2>1, <2>2
<1>10. CatalogIsTheFile'
  <2> SUFFICES ASSUME lastFile' # <<>>
               PROVE  /\ states' = SnapshotOf(lastFile').states
                      /\ ActiveIn(places') = DOMAIN SnapshotOf(lastFile').places
                      /\ \A code \in ActiveIn(places') : places'[code] = SnapshotOf(lastFile').places[code]
                      /\ planGeoCatalogImport([states |-> states', places |-> places'], SnapshotOf(lastFile')) = NoPlan
    BY DEF CatalogIsTheFile
  <2>1. r.alone /\ lastFile' = r.file
    BY <1>2
  <2> DEFINE seen == [states |-> states', places |-> places']
  <2> DEFINE snapshot == SnapshotOf(r.file)
  <2>2. /\ seen.states = snapshot.states /\ ActiveIn(seen.places) = DOMAIN snapshot.places /\ IsCatalog(seen.places)
        /\ \A code \in DOMAIN snapshot.places : seen.places[code] = snapshot.places[code]
    BY <1>2, <1>4, <1>5, <2>1
  <2> HIDE DEF seen
  <2>3. planGeoCatalogImport(seen, snapshot) = NoPlan
    BY <1>3, <2>2, NothingDiffers
  <2> QED
    BY <1>2, <1>5, <2>1, <2>3 DEF seen
<1>11. AddressesStayKnown'
  BY <1>2, <1>4 DEF GeoInv, AddressesStayKnown
<1>12. geoImport' = [j \in Importers |-> geoImport'[j]]
  BY <1>2
<1> QED
  BY <1>2, <1>4, <1>9, <1>10, <1>11, <1>12 DEF GeoInv

\* An address takes a municipality that is stored.
LEMMA KeepsAddress ==
  ASSUME GeoInv, NEW s \in StateCodes, NEW code \in Codes, keepAddress(s, code)
  PROVE  GeoInv'
<1>1. addresses' = addresses \cup {code} /\ code \in ActiveIn(places) /\ UNCHANGED <<states, places, geoImport, lastFile>>
  BY DEF keepAddress, listActiveMunicipalities
<1>2. code \in StoredIn(places)
  BY <1>1 DEF GeoInv, IsCatalog, ActiveIn, StoredIn
<1>3. AddressesStayKnown' /\ CatalogIsTheFile'
  BY <1>1, <1>2 DEF GeoInv, AddressesStayKnown, CatalogIsTheFile
<1> QED
  BY <1>1, <1>3 DEF GeoInv

\* Every step of the imports and of the addresses.
LEMMA GeoStep == GeoInv /\ [GeoNext]_geoVars => GeoInv'
<1> SUFFICES ASSUME GeoInv, GeoNext \/ UNCHANGED geoVars
             PROVE  GeoInv'
  OBVIOUS
<1>1. CASE UNCHANGED geoVars
  BY <1>1 DEF geoVars, GeoInv, CatalogIsTheFile, AddressesStayKnown
<1>2. CASE GeoNext
  BY <1>2, LoadsStates, LoadsPlaces, BeginsOrEnds, Commits, KeepsAddress DEF GeoNext
<1> QED
  BY <1>1, <1>2

\* Nothing is stored.
LEMMA GeoStarts == GeoInit => GeoInv
<1> SUFFICES ASSUME GeoInit
             PROVE  GeoInv
  OBVIOUS
<1>1. IsImport(NoGeoImport) /\ NoGeoImport.step = "none"
  BY DEF NoGeoImport, IsImport
<1>2. ImportSound(NoGeoImport, states, places)
  BY <1>1 DEF ImportSound
<1>3. IsCatalog(places) /\ IsStates(states) /\ StoredIn(places) = {}
  BY DEF GeoInit, IsCatalog, IsStates, NoPlace, StoredIn
<1>4. CatalogIsTheFile /\ AddressesStayKnown
  BY <1>3 DEF GeoInit, CatalogIsTheFile, AddressesStayKnown
<1>5. geoImport = [i \in Importers |-> geoImport[i]] /\ \A i \in Importers : geoImport[i] = NoGeoImport
  BY DEF GeoInit
<1> QED
  BY <1>2, <1>3, <1>4, <1>5 DEF GeoInv

\* It is what the catalog promises.
LEMMA GeoImplies == GeoInv => GeoHolds
  BY DEF GeoInv, ImportSound, GeoHolds, SummaryAddsUp

-----------------------------------------------------------------------------
(* Both, beside the rest of the back office.                               *)

\* Where a behavior begins.
LEMMA BackOfficeStart == BackOfficeInit => ImportInv /\ GeoInv
  BY ImportStarts, GeoStarts DEF BackOfficeInit

\* A step is one of the imports, or leaves them alone.
LEMMA BackOfficeStep == ImportInv /\ GeoInv /\ [BackOfficeNext]_backOfficeVars => ImportInv' /\ GeoInv'
<1> SUFFICES ASSUME ImportInv, GeoInv, BackOfficeNext \/ UNCHANGED backOfficeVars
             PROVE  ImportInv' /\ GeoInv'
  OBVIOUS
<1>1. (ImportNext \/ UNCHANGED importVars) /\ (GeoNext \/ UNCHANGED geoVars)
  BY DEF backOfficeVars, BackOfficeNext, Rest
<1>2. ImportInv'
  BY <1>1, ImportStep
<1>3. GeoInv'
  BY <1>1, GeoStep
<1> QED
  BY <1>2, <1>3

\* Whatever the staff and other imports do meanwhile: an import that nothing disturbed creates what its rows one by one
\* by hand would have created, each file is written whole or not at all, and the places are those of the last file.
THEOREM ImportsAlwaysHold == BackOfficeSpec => []ImportsHold
<1>1. ImportInv /\ GeoInv => ImportsHold
  BY ImportImplies, GeoImplies DEF ImportsHold
<1> QED
  BY <1>1, BackOfficeStart, BackOfficeStep, PTL DEF BackOfficeSpec

-----------------------------------------------------------------------------
(* The tree of categories.                                                 *)

\* Shapes of the rows and of the edits in progress.
CategoryRows == [status : {"NONE", "DELETED", "ACTIVE", "INACTIVE"}, parent : Parents]
CategoryEdits == [step : {"none", "move", "save"}, id : Parents, row : CategoryRows, moves : BOOLEAN]
CategoryShapes ==
  /\ categories \in [CategoryIds -> CategoryRows] /\ categoryEdits \in [CategoryEditors -> CategoryEdits]
  /\ treeLock \subseteq CategoryEditors /\ writtenBack \subseteq CategoryIds

\* The parent of each category.
Above == [c \in CategoryIds |-> categories[c].parent]

-----------------------------------------------------------------------------
(* What the recursive functions of the tree are, step by step.             *)

\* What a category reaches in so many steps up.
LEMMA ReachIs ==
  ASSUME CategoryShapes
  PROVE  \A n \in Nat, c \in CategoryIds :
           /\ reach[n][c] \subseteq CategoryIds
           /\ reach[0][c] = {c}
           /\ reach[n + 1][c] = IF Above[c] = NoCategory THEN {c} ELSE {c} \cup reach[n][Above[c]]
<1> DEFINE A == [CategoryIds -> SUBSET CategoryIds]
           base == [c \in CategoryIds |-> {c}]
           next(g) == [c \in CategoryIds |-> IF Above[c] = NoCategory THEN {c} ELSE {c} \cup g[Above[c]]]
           G == [q \in Nat \X A |-> next(q[2])]
           R(r) == [n \in Nat |-> [c \in CategoryIds |->
                     IF n = 0 \/ categories[c].parent = NoCategory THEN {c} ELSE {c} \cup r[n - 1][categories[c].parent]]]
<1>0. \A c \in CategoryIds : Above[c] = categories[c].parent /\ Above[c] \in CategoryIds \cup {NoCategory}
  BY DEF CategoryShapes, CategoryRows, Parents, Above
<1>1. base \in A
  OBVIOUS
<1>2. \A g \in A : next(g) \in A
  BY <1>0
<1>3. G \in [Nat \X A -> A]
  <2> HIDE DEF next, A
  <2> QED
    BY <1>2
<1>r. PICK f : RecursOn(f, base, A, G)
  <2> HIDE DEF G, A, base
  <2> QED
    BY <1>1, <1>3, RecursionExists
<1>4. f \in [Nat -> A] /\ f[0] = base /\ \A n \in Nat : f[n + 1] = G[<<n, f[n]>>]
  <2> HIDE DEF G, A, base
  <2> QED
    BY <1>r DEF RecursOn
<1>5. \A n \in Nat : f[n + 1] = next(f[n])
  <2> HIDE DEF next, A
  <2> QED
    BY <1>4
<1>6. f = R(f)
  <2>1. ASSUME NEW n \in Nat
        PROVE  f[n] = R(f)[n]
    <3>1. CASE n = 0
      BY <1>4, <3>1
    <3>2. CASE n # 0
      BY <3>2, <1>5, <1>0
    <3> QED
      BY <3>1, <3>2
  <2>2. f = [n \in Nat |-> f[n]] /\ R(f) = [n \in Nat |-> R(f)[n]]
    <3> HIDE DEF A
    <3> QED
      BY <1>4
  <2> HIDE DEF R
  <2> QED
    BY <2>1, <2>2
<1>7. reach = R(reach)
  <2>1. reach = CHOOSE r : r = R(r)
    BY DEF reach
  <2> HIDE DEF R
  <2> QED
    BY <1>6, <2>1
<1>8. \A n \in Nat : reach[n] = [c \in CategoryIds |->
        IF n = 0 \/ categories[c].parent = NoCategory THEN {c} ELSE {c} \cup reach[n - 1][categories[c].parent]]
  <2>1. \A n \in Nat : R(reach)[n] = [c \in CategoryIds |->
        IF n = 0 \/ categories[c].parent = NoCategory THEN {c} ELSE {c} \cup reach[n - 1][categories[c].parent]]
    OBVIOUS
  <2> HIDE DEF R
  <2> QED
    BY <1>7, <2>1
<1>9. ASSUME NEW n \in Nat, NEW c \in CategoryIds
      PROVE  /\ reach[0][c] = {c}
             /\ reach[n + 1][c] = IF Above[c] = NoCategory THEN {c} ELSE {c} \cup reach[n][Above[c]]
  <2>1. reach[0][c] = {c}
    <3>1. reach[0] = [x \in CategoryIds |-> {x}]
      BY <1>8
    <3> QED
      BY <3>1
  <2>2. n + 1 \in Nat /\ n + 1 # 0 /\ (n + 1) - 1 = n
    OBVIOUS
  <2>3. reach[n + 1] = [x \in CategoryIds |->
          IF categories[x].parent = NoCategory THEN {x} ELSE {x} \cup reach[n][categories[x].parent]]
    BY <1>8, <2>2
  <2> QED
    BY <1>0, <2>1, <2>3
<1> DEFINE T == {n \in Nat : \A c \in CategoryIds : reach[n][c] \subseteq CategoryIds}
<1>10. 0 \in T
  BY <1>9
<1>11. ASSUME NEW n \in Nat, n \in T
       PROVE  n + 1 \in T
  <2> SUFFICES ASSUME NEW c \in CategoryIds
               PROVE  reach[n + 1][c] \subseteq CategoryIds
    OBVIOUS
  <2>1. Above[c] # NoCategory => reach[n][Above[c]] \subseteq CategoryIds
    BY <1>0, <1>11
  <2>2. reach[n + 1][c] = IF Above[c] = NoCategory THEN {c} ELSE {c} \cup reach[n][Above[c]]
    BY <1>9
  <2> QED
    BY <2>1, <2>2
<1>12. \A n \in Nat : n \in T
  <2> HIDE DEF T
  <2> QED
    BY <1>10, <1>11, NatSets
<1> QED
  BY <1>9, <1>12

\* What is visible down the tree, level by level.
LEMMA DownIs ==
  ASSUME CategoryShapes
  PROVE  /\ \A n \in Nat : down[n] \subseteq CategoryIds
         /\ \A c \in CategoryIds : c \in down[0] <=> categories[c].status = "ACTIVE" /\ categories[c].parent = NoCategory
         /\ \A n \in Nat, c \in CategoryIds :
              c \in down[n + 1] <=> c \in down[n] \/ (categories[c].status = "ACTIVE" /\ categories[c].parent \in down[n])
<1> DEFINE A == SUBSET CategoryIds
           base == {c \in childrenOf(NoCategory) : categories[c].status = "ACTIVE"}
           next(d) == d \cup {c \in CategoryIds : categories[c].status = "ACTIVE" /\ categories[c].parent \in d}
           G == [q \in Nat \X A |-> next(q[2])]
           D(d) == [n \in Nat |-> IF n = 0 THEN base ELSE next(d[n - 1])]
<1>1. base \in A
  BY DEF childrenOf
<1>2. \A d \in A : next(d) \in A
  OBVIOUS
<1>3. G \in [Nat \X A -> A]
  <2> HIDE DEF next, A
  <2> QED
    BY <1>2
<1>r. PICK f : RecursOn(f, base, A, G)
  <2> HIDE DEF G, A, base
  <2> QED
    BY <1>1, <1>3, RecursionExists
<1>4. f \in [Nat -> A] /\ f[0] = base /\ \A n \in Nat : f[n + 1] = G[<<n, f[n]>>]
  <2> HIDE DEF G, A, base
  <2> QED
    BY <1>r DEF RecursOn
<1>5. \A n \in Nat : f[n + 1] = next(f[n])
  <2> HIDE DEF next, A
  <2> QED
    BY <1>4
<1>6. f = D(f)
  <2>1. ASSUME NEW n \in Nat
        PROVE  f[n] = IF n = 0 THEN base ELSE next(f[n - 1])
    <3>1. CASE n = 0
      BY <1>4, <3>1
    <3>2. CASE n # 0
      <4>1. n - 1 \in Nat /\ (n - 1) + 1 = n
        BY <3>2
      <4> HIDE DEF next, base
      <4> QED
        BY <1>5, <3>2, <4>1
    <3> QED
      BY <3>1, <3>2
  <2> HIDE DEF next, base, A
  <2> QED
    BY <1>4, <2>1
<1>7. down = D(down)
  <2>1. down = CHOOSE d : d = D(d)
    BY DEF down
  <2> HIDE DEF D
  <2> QED
    BY <1>6, <2>1
<1>8. \A n \in Nat : down[n] = IF n = 0 THEN base ELSE next(down[n - 1])
  <2> HIDE DEF next, base
  <2>1. \A n \in Nat : D(down)[n] = IF n = 0 THEN base ELSE next(down[n - 1])
    OBVIOUS
  <2> HIDE DEF D
  <2> QED
    BY <1>7, <2>1
<1>9. down[0] = base
  <2> HIDE DEF base, next
  <2> QED
    BY <1>8
<1>10. ASSUME NEW n \in Nat
       PROVE  down[n + 1] = next(down[n])
  <2>1. n + 1 \in Nat /\ n + 1 # 0 /\ (n + 1) - 1 = n
    OBVIOUS
  <2> HIDE DEF next, base
  <2> QED
    BY <1>8, <2>1
<1> DEFINE T == {n \in Nat : down[n] \in A}
<1>11. 0 \in T
  BY <1>1, <1>9
<1>12. \A n \in Nat : n \in T => n + 1 \in T
  BY <1>2, <1>10
<1>13. \A n \in Nat : n \in T
  <2> HIDE DEF T
  <2> QED
    BY <1>11, <1>12, NatSets
<1>14. \A c \in CategoryIds : c \in down[0] <=> categories[c].status = "ACTIVE" /\ categories[c].parent = NoCategory
  BY <1>9 DEF childrenOf, Exists
<1> QED
  BY <1>10, <1>13, <1>14

-----------------------------------------------------------------------------
(* The lineage of a category: the least set with it and, of each, its parent. *)

ParentsOf(S) == {Above[x] : x \in {y \in S : Above[y] # NoCategory}}
ClosedUp(S) == S \subseteq CategoryIds /\ \A x \in S : Above[x] # NoCategory => Above[x] \in S

\* The parent of a category is none or a category.
LEMMA AboveIs ==
  ASSUME CategoryShapes
  PROVE  \A c \in CategoryIds : /\ Above[c] = categories[c].parent
                                /\ Above[c] = NoCategory \/ Above[c] \in CategoryIds
BY DEF CategoryShapes, CategoryRows, Parents, Above

\* Whoever is reached in one more step is the category itself, a parent of one reached, or was reached before.
LEMMA ReachNext ==
  ASSUME CategoryShapes
  PROVE  \A n \in Nat, c \in CategoryIds : c \in reach[n][c] /\ reach[n + 1][c] = reach[n][c] \cup ParentsOf(reach[n][c])
<1> DEFINE T == {n \in Nat : \A c \in CategoryIds : c \in reach[n][c] /\ reach[n + 1][c] = reach[n][c] \cup ParentsOf(reach[n][c])}
<1>1. ASSUME NEW n \in Nat, NEW c \in CategoryIds
      PROVE  /\ reach[n + 1][c] = IF Above[c] = NoCategory THEN {c} ELSE {c} \cup reach[n][Above[c]]
             /\ reach[0][c] = {c}
  BY ReachIs
<1>2. \A c \in CategoryIds : Above[c] = NoCategory \/ Above[c] \in CategoryIds
  BY AboveIs
<1>3. 0 \in T
  <2> SUFFICES ASSUME NEW c \in CategoryIds
               PROVE  c \in reach[0][c] /\ reach[0 + 1][c] = reach[0][c] \cup ParentsOf(reach[0][c])
    OBVIOUS
  <2>1. reach[0][c] = {c} /\ reach[0 + 1][c] = IF Above[c] = NoCategory THEN {c} ELSE {c} \cup reach[0][Above[c]]
    BY <1>1
  <2>2. Above[c] # NoCategory => reach[0][Above[c]] = {Above[c]}
    BY <1>1, <1>2
  <2>3. ParentsOf({c}) = IF Above[c] = NoCategory THEN {} ELSE {Above[c]}
    BY DEF ParentsOf
  <2> QED
    BY <2>1, <2>2, <2>3
<1>4. ASSUME NEW n \in Nat, n \in T
      PROVE  n + 1 \in T
  <2> SUFFICES ASSUME NEW c \in CategoryIds
               PROVE  c \in reach[n + 1][c] /\ reach[(n + 1) + 1][c] = reach[n + 1][c] \cup ParentsOf(reach[n + 1][c])
    OBVIOUS
  <2> DEFINE p == Above[c]
             S == reach[n][p]
  <2>1. /\ reach[n + 1][c] = IF p = NoCategory THEN {c} ELSE {c} \cup S
        /\ reach[(n + 1) + 1][c] = IF p = NoCategory THEN {c} ELSE {c} \cup reach[n + 1][p]
    <3>1. n + 1 \in Nat
      OBVIOUS
    <3> QED
      BY <1>1, <3>1
  <2>2. p # NoCategory => p \in S /\ reach[n + 1][p] = S \cup ParentsOf(S)
    BY <1>2, <1>4
  <2>3. ParentsOf({c}) = IF p = NoCategory THEN {} ELSE {p}
    BY DEF ParentsOf
  <2>4. p # NoCategory => ParentsOf({c} \cup S) = {p} \cup ParentsOf(S)
    BY DEF ParentsOf
  <2> HIDE DEF S, p
  <2> QED
    BY <2>1, <2>2, <2>3, <2>4
<1>5. \A n \in Nat : n \in T
  <2> HIDE DEF T
  <2> QED
    BY <1>3, <1>4, NatSets
<1> QED
  BY <1>5

\* As long as some parent is missing it grows, and it cannot have more than there are.
LEMMA LineageIs ==
  ASSUME CategoryShapes, NEW c \in CategoryIds
  PROVE  /\ c \in lineage(c) /\ ClosedUp(lineage(c))
         /\ \A S : ClosedUp(S) /\ c \in S => lineage(c) \subseteq S
<1> DEFINE N == Cardinality(CategoryIds)
           R(n) == reach[n][c]
           T == {n \in Nat : ClosedUp(R(n)) \/ Cardinality(R(n)) >= n + 1}
<1>0. IsFiniteSet(CategoryIds) /\ N \in Nat
  BY CategoriesAssumption, FS_CardinalityType
<1>1. \A n \in Nat : /\ R(n) \subseteq CategoryIds /\ c \in R(n) /\ R(n + 1) = R(n) \cup ParentsOf(R(n))
                     /\ IsFiniteSet(R(n)) /\ Cardinality(R(n)) \in Nat /\ Cardinality(R(n)) <= N
  <2> TAKE n \in Nat
  <2>1. R(n) \subseteq CategoryIds
    BY ReachIs
  <2>2. c \in R(n) /\ R(n + 1) = R(n) \cup ParentsOf(R(n))
    BY ReachNext
  <2> HIDE DEF R
  <2>3. IsFiniteSet(R(n)) /\ Cardinality(R(n)) <= N
    BY <1>0, <2>1, FS_Subset
  <2>4. Cardinality(R(n)) \in Nat
    BY <2>3, FS_CardinalityType
  <2> QED
    BY <2>1, <2>2, <2>3, <2>4
<1>2. R(0) = {c}
  BY ReachIs
<1> HIDE DEF R
<1>3. 0 \in T
  BY FS_Singleton, <1>2
<1>4. ASSUME NEW n \in Nat, n \in T
      PROVE  n + 1 \in T
  <2>0. n + 1 \in Nat
    OBVIOUS
  <2>1. R(n) \subseteq CategoryIds /\ R(n + 1) = R(n) \cup ParentsOf(R(n)) /\ R(n + 1) \subseteq CategoryIds
        /\ IsFiniteSet(R(n + 1)) /\ Cardinality(R(n)) \in Nat /\ Cardinality(R(n + 1)) \in Nat
    BY <1>1, <2>0
  <2>2. CASE ClosedUp(R(n))
    BY <2>2, <2>1, <2>0 DEF ClosedUp, ParentsOf
  <2>3. CASE ~ClosedUp(R(n))
    <3>1. Cardinality(R(n)) >= n + 1
      BY <1>4, <2>3
    <3>2. PICK x \in R(n) : Above[x] # NoCategory /\ Above[x] \notin R(n)
      BY <2>1, <2>3 DEF ClosedUp
    <3>3. Above[x] \in R(n + 1)
      BY <2>1, <3>2 DEF ParentsOf
    <3>4. R(n) \subseteq R(n + 1) /\ R(n) # R(n + 1)
      BY <2>1, <3>2, <3>3
    <3>5. Cardinality(R(n)) < Cardinality(R(n + 1))
      BY <2>1, <3>4, FS_Subset
    <3>6. Cardinality(R(n + 1)) >= (n + 1) + 1
      BY <2>1, <3>1, <3>5
    <3> QED
      BY <2>0, <3>6
  <2> QED
    BY <2>2, <2>3
<1>5. \A n \in Nat : n \in T
  <2> HIDE DEF T
  <2> QED
    BY <1>3, <1>4, NatSets
<1>6. ClosedUp(R(N)) /\ c \in R(N)
  <2>1. ClosedUp(R(N)) \/ Cardinality(R(N)) >= N + 1
    <3>1. N \in T
      BY <1>0, <1>5
    <3> HIDE DEF N
    <3> QED
      BY <3>1
  <2>2. c \in R(N) /\ Cardinality(R(N)) \in Nat /\ Cardinality(R(N)) <= N
    BY <1>0, <1>1
  <2> HIDE DEF N
  <2> QED
    BY <1>0, <2>1, <2>2
<1>7. ASSUME NEW S, ClosedUp(S), c \in S
      PROVE  R(N) \subseteq S
  <2> DEFINE U == {n \in Nat : R(n) \subseteq S}
  <2>1. 0 \in U
    BY <1>2, <1>7
  <2>2. \A n \in Nat : n \in U => n + 1 \in U
    BY <1>7, <1>1 DEF ClosedUp, ParentsOf
  <2>3. \A n \in Nat : n \in U
    <3> HIDE DEF U
    <3> QED
      BY <2>1, <2>2, NatSets
  <2> QED
    BY <1>0, <2>3
<1>8. lineage(c) = R(N)
  BY DEF lineage, R
<1> QED
  BY <1>6, <1>7, <1>8

-----------------------------------------------------------------------------
(* Both readings of the tree agree.                                        *)

IsActive(c) == categories[c].status = "ACTIVE"
Paths == CategoryIds \X SUBSET CategoryIds
LeftOff(path) == Cardinality(CategoryIds \ path)

\* A path with one more category leaves one fewer.
LEMMA LeftIs ==
  ASSUME NEW path \in SUBSET CategoryIds
  PROVE  /\ LeftOff(path) \in Nat /\ LeftOff(path) <= Cardinality(CategoryIds) /\ Cardinality(CategoryIds) \in Nat
         /\ \A c \in CategoryIds \ path : LeftOff(path \cup {c}) + 1 = LeftOff(path)
<1>1. IsFiniteSet(CategoryIds) /\ Cardinality(CategoryIds) \in Nat
  BY CategoriesAssumption, FS_CardinalityType
<1>2. ASSUME NEW S \in SUBSET CategoryIds
      PROVE  IsFiniteSet(S) /\ Cardinality(S) \in Nat /\ Cardinality(S) <= Cardinality(CategoryIds)
  BY <1>1, <1>2, FS_Subset, FS_CardinalityType
<1>3. ASSUME NEW c \in CategoryIds \ path
      PROVE  LeftOff(path \cup {c}) + 1 = LeftOff(path)
  <2> DEFINE S == CategoryIds \ path
             U == CategoryIds \ (path \cup {c})
  <2>1. U = S \ {c} /\ c \in S /\ S \in SUBSET CategoryIds /\ U \in SUBSET CategoryIds
    OBVIOUS
  <2>2. IsFiniteSet(S) /\ Cardinality(S) \in Nat /\ Cardinality(U) \in Nat
    BY <1>2, <2>1
  <2> HIDE DEF S, U
  <2>3. Cardinality(S \ {c}) = Cardinality(S) - 1
    BY <2>1, <2>2, FS_RemoveElement
  <2> QED
    BY <2>1, <2>2, <2>3 DEF LeftOff, S, U
<1>4. CategoryIds \ path \in SUBSET CategoryIds
  OBVIOUS
<1> QED
  BY <1>1, <1>2, <1>3, <1>4 DEF LeftOff

\* Each step up leaves fewer categories that are not on the path, so it ends.
LEMMA VisibleIs ==
  ASSUME CategoryShapes
  PROVE  \A c \in CategoryIds, path \in SUBSET CategoryIds :
           isVisible[<<c, path>>] <=>
             c \notin path /\ IsActive(c) /\ (Above[c] = NoCategory \/ isVisible[<<Above[c], path \cup {c}>>])
<1> DEFINE A == SUBSET Paths
           N == Cardinality(CategoryIds)
           up(x) == <<Above[x[1]], x[2] \cup {x[1]}>>
           next(S) == {x \in Paths : x[1] \notin x[2] /\ IsActive(x[1]) /\ (Above[x[1]] = NoCategory \/ up(x) \in S)}
           G == [q \in Nat \X A |-> next(q[2])]
           V(g) == [x \in CategoryIds \X SUBSET CategoryIds |->
                      IF x[1] \in x[2] THEN FALSE
                      ELSE categories[x[1]].status = "ACTIVE"
                           /\ (categories[x[1]].parent = NoCategory \/ g[<<categories[x[1]].parent, x[2] \cup {x[1]}>>])]
<1>0. \A c \in CategoryIds : Above[c] = categories[c].parent /\ (Above[c] = NoCategory \/ Above[c] \in CategoryIds)
  BY AboveIs
<1>1. {} \in A
  OBVIOUS
<1>2. \A S \in A : next(S) \in A
  OBVIOUS
<1>3. G \in [Nat \X A -> A]
  <2> HIDE DEF next, A
  <2> QED
    BY <1>2
<1>r. PICK f : RecursOn(f, {}, A, G)
  <2> HIDE DEF G, A
  <2> QED
    BY <1>1, <1>3, RecursionExists
<1>4. f \in [Nat -> A] /\ f[0] = {} /\ \A n \in Nat : f[n + 1] = G[<<n, f[n]>>]
  <2> HIDE DEF G, A
  <2> QED
    BY <1>r DEF RecursOn
<1>5. \A n \in Nat : f[n + 1] = next(f[n])
  <2> HIDE DEF next, A
  <2> QED
    BY <1>4
<1>6. \A x \in Paths : /\ x[1] \in CategoryIds /\ x[2] \in SUBSET CategoryIds
                       /\ (Above[x[1]] # NoCategory => up(x) \in Paths /\ up(x)[2] = x[2] \cup {x[1]})
  BY <1>0 DEF Paths
<1> HIDE DEF up
<1> DEFINE T == {n \in Nat : \A x \in Paths : LeftOff(x[2]) < n => (x \in f[n + 1] <=> x \in f[n])}
<1>7. 0 \in T
  BY <1>6, LeftIs
<1>8. ASSUME NEW n \in Nat, n \in T
      PROVE  n + 1 \in T
  <2> SUFFICES ASSUME NEW x \in Paths, LeftOff(x[2]) < n + 1
               PROVE  x \in f[(n + 1) + 1] <=> x \in f[n + 1]
    OBVIOUS
  <2>1. f[n + 1] = next(f[n]) /\ f[(n + 1) + 1] = next(f[n + 1])
    BY <1>5
  <2>2. CASE x[1] \in x[2] \/ Above[x[1]] = NoCategory
    BY <2>1, <2>2
  <2>3. CASE x[1] \notin x[2] /\ Above[x[1]] # NoCategory
    <3>1. x[1] \in CategoryIds \ x[2] /\ x[2] \in SUBSET CategoryIds /\ up(x) \in Paths /\ up(x)[2] = x[2] \cup {x[1]}
      BY <1>6, <2>3
    <3>2. LeftOff(x[2] \cup {x[1]}) + 1 = LeftOff(x[2]) /\ LeftOff(x[2]) \in Nat
      BY <3>1, LeftIs
    <3>3. LeftOff(x[2] \cup {x[1]}) \in Nat
      BY <3>1, LeftIs
    <3>4. LeftOff(up(x)[2]) < n
      BY <3>1, <3>2, <3>3
    <3>5. up(x) \in f[n + 1] <=> up(x) \in f[n]
      BY <1>8, <3>1, <3>4
    <3> QED
      BY <2>1, <3>5
  <2> QED
    BY <2>2, <2>3
<1>9. \A n \in Nat : n \in T
  <2> HIDE DEF T
  <2> QED
    BY <1>7, <1>8, NatSets
<1> DEFINE S == f[N + 1]
<1>10. N \in Nat /\ \A x \in Paths : LeftOff(x[2]) < N + 1
  <2>1. N \in Nat
    BY CategoriesAssumption, FS_CardinalityType
  <2>2. \A x \in Paths : LeftOff(x[2]) \in Nat /\ LeftOff(x[2]) <= N
    BY <1>6, LeftIs
  <2> HIDE DEF N
  <2> QED
    BY <2>1, <2>2
<1>11. \A x \in Paths : x \in S <=> x \in next(S)
  <2>1. N + 1 \in T /\ N + 1 \in Nat
    BY <1>9, <1>10
  <2>2. \A x \in Paths : x \in f[(N + 1) + 1] <=> x \in f[N + 1]
    <3> HIDE DEF N
    <3> QED
      BY <1>10, <2>1
  <2>3. f[(N + 1) + 1] = next(f[N + 1])
    <3> HIDE DEF N, next
    <3> QED
      BY <1>5, <2>1
  <2> HIDE DEF next, N
  <2> QED
    BY <2>2, <2>3
<1> HIDE DEF S, T
<1> DEFINE g == [x \in Paths |-> x \in S]
<1>12. g = V(g)
  <2>1. ASSUME NEW x \in Paths
        PROVE  g[x] = V(g)[x]
    <3>0. x[1] \in CategoryIds /\ x \in CategoryIds \X SUBSET CategoryIds
      BY <1>6 DEF Paths
    <3>1. g[x] <=> x[1] \notin x[2] /\ IsActive(x[1]) /\ (Above[x[1]] = NoCategory \/ up(x) \in S)
      BY <1>11
    <3>2. Above[x[1]] # NoCategory => (g[up(x)] <=> up(x) \in S)
      BY <1>6
    <3>3. V(g)[x] = IF x[1] \in x[2] THEN FALSE ELSE IsActive(x[1]) /\ (Above[x[1]] = NoCategory \/ g[up(x)])
      <4> HIDE DEF g
      <4> QED
        BY <1>0, <3>0 DEF up, IsActive
    <3>4. g[x] \in BOOLEAN
      OBVIOUS
    <3> DEFINE in == g[x]
               out == IsActive(x[1]) /\ (Above[x[1]] = NoCategory \/ g[up(x)])
    <3>5. in <=> x[1] \notin x[2] /\ out
      <4> HIDE DEF g, V
      <4> QED
        BY <3>1, <3>2
    <3>6. in \in BOOLEAN /\ out \in BOOLEAN
      BY <3>4
    <3>7. V(g)[x] = IF x[1] \in x[2] THEN FALSE ELSE out
      BY <3>3
    <3> HIDE DEF in, out, V
    <3>8. in = IF x[1] \in x[2] THEN FALSE ELSE out
      BY <3>5, <3>6
    <3> HIDE DEF g
    <3> QED
      BY <3>7, <3>8 DEF in
  <2>2. g = [x \in Paths |-> g[x]] /\ V(g) = [x \in Paths |-> V(g)[x]]
    <3> HIDE DEF S
    <3> QED
      BY DEF Paths
  <2> HIDE DEF g, V
  <2> QED
    BY <2>1, <2>2
<1>13. isVisible = V(isVisible)
  <2>1. isVisible = CHOOSE v : v = V(v)
    BY DEF isVisible
  <2> HIDE DEF V, g
  <2> QED
    BY <1>12, <2>1
<1>14. ASSUME NEW c \in CategoryIds, NEW path \in SUBSET CategoryIds
       PROVE  isVisible[<<c, path>>] <=>
                c \notin path /\ IsActive(c) /\ (Above[c] = NoCategory \/ isVisible[<<Above[c], path \cup {c}>>])
  <2>1. V(isVisible)[<<c, path>>] = IF c \in path THEN FALSE
                                    ELSE IsActive(c) /\ (Above[c] = NoCategory \/ isVisible[<<Above[c], path \cup {c}>>])
    BY <1>0 DEF IsActive
  <2> HIDE DEF V
  <2>2. isVisible[<<c, path>>] = V(isVisible)[<<c, path>>]
    BY <1>13
  <2> QED
    BY <2>1, <2>2
<1> QED
  BY <1>14

\* The query of products and the tree of the site show the same categories, whatever the parents are.
LEMMA BothAgree ==
  ASSUME CategoryShapes
  PROVE  VisibilityAgrees
<1> DEFINE N == Cardinality(CategoryIds)
           Seen(c, path) == isVisible[<<c, path>>]
<1>n. N \in Nat
  BY CategoriesAssumption, FS_CardinalityType
<1>0. \A c \in CategoryIds : Above[c] = categories[c].parent /\ (Above[c] = NoCategory \/ Above[c] \in CategoryIds)
  BY AboveIs
<1>1. \A c \in CategoryIds, path \in SUBSET CategoryIds :
        Seen(c, path) <=> c \notin path /\ IsActive(c) /\ (Above[c] = NoCategory \/ Seen(Above[c], path \cup {c}))
  BY VisibleIs
<1>2. /\ \A n \in Nat : down[n] \subseteq CategoryIds
      /\ \A c \in CategoryIds : c \in down[0] <=> IsActive(c) /\ Above[c] = NoCategory
      /\ \A n \in Nat, c \in CategoryIds : c \in down[n + 1] <=> c \in down[n] \/ (IsActive(c) /\ Above[c] \in down[n])
  BY <1>0, DownIs DEF IsActive
<1> HIDE DEF Seen
\* Down from the roots: the path that led here is further from the root.
<1> DEFINE T == {n \in Nat : \A c \in down[n], path \in SUBSET CategoryIds : path \cap down[n] = {} => Seen(c, path)}
<1>3. 0 \in T
  <2> SUFFICES ASSUME NEW c \in down[0], NEW path \in SUBSET CategoryIds, path \cap down[0] = {}
               PROVE  Seen(c, path)
    OBVIOUS
  <2>1. c \in CategoryIds
    BY <1>2
  <2> QED
    BY <1>1, <1>2, <2>1
<1>4. ASSUME NEW n \in Nat, n \in T
      PROVE  n + 1 \in T
  <2> SUFFICES ASSUME NEW c \in down[n + 1], NEW path \in SUBSET CategoryIds, path \cap down[n + 1] = {}
               PROVE  Seen(c, path)
    OBVIOUS
  <2>1. c \in CategoryIds /\ c \notin path /\ down[n] \subseteq CategoryIds
    BY <1>2
  <2>2. path \cap down[n] = {}
    BY <1>2
  <2>3. CASE c \in down[n]
    BY <1>4, <2>2, <2>3
  <2>4. CASE c \notin down[n]
    <3>1. IsActive(c) /\ Above[c] \in down[n]
      BY <1>2, <2>1, <2>4
    <3>2. path \cup {c} \in SUBSET CategoryIds /\ (path \cup {c}) \cap down[n] = {}
      BY <2>1, <2>2, <2>4
    <3>3. Seen(Above[c], path \cup {c})
      BY <1>4, <3>1, <3>2
    <3> QED
      BY <1>1, <2>1, <3>1, <3>3
  <2> QED
    BY <2>3, <2>4
<1>5. \A n \in Nat : n \in T
  <2> HIDE DEF T
  <2> QED
    BY <1>3, <1>4, NatSets
\* Up from a category: whatever is left of the path is long enough.
<1> DEFINE U == {n \in Nat : \A c \in CategoryIds, path \in SUBSET CategoryIds : LeftOff(path) = n /\ Seen(c, path) => c \in down[n]}
<1>6. ASSUME NEW n \in Nat, NEW c \in CategoryIds, IsActive(c), Above[c] = NoCategory
      PROVE  c \in down[n]
  <2> DEFINE W == {m \in Nat : c \in down[m]}
  <2>1. 0 \in W
    BY <1>2, <1>6
  <2>2. \A m \in Nat : m \in W => m + 1 \in W
    BY <1>2
  <2>3. \A m \in Nat : m \in W
    <3> HIDE DEF W
    <3> QED
      BY <2>1, <2>2, NatSets
  <2> QED
    BY <2>3
<1>7. \A c \in CategoryIds, path \in SUBSET CategoryIds : Seen(c, path) =>
        /\ LeftOff(path \cup {c}) \in Nat /\ LeftOff(path) = LeftOff(path \cup {c}) + 1
  <2> TAKE c \in CategoryIds, path \in SUBSET CategoryIds
  <2> HAVE Seen(c, path)
  <2>1. c \notin path
    BY <1>1
  <2>2. path \cup {c} \in SUBSET CategoryIds
    OBVIOUS
  <2> QED
    BY <2>1, <2>2, LeftIs
<1>8. 0 \in U
  <2> SUFFICES ASSUME NEW c \in CategoryIds, NEW path \in SUBSET CategoryIds, LeftOff(path) = 0, Seen(c, path)
               PROVE  FALSE
    OBVIOUS
  <2>1. LeftOff(path \cup {c}) \in Nat /\ LeftOff(path) = LeftOff(path \cup {c}) + 1
    BY <1>7
  <2> QED
    BY <2>1
<1>9. ASSUME NEW n \in Nat, n \in U
      PROVE  n + 1 \in U
  <2> SUFFICES ASSUME NEW c \in CategoryIds, NEW path \in SUBSET CategoryIds, LeftOff(path) = n + 1, Seen(c, path)
               PROVE  c \in down[n + 1]
    OBVIOUS
  <2>1. IsActive(c) /\ (Above[c] = NoCategory \/ Seen(Above[c], path \cup {c}))
    BY <1>1
  <2>2. CASE Above[c] = NoCategory
    BY <1>6, <2>1, <2>2
  <2>3. CASE Above[c] # NoCategory
    BY <1>0, <2>1, <2>3, <1>7, <1>9, <1>2
  <2> QED
    BY <2>2, <2>3
<1>10. \A n \in Nat : n \in U
  <2> HIDE DEF U
  <2> QED
    BY <1>8, <1>9, NatSets
<1>11. ASSUME NEW c \in CategoryIds
       PROVE  Seen(c, {}) <=> c \in down[N]
  <2>1. {} \in SUBSET CategoryIds /\ {} \cap down[N] = {} /\ LeftOff({}) = N
    BY DEF LeftOff
  <2>2. N \in T /\ N \in U
    BY <1>5, <1>10, <1>n
  <2> HIDE DEF N
  <2> QED
    BY <2>1, <2>2
<1>12. down[N] \subseteq CategoryIds
  BY <1>2, <1>n
<1>13. visibleCategoryIds = {c \in CategoryIds : Seen(c, {})} /\ visibleCategories = down[N]
  BY DEF visibleCategoryIds, visibleCategories, Seen
<1> HIDE DEF N
<1> QED
  BY <1>11, <1>12, <1>13 DEF VisibilityAgrees

-----------------------------------------------------------------------------
(* Cycles: the inductive invariant.  Instead of following parents, every   *)
(* category has a rank above that of its parent, but for those whose       *)
(* parent was written back.                                                *)

Ranks == [CategoryIds -> Nat]
\* P is the parent of each, W those written back, X others that are not looked at.
Falls(P, W, X, r) == \A c \in CategoryIds \ (W \cup X) : P[c] # NoCategory => r[P[c]] < r[c]
Ranked == \E r \in Ranks : Falls(Above, writtenBack, {}, r)
\* The ranks that a category will have once it is under another.
RankedUnder(P, W, c, p) == \E r \in Ranks : Falls(P, W, {c}, r) /\ (p # NoCategory => r[p] < r[c])

EditKnown(e) ==
  LET edit == categoryEdits[e] IN
  /\ edit.step = "none" <=> edit = NoEdit
  /\ edit.step # "none" => edit.id \in CategoryIds /\ edit.row.status \in {"ACTIVE", "INACTIVE"}
  /\ edit.step = "move" => edit.moves
  /\ edit.step # "none" /\ edit.moves => categories[edit.id] # NotThere
  /\ edit.step = "save" /\ edit.row.parent # NoCategory => categories[edit.row.parent] # NotThere
  /\ e \in treeLock <=> edit.step = "save" /\ edit.moves
MoveFits(e) == e \in treeLock => RankedUnder(Above, writtenBack, categoryEdits[e].id, categoryEdits[e].row.parent)

CategoriesInv ==
  /\ CategoryShapes
  /\ \A c \in CategoryIds : /\ categories[c].status \in {"NONE", "DELETED"} => categories[c].parent = NoCategory
                            /\ Above[c] # NoCategory => categories[Above[c]] # NotThere
  /\ \A e \in CategoryEditors : EditKnown(e) /\ MoveFits(e)
  /\ \A e, f \in treeLock : e = f
  /\ Ranked

\* Rows that are not there, and deleted ones.
LEMMA CategoryFacts ==
  /\ NotThere \in CategoryRows /\ NotThere.status = "NONE" /\ NotThere.parent = NoCategory
  /\ Deleted \in CategoryRows /\ Deleted.status = "DELETED" /\ Deleted.parent = NoCategory /\ Deleted # NotThere
  /\ NoEdit \in CategoryEdits /\ NoEdit.step = "none" /\ NoEdit.id = NoCategory
  /\ NoCategory \notin CategoryIds
<1>1. NotThere \in CategoryRows /\ NotThere.status = "NONE" /\ NotThere.parent = NoCategory
  BY DEF NotThere, CategoryRows, Parents
<1>2. Deleted \in CategoryRows /\ Deleted.status = "DELETED" /\ Deleted.parent = NoCategory
  BY DEF Deleted, NotThere, CategoryRows, Parents
<1>3. NoEdit \in CategoryEdits /\ NoEdit.step = "none" /\ NoEdit.id = NoCategory
  BY <1>1 DEF NoEdit, CategoryEdits, Parents
<1> QED
  BY <1>1, <1>2, <1>3, CategoriesAssumption

\* An empty tree.
LEMMA CategoriesInitInv == CategoriesInit => CategoriesInv
<1> SUFFICES ASSUME CategoriesInit
             PROVE  CategoriesInv
  OBVIOUS
<1>1. /\ categories = [c \in CategoryIds |-> NotThere] /\ categoryEdits = [e \in CategoryEditors |-> NoEdit]
      /\ treeLock = {} /\ writtenBack = {}
  BY DEF CategoriesInit
<1>2. CategoryShapes
  BY <1>1, CategoryFacts DEF CategoryShapes
<1>3. \A c \in CategoryIds : categories[c] = NotThere /\ Above[c] = NoCategory
  BY <1>1, CategoryFacts DEF Above
<1>4. \A e \in CategoryEditors : EditKnown(e) /\ MoveFits(e)
  BY <1>1, CategoryFacts DEF EditKnown, MoveFits
<1>5. Ranked
  <2>1. [c \in CategoryIds |-> 0] \in Ranks
    BY DEF Ranks
  <2> QED
    BY <1>3, <2>1 DEF Ranked, Falls
<1> QED
  BY <1>1, <1>2, <1>3, <1>4, <1>5, CategoryFacts DEF CategoriesInv

\* A change that begins leaves the tree as it is.
LEMMA BeginKeepsTree ==
  ASSUME CategoriesInv, NEW e \in CategoryEditors, NEW c \in CategoryIds, NEW row \in CategoryRows, NEW moves \in BOOLEAN,
         begin(e, c, row, moves), row.status \in {"ACTIVE", "INACTIVE"},
         moves => categories[c] # NotThere,
         ~moves /\ row.parent # NoCategory => categories[row.parent] # NotThere
  PROVE  CategoriesInv'
<1> DEFINE new == [step |-> IF moves THEN "move" ELSE "save", id |-> c, row |-> row, moves |-> moves]
<1>1. /\ categoryEdits[e] = NoEdit /\ categoryEdits' = [categoryEdits EXCEPT ![e] = new]
      /\ categories' = categories /\ treeLock' = treeLock /\ writtenBack' = writtenBack
  BY DEF begin
<1>2. new \in CategoryEdits
  BY DEF CategoryEdits, Parents
<1>3. /\ new.step = (IF moves THEN "move" ELSE "save") /\ new.id = c /\ new.row = row /\ new.moves = moves
      /\ new # NoEdit
  BY CategoryFacts
<1> HIDE DEF new
<1>4. CategoryShapes /\ categoryEdits \in [CategoryEditors -> CategoryEdits]
  BY DEF CategoriesInv, CategoryShapes
<1>5. CategoryShapes'
  BY <1>1, <1>2, <1>4 DEF CategoryShapes
<1>6. Above' = Above
  BY <1>1 DEF Above
<1>7. categoryEdits'[e] = new /\ \A f \in CategoryEditors : f # e => categoryEdits'[f] = categoryEdits[f]
  BY <1>1, <1>4
<1>8. e \notin treeLock
  BY <1>1, CategoryFacts DEF CategoriesInv, EditKnown
<1>9. ASSUME NEW f \in CategoryEditors
      PROVE  EditKnown(f)' /\ MoveFits(f)'
  <2>1. EditKnown(f) /\ MoveFits(f)
    BY DEF CategoriesInv
  <2>2. CASE f # e
    BY <1>1, <1>6, <1>7, <2>1, <2>2 DEF EditKnown, MoveFits
  <2>3. CASE f = e
    BY <1>1, <1>8, <2>3, <1>3, <1>7 DEF MoveFits, EditKnown
  <2> QED
    BY <2>2, <2>3
<1>10. Ranked'
  BY <1>1, <1>6 DEF CategoriesInv, Ranked
<1> QED
  BY <1>1, <1>5, <1>6, <1>9, <1>10 DEF CategoriesInv

\* Every change that begins.
LEMMA StartsKeepTree ==
  ASSUME CategoriesInv, NEW e \in CategoryEditors, NEW c \in CategoryIds,
         \/ \E p \in Parents : startCreate(e, c, p) \/ startMoveCategory(e, c, p)
         \/ startRename(e, c) \/ startDeactivate(e, c) \/ startReactivate(e, c)
  PROVE  CategoriesInv'
<1> DEFINE was == categories[c]
<1>1. was \in CategoryRows
  BY DEF CategoriesInv, CategoryShapes
<1>2. was.parent # NoCategory => categories[was.parent] # NotThere
  BY DEF CategoriesInv, Above
<1>3. \A p : categories[p].status = "ACTIVE" => categories[p] # NotThere
  BY CategoryFacts
<1>4. ASSUME NEW p \in Parents, startCreate(e, c, p)
      PROVE  CategoriesInv'
  <2> DEFINE row == [status |-> "ACTIVE", parent |-> p]
  <2>1. row \in CategoryRows /\ row.status = "ACTIVE" /\ row.parent = p
    BY DEF CategoryRows
  <2>2. begin(e, c, row, FALSE) /\ usableParent(p)
    BY <1>4 DEF startCreate
  <2>3. p # NoCategory => categories[p] # NotThere
    BY <1>3, <2>2 DEF usableParent
  <2> HIDE DEF row
  <2> QED
    BY <2>1, <2>2, <2>3, BeginKeepsTree
<1>5. ASSUME NEW p \in Parents, startMoveCategory(e, c, p)
      PROVE  CategoriesInv'
  <2> DEFINE row == [was EXCEPT !.parent = p]
  <2>1. row \in CategoryRows /\ row.status = was.status
    BY <1>1 DEF CategoryRows
  <2>2. begin(e, c, row, TRUE) /\ was.status \in {"ACTIVE", "INACTIVE"}
    BY <1>5 DEF startMoveCategory, Exists
  <2>3. was # NotThere
    BY <2>2, CategoryFacts
  <2> HIDE DEF row
  <2> QED
    BY <2>1, <2>2, <2>3, BeginKeepsTree
<1>6. CASE startRename(e, c)
  BY <1>6, <1>1, <1>2, BeginKeepsTree DEF startRename, Exists
<1>7. CASE startDeactivate(e, c)
  <2> DEFINE row == [was EXCEPT !.status = "INACTIVE"]
  <2>1. row \in CategoryRows /\ row.status = "INACTIVE" /\ row.parent = was.parent
    BY <1>1 DEF CategoryRows
  <2>2. begin(e, c, row, FALSE)
    BY <1>7 DEF startDeactivate
  <2> HIDE DEF row
  <2> QED
    BY <1>2, <2>1, <2>2, BeginKeepsTree
<1>8. CASE startReactivate(e, c)
  <2> DEFINE row == [was EXCEPT !.status = "ACTIVE"]
  <2>1. row \in CategoryRows /\ row.status = "ACTIVE" /\ row.parent = was.parent
    BY <1>1 DEF CategoryRows
  <2>2. begin(e, c, row, FALSE)
    BY <1>8 DEF startReactivate
  <2> HIDE DEF row
  <2> QED
    BY <1>2, <2>1, <2>2, BeginKeepsTree
<1> QED
  BY <1>4, <1>5, <1>6, <1>7, <1>8

\* A place that is not below the category can be ranked below it.
LEMMA CheckedFits ==
  ASSUME CategoryShapes, Ranked, NEW c \in CategoryIds, NEW p \in Parents,
         p # NoCategory => c \notin lineage(p)
  PROVE  RankedUnder(Above, writtenBack, c, p)
<1>1. PICK r \in Ranks : Falls(Above, writtenBack, {}, r)
  BY DEF Ranked
<1>2. CASE p = NoCategory
  BY <1>1, <1>2 DEF RankedUnder, Falls
<1>3. CASE p # NoCategory
  <2> DEFINE S == lineage(p)
             K == r[p] + 1
             s == [x \in CategoryIds |-> IF x \in S THEN r[x] ELSE r[x] + K]
  <2>0. \A x \in CategoryIds : r[x] \in Nat
    BY DEF Ranks
  <2>1. p \in CategoryIds /\ p \in S /\ ClosedUp(S) /\ c \notin S
    BY <1>3, LineageIs DEF Parents
  <2> HIDE DEF S
  <2>2. K \in Nat /\ K > r[p]
    BY <2>0, <2>1
  <2>3. s \in Ranks
    BY <2>0, <2>2 DEF Ranks
  <2>4. s[p] = r[p] /\ s[c] = r[c] + K
    BY <2>1
  <2>5. s[p] < s[c]
    <3> HIDE DEF s, K
    <3> QED
      BY <2>0, <2>1, <2>2, <2>4
  <2>6. ASSUME NEW x \in CategoryIds, x \notin writtenBack, Above[x] # NoCategory
        PROVE  s[Above[x]] < s[x]
    <3>1. Above[x] \in CategoryIds /\ r[Above[x]] < r[x]
      BY <1>1, <2>6, AboveIs DEF Falls
    <3>2. x \in S => Above[x] \in S
      BY <2>1, <2>6 DEF ClosedUp
    <3>3. /\ s[x] = IF x \in S THEN r[x] ELSE r[x] + K
          /\ s[Above[x]] = IF Above[x] \in S THEN r[Above[x]] ELSE r[Above[x]] + K
      BY <3>1
    <3> HIDE DEF s, K
    <3> QED
      BY <2>0, <2>2, <3>1, <3>2, <3>3
  <2> HIDE DEF s
  <2>7. Falls(Above, writtenBack, {c}, s)
    BY <2>6 DEF Falls
  <2> QED
    BY <2>3, <2>5, <2>7 DEF RankedUnder
<1> QED
  BY <1>2, <1>3

\* The check of a move, under the lock of the tree.
LEMMA CheckKeepsTree ==
  ASSUME CategoriesInv, NEW e \in CategoryEditors, checkMove(e)
  PROVE  CategoriesInv'
<1> DEFINE edit == categoryEdits[e]
           p == edit.row.parent
           fits == p # NoCategory => (categories[p].status = "ACTIVE" /\ p # edit.id /\ edit.id \notin lineage(p))
<1>1. /\ edit.step = "move" /\ treeLock = {} /\ categories' = categories /\ writtenBack' = writtenBack
      /\ IF fits THEN categoryEdits' = [categoryEdits EXCEPT ![e].step = "save"] /\ treeLock' = treeLock \cup {e}
         ELSE categoryEdits' = [categoryEdits EXCEPT ![e] = NoEdit] /\ treeLock' = treeLock
  BY DEF checkMove, lockTree
<1>2. CategoryShapes /\ edit \in CategoryEdits /\ categoryEdits \in [CategoryEditors -> CategoryEdits] /\ Ranked /\ EditKnown(e)
  BY DEF CategoriesInv, CategoryShapes
<1>3. edit.id \in CategoryIds /\ edit.moves /\ categories[edit.id] # NotThere /\ edit.row.status \in {"ACTIVE", "INACTIVE"}
      /\ p \in Parents
  BY <1>1, <1>2 DEF EditKnown, CategoryEdits, CategoryRows
<1>4. Above' = Above /\ Ranked' /\ (\A f \in CategoryEditors : f \notin treeLock)
  BY <1>1, <1>2 DEF Above, Ranked
<1>5. CASE fits
  <2> DEFINE new == [edit EXCEPT !.step = "save"]
  <2>1. categoryEdits' = [categoryEdits EXCEPT ![e] = new] /\ treeLock' = {e}
    BY <1>1, <1>5
  <2>2. new \in CategoryEdits /\ new.step = "save" /\ new.id = edit.id /\ new.row = edit.row /\ new.moves = edit.moves /\ new # NoEdit
    BY <1>2, CategoryFacts DEF CategoryEdits
  <2> HIDE DEF new
  <2>3. categoryEdits'[e] = new /\ \A f \in CategoryEditors : f # e => categoryEdits'[f] = categoryEdits[f]
    BY <1>2, <2>1
  <2>4. p # NoCategory => categories[p] # NotThere
    BY <1>5, CategoryFacts
  <2>5. RankedUnder(Above, writtenBack, edit.id, p)
    BY <1>2, <1>3, <1>5, CheckedFits
  <2>6. CategoryShapes'
    BY <1>1, <1>2, <2>1, <2>2 DEF CategoryShapes
  <2>7. ASSUME NEW f \in CategoryEditors
        PROVE  EditKnown(f)' /\ MoveFits(f)'
    <3>1. EditKnown(f)
      BY DEF CategoriesInv
    <3>2. CASE f # e
      BY <1>1, <1>4, <2>1, <2>3, <3>1, <3>2 DEF EditKnown, MoveFits
    <3>3. CASE f = e
      <4> DEFINE next == categoryEdits'[f]
      <4>a. /\ next.step = "save" /\ next.id = edit.id /\ next.row = edit.row /\ next.moves = edit.moves /\ next # NoEdit
            /\ f \in treeLock'
        BY <2>1, <2>2, <2>3, <3>3
      <4>b. /\ next.id \in CategoryIds /\ next.moves /\ categories'[next.id] # NotThere
            /\ next.row.status \in {"ACTIVE", "INACTIVE"}
            /\ next.row.parent # NoCategory => categories'[next.row.parent] # NotThere
        BY <1>1, <1>3, <2>4, <4>a
      <4>1. EditKnown(f)'
        <5> HIDE DEF edit, p, fits
        <5> QED
          BY <4>a, <4>b DEF EditKnown
      <4>2. MoveFits(f)'
        BY <1>1, <1>4, <2>2, <2>3, <2>5, <3>3 DEF MoveFits
      <4> QED
        BY <4>1, <4>2
    <3> QED
      BY <3>2, <3>3
  <2> QED
    BY <1>1, <1>4, <2>1, <2>6, <2>7 DEF CategoriesInv
<1>6. CASE ~fits
  <2>1. categoryEdits' = [categoryEdits EXCEPT ![e] = NoEdit] /\ treeLock' = treeLock
    BY <1>1, <1>6
  <2>2. categoryEdits'[e] = NoEdit /\ \A f \in CategoryEditors : f # e => categoryEdits'[f] = categoryEdits[f]
    BY <1>2, <2>1
  <2>3. CategoryShapes'
    BY <1>1, <1>2, <2>1, CategoryFacts DEF CategoryShapes
  <2>4. ASSUME NEW f \in CategoryEditors
        PROVE  EditKnown(f)' /\ MoveFits(f)'
    BY <1>1, <1>4, <2>1, <2>2, CategoryFacts DEF CategoriesInv, EditKnown, MoveFits
  <2> QED
    BY <1>1, <1>4, <2>1, <2>3, <2>4 DEF CategoriesInv
<1> QED
  BY <1>5, <1>6

\* How ranks change with a parent: written back, set by a move, of a category that is new, and of one that is deleted.
LEMMA RanksChange ==
  ASSUME NEW P \in [CategoryIds -> Parents], NEW W, NEW X, NEW r \in Ranks, NEW x \in CategoryIds, NEW q \in Parents
  PROVE  /\ Falls(P, W, X, r) => Falls([P EXCEPT ![x] = q], W \cup {x}, X, r)
         /\ Falls(P, W, {x}, r) /\ (q # NoCategory => r[q] < r[x]) => Falls([P EXCEPT ![x] = q], W \ {x}, {}, r)
         /\ Falls(P, W, X, r) => Falls([P EXCEPT ![x] = NoCategory], W \ {x}, X, r)
<1>1. Falls(P, W, X, r) => Falls([P EXCEPT ![x] = q], W \cup {x}, X, r)
  BY DEF Falls
<1>2. Falls(P, W, {x}, r) /\ (q # NoCategory => r[q] < r[x]) => Falls([P EXCEPT ![x] = q], W \ {x}, {}, r)
  BY DEF Falls
<1>3. Falls(P, W, X, r) => Falls([P EXCEPT ![x] = NoCategory], W \ {x}, X, r)
  BY DEF Falls
<1> QED
  BY <1>1, <1>2, <1>3

RankedAlike(Q, W, X, r, x) ==
  \E s \in Ranks : Falls(Q, W, X, s) /\ \A y \in CategoryIds : y # x => s[y] = r[y]
Unparented(P, x) == \A c \in CategoryIds : P[c] # x

\* A category that nobody is under yet is ranked above its parent, and the others keep their ranks.
LEMMA NewRanks ==
  ASSUME NEW P \in [CategoryIds -> Parents], NEW W, NEW X, NEW r \in Ranks, NEW x \in CategoryIds, NEW q \in Parents,
         Unparented(P, x), q # x, Falls(P, W, X, r)
  PROVE  RankedAlike([P EXCEPT ![x] = q], W, X, r, x)
<1>0. \A c \in CategoryIds : P[c] # x
  BY DEF Unparented
<1> DEFINE k == IF q = NoCategory THEN 0 ELSE r[q] + 1
           s == [y \in CategoryIds |-> IF y = x THEN k ELSE r[y]]
           Q == [P EXCEPT ![x] = q]
<1>1. \A y \in CategoryIds : r[y] \in Nat /\ (P[y] = NoCategory \/ P[y] \in CategoryIds)
  BY DEF Ranks, Parents
<1>2. k \in Nat /\ (q # NoCategory => q \in CategoryIds /\ r[q] < k)
  BY <1>1 DEF Parents
<1> HIDE DEF k
<1>3. s[x] = k /\ \A y \in CategoryIds : y # x => s[y] = r[y]
  OBVIOUS
<1>4. s \in Ranks
  BY <1>1, <1>2 DEF Ranks
<1>5. Q[x] = q /\ \A y \in CategoryIds : y # x => Q[y] = P[y]
  OBVIOUS
<1> HIDE DEF s, Q
<1>6. ASSUME NEW c \in CategoryIds \ (W \cup X), Q[c] # NoCategory
      PROVE  s[Q[c]] < s[c]
  <2>1. CASE c = x
    BY <1>2, <1>3, <1>5, <1>6, <2>1
  <2>2. CASE c # x
    BY <1>0, <1>1, <1>5, <1>6, <2>2, <1>3 DEF Falls
  <2> QED
    BY <2>1, <2>2
<1>7. Falls(Q, W, X, s)
  BY <1>6 DEF Falls
<1> QED
  BY <1>3, <1>4, <1>7 DEF Q, RankedAlike

\* So the move that another editor checked still fits.
LEMMA NewRankedUnder ==
  ASSUME NEW P \in [CategoryIds -> Parents], NEW W, NEW c \in CategoryIds, NEW p \in Parents,
         NEW x \in CategoryIds, NEW q \in Parents,
         \A y \in CategoryIds : P[y] # x, q # x, c # x, p # x, RankedUnder(P, W, c, p)
  PROVE  RankedUnder([P EXCEPT ![x] = q], W, c, p)
<1>1. PICK t \in Ranks : Falls(P, W, {c}, t) /\ (p # NoCategory => t[p] < t[c])
  BY DEF RankedUnder
<1> DEFINE X == {c}
<1>2. Falls(P, W, X, t)
  BY <1>1
<1> HIDE DEF X
<1>r. RankedAlike([P EXCEPT ![x] = q], W, X, t, x)
  BY <1>2, NewRanks DEF Unparented
<1>3. PICK u \in Ranks : /\ Falls([P EXCEPT ![x] = q], W, X, u)
                        /\ \A y \in CategoryIds : y # x => u[y] = t[y]
  BY <1>r DEF RankedAlike
<1>4. Falls([P EXCEPT ![x] = q], W, {c}, u)
  BY <1>3 DEF X
<1>5. p # NoCategory => u[p] < u[c]
  BY <1>1, <1>3 DEF Parents
<1> QED
  BY <1>4, <1>5 DEF RankedUnder

\* The write of a change: a move, a save that writes the old parent back or leaves it, and a new category.
LEMMA FinishKeepsTree ==
  ASSUME CategoriesInv, NEW e \in CategoryEditors, finishEdit(e)
  PROVE  CategoriesInv'
<1> DEFINE edit == categoryEdits[e]
           id == edit.id
           q == edit.row.parent
           was == categories[id]
           written == q # NoCategory => Exists(q)
           back == IF edit.moves THEN writtenBack \ {id}
                   ELSE IF was # NotThere /\ was.parent # q THEN writtenBack \cup {id} ELSE writtenBack
<1>1. /\ edit.step = "save" /\ categoryEdits' = [categoryEdits EXCEPT ![e] = NoEdit] /\ treeLock' = treeLock \ {e}
      /\ IF written THEN categories' = [categories EXCEPT ![id] = edit.row] /\ writtenBack' = back
         ELSE categories' = categories /\ writtenBack' = writtenBack
  BY DEF finishEdit
<1>2. /\ categories \in [CategoryIds -> CategoryRows] /\ categoryEdits \in [CategoryEditors -> CategoryEdits]
      /\ treeLock \subseteq CategoryEditors /\ writtenBack \subseteq CategoryIds
      /\ \A c \in CategoryIds : /\ categories[c].status \in {"NONE", "DELETED"} => categories[c].parent = NoCategory
                                /\ Above[c] # NoCategory => categories[Above[c]] # NotThere
      /\ Ranked /\ EditKnown(e) /\ (\A f, g \in treeLock : f = g)
  BY DEF CategoriesInv, CategoryShapes
<1>3. /\ id \in CategoryIds /\ edit.row \in CategoryRows /\ edit.row.status \in {"ACTIVE", "INACTIVE"} /\ q \in Parents
      /\ (edit.moves => was # NotThere) /\ (q # NoCategory => categories[q] # NotThere) /\ (e \in treeLock <=> edit.moves)
      /\ edit.row # NotThere
  BY <1>2, <1>1, CategoryFacts DEF CategoryEdits, CategoryRows, EditKnown
<1>4. categoryEdits'[e] = NoEdit /\ \A f \in CategoryEditors : f # e => categoryEdits'[f] = categoryEdits[f]
  BY <1>1, <1>2
<1>5. Above \in [CategoryIds -> Parents]
  BY <1>2 DEF Above, CategoryRows
<1>6. EditKnown(e)' /\ MoveFits(e)'
  BY <1>1, <1>4, CategoryFacts DEF EditKnown, MoveFits
<1>7. categoryEdits' \in [CategoryEditors -> CategoryEdits] /\ treeLock' \subseteq CategoryEditors
      /\ \A f, g \in treeLock' : f = g
  BY <1>1, <1>2, CategoryFacts
<1>8. \A f \in CategoryEditors : f # e => (f \in treeLock' <=> f \in treeLock) /\ EditKnown(f) /\ MoveFits(f)
  BY <1>1 DEF CategoriesInv
<1> HIDE DEF was, back, written, q, id, edit
<1>9. CASE ~written
  BY <1>1, <1>9, <1>4, <1>8, <1>2, <1>7, <1>6 DEF Above, EditKnown, MoveFits, Ranked, CategoryShapes, CategoriesInv
<1>10. CASE written
  <2>1. categories' = [categories EXCEPT ![id] = edit.row] /\ writtenBack' = back
    BY <1>1, <1>10
  <2>2. categories'[id] = edit.row /\ \A c \in CategoryIds : c # id => categories'[c] = categories[c]
    BY <1>2, <1>3, <2>1
  <2>3. categories' \in [CategoryIds -> CategoryRows] /\ writtenBack' \subseteq CategoryIds
    BY <1>2, <1>3, <2>1 DEF back
  <2>4. Above' = [Above EXCEPT ![id] = q]
    BY <1>2, <1>3, <2>2, <2>3 DEF Above, q
  <2>5. \A c \in CategoryIds : categories[c] # NotThere => categories'[c] # NotThere
    BY <1>3, <2>2
  <2>6. \A c \in CategoryIds : /\ categories'[c].status \in {"NONE", "DELETED"} => categories'[c].parent = NoCategory
                               /\ Above'[c] # NoCategory => categories'[Above'[c]] # NotThere
    BY <1>3, <1>5, <2>4, <1>2, <2>2, <2>5 DEF Parents
  <2>7. ASSUME NEW f \in CategoryEditors, f # e
        PROVE  EditKnown(f)'
    BY <1>4, <1>8, <2>7, <1>2, <2>5 DEF CategoryEdits, CategoryRows, EditKnown, Parents
  <2>8. CategoryShapes'
    BY <1>7, <2>3 DEF CategoryShapes
  <2>9. ASSUME Ranked', \A f \in CategoryEditors : f # e => MoveFits(f)'
        PROVE  CategoriesInv'
    BY <1>6, <1>7, <2>6, <2>7, <2>8, <2>9 DEF CategoriesInv
  <2>r. PICK r \in Ranks : Falls(Above, writtenBack, {}, r)
    BY <1>2 DEF Ranked
  <2>f. ASSUME NEW f \in CategoryEditors, f # e, f \in treeLock
        PROVE  /\ RankedUnder(Above, writtenBack, categoryEdits[f].id, categoryEdits[f].row.parent)
               /\ categoryEdits'[f] = categoryEdits[f] /\ categoryEdits[f].id \in CategoryIds
               /\ categories[categoryEdits[f].id] # NotThere
               /\ categoryEdits[f].row.parent \in Parents
               /\ categoryEdits[f].row.parent # NoCategory => categories[categoryEdits[f].row.parent] # NotThere
    BY <1>2, <1>8, <2>f, <1>4 DEF CategoryEdits, CategoryRows, EditKnown, MoveFits
  <2>10. CASE edit.moves
    <3>1. e \in treeLock /\ writtenBack' = writtenBack \ {id}
      BY <1>3, <2>1, <2>10 DEF back
    <3>2. RankedUnder(Above, writtenBack, id, q)
      BY <3>1 DEF CategoriesInv, MoveFits, id, q, edit
    <3>3. PICK s \in Ranks : Falls(Above, writtenBack, {id}, s) /\ (q # NoCategory => s[q] < s[id])
      BY <3>2 DEF RankedUnder
    <3>4. Falls([Above EXCEPT ![id] = q], writtenBack \ {id}, {}, s)
      BY <1>3, <1>5, <3>3, RanksChange
    <3>5. Ranked'
      BY <2>4, <3>1, <3>4 DEF Ranked, Falls
    <3>6. \A f \in CategoryEditors : f # e => f \notin treeLock'
      BY <1>1, <1>2, <3>1
    <3> QED
      BY <2>9, <3>5, <3>6 DEF MoveFits
  <2>11. CASE ~edit.moves /\ was # NotThere /\ was.parent # q
    <3>1. writtenBack' = writtenBack \cup {id}
      BY <2>1, <2>11 DEF back
    <3>2. Falls([Above EXCEPT ![id] = q], writtenBack \cup {id}, {}, r)
      BY <1>3, <1>5, <2>r, RanksChange
    <3>3. Ranked'
      BY <2>4, <3>1, <3>2 DEF Ranked, Falls
    <3>4. ASSUME NEW f \in CategoryEditors, f # e
          PROVE  MoveFits(f)'
      <4> SUFFICES ASSUME f \in treeLock
                   PROVE  RankedUnder(Above', writtenBack', categoryEdits[f].id, categoryEdits[f].row.parent)
        BY <1>8, <2>f, <3>4 DEF MoveFits, RankedUnder, Falls
      <4>1. PICK s \in Ranks : /\ Falls(Above, writtenBack, {categoryEdits[f].id}, s)
                               /\ categoryEdits[f].row.parent # NoCategory => s[categoryEdits[f].row.parent] < s[categoryEdits[f].id]
        BY <2>f, <3>4 DEF RankedUnder
      <4>2. Falls([Above EXCEPT ![id] = q], writtenBack \cup {id}, {categoryEdits[f].id}, s)
        BY <1>3, <1>5, <4>1, RanksChange
      <4> QED
        BY <2>4, <3>1, <4>1, <4>2 DEF RankedUnder
    <3> QED
      BY <2>9, <3>3, <3>4
  <2>12. CASE ~edit.moves /\ was # NotThere /\ was.parent = q
    <3>1. writtenBack' = writtenBack
      BY <2>1, <2>12 DEF back
    <3>2. Above' = Above
      BY <1>3, <2>12, <1>5, <2>4 DEF Above, was
    <3>3. Ranked'
      BY <1>2, <3>1, <3>2 DEF Ranked
    <3>4. \A f \in CategoryEditors : f # e => MoveFits(f)'
      BY <1>4, <1>8, <3>1, <3>2 DEF MoveFits
    <3> QED
      BY <2>9, <3>3, <3>4
  <2>13. CASE ~edit.moves /\ was = NotThere
    <3>1. writtenBack' = writtenBack
      BY <2>1, <2>13 DEF back
    <3>2. (\A c \in CategoryIds : Above[c] # id) /\ q # id
      BY <1>2, <1>3, <2>13, CategoryFacts DEF was
    <3>3. PICK s \in Ranks : Falls([Above EXCEPT ![id] = q], writtenBack, {}, s)
      BY <3>2, <1>3, <1>5, <2>r, NewRanks DEF Unparented, RankedAlike
    <3>4. Ranked'
      BY <2>4, <3>1, <3>3 DEF Ranked, Falls
    <3>5. ASSUME NEW f \in CategoryEditors, f # e
          PROVE  MoveFits(f)'
      <4> SUFFICES ASSUME f \in treeLock
                   PROVE  RankedUnder(Above', writtenBack', categoryEdits[f].id, categoryEdits[f].row.parent)
        BY <1>8, <2>f, <3>5 DEF MoveFits, RankedUnder, Falls
      <4> DEFINE c == categoryEdits[f].id
                 p == categoryEdits[f].row.parent
      <4>1. /\ c \in CategoryIds /\ c # id /\ p \in Parents /\ p # id
            /\ RankedUnder(Above, writtenBack, c, p)
        BY <1>3, <2>f, <2>13, <3>5, CategoryFacts DEF was
      <4> HIDE DEF c, p
      <4>2. /\ Above \in [CategoryIds -> Parents] /\ id \in CategoryIds /\ q \in Parents
            /\ \A y \in CategoryIds : Above[y] # id
            /\ q # id
        BY <1>3, <1>5, <3>2
      <4>3. RankedUnder([Above EXCEPT ![id] = q], writtenBack, c, p)
        <5> HIDE DEF q, id
        <5> QED
          BY <4>1, <4>2, NewRankedUnder
      <4>5. RankedUnder(Above', writtenBack', c, p)
        BY <2>4, <3>1, <4>3
      <4> QED
        BY <4>5 DEF c, p
    <3> QED
      BY <2>9, <3>4, <3>5
  <2> QED
    BY <2>10, <2>11, <2>12, <2>13
<1> QED
  BY <1>9, <1>10

\* A category without children is deleted.
LEMMA DeleteKeepsTree ==
  ASSUME CategoriesInv, NEW c \in CategoryIds, deleteCategory(c)
  PROVE  CategoriesInv'
<1>1. /\ categories' = [categories EXCEPT ![c] = Deleted] /\ writtenBack' = writtenBack \ {c}
      /\ categoryEdits' = categoryEdits /\ treeLock' = treeLock
  BY DEF deleteCategory
<1>2. /\ categories \in [CategoryIds -> CategoryRows] /\ categoryEdits \in [CategoryEditors -> CategoryEdits]
      /\ treeLock \subseteq CategoryEditors /\ writtenBack \subseteq CategoryIds
      /\ \A x \in CategoryIds : /\ categories[x].status \in {"NONE", "DELETED"} => categories[x].parent = NoCategory
                                /\ Above[x] # NoCategory => categories[Above[x]] # NotThere
      /\ Ranked /\ (\A f, g \in treeLock : f = g)
  BY DEF CategoriesInv, CategoryShapes
<1>3. categories'[c] = Deleted /\ \A x \in CategoryIds : x # c => categories'[x] = categories[x]
  BY <1>1, <1>2
<1>4. Above \in [CategoryIds -> Parents] /\ NoCategory \in Parents
  BY <1>2 DEF Above, CategoryRows, Parents
<1>5. categories' \in [CategoryIds -> CategoryRows]
  BY <1>1, <1>2, CategoryFacts
<1>6. Above' = [Above EXCEPT ![c] = NoCategory]
  BY <1>2, <1>3, <1>5, CategoryFacts DEF Above
<1>7. \A x \in CategoryIds : categories[x] # NotThere => categories'[x] # NotThere
  BY <1>3, CategoryFacts
<1>8. \A x \in CategoryIds : /\ categories'[x].status \in {"NONE", "DELETED"} => categories'[x].parent = NoCategory
                             /\ Above'[x] # NoCategory => categories'[Above'[x]] # NotThere
  BY <1>4, <1>6, <1>2, <1>3, CategoryFacts, <1>7 DEF Parents
<1>9. ASSUME NEW f \in CategoryEditors
      PROVE  EditKnown(f)' /\ MoveFits(f)'
  <2>1. EditKnown(f) /\ MoveFits(f) /\ categoryEdits[f] \in CategoryEdits
    BY <1>2 DEF CategoriesInv
  <2>2. categoryEdits[f].row.parent \in Parents
    BY <2>1 DEF CategoryEdits, CategoryRows
  <2>3. EditKnown(f)'
    BY <1>1, <1>7, <2>1, <2>2 DEF EditKnown, Parents
  <2>4. MoveFits(f)'
    BY <1>1, <2>1, <1>4, RanksChange, <1>6 DEF MoveFits, RankedUnder, Falls
  <2> QED
    BY <2>3, <2>4
<1>10. Ranked'
  BY <1>2, <1>4, RanksChange, <1>1, <1>6 DEF Ranked, Falls
<1>11. CategoryShapes'
  BY <1>1, <1>2, <1>5 DEF CategoryShapes
<1> QED
  BY <1>1, <1>2, <1>8, <1>9, <1>10, <1>11 DEF CategoriesInv

\* Every step of the tree.
LEMMA CategoriesStep ==
  ASSUME CategoriesInv, [CategoriesNext]_categoriesVars
  PROVE  CategoriesInv'
<1>1. CASE UNCHANGED categoriesVars
  <2>1. categories' = categories /\ categoryEdits' = categoryEdits /\ treeLock' = treeLock /\ writtenBack' = writtenBack
    BY <1>1 DEF categoriesVars
  <2>2. Above' = Above
    BY <2>1 DEF Above
  <2> QED
    BY <2>1, <2>2 DEF CategoriesInv, CategoryShapes, EditKnown, MoveFits, Ranked
<1> QED
  BY <1>1, StartsKeepTree, CheckKeepsTree, FinishKeepsTree, DeleteKeepsTree DEF CategoriesNext

\* Along a cycle with nothing written back the ranks would fall for ever.
LEMMA CyclesKnown ==
  ASSUME CategoryShapes, Ranked
  PROVE  CyclesAreWrittenBack
<1>1. PICK r \in Ranks : Falls(Above, writtenBack, {}, r)
  BY DEF Ranked
<1> SUFFICES ASSUME NEW c \in CategoryIds, InCycle(c), lineage(c) \cap writtenBack = {}
             PROVE  FALSE
  BY DEF CyclesAreWrittenBack
<1> DEFINE p == Above[c]
           S == {x \in lineage(c) : r[x] < r[c]}
<1>2. p \in CategoryIds /\ p # NoCategory /\ c \in lineage(p)
  BY AboveIs DEF InCycle
<1>3. c \in lineage(c) /\ ClosedUp(lineage(c))
  BY LineageIs
<1>4. \A x \in lineage(c) : Above[x] # NoCategory => Above[x] \in lineage(c) /\ r[Above[x]] < r[x]
  BY <1>1, <1>3 DEF ClosedUp, Falls
<1>5. \A x \in CategoryIds : r[x] \in Nat
  BY DEF Ranks
<1>6. ClosedUp(S) /\ p \in S
  <2>1. S \subseteq CategoryIds
    BY <1>3 DEF ClosedUp
  <2>2. ASSUME NEW x \in S, Above[x] # NoCategory
        PROVE  Above[x] \in S
    BY <2>1, <2>2, AboveIs, <1>4, <1>5
  <2>3. p \in S
    BY <1>2, <1>3, <1>4
  <2> QED
    BY <2>1, <2>2, <2>3 DEF ClosedUp
<1>7. c \in S
  <2> HIDE DEF S, p
  <2>1. lineage(p) \subseteq S
    BY <1>2, <1>6, LineageIs
  <2> QED
    BY <1>2, <2>1
<1> QED
  BY <1>5, <1>7

\* Concurrent changes of the tree: it has a cycle only where a save wrote an old parent back over a move, and even then
\* the query of products and the tree of the site show the same categories.
THEOREM TreeAlwaysReadsAlike == CategoriesSpec => []TreeReadsAlike
<1>1. CategoriesInit => CategoriesInv
  BY CategoriesInitInv
<1>2. CategoriesInv /\ [CategoriesNext]_categoriesVars => CategoriesInv'
  BY CategoriesStep
<1>3. CategoriesInv => TreeReadsAlike
  BY CyclesKnown, BothAgree DEF CategoriesInv, TreeReadsAlike
<1> QED
  BY <1>1, <1>2, <1>3, PTL DEF CategoriesSpec

-----------------------------------------------------------------------------
(* The catalog, beside the rest of the back office.                        *)

\* Where a behavior begins, each part begins.
LEMMA CatalogStart == BackOfficeInit => CategoriesInit /\ GalleryInit /\ ProductsInit
  BY DEF BackOfficeInit

\* A step is one of a part, or leaves it alone.
LEMMA CatalogStep ==
  [BackOfficeNext]_backOfficeVars =>
    [CategoriesNext]_categoriesVars /\ [GalleryNext]_galleryVars /\ [ProductsNext]_productsVars
<1>1. CASE UNCHANGED backOfficeVars
  BY <1>1 DEF backOfficeVars
<1>2. CASE BackOfficeNext
  BY <1>2 DEF BackOfficeNext, Rest
<1> QED
  BY <1>1, <1>2

\* Whoever edits the catalog at once: the tree reads alike, the images have their files, and what is sold keeps its
\* identity.
THEOREM CatalogAlwaysHolds == BackOfficeSpec => CatalogHolds
<1>1. BackOfficeSpec => CategoriesSpec /\ GallerySpec /\ ProductsSpec
  BY CatalogStart, CatalogStep, PTL DEF BackOfficeSpec, CategoriesSpec, GallerySpec, ProductsSpec
<1> QED
  BY <1>1, TreeAlwaysReadsAlike, GalleryAlwaysHasItsFiles, ProductsAlwaysStaySold, PTL DEF CatalogHolds
=============================================================================
