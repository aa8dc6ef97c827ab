----------------------------- MODULE PublicCache -----------------------------
(***************************************************************************)
(* The cache of public reads (src/platform/cache) of each instance of the  *)
(* API: values kept for a time, the least recently used going first, and   *)
(* all of them dropped when the event of a change of the catalog is        *)
(* handled, which one instance does.  A load reads the database and        *)
(* stores its answer later, so a change and its event may pass in between. *)
(* Changes without an event, such as a price, show up once values expire.  *)
(***************************************************************************)
EXTENDS Naturals, Sequences, SequencesExt

CONSTANTS
  Instances, CacheKeys,
  MAX_ENTRIES, TTL,
  MaxCacheTime,     \* bound: instants
  MaxVersions       \* bound: changes of the catalog

ASSUME PublicCacheAssumption == MAX_ENTRIES \in Nat \ {0} /\ TTL \in Nat /\ MaxCacheTime \in Nat /\ MaxVersions \in Nat

VARIABLES
  entries,      \* of each instance, the least recently used first
  loading,      \* of each instance and key
  version,      \* of the catalog: its changes so far
  untold,       \* the changes whose event nobody handled yet
  cleared,      \* of each instance, the last change it cleared its cache for
  cacheClock

cacheVars == <<entries, loading, version, untold, cleared, cacheClock>>

NoLoad == [step |-> "none", value |-> 0, readAt |-> 0, raced |-> FALSE]

CacheInit ==
  /\ entries = [i \in Instances |-> <<>>] /\ loading = [i \in Instances |-> [k \in CacheKeys |-> NoLoad]]
  /\ version = 0 /\ untold = {} /\ cleared = [i \in Instances |-> 0] /\ cacheClock = 0

-----------------------------------------------------------------------------
(* LruStore. *)

At(es, k) == {n \in DOMAIN es : es[n].key = k}
has(es, k) == At(es, k) # {}
Of(es, k) == es[CHOOSE n \in At(es, k) : TRUE]
Without(es, k) == IF has(es, k) THEN RemoveAt(es, CHOOSE n \in At(es, k) : TRUE) ELSE es
\* Mutant: a value that is used is kept for longer.
getSliding(es, k) == Append(Without(es, k), [Of(es, k) EXCEPT !.expires = cacheClock + TTL])
get(es, k) == Append(Without(es, k), Of(es, k))
set(es, entry) ==
  LET all == Append(Without(es, entry.key), entry) IN IF Len(all) > MAX_ENTRIES THEN Tail(all) ELSE all

expired(e) == cacheClock > e.expires

-----------------------------------------------------------------------------
(* getOrLoad: the calls for a key wait for the load in progress, so there is one. *)

Quiet(i, k) == loading[i][k].step = "none"
Kept == UNCHANGED <<version, untold, cleared, cacheClock>>

hit(i, k) ==
  /\ Quiet(i, k) /\ has(entries[i], k) /\ ~expired(Of(entries[i], k))
  /\ entries' = [entries EXCEPT ![i] = get(@, k)]
  /\ Kept /\ UNCHANGED loading

\* An expired value is dropped when it is read.
miss(i, k) ==
  /\ Quiet(i, k) /\ (has(entries[i], k) => expired(Of(entries[i], k)))
  /\ entries' = [entries EXCEPT ![i] = Without(@, k)]
  /\ loading' = [loading EXCEPT ![i][k].step = "asking"]
  /\ Kept

load(i, k) ==
  /\ loading[i][k].step = "asking"
  /\ loading' = [loading EXCEPT ![i][k] = [@ EXCEPT !.step = "storing", !.value = version, !.readAt = cacheClock]]
  /\ Kept /\ UNCHANGED entries

store(i, k) ==
  LET l == loading[i][k] IN
  /\ l.step = "storing"
  /\ entries' = [entries EXCEPT ![i] = set(@, [key |-> k, value |-> l.value, expires |-> cacheClock + TTL, readAt |-> l.readAt,
                                               took |-> cacheClock - l.readAt, raced |-> l.raced])]
  /\ loading' = [loading EXCEPT ![i][k] = NoLoad]
  /\ Kept

\* Errors, such as that of a product that is not sold, are not kept.
failLoad(i, k) ==
  /\ ~Quiet(i, k) /\ loading' = [loading EXCEPT ![i][k] = NoLoad]
  /\ Kept /\ UNCHANGED entries

-----------------------------------------------------------------------------
(* The catalog. *)

\* With an event: a product is published, archived or sold elsewhere, or a variant is discontinued.
changeCatalog(told) ==
  /\ version < MaxVersions /\ version' = version + 1
  /\ untold' = IF told THEN untold \cup {version'} ELSE untold
  /\ UNCHANGED <<entries, loading, cleared, cacheClock>>

clear(es) == <<>>

\* PublicCatalogCacheInvalidation, in the instance that delivers the event; again if the delivery is repeated.
onCatalogEvent(i, n) ==
  /\ n \in untold
  /\ entries' = [entries EXCEPT ![i] = clear(@)]
  /\ cleared' = [cleared EXCEPT ![i] = IF n > @ THEN n ELSE @]
  /\ loading' = [loading EXCEPT ![i] = [k \in CacheKeys |-> [loading[i][k] EXCEPT !.raced = @ \/ loading[i][k].step = "storing"]]]
  /\ untold' \in {untold, untold \ {n}}
  /\ UNCHANGED <<version, cacheClock>>

\* An instance stops, and starts with nothing.
restart(i) ==
  /\ entries' = [entries EXCEPT ![i] = <<>>] /\ loading' = [loading EXCEPT ![i] = [k \in CacheKeys |-> NoLoad]]
  /\ Kept

CacheTick == cacheClock < MaxCacheTime /\ cacheClock' = cacheClock + 1 /\ UNCHANGED <<entries, loading, version, untold, cleared>>

CacheNext ==
  \/ \E i \in Instances, k \in CacheKeys : hit(i, k) \/ miss(i, k) \/ load(i, k) \/ store(i, k) \/ failLoad(i, k)
  \/ \E told \in BOOLEAN : changeCatalog(told)
  \/ \E i \in Instances : restart(i) \/ \E n \in 1..MaxVersions : onCatalogEvent(i, n)
  \/ CacheTick

CacheSpec == CacheInit /\ [][CacheNext]_cacheVars

-----------------------------------------------------------------------------
(* Properties. *)

Values(i) == {entries[i][n] : n \in DOMAIN entries[i]}

\* A value that can still be answered was true at most TTL ago, and the time its load took, however often it is used.
StaleAtMostTTL == \A i \in Instances : \A e \in Values(i) : ~expired(e) => cacheClock <= e.readAt + TTL + e.took

\* The instance that handled the event of a change answers nothing older, except what a load that had read the
\* database by then stored afterwards: that one stays until it expires.
ClearedUnlessRaced == \A i \in Instances : \A e \in Values(i) : e.value >= cleared[i] \/ e.raced

\* A namespace never holds more than its limit, nor two values of a key.
CacheIsBounded ==
  \A i \in Instances : Len(entries[i]) <= MAX_ENTRIES /\ \A m, n \in DOMAIN entries[i] : entries[i][m].key = entries[i][n].key => m = n

\* What visitors see of the catalog is recent, and after a change as recent as its event, but for a load in progress.
CacheIsFresh == StaleAtMostTTL /\ ClearedUnlessRaced /\ CacheIsBounded
=============================================================================
