-------------------------------- MODULE KVTier --------------------------------
(***************************************************************************)
(* The two stores a stateless stream's inference state lives in, as        *)
(* operators on their values: the shared tier (cmd/kvtier), a byte-bounded *)
(* LRU map of immutable versions, and the hot cache a worker keeps in      *)
(* front of it (worker/kvtier.py), an ordered map of live model states.    *)
(*                                                                         *)
(* A blob is what the model had absorbed when it was written; every blob   *)
(* of a model has one size.  A version's age is whether it is past the     *)
(* TTL.  Counters for display are left out.                                *)
(***************************************************************************)
EXTENDS Integers, Sequences, SequencesExt, FiniteSets, Filtering

CONSTANTS
  BlobSize,   \* bytes of one version
  MaxBytes,   \* the tier's ceiling, 512 MB by default
  HotMax      \* entries of a hot cache, 32 by default

ASSUME TierAssumption ==
  /\ BlobSize \in Nat \ {0}
  /\ MaxBytes \in Nat
  /\ HotMax \in Nat \ {0}

-------------------------------------------------------------------------------
(* The shared tier: the map, its recency list (front first), its byte      *)
(* counter.  Every operation holds the tier's lock throughout.             *)

EmptyTier == [m |-> << >>, lru |-> << >>, bytes |-> 0]
Versions(t) == DOMAIN t.m

UncountedWithout(t, gone) ==
  [m     |-> [k \in Versions(t) \ gone |-> t.m[k]],
   lru   |-> Dropping(t.lru, gone),
   bytes |-> t.bytes]
\* Some versions leave the map, the list and the count together.
Without(t, gone) ==
  [m     |-> [k \in Versions(t) \ gone |-> t.m[k]],
   lru   |-> Dropping(t.lru, gone),
   bytes |-> t.bytes - BlobSize * Cardinality(gone \cap Versions(t))]

\* How many versions, from the front, stay below the ceiling.
Fitting(t) ==
  {n \in 0..Len(t.lru) : t.bytes - BlobSize * (Len(t.lru) - n) <= MaxBytes}
Kept(t) == IF Fitting(t) = {} THEN 0
           ELSE CHOOSE n \in Fitting(t) : \A i \in Fitting(t) : i <= n
Evicted(t) == {t.lru[i] : i \in Kept(t) + 1..Len(t.lru)}

\* putLocked: an old entry of that name is replaced, the cold end evicted.
Stored(t, key, blob) ==
  LET u == Without(t, {key})
  IN  [m     |-> [k \in Versions(u) \cup {key} |->
                    IF k = key THEN [blob |-> blob, old |-> FALSE] ELSE u.m[k]],
       lru   |-> << key >> \o u.lru,
       bytes |-> u.bytes + BlobSize]
Put(t, key, blob) == Without(Stored(t, key, blob), Evicted(Stored(t, key, blob)))

\* Create-only: a version that exists is refused, and stays as it is.
PutIfAbsent(t, key, blob) == IF key \in Versions(t) THEN t ELSE Put(t, key, blob)

\* Get: what a reader finds, and what the lookup leaves behind.
Found(t, key) == key \in Versions(t) /\ ~t.m[key].old
AfterGet(t, key) ==
  IF Found(t, key)
  THEN [t EXCEPT !.lru = << key >> \o Dropping(@, {key})]
  ELSE Without(t, {key})

Delete(t, key) == Without(t, {key})
\* Every version of one session: the keys with the prefix of its handle.
DeletePrefix(t, s) == Without(t, {k \in Versions(t) : k[1] = s})

Past(t) == {k \in Versions(t) : t.m[k].old}
SweepOverfull(t) == IF t.bytes > MaxBytes THEN Without(t, Past(t)) ELSE t
Sweep(t) == Without(t, Past(t))
Aged(t, key) == [t EXCEPT !.m = [k \in Versions(t) |->
                   IF k = key THEN [t.m[k] EXCEPT !.old = TRUE] ELSE t.m[k]]]

-------------------------------------------------------------------------------
(* A worker's hot cache: pairs of a reference and the object filed under   *)
(* it, least recently filed first.                                         *)

HotRefs(h)       == {h[i].ref : i \in DOMAIN h}
HotObjects(h)    == {h[i].obj : i \in DOMAIN h}
HotIndex(h, ref) == CHOOSE i \in DOMAIN h : h[i].ref = ref

HotPeek(h, ref) == h
\* A hit is handed out and forgotten: inference changes it in place.
HotTake(h, ref) == IF ref \in HotRefs(h) THEN RemoveAt(h, HotIndex(h, ref)) ELSE h

HotFiled(h, ref, obj) == Append(HotTake(h, ref), [ref |-> ref, obj |-> obj])
HotPut(h, ref, obj) ==
  LET g == HotFiled(h, ref, obj) IN IF Len(g) <= HotMax THEN g ELSE Tail(g)
===============================================================================
