----------------------------- MODULE StatelessProofs --------------------------
(***************************************************************************)
(* Every version of a stateless stream's state is exact, for any number of *)
(* sessions, workers and attempts, any size of the tier and of the caches, *)
(* and any pattern of retries, losses and restarts.                        *)
(*                                                                         *)
(* VersionsAreExact alone is not inductive: an attempt between its load    *)
(* and the filing of its result has to hold the state its reference names, *)
(* nobody else may hold that state, since inference changes it in place,   *)
(* and the chunks a client has offered are those of the version it names.  *)
(*                                                                         *)
(* The tier's books balance through every operation of the tier, and a     *)
(* deletion spares the version the next call reads because a version is    *)
(* retired only once a later one of its session is applied.                *)
(*                                                                         *)
(* What a session hears is then one stream of its chunks, cut between two  *)
(* of them at most, or the session ends.                                   *)
(***************************************************************************)
EXTENDS StatelessStream, DataTheorems

-------------------------------------------------------------------------------
(* The inductive invariant.                                                *)

Named == Seqs \cup {0}
\* A state that is stored has absorbed something.
Blobs == {m \in States : m.chunks # << >>}
Entry == [ref : Refs, obj : Objects]

ClientRec  == [pc : {"off", "idle", "push", "flush", "flushed", "ended", "gone"},
               applied : Named, text : States, sent : Named, place : Nat, tries : Nat]
AttemptRec == [pc : {"free", "load", "put", "file", "done"}, s : Sessions \cup {None},
               mode : {"push", "flush", None}, ref : Named, sink : Named,
               w : Workers \cup {None}, obj : Objects \cup {None}, text : States,
               live : BOOLEAN]

TypeInv ==
  /\ client \in [Sessions -> ClientRec]
  /\ attempt \in [Slots -> AttemptRec]
  /\ hot \in [Workers -> Seq(Entry)] /\ \A w \in Workers : Len(hot[w]) <= HotMax
  /\ heap \in [Objects -> States]
  /\ due \in [Sessions -> [Seqs -> Content]]
  /\ utterance \in [Sessions -> Content]
  /\ retiring \subseteq Refs
  /\ faults \in 0..MaxFaults

Tierlike(t) ==
  /\ {"m", "lru", "bytes"} \subseteq DOMAIN t
  /\ \A k \in Versions(t) : {"blob", "old"} \subseteq DOMAIN t.m[k]

\* What a version that starts from another starts from.
Base(s, n) == IF n = 0 THEN << >> ELSE due[s][n]

\* A client's next version continues the one it has applied.
ClientOK(s) ==
  LET c == client[s] IN
  /\ c.applied <= c.sent
  /\ c.pc = "off" => utterance[s] = << >>
  /\ c.pc \in {"idle", "flush"} => utterance[s] = Base(s, c.applied)
  /\ c.pc = "push" => /\ c.sent \in Seqs
                      /\ utterance[s] = Append(Base(s, c.applied), c.sent)
                      /\ due[s][c.sent] = utterance[s]

\* An attempt holds a state from its load to the end of its work, and it is
\* the one its reference, and then its sink, promises.
AttemptOK(i) ==
  LET a == attempt[i] IN
  /\ a.pc \in {"put", "file"} <=> a.obj \in Objects
  /\ a.pc # "free" =>
       /\ a.s \in Sessions /\ a.w \in Workers /\ a.mode \in {"push", "flush"}
       /\ a.ref <= client[a.s].sent /\ a.sink <= client[a.s].sent
       /\ a.mode = "push" => /\ a.sink \in Seqs
                             /\ due[a.s][a.sink] = Append(Base(a.s, a.ref), a.sink)
  /\ a.pc = "put" => heap[a.obj].chunks = Base(a.s, a.ref)
  /\ a.pc = "file" => a.mode = "push" /\ heap[a.obj].chunks = due[a.s][a.sink]

EntryOK(e) == /\ heap[e.obj].chunks = due[e.ref[1]][e.ref[2]]
              /\ e.ref[2] <= client[e.ref[1]].sent
HotOK(w) == \A j \in DOMAIN hot[w] : EntryOK(hot[w][j])

VersionOK(k) == /\ k \in Refs /\ k[2] <= client[k[1]].sent
                /\ tier.m[k].blob \in Blobs
                /\ tier.m[k].blob.chunks = due[k[1]][k[2]]
TierOK == Tierlike(tier) /\ \A k \in Versions(tier) : VersionOK(k)

\* Every model state has one holder.
NoTwice(h) == \A i, j \in DOMAIN h : h[i].obj = h[j].obj => i = j
OneHolder ==
  /\ \A w \in Workers : NoTwice(hot[w])
  /\ \A w, v \in Workers : w # v => HotObjects(hot[w]) \cap HotObjects(hot[v]) = {}
  /\ \A i, j \in Slots : attempt[i].obj \in Objects /\ attempt[i].obj = attempt[j].obj => i = j
  /\ \A i \in Slots, w \in Workers : attempt[i].obj \notin HotObjects(hot[w])

ExactInv ==
  /\ TypeInv /\ TierOK /\ OneHolder
  /\ \A s \in Sessions : ClientOK(s)
  /\ \A i \in Slots : AttemptOK(i)
  /\ \A w \in Workers : HotOK(w)

-------------------------------------------------------------------------------
(* The tier's operations only lose versions, or store one.                 *)

\* u has some of the versions of t, as they were.
Fewer(t, u) ==
  /\ Tierlike(u) /\ Versions(u) \subseteq Versions(t)
  /\ \A k \in Versions(u) : u.m[k].blob = t.m[k].blob

\* u may also have one more.
OneMore(t, u, key, blob) ==
  /\ Tierlike(u) /\ Versions(u) \subseteq Versions(t) \cup {key}
  /\ \A k \in Versions(u) :
       \/ k \in Versions(t) /\ u.m[k].blob = t.m[k].blob
       \/ k = key /\ u.m[k].blob = blob

\* Taking versions out leaves the others alone.
LEMMA WithoutIsFewer == \A t, gone : Tierlike(t) => Fewer(t, Without(t, gone))
BY DEF Tierlike, Fewer, Without, Versions

LEMMA FewerOfMore ==
  \A t, u, v, key, blob : OneMore(t, u, key, blob) /\ Fewer(u, v) => OneMore(t, v, key, blob)
BY DEF OneMore, Fewer

LEMMA StoredIsOneMore ==
  \A t, key, blob : Tierlike(t) => OneMore(t, Stored(t, key, blob), key, blob)
<1> SUFFICES ASSUME NEW t, NEW key, NEW blob, Tierlike(t)
             PROVE  OneMore(t, Stored(t, key, blob), key, blob)
  OBVIOUS
<1> DEFINE u == Without(t, {key})
<1>1. Fewer(t, u)
  BY WithoutIsFewer
<1>2. Stored(t, key, blob) =
        [m     |-> [k \in Versions(u) \cup {key} |->
                      IF k = key THEN [blob |-> blob, old |-> FALSE] ELSE u.m[k]],
         lru   |-> << key >> \o u.lru,
         bytes |-> u.bytes + BlobSize]
  BY DEF Stored
<1> HIDE DEF u
<1> QED
  BY <1>1, <1>2 DEF Fewer, OneMore, Tierlike, Versions

LEMMA PutIsOneMore ==
  \A t, key, blob : Tierlike(t) => OneMore(t, PutIfAbsent(t, key, blob), key, blob)
<1> SUFFICES ASSUME NEW t, NEW key, NEW blob, Tierlike(t)
             PROVE  OneMore(t, PutIfAbsent(t, key, blob), key, blob)
  OBVIOUS
<1>1. CASE key \in Versions(t)
  BY <1>1 DEF PutIfAbsent, OneMore
<1>2. CASE key \notin Versions(t)
  <2> DEFINE u == Stored(t, key, blob)
  <2>1. OneMore(t, u, key, blob)
    BY StoredIsOneMore
  <2>2. Fewer(u, Without(u, Evicted(u)))
    BY <2>1, WithoutIsFewer DEF OneMore
  <2>3. PutIfAbsent(t, key, blob) = Without(u, Evicted(u))
    BY <1>2 DEF PutIfAbsent, Put
  <2> HIDE DEF u
  <2> QED
    BY <2>1, <2>2, <2>3, FewerOfMore
<1> QED
  BY <1>1, <1>2

\* Reading, deleting, sweeping and ageing store nothing.
LEMMA ReadsAreFewer ==
  \A t, key : Tierlike(t) =>
    /\ Fewer(t, t) /\ Fewer(t, AfterGet(t, key)) /\ Fewer(t, Delete(t, key))
    /\ Fewer(t, Sweep(t)) /\ Fewer(t, Aged(t, key)) /\ Fewer(t, EmptyTier)
<1> SUFFICES ASSUME NEW t, NEW key, Tierlike(t)
             PROVE  /\ Fewer(t, t) /\ Fewer(t, AfterGet(t, key)) /\ Fewer(t, Delete(t, key))
                    /\ Fewer(t, Sweep(t)) /\ Fewer(t, Aged(t, key)) /\ Fewer(t, EmptyTier)
  OBVIOUS
<1>1. Fewer(t, t)
  BY DEF Fewer
<1>2. Fewer(t, AfterGet(t, key))
  <2>1. CASE Found(t, key)
    BY <2>1 DEF AfterGet, Fewer, Tierlike, Versions
  <2>2. CASE ~Found(t, key)
    BY <2>2, WithoutIsFewer DEF AfterGet
  <2> QED
    BY <2>1, <2>2
<1>3. Fewer(t, Delete(t, key)) /\ Fewer(t, Sweep(t))
  BY WithoutIsFewer DEF Delete, Sweep
<1>4. Fewer(t, Aged(t, key))
  BY DEF Aged, Fewer, Tierlike, Versions
<1>5. Fewer(t, EmptyTier)
  BY DEF EmptyTier, Fewer, Tierlike, Versions
<1> QED
  BY <1>1, <1>2, <1>3, <1>4, <1>5

LEMMA ClosesAreFewer == \A t, s : Tierlike(t) => Fewer(t, DeletePrefix(t, s))
BY WithoutIsFewer DEF DeletePrefix

-------------------------------------------------------------------------------
(* The hot cache's operations.                                             *)

LEMMA EntriesOf ==
  \A h \in Seq(Entry) : \A j \in DOMAIN h :
    h[j] \in Entry /\ h[j].obj \in Objects /\ h[j].ref \in Refs
<1> SUFFICES ASSUME NEW h \in Seq(Entry), NEW j \in DOMAIN h
             PROVE  h[j] \in Entry /\ h[j].obj \in Objects /\ h[j].ref \in Refs
  OBVIOUS
<1>1. h[j] \in Entry
  <2> HIDE DEF Entry
  <2> QED
    OBVIOUS
<1> QED
  BY <1>1 DEF Entry

\* g has some of the entries of h.
Among(g, h) == g \in Seq(Entry) /\ \A j \in DOMAIN g : \E i \in DOMAIN h : g[j] = h[i]

\* A hit leaves its entry, and only that one.
LEMMA TakeLeaves ==
  \A h \in Seq(Entry) : \A r \in HotRefs(h) :
    LET i == HotIndex(h, r)
        g == HotTake(h, r)
    IN  /\ i \in DOMAIN h /\ h[i].ref = r
        /\ Among(g, h) /\ Len(g) = Len(h) - 1
        /\ NoTwice(h) => NoTwice(g) /\ h[i].obj \notin HotObjects(g)
<1> SUFFICES ASSUME NEW h \in Seq(Entry), NEW r \in HotRefs(h)
             PROVE  LET i == HotIndex(h, r)
                        g == HotTake(h, r)
                    IN  /\ i \in DOMAIN h /\ h[i].ref = r
                        /\ Among(g, h) /\ Len(g) = Len(h) - 1
                        /\ NoTwice(h) => NoTwice(g) /\ h[i].obj \notin HotObjects(g)
  OBVIOUS
<1> DEFINE i == HotIndex(h, r)
           g == HotTake(h, r)
<1>1. i \in DOMAIN h /\ h[i].ref = r
  BY DEF HotIndex, HotRefs
<1>2. g = SubSeq(h, 1, i - 1) \o SubSeq(h, i + 1, Len(h))
  BY DEF HotTake, RemoveAt
<1> HIDE DEF i, g
<1>3. /\ g \in Seq(Entry) /\ Len(g) = Len(h) - 1
      /\ \A j \in 1..Len(g) : g[j] = IF j < i THEN h[j] ELSE h[j + 1]
  <2> DEFINE a == SubSeq(h, 1, i - 1)
             b == SubSeq(h, i + 1, Len(h))
  <2>1. i \in 1..Len(h) /\ Len(h) \in Nat /\ \A j \in 1..Len(h) : h[j] \in Entry
    BY <1>1, EntriesOf
  <2>2. /\ a \in Seq(Entry) /\ Len(a) = i - 1
        /\ \A j \in 1..i - 1 : a[j] = h[j]
    BY <2>1, SubSeqProperties
  <2>3. /\ b \in Seq(Entry) /\ Len(b) = Len(h) - i
        /\ \A j \in 1..Len(h) - i : b[j] = h[i + j]
    BY <2>1, SubSeqProperties
  <2>4. /\ a \o b \in Seq(Entry) /\ Len(a \o b) = Len(a) + Len(b)
        /\ \A j \in 1..Len(a) + Len(b) :
             (a \o b)[j] = IF j <= Len(a) THEN a[j] ELSE b[j - Len(a)]
    BY <2>2, <2>3, ConcatProperties
  <2>5. g = a \o b
    BY <1>2
  <2> HIDE DEF a, b
  <2>6. g \in Seq(Entry) /\ Len(g) = Len(h) - 1
    BY <2>1, <2>2, <2>3, <2>4, <2>5
  <2>7. ASSUME NEW j \in 1..Len(g)
        PROVE  g[j] = IF j < i THEN h[j] ELSE h[j + 1]
    <3>1. CASE j < i
      BY <2>1, <2>2, <2>3, <2>4, <2>5, <2>6, <3>1
    <3>2. CASE ~(j < i)
      <4>1. j - (i - 1) \in 1..Len(h) - i /\ i + (j - (i - 1)) = j + 1
        BY <2>1, <2>6, <3>2
      <4>2. b[j - (i - 1)] = h[j + 1]
        BY <2>3, <4>1
      <4>3. g[j] = b[j - (i - 1)]
        BY <2>1, <2>2, <2>3, <2>4, <2>5, <2>6, <3>2
      <4> QED
        BY <3>2, <4>2, <4>3
    <3> QED
      BY <3>1, <3>2
  <2> QED
    BY <2>6, <2>7
<1>4. DOMAIN g = 1..(Len(h) - 1) /\ DOMAIN h = 1..Len(h) /\ Len(h) \in Nat /\ i \in 1..Len(h)
  BY <1>1, <1>3
<1>5. Among(g, h)
  BY <1>3, <1>4 DEF Among
<1>6. ASSUME NoTwice(h)
      PROVE  NoTwice(g) /\ h[i].obj \notin HotObjects(g)
  <2> DEFINE old(j) == IF j < i THEN j ELSE j + 1
  <2>1. \A j \in DOMAIN g : old(j) \in DOMAIN h /\ old(j) # i /\ g[j] = h[old(j)]
    BY <1>3, <1>4
  <2>2. \A j, k \in DOMAIN g : old(j) = old(k) => j = k
    BY <1>4
  <2> HIDE DEF old
  <2>3. NoTwice(g)
    BY <2>1, <2>2, <1>6 DEF NoTwice
  <2>4. \A j \in DOMAIN g : g[j].obj # h[i].obj
    BY <2>1, <1>1, <1>6 DEF NoTwice
  <2> QED
    BY <2>3, <2>4 DEF HotObjects
<1> QED
  BY <1>1, <1>3, <1>5, <1>6 DEF i, g

LEMMA TakeIsAmong ==
  \A h \in Seq(Entry) : \A r :
    LET g == HotTake(h, r)
    IN  /\ Among(g, h) /\ Len(g) <= Len(h)
        /\ NoTwice(h) => NoTwice(g)
<1> SUFFICES ASSUME NEW h \in Seq(Entry), NEW r
             PROVE  LET g == HotTake(h, r)
                    IN  /\ Among(g, h) /\ Len(g) <= Len(h)
                        /\ NoTwice(h) => NoTwice(g)
  OBVIOUS
<1>1. CASE r \in HotRefs(h)
  BY <1>1, TakeLeaves
<1>2. CASE r \notin HotRefs(h)
  BY <1>2 DEF HotTake, Among
<1> QED
  BY <1>1, <1>2

\* Filing a state nobody has puts one entry behind some of the old ones.
LEMMA PutFiles ==
  \A h \in Seq(Entry), ref \in Refs, obj \in Objects :
    Len(h) <= HotMax /\ NoTwice(h) /\ obj \notin HotObjects(h) =>
      LET g == HotPut(h, ref, obj)
      IN  /\ g \in Seq(Entry) /\ Len(g) <= HotMax /\ NoTwice(g)
          /\ \A j \in DOMAIN g :
               g[j] = [ref |-> ref, obj |-> obj] \/ \E i \in DOMAIN h : g[j] = h[i]
<1> SUFFICES ASSUME NEW h \in Seq(Entry), NEW ref \in Refs, NEW obj \in Objects,
                    Len(h) <= HotMax, NoTwice(h), obj \notin HotObjects(h)
             PROVE  LET g == HotPut(h, ref, obj)
                    IN  /\ g \in Seq(Entry) /\ Len(g) <= HotMax /\ NoTwice(g)
                        /\ \A j \in DOMAIN g :
                             \/ g[j] = [ref |-> ref, obj |-> obj]
                             \/ \E i \in DOMAIN h : g[j] = h[i]
  OBVIOUS
<1> DEFINE t == HotTake(h, ref)
           e == [ref |-> ref, obj |-> obj]
           f == Append(t, e)
           g == HotPut(h, ref, obj)
<1>1. Among(t, h) /\ Len(t) <= Len(h) /\ NoTwice(t)
  BY TakeIsAmong
<1>2. g = IF Len(f) <= HotMax THEN f ELSE Tail(f)
  BY DEF HotPut, HotFiled
<1>3. e \in Entry /\ e.obj = obj
  BY DEF Entry
<1> HIDE DEF t, e, g
<1>4. \A j \in DOMAIN t : t[j].obj # obj
  BY <1>1 DEF Among, HotObjects
<1>5. /\ f \in Seq(Entry) /\ Len(f) = Len(t) + 1 /\ Len(t) \in Nat
      /\ \A j \in DOMAIN f : IF j = Len(f) THEN f[j] = e ELSE j \in DOMAIN t /\ f[j] = t[j]
  BY <1>1, <1>3 DEF Among
<1>6. NoTwice(f)
  BY <1>1, <1>3, <1>4, <1>5 DEF NoTwice
<1>7. \A j \in DOMAIN f : f[j] = e \/ \E i \in DOMAIN h : f[j] = h[i]
  BY <1>1, <1>5 DEF Among
<1>8. CASE Len(f) <= HotMax
  BY <1>2, <1>5, <1>6, <1>7, <1>8 DEF e, g
<1>9. CASE ~(Len(f) <= HotMax)
  <2> HIDE DEF f
  <2>1. /\ g \in Seq(Entry) /\ Len(g) = Len(f) - 1
        /\ \A j \in DOMAIN g : j + 1 \in DOMAIN f /\ g[j] = f[j + 1]
    BY <1>2, <1>5, <1>9, HeadTailProperties
  <2>2. Len(h) \in Nat /\ HotMax \in Nat
    BY TierAssumption DEF TierAssumption
  <2>3. Len(g) <= HotMax
    BY <2>1, <2>2, <1>1, <1>5
  <2>4. \A j, k \in DOMAIN g : j + 1 = k + 1 => j = k
    BY <2>1
  <2>5. NoTwice(g)
    BY <2>1, <2>4, <1>6 DEF NoTwice
  <2> QED
    BY <2>1, <2>3, <2>5, <1>7 DEF e, g
<1> QED
  BY <1>8, <1>9

-------------------------------------------------------------------------------
(* What a step may leave as it was.                                        *)

\* The versions a session has offered keep what they are to hold.
Grows ==
  /\ \A s \in Sessions : client[s].sent <= client'[s].sent
  /\ \A s \in Sessions, n \in Seqs : n <= client[s].sent => due'[s][n] = due[s][n]

\* An attempt that works on, or is over.
Continues(i) ==
  \/ attempt'[i] = Idle
  \/ /\ \A f \in {"pc", "s", "mode", "ref", "sink", "w", "obj"} :
          attempt'[i][f] = attempt[i][f]
     /\ attempt[i].obj \in Objects => heap'[attempt[i].obj] = heap[attempt[i].obj]

\* The hot caches lose entries, and the others' states are as they were.
HotFewer ==
  \A w \in Workers :
    /\ Among(hot'[w], hot[w]) /\ NoTwice(hot'[w])
    /\ \A j \in DOMAIN hot'[w] : heap'[hot'[w][j].obj] = heap[hot'[w][j].obj]

LEMMA Numbers ==
  /\ Named \subseteq Nat /\ Seqs \subseteq Named /\ 0 \in Named /\ 0 \notin Seqs
  /\ None \notin Objects /\ None \notin Seqs /\ MaxFaults \in Nat
BY StatelessAssumption DEF StatelessAssumption, Named

LEMMA RefsArePairs == \A k \in Refs : k[1] \in Sessions /\ k[2] \in Seqs /\ k[2] \in Nat
BY Numbers DEF Refs

LEMMA SentIsNamed == TypeInv => \A s \in Sessions : client[s].sent \in Nat /\ client[s].applied \in Named
BY Numbers DEF TypeInv, ClientRec

LEMMA TierKept ==
  ASSUME TypeInv, TypeInv', TierOK, Grows, Fewer(tier, tier')
  PROVE  TierOK'
<1>1. \A s \in Sessions : client[s].sent \in Nat /\ client'[s].sent \in Nat
  BY Numbers DEF TypeInv, ClientRec
<1>2. ASSUME NEW k \in Versions(tier')
      PROVE  VersionOK(k)'
  <2>1. k \in Versions(tier) /\ tier'.m[k].blob = tier.m[k].blob /\ VersionOK(k)
    BY <1>2 DEF Fewer, TierOK
  <2>2. k[1] \in Sessions /\ k[2] \in Seqs /\ k[2] \in Nat
    BY <2>1, RefsArePairs DEF VersionOK
  <2> QED
    BY <1>1, <2>1, <2>2 DEF VersionOK, Grows
<1> QED
  BY <1>2 DEF TierOK, Fewer

\* A version that is added is the one its name promises.
LEMMA TierGains ==
  ASSUME TypeInv, TypeInv', TierOK, Grows
  PROVE  \A key \in Refs : \A blob \in Blobs :
           /\ OneMore(tier, tier', key, blob)
           /\ key[2] <= client'[key[1]].sent /\ blob.chunks = due'[key[1]][key[2]]
           => TierOK'
<1>1. \A s \in Sessions : client[s].sent \in Nat /\ client'[s].sent \in Nat
  BY Numbers DEF TypeInv, ClientRec
<1>2. ASSUME NEW key \in Refs, NEW blob \in Blobs, OneMore(tier, tier', key, blob),
             key[2] <= client'[key[1]].sent, blob.chunks = due'[key[1]][key[2]],
             NEW k \in Versions(tier')
      PROVE  VersionOK(k)'
  <2>1. CASE k \in Versions(tier) /\ tier'.m[k].blob = tier.m[k].blob
    <3>1. VersionOK(k)
      BY <2>1 DEF TierOK
    <3>2. k[1] \in Sessions /\ k[2] \in Seqs /\ k[2] \in Nat
      BY <3>1, RefsArePairs DEF VersionOK
    <3> QED
      BY <1>1, <2>1, <3>1, <3>2 DEF VersionOK, Grows
  <2>2. CASE k = key /\ tier'.m[k].blob = blob
    BY <1>2, <2>2 DEF VersionOK
  <2> QED
    BY <1>2, <2>1, <2>2 DEF OneMore
<1> QED
  BY <1>2 DEF TierOK, OneMore

LEMMA ClientSame ==
  ASSUME TypeInv, TypeInv', Grows, NEW s \in Sessions, ClientOK(s),
         client'[s] = client[s], utterance'[s] = utterance[s]
  PROVE  ClientOK(s)'
<1>1. /\ client[s].sent \in Nat /\ client[s].applied \in Nat
      /\ client[s].applied # 0 => client[s].applied \in Seqs
  BY Numbers DEF TypeInv, ClientRec, Named
<1> QED
  BY <1>1 DEF ClientOK, Base, Grows

LEMMA AttemptSame ==
  ASSUME TypeInv, TypeInv', Grows, NEW i \in Slots, AttemptOK(i), Continues(i)
  PROVE  AttemptOK(i)'
<1>1. CASE attempt'[i] = Idle
  BY <1>1, Numbers DEF AttemptOK, Idle
<1>2. CASE /\ \A f \in {"pc", "s", "mode", "ref", "sink", "w", "obj"} :
                attempt'[i][f] = attempt[i][f]
           /\ attempt[i].obj \in Objects => heap'[attempt[i].obj] = heap[attempt[i].obj]
  <2> DEFINE a == attempt[i]
             b == attempt'[i]
  <2>1. /\ b.pc = a.pc /\ b.s = a.s /\ b.mode = a.mode /\ b.ref = a.ref
        /\ b.sink = a.sink /\ b.w = a.w /\ b.obj = a.obj
    BY <1>2
  <2>2. /\ a.ref \in Nat /\ a.sink \in Nat /\ (a.ref # 0 => a.ref \in Seqs)
        /\ \A s \in Sessions : client[s].sent \in Nat /\ client'[s].sent \in Nat
    BY Numbers DEF TypeInv, AttemptRec, ClientRec, Named
  <2> DEFINE base(d) == IF a.ref = 0 THEN << >> ELSE d[a.s][a.ref]
  <2>3. ASSUME a.pc # "free"
        PROVE  /\ a.s \in Sessions /\ a.ref <= client'[a.s].sent /\ a.sink <= client'[a.s].sent
               /\ base(due') = base(due)
               /\ a.sink \in Seqs => due'[a.s][a.sink] = due[a.s][a.sink]
    BY <2>2, <2>3 DEF AttemptOK, Grows
  <2>4. a.pc \in {"put", "file"} => heap'[a.obj] = heap[a.obj]
    BY <1>2 DEF AttemptOK
  <2>5. CASE a.pc = "free"
    BY <2>1, <2>5 DEF AttemptOK
  <2>6. CASE a.pc # "free"
    <3>1. b.mode = "push" => /\ b.sink \in Seqs
                             /\ due'[b.s][b.sink] = Append(base(due'), b.sink)
      BY <2>1, <2>3, <2>6 DEF AttemptOK, Base
    <3>2. b.pc = "put" => heap'[b.obj].chunks = base(due')
      BY <2>1, <2>3, <2>4, <2>6 DEF AttemptOK, Base
    <3>3. b.pc = "file" => b.mode = "push" /\ heap'[b.obj].chunks = due'[b.s][b.sink]
      BY <2>1, <2>3, <2>4, <2>6 DEF AttemptOK
    <3> QED
      BY <2>1, <2>3, <2>6, <3>1, <3>2, <3>3 DEF AttemptOK, Base
  <2> QED
    BY <2>5, <2>6
<1> QED
  BY <1>1, <1>2 DEF Continues

LEMMA HotSame ==
  ASSUME TypeInv, TypeInv', Grows, HotFewer, NEW w \in Workers, HotOK(w)
  PROVE  HotOK(w)'
<1> SUFFICES ASSUME NEW j \in DOMAIN hot'[w]
             PROVE  EntryOK(hot[w][j])'
  BY DEF HotOK
<1>1. PICK i \in DOMAIN hot[w] : hot'[w][j] = hot[w][i]
  BY DEF HotFewer, Among
<1>2. hot[w] \in Seq(Entry)
  BY DEF TypeInv
<1>3. hot[w][i].ref[1] \in Sessions /\ hot[w][i].ref[2] \in Seqs /\ hot[w][i].ref[2] \in Nat
  BY <1>2, EntriesOf, RefsArePairs
<1>4. \A s \in Sessions : client[s].sent \in Nat /\ client'[s].sent \in Nat
  BY Numbers DEF TypeInv, ClientRec
<1>5. EntryOK(hot[w][i])
  BY DEF HotOK
<1> DEFINE e == hot[w][i]
<1>6. due'[e.ref[1]][e.ref[2]] = due[e.ref[1]][e.ref[2]]
  BY <1>3, <1>5 DEF EntryOK, Grows
<1>7. e.ref[2] <= client'[e.ref[1]].sent
  BY <1>3, <1>4, <1>5 DEF EntryOK, Grows
<1>8. heap'[e.obj] = heap[e.obj]
  BY <1>1 DEF HotFewer
<1> QED
  BY <1>1, <1>5, <1>6, <1>7, <1>8 DEF EntryOK

LEMMA HoldersFewer ==
  ASSUME OneHolder, TypeInv, HotFewer,
         \A i \in Slots : attempt'[i].obj \in {attempt[i].obj, None}
  PROVE  OneHolder'
<1>1. \A w \in Workers : HotObjects(hot'[w]) \subseteq HotObjects(hot[w])
  BY DEF HotFewer, Among, HotObjects
<1>2. \A w \in Workers : None \notin HotObjects(hot[w])
  BY EntriesOf, Numbers DEF TypeInv, HotObjects
<1>3. \A i, j \in Slots :
        attempt'[i].obj \in Objects /\ attempt'[i].obj = attempt'[j].obj => i = j
  BY Numbers DEF OneHolder
<1>4. \A i \in Slots, w \in Workers : attempt'[i].obj \notin HotObjects(hot'[w])
  BY <1>1, <1>2 DEF OneHolder
<1>5. \A w, v \in Workers : w # v => HotObjects(hot'[w]) \cap HotObjects(hot'[v]) = {}
  BY <1>1 DEF OneHolder
<1> QED
  BY <1>3, <1>4, <1>5 DEF OneHolder, HotFewer

\* A step that gives nobody a state keeps the invariant if its client and its
\* attempts do.
LEMMA Quiet ==
  ASSUME ExactInv, TypeInv', TierOK', Grows, HotFewer,
         \A i \in Slots : attempt'[i].obj \in {attempt[i].obj, None},
         \A i \in Slots : AttemptOK(i)', \A s \in Sessions : ClientOK(s)'
  PROVE  ExactInv'
BY HotSame, HoldersFewer DEF ExactInv

LEMMA SameHot == ASSUME TypeInv, OneHolder, UNCHANGED <<hot, heap>> PROVE HotFewer
<1>1. \A h \in Seq(Entry) : Among(h, h)
  BY DEF Among
<1> QED
  BY <1>1 DEF HotFewer, TypeInv, OneHolder

\* A step that moves clients and attempts about, and may lose versions.
LEMMA Calm ==
  ASSUME ExactInv, UNCHANGED <<hot, heap, due>>, Fewer(tier, tier'),
         client' \in [Sessions -> ClientRec], attempt' \in [Slots -> AttemptRec],
         utterance' \in [Sessions -> Content],
         retiring' \subseteq Refs, faults' \in 0..MaxFaults,
         \A s \in Sessions : client'[s].sent = client[s].sent,
         \A s \in Sessions : \/ client'[s] = client[s] /\ utterance'[s] = utterance[s]
                             \/ ClientOK(s)',
         \A i \in Slots : Continues(i) \/ (AttemptOK(i)' /\ attempt'[i].obj = None)
  PROVE  ExactInv'
<1>1. TypeInv'
  BY DEF ExactInv, TypeInv
<1>2. Grows
  BY SentIsNamed DEF ExactInv, Grows
<1>3. HotFewer
  BY SameHot DEF ExactInv
<1>4. TierOK'
  BY <1>1, <1>2, TierKept DEF ExactInv
<1>5. \A s \in Sessions : ClientOK(s)'
  BY <1>1, <1>2, ClientSame DEF ExactInv
<1>6. \A i \in Slots : AttemptOK(i)'
  BY <1>1, <1>2, AttemptSame DEF ExactInv
<1>7. \A i \in Slots : attempt'[i].obj \in {attempt[i].obj, None}
  BY DEF Continues, Idle
<1> QED
  BY <1>1, <1>2, <1>3, <1>4, <1>5, <1>6, <1>7, Quiet

-------------------------------------------------------------------------------
(* The session's calls.                                                    *)

LEMMA BecomesOne ==
  TypeInv => \A s \in Sessions, d \in ClientRec : Becomes(s, d) =>
    /\ client' \in [Sessions -> ClientRec] /\ client'[s] = d
    /\ \A r \in Sessions \ {s} : client'[r] = client[r]
<1> HIDE DEF ClientRec
<1> QED
  BY DEF TypeInv, Becomes

LEMMA NewIsState == NewState \in States
BY DEF NewState, States, Content

LEMMA OpenedIsNew ==
  \A c \in ClientRec :
    /\ Opened(c) \in ClientRec /\ Opened(c).pc = "idle"
    /\ Opened(c).applied = 0 /\ Opened(c).sent = c.sent
<1> SUFFICES ASSUME NEW c \in ClientRec
             PROVE  /\ Opened(c) \in ClientRec /\ Opened(c).pc = "idle"
                    /\ Opened(c).applied = 0 /\ Opened(c).sent = c.sent
  OBVIOUS
<1> HIDE DEF Content, States, Named
<1> QED
  BY NewIsState, Numbers DEF Opened, OpenedUnreset, ClientRec

\* What a step of one session that leaves the workers alone has to show.
LEMMA OfOneSession ==
  ASSUME ExactInv, UNCHANGED <<workers, due, faults>>, Fewer(tier, tier'),
         NEW s \in Sessions, NEW d \in ClientRec, Becomes(s, d),
         d.sent = client[s].sent, retiring' \subseteq Refs,
         utterance' \in [Sessions -> Content],
         \A r \in Sessions \ {s} : utterance'[r] = utterance[r],
         ClientOK(s)'
  PROVE  ExactInv'
<1>1. /\ client' \in [Sessions -> ClientRec] /\ client'[s] = d
      /\ \A r \in Sessions \ {s} : client'[r] = client[r]
  BY BecomesOne DEF ExactInv
<1>2. /\ attempt' \in [Slots -> AttemptRec] /\ faults' \in 0..MaxFaults
      /\ UNCHANGED <<attempt, hot, heap, due>>
  BY DEF ExactInv, TypeInv, workers
<1>3. \A i \in Slots : Continues(i)
  BY <1>2 DEF Continues
<1> QED
  BY <1>1, <1>2, <1>3, Calm

LEMMA StartKeeps == ASSUME ExactInv, NEW s \in Sessions, Start(s) PROVE ExactInv'
<1> DEFINE c == client[s]
<1>1. c \in ClientRec /\ c.sent \in Nat
  BY SentIsNamed DEF ExactInv, TypeInv
<1>2. Becomes(s, Opened(c)) /\ UNCHANGED <<workers, tier, retiring, history, faults>>
  BY DEF Start
<1>3. client'[s] = Opened(c)
  BY <1>1, <1>2, OpenedIsNew, BecomesOne DEF ExactInv
<1>4. ClientOK(s)'
  BY <1>1, <1>2, <1>3, OpenedIsNew DEF ExactInv, ClientOK, Base, history, Start
<1>5. Fewer(tier, tier') /\ retiring' \subseteq Refs /\ utterance' \in [Sessions -> Content]
  BY <1>2, ReadsAreFewer DEF ExactInv, TierOK, TypeInv, history
<1> QED
  BY <1>1, <1>2, <1>4, <1>5, OpenedIsNew, OfOneSession DEF history

\* Flushing and leaving only move the client on.
LEMMA MovesOnKeeps ==
  ASSUME ExactInv, NEW s \in Sessions, Flush(s) \/ Leave(s)
  PROVE  ExactInv'
<1> DEFINE c == client[s]
           d == client'[s]
<1>1. c \in ClientRec /\ c.sent \in Nat
  BY SentIsNamed DEF ExactInv, TypeInv
<1>2. Becomes(s, d) /\ UNCHANGED <<workers, tier, retiring, history, faults>>
  BY DEF Flush, Leave, Becomes, ExactInv, TypeInv
<1>3. /\ d \in ClientRec /\ c.pc = "idle" /\ d.pc \in {"flush", "ended"}
      /\ d.applied = c.applied /\ d.sent = c.sent
  <2>1. /\ c.pc = "idle"
        /\ \/ d = [c EXCEPT !.pc = "flush", !.place = 0, !.tries = 0]
           \/ d = [c EXCEPT !.pc = "ended"]
    BY DEF Flush, Leave, Becomes, ExactInv, TypeInv
  <2> HIDE DEF d, Content, States, Named
  <2>2. CASE d = [c EXCEPT !.pc = "flush", !.place = 0, !.tries = 0]
    BY <1>1, <2>1, <2>2 DEF ClientRec
  <2>3. CASE d = [c EXCEPT !.pc = "ended"]
    BY <1>1, <2>1, <2>3 DEF ClientRec
  <2> QED
    BY <2>1, <2>2, <2>3
<1>4. ClientOK(s)'
  BY <1>1, <1>2, <1>3 DEF ExactInv, ClientOK, Base, history
<1>5. Fewer(tier, tier') /\ retiring' \subseteq Refs /\ utterance' \in [Sessions -> Content]
  BY <1>2, ReadsAreFewer DEF ExactInv, TierOK, TypeInv, history
<1> QED
  BY <1>2, <1>3, <1>4, <1>5, OfOneSession DEF history

\* Close may delete the session's versions.
LEMMA CloseIsFewer ==
  ASSUME ExactInv, NEW s \in Sessions, tier' \in CloseEffects(s)
  PROVE  Fewer(tier, tier')
BY ReadsAreFewer, ClosesAreFewer DEF CloseEffects, ExactInv, TierOK

LEMMA RenewKeeps == ASSUME ExactInv, NEW s \in Sessions, Renew(s) PROVE ExactInv'
<1> DEFINE c == client[s]
<1>1. c \in ClientRec /\ c.sent \in Nat
  BY SentIsNamed DEF ExactInv, TypeInv
<1>2. Becomes(s, Opened(c)) /\ UNCHANGED <<workers, retiring, due, faults>>
  BY DEF Renew
<1>3. client'[s] = Opened(c)
  BY <1>1, <1>2, OpenedIsNew, BecomesOne DEF ExactInv
<1>4. /\ utterance'[s] = << >> /\ utterance' \in [Sessions -> Content]
      /\ \A r \in Sessions \ {s} : utterance'[r] = utterance[r]
  BY DEF Renew, ExactInv, TypeInv, Content
<1>5. ClientOK(s)'
  BY <1>1, <1>3, <1>4, OpenedIsNew DEF ClientOK, Base
<1>6. Fewer(tier, tier') /\ retiring' \subseteq Refs
  BY <1>2, CloseIsFewer DEF Renew, ExactInv, TypeInv
<1> QED
  BY <1>1, <1>2, <1>4, <1>5, <1>6, OpenedIsNew, OfOneSession

LEMMA TearDownKeeps == ASSUME ExactInv, NEW s \in Sessions, TearDown(s) PROVE ExactInv'
<1> DEFINE c == client[s]
           d == [c EXCEPT !.pc = "gone"]
<1>1. c \in ClientRec /\ c.sent \in Nat /\ ClientOK(s)
  BY SentIsNamed DEF ExactInv, TypeInv
<1>2. Becomes(s, d) /\ UNCHANGED <<workers, retiring, history, faults>>
  BY DEF TearDown
<1>3. d \in ClientRec /\ d.pc = "gone" /\ d.applied = c.applied /\ d.sent = c.sent
  <2> HIDE DEF Content, States, Named
  <2> QED
    BY <1>1 DEF ClientRec
<1> HIDE DEF d
<1>4. client'[s] = d
  BY <1>2, <1>3, BecomesOne DEF ExactInv
<1>5. ClientOK(s)'
  BY <1>1, <1>3, <1>4 DEF ClientOK
<1>6. /\ Fewer(tier, tier') /\ retiring' \subseteq Refs
      /\ utterance' \in [Sessions -> Content]
  BY <1>2, CloseIsFewer DEF TearDown, ExactInv, TypeInv, history
<1> QED
  BY <1>2, <1>3, <1>5, <1>6, OfOneSession DEF history

\* A push names a version past all the session has offered, and says what it
\* is to hold.
LEMMA PushKeeps ==
  ASSUME ExactInv, NEW s \in Sessions, NEW n \in Seqs, Push(s, n) PROVE ExactInv'
<1> DEFINE c == client[s]
           d == [c EXCEPT !.pc = "push", !.sent = n, !.place = 0, !.tries = 0]
<1>1. c \in ClientRec /\ c.sent \in Nat /\ c.applied \in Named /\ ClientOK(s)
  BY SentIsNamed DEF ExactInv, TypeInv
<1>2. c.pc = "idle" /\ n > c.sent /\ n \in Nat /\ n \in Named
  BY Numbers DEF Push
<1>3. d \in ClientRec /\ d.pc = "push" /\ d.applied = c.applied /\ d.sent = n
  <2> HIDE DEF Content, States, Named
  <2> QED
    BY <1>1, <1>2 DEF ClientRec
<1>4. Becomes(s, d) /\ UNCHANGED <<attempt, hot, heap, tier, retiring, faults>>
  BY DEF Push, workers
<1> HIDE DEF d
<1>5. /\ client' \in [Sessions -> ClientRec] /\ client'[s] = d
      /\ \A r \in Sessions \ {s} : client'[r] = client[r]
  BY <1>3, <1>4, BecomesOne DEF ExactInv
<1>6. /\ utterance' = [utterance EXCEPT ![s] = Append(utterance[s], n)]
      /\ due' = [due EXCEPT ![s][n] = utterance'[s]]
  BY DEF Push
<1>7. /\ utterance' \in [Sessions -> Content] /\ utterance'[s] = Append(utterance[s], n)
      /\ \A r \in Sessions \ {s} : utterance'[r] = utterance[r]
  BY <1>6 DEF ExactInv, TypeInv, Content
<1>8. /\ due' \in [Sessions -> [Seqs -> Content]] /\ due'[s][n] = utterance'[s]
      /\ \A r \in Sessions, m \in Seqs : r # s \/ m # n => due'[r][m] = due[r][m]
  <2> HIDE DEF Content, States
  <2>1. due \in [Sessions -> [Seqs -> Content]] /\ utterance'[s] \in Content
    BY <1>7 DEF ExactInv, TypeInv
  <2> QED
    BY <1>6, <2>1
<1>9. TypeInv'
  BY <1>4, <1>5, <1>7, <1>8 DEF ExactInv, TypeInv
<1>10. Grows
  BY <1>1, <1>2, <1>3, <1>5, <1>8, SentIsNamed DEF Grows, ExactInv
<1>11. TierOK'
  BY <1>4, <1>9, <1>10, TierKept, ReadsAreFewer DEF ExactInv, TierOK
<1>12. ClientOK(s)'
  <2>1. c.applied # 0 => c.applied \in Seqs /\ c.applied # n
    BY <1>1, <1>2 DEF Named, ClientOK
  <2>2. utterance[s] = IF c.applied = 0 THEN << >> ELSE due'[s][c.applied]
    BY <1>1, <1>2, <1>8, <2>1 DEF ClientOK, Base
  <2>3. c.applied \in Nat /\ c.applied <= c.sent /\ c.applied <= n
    <3>1. c.applied \in Nat /\ c.applied <= c.sent
      BY <1>1, Numbers DEF ClientOK
    <3> QED
      BY <1>1, <1>2, <3>1
  <2> QED
    BY <1>3, <1>5, <1>7, <1>8, <2>2, <2>3 DEF ClientOK, Base
<1>13. \A r \in Sessions : ClientOK(r)'
  BY <1>5, <1>7, <1>9, <1>10, <1>12, ClientSame DEF ExactInv
<1>14. \A i \in Slots : Continues(i) /\ attempt'[i].obj \in {attempt[i].obj, None}
  BY <1>4 DEF Continues
<1>15. \A i \in Slots : AttemptOK(i)'
  BY <1>9, <1>10, <1>14, AttemptSame DEF ExactInv
<1>16. HotFewer
  BY <1>4, SameHot DEF ExactInv
<1> QED
  BY <1>9, <1>10, <1>11, <1>13, <1>14, <1>15, <1>16, Quiet

LEMMA GoesOne ==
  TypeInv => \A i \in Slots, a \in AttemptRec : Goes(i, a) =>
    /\ attempt' \in [Slots -> AttemptRec] /\ attempt'[i] = a
    /\ \A j \in Slots \ {i} : attempt'[j] = attempt[j]
<1> HIDE DEF AttemptRec
<1> QED
  BY DEF TypeInv, Goes

LEMMA IdleIsAttempt == Idle \in AttemptRec
<1> HIDE DEF Content, States, Named
<1> QED
  BY NewIsState, Numbers DEF Idle, AttemptRec

\* The client hears an answer, and the attempt that gave it is over.
LEMMA AnswerKeeps ==
  ASSUME ExactInv, NEW s \in Sessions, NEW i \in Slots,
         PushAnswered(s, i) \/ FlushAnswered(s, i)
  PROVE  ExactInv'
<1> DEFINE c == client[s]
           d == client'[s]
<1>1. /\ c \in ClientRec /\ c.sent \in Nat /\ ClientOK(s)
      /\ attempt[i] \in AttemptRec /\ client \in [Sessions -> ClientRec]
  BY SentIsNamed DEF ExactInv, TypeInv
<1>2. /\ Goes(i, Idle) /\ Becomes(s, d)
      /\ UNCHANGED <<hot, heap, tier, due, utterance, faults>>
  BY DEF PushAnswered, FlushAnswered, Becomes, history, ExactInv, TypeInv
<1>3. /\ attempt' \in [Slots -> AttemptRec]
      /\ \A j \in Slots : Continues(j)
  BY <1>2, GoesOne, IdleIsAttempt DEF Continues, ExactInv
<1>4. attempt[i].text \in States
  <2> HIDE DEF Content, States, Named
  <2> QED
    BY <1>1 DEF AttemptRec
<1>5. /\ d \in ClientRec /\ d.sent = c.sent
      /\ \/ c.pc = "push" /\ d.pc = "idle" /\ d.applied = c.sent
         \/ d.pc \in {"flushed", "ended"} /\ d.applied = c.applied
  <2> HIDE DEF Content, States, Named
  <2>1. CASE PushAnswered(s, i)
    <3>1. c.pc = "push" /\ d = [c EXCEPT !.pc = "idle", !.applied = c.sent,
                                         !.text = attempt[i].text]
      BY <1>1, <2>1 DEF PushAnswered, Becomes
    <3> HIDE DEF d
    <3> QED
      BY <1>1, <1>4, <3>1 DEF ClientRec
  <2>2. CASE FlushAnswered(s, i)
    <3>1. PICK pc \in {"flushed", "ended"} :
            d = [c EXCEPT !.pc = pc, !.text = attempt[i].text]
      BY <1>1, <2>2 DEF FlushAnswered, Becomes
    <3> HIDE DEF d
    <3> QED
      BY <1>1, <1>4, <3>1 DEF ClientRec
  <2> QED
    BY <2>1, <2>2
<1>6. ClientOK(s)'
  BY <1>1, <1>2, <1>5, Numbers DEF ClientOK, Base
<1>7. retiring' \subseteq Refs
  <2>1. CASE FlushAnswered(s, i)
    BY <2>1 DEF FlushAnswered, ExactInv, TypeInv
  <2>2. CASE PushAnswered(s, i)
    <3>1. c.applied \in Named
      BY SentIsNamed DEF ExactInv
    <3>2. Retired(s, c) \subseteq Refs
      BY <3>1, Numbers DEF Retired, Refs, Named
    <3> QED
      BY <2>2, <3>2 DEF PushAnswered, ExactInv, TypeInv
  <2> QED
    BY <2>1, <2>2
<1>8. /\ client' \in [Sessions -> ClientRec]
      /\ \A r \in Sessions \ {s} : client'[r] = client[r]
  BY <1>2, <1>5, BecomesOne DEF ExactInv
<1>9. /\ Fewer(tier, tier') /\ utterance' \in [Sessions -> Content]
      /\ faults' \in 0..MaxFaults
  BY <1>2, ReadsAreFewer DEF ExactInv, TierOK, TypeInv
<1> QED
  BY <1>2, <1>3, <1>5, <1>6, <1>7, <1>8, <1>9, Calm

LEMMA UnliveIsAttempt ==
  \A a \in AttemptRec :
    LET b == [a EXCEPT !.live = FALSE] IN
    b \in AttemptRec /\ \A f \in {"pc", "s", "mode", "ref", "sink", "w", "obj"} : b[f] = a[f]
<1> HIDE DEF Content, States, Named
<1> QED
  BY DEF AttemptRec

\* Whoever gives up leaves the attempts to themselves.
LEMMA CallFailsKeeps == ASSUME ExactInv, NEW s \in Sessions, CallFails(s) PROVE ExactInv'
<1> DEFINE c == client[s]
           d == [c EXCEPT !.pc = "ended"]
<1>1. c \in ClientRec /\ c.sent \in Nat /\ ClientOK(s) /\ attempt \in [Slots -> AttemptRec]
  BY SentIsNamed DEF ExactInv, TypeInv
<1>2. Becomes(s, d) /\ UNCHANGED <<hot, heap, tier, retiring, due, utterance, faults>>
  BY DEF CallFails, history
<1>3. d \in ClientRec /\ d.pc = "ended" /\ d.applied = c.applied /\ d.sent = c.sent
  <2> HIDE DEF Content, States, Named
  <2> QED
    BY <1>1 DEF ClientRec
<1> HIDE DEF d
<1>4. /\ client' \in [Sessions -> ClientRec] /\ client'[s] = d
      /\ \A r \in Sessions \ {s} : client'[r] = client[r]
  BY <1>2, <1>3, BecomesOne DEF ExactInv
<1>5. ClientOK(s)'
  BY <1>1, <1>3, <1>4 DEF ClientOK
<1>6. attempt' = [i \in Slots |->
        IF i \notin AwaitedBy(s) THEN attempt[i]
        ELSE IF attempt[i].pc = "done" THEN Idle ELSE [attempt[i] EXCEPT !.live = FALSE]]
  BY DEF CallFails
<1>7. \A i \in Slots : attempt'[i] \in AttemptRec /\ Continues(i)
  <2> SUFFICES ASSUME NEW i \in Slots
               PROVE  attempt'[i] \in AttemptRec /\ Continues(i)
    OBVIOUS
  <2>1. attempt[i] \in AttemptRec
    BY <1>1
  <2>2. \/ attempt'[i] = attempt[i] \/ attempt'[i] = Idle
        \/ attempt'[i] = [attempt[i] EXCEPT !.live = FALSE]
    BY <1>6
  <2>3. CASE attempt'[i] = attempt[i]
    BY <1>2, <2>1, <2>3 DEF Continues
  <2>4. CASE attempt'[i] = Idle
    BY <2>4, IdleIsAttempt DEF Continues
  <2>5. CASE attempt'[i] = [attempt[i] EXCEPT !.live = FALSE]
    <3>1. /\ attempt'[i] \in AttemptRec
          /\ \A f \in {"pc", "s", "mode", "ref", "sink", "w", "obj"} :
               attempt'[i][f] = attempt[i][f]
      BY <2>1, <2>5, UnliveIsAttempt
    <3> QED
      BY <1>2, <3>1 DEF Continues
  <2> QED
    BY <2>2, <2>3, <2>4, <2>5
<1>8. attempt' \in [Slots -> AttemptRec]
  BY <1>6, <1>7
<1>9. /\ Fewer(tier, tier') /\ utterance' \in [Sessions -> Content]
      /\ faults' \in 0..MaxFaults /\ retiring' \subseteq Refs
  BY <1>2, ReadsAreFewer DEF ExactInv, TierOK, TypeInv
<1> QED
  BY <1>2, <1>3, <1>4, <1>5, <1>7, <1>8, <1>9, Calm

\* Bifrost begins an attempt at what the client waits for.
LEMMA RouteKeeps == ASSUME ExactInv, NEW s \in Sessions, Route(s) PROVE ExactInv'
<1> DEFINE c == client[s]
<1>1. /\ c \in ClientRec /\ c.sent \in Nat /\ c.applied \in Named /\ c.tries \in Nat
      /\ c.sent \in Named
  BY SentIsNamed DEF ExactInv, TypeInv, ClientRec
<1>2. /\ c.pc \in {"push", "flush"} /\ FreeSlots # {}
      /\ UNCHANGED <<hot, heap, tier, retiring, due, utterance, faults>>
  BY DEF Route, history
<1>3. PICK p \in {c.place, c.place + 1} \cap DOMAIN Chain[s] :
        /\ Becomes(s, [c EXCEPT !.place = p, !.tries = c.tries + 1])
        /\ Goes(CHOOSE i \in FreeSlots : TRUE, Call(s, Chain[s][p]))
  BY DEF Route
<1> DEFINE d == [c EXCEPT !.place = p, !.tries = c.tries + 1]
           a == Call(s, Chain[s][p])
<1>4. /\ d \in ClientRec /\ d.pc = c.pc /\ d.applied = c.applied /\ d.sent = c.sent
  <2>1. PICK t \in Nat : t = c.tries + 1
    BY <1>1
  <2>2. p \in Nat
    BY <1>3, StatelessAssumption DEF StatelessAssumption
  <2>3. d = [c EXCEPT !.place = p, !.tries = t]
    BY <2>1
  <2> HIDE DEF Content, States, Named, d
  <2> QED
    BY <1>1, <2>2, <2>3 DEF ClientRec
<1>5. /\ a \in AttemptRec /\ a.pc = "load" /\ a.s = s /\ a.mode = c.pc /\ a.obj = None
      /\ a.ref = c.applied /\ a.sink = (IF c.pc = "push" THEN c.sent ELSE 0)
      /\ a.w \in Workers
  <2>1. Chain[s][p] \in Workers
    BY <1>3, StatelessAssumption DEF StatelessAssumption
  <2>2. Idle \in AttemptRec
    BY IdleIsAttempt
  <2>3. a = [Idle EXCEPT !.pc = "load", !.s = s, !.mode = c.pc, !.ref = c.applied,
               !.sink = IF c.pc = "push" THEN c.sent ELSE 0, !.w = Chain[s][p], !.live = TRUE]
    BY DEF Call
  <2>4. Idle.obj = None
    BY DEF Idle
  <2> HIDE DEF Content, States, Named, a
  <2> QED
    BY <1>1, <1>2, <2>1, <2>2, <2>3, <2>4, Numbers DEF AttemptRec
<1>6. PICK i \in Slots : i = CHOOSE j \in FreeSlots : TRUE
  BY <1>2 DEF FreeSlots
<1> HIDE DEF a, d
<1>7. /\ client' \in [Sessions -> ClientRec] /\ client'[s] = d
      /\ \A r \in Sessions \ {s} : client'[r] = client[r]
  BY <1>3, <1>4, BecomesOne DEF ExactInv, d
<1>8. /\ attempt' \in [Slots -> AttemptRec] /\ attempt'[i] = a
      /\ \A j \in Slots \ {i} : Continues(j)
  BY <1>2, <1>3, <1>5, <1>6, GoesOne DEF ExactInv, Continues, a
<1>9. ClientOK(s)'
  BY <1>2, <1>4, <1>7 DEF ExactInv, ClientOK, Base
<1>10. AttemptOK(i)'
  <2>1. c.applied <= c.sent /\ 0 <= c.sent
    BY <1>1 DEF ExactInv, ClientOK
  <2>2. c.pc = "push" => /\ c.sent \in Seqs
                         /\ due[s][c.sent] = Append(Base(s, c.applied), c.sent)
    BY DEF ExactInv, ClientOK
  <2>3. client'[s].sent = c.sent /\ UNCHANGED <<due, heap>>
    BY <1>2, <1>4, <1>7
  <2> DEFINE b == attempt'[i]
  <2>4. /\ b.pc = "load" /\ b.s = s /\ b.mode = c.pc /\ b.obj = None /\ b.w \in Workers
        /\ b.ref = c.applied /\ b.sink = IF c.pc = "push" THEN c.sent ELSE 0
    BY <1>5, <1>8
  <2>5. b.obj \notin Objects
    BY <2>4, Numbers
  <2>6. b.sink <= c.sent
    BY <1>1, <2>1, <2>4
  <2> DEFINE base(t) == IF c.applied = 0 THEN << >> ELSE t[s][c.applied]
  <2>7. b.mode = "push" => b.sink = c.sent /\ b.sink \in Seqs
                           /\ due'[s][b.sink] = Append(base(due'), b.sink)
    BY <2>2, <2>3, <2>4 DEF Base
  <2> QED
    BY <1>2, <2>1, <2>3, <2>4, <2>5, <2>6, <2>7 DEF AttemptOK, Base
<1>11. /\ Fewer(tier, tier') /\ utterance' \in [Sessions -> Content]
       /\ faults' \in 0..MaxFaults /\ retiring' \subseteq Refs
  BY <1>2, ReadsAreFewer DEF ExactInv, TierOK, TypeInv
<1> QED
  BY <1>2, <1>4, <1>5, <1>7, <1>8, <1>9, <1>10, <1>11, Calm

-------------------------------------------------------------------------------
(* Losses, ageing and attempts that come to nothing.                       *)

LEMMA FaultIsBounded == ExactInv /\ Fault => faults' \in 0..MaxFaults
BY Numbers DEF ExactInv, TypeInv, Fault

LEMMA NoClient ==
  ASSUME ExactInv, UNCHANGED <<client, hot, heap, due, utterance>>, Fewer(tier, tier'),
         attempt' \in [Slots -> AttemptRec], \A i \in Slots : Continues(i),
         retiring' \subseteq Refs, faults' \in 0..MaxFaults
  PROVE  ExactInv'
<1>1. client' \in [Sessions -> ClientRec] /\ utterance' \in [Sessions -> Content]
  BY DEF ExactInv, TypeInv
<1> QED
  BY <1>1, Calm

\* What time, the sweeper, a retirement and a restart of the tier do.
LEMMA TierLosesKeeps ==
  ASSUME ExactInv,
         \/ SweepTick \/ TierRestarts
         \/ \E key : Retire(key) \/ Age(key)
  PROVE  ExactInv'
<1>1. UNCHANGED <<client, attempt, hot, heap, due, utterance>>
  BY DEF SweepTick, TierRestarts, Retire, Age, workers, history
<1>2. attempt' \in [Slots -> AttemptRec] /\ \A i \in Slots : Continues(i)
  BY <1>1 DEF ExactInv, TypeInv, Continues
<1>3. retiring' \subseteq Refs /\ faults' \in 0..MaxFaults
  BY FaultIsBounded DEF SweepTick, TierRestarts, Retire, Age, ExactInv, TypeInv
<1>4. Tierlike(tier)
  BY DEF ExactInv, TierOK
<1>5. Fewer(tier, tier')
  BY <1>4, ReadsAreFewer DEF SweepTick, TierRestarts, Retire, RetireEffects, Age
<1> QED
  BY <1>1, <1>2, <1>3, <1>5, NoClient

\* An attempt that finds nothing, or that nobody waits for any more.
LEMMA ComesToNothingKeeps ==
  ASSUME ExactInv, NEW i \in Slots, Miss(i) \/ LoadUnavailable(i) \/ GivesUp(i)
  PROVE  ExactInv'
<1>1. UNCHANGED <<client, hot, heap, due, utterance>>
  BY DEF Miss, LoadUnavailable, GivesUp, history
<1>2. retiring' \subseteq Refs /\ faults' \in 0..MaxFaults
  BY FaultIsBounded DEF Miss, LoadUnavailable, GivesUp, ExactInv, TypeInv
<1>3. Fewer(tier, tier')
  BY ReadsAreFewer DEF Miss, LoadUnavailable, GivesUp, ExactInv, TierOK
<1>4. attempt[i] \in AttemptRec
  BY DEF ExactInv, TypeInv
<1>5. PICK a : Goes(i, a) /\ (a = Idle \/ a = [attempt[i] EXCEPT !.live = FALSE])
  BY DEF Miss, LoadUnavailable, GivesUp
<1>6. a \in AttemptRec
  BY <1>4, <1>5, IdleIsAttempt, UnliveIsAttempt
<1>7. /\ attempt' \in [Slots -> AttemptRec] /\ attempt'[i] = a
      /\ \A j \in Slots \ {i} : attempt'[j] = attempt[j]
  BY <1>5, <1>6, GoesOne DEF ExactInv
<1>8. Continues(i)
  BY <1>1, <1>4, <1>5, <1>7, UnliveIsAttempt DEF Continues
<1>9. \A j \in Slots : Continues(j)
  BY <1>1, <1>7, <1>8 DEF Continues
<1> QED
  BY <1>1, <1>2, <1>3, <1>7, <1>9, NoClient

-------------------------------------------------------------------------------
(* The heap.                                                               *)

\* Collecting garbage takes nothing from who holds something.
LEMMA HeldIsKept ==
  \A h : HeapBecomes(h) =>
    /\ \A i \in Slots : attempt'[i].obj \in Objects => heap'[attempt'[i].obj] = h[attempt'[i].obj]
    /\ \A w \in Workers : \A o \in HotObjects(hot'[w]) : o \in Objects => heap'[o] = h[o]
<1> SUFFICES ASSUME NEW h, HeapBecomes(h)
             PROVE  /\ \A i \in Slots : attempt'[i].obj \in Objects =>
                         heap'[attempt'[i].obj] = h[attempt'[i].obj]
                    /\ \A w \in Workers : \A o \in HotObjects(hot'[w]) :
                         o \in Objects => heap'[o] = h[o]
  OBVIOUS
<1>1. \A o \in Objects : o \in Owned' => heap'[o] = h[o]
  BY DEF HeapBecomes
<1> DEFINE cached == UNION {HotObjects(hot'[w]) : w \in Workers}
           worked == {attempt'[i].obj : i \in Slots}
<1>2. /\ \A i \in Slots : attempt'[i].obj \in worked
      /\ \A w \in Workers : HotObjects(hot'[w]) \subseteq cached
  <2> HIDE DEF HotObjects
  <2> QED
    OBVIOUS
<1>3. Owned' = cached \cup worked
  BY DEF Owned
<1> HIDE DEF cached, worked, HotObjects
<1> QED
  BY <1>1, <1>2, <1>3

LEMMA HeapIsTyped ==
  \A h \in [Objects -> States] : HeapBecomes(h) => heap' \in [Objects -> States]
<1> HIDE DEF Content, States
<1> QED
  BY NewIsState DEF HeapBecomes

\* What a chunk adds: no cut, and one more chunk.
LEMMA AbsorbedIsBlob ==
  \A m \in States, n \in Seqs :
    /\ Absorbed(m, n) \in Blobs /\ Absorbed(m, n) \in States
    /\ Absorbed(m, n).chunks = Append(m.chunks, n) /\ Absorbed(m, n).cuts = m.cuts
<1> SUFFICES ASSUME NEW m \in States, NEW n \in Seqs
             PROVE  /\ Absorbed(m, n) \in Blobs /\ Absorbed(m, n) \in States
                    /\ Absorbed(m, n).chunks = Append(m.chunks, n)
                    /\ Absorbed(m, n).cuts = m.cuts
  OBVIOUS
<1>1. m \in [chunks : Seq(Seqs), cuts : SUBSET Nat] /\ m.cuts \subseteq 1..Len(m.chunks)
  BY DEF States, Content
<1> DEFINE c == Append(m.chunks, n)
<1>2. Absorbed(m, n) = [m EXCEPT !.chunks = c]
  BY DEF Absorbed
<1>3. c \in Seq(Seqs) /\ Len(c) = Len(m.chunks) + 1 /\ Len(m.chunks) \in Nat /\ c # << >>
  BY <1>1
<1> HIDE DEF c
<1>4. /\ Absorbed(m, n) \in [chunks : Seq(Seqs), cuts : SUBSET Nat]
      /\ Absorbed(m, n).chunks = c /\ Absorbed(m, n).cuts = m.cuts
  BY <1>1, <1>2, <1>3
<1>5. m.cuts \subseteq 1..Len(c)
  BY <1>1, <1>3
<1>6. Absorbed(m, n) \in States
  BY <1>4, <1>5 DEF States, Content
<1> QED
  BY <1>3, <1>4, <1>6 DEF Blobs, c

\* What an attempt infers is what its sink is to hold.
LEMMA InferredIsDue ==
  ASSUME ExactInv, NEW i \in Slots, At(i, "put"), attempt[i].mode = "push"
  PROVE  /\ attempt[i].obj \in Objects /\ Inferred(i) \in States
         /\ Inferred(i) \in Blobs
         /\ Sink(i) \in Refs /\ attempt[i].sink <= client[attempt[i].s].sent
         /\ Inferred(i).chunks = due[attempt[i].s][attempt[i].sink]
         /\ Inferred(i).cuts \subseteq 1..Len(Base(attempt[i].s, attempt[i].ref))
         /\ InferredHeap(i) \in [Objects -> States]
         /\ InferredHeap(i)[attempt[i].obj] = Inferred(i)
         /\ \A o \in Objects \ {attempt[i].obj} : InferredHeap(i)[o] = heap[o]
<1> DEFINE a == attempt[i]
<1>1. /\ a.obj \in Objects /\ a.s \in Sessions /\ a.sink \in Seqs
      /\ a.sink <= client[a.s].sent
      /\ due[a.s][a.sink] = Append(heap[a.obj].chunks, a.sink)
      /\ heap[a.obj].chunks = Base(a.s, a.ref)
  BY DEF ExactInv, AttemptOK, At
<1>2. Inferred(i) = Absorbed(heap[a.obj], a.sink)
  BY DEF Inferred
<1>3. heap \in [Objects -> States]
  BY DEF ExactInv, TypeInv
<1>4. /\ Inferred(i) \in States /\ Inferred(i) \in Blobs
      /\ Inferred(i).chunks = due[a.s][a.sink]
      /\ Inferred(i).cuts \subseteq 1..Len(Base(a.s, a.ref))
  <2>1. heap[a.obj] \in States
    <3> HIDE DEF Content, States
    <3> QED
      BY <1>1, <1>3
  <2> QED
    <3>1. heap[a.obj].cuts \subseteq 1..Len(heap[a.obj].chunks)
      BY <2>1 DEF States
    <3> QED
      BY <1>1, <1>2, <2>1, <3>1, AbsorbedIsBlob
<1>5. InferredHeap(i) = [heap EXCEPT ![a.obj] = Inferred(i)]
  BY DEF InferredHeap
<1>6. /\ InferredHeap(i) \in [Objects -> States]
      /\ InferredHeap(i)[a.obj] = Inferred(i)
      /\ \A o \in Objects \ {a.obj} : InferredHeap(i)[o] = heap[o]
  <2> HIDE DEF Content, States
  <2>1. /\ [heap EXCEPT ![a.obj] = Inferred(i)] \in [Objects -> States]
        /\ [heap EXCEPT ![a.obj] = Inferred(i)][a.obj] = Inferred(i)
        /\ \A o \in Objects \ {a.obj} : [heap EXCEPT ![a.obj] = Inferred(i)][o] = heap[o]
    BY <1>1, <1>3, <1>4
  <2> QED
    BY <1>5, <2>1
<1>7. Sink(i) \in Refs
  BY <1>1 DEF Sink, Refs
<1> QED
  BY <1>1, <1>2, <1>4, <1>6, <1>7

\* The state an inference changes is nobody else's.
LEMMA InferenceIsPrivate ==
  ASSUME ExactInv, NEW i \in Slots, At(i, "put"), attempt[i].mode = "push",
         HeapBecomes(InferredHeap(i)), UNCHANGED <<client, hot, due>>,
         \A j \in Slots \ {i} : attempt'[j] = attempt[j]
  PROVE  /\ HotFewer /\ Grows /\ heap' \in [Objects -> States]
         /\ \A j \in Slots \ {i} : Continues(j)
<1> DEFINE o == attempt[i].obj
<1>1. /\ o \in Objects /\ InferredHeap(i) \in [Objects -> States]
      /\ \A x \in Objects \ {o} : InferredHeap(i)[x] = heap[x]
  BY InferredIsDue
<1>2. heap' \in [Objects -> States]
  BY <1>1, HeapIsTyped
<1>3. HotFewer
  <2> SUFFICES ASSUME NEW w \in Workers
               PROVE  /\ Among(hot'[w], hot[w]) /\ NoTwice(hot'[w])
                      /\ \A j \in DOMAIN hot'[w] : heap'[hot'[w][j].obj] = heap[hot'[w][j].obj]
    BY DEF HotFewer
  <2>1. hot[w] \in Seq(Entry) /\ hot'[w] = hot[w] /\ NoTwice(hot[w])
    BY DEF ExactInv, TypeInv, OneHolder
  <2>2. Among(hot'[w], hot[w])
    BY <2>1 DEF Among
  <2>3. ASSUME NEW j \in DOMAIN hot'[w]
        PROVE  heap'[hot'[w][j].obj] = heap[hot'[w][j].obj]
    <3>1. hot'[w][j].obj \in HotObjects(hot'[w]) /\ hot'[w][j].obj \in Objects
      BY <2>1, EntriesOf DEF HotObjects
    <3>2. o \notin HotObjects(hot'[w])
      BY <2>1 DEF ExactInv, OneHolder
    <3> QED
      BY <1>1, <3>1, <3>2, HeldIsKept
  <2> QED
    BY <2>1, <2>2, <2>3
<1>4. ASSUME NEW j \in Slots \ {i}
      PROVE  Continues(j)
  <2>1. attempt[j].obj \in Objects => attempt[j].obj # o
    BY <1>1 DEF ExactInv, OneHolder
  <2>2. attempt[j].obj \in Objects => heap'[attempt[j].obj] = heap[attempt[j].obj]
    BY <1>1, <2>1, HeldIsKept
  <2> QED
    BY <2>2 DEF Continues
<1>5. Grows
  BY SentIsNamed DEF ExactInv, Grows
<1> QED
  BY <1>2, <1>3, <1>4, <1>5

LEMMA DoneIsAttempt ==
  \A a \in AttemptRec, t \in States :
    LET b == [a EXCEPT !.pc = "done", !.text = t, !.obj = None] IN
    /\ b \in AttemptRec /\ b.pc = "done" /\ b.obj = None
    /\ b.s = a.s /\ b.mode = a.mode /\ b.ref = a.ref /\ b.sink = a.sink /\ b.w = a.w
<1> HIDE DEF Content, States, Named
<1> QED
  BY DEF AttemptRec

\* A result that is stored is the version its sink names.
LEMMA PublishKeeps == ASSUME ExactInv, NEW i \in Slots, Publish(i) PROVE ExactInv'
<1> DEFINE a == attempt[i]
           b == [a EXCEPT !.pc = "file", !.text = Inferred(i)]
<1>1. /\ At(i, "put") /\ a.mode = "push" /\ HeapBecomes(InferredHeap(i)) /\ Goes(i, b)
      /\ UNCHANGED <<client, hot, retiring, due, utterance, faults>>
      /\ tier' = PutIfAbsent(tier, Sink(i), Inferred(i))
  BY DEF Publish, history
<1>2. /\ a.obj \in Objects /\ Inferred(i) \in States /\ Inferred(i) \in Blobs
      /\ Sink(i) \in Refs /\ a.sink <= client[a.s].sent
      /\ Inferred(i).chunks = due[a.s][a.sink]
      /\ InferredHeap(i)[a.obj] = Inferred(i)
  BY <1>1, InferredIsDue
<1>3. /\ a \in AttemptRec /\ a.s \in Sessions /\ a.sink \in Seqs /\ a.w \in Workers
      /\ a.ref <= client[a.s].sent
      /\ due[a.s][a.sink] = Append(Base(a.s, a.ref), a.sink)
  BY <1>1 DEF ExactInv, TypeInv, AttemptOK, At
<1>4. /\ b \in AttemptRec /\ b.pc = "file" /\ b.obj = a.obj /\ b.s = a.s /\ b.mode = a.mode
      /\ b.ref = a.ref /\ b.sink = a.sink /\ b.w = a.w
  <2> HIDE DEF Content, States, Named
  <2> QED
    BY <1>2, <1>3 DEF AttemptRec
<1> HIDE DEF b
<1>5. /\ attempt' \in [Slots -> AttemptRec] /\ attempt'[i] = b
      /\ \A j \in Slots \ {i} : attempt'[j] = attempt[j]
  BY <1>1, <1>4, GoesOne DEF ExactInv
<1>6. /\ HotFewer /\ Grows /\ heap' \in [Objects -> States]
      /\ \A j \in Slots \ {i} : Continues(j)
  BY <1>1, <1>5, InferenceIsPrivate
<1>7. TypeInv'
  BY <1>1, <1>5, <1>6 DEF ExactInv, TypeInv
<1>8. TierOK'
  <2>1. OneMore(tier, tier', Sink(i), Inferred(i))
    BY <1>1, PutIsOneMore DEF ExactInv, TierOK
  <2>2. Sink(i)[1] = a.s /\ Sink(i)[2] = a.sink
    BY DEF Sink
  <2>3. Sink(i)[2] <= client'[Sink(i)[1]].sent /\ Inferred(i).chunks = due'[Sink(i)[1]][Sink(i)[2]]
    BY <1>1, <1>2, <2>2
  <2> QED
    BY <1>2, <1>6, <1>7, <2>1, <2>3, TierGains DEF ExactInv
<1>9. AttemptOK(i)'
  <2>1. heap'[b.obj].chunks = due[a.s][a.sink]
    BY <1>1, <1>2, <1>4, <1>5, HeldIsKept
  <2> QED
    BY <1>1, <1>2, <1>3, <1>4, <1>5, <2>1 DEF AttemptOK, Base
<1>10. \A j \in Slots : AttemptOK(j)'
  BY <1>6, <1>7, <1>9, AttemptSame DEF ExactInv
<1>11. \A s \in Sessions : ClientOK(s)'
  BY <1>1, <1>6, <1>7, ClientSame DEF ExactInv
<1>12. \A j \in Slots : attempt'[j].obj \in {attempt[j].obj, None}
  BY <1>4, <1>5
<1> QED
  BY <1>6, <1>7, <1>8, <1>10, <1>11, <1>12, Quiet

LEMMA PublishUnavailableKeeps ==
  ASSUME ExactInv, NEW i \in Slots, PublishUnavailable(i) PROVE ExactInv'
<1> DEFINE a == attempt[i]
<1>1. /\ At(i, "put") /\ a.mode = "push" /\ HeapBecomes(InferredHeap(i)) /\ Goes(i, Idle)
      /\ UNCHANGED <<client, hot, retiring, due, utterance>>
      /\ tier' \in {tier, PutIfAbsent(tier, Sink(i), Inferred(i))}
  BY DEF PublishUnavailable, history
<1>2. /\ Sink(i) \in Refs /\ Inferred(i) \in Blobs /\ a.sink <= client[a.s].sent
      /\ Inferred(i).chunks = due[a.s][a.sink]
  BY <1>1, InferredIsDue
<1>3. /\ attempt' \in [Slots -> AttemptRec] /\ attempt'[i] = Idle
      /\ \A j \in Slots \ {i} : attempt'[j] = attempt[j]
  BY <1>1, IdleIsAttempt, GoesOne DEF ExactInv
<1>4. /\ HotFewer /\ Grows /\ heap' \in [Objects -> States]
      /\ \A j \in Slots \ {i} : Continues(j)
  BY <1>1, <1>3, InferenceIsPrivate
<1>5. faults' \in 0..MaxFaults
  BY FaultIsBounded DEF PublishUnavailable
<1>6. TypeInv'
  BY <1>1, <1>3, <1>4, <1>5 DEF ExactInv, TypeInv
<1>7. TierOK'
  <2>1. CASE tier' = tier
    BY <2>1, <1>4, <1>6, TierKept, ReadsAreFewer DEF ExactInv, TierOK
  <2>2. CASE tier' = PutIfAbsent(tier, Sink(i), Inferred(i))
    <3>1. OneMore(tier, tier', Sink(i), Inferred(i))
      BY <2>2, PutIsOneMore DEF ExactInv, TierOK
    <3>2. Sink(i)[1] = a.s /\ Sink(i)[2] = a.sink
      BY DEF Sink
    <3>3. /\ Sink(i)[2] <= client'[Sink(i)[1]].sent
          /\ Inferred(i).chunks = due'[Sink(i)[1]][Sink(i)[2]]
      BY <1>1, <1>2, <3>2
    <3> QED
      BY <1>2, <1>4, <1>6, <3>1, <3>3, TierGains DEF ExactInv
  <2> QED
    BY <1>1, <2>1, <2>2
<1>8. \A j \in Slots : Continues(j)
  BY <1>3, <1>4 DEF Continues
<1>9. \A j \in Slots : AttemptOK(j)'
  BY <1>4, <1>6, <1>8, AttemptSame DEF ExactInv
<1>10. \A s \in Sessions : ClientOK(s)'
  BY <1>1, <1>4, <1>6, ClientSame DEF ExactInv
<1>11. \A j \in Slots : attempt'[j].obj \in {attempt[j].obj, None}
  BY <1>8 DEF Continues, Idle
<1> QED
  BY <1>4, <1>6, <1>7, <1>9, <1>10, <1>11, Quiet

\* What is held keeps its content when some of it is let go.
LEMMA LetGo ==
  ASSUME ExactInv, HeapBecomes(heap), UNCHANGED <<client, due>>
  PROVE  /\ heap' \in [Objects -> States] /\ Grows
         /\ \A j \in Slots : attempt'[j] = attempt[j] => Continues(j)
         /\ \A w \in Workers : \A o \in HotObjects(hot'[w]) : o \in Objects => heap'[o] = heap[o]
<1>1. heap \in [Objects -> States]
  BY DEF ExactInv, TypeInv
<1>2. Grows
  BY SentIsNamed DEF ExactInv, Grows
<1>3. \A j \in Slots : attempt'[j] = attempt[j] => Continues(j)
  BY HeldIsKept DEF Continues
<1> QED
  BY <1>1, <1>2, <1>3, HeldIsKept, HeapIsTyped

LEMMA LettingGoIsFewer ==
  ASSUME ExactInv, HeapBecomes(heap), UNCHANGED <<client, due>>,
         \A w \in Workers : Among(hot'[w], hot[w]) /\ NoTwice(hot'[w])
  PROVE  HotFewer
<1> SUFFICES ASSUME NEW w \in Workers, NEW j \in DOMAIN hot'[w]
             PROVE  heap'[hot'[w][j].obj] = heap[hot'[w][j].obj]
  BY DEF HotFewer
<1>1. hot'[w] \in Seq(Entry)
  BY DEF Among
<1>2. hot'[w][j].obj \in HotObjects(hot'[w]) /\ hot'[w][j].obj \in Objects
  BY <1>1, EntriesOf DEF HotObjects
<1> QED
  BY <1>2, LetGo

\* The last use of a state.
LEMMA FinalizeKeeps == ASSUME ExactInv, NEW i \in Slots, Finalize(i) PROVE ExactInv'
<1> DEFINE a == attempt[i]
           b == [a EXCEPT !.pc = "done", !.text = Inferred(i), !.obj = None]
<1>1. /\ a.pc = "put" /\ a.mode = "flush" /\ HeapBecomes(heap) /\ Goes(i, Settled(i, b))
      /\ UNCHANGED <<client, hot, tier, retiring, due, utterance, faults>>
  BY DEF Finalize, At, history
<1>2. /\ a \in AttemptRec /\ a.s \in Sessions /\ a.obj \in Objects /\ a.w \in Workers
      /\ a.ref <= client[a.s].sent /\ a.sink <= client[a.s].sent
  BY <1>1 DEF ExactInv, TypeInv, AttemptOK
<1>3. Inferred(i) \in States
  <2> HIDE DEF Content, States
  <2> QED
    BY <1>1, <1>2 DEF ExactInv, TypeInv, Inferred
<1>4. /\ b \in AttemptRec /\ b.pc = "done" /\ b.obj = None
      /\ b.s = a.s /\ b.mode = a.mode /\ b.ref = a.ref /\ b.sink = a.sink /\ b.w = a.w
  BY <1>2, <1>3, DoneIsAttempt
<1> HIDE DEF b
<1>5. PICK d \in {b, Idle} : Goes(i, d)
  BY <1>1 DEF Settled
<1>6. /\ attempt' \in [Slots -> AttemptRec] /\ attempt'[i] = d
      /\ \A j \in Slots \ {i} : attempt'[j] = attempt[j]
  BY <1>4, <1>5, IdleIsAttempt, GoesOne DEF ExactInv
<1>7. /\ heap' \in [Objects -> States] /\ Grows
      /\ \A j \in Slots \ {i} : Continues(j)
  BY <1>1, <1>6, LetGo
<1>8. HotFewer
  <2>1. \A w \in Workers : Among(hot[w], hot[w])
    BY DEF ExactInv, TypeInv, Among
  <2> QED
    BY <1>1, <2>1, LettingGoIsFewer DEF ExactInv, OneHolder
<1>9. TypeInv'
  BY <1>1, <1>6, <1>7 DEF ExactInv, TypeInv
<1>10. TierOK'
  BY <1>1, <1>7, <1>9, TierKept, ReadsAreFewer DEF ExactInv, TierOK
<1>11. AttemptOK(i)'
  BY <1>1, <1>2, <1>4, <1>6, Numbers DEF AttemptOK, Idle
<1>12. \A j \in Slots : AttemptOK(j)'
  BY <1>7, <1>9, <1>11, AttemptSame DEF ExactInv
<1>13. \A s \in Sessions : ClientOK(s)'
  BY <1>1, <1>7, <1>9, ClientSame DEF ExactInv
<1>14. \A j \in Slots : attempt'[j].obj \in {attempt[j].obj, None}
  BY <1>4, <1>6 DEF Idle
<1> QED
  BY <1>7, <1>8, <1>9, <1>10, <1>12, <1>13, <1>14, Quiet

LEMMA WorkerRestartsKeeps ==
  ASSUME ExactInv, NEW w \in Workers, WorkerRestarts(w) PROVE ExactInv'
<1>1. /\ hot' = [hot EXCEPT ![w] = << >>] /\ HeapBecomes(heap)
      /\ attempt' = [i \in Slots |-> IF attempt[i].w = w THEN Idle ELSE attempt[i]]
      /\ UNCHANGED <<client, tier, retiring, due, utterance>> /\ Fault
  BY DEF WorkerRestarts, history
<1>2. /\ heap' \in [Objects -> States] /\ Grows
      /\ \A j \in Slots : attempt'[j] = attempt[j] => Continues(j)
  BY <1>1, LetGo
<1>3. \A j \in Slots : Continues(j)
  BY <1>1, <1>2 DEF Continues
<1>4. attempt' \in [Slots -> AttemptRec]
  BY <1>1, IdleIsAttempt DEF ExactInv, TypeInv
<1>5. \A v \in Workers : hot'[v] = hot[v] \/ hot'[v] = << >>
  BY <1>1 DEF ExactInv, TypeInv
<1>6. \A v \in Workers : /\ hot'[v] \in Seq(Entry) /\ Len(hot'[v]) <= HotMax
                         /\ Among(hot'[v], hot[v]) /\ NoTwice(hot'[v])
  <2> SUFFICES ASSUME NEW v \in Workers
               PROVE  /\ hot'[v] \in Seq(Entry) /\ Len(hot'[v]) <= HotMax
                      /\ Among(hot'[v], hot[v]) /\ NoTwice(hot'[v])
    OBVIOUS
  <2>1. hot[v] \in Seq(Entry) /\ Len(hot[v]) <= HotMax /\ NoTwice(hot[v])
    BY DEF ExactInv, TypeInv, OneHolder
  <2>2. CASE hot'[v] = hot[v]
    BY <2>1, <2>2 DEF Among
  <2>3. CASE hot'[v] = << >>
    BY <2>3, TierAssumption DEF TierAssumption, Among, NoTwice
  <2> QED
    BY <1>5, <2>2, <2>3
<1>7. HotFewer
  BY <1>1, <1>6, LettingGoIsFewer
<1>8. TypeInv'
  <2>1. hot' \in [Workers -> Seq(Entry)]
    <3> HIDE DEF Entry
    <3> QED
      BY <1>1, <1>6 DEF ExactInv, TypeInv
  <2> QED
    BY <1>1, <1>2, <1>4, <1>6, <2>1, FaultIsBounded DEF ExactInv, TypeInv
<1>9. TierOK'
  BY <1>1, <1>2, <1>8, TierKept, ReadsAreFewer DEF ExactInv, TierOK
<1>10. \A j \in Slots : AttemptOK(j)'
  BY <1>2, <1>3, <1>8, AttemptSame DEF ExactInv
<1>11. \A s \in Sessions : ClientOK(s)'
  BY <1>1, <1>2, <1>8, ClientSame DEF ExactInv
<1>12. \A j \in Slots : attempt'[j].obj \in {attempt[j].obj, None}
  BY <1>3 DEF Continues, Idle
<1> QED
  BY <1>2, <1>7, <1>8, <1>9, <1>10, <1>11, <1>12, Quiet

\* The result stays hot under the name it was stored by.
LEMMA FileKeeps == ASSUME ExactInv, NEW i \in Slots, File(i) PROVE ExactInv'
<1> DEFINE a == attempt[i]
           w == a.w
           o == a.obj
           b == [a EXCEPT !.pc = "done", !.obj = None]
           e == [ref |-> Sink(i), obj |-> o]
           g == HotPut(hot[w], Sink(i), o)
<1>1. /\ a.pc = "file" /\ HeapBecomes(heap) /\ Goes(i, Settled(i, b))
      /\ hot' = [hot EXCEPT ![w] = g]
      /\ UNCHANGED <<client, tier, retiring, due, utterance, faults>>
  BY DEF File, At, history
<1>2. /\ a \in AttemptRec /\ a.s \in Sessions /\ o \in Objects /\ w \in Workers
      /\ a.mode = "push" /\ a.sink \in Seqs
      /\ a.ref <= client[a.s].sent /\ a.sink <= client[a.s].sent
      /\ due[a.s][a.sink] = Append(Base(a.s, a.ref), a.sink)
      /\ heap[o].chunks = due[a.s][a.sink]
  BY <1>1 DEF ExactInv, TypeInv, AttemptOK
<1>3. /\ b \in AttemptRec /\ b.pc = "done" /\ b.obj = None
      /\ b.s = a.s /\ b.mode = a.mode /\ b.ref = a.ref /\ b.sink = a.sink /\ b.w = a.w
  <2> HIDE DEF Content, States, Named
  <2> QED
    BY <1>2 DEF AttemptRec
<1> HIDE DEF b
<1>4. PICK d \in {b, Idle} : Goes(i, d)
  BY <1>1 DEF Settled
<1>5. /\ attempt' \in [Slots -> AttemptRec] /\ attempt'[i] = d
      /\ \A j \in Slots \ {i} : attempt'[j] = attempt[j]
  BY <1>3, <1>4, IdleIsAttempt, GoesOne DEF ExactInv
<1>6. /\ heap' \in [Objects -> States] /\ Grows
      /\ \A j \in Slots \ {i} : Continues(j)
      /\ \A v \in Workers : \A x \in HotObjects(hot'[v]) : x \in Objects => heap'[x] = heap[x]
  BY <1>1, <1>5, LetGo
<1>7. Sink(i) \in Refs /\ Sink(i)[1] = a.s /\ Sink(i)[2] = a.sink
  BY <1>2 DEF Sink, Refs
<1>8. /\ g \in Seq(Entry) /\ Len(g) <= HotMax /\ NoTwice(g)
      /\ \A j \in DOMAIN g : g[j] = e \/ \E k \in DOMAIN hot[w] : g[j] = hot[w][k]
  <2>1. /\ hot[w] \in Seq(Entry) /\ Len(hot[w]) <= HotMax /\ NoTwice(hot[w])
        /\ o \notin HotObjects(hot[w])
    BY <1>2 DEF ExactInv, TypeInv, OneHolder
  <2> QED
    BY <1>2, <1>7, <2>1, PutFiles
<1> HIDE DEF g
<1>9. /\ hot' \in [Workers -> Seq(Entry)] /\ hot'[w] = g
      /\ \A v \in Workers \ {w} : hot'[v] = hot[v]
  <2> HIDE DEF Entry
  <2> QED
    BY <1>1, <1>2, <1>8 DEF ExactInv, TypeInv
<1>10. TypeInv'
  BY <1>1, <1>5, <1>6, <1>8, <1>9 DEF ExactInv, TypeInv
<1>11. TierOK'
  BY <1>1, <1>6, <1>10, TierKept, ReadsAreFewer DEF ExactInv, TierOK
<1>12. AttemptOK(i)'
  <2>1. CASE d = Idle
    BY <1>5, <2>1, Numbers DEF AttemptOK, Idle
  <2>2. CASE d = b
    <3>1. /\ attempt'[i].pc = "done" /\ attempt'[i].obj \notin Objects
          /\ attempt'[i].s = a.s /\ attempt'[i].mode = "push" /\ attempt'[i].w = w
          /\ attempt'[i].ref = a.ref /\ attempt'[i].sink = a.sink
      BY <1>2, <1>3, <1>5, <2>2, Numbers
    <3>2. due'[a.s][a.sink] =
            Append(IF a.ref = 0 THEN << >> ELSE due'[a.s][a.ref], a.sink)
      BY <1>1, <1>2 DEF Base
    <3> QED
      BY <1>1, <1>2, <3>1, <3>2 DEF AttemptOK, Base
  <2> QED
    BY <2>1, <2>2
<1>13. \A j \in Slots : AttemptOK(j)'
  BY <1>6, <1>10, <1>12, AttemptSame DEF ExactInv
<1>14. \A s \in Sessions : ClientOK(s)'
  BY <1>1, <1>6, <1>10, ClientSame DEF ExactInv
<1>15. ASSUME NEW v \in Workers, NEW j \in DOMAIN hot'[v]
       PROVE  \/ v = w /\ hot'[v][j] = e
              \/ \E k \in DOMAIN hot[v] : hot'[v][j] = hot[v][k]
  BY <1>8, <1>9
<1>16. \A v \in Workers : HotOK(v)'
  <2> SUFFICES ASSUME NEW v \in Workers, NEW j \in DOMAIN hot'[v]
               PROVE  EntryOK(hot[v][j])'
    BY DEF HotOK
  <2>1. /\ hot'[v][j].obj \in Objects /\ hot'[v][j].obj \in HotObjects(hot'[v])
    BY <1>9, EntriesOf DEF HotObjects
  <2>2. EntryOK(hot'[v][j])
    <3>1. CASE hot'[v][j] = e
      <4>1. e.ref = Sink(i) /\ e.obj = o
        OBVIOUS
      <4>2. heap[e.obj].chunks = due[e.ref[1]][e.ref[2]] /\ e.ref[2] <= client[e.ref[1]].sent
        BY <1>2, <1>7, <4>1
      <4> HIDE DEF e
      <4> QED
        BY <3>1, <4>2 DEF EntryOK
    <3>2. CASE \E k \in DOMAIN hot[v] : hot'[v][j] = hot[v][k]
      BY <3>2 DEF ExactInv, HotOK
    <3> QED
      BY <1>15, <3>1, <3>2
  <2> QED
    BY <1>1, <1>6, <2>1, <2>2 DEF EntryOK
<1>17. OneHolder'
  <2>1. \A v \in Workers : HotObjects(hot'[v]) \subseteq
                             HotObjects(hot[v]) \cup (IF v = w THEN {o} ELSE {})
    BY <1>15 DEF HotObjects
  <2>2. \A v \in Workers : NoTwice(hot'[v])
    BY <1>8, <1>9 DEF ExactInv, OneHolder
  <2>3. \A v \in Workers : o \notin HotObjects(hot[v]) /\ None \notin HotObjects(hot[v])
    BY EntriesOf, Numbers DEF ExactInv, OneHolder, TypeInv, HotObjects
  <2>4. /\ attempt'[i].obj = None
        /\ \A j \in Slots \ {i} : attempt'[j].obj = attempt[j].obj /\ attempt[j].obj # o
    <3>1. attempt'[i].obj = None
      BY <1>3, <1>5 DEF Idle
    <3>2. \A j \in Slots \ {i} : attempt[j].obj # o
      BY <1>2 DEF ExactInv, OneHolder
    <3> QED
      BY <1>5, <3>1, <3>2
  <2>5. \A v, u \in Workers : v # u => HotObjects(hot'[v]) \cap HotObjects(hot'[u]) = {}
    BY <2>1, <2>3 DEF ExactInv, OneHolder
  <2>6. \A j \in Slots, v \in Workers : attempt'[j].obj \notin HotObjects(hot'[v])
    <3>1. \A j \in Slots, v \in Workers : attempt[j].obj \notin HotObjects(hot[v])
      BY DEF ExactInv, OneHolder
    <3>2. \A v \in Workers : None \notin HotObjects(hot'[v])
      BY <1>2, <2>1, <2>3, Numbers
    <3> QED
      BY <2>1, <2>4, <3>1, <3>2
  <2>7. \A j, k \in Slots :
          attempt'[j].obj \in Objects /\ attempt'[j].obj = attempt'[k].obj => j = k
    BY <2>4, Numbers DEF ExactInv, OneHolder
  <2> QED
    BY <2>2, <2>5, <2>6, <2>7 DEF OneHolder
<1> QED
  BY <1>10, <1>11, <1>13, <1>14, <1>16, <1>17 DEF ExactInv

-------------------------------------------------------------------------------
(* Loads.                                                                  *)

\* An attempt may be given a state that nobody else has and that is what its
\* reference names.
LEMMA LoadsKeep ==
  ASSUME ExactInv, NEW i \in Slots, At(i, "load"), NEW o \in Objects, Loads(i, o),
         UNCHANGED <<client, due, utterance, retiring, faults>>,
         Fewer(tier, tier'), heap' \in [Objects -> States],
         hot' \in [Workers -> Seq(Entry)], \A w \in Workers : Len(hot'[w]) <= HotMax,
         HotFewer, \A w \in Workers : o \notin HotObjects(hot'[w]),
         heap'[o].chunks = Base(attempt[i].s, attempt[i].ref),
         \A j \in Slots \ {i} :
           /\ attempt[j].obj # o
           /\ attempt[j].obj \in Objects => heap'[attempt[j].obj] = heap[attempt[j].obj]
  PROVE  ExactInv'
<1> DEFINE a == attempt[i]
           b == [a EXCEPT !.pc = "put", !.obj = o]
<1>1. a \in AttemptRec /\ a.pc = "load" /\ AttemptOK(i)
  BY DEF ExactInv, TypeInv, At
<1>2. /\ b \in AttemptRec /\ b.pc = "put" /\ b.obj = o
      /\ b.s = a.s /\ b.mode = a.mode /\ b.ref = a.ref /\ b.sink = a.sink /\ b.w = a.w
  <2> HIDE DEF Content, States, Named
  <2> QED
    BY <1>1 DEF AttemptRec
<1>3. Goes(i, b)
  BY DEF Loads
<1> HIDE DEF b
<1>4. /\ attempt' \in [Slots -> AttemptRec] /\ attempt'[i] = b
      /\ \A j \in Slots \ {i} : attempt'[j] = attempt[j]
  BY <1>2, <1>3, GoesOne DEF ExactInv
<1>5. TypeInv'
  BY <1>4 DEF ExactInv, TypeInv
<1>6. Grows
  BY SentIsNamed DEF ExactInv, Grows
<1>7. TierOK'
  BY <1>5, <1>6, TierKept DEF ExactInv
<1>8. \A s \in Sessions : ClientOK(s)'
  BY <1>5, <1>6, ClientSame DEF ExactInv
<1>9. \A w \in Workers : HotOK(w)'
  BY <1>5, <1>6, HotSame DEF ExactInv
<1>10. AttemptOK(i)'
  <2>1. heap'[o].chunks = IF a.ref = 0 THEN << >> ELSE due'[a.s][a.ref]
    BY DEF Base
  <2>2. a.mode = "push" => /\ a.sink \in Seqs
                           /\ due'[a.s][a.sink] =
                                Append(IF a.ref = 0 THEN << >> ELSE due'[a.s][a.ref], a.sink)
    BY <1>1 DEF AttemptOK, Base
  <2>3. /\ a.s \in Sessions /\ a.w \in Workers /\ a.mode \in {"push", "flush"}
        /\ a.ref <= client'[a.s].sent /\ a.sink <= client'[a.s].sent
    BY <1>1 DEF AttemptOK
  <2> QED
    BY <1>2, <1>4, <2>1, <2>2, <2>3 DEF AttemptOK, Base
<1>11. \A j \in Slots \ {i} : Continues(j)
  BY <1>4 DEF Continues
<1>12. \A j \in Slots : AttemptOK(j)'
  BY <1>5, <1>6, <1>10, <1>11, AttemptSame DEF ExactInv
<1>13. OneHolder'
  <2>1. \A w \in Workers : HotObjects(hot'[w]) \subseteq HotObjects(hot[w])
    BY DEF HotFewer, Among, HotObjects
  <2>2. /\ attempt'[i].obj = o
        /\ \A j \in Slots \ {i} : attempt'[j].obj = attempt[j].obj
    BY <1>2, <1>4
  <2>3. \A j, k \in Slots :
          attempt'[j].obj \in Objects /\ attempt'[j].obj = attempt'[k].obj => j = k
    BY <2>2 DEF ExactInv, OneHolder
  <2>4. \A j \in Slots, w \in Workers : attempt'[j].obj \notin HotObjects(hot'[w])
    BY <2>1, <2>2 DEF ExactInv, OneHolder
  <2>5. \A w, v \in Workers : w # v => HotObjects(hot'[w]) \cap HotObjects(hot'[v]) = {}
    BY <2>1 DEF ExactInv, OneHolder
  <2> QED
    BY <2>3, <2>4, <2>5 DEF OneHolder, HotFewer
<1> QED
  BY <1>5, <1>7, <1>8, <1>9, <1>12, <1>13 DEF ExactInv

\* A state begun on an object nobody has.
LEMMA NewKeeps ==
  ASSUME ExactInv, NEW i \in Slots, At(i, "load"), Objects \ Owned # {},
         Loads(i, NewObject), NEW x, x \in States,
         x.chunks = Base(attempt[i].s, attempt[i].ref),
         HeapBecomes([heap EXCEPT ![NewObject] = x]),
         UNCHANGED <<client, hot, due, utterance, retiring, faults>>,
         Fewer(tier, tier')
  PROVE  ExactInv'
<1>1. PICK o \in Objects : o = NewObject /\ o \notin Owned
  BY DEF NewObject
<1> DEFINE h == [heap EXCEPT ![o] = x]
<1>2. /\ h \in [Objects -> States] /\ h[o] = x
      /\ \A y \in Objects \ {o} : h[y] = heap[y]
  <2> HIDE DEF Content, States
  <2> QED
    BY <1>1 DEF ExactInv, TypeInv
<1>3. HeapBecomes(h)
  BY <1>1
<1> HIDE DEF h
<1>4. heap' \in [Objects -> States]
  BY <1>2, <1>3, HeapIsTyped
<1>5. /\ \A j \in Slots : attempt[j].obj # o
      /\ \A w \in Workers : o \notin HotObjects(hot[w])
  <2> DEFINE cached == UNION {HotObjects(hot[w]) : w \in Workers}
             worked == {attempt[j].obj : j \in Slots}
  <2>1. /\ \A j \in Slots : attempt[j].obj \in worked
        /\ \A w \in Workers : HotObjects(hot[w]) \subseteq cached
    <3> HIDE DEF HotObjects
    <3> QED
      OBVIOUS
  <2>2. o \notin cached /\ o \notin worked
    BY <1>1 DEF Owned
  <2> HIDE DEF cached, worked
  <2> QED
    BY <2>1, <2>2
<1>6. /\ attempt'[i].obj = o
      /\ \A j \in Slots \ {i} : attempt'[j].obj = attempt[j].obj
  BY <1>1 DEF Loads, Goes, ExactInv, TypeInv, AttemptRec
<1>7. heap'[o] = x
  BY <1>2, <1>3, <1>6, HeldIsKept
<1>8. \A j \in Slots \ {i} :
        attempt[j].obj \in Objects => heap'[attempt[j].obj] = heap[attempt[j].obj]
  BY <1>2, <1>3, <1>5, <1>6, HeldIsKept
<1>9. /\ hot' \in [Workers -> Seq(Entry)]
      /\ \A w \in Workers : hot'[w] \in Seq(Entry) /\ Len(hot'[w]) <= HotMax
  BY DEF ExactInv, TypeInv
<1>10. HotFewer
  <2> SUFFICES ASSUME NEW w \in Workers
               PROVE  /\ Among(hot'[w], hot[w]) /\ NoTwice(hot'[w])
                      /\ \A j \in DOMAIN hot'[w] : heap'[hot'[w][j].obj] = heap[hot'[w][j].obj]
    BY DEF HotFewer
  <2>1. Among(hot'[w], hot[w]) /\ NoTwice(hot'[w])
    BY <1>9 DEF Among, ExactInv, OneHolder
  <2>2. ASSUME NEW j \in DOMAIN hot'[w]
        PROVE  heap'[hot'[w][j].obj] = heap[hot'[w][j].obj]
    <3>1. hot'[w][j].obj \in HotObjects(hot'[w]) /\ hot'[w][j].obj \in Objects
      BY <1>9, EntriesOf DEF HotObjects
    <3> QED
      BY <1>2, <1>3, <1>5, <3>1, HeldIsKept
  <2> QED
    BY <2>1, <2>2
<1> QED
  BY <1>1, <1>4, <1>5, <1>7, <1>8, <1>9, <1>10, LoadsKeep

LEMMA LoadFreshKeeps == ASSUME ExactInv, NEW i \in Slots, LoadFresh(i) PROVE ExactInv'
<1>1. NewState \in States /\ NewState.chunks = Base(attempt[i].s, attempt[i].ref)
  BY NewIsState DEF NewState, Base, LoadFresh
<1>2. Fewer(tier, tier')
  BY ReadsAreFewer DEF LoadFresh, ExactInv, TierOK
<1> QED
  BY <1>1, <1>2, NewKeeps DEF LoadFresh, history

\* A blob that is read is cut after its last chunk.
LEMMA ReadIsState ==
  \A y \in Blobs : Deserialized(y) \in States /\ Deserialized(y).chunks = y.chunks
<1> SUFFICES ASSUME NEW y \in Blobs
             PROVE  Deserialized(y) \in States /\ Deserialized(y).chunks = y.chunks
  OBVIOUS
<1>1. /\ y \in [chunks : Seq(Seqs), cuts : SUBSET Nat]
      /\ y.cuts \subseteq 1..Len(y.chunks) /\ y.chunks # << >>
  BY DEF Blobs, States, Content
<1> DEFINE n == Len(y.chunks)
<1>2. n \in Nat /\ n \in 1..n
  BY <1>1
<1>3. Deserialized(y) = [y EXCEPT !.cuts = y.cuts \cup {n}]
  BY DEF Deserialized
<1> HIDE DEF n
<1>4. /\ Deserialized(y) \in [chunks : Seq(Seqs), cuts : SUBSET Nat]
      /\ Deserialized(y).chunks = y.chunks /\ Deserialized(y).cuts = y.cuts \cup {n}
  BY <1>1, <1>2, <1>3
<1>5. y.cuts \cup {n} \subseteq 1..n
  BY <1>1, <1>2 DEF n
<1> QED
  BY <1>4, <1>5 DEF States, Content, n

LEMMA LoadFromTierKeeps ==
  ASSUME ExactInv, NEW i \in Slots, LoadFromTier(i) PROVE ExactInv'
<1> DEFINE a == attempt[i]
           y == tier.m[Key(i)].blob
           x == Deserialized(y)
<1>1. a.pc = "load" /\ a.ref \in Seqs /\ a.s \in Sessions /\ Key(i) \in Versions(tier)
  BY Numbers DEF LoadFromTier, At, Found, ExactInv, AttemptOK, TypeInv, AttemptRec, Named
<1>2. y \in Blobs /\ y.chunks = due[a.s][a.ref]
  BY <1>1 DEF ExactInv, TierOK, VersionOK, Key
<1>3. x \in States /\ x.chunks = Base(a.s, a.ref)
  <2>1. a.ref # 0
    BY <1>1, Numbers
  <2> HIDE DEF y
  <2> QED
    BY <1>2, <2>1, ReadIsState DEF Base
<1>4. Fewer(tier, tier')
  BY ReadsAreFewer DEF LoadFromTier, ExactInv, TierOK
<1>5. hot' = hot
  BY DEF LoadFromTier, Fetched, ExactInv, TypeInv
<1> QED
  BY <1>3, <1>4, <1>5, NewKeeps DEF LoadFromTier, history

\* A hit is taken out of the cache, so it has one holder again.
LEMMA LoadHotKeeps == ASSUME ExactInv, NEW i \in Slots, LoadHot(i) PROVE ExactInv'
<1> DEFINE a == attempt[i]
           w == a.w
           k == HotIndex(hot[w], Key(i))
           o == hot[w][k].obj
           g == HotTake(hot[w], Key(i))
<1>1. /\ a.pc = "load" /\ a.ref \in Seqs /\ a.s \in Sessions /\ w \in Workers
      /\ Key(i) \in HotRefs(hot[w])
  BY Numbers DEF LoadHot, IsHot, At, ExactInv, AttemptOK, TypeInv, AttemptRec, Named
<1>2. /\ hot' = [hot EXCEPT ![w] = g] /\ Loads(i, o) /\ heap' = heap
      /\ UNCHANGED <<client, tier, retiring, due, utterance, faults>>
  BY DEF LoadHot, history
<1>3. hot[w] \in Seq(Entry) /\ Len(hot[w]) <= HotMax /\ NoTwice(hot[w]) /\ Len(hot[w]) \in Nat
  BY <1>1 DEF ExactInv, TypeInv, OneHolder
<1>4. /\ k \in DOMAIN hot[w] /\ hot[w][k].ref = Key(i)
      /\ Among(g, hot[w]) /\ Len(g) = Len(hot[w]) - 1
      /\ NoTwice(g) /\ o \notin HotObjects(g)
  BY <1>1, <1>3, TakeLeaves
<1>5. o \in Objects /\ o \in HotObjects(hot[w])
  BY <1>3, <1>4, EntriesOf DEF HotObjects
<1>6. heap[o].chunks = Base(a.s, a.ref)
  <2>1. EntryOK(hot[w][k])
    BY <1>1, <1>4 DEF ExactInv, HotOK
  <2>2. Key(i)[1] = a.s /\ Key(i)[2] = a.ref
    BY DEF Key
  <2> QED
    BY <1>1, <1>4, <2>1, <2>2, Numbers DEF EntryOK, Base
<1> HIDE DEF k, o, g
<1>7. /\ hot' \in [Workers -> Seq(Entry)] /\ hot'[w] = g
      /\ \A v \in Workers \ {w} : hot'[v] = hot[v]
  <2> HIDE DEF Entry
  <2> QED
    BY <1>1, <1>2, <1>4 DEF ExactInv, TypeInv, Among
<1>8. \A v \in Workers : /\ Among(hot'[v], hot[v]) /\ NoTwice(hot'[v])
                         /\ Len(hot'[v]) <= HotMax
  <2> SUFFICES ASSUME NEW v \in Workers
               PROVE  /\ Among(hot'[v], hot[v]) /\ NoTwice(hot'[v])
                      /\ Len(hot'[v]) <= HotMax
    OBVIOUS
  <2>1. CASE v = w
    BY <1>3, <1>4, <1>7, <2>1, TierAssumption DEF TierAssumption
  <2>2. CASE v # w
    BY <1>7, <2>2 DEF ExactInv, TypeInv, OneHolder, Among
  <2> QED
    BY <2>1, <2>2
<1>9. HotFewer
  BY <1>2, <1>8 DEF HotFewer
<1>10. \A v \in Workers : o \notin HotObjects(hot'[v])
  BY <1>1, <1>4, <1>5, <1>7 DEF ExactInv, OneHolder
<1>11. \A j \in Slots \ {i} : attempt[j].obj # o
  BY <1>1, <1>5 DEF ExactInv, OneHolder
<1>12. Fewer(tier, tier') /\ heap' \in [Objects -> States]
  BY <1>2, ReadsAreFewer DEF ExactInv, TierOK, TypeInv
<1> QED
  BY <1>1, <1>2, <1>5, <1>6, <1>7, <1>8, <1>9, <1>10, <1>11, <1>12, LoadsKeep DEF At

-------------------------------------------------------------------------------
(* The theorems.                                                           *)

LEMMA ExactInit == Init => ExactInv
<1> SUFFICES ASSUME Init
             PROVE  ExactInv
  OBVIOUS
<1>1. << >> \in Content /\ << >> \in Seq(Entry)
  BY DEF Content
<1>2. TypeInv
  <2>1. NewClient \in ClientRec
    <3> HIDE DEF Content, States, Named
    <3> QED
      BY NewIsState, Numbers DEF NewClient, ClientRec
  <2>2. heap \in [Objects -> States] /\ due \in [Sessions -> [Seqs -> Content]]
        /\ utterance \in [Sessions -> Content] /\ hot \in [Workers -> Seq(Entry)]
    <3> HIDE DEF Content, States, Entry
    <3> QED
      BY <1>1, NewIsState DEF Init
  <2>3. \A w \in Workers : Len(hot[w]) <= HotMax
    BY TierAssumption DEF Init, TierAssumption
  <2> HIDE DEF ClientRec, AttemptRec, Content, States, Entry
  <2> QED
    BY <2>1, <2>2, <2>3, IdleIsAttempt, Numbers DEF Init, TypeInv
<1>3. TierOK
  BY DEF Init, TierOK, Tierlike, EmptyTier, Versions
<1>4. OneHolder
  BY Numbers DEF Init, OneHolder, NoTwice, HotObjects, Idle
<1>5. \A s \in Sessions : ClientOK(s)
  BY DEF Init, ClientOK, NewClient
<1>6. \A i \in Slots : AttemptOK(i)
  BY Numbers DEF Init, AttemptOK, Idle
<1>7. \A w \in Workers : HotOK(w)
  BY DEF Init, HotOK
<1> QED
  BY <1>2, <1>3, <1>4, <1>5, <1>6, <1>7 DEF ExactInv

LEMMA ExactNext == ExactInv /\ [Next]_vars => ExactInv'
<1> SUFFICES ASSUME ExactInv, [Next]_vars
             PROVE  ExactInv'
  OBVIOUS
<1>1. CASE UNCHANGED vars
  <2>1. UNCHANGED <<client, attempt, hot, heap, tier, retiring, due, utterance, faults>>
    BY <1>1 DEF vars, history
  <2>2. TypeInv'
    BY <2>1 DEF ExactInv, TypeInv
  <2>3. Grows
    BY <2>1, SentIsNamed DEF ExactInv, Grows
  <2>4. TierOK'
    BY <2>1, <2>2, <2>3, TierKept, ReadsAreFewer DEF ExactInv, TierOK
  <2>5. HotFewer
    BY <2>1, SameHot DEF ExactInv
  <2>6. \A i \in Slots : Continues(i) /\ attempt'[i].obj \in {attempt[i].obj, None}
    BY <2>1 DEF Continues
  <2>7. \A i \in Slots : AttemptOK(i)'
    BY <2>2, <2>3, <2>6, AttemptSame DEF ExactInv
  <2>8. \A s \in Sessions : ClientOK(s)'
    BY <2>1, <2>2, <2>3, ClientSame DEF ExactInv
  <2> QED
    BY <2>2, <2>3, <2>4, <2>5, <2>6, <2>7, <2>8, Quiet
<1>2. ASSUME NEW s \in Sessions, SessionSteps(s)
      PROVE  ExactInv'
  BY <1>2, StartKeeps, MovesOnKeeps, CallFailsKeeps, RenewKeeps, TearDownKeeps, RouteKeeps,
     PushKeeps, AnswerKeeps DEF SessionSteps
<1>3. ASSUME NEW i \in Slots, Serve(i) \/ GivesUp(i)
      PROVE  ExactInv'
  BY <1>3, LoadFreshKeeps, LoadHotKeeps, LoadFromTierKeeps, ComesToNothingKeeps, PublishKeeps,
     PublishUnavailableKeeps, FinalizeKeeps, FileKeeps DEF Serve
<1>4. CASE StoreSteps
  BY <1>4, TierLosesKeeps, WorkerRestartsKeeps DEF StoreSteps
<1> QED
  BY <1>1, <1>2, <1>3, <1>4 DEF Next

\* Whatever is retried, lost, evicted or restarted, a version in the tier or
\* in a hot cache is the state its name promises.
THEOREM VersionsAlwaysExact == Spec => []VersionsAreExact
<1>1. ExactInv => VersionsAreExact
  BY DEF ExactInv, VersionsAreExact, TierOK, VersionOK, HotOK, EntryOK
<1> QED
  BY <1>1, ExactInit, ExactNext, PTL DEF Spec

\* The hot caches stay within their bound, and only named versions are stored,
\* filed or retired.
THEOREM StatelessTypes == Spec => []TypeOK
<1>1. ExactInv => TypeOK
  <2> SUFFICES ASSUME ExactInv
               PROVE  TypeOK
    OBVIOUS
  <2>1. \A s \in Sessions :
          /\ client[s].pc \in {"off", "idle", "push", "flush", "flushed", "ended", "gone"}
          /\ client[s].applied \in Seqs \cup {0} /\ client[s].text \in States
    BY DEF ExactInv, TypeInv, ClientRec, Named
  <2>2. \A i \in Slots : attempt[i].pc \in {"free", "load", "put", "file", "done"}
    BY DEF ExactInv, TypeInv, AttemptRec
  <2>3. \A w \in Workers : Len(hot[w]) <= HotMax /\ HotRefs(hot[w]) \subseteq Refs
    BY EntriesOf DEF ExactInv, TypeInv, HotRefs
  <2>4. DOMAIN heap = Objects /\ \A o \in Objects : heap[o] \in States
    BY DEF ExactInv, TypeInv
  <2>5. Versions(tier) \subseteq Refs /\ retiring \subseteq Refs /\ faults \in 0..MaxFaults
    BY DEF ExactInv, TypeInv, TierOK, VersionOK
  <2> QED
    BY <2>1, <2>2, <2>3, <2>4, <2>5 DEF TypeOK
<1> QED
  BY <1>1, ExactInit, ExactNext, PTL DEF Spec

-------------------------------------------------------------------------------
(* The tier's books.                                                       *)

\* Each version is on the recency list once, and is counted once.
Books(t) ==
  /\ Tierlike(t)
  /\ t.lru \in Seq(Refs) /\ Distinct(t.lru) /\ Elements(t.lru) = Versions(t)
  /\ t.bytes = BlobSize * Len(t.lru)
BooksFit(t) == Books(t) /\ t.bytes <= MaxBytes

LEMMA Sizes == BlobSize \in Nat \ {0} /\ MaxBytes \in Nat
BY TierAssumption DEF TierAssumption

LEMMA Products ==
  ASSUME NEW a \in Nat, NEW b \in Nat, b <= a
  PROVE  /\ BlobSize * (a - b) = BlobSize * a - BlobSize * b
         /\ BlobSize * a \in Nat /\ BlobSize * b <= BlobSize * a
<1> DEFINE z == BlobSize
<1>1. z \in Nat
  BY Sizes
<1> HIDE DEF z
<1>2. z * (a - b) = z * a - z * b
  BY <1>1
<1>3. z * a \in Nat /\ z * (a - b) \in Nat /\ z * b \in Nat
  BY <1>1
<1> QED
  BY <1>2, <1>3 DEF z

LEMMA OneMoreBlob ==
  ASSUME NEW a \in Nat
  PROVE  BlobSize * (a + 1) = BlobSize * a + BlobSize /\ BlobSize * a \in Nat
<1> DEFINE z == BlobSize
<1>1. z \in Nat
  BY Sizes
<1> HIDE DEF z
<1>2. z * (a + 1) = z * a + z /\ z * a \in Nat
  BY <1>1
<1> QED
  BY <1>2 DEF z

\* The versions of a tier are finitely many.
LEMMA CountedOnce ==
  ASSUME NEW t, Books(t)
  PROVE  /\ IsFiniteSet(Versions(t)) /\ Cardinality(Versions(t)) = Len(t.lru)
         /\ Len(t.lru) \in Nat
BY DistinctCount, LenProperties DEF Books

\* Versions leave the map, the list and the count together.
LEMMA WithoutBalances ==
  ASSUME NEW t, Books(t), NEW gone
  PROVE  /\ Books(Without(t, gone)) /\ Versions(Without(t, gone)) = Versions(t) \ gone
         /\ Without(t, gone).bytes <= t.bytes
         /\ Without(t, gone).bytes = BlobSize * Cardinality(Versions(t) \ gone)
<1> DEFINE u == Without(t, gone)
           l == Dropping(t.lru, gone)
           V == Versions(t)
           n == Len(t.lru)
           m == Cardinality(gone \cap V)
<1>1. /\ u.lru = l /\ Versions(u) = V \ gone /\ u.bytes = t.bytes - BlobSize * m
      /\ Tierlike(u)
  BY DEF Without, Versions, Books, Tierlike
<1>2. l \in Seq(Refs) /\ Distinct(l) /\ Elements(l) = V \ gone
  BY DroppingSelects, DroppingRange, DroppingDistinct DEF Books
<1>3. /\ IsFiniteSet(V) /\ Cardinality(V) = n /\ n \in Nat
      /\ Len(l) \in Nat /\ Cardinality(V \ gone) = Len(l)
  BY <1>2, CountedOnce, DistinctCount, LenProperties
<1>4. Len(l) = n - m /\ m \in Nat /\ m <= n
  <2>1. Cardinality(V \ gone) = Cardinality(V) - Cardinality(V \cap gone)
    BY <1>3, FS_Difference
  <2>2. V \cap gone = gone \cap V
    OBVIOUS
  <2>3. IsFiniteSet(gone \cap V)
    BY <1>3, FS_Intersection
  <2>4. m \in Nat
    BY <2>3, FS_CardinalityType
  <2>5. Cardinality(V \cap gone) = m
    BY <2>2
  <2> HIDE DEF V, l, n, m
  <2> QED
    BY <1>3, <2>1, <2>4, <2>5
<1>5. t.bytes = BlobSize * n
  BY DEF Books
<1> HIDE DEF u, l, V, n, m
<1>6. u.bytes = BlobSize * Len(l) /\ u.bytes <= t.bytes
  <2>1. BlobSize * (n - m) = BlobSize * n - BlobSize * m
    BY <1>3, <1>4, Products
  <2>2. BlobSize * n \in Nat /\ BlobSize * m \in Nat
    BY <1>3, <1>4, Products
  <2> QED
    BY <1>1, <1>4, <1>5, <2>1, <2>2
<1>7. Books(u)
  BY <1>1, <1>2, <1>6 DEF Books
<1> QED
  BY <1>1, <1>3, <1>6, <1>7 DEF u, V

\* An element that is not in a list goes in front of it.
LEMMA PushedInFront ==
  ASSUME NEW A, NEW s \in Seq(A), NEW x \in A, x \notin Elements(s), Distinct(s)
  PROVE  LET r == << x >> \o s
         IN  /\ r \in Seq(A) /\ Distinct(r) /\ Elements(r) = Elements(s) \cup {x}
             /\ Len(r) = Len(s) + 1 /\ r[1] = x
<1> DEFINE r == << x >> \o s
<1>1. /\ Len(s) \in Nat /\ r \in Seq(A) /\ Len(r) = Len(s) + 1 /\ r[1] = x
      /\ \A i \in 1..Len(s) : r[i + 1] = s[i]
  <2>1. Len(s) \in Nat /\ << x >> \in Seq(A) /\ Len(<< x >>) = 1 /\ << x >>[1] = x
    BY LenProperties
  <2>2. /\ r \in Seq(A) /\ Len(r) = 1 + Len(s)
        /\ \A i \in 1..1 + Len(s) : r[i] = IF i <= 1 THEN << x >>[i] ELSE s[i - 1]
    BY <2>1, ConcatProperties
  <2> HIDE DEF r
  <2>3. ASSUME NEW i \in 1..Len(s) PROVE r[i + 1] = s[i]
    <3>1. i + 1 \in 1..1 + Len(s) /\ ~(i + 1 <= 1) /\ (i + 1) - 1 = i
      BY <2>1
    <3> QED
      BY <2>2, <3>1
  <2> QED
    BY <2>1, <2>2, <2>3
<1> HIDE DEF r
<1>2. \A i \in 1..Len(r) : i # 1 => i - 1 \in 1..Len(s) /\ r[i] = s[i - 1]
  <2> SUFFICES ASSUME NEW i \in 1..Len(r), i # 1
               PROVE  i - 1 \in 1..Len(s) /\ r[i] = s[i - 1]
    OBVIOUS
  <2>1. i - 1 \in 1..Len(s) /\ (i - 1) + 1 = i
    BY <1>1
  <2>2. r[(i - 1) + 1] = s[i - 1]
    BY <1>1, <2>1
  <2> QED
    BY <2>1, <2>2
<1>3. \A i \in 1..Len(s) : s[i] # x /\ i + 1 \in 1..Len(r)
  BY <1>1 DEF Elements
<1>4. Distinct(r)
  <2> SUFFICES ASSUME NEW i \in 1..Len(r), NEW j \in 1..Len(r), r[i] = r[j]
               PROVE  i = j
    BY DEF Distinct
  <2>1. CASE i = 1 \/ j = 1
    <3>1. ASSUME NEW k \in 1..Len(r), k # 1 PROVE r[k] # x
      <4>1. r[k] = s[k - 1] /\ k - 1 \in 1..Len(s)
        BY <1>2, <3>1
      <4> QED
        BY <1>3, <4>1
    <3>2. r[1] = x
      BY <1>1
    <3> QED
      BY <2>1, <3>1, <3>2
  <2>2. CASE i # 1 /\ j # 1
    <3>1. i - 1 = j - 1
      BY <1>2, <2>2 DEF Distinct
    <3> QED
      BY <1>1, <3>1
  <2> QED
    BY <2>1, <2>2
<1>5. Elements(r) = Elements(s) \cup {x}
  <2>1. ASSUME NEW y \in Elements(r) PROVE y \in Elements(s) \cup {x}
    <3>1. PICK i \in 1..Len(r) : y = r[i]
      BY DEF Elements
    <3> QED
      BY <1>1, <1>2, <3>1 DEF Elements
  <2>2. 1 \in 1..Len(r)
    BY <1>1
  <2>3. x \in Elements(r)
    BY <1>1, <2>2 DEF Elements
  <2>4. ASSUME NEW y \in Elements(s) PROVE y \in Elements(r)
    <3>1. PICK i \in 1..Len(s) : y = s[i]
      BY DEF Elements
    <3>2. i + 1 \in 1..Len(r) /\ r[i + 1] = y
      BY <1>1, <1>3, <3>1
    <3> QED
      BY <3>2 DEF Elements
  <2> QED
    BY <2>1, <2>3, <2>4
<1> QED
  BY <1>1, <1>4, <1>5 DEF r

LEMMA StoredBalances ==
  ASSUME NEW t, Books(t), NEW key \in Refs, NEW blob
  PROVE  LET u == Stored(t, key, blob)
         IN  /\ Books(u) /\ Versions(u) = Versions(t) \cup {key}
             /\ Len(u.lru) > 0 /\ u.lru[1] = key
<1> DEFINE w == Without(t, {key})
           u == Stored(t, key, blob)
<1>1. Books(w) /\ Versions(w) = Versions(t) \ {key}
  BY WithoutBalances
<1>2. u = [m     |-> [k \in Versions(w) \cup {key} |->
                        IF k = key THEN [blob |-> blob, old |-> FALSE] ELSE w.m[k]],
           lru   |-> << key >> \o w.lru,
           bytes |-> w.bytes + BlobSize]
  BY DEF Stored
<1> HIDE DEF w, u
<1>3. /\ u.lru = << key >> \o w.lru /\ u.bytes = w.bytes + BlobSize
      /\ Versions(u) = Versions(w) \cup {key} /\ Tierlike(u)
  BY <1>1, <1>2 DEF Versions, Tierlike, Books
<1>4. w.lru \in Seq(Refs) /\ Distinct(w.lru) /\ Elements(w.lru) = Versions(w)
      /\ w.bytes = BlobSize * Len(w.lru) /\ Len(w.lru) \in Nat
  BY <1>1, CountedOnce DEF Books
<1>5. key \notin Elements(w.lru)
  BY <1>1, <1>4
<1>6. /\ u.lru \in Seq(Refs) /\ Distinct(u.lru)
      /\ Elements(u.lru) = Elements(w.lru) \cup {key}
      /\ Len(u.lru) = Len(w.lru) + 1 /\ u.lru[1] = key
  BY <1>3, <1>4, <1>5, PushedInFront
<1>7. u.bytes = BlobSize * Len(u.lru)
  BY <1>3, <1>4, <1>6, OneMoreBlob
<1>8. Books(u)
  BY <1>3, <1>4, <1>6, <1>7 DEF Books
<1>9. Versions(u) = Versions(t) \cup {key} /\ Len(u.lru) > 0
  BY <1>1, <1>3, <1>4, <1>6
<1> QED
  BY <1>6, <1>8, <1>9 DEF u

\* What fits is a beginning of the list, as long as may be.
LEMMA KeptFits ==
  ASSUME NEW t, Books(t)
  PROVE  /\ Kept(t) \in 0..Len(t.lru) /\ BlobSize * Kept(t) <= MaxBytes
         /\ Len(t.lru) > 0 /\ BlobSize <= MaxBytes => Kept(t) > 0
<1> DEFINE n == Len(t.lru)
           F == Fitting(t)
<1>1. n \in Nat /\ t.bytes = BlobSize * n /\ BlobSize \in Nat /\ MaxBytes \in Nat
  BY CountedOnce, Sizes DEF Books
<1>2. \A k \in 0..n : k \in F <=> BlobSize * k <= MaxBytes
  <2> SUFFICES ASSUME NEW k \in 0..n PROVE k \in F <=> BlobSize * k <= MaxBytes
    OBVIOUS
  <2> DEFINE x == BlobSize * n
             y == BlobSize * k
  <2>1. BlobSize * (n - k) = x - y /\ x \in Nat /\ y \in Nat
    <3> HIDE DEF n
    <3>1. k \in Nat /\ k <= n
      BY <1>1
    <3> QED
      BY <1>1, <3>1, Products, OneMoreBlob
  <2>2. t.bytes - BlobSize * (n - k) = y
    <3>1. t.bytes = x
      BY <1>1
    <3> HIDE DEF x, y
    <3> QED
      BY <2>1, <3>1
  <2> QED
    BY <2>2 DEF Fitting
<1>3. F \subseteq 0..n
  BY DEF Fitting
<1>4. 0 \in F
  BY <1>1, <1>2
<1>5. PICK k \in F : \A i \in F : i <= k
  <2> DEFINE T == {n - i : i \in F}
  <2>1. T \subseteq Nat /\ T # {}
    BY <1>1, <1>3, <1>4
  <2>2. PICK d \in T : \A e \in T : d <= e
    <3> HIDE DEF T
    <3> QED
      BY <2>1, LeastNatural
  <2>3. PICK k \in F : d = n - k
    BY <2>2
  <2>4. \A i \in F : n - k <= n - i
    BY <2>2, <2>3
  <2> HIDE DEF F
  <2>5. \A i \in F : i <= k
    BY <1>1, <1>3, <2>4
  <2> QED
    BY <2>5
<1>6. Kept(t) \in F /\ \A i \in F : i <= Kept(t)
  BY <1>4, <1>5 DEF Kept
<1> HIDE DEF n, F
<1>7. Kept(t) \in 0..n /\ BlobSize * Kept(t) <= MaxBytes
  BY <1>2, <1>3, <1>6
<1>8. ASSUME n > 0, BlobSize <= MaxBytes PROVE Kept(t) > 0
  <2>1. 1 \in 0..n /\ BlobSize * 1 = BlobSize
    BY <1>1, <1>8
  <2>2. 1 \in F
    BY <1>2, <1>8, <2>1
  <2> QED
    BY <1>1, <1>6, <1>7, <2>2
<1> QED
  BY <1>7, <1>8 DEF n

\* The cold end is evicted down to the ceiling, and a version that is not too
\* big for it is not evicted by its own arrival.
LEMMA PutBalances ==
  ASSUME NEW t, Books(t), NEW key \in Refs, NEW blob
  PROVE  /\ BooksFit(Put(t, key, blob))
         /\ BlobSize <= MaxBytes => key \in Versions(Put(t, key, blob))
<1> DEFINE u == Stored(t, key, blob)
           v == Without(u, Evicted(u))
           K == Kept(u)
           n == Len(u.lru)
<1>1. /\ Books(u) /\ Versions(u) = Versions(t) \cup {key} /\ n > 0 /\ u.lru[1] = key
  BY StoredBalances
<1>2. v = Put(t, key, blob)
  BY DEF Put
<1> HIDE DEF u
<1>3. /\ u.lru \in Seq(Refs) /\ Distinct(u.lru) /\ Elements(u.lru) = Versions(u)
      /\ n \in Nat
  BY <1>1, CountedOnce DEF Books
<1>4. /\ Books(v) /\ Versions(v) = Versions(u) \ Evicted(u)
      /\ v.bytes = BlobSize * Cardinality(Versions(u) \ Evicted(u))
  BY <1>1, WithoutBalances
<1>5. K \in 0..n /\ BlobSize * K <= MaxBytes /\ (BlobSize <= MaxBytes => K > 0)
  BY <1>1, KeptFits
<1>6. Versions(u) \ Evicted(u) = {u.lru[i] : i \in 1..K}
  <2>1. Evicted(u) = {u.lru[i] : i \in K + 1..n}
    BY DEF Evicted
  <2>2. Versions(u) = {u.lru[i] : i \in 1..n}
    BY <1>3 DEF Elements
  <2> HIDE DEF K, n
  <2>3. \A i \in 1..n : i \in 1..K \/ i \in K + 1..n
    BY <1>3, <1>5
  <2>4. \A i \in 1..K : i \in 1..n /\ \A j \in K + 1..n : i # j /\ j \in 1..n
    BY <1>3, <1>5
  <2>5. \A i \in 1..K, j \in K + 1..n : u.lru[i] # u.lru[j]
    BY <1>3, <2>4 DEF Distinct, n
  <2> QED
    BY <2>1, <2>2, <2>3, <2>4, <2>5
<1>7. Cardinality({u.lru[i] : i \in 1..K}) = K
  BY <1>3, <1>5, DistinctCount
<1>8. v.bytes <= MaxBytes
  BY <1>4, <1>5, <1>6, <1>7
<1>9. ASSUME BlobSize <= MaxBytes PROVE key \in Versions(v)
  <2>1. 1 \in 1..K
    BY <1>5, <1>9
  <2> QED
    BY <1>1, <1>4, <1>6, <2>1
<1> QED
  BY <1>2, <1>4, <1>8, <1>9 DEF BooksFit

\* What is read moves to the front, or is taken out when it is too old.
LEMMA GetBalances ==
  ASSUME NEW t, BooksFit(t), NEW key
  PROVE  /\ BooksFit(AfterGet(t, key))
         /\ \A k \in Versions(t) : Found(t, k) => k \in Versions(AfterGet(t, key))
<1>1. CASE Found(t, key)
  <2> DEFINE l == Dropping(t.lru, {key})
             u == AfterGet(t, key)
  <2>1. /\ u.lru = << key >> \o l /\ u.bytes = t.bytes /\ u.m = t.m /\ Tierlike(u)
        /\ Versions(u) = Versions(t)
    BY <1>1 DEF AfterGet, BooksFit, Books, Tierlike, Versions
  <2>2. t.lru \in Seq(Refs) /\ Distinct(t.lru) /\ Elements(t.lru) = Versions(t)
    BY DEF BooksFit, Books
  <2>3. key \in Versions(t) /\ key \in Refs
    <3>1. key \in Elements(t.lru)
      BY <1>1, <2>2 DEF Found
    <3> QED
      BY <2>2, <3>1, ElementOfSeq DEF Elements
  <2>4. l \in Seq(Refs) /\ Distinct(l) /\ Elements(l) = Versions(t) \ {key}
    BY <2>2, DroppingSelects, DroppingRange, DroppingDistinct
  <2> HIDE DEF l, u
  <2>5. /\ u.lru \in Seq(Refs) /\ Distinct(u.lru) /\ Elements(u.lru) = Elements(l) \cup {key}
    BY <2>1, <2>3, <2>4, PushedInFront
  <2>6. Elements(u.lru) = Versions(t)
    BY <2>3, <2>4, <2>5
  <2>7. Len(u.lru) = Cardinality(Versions(t)) /\ Len(t.lru) = Cardinality(Versions(t))
    BY <2>2, <2>5, <2>6, DistinctCount
  <2>8. u.bytes = BlobSize * Len(u.lru) /\ u.bytes <= MaxBytes
    BY <2>1, <2>7 DEF BooksFit, Books
  <2> QED
    BY <2>1, <2>5, <2>6, <2>8 DEF BooksFit, Books, u
<1>2. CASE ~Found(t, key)
  <2>1. AfterGet(t, key) = Without(t, {key})
    BY <1>2 DEF AfterGet
  <2>2. /\ Books(Without(t, {key})) /\ Versions(Without(t, {key})) = Versions(t) \ {key}
        /\ Without(t, {key}).bytes <= t.bytes
    BY WithoutBalances DEF BooksFit
  <2>3. Without(t, {key}).bytes <= MaxBytes
    <3>1. t.bytes \in Nat /\ Without(t, {key}).bytes \in Nat /\ t.bytes <= MaxBytes
      BY <2>2, CountedOnce, OneMoreBlob DEF BooksFit, Books
    <3> QED
      BY <2>2, <3>1, Sizes
  <2> QED
    BY <1>2, <2>1, <2>2, <2>3 DEF BooksFit
<1> QED
  BY <1>1, <1>2

\* Taking versions out leaves a tier within its ceiling.
LEMMA LosingFits ==
  ASSUME NEW t, BooksFit(t), NEW gone
  PROVE  BooksFit(Without(t, gone)) /\ Versions(Without(t, gone)) = Versions(t) \ gone
<1>1. /\ Books(Without(t, gone)) /\ Versions(Without(t, gone)) = Versions(t) \ gone
      /\ Without(t, gone).bytes <= t.bytes
  BY WithoutBalances DEF BooksFit
<1>2. t.bytes \in Nat /\ Without(t, gone).bytes \in Nat /\ t.bytes <= MaxBytes
  BY <1>1, CountedOnce, OneMoreBlob DEF BooksFit, Books
<1> QED
  BY <1>1, <1>2, Sizes DEF BooksFit

LEMMA AgedFits ==
  ASSUME NEW t, BooksFit(t), NEW key
  PROVE  BooksFit(Aged(t, key)) /\ Versions(Aged(t, key)) = Versions(t)
<1>1. Versions(Aged(t, key)) = Versions(t) /\ Tierlike(Aged(t, key))
  BY DEF BooksFit, Books, Tierlike, Aged, Versions
<1>2. Aged(t, key).lru = t.lru /\ Aged(t, key).bytes = t.bytes
  BY DEF BooksFit, Books, Tierlike, Aged
<1> QED
  BY <1>1, <1>2 DEF BooksFit, Books

LEMMA EmptyFits == BooksFit(EmptyTier)
<1>1. /\ EmptyTier.lru = << >> /\ EmptyTier.bytes = 0 /\ Versions(EmptyTier) = {}
      /\ Tierlike(EmptyTier)
  BY DEF EmptyTier, Versions, Tierlike
<1>2. << >> \in Seq(Refs) /\ Len(<< >>) = 0 /\ 1..0 = {}
  BY LenProperties
<1>3. Distinct(<< >>) /\ Elements(<< >>) = {}
  BY <1>2 DEF Distinct, Elements
<1>4. BlobSize * 0 = 0 /\ 0 <= MaxBytes
  BY Sizes
<1> QED
  BY <1>1, <1>2, <1>3, <1>4 DEF BooksFit, Books

-------------------------------------------------------------------------------
(* What the steps do to the tier, and to the versions on their way out.    *)

\* A version is retired only once a later one of its session is applied.
RetiringOK(s) ==
  LET c == client[s] IN
  /\ c.pc = "push" => c.applied < c.sent
  /\ \A k \in retiring : k[1] = s =>
       /\ k[2] <= c.sent
       /\ c.pc = "push" => k[2] < c.sent
       /\ c.applied # 0 => k[2] < c.applied

BooksInv == ExactInv /\ BooksFit(tier) /\ \A s \in Sessions : RetiringOK(s)

\* The ways a step changes the tier.
TierMoves ==
  \/ tier' = tier
  \/ \E s \in Sessions :
       /\ client[s].pc \in {"flushed", "ended"}
       /\ client[s].pc = "flushed" => client'[s].applied = 0
       /\ tier' = DeletePrefix(tier, s)
  \/ \E key \in retiring : client' = client /\ tier' = Delete(tier, key)
  \/ \E key \in Refs : tier' = AfterGet(tier, key)
  \/ \E key \in Refs : \E blob : tier' = PutIfAbsent(tier, key, blob)
  \/ \E key \in Refs : tier' = Aged(tier, key)
  \/ tier' = Sweep(tier)
  \/ tier' = EmptyTier /\ faults' # faults

LEMMA KeysAreRefs ==
  ASSUME ExactInv, NEW i \in Slots, attempt[i].pc # "free"
  PROVE  /\ attempt[i].ref > 0 => Key(i) \in Refs
         /\ attempt[i].mode = "push" => Sink(i) \in Refs
<1>1. attempt[i].s \in Sessions /\ attempt[i].ref \in Named
      /\ (attempt[i].mode = "push" => attempt[i].sink \in Seqs)
  BY DEF ExactInv, AttemptOK, TypeInv, AttemptRec
<1> QED
  BY <1>1 DEF Named, Key, Sink, Refs

LEMMA FaultCounts == ExactInv /\ Fault => faults' # faults
BY Numbers DEF ExactInv, TypeInv, Fault

LEMMA EveryTierMove == ASSUME ExactInv, [Next]_vars PROVE TierMoves
<1>1. CASE UNCHANGED vars
  BY <1>1 DEF vars, TierMoves
<1>2. ASSUME NEW s \in Sessions, SessionSteps(s) PROVE TierMoves
  <2>1. CASE Renew(s)
    <3>1. client[s].pc = "flushed" /\ tier' \in {tier, DeletePrefix(tier, s)}
      BY <2>1 DEF Renew, CloseEffects
    <3>2. client'[s].applied = 0
      <4>1. client'[s] = Opened(client[s]) /\ client[s] \in ClientRec
        BY <2>1 DEF Renew, Becomes, ExactInv, TypeInv
      <4> QED
        BY <4>1 DEF Opened, OpenedUnreset, ClientRec
    <3> QED
      BY <3>1, <3>2 DEF TierMoves
  <2>2. CASE TearDown(s)
    <3>1. client[s].pc = "ended" /\ tier' \in {tier, DeletePrefix(tier, s)}
      BY <2>2 DEF TearDown, CloseEffects
    <3> QED
      BY <3>1 DEF TierMoves
  <2>3. CASE ~Renew(s) /\ ~TearDown(s)
    <3>1. tier' = tier
      BY <1>2, <2>3 DEF SessionSteps, Start, Flush, CallFails, Leave, Route, Push,
         PushAnswered, FlushAnswered
    <3> QED
      BY <3>1 DEF TierMoves
  <2> QED
    BY <2>1, <2>2, <2>3
<1>3. ASSUME NEW i \in Slots, Serve(i) \/ GivesUp(i) PROVE TierMoves
  <2>1. CASE LoadFromTier(i) \/ Miss(i)
    <3>1. attempt[i].pc = "load" /\ attempt[i].ref > 0 /\ tier' = AfterGet(tier, Key(i))
      BY <2>1 DEF LoadFromTier, Miss, At
    <3> QED
      BY <3>1, KeysAreRefs DEF TierMoves
  <2>2. CASE Publish(i) \/ PublishUnavailable(i)
    <3>1. /\ attempt[i].pc = "put" /\ attempt[i].mode = "push"
          /\ tier' \in {tier, PutIfAbsent(tier, Sink(i), Inferred(i))}
      BY <2>2 DEF Publish, PublishUnavailable, At
    <3> QED
      BY <3>1, KeysAreRefs DEF TierMoves
  <2>3. CASE GivesUp(i) \/ LoadFresh(i) \/ LoadHot(i) \/ LoadUnavailable(i) \/ Finalize(i) \/ File(i)
    <3>1. tier' = tier
      BY <2>3 DEF GivesUp, LoadFresh, LoadHot, LoadUnavailable, Finalize, File
    <3> QED
      BY <3>1 DEF TierMoves
  <2> QED
    BY <1>3, <2>1, <2>2, <2>3 DEF Serve
<1>4. CASE StoreSteps
  <2>1. CASE SweepTick
    BY <2>1 DEF SweepTick, TierMoves
  <2>2. CASE TierRestarts
    BY <2>2, FaultCounts DEF TierRestarts, TierMoves
  <2>3. ASSUME NEW key \in retiring, Retire(key) PROVE TierMoves
    <3>1. client' = client /\ tier' \in {tier, Delete(tier, key)}
      BY <2>3 DEF Retire, RetireEffects
    <3> QED
      BY <3>1 DEF TierMoves
  <2>4. ASSUME NEW key \in Versions(tier), Age(key) PROVE TierMoves
    <3>1. key \in Refs /\ tier' = Aged(tier, key)
      BY <2>4 DEF ExactInv, TierOK, VersionOK, Age
    <3> QED
      BY <3>1 DEF TierMoves
  <2>5. ASSUME NEW w \in Workers, WorkerRestarts(w) PROVE TierMoves
    BY <2>5 DEF WorkerRestarts, TierMoves
  <2> QED
    BY <1>4, <2>1, <2>2, <2>3, <2>4, <2>5 DEF StoreSteps
<1> QED
  BY <1>1, <1>2, <1>3, <1>4 DEF Next

LEMMA BooksKept == ASSUME BooksFit(tier), TierMoves PROVE BooksFit(tier')
<1>1. ASSUME NEW s, tier' = DeletePrefix(tier, s) PROVE BooksFit(tier')
  BY <1>1, LosingFits DEF DeletePrefix
<1>2. ASSUME NEW key, tier' = Delete(tier, key) PROVE BooksFit(tier')
  BY <1>2, LosingFits DEF Delete
<1>3. ASSUME NEW key, tier' = AfterGet(tier, key) PROVE BooksFit(tier')
  BY <1>3, GetBalances
<1>4. ASSUME NEW key \in Refs, NEW blob, tier' = PutIfAbsent(tier, key, blob) PROVE BooksFit(tier')
  BY <1>4, PutBalances DEF PutIfAbsent, BooksFit
<1>5. ASSUME NEW key, tier' = Aged(tier, key) PROVE BooksFit(tier')
  BY <1>5, AgedFits
<1>6. ASSUME tier' = Sweep(tier) PROVE BooksFit(tier')
  BY <1>6, LosingFits DEF Sweep
<1> QED
  BY <1>1, <1>2, <1>3, <1>4, <1>5, <1>6, EmptyFits DEF TierMoves

\* A session's other steps leave its numbers alone, or let the number sent
\* or the pc move on.
Onward(s) ==
  /\ client[s].sent <= client'[s].sent
  /\ client'[s].applied \in {0, client[s].applied}
  /\ client'[s].pc = "push" => /\ client'[s].applied = client[s].applied
                               /\ \/ client[s].pc = "push" /\ client'[s].sent = client[s].sent
                                  \/ client[s].sent < client'[s].sent

LEMMA OnwardKeeps ==
  ASSUME ExactInv, ExactInv', NEW s \in Sessions, RetiringOK(s), Onward(s), retiring' \subseteq retiring
  PROVE  RetiringOK(s)'
<1> DEFINE c == client[s]
           d == client'[s]
<1>1. /\ c.sent \in Nat /\ c.applied \in Nat /\ d.sent \in Nat /\ d.applied \in Nat
      /\ c.applied <= c.sent
  BY SentIsNamed, Numbers DEF ExactInv, TypeInv, ClientRec, ClientOK
<1>2. \A k \in retiring : k[2] \in Nat
  BY RefsArePairs DEF ExactInv, TypeInv
<1>3. /\ c.pc = "push" => c.applied < c.sent
      /\ \A k \in retiring : k[1] = s =>
           /\ k[2] <= c.sent
           /\ c.pc = "push" => k[2] < c.sent
           /\ c.applied # 0 => k[2] < c.applied
  BY DEF RetiringOK
<1>4. /\ c.sent <= d.sent /\ d.applied \in {0, c.applied}
      /\ d.pc = "push" => /\ d.applied = c.applied
                          /\ \/ c.pc = "push" /\ d.sent = c.sent
                             \/ c.sent < d.sent
  BY DEF Onward
<1> HIDE DEF c, d
<1>5. d.pc = "push" => d.applied < d.sent
  BY <1>1, <1>3, <1>4
<1>6. ASSUME NEW k \in retiring', k[1] = s
      PROVE  /\ k[2] <= d.sent
             /\ d.pc = "push" => k[2] < d.sent
             /\ d.applied # 0 => k[2] < d.applied
  <2>1. /\ k[2] \in Nat /\ k[2] <= c.sent
        /\ c.pc = "push" => k[2] < c.sent
        /\ c.applied # 0 => k[2] < c.applied
    BY <1>2, <1>3, <1>6
  <2> QED
    BY <1>1, <1>4, <2>1
<1> QED
  BY <1>5, <1>6 DEF RetiringOK, c, d

LEMMA StaysOnward ==
  ASSUME ExactInv, NEW s \in Sessions, client'[s] = client[s]
  PROVE  Onward(s)
BY SentIsNamed DEF ExactInv, Onward

\* A session's step is of that session only, and but for an answered push it
\* retires nothing.
LEMMA SessionsMoveOnward ==
  ASSUME ExactInv, NEW s \in Sessions, SessionSteps(s)
  PROVE  /\ \A r \in Sessions \ {s} : client'[r] = client[r]
         /\ \/ Onward(s) /\ retiring' = retiring
            \/ \E i \in Slots : PushAnswered(s, i)
<1> DEFINE c == client[s]
           d == client'[s]
<1>1. c \in ClientRec /\ c.sent \in Nat /\ client \in [Sessions -> ClientRec]
  BY SentIsNamed DEF ExactInv, TypeInv
<1>2. CASE Start(s) \/ Renew(s)
  <2>1. Becomes(s, Opened(c)) /\ retiring' = retiring
    BY <1>2 DEF Start, Renew
  <2>2. d = Opened(c) /\ \A r \in Sessions \ {s} : client'[r] = client[r]
    BY <1>1, <2>1, OpenedIsNew, BecomesOne DEF ExactInv
  <2>3. d.pc = "idle" /\ d.applied = 0 /\ d.sent = c.sent
    BY <1>1, <2>2, OpenedIsNew
  <2> QED
    BY <1>1, <2>1, <2>2, <2>3 DEF Onward
<1>3. CASE Flush(s) \/ CallFails(s) \/ Leave(s) \/ TearDown(s)
  <2>1. /\ retiring' = retiring
        /\ \/ Becomes(s, [c EXCEPT !.pc = "flush", !.place = 0, !.tries = 0])
           \/ Becomes(s, [c EXCEPT !.pc = "ended"])
           \/ Becomes(s, [c EXCEPT !.pc = "gone"])
    BY <1>3 DEF Flush, CallFails, Leave, TearDown
  <2>2. \A r \in Sessions \ {s} : client'[r] = client[r]
    BY <1>1, <2>1 DEF Becomes
  <2>3. \/ d = [c EXCEPT !.pc = "flush", !.place = 0, !.tries = 0]
        \/ d = [c EXCEPT !.pc = "ended"]
        \/ d = [c EXCEPT !.pc = "gone"]
    BY <1>1, <2>1 DEF Becomes
  <2>4. d.pc # "push" /\ d.applied = c.applied /\ d.sent = c.sent
    <3> HIDE DEF c, d, Content, States, Named
    <3> QED
      BY <1>1, <2>3 DEF ClientRec
  <2> QED
    BY <1>1, <2>1, <2>2, <2>4 DEF Onward
<1>4. CASE Route(s)
  <2>1. PICK p \in {c.place, c.place + 1} \cap DOMAIN Chain[s] :
          Becomes(s, [c EXCEPT !.place = p, !.tries = @ + 1])
    BY <1>4 DEF Route
  <2>2. /\ d = [c EXCEPT !.place = p, !.tries = @ + 1] /\ retiring' = retiring
        /\ \A r \in Sessions \ {s} : client'[r] = client[r]
    BY <1>1, <1>4, <2>1 DEF Becomes, Route
  <2>3. d.pc = c.pc /\ d.applied = c.applied /\ d.sent = c.sent
    <3> HIDE DEF c, d, Content, States, Named
    <3> QED
      BY <1>1, <2>2 DEF ClientRec
  <2> QED
    BY <1>1, <2>2, <2>3 DEF Onward
<1>5. ASSUME NEW n \in Seqs, Push(s, n)
      PROVE  /\ \A r \in Sessions \ {s} : client'[r] = client[r]
             /\ Onward(s) /\ retiring' = retiring
  <2>1. /\ d = [c EXCEPT !.pc = "push", !.sent = n, !.place = 0, !.tries = 0]
        /\ retiring' = retiring /\ n > c.sent /\ n \in Nat
        /\ \A r \in Sessions \ {s} : client'[r] = client[r]
    BY <1>1, <1>5, Numbers DEF Becomes, Push
  <2>2. d.pc = "push" /\ d.applied = c.applied /\ d.sent = n
    <3> HIDE DEF c, d, Content, States, Named
    <3> QED
      BY <1>1, <2>1 DEF ClientRec
  <2> QED
    BY <1>1, <2>1, <2>2 DEF Onward
<1>6. ASSUME NEW i \in Slots, PushAnswered(s, i)
      PROVE  \A r \in Sessions \ {s} : client'[r] = client[r]
  BY <1>1, <1>6 DEF PushAnswered, Becomes
<1>7. ASSUME NEW i \in Slots, FlushAnswered(s, i)
      PROVE  /\ \A r \in Sessions \ {s} : client'[r] = client[r]
             /\ Onward(s) /\ retiring' = retiring
  <2>1. PICK pc \in {"flushed", "ended"} :
          Becomes(s, [c EXCEPT !.pc = pc, !.text = attempt[i].text])
    BY <1>7 DEF FlushAnswered
  <2>2. /\ d = [c EXCEPT !.pc = pc, !.text = attempt[i].text]
        /\ retiring' = retiring
        /\ \A r \in Sessions \ {s} : client'[r] = client[r]
    BY <1>1, <1>7, <2>1 DEF Becomes, FlushAnswered
  <2>3. d.pc # "push" /\ d.applied = c.applied /\ d.sent = c.sent
    <3> HIDE DEF c, d, Content, States, Named
    <3> QED
      BY <1>1, <2>2 DEF ClientRec
  <2> QED
    BY <1>1, <2>2, <2>3 DEF Onward
<1> QED
  BY <1>2, <1>3, <1>4, <1>5, <1>6, <1>7 DEF SessionSteps

LEMMA AnsweredRetires ==
  ASSUME ExactInv, ExactInv', NEW s \in Sessions, NEW i \in Slots, PushAnswered(s, i),
         RetiringOK(s), NEW r \in Sessions, RetiringOK(r)
  PROVE  RetiringOK(r)'
<1> DEFINE c == client[s]
           d == client'[s]
<1>1. /\ c \in ClientRec /\ c.sent \in Nat /\ c.applied \in Nat /\ c.pc = "push"
      /\ client \in [Sessions -> ClientRec] /\ c.applied < c.sent
  BY SentIsNamed, Numbers DEF ExactInv, TypeInv, PushAnswered, RetiringOK
<1>2. /\ d = [c EXCEPT !.pc = "idle", !.applied = c.sent, !.text = attempt[i].text]
      /\ retiring' = retiring \cup Retired(s, c)
      /\ \A q \in Sessions \ {s} : client'[q] = client[q]
  BY <1>1 DEF Becomes, PushAnswered
<1>3. d.pc = "idle" /\ d.applied = c.sent /\ d.sent = c.sent
  <2> HIDE DEF c, d, Content, States, Named
  <2> QED
    BY <1>1, <1>2 DEF ClientRec
<1>4. \A k \in retiring' : k \in retiring \/ k = <<s, c.applied>>
  BY <1>2 DEF Retired
<1>5. CASE r = s
  <2>1. \A k \in retiring : k[1] = s => k[2] < c.sent
    BY <1>1 DEF RetiringOK
  <2>2. \A k \in retiring' : k[1] = s => k[2] < c.sent
    BY <1>1, <1>4, <2>1
  <2>3. \A k \in retiring' : k[2] \in Nat
    BY RefsArePairs DEF ExactInv, TypeInv
  <2>4. \A k \in retiring' : k[1] = s => k[2] < d.sent /\ k[2] <= d.sent /\ k[2] < d.applied
    BY <1>1, <1>3, <2>2, <2>3
  <2> QED
    BY <1>3, <1>5, <2>4 DEF RetiringOK
<1>6. CASE r # s
  <2>1. client'[r] = client[r]
    BY <1>2, <1>6
  <2>2. \A k \in retiring' : k[1] = r => k \in retiring
    BY <1>4, <1>6
  <2> QED
    BY <2>1, <2>2 DEF RetiringOK
<1> QED
  BY <1>5, <1>6

LEMMA RetiringKept ==
  ASSUME ExactInv, ExactInv', [Next]_vars, \A s \in Sessions : RetiringOK(s)
  PROVE  \A s \in Sessions : RetiringOK(s)'
<1>1. ASSUME client' = client, retiring' \subseteq retiring
      PROVE  \A s \in Sessions : RetiringOK(s)'
  BY <1>1, StaysOnward, OnwardKeeps
<1>2. CASE UNCHANGED vars
  BY <1>1, <1>2 DEF vars
<1>3. ASSUME NEW s \in Sessions, SessionSteps(s)
      PROVE  \A r \in Sessions : RetiringOK(r)'
  <2>1. CASE \E i \in Slots : PushAnswered(s, i)
    BY <2>1, AnsweredRetires
  <2>2. CASE Onward(s) /\ retiring' = retiring
    <3>1. \A r \in Sessions : Onward(r)
      BY <1>3, <2>2, SessionsMoveOnward, StaysOnward
    <3> QED
      BY <2>2, <3>1, OnwardKeeps
  <2> QED
    BY <1>3, <2>1, <2>2, SessionsMoveOnward
<1>4. ASSUME NEW i \in Slots, Serve(i) \/ GivesUp(i)
      PROVE  \A s \in Sessions : RetiringOK(s)'
  <2>1. client' = client /\ retiring' = retiring
    BY <1>4 DEF Serve, GivesUp, LoadFresh, LoadHot, LoadFromTier, Miss, LoadUnavailable,
       Publish, PublishUnavailable, Finalize, File
  <2> QED
    BY <1>1, <2>1
<1>5. CASE StoreSteps
  <2>1. client' = client /\ retiring' \subseteq retiring
    BY <1>5 DEF StoreSteps, SweepTick, TierRestarts, Retire, Age, WorkerRestarts
  <2> QED
    BY <1>1, <2>1
<1> QED
  BY <1>2, <1>3, <1>4, <1>5 DEF Next

LEMMA BooksInit == Init => BooksInv
<1> SUFFICES ASSUME Init
             PROVE  BooksInv
  OBVIOUS
<1>1. ExactInv
  BY ExactInit
<1>2. tier = EmptyTier /\ retiring = {}
  BY DEF Init
<1>3. BooksFit(tier)
  BY <1>2, EmptyFits
<1>4. ASSUME NEW s \in Sessions PROVE client[s].pc = "off"
  BY DEF Init, NewClient
<1> QED
  BY <1>1, <1>2, <1>3, <1>4 DEF BooksInv, RetiringOK

LEMMA BooksNext == BooksInv /\ [Next]_vars => BooksInv'
<1> SUFFICES ASSUME BooksInv, [Next]_vars
             PROVE  BooksInv'
  OBVIOUS
<1>1. ExactInv /\ ExactInv'
  BY ExactNext DEF BooksInv
<1>2. BooksFit(tier')
  BY <1>1, EveryTierMove, BooksKept DEF BooksInv
<1>3. BooksFit(tier)'
  BY <1>2 DEF BooksFit, Books, Tierlike, Versions, Distinct, Elements
<1>4. \A s \in Sessions : RetiringOK(s)'
  BY <1>1, RetiringKept DEF BooksInv
<1> QED
  BY <1>1, <1>3, <1>4 DEF BooksInv

\* The recency list, the map and the byte counter of the tier agree, and it
\* is never over its ceiling between two requests.
THEOREM TierAlwaysBalances == Spec => []BytesBalance
<1>1. BooksInv => BytesBalance
  <2> SUFFICES ASSUME BooksInv
               PROVE  BytesBalance
    OBVIOUS
  <2>1. Books(tier) /\ tier.bytes <= MaxBytes
    BY DEF BooksInv, BooksFit
  <2>2. tier.lru \in Seq(Refs) /\ Elements(tier.lru) = Versions(tier)
        /\ tier.bytes = BlobSize * Len(tier.lru)
    BY <2>1 DEF Books
  <2>3. Len(tier.lru) = Cardinality(Versions(tier))
    BY <2>1, CountedOnce
  <2>4. {tier.lru[i] : i \in DOMAIN tier.lru} = Elements(tier.lru)
    BY <2>2, LenProperties DEF Elements
  <2> QED
    BY <2>1, <2>2, <2>3, <2>4 DEF BytesBalance
<1> QED
  BY <1>1, BooksInit, BooksNext, PTL DEF Spec

\* A version the next call will read is not taken by Close, by a retirement
\* or by a sweep.
LEMMA NothingTakesTheState ==
  ASSUME BooksInv, [Next]_vars, NEW s \in Sessions,
         Found(tier, <<s, client[s].applied>>), client[s].pc # "ended",
         client'[s].applied = client[s].applied
  PROVE  \/ <<s, client[s].applied>> \in Versions(tier')
         \/ Versions(tier') \ Versions(tier) # {}
         \/ faults' # faults
<1> DEFINE k == <<s, client[s].applied>>
<1>1. ExactInv /\ BooksFit(tier) /\ k \in Versions(tier) /\ ~tier.m[k].old
  BY DEF BooksInv, Found
<1>2. /\ k \in Refs /\ k[1] = s /\ k[2] = client[s].applied
      /\ client[s].applied \in Nat /\ client[s].applied # 0
  <2>1. k \in Refs /\ k[1] = s /\ k[2] = client[s].applied
    BY <1>1 DEF ExactInv, TierOK, VersionOK
  <2>2. k[2] \in Seqs
    BY <2>1, RefsArePairs
  <2> QED
    BY <2>1, <2>2, Numbers
<1> HIDE DEF k
<1>3. CASE tier' = tier
  BY <1>1, <1>3 DEF k
<1>4. ASSUME NEW r \in Sessions, client[r].pc \in {"flushed", "ended"},
             client[r].pc = "flushed" => client'[r].applied = 0,
             tier' = DeletePrefix(tier, r)
      PROVE  k \in Versions(tier')
  <2>1. r # s
    BY <1>2, <1>4
  <2>2. Versions(tier') = Versions(tier) \ {j \in Versions(tier) : j[1] = r}
    BY <1>1, <1>4, LosingFits DEF DeletePrefix
  <2> QED
    BY <1>1, <1>2, <2>1, <2>2
<1>5. ASSUME NEW key \in retiring, tier' = Delete(tier, key)
      PROVE  k \in Versions(tier')
  <2>1. key # k
    <3> SUFFICES ASSUME key = k
                 PROVE  FALSE
      OBVIOUS
    <3>1. key[1] = s /\ key[2] = client[s].applied
      BY <1>2
    <3>2. key[2] < client[s].applied
      BY <1>2, <3>1 DEF BooksInv, RetiringOK
    <3> QED
      BY <1>2, <3>1, <3>2
  <2>2. Versions(tier') = Versions(tier) \ {key}
    BY <1>1, <1>5, LosingFits DEF Delete
  <2> QED
    BY <1>1, <2>1, <2>2
<1>6. ASSUME NEW key \in Refs, tier' = AfterGet(tier, key)
      PROVE  k \in Versions(tier')
  BY <1>1, <1>6, GetBalances DEF Found
<1>7. ASSUME NEW key \in Refs, NEW blob, tier' = PutIfAbsent(tier, key, blob)
      PROVE  k \in Versions(tier') \/ Versions(tier') \ Versions(tier) # {}
  <2>1. CASE key \in Versions(tier)
    BY <1>1, <1>7, <2>1 DEF PutIfAbsent
  <2>2. CASE key \notin Versions(tier)
    <3>1. BlobSize <= MaxBytes
      <4>1. /\ Books(tier) /\ tier.bytes <= MaxBytes
            /\ tier.bytes = BlobSize * Len(tier.lru) /\ Len(tier.lru) \in Nat
        BY <1>1, CountedOnce DEF BooksFit, Books
      <4>2. Len(tier.lru) > 0
        <5>1. k \in Elements(tier.lru)
          BY <1>1, <4>1 DEF Books
        <5> QED
          BY <4>1, <5>1 DEF Elements
      <4>3. BlobSize * 1 <= BlobSize * Len(tier.lru) /\ BlobSize * 1 = BlobSize
            /\ BlobSize * Len(tier.lru) \in Nat
        <5>1. 1 \in Nat /\ 1 <= Len(tier.lru)
          BY <4>1, <4>2
        <5>2. BlobSize * 1 <= BlobSize * Len(tier.lru) /\ BlobSize * Len(tier.lru) \in Nat
          BY <4>1, <5>1, Products
        <5> QED
          BY <5>2, Sizes
      <4> DEFINE z == BlobSize * Len(tier.lru)
      <4>4. BlobSize <= z /\ z <= MaxBytes /\ z \in Nat
        BY <4>1, <4>3
      <4> HIDE DEF z
      <4> QED
        BY <4>4, Sizes
    <3>2. tier' = Put(tier, key, blob) /\ Books(tier)
      BY <1>1, <1>7, <2>2 DEF PutIfAbsent, BooksFit
    <3>3. key \in Versions(tier')
      BY <3>1, <3>2, PutBalances
    <3> QED
      BY <2>2, <3>3
  <2> QED
    BY <2>1, <2>2
<1>8. ASSUME NEW key \in Refs, tier' = Aged(tier, key)
      PROVE  k \in Versions(tier')
  BY <1>1, <1>8, AgedFits
<1>9. ASSUME tier' = Sweep(tier)
      PROVE  k \in Versions(tier')
  <2>1. Versions(tier') = Versions(tier) \ Past(tier)
    BY <1>1, <1>9, LosingFits DEF Sweep
  <2> QED
    BY <1>1, <2>1 DEF Past
<1>10. k \in Versions(tier') \/ Versions(tier') \ Versions(tier) # {} \/ faults' # faults
  BY <1>1, <1>3, <1>4, <1>5, <1>6, <1>7, <1>8, <1>9, EveryTierMove DEF TierMoves
<1> QED
  BY <1>10 DEF k

\* No deletion takes the version the next call of a session will read: not
\* another session's Close, not a retirement that is late, not the sweeper.
THEOREM DeletionsSpareTheState == Spec => OnlyALossTakesTheState
<1>1. BooksInv /\ [Next]_vars =>
        [\A s \in Sessions :
           LET c == client[s]
               k == <<s, c.applied>>
           IN  /\ Found(tier, k) /\ c.pc # "ended"
               /\ client'[s].applied = c.applied
               => \/ k \in Versions(tier')
                  \/ Versions(tier') \ Versions(tier) # {}
                  \/ faults' # faults]_vars
  BY NothingTakesTheState
<1> QED
  BY <1>1, BooksInit, BooksNext, PTL DEF Spec, OnlyALossTakesTheState

-------------------------------------------------------------------------------
(* A stateless session is one stream of its chunks or ends:                *)
(* StatelessStream implements ResumedStream.  This needs more than exact   *)
(* versions: an answer has to say what its version holds, it must be the   *)
(* answer to what its client waits for now, and what the client heard last *)
(* is the version it applied.                                              *)

\* An attempt that has an answer says what its sink, or for a final its
\* reference, is due, and was cut after chunks of its reference only.
SaysOK(i) ==
  LET a == attempt[i] IN
  /\ a.pc \in {"file", "done"} /\ a.mode = "push" => a.text.chunks = due[a.s][a.sink]
  /\ a.pc = "done" /\ a.mode = "flush" => a.text.chunks = Base(a.s, a.ref)
  /\ a.pc \in {"file", "done"} => a.text.cuts \subseteq 1..Len(Base(a.s, a.ref))

\* An attempt whose answer is awaited is at what its client waits for.
LiveOK(i) ==
  LET a == attempt[i]
      c == client[a.s]
  IN  a.live => /\ a.pc # "free" /\ c.pc = a.mode /\ a.ref = c.applied
                /\ a.mode = "push" => a.sink = c.sent

OneAwaited ==
  \A i, j \in Slots :
    attempt[i].live /\ attempt[j].live /\ attempt[i].s = attempt[j].s => i = j

\* A client has heard the version it applied.
HeardOK(s) ==
  LET c == client[s] IN
  /\ c.pc = "off" => c.text = NewState
  /\ c.pc \in {"idle", "push", "flush"} => c.text.chunks = Base(s, c.applied)

HeardInv ==
  /\ ExactInv /\ OneAwaited
  /\ \A i \in Slots : SaysOK(i) /\ LiveOK(i)
  /\ \A s \in Sessions : HeardOK(s)

-------------------------------------------------------------------------------
(* What a step keeps.                                                      *)

\* Attempt i works on at the same thing, or is over, or is not awaited.
Speaks(i) ==
  LET a == attempt[i]
      b == attempt'[i]
  IN  \/ b = Idle
      \/ /\ b.s = a.s /\ b.mode = a.mode /\ b.ref = a.ref /\ b.sink = a.sink
         /\ b.live => a.live /\ b.pc # "free"
         /\ SaysOK(i)'

\* The client of an attempt that is still awaited waits for the same.
Waits(i) ==
  LET c == client[attempt[i].s]
      d == client'[attempt[i].s]
  IN  attempt'[i] # Idle /\ attempt'[i].live =>
        d.pc = c.pc /\ d.applied = c.applied /\ d.sent = c.sent

LEMMA HeardKept ==
  ASSUME HeardInv, ExactInv', \A i \in Slots : Speaks(i) /\ Waits(i),
         \A s \in Sessions : HeardOK(s)'
  PROVE  HeardInv'
<1>1. \A i \in Slots : SaysOK(i)'
  BY DEF Speaks, SaysOK, Idle
<1>2. \A i \in Slots : attempt'[i].live =>
        attempt'[i] # Idle /\ attempt[i].live /\ attempt'[i].s = attempt[i].s
  BY DEF Speaks, Idle
<1>3. OneAwaited'
  BY <1>2 DEF HeardInv, OneAwaited
<1>4. \A i \in Slots : LiveOK(i)'
  BY <1>2 DEF HeardInv, Speaks, LiveOK, Waits
<1> QED
  BY <1>1, <1>3, <1>4 DEF HeardInv

\* What an attempt says is right as long as what is due stays as it was.
LEMMA SpeaksSame ==
  ASSUME HeardInv, Grows, NEW i \in Slots,
         LET a == attempt[i]
             b == attempt'[i]
         IN  /\ b.s = a.s /\ b.mode = a.mode /\ b.ref = a.ref /\ b.sink = a.sink
             /\ b.pc = a.pc /\ b.text = a.text /\ (b.live => a.live)
  PROVE  Speaks(i)
<1> DEFINE a == attempt[i]
           b == attempt'[i]
<1>1. a.live => a.pc # "free"
  BY DEF HeardInv, LiveOK
<1>2. SaysOK(i) /\ AttemptOK(i)
  BY DEF HeardInv, ExactInv
<1>3. a.ref \in Nat /\ a.sink \in Nat /\ (a.ref # 0 => a.ref \in Seqs)
  BY Numbers DEF HeardInv, ExactInv, TypeInv, AttemptRec, Named
<1>4. a.pc # "free" => /\ a.mode = "push" => due'[a.s][a.sink] = due[a.s][a.sink]
                       /\ a.ref # 0 => due'[a.s][a.ref] = due[a.s][a.ref]
  BY <1>2, <1>3 DEF AttemptOK, Grows
<1>5. SaysOK(i)'
  BY <1>2, <1>4 DEF SaysOK, Base
<1> QED
  BY <1>1, <1>5 DEF Speaks

LEMMA GrowsIfSame ==
  HeardInv /\ UNCHANGED due
    /\ (\A s \in Sessions : client'[s].sent = client[s].sent) => Grows
BY SentIsNamed DEF HeardInv, ExactInv, Grows

\* A step of the workers or of the stores.
LEMMA WorkKeeps ==
  ASSUME HeardInv, ExactInv', UNCHANGED <<client, due>>, \A i \in Slots : Speaks(i)
  PROVE  HeardInv'
<1>1. \A s \in Sessions : HeardOK(s)'
  BY DEF HeardInv, HeardOK, Base
<1>2. \A i \in Slots : Waits(i)
  BY DEF Waits
<1> QED
  BY <1>1, <1>2, HeardKept

\* A step of attempt i only.
LEMMA OneSpeaks ==
  ASSUME HeardInv, ExactInv', UNCHANGED <<client, due>>, NEW i \in Slots, Speaks(i),
         \A j \in Slots \ {i} : attempt'[j] = attempt[j]
  PROVE  HeardInv'
<1>1. Grows
  BY GrowsIfSame
<1>2. \A j \in Slots \ {i} : Speaks(j)
  BY <1>1, SpeaksSame
<1> QED
  BY <1>2, WorkKeeps

-------------------------------------------------------------------------------
(* The workers and the stores.                                             *)

\* What a record of an attempt says.
Says(b) ==
  /\ b.pc \in {"file", "done"} /\ b.mode = "push" => b.text.chunks = due[b.s][b.sink]
  /\ b.pc = "done" /\ b.mode = "flush" => b.text.chunks = Base(b.s, b.ref)
  /\ b.pc \in {"file", "done"} => b.text.cuts \subseteq 1..Len(Base(b.s, b.ref))

LEMMA GoesOn ==
  ASSUME HeardInv, ExactInv', UNCHANGED <<client, due>>, NEW i \in Slots, NEW b, Goes(i, b),
         LET a == attempt[i] IN
         \/ b = Idle
         \/ /\ b.s = a.s /\ b.mode = a.mode /\ b.ref = a.ref /\ b.sink = a.sink
            /\ b.live => a.live /\ b.pc # "free"
            /\ Says(b)
  PROVE  HeardInv'
<1>1. attempt'[i] = b /\ \A j \in Slots \ {i} : attempt'[j] = attempt[j]
  BY DEF Goes, HeardInv, ExactInv, TypeInv
<1>2. Speaks(i)
  BY <1>1 DEF Speaks, SaysOK, Says, Base
<1> QED
  BY <1>1, <1>2, OneSpeaks

LEMMA LoadsHeard ==
  ASSUME HeardInv, ExactInv', UNCHANGED <<client, due>>, NEW i \in Slots, NEW o, Loads(i, o)
  PROVE  HeardInv'
<1> DEFINE b == [attempt[i] EXCEPT !.pc = "put", !.obj = o]
<1>1. attempt[i] \in AttemptRec
  BY DEF HeardInv, ExactInv, TypeInv
<1>2. /\ b.pc = "put" /\ b.live = attempt[i].live /\ b.s = attempt[i].s
      /\ b.mode = attempt[i].mode /\ b.ref = attempt[i].ref /\ b.sink = attempt[i].sink
  <2> HIDE DEF Content, States, Named
  <2> QED
    BY <1>1 DEF AttemptRec
<1>3. Goes(i, b)
  BY DEF Loads
<1> HIDE DEF b
<1> QED
  BY <1>2, <1>3, GoesOn DEF Says

\* An answer that nobody waits for is dropped.
LEMMA SettledHeard ==
  ASSUME HeardInv, ExactInv', UNCHANGED <<client, due>>, NEW i \in Slots, NEW b,
         Goes(i, Settled(i, b)), b.pc = "done", b.live = attempt[i].live,
         b.s = attempt[i].s, b.mode = attempt[i].mode, b.ref = attempt[i].ref,
         b.sink = attempt[i].sink, Says(b)
  PROVE  HeardInv'
<1>1. PICK d \in {b, Idle} : Goes(i, d)
  BY DEF Settled
<1> QED
  BY <1>1, GoesOn

LEMMA PublishHeard ==
  ASSUME HeardInv, ExactInv', NEW i \in Slots, Publish(i) PROVE HeardInv'
<1> DEFINE a == attempt[i]
           b == [a EXCEPT !.pc = "file", !.text = Inferred(i)]
<1>1. /\ At(i, "put") /\ a.mode = "push" /\ Goes(i, b) /\ UNCHANGED <<client, due>>
  BY DEF Publish, history
<1>2. /\ a \in AttemptRec /\ Inferred(i).chunks = due[a.s][a.sink]
      /\ Inferred(i).cuts \subseteq 1..Len(Base(a.s, a.ref))
  BY <1>1, InferredIsDue DEF HeardInv, ExactInv, TypeInv
<1>3. /\ b.pc = "file" /\ b.text = Inferred(i) /\ b.live = a.live /\ b.s = a.s
      /\ b.mode = a.mode /\ b.ref = a.ref /\ b.sink = a.sink
  <2> HIDE DEF Content, States, Named
  <2> QED
    BY <1>2 DEF AttemptRec
<1> HIDE DEF b
<1>4. Says(b)
  BY <1>1, <1>2, <1>3 DEF Says
<1>5. b.live => a.live /\ b.pc # "free"
  BY <1>3
<1> QED
  BY <1>1, <1>3, <1>4, <1>5, GoesOn

LEMMA FinalizeHeard ==
  ASSUME HeardInv, ExactInv', NEW i \in Slots, Finalize(i) PROVE HeardInv'
<1> DEFINE a == attempt[i]
           b == [a EXCEPT !.pc = "done", !.text = Inferred(i), !.obj = None]
<1>1. /\ a.pc = "put" /\ a.mode = "flush" /\ Goes(i, Settled(i, b))
      /\ UNCHANGED <<client, due>>
  BY DEF Finalize, At, history
<1>2. /\ a \in AttemptRec /\ Inferred(i).chunks = Base(a.s, a.ref)
      /\ Inferred(i).cuts \subseteq 1..Len(Base(a.s, a.ref))
  <2>1. /\ a \in AttemptRec /\ Inferred(i) = heap[a.obj] /\ a.obj \in Objects
        /\ heap[a.obj].chunks = Base(a.s, a.ref)
    BY <1>1 DEF HeardInv, ExactInv, TypeInv, AttemptOK, Inferred
  <2>2. heap[a.obj] \in States
    <3> HIDE DEF Content, States
    <3> QED
      BY <2>1 DEF HeardInv, ExactInv, TypeInv
  <2> QED
    BY <2>1, <2>2 DEF States
<1>3. /\ b.pc = "done" /\ b.text = Inferred(i) /\ b.live = a.live /\ b.s = a.s
      /\ b.mode = a.mode /\ b.ref = a.ref /\ b.sink = a.sink
  <2> HIDE DEF Content, States, Named
  <2> QED
    BY <1>2 DEF AttemptRec
<1> HIDE DEF b
<1>4. Says(b)
  BY <1>1, <1>2, <1>3 DEF Says
<1> QED
  BY <1>1, <1>3, <1>4, SettledHeard

LEMMA FileHeard == ASSUME HeardInv, ExactInv', NEW i \in Slots, File(i) PROVE HeardInv'
<1> DEFINE a == attempt[i]
           b == [a EXCEPT !.pc = "done", !.obj = None]
<1>1. /\ a.pc = "file" /\ Goes(i, Settled(i, b)) /\ UNCHANGED <<client, due>>
  BY DEF File, At, history
<1>2. /\ a \in AttemptRec /\ a.mode = "push" /\ a.text.chunks = due[a.s][a.sink]
      /\ a.text.cuts \subseteq 1..Len(Base(a.s, a.ref))
  BY <1>1 DEF HeardInv, ExactInv, TypeInv, AttemptOK, SaysOK
<1>3. /\ b.pc = "done" /\ b.text = a.text /\ b.live = a.live /\ b.s = a.s
      /\ b.mode = a.mode /\ b.ref = a.ref /\ b.sink = a.sink
  <2> HIDE DEF Content, States, Named
  <2> QED
    BY <1>2 DEF AttemptRec
<1> HIDE DEF b
<1>4. Says(b)
  BY <1>1, <1>2, <1>3 DEF Says
<1> QED
  BY <1>1, <1>3, <1>4, SettledHeard

LEMMA WorkersHeard ==
  ASSUME HeardInv, ExactInv', NEW i \in Slots, Serve(i) \/ GivesUp(i)
  PROVE  HeardInv'
<1>1. ASSUME UNCHANGED <<client, due>>, Goes(i, Idle)
      PROVE  HeardInv'
  BY <1>1, GoesOn
<1>2. CASE \E o : Loads(i, o) /\ UNCHANGED <<client, due>>
  BY <1>2, LoadsHeard
<1>3. CASE LoadFresh(i) \/ LoadHot(i) \/ LoadFromTier(i)
  BY <1>2, <1>3 DEF LoadFresh, LoadHot, LoadFromTier, history
<1>4. CASE Miss(i) \/ LoadUnavailable(i) \/ PublishUnavailable(i)
  BY <1>1, <1>4 DEF Miss, LoadUnavailable, PublishUnavailable, history
<1>5. CASE GivesUp(i)
  <2> DEFINE b == [attempt[i] EXCEPT !.live = FALSE]
  <2>1. UNCHANGED <<client, due>> /\ (Goes(i, Idle) \/ Goes(i, b))
    BY <1>5 DEF GivesUp, history
  <2>2. attempt[i] \in AttemptRec /\ SaysOK(i)
    BY DEF HeardInv, ExactInv, TypeInv
  <2>3. /\ b.pc = attempt[i].pc /\ b.text = attempt[i].text /\ ~b.live
        /\ b.s = attempt[i].s /\ b.mode = attempt[i].mode
        /\ b.ref = attempt[i].ref /\ b.sink = attempt[i].sink
    <3> HIDE DEF Content, States, Named
    <3> QED
      BY <2>2 DEF AttemptRec
  <2> HIDE DEF b
  <2>4. Says(b)
    BY <2>2, <2>3 DEF Says, SaysOK
  <2> QED
    BY <1>1, <2>1, <2>3, <2>4, GoesOn
<1> QED
  BY <1>3, <1>4, <1>5, PublishHeard, FinalizeHeard, FileHeard DEF Serve

LEMMA StoresHeard ==
  ASSUME HeardInv, ExactInv', StoreSteps
  PROVE  HeardInv'
<1>1. UNCHANGED <<client, due>>
  BY DEF StoreSteps, SweepTick, TierRestarts, Retire, Age, WorkerRestarts, history
<1>2. \A i \in Slots : attempt'[i] \in {attempt[i], Idle}
  <2>1. CASE UNCHANGED attempt
    BY <2>1
  <2>2. ASSUME NEW w \in Workers, WorkerRestarts(w)
        PROVE  \A i \in Slots : attempt'[i] \in {attempt[i], Idle}
    BY <2>2 DEF WorkerRestarts
  <2> QED
    BY <2>1, <2>2 DEF StoreSteps, SweepTick, TierRestarts, Retire, Age, workers
<1>3. Grows
  BY <1>1, GrowsIfSame
<1>4. \A i \in Slots : Speaks(i)
  <2> SUFFICES ASSUME NEW i \in Slots
               PROVE  Speaks(i)
    OBVIOUS
  <2>1. CASE attempt'[i] = Idle
    BY <2>1 DEF Speaks
  <2>2. CASE attempt'[i] = attempt[i]
    BY <1>3, <2>2, SpeaksSame
  <2> QED
    BY <1>2, <2>1, <2>2
<1> QED
  BY <1>1, <1>4, WorkKeeps

-------------------------------------------------------------------------------
(* The session's calls.                                                    *)

\* Nobody is at work for a client that waits for nothing.
LEMMA NobodyAwaited ==
  HeardInv => \A i \in Slots : attempt[i].live => client[attempt[i].s].pc \in {"push", "flush"}
BY DEF HeardInv, ExactInv, LiveOK, AttemptOK

LEMMA OthersHeard ==
  ASSUME HeardInv, Grows, NEW s \in Sessions,
         \A r \in Sessions \ {s} : client'[r] = client[r] /\ due'[r] = due[r]
  PROVE  \A r \in Sessions \ {s} : HeardOK(r)'
BY DEF HeardInv, HeardOK, Base

\* A step of a session that no attempt is at work for.
LEMMA CallHeard ==
  ASSUME HeardInv, ExactInv', Grows, NEW s \in Sessions, UNCHANGED attempt,
         \A r \in Sessions \ {s} : client'[r] = client[r] /\ due'[r] = due[r],
         client[s].pc \notin {"push", "flush"}, HeardOK(s)'
  PROVE  HeardInv'
<1>1. \A i \in Slots : Speaks(i)
  BY SpeaksSame
<1>2. \A i \in Slots : attempt[i].live => attempt[i].s \in Sessions \ {s}
  BY NobodyAwaited DEF HeardInv, ExactInv, LiveOK, AttemptOK
<1>3. \A i \in Slots : Waits(i)
  BY <1>2 DEF Waits
<1>4. \A r \in Sessions : HeardOK(r)'
  BY OthersHeard
<1> QED
  BY <1>1, <1>3, <1>4, HeardKept

LEMMA SimpleCallsHeard ==
  ASSUME HeardInv, ExactInv', NEW s \in Sessions,
         Start(s) \/ Flush(s) \/ Leave(s) \/ Renew(s) \/ TearDown(s)
  PROVE  HeardInv'
<1> DEFINE c == client[s]
           d == client'[s]
<1>1. /\ c \in ClientRec /\ client \in [Sessions -> ClientRec] /\ HeardOK(s)
      /\ c.pc \notin {"push", "flush"} /\ UNCHANGED <<attempt, due>>
  BY DEF HeardInv, ExactInv, TypeInv, Start, Flush, Leave, Renew, TearDown, history, workers
<1>2. \A r \in Sessions \ {s} : client'[r] = client[r]
  BY <1>1 DEF Start, Flush, Leave, Renew, TearDown, Becomes
<1>3. d.sent = c.sent /\ HeardOK(s)'
  <2> HIDE DEF Content, States, Named
  <2>1. CASE Start(s) \/ Renew(s)
    <3>1. d = Opened(c)
      BY <1>1, <2>1 DEF Start, Renew, Becomes
    <3>2. d.sent = c.sent /\ d.pc = "idle" /\ d.applied = 0 /\ d.text = NewState
      BY <1>1, <3>1 DEF Opened, OpenedUnreset, ClientRec
    <3> QED
      BY <3>2 DEF HeardOK, Base, NewState
  <2>2. CASE Flush(s)
    <3>1. c.pc = "idle" /\ d = [c EXCEPT !.pc = "flush", !.place = 0, !.tries = 0]
      BY <1>1, <2>2 DEF Flush, Becomes
    <3>2. d.sent = c.sent /\ d.pc = "flush" /\ d.applied = c.applied /\ d.text = c.text
      BY <1>1, <3>1 DEF ClientRec
    <3> QED
      BY <1>1, <3>1, <3>2 DEF HeardOK, Base
  <2>3. CASE Leave(s) \/ TearDown(s)
    <3>1. PICK pc \in {"ended", "gone"} : d = [c EXCEPT !.pc = pc]
      BY <1>1, <2>3 DEF Leave, TearDown, Becomes
    <3>2. d.sent = c.sent /\ d.pc = pc
      BY <1>1, <3>1 DEF ClientRec
    <3> QED
      BY <3>2 DEF HeardOK
  <2> QED
    BY <2>1, <2>2, <2>3
<1>4. Grows
  BY <1>1, <1>2, <1>3, GrowsIfSame
<1> QED
  BY <1>1, <1>2, <1>3, <1>4, CallHeard

LEMMA PushHeard ==
  ASSUME HeardInv, ExactInv', NEW s \in Sessions, NEW n \in Seqs, Push(s, n)
  PROVE  HeardInv'
<1> DEFINE c == client[s]
           d == [c EXCEPT !.pc = "push", !.sent = n, !.place = 0, !.tries = 0]
<1>1. /\ c \in ClientRec /\ HeardOK(s) /\ c.pc = "idle" /\ c.sent \in Nat /\ c.applied \in Named
      /\ n > c.sent /\ c.applied <= c.sent /\ UNCHANGED attempt
      /\ due \in [Sessions -> [Seqs -> Content]]
  BY SentIsNamed DEF HeardInv, ExactInv, TypeInv, ClientOK, Push, workers
<1>2. client'[s] = d /\ \A r \in Sessions \ {s} : client'[r] = client[r]
  BY DEF HeardInv, ExactInv, TypeInv, Push, Becomes
<1>3. d.pc = "push" /\ d.sent = n /\ d.applied = c.applied /\ d.text = c.text
  <2> HIDE DEF Content, States, Named
  <2> QED
    BY <1>1 DEF ClientRec
<1> HIDE DEF d
<1>4. /\ \A r \in Sessions \ {s} : due'[r] = due[r]
      /\ \A k \in Seqs \ {n} : due'[s][k] = due[s][k]
  BY <1>1 DEF Push
<1>5. Grows
  <2>1. \A r \in Sessions : client[r].sent \in Nat
    BY SentIsNamed DEF HeardInv, ExactInv
  <2>2. n \in Nat /\ Seqs \subseteq Nat
    BY Numbers
  <2>3. \A r \in Sessions : client[r].sent <= client'[r].sent
    BY <1>1, <1>2, <1>3, <2>1, <2>2
  <2>4. \A r \in Sessions, k \in Seqs : k <= client[r].sent => due'[r][k] = due[r][k]
    BY <1>1, <1>4, <2>1, <2>2
  <2> QED
    BY <2>3, <2>4 DEF Grows
<1>6. HeardOK(s)'
  BY <1>1, <1>2, <1>3, <1>4, Numbers DEF HeardOK, Base, Named
<1> QED
  BY <1>1, <1>2, <1>4, <1>5, <1>6, CallHeard

LEMMA AnswerHeard ==
  ASSUME HeardInv, ExactInv', NEW s \in Sessions, NEW i \in Slots,
         PushAnswered(s, i) \/ FlushAnswered(s, i)
  PROVE  HeardInv'
<1> DEFINE c == client[s]
           d == client'[s]
           a == attempt[i]
<1>1. /\ c \in ClientRec /\ ClientOK(s) /\ SaysOK(i) /\ LiveOK(i)
      /\ a.live /\ a.s = s /\ a.pc = "done" /\ c.pc \in {"push", "flush"}
      /\ Goes(i, Idle) /\ UNCHANGED due
  BY DEF HeardInv, ExactInv, TypeInv, PushAnswered, FlushAnswered, AwaitedBy, history
<1>2. /\ attempt'[i] = Idle /\ \A j \in Slots \ {i} : attempt'[j] = attempt[j]
      /\ \A r \in Sessions \ {s} : client'[r] = client[r]
  BY <1>1 DEF HeardInv, ExactInv, TypeInv, Goes, PushAnswered, FlushAnswered, Becomes
<1>3. d.sent = c.sent /\ HeardOK(s)'
  <2>1. CASE PushAnswered(s, i)
    <3>1. c.pc = "push" /\ d = [c EXCEPT !.pc = "idle", !.applied = c.sent, !.text = a.text]
      BY <2>1 DEF HeardInv, ExactInv, TypeInv, PushAnswered, Becomes
    <3>2. d.pc = "idle" /\ d.sent = c.sent /\ d.applied = c.sent /\ d.text = a.text
      <4> HIDE DEF d, Content, States, Named
      <4> QED
        BY <1>1, <3>1 DEF ClientRec
    <3>3. c.sent \in Seqs /\ a.text.chunks = due[s][c.sent]
      BY <1>1, <3>1 DEF SaysOK, LiveOK, ClientOK
    <3> QED
      BY <1>1, <3>2, <3>3, Numbers DEF HeardOK, Base
  <2>2. CASE FlushAnswered(s, i)
    <3>1. PICK pc \in {"flushed", "ended"} : d = [c EXCEPT !.pc = pc, !.text = a.text]
      BY <2>2 DEF HeardInv, ExactInv, TypeInv, FlushAnswered, Becomes
    <3>2. d.pc = pc /\ d.sent = c.sent
      <4> HIDE DEF d, Content, States, Named
      <4> QED
        BY <1>1, <3>1 DEF ClientRec
    <3> QED
      BY <3>2 DEF HeardOK
  <2> QED
    BY <2>1, <2>2
<1>4. Grows
  BY <1>1, <1>2, <1>3, GrowsIfSame
<1>5. \A j \in Slots : Speaks(j)
  <2>1. \A j \in Slots \ {i} : Speaks(j)
    BY <1>2, <1>4, SpeaksSame
  <2> QED
    BY <1>2, <2>1 DEF Speaks
<1>6. \A j \in Slots : Waits(j)
  <2>1. \A j \in Slots \ {i} : attempt[j].live => attempt[j].s # s
    BY <1>1 DEF HeardInv, OneAwaited
  <2>2. \A j \in Slots : attempt[j].live => attempt[j].s \in Sessions
    BY DEF HeardInv, ExactInv, LiveOK, AttemptOK
  <2> QED
    BY <1>2, <2>1, <2>2 DEF Waits
<1>7. \A r \in Sessions : HeardOK(r)'
  BY <1>1, <1>2, <1>3, <1>4, OthersHeard
<1> QED
  BY <1>5, <1>6, <1>7, HeardKept

LEMMA CallFailsHeard ==
  ASSUME HeardInv, ExactInv', NEW s \in Sessions, CallFails(s)
  PROVE  HeardInv'
<1> DEFINE c == client[s]
<1>1. /\ c \in ClientRec /\ client'[s] = [c EXCEPT !.pc = "ended"] /\ UNCHANGED due
      /\ \A r \in Sessions \ {s} : client'[r] = client[r]
  BY DEF HeardInv, ExactInv, TypeInv, CallFails, Becomes, history
<1>2. client'[s].sent = c.sent /\ client'[s].pc = "ended"
  <2> HIDE DEF Content, States, Named
  <2> QED
    BY <1>1 DEF ClientRec
<1>3. Grows
  BY <1>1, <1>2, GrowsIfSame
<1>4. \A i \in Slots : Speaks(i) /\ Waits(i)
  <2> SUFFICES ASSUME NEW i \in Slots
               PROVE  Speaks(i) /\ Waits(i)
    OBVIOUS
  <2>1. attempt[i] \in AttemptRec /\ (attempt[i].live => attempt[i].s \in Sessions)
    BY DEF HeardInv, ExactInv, TypeInv, LiveOK, AttemptOK
  <2>2. CASE i \notin AwaitedBy(s)
    <3>1. attempt'[i] = attempt[i] /\ (attempt[i].live => attempt[i].s # s)
      BY <2>2 DEF CallFails, AwaitedBy
    <3>2. Speaks(i)
      BY <1>3, <3>1, SpeaksSame
    <3> QED
      BY <1>1, <2>1, <3>1, <3>2 DEF Waits
  <2>3. CASE i \in AwaitedBy(s) /\ attempt[i].pc = "done"
    <3>1. attempt'[i] = Idle
      BY <2>3 DEF CallFails
    <3> QED
      BY <3>1 DEF Speaks, Waits
  <2>4. CASE i \in AwaitedBy(s) /\ attempt[i].pc # "done"
    <3>1. attempt'[i] = [attempt[i] EXCEPT !.live = FALSE]
      BY <2>4 DEF CallFails
    <3>2. /\ attempt'[i].pc = attempt[i].pc /\ attempt'[i].text = attempt[i].text
          /\ ~attempt'[i].live /\ attempt'[i].s = attempt[i].s
          /\ attempt'[i].mode = attempt[i].mode /\ attempt'[i].ref = attempt[i].ref
          /\ attempt'[i].sink = attempt[i].sink
      <4> HIDE DEF Content, States, Named
      <4> QED
        BY <2>1, <3>1 DEF AttemptRec
    <3>3. Speaks(i)
      BY <1>3, <3>2, SpeaksSame
    <3> QED
      BY <3>2, <3>3 DEF Waits
  <2> QED
    BY <2>2, <2>3, <2>4
<1>5. \A r \in Sessions : HeardOK(r)'
  <2>1. HeardOK(s)'
    BY <1>2 DEF HeardOK
  <2> QED
    BY <1>1, <1>3, <2>1, OthersHeard
<1> QED
  BY <1>4, <1>5, HeardKept

LEMMA RouteHeard ==
  ASSUME HeardInv, ExactInv', NEW s \in Sessions, Route(s)
  PROVE  HeardInv'
<1>1. /\ client[s] \in ClientRec /\ client[s].pc \in {"push", "flush"}
      /\ AwaitedBy(s) = {} /\ HeardOK(s) /\ UNCHANGED due
  BY DEF HeardInv, ExactInv, TypeInv, Route, history
<1>2. PICK i \in FreeSlots : \E q :
        /\ client' = [client EXCEPT ![s] = [client[s] EXCEPT !.place = q, !.tries = @ + 1]]
        /\ Goes(i, Call(s, Chain[s][q]))
  <2>1. PICK j \in FreeSlots : j = CHOOSE k \in FreeSlots : TRUE
    BY DEF Route
  <2> QED
    BY <2>1 DEF Route, Becomes
<1> PICK p : /\ client' = [client EXCEPT ![s] = [client[s] EXCEPT !.place = p, !.tries = @ + 1]]
             /\ Goes(i, Call(s, Chain[s][p]))
  BY <1>2
<1>3. /\ client'[s] = [client[s] EXCEPT !.place = p, !.tries = @ + 1]
      /\ \A r \in Sessions \ {s} : client'[r] = client[r]
  BY DEF HeardInv, ExactInv, TypeInv
<1>4. /\ client'[s].pc = client[s].pc /\ client'[s].sent = client[s].sent
      /\ client'[s].applied = client[s].applied /\ client'[s].text = client[s].text
  <2> HIDE DEF Content, States, Named
  <2> QED
    BY <1>1, <1>3 DEF ClientRec
<1>5. /\ i \in Slots /\ attempt[i].pc = "free" /\ attempt'[i] = Call(s, Chain[s][p])
      /\ \A j \in Slots \ {i} : attempt'[j] = attempt[j]
  BY DEF FreeSlots, Goes, HeardInv, ExactInv, TypeInv
<1>6. /\ attempt'[i].pc = "load" /\ attempt'[i].s = s /\ attempt'[i].mode = client[s].pc
      /\ attempt'[i].ref = client[s].applied
      /\ client[s].pc = "push" => attempt'[i].sink = client[s].sent
  BY <1>5 DEF Call, Idle
<1>7. Grows
  BY <1>1, <1>3, <1>4, GrowsIfSame
<1>8. \A j \in Slots \ {i} : Speaks(j)
  BY <1>5, <1>7, SpeaksSame
<1>9. \A j \in Slots : SaysOK(j)'
  <2>1. SaysOK(i)'
    BY <1>6 DEF SaysOK
  <2>2. \A j \in Slots \ {i} : SaysOK(j)'
    BY <1>8 DEF Speaks, SaysOK, Idle
  <2> QED
    BY <2>1, <2>2
<1>10. \A j \in Slots \ {i} : attempt[j].live => attempt[j].s \in Sessions \ {s}
  BY <1>1 DEF HeardInv, ExactInv, LiveOK, AttemptOK, AwaitedBy
<1>11. OneAwaited'
  BY <1>5, <1>6, <1>10 DEF HeardInv, OneAwaited
<1>12. \A j \in Slots : LiveOK(j)'
  <2>1. LiveOK(i)'
    BY <1>4, <1>6 DEF LiveOK
  <2>2. ASSUME NEW j \in Slots \ {i}
        PROVE  LiveOK(j)'
    <3>1. LiveOK(j)
      BY DEF HeardInv
    <3> QED
      BY <1>3, <1>5, <1>10, <3>1 DEF LiveOK
  <2> QED
    BY <2>1, <2>2
<1>13. \A r \in Sessions : HeardOK(r)'
  <2>1. HeardOK(s)'
    BY <1>1, <1>4 DEF HeardOK, Base
  <2> QED
    BY <1>1, <1>3, <1>7, <2>1, OthersHeard
<1> QED
  BY <1>9, <1>11, <1>12, <1>13 DEF HeardInv

LEMMA HeardInit == Init => HeardInv
<1> SUFFICES ASSUME Init
             PROVE  HeardInv
  OBVIOUS
<1>1. ExactInv
  BY ExactInit
<1>2. \A i \in Slots : attempt[i] = Idle
  BY DEF Init
<1>3. OneAwaited /\ \A i \in Slots : SaysOK(i) /\ LiveOK(i)
  BY <1>2 DEF OneAwaited, SaysOK, LiveOK, Idle
<1>4. \A s \in Sessions : HeardOK(s)
  BY DEF Init, HeardOK, NewClient, NewState
<1> QED
  BY <1>1, <1>3, <1>4 DEF HeardInv

LEMMA HeardNext == HeardInv /\ [Next]_vars => HeardInv'
<1> SUFFICES ASSUME HeardInv, [Next]_vars
             PROVE  HeardInv'
  OBVIOUS
<1>1. ExactInv'
  BY ExactNext DEF HeardInv
<1>2. CASE UNCHANGED vars
  <2>1. UNCHANGED <<client, due, attempt>>
    BY <1>2 DEF vars, history
  <2>2. Grows
    BY <2>1, GrowsIfSame
  <2>3. \A i \in Slots : Speaks(i)
    BY <2>1, <2>2, SpeaksSame
  <2> QED
    BY <1>1, <2>1, <2>3, WorkKeeps
<1>3. ASSUME NEW s \in Sessions, SessionSteps(s)
      PROVE  HeardInv'
  BY <1>1, <1>3, SimpleCallsHeard, CallFailsHeard, RouteHeard, PushHeard, AnswerHeard
     DEF SessionSteps
<1>4. ASSUME NEW i \in Slots, Serve(i) \/ GivesUp(i)
      PROVE  HeardInv'
  BY <1>1, <1>4, WorkersHeard
<1>5. CASE StoreSteps
  BY <1>1, <1>5, StoresHeard
<1> QED
  BY <1>2, <1>3, <1>4, <1>5 DEF Next

-------------------------------------------------------------------------------
(* The stream a session sees.                                              *)

Offering(c) == IF c.pc = "push" THEN c.sent ELSE None
Phase(c)    == IF c.pc = "gone" THEN "ended" ELSE c.pc

offeredBy == [s \in Sessions |-> Offering(client[s])]
heardBy   == [s \in Sessions |-> client[s].text.chunks]
cutsOf    == [s \in Sessions |-> client[s].text.cuts]
phaseOf   == [s \in Sessions |-> Phase(client[s])]

\* A step of one client is a step of its stream.
LEMMA OneStream ==
  ASSUME HeardInv, NEW s \in Sessions, NEW d, Becomes(s, d)
  PROVE  /\ offeredBy' = [offeredBy EXCEPT ![s] = Offering(d)]
         /\ heardBy'   = [heardBy   EXCEPT ![s] = d.text.chunks]
         /\ cutsOf'    = [cutsOf    EXCEPT ![s] = d.text.cuts]
         /\ phaseOf'   = [phaseOf   EXCEPT ![s] = Phase(d)]
         /\ offeredBy[s] = Offering(client[s]) /\ heardBy[s] = client[s].text.chunks
         /\ phaseOf[s] = Phase(client[s])
         /\ Offering(d) = Offering(client[s]) => UNCHANGED offeredBy
         /\ d.text.chunks = client[s].text.chunks => UNCHANGED heardBy
         /\ d.text.cuts = client[s].text.cuts => UNCHANGED cutsOf
         /\ Phase(d) = Phase(client[s]) => UNCHANGED phaseOf
<1>1. /\ client'[s] = d /\ \A r \in Sessions \ {s} : client'[r] = client[r]
  BY DEF HeardInv, ExactInv, TypeInv, Becomes
<1>2. /\ offeredBy' = [offeredBy EXCEPT ![s] = Offering(d)]
      /\ Offering(d) = Offering(client[s]) => UNCHANGED offeredBy
  BY <1>1 DEF offeredBy, Offering
<1>3. /\ heardBy' = [heardBy EXCEPT ![s] = d.text.chunks]
      /\ d.text.chunks = client[s].text.chunks => UNCHANGED heardBy
      /\ cutsOf' = [cutsOf EXCEPT ![s] = d.text.cuts]
      /\ d.text.cuts = client[s].text.cuts => UNCHANGED cutsOf
  BY <1>1 DEF heardBy, cutsOf
<1>4. /\ phaseOf' = [phaseOf EXCEPT ![s] = Phase(d)]
      /\ Phase(d) = Phase(client[s]) => UNCHANGED phaseOf
  BY <1>1 DEF phaseOf, Phase
<1> QED
  BY <1>1, <1>2, <1>3, <1>4 DEF offeredBy, heardBy, cutsOf, phaseOf

\* Only a session's own steps are seen in its stream.
LEMMA Unseen == UNCHANGED client => UNCHANGED <<offeredBy, heardBy, cutsOf, phaseOf>>
BY DEF offeredBy, heardBy, cutsOf, phaseOf, Offering, Phase

\* Start, Flush, the end of a session and its clean-up.
LEMMA PlainStepsSeen ==
  ASSUME HeardInv, NEW s \in Sessions,
         Start(s) \/ Flush(s) \/ Leave(s) \/ CallFails(s) \/ TearDown(s) \/ Route(s)
  PROVE  \/ Resumed!Start(s) \/ Resumed!AskFinal(s) \/ Resumed!End(s)
         \/ UNCHANGED <<offeredBy, heardBy, cutsOf, phaseOf>>
<1>1. client[s] \in ClientRec /\ HeardOK(s)
  BY DEF HeardInv, ExactInv, TypeInv
<1>2. CASE Start(s)
  <2> DEFINE d == Opened(client[s])
  <2>1. d.pc = "idle" /\ d.text = NewState /\ client[s].text = NewState /\ client[s].pc = "off"
    <3> HIDE DEF Content, States, Named
    <3> QED
      BY <1>1, <1>2 DEF Start, Opened, OpenedUnreset, ClientRec, HeardOK
  <2>2. Becomes(s, d)
    BY <1>2 DEF Start
  <2> HIDE DEF d
  <2>3. phaseOf[s] = "off" /\ phaseOf' = [phaseOf EXCEPT ![s] = "idle"]
    BY <2>1, <2>2, OneStream DEF Phase
  <2>4. UNCHANGED <<offeredBy, heardBy, cutsOf>>
    BY <2>1, <2>2, OneStream DEF Offering
  <2> QED
    BY <2>3, <2>4 DEF Resumed!Start, Resumed!Moves, offeredBy, heardBy, cutsOf, phaseOf,
       Offering, Phase
<1>3. CASE Flush(s)
  <2> DEFINE d == [client[s] EXCEPT !.pc = "flush", !.place = 0, !.tries = 0]
  <2>1. d.pc = "flush" /\ d.text = client[s].text /\ client[s].pc = "idle"
    <3> HIDE DEF Content, States, Named
    <3> QED
      BY <1>1, <1>3 DEF Flush, ClientRec
  <2>2. Becomes(s, d)
    BY <1>3 DEF Flush
  <2> HIDE DEF d
  <2>3. phaseOf[s] = "idle" /\ phaseOf' = [phaseOf EXCEPT ![s] = "flush"]
    BY <2>1, <2>2, OneStream DEF Phase
  <2>4. UNCHANGED <<offeredBy, heardBy, cutsOf>>
    BY <2>1, <2>2, OneStream DEF Offering
  <2> QED
    BY <2>3, <2>4 DEF Resumed!AskFinal, Resumed!Moves, offeredBy, heardBy, cutsOf, phaseOf, Offering,
       Phase
<1>4. CASE Leave(s) \/ CallFails(s)
  <2> DEFINE d == [client[s] EXCEPT !.pc = "ended"]
  <2>1. d.pc = "ended" /\ d.text = client[s].text /\ client[s].pc # "off"
    <3> HIDE DEF Content, States, Named
    <3> QED
      BY <1>1, <1>4 DEF Leave, CallFails, ClientRec
  <2>2. Becomes(s, d)
    BY <1>4 DEF Leave, CallFails
  <2> HIDE DEF d
  <2>3. phaseOf[s] # "off" /\ phaseOf' = [phaseOf EXCEPT ![s] = "ended"]
    BY <2>1, <2>2, OneStream DEF Phase
  <2>4. UNCHANGED <<heardBy, cutsOf>> /\ offeredBy' = [offeredBy EXCEPT ![s] = None]
    BY <2>1, <2>2, OneStream DEF Offering
  <2> QED
    BY <2>3, <2>4 DEF Resumed!End, offeredBy, heardBy, cutsOf, phaseOf, Offering, Phase
<1>5. CASE TearDown(s)
  <2> DEFINE d == [client[s] EXCEPT !.pc = "gone"]
  <2>1. d.pc = "gone" /\ d.text = client[s].text /\ client[s].pc = "ended"
    <3> HIDE DEF Content, States, Named
    <3> QED
      BY <1>1, <1>5 DEF TearDown, ClientRec
  <2>2. Becomes(s, d)
    BY <1>5 DEF TearDown
  <2> HIDE DEF d
  <2> QED
    BY <2>1, <2>2, OneStream DEF Offering, Phase
<1>6. CASE Route(s)
  <2>1. PICK p : Becomes(s, [client[s] EXCEPT !.place = p, !.tries = @ + 1])
    BY <1>6 DEF Route
  <2> DEFINE d == [client[s] EXCEPT !.place = p, !.tries = @ + 1]
  <2>2. d.pc = client[s].pc /\ d.text = client[s].text /\ d.sent = client[s].sent
    <3> HIDE DEF Content, States, Named
    <3> QED
      BY <1>1 DEF ClientRec
  <2>3. Becomes(s, d)
    BY <2>1
  <2> HIDE DEF d
  <2> QED
    BY <2>2, <2>3, OneStream DEF Offering, Phase
<1> QED
  BY <1>2, <1>3, <1>4, <1>5, <1>6

\* The next utterance.
LEMMA RenewSeen ==
  ASSUME HeardInv, NEW s \in Sessions, Renew(s)
  PROVE  Resumed!Anew(s)
<1> DEFINE d == Opened(client[s])
<1>1. client[s] \in ClientRec
  BY DEF HeardInv, ExactInv, TypeInv
<1>2. d.pc = "idle" /\ d.text = NewState /\ client[s].pc = "flushed"
  <2> HIDE DEF Content, States, Named
  <2> QED
    BY <1>1 DEF Renew, Opened, OpenedUnreset, ClientRec
<1>3. Becomes(s, d)
  BY DEF Renew
<1> HIDE DEF d
<1>4. phaseOf[s] = "flushed" /\ phaseOf' = [phaseOf EXCEPT ![s] = "idle"]
  BY <1>2, <1>3, OneStream DEF Phase
<1>5. /\ UNCHANGED offeredBy /\ heardBy' = [heardBy EXCEPT ![s] = << >>]
      /\ cutsOf' = [cutsOf EXCEPT ![s] = {}]
  BY <1>2, <1>3, OneStream DEF Offering, NewState
<1> QED
  BY <1>4, <1>5 DEF Resumed!Anew, Resumed!Moves, offeredBy, heardBy, cutsOf, phaseOf,
     Offering, Phase

\* A chunk is offered.
LEMMA PushSeen ==
  ASSUME HeardInv, NEW s \in Sessions, NEW n \in Seqs, Push(s, n)
  PROVE  Resumed!Offer(s, n)
<1> DEFINE d == [client[s] EXCEPT !.pc = "push", !.sent = n, !.place = 0, !.tries = 0]
<1>1. client[s] \in ClientRec
  BY DEF HeardInv, ExactInv, TypeInv
<1>2. d.pc = "push" /\ d.sent = n /\ d.text = client[s].text /\ client[s].pc = "idle"
  <2> HIDE DEF Content, States, Named
  <2> QED
    BY <1>1 DEF Push, ClientRec
<1>3. Becomes(s, d)
  BY DEF Push
<1> HIDE DEF d
<1>4. phaseOf[s] = "idle" /\ phaseOf' = [phaseOf EXCEPT ![s] = "push"]
  BY <1>2, <1>3, OneStream DEF Phase
<1>5. UNCHANGED <<heardBy, cutsOf>> /\ offeredBy' = [offeredBy EXCEPT ![s] = n]
  BY <1>2, <1>3, OneStream DEF Offering
<1> QED
  BY <1>4, <1>5 DEF Resumed!Offer, Resumed!Moves, offeredBy, heardBy, cutsOf, phaseOf,
     Offering, Phase

\* The answer covers what was heard before and the chunk it is awaited for.
LEMMA PushAnsweredSeen ==
  ASSUME HeardInv, NEW s \in Sessions, NEW i \in Slots, PushAnswered(s, i)
  PROVE  Resumed!Hear(s)
<1> DEFINE c == client[s]
           a == attempt[i]
           d == [c EXCEPT !.pc = "idle", !.applied = c.sent, !.text = a.text]
<1>1. /\ c \in ClientRec /\ ClientOK(s) /\ HeardOK(s) /\ SaysOK(i) /\ LiveOK(i)
      /\ AttemptOK(i) /\ a.live /\ a.s = s /\ a.pc = "done" /\ c.pc = "push"
  BY DEF HeardInv, ExactInv, TypeInv, PushAnswered, AwaitedBy
<1>2. /\ a.text.chunks = Append(c.text.chunks, c.sent)
      /\ a.text.cuts \subseteq 1..Len(c.text.chunks)
  <2>1. a.mode = "push" /\ a.ref = c.applied /\ a.sink = c.sent
    BY <1>1 DEF LiveOK
  <2>2. a.text.chunks = due[s][c.sent] /\ due[s][c.sent] = Append(Base(s, c.applied), c.sent)
    BY <1>1, <2>1 DEF SaysOK, ClientOK
  <2>3. a.text.cuts \subseteq 1..Len(Base(s, c.applied))
    BY <1>1, <2>1 DEF SaysOK
  <2> QED
    BY <1>1, <2>2, <2>3 DEF HeardOK
<1>3. d.pc = "idle" /\ d.text = a.text
  <2> HIDE DEF Content, States, Named
  <2> QED
    BY <1>1 DEF ClientRec
<1>4. Becomes(s, d)
  BY DEF PushAnswered
<1> HIDE DEF d
<1>5. phaseOf[s] = "push" /\ phaseOf' = [phaseOf EXCEPT ![s] = "idle"]
  BY <1>1, <1>3, <1>4, OneStream DEF Phase
<1>6. heardBy' = [heardBy EXCEPT ![s] = Append(heardBy[s], offeredBy[s])]
  <2>1. /\ heardBy' = [heardBy EXCEPT ![s] = d.text.chunks]
        /\ heardBy[s] = c.text.chunks /\ offeredBy[s] = Offering(c)
    BY <1>4, OneStream
  <2>2. Offering(c) = c.sent /\ d.text.chunks = Append(c.text.chunks, c.sent)
    BY <1>1, <1>2, <1>3 DEF Offering
  <2> QED
    BY <2>1, <2>2
<1>7. offeredBy' = [offeredBy EXCEPT ![s] = None]
  BY <1>3, <1>4, OneStream DEF Offering
<1>8. cutsOf' = [cutsOf EXCEPT ![s] = a.text.cuts] /\ heardBy[s] = c.text.chunks
  BY <1>3, <1>4, OneStream
<1> QED
  BY <1>2, <1>5, <1>6, <1>7, <1>8 DEF Resumed!Hear, Resumed!HandedOver, Resumed!Moves,
     offeredBy, heardBy, cutsOf, phaseOf, Offering, Phase

\* A final says what was heard.
LEMMA FlushAnsweredSeen ==
  ASSUME HeardInv, NEW s \in Sessions, NEW i \in Slots, FlushAnswered(s, i)
  PROVE  Resumed!Say(s)
<1> DEFINE c == client[s]
           a == attempt[i]
<1>1. /\ c \in ClientRec /\ HeardOK(s) /\ SaysOK(i) /\ LiveOK(i)
      /\ a.live /\ a.s = s /\ a.pc = "done" /\ c.pc = "flush"
  BY DEF HeardInv, ExactInv, TypeInv, FlushAnswered, AwaitedBy
<1>2. a.text.chunks = c.text.chunks /\ a.text.cuts \subseteq 1..Len(c.text.chunks)
  <2>1. a.mode = "flush" /\ a.ref = c.applied
    BY <1>1 DEF LiveOK
  <2> QED
    BY <1>1, <2>1 DEF SaysOK, HeardOK
<1>3. PICK pc \in {"flushed", "ended"} : Becomes(s, [c EXCEPT !.pc = pc, !.text = a.text])
  BY DEF FlushAnswered
<1> DEFINE d == [c EXCEPT !.pc = pc, !.text = a.text]
<1>4. d.pc = pc /\ d.text = a.text /\ Becomes(s, d)
  <2> HIDE DEF Content, States, Named
  <2> QED
    BY <1>1, <1>2, <1>3 DEF ClientRec
<1> HIDE DEF d
<1>5. phaseOf[s] = "flush" /\ phaseOf' = [phaseOf EXCEPT ![s] = pc]
  BY <1>1, <1>4, OneStream DEF Phase
<1>6. UNCHANGED <<offeredBy, heardBy>>
  BY <1>1, <1>2, <1>4, OneStream DEF Offering
<1>7. cutsOf' = [cutsOf EXCEPT ![s] = a.text.cuts] /\ heardBy[s] = c.text.chunks
  BY <1>4, OneStream
<1> QED
  BY <1>2, <1>5, <1>6, <1>7 DEF Resumed!Say, Resumed!HandedOver, offeredBy, heardBy,
     cutsOf, phaseOf, Offering, Phase

\* Whoever serves a chunk, and whatever was retried, lost or restarted before,
\* an answer to the session (stateless.go's Push and Flush) covers the chunks it
\* offered, each once and in order, and was cut only after a chunk that had been
\* answered before; or the session ends.  Where it was cut its words may differ.
THEOREM StatelessImplementsStream == Spec => ImplementsStream
<1>1. Init => Resumed!StreamInit
  <2> SUFFICES ASSUME Init
               PROVE  Resumed!StreamInit
    OBVIOUS
  <2>1. \A s \in Sessions : client[s].pc = "off" /\ client[s].text = NewState
    BY DEF Init, NewClient
  <2> QED
    BY <2>1 DEF Resumed!StreamInit, NewState
<1>2. HeardInv /\ [Next]_vars => [Resumed!StreamNext]_(Resumed!streamVars)
  <2> SUFFICES ASSUME HeardInv, [Next]_vars
               PROVE  Resumed!StreamNext \/ UNCHANGED <<offeredBy, heardBy, cutsOf, phaseOf>>
    BY DEF Resumed!streamVars, offeredBy, heardBy, cutsOf, phaseOf, Offering, Phase
  <2>1. CASE UNCHANGED client
    BY <2>1, Unseen
  <2>2. ASSUME NEW s \in Sessions, SessionSteps(s)
        PROVE  Resumed!StreamNext \/ UNCHANGED <<offeredBy, heardBy, cutsOf, phaseOf>>
    BY <2>2, PlainStepsSeen, RenewSeen, PushSeen, PushAnsweredSeen, FlushAnsweredSeen
       DEF SessionSteps, Resumed!StreamNext
  <2>3. ASSUME NEW i \in Slots, Serve(i) \/ GivesUp(i)
        PROVE  UNCHANGED client
    BY <2>3 DEF Serve, GivesUp, LoadFresh, LoadHot, LoadFromTier, Miss, LoadUnavailable,
       Publish, PublishUnavailable, Finalize, File
  <2>4. CASE StoreSteps
    <3>1. UNCHANGED client
      BY <2>4 DEF StoreSteps, SweepTick, TierRestarts, Retire, Age, WorkerRestarts
    <3> QED
      BY <2>1, <3>1
  <2>5. CASE UNCHANGED vars
    BY <2>1, <2>5 DEF vars
  <2> QED
    BY <2>1, <2>2, <2>3, <2>4, <2>5 DEF Next
<1> QED
  BY <1>1, <1>2, HeardInit, HeardNext, PTL DEF Spec, ImplementsStream, Resumed!StreamSpec
===============================================================================
