---------------------------- MODULE StatelessStream ---------------------------
(***************************************************************************)
(* Stateless sessions: internal/backend/stateless.go pushes every chunk    *)
(* through Bifrost with the name of the state to read and the name of the  *)
(* state to write, any worker of the model family serves it                *)
(* (worker/server.py, worker/kvtier.py), and the versions live in the      *)
(* shared tier (cmd/kvtier).                                               *)
(*                                                                         *)
(* An attempt is one request at one worker: a load, an inference whose     *)
(* result is stored, and the filing of the result in the worker's hot      *)
(* cache.  One that Bifrost has given up on goes on.  Model state is       *)
(* changed in place, so hot caches and attempts hold objects of a heap.    *)
(*                                                                         *)
(* A state is kept as the chunks it has absorbed and the places where it   *)
(* was cut: a blob does not hold what the feature extractor has taken in   *)
(* and not yet given to the encoder, so whoever reads one goes on without  *)
(* a few samples of the chunk before (StreamEncoder says how many).        *)
(***************************************************************************)
EXTENDS KVTier

CONSTANTS
  Sessions, Workers,
  None,       \* no chunk, no object, no worker
  Seqs,       \* the last sequence numbers a chunk may have
  Chain,      \* each session's primary and fallbacks, in order
  Slots,      \* bound: how many attempts there are at a time
  Objects,    \* bound: how many model states there are at a time
  MaxTries,   \* bound: Bifrost's attempts at one call
  MaxFaults   \* bound: timeouts, tier errors and restarts

ASSUME StatelessAssumption ==
  /\ Seqs \subseteq Nat \ {0}
  /\ None \notin Seqs \cup Objects
  /\ \A s \in Sessions : Chain[s] \in Seq(Workers)
  /\ MaxFaults \in Nat

VARIABLES
  client,     \* each session's StatelessClient and where its loop stands
  attempt,    \* the requests at the workers
  hot,        \* each worker's hot cache
  heap,       \* what each model state has absorbed
  tier,       \* the shared tier
  retiring,   \* versions whose deletion is on its way
  due,        \* history: what each version is to hold
  utterance,  \* history: the chunks offered since the utterance began
  faults

history == <<due, utterance>>
vars == <<client, attempt, hot, heap, tier, retiring, history, faults>>

\* A state before its first chunk.
NewState == [chunks |-> << >>, cuts |-> {}]

NewClient == [pc |-> "off", applied |-> 0, text |-> NewState, sent |-> 0,
              place |-> 0, tries |-> 0]
Idle == [pc |-> "free", s |-> None, mode |-> None, ref |-> 0, sink |-> 0,
         w |-> None, obj |-> None, text |-> NewState, live |-> FALSE]

Init ==
  /\ client = [s \in Sessions |-> NewClient]
  /\ attempt = [i \in Slots |-> Idle]
  /\ hot = [w \in Workers |-> << >>]
  /\ heap = [o \in Objects |-> NewState]
  /\ tier = EmptyTier
  /\ retiring = {}
  /\ due = [s \in Sessions |-> [n \in Seqs |-> << >>]]
  /\ utterance = [s \in Sessions |-> << >>]
  /\ faults = 0

Becomes(s, c)     == client' = [client EXCEPT ![s] = c]
Goes(i, a)        == attempt' = [attempt EXCEPT ![i] = a]
Fault             == faults < MaxFaults /\ faults' = faults + 1
AwaitedBy(s)      == {i \in Slots : attempt[i].live /\ attempt[i].s = s}
Owned             == (UNION {HotObjects(hot[w]) : w \in Workers})
                       \cup {attempt[i].obj : i \in Slots}
\* What nobody holds any more is garbage.
HeapBecomes(h)    == heap' = [o \in Objects |-> IF o \in Owned' THEN h[o] ELSE NewState]
workers           == <<attempt, hot, heap>>

-------------------------------------------------------------------------------
(* The session's calls of its StatelessClient.                             *)

\* Open makes no call: a name for the session's versions, and no version yet.
OpenedUnreset(c) == [c EXCEPT !.pc = "idle", !.text = NewState]
Opened(c)        == [OpenedUnreset(c) EXCEPT !.applied = 0]

Start(s) ==
  /\ client[s].pc = "off"
  /\ Becomes(s, Opened(client[s]))
  /\ UNCHANGED <<workers, tier, retiring, history, faults>>

\* A chunk past what is applied is sent to Bifrost; one that is not, which is
\* at most the last one cut again, is answered from what is kept, without a step.
Push(s, n) ==
  LET c == client[s] IN
  /\ c.pc = "idle" /\ n > c.sent
  /\ Becomes(s, [c EXCEPT !.pc = "push", !.sent = n, !.place = 0, !.tries = 0])
  /\ utterance' = [utterance EXCEPT ![s] = Append(@, n)]
  /\ due' = [due EXCEPT ![s][n] = utterance'[s]]
  /\ UNCHANGED <<workers, tier, retiring, faults>>

\* Flush, at an endpoint or at session.end.
Flush(s) ==
  LET c == client[s] IN
  /\ c.pc = "idle"
  /\ Becomes(s, [c EXCEPT !.pc = "flush", !.place = 0, !.tries = 0])
  /\ UNCHANGED <<workers, tier, retiring, history, faults>>

\* The predecessor of a version that is stored is retired in the background.
Retired(s, c) == IF c.applied > 0 THEN {<<s, c.applied>>} ELSE {}

PushAnswered(s, i) ==
  LET c == client[s] IN
  /\ c.pc = "push" /\ i \in AwaitedBy(s) /\ attempt[i].pc = "done"
  /\ Becomes(s, [c EXCEPT !.pc = "idle", !.applied = c.sent, !.text = attempt[i].text])
  /\ retiring' = retiring \cup Retired(s, c)
  /\ Goes(i, Idle)
  /\ UNCHANGED <<hot, heap, tier, history, faults>>

\* The final of an endpoint, or of the session.
FlushAnswered(s, i) ==
  LET c == client[s] IN
  /\ c.pc = "flush" /\ i \in AwaitedBy(s) /\ attempt[i].pc = "done"
  /\ \E pc \in {"flushed", "ended"} :
       Becomes(s, [c EXCEPT !.pc = pc, !.text = attempt[i].text])
  /\ Goes(i, Idle)
  /\ UNCHANGED <<hot, heap, tier, retiring, history, faults>>

\* Bifrost gives an error, or none in time, or the client's connection is
\* gone: the session ends, and what is at the workers goes on.
CallFails(s) ==
  LET c == client[s] IN
  /\ c.pc \in {"push", "flush"} /\ c.tries > 0
  /\ Becomes(s, [c EXCEPT !.pc = "ended"])
  /\ attempt' = [i \in Slots |->
       IF i \notin AwaitedBy(s) THEN attempt[i]
       ELSE IF attempt[i].pc = "done" THEN Idle ELSE [attempt[i] EXCEPT !.live = FALSE]]
  /\ UNCHANGED <<hot, heap, tier, retiring, history, faults>>

Leave(s) ==
  /\ client[s].pc = "idle"
  /\ Becomes(s, [client[s] EXCEPT !.pc = "ended"])
  /\ UNCHANGED <<workers, tier, retiring, history, faults>>

\* Close deletes every version of the session, or cannot reach the tier.
CloseEffects(s) == {tier, DeletePrefix(tier, s)}

\* finalizeEndpoint: Close, and Open again under the same name.
Renew(s) ==
  /\ client[s].pc = "flushed"
  /\ tier' \in CloseEffects(s)
  /\ Becomes(s, Opened(client[s]))
  /\ utterance' = [utterance EXCEPT ![s] = << >>]
  /\ UNCHANGED <<workers, retiring, due, faults>>

TearDown(s) ==
  /\ client[s].pc = "ended"
  /\ tier' \in CloseEffects(s)
  /\ Becomes(s, [client[s] EXCEPT !.pc = "gone"])
  /\ UNCHANGED <<workers, retiring, history, faults>>

\* The key as a prefix of the others, in decimal.
Prefixed(key)              == {k \in Versions(tier) :
                                 k[1] = key[1] /\ \E d \in {1, 10, 100} : k[2] \div d = key[2]}
RetireEffectsByPrefix(key) == {tier, Without(tier, Prefixed(key))}
RetireEffects(key)         == {tier, Delete(tier, key)}

Retire(key) ==
  /\ key \in retiring
  /\ retiring' = retiring \ {key}
  /\ tier' \in RetireEffects(key)
  /\ UNCHANGED <<client, workers, history, faults>>

-------------------------------------------------------------------------------
(* Bifrost, which is external: attempts at the primary and then at the     *)
(* fallbacks, each perhaps more than once.                                 *)

FreeSlots == {i \in Slots : attempt[i].pc = "free"}
Call(s, w) ==
  LET c == client[s] IN
  [Idle EXCEPT !.pc = "load", !.s = s, !.mode = c.pc, !.ref = c.applied,
               !.sink = IF c.pc = "push" THEN c.sent ELSE 0, !.w = w, !.live = TRUE]

Route(s) ==
  LET c == client[s] IN
  /\ c.pc \in {"push", "flush"} /\ AwaitedBy(s) = {} /\ FreeSlots # {}
  /\ c.tries < MaxTries
  /\ \E p \in {c.place, c.place + 1} \cap DOMAIN Chain[s] :
       /\ Becomes(s, [c EXCEPT !.place = p, !.tries = @ + 1])
       /\ Goes(CHOOSE i \in FreeSlots : TRUE, Call(s, Chain[s][p]))
  /\ UNCHANGED <<hot, heap, tier, retiring, history, faults>>

\* Bifrost's own timeout, shorter than the client's; or a lost answer.
GivesUp(i) ==
  /\ attempt[i].live /\ Fault
  /\ Goes(i, IF attempt[i].pc = "done" THEN Idle ELSE [attempt[i] EXCEPT !.live = FALSE])
  /\ UNCHANGED <<client, hot, heap, tier, retiring, history>>

-------------------------------------------------------------------------------
(* A worker serving one attempt, in a thread of its own.                   *)

At(i, pc) == attempt[i].pc = pc
Key(i)    == <<attempt[i].s, attempt[i].ref>>
Sink(i)   == <<attempt[i].s, attempt[i].sink>>
IsHot(i)  == attempt[i].ref > 0 /\ Key(i) \in HotRefs(hot[attempt[i].w])
Loads(i, o) == Goes(i, [attempt[i] EXCEPT !.pc = "put", !.obj = o])
NewObject == CHOOSE o \in Objects : o \notin Owned

\* No reference: the first chunk of an utterance begins on a fresh state.
LoadFresh(i) ==
  /\ At(i, "load") /\ attempt[i].ref = 0 /\ Objects \ Owned # {}
  /\ Loads(i, NewObject)
  /\ UNCHANGED <<client, hot, tier, retiring, history, faults>>
  /\ HeapBecomes([heap EXCEPT ![NewObject] = NewState])

LoadHot(i) ==
  LET w == attempt[i].w IN
  /\ At(i, "load") /\ IsHot(i)
  /\ Loads(i, hot[w][HotIndex(hot[w], Key(i))].obj)
  /\ hot' = [hot EXCEPT ![w] = HotTake(@, Key(i))]
  /\ UNCHANGED <<client, heap, tier, retiring, history, faults>>

\* deserialize: the caches, the seam and the hypothesis of the blob, and a
\* feature extractor that has heard nothing.
Deserialized(blob) == [blob EXCEPT !.cuts = @ \cup {Len(blob.chunks)}]

\* What the tier has is not filed under the name it was read by.
Fetched(h, ref, obj) == h

LoadFromTier(i) ==
  LET w == attempt[i].w IN
  /\ At(i, "load") /\ attempt[i].ref > 0 /\ ~IsHot(i) /\ Found(tier, Key(i))
  /\ Objects \ Owned # {}
  /\ tier' = AfterGet(tier, Key(i))
  /\ hot' = [hot EXCEPT ![w] = Fetched(@, Key(i), NewObject)]
  /\ Loads(i, NewObject)
  /\ UNCHANGED <<client, retiring, history, faults>>
  /\ HeapBecomes([heap EXCEPT ![NewObject] = Deserialized(tier.m[Key(i)].blob)])

\* 424: the state is nowhere, and no fresh one takes its place.
Miss(i) ==
  /\ At(i, "load") /\ attempt[i].ref > 0 /\ ~IsHot(i) /\ ~Found(tier, Key(i))
  /\ tier' = AfterGet(tier, Key(i))
  /\ Goes(i, Idle)
  /\ UNCHANGED <<client, hot, heap, retiring, history, faults>>

\* 503: the tier does not answer a GET, or a PUT, which may have been done.
LoadUnavailable(i) ==
  /\ At(i, "load") /\ attempt[i].ref > 0 /\ ~IsHot(i) /\ Fault
  /\ Goes(i, Idle)
  /\ UNCHANGED <<client, hot, heap, tier, retiring, history>>

\* infer changes the loaded state; its answer is what the state now covers.
Absorbed(m, n) == [m EXCEPT !.chunks = Append(@, n)]
Inferred(i) ==
  LET a == attempt[i] IN
  IF a.mode = "push" THEN Absorbed(heap[a.obj], a.sink) ELSE heap[a.obj]
InferredHeap(i) == [heap EXCEPT ![attempt[i].obj] = Inferred(i)]
Settled(i, a) == IF a.live THEN a ELSE Idle

\* A stream's result is stored under its own name, if nothing is yet.
Publish(i) ==
  /\ At(i, "put") /\ attempt[i].mode = "push"
  /\ tier' = PutIfAbsent(tier, Sink(i), Inferred(i))
  /\ Goes(i, [attempt[i] EXCEPT !.pc = "file", !.text = Inferred(i)])
  /\ UNCHANGED <<client, hot, retiring, history, faults>>
  /\ HeapBecomes(InferredHeap(i))

PublishUnavailable(i) ==
  /\ At(i, "put") /\ attempt[i].mode = "push" /\ Fault
  /\ tier' \in {tier, PutIfAbsent(tier, Sink(i), Inferred(i))}
  /\ Goes(i, Idle)
  /\ UNCHANGED <<client, hot, retiring, history>>
  /\ HeapBecomes(InferredHeap(i))

\* A final is the state's last use.
Finalize(i) ==
  /\ At(i, "put") /\ attempt[i].mode = "flush"
  /\ Goes(i, Settled(i, [attempt[i] EXCEPT !.pc = "done", !.text = Inferred(i), !.obj = None]))
  /\ UNCHANGED <<client, hot, tier, retiring, history, faults>>
  /\ HeapBecomes(heap)

\* The stored state stays hot under the name it now has; then the answer.
File(i) ==
  LET a == attempt[i] IN
  /\ At(i, "file")
  /\ hot' = [hot EXCEPT ![a.w] = HotPut(@, Sink(i), a.obj)]
  /\ Goes(i, Settled(i, [a EXCEPT !.pc = "done", !.obj = None]))
  /\ UNCHANGED <<client, tier, retiring, history, faults>>
  /\ HeapBecomes(heap)

Serve(i) ==
  \/ LoadFresh(i) \/ LoadHot(i) \/ LoadFromTier(i) \/ Miss(i) \/ LoadUnavailable(i)
  \/ Publish(i) \/ PublishUnavailable(i) \/ Finalize(i) \/ File(i)

-------------------------------------------------------------------------------
(* Time, and processes that restart with nothing.                          *)

Age(key) ==
  /\ Found(tier, key)
  /\ tier' = Aged(tier, key)
  /\ UNCHANGED <<client, workers, retiring, history, faults>>

\* The sweeper's tick.
SweepTick ==
  /\ Past(tier) # {}
  /\ tier' = Sweep(tier)
  /\ UNCHANGED <<client, workers, retiring, history, faults>>

TierRestarts ==
  /\ Versions(tier) # {} /\ Fault
  /\ tier' = EmptyTier
  /\ UNCHANGED <<client, workers, retiring, history>>

WorkerRestarts(w) ==
  /\ Fault
  /\ hot' = [hot EXCEPT ![w] = << >>]
  /\ attempt' = [i \in Slots |-> IF attempt[i].w = w THEN Idle ELSE attempt[i]]
  /\ UNCHANGED <<client, tier, retiring, history>>
  /\ HeapBecomes(heap)

SessionSteps(s) ==
  \/ Start(s) \/ Flush(s) \/ CallFails(s) \/ Leave(s) \/ Renew(s) \/ TearDown(s) \/ Route(s)
  \/ \E n \in Seqs : Push(s, n)
  \/ \E i \in Slots : PushAnswered(s, i) \/ FlushAnswered(s, i)
StoreSteps ==
  \/ SweepTick \/ TierRestarts
  \/ \E key \in retiring : Retire(key)
  \/ \E key \in Versions(tier) : Age(key)
  \/ \E w \in Workers : WorkerRestarts(w)

Next ==
  \/ \E s \in Sessions : SessionSteps(s)
  \/ \E i \in Slots : Serve(i) \/ GivesUp(i)
  \/ StoreSteps

Spec == Init /\ [][Next]_vars

\* Every version grows old, and the sweeper's ticker never stops.
Ages == \E key \in Versions(tier) : Age(key)
FairSpec == Spec /\ WF_vars(Ages) /\ WF_vars(SweepTick)

-------------------------------------------------------------------------------
(* Properties.                                                             *)

Content == Seq(Seqs)
\* A state is cut after a chunk.
States  == {m \in [chunks : Content, cuts : SUBSET Nat] : m.cuts \subseteq 1..Len(m.chunks)}
Refs == (Sessions \X Seqs)

\* Types, and the bounds of the tier and of the caches.
TypeOK ==
  /\ \A s \in Sessions :
       /\ client[s].pc \in {"off", "idle", "push", "flush", "flushed", "ended", "gone"}
       /\ client[s].applied \in Seqs \cup {0} /\ client[s].text \in States
  /\ \A i \in Slots : attempt[i].pc \in {"free", "load", "put", "file", "done"}
  /\ \A w \in Workers : Len(hot[w]) <= HotMax /\ HotRefs(hot[w]) \subseteq Refs
  /\ DOMAIN heap = Objects /\ \A o \in Objects : heap[o] \in States
  /\ Versions(tier) \subseteq Refs
  /\ retiring \subseteq Refs
  /\ faults \in 0..MaxFaults

\* Wherever a version is, in the tier or hot in a worker, it is the model's
\* state after exactly the chunks its name promises: retries, stragglers and
\* eviction never leave one that misses a chunk or holds one twice.  Chunks,
\* not samples: a state that was read from the tier on its way lacks what the
\* old extractor held back at each of its cuts.
VersionsAreExact ==
  /\ \A k \in Versions(tier) : tier.m[k].blob.chunks = due[k[1]][k[2]]
  /\ \A w \in Workers : \A i \in DOMAIN hot[w] :
       heap[hot[w][i].obj].chunks = due[hot[w][i].ref[1]][hot[w][i].ref[2]]

\* The tier's map, recency list and byte counter tell the same story, and
\* the ceiling is a bound.
BytesBalance ==
  /\ {tier.lru[i] : i \in DOMAIN tier.lru} = Versions(tier)
  /\ Len(tier.lru) = Cardinality(Versions(tier))
  /\ tier.bytes = BlobSize * Cardinality(Versions(tier))
  /\ tier.bytes <= MaxBytes

\* The version the next call will read leaves the tier by age, by eviction in
\* favour of another or with the tier's process; no deletion takes it.
OnlyALossTakesTheState ==
  [][\A s \in Sessions :
       LET c == client[s]
           k == <<s, c.applied>>
       IN  /\ Found(tier, k) /\ c.pc # "ended"
           /\ client'[s].applied = c.applied
           => \/ k \in Versions(tier')
              \/ Versions(tier') \ Versions(tier) # {}
              \/ faults' # faults]_vars

\* A session that is over leaves nothing in the tier for good, even when its
\* Close failed or a straggler published after it.
EndsReclaimed ==
  \A s \in Sessions :
    client[s].pc = "gone" ~> [](\A k \in Versions(tier) : k[1] # s)

\* Whoever serves a chunk, its answer covers the chunks the utterance offered,
\* each once and in order.  It need not be the answer of a stream that stayed at
\* one worker: at a cut samples are lost, and docs/KVCACHE.md:421-423 saw other
\* words there.  Cuts lie behind chunks that were answered, none in the next
\* utterance is this one's.
Resumed == INSTANCE ResumedStream WITH
  offered <- [s \in Sessions |-> IF client[s].pc = "push" THEN client[s].sent ELSE None],
  heard   <- [s \in Sessions |-> client[s].text.chunks],
  cuts    <- [s \in Sessions |-> client[s].text.cuts],
  phase   <- [s \in Sessions |-> IF client[s].pc = "gone" THEN "ended" ELSE client[s].pc]
ImplementsStream == Resumed!StreamSpec
===============================================================================
