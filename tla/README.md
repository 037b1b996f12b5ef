# A formal model of asr-stress-gym

asr-stress-gym is a gateway for streaming speech recognition. Clients stream
audio frames over a WebSocket; the gateway detects utterances, cuts the audio
into chunks, pushes the chunks to a worker that keeps the model's state, and
moves a session to another worker when a call fails. This directory holds TLA+
models of that program, the TLC configurations that check them and TLAPS proofs
about them. Paths below are relative to `src/`.

## The system

| Component | State | Operations | Talks to |
|---|---|---|---|
| Audio journal, `internal/journal` | ring of 1500 records, write index, committed floor | Append, ReadAfter, ReadFromCommitted, TrimBefore | written by the session loop, read by recovery and by finals |
| Audio pipelines, `internal/audio` | reframing residue, hysteresis counters, pre-roll, accumulator | Ingest, Boundary, Ready, Flush, RetentionStart, Recut | session loop; Recut by recovery |
| Session loop, `cmd/gateway/conn.go`, `internal/session` | `InferenceState`, emitter, sequence validator, client | session.start, audio, session.end, dispatch, finalize, cleanup | everything; three goroutines over two bounded channels, plus one detached goroutine per checkpoint |
| Failover and checkpoints, `internal/coord` | latest checkpoint per session; locals of the retry loop | HandleBackendFailure, RecoverSameModel, RecoverCrossModel, Store, Latest, Delete, Corrupt | router, workers, journal, pipeline, emitter |
| Worker stream API, `worker/server.py`, `worker/state.py` | session records by handle: model state, generation, last applied sequence | open, push, flush, restore, checkpoint, close | called over HTTP |
| Model state, `worker/adapters/zipformer_kv.py`, `worker/kvcache` | feature extractor, seam, encoder cache, hypothesis; a blob per checkpoint | infer, finalize, serialize, deserialize | the stream API, in a thread of its own |
| Router, `internal/router` | per worker: health windows, ejection, probe, outstanding, token bucket | Pick, Report, On429, Bind/Unbind, Add, MarkUnhealthy, SetDraining | session loop, failover, node probes |
| Admission, `internal/admission` | active sessions | Admit, Release, ChunkPolicy | session loop |
| Stateless client, `internal/backend/stateless.go`; KV tier, `cmd/kvtier`, `worker/kvtier.py` | version and handle of the shared state; immutable blobs with LRU and TTL | Open, Push, Flush, Close; put, get, delete, sweep | Bifrost, workers |
| Connection, `cmd/gateway/conn.go` | two bounded channels, one context, the socket | readLoop, sessionLoop, writeLoop, handleConnection | the client, the session, the hub |
| Dashboard hub, `internal/dash` | a row per live session, ended rows, ring of notable events, subscribers | SessionStarted/Ended, Failover, PushObserved, Refused, Observe, Since, subscribe | told by session and writer, read by browsers over SSE |
| Fleet manager, `cmd/fleetmanager`; gateway process, `cmd/gateway/main.go` | containers; node probes | launch, stop, register | Docker, router |
| Metrics, wire framing, adapters, tooling | counters, encodings, inference, tests | | |

What makes it hard: a recovery rebuilds a model's state from the journal, so
chunk boundaries, the trim at a final, and the floor must agree with what the
live path did; a checkpoint is taken by a goroutine nothing waits for; a push
may take effect and still fail; a recovery installs a candidate before it knows
that it works; and the connection may vanish at every point. `PROJECT.json`
lists these hazards at the lines where they bite, with the properties that
cover them.

What makes each component correct, in a sentence: the **journal** replays
exactly what it retains above the floor, in order; the **pipelines** send all
speech once and cut a replay as they cut it live; a **session**'s worker holds
exactly the audio dispatched, its finals cover their utterance and its client
sees monotone revisions; **failover** keeps one bind per session and ends; a
**worker** applies a chunk at most once; the **router** probes an ejected
worker with one session at a time and lets it come back; **admission** counts
every admitted session once; the **stateless client and the tier** never
continue from another version than the last acknowledged one, whoever serves a
chunk; a **model's state** carries all of its audio that a checkpoint can; a **connection**'s goroutines all return and write what they promised
first; the **dashboard** shows what the client was told.

## Modules

| Module | Models | Correspondence |
|---|---|---|
| `AudioLog` | what the journal promises | records are sequence numbers; `retained`, `floor`, `trimmed`; `Record` is Append, `Commit` is TrimBefore |
| `Journal` | `internal/journal` itself | `records`, `writeIdx`, `size`, `committedSeq`, `haveCommitted` are the struct's fields; implements `AudioLog` through the unwound `entries` |
| `Filtering` | removing elements from a list | `Dropping` is `SelectSeq` for a test of membership, written as a recursive function so that it can be reasoned about |
| `AudioPipeline` | `internal/audio`, as operators on a pipeline value | `Feed`, `ForceCut`, `KeepPreRoll`, `Inactive`/`Voiced`/`Silent` (the three branches of applyHysteresis), `Recut`; a chunk is the sequence of its frames, durations are microseconds and lose their fraction where the code converts to whole milliseconds |
| `UtteranceAudio` | handleAudioFrame and session.end of a session whose worker never fails | one step per frame; composes `AudioPipeline` and `AudioLog` |
| `TranscriptContract` | what a client may rely on in the transcript events | partial, reset, final, next utterance |
| `Session` | one session with its workers, the failover and the checkpoints | one step per remote call or stretch between two; composes `AudioLog` and `AudioPipeline`, implements `TranscriptContract` |
| `Health` | one worker's circuit breaker, windows and token bucket, as operators on two records | `Eligible`, `DueForProbe`, `BeginProbe`, `Reported` are the methods of router.go; `Evaluated` is the part of report that judges error rate and gray failure |
| `Fleet` | many sessions on one router and one admission controller | one step per stretch of Pick between two locks, per report, per remote call; composes `Health` |
| `KVTier` | the shared tier and a worker's hot cache, as operators on two values | `Put`, `PutIfAbsent`, `Found`/`AfterGet`, `Delete`, `DeletePrefix`, `Sweep` are the tier's methods, `HotTake`, `HotPut` the cache's; what a blob holds is its user's |
| `ResumedStream` | what a stateless stream promises its session | an offered chunk, what the last answer covers, where its state had changed hands, a phase |
| `StatelessStream` | stateless sessions: client, Bifrost's attempts, workers, tier | one step per call, answer, load, store and filing; composes `KVTier`, implements `ResumedStream` |
| `Hub` | the dashboard's observation point, as operators on its value | one operator per hook and one for `Observe`; an event is its number, kind and session |
| `Connection` | one connection's four goroutines, the hub and one browser | one step per channel operation, per call, per broadcast; composes `Hub` |
| `StreamEncoder` | one utterance in a worker whose state can be serialized | one step per call, encoder window, commit, checkpoint and restore; audio is counted in frame shifts, a hypothesis is the windows it was decoded from |
| `JournalProofs`, `AudioProofs`, `SessionProofs`, `FleetProofs`, `StatelessProofs`, `ConnectionProofs` | theorems about `Journal`, `UtteranceAudio`, `Session`, `Fleet`, `StatelessStream` and `Connection` | see Proofs |
| `DataTheorems`, `PipelineTheorems` | induction over lists, and what the pipeline's operators keep, for those proofs | see Proofs |
| `MCJournal`, `MCUtteranceAudio`, `MCSession`, `MCFleet`, `MCStatelessStream`, `MCConnection`, `MCStreamEncoder` | instances for TLC | |

In `Session` a model's state is the sequence of frames it has absorbed and a
transcript is the state it was read from. `pc` is where the session's goroutine
is; a push takes two steps (`PushInfer`, `PushCommit`) because the adapter
changes the model before the record is committed, and a checkpoint taken in
between is what the worker's event loop really allows. `PushFails` covers a
lost request, a lost answer, a timeout, a refusal, a dead worker and a
cancelled context: with or without the commit. What the client of `internal/backend`
returns is an operator for each of its calls (`CallFails`, `FlushFails`, `OpenFails`,
`RestoreCallFails`, `CheckpointResp`, `CloseSent`), and `TranscribeVia` is Bifrost's
answer for a final, whose failure is answered by a flush. The router is external here:
`Pick` may return any worker outside the excluded set, `GiveUp` stands for no
capacity. The three goroutines of a connection are folded into the flag `gone`,
the cancelled context; once it is set, calls fail and a send may or may not
notice it.

`Fleet` is the other side of `Session`: the router in full, and of each session
only what it does with the router. `Pick` takes no lock across its scan, so it
is cut where the code lets others in: the list of workers (`PickBegins`), the
filter and the score of each (`Filter`, `Consider`), the token and then the mark
of a trial (`TakeProbe`, `Begin`), or the token of the best (`TakeBest`). A
session excludes a worker whose open failed, a failover its owner; when its
attempts or the workers run out it leaves, which gives back the slot first and
the bind after (`Release`, `Unbind`). Every outcome travels through `report`, so
that a report may arrive after the worker was ejected, marked by another session
or restored. `from` in a pending report says whose answer it is, and is a ghost.
Timers are abstracted to the moment they run out: `TimerExpires`,
`RetryAfterPasses` and `Refill` may happen whenever they could, so the length of
a backoff is not kept. Three merges make the model coarser than the code:
`Pick` reads its clock once at the start and the model the timer at each filter,
a report reads its peers' windows in the step that applies it, and a refill is
always to the full bucket.

`StatelessStream` is the other kind of session. A chunk travels with the name of
the version to start from and the name of the version to make; Bifrost, external
here, tries the session's primary and its fallbacks, gives up on an attempt when
it likes (`Route`, `GivesUp`), and the attempt it has given up on goes on at its
worker. There an attempt is three steps (load, inference with the store of its
result, filing in the hot cache) because each happens in a thread of its own and
between two of them anything else may: another attempt at the same chunk, an
eviction, a restart, the session's end. The adapters change a state in place, so
hot caches and attempts hold objects of a `heap`, and an object nobody holds is
garbage; without the heap the one hazard the hot cache has, a state that is
changed while it is still filed under its old name, could not be expressed. A state
is the chunks it has absorbed and the places between them where it was read from
the tier: `Deserialized` puts one there, since a blob comes back with a feature
extractor that has heard nothing (`worker/adapters/zipformer_kv.py:251`) and what
the last one held back is gone. So the answers are not those of an uninterrupted
stream: `docs/KVCACHE.md:421-423` reports partials that differ across such a
transfer. What `ResumedStream` promises is per chunk: each is covered once and in
order, and samples are lost only behind a chunk that was answered. How many they
are is below this module; `RestoreLosesLittle` of `StreamEncoder` bounds them.
Errors of the client's own context and its timeout are `CallFails`. A push at or
below what is applied is answered from what is kept and is not a step. The 422
of a model mismatch cannot happen, since one family has one key. `Close` and a
retirement may fail without anybody noticing (`CloseEffects`, `RetireEffects`).
`due` and `utterance` are ghosts: what each version is to hold.

`Connection` has the channels and the context that `Session` folds into `gone`.
A message becomes a list of things to do (`Plans`): calls to the backend, calls
to the hub and events for the client; what the calls do is `Session`'s and
`StatelessStream`'s business. A recording by the hub is one step, under its
lock; the broadcast of what it recorded is another, after the lock, which is
where two goroutines' events may change places. Discontinuity events and
repeated sequence numbers only add events of kinds the model already has.
`HandlerReturns` is the deferred close of the socket and the deferred
cancellation together, which nothing can tell apart. `told`, `sent`, `written`
and `writeFailed` are ghosts.

`StreamEncoder` opens up what `Session` calls a model's state. The extractor is
external and abstracted to the number of frames it holds back (`Lag`); the rest is
what `_consume` does: windows of `Window` frames that advance by `Advance`, and a
remainder, the seam, that is stored only when the loop has ended (`Encode`,
`Retain`). The loop runs in a thread, so a checkpoint may be taken between any two
of its turns and before the commit that moves the label. The encoder's cache and
the hypothesis change in one step for each window; `finalize` returns and resets in
one (`Finish`), where the gateway also deletes the utterance's checkpoint: one that
comes later is `Session`'s matter. `exact` and a checkpoint's `whole` are ghosts
that tell which checkpoints were taken between two pushes.

Ghost variables of `Session`: `dispatched` is what the session has pushed or counts as
covered for the open utterance, `final` what the newest final was made of, and
`exact` records that no recovery met one of the defects found below. The
properties about exactness (`StateIsWhatWasDispatched`, `FinalCoversUtterance`) are
conditional on it, so that they say what holds besides those defects, and do not
catch them. `exact` is lost, until the utterance ends, when

- a same-model recovery restores a checkpoint that is not the state after the
  chunks its label covers: a torn one, or one of a former utterance;
- a same-model recovery replays a tail that is a chunk or longer and is silent in
  part or too short for an onset (`CutAsLive`): it is recut by a pipeline that
  starts inactive;
- a recovery takes over from the push of a forced tail;
- a recovery takes over in an utterance whose onset carried a frame twice;

and an utterance begins without it when the one before left the floor below a
forced tail that a recovery had lost. A final transcribed by Bifrost is excepted as
well, since Bifrost gets the journal.

## Runs

| Run | Question | Instance and bounds | Result |
|---|---|---|---|
| `journal` | is the ring a log? | capacity 3, sequence numbers 1..7: wraps twice, gaps, floors below, inside and above | holds |
| `audio` | does a replay cut what the live path cut; is anything lost or trimmed too far? | 7 sequence numbers with gaps of one, frames of one or two windows, onset and silence of two windows, chunk of three, pre-roll of four, ring of six | holds; the first for frames of one length and onsets without a doubled frame |
| `session` | do state, ledger, generations and transcript survive failures? | three workers, two of one family, 6 frames, onset and silence of two frames, a chunk of two, a pre-roll of three, 2 faults, 2 attempts, 1 checkpoint goroutine at a time | holds, with the exceptions under Modules |
| `session_ends` | is every endpoint answered, every broken connection torn down? | two workers of one family, 5 frames, a pre-roll of two chunks, finals from Bifrost, otherwise as `session` | holds, likewise |
| `fleet` | are trials resolved, counters balanced and workers restored only on their own answer, whatever the order? | two workers of one family, one of which dies and comes back, two sessions used again, windows of one outcome, latencies of 1 and 4 ms against a multiple of 3 | holds |
| `fleet_recovers` | is every trial decided, and does an ejected worker come back although a peer scores better? | stateless sessions, two families, a late worker outside the shared tier, one worker with a bucket of one token that is drained and refused, windows of two | holds |
| `stateless` | are versions exact, the tier's books right, each chunk covered once and in order whoever serves it, and is everything reclaimed? | one session, two workers, sequence numbers 1 and 10 (one a prefix of the other), two attempts at a time, four states, a tier of one version of two bytes, a hot cache of one entry, three tries, two faults | holds |
| `connection` | do all goroutines end, with nothing sent dropped and the row current? | every buffer and ring holds one, three messages, one browser that connects once | holds |
| `encoder` | does a restored utterance continue where its checkpoint says, without a gap or an echo? | windows of three that advance by two, padding of three, one frame held back, six frames in chunks of one to three, two restores | holds |
| `failover_tail`, `stale_checkpoint` | findings 1 and 2 | as `session` | violated |
| `unearned_restore` | finding 3 | as `fleet`, stateless | violated |

Why the bounds are enough: seven frames hold two utterances and a third onset,
with chunk and pre-roll lengths in the proportions of the production constants
(pre-roll longer than onset plus one frame, chunk not a multiple of the onset).
In a session six frames hold two utterances of two frames each way, or one with a
pause in it, so that the tail after a checkpoint may be silent in part; two faults suffice for a failover that itself fails, or a worker that dies after a
push was lost; three workers give a same-family and a cross-family target. In a
fleet two sessions and two workers make every race between two picks, a pick and
a report, and a report and a mark; a window of one outcome makes every outcome
decisive, one of two makes degraded workers; `Drainable`, `Mortal` and `Limited`
bound which workers an operator drains, which stop answering and which have a
bucket, and the two passing runs divide them among themselves because together
they are out of reach. The
constants named in the configurations are the bounds: `Seqs`, `MaxGap`,
`MaxFaults`, `MaxJobs`, `MaxAttempts` (3 in the code, 2 here, so that it binds
before the workers run out; 1 in `fleet_recovers`, where with two workers any
retry would fall to the ejected one and hide that it is passed over).

In `stateless` two workers and two attempts make every race between an attempt
and its retry, at the same worker or another; two faults let a version be lost
and its replacement be hindered; a tier of one version makes every store an
eviction, of a newer version by a straggler too, and a hot cache of one makes
every filing one. In `connection` buffers of
one make every send a possible wait; the run with four messages holds as well
(2.8 million states). A browser connects once there (`MaxViews`), so no listed run
looks at a feed that reconnects; `MCFeedGap.cfg` does. In `encoder` chunks are shorter and longer
than a window, six frames make two windows and a seam, and a second restore starts
from a checkpoint taken after the first.

Deadlock is not checked where the stream of frames ends by the bound `Seqs` or
where the session or the connection is done; the journal checks it.

## Fairness

`Session` assumes that the session's goroutine goes on: every remote call has a
timeout and every channel send gives way to the context, so between two frames
some step is always taken (`WF` of `Dispatch`, `Ending` and `Recovery`; the
last is written out with the program counter because some step of a recovery
under way is always enabled). It does not assume that a client sends anything,
that a checkpoint is taken, that a worker comes back, or that anything fails.
When the connection is gone the read loop closes the frames channel, which is
the fairness of `gone /\ ReceiveClosed`.

`Fleet` assumes the same of each session's goroutine (`Proceeds`: everything
between two things a client does), that timers run out, and that a goroutine
whose health call failed marks the worker. Nobody has to connect, to push or to
leave, and no worker has to come back. `NotOutscoredForEver` therefore has the
premise that new sessions keep arriving, since a trial needs a session to carry
it.

`StatelessStream` assumes that versions grow old and that the sweeper's ticker
goes on, which is all that `EndsReclaimed` needs; no call has to be answered.

`Connection` assumes that each of the gateway's goroutines runs when it can: a
backend call and a write have timeouts of their own, so `CallBackend` and
`Write` are never waits. The client owes no message and the browser reads
nothing, which is what `GoroutinesEnd` is about.

## Findings

1. **`failover_tail`** A forced short tail whose push fails is not in
   `Recut`'s output and is lost, against `cmd/gateway/conn.go:822-826`.
2. **`stale_checkpoint`** A late checkpoint survives the endpoint that deleted
   its predecessor and seeds the next utterance with the old model state,
   against the intention at `cmd/gateway/conn.go:755-757`.
3. **`unearned_restore`** A stateless session opens without calling the worker
   that was picked (`cmd/gateway/conn.go:439`) and reports success, so a trial
   restores a worker that may be down, against `docs/build-plan.md:937`.

Observations the models contain and no listed run asks about; six of them have a
configuration of their own, with which TLC finds the counterexample:

- A same-model recovery replays the tail after its checkpoint through a pipeline
  that starts inactive (`internal/coord/failover.go:102`,
  `internal/audio/vad.go:244-252`). A tail with a pause in it is gated, and the chunk
  whose push failed is not pushed again, against `cmd/gateway/conn.go:822-826`.
  `MCSilentTail.cfg`, on the instance of `session`, refutes `ReplayCoversFullChunk`:
  after a checkpoint at frame 2 the frames 3 (speech), 4 (silence) and 5 (speech)
  make a chunk of 3 and 5, its push fails, and the replay cuts nothing. With 160 ms
  chunks and an onset of 40 ms any pause after the checkpoint may do this.

- The dashboard's feed replays what a browser missed and subscribes afterwards
  (`internal/dash/sse.go:204-211`), and broadcasts happen outside the hub's lock
  (`internal/dash/hub.go:517-520`): an event between the two, or overtaken by its
  successor, is never shown, and the next one hides that, against
  `internal/dash/sse.go:153-155`. `MCFeedGap.cfg` (four messages, an event channel
  of two, a browser that connects twice, rings nothing falls out of) refutes
  `ClosesItsGap`.
- A checkpoint is serialized on the event loop while the inference thread changes
  the state and before the commit moves its label (`worker/server.py:575`, `:317`):
  it may hold windows past the label, or windows together with the seam they began
  with, against `internal/journal/journal.go:14-16`. `MCTornCheckpoint.cfg`, on the
  instance of `encoder`, refutes `CheckpointAfterItsChunk` in seven steps. `Session`
  has such checkpoints too, where TLC refutes `CheckpointEndsAtItsSeq`; the ghost
  `exact` of both modules exempts what follows from one.
- The final of session.end reports a range from 0 (`cmd/gateway/conn.go:485`), an
  acknowledgement names the end of the last chunk even across a gap (`:942`), and a
  worker that was merely slow keeps its handle open after the session moved
  (`internal/coord/failover.go:235`). The contract of `TranscriptContract` has
  neither ranges nor gaps, and `Session` leaves such a handle behind.

- The frame that closes an utterance enters the pre-roll twice
  (`internal/audio/vad.go:193` and `:201`); the next live onset feeds it twice, a
  replay once, so the boundaries shift by a frame, against
  `internal/audio/pipeline.go:95-98`. `MCDoubledFrame.cfg`, on the instance of `audio`,
  refutes `RecutReproducesLive`. With frames of several lengths the boundaries differ
  even if the copy is evicted again, since it may first have displaced a frame that
  the replay keeps: `MCMixedFrames.cfg` (a pre-roll of five windows) refutes
  `RecutReproducesUndoubledLive`. The run checks `RecutReproducesUniformLive`, which
  leaves both out.
- A frame that completes no detector window reports no voice and resets the onset
  counter (`internal/audio/vad.go:161`), so speech in frames shorter than the
  window is never noticed, against `:91-92`. `MCSplitFrames.cfg`, with frames of half
  a window, refutes `SpeechIsNoticed`; the frames of `audio` are whole windows, for
  which the property says how far batching them is harmless.
- A `speech.start` still in the channel when the session ends is observed after
  the row has gone and leaves its start time behind for good; the comment at
  `internal/dash/hub.go:159` says "bounded by live sessions". TLC refutes
  `StartsAreLive` on the instance of `MCFeedGap.cfg` in 22 steps. For the same reason
  a final observed after the end is missing from the ended row.
- The comment in `internal/router/router.go` that one session at a time is
  exposed to a recovering worker (`OneTrialAtATime`) does not hold: two picks may
  both find the worker due before either marks it. TLC refutes the property in
  about twenty steps on the instance of `fleet`. `TrialHasASession` and
  `TrialIsDecided` show that both trials are resolved all the same.
- A stateless session passes over a worker outside the shared tier without a
  report (`cmd/gateway/conn.go:559`). If that worker was ejected by a health
  probe and picked as a trial it stays marked probing. In `fleet_recovers` such a
  worker does not die, and the theorem about trials assumes that all capable
  workers share the tier.
- Where a version has been lost the comments of `internal/backend/stateless.go`
  (`:310-321`) and of `cmd/kvtier/main.go` (`:122-127`) and
  `docs/STATELESS-STREAMING-DATAFLOW.md` (`:236`, `:249`) have the session replay
  its journal; `cmd/gateway/conn.go:866-877` ends it, and so does the model.
- `retire` assumes that no retry of an acknowledged chunk is outstanding
  (`internal/backend/stateless.go`); a straggler Bifrost has given up on is one.
  `OnlyALossTakesTheState` and `VersionsAreExact` hold with it.

## Proofs

Every invariant and action property the runs check is proved for every value of
the constants, except the ones listed at the end of this section. A theorem
assumes only the named assumptions on the constants of the modules it is about
(positive sizes, bounds that are natural numbers, `None` not a worker), which TLC
evaluates in every run, and what its statement adds.

**Lists.** The library's induction theorems take a predicate, which no prover
here can instantiate. `DataTheorems` restates induction with a set (`Induction`,
`BoundedInduction`), where a predicate P is the set of the n with P(n), and derives
from it what `Dropping` returns for a list of any length: the elements that are
not dropped, each as often as before and in their order (`DroppingSelects`,
`DroppingRange`, `DroppingDistinct`, `DroppingIncreasing`). `PipelineTheorems` does
the same for the two folds of the pipeline, feeding frames to the accumulator and
running `Recut` (`FoldsExist`, `FeedingInTurn`, `RunningInTurn`): whatever one
frame keeps, a fold over frames keeps. With that it proves what every operation
of `AudioPipeline` keeps: every chunk and every frame held is one that was fed,
less than a chunk is pending (`Short`), the pre-roll is within its budget
(`Rolled`) and in order (`Rising`), and `Recut` makes chunks of the frames it was
given (`RecutHolds`). The second half of the module is about where the chunks of
a stream end: frames fed in order leave in order (`Ahead`, `EndsFrom`), and an
operation on a pipeline, a change of speech included, cuts chunks that end where
the ones before did or later, and only so many of them (`Paces`,
`HysteresisPaces`).

**`JournalProofs`**, for every capacity:

- `RingCorrect`: `Spec => []RingInv`, where `RingInv` is `TypeOK` (`JournalTypes`)
  and `FillsFromTheLeft` (`AlwaysFillsFromTheLeft`). The second conjunct is the
  strengthening that makes the unwound view well-typed: without it a ring that is
  not full might read a slot never written.
- `JournalImplementsLog`: `Spec => ImplementsLog`. The core is the lemma
  `AppendUnwound`, that an append to the ring is an append to its unwound
  entries, with the oldest dropped when full; it rests on lemmas about `%` on a
  range of twice the capacity (`ModSmall`, `ModOnce`, `WrapIsMod`, `NextSlot`).
- `ReplayAlwaysExact`: `Spec => []ReplayIsExactlyAboveFloor`. The unwound entries
  are strictly increasing, and dropping a range of an increasing list leaves the
  rest of it in order.

**`AudioProofs`**, for every chunk, window, hysteresis, pre-roll, capacity and
every stream of frames:

- `AudioCorrect`: `Spec => []AudioInv`, which says where every frame the pipeline
  holds came from and orders them: what it keeps for a pre-roll is not older than
  what is pending, and that not older than what was applied. It implies `TypeOK`
  (`AudioTypes`).
- `TrimSparesWhatIsOpen`: `Spec => []NothingOpenIsTrimmed`, and
  `FloorAlwaysRises`: `Spec => FloorOnlyRises`. An endpoint puts the floor just
  below the first frame of the pre-roll, so by that order nothing an utterance is
  made of is under it.
- `AudioIsSentInOrder`: `Spec => []InSpokenOrder`, without any condition.
- `NoSpeechIsDropped`: `OnsetFitsPreRoll => (Spec => []SpokenAudioIsSent)`.
  `SpokenKept` says that the frames heard since the last silence are the newest of
  the pre-roll and last no longer than the onset's clock shows. Evicting the
  oldest frames of the pre-roll then spares them as long as it holds the onset's
  duration and one frame more, which is the hypothesis, together with frames of
  whole milliseconds: the clock adds `int(durationMs)` and would fall behind.
- `SpeechIsAlwaysNoticed`: `FramesSpanWindows => (Spec => []SpeechIsNoticed)`, where
  every frame completes a detector window and fits the pre-roll. `NoticeKept`: the
  clock has counted all the speech there was, but for less than a window. With
  shorter frames the property is false (see Findings).

With the gateway's onset of 40 ms and pre-roll of 160 ms and its windows of 20 ms,
frames of whole milliseconds from 20 to 120 satisfy both hypotheses, and so does the instance of `audio`; `VADConfig.validate` asks for
neither, so they are conditions on a deployment.

**`SessionProofs`**, for every fleet, key assignment, pipeline, journal, attempt
limit and fault bound:

- `LedgerAlwaysBalances`: `Spec => []LedgerBalances`. The ledger alone is not
  inductive, because a recovery installs its candidate in `st` while the bind
  stays with the owner. `LedgerInv` adds who the owner is (`OwnerIsSet`), that a
  recovery remembers the owner's state and excludes it (`OwnerIsKept`), and that
  `st` names the owner until a candidate is installed and then the candidate
  (`CandidateIsOther`). One lemma per group of actions, one step per action.
- `GenerationNeverStale`: `Spec => []NeverStale`. `GenInv` drops the premise
  that the worker answers, which a restart could make true, and adds that every
  record has a generation.
- `DispatchedStaysRecoverable`: `Spec => []DispatchedIsRecoverable`. What is
  dispatched was cut from what the pipeline held, some of which was kept from
  before the last trim, so `RecoverableInv` has to say that everything held lies
  above the floor: the pipeline's frames (`PipelineKept`), the chunks in hand
  (`TodoKept`), what was dispatched (`DispatchedKept`). A final trims at the last
  applied sequence number or below the pre-roll; that this is never a number that
  has yet to come needs every such number to be one that came, wherever it is
  kept: in the session, the state a rollback restores, a handle, a checkpoint, a
  goroutine's copy of one and a chunk being replayed (`CoveredKept`). Which final
  may trim at all is a matter of `pc` (`AfterKept`).
- `SessionTypes`: `Spec => []TypeOK`, from the invariants above and `TypesInv`.
- `ClientViewKeepsContract`: `OnsetCutsFewChunks => (Spec => KeepsContract)`, the
  refinement of `TranscriptContract`. The hard part is that no acknowledgement is
  taken back. A push acknowledges the end of its chunk and a recovery what its
  worker covers, so neither the client nor the worker may be ahead of what the
  pipeline cuts next; `PaceInv` says so of the chunks in hand, of those a replay has
  still to push, and of the state a rollback restores, and it bounds the
  chunks in hand by three. `ClientInv` adds what the client was shown: which worker's text,
  in which phase, and that a candidate nobody has announced has shown nothing. The
  hypothesis, a pre-roll of less than four chunks, is where the bound comes from.
  Without it the argument fails: an onset that cuts more, with two failovers among its
  chunks, may leave a chunk in hand that ends before what was acknowledged; no run
  has the size for it. The gateway's pre-roll and chunk are both 160 ms.

**`FleetProofs`**, for every fleet, number of sessions, window and limit:

- `TrialsAreDecided`: `Spec => []TrialHasASession`, where every capable worker
  shares the tier or sessions are not stateless. The property is not inductive:
  a report clears the mark of an ejected worker only, so it must be known that
  only ejected workers are marked (`WorkerOK`), and that a session which has a
  trial is at the call of that worker or about to report on it (`WillReport`).
  `PicksCapable` follows the candidates through the scan. One lemma per group of
  actions; `ReportedSettles` says that any report ends the trial it finds.
- `CountersAlwaysBalance`: `Spec => []CountersBalance`, for every finite set of
  sessions, stateless or not. The counters are cardinalities of sets that a step
  changes at one session (`CountMoves`, `OneMoves`), so what has to be known is
  what that session holds: one that is not open has no bind, a report never
  leads out of admission, and a stateless session opens unbound, since its code
  binds without looking for an owner (`HolderOK`). `HoldsStill`, `BindMoves` and
  `SlotMoves` are the three kinds of step.
- `FleetTypes`: `Spec => []TypeOK`. One lemma for each operator of `Health`: the
  windows stay within their size, a percentile of a window is one of its values
  and a score is a number.
- `DrainedIsNeverChosen`: `Spec => DrainedIsNotChosen`. `ScansOK` says
  that the best worker and the trial a scan holds on to were open when it read
  them, or are still, and no other session drains anybody.
- `RestoredByItsAnswer`: `Spec => RestoredOnItsAnswer` for stateful streams, where
  a session's pending report is about the worker it was given. The run
  `unearned_restore` shows that stateless ones break it.

**`StatelessProofs`**, for every number of sessions, workers and attempts, every
fallback chain, size of the tier and of the caches, and every pattern of retries,
losses and restarts:

- `VersionsAlwaysExact`: `Spec => []VersionsAreExact`, and `StatelessTypes`:
  `Spec => []TypeOK`. What a version holds is right when it is stored because
  the state it was inferred from was, and that was loaded some steps earlier. So
  `ExactInv` says of an attempt that the state it holds is the one its reference
  names until inference and the one its sink names after it (`AttemptOK`);
  that no state is held twice, in caches or attempts, since inference
  changes it in place under whoever else holds it (`OneHolder`); that what the
  client has offered in this utterance is the version it applied and the chunk
  it is waiting for (`ClientOK`); and the same of versions in the tier and in
  the caches (`TierOK`, `HotOK`). One group of lemmas reduces every operation of
  the tier to losing versions or storing one (`WithoutIsFewer`, `PutIsOneMore`)
  and of a cache to losing an entry or filing one (`TakeLeaves`, `PutFiles`);
  another says what a step that leaves a part alone keeps (`TierKept`,
  `ClientSame`, `AttemptSame`, `HotSame`, `Calm`); `InferredIsDue` and
  `InferenceIsPrivate` are the heart of the argument: the inferred state is what
  its sink is due, and nobody else saw it change. Then one lemma per action.
- `TierAlwaysBalances`: `Spec => []BytesBalance`, where eviction is a recursive
  function over the recency list, oldest first, and a blob that fits at all leaves
  room for itself once enough of them are gone.
- `DeletionsSpareTheState`: `Spec => OnlyALossTakesTheState`. Retirements under way
  name versions older than the one applied, and a Close names its own session.
- `StatelessImplementsStream`: `Spec => ImplementsStream`. What a refinement of `ResumedStream`
  says is per chunk: an answer covers exactly the chunks offered, once and in order,
  and its state changed hands only behind chunks answered before. Exact versions are
  not enough for it, since the session hears an attempt and not the tier. `HeardInv`
  adds that an attempt with an answer says what its sink, or for a final its
  reference, is due and bounds its cuts (`SaysOK`), which matters when another attempt stored the
  version first; that an attempt somebody awaits is at the very call its client
  is in, so a straggler's answer never passes for a later chunk's (`LiveOK`);
  that a client awaits one attempt (`OneAwaited`); and that it has heard the
  version it applied (`HeardOK`). An attempt Bifrost gave up on is not awaited
  any more, so none of this holds it back. Of all the steps only the session's
  own are seen in the stream (`Unseen`), one lemma for each kind of them.

**`ConnectionProofs`**, for every size of the channels and the browser's buffer,
every number of messages and views:

- `ConnectionTypes`: `Spec => []TypeOK`; `NothingSentIsEverDropped`:
  `Spec => []NothingSentIsDropped`; `RowAlwaysCurrent`: `Spec => []RowIsCurrent`.
  One invariant, `ConnInv`, serves all three. `Account` says that every event sent
  is written, in the writer's hands or on the channel while the writer works
  (`EventsAccounted`), that nobody cancels the context or closes the socket under
  it (`WriterIsServed`), and that a writer that has stopped had nothing left or
  could write no more (`StopsWhenWritten`). `NothingToShow` says that the session
  tells its client nothing a row counts before the row exists; lemmas about `Hub`
  say which of its operations leave the counts of a row alone (`RecordingIsAlike`,
  `CallsAreAlike`).

What stays with TLC, and why:

- The properties of `StreamEncoder`: they are about the concatenation of a list of
  windows, a fold of the library's, and what it computes for every input needs an
  induction of its own.
- Liveness (`DisconnectEnds`, `EndpointIsAnswered`, `TrialIsDecided`,
  `NotOutscoredForEver`, `EndsReclaimed`, `GoroutinesEnd`) needs fairness and
  ENABLED, which TLAPS does not handle.
- `RecutReproducesUniformLive` needs a pre-roll that holds the frames of an onset, and
  then an argument that two pipelines which began at different frames meet: a
  relation between two folds, for which the lemmas on one fold are not enough.
- `FinalCoversUtterance` and `StateIsWhatWasDispatched` rest on it, since a recovery
  pushes what `Recut` cuts, and need besides a ring that holds the whole utterance.

## Not modelled, and the plan

Samples, the detector and inference are abstracted as said above. Not modelled:

- wire framing, metrics, the corpus and the test tooling, which carry no decision
  of the serving path; malformed payloads, which only end a session;
- the dashboard's snapshots and its panes for nodes, tier and Bifrost, which copy
  what other components keep, and its chaos controls, whose effects are the
  faults of the models;
- the fleet manager: its state is the container runtime's, which the code only
  calls; the registration it ends with is `Add` of `Fleet`;
- the tensors of the worker's KV cache, their quantization, and the format and
  validation of the blobs (a blob that fails it is a restore that fails, which
  `Session` has).

What is left of the plan, in this order:

1. Proofs: for frames of one length, that a replay cuts what the live path cut
   (`RecutReproducesUniformLive`), and from it that the worker's state is what was
   dispatched (`StateIsWhatWasDispatched`).
2. The utterance as Bifrost gets it, and the
   entry a late checkpoint leaves behind.
3. An inductive invariant for `StreamEncoder`: what the extractor, the seam, the
   windows and the newest checkpoint hold between them.
