-------------------------------- MODULE Session --------------------------------
(***************************************************************************)
(* One session of the gateway, from session.start to its cleanup, with the *)
(* workers it runs on: cmd/gateway/conn.go drives it, internal/coord moves *)
(* it to another worker when a call fails, and a detached goroutine per    *)
(* committed chunk asks the worker for a checkpoint.                       *)
(*                                                                         *)
(* A step is one remote call, or what the session's goroutine does between *)
(* two of them; a push takes two, because the adapter changes the model in *)
(* place before the worker commits the chunk.  Model state is the sequence *)
(* of frames it has absorbed, a transcript is the state it was read from.  *)
(***************************************************************************)
EXTENDS AudioLog, AudioPipeline

CONSTANTS
  Workers,        \* the fleet
  None,           \* no worker, no key, no checkpoint
  Key,            \* each worker's compatibility key
  Serializable,   \* the workers that can serialize their state
  BifrostFinals,  \* whether finals are transcribed from the journal instead
  MaxAttempts,    \* MaxFailoverAttempts, 3 in the gateway
  MaxFaults,      \* bound: crashes, lost or refused calls, corruptions
  MaxJobs,        \* bound: checkpoint goroutines at one time
  FrameUs         \* the duration of every frame, in microseconds

ASSUME SessionAssumption ==
  /\ Serializable \subseteq Workers /\ None \notin Workers
  /\ {MaxAttempts, MaxFaults, MaxJobs, FrameUs} \subseteq Nat
  /\ BifrostFinals \in BOOLEAN

VARIABLES
  pc,          \* where sessionLoop's goroutine is
  st,          \* session.InferenceState
  pipe,        \* the live pipeline
  frames,      \* the journaled records by sequence number
  todo,        \* chunks cut and not yet dispatched
  after,       \* what follows them: "idle", "endpoint" or "end"
  fo,          \* the locals of HandleBackendFailure
  cp,          \* the checkpoint store's entry for this session
  jobs,        \* the checkpoint goroutines
  handles,     \* the workers' session records, by handle
  minted,      \* how many handles were ever created
  alive,       \* the workers that answer
  bound,       \* Worker.outstanding: sessions bound to each worker
  sent,        \* the transcript events the client has seen, summed up
  gone,        \* the connection's context is cancelled
  faults,      \* how many faults have happened
  dispatched,  \* ghost: frames of the chunks dispatched for this utterance
  exact,       \* ghost: no recovery met one of the defects the README lists
  final        \* ghost: the newest final's text, its audio, and exact

audioVars == <<pipe, frames, todo, after, logVars>>
calls     == <<cp, jobs, handles, minted>>
world     == <<alive, faults, gone>>
ghosts    == <<dispatched, exact, final>>
vars      == <<pc, st, fo, bound, sent, audioVars, calls, world, ghosts>>

NoFailover == [owner |-> None, excluded |-> {}, attempt |-> 0, target |-> None,
               prev |-> None, replay |-> << >>, text |-> FALSE]

SeqsIn(recs)   == [i \in 1..Len(recs) |-> recs[i].seq]
Records(seqs)  == [i \in 1..Len(seqs) |-> frames[seqs[i]]]
Chunks(cut)    == [i \in 1..Len(cut) |-> [frames |-> SeqsIn(cut[i]), forced |-> FALSE]]
Forced(p)      == IF p.pending = << >> THEN << >>
                  ELSE << [frames |-> SeqsIn(p.pending), forced |-> TRUE] >>
SeqEnd(c)      == Last(c.frames)
UpTo(seqs, s)  == SelectSeq(seqs, LAMBDA x : x <= s)

Answers(w, h)  == w \in alive /\ h \in DOMAIN handles /\ handles[h].worker = w
\* A call that cannot succeed fails; a timeout, a reset, or an unexpected status
\* from a worker that is well counts as a fault.
Fails(hopeless) == IF hopeless THEN faults' = faults
                   ELSE faults < MaxFaults /\ faults' = faults + 1

\* The client's calls: nobody answers, the context is cancelled, the handle is
\* unknown, or the adapter cannot restore.
CallFails(w, h)     == Fails(gone \/ ~Answers(w, h))
FlushFails(w, h)    == Fails(gone \/ ~Answers(w, h))
OpenFails(w)        == Fails(gone \/ w \notin alive)
RestoreCallFails(w) == Fails(gone \/ w \notin alive \cap Serializable)
\* trySend may or may not notice that the context is cancelled.
Onward(next) == IF gone THEN {next, "ended"} ELSE {next}
Shows(view)  == sent' = IF gone THEN sent ELSE view

\* The client's view once it learns that the session is in utterance st.utt.
Announced == IF sent.utt = st.utt THEN sent
             ELSE [sent EXCEPT !.utt = st.utt, !.rev = 0, !.closed = FALSE]

Closed(h) == [x \in DOMAIN handles \ {h} |-> handles[x]]
\* Nobody looks at the outcome of a Close: the record is gone, or is left behind.
CloseSent(h) == {handles, Closed(h)}
Added(table, h, rec) ==
  [x \in DOMAIN table \cup {h} |-> IF x = h THEN rec ELSE table[x]]
Opened(w, model, last) == [worker |-> w, model |-> model, gen |-> 0, last |-> last]
NewHandle(w, model, last) ==
  /\ handles' = Added(handles, minted + 1, Opened(w, model, last))
  /\ minted' = minted + 1

-------------------------------------------------------------------------------
Init ==
  /\ LogInit
  /\ pc = "init"
  /\ st = [worker |-> None, handle |-> 0, key |-> None, gen |-> 0, last |-> 0,
           epoch |-> 0, utt |-> 1, uttStart |-> 0, rev |-> 0, finalized |-> FALSE]
  /\ pipe = Fresh
  /\ frames = << >>
  /\ todo = << >> /\ after = "idle"
  /\ fo = NoFailover
  /\ cp = None /\ jobs = {} /\ handles = << >> /\ minted = 0
  /\ alive = Workers
  /\ bound = [w \in Workers |-> 0]
  /\ sent = [utt |-> 1, rev |-> 0, epoch |-> 0, closed |-> FALSE, acked |-> 0, from |-> None]
  /\ gone = FALSE /\ faults = 0
  /\ dispatched = << >> /\ exact = TRUE
  /\ final = [text |-> << >>, due |-> << >>, exact |-> TRUE]

-------------------------------------------------------------------------------
(* handleControl: session.start.                                           *)

\* openWithRetry ends on a worker that opens a handle; the session binds it.
Start(w) ==
  /\ pc = "init" /\ ~gone /\ w \in alive
  /\ NewHandle(w, << >>, 0)
  /\ st' = [st EXCEPT !.worker = w, !.handle = minted + 1, !.key = Key[w]]
  /\ bound' = [bound EXCEPT ![w] = @ + 1]
  /\ pc' = "idle"
  /\ UNCHANGED <<fo, cp, jobs, sent, audioVars, world, ghosts>>

\* Every pick was refused or failed: no session, nothing bound.
StartRefused ==
  /\ pc = "init"
  /\ pc' = "done"
  /\ UNCHANGED <<st, fo, bound, sent, audioVars, calls, world, ghosts>>

-------------------------------------------------------------------------------
(* handleAudioFrame up to its first dispatch.                              *)

ReceiveFrame(voiced) ==
  LET seq      == IF retained = << >> THEN 1 ELSE Last(retained) + 1
      f        == [seq |-> seq, dur |-> FrameUs, voiced |-> voiced]
      q        == ApplyHysteresis(pipe, f)
      onset    == \E i \in DOMAIN q.events : q.events[i].type = "speech.start"
      endpoint == \E i \in DOMAIN q.events : q.events[i].type = "endpoint"
  IN  /\ pc = "idle"
      /\ seq \in Seqs
      /\ frames' = Added(frames, seq, f)
      /\ Record(seq)
      /\ pipe' = Drained(IF endpoint THEN AfterForceCut(q) ELSE q)
      /\ todo' = Chunks(q.ready) \o IF endpoint THEN Forced(q) ELSE << >>
      /\ after' = IF endpoint THEN "endpoint" ELSE "idle"
      /\ IF onset
         THEN /\ st' = [st EXCEPT !.uttStart = seq]
              /\ Shows(Announced)
              /\ pc' \in Onward("dispatch")
         ELSE UNCHANGED <<st, sent>> /\ pc' = "dispatch"
      /\ UNCHANGED <<fo, bound, calls, world, ghosts>>

\* session.end: the pending tail is dispatched, then the session finalizes.
ReceiveEnd ==
  /\ pc = "idle"
  /\ todo' = Forced(pipe)
  /\ pipe' = AfterForceCut(pipe)
  /\ after' = "end"
  /\ pc' = "dispatch"
  /\ UNCHANGED <<st, fo, bound, sent, frames, logVars, calls, world, ghosts>>

\* The read loop closed the frames channel: sessionLoop returns.
ReceiveClosed ==
  /\ pc = "idle"
  /\ pc' = "ended"
  /\ UNCHANGED <<st, fo, bound, sent, audioVars, calls, world, ghosts>>

\* Nothing left to dispatch.
AllDispatched ==
  /\ pc = "dispatch" /\ todo = << >>
  /\ pc' = IF after = "idle" THEN "idle" ELSE "final"
  /\ UNCHANGED <<st, fo, bound, sent, audioVars, calls, world, ghosts>>

-------------------------------------------------------------------------------
(* dispatchChunk: push the first chunk of todo.                            *)

Chunk    == Head(todo)
Owner    == handles[st.handle]
Calling  == pc = "dispatch" /\ todo # << >>
\* The frames this utterance has dispatched, the chunk in hand included.
Due      == dispatched \o Chunk.frames

\* Idempotent replay: the worker's state already accounts for this audio.
NeverCovered(h, end) == FALSE
Covered(h, end)      == end <= h.last

\* The worker runs the model on the chunk; its record still says otherwise.
PushInfer ==
  /\ Calling /\ ~gone /\ Answers(st.worker, st.handle)
  /\ ~Covered(Owner, SeqEnd(Chunk))
  /\ handles' = [handles EXCEPT ![st.handle].model = @ \o Chunk.frames]
  /\ pc' = "pushing"
  /\ UNCHANGED <<st, fo, bound, sent, audioVars, cp, jobs, minted, world, ghosts>>

\* Generation and last_seq_applied after compare_and_commit.
Committed(h) == [h EXCEPT !.gen = @ + 1, !.last = SeqEnd(Chunk)]

\* The session's copy of them, and the revision of the partial it will show.
MirrorsLastOnly(h) == [st EXCEPT !.last = h.last, !.rev = @ + 1]
Mirrored(h)        == [st EXCEPT !.gen = h.gen, !.last = h.last, !.rev = @ + 1]

\* What the caller does with a successful answer: mirror the two counters,
\* start a checkpoint, show the partial and acknowledge.
Applied(h) ==
  /\ st' = Mirrored(h)
  /\ jobs' = IF st.worker \in Serializable /\ Cardinality(jobs) < MaxJobs
             THEN jobs \cup {[id |-> st.rev + 1, key |-> st.key, handle |-> st.handle,
                              taken |-> None]}
             ELSE jobs
  /\ Shows([Announced EXCEPT !.rev = st.rev + 1, !.acked = h.last, !.from = st.worker])
  /\ dispatched' = Due
  /\ todo' = Tail(todo)
  /\ pc' \in Onward("dispatch")
  /\ UNCHANGED <<fo, bound, pipe, frames, after, logVars, cp, minted, world, exact, final>>

\* The commit compares generations.  A conflict would end the session without
\* a failover; NeverStale says that there is none.
PushCommit ==
  /\ pc = "pushing" /\ ~gone /\ Answers(st.worker, st.handle)
  /\ Owner.gen = st.gen
  /\ handles' = [handles EXCEPT ![st.handle] = Committed(@)]
  /\ Applied(Committed(Owner))

\* A chunk the worker's state already covers is not inferred again.
PushRepeated ==
  /\ Calling /\ ~gone /\ Answers(st.worker, st.handle)
  /\ Covered(Owner, SeqEnd(Chunk))
  /\ handles' = handles
  /\ Applied(Owner)

\* The dead owner keeps its bind until a replacement has taken over.
UnboundOnFailure == [bound EXCEPT ![st.worker] = @ - 1]
BoundOnFailure   == bound

\* The call fails, before, during or after the worker's work on it, and
\* HandleBackendFailure takes over.
PushFails ==
  /\ Calling \/ pc = "pushing"
  /\ CallFails(st.worker, st.handle)
  /\ handles' \in {handles} \cup
       IF pc = "pushing" /\ Answers(st.worker, st.handle)
       THEN {[handles EXCEPT ![st.handle] = Committed(@)]} ELSE {}
  /\ fo' = [NoFailover EXCEPT !.owner = st.worker, !.excluded = {st.worker},
                              !.attempt = 1, !.prev = st]
  /\ pc' = "pick"
  /\ bound' = BoundOnFailure
  /\ UNCHANGED <<st, sent, audioVars, cp, jobs, minted, alive, gone, ghosts>>

-------------------------------------------------------------------------------
(* HandleBackendFailure.                                                   *)

\* The checkpoint survives CanRestore for a target with the session's key.
CanRestore(target) == cp # None /\ cp.intact /\ cp.key = Key[target]

\* Pick returns some worker outside the excluded ones; its compatibility key
\* and the stored checkpoint decide how the state is rebuilt there.
Pick(target) ==
  /\ pc = "pick" /\ fo.attempt <= MaxAttempts
  /\ target \in Workers \ fo.excluded
  /\ fo' = [fo EXCEPT !.target = target]
  /\ pc' = IF Key[target] = st.key /\ CanRestore(target) THEN "restore" ELSE "open"
  /\ UNCHANGED <<st, bound, sent, audioVars, calls, world, ghosts>>

\* No capacity, or no attempt left: the session ends on its last owner.
GiveUp ==
  /\ pc = "pick"
  /\ fo' = NoFailover
  /\ pc' = "ended"
  /\ UNCHANGED <<st, bound, sent, audioVars, calls, world, ghosts>>

\* State as both recoveries install it before they replay.  LastAppliedSeq is
\* the restored one, or stays what it was when the state is rebuilt.
InstalledQuietly(w, h, last) ==
  [st EXCEPT !.worker = w, !.handle = h, !.key = Key[w], !.gen = 0, !.last = last,
             !.rev = @ + 1]
Installed(w, h, last) ==
  [st EXCEPT !.worker = w, !.handle = h, !.key = Key[w], !.gen = 0, !.last = last,
             !.epoch = @ + 1, !.rev = @ + 1]

\* The tail a restored state still misses.
TailFrom(seq) == SelectSeq(retained, LAMBDA r : r >= seq)
TailAfter(seq) == RetainedAfter(seq)

\* A pipeline that starts inactive cuts this as one within the utterance does:
\* it is too little for a chunk, or speech throughout and enough for an onset.
CutAsLive(recs) ==
  \/ Duration(recs) < ChunkMs * 1000
  \/ /\ \A i \in DOMAIN recs : recs[i].voiced
     /\ Duration(recs) >= StartSpeechMs * 1000

\* RecoverSameModel: restore the checkpoint, replay what came after it.
Restore ==
  /\ pc = "restore" /\ ~gone /\ fo.target \in alive
  /\ fo.target \in Serializable
  /\ NewHandle(fo.target, cp.model, cp.seq)
  /\ st' = Installed(fo.target, minted + 1, cp.seq)
  /\ fo' = [fo EXCEPT !.replay = Recut(TRUE, Records(TailAfter(cp.seq)))]
  /\ exact' = (exact /\ cp.model = UpTo(Due, cp.seq)
                   /\ CutAsLive(Records(TailAfter(cp.seq))))
  /\ pc' = "replay"
  /\ UNCHANGED <<bound, sent, audioVars, cp, jobs, world, dispatched, final>>

\* The restore fails and the recovery degrades to a full replay.
RestoreFails ==
  /\ pc = "restore"
  /\ RestoreCallFails(fo.target)
  /\ pc' = "open"
  /\ UNCHANGED <<st, fo, bound, sent, audioVars, calls, alive, gone, ghosts>>

\* A replay of everything the journal holds, the previous utterances included.
ReplayAll == retained

\* RecoverCrossModel: a fresh handle, and a replay from the committed floor.
ReplayFrom == AboveFloor
Open ==
  /\ pc = "open" /\ ~gone /\ fo.target \in alive
  /\ NewHandle(fo.target, << >>, 0)
  /\ st' = Installed(fo.target, minted + 1, st.last)
  /\ fo' = [fo EXCEPT !.replay = Recut(TRUE, Records(ReplayFrom))]
  /\ pc' = "replay"
  /\ UNCHANGED <<bound, sent, audioVars, cp, jobs, world, ghosts>>

\* The utterance's onset carried the last endpoint's frame twice.
Doubled ==
  LET onTheWay == dispatched \o FlattenSeq([i \in DOMAIN todo |-> todo[i].frames])
                             \o SeqsIn(pipe.pending)
  IN  Cardinality(ToSet(onTheWay)) < Len(onTheWay)

\* A record that has run the model on a chunk and committed it.
Absorbed(h, chunk) == [h EXCEPT !.model = @ \o chunk, !.gen = @ + 1, !.last = Last(chunk)]

\* replayChunks: one chunk into the candidate, skipped when it covers it.
Replay ==
  LET chunk == SeqsIn(Head(fo.replay))
  IN  /\ pc = "replay" /\ fo.replay # << >>
      /\ ~gone /\ Answers(st.worker, st.handle)
      /\ fo' = [fo EXCEPT !.replay = Tail(@), !.text = TRUE]
      /\ IF Covered(Owner, Last(chunk))
         THEN /\ handles' = handles
              /\ st' = [st EXCEPT !.gen = Owner.gen, !.last = Owner.last]
         ELSE /\ Owner.gen = st.gen
              /\ handles' = [handles EXCEPT ![st.handle] = Absorbed(@, chunk)]
              /\ st' = [st EXCEPT !.gen = @ + 1, !.last = Last(chunk)]
      /\ UNCHANGED <<pc, bound, sent, audioVars, cp, jobs, minted, world, ghosts>>

\* What the next attempt starts from.
ExcludingNobody == [fo EXCEPT !.target = None, !.replay = << >>, !.text = FALSE]
Excluding == [fo EXCEPT !.attempt = @ + 1, !.excluded = @ \cup {fo.target},
                        !.target = None, !.replay = << >>, !.text = FALSE]
KeepsCandidate == st
RolledBack     == fo.prev

\* The candidate is abandoned: its handle is closed, the state the failure
\* found is put back and the next attempt excludes the target as well.
AttemptFails ==
  /\ \/ /\ pc = "open"
        /\ OpenFails(fo.target)
        /\ handles' = handles
     \/ /\ pc = "replay" /\ fo.replay # << >>
        /\ CallFails(st.worker, st.handle)
        /\ handles' \in CloseSent(st.handle)
  /\ st' = RolledBack
  /\ fo' = Excluding
  /\ pc' = "pick"
  /\ UNCHANGED <<bound, sent, audioVars, cp, jobs, minted, alive, gone, ghosts>>

\* The bind moves, the reset is shown, with the partial if the replay made
\* one, and the chunk that failed counts as covered by the replay.
TakeOver ==
  /\ pc = "replay" /\ fo.replay = << >>
  /\ bound' = [bound EXCEPT ![fo.target] = @ + 1, ![fo.owner] = @ - 1]
  /\ st' = [st EXCEPT !.rev = IF fo.text THEN @ + 1 ELSE @]
  /\ Shows([Announced EXCEPT !.rev = st'.rev, !.epoch = st.epoch, !.from = st.worker])
  /\ fo' = NoFailover
  /\ dispatched' = Due
  /\ exact' = (exact /\ ~Chunk.forced /\ ~Doubled)
  /\ todo' = Tail(todo)
  /\ pc' \in Onward("dispatch")
  /\ UNCHANGED <<pipe, frames, after, logVars, calls, world, final>>

-------------------------------------------------------------------------------
(* finalText, and the endings of an utterance and of the session.          *)

\* What Bifrost transcribes: the journal after the utterance's start.
Captured == RetainedAfter(st.uttStart)

TrimFloorAtNewest == IF HasRetention(pipe) THEN Last(pipe.preRoll).seq ELSE st.last

\* The floor a final commits: its end, or just below the pre-roll that the
\* next utterance may need.
TrimFloor ==
  IF after = "endpoint" /\ HasRetention(pipe) /\ RetentionStart(pipe) - 1 < st.last
  THEN RetentionStart(pipe) - 1 ELSE st.last

\* Whether Bifrost's answer is the transcript: a gateway without it never
\* asks, nor does one with nothing captured, and any error falls back.
TranscribeVia(wav) == {ok \in BOOLEAN : ok => BifrostFinals /\ wav # << >>}

\* The transcript comes from the worker's flush, or from Bifrost with the
\* flush as its fallback; the final is shown and the journal trimmed.
Finalize ==
  /\ pc = "final"
  /\ \E viaBifrost \in TranscribeVia(Captured) :
       /\ ~gone
       /\ ~viaBifrost => Answers(st.worker, st.handle)
       /\ final' = [text  |-> IF viaBifrost THEN Captured ELSE Owner.model,
                    due   |-> dispatched,
                    exact |-> exact /\ ~viaBifrost]
  /\ st' = [st EXCEPT !.finalized = TRUE]
  /\ Commit(TrimFloor)
  /\ Shows([Announced EXCEPT !.closed = TRUE])
  /\ pc' = IF after = "end" THEN "ended" ELSE "renew"
  /\ UNCHANGED <<fo, bound, pipe, frames, todo, after, calls, world, dispatched, exact>>

\* No failover protects a flush: the session ends with an error.
FinalizeFails ==
  /\ pc = "final"
  /\ FlushFails(st.worker, st.handle)
  /\ pc' = "ended"
  /\ UNCHANGED <<st, fo, bound, sent, audioVars, calls, alive, gone, ghosts>>

\* NewUtterance keeps the session's counters and resets the utterance's.
Renewed ==
  [st EXCEPT !.utt = @ + 1, !.uttStart = 0, !.rev = 0, !.finalized = FALSE]

\* The worker's handle is replaced, so that the next utterance starts on
\* empty model state, and the checkpoint of the old one is dropped.
Renew ==
  /\ pc = "renew" /\ ~gone /\ st.worker \in alive
  /\ handles' = Added(Closed(st.handle), minted + 1, Opened(st.worker, << >>, 0))
  /\ minted' = minted + 1
  /\ cp' = None
  /\ st' = [Renewed EXCEPT !.handle = minted + 1, !.gen = 0]
  /\ dispatched' = << >>
  /\ exact' = (dispatched = << >> \/ Last(dispatched) <= floor)
  /\ pc' = "idle"
  /\ UNCHANGED <<fo, bound, sent, audioVars, jobs, world, final>>

RenewFails ==
  /\ pc = "renew"
  /\ OpenFails(st.worker)
  /\ handles' \in CloseSent(st.handle)
  /\ pc' = "ended"
  /\ UNCHANGED <<st, fo, bound, sent, audioVars, cp, jobs, minted, alive, gone, ghosts>>

\* sessionLoop's deferred cleanup, with a context of its own.
Cleanup ==
  /\ pc = "ended"
  /\ handles' \in {Closed(st.handle)} \cup IF st.worker \in alive THEN {} ELSE {handles}
  /\ bound' = [bound EXCEPT ![st.worker] = @ - 1]
  /\ cp' = None
  /\ pc' = "done"
  /\ UNCHANGED <<st, fo, sent, audioVars, jobs, minted, world, ghosts>>

-------------------------------------------------------------------------------
(* asyncCheckpoint: one goroutine per committed chunk, no deadline but its *)
(* own, and nothing that ends it with the utterance or the session.        *)

\* The answer: the state as it is, and last_seq_applied as the record has it.
CheckpointResp(j) == [key |-> j.key, seq |-> handles[j.handle].last,
                      model |-> handles[j.handle].model, intact |-> TRUE]

CheckpointTaken(j) ==
  /\ j \in jobs /\ j.taken = None
  /\ j.handle \in DOMAIN handles /\ handles[j.handle].worker \in alive
  /\ jobs' = (jobs \ {j}) \cup {[j EXCEPT !.taken = CheckpointResp(j)]}
  /\ UNCHANGED <<pc, st, fo, bound, sent, audioVars, cp, handles, minted, world, ghosts>>

CheckpointStored(j) ==
  /\ j \in jobs /\ j.taken # None
  /\ cp' = j.taken
  /\ jobs' = jobs \ {j}
  /\ UNCHANGED <<pc, st, fo, bound, sent, audioVars, handles, minted, world, ghosts>>

\* A failed checkpoint is only logged.
CheckpointFails(j) ==
  /\ j \in jobs /\ j.taken = None
  /\ jobs' = jobs \ {j}
  /\ UNCHANGED <<pc, st, fo, bound, sent, audioVars, cp, handles, minted, world, ghosts>>

-------------------------------------------------------------------------------
(* The world: workers crash and come back without their records, a stored  *)
(* checkpoint is corrupted, the connection breaks.                         *)

Crash(w) ==
  /\ w \in alive /\ faults < MaxFaults
  /\ alive' = alive \ {w}
  /\ handles' = [h \in {x \in DOMAIN handles : handles[x].worker # w} |-> handles[h]]
  /\ faults' = faults + 1
  /\ UNCHANGED <<pc, st, fo, bound, sent, audioVars, cp, jobs, minted, gone, ghosts>>

Restart(w) ==
  /\ w \notin alive
  /\ alive' = alive \cup {w}
  /\ UNCHANGED <<pc, st, fo, bound, sent, audioVars, calls, gone, faults, ghosts>>

Corrupt ==
  /\ cp # None /\ cp.intact /\ faults < MaxFaults
  /\ cp' = [cp EXCEPT !.intact = FALSE]
  /\ faults' = faults + 1
  /\ UNCHANGED <<pc, st, fo, bound, sent, audioVars, jobs, handles, minted, alive, gone, ghosts>>

Disconnect ==
  /\ ~gone /\ faults < MaxFaults
  /\ gone' = TRUE /\ faults' = faults + 1
  /\ UNCHANGED <<pc, st, fo, bound, sent, audioVars, calls, alive, ghosts>>

-------------------------------------------------------------------------------
Receive  == (\E voiced \in BOOLEAN : ReceiveFrame(voiced)) \/ ReceiveEnd \/ ReceiveClosed
Recovery == \/ \E w \in Workers : Pick(w)
            \/ GiveUp \/ Restore \/ RestoreFails \/ Open
            \/ Replay \/ AttemptFails \/ TakeOver
Dispatch == \/ AllDispatched \/ PushInfer \/ PushCommit \/ PushRepeated
            \/ PushFails
Ending   == Finalize \/ FinalizeFails \/ Renew \/ RenewFails \/ Cleanup
Begin    == (\E w \in Workers : Start(w)) \/ StartRefused

\* The session's goroutine, the checkpoint goroutines, and the world.
Goroutine   == Begin \/ Receive \/ Dispatch \/ Recovery \/ Ending
Checkpoints == \E j \in jobs : CheckpointTaken(j) \/ CheckpointStored(j) \/ CheckpointFails(j)
World       == (\E w \in Workers : Crash(w) \/ Restart(w)) \/ Corrupt \/ Disconnect

Next == Goroutine \/ Checkpoints \/ World

\* Every remote call has a timeout and every send on a channel gives way to
\* the context, so the goroutine never stops between two frames; it waits for
\* the client only until the read loop, with the connection gone, closes the
\* frames channel.
\* Of a recovery that is under way some step is always possible, so its weak
\* fairness is written with the program counter for its enabledness.
Fairness ==
  /\ WF_vars(Dispatch) /\ WF_vars(Ending)
  /\ []<>(pc \notin {"pick", "restore", "open", "replay"}) \/ []<><<Recovery>>_vars
  /\ WF_vars(gone /\ ReceiveClosed) /\ WF_vars(gone /\ StartRefused)

Spec == Init /\ [][Next]_vars /\ Fairness

-------------------------------------------------------------------------------
(* Properties.                                                             *)

TypeOK ==
  /\ pc \in {"init", "idle", "dispatch", "pushing", "pick", "restore", "open",
             "replay", "final", "renew", "ended", "done"}
  /\ st.worker \in Workers \cup {None} /\ st.handle \in 0..minted
  /\ fo.attempt \in 0..MaxAttempts + 1 /\ fo.excluded \subseteq Workers
  /\ alive \subseteq Workers
  /\ bound \in [Workers -> Nat]
  /\ Cardinality(jobs) <= MaxJobs
  /\ faults \in 0..MaxFaults
  /\ ToSet(dispatched) \subseteq Seqs

\* Between two frames the worker's state is what the session dispatched, no
\* frame missing and none twice, whatever calls failed and wherever the session
\* moved.  Excepted, by the ghost exact, is what follows from a recovery that
\* restored an unfaithful checkpoint, or one whose tail is silent in part or too
\* short for an onset, that replayed in place of a forced tail or for an onset
\* with a doubled frame, and from a floor that such a tail left too low.
StateIsWhatWasDispatched ==
  pc = "idle" /\ exact /\ Answers(st.worker, st.handle) => Owner.model = dispatched

\* A final's transcript covers exactly the audio dispatched for it, with the
\* same exceptions and that of a transcript by Bifrost.
FinalCoversUtterance == final.exact => final.text = final.due

\* The binding ledger: the session counts once, on its owner, at all times,
\* and nowhere once it is gone.
LedgerBalances ==
  LET owner == IF pc \in {"init", "done"} THEN None
               ELSE IF fo.owner # None THEN fo.owner ELSE st.worker
  IN  bound = [w \in Workers |-> IF w = owner THEN 1 ELSE 0]

\* The session is its handle's only writer: its generation is never stale.
NeverStale ==
  pc \in {"idle", "dispatch", "pushing", "replay"} /\ Answers(st.worker, st.handle)
    => st.gen = Owner.gen

\* What was acknowledged can still be rebuilt: no dispatched frame of the
\* open utterance is at or below the journal's floor.
DispatchedIsRecoverable ==
  trimmed /\ ~st.finalized => \A i \in 1..Len(dispatched) : dispatched[i] > floor

\* The client's view obeys the contract of the transcript events.
Contract == INSTANCE TranscriptContract WITH
              utt <- sent.utt, rev <- sent.rev, epoch <- sent.epoch,
              closed <- sent.closed, acked <- sent.acked, source <- sent.from,
              Nobody <- None
KeepsContract == Contract!ContractSpec

\* A session whose connection is gone is torn down.
DisconnectEnds == gone ~> pc = "done"

\* An endpoint or session.end is answered by a final or ends the session.
EndpointIsAnswered == (pc = "dispatch" /\ after # "idle") ~> (pc \in {"idle", "done"})

\* "so continuing to Push after Flush would make a new utterance inherit the
\* old model state": no state holds audio a former utterance was charged for.
UtteranceStartsClean ==
  pc = "idle" /\ Answers(st.worker, st.handle) =>
    \A i \in 1..Len(Owner.model) : Owner.model[i] \in ToSet(dispatched)

\* "a checkpoint is only ever taken right after a chunk was fully applied":
\* the checkpoint a goroutine took during a push refutes it (see the README).
CheckpointEndsAtItsSeq ==
  cp # None /\ cp.model # << >> => Last(cp.model) = cp.seq

\* "recovery's own replay [...] already covers it": a chunk whose push failed
\* is in the state the recovery leaves behind.
ReplayCoversFailedChunk ==
  [][TakeOver /\ Answers(st.worker, st.handle) =>
       ToSet(Chunk.frames) \subseteq ToSet(Owner.model)]_vars

\* The same of a chunk that no flush cut: a tail recut by an inactive pipeline,
\* which gates its silence, refutes it (see the README).
ReplayCoversFullChunk ==
  [][TakeOver /\ ~Chunk.forced /\ Answers(st.worker, st.handle) =>
       ToSet(Chunk.frames) \subseteq ToSet(Owner.model)]_vars
===============================================================================
