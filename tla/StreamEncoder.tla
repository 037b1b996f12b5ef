----------------------------- MODULE StreamEncoder -----------------------------
(***************************************************************************)
(* The state of one utterance inside a worker whose state can be           *)
(* serialized, as zipformer_kv keeps it and kvcache carries it to another  *)
(* worker.  Audio becomes feature frames once the extractor has enough of  *)
(* what follows; the encoder takes overlapping windows of frames, and what *)
(* is left of them, the seam, waits for the next chunk.                    *)
(*                                                                         *)
(* Audio is counted in frame shifts: the n-th of the utterance is n, and 0 *)
(* is padding.  The hypothesis is the sequence of windows it was decoded   *)
(* from.  Inference runs in a thread of its own, and so in steps between   *)
(* which the event loop may take a checkpoint.                             *)
(***************************************************************************)
EXTENDS Integers, Sequences, SequencesExt, FiniteSetsExt

CONSTANTS
  Window,      \* T: frames the encoder takes at a time, 39 in this model
  Advance,     \* decode_chunk_len: frames it is done with after each, 32
  Padding,     \* TAIL_PADDING_S, in frame shifts: 60
  Lag,         \* frames the extractor holds back until more audio comes
  None,
  MaxChunk,    \* bound: the longest chunk
  MaxHeard,    \* bound: the longest utterance
  MaxRestores  \* bound: restores of one utterance

ASSUME EncoderAssumption ==
  /\ {Window, Advance, Padding, Lag, MaxChunk, MaxHeard, MaxRestores} \subseteq Nat
  /\ 0 < Advance /\ Advance <= Window /\ Padding >= Window - 1 + Lag

VARIABLES
  state,     \* KVState: the extractor's rest, the seam, the hypothesis
  work,      \* the locals of infer or finalize while one of them runs
  heard,     \* how much of the utterance was pushed
  applied,   \* SessionRecord.last_seq_applied, as far as the commits got
  blob,      \* the newest checkpoint
  restores,  \* how many restores this utterance saw
  exact      \* ghost: none of them was of a checkpoint taken during a push

vars == <<state, work, heard, applied, blob, restores, exact>>

Fresh == [feats |-> << >>, pending |-> << >>, hyp |-> << >>]

Init ==
  /\ state = Fresh /\ work = None
  /\ heard = 0 /\ applied = 0 /\ blob = None /\ restores = 0 /\ exact = TRUE

-------------------------------------------------------------------------------
(* The extractor and the encoder's windows.                                *)

Audio(n)   == [i \in 1..n |-> heard + i]
Silence(n) == [i \in 1..n |-> 0]

\* OnlineFeatures.push: the frames that are ready, and what stays behind; a
\* cursor that is a frame late would read that frame again.
Ready(audio)      == SubSeq(audio, 1, Max({0, Len(audio) - Lag}))
Ending(audio, n)    == SubSeq(audio, Max({0, Len(audio) - n}) + 1, Len(audio))
UnreadTwice(audio) == Ending(audio, Lag + 1)
Unread(audio)      == Ending(audio, Lag)

Overfull(frames) == Len(frames) > Window
Full(frames)     == Len(frames) >= Window
WindowOf(frames) == SubSeq(frames, 1, Window)

\* Successive windows share what the encoder still needs of the first.
Advanced(frames) == SubSeq(frames, Advance + 1, Len(frames))

Begins(audio, final) ==
  /\ work = None
  /\ state' = [state EXCEPT !.feats = Unread(state.feats \o audio)]
  /\ work' = [frames |-> state.pending \o Ready(state.feats \o audio),
              final |-> final, done |-> FALSE]

\* infer: the seam and the frames the chunk completes.
Infer(n) ==
  /\ heard + n <= MaxHeard
  /\ Begins(Audio(n), FALSE)
  /\ heard' = heard + n
  /\ UNCHANGED <<applied, blob, restores, exact>>

\* finalize: enough silence for the last audio to leave the encoder.
Unpadded == << >>
Padded   == Silence(Padding)
Finalize ==
  /\ heard > 0
  /\ Begins(Padded, TRUE)
  /\ UNCHANGED <<heard, applied, blob, restores, exact>>

\* One turn of _consume's loop: the cache and the hypothesis change in place.
Encode ==
  /\ work # None /\ ~work.done /\ Full(work.frames)
  /\ state' = [state EXCEPT !.hyp = Append(@, WindowOf(work.frames))]
  /\ work' = [work EXCEPT !.frames = Advanced(@)]
  /\ UNCHANGED <<heard, applied, blob, restores, exact>>

\* The loop ends: what is left is the seam.
Retain ==
  /\ work # None /\ ~work.done /\ ~work.final /\ ~Full(work.frames)
  /\ state' = [state EXCEPT !.pending = work.frames]
  /\ work' = [work EXCEPT !.done = TRUE]
  /\ UNCHANGED <<heard, applied, blob, restores, exact>>

\* Back on the event loop, the push is committed.
Commit ==
  /\ work # None /\ work.done
  /\ applied' = heard /\ work' = None
  /\ UNCHANGED <<state, heard, blob, restores, exact>>

\* The final's text is out: the next utterance starts with nothing but the
\* acoustic context, and the gateway deletes the utterance's checkpoint.
Finish ==
  /\ work # None /\ work.final /\ ~Full(work.frames)
  /\ state' = Fresh /\ work' = None
  /\ heard' = 0 /\ applied' = 0 /\ blob' = None /\ restores' = 0 /\ exact' = TRUE

-------------------------------------------------------------------------------
(* Checkpoints.                                                            *)

\* The seam and the hypothesis go with the cache; "whole" is a ghost.
SerializedWithoutSeam ==
  [pending |-> << >>, hyp |-> state.hyp, at |-> applied, whole |-> work = None]
Serialized ==
  [pending |-> state.pending, hyp |-> state.hyp, at |-> applied, whole |-> work = None]

\* The worker serializes on its event loop, whatever the thread is at.
Checkpoint ==
  /\ applied > 0
  /\ blob' = Serialized
  /\ UNCHANGED <<state, work, heard, applied, restores, exact>>

\* The worker is lost; another one deserializes the checkpoint, with a new
\* extractor, and is pushed what came after it.
Restored(b) == [feats |-> << >>, pending |-> b.pending, hyp |-> b.hyp]
Restore ==
  /\ blob # None /\ restores < MaxRestores
  /\ state' = Restored(blob) /\ work' = None
  /\ heard' = blob.at /\ applied' = blob.at
  /\ restores' = restores + 1
  /\ exact' = (exact /\ blob.whole)
  /\ UNCHANGED blob

Next ==
  \/ \E n \in 1..MaxChunk : Infer(n)
  \/ Finalize \/ Encode \/ Retain \/ Commit \/ Finish
  \/ Checkpoint \/ Restore

Spec == Init /\ [][Next]_vars

-------------------------------------------------------------------------------
(* Properties.                                                             *)

\* The audio that windows have taken, each frame where a window is done with
\* it; the frames that follow; and what the extractor holds.
Encoded(hyp) == FlattenSeq([i \in DOMAIN hyp |-> SubSeq(hyp[i], 1, Advance)])
Following    == IF work = None THEN state.pending ELSE work.frames
Frames       == SelectSeq(Encoded(state.hyp) \o Following \o state.feats, LAMBDA f : f # 0)
Missing      == (1..heard) \ ToSet(Frames)

\* The seam is shorter than a window, "up to `window - 1` frames" (_consume),
\* and the extractor holds no more than its lag.
TypeOK ==
  /\ Len(state.feats) <= Lag
  /\ Len(state.pending) < Window
  /\ \A i \in DOMAIN state.hyp : Len(state.hyp[i]) = Window
  /\ heard \in 0..MaxHeard /\ applied \in 0..heard
  /\ restores \in 0..MaxRestores /\ exact \in BOOLEAN

\* No audio is encoded twice or out of order, whatever was restored and
\* replayed: the seam and the windows of a checkpoint end where its label says
\* that the replay begins (StateBank, stream_restore).  And each window repeats
\* what its predecessor was not done with, as the encoder's cache assumes
\* (_consume).
EveryFrameOnce ==
  exact => /\ ToSet(Frames) \subseteq 1..heard
           /\ \A i \in 2..Len(Frames) : Frames[i - 1] < Frames[i]
           /\ \A i \in 1..Len(state.hyp) - 1 :
                SubSeq(state.hyp[i + 1], 1, Window - Advance)
                  = SubSeq(state.hyp[i], Advance + 1, Window)

\* "The one known gap": a restore loses no more than the extractor held back,
\* which no checkpoint carries (docs/KVCACHE.md, section 9).
RestoreLosesLittle == exact => Cardinality(Missing) <= Lag * restores

\* The final's text is of all the audio: the padding is long enough that no
\* frame of it is left in the seam that finalize throws away.
FinalHearsAll ==
  work # None /\ work.final /\ ~Full(work.frames)
    => \A i \in DOMAIN work.frames : work.frames[i] = 0

\* "A checkpoint is only ever taken right after a chunk was fully applied": its
\* windows and its seam are the audio up to its label.
CheckpointAfterItsChunk ==
  blob # None =>
    LET frames == Encoded(blob.hyp) \o blob.pending
    IN  \A i \in DOMAIN frames :
          frames[i] <= blob.at /\ (i > 1 => frames[i - 1] < frames[i])
===============================================================================
