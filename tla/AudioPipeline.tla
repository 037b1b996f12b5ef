----------------------------- MODULE AudioPipeline -----------------------------
(***************************************************************************)
(* internal/audio: the two pipelines that cut accepted frames into         *)
(* inference chunks, as operators on a pipeline value.                     *)
(*                                                                         *)
(* A frame is its sequence number, its duration and the detector's raw     *)
(* verdict; samples are not modelled, a chunk is the sequence of frames    *)
(* whose payloads were concatenated into it.  Durations are microseconds,  *)
(* so that the code's conversion of a duration to whole milliseconds loses *)
(* what it loses in the code; the configuration is in milliseconds.        *)
(***************************************************************************)
EXTENDS Integers, Sequences, SequencesExt, FiniteSetsExt

CONSTANTS
  ChunkMs,         \* audio per inference chunk: 160 online, 2000 offline
  WindowMs,        \* the detector's fixed window
  StartSpeechMs,   \* voiced audio that opens an utterance
  EndSilenceMs,    \* unvoiced audio that closes it
  PreRollMs        \* audio before the onset that is sent with it

\* VADConfig.validate, and the positive chunk threshold the gateway passes.
ASSUME PipelineAssumption ==
  /\ ChunkMs \in Nat \ {0} /\ WindowMs \in Nat \ {0} /\ PreRollMs \in Nat
  /\ StartSpeechMs \in Nat /\ StartSpeechMs >= WindowMs
  /\ EndSilenceMs \in Nat /\ EndSilenceMs >= WindowMs

Ms(us)         == us \div 1000                              \* int(durationMs)
Duration(recs) == FoldLeft(LAMBDA sum, r : sum + r.dur, 0, recs)

-------------------------------------------------------------------------------
(* The accumulator both live ingest and replay feed.                       *)

\* A chunk cut one frame late: "more than" the threshold instead of "at least".
FeedLate(p, f) ==
  LET pending == Append(p.pending, f)
  IN  IF Duration(pending) <= ChunkMs * 1000
      THEN [p EXCEPT !.pending = pending]
      ELSE [p EXCEPT !.pending = << >>, !.ready = Append(@, pending)]

\* accumulator.feed for a voiced record.
Feed(p, f) ==
  LET pending == Append(p.pending, f)
  IN  IF Duration(pending) < ChunkMs * 1000
      THEN [p EXCEPT !.pending = pending]
      ELSE [p EXCEPT !.pending = << >>, !.ready = Append(@, pending)]

\* accumulator.forceCut: nothing, or everything pending as one short chunk.
ForceCut(p) == IF p.pending = << >> THEN << >> ELSE << p.pending >>
AfterForceCut(p) == [p EXCEPT !.pending = << >>]

\* Pipeline.Ready and the loop over Pipeline.Boundary drain both queues.
Drained(p) == [p EXCEPT !.ready = << >>, !.events = << >>]

\* A pipeline that has seen nothing.
Fresh == [active |-> FALSE, voiceMs |-> 0, silenceMs |-> 0,
          preRoll |-> << >>, pending |-> << >>,
          ready |-> << >>, events |-> << >>]

-------------------------------------------------------------------------------
(* The VAD pipeline: hysteresis and pre-roll.                              *)

\* keepPreRoll: append, then drop from the left until the rest fits.
KeepPreRoll(p, f) ==
  LET kept == Append(p.preRoll, f)
      n    == Len(kept)
      fits == {k \in 1..n + 1 : Duration(SubSeq(kept, k, n)) <= PreRollMs * 1000}
  IN  [p EXCEPT !.preRoll = SubSeq(kept, Min(fits), n)]

\* Opens an utterance with the onset frame alone, or only on one frame long
\* enough by itself.
InactiveDropsPreRoll(p, f) ==
  LET voice == IF f.voiced THEN p.voiceMs + Ms(f.dur) ELSE 0
  IN  IF voice < StartSpeechMs
      THEN [KeepPreRoll(p, f) EXCEPT !.voiceMs = voice]
      ELSE Feed([p EXCEPT !.active = TRUE, !.voiceMs = 0, !.preRoll = << >>], f)
InactiveForgetsVoice(p, f) ==
  IF f.voiced /\ Ms(f.dur) >= StartSpeechMs
  THEN Feed([p EXCEPT !.active = TRUE, !.preRoll = << >>], f)
  ELSE KeepPreRoll(p, f)

\* No active utterance: count voiced time, and open one once it suffices.
Inactive(p, f) ==
  LET q     == KeepPreRoll(p, f)
      voice == IF f.voiced THEN p.voiceMs + Ms(f.dur) ELSE 0
      onset == [q EXCEPT !.active = TRUE, !.voiceMs = 0, !.silenceMs = 0,
                         !.preRoll = << >>,
                         !.events = Append(@, [type |-> "speech.start", seq |-> f.seq])]
  IN  IF voice < StartSpeechMs THEN [q EXCEPT !.voiceMs = voice]
                               ELSE FoldLeft(Feed, onset, q.preRoll)

\* An active utterance goes on.
Voiced(p, f) == Feed([p EXCEPT !.silenceMs = 0, !.preRoll = << >>], f)

\* A silent frame of an active utterance; at the endpoint the frame is kept
\* for the next pre-roll a second time.
Silent(p, f) ==
  LET q       == KeepPreRoll(p, f)
      silence == p.silenceMs + Ms(f.dur)
  IN  IF silence < EndSilenceMs
      THEN [q EXCEPT !.silenceMs = silence]
      ELSE KeepPreRoll([q EXCEPT !.active = FALSE, !.silenceMs = 0,
                                 !.events = Append(@, [type |-> "endpoint", seq |-> f.seq])],
                       f)

ApplyHysteresis(p, f) ==
  CASE ~p.active            -> Inactive(p, f)
    [] p.active /\ f.voiced  -> Voiced(p, f)
    [] p.active /\ ~f.voiced -> Silent(p, f)

\* RetentionStart: the oldest frame a next utterance's pre-roll needs.
HasRetention(p)   == p.preRoll # << >>
RetentionStart(p) == p.preRoll[1].seq

-------------------------------------------------------------------------------
(* Either pipeline behind the Pipeline interface.                          *)

\* One frame, already carrying the detector's verdict.
Step(vad, p, f) == IF vad THEN ApplyHysteresis(p, f) ELSE Feed(p, f)

\* A replay that cuts the tail it has left over.
RecutAndFlush(vad, records) ==
  LET p == FoldLeft(LAMBDA q, f : Step(vad, q, f), Fresh, records)
  IN  p.ready \o ForceCut(p)

\* Recut: the chunks a fresh pipeline cuts from recorded frames, with the
\* recorded verdicts and without their unfinished tail.
Recut(vad, records) ==
  FoldLeft(LAMBDA q, f : Step(vad, q, f), Fresh, records).ready
===============================================================================
