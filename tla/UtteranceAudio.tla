---------------------------- MODULE UtteranceAudio ----------------------------
(***************************************************************************)
(* The audio path of one session whose worker never fails: frames go       *)
(* through the pipeline and into the journal, chunks go to the worker in   *)
(* the order they are cut, and an endpoint ends the utterance and trims    *)
(* the journal.  It fixes what a recovery can rely on: when replaying      *)
(* the journal cuts the chunks the live path cut.                          *)
(*                                                                         *)
(* One step is one run of handleAudioFrame, or the client's session.end.   *)
(***************************************************************************)
EXTENDS AudioLog, AudioPipeline

CONSTANTS
  MaxGap,      \* how many sequence numbers a client may skip at once
  Durations,   \* frame durations a client may send, in microseconds
  VadKinds     \* which pipelines to look at: TRUE the VAD, FALSE pass-through

ASSUME UtteranceAssumption ==
  /\ MaxGap \in Nat /\ Durations \subseteq Nat /\ VadKinds \subseteq BOOLEAN

VARIABLES
  vad,          \* whether this session runs the VAD pipeline
  pipe,         \* the pipeline, with both of its queues drained
  reframe,      \* audio waiting for a whole detector window, in microseconds
  frames,       \* the journaled records by sequence number
  lastApplied,  \* State.LastAppliedSeq: the end of the last chunk pushed
  live,         \* the chunks pushed for the current utterance
  spoken,       \* ghost: the frames the detector heard speech in, since the
                \* last silence outside an utterance
  heard,        \* ghost: uninterrupted speech the detector reported, microseconds
  ended         \* the client sent session.end

audioVars == <<vad, pipe, reframe, frames, lastApplied, live, spoken, heard, ended>>
vars      == <<audioVars, logVars>>

Window == WindowMs * 1000

\* The frames a log holds, with what the journal kept of them.
Records(seqs) == [i \in 1..Len(seqs) |-> frames[seqs[i]]]
SeqsOf(recs)  == {recs[i].seq : i \in 1..Len(recs)}

-------------------------------------------------------------------------------
(* The floor an endpoint sets (finalizeEndpoint).                          *)

\* A floor at the frame that closed the utterance would cut into the pre-roll.
TrimFloorAtNewest(p, applied) ==
  IF HasRetention(p) THEN Last(p.preRoll).seq ELSE applied
TrimFloor(p, applied) ==
  IF HasRetention(p) /\ RetentionStart(p) - 1 < applied
  THEN RetentionStart(p) - 1 ELSE applied
\* No floor below sequence 0 can be expressed, so the trim is skipped.
ShouldTrim(p) == ~(HasRetention(p) /\ RetentionStart(p) = 0)

\* The raw verdict for a frame: any of the windows it completed was speech.
\* The detector, external, says of those windows "none", "some" or "all".
RawVoice(dur, verdict) == verdict # "none" /\ (reframe + dur) \div Window > 0

-------------------------------------------------------------------------------
Init ==
  /\ LogInit
  /\ vad \in VadKinds
  /\ pipe = Fresh
  /\ reframe = 0
  /\ frames = << >>
  /\ lastApplied = 0
  /\ live = << >>
  /\ spoken = {}
  /\ heard = 0
  /\ ended = FALSE

\* handleAudioFrame: Ingest, journal, boundaries, chunks, and the endpoint.
HandleAudioFrame(seq, dur, verdict) ==
  LET f        == [seq |-> seq, dur |-> dur,
                   voiced |-> IF vad THEN RawVoice(dur, verdict) ELSE TRUE]
      q        == Step(vad, pipe, f)
      endpoint == \E i \in DOMAIN q.events : q.events[i].type = "endpoint"
      chunks   == q.ready \o IF endpoint THEN ForceCut(q) ELSE << >>
      applied  == IF chunks = << >> THEN lastApplied ELSE Last(Last(chunks)).seq
      sent     == live \o chunks
  IN  /\ ~ended
      /\ Newer(seq)
      /\ seq <= MaxGap + IF retained = << >> THEN 1 ELSE Last(retained) + 1
      /\ frames' = (seq :> f) @@ frames
      /\ retained' = IF Len(retained) < Capacity THEN Append(retained, seq)
                                                 ELSE Append(Tail(retained), seq)
      /\ reframe' = IF vad THEN (reframe + dur) % Window ELSE reframe
      /\ heard' = CASE ~vad -> 0
                    [] vad /\ verdict = "all"  -> heard + Window * ((reframe + dur) \div Window)
                    [] vad /\ verdict = "some" -> 0
                    [] vad /\ verdict = "none" -> IF reframe + dur < Window THEN heard ELSE 0
      /\ lastApplied' = applied
      /\ IF endpoint
         THEN /\ pipe' = Drained(AfterForceCut(q))
              /\ live' = << >>
              /\ spoken' = {}
              /\ IF ShouldTrim(q)
                 THEN floor' = TrimFloor(q, applied) /\ trimmed' = TRUE
                 ELSE UNCHANGED <<floor, trimmed>>
         ELSE /\ pipe' = Drained(q)
              /\ live' = sent
              /\ spoken' = IF ~f.voiced
                           THEN IF pipe.active THEN spoken ELSE {}
                           ELSE spoken \cup {seq}
              /\ UNCHANGED <<floor, trimmed>>
      /\ UNCHANGED <<vad, ended>>

\* session.end: the tail is cut and pushed, the final closes the session and
\* the journal is trimmed to it.
HandleSessionEnd ==
  LET applied == IF pipe.pending = << >> THEN lastApplied ELSE Last(pipe.pending).seq
  IN  /\ ~ended
      /\ ended' = TRUE
      /\ live' = live \o ForceCut(pipe)
      /\ pipe' = AfterForceCut(pipe)
      /\ lastApplied' = applied
      /\ floor' = applied
      /\ trimmed' = TRUE
      /\ UNCHANGED <<vad, reframe, frames, spoken, heard, retained>>

Next ==
  \/ \E seq \in Seqs, dur \in Durations, verdict \in {"none", "some", "all"} :
       HandleAudioFrame(seq, dur, verdict)
  \/ HandleSessionEnd

Spec == Init /\ [][Next]_vars

-------------------------------------------------------------------------------
(* Properties.                                                             *)

\* Types.  Queues are drained, and the pre-roll never exceeds its budget.
TypeOK ==
  /\ vad \in BOOLEAN /\ ended \in BOOLEAN /\ trimmed \in BOOLEAN
  /\ reframe \in 0..Window - 1
  /\ ToSet(retained) \subseteq Seqs /\ Len(retained) <= Capacity
  /\ floor \in Nat /\ lastApplied \in Seqs \cup {0}
  /\ pipe.ready = << >> /\ pipe.events = << >>
  /\ Duration(pipe.preRoll) <= PreRollMs * 1000
  /\ Duration(pipe.pending) < ChunkMs * 1000
  /\ spoken \subseteq Seqs /\ heard \in Nat

\* The frames of the utterance: those sent and the tail not yet a chunk.
Sent    == FlattenSeq(live) \o pipe.pending
Doubled == Cardinality(SeqsOf(Sent)) < Len(Sent)

\* The ring still holds everything the utterance sent.
UtteranceRetained == SeqsOf(Sent) \subseteq ToSet(retained)

\* "the same chunk boundaries live Ingest would have cut": replaying the journal
\* from the committed floor cuts the very chunks the live path cut.  An onset with
\* a doubled frame refutes it (see the README).
RecutReproducesLive ==
  UtteranceRetained /\ ~ended => Recut(vad, Records(AboveFloor)) = live

\* The same of utterances whose onset did not carry the previous endpoint's last
\* frame twice.  Frames of several lengths refute it: the copy, evicted since, had
\* displaced a frame that the replay's pre-roll still holds (see the README).
RecutReproducesUndoubledLive == Doubled \/ RecutReproducesLive

\* All frames of the session last equally long.
Uniform == \A s, t \in DOMAIN frames : frames[s].dur = frames[t].dur

\* A replay from the floor cuts what the live path cut, across trims, gaps and a
\* ring that has wrapped, in a session whose frames are of one length and whose
\* pre-roll holds an onset, for an utterance whose onset carried no frame twice.
RecutReproducesUniformLive == Uniform /\ ~Doubled => RecutReproducesLive

\* No frame the open utterance, or the pre-roll of the next one, needs is at
\* or below the floor: a trim never discards audio a recovery would replay.
NothingOpenIsTrimmed ==
  trimmed /\ ~ended =>
    \A s \in SeqsOf(Sent) \cup SeqsOf(pipe.preRoll) : s > floor

\* No speech is dropped: once an utterance is open, every frame in which the
\* detector heard speech, those that opened it included, was sent or is
\* pending, in order; the session's end leaves nothing pending.
SpokenAudioIsSent ==
  /\ pipe.active \/ ~vad => spoken \subseteq SeqsOf(Sent)
  /\ \A i, j \in 1..Len(Sent) : i < j => Sent[i].seq <= Sent[j].seq
  /\ ended => pipe.pending = << >>

\* Speech is noticed however transport frames batch the detector's windows: once
\* it has reported StartSpeechMs without a break, with a window of slack for the
\* reframing residue, the newest frame is on its way.  That is for frames which
\* each complete a window; shorter ones refute it (see the README).
SpeechIsNoticed ==
  vad /\ ~ended /\ heard >= StartSpeechMs * 1000 + Window =>
    Last(retained) \in SeqsOf(Sent)

\* The floor a final commits only rises, and stays at or below the audio
\* that final covers.
FloorOnlyRises == [][floor' >= floor /\ floor' <= lastApplied']_vars
===============================================================================
