------------------------------ MODULE AudioProofs ------------------------------
(***************************************************************************)
(* The audio path of UtteranceAudio, for every cut, window, hysteresis and *)
(* pre-roll, every capacity and every sequence of frames a client sends:   *)
(* the pipeline keeps within its budgets, the floor only rises, and no     *)
(* trim reaches the audio of an open utterance or of the next pre-roll.    *)
(*                                                                         *)
(* The inductive invariant says where every frame the pipeline holds came  *)
(* from, and that what it keeps for a pre-roll is never older than what is *)
(* pending, nor that than what was applied: an endpoint's floor is put     *)
(* just below the first of them, so none of the others is under it.        *)
(*                                                                         *)
(* After it, what becomes of the audio: it is sent in the order it was     *)
(* spoken, and under two conditions on the durations no frame of speech is *)
(* dropped and none that goes on is missed.                                *)
(***************************************************************************)
EXTENDS UtteranceAudio, PipelineTheorems

USE PipelineAssumption, CapacityAssumption, SeqsAssumption, UtteranceAssumption
    DEF PipelineAssumption, CapacityAssumption, SeqsAssumption, UtteranceAssumption

Newest == IF retained = << >> THEN 0 ELSE Last(retained)

\* The frames that came, above the floor while the session is open.
Held == {r \in Recorded : /\ r.seq \in Seqs /\ r.seq <= Newest
                          /\ trimmed /\ ~ended => floor < r.seq}

Kinds == vad \in BOOLEAN /\ ended \in BOOLEAN /\ trimmed \in BOOLEAN

Clock == reframe \in 0..Window - 1 /\ heard \in Nat /\ spoken \subseteq Seqs

RingKept == retained \in Seq(Seqs) /\ Len(retained) <= Capacity

PipeKept ==
  /\ pipe \in PipeOf(Held) /\ pipe.ready = << >> /\ pipe.events = << >>
  /\ Short(pipe) /\ Rolled(pipe) /\ Rising(pipe.preRoll)
  /\ IF vad THEN ~pipe.active => pipe.pending = << >> ELSE pipe.preRoll = << >>

LiveKept == live \in Seq(Cut(Held))

FloorKept ==
  /\ lastApplied \in Seqs \cup {0} /\ floor \in Nat /\ floor <= lastApplied
  /\ ~trimmed => floor = 0
  /\ trimmed /\ ~ended => retained # << >>
  /\ InOrder(pipe, lastApplied, Newest)

AudioInv == Kinds /\ Clock /\ RingKept /\ PipeKept /\ LiveKept /\ FloorKept

-------------------------------------------------------------------------------
(* The start.                                                              *)

LEMMA AudioInit == Init => AudioInv
<1> SUFFICES ASSUME Init PROVE AudioInv
  OBVIOUS
<1>1. /\ retained = << >> /\ floor = 0 /\ trimmed = FALSE /\ vad \in VadKinds
      /\ pipe = Fresh /\ reframe = 0 /\ lastApplied = 0 /\ live = << >>
      /\ spoken = {} /\ heard = 0 /\ ended = FALSE
  BY DEF Init, LogInit
<1>2. /\ pipe.ready = << >> /\ pipe.events = << >> /\ pipe.preRoll = << >>
      /\ pipe.pending = << >>
  BY <1>1 DEF Fresh
<1>3. Kinds
  BY <1>1 DEF Kinds
<1>4. Clock
  <2>1. Window \in Nat \ {0}
    BY DEF Window
  <2> QED
    BY <1>1, <2>1 DEF Clock
<1>5. RingKept
  BY <1>1, EmptySeq DEF RingKept
<1>6. PipeKept
  BY <1>1, <1>2, FreshHolds, ShortWhenEmpty, RolledWhenEmpty, RisingWhenEmpty DEF PipeKept
<1>7. LiveKept
  BY <1>1, EmptySeq DEF LiveKept
<1>8. FloorKept
  <2>1. Newest = 0
    BY <1>1 DEF Newest
  <2>2. Reached(pipe, 0, 0)
    BY <1>2, ReachedByNothing
  <2>3. 1..Len(pipe.preRoll) = {}
    BY <1>2
  <2>4. InOrder(pipe, lastApplied, Newest)
    BY <1>1, <2>1, <2>2, <2>3 DEF InOrder
  <2> QED
    BY <1>1, <2>4 DEF FloorKept
<1> QED
  BY <1>3, <1>4, <1>5, <1>6, <1>7, <1>8 DEF AudioInv

-------------------------------------------------------------------------------
(* A frame.                                                                *)

\* The frames that came, with the one at hand.
HeldWith(seq) == {r \in Recorded : /\ r.seq \in Seqs /\ r.seq <= seq
                                   /\ trimmed /\ ~ended => floor < r.seq}

LEMMA NewestIsKept ==
  ASSUME RingKept
  PROVE  /\ Newest \in Nat
         /\ retained # << >> => Len(retained) \in 1..Len(retained) /\ Newest = retained[Len(retained)]
<1>1. CASE retained = << >>
  BY <1>1 DEF Newest
<1>2. CASE retained # << >>
  <2>1. Len(retained) \in 1..Len(retained)
    BY <1>2, LenProperties, EmptySeq DEF RingKept
  <2>2. retained[Len(retained)] \in Seqs
    BY <2>1, ElementOfSeq DEF RingKept
  <2> QED
    BY <1>2, <2>1, <2>2 DEF Newest, Last
<1> QED
  BY <1>1, <1>2

\* A new frame is newer than every one there is.
LEMMA FrameIsNew ==
  ASSUME AudioInv, NEW seq \in Seqs, ~ended, Newer(seq)
  PROVE  /\ Newest <= seq /\ Held \subseteq HeldWith(seq)
         /\ trimmed => floor < seq
<1>1. Newest \in Nat /\ seq \in Nat /\ floor \in Nat
  BY NewestIsKept DEF AudioInv, FloorKept
<1>2. retained # << >> => Newest < seq
  BY NewestIsKept DEF AudioInv, Newer
<1>3. Newest <= seq
  <2>1. CASE retained = << >>
    BY <1>1, <2>1 DEF Newest
  <2>2. CASE retained # << >>
    BY <1>1, <1>2, <2>2
  <2> QED
    BY <2>1, <2>2
<1>4. Held \subseteq HeldWith(seq)
  <2> SUFFICES ASSUME NEW r \in Held PROVE r \in HeldWith(seq)
    OBVIOUS
  <2>1. r.seq \in Nat /\ r.seq <= Newest
    BY DEF Held, Recorded
  <2>2. r.seq <= seq
    BY <1>1, <1>3, <2>1
  <2> QED
    BY <2>2 DEF Held, HeldWith
<1>5. ASSUME trimmed PROVE floor < seq
  <2>1. retained # << >> /\ floor <= lastApplied /\ lastApplied <= Newest
    <3>1. lastApplied <= Newest
      BY DEF AudioInv, PipeKept, FloorKept, InOrder, Reached, AppliedOf
    <3> QED
      BY <1>5, <3>1 DEF AudioInv, FloorKept
  <2>2. lastApplied \in Nat
    BY DEF AudioInv, FloorKept
  <2> QED
    BY <1>1, <1>2, <2>1, <2>2
<1> QED
  BY <1>3, <1>4, <1>5

\* A record with the detector's verdict.
LEMMA FrameIsRecorded ==
  ASSUME AudioInv, NEW seq \in Seqs, NEW dur \in Durations, NEW voiced \in BOOLEAN,
         ~ended, Newer(seq)
  PROVE  [seq |-> seq, dur |-> dur, voiced |-> voiced] \in HeldWith(seq)
<1> DEFINE f == [seq |-> seq, dur |-> dur, voiced |-> voiced]
<1>1. f \in Recorded /\ f.seq = seq
  BY DEF Recorded
<1>2. trimmed => floor < seq
  BY FrameIsNew
<1>3. seq <= seq
  OBVIOUS
<1> HIDE DEF f
<1> QED
  BY <1>1, <1>2, <1>3 DEF HeldWith, f

\* What the pipeline makes of it.
Processed(seq, q) ==
  /\ q \in PipeOf(HeldWith(seq)) /\ Short(q) /\ Rolled(q) /\ Rising(q.preRoll)
  /\ InOrder(q, lastApplied, seq)
  /\ vad => Moves(pipe, q)
  /\ ~vad => q.events = << >> /\ q.preRoll = << >>

LEMMA FrameIsProcessed ==
  ASSUME AudioInv, NEW seq \in Seqs, NEW f \in HeldWith(seq), f.seq = seq, ~ended, Newer(seq)
  PROVE  Processed(seq, Step(vad, pipe, f))
<1> DEFINE F == HeldWith(seq)
           q == Step(vad, pipe, f)
<1>1. F \subseteq Recorded /\ Held \subseteq F /\ Newest <= seq /\ seq \in Nat /\ Newest \in Nat
  <2>1. F \subseteq Recorded
    BY DEF HeldWith
  <2>2. Held \subseteq F /\ Newest <= seq
    BY FrameIsNew
  <2>3. Newest \in Nat
    BY NewestIsKept DEF AudioInv
  <2>4. seq \in Nat
    OBVIOUS
  <2> HIDE DEF F
  <2> QED
    BY <2>1, <2>2, <2>3, <2>4
<1> HIDE DEF F
<1>2. /\ pipe \in PipeOf(Held) /\ pipe.ready = << >> /\ pipe.events = << >>
      /\ Short(pipe) /\ Rolled(pipe) /\ Rising(pipe.preRoll)
      /\ vad \in BOOLEAN /\ lastApplied \in Nat
      /\ InOrder(pipe, lastApplied, Newest)
  <2>1. vad \in BOOLEAN
    BY DEF AudioInv, Kinds
  <2>2. lastApplied \in Nat /\ InOrder(pipe, lastApplied, Newest)
    BY DEF AudioInv, FloorKept
  <2>3. /\ pipe \in PipeOf(Held) /\ pipe.ready = << >> /\ pipe.events = << >>
        /\ Short(pipe) /\ Rolled(pipe) /\ Rising(pipe.preRoll)
    BY DEF AudioInv, PipeKept
  <2> QED
    BY <2>1, <2>2, <2>3
<1>3. pipe \in PipeOf(F)
  BY <1>1, <1>2, PipeGrows
<1>4. InOrder(pipe, lastApplied, seq)
  BY <1>1, <1>2, <1>3, InOrderLater
<1>5. UpToSeq(pipe.preRoll, seq)
  BY <1>4 DEF InOrder, UpToSeq
<1>6. f \in F
  BY DEF F
<1>7. CASE vad
  <2>1. Settled(pipe)
    BY <1>2, <1>7 DEF Settled, AudioInv, PipeKept
  <2>2. q = ApplyHysteresis(pipe, f)
    BY <1>7 DEF Step
  <2> HIDE DEF q
  <2>3. Holds(F, pipe, f, q) /\ Moves(pipe, q)
    BY <1>1, <1>3, <1>6, <2>1, <2>2, HysteresisHolds
  <2>4. InOrder(q, lastApplied, seq)
    BY <1>1, <1>2, <1>3, <1>4, <1>6, <2>1, <2>2, FrameInOrder
  <2> QED
    BY <1>2, <1>5, <1>7, <2>3, <2>4 DEF Processed, Holds, F, q
<1>8. CASE ~vad
  <2>1. q = Feed(pipe, f)
    BY <1>8 DEF Step
  <2>2. pipe.preRoll = << >>
    BY <1>8 DEF AudioInv, PipeKept
  <2> HIDE DEF q
  <2>3. /\ q \in PipeOf(F) /\ Short(q) /\ Rolled(q) /\ InOrder(q, lastApplied, seq)
        /\ q.events = << >> /\ q.preRoll = << >>
    BY <1>1, <1>2, <1>3, <1>4, <1>6, <2>1, <2>2, PassHolds
  <2> QED
    BY <1>8, <2>3, RisingWhenEmpty DEF Processed, F, q
<1> QED
  BY <1>2, <1>7, <1>8

\* What is sent for a frame: the chunks it completes, and at an endpoint
\* whatever is still pending.
Sending(q) == q.ready \o IF HasEnded(q) THEN ForceCut(q) ELSE << >>

\* A frame, without the locals of its handler.
LEMMA FrameIsHandled ==
  ASSUME AudioInv, NEW seq \in Seqs, NEW dur \in Durations, NEW verdict,
         HandleAudioFrame(seq, dur, verdict)
  PROVE  \E q : /\ Processed(seq, q) /\ ~ended /\ Newer(seq) /\ UNCHANGED <<vad, ended>>
                /\ retained' = IF Len(retained) < Capacity THEN Append(retained, seq)
                                                           ELSE Append(Tail(retained), seq)
                /\ reframe' = IF vad THEN (reframe + dur) % Window ELSE reframe
                /\ lastApplied' = AppliedOf(Sending(q), lastApplied)
                /\ HasEnded(q) => /\ pipe' = Drained(AfterForceCut(q))
                              /\ live' = << >> /\ spoken' = {}
                              /\ IF ShouldTrim(q)
                                 THEN floor' = TrimFloor(q, lastApplied') /\ trimmed' = TRUE
                                 ELSE UNCHANGED <<floor, trimmed>>
                /\ ~HasEnded(q) => /\ pipe' = Drained(q)
                               /\ live' = live \o Sending(q)
                               /\ spoken' \subseteq spoken \cup {seq}
                               /\ UNCHANGED <<floor, trimmed>>
<1> DEFINE voiced == IF vad THEN RawVoice(dur, verdict) ELSE TRUE
           f == [seq |-> seq, dur |-> dur, voiced |-> voiced]
           q == Step(vad, pipe, f)
<1>1. ~ended /\ Newer(seq)
  BY DEF HandleAudioFrame
<1>2. voiced \in BOOLEAN
  BY DEF RawVoice
<1>3. f \in HeldWith(seq) /\ f.seq = seq
  <2> HIDE DEF voiced
  <2> QED
    BY <1>1, <1>2, FrameIsRecorded
<1>4. Processed(seq, q)
  <2> HIDE DEF f
  <2> QED
    BY <1>1, <1>3, FrameIsProcessed
<1>5. /\ retained' = IF Len(retained) < Capacity THEN Append(retained, seq)
                                                 ELSE Append(Tail(retained), seq)
      /\ reframe' = IF vad THEN (reframe + dur) % Window ELSE reframe
      /\ UNCHANGED <<vad, ended>>
  BY DEF HandleAudioFrame
<1>6. lastApplied' = AppliedOf(Sending(q), lastApplied)
  BY DEF HandleAudioFrame, AppliedOf, Sending, HasEnded
<1>7. ASSUME HasEnded(q)
      PROVE  /\ pipe' = Drained(AfterForceCut(q)) /\ live' = << >> /\ spoken' = {}
             /\ IF ShouldTrim(q)
                THEN floor' = TrimFloor(q, lastApplied') /\ trimmed' = TRUE
                ELSE UNCHANGED <<floor, trimmed>>
  BY <1>7 DEF HandleAudioFrame, HasEnded
<1>8. ASSUME ~HasEnded(q)
      PROVE  /\ pipe' = Drained(q) /\ live' = live \o Sending(q)
             /\ spoken' \subseteq spoken \cup {seq} /\ UNCHANGED <<floor, trimmed>>
  BY <1>8 DEF HandleAudioFrame, Sending, HasEnded
<1> HIDE DEF q
<1> QED
  BY <1>1, <1>4, <1>5, <1>6, <1>7, <1>8

LEMMA WholeWindows ==
  ASSUME NEW a \in Nat, NEW w \in Nat \ {0}
  PROVE  a \div w \in Nat /\ a % w \in 0..w - 1
OBVIOUS

LEMMA ProductIsNat ==
  ASSUME NEW a \in Nat, NEW b \in Nat
  PROVE  a * b \in Nat
OBVIOUS

LEMMA ClockRuns ==
  ASSUME AudioInv, NEW seq \in Seqs, NEW dur \in Durations, NEW verdict,
         HandleAudioFrame(seq, dur, verdict), verdict \in {"none", "some", "all"}
  PROVE  Clock'
<1> DEFINE n == (reframe + dur) \div Window
           speech == Window * n
<1>1. /\ Window \in Nat \ {0} /\ reframe \in 0..Window - 1 /\ heard \in Nat /\ spoken \subseteq Seqs
      /\ vad \in BOOLEAN
  BY DEF AudioInv, Clock, Window, Kinds
<1>2. reframe + dur \in Nat
  BY <1>1
<1>3. n \in Nat /\ (reframe + dur) % Window \in 0..Window - 1
  BY <1>1, <1>2, WholeWindows
<1> HIDE DEF n
<1>4. speech \in Nat
  BY <1>1, <1>3, ProductIsNat
<1>5. reframe' \in 0..Window - 1
  BY <1>1, <1>3, FrameIsHandled
<1>6. spoken' \subseteq Seqs
  <2>1. spoken' = {} \/ spoken' \subseteq spoken \cup {seq}
    BY FrameIsHandled
  <2> QED
    BY <1>1, <2>1
<1>7. heard' = CASE ~vad -> 0
                 [] vad /\ verdict = "all"  -> heard + speech
                 [] vad /\ verdict = "some" -> 0
                 [] vad /\ verdict = "none" -> IF reframe + dur < Window THEN heard ELSE 0
  BY DEF HandleAudioFrame, n
<1> HIDE DEF speech
<1>8. heard' \in Nat
  <2>1. CASE ~vad
    BY <1>7, <2>1
  <2>2. CASE vad /\ verdict = "all"
    BY <1>1, <1>4, <1>7, <2>2
  <2>3. CASE vad /\ verdict = "some"
    BY <1>7, <2>3
  <2>4. CASE vad /\ verdict = "none"
    BY <1>1, <1>7, <2>4
  <2> QED
    BY <1>1, <2>1, <2>2, <2>3, <2>4
<1>9. Window' = Window
  BY DEF Window
<1> HIDE DEF Window
<1> QED
  BY <1>5, <1>6, <1>8, <1>9 DEF Clock

\* The frame at hand becomes the newest.
LEMMA RingTakes ==
  ASSUME RingKept, NEW seq \in Seqs,
         retained' = IF Len(retained) < Capacity THEN Append(retained, seq)
                                                 ELSE Append(Tail(retained), seq)
  PROVE  RingKept' /\ Newest' = seq /\ retained' # << >>
<1>1. retained \in Seq(Seqs) /\ Len(retained) \in Nat /\ Len(retained) <= Capacity
  BY LenProperties DEF RingKept
<1>2. ASSUME NEW s \in Seq(Seqs), Len(s) < Capacity, retained' = Append(s, seq)
      PROVE  RingKept' /\ Newest' = seq /\ retained' # << >>
  <2> DEFINE t == Append(s, seq)
  <2>0. /\ t \in Seq(Seqs) /\ Len(t) = Len(s) + 1 /\ Len(s) \in Nat /\ t[Len(s) + 1] = seq
    BY AppendProperties, LenProperties
  <2> HIDE DEF t
  <2>1. /\ retained' \in Seq(Seqs) /\ Len(retained') = Len(s) + 1 /\ Len(s) \in Nat
        /\ retained'[Len(s) + 1] = seq
    <3>1. retained' = t
      BY <1>2 DEF t
    <3> QED
      BY <2>0, <3>1
  <2>2. retained' # << >>
    BY <2>1
  <2> QED
    BY <1>2, <2>1, <2>2 DEF RingKept, Newest, Last
<1>3. CASE Len(retained) < Capacity
  BY <1>1, <1>2, <1>3
<1>4. CASE ~(Len(retained) < Capacity)
  <2>1. retained # << >>
    BY <1>1, <1>4
  <2>2. Tail(retained) \in Seq(Seqs) /\ Len(Tail(retained)) = Len(retained) - 1
    BY <1>1, <2>1, HeadTailProperties
  <2>3. Len(Tail(retained)) < Capacity /\ retained' = Append(Tail(retained), seq)
    BY <1>1, <1>4, <2>2
  <2> QED
    BY <1>2, <2>2, <2>3
<1> QED
  BY <1>3, <1>4

\* Only an endpoint of the VAD pipeline ends an utterance, and it cuts nothing
\* by itself.
LEMMA OnlySilenceEnds ==
  ASSUME AudioInv, NEW seq, NEW q, Processed(seq, q)
  PROVE  /\ HasEnded(q) => vad /\ q.active = FALSE /\ q.ready = << >>
         /\ ~HasEnded(q) => (vad /\ ~q.active => q.pending = << >>)
<1>1. q.active \in BOOLEAN
  BY DEF Processed, PipeOf
<1>2. q.events = << >> => ~HasEnded(q)
  BY DEF HasEnded
<1>3. CASE ~vad
  BY <1>2, <1>3 DEF Processed
<1>4. CASE vad
  BY <1>1, <1>2, <1>4 DEF Processed, Moves
<1> QED
  BY <1>3, <1>4

\* The chunks that are sent, and the pipeline they leave.
LEMMA SendingHolds ==
  ASSUME AudioInv, NEW seq \in Nat, NEW q, Processed(seq, q)
  PROVE  LET a == AppliedOf(Sending(q), lastApplied)
             d == Drained(IF HasEnded(q) THEN AfterForceCut(q) ELSE q)
         IN  /\ Sending(q) \in Seq(Cut(HeldWith(seq)))
             /\ a \in Nat /\ (a = lastApplied \/ a \in Seqs)
             /\ lastApplied <= a /\ InOrder(d, a, seq)
             /\ d \in PipeOf(HeldWith(seq)) /\ d.ready = << >> /\ d.events = << >>
             /\ Short(d) /\ Rolled(d) /\ Rising(d.preRoll) /\ d.preRoll = q.preRoll
             /\ IF vad THEN ~d.active => d.pending = << >> ELSE d.preRoll = << >>
<1> DEFINE F == HeldWith(seq)
           s == Sending(q)
           a == AppliedOf(s, lastApplied)
           d == Drained(IF HasEnded(q) THEN AfterForceCut(q) ELSE q)
<1>1. F \subseteq Recorded /\ \A r \in F : r.seq \in Seqs
  BY DEF HeldWith
<1>2. lastApplied \in Nat
  BY DEF AudioInv, FloorKept
<1>3. /\ q \in PipeOf(F) /\ Short(q) /\ Rolled(q) /\ Rising(q.preRoll)
      /\ InOrder(q, lastApplied, seq) /\ vad \in BOOLEAN
      /\ ~vad => q.preRoll = << >>
  <2>1. vad \in BOOLEAN
    BY DEF AudioInv, Kinds
  <2> QED
    BY <2>1 DEF Processed
<1> HIDE DEF F
<1>4. q.ready \in Seq(Cut(F)) /\ q.pending \in Seq(F) /\ q.preRoll \in Seq(F)
  BY <1>3 DEF PipeOf
<1>5. ASSUME NEW c \in Seq(Cut(F)), NEW b, b = AppliedOf(c, lastApplied)
      PROVE  b \in Nat /\ (b = lastApplied \/ b \in Seqs)
  <2>1. b \in Nat
    BY <1>1, <1>2, <1>5, AppliedIsNat
  <2>2. CASE c = << >>
    BY <1>5, <2>1, <2>2 DEF AppliedOf
  <2>3. CASE c # << >>
    <3>1. Last(Last(c)) \in F /\ b = Last(Last(c)).seq
      BY <1>1, <1>2, <1>5, <2>3, AppliedIsNat
    <3> QED
      BY <1>1, <2>1, <3>1
  <2> QED
    BY <2>2, <2>3
<1>6. CASE ~HasEnded(q)
  <2>1. s = q.ready
    <3>1. s = q.ready \o << >>
      BY <1>6 DEF Sending
    <3> QED
      BY <1>4, <3>1, ConcatEmptySeq
  <2>2. d = Drained(q)
    BY <1>6
  <2> HIDE DEF s, a, d
  <2>3. /\ d \in PipeOf(F) /\ d.ready = << >> /\ d.events = << >>
        /\ d.active = q.active /\ d.pending = q.pending /\ d.preRoll = q.preRoll
    BY <1>3, <2>2, DrainedHolds
  <2>4. Short(d) /\ Rolled(d) /\ Rising(d.preRoll)
    BY <1>3, <2>3 DEF Short, Rolled
  <2>5. a = AppliedOf(q.ready, lastApplied) /\ AppliedOf(d.ready, a) = a
    BY <2>1, <2>3 DEF a, AppliedOf
  <2>6. a \in Nat /\ (a = lastApplied \/ a \in Seqs)
    BY <1>4, <1>5, <2>5
  <2>7. lastApplied <= a /\ InOrder(d, a, seq)
    BY <1>3, <2>3, <2>5, <2>6 DEF InOrder, Reached
  <2>8. IF vad THEN ~d.active => d.pending = << >> ELSE d.preRoll = << >>
    BY <1>3, <1>6, <2>3, OnlySilenceEnds
  <2> QED
    BY <1>4, <2>1, <2>3, <2>4, <2>6, <2>7, <2>8 DEF F, s, a, d
<1>7. CASE HasEnded(q)
  <2>1. vad /\ q.active = FALSE /\ q.ready = << >>
    BY <1>7, OnlySilenceEnds
  <2> DEFINE e == AfterForceCut(q)
             c == ForceCut(q)
  <2>2. d = Drained(e)
    BY <1>7
  <2>3. c \in Seq(Cut(F)) /\ AppliedOf(c, lastApplied) =
                               IF q.pending = << >> THEN lastApplied ELSE Last(q.pending).seq
    BY <1>1, <1>4, ForceCutHolds
  <2>4. s = c
    <3>1. s = << >> \o c
      BY <1>7, <2>1 DEF Sending
    <3> HIDE DEF c
    <3> QED
      BY <2>3, <3>1, ConcatEmptySeq
  <2> HIDE DEF s, a, d, e, c
  <2>5. /\ e \in PipeOf(F) /\ e.pending = << >> /\ e.active = q.active /\ e.preRoll = q.preRoll
    BY <1>3, AfterForceCutHolds DEF e
  <2>6. /\ d \in PipeOf(F) /\ d.ready = << >> /\ d.events = << >>
        /\ d.active = e.active /\ d.pending = e.pending /\ d.preRoll = e.preRoll
    BY <2>2, <2>5, DrainedHolds
  <2>7. Short(d) /\ Rolled(d) /\ Rising(d.preRoll) /\ d.pending = << >> /\ d.preRoll = q.preRoll
    BY <1>3, <2>5, <2>6, ShortWhenEmpty DEF Rolled
  <2>8. a = (IF q.pending = << >> THEN lastApplied ELSE Last(q.pending).seq) /\ AppliedOf(d.ready, a) = a
    BY <2>3, <2>4, <2>6 DEF a, AppliedOf
  <2>9. a \in Nat /\ (a = lastApplied \/ a \in Seqs)
    BY <1>5, <2>3, <2>4 DEF a
  <2>10. /\ AppliedOf(q.ready, lastApplied) = lastApplied
         /\ \A i \in 1..Len(q.pending) : lastApplied <= q.pending[i].seq /\ q.pending[i].seq <= seq
         /\ lastApplied <= seq
    BY <1>3, <2>1 DEF InOrder, Reached, AppliedOf
  <2>11. q.pending # << >> => Len(q.pending) \in 1..Len(q.pending) /\ Last(q.pending) = q.pending[Len(q.pending)]
    BY <1>4, LenProperties, EmptySeq DEF Last
  <2>12. lastApplied <= a /\ a <= seq
    <3>1. CASE q.pending = << >>
      BY <1>2, <2>8, <2>10, <3>1
    <3>2. CASE q.pending # << >>
      BY <2>8, <2>10, <2>11, <3>2
    <3> QED
      BY <3>1, <3>2
  <2>13. \A i \in 1..Len(q.preRoll) : a <= q.preRoll[i].seq /\ q.preRoll[i].seq <= seq
    <3>1. CASE q.pending = << >>
      BY <1>3, <2>8, <2>10, <3>1 DEF InOrder
    <3>2. CASE q.pending # << >>
      BY <1>3, <2>8, <2>11, <3>2 DEF InOrder
    <3> QED
      BY <3>1, <3>2
  <2>14. 1..Len(d.pending) = {}
    BY <2>7
  <2>15. Reached(d, a, seq)
    BY <2>8, <2>9, <2>12, <2>14 DEF Reached
  <2>16. InOrder(d, a, seq)
    BY <2>7, <2>8, <2>13, <2>14, <2>15 DEF InOrder
  <2> QED
    BY <2>1, <2>3, <2>4, <2>6, <2>7, <2>9, <2>12, <2>16 DEF F, s, a, d
<1> QED
  BY <1>6, <1>7

\* The floor a trim sets lies between the old one and the audio applied, and
\* below everything kept for the next pre-roll.
LEMMA TrimHolds ==
  ASSUME AudioInv, NEW F, F \subseteq Recorded, NEW q, q.preRoll \in Seq(F), Rising(q.preRoll),
         NEW a \in Nat, lastApplied <= a, ShouldTrim(q),
         trimmed => \A r \in F : floor < r.seq
  PROVE  LET t == TrimFloor(q, a)
         IN  /\ t \in Nat /\ floor <= t /\ t <= a
             /\ \A i \in 1..Len(q.preRoll) : t < q.preRoll[i].seq
<1> DEFINE t == TrimFloor(q, a)
<1>1. floor \in Nat /\ lastApplied \in Nat /\ floor <= lastApplied /\ (~trimmed => floor = 0)
  BY DEF AudioInv, FloorKept
<1>2. Len(q.preRoll) \in Nat /\ \A i \in 1..Len(q.preRoll) : q.preRoll[i] \in F /\ q.preRoll[i].seq \in Nat
  BY LenProperties, ElementOfSeq DEF Recorded
<1>3. CASE q.preRoll = << >>
  <2>1. t = a
    BY <1>3 DEF TrimFloor, HasRetention
  <2>2. 1..Len(q.preRoll) = {}
    BY <1>3
  <2> HIDE DEF t
  <2> QED
    BY <1>1, <2>1, <2>2 DEF t
<1>4. CASE q.preRoll # << >>
  <2> DEFINE r == q.preRoll[1].seq
  <2>1. 1 \in 1..Len(q.preRoll)
    BY <1>2, <1>4, EmptySeq
  <2>2. r \in Nat /\ \A i \in 1..Len(q.preRoll) : r <= q.preRoll[i].seq
    <3>1. \A i \in 1..Len(q.preRoll) : 1 <= i
      BY <1>2
    <3> QED
      BY <1>2, <2>1, <3>1 DEF Rising
  <2>3. r # 0
    BY <1>4 DEF ShouldTrim, HasRetention, RetentionStart
  <2>4. t = IF r - 1 < a THEN r - 1 ELSE a
    BY <1>4 DEF TrimFloor, HasRetention, RetentionStart
  <2>5. trimmed => floor < r
    BY <1>2, <2>1
  <2> HIDE DEF r, t
  <2>6. floor <= r - 1
    <3>1. CASE trimmed
      BY <1>1, <2>2, <2>5, <3>1
    <3>2. CASE ~trimmed
      BY <1>1, <2>2, <2>3, <3>2
    <3> QED
      BY <3>1, <3>2
  <2>7. t \in Nat /\ floor <= t /\ t <= a /\ t < r
    <3>1. CASE r - 1 < a
      BY <1>1, <2>2, <2>3, <2>4, <2>6, <3>1
    <3>2. CASE ~(r - 1 < a)
      BY <1>1, <2>2, <2>4, <3>2
    <3> QED
      BY <3>1, <3>2
  <2>8. \A i \in 1..Len(q.preRoll) : t < q.preRoll[i].seq
    BY <1>2, <2>2, <2>7
  <2> QED
    BY <2>7, <2>8 DEF t
<1> QED
  BY <1>3, <1>4

\* What an endpoint leaves is above the floor it sets.
LEMMA HeldAfterTrim ==
  ASSUME NEW seq \in Seqs, ~ended, ended' = ended, trimmed' = TRUE, Newest' = seq,
         floor' \in Nat, floor \in Nat, floor <= floor'
  PROVE  {r \in HeldWith(seq) : floor' < r.seq} = Held'
<1>1. \A r \in Recorded : r.seq \in Nat
  BY DEF Recorded
<1>2. Held' = {r \in Recorded : r.seq \in Seqs /\ r.seq <= seq /\ floor' < r.seq}
  BY DEF Held
<1>3. \A r \in Recorded : floor' < r.seq => floor < r.seq
  BY <1>1
<1> QED
  BY <1>2, <1>3 DEF HeldWith

LEMMA EndingLeavesNothing ==
  ASSUME NEW F, NEW q \in PipeOf(F)
  PROVE  Drained(AfterForceCut(q)).pending = << >>
<1>1. AfterForceCut(q) \in PipeOf(F) /\ AfterForceCut(q).pending = << >>
  BY AfterForceCutHolds
<1>2. Drained(AfterForceCut(q)).pending = AfterForceCut(q).pending
  BY <1>1, DrainedHolds
<1> QED
  BY <1>1, <1>2, Zenon

LEMMA PipeAmong ==
  ASSUME NEW F, NEW K, NEW d \in PipeOf(F), d.preRoll \in Seq(K), d.pending = << >>, d.ready = << >>
  PROVE  d \in PipeOf(K)
<1>1. << >> \in Seq(K) /\ << >> \in Seq(Cut(K))
  BY EmptySeq
<1> HIDE DEF Cut, Event
<1> QED
  BY <1>1 DEF PipeOf

\* A frame keeps the invariant, and its trim, if it makes one, only raises
\* the floor.
Raised == floor' >= floor /\ floor' <= lastApplied'

LEMMA FrameKeeps ==
  ASSUME AudioInv, NEW seq \in Seqs, NEW dur \in Durations, NEW verdict \in {"none", "some", "all"},
         HandleAudioFrame(seq, dur, verdict)
  PROVE  AudioInv' /\ Raised
<1>1. PICK q : /\ Processed(seq, q) /\ ~ended /\ Newer(seq) /\ UNCHANGED <<vad, ended>>
               /\ retained' = IF Len(retained) < Capacity THEN Append(retained, seq)
                                                          ELSE Append(Tail(retained), seq)
               /\ lastApplied' = AppliedOf(Sending(q), lastApplied)
               /\ HasEnded(q) => /\ pipe' = Drained(AfterForceCut(q))
                                 /\ live' = << >>
                                 /\ IF ShouldTrim(q)
                                    THEN floor' = TrimFloor(q, lastApplied') /\ trimmed' = TRUE
                                    ELSE UNCHANGED <<floor, trimmed>>
               /\ ~HasEnded(q) => /\ pipe' = Drained(q)
                                  /\ live' = live \o Sending(q)
                                  /\ UNCHANGED <<floor, trimmed>>
  BY FrameIsHandled
<1> DEFINE F == HeldWith(seq)
           a == AppliedOf(Sending(q), lastApplied)
           d == Drained(IF HasEnded(q) THEN AfterForceCut(q) ELSE q)
<1>2. F \subseteq Recorded /\ seq \in Nat
  BY DEF HeldWith
<1>3. RingKept' /\ Newest' = seq /\ retained' # << >>
  BY <1>1, RingTakes DEF AudioInv
<1>4. pipe' = d /\ lastApplied' = a
  BY <1>1
<1>5. /\ Sending(q) \in Seq(Cut(F)) /\ a \in Nat /\ (a = lastApplied \/ a \in Seqs)
      /\ lastApplied <= a /\ InOrder(d, a, seq)
      /\ d \in PipeOf(F) /\ d.ready = << >> /\ d.events = << >>
      /\ Short(d) /\ Rolled(d) /\ Rising(d.preRoll) /\ d.preRoll = q.preRoll
      /\ IF vad THEN ~d.active => d.pending = << >> ELSE d.preRoll = << >>
  BY <1>1, <1>2, SendingHolds
<1>6. /\ floor \in Nat /\ lastApplied \in Seqs \cup {0} /\ floor <= lastApplied
      /\ ~trimmed => floor = 0
      /\ trimmed \in BOOLEAN /\ vad \in BOOLEAN /\ ended \in BOOLEAN /\ live \in Seq(Cut(Held))
  BY DEF AudioInv, FloorKept, Kinds, LiveKept
<1>7. trimmed => \A r \in F : floor < r.seq
  BY <1>1, <1>6 DEF HeldWith
<1> HIDE DEF F, a, d
<1>8. floor <= a
  <2>1. lastApplied \in Nat
    BY <1>6
  <2>2. a \in Nat /\ lastApplied <= a /\ floor \in Nat /\ floor <= lastApplied
    BY <1>5, <1>6
  <2> QED
    BY <2>1, <2>2
<1>9. d.preRoll \in Seq(F) /\ d.pending \in Seq(F)
  BY <1>5 DEF PipeOf
\* What the step does to the floor, the pipeline's frames and the chunks sent.
<1>10. /\ floor' \in Nat /\ floor <= floor' /\ floor' <= a /\ trimmed' \in BOOLEAN
       /\ ~trimmed' => floor' = 0
       /\ d \in PipeOf(Held') /\ live' \in Seq(Cut(Held'))
  <2>1. CASE ~HasEnded(q)
    <3>1. UNCHANGED <<floor, trimmed>> /\ live' = live \o Sending(q)
      BY <1>1, <2>1
    <3>2. Held' = F
      BY <1>1, <1>3, <3>1 DEF Held, HeldWith, F
    <3>3. live \in Seq(Cut(F))
      <4>1. Held \subseteq F
        BY <1>1, FrameIsNew DEF F
      <4>2. Cut(Held) \subseteq Cut(F)
        BY <4>1, SeqGrows DEF Cut
      <4> QED
        BY <1>6, <4>2, SeqGrows
    <3>4. live' \in Seq(Cut(F))
      BY <1>5, <3>1, <3>3, ConcatProperties
    <3> QED
      BY <1>5, <1>6, <1>8, <3>1, <3>2, <3>4
  <2>2. CASE HasEnded(q) /\ ~ShouldTrim(q)
    <3>1. UNCHANGED <<floor, trimmed>> /\ live' = << >>
      BY <1>1, <2>2
    <3>2. Held' = F
      BY <1>1, <1>3, <3>1 DEF Held, HeldWith, F
    <3> QED
      BY <1>5, <1>6, <1>8, <3>1, <3>2, EmptySeq
  <2>3. CASE HasEnded(q) /\ ShouldTrim(q)
    <3>1. floor' = TrimFloor(q, a) /\ trimmed' = TRUE /\ live' = << >>
      BY <1>1, <1>4, <2>3
    <3>2. /\ floor' \in Nat /\ floor <= floor' /\ floor' <= a
          /\ \A i \in 1..Len(d.preRoll) : floor' < d.preRoll[i].seq
      BY <1>2, <1>5, <1>7, <1>9, <2>3, <3>1, TrimHolds
    <3> DEFINE K == {r \in F : floor' < r.seq}
    <3>3. K = Held'
      BY <1>1, <1>3, <1>6, <3>1, <3>2, HeldAfterTrim DEF F
    <3>4. d.preRoll \in Seq(K) /\ d.pending = << >>
      <4>1. \A i \in 1..Len(d.preRoll) : d.preRoll[i] \in K
        BY <1>9, <3>2, ElementOfSeq
      <4>2. d.pending = << >>
        BY <1>1, <2>3, EndingLeavesNothing DEF d, Processed
      <4> HIDE DEF K
      <4> QED
        BY <1>2, <1>9, <4>1, <4>2, AmongHolds
    <3> HIDE DEF K
    <3>5. d \in PipeOf(K)
      BY <1>5, <3>4, PipeAmong
    <3> QED
      BY <3>1, <3>2, <3>3, <3>5, EmptySeq
  <2> QED
    BY <2>1, <2>2, <2>3
<1>11. Kinds'
  BY <1>1, <1>6, <1>10 DEF Kinds
<1>12. PipeKept'
  <2>1. (pipe \in PipeOf(Held))'
    <3>1. pipe' \in PipeOf(Held')
      BY <1>4, <1>10
    <3> QED
      BY <3>1 DEF PipeOf, Cut, Event
  <2>4. vad' = vad
    BY <1>1
  <2>2. /\ pipe'.ready = << >> /\ pipe'.events = << >>
        /\ Short(pipe') /\ Rolled(pipe') /\ Rising(pipe'.preRoll)
        /\ IF vad THEN ~pipe'.active => pipe'.pending = << >> ELSE pipe'.preRoll = << >>
    BY <1>4, <1>5
  <2>3. Short(pipe)' /\ Rolled(pipe)' /\ Rising(pipe.preRoll)'
    BY <2>2 DEF Short, Rolled, Rising
  <2> QED
    BY <2>1, <2>2, <2>3, <2>4 DEF PipeKept
<1>13. LiveKept'
  BY <1>10 DEF LiveKept, Cut
<1>14. FloorKept'
  <2>1. lastApplied' \in Seqs \cup {0}
    BY <1>4, <1>5, <1>6
  <2>2. InOrder(pipe', lastApplied', Newest')
    BY <1>3, <1>4, <1>5
  <2>4. /\ floor' \in Nat /\ floor' <= lastApplied' /\ (~trimmed' => floor' = 0)
        /\ retained' # << >>
    BY <1>3, <1>4, <1>10
  <2>3. InOrder(pipe, lastApplied, Newest)'
    BY <2>2 DEF InOrder, Reached, AppliedOf
  <2> QED
    BY <2>1, <2>3, <2>4 DEF FloorKept
<1>15. Clock'
  BY ClockRuns
<1>16. Raised
  <2>1. floor \in Nat /\ floor' \in Nat /\ floor <= floor' /\ floor' <= lastApplied'
    BY <1>4, <1>6, <1>10
  <2> QED
    BY <2>1 DEF Raised
<1> QED
  BY <1>3, <1>11, <1>12, <1>13, <1>14, <1>15, <1>16 DEF AudioInv

-------------------------------------------------------------------------------
(* The session's end.                                                      *)

LEMMA EndKeeps ==
  ASSUME AudioInv, HandleSessionEnd
  PROVE  AudioInv' /\ Raised
<1> DEFINE c == ForceCut(pipe)
           a == IF pipe.pending = << >> THEN lastApplied ELSE Last(pipe.pending).seq
           d == AfterForceCut(pipe)
<1>1. /\ ~ended /\ ended' = TRUE /\ live' = live \o c /\ pipe' = d
      /\ lastApplied' = a /\ floor' = a /\ trimmed' = TRUE
      /\ UNCHANGED <<vad, reframe, spoken, heard, retained>>
  BY DEF HandleSessionEnd
<1>2. Newest' = Newest /\ Newest \in Nat
  BY <1>1, NewestIsKept DEF AudioInv, Newest
<1>3. Held \subseteq Held'
  BY <1>1, <1>2 DEF Held
<1>4. /\ pipe \in PipeOf(Held) /\ pipe.ready = << >> /\ pipe.events = << >>
      /\ Rolled(pipe) /\ Rising(pipe.preRoll)
      /\ ~vad => pipe.preRoll = << >>
  BY DEF AudioInv, PipeKept
<1>5. /\ live \in Seq(Cut(Held)) /\ lastApplied \in Seqs \cup {0} /\ floor \in Nat
      /\ floor <= lastApplied /\ vad \in BOOLEAN /\ InOrder(pipe, lastApplied, Newest)
  BY DEF AudioInv, FloorKept, LiveKept, Kinds
<1>6. /\ pipe.pending \in Seq(Held) /\ lastApplied \in Nat /\ Held \subseteq Recorded
      /\ \A r \in Held : r.seq \in Seqs
  BY <1>4, <1>5 DEF PipeOf, Held
<1>7. /\ c \in Seq(Cut(Held)) /\ AppliedOf(c, lastApplied) = a
  BY <1>6, ForceCutHolds
<1>8. a \in Nat /\ a \in Seqs \cup {0} /\ lastApplied <= a
  <2>1. CASE pipe.pending = << >>
    BY <1>5, <1>6, <2>1
  <2>2. CASE pipe.pending # << >>
    <3>1. Len(pipe.pending) \in 1..Len(pipe.pending)
      BY <1>6, <2>2, LenProperties, EmptySeq
    <3>2. pipe.pending[Len(pipe.pending)] \in Held
      BY <1>6, <3>1, ElementOfSeq
    <3>3. a = pipe.pending[Len(pipe.pending)].seq
      BY <2>2 DEF Last
    <3>4. lastApplied <= pipe.pending[Len(pipe.pending)].seq
      BY <1>4, <1>5, <3>1 DEF InOrder, Reached, AppliedOf
    <3> QED
      BY <1>6, <3>2, <3>3, <3>4
  <2> QED
    BY <2>1, <2>2
<1>9. a <= Newest
  <2>1. CASE pipe.pending = << >>
    BY <1>4, <1>5, <2>1 DEF InOrder, Reached, AppliedOf
  <2>2. CASE pipe.pending # << >>
    <3>1. Len(pipe.pending) \in 1..Len(pipe.pending)
      BY <1>6, <2>2, LenProperties, EmptySeq
    <3>2. a = pipe.pending[Len(pipe.pending)].seq
      BY <2>2 DEF Last
    <3> QED
      BY <1>5, <3>1, <3>2 DEF InOrder, Reached
  <2> QED
    BY <2>1, <2>2
<1>10. \A i \in 1..Len(pipe.preRoll) : a <= pipe.preRoll[i].seq /\ pipe.preRoll[i].seq <= Newest
  <2>1. CASE pipe.pending = << >>
    BY <1>4, <1>5, <2>1 DEF InOrder, AppliedOf
  <2>2. CASE pipe.pending # << >>
    <3>1. Len(pipe.pending) \in 1..Len(pipe.pending)
      BY <1>6, <2>2, LenProperties, EmptySeq
    <3>2. a = pipe.pending[Len(pipe.pending)].seq
      BY <2>2 DEF Last
    <3> QED
      BY <1>5, <3>1, <3>2 DEF InOrder
  <2> QED
    BY <2>1, <2>2
<1> HIDE DEF a, c, d
<1>11. /\ d \in PipeOf(Held) /\ d.pending = << >> /\ d.ready = << >> /\ d.events = << >>
       /\ d.preRoll = pipe.preRoll
  BY <1>4, AfterForceCutHolds DEF d
<1>12. Short(d) /\ Rolled(d) /\ Rising(d.preRoll)
  BY <1>4, <1>11, ShortWhenEmpty DEF Rolled
<1>13. InOrder(d, a, Newest)
  <2>1. 1..Len(d.pending) = {} /\ AppliedOf(d.ready, a) = a
    BY <1>11 DEF AppliedOf
  <2>2. a <= a
    BY <1>8
  <2>3. Reached(d, a, Newest)
    BY <1>9, <2>1, <2>2 DEF Reached
  <2> QED
    BY <1>10, <1>11, <2>1, <2>3 DEF InOrder
<1>14. Kinds'
  BY <1>1, <1>5 DEF Kinds
<1>15. Clock'
  <2>1. Window' = Window
    BY DEF Window
  <2>2. Clock
    BY DEF AudioInv
  <2> HIDE DEF Window
  <2> QED
    BY <1>1, <2>1, <2>2 DEF Clock
<1>16. RingKept'
  BY <1>1 DEF AudioInv, RingKept
<1>17. PipeKept'
  <2>1. (pipe \in PipeOf(Held))'
    <3>1. d \in PipeOf(Held')
      BY <1>3, <1>11, PipeGrows
    <3> QED
      BY <1>1, <3>1 DEF PipeOf, Cut, Event
  <2>2. /\ pipe'.ready = << >> /\ pipe'.events = << >> /\ pipe'.pending = << >>
        /\ Short(pipe') /\ Rolled(pipe') /\ Rising(pipe'.preRoll)
        /\ ~vad => pipe'.preRoll = << >>
    BY <1>1, <1>4, <1>11, <1>12
  <2>3. Short(pipe)' /\ Rolled(pipe)' /\ Rising(pipe.preRoll)'
    BY <2>2 DEF Short, Rolled, Rising
  <2>4. vad' = vad /\ vad \in BOOLEAN
    BY <1>1, <1>5
  <2> QED
    BY <2>1, <2>2, <2>3, <2>4 DEF PipeKept
<1>18. LiveKept'
  <2>1. Cut(Held) \subseteq Cut(Held')
    BY <1>3, SeqGrows DEF Cut
  <2>2. live \in Seq(Cut(Held')) /\ c \in Seq(Cut(Held'))
    BY <1>5, <1>7, <2>1, SeqGrows
  <2>3. live' \in Seq(Cut(Held'))
    BY <1>1, <2>2, ConcatProperties
  <2> QED
    BY <2>3 DEF LiveKept, Cut
<1>19. FloorKept'
  <2>1. InOrder(pipe', lastApplied', Newest')
    BY <1>1, <1>2, <1>13
  <2>2. InOrder(pipe, lastApplied, Newest)'
    BY <2>1 DEF InOrder, Reached, AppliedOf
  <2>3. a <= a
    BY <1>8
  <2> QED
    BY <1>1, <1>8, <2>2, <2>3 DEF FloorKept
<1>20. Raised
  BY <1>1, <1>5, <1>6, <1>8 DEF Raised
<1> QED
  BY <1>14, <1>15, <1>16, <1>17, <1>18, <1>19, <1>20 DEF AudioInv

LEMMA NothingKeeps ==
  ASSUME AudioInv, UNCHANGED vars
  PROVE  AudioInv' /\ Raised
<1>1. /\ UNCHANGED <<vad, pipe, reframe, lastApplied, live, spoken, heard, ended>>
      /\ UNCHANGED <<retained, floor, trimmed>>
  BY DEF vars, audioVars, logVars
<1>2. Newest' = Newest /\ Held' = Held /\ Window' = Window
  BY <1>1 DEF Newest, Held, Window
<1>3. Kinds' /\ RingKept'
  BY <1>1 DEF AudioInv, Kinds, RingKept
<1>4. Clock'
  <2>1. Clock
    BY DEF AudioInv
  <2> HIDE DEF Window
  <2> QED
    BY <1>1, <1>2, <2>1 DEF Clock
<1>5. PipeKept'
  <2>1. PipeKept
    BY DEF AudioInv
  <2>2. (pipe \in PipeOf(Held))'
    BY <1>1, <1>2, <2>1 DEF PipeKept, PipeOf, Cut, Event
  <2>3. Short(pipe)' /\ Rolled(pipe)' /\ Rising(pipe.preRoll)'
    BY <1>1, <2>1 DEF PipeKept, Short, Rolled, Rising
  <2> QED
    BY <1>1, <2>1, <2>2, <2>3 DEF PipeKept
<1>6. LiveKept'
  BY <1>1, <1>2 DEF AudioInv, LiveKept, Cut
<1>7. FloorKept'
  <2>1. FloorKept
    BY DEF AudioInv
  <2>2. InOrder(pipe, lastApplied, Newest)'
    BY <1>1, <1>2, <2>1 DEF FloorKept, InOrder, Reached, AppliedOf
  <2> QED
    BY <1>1, <2>1, <2>2 DEF FloorKept
<1>8. Raised
  <2>1. floor \in Nat /\ floor <= lastApplied
    BY DEF AudioInv, FloorKept
  <2> QED
    BY <1>1, <2>1 DEF Raised
<1> QED
  BY <1>3, <1>4, <1>5, <1>6, <1>7, <1>8 DEF AudioInv

-------------------------------------------------------------------------------
(* The theorems.                                                           *)

LEMMA AudioNext == AudioInv /\ [Next]_vars => AudioInv' /\ Raised
<1> SUFFICES ASSUME AudioInv, [Next]_vars PROVE AudioInv' /\ Raised
  OBVIOUS
<1>1. ASSUME NEW seq \in Seqs, NEW dur \in Durations, NEW verdict \in {"none", "some", "all"},
             HandleAudioFrame(seq, dur, verdict)
      PROVE  AudioInv' /\ Raised
  BY <1>1, FrameKeeps
<1>2. CASE HandleSessionEnd
  BY <1>2, EndKeeps
<1>3. CASE UNCHANGED vars
  BY <1>3, NothingKeeps
<1> QED
  BY <1>1, <1>2, <1>3 DEF Next

\* Where every frame is, in every reachable state.
THEOREM AudioCorrect == Spec => []AudioInv
BY AudioInit, AudioNext, PTL DEF Spec

LEMMA TypesHold == AudioInv => TypeOK
<1> SUFFICES ASSUME AudioInv PROVE TypeOK
  OBVIOUS
<1>1. vad \in BOOLEAN /\ ended \in BOOLEAN /\ trimmed \in BOOLEAN
  BY DEF AudioInv, Kinds
<1>2. reframe \in 0..Window - 1 /\ heard \in Nat /\ spoken \subseteq Seqs
  BY DEF AudioInv, Clock
<1>3. ToSet(retained) \subseteq Seqs /\ Len(retained) <= Capacity
  <2>1. retained \in Seq(Seqs) /\ Len(retained) <= Capacity
    BY DEF AudioInv, RingKept
  <2>2. \A i \in 1..Len(retained) : retained[i] \in Seqs
    BY <2>1, ElementOfSeq
  <2>3. DOMAIN retained = 1..Len(retained)
    BY <2>1, LenProperties
  <2> QED
    BY <2>1, <2>2, <2>3 DEF ToSet
<1>4. floor \in Nat /\ lastApplied \in Seqs \cup {0}
  BY DEF AudioInv, FloorKept
<1>5. /\ pipe.ready = << >> /\ pipe.events = << >>
      /\ Duration(pipe.preRoll) <= PreRollMs * 1000
      /\ Duration(pipe.pending) < ChunkMs * 1000
  BY DEF AudioInv, PipeKept, Short, Rolled
<1> QED
  BY <1>1, <1>2, <1>3, <1>4, <1>5 DEF TypeOK

\* The queues are drained after every frame, the pre-roll stays within its
\* budget and less than a chunk is ever left pending (pipeline.go, Ingest and
\* keepPreRoll; accumulator.go, feed).
THEOREM AudioTypes == Spec => []TypeOK
<1>1. AudioInv => TypeOK
  BY TypesHold
<1> QED
  BY <1>1, AudioCorrect, PTL

LEMMA OpenIsAboveFloor == AudioInv => NothingOpenIsTrimmed
<1> SUFFICES ASSUME AudioInv, trimmed, ~ended,
                    NEW s \in SeqsOf(Sent) \cup SeqsOf(pipe.preRoll)
             PROVE  s > floor
  BY DEF NothingOpenIsTrimmed
<1>1. live \in Seq(Cut(Held)) /\ pipe \in PipeOf(Held) /\ floor \in Nat
  BY DEF AudioInv, LiveKept, PipeKept, FloorKept
<1>2. pipe.pending \in Seq(Held) /\ pipe.preRoll \in Seq(Held)
  BY <1>1 DEF PipeOf
<1>3. Cut(Held) \subseteq Seq(Held)
  BY DEF Cut
<1>4. live \in Seq(Seq(Held))
  BY <1>1, <1>3, SeqGrows
<1>5. FlattenSeq(live) \in Seq(Held)
  BY <1>4, FlatHolds
<1>6. Sent \in Seq(Held)
  BY <1>2, <1>5, ConcatProperties DEF Sent
<1>7. \E r \in Held : s = r.seq
  <2>1. CASE s \in SeqsOf(Sent)
    <3>1. PICK i \in 1..Len(Sent) : s = Sent[i].seq
      BY <2>1 DEF SeqsOf
    <3>2. Sent[i] \in Held
      BY <1>6, ElementOfSeq
    <3> QED
      BY <3>1, <3>2
  <2>2. CASE s \in SeqsOf(pipe.preRoll)
    <3>1. PICK i \in 1..Len(pipe.preRoll) : s = pipe.preRoll[i].seq
      BY <2>2 DEF SeqsOf
    <3>2. pipe.preRoll[i] \in Held
      BY <1>2, ElementOfSeq
    <3> QED
      BY <3>1, <3>2
  <2> QED
    BY <2>1, <2>2
<1>8. floor < s /\ s \in Nat
  BY <1>7 DEF Held, Recorded
<1> QED
  BY <1>1, <1>8

\* No endpoint's trim reaches a frame that the open utterance was made of or
\* that the next one's pre-roll needs, so a recovery replays them all
\* (conn.go, finalizeEndpoint: the floor is put below RetentionStart).
THEOREM TrimSparesWhatIsOpen == Spec => []NothingOpenIsTrimmed
<1>1. AudioInv => NothingOpenIsTrimmed
  BY OpenIsAboveFloor
<1> QED
  BY <1>1, AudioCorrect, PTL

\* The committed floor never moves back, nor past the audio that was applied
\* (conn.go, finalizeEndpoint and handleSessionEnd).
THEOREM FloorAlwaysRises == Spec => FloorOnlyRises
<1>1. AudioInv /\ [Next]_vars => [floor' >= floor /\ floor' <= lastApplied']_vars
  BY AudioNext DEF Raised
<1> QED
  BY <1>1, AudioCorrect, PTL DEF Spec, FloorOnlyRises

-------------------------------------------------------------------------------
(* What is sent, frame by frame.                                           *)

\* What a frame can do to the utterance: it waits for an onset, opens the
\* utterance, is carried by it, is passed over in a pause, or closes it.
Waits(f) ==
  /\ vad /\ ~pipe.active /\ ~pipe'.active /\ live' = << >> /\ Sent' = << >>
  /\ pipe'.preRoll = KeepPreRoll(pipe, f).preRoll
  /\ pipe'.voiceMs = IF f.voiced THEN pipe.voiceMs + Ms(f.dur) ELSE 0
  /\ pipe'.voiceMs < StartSpeechMs
  /\ spoken' = IF f.voiced THEN spoken \cup {f.seq} ELSE {}

Opens(f) ==
  /\ vad /\ ~pipe.active /\ pipe'.active /\ pipe'.voiceMs = 0 /\ f.voiced
  /\ Sent' = KeepPreRoll(pipe, f).preRoll
  /\ spoken' = spoken \cup {f.seq}

Carries(f) ==
  /\ vad => pipe.active /\ pipe'.active /\ pipe'.voiceMs = pipe.voiceMs
  /\ f.voiced
  /\ Sent' = Append(Sent, f)
  /\ spoken' = spoken \cup {f.seq}

Pauses(f) ==
  /\ vad /\ pipe.active /\ pipe'.active /\ pipe'.voiceMs = pipe.voiceMs /\ ~f.voiced
  /\ Sent' = Sent /\ spoken' = spoken

Closes(f) ==
  /\ vad /\ pipe.active /\ ~pipe'.active /\ pipe'.voiceMs = pipe.voiceMs /\ ~f.voiced
  /\ live' = << >> /\ Sent' = << >> /\ spoken' = {}

Conveyed(f) == Waits(f) \/ Opens(f) \/ Carries(f) \/ Pauses(f) \/ Closes(f)

\* What is sent comes in the order it was spoken, and all of it by the end.
OrderKept ==
  /\ Rising(Sent)
  /\ ended => pipe.pending = << >>
  /\ vad /\ ~pipe.active => live = << >>
  /\ vad => pipe.voiceMs \in 0..StartSpeechMs - 1
  /\ vad /\ pipe.active => pipe.voiceMs = 0

LEMMA SentHolds ==
  ASSUME AudioInv
  PROVE  /\ Held \subseteq Recorded /\ pipe \in PipeOf(Recorded) /\ pipe.pending \in Seq(Recorded)
         /\ live \in Seq(Seq(Recorded)) /\ FlattenSeq(live) \in Seq(Recorded)
         /\ Sent \in Seq(Held) /\ Sent \in Seq(Recorded)
<1>1. Held \subseteq Recorded
  BY DEF Held
<1>2. pipe \in PipeOf(Held) /\ live \in Seq(Cut(Held))
  BY DEF AudioInv, PipeKept, LiveKept
<1>3. pipe \in PipeOf(Recorded)
  BY <1>1, <1>2, PipeGrows
<1>4. Cut(Held) \subseteq Seq(Held)
  BY DEF Cut
<1>5. live \in Seq(Seq(Held))
  BY <1>2, <1>4, SeqGrows
<1>6. Seq(Held) \subseteq Seq(Recorded)
  BY <1>1, SeqGrows
<1>7. live \in Seq(Seq(Recorded))
  BY <1>5, <1>6, SeqGrows
<1>8. FlattenSeq(live) \in Seq(Held) /\ pipe.pending \in Seq(Held)
  BY <1>2, <1>5, FlatHolds DEF PipeOf
<1>9. Sent \in Seq(Held)
  BY <1>8, ConcatProperties DEF Sent
<1> QED
  BY <1>1, <1>3, <1>6, <1>7, <1>8, <1>9

\* The pipeline's own account of a frame is the session's.
LEMMA SentAfter ==
  ASSUME NEW F, NEW q \in PipeOf(F), live \in Seq(Seq(F)),
         pipe' = Drained(q), live' = live \o q.ready
  PROVE  Sent' = FlattenSeq(live) \o Content(q)
<1> DEFINE a == FlattenSeq(live)
           b == FlattenSeq(q.ready)
           c == q.pending
<1>1. q.ready \in Seq(Seq(F)) /\ b \in Seq(F) /\ c \in Seq(F)
  BY ContentHolds
<1>2. a \in Seq(F)
  BY FlatHolds
<1>3. FlattenSeq(live \o q.ready) = a \o b
  BY <1>1, FlatOfConcat
<1>4. pipe'.pending = c
  BY DrainedHolds
<1> HIDE DEF a, b, c
<1>5. (a \o b) \o c = a \o (b \o c)
  BY <1>1, <1>2, ConcatAssociative
<1>6. Sent' = (a \o b) \o c
  BY <1>3, <1>4 DEF Sent
<1> QED
  BY <1>5, <1>6 DEF Content, a, b, c

LEMMA ClocksUntouched ==
  ASSUME NEW F, NEW q \in PipeOf(F)
  PROVE  /\ Drained(q).voiceMs = q.voiceMs /\ Drained(q).active = q.active
         /\ Drained(q).preRoll = q.preRoll /\ Drained(q).pending = q.pending
         /\ AfterForceCut(q) \in PipeOf(F)
         /\ AfterForceCut(q).voiceMs = q.voiceMs /\ AfterForceCut(q).active = q.active
         /\ AfterForceCut(q).preRoll = q.preRoll /\ AfterForceCut(q).pending = << >>
<1>1. /\ Drained(q).voiceMs = q.voiceMs /\ Drained(q).active = q.active
      /\ Drained(q).preRoll = q.preRoll /\ Drained(q).pending = q.pending
  BY DEF Drained, PipeOf
<1>2. AfterForceCut(q).voiceMs = q.voiceMs
  BY DEF AfterForceCut, PipeOf
<1> QED
  BY <1>1, <1>2, AfterForceCutHolds

\* A frame and what the pipeline makes of it, without the handler's locals.
Stepped(seq, dur, verdict, f) ==
  LET q == Step(vad, pipe, f) IN
    /\ f.seq = seq /\ f.dur = dur
    /\ f.voiced = IF vad THEN RawVoice(dur, verdict) ELSE TRUE
    /\ Processed(seq, q)
    /\ ~ended /\ UNCHANGED <<vad, ended>>
    /\ HasEnded(q) =>
         /\ pipe' = Drained(AfterForceCut(q))
         /\ live' = << >> /\ spoken' = {}
    /\ ~HasEnded(q) =>
         /\ pipe' = Drained(q)
         /\ live' = live \o Sending(q)
         /\ spoken' = IF ~f.voiced THEN IF pipe.active THEN spoken ELSE {}
                                   ELSE spoken \cup {seq}

LEMMA FrameIsStepped ==
  ASSUME AudioInv, NEW seq \in Seqs, NEW dur \in Durations, NEW verdict,
         HandleAudioFrame(seq, dur, verdict)
  PROVE  \E f \in HeldWith(seq) : Stepped(seq, dur, verdict, f)
<1> DEFINE voiced == IF vad THEN RawVoice(dur, verdict) ELSE TRUE
           f == [seq |-> seq, dur |-> dur, voiced |-> voiced]
           q == Step(vad, pipe, f)
<1>1. ~ended /\ Newer(seq) /\ UNCHANGED <<vad, ended>>
  BY DEF HandleAudioFrame
<1>2. voiced \in BOOLEAN
  BY DEF RawVoice
<1>3. f \in HeldWith(seq) /\ f.seq = seq /\ f.dur = dur /\ f.voiced = voiced
  <2> HIDE DEF voiced
  <2> QED
    BY <1>1, <1>2, FrameIsRecorded
<1>4. Processed(seq, q)
  <2> HIDE DEF f
  <2> QED
    BY <1>1, <1>3, FrameIsProcessed
<1>5. HasEnded(q) => pipe' = Drained(AfterForceCut(q)) /\ live' = << >> /\ spoken' = {}
  BY DEF HandleAudioFrame, HasEnded
<1>6. ~HasEnded(q) => /\ pipe' = Drained(q) /\ live' = live \o Sending(q)
                      /\ spoken' = IF ~voiced THEN IF pipe.active THEN spoken ELSE {}
                                              ELSE spoken \cup {seq}
  BY DEF HandleAudioFrame, Sending, HasEnded
<1> HIDE DEF f
<1>7. Stepped(seq, dur, verdict, f)
  BY <1>1, <1>3, <1>4, <1>5, <1>6 DEF Stepped
<1> QED
  BY <1>3, <1>7

LEMMA FrameIsConveyed ==
  ASSUME AudioInv, OrderKept, NEW seq \in Seqs, NEW dur \in Durations, NEW verdict,
         HandleAudioFrame(seq, dur, verdict)
  PROVE  \E f \in HeldWith(seq) :
           /\ f.seq = seq /\ f.dur = dur
           /\ f.voiced = IF vad THEN RawVoice(dur, verdict) ELSE TRUE
           /\ UNCHANGED <<vad, ended>> /\ ~ended
           /\ Conveyed(f)
<1>1. PICK f \in HeldWith(seq) : Stepped(seq, dur, verdict, f)
  BY FrameIsStepped
<1> DEFINE q == Step(vad, pipe, f)
           F == HeldWith(seq)
<1>2. /\ pipe \in PipeOf(Recorded) /\ live \in Seq(Seq(Recorded)) /\ Sent \in Seq(Recorded)
      /\ FlattenSeq(live) \in Seq(Recorded) /\ pipe.pending \in Seq(Recorded)
  BY SentHolds
<1>3. F \subseteq Recorded /\ f \in Recorded /\ f.voiced \in BOOLEAN
  <2>1. F \subseteq Recorded
    BY DEF HeldWith
  <2>2. f \in Recorded
    BY <2>1
  <2> QED
    BY <2>1, <2>2 DEF Recorded
<1>4. pipe.ready = << >> /\ pipe.events = << >> /\ Short(pipe) /\ Rolled(pipe)
      /\ vad \in BOOLEAN /\ (vad /\ ~pipe.active => pipe.pending = << >>)
      /\ pipe.active \in BOOLEAN
  BY DEF AudioInv, Kinds, PipeKept, PipeOf
<1>5. Processed(seq, q)
  BY <1>1 DEF Stepped
<1>6. q \in PipeOf(Recorded) /\ q.active \in BOOLEAN
  <2>1. q \in PipeOf(F)
    BY <1>5 DEF Processed
  <2> HIDE DEF q, F
  <2>2. q \in PipeOf(Recorded)
    BY <1>3, <2>1, PipeGrows
  <2> QED
    BY <2>2 DEF PipeOf
<1>7. /\ HasEnded(q) => pipe' = Drained(AfterForceCut(q)) /\ live' = << >> /\ spoken' = {}
      /\ ~HasEnded(q) => /\ pipe' = Drained(q) /\ live' = live \o Sending(q)
                         /\ spoken' = IF ~f.voiced THEN IF pipe.active THEN spoken ELSE {}
                                                   ELSE spoken \cup {seq}
  BY <1>1 DEF Stepped
<1>0. /\ f.seq = seq /\ f.dur = dur /\ f.voiced = (IF vad THEN RawVoice(dur, verdict) ELSE TRUE)
      /\ ~ended /\ UNCHANGED <<vad, ended>>
  BY <1>1 DEF Stepped
<1>8. /\ vad => Conveys(pipe, f, q) /\ Moves(pipe, q)
      /\ ~vad => Content(q) = Append(Content(pipe), f) /\ ~HasEnded(q)
  <2>1. ASSUME vad PROVE Conveys(pipe, f, q)
    <3>1. Settled(pipe)
      BY <1>4, <2>1 DEF Settled
    <3>2. q = ApplyHysteresis(pipe, f)
      BY <2>1 DEF Step
    <3> QED
      BY <1>2, <1>3, <3>1, <3>2, HysteresisConveys
  <2>2. ASSUME ~vad PROVE Content(q) = Append(Content(pipe), f)
    <3>1. q = Feed(pipe, f)
      BY <2>2 DEF Step
    <3> QED
      BY <1>2, <1>3, <3>1, FeedSends
  <2> HIDE DEF q
  <2> QED
    BY <1>5, <2>1, <2>2 DEF Processed, HasEnded
<1> HIDE DEF q
<1>9. Content(pipe) = pipe.pending
  BY <1>2, <1>4, ContentHolds
\* Outside an endpoint the session's account grows as the pipeline's does.
<1>10. ASSUME ~HasEnded(q)
       PROVE  /\ Sent' = FlattenSeq(live) \o Content(q) /\ live' = live \o q.ready
              /\ pipe'.active = q.active /\ pipe'.voiceMs = q.voiceMs /\ pipe'.preRoll = q.preRoll
  <2>1. q.ready \in Seq(Seq(Recorded))
    BY <1>6, ContentHolds
  <2>2. Sending(q) = q.ready
    BY <1>10, <2>1, ConcatEmptySeq DEF Sending
  <2>3. live' = live \o q.ready /\ pipe' = Drained(q)
    BY <1>7, <1>10, <2>2
  <2> QED
    BY <1>2, <1>6, <2>3, SentAfter, ClocksUntouched
<1>11. ASSUME HasEnded(q)
       PROVE  /\ Sent' = << >> /\ live' = << >> /\ spoken' = {}
              /\ pipe'.active = q.active /\ pipe'.voiceMs = q.voiceMs
  <2>1. pipe' = Drained(AfterForceCut(q)) /\ live' = << >> /\ spoken' = {}
    BY <1>7, <1>11
  <2>2. AfterForceCut(q) \in PipeOf(Recorded) /\ AfterForceCut(q).pending = << >>
        /\ AfterForceCut(q).active = q.active /\ AfterForceCut(q).voiceMs = q.voiceMs
    BY <1>6, ClocksUntouched
  <2>3. pipe'.pending = << >> /\ pipe'.active = q.active /\ pipe'.voiceMs = q.voiceMs
    BY <2>1, <2>2, ClocksUntouched
  <2>4. << >> \o << >> = << >>
    OBVIOUS
  <2> QED
    BY <2>1, <2>3, <2>4, FlatOfNothing DEF Sent
<1>12. FlattenSeq(live) \o Append(Content(pipe), f) = Append(Sent, f)
  <2> DEFINE a == FlattenSeq(live)
  <2>1. a \o Append(pipe.pending, f) = Append(a \o pipe.pending, f)
    <3> HIDE DEF a
    <3> QED
      BY <1>2, <1>3, AppendInside DEF a
  <2> QED
    BY <1>9, <2>1 DEF Sent
<1>13. Conveyed(f)
  <2>1. CASE ~vad
    <3>1. ~HasEnded(q) /\ f.voiced
      BY <1>0, <1>8, <2>1
    <3>2. Sent' = Append(Sent, f)
      BY <1>8, <1>10, <1>12, <2>1, <3>1
    <3>3. spoken' = spoken \cup {f.seq}
      BY <1>0, <1>7, <3>1
    <3> QED
      BY <2>1, <3>1, <3>2, <3>3 DEF Conveyed, Carries
  <2>2. CASE vad /\ ~pipe.active
    <3>1. ~HasEnded(q) /\ (~q.active => q.pending = << >> /\ q.ready = << >>)
      BY <1>6, <1>8, <2>2 DEF Moves, HasEnded
    <3>2. live = << >> /\ FlattenSeq(live) = << >>
      BY <2>2, FlatOfNothing DEF OrderKept
    <3>3. Sent' = Content(q) /\ live' = q.ready
      <4>1. Content(q) \in Seq(Recorded) /\ q.ready \in Seq(Seq(Recorded))
        BY <1>6, ContentHolds
      <4> QED
        BY <1>10, <3>1, <3>2, <4>1, ConcatEmptySeq
    <3>4. CASE ~q.active
      <4>1. Content(q) = << >>
        BY <1>6, <3>1, <3>4, ContentHolds
      <4>2. /\ q.preRoll = KeepPreRoll(pipe, f).preRoll
            /\ q.voiceMs = IF f.voiced THEN pipe.voiceMs + Ms(f.dur) ELSE 0
            /\ q.voiceMs < StartSpeechMs
        BY <1>8, <2>2, <3>4 DEF Conveys
      <4>3. spoken' = IF f.voiced THEN spoken \cup {f.seq} ELSE {}
        BY <1>0, <1>7, <2>2, <3>1
      <4> QED
        BY <1>10, <2>2, <3>1, <3>3, <3>4, <4>1, <4>2, <4>3 DEF Conveyed, Waits
    <3>5. CASE q.active
      <4>1. Content(q) = KeepPreRoll(pipe, f).preRoll /\ q.voiceMs = 0 /\ f.voiced
        BY <1>8, <2>2, <3>5 DEF Conveys
      <4>2. spoken' = spoken \cup {f.seq}
        BY <1>0, <1>7, <3>1, <4>1
      <4> QED
        BY <1>10, <2>2, <3>1, <3>3, <3>5, <4>1, <4>2 DEF Conveyed, Opens
    <3> QED
      BY <3>4, <3>5
  <2>3. CASE vad /\ pipe.active
    <3>1. /\ q.voiceMs = pipe.voiceMs
          /\ Content(q) = IF f.voiced THEN Append(Content(pipe), f) ELSE Content(pipe)
          /\ f.voiced => q.active
      BY <1>8, <2>3 DEF Conveys
    <3>2. q.active <=> ~HasEnded(q)
      BY <1>6, <1>8, <2>3 DEF Moves, HasEnded
    <3>3. CASE f.voiced
      <4>1. Sent' = Append(Sent, f)
        BY <1>10, <1>12, <3>1, <3>2, <3>3
      <4>2. spoken' = spoken \cup {f.seq}
        BY <1>0, <1>7, <3>1, <3>2, <3>3
      <4> QED
        BY <1>10, <2>3, <3>1, <3>2, <3>3, <4>1, <4>2 DEF Conveyed, Carries
    <3>4. CASE ~f.voiced /\ q.active
      <4>1. Sent' = Sent
        BY <1>9, <1>10, <3>1, <3>2, <3>4 DEF Sent
      <4>2. spoken' = spoken
        BY <1>7, <2>3, <3>2, <3>4
      <4> QED
        BY <1>10, <2>3, <3>1, <3>2, <3>4, <4>1, <4>2 DEF Conveyed, Pauses
    <3>5. CASE ~f.voiced /\ ~q.active
      BY <1>11, <2>3, <3>1, <3>2, <3>5 DEF Conveyed, Closes
    <3> QED
      BY <1>3, <1>6, <3>3, <3>4, <3>5
  <2> QED
    BY <1>4, <2>1, <2>2, <2>3
<1> QED
  BY <1>0, <1>13

\* The session's end sends what is pending and nothing else.
LEMMA EndSendsTheRest ==
  ASSUME AudioInv, HandleSessionEnd
  PROVE  /\ ~ended /\ ended' = TRUE /\ UNCHANGED <<vad, reframe, spoken, heard, retained>>
         /\ Sent' = Sent /\ pipe'.pending = << >> /\ pipe'.active = pipe.active
         /\ pipe'.voiceMs = pipe.voiceMs /\ pipe'.preRoll = pipe.preRoll
         /\ live = << >> /\ pipe.pending = << >> => live' = << >>
<1> DEFINE a == FlattenSeq(live)
           c == pipe.pending
<1>1. /\ ~ended /\ ended' = TRUE /\ live' = live \o ForceCut(pipe) /\ pipe' = AfterForceCut(pipe)
      /\ UNCHANGED <<vad, reframe, spoken, heard, retained>>
  BY DEF HandleSessionEnd
<1>2. /\ pipe \in PipeOf(Recorded) /\ live \in Seq(Seq(Recorded)) /\ a \in Seq(Recorded)
      /\ c \in Seq(Recorded)
  BY SentHolds
<1>3. /\ pipe'.pending = << >> /\ pipe'.active = pipe.active /\ pipe'.voiceMs = pipe.voiceMs
      /\ pipe'.preRoll = pipe.preRoll
  BY <1>1, <1>2, ClocksUntouched
<1>4. Sent' = FlattenSeq(live') \o << >>
  BY <1>3 DEF Sent
<1>5. FlattenSeq(live') = a \o c /\ (live = << >> /\ c = << >> => live' = << >>)
  <2>1. CASE c = << >>
    <3>1. live' = live
      BY <1>1, <1>2, <2>1, ConcatEmptySeq DEF ForceCut
    <3> HIDE DEF a, c
    <3>2. a \o c = a
      BY <1>2, <2>1, ConcatEmptySeq
    <3> QED
      BY <3>1, <3>2 DEF a
  <2>2. CASE c # << >>
    <3>1. live' = live \o << c >>
      BY <1>1, <2>2 DEF ForceCut
    <3> HIDE DEF c
    <3>2. live \o << c >> = Append(live, c)
      BY <1>2, AppendIsConcat
    <3>3. FlattenSeq(Append(live, c)) = a \o c
      BY <1>2, FlatOfAppend
    <3> QED
      BY <2>2, <3>1, <3>2, <3>3
  <2> QED
    BY <2>1, <2>2
<1> HIDE DEF a, c
<1>6. a \o c \in Seq(Recorded)
  BY <1>2, ConcatProperties
<1>7. Sent' = a \o c
  BY <1>4, <1>5, <1>6, ConcatEmptySeq
<1>8. Sent = a \o c
  BY DEF Sent, a, c
<1> QED
  BY <1>1, <1>3, <1>5, <1>7, <1>8 DEF c

LEMMA OrderInit == Init => OrderKept
<1> SUFFICES ASSUME Init PROVE OrderKept
  OBVIOUS
<1>1. pipe = Fresh /\ live = << >> /\ ended = FALSE
  BY DEF Init
<1>2. pipe.pending = << >> /\ pipe.voiceMs = 0
  BY <1>1 DEF Fresh
<1>3. Sent = << >>
  <2>1. << >> \o << >> = << >>
    OBVIOUS
  <2> QED
    BY <1>1, <1>2, <2>1, FlatOfNothing DEF Sent
<1> QED
  BY <1>1, <1>2, <1>3, RisingWhenEmpty DEF OrderKept

LEMMA WholeMs ==
  ASSUME NEW d \in Nat
  PROVE  Ms(d) \in Nat /\ (d % 1000 = 0 => 1000 * Ms(d) = d)
BY DEF Ms

LEMMA OrderFrame ==
  ASSUME AudioInv, OrderKept, NEW seq \in Seqs, NEW dur \in Durations, NEW verdict,
         HandleAudioFrame(seq, dur, verdict)
  PROVE  OrderKept'
<1>1. PICK f \in HeldWith(seq) :
           f.seq = seq /\ f.dur = dur /\ UNCHANGED <<vad, ended>> /\ ~ended /\ Conveyed(f)
  BY FrameIsConveyed
<1>2. /\ Held \subseteq Recorded /\ pipe \in PipeOf(Recorded) /\ Sent \in Seq(Held)
      /\ Sent \in Seq(Recorded)
  BY SentHolds
<1>3. f \in Recorded /\ Ms(f.dur) \in Nat /\ pipe.voiceMs \in Int
  <2>1. f \in Recorded
    BY DEF HeldWith
  <2> QED
    BY <1>2, <2>1, WholeMs DEF Recorded, PipeOf
<1>4. ~ended /\ Newer(seq) /\ Newest <= seq /\ Newest \in Nat /\ seq \in Nat
  <2>1. ~ended /\ Newer(seq)
    BY DEF HandleAudioFrame
  <2>2. RingKept
    BY DEF AudioInv
  <2> QED
    BY <2>1, <2>2, FrameIsNew, NewestIsKept
<1>5. \A r \in Held : r.seq <= f.seq
  <2> SUFFICES ASSUME NEW r \in Held PROVE r.seq <= f.seq
    OBVIOUS
  <2>1. r.seq \in Nat /\ r.seq <= Newest
    BY DEF Held, Recorded
  <2> QED
    BY <1>1, <1>4, <2>1
<1>6. UpToSeq(Sent, f.seq)
  BY <1>2, <1>5, ElementOfSeq DEF UpToSeq
<1>7. /\ Rising(Sent) /\ (vad => pipe.voiceMs \in 0..StartSpeechMs - 1)
      /\ (vad /\ pipe.active => pipe.voiceMs = 0) /\ 0 \in 0..StartSpeechMs - 1
  BY DEF OrderKept
<1>8. pipe.active \in BOOLEAN /\ vad \in BOOLEAN
  BY <1>2 DEF PipeOf, AudioInv, Kinds
<1>9. ended' => pipe'.pending = << >>
  BY <1>1
<1>10. CASE Waits(f)
  <2>1. pipe'.voiceMs \in 0..StartSpeechMs - 1
    BY <1>3, <1>7, <1>10 DEF Waits
  <2>2. Rising(Sent')
    BY <1>10, RisingWhenEmpty DEF Waits
  <2>3. (Rising(Sent))'
    BY <2>2 DEF Rising
  <2> QED
    BY <1>1, <1>9, <1>10, <2>1, <2>3 DEF Waits, OrderKept
<1>11. CASE Opens(f)
  <2>1. Rising(pipe.preRoll) /\ UpToSeq(pipe.preRoll, f.seq)
    <3>1. Rising(pipe.preRoll) /\ pipe \in PipeOf(Held)
      BY DEF AudioInv, PipeKept
    <3>2. pipe.preRoll \in Seq(Held)
      BY <3>1 DEF PipeOf
    <3> QED
      BY <1>5, <3>1, <3>2, ElementOfSeq DEF UpToSeq
  <2>2. Rising(KeepPreRoll(pipe, f).preRoll)
    BY <1>2, <1>3, <2>1, KeepingHolds
  <2>3. Rising(Sent')
    BY <1>11, <2>2 DEF Opens
  <2>4. (Rising(Sent))'
    BY <2>3 DEF Rising
  <2> QED
    BY <1>1, <1>7, <1>9, <1>11, <2>4 DEF Opens, OrderKept
<1>12. CASE Carries(f)
  <2>1. Rising(Sent')
    BY <1>2, <1>3, <1>6, <1>7, <1>12, AppendRises DEF Carries
  <2>2. (Rising(Sent))'
    BY <2>1 DEF Rising
  <2>3. vad' = vad /\ (vad => pipe.active /\ pipe'.active /\ pipe'.voiceMs = pipe.voiceMs)
    BY <1>1, <1>12 DEF Carries
  <2> QED
    BY <1>7, <1>9, <2>2, <2>3 DEF OrderKept
<1>13. CASE Pauses(f)
  <2>1. Rising(Sent')
    BY <1>7, <1>13 DEF Pauses
  <2>2. (Rising(Sent))'
    BY <2>1 DEF Rising
  <2> QED
    BY <1>1, <1>7, <1>9, <1>13, <2>2 DEF Pauses, OrderKept
<1>14. CASE Closes(f)
  <2>1. Rising(Sent')
    BY <1>14, RisingWhenEmpty DEF Closes
  <2>2. (Rising(Sent))'
    BY <2>1 DEF Rising
  <2> QED
    BY <1>1, <1>7, <1>9, <1>14, <2>2 DEF Closes, OrderKept
<1> QED
  BY <1>1, <1>10, <1>11, <1>12, <1>13, <1>14 DEF Conveyed

LEMMA OrderEnd ==
  ASSUME AudioInv, OrderKept, HandleSessionEnd
  PROVE  OrderKept'
<1>1. /\ UNCHANGED vad /\ Sent' = Sent /\ pipe'.pending = << >> /\ pipe'.active = pipe.active
      /\ pipe'.voiceMs = pipe.voiceMs
      /\ (live = << >> /\ pipe.pending = << >> => live' = << >>)
  BY EndSendsTheRest
<1>2. vad /\ ~pipe.active => pipe.pending = << >>
  BY DEF AudioInv, PipeKept
<1>3. Rising(Sent')
  BY <1>1 DEF OrderKept
<1>4. (Rising(Sent))'
  BY <1>3 DEF Rising
<1> QED
  BY <1>1, <1>2, <1>4 DEF OrderKept

LEMMA OrderNext == AudioInv /\ OrderKept /\ [Next]_vars => OrderKept'
<1> SUFFICES ASSUME AudioInv, OrderKept, [Next]_vars PROVE OrderKept'
  OBVIOUS
<1>1. ASSUME NEW seq \in Seqs, NEW dur \in Durations, NEW verdict \in {"none", "some", "all"},
             HandleAudioFrame(seq, dur, verdict)
      PROVE  OrderKept'
  BY <1>1, OrderFrame
<1>2. CASE HandleSessionEnd
  BY <1>2, OrderEnd
<1>3. CASE UNCHANGED vars
  <2>1. UNCHANGED <<vad, pipe, live, ended>>
    BY <1>3 DEF vars, audioVars
  <2>2. Sent' = Sent
    BY <2>1 DEF Sent
  <2>3. (Rising(Sent))'
    BY <2>2 DEF OrderKept, Rising
  <2> QED
    BY <2>1, <2>3 DEF OrderKept
<1> QED
  BY <1>1, <1>2, <1>3 DEF Next

\* Audio leaves in the order it was spoken, an onset's pre-roll included, and
\* the session's end leaves none behind (accumulator.go, feed and forceCut;
\* pipeline.go, keepPreRoll), whatever the configuration.
InSpokenOrder ==
  /\ \A i, j \in 1..Len(Sent) : i < j => Sent[i].seq <= Sent[j].seq
  /\ ended => pipe.pending = << >>

LEMMA OrderIsSpoken == OrderKept => InSpokenOrder
<1> SUFFICES ASSUME OrderKept PROVE InSpokenOrder
  OBVIOUS
<1>1. \A i, j \in 1..Len(Sent) : i < j => i <= j
  OBVIOUS
<1> QED
  BY <1>1 DEF OrderKept, Rising, InSpokenOrder

\* Chunks leave in the order their frames were spoken, and the session's end
\* flushes what is pending (accumulator.go, feed; conn.go, handleSessionEnd).
THEOREM AudioIsSentInOrder == Spec => []InSpokenOrder
<1>1. Init => OrderKept
  BY OrderInit
<1>2. AudioInv /\ OrderKept /\ [Next]_vars => OrderKept'
  BY OrderNext
<1>3. OrderKept => InSpokenOrder
  BY OrderIsSpoken
<1> QED
  BY <1>1, <1>2, <1>3, AudioCorrect, PTL DEF Spec

-------------------------------------------------------------------------------
(* No speech is dropped.                                                   *)

\* Frames of whole milliseconds, so that none of their time is lost in the
\* conversion to int(durationMs), and a pre-roll that holds the audio which
\* opens an utterance.  With the gateway's defaults, 40 ms to open and 160 ms of
\* pre-roll, frames of up to 120 ms are such; VADConfig.validate asks for neither.
OnsetFitsPreRoll ==
  \A d \in Durations : d % 1000 = 0 /\ StartSpeechMs * 1000 + d <= PreRollMs * 1000

\* The frames heard since the last silence are the newest of the pre-roll, and
\* no longer than the clock that is to open the utterance.
SpokenKept ==
  /\ pipe.active \/ ~vad => spoken \subseteq SeqsOf(Sent)
  /\ vad /\ ~pipe.active =>
       \E t \in Seq(Recorded) : /\ Ends(Recorded, pipe.preRoll, t)
                                /\ spoken \subseteq SeqsOf(t)
                                /\ Duration(t) <= pipe.voiceMs * 1000

LEMMA SeqsOfAppend ==
  ASSUME NEW F, NEW s \in Seq(F), NEW f \in F
  PROVE  SeqsOf(Append(s, f)) = SeqsOf(s) \cup {f.seq}
<1> DEFINE t == Append(s, f)
<1>1. /\ Len(s) \in Nat /\ Len(t) = Len(s) + 1 /\ t[Len(s) + 1] = f
      /\ \A i \in 1..Len(s) : t[i] = s[i]
  BY LenProperties, AppendProperties
<1> HIDE DEF t
<1>2. ASSUME NEW i \in 1..Len(t) PROVE t[i].seq \in SeqsOf(s) \cup {f.seq}
  <2>1. CASE i = Len(s) + 1
    BY <1>1, <2>1
  <2>2. CASE i # Len(s) + 1
    <3>1. i \in 1..Len(s)
      BY <1>1, <2>2
    <3> QED
      BY <1>1, <3>1 DEF SeqsOf
  <2> QED
    BY <2>1, <2>2
<1>3. SeqsOf(s) \cup {f.seq} \subseteq SeqsOf(t)
  <2>1. ASSUME NEW i \in 1..Len(s) PROVE s[i].seq \in SeqsOf(t)
    <3>1. i \in 1..Len(t) /\ t[i] = s[i]
      BY <1>1
    <3> QED
      BY <3>1 DEF SeqsOf
  <2>2. f.seq \in SeqsOf(t)
    <3>1. Len(s) + 1 \in 1..Len(t) /\ t[Len(s) + 1].seq = f.seq
      BY <1>1
    <3> QED
      BY <3>1 DEF SeqsOf
  <2> QED
    BY <2>1, <2>2 DEF SeqsOf
<1>4. SeqsOf(t) \subseteq SeqsOf(s) \cup {f.seq}
  BY <1>2 DEF SeqsOf
<1> QED
  BY <1>3, <1>4 DEF t

LEMMA EndsAreIn ==
  ASSUME NEW F, NEW s, NEW t \in Seq(F), Ends(F, s, t)
  PROVE  SeqsOf(t) \subseteq SeqsOf(s)
<1>1. PICK h \in Seq(F) : s = h \o t
  BY DEF Ends
<1>2. /\ Len(h) \in Nat /\ Len(t) \in Nat /\ Len(s) = Len(h) + Len(t)
      /\ \A i \in 1..Len(h) + Len(t) : s[i] = IF i <= Len(h) THEN h[i] ELSE t[i - Len(h)]
  BY <1>1, ConcatProperties, LenProperties
<1>3. ASSUME NEW i \in 1..Len(t) PROVE t[i].seq \in SeqsOf(s)
  <2>1. /\ Len(h) + i \in 1..Len(h) + Len(t) /\ ~(Len(h) + i <= Len(h))
        /\ (Len(h) + i) - Len(h) = i
    BY <1>2
  <2>2. s[Len(h) + i] = t[i] /\ Len(h) + i \in 1..Len(s)
    BY <1>2, <2>1
  <2> QED
    BY <2>2 DEF SeqsOf
<1> QED
  BY <1>3 DEF SeqsOf

LEMMA NothingEnds ==
  ASSUME NEW F, NEW s \in Seq(F)
  PROVE  Ends(F, s, << >>) /\ << >> \in Seq(F) /\ SeqsOf(<< >>) = {}
<1>1. s \o << >> = s
  BY ConcatEmptySeq
<1>2. SeqsOf(<< >>) = {}
  BY DEF SeqsOf
<1> QED
  BY <1>1, <1>2, EmptySeq DEF Ends

LEMMA SpokenInit == Init => SpokenKept
<1> SUFFICES ASSUME Init PROVE SpokenKept
  OBVIOUS
<1>1. pipe.preRoll = << >> /\ pipe.voiceMs = 0 /\ spoken = {}
  BY DEF Init, Fresh
<1>2. << >> \in Seq(Recorded)
  BY EmptySeq
<1>3. Ends(Recorded, << >>, << >>)
  BY <1>2, NothingEnds
<1>4. Duration(<< >>) <= 0 * 1000
  BY NothingTakesNoTime
<1> DEFINE e == << >>
<1>5. e \in Seq(Recorded) /\ Ends(Recorded, pipe.preRoll, e) /\ Duration(e) <= pipe.voiceMs * 1000
  BY <1>1, <1>2, <1>3, <1>4, SMT
<1> HIDE DEF e
<1>6. spoken \subseteq SeqsOf(Sent) /\ spoken \subseteq SeqsOf(e)
  BY <1>1
<1> QED
  BY <1>5, <1>6 DEF SpokenKept

LEMMA LastsWholeMs ==
  ASSUME OnsetFitsPreRoll, NEW d \in Durations
  PROVE  /\ d \in Nat /\ Ms(d) \in Nat /\ 1000 * Ms(d) = d
         /\ StartSpeechMs * 1000 + d <= PreRollMs * 1000
<1>1. d \in Nat /\ d % 1000 = 0
  BY DEF OnsetFitsPreRoll
<1>2. StartSpeechMs * 1000 + d <= PreRollMs * 1000
  BY DEF OnsetFitsPreRoll
<1>3. Ms(d) \in Nat /\ 1000 * Ms(d) = d
  BY <1>1, SMT DEF Ms
<1> QED
  BY <1>1, <1>2, <1>3

LEMMA ClockKeepsUp ==
  ASSUME NEW t \in Nat, NEW d \in Nat, NEW v \in Nat, NEW m \in Nat,
         t <= v * 1000, 1000 * m = d
  PROVE  t + d <= (v + m) * 1000
OBVIOUS

\* With one more spoken frame the newest still fit.
LEMMA OneMoreSpoken ==
  ASSUME AudioInv, OrderKept, SpokenKept, OnsetFitsPreRoll, vad, ~pipe.active,
         NEW f \in Recorded, f.dur \in Durations
  PROVE  \E u \in Seq(Recorded) :
           /\ Ends(Recorded, KeepPreRoll(pipe, f).preRoll, u)
           /\ spoken \cup {f.seq} \subseteq SeqsOf(u)
           /\ Duration(u) <= (pipe.voiceMs + Ms(f.dur)) * 1000
<1>1. PICK t \in Seq(Recorded) : /\ Ends(Recorded, pipe.preRoll, t)
                                 /\ spoken \subseteq SeqsOf(t)
                                 /\ Duration(t) <= pipe.voiceMs * 1000
  BY DEF SpokenKept
<1>2. pipe.voiceMs \in 0..StartSpeechMs - 1 /\ pipe \in PipeOf(Recorded)
  BY SentHolds DEF OrderKept
<1>3. f.dur \in Nat /\ Ms(f.dur) \in Nat /\ 1000 * Ms(f.dur) = f.dur
      /\ StartSpeechMs * 1000 + f.dur <= PreRollMs * 1000
  <2>1. PICK d \in Durations : d = f.dur
    OBVIOUS
  <2>2. /\ d \in Nat /\ Ms(d) \in Nat /\ 1000 * Ms(d) = d
        /\ StartSpeechMs * 1000 + d <= PreRollMs * 1000
    BY LastsWholeMs
  <2> QED
    BY <2>1, <2>2
<1> DEFINE u == Append(t, f)
<1>4. u \in Seq(Recorded) /\ Duration(t) \in Nat /\ Duration(u) = Duration(t) + f.dur
  BY AppendProperties, TimeOfAppend
<1>5. Duration(t) + f.dur <= PreRollMs * 1000
  BY <1>1, <1>2, <1>3, <1>4
<1>6. Ends(Recorded, KeepPreRoll(pipe, f).preRoll, u)
  BY <1>1, <1>2, <1>5, KeepsWhatFits
<1>7. spoken \cup {f.seq} \subseteq SeqsOf(u)
  BY <1>1, SeqsOfAppend
<1> HIDE DEF u
<1>8. Duration(u) <= (pipe.voiceMs + Ms(f.dur)) * 1000
  <2>1. pipe.voiceMs \in Nat
    BY <1>2
  <2>2. Duration(t) + f.dur <= (pipe.voiceMs + Ms(f.dur)) * 1000
    BY <1>1, <1>3, <1>4, <2>1, ClockKeepsUp, SMTT(30)
  <2> QED
    BY <1>4, <2>2, Zenon
<1> QED
  BY <1>4, <1>6, <1>7, <1>8

LEMMA SpokenFrame ==
  ASSUME AudioInv, OrderKept, SpokenKept, OnsetFitsPreRoll,
         NEW seq \in Seqs, NEW dur \in Durations, NEW verdict \in {"none", "some", "all"},
         HandleAudioFrame(seq, dur, verdict)
  PROVE  SpokenKept'
<1>1. PICK f \in HeldWith(seq) :
           f.seq = seq /\ f.dur = dur /\ UNCHANGED <<vad, ended>> /\ Conveyed(f)
  BY FrameIsConveyed
<1>2. pipe \in PipeOf(Recorded) /\ Sent \in Seq(Recorded) /\ f \in Recorded /\ f.dur \in Durations
  BY <1>1, SentHolds DEF HeldWith
<1>3. pipe'.active \/ ~vad' => spoken' \subseteq SeqsOf(Sent')
  <2>1. CASE Waits(f)
    BY <1>1, <2>1 DEF Waits
  <2>2. CASE Opens(f)
    <3>1. PICK u \in Seq(Recorded) :
                 /\ Ends(Recorded, KeepPreRoll(pipe, f).preRoll, u)
                 /\ spoken \cup {f.seq} \subseteq SeqsOf(u)
      <4>1. vad /\ ~pipe.active
        BY <2>2 DEF Opens
      <4> QED
        BY <1>2, <4>1, OneMoreSpoken, ZenonT(60)
    <3>2. SeqsOf(u) \subseteq SeqsOf(KeepPreRoll(pipe, f).preRoll)
      BY <3>1, EndsAreIn
    <3> QED
      BY <2>2, <3>1, <3>2 DEF Opens
  <2>3. CASE Carries(f)
    <3>1. spoken \subseteq SeqsOf(Sent)
      BY <2>3 DEF Carries, SpokenKept
    <3>2. SeqsOf(Append(Sent, f)) = SeqsOf(Sent) \cup {f.seq}
      BY <1>2, SeqsOfAppend
    <3> QED
      BY <2>3, <3>1, <3>2 DEF Carries
  <2>4. CASE Pauses(f)
    BY <2>4 DEF Pauses, SpokenKept
  <2>5. CASE Closes(f)
    BY <2>5 DEF Closes
  <2> QED
    BY <1>1, <2>1, <2>2, <2>3, <2>4, <2>5 DEF Conveyed
<1>4. vad' /\ ~pipe'.active =>
        \E t \in Seq(Recorded) : /\ Ends(Recorded, pipe'.preRoll, t)
                                 /\ spoken' \subseteq SeqsOf(t)
                                 /\ Duration(t) <= pipe'.voiceMs * 1000
  <2> SUFFICES ASSUME vad', ~pipe'.active
               PROVE  \E t \in Seq(Recorded) : /\ Ends(Recorded, pipe'.preRoll, t)
                                               /\ spoken' \subseteq SeqsOf(t)
                                               /\ Duration(t) <= pipe'.voiceMs * 1000
    OBVIOUS
  <2>1. pipe'.preRoll \in Seq(Recorded)
    <3>1. AudioInv'
      BY FrameKeeps
    <3>2. (pipe.preRoll \in Seq(Held))' /\ (Held \subseteq Recorded)'
      BY <3>1 DEF AudioInv, PipeKept, PipeOf, Held
    <3>3. pipe'.preRoll \in Seq(Held') /\ Held' \subseteq Recorded
      BY <3>2 DEF Recorded
    <3> QED
      BY <3>3, SeqGrows
  \* After a silence, or at an endpoint, nothing is waiting to be sent.
  <2>2. ASSUME spoken' = {}, pipe'.voiceMs = 0
        PROVE  \E t \in Seq(Recorded) : /\ Ends(Recorded, pipe'.preRoll, t)
                                        /\ spoken' \subseteq SeqsOf(t)
                                        /\ Duration(t) <= pipe'.voiceMs * 1000
    <3>1. Ends(Recorded, pipe'.preRoll, << >>) /\ << >> \in Seq(Recorded)
      BY <2>1, NothingEnds
    <3>2. Duration(<< >>) <= pipe'.voiceMs * 1000
      BY <2>2, NothingTakesNoTime
    <3>3. spoken' \subseteq SeqsOf(<< >>)
      BY <2>2
    <3> DEFINE e == << >>
    <3>4. /\ e \in Seq(Recorded) /\ Ends(Recorded, pipe'.preRoll, e)
          /\ spoken' \subseteq SeqsOf(e) /\ Duration(e) <= pipe'.voiceMs * 1000
      BY <3>1, <3>2, <3>3
    <3> HIDE DEF e
    <3> QED
      BY <3>4
  <2>3. CASE Waits(f) /\ f.voiced
    <3>1. PICK u \in Seq(Recorded) :
                 /\ Ends(Recorded, KeepPreRoll(pipe, f).preRoll, u)
                 /\ spoken \cup {f.seq} \subseteq SeqsOf(u)
                 /\ Duration(u) <= (pipe.voiceMs + Ms(f.dur)) * 1000
      <4>1. vad /\ ~pipe.active
        BY <2>3 DEF Waits
      <4> QED
        BY <1>2, <4>1, OneMoreSpoken, ZenonT(60)
    <3>2. /\ pipe'.preRoll = KeepPreRoll(pipe, f).preRoll /\ spoken' = spoken \cup {f.seq}
          /\ pipe'.voiceMs = pipe.voiceMs + Ms(f.dur)
      BY <2>3 DEF Waits
    <3> QED
      BY <3>1, <3>2
  <2>4. CASE Waits(f) /\ ~f.voiced
    BY <2>2, <2>4 DEF Waits
  <2>5. CASE Closes(f)
    <3>1. spoken' = {} /\ pipe'.voiceMs = 0
      BY <2>5 DEF Closes, OrderKept
    <3> QED
      BY <2>2, <3>1
  <2>6. ~Opens(f) /\ ~Pauses(f) /\ ~Carries(f)
    BY <1>1 DEF Opens, Pauses, Carries
  <2> QED
    BY <1>1, <2>3, <2>4, <2>5, <2>6 DEF Conveyed
<1> HIDE DEF Recorded
<1>5. (pipe.active \/ ~vad => spoken \subseteq SeqsOf(Sent))'
  BY <1>3 DEF SeqsOf
<1> QED
  BY <1>4, <1>5, ZenonT(60) DEF SpokenKept, Ends, Recorded, SeqsOf

LEMMA SpokenSame ==
  ASSUME SpokenKept, UNCHANGED <<vad, spoken>>, Sent' = Sent, pipe'.active = pipe.active,
         pipe'.voiceMs = pipe.voiceMs, pipe'.preRoll = pipe.preRoll
  PROVE  SpokenKept'
<1> HIDE DEF Recorded
<1>1. (pipe.active \/ ~vad => spoken \subseteq SeqsOf(Sent))'
  <2>1. pipe'.active \/ ~vad' => spoken' \subseteq SeqsOf(Sent')
    BY DEF SpokenKept
  <2> QED
    BY <2>1 DEF SeqsOf
<1>2. vad' /\ ~pipe'.active =>
        \E t \in Seq(Recorded) : /\ Ends(Recorded, pipe'.preRoll, t)
                                 /\ spoken' \subseteq SeqsOf(t)
                                 /\ Duration(t) <= pipe'.voiceMs * 1000
  BY DEF SpokenKept
<1> QED
  BY <1>1, <1>2, ZenonT(60) DEF SpokenKept, Ends, Recorded, SeqsOf

LEMMA SpokenNext == AudioInv /\ OrderKept /\ SpokenKept /\ OnsetFitsPreRoll /\ [Next]_vars => SpokenKept'
<1> SUFFICES ASSUME AudioInv, OrderKept, SpokenKept, OnsetFitsPreRoll, [Next]_vars PROVE SpokenKept'
  OBVIOUS
<1>1. ASSUME NEW seq \in Seqs, NEW dur \in Durations, NEW verdict \in {"none", "some", "all"},
             HandleAudioFrame(seq, dur, verdict)
      PROVE  SpokenKept'
  BY <1>1, SpokenFrame
<1>2. CASE HandleSessionEnd
  BY <1>2, EndSendsTheRest, SpokenSame
<1>3. CASE UNCHANGED vars
  <2>1. UNCHANGED <<vad, pipe, live, spoken>>
    BY <1>3 DEF vars, audioVars
  <2>2. Sent' = Sent
    BY <2>1 DEF Sent
  <2> QED
    BY <2>1, <2>2, SpokenSame
<1> QED
  BY <1>1, <1>2, <1>3 DEF Next

LEMMA SpokenIsSent == OrderKept /\ SpokenKept => SpokenAudioIsSent
<1> SUFFICES ASSUME OrderKept, SpokenKept PROVE SpokenAudioIsSent
  OBVIOUS
<1>1. InSpokenOrder
  BY OrderIsSpoken
<1>2. pipe.active \/ ~vad => spoken \subseteq SeqsOf(Sent)
  BY DEF SpokenKept
<1> QED
  BY <1>1, <1>2 DEF SpokenAudioIsSent, InSpokenOrder

\* No frame the detector heard speech in is lost between the silence before an
\* onset and the end of the utterance (pipeline.go, applyHysteresis and
\* keepPreRoll), whenever the pre-roll holds what opens one.
THEOREM NoSpeechIsDropped == OnsetFitsPreRoll => (Spec => []SpokenAudioIsSent)
<1> SUFFICES ASSUME OnsetFitsPreRoll PROVE Spec => []SpokenAudioIsSent
  OBVIOUS
<1>1. Init => OrderKept /\ SpokenKept
  BY OrderInit, SpokenInit
<1>2. AudioInv /\ OrderKept /\ SpokenKept /\ [Next]_vars => OrderKept' /\ SpokenKept'
  BY OrderNext, SpokenNext
<1>3. OrderKept /\ SpokenKept => SpokenAudioIsSent
  BY SpokenIsSent
<1> QED
  BY <1>1, <1>2, <1>3, AudioCorrect, PTL DEF Spec

-------------------------------------------------------------------------------
(* Speech is noticed.                                                      *)

\* Frames of whole milliseconds that complete a detector window each and fit
\* the pre-roll, as the gateway's 20 ms ones do.
FramesSpanWindows ==
  \A d \in Durations : d % 1000 = 0 /\ d >= Window /\ d <= PreRollMs * 1000

\* Outside an utterance the onset clock has counted all the speech there was,
\* but for less than a window; inside one the frame last heard is on its way.
NoticeKept ==
  /\ vad /\ ~ended /\ ~pipe.active => heard + reframe < pipe.voiceMs * 1000 + Window
  /\ vad /\ ~ended /\ pipe.active /\ heard > 0 =>
       retained # << >> /\ Newest \in SeqsOf(Sent)

LEMMA DivisionSplits ==
  ASSUME NEW a \in Nat, NEW w \in Nat \ {0}
  PROVE  /\ w * (a \div w) + (a % w) = a /\ a \div w \in Nat /\ a % w \in 0..w - 1
         /\ a >= w => a \div w > 0
OBVIOUS

\* A frame either adds its time to the speech heard, or ends it.
LEMMA HeardGrows ==
  ASSUME AudioInv, FramesSpanWindows, vad,
         NEW seq \in Seqs, NEW dur \in Durations, NEW verdict \in {"none", "some", "all"},
         HandleAudioFrame(seq, dur, verdict)
  PROVE  /\ heard' \in Nat /\ reframe' \in 0..Window - 1
         /\ \/ RawVoice(dur, verdict) /\ heard' + reframe' = heard + reframe + dur
            \/ heard' = 0
<1> DEFINE n == (reframe + dur) \div Window
           speech == Window * n
<1>1. /\ Window \in Nat \ {0} /\ reframe \in 0..Window - 1 /\ heard \in Nat
  BY DEF AudioInv, Clock, Window
<1>2. reframe + dur \in Nat /\ reframe + dur >= Window
  BY <1>1 DEF FramesSpanWindows
<1> HIDE DEF Window
<1>3. /\ speech + ((reframe + dur) % Window) = reframe + dur
      /\ n > 0 /\ n \in Nat /\ (reframe + dur) % Window \in 0..Window - 1
  BY <1>1, <1>2, DivisionSplits
<1>4. /\ reframe' = (reframe + dur) % Window
      /\ heard' = CASE ~vad -> 0
                   [] vad /\ verdict = "all"  -> heard + speech
                   [] vad /\ verdict = "some" -> 0
                   [] vad /\ verdict = "none" -> IF reframe + dur < Window THEN heard ELSE 0
  BY DEF HandleAudioFrame, n
<1>5. RawVoice(dur, verdict) <=> verdict # "none" /\ n > 0
  BY DEF RawVoice, n
<1> DEFINE rest == (reframe + dur) % Window
<1>6. speech \in Nat
  BY <1>1, <1>3, ProductIsNat
<1>7. rest \in Nat /\ reframe' = rest /\ speech + rest = reframe + dur
  BY <1>1, <1>3, <1>4
<1> HIDE DEF n, speech, rest
<1>8. CASE verdict = "all"
  <2>1. heard' = heard + speech
    BY <1>4, <1>8
  <2>2. heard' \in Nat /\ heard' + reframe' = heard + reframe + dur
    BY <1>1, <1>2, <1>6, <1>7, <2>1
  <2>3. RawVoice(dur, verdict)
    BY <1>3, <1>5, <1>8
  <2> QED
    BY <1>3, <1>7, <2>2, <2>3 DEF rest
<1>9. CASE verdict = "some"
  <2>1. heard' = 0
    BY <1>4, <1>9
  <2> QED
    BY <1>3, <1>7, <2>1 DEF rest
<1>10. CASE verdict = "none"
  <2>1. heard' = 0
    BY <1>1, <1>2, <1>4, <1>10
  <2> QED
    BY <1>3, <1>7, <2>1 DEF rest
<1> QED
  BY <1>8, <1>9, <1>10

LEMMA NoticeInit == Init => NoticeKept
<1> SUFFICES ASSUME Init PROVE NoticeKept
  OBVIOUS
<1>1. pipe.active = FALSE /\ pipe.voiceMs = 0 /\ heard = 0 /\ reframe = 0
  BY DEF Init, Fresh
<1> QED
  BY <1>1 DEF NoticeKept, Window

LEMMA NoticeFrame ==
  ASSUME AudioInv, OrderKept, NoticeKept, FramesSpanWindows,
         NEW seq \in Seqs, NEW dur \in Durations, NEW verdict \in {"none", "some", "all"},
         HandleAudioFrame(seq, dur, verdict)
  PROVE  NoticeKept'
<1>1. PICK f \in HeldWith(seq) :
           /\ f.seq = seq /\ f.dur = dur
           /\ f.voiced = IF vad THEN RawVoice(dur, verdict) ELSE TRUE
           /\ UNCHANGED <<vad, ended>> /\ ~ended
           /\ Conveyed(f)
  BY FrameIsConveyed
<1>2. /\ pipe \in PipeOf(Recorded) /\ Sent \in Seq(Recorded) /\ f \in Recorded
      /\ f.dur = dur /\ dur \in Nat
  BY <1>1, SentHolds DEF HeldWith
<1>3. retained' # << >> /\ Newest' = seq
  <2>1. RingKept
    BY DEF AudioInv
  <2>2. retained' = IF Len(retained) < Capacity THEN Append(retained, seq)
                                                ELSE Append(Tail(retained), seq)
    BY DEF HandleAudioFrame
  <2> QED
    BY <2>1, <2>2, RingTakes
<1>4. Window' = Window /\ Window \in Nat \ {0}
  BY DEF Window
<1> HIDE DEF Window
<1>5. CASE ~vad
  BY <1>1, <1>5 DEF NoticeKept
<1>6. CASE vad
  <2>1. /\ heard' \in Nat /\ reframe' \in 0..Window - 1
        /\ \/ RawVoice(dur, verdict) /\ heard' + reframe' = heard + reframe + dur
           \/ heard' = 0
    BY <1>6, HeardGrows
  <2>2. f.voiced <=> RawVoice(dur, verdict)
    BY <1>1, <1>6
  <2>3. /\ pipe.voiceMs \in 0..StartSpeechMs - 1 /\ heard \in Nat /\ reframe \in Nat
        /\ (pipe.active => pipe.voiceMs = 0)
    BY <1>6 DEF OrderKept, AudioInv, Clock
  <2>4. Ms(dur) \in Nat /\ 1000 * Ms(dur) = dur
    BY <1>2, WholeMs DEF FramesSpanWindows
  <2>5. ~pipe.active => heard + reframe < pipe.voiceMs * 1000 + Window
    BY <1>1, <1>6 DEF NoticeKept
  <2>6. vad' /\ ~ended' /\ ~pipe'.active => heard' + reframe' < pipe'.voiceMs * 1000 + Window
    <3> SUFFICES ASSUME ~pipe'.active PROVE heard' + reframe' < pipe'.voiceMs * 1000 + Window
      OBVIOUS
    <3>1. CASE Waits(f)
      <4>1. pipe'.voiceMs = IF f.voiced THEN pipe.voiceMs + Ms(dur) ELSE 0
        BY <1>2, <3>1 DEF Waits
      <4>2. CASE heard' = 0
        <5>1. pipe'.voiceMs \in Nat
          BY <2>3, <2>4, <4>1
        <5> QED
          BY <1>4, <2>1, <4>2, <5>1
      <4>3. CASE RawVoice(dur, verdict) /\ heard' + reframe' = heard + reframe + dur
        <5>1. pipe'.voiceMs = pipe.voiceMs + Ms(dur)
          BY <2>2, <4>1, <4>3
        <5>2. heard + reframe < pipe.voiceMs * 1000 + Window
          BY <2>5, <3>1 DEF Waits
        <5>3. heard' + reframe' = heard + reframe + 1000 * Ms(dur)
          BY <2>4, <4>3
        <5>4. pipe'.voiceMs \in Nat /\ pipe'.voiceMs * 1000 = pipe.voiceMs * 1000 + 1000 * Ms(dur)
          BY <2>3, <2>4, <5>1
        <5>5. pipe.voiceMs * 1000 \in Nat /\ 1000 * Ms(dur) \in Nat /\ heard \in Nat /\ reframe \in Nat
          BY <2>3, <2>4
        <5> QED
          BY <1>4, <5>2, <5>3, <5>4, <5>5
      <4> QED
        BY <2>1, <4>2, <4>3
    <3>2. CASE Closes(f)
      <4>1. ~f.voiced /\ pipe'.voiceMs = 0
        BY <2>3, <3>2 DEF Closes
      <4>2. heard' = 0
        BY <2>1, <2>2, <4>1
      <4>3. pipe'.voiceMs \in Nat
        BY <4>1
      <4> QED
        BY <1>4, <2>1, <4>2, <4>3
    <3>3. ~Opens(f) /\ ~Pauses(f) /\ ~Carries(f)
      BY <1>6 DEF Opens, Pauses, Carries
    <3> QED
      BY <1>1, <3>1, <3>2, <3>3 DEF Conveyed
  <2>7. pipe'.active /\ heard' > 0 => seq \in SeqsOf(Sent')
    <3> SUFFICES ASSUME pipe'.active, heard' > 0 PROVE seq \in SeqsOf(Sent')
      OBVIOUS
    <3>0. f.voiced
      BY <2>1, <2>2
    <3>1. CASE Opens(f)
      <4>1. pipe.preRoll \in Seq(Recorded)
        BY <1>2 DEF PipeOf
      <4> DEFINE e == << >>
      <4>2. e \in Seq(Recorded) /\ Ends(Recorded, pipe.preRoll, e) /\ Duration(e) = 0
        BY <4>1, NothingEnds, NothingTakesNoTime
      <4> HIDE DEF e
      <4>3. Duration(e) + f.dur <= PreRollMs * 1000
        BY <1>2, <4>2 DEF FramesSpanWindows
      <4>4. Append(e, f) \in Seq(Recorded) /\ Ends(Recorded, KeepPreRoll(pipe, f).preRoll, Append(e, f))
        BY <1>2, <4>2, <4>3, KeepsWhatFits, AppendProperties
      <4>5. SeqsOf(Append(e, f)) \subseteq SeqsOf(KeepPreRoll(pipe, f).preRoll)
        BY <4>4, EndsAreIn
      <4>6. f.seq \in SeqsOf(Append(e, f))
        BY <1>2, <4>2, SeqsOfAppend
      <4> QED
        BY <1>1, <3>1, <4>5, <4>6 DEF Opens
    <3>2. CASE Carries(f)
      <4>1. SeqsOf(Append(Sent, f)) = SeqsOf(Sent) \cup {f.seq}
        BY <1>2, SeqsOfAppend
      <4> QED
        BY <1>1, <3>2, <4>1 DEF Carries
    <3>3. ~Waits(f) /\ ~Pauses(f) /\ ~Closes(f)
      BY <3>0 DEF Waits, Pauses, Closes
    <3> QED
      BY <1>1, <3>1, <3>2, <3>3 DEF Conveyed
  <2>8. (heard > 0)' => heard' > 0
    OBVIOUS
  <2>9. seq \in SeqsOf(Sent') => (Newest \in SeqsOf(Sent))'
    BY <1>3 DEF SeqsOf
  <2> QED
    BY <1>3, <1>4, <2>6, <2>7, <2>9 DEF NoticeKept
<1> QED
  BY <1>5, <1>6

LEMMA NoticeNext == AudioInv /\ OrderKept /\ NoticeKept /\ FramesSpanWindows /\ [Next]_vars => NoticeKept'
<1> SUFFICES ASSUME AudioInv, OrderKept, NoticeKept, FramesSpanWindows, [Next]_vars PROVE NoticeKept'
  OBVIOUS
<1>1. ASSUME NEW seq \in Seqs, NEW dur \in Durations, NEW verdict \in {"none", "some", "all"},
             HandleAudioFrame(seq, dur, verdict)
      PROVE  NoticeKept'
  BY <1>1, NoticeFrame
<1>2. CASE HandleSessionEnd
  <2>1. ended' = TRUE
    BY <1>2, EndSendsTheRest
  <2> QED
    BY <2>1 DEF NoticeKept
<1>3. CASE UNCHANGED vars
  <2>1. UNCHANGED <<vad, pipe, live, heard, reframe, ended, retained>>
    BY <1>3 DEF vars, audioVars, logVars
  <2>2. Sent' = Sent /\ Newest' = Newest /\ Window' = Window
    BY <2>1 DEF Sent, Newest, Window
  <2>3. Newest \in SeqsOf(Sent) => (Newest \in SeqsOf(Sent))'
    BY <2>2 DEF SeqsOf
  <2> HIDE DEF Window
  <2> QED
    BY <2>1, <2>2, <2>3 DEF NoticeKept
<1> QED
  BY <1>1, <1>2, <1>3 DEF Next

LEMMA SpeechNoticed == AudioInv /\ OrderKept /\ NoticeKept => SpeechIsNoticed
<1> SUFFICES ASSUME AudioInv, OrderKept, NoticeKept, vad, ~ended,
                    heard >= StartSpeechMs * 1000 + Window
             PROVE  Last(retained) \in SeqsOf(Sent)
  BY DEF SpeechIsNoticed
<1>1. /\ Window \in Nat \ {0} /\ heard \in Nat /\ reframe \in Nat
      /\ pipe.voiceMs \in 0..StartSpeechMs - 1
  BY DEF AudioInv, Clock, Window, OrderKept
<1> HIDE DEF Window
<1>2. heard > 0
  BY <1>1
<1>3. pipe.active
  <2> SUFFICES ASSUME ~pipe.active PROVE FALSE
    OBVIOUS
  <2>1. heard + reframe < pipe.voiceMs * 1000 + Window
    BY DEF NoticeKept
  <2> QED
    BY <1>1, <2>1
<1> QED
  BY <1>2, <1>3 DEF NoticeKept, Newest

\* Speech that goes on for StartSpeechMs and a window's slack has opened an
\* utterance, and its newest frame is sent or pending (pipeline.go, the
\* reframing in Ingest, and applyHysteresis).
THEOREM SpeechIsAlwaysNoticed == FramesSpanWindows => (Spec => []SpeechIsNoticed)
<1> SUFFICES ASSUME FramesSpanWindows PROVE Spec => []SpeechIsNoticed
  OBVIOUS
<1>1. Init => OrderKept /\ NoticeKept
  BY OrderInit, NoticeInit
<1>2. AudioInv /\ OrderKept /\ NoticeKept /\ [Next]_vars => OrderKept' /\ NoticeKept'
  BY OrderNext, NoticeNext
<1>3. AudioInv /\ OrderKept /\ NoticeKept => SpeechIsNoticed
  BY SpeechNoticed
<1> QED
  BY <1>1, <1>2, <1>3, AudioCorrect, PTL DEF Spec
===============================================================================
