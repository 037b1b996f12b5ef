---------------------------- MODULE PipelineTheorems ---------------------------
(***************************************************************************)
(* The two pipelines of AudioPipeline, a frame at a time and over any list *)
(* of frames: a pipeline holds no frame it was not given, leaves no        *)
(* chunk's worth of audio uncut, keeps its pre-roll within the budget and  *)
(* cuts frames in the order they came.  The modules that prove about a     *)
(* gateway session cite these for every step that feeds a pipeline.        *)
(***************************************************************************)
EXTENDS AudioPipeline, DataTheorems

-------------------------------------------------------------------------------
(* Folding from the left, an element at a time.                            *)

LEMMA NewestIsMax ==
  ASSUME NEW m \in Nat, NEW S, S \subseteq 1..(m + 1), m + 1 \in S
  PROVE  Max(S) = m + 1
<1> DEFINE P(x) == \A y \in S : x >= y
<1>1. m + 1 \in S /\ P(m + 1)
  OBVIOUS
<1>2. Max(S) \in S /\ P(Max(S))
  BY <1>1 DEF Max
<1> DEFINE x == Max(S)
<1>3. x \in 1..(m + 1) /\ x >= m + 1
  BY <1>2
<1> HIDE DEF x
<1>4. x = m + 1
  BY <1>3
<1> QED
  BY <1>4 DEF x

\* One frame fed to a pipeline, one through the hysteresis, or one's time: the
\* three folds of the audio path.
Turn(vad, p, f) == IF vad = "vad" THEN ApplyHysteresis(p, f)
                   ELSE IF vad = "time" THEN p + f.dur ELSE Feed(p, f)

TurnAt(vad, s, base, S, it) ==
  IF S = {} THEN base ELSE LET x == Max(S) IN Turn(vad, it[S \ {x}], s[x])

TurnedBy(vad, s, base, f) == f = [S \in SUBSET (1..Len(s)) |-> TurnAt(vad, s, base, S, f)]

\* FoldLeft's function exists.
LEMMA TurningExists ==
  ASSUME NEW A, NEW s \in Seq(A), NEW base, NEW vad
  PROVE  \E f : TurnedBy(vad, s, base, f)
<1> DEFINE n == Len(s)
<1>0. n \in Nat
  BY LenProperties
<1> HIDE DEF n
<1> DEFINE T == {m \in 0..n : \E f : f = [S \in SUBSET (1..m) |-> TurnAt(vad, s, base, S, f)]}
<1>1. 0 \in T
  <2> DEFINE f == [S \in SUBSET (1..0) |-> base]
  <2>1. f = [S \in SUBSET (1..0) |-> TurnAt(vad, s, base, S, f)]
    <3>1. \A S \in SUBSET (1..0) : S = {}
      OBVIOUS
    <3>2. \A S \in SUBSET (1..0) : TurnAt(vad, s, base, S, f) = base
      BY <3>1 DEF TurnAt
    <3> HIDE DEF f
    <3>3. f = [S \in SUBSET (1..0) |-> base]
      BY DEF f
    <3> QED
      BY <3>2, <3>3
  <2>2. 0 \in 0..n
    BY <1>0
  <2> QED
    BY <2>1, <2>2, Zenon
<1>2. ASSUME NEW m \in 0..(n - 1), m \in T PROVE m + 1 \in T
  <2>1. PICK f : f = [S \in SUBSET (1..m) |-> TurnAt(vad, s, base, S, f)]
    BY <1>2
  <2> DEFINE g == [S \in SUBSET (1..(m + 1)) |->
                     IF m + 1 \in S THEN Turn(vad, f[S \ {m + 1}], s[m + 1]) ELSE f[S]]
  <2>2. ASSUME NEW S \in SUBSET (1..(m + 1)) PROVE g[S] = TurnAt(vad, s, base, S, g)
    <3>1. CASE m + 1 \in S
      <4>1. Max(S) = m + 1 /\ S # {}
        <5>1. m \in Nat /\ S \subseteq 1..(m + 1)
          BY <1>0
        <5> QED
          BY <3>1, <5>1, NewestIsMax
      <4>2. S \ {m + 1} \in SUBSET (1..m)
        BY <1>0
      <4>3. g[S \ {m + 1}] = f[S \ {m + 1}]
        BY <4>2
      <4>4. g[S] = Turn(vad, f[S \ {m + 1}], s[m + 1])
        BY <3>1
      <4> HIDE DEF g
      <4> QED
        BY <4>1, <4>3, <4>4 DEF TurnAt
    <3>2. CASE m + 1 \notin S
      <4>1. S \in SUBSET (1..m)
        BY <1>0, <3>2
      <4>2. g[S] = f[S] /\ f[S] = TurnAt(vad, s, base, S, f)
        BY <2>1, <3>2, <4>1
      <4>3. CASE S = {}
        BY <4>2, <4>3 DEF TurnAt
      <4>4. CASE S # {}
        <5>1. \A x : S \ {x} \in SUBSET (1..m) /\ m + 1 \notin S \ {x} /\ S \ {x} \in SUBSET (1..(m + 1))
          <6>1. 1..m \subseteq 1..(m + 1)
            BY <1>0
          <6> QED
            BY <3>2, <4>1, <6>1, Zenon
        <5>2. \A x : g[S \ {x}] = f[S \ {x}]
          BY <5>1
        <5> HIDE DEF g
        <5> QED
          BY <4>2, <4>4, <5>2 DEF TurnAt
      <4> QED
        BY <4>3, <4>4
    <3> QED
      BY <3>1, <3>2
  <2>3. g = [S \in SUBSET (1..(m + 1)) |-> g[S]]
    OBVIOUS
  <2> HIDE DEF g
  <2>4. g = [S \in SUBSET (1..(m + 1)) |-> TurnAt(vad, s, base, S, g)]
    BY <2>2, <2>3
  <2>5. m + 1 \in 0..n
    BY <1>0
  <2> QED
    BY <2>4, <2>5, Zenon
<1> HIDE DEF T
<1>3. \A m \in 0..n : m \in T
  BY <1>0, <1>1, <1>2, BoundedInduction
<1>4. n \in T
  BY <1>0, <1>3
<1> QED
  BY <1>4, Zenon DEF T, n, TurnedBy

FeedAt(s, base, S, it) ==
  IF S = {} THEN base ELSE LET x == Max(S) IN Feed(it[S \ {x}], s[x])
FedBy(s, base, f) == f = [S \in SUBSET (1..Len(s)) |-> FeedAt(s, base, S, f)]

RunAt(s, base, S, it) ==
  IF S = {} THEN base ELSE LET x == Max(S) IN ApplyHysteresis(it[S \ {x}], s[x])
RunBy(s, base, f) == f = [S \in SUBSET (1..Len(s)) |-> RunAt(s, base, S, f)]

TimeAt(s, base, S, it) ==
  IF S = {} THEN base ELSE LET x == Max(S) IN it[S \ {x}] + s[x].dur
TimeBy(s, base, f) == f = [S \in SUBSET (1..Len(s)) |-> TimeAt(s, base, S, f)]

LEMMA FoldsExist ==
  ASSUME NEW A, NEW s \in Seq(A), NEW base
  PROVE  (\E f : FedBy(s, base, f)) /\ (\E f : RunBy(s, base, f)) /\ (\E f : TimeBy(s, base, f))
<1>1. \A S, it : FeedAt(s, base, S, it) = TurnAt("pass", s, base, S, it)
  BY DEF FeedAt, TurnAt, Turn
<1>2. \A S, it : RunAt(s, base, S, it) = TurnAt("vad", s, base, S, it)
  BY DEF RunAt, TurnAt, Turn
<1>3. ASSUME NEW f PROVE FedBy(s, base, f) <=> TurnedBy("pass", s, base, f)
  BY <1>1 DEF FedBy, TurnedBy
<1>4. ASSUME NEW f PROVE RunBy(s, base, f) <=> TurnedBy("vad", s, base, f)
  BY <1>2 DEF RunBy, TurnedBy
<1>5. /\ \E f : TurnedBy("pass", s, base, f)
      /\ \E f : TurnedBy("vad", s, base, f)
      /\ \E f : TurnedBy("time", s, base, f)
  BY TurningExists
<1>6. \A S, it : TimeAt(s, base, S, it) = TurnAt("time", s, base, S, it)
  BY DEF TimeAt, TurnAt, Turn
<1>7. ASSUME NEW f PROVE TimeBy(s, base, f) <=> TurnedBy("time", s, base, f)
  BY <1>6 DEF TimeBy, TurnedBy
<1> QED
  BY <1>3, <1>4, <1>5, <1>7, Zenon

\* A list of frames fed to a pipeline.
Fed(p, s) == FoldLeft(Feed, p, s)

LEMMA FeedingInTurn ==
  ASSUME NEW A, NEW s \in Seq(A), NEW base
  PROVE  \E g : /\ Fed(base, s) = g[Len(s)] /\ g[0] = base
                /\ \A n \in 1..Len(s) : g[n] = Feed(g[n - 1], s[n])
<1> DEFINE f == CHOOSE f : FedBy(s, base, f)
           g == [n \in 0..Len(s) |-> f[1..n]]
<1>1. DOMAIN s = 1..Len(s) /\ Len(s) \in Nat
  BY LenProperties
<1>2. Fed(base, s) = f[1..Len(s)]
  BY <1>1 DEF Fed, FoldLeft, MapThenFoldSet, FedBy, FeedAt
<1>3. f = [S \in SUBSET (1..Len(s)) |-> FeedAt(s, base, S, f)]
  <2>1. \E h : FedBy(s, base, h)
    BY FoldsExist
  <2>2. FedBy(s, base, f)
    BY <2>1, Zenon
  <2> QED
    BY <2>2 DEF FedBy
<1> HIDE DEF f
<1>4. g[0] = base
  <2>1. f[{}] = FeedAt(s, base, {}, f)
    BY <1>3
  <2>2. 1..0 = {} /\ 0 \in 0..Len(s)
    BY <1>1
  <2> QED
    BY <2>1, <2>2 DEF FeedAt
<1>5. ASSUME NEW n \in 1..Len(s) PROVE g[n] = Feed(g[n - 1], s[n])
  <2>1. n - 1 \in Nat /\ n - 1 \in 0..Len(s) /\ n \in 0..Len(s) /\ (n - 1) + 1 = n
    BY <1>1
  <2>2. Max(1..n) = n
    <3>1. 1..n \subseteq 1..((n - 1) + 1) /\ (n - 1) + 1 \in 1..n
      BY <2>1
    <3> QED
      BY <2>1, <3>1, NewestIsMax
  <2>3. f[1..n] = FeedAt(s, base, 1..n, f)
    <3>1. 1..n \in SUBSET (1..Len(s))
      BY <1>1
    <3> QED
      BY <1>3, <3>1
  <2>4. (1..n) \ {n} = 1..(n - 1) /\ 1..n # {}
    BY <2>1, SMTT(30)
  <2> QED
    BY <2>1, <2>2, <2>3, <2>4 DEF FeedAt
<1>6. g[Len(s)] = f[1..Len(s)]
  BY <1>1
<1> HIDE DEF g
<1> QED
  BY <1>2, <1>4, <1>5, <1>6

\* A list of frames through the hysteresis, undrained.
Run(p, s) == FoldLeft(LAMBDA q, f : ApplyHysteresis(q, f), p, s)

LEMMA RunningInTurn ==
  ASSUME NEW A, NEW s \in Seq(A), NEW base
  PROVE  \E g : /\ Run(base, s) = g[Len(s)] /\ g[0] = base
                /\ \A n \in 1..Len(s) : g[n] = ApplyHysteresis(g[n - 1], s[n])
<1> DEFINE f == CHOOSE f : RunBy(s, base, f)
           g == [n \in 0..Len(s) |-> f[1..n]]
<1>1. DOMAIN s = 1..Len(s) /\ Len(s) \in Nat
  BY LenProperties
<1>2. Run(base, s) = f[1..Len(s)]
  BY <1>1 DEF Run, FoldLeft, MapThenFoldSet, RunBy, RunAt
<1>3. f = [S \in SUBSET (1..Len(s)) |-> RunAt(s, base, S, f)]
  <2>1. \E h : RunBy(s, base, h)
    BY FoldsExist
  <2>2. RunBy(s, base, f)
    BY <2>1, Zenon
  <2> QED
    BY <2>2 DEF RunBy
<1> HIDE DEF f
<1>4. g[0] = base
  <2>1. f[{}] = RunAt(s, base, {}, f)
    BY <1>3
  <2>2. 1..0 = {} /\ 0 \in 0..Len(s)
    BY <1>1
  <2> QED
    BY <2>1, <2>2 DEF RunAt
<1>5. ASSUME NEW n \in 1..Len(s) PROVE g[n] = ApplyHysteresis(g[n - 1], s[n])
  <2>1. n - 1 \in Nat /\ n - 1 \in 0..Len(s) /\ n \in 0..Len(s) /\ (n - 1) + 1 = n
    BY <1>1
  <2>2. Max(1..n) = n
    <3>1. 1..n \subseteq 1..((n - 1) + 1) /\ (n - 1) + 1 \in 1..n
      BY <2>1
    <3> QED
      BY <2>1, <3>1, NewestIsMax
  <2>3. f[1..n] = RunAt(s, base, 1..n, f)
    <3>1. 1..n \in SUBSET (1..Len(s))
      BY <1>1
    <3> QED
      BY <1>3, <3>1
  <2>4. (1..n) \ {n} = 1..(n - 1) /\ 1..n # {}
    BY <2>1, SMTT(30)
  <2> QED
    BY <2>1, <2>2, <2>3, <2>4 DEF RunAt
<1>6. g[Len(s)] = f[1..Len(s)]
  BY <1>1
<1> HIDE DEF g
<1> QED
  BY <1>2, <1>4, <1>5, <1>6

\* Nothing lasts no time.
LEMMA NothingTakesNoTime == Duration(<< >>) = 0
<1> DEFINE f == CHOOSE f : f = [S \in SUBSET {} |->
                  IF S = {} THEN 0 ELSE LET x == Max(S) IN f[S \ {x}] + << >>[x].dur]
<1>1. DOMAIN << >> = {}
  OBVIOUS
<1>2. Duration(<< >>) = f[{}]
  BY <1>1 DEF Duration, FoldLeft, MapThenFoldSet
<1> DEFINE g == [S \in SUBSET {} |-> 0]
<1>3. g = [S \in SUBSET {} |->
             IF S = {} THEN 0 ELSE LET x == Max(S) IN g[S \ {x}] + << >>[x].dur]
  OBVIOUS
<1> HIDE DEF g
<1>4. f = [S \in SUBSET {} |->
             IF S = {} THEN 0 ELSE LET x == Max(S) IN f[S \ {x}] + << >>[x].dur]
  BY <1>3, Zenon
<1> HIDE DEF f
<1>5. f[{}] = 0
  BY <1>4
<1> QED
  BY <1>2, <1>5

LEMMA TimeInTurn ==
  ASSUME NEW A, NEW s \in Seq(A)
  PROVE  \E g : /\ Duration(s) = g[Len(s)] /\ g[0] = 0
                /\ \A n \in 1..Len(s) : g[n] = g[n - 1] + s[n].dur
<1> DEFINE f == CHOOSE f : TimeBy(s, 0, f)
           g == [n \in 0..Len(s) |-> f[1..n]]
<1>1. DOMAIN s = 1..Len(s) /\ Len(s) \in Nat
  BY LenProperties
<1>2. Duration(s) = f[1..Len(s)]
  BY <1>1 DEF Duration, FoldLeft, MapThenFoldSet, TimeBy, TimeAt
<1>3. f = [S \in SUBSET (1..Len(s)) |-> TimeAt(s, 0, S, f)]
  <2>1. \E h : TimeBy(s, 0, h)
    BY FoldsExist
  <2>2. TimeBy(s, 0, f)
    BY <2>1, Zenon
  <2> QED
    BY <2>2 DEF TimeBy
<1> HIDE DEF f
<1>4. g[0] = 0
  <2>1. f[{}] = TimeAt(s, 0, {}, f)
    BY <1>3
  <2>2. 1..0 = {} /\ 0 \in 0..Len(s)
    BY <1>1
  <2> QED
    BY <2>1, <2>2 DEF TimeAt
<1>5. ASSUME NEW n \in 1..Len(s) PROVE g[n] = g[n - 1] + s[n].dur
  <2>1. n - 1 \in Nat /\ n - 1 \in 0..Len(s) /\ n \in 0..Len(s) /\ (n - 1) + 1 = n
    BY <1>1
  <2>2. Max(1..n) = n
    <3>1. 1..n \subseteq 1..((n - 1) + 1) /\ (n - 1) + 1 \in 1..n
      BY <2>1
    <3> QED
      BY <2>1, <3>1, NewestIsMax
  <2>3. f[1..n] = TimeAt(s, 0, 1..n, f)
    <3>1. 1..n \in SUBSET (1..Len(s))
      BY <1>1
    <3> QED
      BY <1>3, <3>1
  <2>4. (1..n) \ {n} = 1..(n - 1) /\ 1..n # {}
    BY <2>1, SMTT(30)
  <2> QED
    BY <2>1, <2>2, <2>3, <2>4 DEF TimeAt
<1>6. g[Len(s)] = f[1..Len(s)]
  BY <1>1
<1> HIDE DEF g
<1> QED
  BY <1>2, <1>4, <1>5, <1>6

-------------------------------------------------------------------------------
(* What a pipeline holds.                                                  *)

Recorded == [seq : Nat, dur : Nat, voiced : BOOLEAN]
Cut(F)   == Seq(F) \ {<< >>}
Span     == Int
Event    == [type : {"speech.start", "endpoint"}, seq : Nat]

\* A pipeline all of whose frames are of F.
PipeOf(F) == [active : BOOLEAN, voiceMs : Int, silenceMs : Int,
              preRoll : Seq(F), pending : Seq(F), ready : Seq(Cut(F)), events : Seq(Event)]

\* A chunk's worth of audio is not left uncut.
Short(p) == Duration(p.pending) < ChunkMs * 1000

LEMMA FreshHolds == \A F : Fresh \in PipeOf(F)
<1> SUFFICES ASSUME NEW F PROVE Fresh \in PipeOf(F)
  OBVIOUS
<1>1. << >> \in Seq(F) /\ << >> \in Seq(Cut(F)) /\ << >> \in Seq(Event)
  BY EmptySeq
<1> HIDE DEF Cut, Event
<1> QED
  BY <1>1 DEF Fresh, PipeOf

\* A pipeline with some of its fields replaced.
With(p, voice, silence, preRoll, events) ==
  [p EXCEPT !.voiceMs = voice, !.silenceMs = silence, !.preRoll = preRoll, !.events = events]
Activated(p) == [p EXCEPT !.active = TRUE]
Deactivated(p) == [p EXCEPT !.active = FALSE]

LEMMA WithHolds ==
  ASSUME NEW F, NEW p \in PipeOf(F), NEW voice \in Span,
         NEW silence \in Span, NEW preRoll \in Seq(F), NEW events \in Seq(Event)
  PROVE  LET q == With(p, voice, silence, preRoll, events)
         IN  q \in PipeOf(F)
<1> DEFINE q == With(p, voice, silence, preRoll, events)
<1>1. /\ p.pending \in Seq(F) /\ p.ready \in Seq(Cut(F)) /\ p.active \in BOOLEAN
  BY DEF PipeOf
<1> HIDE DEF Cut, Event
<1>2. q \in PipeOf(F)
  BY <1>1 DEF PipeOf, With, Span
<1> QED
  BY <1>2

LEMMA ActivatedHolds ==
  ASSUME NEW F, NEW p \in PipeOf(F)
  PROVE  /\ Activated(p) \in PipeOf(F) /\ Activated(p).active = TRUE
         /\ Activated(p).preRoll = p.preRoll /\ Activated(p).events = p.events
         /\ Activated(p).pending = p.pending /\ Activated(p).ready = p.ready
BY DEF Activated, PipeOf

LEMMA DeactivatedHolds ==
  ASSUME NEW F, NEW p \in PipeOf(F)
  PROVE  /\ Deactivated(p) \in PipeOf(F) /\ Deactivated(p).active = FALSE
         /\ Deactivated(p).preRoll = p.preRoll /\ Deactivated(p).events = p.events
         /\ Deactivated(p).pending = p.pending /\ Deactivated(p).ready = p.ready
BY DEF Deactivated, PipeOf

LEMMA Zero == 0 \in Span
BY DEF Span

LEMMA ShortWhenEmpty == \A p : p.pending = << >> => Short(p)
BY NothingTakesNoTime, PipelineAssumption DEF Short, PipelineAssumption

\* Feeding a frame makes it pending, and may cut a chunk.
LEMMA FeedHolds ==
  ASSUME NEW F, NEW p \in PipeOf(F), NEW f \in F
  PROVE  LET q == Feed(p, f)
         IN  /\ q \in PipeOf(F) /\ Short(q)
             /\ q.active = p.active /\ q.preRoll = p.preRoll /\ q.events = p.events
             /\ q.voiceMs = p.voiceMs /\ q.silenceMs = p.silenceMs
<1> DEFINE pending == Append(p.pending, f)
           q == Feed(p, f)
<1>1. /\ p.pending \in Seq(F) /\ p.ready \in Seq(Cut(F))
      /\ p.active \in BOOLEAN /\ p.preRoll \in Seq(F) /\ p.events \in Seq(Event)
      /\ p.voiceMs \in Int /\ p.silenceMs \in Int
  BY DEF PipeOf
<1>2. pending \in Seq(F) /\ pending \in Cut(F) /\ << >> \in Seq(F)
  BY <1>1, AppendProperties, EmptySeq DEF Cut
<1>3. Append(p.ready, pending) \in Seq(Cut(F))
  BY <1>1, <1>2, AppendProperties
<1>4. q = IF Duration(pending) < ChunkMs * 1000
          THEN [p EXCEPT !.pending = pending]
          ELSE [p EXCEPT !.pending = << >>, !.ready = Append(@, pending)]
  BY DEF Feed
<1> HIDE DEF pending, q
<1>5. CASE Duration(pending) < ChunkMs * 1000
  <2>1. q = [p EXCEPT !.pending = pending]
    BY <1>4, <1>5
  <2> HIDE DEF Cut, Event
  <2>2. q \in PipeOf(F) /\ q.pending = pending
    BY <1>1, <1>2, <2>1 DEF PipeOf
  <2>3. /\ q.active = p.active /\ q.preRoll = p.preRoll /\ q.events = p.events
        /\ q.voiceMs = p.voiceMs /\ q.silenceMs = p.silenceMs
    BY <2>1 DEF PipeOf
  <2> QED
    BY <1>5, <2>2, <2>3 DEF Short, q
<1>6. CASE ~(Duration(pending) < ChunkMs * 1000)
  <2>1. q = [p EXCEPT !.pending = << >>, !.ready = Append(p.ready, pending)]
    BY <1>4, <1>6
  <2> HIDE DEF Cut, Event
  <2>2. q \in PipeOf(F) /\ q.pending = << >>
    BY <1>1, <1>2, <1>3, <2>1 DEF PipeOf
  <2>3. /\ q.active = p.active /\ q.preRoll = p.preRoll /\ q.events = p.events
        /\ q.voiceMs = p.voiceMs /\ q.silenceMs = p.silenceMs
    BY <2>1 DEF PipeOf
  <2> QED
    BY <2>2, <2>3, ShortWhenEmpty DEF q
<1> QED
  BY <1>5, <1>6

LEMMA FeedingHolds ==
  ASSUME NEW F, NEW p \in PipeOf(F), Short(p), NEW s \in Seq(F)
  PROVE  LET q == Fed(p, s)
         IN  /\ q \in PipeOf(F) /\ Short(q)
             /\ q.active = p.active /\ q.preRoll = p.preRoll /\ q.events = p.events
             /\ q.voiceMs = p.voiceMs /\ q.silenceMs = p.silenceMs
<1> DEFINE Kept(q) == /\ q \in PipeOf(F) /\ Short(q)
                      /\ q.active = p.active /\ q.preRoll = p.preRoll /\ q.events = p.events
                      /\ q.voiceMs = p.voiceMs /\ q.silenceMs = p.silenceMs
<1>1. PICK g : /\ Fed(p, s) = g[Len(s)] /\ g[0] = p
               /\ \A n \in 1..Len(s) : g[n] = Feed(g[n - 1], s[n])
  BY FeedingInTurn
<1>2. Len(s) \in Nat /\ \A i \in 1..Len(s) : s[i] \in F
  BY LenProperties, ElementOfSeq
<1> DEFINE T == {n \in 0..Len(s) : Kept(g[n])}
<1>3. 0 \in T
  BY <1>1, <1>2
<1>4. ASSUME NEW n \in 0..(Len(s) - 1), n \in T PROVE n + 1 \in T
  <2>1. n + 1 \in 1..Len(s) /\ (n + 1) - 1 = n /\ n + 1 \in 0..Len(s)
    BY <1>2
  <2>2. g[n + 1] = Feed(g[n], s[n + 1]) /\ s[n + 1] \in F /\ Kept(g[n])
    BY <1>1, <1>2, <1>4, <2>1
  <2>3. Kept(Feed(g[n], s[n + 1]))
    <3>1. ASSUME NEW q \in PipeOf(F), NEW x \in F
          PROVE  LET r == Feed(q, x)
                 IN  /\ r \in PipeOf(F) /\ Short(r)
                     /\ r.active = q.active /\ r.preRoll = q.preRoll /\ r.events = q.events
                     /\ r.voiceMs = q.voiceMs /\ r.silenceMs = q.silenceMs
      BY FeedHolds, Zenon
    <3> QED
      BY <2>2, <3>1
  <2> HIDE DEF Kept
  <2> QED
    BY <2>1, <2>2, <2>3
<1> HIDE DEF T
<1>5. \A n \in 0..Len(s) : n \in T
  BY <1>2, <1>3, <1>4, BoundedInduction
<1>6. Len(s) \in T
  BY <1>2, <1>5
<1>7. Kept(g[Len(s)])
  BY <1>6 DEF T
<1> HIDE DEF Kept
<1>8. Kept(Fed(p, s))
  BY <1>1, <1>7
<1> QED
  BY <1>8 DEF Kept

\* The pre-roll stays within its budget.
Rolled(p) == Duration(p.preRoll) <= PreRollMs * 1000
\* Frames in the order they came; the last endpoint's may be there twice.
Rising(s) == \A i, j \in 1..Len(s) : i <= j => s[i].seq <= s[j].seq
UpToSeq(s, n) == \A i \in 1..Len(s) : s[i].seq <= n

LEMMA RolledWhenEmpty == \A p : p.preRoll = << >> => Rolled(p)
BY NothingTakesNoTime, PipelineAssumption DEF Rolled, PipelineAssumption

LEMMA RisingWhenEmpty == Rising(<< >>)
BY DEF Rising

LEMMA AppendRises ==
  ASSUME NEW F, F \subseteq Recorded, NEW s \in Seq(F), NEW f \in F, Rising(s), UpToSeq(s, f.seq)
  PROVE  Rising(Append(s, f)) /\ UpToSeq(Append(s, f), f.seq)
<1> DEFINE t == Append(s, f)
<1>1. /\ Len(s) \in Nat /\ Len(t) = Len(s) + 1 /\ t[Len(s) + 1] = f
      /\ \A i \in 1..Len(s) : t[i] = s[i]
  BY LenProperties, AppendProperties
<1>2. f.seq \in Nat
  BY DEF Recorded
<1> HIDE DEF t
<1>3. \A i \in 1..Len(t) : t[i].seq <= f.seq
  <2> SUFFICES ASSUME NEW i \in 1..Len(t) PROVE t[i].seq <= f.seq
    OBVIOUS
  <2>1. CASE i = Len(s) + 1
    BY <1>1, <1>2, <2>1
  <2>2. CASE i # Len(s) + 1
    <3>1. i \in 1..Len(s)
      BY <1>1, <2>2
    <3> QED
      BY <1>1, <3>1 DEF UpToSeq
  <2> QED
    BY <2>1, <2>2
<1>4. ASSUME NEW i \in 1..Len(t), NEW j \in 1..Len(t), i <= j PROVE t[i].seq <= t[j].seq
  <2>1. CASE j = Len(s) + 1
    BY <1>1, <1>3, <2>1
  <2>2. CASE j # Len(s) + 1
    <3>1. i \in 1..Len(s) /\ j \in 1..Len(s)
      BY <1>1, <1>4, <2>2
    <3> QED
      BY <1>1, <1>4, <3>1 DEF Rising
  <2> QED
    BY <2>1, <2>2
<1> QED
  BY <1>3, <1>4 DEF Rising, UpToSeq, t

\* Some newest frames fit, if only none of them.
LEMMA KeptFrom ==
  ASSUME NEW F, NEW s \in Seq(F), NEW f \in F
  PROVE  LET kept == Append(s, f)
             n    == Len(kept)
             fits == {k \in 1..n + 1 : Duration(SubSeq(kept, k, n)) <= PreRollMs * 1000}
         IN  Min(fits) \in fits
<1> DEFINE kept == Append(s, f)
           n == Len(kept)
           fits == {k \in 1..n + 1 : Duration(SubSeq(kept, k, n)) <= PreRollMs * 1000}
<1>2. kept \in Seq(F) /\ n \in Nat
  BY AppendProperties, LenProperties
<1>3. Min(fits) \in fits
  <2>1. SubSeq(kept, n + 1, n) = << >>
    BY <1>2, SubSeqEmpty
  <2>2. Duration(<< >>) <= PreRollMs * 1000
    BY NothingTakesNoTime, PipelineAssumption DEF PipelineAssumption
  <2>3. n + 1 \in fits
    <3>1. Duration(SubSeq(kept, n + 1, n)) <= PreRollMs * 1000
      BY <2>1, <2>2, Zenon
    <3>2. n + 1 \in 1..n + 1
      BY <1>2
    <3> QED
      BY <3>1, <3>2, Zenon
  <2>4. fits \subseteq Nat
    BY <1>2
  <2> HIDE DEF fits
  <2>5. \E k \in fits : \A m \in fits : k <= m
    BY <2>3, <2>4, LeastNatural
  <2> QED
    BY <2>5 DEF Min
<1> QED
  BY <1>3

\* The newest frames that fit are kept.
LEMMA KeepingHolds ==
  ASSUME NEW F, F \subseteq Recorded, NEW p \in PipeOf(F), NEW f \in F
  PROVE  LET q == KeepPreRoll(p, f)
         IN  /\ q \in PipeOf(F) /\ Rolled(q)
             /\ q.active = p.active /\ q.pending = p.pending /\ q.ready = p.ready
             /\ q.events = p.events /\ q.voiceMs = p.voiceMs /\ q.silenceMs = p.silenceMs
             /\ Rising(p.preRoll) /\ UpToSeq(p.preRoll, f.seq)
                => Rising(q.preRoll) /\ UpToSeq(q.preRoll, f.seq)
<1> DEFINE q == KeepPreRoll(p, f)
           kept == Append(p.preRoll, f)
           n == Len(kept)
           fits == {k \in 1..n + 1 : Duration(SubSeq(kept, k, n)) <= PreRollMs * 1000}
           r == SubSeq(kept, Min(fits), n)
<1>1. /\ p.pending \in Seq(F) /\ p.ready \in Seq(Cut(F))
      /\ p.active \in BOOLEAN /\ p.preRoll \in Seq(F) /\ p.events \in Seq(Event)
      /\ p.voiceMs \in Int /\ p.silenceMs \in Int
  BY DEF PipeOf
<1>2. kept \in Seq(F) /\ n \in Nat
  BY <1>1, AppendProperties, LenProperties
<1>3. Min(fits) \in fits
  BY <1>1, KeptFrom
<1>4. Min(fits) \in 1..n + 1 /\ Duration(r) <= PreRollMs * 1000
  BY <1>3
<1>5. q = [p EXCEPT !.preRoll = r]
  BY DEF KeepPreRoll
<1> HIDE DEF fits, kept, n
<1> DEFINE m == Min(fits)
<1>6. m \in 1..n + 1 /\ n = Len(kept) /\ r = SubSeq(kept, m, n)
  BY <1>4 DEF n
<1> HIDE DEF m, r
<1>7. \A i \in m..n : i \in 1..Len(kept) /\ kept[i] \in F
  <2>1. \A i \in m..n : i \in 1..Len(kept)
    BY <1>2, <1>6
  <2> QED
    BY <1>2, <2>1, ElementOfSeq
<1>8. /\ r \in Seq(F) /\ Len(r) = (IF m <= n THEN n - m + 1 ELSE 0)
      /\ \A i \in 1..(n - m + 1) : r[i] = kept[m + i - 1]
  <2>1. m \in Int /\ n \in Int
    BY <1>2, <1>6
  <2>2. \A i \in m..n : kept[i] \in F
    BY <1>7
  <2> QED
    BY <1>6, <2>1, <2>2, SubSeqProperties
<1>9. \A i \in 1..Len(r) : m + i - 1 \in 1..Len(kept) /\ r[i] = kept[m + i - 1]
  <2>1. \A i \in 1..Len(r) : i \in 1..(n - m + 1) /\ m + i - 1 \in m..n
    BY <1>2, <1>6, <1>8
  <2> QED
    BY <1>7, <1>8, <2>1
<1>10. ASSUME Rising(p.preRoll), UpToSeq(p.preRoll, f.seq)
       PROVE  Rising(r) /\ UpToSeq(r, f.seq)
  <2>1. Rising(kept) /\ UpToSeq(kept, f.seq)
    BY <1>1, <1>10, AppendRises DEF kept
  <2>2. UpToSeq(r, f.seq)
    BY <1>9, <2>1 DEF UpToSeq
  <2>3. ASSUME NEW i \in 1..Len(r), NEW j \in 1..Len(r), i <= j PROVE r[i].seq <= r[j].seq
    <3>1. m + i - 1 <= m + j - 1
      BY <1>2, <1>6, <1>8, <2>3
    <3> QED
      BY <1>9, <2>1, <3>1 DEF Rising
  <2> QED
    BY <2>2, <2>3 DEF Rising
<1> HIDE DEF q, Cut, Event
<1>11. q \in PipeOf(F) /\ q.preRoll = r
  BY <1>1, <1>5, <1>8 DEF PipeOf
<1>12. /\ q.active = p.active /\ q.pending = p.pending /\ q.ready = p.ready
       /\ q.events = p.events /\ q.voiceMs = p.voiceMs /\ q.silenceMs = p.silenceMs
  BY <1>5 DEF PipeOf
<1>13. Rolled(q)
  BY <1>4, <1>11 DEF Rolled, r, m, n
<1> QED
  BY <1>10, <1>11, <1>12, <1>13 DEF q

-------------------------------------------------------------------------------
(* One frame.                                                              *)

\* Between two frames both queues are drained, and nothing is pending outside
\* an utterance.
Settled(p) == /\ p.ready = << >> /\ p.events = << >> /\ Short(p) /\ Rolled(p)
              /\ ~p.active => p.pending = << >>

HasStarted(q) == \E i \in DOMAIN q.events : q.events[i].type = "speech.start"
HasEnded(q)   == \E i \in DOMAIN q.events : q.events[i].type = "endpoint"

\* A frame leaves an inactive pipeline inactive, or starts an utterance; an
\* active one goes on, or ends its utterance and cuts nothing.
Moves(p, q) ==
  \/ ~p.active /\ ~q.active /\ q.events = << >> /\ q.pending = << >> /\ q.ready = << >>
  \/ ~p.active /\ q.active /\ HasStarted(q) /\ ~HasEnded(q) /\ q.preRoll = << >>
  \/ p.active /\ q.active /\ q.events = << >>
  \/ p.active /\ ~q.active /\ HasEnded(q) /\ ~HasStarted(q) /\ q.ready = << >>
     /\ q.pending = p.pending

Holds(F, p, f, q) ==
  /\ q \in PipeOf(F) /\ Short(q) /\ Rolled(q)
  /\ Rising(p.preRoll) /\ UpToSeq(p.preRoll, f.seq)
     => Rising(q.preRoll) /\ UpToSeq(q.preRoll, f.seq)

LEMMA OneEvent ==
  ASSUME NEW e
  PROVE  DOMAIN Append(<< >>, e) = {1} /\ Append(<< >>, e)[1] = e
OBVIOUS

LEMMA InactiveHolds ==
  ASSUME NEW F, F \subseteq Recorded, NEW p \in PipeOf(F), Settled(p), ~p.active, NEW f \in F
  PROVE  Holds(F, p, f, Inactive(p, f)) /\ Moves(p, Inactive(p, f))
<1> DEFINE q == KeepPreRoll(p, f)
           voice == IF f.voiced THEN p.voiceMs + Ms(f.dur) ELSE 0
           start == [type |-> "speech.start", seq |-> f.seq]
           onset == [q EXCEPT !.active = TRUE, !.voiceMs = 0, !.silenceMs = 0,
                              !.preRoll = << >>, !.events = Append(@, start)]
           e == Inactive(p, f)
<1>1. e = IF voice < StartSpeechMs THEN [q EXCEPT !.voiceMs = voice] ELSE Fed(onset, q.preRoll)
  BY DEF Inactive, Fed
<1>2. /\ q \in PipeOf(F) /\ Rolled(q) /\ q.active = p.active /\ q.pending = p.pending
      /\ q.ready = p.ready /\ q.events = p.events
      /\ Rising(p.preRoll) /\ UpToSeq(p.preRoll, f.seq)
         => Rising(q.preRoll) /\ UpToSeq(q.preRoll, f.seq)
  BY KeepingHolds
<1>3. /\ voice \in Int /\ start \in Event
  BY DEF Recorded, PipeOf, Ms, Event
<1>4. /\ q.active = FALSE /\ q.pending = << >> /\ q.ready = << >> /\ q.events = << >>
  BY <1>2 DEF Settled
<1> HIDE DEF q, voice, e
<1>5. CASE voice < StartSpeechMs
  <2>1. e = [q EXCEPT !.voiceMs = voice]
    BY <1>1, <1>5
  <2>2. e \in PipeOf(F)
    <3> HIDE DEF Cut, Event
    <3> QED
      BY <1>2, <1>3, <2>1 DEF PipeOf
  <2>3. /\ e.active = FALSE /\ e.pending = << >> /\ e.ready = << >> /\ e.events = << >>
        /\ e.preRoll = q.preRoll
    BY <1>2, <1>4, <2>1 DEF PipeOf
  <2>4. Short(e) /\ Rolled(e)
    BY <1>2, <2>3, ShortWhenEmpty DEF Rolled
  <2>5. Moves(p, e)
    BY <2>3 DEF Moves
  <2> QED
    BY <1>2, <2>2, <2>3, <2>4, <2>5 DEF Holds, e
<1>6. CASE ~(voice < StartSpeechMs)
  <2>1. e = Fed(onset, q.preRoll)
    BY <1>1, <1>6
  <2>2. << >> \in Seq(F) /\ Append(<< >>, start) \in Seq(Event)
    BY <1>3, EmptySeq, AppendProperties
  <2>3. onset = [q EXCEPT !.active = TRUE, !.voiceMs = 0, !.silenceMs = 0,
                          !.preRoll = << >>, !.events = Append(<< >>, start)]
    BY <1>4
  <2> HIDE DEF onset
  <2> DEFINE w == With(q, 0, 0, << >>, Append(<< >>, start))
  <2>4. onset = Activated(w) /\ w \in PipeOf(F)
        /\ w.preRoll = << >> /\ w.pending = q.pending /\ w.events = Append(<< >>, start)
    <3>1. onset = Activated(w)
      BY <1>2, <2>3 DEF With, Activated, PipeOf
    <3> HIDE DEF start
    <3>2. w \in PipeOf(F)
      BY <1>2, <2>2, Zero, WithHolds
    <3>3. /\ w.preRoll = << >> /\ w.pending = q.pending /\ w.events = Append(<< >>, start)
      BY <1>2 DEF With, PipeOf
    <3> QED
      BY <3>1, <3>2, <3>3
  <2> HIDE DEF w
  <2>5. /\ onset \in PipeOf(F) /\ onset.active = TRUE /\ onset.preRoll = << >>
        /\ onset.pending = q.pending /\ onset.events = Append(<< >>, start)
    BY <2>4, ActivatedHolds
  <2>6. Short(onset)
    BY <1>4, <2>5, ShortWhenEmpty
  <2>7. q.preRoll \in Seq(F)
    BY <1>2 DEF PipeOf
  <2>8. /\ e \in PipeOf(F) /\ Short(e) /\ e.active = TRUE /\ e.preRoll = << >>
        /\ e.events = Append(<< >>, start)
    BY <2>1, <2>5, <2>6, <2>7, FeedingHolds
  <2>9. Rolled(e) /\ Rising(e.preRoll) /\ UpToSeq(e.preRoll, f.seq)
    BY <2>8, RolledWhenEmpty, RisingWhenEmpty DEF UpToSeq
  <2>10. DOMAIN e.events = {1} /\ e.events[1].type = "speech.start"
    BY <2>8, OneEvent
  <2>11. Moves(p, e)
    BY <2>8, <2>10 DEF Moves, HasStarted, HasEnded
  <2> QED
    BY <2>8, <2>9, <2>11 DEF Holds, e
<1> QED
  BY <1>5, <1>6

LEMMA VoicedHolds ==
  ASSUME NEW F, F \subseteq Recorded, NEW p \in PipeOf(F), Settled(p), p.active, NEW f \in F
  PROVE  Holds(F, p, f, Voiced(p, f)) /\ Moves(p, Voiced(p, f))
<1> DEFINE q == [p EXCEPT !.silenceMs = 0, !.preRoll = << >>]
           e == Voiced(p, f)
<1>0. /\ p.pending \in Seq(F) /\ p.ready \in Seq(Cut(F))
      /\ p.active \in BOOLEAN /\ p.preRoll \in Seq(F) /\ p.events \in Seq(Event)
      /\ p.voiceMs \in Span
  BY DEF PipeOf, Span
<1>1. << >> \in Seq(F)
  BY EmptySeq
<1>2. q = With(p, p.voiceMs, 0, << >>, p.events)
  <2> HIDE DEF Cut, Event
  <2> QED
    BY DEF PipeOf, With
<1> HIDE DEF q
<1>3. q \in PipeOf(F) /\ q.active = p.active /\ q.preRoll = << >> /\ q.events = p.events
  <2>1. q \in PipeOf(F)
    BY <1>0, <1>1, <1>2, Zero, WithHolds
  <2>2. q.active = p.active /\ q.preRoll = << >> /\ q.events = p.events
    BY DEF q, PipeOf
  <2> QED
    BY <2>1, <2>2
<1>4. e = Feed(q, f)
  BY DEF Voiced, q
<1> HIDE DEF e
<1>5. e \in PipeOf(F) /\ Short(e) /\ e.active = TRUE /\ e.preRoll = << >> /\ e.events = << >>
  BY <1>0, <1>3, <1>4, FeedHolds DEF Settled
<1>6. Rolled(e) /\ Rising(e.preRoll) /\ UpToSeq(e.preRoll, f.seq)
  BY <1>5, RolledWhenEmpty, RisingWhenEmpty DEF UpToSeq
<1>7. Moves(p, e)
  BY <1>5 DEF Moves
<1> QED
  BY <1>5, <1>6, <1>7 DEF Holds, e

LEMMA SilentHolds ==
  ASSUME NEW F, F \subseteq Recorded, NEW p \in PipeOf(F), Settled(p), p.active, NEW f \in F
  PROVE  Holds(F, p, f, Silent(p, f)) /\ Moves(p, Silent(p, f))
<1> DEFINE q == KeepPreRoll(p, f)
           silence == p.silenceMs + Ms(f.dur)
           end == [type |-> "endpoint", seq |-> f.seq]
           over == [q EXCEPT !.active = FALSE, !.silenceMs = 0, !.events = Append(@, end)]
           e == Silent(p, f)
<1>1. e = IF silence < EndSilenceMs THEN [q EXCEPT !.silenceMs = silence] ELSE KeepPreRoll(over, f)
  BY DEF Silent
<1>2. /\ q \in PipeOf(F) /\ Rolled(q) /\ q.active = p.active /\ q.pending = p.pending
      /\ q.ready = p.ready /\ q.events = p.events
      /\ Rising(p.preRoll) /\ UpToSeq(p.preRoll, f.seq)
         => Rising(q.preRoll) /\ UpToSeq(q.preRoll, f.seq)
  BY KeepingHolds
<1>3. silence \in Int /\ end \in Event
  BY DEF Recorded, PipeOf, Ms, Event
<1>4. q.active = TRUE /\ q.ready = << >> /\ q.events = << >> /\ Short(q)
  BY <1>2 DEF Settled, Short
<1> HIDE DEF q, silence, e
<1>5. CASE silence < EndSilenceMs
  <2>1. e = [q EXCEPT !.silenceMs = silence]
    BY <1>1, <1>5
  <2>2. e \in PipeOf(F)
    <3> HIDE DEF Cut, Event
    <3> QED
      BY <1>2, <1>3, <2>1 DEF PipeOf
  <2>3. e.active = TRUE /\ e.pending = q.pending /\ e.events = << >> /\ e.preRoll = q.preRoll
    BY <1>2, <1>4, <2>1 DEF PipeOf
  <2>4. Short(e) /\ Rolled(e)
    BY <1>2, <1>4, <2>3 DEF Short, Rolled
  <2>5. Moves(p, e)
    BY <2>3 DEF Moves
  <2> QED
    BY <1>2, <2>2, <2>3, <2>4, <2>5 DEF Holds, e
<1>6. CASE ~(silence < EndSilenceMs)
  <2>1. e = KeepPreRoll(over, f)
    BY <1>1, <1>6
  <2>2. Append(<< >>, end) \in Seq(Event)
    BY <1>3, EmptySeq, AppendProperties
  <2>3. over = [q EXCEPT !.active = FALSE, !.silenceMs = 0, !.events = Append(<< >>, end)]
    BY <1>4
  <2> HIDE DEF over
  <2> DEFINE w == With(q, q.voiceMs, 0, q.preRoll, Append(<< >>, end))
  <2>4. /\ over = Deactivated(w) /\ w \in PipeOf(F) /\ w.preRoll = q.preRoll
        /\ w.pending = q.pending /\ w.events = Append(<< >>, end) /\ w.ready = q.ready
    <3>1. over = Deactivated(w)
      BY <1>2, <2>3 DEF With, Deactivated, PipeOf
    <3>2. q.voiceMs \in Span /\ q.preRoll \in Seq(F)
      BY <1>2 DEF PipeOf, Span
    <3> HIDE DEF end
    <3>3. w \in PipeOf(F)
      BY <1>2, <2>2, <3>2, Zero, WithHolds
    <3>4. /\ w.preRoll = q.preRoll /\ w.ready = q.ready
          /\ w.pending = q.pending /\ w.events = Append(<< >>, end)
      BY <1>2 DEF With, PipeOf
    <3> QED
      BY <3>1, <3>3, <3>4
  <2> HIDE DEF w
  <2>5. /\ over \in PipeOf(F) /\ over.active = FALSE /\ over.preRoll = q.preRoll
        /\ over.pending = q.pending /\ over.events = Append(<< >>, end) /\ over.ready = << >>
    BY <1>4, <2>4, DeactivatedHolds
  <2>6. /\ e \in PipeOf(F) /\ Rolled(e) /\ e.active = FALSE /\ e.pending = p.pending
        /\ e.ready = << >> /\ e.events = Append(<< >>, end)
        /\ Rising(p.preRoll) /\ UpToSeq(p.preRoll, f.seq)
           => Rising(e.preRoll) /\ UpToSeq(e.preRoll, f.seq)
    BY <1>2, <2>1, <2>5, KeepingHolds
  <2>7. DOMAIN e.events = {1} /\ e.events[1].type = "endpoint"
    BY <2>6, OneEvent
  <2>8. Short(e)
    BY <2>6 DEF Settled, Short
  <2>9. Moves(p, e)
    BY <2>6, <2>7 DEF Moves, HasStarted, HasEnded
  <2> QED
    BY <2>6, <2>8, <2>9 DEF Holds, e
<1> QED
  BY <1>5, <1>6

\* Whatever the frame, the pipeline holds only frames it was given.
LEMMA HysteresisHolds ==
  ASSUME NEW F, F \subseteq Recorded, NEW p \in PipeOf(F), Settled(p), NEW f \in F
  PROVE  Holds(F, p, f, ApplyHysteresis(p, f)) /\ Moves(p, ApplyHysteresis(p, f))
<1>1. p.active \in BOOLEAN /\ f.voiced \in BOOLEAN
  BY DEF PipeOf, Recorded
<1>2. CASE ~p.active
  <2>1. ApplyHysteresis(p, f) = Inactive(p, f)
    BY <1>2 DEF ApplyHysteresis
  <2> QED
    BY <1>2, <2>1, InactiveHolds
<1>3. CASE p.active /\ f.voiced
  <2>1. ApplyHysteresis(p, f) = Voiced(p, f)
    BY <1>3 DEF ApplyHysteresis
  <2> QED
    BY <1>3, <2>1, VoicedHolds
<1>4. CASE p.active /\ ~f.voiced
  <2>1. ApplyHysteresis(p, f) = Silent(p, f)
    BY <1>4 DEF ApplyHysteresis
  <2> QED
    BY <1>4, <2>1, SilentHolds
<1> QED
  BY <1>1, <1>2, <1>3, <1>4

-------------------------------------------------------------------------------
(* The order of what is cut.                                               *)

\* The end of the newest chunk, or where the chunks before it ended.
AppliedOf(ready, base) == IF ready = << >> THEN base ELSE Last(Last(ready)).seq

\* What is cut reaches from base no further than n, and what is pending is
\* not behind it.
Reached(p, base, n) ==
  /\ base <= AppliedOf(p.ready, base) /\ AppliedOf(p.ready, base) <= n
  /\ \A i \in 1..Len(p.pending) : /\ AppliedOf(p.ready, base) <= p.pending[i].seq
                                  /\ p.pending[i].seq <= n

\* Nor is what is kept for a pre-roll behind what is pending.
InOrder(p, base, n) ==
  /\ Reached(p, base, n)
  /\ \A i \in 1..Len(p.preRoll) :
       /\ AppliedOf(p.ready, base) <= p.preRoll[i].seq /\ p.preRoll[i].seq <= n
       /\ \A j \in 1..Len(p.pending) : p.pending[j].seq <= p.preRoll[i].seq

LEMMA AppliedIsNat ==
  ASSUME NEW F, F \subseteq Recorded, NEW ready \in Seq(Cut(F)), NEW base \in Nat
  PROVE  /\ AppliedOf(ready, base) \in Nat
         /\ ready # << >> => /\ Last(Last(ready)) \in F
                             /\ AppliedOf(ready, base) = Last(Last(ready)).seq
<1>1. CASE ready = << >>
  BY <1>1 DEF AppliedOf
<1>2. CASE ready # << >>
  <2>1. Last(ready) \in Cut(F)
    <3>1. Len(ready) \in 1..Len(ready)
      BY <1>2, LenProperties, EmptySeq
    <3> QED
      BY <3>1, ElementOfSeq DEF Last
  <2>2. Last(ready) \in Seq(F) /\ Last(ready) # << >>
    BY <2>1 DEF Cut
  <2> DEFINE c == Last(ready)
  <2> HIDE DEF c
  <2>3. Last(c) \in F
    <3>1. c \in Seq(F) /\ c # << >>
      BY <2>2 DEF c
    <3>2. Len(c) \in 1..Len(c)
      BY <3>1, LenProperties, EmptySeq
    <3> QED
      BY <3>1, <3>2, ElementOfSeq DEF Last
  <2>4. Last(c).seq \in Nat
    BY <2>3 DEF Recorded
  <2> QED
    BY <1>2, <2>3, <2>4 DEF AppliedOf, c
<1> QED
  BY <1>1, <1>2

\* A chunk appended to those that are ready is the newest.
LEMMA AppliedOfLast ==
  ASSUME NEW F, F \subseteq Recorded, NEW ready \in Seq(Cut(F)), NEW c \in Cut(F), NEW base
  PROVE  AppliedOf(Append(ready, c), base) = Last(c).seq
<1>1. /\ Len(Append(ready, c)) = Len(ready) + 1 /\ Len(ready) \in Nat
      /\ Append(ready, c)[Len(ready) + 1] = c
  BY LenProperties, AppendProperties
<1>2. Append(ready, c) # << >>
  BY <1>1
<1> QED
  BY <1>1, <1>2 DEF AppliedOf, Last

\* Everything pending is one chunk.
LEMMA ForceCutHolds ==
  ASSUME NEW F, F \subseteq Recorded, NEW q, q.pending \in Seq(F), NEW base
  PROVE  /\ ForceCut(q) \in Seq(Cut(F))
         /\ AppliedOf(ForceCut(q), base) = IF q.pending = << >> THEN base ELSE Last(q.pending).seq
<1>1. CASE q.pending = << >>
  <2>1. ForceCut(q) = << >>
    BY <1>1 DEF ForceCut
  <2> QED
    BY <1>1, <2>1, EmptySeq DEF AppliedOf
<1>2. CASE q.pending # << >>
  <2>1. ForceCut(q) = << q.pending >> /\ q.pending \in Cut(F)
    BY <1>2 DEF ForceCut, Cut
  <2>2. Append(<< >>, q.pending) = << q.pending >>
    OBVIOUS
  <2>3. << >> \in Seq(Cut(F))
    BY EmptySeq
  <2> HIDE DEF Cut
  <2>4. Append(<< >>, q.pending) \in Seq(Cut(F))
    BY <2>1, <2>3, AppendProperties
  <2>5. AppliedOf(Append(<< >>, q.pending), base) = Last(q.pending).seq
    BY <2>1, <2>3, AppliedOfLast
  <2> QED
    BY <1>2, <2>1, <2>2, <2>4, <2>5
<1> QED
  BY <1>1, <1>2

LEMMA FeedInOrder ==
  ASSUME NEW F, F \subseteq Recorded, NEW p \in PipeOf(F), NEW f \in F, NEW base \in Nat,
         Reached(p, base, f.seq)
  PROVE  Reached(Feed(p, f), base, f.seq)
<1> DEFINE pending == Append(p.pending, f)
           q == Feed(p, f)
           a == AppliedOf(p.ready, base)
<1>1. /\ p.pending \in Seq(F) /\ p.ready \in Seq(Cut(F)) /\ f.seq \in Nat
  BY DEF PipeOf, Recorded
<1>2. a \in Nat
  BY <1>1, AppliedIsNat
<1>3. /\ pending \in Seq(F) /\ pending \in Cut(F) /\ Len(pending) = Len(p.pending) + 1
      /\ Len(p.pending) \in Nat /\ pending[Len(p.pending) + 1] = f
      /\ \A i \in 1..Len(p.pending) : pending[i] = p.pending[i]
  BY <1>1, AppendProperties, LenProperties DEF Cut
<1>4. q = IF Duration(pending) < ChunkMs * 1000
          THEN [p EXCEPT !.pending = pending]
          ELSE [p EXCEPT !.pending = << >>, !.ready = Append(@, pending)]
  BY DEF Feed
<1>5. base <= a /\ a <= f.seq /\ \A i \in 1..Len(p.pending) : a <= p.pending[i].seq /\ p.pending[i].seq <= f.seq
  BY DEF Reached
<1> HIDE DEF pending, q, a
<1>6. CASE Duration(pending) < ChunkMs * 1000
  <2>1. q.ready = p.ready /\ q.pending = pending
    BY <1>4, <1>6 DEF PipeOf
  <2>2. \A i \in 1..Len(pending) : a <= pending[i].seq /\ pending[i].seq <= f.seq
    <3> SUFFICES ASSUME NEW i \in 1..Len(pending)
                 PROVE  a <= pending[i].seq /\ pending[i].seq <= f.seq
      OBVIOUS
    <3>1. CASE i = Len(p.pending) + 1
      BY <1>1, <1>3, <1>5, <3>1
    <3>2. CASE i # Len(p.pending) + 1
      <4>1. i \in 1..Len(p.pending)
        BY <1>3, <3>2
      <4> QED
        BY <1>3, <1>5, <4>1
    <3> QED
      BY <3>1, <3>2
  <2>3. AppliedOf(q.ready, base) = a
    BY <2>1 DEF a
  <2> QED
    BY <1>5, <2>1, <2>2, <2>3 DEF Reached, q
<1>7. CASE ~(Duration(pending) < ChunkMs * 1000)
  <2>1. q.ready = Append(p.ready, pending) /\ q.pending = << >>
    BY <1>4, <1>7 DEF PipeOf
  <2>2. AppliedOf(q.ready, base) = Last(pending).seq
    BY <1>1, <1>3, <2>1, AppliedOfLast
  <2>3. Last(pending) = f
    BY <1>3 DEF Last
  <2>4. base <= f.seq
    BY <1>1, <1>2, <1>5
  <2>5. 1..Len(q.pending) = {}
    BY <2>1
  <2>6. f.seq <= f.seq
    BY <1>1
  <2> QED
    BY <2>2, <2>3, <2>4, <2>5, <2>6 DEF Reached, q
<1> QED
  BY <1>6, <1>7

\* Reaching a frame is reaching every later one.
LEMMA ReachesLater ==
  ASSUME NEW F, F \subseteq Recorded, NEW p \in PipeOf(F), NEW base \in Nat,
         NEW m \in Nat, NEW n \in Nat, m <= n, Reached(p, base, m)
  PROVE  Reached(p, base, n)
<1>1. /\ p.pending \in Seq(F) /\ p.ready \in Seq(Cut(F))
  BY DEF PipeOf
<1>2. AppliedOf(p.ready, base) \in Nat
  BY <1>1, AppliedIsNat
<1>3. \A i \in 1..Len(p.pending) : p.pending[i].seq \in Nat
  BY <1>1, ElementOfSeq DEF Recorded
<1> QED
  BY <1>2, <1>3 DEF Reached

LEMMA InOrderLater ==
  ASSUME NEW F, F \subseteq Recorded, NEW p \in PipeOf(F), NEW base \in Nat,
         NEW m \in Nat, NEW n \in Nat, m <= n, InOrder(p, base, m)
  PROVE  InOrder(p, base, n)
<1>1. p.preRoll \in Seq(F)
  BY DEF PipeOf
<1>2. \A i \in 1..Len(p.preRoll) : p.preRoll[i].seq \in Nat /\ p.preRoll[i].seq <= m
  BY <1>1, ElementOfSeq DEF Recorded, InOrder
<1>3. \A i \in 1..Len(p.preRoll) : p.preRoll[i].seq <= n
  BY <1>2
<1>4. Reached(p, base, n)
  BY ReachesLater DEF InOrder
<1> QED
  BY <1>3, <1>4 DEF InOrder

LEMMA FeedingInOrder ==
  ASSUME NEW F, F \subseteq Recorded, NEW p \in PipeOf(F), Short(p), NEW s \in Seq(F), NEW base \in Nat,
         NEW m \in Nat, NEW n \in Nat, m <= n, Reached(p, base, m),
         Rising(s), UpToSeq(s, n), \A i \in 1..Len(s) : m <= s[i].seq
  PROVE  Reached(Fed(p, s), base, n)
<1> DEFINE At(k) == IF k = 0 THEN m ELSE s[k].seq
           Kept(q, k) == q \in PipeOf(F) /\ Reached(q, base, At(k))
<1>1. PICK g : /\ Fed(p, s) = g[Len(s)] /\ g[0] = p
               /\ \A k \in 1..Len(s) : g[k] = Feed(g[k - 1], s[k])
  BY FeedingInTurn
<1>2. Len(s) \in Nat /\ \A i \in 1..Len(s) : s[i] \in F /\ s[i].seq \in Nat
  BY LenProperties, ElementOfSeq DEF Recorded
<1>3. \A k \in 0..Len(s) : At(k) \in Nat /\ At(k) <= n
  BY <1>2 DEF UpToSeq
<1>4. \A k \in 0..(Len(s) - 1) : At(k) <= At(k + 1)
  <2> SUFFICES ASSUME NEW k \in 0..(Len(s) - 1) PROVE At(k) <= At(k + 1)
    OBVIOUS
  <2>1. CASE k = 0
    BY <1>2, <2>1
  <2>2. CASE k # 0
    <3>1. k \in 1..Len(s) /\ k + 1 \in 1..Len(s) /\ k <= k + 1 /\ k + 1 # 0
      BY <1>2, <2>2
    <3>2. s[k].seq <= s[k + 1].seq
      BY <3>1 DEF Rising
    <3> QED
      BY <2>2, <3>1, <3>2
  <2> QED
    BY <2>1, <2>2
<1> DEFINE T == {k \in 0..Len(s) : Kept(g[k], k)}
<1>5. 0 \in T
  BY <1>1, <1>2
<1>6. ASSUME NEW k \in 0..(Len(s) - 1), k \in T PROVE k + 1 \in T
  <2>1. k + 1 \in 1..Len(s) /\ (k + 1) - 1 = k /\ k + 1 \in 0..Len(s) /\ k \in 0..Len(s) /\ k + 1 # 0
    BY <1>2
  <2>2. g[k + 1] = Feed(g[k], s[k + 1]) /\ s[k + 1] \in F /\ Kept(g[k], k)
    BY <1>1, <1>2, <1>6, <2>1
  <2>3. At(k) \in Nat /\ At(k + 1) \in Nat /\ At(k) <= At(k + 1) /\ At(k + 1) = s[k + 1].seq
    BY <1>3, <1>4, <2>1
  <2> HIDE DEF At
  <2>4. Reached(g[k], base, At(k + 1))
    BY <2>2, <2>3, ReachesLater
  <2>5. Reached(g[k + 1], base, At(k + 1))
    BY <2>2, <2>3, <2>4, FeedInOrder
  <2>6. g[k + 1] \in PipeOf(F)
    BY <2>2, FeedHolds
  <2> QED
    BY <2>1, <2>5, <2>6
<1> HIDE DEF T
<1>7. \A k \in 0..Len(s) : k \in T
  BY <1>2, <1>5, <1>6, BoundedInduction
<1>8. Len(s) \in T /\ Len(s) \in 0..Len(s)
  BY <1>2, <1>7
<1>9. Kept(g[Len(s)], Len(s))
  BY <1>8 DEF T
<1>10. At(Len(s)) \in Nat /\ At(Len(s)) <= n
  BY <1>3, <1>8
<1> HIDE DEF At
<1>11. Reached(g[Len(s)], base, n)
  BY <1>9, <1>10, ReachesLater
<1> QED
  BY <1>1, <1>11

\* What is kept for a pre-roll is what was, and the frame.
LEMMA KeepingAmong ==
  ASSUME NEW F, F \subseteq Recorded, NEW p \in PipeOf(F), NEW f \in F,
         NEW G, p.preRoll \in Seq(G), f \in G
  PROVE  KeepPreRoll(p, f).preRoll \in Seq(G)
<1> DEFINE kept == Append(p.preRoll, f)
           n == Len(kept)
           fits == {k \in 1..n + 1 : Duration(SubSeq(kept, k, n)) <= PreRollMs * 1000}
           m == Min(fits)
<1>1. kept \in Seq(G) /\ n \in Nat
  BY AppendProperties, LenProperties
<1>2. m \in 1..n + 1
  BY KeptFrom
<1>3. KeepPreRoll(p, f).preRoll = SubSeq(kept, m, n)
  BY DEF KeepPreRoll, PipeOf
<1> HIDE DEF m, kept
<1>4. \A i \in m..n : kept[i] \in G
  <2>1. \A i \in m..n : i \in 1..Len(kept)
    BY <1>1, <1>2
  <2> QED
    BY <1>1, <2>1, ElementOfSeq
<1>5. m \in Int /\ n \in Int
  BY <1>1, <1>2
<1> HIDE DEF n
<1> QED
  BY <1>3, <1>4, <1>5, SubSeqProperties

LEMMA AmongHolds ==
  ASSUME NEW F, F \subseteq Recorded, NEW s \in Seq(F), NEW G
  PROVE  s \in Seq(G) <=> \A i \in 1..Len(s) : s[i] \in G
<1>1. s \in Seq(G) => \A i \in 1..Len(s) : s[i] \in G
  BY ElementOfSeq
<1>2. (\A i \in 1..Len(s) : s[i] \in G) => s \in Seq(G)
  BY IsASeq, LenProperties
<1> QED
  BY <1>1, <1>2

LEMMA ReachedByNothing ==
  ASSUME NEW p, NEW base \in Nat, p.ready = << >>, p.pending = << >>
  PROVE  AppliedOf(p.ready, base) = base /\ Reached(p, base, base)
<1>1. 1..Len(p.pending) = {}
  BY DEF AppliedOf
<1> QED
  BY <1>1 DEF Reached, AppliedOf

\* No frame is cut, or left pending, before an older one.
LEMMA FrameInOrder ==
  ASSUME NEW F, F \subseteq Recorded, NEW p \in PipeOf(F), Settled(p), NEW f \in F,
         NEW base \in Nat, InOrder(p, base, f.seq), Rising(p.preRoll)
  PROVE  InOrder(ApplyHysteresis(p, f), base, f.seq)
<1> DEFINE n == f.seq
           k == KeepPreRoll(p, f)
           G == {r \in F : /\ base <= r.seq /\ r.seq <= n
                           /\ \A j \in 1..Len(p.pending) : p.pending[j].seq <= r.seq}
<1>1. /\ p.active \in BOOLEAN /\ f.voiced \in BOOLEAN /\ n \in Nat /\ f.dur \in Nat
      /\ p.pending \in Seq(F) /\ p.ready = << >> /\ p.preRoll \in Seq(F)
  BY DEF PipeOf, Recorded, Settled
<1>2. /\ AppliedOf(p.ready, base) = base /\ base <= n
      /\ \A j \in 1..Len(p.pending) : base <= p.pending[j].seq /\ p.pending[j].seq <= n
  BY <1>1 DEF InOrder, Reached, AppliedOf
<1>3. p.preRoll \in Seq(G) /\ f \in G
  <2>1. \A i \in 1..Len(p.preRoll) : p.preRoll[i] \in F
    BY <1>1, ElementOfSeq
  <2>2. \A i \in 1..Len(p.preRoll) : p.preRoll[i] \in G
    BY <1>2, <2>1 DEF InOrder
  <2>3. f \in G
    BY <1>1, <1>2
  <2> HIDE DEF G
  <2> QED
    BY <1>1, <2>2, <2>3, AmongHolds
<1>4. k.preRoll \in Seq(G)
  BY <1>3, KeepingAmong
<1>5. UpToSeq(p.preRoll, n)
  BY DEF InOrder, UpToSeq
<1>6. /\ k \in PipeOf(F) /\ k.active = p.active /\ k.pending = p.pending
      /\ k.ready = p.ready /\ Rising(k.preRoll) /\ UpToSeq(k.preRoll, n)
  BY <1>5, KeepingHolds
<1>7. ASSUME NEW q, q.ready = p.ready, q.pending = p.pending, q.preRoll \in Seq(G)
      PROVE  InOrder(q, base, n)
  <2>1. \A i \in 1..Len(q.preRoll) : q.preRoll[i] \in G
    BY <1>7, ElementOfSeq
  <2>2. Reached(q, base, n)
    BY <1>7 DEF InOrder, Reached
  <2> QED
    BY <1>2, <1>7, <2>1, <2>2 DEF InOrder
<1>8. ASSUME NEW q, q.preRoll = << >>, Reached(q, base, n)
      PROVE  InOrder(q, base, n)
  <2>1. 1..Len(q.preRoll) = {}
    BY <1>8
  <2> QED
    BY <1>8, <2>1 DEF InOrder
<1>9. CASE ~p.active
  <2> DEFINE voice == IF f.voiced THEN p.voiceMs + Ms(f.dur) ELSE 0
             start == [type |-> "speech.start", seq |-> f.seq]
             onset == [k EXCEPT !.active = TRUE, !.voiceMs = 0, !.silenceMs = 0,
                                !.preRoll = << >>, !.events = Append(@, start)]
             e == ApplyHysteresis(p, f)
  <2>1. e = IF voice < StartSpeechMs THEN [k EXCEPT !.voiceMs = voice] ELSE Fed(onset, k.preRoll)
    BY <1>9 DEF ApplyHysteresis, Inactive, Fed
  <2>2. CASE voice < StartSpeechMs
    <3>1. e = [k EXCEPT !.voiceMs = voice]
      BY <2>1, <2>2
    <3> HIDE DEF e, k, voice
    <3>2. e.ready = p.ready /\ e.pending = p.pending /\ e.preRoll = k.preRoll
      BY <1>6, <3>1 DEF PipeOf
    <3>3. InOrder(e, base, n)
      BY <1>4, <1>7, <3>2
    <3> QED
      BY <3>3 DEF e
  <2>3. CASE ~(voice < StartSpeechMs)
    <3>1. e = Fed(onset, k.preRoll)
      BY <2>1, <2>3
    <3>2. e = Inactive(p, f) /\ Moves(p, Inactive(p, f))
      BY <1>1, <1>9, InactiveHolds DEF ApplyHysteresis
    <3> HIDE DEF k, voice
    <3>3. k.active = FALSE /\ k.events \in Seq(Event) /\ k.preRoll \in Seq(F)
      BY <1>6, <1>9, <1>1 DEF PipeOf
    <3>4. start \in Event
      BY <1>1 DEF Event
    <3>5. << >> \in Seq(F) /\ Append(k.events, start) \in Seq(Event)
      BY <3>3, <3>4, EmptySeq, AppendProperties
    <3> DEFINE w == With(k, 0, 0, << >>, Append(k.events, start))
    <3>6. onset = Activated(w)
      BY <1>6 DEF With, Activated, PipeOf
    <3>7. w \in PipeOf(F)
      BY <1>6, <3>5, Zero, WithHolds
    <3>8. w.preRoll = << >> /\ w.pending = k.pending /\ w.ready = k.ready
      BY <1>6 DEF With, PipeOf
    <3> HIDE DEF w, onset, start
    <3>9. /\ onset \in PipeOf(F) /\ onset.preRoll = << >>
          /\ onset.pending = k.pending /\ onset.ready = k.ready
      BY <3>6, <3>7, <3>8, ActivatedHolds
    <3>10. onset.pending = << >> /\ onset.ready = << >>
      BY <1>1, <1>6, <1>9, <3>9 DEF Settled
    <3>11. Reached(onset, base, base) /\ Short(onset)
      BY <3>10, ReachedByNothing, ShortWhenEmpty
    <3>12. \A i \in 1..Len(k.preRoll) : base <= k.preRoll[i].seq
      BY <1>4, ElementOfSeq
    <3>13. Reached(e, base, n)
      BY <1>1, <1>2, <1>6, <3>1, <3>3, <3>9, <3>11, <3>12, FeedingInOrder
    <3>14. e.preRoll = << >>
      BY <3>1, <3>3, <3>9, <3>11, FeedingHolds
    <3> QED
      BY <1>8, <3>13, <3>14
  <2> QED
    BY <2>2, <2>3
<1>10. CASE p.active /\ f.voiced
  <2> DEFINE q == [p EXCEPT !.silenceMs = 0, !.preRoll = << >>]
             e == ApplyHysteresis(p, f)
  <2>1. e = Feed(q, f) /\ e = Voiced(p, f)
    BY <1>10 DEF ApplyHysteresis, Voiced
  <2>2. << >> \in Seq(F) /\ p.voiceMs \in Span /\ p.events \in Seq(Event)
    BY EmptySeq DEF PipeOf, Span
  <2>3. q = With(p, p.voiceMs, 0, << >>, p.events)
    <3> HIDE DEF Event
    <3> QED
      BY DEF PipeOf, With
  <2>4. q.ready = p.ready /\ q.pending = p.pending /\ q.preRoll = << >>
    BY DEF PipeOf
  <2> HIDE DEF q, e
  <2>5. q \in PipeOf(F)
    BY <2>2, <2>3, Zero, WithHolds
  <2>6. Reached(q, base, n)
    BY <2>4 DEF InOrder, Reached
  <2>7. Reached(e, base, n)
    BY <2>1, <2>5, <2>6, FeedInOrder
  <2>8. e.preRoll = << >>
    <3>1. Feed(q, f).preRoll = q.preRoll
      BY <2>5, FeedHolds
    <3> QED
      BY <2>1, <2>4, <3>1, Zenon
  <2>9. InOrder(e, base, n)
    BY <1>8, <2>7, <2>8
  <2> QED
    BY <2>9 DEF e
<1>11. CASE p.active /\ ~f.voiced
  <2> DEFINE silence == p.silenceMs + Ms(f.dur)
             end == [type |-> "endpoint", seq |-> f.seq]
             over == [k EXCEPT !.active = FALSE, !.silenceMs = 0, !.events = Append(@, end)]
             e == ApplyHysteresis(p, f)
  <2>1. e = IF silence < EndSilenceMs THEN [k EXCEPT !.silenceMs = silence] ELSE KeepPreRoll(over, f)
    BY <1>11 DEF ApplyHysteresis, Silent
  <2> HIDE DEF e, k, silence
  <2>2. CASE silence < EndSilenceMs
    <3>1. e = [k EXCEPT !.silenceMs = silence]
      BY <2>1, <2>2
    <3>2. e.ready = p.ready /\ e.pending = p.pending /\ e.preRoll = k.preRoll
      BY <1>6, <3>1 DEF PipeOf
    <3>3. InOrder(e, base, n)
      BY <1>4, <1>7, <3>2
    <3> QED
      BY <3>3 DEF e
  <2>3. CASE ~(silence < EndSilenceMs)
    <3>1. e = KeepPreRoll(over, f)
      BY <2>1, <2>3
    <3>2. k.events \in Seq(Event) /\ k.voiceMs \in Span /\ k.preRoll \in Seq(F)
      BY <1>6 DEF PipeOf, Span
    <3>3. end \in Event
      BY <1>1 DEF Event
    <3>4. Append(k.events, end) \in Seq(Event)
      BY <3>2, <3>3, AppendProperties
    <3> DEFINE w == With(k, k.voiceMs, 0, k.preRoll, Append(k.events, end))
    <3>5. over = Deactivated(w)
      BY <1>6 DEF With, Deactivated, PipeOf
    <3>6. w \in PipeOf(F)
      BY <1>6, <3>2, <3>4, Zero, WithHolds
    <3>7. w.preRoll = k.preRoll /\ w.pending = k.pending /\ w.ready = k.ready
      BY <1>6 DEF With, PipeOf
    <3> HIDE DEF w, over, end
    <3>8. /\ over \in PipeOf(F) /\ over.preRoll = k.preRoll
          /\ over.pending = p.pending /\ over.ready = p.ready
      BY <1>6, <3>5, <3>6, <3>7, DeactivatedHolds
    <3>9. e.ready = p.ready /\ e.pending = p.pending
      BY <3>1, <3>8, KeepingHolds
    <3>10. e.preRoll \in Seq(G)
      BY <1>3, <1>4, <3>1, <3>8, KeepingAmong
    <3>11. InOrder(e, base, n)
      BY <1>7, <3>9, <3>10
    <3> QED
      BY <3>11 DEF e
  <2> QED
    BY <2>2, <2>3
<1> QED
  BY <1>1, <1>9, <1>10, <1>11

\* A frame is fed to the pass-through pipeline; nothing else changes.
LEMMA PassHolds ==
  ASSUME NEW F, F \subseteq Recorded, NEW p \in PipeOf(F), NEW f \in F, NEW base \in Nat,
         p.ready = << >>, p.events = << >>, p.preRoll = << >>, Rolled(p), InOrder(p, base, f.seq)
  PROVE  LET q == Feed(p, f)
         IN  /\ q \in PipeOf(F) /\ Short(q) /\ Rolled(q) /\ InOrder(q, base, f.seq)
             /\ q.events = << >> /\ q.preRoll = << >>
<1> DEFINE q == Feed(p, f)
<1>1. /\ q \in PipeOf(F) /\ Short(q) /\ q.preRoll = p.preRoll /\ q.events = p.events
  BY FeedHolds
<1>2. Reached(p, base, f.seq)
  BY DEF InOrder
<1>3. Reached(q, base, f.seq)
  BY <1>2, FeedInOrder
<1> HIDE DEF q
<1>4. q.preRoll = << >> /\ 1..Len(q.preRoll) = {} /\ q.events = << >>
  BY <1>1
<1>5. Rolled(q) /\ InOrder(q, base, f.seq)
  BY <1>3, <1>4, RolledWhenEmpty DEF InOrder
<1> QED
  BY <1>1, <1>4, <1>5 DEF q

LEMMA SeqGrows ==
  ASSUME NEW F, NEW G, F \subseteq G
  PROVE  \A s \in Seq(F) : s \in Seq(G)
<1> SUFFICES ASSUME NEW s \in Seq(F) PROVE s \in Seq(G)
  OBVIOUS
<1>1. \A i \in 1..Len(s) : s[i] \in G
  BY ElementOfSeq
<1> QED
  BY <1>1, IsASeq, LenProperties

\* A pipeline's frames are among more frames.
LEMMA PipeGrows ==
  ASSUME NEW F, NEW G, F \subseteq G, NEW p \in PipeOf(F)
  PROVE  p \in PipeOf(G)
<1>1. p.preRoll \in Seq(F) /\ p.pending \in Seq(F) /\ p.ready \in Seq(Cut(F))
  BY DEF PipeOf
<1>2. Cut(F) \subseteq Cut(G)
  BY SeqGrows DEF Cut
<1>3. p.preRoll \in Seq(G) /\ p.pending \in Seq(G)
  BY <1>1, SeqGrows
<1>4. p.ready \in Seq(Cut(G))
  BY <1>1, <1>2, SeqGrows
<1> HIDE DEF Cut, Event
<1> QED
  BY <1>3, <1>4 DEF PipeOf

\* The pipeline once its queues were drained.
LEMMA DrainedHolds ==
  ASSUME NEW F, NEW q \in PipeOf(F)
  PROVE  LET d == Drained(q)
         IN  /\ d \in PipeOf(F) /\ d.ready = << >> /\ d.events = << >>
             /\ d.active = q.active /\ d.pending = q.pending /\ d.preRoll = q.preRoll
<1> DEFINE d == Drained(q)
<1>1. << >> \in Seq(Cut(F)) /\ << >> \in Seq(Event)
  BY EmptySeq
<1>2. d = [q EXCEPT !.ready = << >>, !.events = << >>]
  BY DEF Drained
<1> HIDE DEF Cut, Event, d
<1>3. d \in PipeOf(F)
  BY <1>1, <1>2 DEF PipeOf
<1>4. /\ d.ready = << >> /\ d.events = << >>
      /\ d.active = q.active /\ d.pending = q.pending /\ d.preRoll = q.preRoll
  BY <1>2 DEF PipeOf
<1> QED
  BY <1>3, <1>4 DEF d

\* The pipeline once its tail was cut.
LEMMA AfterForceCutHolds ==
  ASSUME NEW F, NEW q \in PipeOf(F)
  PROVE  LET d == AfterForceCut(q)
         IN  /\ d \in PipeOf(F) /\ d.pending = << >>
             /\ d.active = q.active /\ d.ready = q.ready /\ d.events = q.events
             /\ d.preRoll = q.preRoll
<1> DEFINE d == AfterForceCut(q)
<1>1. << >> \in Seq(F)
  BY EmptySeq
<1>2. d = [q EXCEPT !.pending = << >>]
  BY DEF AfterForceCut
<1> HIDE DEF Cut, Event, d
<1>3. d \in PipeOf(F)
  BY <1>1, <1>2 DEF PipeOf
<1>4. /\ d.pending = << >> /\ d.active = q.active /\ d.ready = q.ready
      /\ d.events = q.events /\ d.preRoll = q.preRoll
  BY <1>2 DEF PipeOf
<1> QED
  BY <1>3, <1>4 DEF d

-------------------------------------------------------------------------------
(* Chunks one after the other.                                             *)

FlatOf(s, n, before) == IF n = 1 THEN s[n] ELSE before \o s[n]

FlatBy(s, f) == f = [n \in 1..Len(s) |-> FlatOf(s, n, f[n - 1])]

LEMMA FlatExists ==
  ASSUME NEW A, NEW s \in Seq(A)
  PROVE  \E f : FlatBy(s, f)
<1> DEFINE T == {m \in 0..Len(s) : \E f : f = [n \in 1..m |-> FlatOf(s, n, f[n - 1])]}
<1>1. Len(s) \in Nat
  BY LenProperties
<1>2. 0 \in T
  <2> DEFINE f == [n \in 1..0 |-> << >>]
  <2>1. f = [n \in 1..0 |-> FlatOf(s, n, f[n - 1])]
    OBVIOUS
  <2>2. \E h : h = [n \in 1..0 |-> FlatOf(s, n, h[n - 1])]
    BY <2>1, Zenon
  <2>3. 0 \in 0..Len(s)
    BY <1>1
  <2> QED
    BY <2>2, <2>3, Zenon
<1>3. ASSUME NEW m \in 0..(Len(s) - 1), m \in T PROVE m + 1 \in T
  <2>1. PICK f : f = [n \in 1..m |-> FlatOf(s, n, f[n - 1])]
    BY <1>3
  <2> DEFINE g == [n \in 1..(m + 1) |->
                     IF n = m + 1 THEN FlatOf(s, n, f[n - 1]) ELSE f[n]]
  <2>2. ASSUME NEW n \in 1..(m + 1) PROVE g[n] = FlatOf(s, n, g[n - 1])
    <3>1. CASE n = 1
      <4>1. \A x, y : FlatOf(s, n, x) = FlatOf(s, n, y)
        BY <3>1 DEF FlatOf
      <4>2. CASE m = 0
        <5>1. g[n] = FlatOf(s, n, f[n - 1])
          BY <3>1, <4>2
        <5> HIDE DEF g
        <5> QED
          BY <4>1, <5>1
      <4>3. CASE m # 0
        <5>1. g[n] = f[n] /\ f[n] = FlatOf(s, n, f[n - 1])
          BY <1>1, <2>1, <3>1, <4>3
        <5> HIDE DEF g
        <5> QED
          BY <4>1, <5>1
      <4> QED
        BY <4>2, <4>3
    <3>2. CASE n = m + 1 /\ n # 1
      <4>1. n - 1 \in 1..m /\ n - 1 # m + 1 /\ n - 1 \in 1..(m + 1)
        BY <1>1, <3>2
      <4>2. g[n - 1] = f[n - 1] /\ g[n] = FlatOf(s, n, f[n - 1])
        BY <3>2, <4>1
      <4> QED
        BY <4>2
    <3>3. CASE n \in 2..m
      <4>1. n - 1 \in 1..m /\ g[n - 1] = f[n - 1] /\ g[n] = f[n]
        BY <1>1, <3>3
      <4>2. f[n] = FlatOf(s, n, f[n - 1])
        BY <2>1, <3>3
      <4> QED
        BY <4>1, <4>2
    <3> QED
      BY <3>1, <3>2, <3>3
  <2>3. g = [n \in 1..(m + 1) |-> g[n]]
    OBVIOUS
  <2> HIDE DEF g
  <2>4. g = [n \in 1..(m + 1) |-> FlatOf(s, n, g[n - 1])]
    BY <2>2, <2>3
  <2>5. m + 1 \in 0..Len(s)
    BY <1>1
  <2> QED
    BY <2>4, <2>5, Zenon
<1> HIDE DEF T
<1>4. \A m \in 0..Len(s) : m \in T
  BY <1>1, <1>2, <1>3, BoundedInduction
<1>5. Len(s) \in T
  BY <1>1, <1>4
<1> QED
  BY <1>5, Zenon DEF T, FlatBy

LEMMA FlatHolds ==
  ASSUME NEW F, NEW s \in Seq(Seq(F))
  PROVE  FlattenSeq(s) \in Seq(F)
<1> DEFINE f == CHOOSE f : FlatBy(s, f)
<1>1. Len(s) \in Nat /\ \A i \in 1..Len(s) : s[i] \in Seq(F)
  BY LenProperties, ElementOfSeq
<1>2. CASE Len(s) = 0
  <2>1. s = << >>
    BY <1>2, EmptySeq
  <2>2. FlattenSeq(s) = << >>
    BY <1>2, <2>1 DEF FlattenSeq
  <2> QED
    BY <2>2, EmptySeq
<1>3. CASE Len(s) # 0
  <2>1. FlattenSeq(s) = f[Len(s)]
    BY <1>3 DEF FlattenSeq, FlatBy, FlatOf
  <2>2. \E h : FlatBy(s, h)
    BY FlatExists
  <2>3. FlatBy(s, f)
    BY <2>2, Zenon
  <2> HIDE DEF f
  <2>4. \A n \in 1..Len(s) : f[n] = FlatOf(s, n, f[n - 1])
    BY <2>3 DEF FlatBy
  <2> DEFINE T == {n \in 0..Len(s) : n # 0 => f[n] \in Seq(F)}
  <2>5. 0 \in T
    BY <1>1
  <2>6. ASSUME NEW n \in 0..(Len(s) - 1), n \in T PROVE n + 1 \in T
    <3>1. n + 1 \in 1..Len(s) /\ n + 1 \in 0..Len(s) /\ (n + 1) - 1 = n
      BY <1>1
    <3>2. f[n + 1] = FlatOf(s, n + 1, f[n]) /\ s[n + 1] \in Seq(F)
      BY <1>1, <2>4, <3>1
    <3>3. CASE n = 0
      <4>1. f[n + 1] = s[n + 1]
        BY <3>2, <3>3 DEF FlatOf
      <4> QED
        BY <3>1, <3>2, <4>1
    <3>4. CASE n # 0
      <4>1. f[n] \in Seq(F) /\ n + 1 # 1
        BY <1>1, <2>6, <3>4
      <4>2. f[n + 1] = f[n] \o s[n + 1]
        BY <3>2, <4>1 DEF FlatOf
      <4>3. f[n + 1] \in Seq(F)
        BY <3>2, <4>1, <4>2, ConcatProperties
      <4> QED
        BY <3>1, <4>3
    <3> QED
      BY <3>3, <3>4
  <2> HIDE DEF T
  <2>7. \A n \in 0..Len(s) : n \in T
    BY <1>1, <2>5, <2>6, BoundedInduction
  <2>8. Len(s) \in T
    BY <1>1, <2>7
  <2> QED
    BY <1>3, <2>1, <2>8 DEF T
<1> QED
  BY <1>2, <1>3

-------------------------------------------------------------------------------
(* A frame on a pipeline that need not be drained.                         *)

\* What a frame leaves, of a pipeline whose frames are of F.
Stays(F, p, f, q) ==
  /\ q \in PipeOf(F) /\ Short(q)
  /\ Rising(p.preRoll) /\ UpToSeq(p.preRoll, f.seq)
     => Rising(q.preRoll) /\ UpToSeq(q.preRoll, f.seq)

LEMMA InactiveStays ==
  ASSUME NEW F, F \subseteq Recorded, NEW p \in PipeOf(F), Short(p), NEW f \in F
  PROVE  Stays(F, p, f, Inactive(p, f))
<1> DEFINE q == KeepPreRoll(p, f)
           voice == IF f.voiced THEN p.voiceMs + Ms(f.dur) ELSE 0
           start == [type |-> "speech.start", seq |-> f.seq]
           onset == [q EXCEPT !.active = TRUE, !.voiceMs = 0, !.silenceMs = 0,
                              !.preRoll = << >>, !.events = Append(@, start)]
           e == Inactive(p, f)
<1>1. e = IF voice < StartSpeechMs THEN [q EXCEPT !.voiceMs = voice] ELSE Fed(onset, q.preRoll)
  BY DEF Inactive, Fed
<1>2. /\ q \in PipeOf(F) /\ q.pending = p.pending
      /\ Rising(p.preRoll) /\ UpToSeq(p.preRoll, f.seq)
         => Rising(q.preRoll) /\ UpToSeq(q.preRoll, f.seq)
  BY KeepingHolds
<1>3. voice \in Int /\ start \in Event
  BY DEF Recorded, PipeOf, Ms, Event
<1>4. Short(q) /\ q.preRoll \in Seq(F) /\ q.events \in Seq(Event)
  BY <1>2 DEF Short, PipeOf
<1> HIDE DEF q, voice, e
<1>5. CASE voice < StartSpeechMs
  <2>1. e = [q EXCEPT !.voiceMs = voice]
    BY <1>1, <1>5
  <2>2. e \in PipeOf(F)
    <3> HIDE DEF Cut, Event
    <3> QED
      BY <1>2, <1>3, <2>1 DEF PipeOf
  <2>3. e.preRoll = q.preRoll /\ e.pending = q.pending
    BY <1>2, <2>1 DEF PipeOf
  <2> QED
    BY <1>2, <1>4, <2>2, <2>3 DEF Stays, Short, e
<1>6. CASE ~(voice < StartSpeechMs)
  <2>1. e = Fed(onset, q.preRoll)
    BY <1>1, <1>6
  <2>2. << >> \in Seq(F) /\ Append(q.events, start) \in Seq(Event)
    BY <1>3, <1>4, EmptySeq, AppendProperties
  <2>3. onset = [q EXCEPT !.active = TRUE, !.voiceMs = 0, !.silenceMs = 0,
                          !.preRoll = << >>, !.events = Append(q.events, start)]
    OBVIOUS
  <2> HIDE DEF onset
  <2> DEFINE w == With(q, 0, 0, << >>, Append(q.events, start))
  <2>4. onset = Activated(w) /\ w \in PipeOf(F) /\ w.pending = q.pending /\ w.preRoll = << >>
    <3>1. onset = Activated(w)
      BY <1>2, <2>3 DEF With, Activated, PipeOf
    <3> HIDE DEF start
    <3>2. w \in PipeOf(F)
      BY <1>2, <2>2, Zero, WithHolds
    <3>3. w.pending = q.pending /\ w.preRoll = << >>
      BY <1>2 DEF With, PipeOf
    <3> QED
      BY <3>1, <3>2, <3>3
  <2> HIDE DEF w
  <2>5. onset \in PipeOf(F) /\ onset.pending = q.pending /\ onset.preRoll = << >>
    BY <2>4, ActivatedHolds
  <2>6. Short(onset)
    BY <1>4, <2>5 DEF Short
  <2>7. e \in PipeOf(F) /\ Short(e) /\ e.preRoll = << >>
    BY <1>4, <2>1, <2>5, <2>6, FeedingHolds
  <2>8. Rising(e.preRoll) /\ UpToSeq(e.preRoll, f.seq)
    BY <2>7, RisingWhenEmpty DEF UpToSeq
  <2> QED
    BY <2>7, <2>8 DEF Stays, e
<1> QED
  BY <1>5, <1>6

LEMMA VoicedStays ==
  ASSUME NEW F, F \subseteq Recorded, NEW p \in PipeOf(F), NEW f \in F
  PROVE  Stays(F, p, f, Voiced(p, f))
<1> DEFINE q == [p EXCEPT !.silenceMs = 0, !.preRoll = << >>]
           e == Voiced(p, f)
<1>0. p.events \in Seq(Event) /\ p.voiceMs \in Span
  BY DEF PipeOf, Span
<1>1. << >> \in Seq(F)
  BY EmptySeq
<1>2. q = With(p, p.voiceMs, 0, << >>, p.events)
  <2> HIDE DEF Cut, Event
  <2> QED
    BY DEF PipeOf, With
<1> HIDE DEF q
<1>3. q \in PipeOf(F) /\ q.preRoll = << >>
  <2>1. q \in PipeOf(F)
    BY <1>0, <1>1, <1>2, Zero, WithHolds
  <2> QED
    BY <2>1 DEF q, PipeOf
<1>4. e = Feed(q, f)
  BY DEF Voiced, q
<1> HIDE DEF e
<1>5. e \in PipeOf(F) /\ Short(e) /\ e.preRoll = << >>
  BY <1>3, <1>4, FeedHolds
<1>6. Rising(e.preRoll) /\ UpToSeq(e.preRoll, f.seq)
  BY <1>5, RisingWhenEmpty DEF UpToSeq
<1> QED
  BY <1>5, <1>6 DEF Stays, e

LEMMA SilentStays ==
  ASSUME NEW F, F \subseteq Recorded, NEW p \in PipeOf(F), Short(p), NEW f \in F
  PROVE  Stays(F, p, f, Silent(p, f))
<1> DEFINE q == KeepPreRoll(p, f)
           silence == p.silenceMs + Ms(f.dur)
           end == [type |-> "endpoint", seq |-> f.seq]
           over == [q EXCEPT !.active = FALSE, !.silenceMs = 0, !.events = Append(@, end)]
           e == Silent(p, f)
<1>1. e = IF silence < EndSilenceMs THEN [q EXCEPT !.silenceMs = silence] ELSE KeepPreRoll(over, f)
  BY DEF Silent
<1>2. /\ q \in PipeOf(F) /\ q.pending = p.pending
      /\ Rising(p.preRoll) /\ UpToSeq(p.preRoll, f.seq)
         => Rising(q.preRoll) /\ UpToSeq(q.preRoll, f.seq)
  BY KeepingHolds
<1>3. silence \in Int /\ end \in Event
  BY DEF Recorded, PipeOf, Ms, Event
<1>4. /\ Short(q) /\ q.preRoll \in Seq(F) /\ q.events \in Seq(Event) /\ q.voiceMs \in Span
  BY <1>2 DEF Short, PipeOf, Span
<1> HIDE DEF q, silence, e
<1>5. CASE silence < EndSilenceMs
  <2>1. e = [q EXCEPT !.silenceMs = silence]
    BY <1>1, <1>5
  <2>2. e \in PipeOf(F)
    <3> HIDE DEF Cut, Event
    <3> QED
      BY <1>2, <1>3, <2>1 DEF PipeOf
  <2>3. e.preRoll = q.preRoll /\ e.pending = q.pending
    BY <1>2, <2>1 DEF PipeOf
  <2> QED
    BY <1>2, <1>4, <2>2, <2>3 DEF Stays, Short, e
<1>6. CASE ~(silence < EndSilenceMs)
  <2>1. e = KeepPreRoll(over, f)
    BY <1>1, <1>6
  <2>2. Append(q.events, end) \in Seq(Event)
    BY <1>3, <1>4, AppendProperties
  <2>3. over = [q EXCEPT !.active = FALSE, !.silenceMs = 0, !.events = Append(q.events, end)]
    OBVIOUS
  <2> HIDE DEF over
  <2> DEFINE w == With(q, q.voiceMs, 0, q.preRoll, Append(q.events, end))
  <2>4. /\ over = Deactivated(w) /\ w \in PipeOf(F) /\ w.preRoll = q.preRoll
        /\ w.pending = q.pending
    <3>1. over = Deactivated(w)
      BY <1>2, <2>3 DEF With, Deactivated, PipeOf
    <3> HIDE DEF end
    <3>2. w \in PipeOf(F)
      BY <1>2, <1>4, <2>2, Zero, WithHolds
    <3>3. w.preRoll = q.preRoll /\ w.pending = q.pending
      BY <1>2 DEF With, PipeOf
    <3> QED
      BY <3>1, <3>2, <3>3
  <2> HIDE DEF w
  <2>5. over \in PipeOf(F) /\ over.preRoll = q.preRoll /\ over.pending = q.pending
    BY <2>4, DeactivatedHolds
  <2>6. /\ e \in PipeOf(F) /\ e.pending = p.pending
        /\ Rising(p.preRoll) /\ UpToSeq(p.preRoll, f.seq)
           => Rising(e.preRoll) /\ UpToSeq(e.preRoll, f.seq)
    BY <1>2, <2>1, <2>5, KeepingHolds
  <2> QED
    BY <2>6 DEF Stays, Short, e
<1> QED
  BY <1>5, <1>6

\* Whatever the frame, the pipeline holds only frames it was given.
LEMMA HysteresisStays ==
  ASSUME NEW F, F \subseteq Recorded, NEW p \in PipeOf(F), Short(p), NEW f \in F
  PROVE  Stays(F, p, f, ApplyHysteresis(p, f))
<1>1. p.active \in BOOLEAN /\ f.voiced \in BOOLEAN
  BY DEF PipeOf, Recorded
<1>2. CASE ~p.active
  <2>1. ApplyHysteresis(p, f) = Inactive(p, f)
    BY <1>2 DEF ApplyHysteresis
  <2> QED
    BY <2>1, InactiveStays
<1>3. CASE p.active /\ f.voiced
  <2>1. ApplyHysteresis(p, f) = Voiced(p, f)
    BY <1>3 DEF ApplyHysteresis
  <2> QED
    BY <2>1, VoicedStays
<1>4. CASE p.active /\ ~f.voiced
  <2>1. ApplyHysteresis(p, f) = Silent(p, f)
    BY <1>4 DEF ApplyHysteresis
  <2> QED
    BY <2>1, SilentStays
<1> QED
  BY <1>1, <1>2, <1>3, <1>4

\* A replay's chunks are cut from the frames replayed.
LEMMA RecutHolds ==
  ASSUME NEW F, F \subseteq Recorded, NEW s \in Seq(F)
  PROVE  Recut(TRUE, s) \in Seq(Cut(F))
<1> DEFINE Kept(q) == q \in PipeOf(F) /\ Short(q)
<1>1. PICK g : /\ Run(Fresh, s) = g[Len(s)] /\ g[0] = Fresh
               /\ \A n \in 1..Len(s) : g[n] = ApplyHysteresis(g[n - 1], s[n])
  BY RunningInTurn
<1>2. Len(s) \in Nat /\ \A i \in 1..Len(s) : s[i] \in F
  BY LenProperties, ElementOfSeq
<1> DEFINE T == {n \in 0..Len(s) : Kept(g[n])}
<1>3. 0 \in T
  <2>1. Fresh.pending = << >>
    BY DEF Fresh
  <2>2. Kept(Fresh)
    BY <2>1, FreshHolds, ShortWhenEmpty
  <2> QED
    BY <1>1, <1>2, <2>2
<1>4. ASSUME NEW n \in 0..(Len(s) - 1), n \in T PROVE n + 1 \in T
  <2>1. n + 1 \in 1..Len(s) /\ (n + 1) - 1 = n /\ n + 1 \in 0..Len(s)
    BY <1>2
  <2>2. g[n + 1] = ApplyHysteresis(g[n], s[n + 1]) /\ s[n + 1] \in F /\ Kept(g[n])
    BY <1>1, <1>2, <1>4, <2>1
  <2>3. Kept(ApplyHysteresis(g[n], s[n + 1]))
    <3>1. Stays(F, g[n], s[n + 1], ApplyHysteresis(g[n], s[n + 1]))
      BY <2>2, HysteresisStays
    <3> QED
      BY <3>1 DEF Stays
  <2> HIDE DEF Kept
  <2> QED
    BY <2>1, <2>2, <2>3
<1> HIDE DEF T
<1>5. \A n \in 0..Len(s) : n \in T
  BY <1>2, <1>3, <1>4, BoundedInduction
<1>6. Len(s) \in T
  BY <1>2, <1>5
<1>7. Run(Fresh, s) \in PipeOf(F)
  BY <1>1, <1>6 DEF T
<1>8. Recut(TRUE, s) = Run(Fresh, s).ready
  BY DEF Recut, Run, Step
<1> HIDE DEF Kept
<1> QED
  BY <1>7, <1>8 DEF PipeOf

-------------------------------------------------------------------------------
(* What a pipeline sends: the frames of its chunks and those not yet one.  *)

LEMMA TimeOfAppend ==
  ASSUME NEW F, F \subseteq Recorded, NEW s \in Seq(F), NEW f \in F
  PROVE  /\ Duration(s) \in Nat /\ Duration(Append(s, f)) = Duration(s) + f.dur
<1> DEFINE t == Append(s, f)
<1>1. PICK g : /\ Duration(s) = g[Len(s)] /\ g[0] = 0
               /\ \A n \in 1..Len(s) : g[n] = g[n - 1] + s[n].dur
  BY TimeInTurn
<1>2. /\ Len(s) \in Nat /\ Len(t) = Len(s) + 1 /\ t[Len(s) + 1] = f /\ t \in Seq(F)
      /\ \A i \in 1..Len(s) : t[i] = s[i]
  BY LenProperties, AppendProperties
<1>3. PICK h : /\ Duration(t) = h[Len(t)] /\ h[0] = 0
               /\ \A n \in 1..Len(t) : h[n] = h[n - 1] + t[n].dur
  BY <1>2, TimeInTurn
<1> HIDE DEF t
<1> DEFINE T == {n \in 0..Len(s) : g[n] = h[n] /\ g[n] \in Nat}
<1>4. 0 \in T
  BY <1>1, <1>2, <1>3
<1>5. ASSUME NEW n \in 0..(Len(s) - 1), n \in T PROVE n + 1 \in T
  <2>1. n + 1 \in 1..Len(s) /\ n + 1 \in 1..Len(t) /\ (n + 1) - 1 = n /\ n + 1 \in 0..Len(s)
    BY <1>2
  <2>2. s[n + 1] \in F /\ t[n + 1] = s[n + 1]
    BY <1>2, <2>1, ElementOfSeq
  <2>3. s[n + 1].dur \in Nat
    BY <2>2 DEF Recorded
  <2>4. g[n + 1] = g[n] + s[n + 1].dur /\ h[n + 1] = h[n] + t[n + 1].dur
    BY <1>1, <1>3, <2>1
  <2> QED
    BY <1>5, <2>1, <2>2, <2>3, <2>4
<1> HIDE DEF T
<1>6. \A n \in 0..Len(s) : n \in T
  BY <1>2, <1>4, <1>5, BoundedInduction
<1>7. g[Len(s)] = h[Len(s)] /\ g[Len(s)] \in Nat
  BY <1>2, <1>6 DEF T
<1>8. h[Len(t)] = h[Len(s)] + f.dur
  BY <1>2, <1>3
<1> QED
  BY <1>1, <1>3, <1>7, <1>8 DEF t

\* FlattenSeq, one chunk at a time.
LEMMA FlatInTurn ==
  ASSUME NEW A, NEW s \in Seq(A)
  PROVE  \E f : /\ FlattenSeq(s) = IF Len(s) = 0 THEN << >> ELSE f[Len(s)]
                /\ \A n \in 1..Len(s) : f[n] = FlatOf(s, n, f[n - 1])
<1> DEFINE f == CHOOSE f : FlatBy(s, f)
<1>1. \E h : FlatBy(s, h)
  BY FlatExists
<1>2. FlatBy(s, f)
  BY <1>1, Zenon
<1>3. Len(s) # 0 => FlattenSeq(s) = f[Len(s)]
  BY DEF FlattenSeq, FlatBy, FlatOf
<1>4. Len(s) = 0 => FlattenSeq(s) = << >>
  <2>1. Len(s) = 0 => s = << >>
    BY EmptySeq
  <2> QED
    BY <2>1 DEF FlattenSeq
<1> HIDE DEF f
<1>5. \A n \in 1..Len(s) : f[n] = FlatOf(s, n, f[n - 1])
  BY <1>2 DEF FlatBy
<1>6. FlattenSeq(s) = IF Len(s) = 0 THEN << >> ELSE f[Len(s)]
  BY <1>3, <1>4
<1> QED
  BY <1>5, <1>6

LEMMA FlatOfAppend ==
  ASSUME NEW F, NEW s \in Seq(Seq(F)), NEW c \in Seq(F)
  PROVE  FlattenSeq(Append(s, c)) = FlattenSeq(s) \o c
<1> DEFINE t == Append(s, c)
<1>1. PICK f : /\ FlattenSeq(s) = IF Len(s) = 0 THEN << >> ELSE f[Len(s)]
               /\ \A n \in 1..Len(s) : f[n] = FlatOf(s, n, f[n - 1])
  BY FlatInTurn
<1>2. /\ Len(s) \in Nat /\ Len(t) = Len(s) + 1 /\ t[Len(s) + 1] = c /\ t \in Seq(Seq(F))
      /\ \A i \in 1..Len(s) : t[i] = s[i]
  BY LenProperties, AppendProperties
<1>3. PICK g : /\ FlattenSeq(t) = IF Len(t) = 0 THEN << >> ELSE g[Len(t)]
               /\ \A n \in 1..Len(t) : g[n] = FlatOf(t, n, g[n - 1])
  BY <1>2, FlatInTurn
<1> HIDE DEF t
<1>4. FlattenSeq(t) = g[Len(s) + 1] /\ g[Len(s) + 1] = FlatOf(t, Len(s) + 1, g[Len(s)])
  BY <1>2, <1>3
<1>5. CASE Len(s) = 0
  <2>1. FlattenSeq(t) = c
    BY <1>2, <1>4, <1>5 DEF FlatOf
  <2>2. FlattenSeq(s) = << >> /\ << >> \o c = c
    BY <1>1, <1>5, ConcatEmptySeq
  <2> QED
    BY <2>1, <2>2 DEF t
<1>6. CASE Len(s) # 0
  <2> DEFINE T == {n \in 0..Len(s) : n # 0 => g[n] = f[n]}
  <2>0. Len(s) \in Nat /\ Len(t) = Len(s) + 1
    BY <1>2
  <2>1. 0 \in T
    BY <2>0
  <2>2. ASSUME NEW n \in 0..(Len(s) - 1), n \in T PROVE n + 1 \in T
    <3>1. n + 1 \in 1..Len(s) /\ n + 1 \in 1..Len(t) /\ (n + 1) - 1 = n /\ n + 1 \in 0..Len(s)
      BY <2>0
    <3>2. /\ f[n + 1] = FlatOf(s, n + 1, f[n]) /\ g[n + 1] = FlatOf(t, n + 1, g[n])
          /\ t[n + 1] = s[n + 1]
      BY <1>1, <1>2, <1>3, <3>1
    <3>3. n = 0 \/ g[n] = f[n]
      BY <2>2
    <3>4. n + 1 = 1 \/ g[n] = f[n]
      BY <3>3
    <3>5. g[n + 1] = f[n + 1]
      BY <3>2, <3>4 DEF FlatOf
    <3> QED
      BY <3>1, <3>5
  <2> HIDE DEF T
  <2>3. \A n \in 0..Len(s) : n \in T
    BY <1>2, <2>1, <2>2, BoundedInduction
  <2>4. g[Len(s)] = f[Len(s)]
    BY <1>2, <1>6, <2>3 DEF T
  <2>5. Len(s) + 1 # 1
    BY <1>2, <1>6
  <2>6. FlattenSeq(t) = g[Len(s)] \o c
    BY <1>2, <1>4, <2>5 DEF FlatOf
  <2> QED
    BY <1>1, <1>6, <2>4, <2>6 DEF t
<1> QED
  BY <1>5, <1>6

LEMMA FlatOfNothing == FlattenSeq(<< >>) = << >>
BY DEF FlattenSeq

LEMMA AppendInside ==
  ASSUME NEW F, NEW a \in Seq(F), NEW b \in Seq(F), NEW f \in F
  PROVE  a \o Append(b, f) = Append(a \o b, f)
<1>1. << f >> \in Seq(F)
  <2>1. << >> \in Seq(F)
    BY EmptySeq
  <2>2. Append(<< >>, f) \in Seq(F)
    BY <2>1, AppendProperties
  <2> QED
    BY <2>2
<1>2. a \o b \in Seq(F)
  BY ConcatProperties
<1>3. Append(b, f) = b \o << f >> /\ Append(a \o b, f) = (a \o b) \o << f >>
  BY <1>2, AppendIsConcat
<1>4. (a \o b) \o << f >> = a \o (b \o << f >>)
  BY <1>1, ConcatAssociative
<1> QED
  BY <1>3, <1>4

LEMMA FlatOfConcat ==
  ASSUME NEW F, NEW s \in Seq(Seq(F)), NEW t \in Seq(Seq(F))
  PROVE  FlattenSeq(s \o t) = FlattenSeq(s) \o FlattenSeq(t)
<1> DEFINE S == Seq(F)
           u(n) == SubSeq(t, 1, n)
           T == {n \in 0..Len(t) : FlattenSeq(s \o u(n)) = FlattenSeq(s) \o FlattenSeq(u(n))}
<1>1. Len(t) \in Nat /\ \A i \in 1..Len(t) : t[i] \in S
  BY LenProperties, ElementOfSeq
<1>2. \A n \in 0..Len(t) : u(n) \in Seq(S)
  <2> SUFFICES ASSUME NEW n \in 0..Len(t) PROVE u(n) \in Seq(S)
    OBVIOUS
  <2>1. \A i \in 1..n : t[i] \in S
    BY <1>1
  <2>2. 1 \in Int /\ n \in Int
    BY <1>1
  <2> HIDE DEF S
  <2> QED
    BY <2>1, <2>2, SubSeqProperties
<1>3. 0 \in T
  <2>1. u(0) = << >>
    BY SubSeqEmpty
  <2>2. s \o << >> = s
    BY ConcatEmptySeq
  <2>3. FlattenSeq(s) \o << >> = FlattenSeq(s)
    BY FlatHolds, ConcatEmptySeq
  <2>4. FlattenSeq(s \o u(0)) = FlattenSeq(s) \o FlattenSeq(u(0))
    BY <2>1, <2>2, <2>3, FlatOfNothing, Zenon
  <2>5. 0 \in 0..Len(t)
    BY <1>1
  <2> HIDE DEF u
  <2> QED
    BY <2>4, <2>5
<1>4. ASSUME NEW n \in 0..(Len(t) - 1), n \in T PROVE n + 1 \in T
  <2>1. n + 1 \in 1..Len(t) /\ n + 1 \in 0..Len(t) /\ n \in 0..Len(t) /\ (n + 1) - 1 = n
        /\ 1 \in 1..Len(t) /\ n + 1 \in 1..Len(t)
    BY <1>1
  <2>2. u(n + 1) = Append(u(n), t[n + 1])
    <3>1. SubSeq(t, 1, n + 1) = SubSeq(t, 1, (n + 1) - 1) \o << t[n + 1] >>
      BY <2>1, SubSeqRecursiveSecond
    <3>2. t[n + 1] \in S /\ u(n) \in Seq(S)
      BY <1>1, <1>2, <2>1
    <3>3. Append(u(n), t[n + 1]) = u(n) \o << t[n + 1] >>
      BY <3>2, AppendIsConcat
    <3> QED
      BY <2>1, <3>1, <3>3
  <2> DEFINE v == u(n)
             c == t[n + 1]
  <2>3. v \in Seq(S) /\ c \in S /\ FlattenSeq(s \o v) = FlattenSeq(s) \o FlattenSeq(v)
    BY <1>1, <1>2, <1>4, <2>1
  <2> HIDE DEF v, c
  <2>4. s \o Append(v, c) = Append(s \o v, c)
    <3>1. s \in Seq(S)
      OBVIOUS
    <3> HIDE DEF S
    <3> QED
      BY <2>3, <3>1, AppendInside
  <2>5. FlattenSeq(Append(s \o v, c)) = FlattenSeq(s \o v) \o c
    <3>1. s \o v \in Seq(Seq(F))
      BY <2>3, ConcatProperties
    <3> QED
      BY <2>3, <3>1, FlatOfAppend
  <2>6. FlattenSeq(Append(v, c)) = FlattenSeq(v) \o c
    BY <2>3, FlatOfAppend
  <2>7. (FlattenSeq(s) \o FlattenSeq(v)) \o c = FlattenSeq(s) \o (FlattenSeq(v) \o c)
    <3> DEFINE x == FlattenSeq(s)
               y == FlattenSeq(v)
    <3>1. x \in Seq(F) /\ y \in Seq(F) /\ c \in Seq(F)
      BY <2>3, FlatHolds
    <3> HIDE DEF x, y
    <3>2. (x \o y) \o c = x \o (y \o c)
      BY <3>1, ConcatAssociative, SMTT(30)
    <3> QED
      BY <3>2 DEF x, y
  <2>8. FlattenSeq(s \o Append(v, c)) = FlattenSeq(s) \o FlattenSeq(Append(v, c))
    BY <2>3, <2>4, <2>5, <2>6, <2>7, Zenon
  <2>9. FlattenSeq(s \o u(n + 1)) = FlattenSeq(s) \o FlattenSeq(u(n + 1))
    BY <2>2, <2>8, Zenon DEF v, c
  <2> HIDE DEF u
  <2> QED
    BY <2>1, <2>9
<1> HIDE DEF T
<1>5. \A n \in 0..Len(t) : n \in T
  BY <1>1, <1>3, <1>4, BoundedInduction
<1>6. Len(t) \in 0..Len(t) /\ u(Len(t)) = t
  BY <1>1, SubSeqFull
<1> QED
  BY <1>5, <1>6 DEF T

\* The frames a pipeline has cut and not delivered, then those it has not cut.
Content(p) == FlattenSeq(p.ready) \o p.pending

LEMMA ContentHolds ==
  ASSUME NEW F, NEW p \in PipeOf(F)
  PROVE  /\ p.ready \in Seq(Seq(F)) /\ FlattenSeq(p.ready) \in Seq(F) /\ p.pending \in Seq(F)
         /\ Content(p) \in Seq(F)
         /\ p.ready = << >> => Content(p) = p.pending
<1>1. p.ready \in Seq(Cut(F)) /\ p.pending \in Seq(F)
  BY DEF PipeOf
<1>2. Cut(F) \subseteq Seq(F)
  BY DEF Cut
<1>3. p.ready \in Seq(Seq(F))
  BY <1>1, <1>2, SeqGrows
<1>4. FlattenSeq(p.ready) \in Seq(F)
  BY <1>3, FlatHolds
<1>5. p.ready = << >> => Content(p) = p.pending
  BY <1>1, FlatOfNothing, ConcatEmptySeq DEF Content
<1> QED
  BY <1>1, <1>3, <1>4, <1>5, ConcatProperties DEF Content

\* Cutting moves a frame from one queue to the other, and no frame elsewhere.
LEMMA FeedSends ==
  ASSUME NEW F, NEW p \in PipeOf(F), NEW f \in F
  PROVE  Content(Feed(p, f)) = Append(Content(p), f)
<1> DEFINE pending == Append(p.pending, f)
           q == Feed(p, f)
           r == FlattenSeq(p.ready)
<1>1. /\ p.ready \in Seq(Seq(F)) /\ r \in Seq(F) /\ p.pending \in Seq(F)
      /\ Content(p) = r \o p.pending /\ Content(p) \in Seq(F)
  BY ContentHolds DEF Content
<1>2. pending \in Seq(F)
  BY <1>1, AppendProperties
<1>3. r \o pending = Append(Content(p), f)
  <2> HIDE DEF r
  <2>1. r \o Append(p.pending, f) = Append(r \o p.pending, f)
    BY <1>1, AppendInside
  <2> QED
    BY <1>1, <2>1
<1>4. q = IF Duration(pending) < ChunkMs * 1000
          THEN [p EXCEPT !.pending = pending]
          ELSE [p EXCEPT !.pending = << >>, !.ready = Append(@, pending)]
  BY DEF Feed
<1> HIDE DEF pending, q, r
<1>5. CASE Duration(pending) < ChunkMs * 1000
  <2>1. q = [p EXCEPT !.pending = pending]
    BY <1>4, <1>5
  <2>2. q.pending = pending /\ q.ready = p.ready
    BY <2>1 DEF PipeOf
  <2> QED
    BY <1>3, <2>2 DEF Content, q, r
<1>6. CASE ~(Duration(pending) < ChunkMs * 1000)
  <2>1. q = [p EXCEPT !.pending = << >>, !.ready = Append(p.ready, pending)]
    BY <1>4, <1>6
  <2>2. q.pending = << >> /\ q.ready = Append(p.ready, pending)
    BY <2>1 DEF PipeOf
  <2>3. FlattenSeq(q.ready) = r \o pending
    BY <1>1, <1>2, <2>2, FlatOfAppend DEF r
  <2>4. r \o pending \in Seq(F)
    BY <1>1, <1>2, ConcatProperties
  <2>5. Content(q) = r \o pending
    BY <2>2, <2>3, <2>4, ConcatEmptySeq DEF Content
  <2> QED
    BY <1>3, <2>5 DEF q
<1> QED
  BY <1>5, <1>6

LEMMA FeedingSends ==
  ASSUME NEW F, NEW p \in PipeOf(F), Short(p), NEW s \in Seq(F)
  PROVE  Content(Fed(p, s)) = Content(p) \o s
<1> DEFINE u(n) == SubSeq(s, 1, n)
           C == Content(p)
<1>1. PICK g : /\ Fed(p, s) = g[Len(s)] /\ g[0] = p
               /\ \A n \in 1..Len(s) : g[n] = Feed(g[n - 1], s[n])
  BY FeedingInTurn
<1>2. Len(s) \in Nat /\ \A i \in 1..Len(s) : s[i] \in F
  BY LenProperties, ElementOfSeq
<1>3. C \in Seq(F)
  BY ContentHolds
<1>4. \A n \in 0..Len(s) : u(n) \in Seq(F)
  <2> SUFFICES ASSUME NEW n \in 0..Len(s) PROVE u(n) \in Seq(F)
    OBVIOUS
  <2>1. (\A i \in 1..n : s[i] \in F) /\ 1 \in Int /\ n \in Int
    BY <1>2
  <2> QED
    BY <2>1, SubSeqProperties
<1> HIDE DEF C
<1> DEFINE T == {n \in 0..Len(s) : g[n] \in PipeOf(F) /\ Content(g[n]) = C \o u(n)}
<1>5. 0 \in T
  <2>1. u(0) = << >> /\ C \o << >> = C
    BY <1>3, SubSeqEmpty, ConcatEmptySeq
  <2>2. 0 \in 0..Len(s)
    BY <1>2
  <2> HIDE DEF u
  <2> QED
    BY <1>1, <2>1, <2>2 DEF C
<1>6. ASSUME NEW n \in 0..(Len(s) - 1), n \in T PROVE n + 1 \in T
  <2>1. /\ n + 1 \in 1..Len(s) /\ n + 1 \in 0..Len(s) /\ n \in 0..Len(s) /\ (n + 1) - 1 = n
        /\ 1 \in 1..Len(s)
    BY <1>2
  <2>2. /\ g[n + 1] = Feed(g[n], s[n + 1]) /\ s[n + 1] \in F
        /\ g[n] \in PipeOf(F) /\ Content(g[n]) = C \o u(n)
    BY <1>1, <1>2, <1>6, <2>1
  <2>3. g[n + 1] \in PipeOf(F) /\ Content(g[n + 1]) = Append(C \o u(n), s[n + 1])
    BY <2>2, FeedHolds, FeedSends
  <2>4. SubSeq(s, 1, n + 1) = SubSeq(s, 1, (n + 1) - 1) \o << s[n + 1] >>
    BY <2>1, SubSeqRecursiveSecond
  <2>5. u(n + 1) = u(n) \o << s[n + 1] >>
    BY <2>1, <2>4
  <2> DEFINE v == u(n)
             f == s[n + 1]
  <2>6. v \in Seq(F) /\ f \in F
    BY <1>4, <2>1, <2>2
  <2> HIDE DEF v, f
  <2>7. Append(C \o v, f) = C \o (v \o << f >>)
    <3>1. Append(v, f) = v \o << f >>
      BY <2>6, AppendIsConcat
    <3>2. C \o Append(v, f) = Append(C \o v, f)
      BY <1>3, <2>6, AppendInside
    <3> QED
      BY <3>1, <3>2
  <2>8. Content(g[n + 1]) = C \o u(n + 1)
    BY <2>3, <2>5, <2>7 DEF v, f
  <2> HIDE DEF u
  <2> QED
    BY <2>1, <2>3, <2>8
<1> HIDE DEF T
<1>7. \A n \in 0..Len(s) : n \in T
  BY <1>2, <1>5, <1>6, BoundedInduction
<1>8. Len(s) \in 0..Len(s) /\ u(Len(s)) = s
  BY <1>2, SubSeqFull
<1> QED
  BY <1>1, <1>7, <1>8 DEF T, C

\* The list s is something of F followed by t.
Ends(F, s, t) == \E h \in Seq(F) : s = h \o t

\* Newest frames that fit the pre-roll's budget together with one more are
\* kept with it.
LEMMA KeepsWhatFits ==
  ASSUME NEW F, F \subseteq Recorded, NEW p \in PipeOf(F), NEW f \in F, NEW t \in Seq(F),
         Ends(F, p.preRoll, t), Duration(t) + f.dur <= PreRollMs * 1000
  PROVE  Ends(F, KeepPreRoll(p, f).preRoll, Append(t, f))
<1> DEFINE kept == Append(p.preRoll, f)
           n == Len(kept)
           fits == {k \in 1..n + 1 : Duration(SubSeq(kept, k, n)) <= PreRollMs * 1000}
           m == Min(fits)
           u == Append(t, f)
<1>1. PICK h \in Seq(F) : p.preRoll = h \o t
  BY DEF Ends
<1>2. p.preRoll \in Seq(F) /\ kept \in Seq(F) /\ n \in Nat /\ u \in Seq(F) /\ Len(h) \in Nat
  <2>1. p.preRoll \in Seq(F)
    BY DEF PipeOf
  <2> QED
    BY <2>1, AppendProperties, LenProperties
<1>3. kept = h \o u /\ n = Len(h) + Len(u) /\ Len(u) \in Nat
  <2>1. h \o u = Append(h \o t, f)
    BY AppendInside
  <2>2. Len(h \o u) = Len(h) + Len(u) /\ Len(u) \in Nat
    BY <1>2, ConcatProperties, LenProperties
  <2> QED
    BY <1>1, <2>1, <2>2
<1>4. KeepPreRoll(p, f).preRoll = SubSeq(kept, m, n)
  <2> DEFINE r == SubSeq(kept, m, n)
  <2>1. KeepPreRoll(p, f) = [p EXCEPT !.preRoll = r]
    BY DEF KeepPreRoll
  <2> HIDE DEF r
  <2>2. KeepPreRoll(p, f).preRoll = r
    BY <2>1 DEF PipeOf
  <2> QED
    BY <2>2 DEF r
<1>5. m \in fits
  <2>1. p.preRoll \in Seq(F)
    BY <1>2
  <2> QED
    BY <2>1, KeptFrom
<1>6. Duration(u) <= PreRollMs * 1000
  BY TimeOfAppend
<1> DEFINE l == Len(h)
<1> HIDE DEF kept, n, u
<1>7. SubSeq(kept, l + 1, n) = u
  <2> DEFINE v == SubSeq(kept, l + 1, n)
  <2>1. \A i \in l + 1..n : kept[i] \in F
    <3>1. \A i \in l + 1..n : i \in 1..Len(kept)
      BY <1>2 DEF n
    <3> QED
      BY <1>2, <3>1, ElementOfSeq
  <2>2. /\ v \in Seq(F) /\ Len(v) = IF l + 1 <= n THEN n - (l + 1) + 1 ELSE 0
        /\ \A i \in 1..n - (l + 1) + 1 : v[i] = kept[(l + 1) + i - 1]
    <3>1. l + 1 \in Int /\ n \in Int
      BY <1>2
    <3> HIDE DEF l
    <3> QED
      BY <2>1, <3>1, SubSeqProperties
  <2>3. Len(v) = Len(u)
    BY <1>2, <1>3, <2>2
  <2>4. \A i \in 1..Len(u) : v[i] = u[i]
    <3> SUFFICES ASSUME NEW i \in 1..Len(u) PROVE v[i] = u[i]
      OBVIOUS
    <3>1. i \in 1..n - (l + 1) + 1 /\ (l + 1) + i - 1 = l + i
      BY <1>2, <1>3
    <3>2. v[i] = kept[l + i]
      BY <2>2, <3>1
    <3>3. (h \o u)[l + i] = u[i]
      <4>1. \A j \in 1..Len(h) + Len(u) : (h \o u)[j] = IF j <= Len(h) THEN h[j] ELSE u[j - Len(h)]
        BY <1>2, ConcatProperties
      <4>2. l + i \in 1..Len(h) + Len(u) /\ ~(l + i <= Len(h)) /\ (l + i) - Len(h) = i
        BY <1>2, <1>3
      <4> QED
        BY <4>1, <4>2
    <3> QED
      BY <1>3, <3>2, <3>3
  <2> HIDE DEF v
  <2>5. v = u
    BY <1>2, <2>2, <2>3, <2>4, SeqEqual
  <2> QED
    BY <2>5 DEF v
<1>8. l + 1 \in fits
  <2>1. l + 1 \in 1..n + 1
    BY <1>2, <1>3
  <2> QED
    BY <1>6, <1>7, <2>1, Zenon
<1>9. m \in 1..n + 1 /\ m <= l + 1
  <2>1. fits \subseteq Nat
    BY <1>2
  <2> HIDE DEF fits, l
  <2>2. \A k \in fits : m <= k
    BY <1>5, <1>8, <2>1, LeastNatural DEF Min
  <2>3. m <= l + 1
    BY <1>8, <2>2
  <2> QED
    BY <1>5, <2>3 DEF fits
<1> HIDE DEF m, fits
<1>10. SubSeq(kept, m, l) \o SubSeq(kept, l + 1, n) = SubSeq(kept, m, n)
  <2>1. m \in 1..Len(kept) + 1 /\ l \in m - 1..Len(kept) /\ n \in l..Len(kept)
    BY <1>2, <1>3, <1>9 DEF n
  <2> HIDE DEF l
  <2> QED
    BY <1>2, <2>1, ConcatAdjacentSubSeq
<1>11. SubSeq(kept, m, l) \in Seq(F)
  <2>1. \A i \in m..l : i \in 1..Len(kept)
    BY <1>2, <1>3, <1>9 DEF n
  <2>2. \A i \in m..l : kept[i] \in F
    BY <1>2, <2>1, ElementOfSeq
  <2>3. m \in Int /\ l \in Int
    BY <1>2, <1>9
  <2> HIDE DEF l
  <2> QED
    BY <2>2, <2>3, SubSeqProperties
<1> QED
  BY <1>4, <1>7, <1>10, <1>11 DEF Ends, u

\* What one frame does to what is sent, to what is kept, and to the clock that
\* opens an utterance.
Conveys(p, f, q) ==
  LET kept == KeepPreRoll(p, f).preRoll
  IN  /\ ~p.active /\ ~q.active =>
           /\ q.preRoll = kept
           /\ q.voiceMs = IF f.voiced THEN p.voiceMs + Ms(f.dur) ELSE 0
           /\ q.voiceMs < StartSpeechMs
      /\ ~p.active /\ q.active => Content(q) = kept /\ q.voiceMs = 0 /\ f.voiced
      /\ p.active =>
           /\ q.voiceMs = p.voiceMs
           /\ Content(q) = IF f.voiced THEN Append(Content(p), f) ELSE Content(p)
           /\ f.voiced => q.active

LEMMA InactiveConveys ==
  ASSUME NEW F, F \subseteq Recorded, NEW p \in PipeOf(F), Settled(p), ~p.active, NEW f \in F
  PROVE  Conveys(p, f, Inactive(p, f))
<1> DEFINE q == KeepPreRoll(p, f)
           voice == IF f.voiced THEN p.voiceMs + Ms(f.dur) ELSE 0
           start == [type |-> "speech.start", seq |-> f.seq]
           onset == [q EXCEPT !.active = TRUE, !.voiceMs = 0, !.silenceMs = 0,
                              !.preRoll = << >>, !.events = Append(@, start)]
           e == Inactive(p, f)
<1>1. e = IF voice < StartSpeechMs THEN [q EXCEPT !.voiceMs = voice] ELSE Fed(onset, q.preRoll)
  BY DEF Inactive, Fed
<1>2. q \in PipeOf(F) /\ q.active = FALSE /\ q.pending = << >> /\ q.ready = << >> /\ q.events = << >>
  BY KeepingHolds DEF Settled
<1>3. voice \in Int /\ start \in Event /\ f.voiced \in BOOLEAN
  BY DEF Recorded, PipeOf, Ms, Event
<1>4. ~f.voiced => voice = 0
  OBVIOUS
<1>5. voice = IF f.voiced THEN p.voiceMs + Ms(f.dur) ELSE 0
  OBVIOUS
<1> HIDE DEF q, voice, e
<1>6. CASE voice < StartSpeechMs
  <2>1. e = [q EXCEPT !.voiceMs = voice]
    BY <1>1, <1>6
  <2>2. e.active = FALSE /\ e.preRoll = q.preRoll /\ e.voiceMs = voice
    BY <1>2, <2>1 DEF PipeOf
  <2> QED
    BY <1>5, <1>6, <2>2 DEF Conveys, q, e
<1>7. CASE ~(voice < StartSpeechMs)
  <2>1. e = Fed(onset, q.preRoll)
    BY <1>1, <1>7
  <2>2. << >> \in Seq(F) /\ Append(<< >>, start) \in Seq(Event)
    BY <1>3, EmptySeq, AppendProperties
  <2>3. onset = [q EXCEPT !.active = TRUE, !.voiceMs = 0, !.silenceMs = 0,
                          !.preRoll = << >>, !.events = Append(<< >>, start)]
    BY <1>2
  <2> HIDE DEF onset
  <2> DEFINE w == With(q, 0, 0, << >>, Append(<< >>, start))
  <2>4. onset = Activated(w) /\ w \in PipeOf(F)
    <3>1. onset = Activated(w)
      BY <1>2, <2>3 DEF With, Activated, PipeOf
    <3> HIDE DEF start
    <3>2. w \in PipeOf(F)
      BY <1>2, <2>2, Zero, WithHolds
    <3> QED
      BY <3>1, <3>2
  <2> HIDE DEF w
  <2>5. onset \in PipeOf(F) /\ onset.active = TRUE
    BY <2>4, ActivatedHolds
  <2>6. onset.pending = << >> /\ onset.ready = << >> /\ onset.voiceMs = 0
    BY <1>2, <2>3 DEF PipeOf
  <2>7. Short(onset)
    BY <2>6, ShortWhenEmpty
  <2>8. q.preRoll \in Seq(F)
    BY <1>2 DEF PipeOf
  <2>9. e.active = TRUE /\ e.voiceMs = 0
    BY <2>1, <2>5, <2>6, <2>7, <2>8, FeedingHolds
  <2>10. Content(e) = q.preRoll
    <3>1. Content(e) = Content(onset) \o q.preRoll
      BY <2>1, <2>5, <2>7, <2>8, FeedingSends
    <3>2. Content(onset) = << >>
      BY <2>5, <2>6, ContentHolds
    <3>3. << >> \o q.preRoll = q.preRoll
      BY <2>8, ConcatEmptySeq
    <3> QED
      BY <3>1, <3>2, <3>3
  <2>11. f.voiced
    <3>1. voice # 0
      BY <1>7, PipelineAssumption DEF PipelineAssumption
    <3> QED
      BY <1>4, <3>1
  <2> QED
    BY <2>9, <2>10, <2>11 DEF Conveys, q, e
<1> QED
  BY <1>6, <1>7

LEMMA VoicedConveys ==
  ASSUME NEW F, F \subseteq Recorded, NEW p \in PipeOf(F), Settled(p), p.active, NEW f \in F, f.voiced
  PROVE  Conveys(p, f, Voiced(p, f))
<1> DEFINE q == [p EXCEPT !.silenceMs = 0, !.preRoll = << >>]
           e == Voiced(p, f)
<1>1. p.events \in Seq(Event) /\ p.voiceMs \in Span /\ << >> \in Seq(F)
  BY EmptySeq DEF PipeOf, Span
<1>2. q = With(p, p.voiceMs, 0, << >>, p.events)
  <2> HIDE DEF Cut, Event
  <2> QED
    BY DEF PipeOf, With
<1>3. /\ q.active = p.active /\ q.voiceMs = p.voiceMs /\ q.pending = p.pending
      /\ q.ready = p.ready
  BY DEF PipeOf
<1> HIDE DEF q
<1>4. q \in PipeOf(F)
  BY <1>1, <1>2, Zero, WithHolds
<1>5. e = Feed(q, f)
  BY DEF Voiced, q
<1> HIDE DEF e
<1>6. e.active = TRUE /\ e.voiceMs = p.voiceMs
  <2>1. p.active = TRUE
    BY DEF PipeOf
  <2> QED
    BY <1>3, <1>4, <1>5, <2>1, FeedHolds
<1>7. Content(e) = Append(Content(p), f)
  <2>1. Content(e) = Append(Content(q), f)
    BY <1>4, <1>5, FeedSends
  <2> QED
    BY <1>3, <2>1 DEF Content
<1> QED
  BY <1>6, <1>7 DEF Conveys, e

LEMMA SilentConveys ==
  ASSUME NEW F, F \subseteq Recorded, NEW p \in PipeOf(F), Settled(p), p.active, NEW f \in F, ~f.voiced
  PROVE  Conveys(p, f, Silent(p, f))
<1> DEFINE q == KeepPreRoll(p, f)
           silence == p.silenceMs + Ms(f.dur)
           end == [type |-> "endpoint", seq |-> f.seq]
           over == [q EXCEPT !.active = FALSE, !.silenceMs = 0, !.events = Append(@, end)]
           e == Silent(p, f)
<1>1. e = IF silence < EndSilenceMs THEN [q EXCEPT !.silenceMs = silence] ELSE KeepPreRoll(over, f)
  BY DEF Silent
<1>2. /\ q \in PipeOf(F) /\ q.active = p.active /\ q.pending = p.pending
      /\ q.ready = p.ready /\ q.events = p.events /\ q.voiceMs = p.voiceMs
  BY KeepingHolds
<1>3. end \in Event /\ q.events = << >> /\ q.voiceMs \in Span /\ q.preRoll \in Seq(F)
  BY <1>2 DEF Recorded, PipeOf, Event, Settled, Span
<1> HIDE DEF q, silence, e
<1>4. e.voiceMs = p.voiceMs /\ e.pending = p.pending /\ e.ready = p.ready
  <2>1. CASE silence < EndSilenceMs
    <3>1. e = [q EXCEPT !.silenceMs = silence]
      BY <1>1, <2>1
    <3> QED
      BY <1>2, <3>1 DEF PipeOf
  <2>2. CASE ~(silence < EndSilenceMs)
    <3>1. e = KeepPreRoll(over, f)
      BY <1>1, <2>2
    <3>2. Append(<< >>, end) \in Seq(Event)
      BY <1>3, EmptySeq, AppendProperties
    <3>3. over = [q EXCEPT !.active = FALSE, !.silenceMs = 0, !.events = Append(<< >>, end)]
      BY <1>3
    <3>4. over.voiceMs = q.voiceMs /\ over.pending = q.pending /\ over.ready = q.ready
      BY <1>2 DEF PipeOf
    <3> HIDE DEF over
    <3> DEFINE w == With(q, q.voiceMs, 0, q.preRoll, Append(<< >>, end))
    <3>5. over = Deactivated(w)
      BY <1>2, <3>3 DEF With, Deactivated, PipeOf
    <3> HIDE DEF end
    <3>6. w \in PipeOf(F)
      BY <1>2, <1>3, <3>2, Zero, WithHolds
    <3> HIDE DEF w
    <3>7. over \in PipeOf(F)
      BY <3>5, <3>6, DeactivatedHolds
    <3> QED
      BY <1>2, <3>1, <3>4, <3>7, KeepingHolds
  <2> QED
    BY <2>1, <2>2
<1>5. Content(e) = Content(p)
  BY <1>4 DEF Content
<1> QED
  BY <1>4, <1>5 DEF Conveys, e

LEMMA HysteresisConveys ==
  ASSUME NEW F, F \subseteq Recorded, NEW p \in PipeOf(F), Settled(p), NEW f \in F
  PROVE  Conveys(p, f, ApplyHysteresis(p, f))
<1>1. p.active \in BOOLEAN /\ f.voiced \in BOOLEAN
  BY DEF PipeOf, Recorded
<1>2. CASE ~p.active
  <2>1. ApplyHysteresis(p, f) = Inactive(p, f)
    BY <1>2 DEF ApplyHysteresis
  <2> QED
    BY <1>2, <2>1, InactiveConveys
<1>3. CASE p.active /\ f.voiced
  <2>1. ApplyHysteresis(p, f) = Voiced(p, f)
    BY <1>3 DEF ApplyHysteresis
  <2> QED
    BY <1>3, <2>1, VoicedConveys
<1>4. CASE p.active /\ ~f.voiced
  <2>1. ApplyHysteresis(p, f) = Silent(p, f)
    BY <1>4 DEF ApplyHysteresis
  <2> QED
    BY <1>4, <2>1, SilentConveys
<1> QED
  BY <1>1, <1>2, <1>3, <1>4
-------------------------------------------------------------------------------
(* Where the chunks end.                                                   *)

\* Nothing newer than x is behind what the pipeline still holds: not behind the
\* end of its next chunk, nor behind its pre-roll.
Ahead(p, x, n) ==
  /\ x <= n
  /\ p.pending # << >> => x <= Last(p.pending).seq
  /\ \A i \in 1..Len(p.preRoll) : x <= p.preRoll[i].seq

\* The chunks' ends rise, from x up to n.
EndsFrom(ready, x, n) ==
  /\ \A i \in 1..Len(ready) : x <= Last(ready[i]).seq /\ Last(ready[i]).seq <= n
  /\ \A i, j \in 1..Len(ready) : i <= j => Last(ready[i]).seq <= Last(ready[j]).seq

\* Frame n is the newest that was fed.
FedUpTo(p, n) == p.pending = << >> \/ Last(p.pending).seq = n

\* The chunks that are ready, and the frames that are not one yet, last no
\* longer than t.
ChunkUs == ChunkMs * 1000
Lasts(p, t) == Len(p.ready) * ChunkUs + Duration(p.pending) <= t

LEMMA TimeIsNat ==
  ASSUME NEW F, F \subseteq Recorded, NEW s \in Seq(F)
  PROVE  Duration(s) \in Nat
<1> DEFINE f == [seq |-> 0, dur |-> 0, voiced |-> FALSE]
<1>1. f \in Recorded
  BY DEF Recorded
<1> HIDE DEF f
<1>2. f \in F \cup {f} /\ F \cup {f} \subseteq Recorded
  BY <1>1
<1>3. s \in Seq(F \cup {f})
  BY SeqGrows
<1> DEFINE G == F \cup {f}
<1>4. s \in Seq(G) /\ f \in G /\ G \subseteq Recorded
  BY <1>2, <1>3
<1> HIDE DEF G
<1> QED
  BY <1>4, TimeOfAppend

LEMMA OneMoreTimes ==
  ASSUME NEW n \in Nat, NEW c \in Nat
  PROVE  (n + 1) * c = n * c + c /\ n * c \in Nat
OBVIOUS

LEMMA FeedPaces ==
  ASSUME NEW F, F \subseteq Recorded, NEW p \in PipeOf(F), NEW f \in F, NEW x \in Nat,
         NEW m \in Nat, EndsFrom(p.ready, x, m), m <= f.seq, x <= f.seq,
         NEW t \in Nat, Lasts(p, t)
  PROVE  LET q == Feed(p, f)
         IN  EndsFrom(q.ready, x, f.seq) /\ FedUpTo(q, f.seq) /\ Lasts(q, t + f.dur)
<1> DEFINE pending == Append(p.pending, f)
           q == Feed(p, f)
<1>1. /\ p.pending \in Seq(F) /\ p.ready \in Seq(Cut(F)) /\ Len(p.ready) \in Nat
      /\ f.seq \in Nat /\ f.dur \in Nat /\ ChunkUs \in Nat
  BY LenProperties, PipelineAssumption DEF PipeOf, Recorded, ChunkUs, PipelineAssumption
<1>2. /\ pending \in Cut(F) /\ pending # << >> /\ Last(pending) = f
      /\ Duration(pending) = Duration(p.pending) + f.dur
      /\ Duration(p.pending) \in Nat
  <2>1. pending \in Seq(F) /\ Len(pending) = Len(p.pending) + 1 /\ Len(p.pending) \in Nat
        /\ pending[Len(p.pending) + 1] = f
    BY <1>1, AppendProperties, LenProperties
  <2>2. pending # << >>
    <3> HIDE DEF pending
    <3>1. Len(pending) # 0 /\ Len(<< >>) = 0
      BY <2>1
    <3> QED
      BY <3>1
  <2>3. Duration(pending) = Duration(p.pending) + f.dur /\ Duration(p.pending) \in Nat
    BY <1>1, TimeOfAppend
  <2>4. Last(pending) = f
    BY <2>1 DEF Last
  <2> HIDE DEF pending
  <2> QED
    BY <2>1, <2>2, <2>3, <2>4 DEF Cut
<1>3. ASSUME NEW i \in 1..Len(p.ready)
      PROVE  x <= Last(p.ready[i]).seq /\ Last(p.ready[i]).seq <= f.seq
             /\ Last(p.ready[i]).seq \in Nat
  <2>1. p.ready[i] \in Seq(F) /\ p.ready[i] # << >>
    BY <1>1, ElementOfSeq DEF Cut
  <2>2. Len(p.ready[i]) \in 1..Len(p.ready[i])
    BY <2>1, LenProperties, EmptySeq
  <2>3. Last(p.ready[i]) \in F
    BY <2>1, <2>2, ElementOfSeq DEF Last
  <2>4. Last(p.ready[i]).seq \in Nat
    BY <2>3 DEF Recorded
  <2> QED
    BY <1>1, <2>4 DEF EndsFrom
<1>4. q = IF Duration(pending) < ChunkMs * 1000
          THEN [p EXCEPT !.pending = pending]
          ELSE [p EXCEPT !.pending = << >>, !.ready = Append(@, pending)]
  BY DEF Feed
<1> HIDE DEF pending, q
<1>5. CASE Duration(pending) < ChunkMs * 1000
  <2>1. q.pending = pending /\ q.ready = p.ready
    BY <1>4, <1>5 DEF PipeOf
  <2>2. EndsFrom(q.ready, x, f.seq)
    BY <1>3, <2>1 DEF EndsFrom
  <2>3. FedUpTo(q, f.seq)
    BY <1>2, <2>1 DEF FedUpTo
  <2>4. Lasts(q, t + f.dur)
    <3>1. Len(p.ready) * ChunkUs + Duration(p.pending) <= t /\ Len(p.ready) * ChunkUs \in Nat
      BY <1>1, OneMoreTimes DEF Lasts
    <3> DEFINE all == Len(p.ready) * ChunkUs
    <3>2. all + Duration(p.pending) <= t /\ all \in Nat
      BY <3>1
    <3> HIDE DEF all
    <3>3. all + Duration(pending) <= t + f.dur
      BY <1>1, <1>2, <3>2
    <3> QED
      BY <2>1, <3>3 DEF Lasts, all
  <2> QED
    BY <2>2, <2>3, <2>4 DEF q
<1>6. CASE ~(Duration(pending) < ChunkMs * 1000)
  <2>1. q.pending = << >> /\ q.ready = Append(p.ready, pending)
    BY <1>4, <1>6 DEF PipeOf
  <2>2. /\ Len(q.ready) = Len(p.ready) + 1
        /\ \A i \in 1..Len(p.ready) : q.ready[i] = p.ready[i]
        /\ q.ready[Len(p.ready) + 1] = pending
    <3> HIDE DEF Cut
    <3> QED
      BY <1>1, <1>2, <2>1, AppendProperties
  <2>3. ASSUME NEW i \in 1..Len(q.ready)
        PROVE  \/ i \in 1..Len(p.ready) /\ q.ready[i] = p.ready[i]
               \/ i = Len(p.ready) + 1 /\ Last(q.ready[i]).seq = f.seq
    <3>1. i \in 1..Len(p.ready) \/ i = Len(p.ready) + 1
      BY <1>1, <2>2
    <3> QED
      BY <1>2, <2>2, <3>1
  <2>4. \A i \in 1..Len(q.ready) : /\ x <= Last(q.ready[i]).seq
                                   /\ Last(q.ready[i]).seq <= f.seq
    <3> TAKE i \in 1..Len(q.ready)
    <3>1. CASE i \in 1..Len(p.ready) /\ q.ready[i] = p.ready[i]
      BY <1>3, <3>1
    <3>2. CASE i = Len(p.ready) + 1 /\ Last(q.ready[i]).seq = f.seq
      BY <1>1, <3>2
    <3> QED
      BY <2>3, <3>1, <3>2
  <2>5. \A i, j \in 1..Len(q.ready) : i <= j => Last(q.ready[i]).seq <= Last(q.ready[j]).seq
    <3> SUFFICES ASSUME NEW i \in 1..Len(q.ready), NEW j \in 1..Len(q.ready), i <= j
                 PROVE  Last(q.ready[i]).seq <= Last(q.ready[j]).seq
      OBVIOUS
    <3>1. CASE j = Len(p.ready) + 1 /\ Last(q.ready[j]).seq = f.seq
      BY <2>4, <3>1
    <3>2. CASE j \in 1..Len(p.ready) /\ q.ready[j] = p.ready[j]
      <4>1. i \in 1..Len(p.ready) /\ q.ready[i] = p.ready[i]
        BY <1>1, <2>2, <3>2
      <4> QED
        BY <3>2, <4>1 DEF EndsFrom
    <3> QED
      BY <2>3, <3>1, <3>2
  <2>6. EndsFrom(q.ready, x, f.seq)
    BY <2>4, <2>5 DEF EndsFrom
  <2>7. FedUpTo(q, f.seq)
    BY <2>1 DEF FedUpTo
  <2>8. Lasts(q, t + f.dur)
    <3>1. Len(p.ready) * ChunkUs + Duration(p.pending) <= t
      BY DEF Lasts
    <3> DEFINE all == Len(p.ready) * ChunkUs
               more == (Len(p.ready) + 1) * ChunkUs
    <3>2. more = all + ChunkUs /\ all \in Nat
      BY <1>1, OneMoreTimes
    <3>3. all + Duration(p.pending) <= t
      BY <3>1
    <3>4. Len(q.ready) * ChunkUs = more
      BY <2>2
    <3> HIDE DEF all, more
    <3>5. Duration(pending) >= ChunkUs
      BY <1>1, <1>2, <1>6 DEF ChunkUs
    <3>6. more + 0 <= t + f.dur
      BY <1>1, <1>2, <3>2, <3>3, <3>5
    <3> QED
      BY <2>1, <3>4, <3>6, NothingTakesNoTime DEF Lasts
  <2> QED
    BY <2>6, <2>7, <2>8 DEF q
<1> QED
  BY <1>5, <1>6

LEMMA FeedingPaces ==
  ASSUME NEW F, F \subseteq Recorded, NEW p \in PipeOf(F), p.ready = << >>, p.pending = << >>,
         NEW s \in Seq(F), NEW x \in Nat, NEW n \in Nat, x <= n,
         Rising(s), UpToSeq(s, n), \A i \in 1..Len(s) : x <= s[i].seq
  PROVE  LET q == Fed(p, s)
         IN  /\ EndsFrom(q.ready, x, n) /\ Len(q.ready) * ChunkUs <= Duration(s)
             /\ Len(s) > 0 => FedUpTo(q, s[Len(s)].seq)
             /\ Len(s) = 0 => q.pending = << >>
<1> DEFINE At(k) == IF k = 0 THEN x ELSE s[k].seq
<1>1. PICK g : /\ Fed(p, s) = g[Len(s)] /\ g[0] = p
               /\ \A k \in 1..Len(s) : g[k] = Feed(g[k - 1], s[k])
  BY FeedingInTurn
<1>2. PICK time : /\ Duration(s) = time[Len(s)] /\ time[0] = 0
                  /\ \A k \in 1..Len(s) : time[k] = time[k - 1] + s[k].dur
  BY TimeInTurn
<1> DEFINE Kept(q, k) == /\ q \in PipeOf(F) /\ time[k] \in Nat /\ Lasts(q, time[k])
                         /\ EndsFrom(q.ready, x, At(k)) /\ FedUpTo(q, At(k))
<1>3. Len(s) \in Nat /\ \A i \in 1..Len(s) : s[i] \in F /\ s[i].seq \in Nat /\ s[i].dur \in Nat
  BY LenProperties, ElementOfSeq DEF Recorded
<1>4. \A k \in 0..Len(s) : At(k) \in Nat /\ At(k) <= n
  BY <1>3 DEF UpToSeq
<1>5. \A k \in 0..(Len(s) - 1) : At(k) <= At(k + 1) /\ x <= At(k + 1)
  <2> SUFFICES ASSUME NEW k \in 0..(Len(s) - 1) PROVE At(k) <= At(k + 1) /\ x <= At(k + 1)
    OBVIOUS
  <2>1. CASE k = 0
    BY <1>3, <2>1
  <2>2. CASE k # 0
    <3>1. k \in 1..Len(s) /\ k + 1 \in 1..Len(s) /\ k <= k + 1 /\ k + 1 # 0
      BY <1>3, <2>2
    <3>2. s[k].seq <= s[k + 1].seq /\ x <= s[k + 1].seq
      BY <3>1 DEF Rising
    <3> QED
      BY <2>2, <3>1, <3>2
  <2> QED
    BY <2>1, <2>2
<1> DEFINE T == {k \in 0..Len(s) : Kept(g[k], k)}
<1>6. 0 \in T
  <2>1. Lasts(p, 0)
    <3>1. Len(p.ready) = 0 /\ 0 * ChunkUs = 0
      BY PipelineAssumption DEF ChunkUs, PipelineAssumption
    <3> QED
      BY <3>1, NothingTakesNoTime DEF Lasts
  <2>2. EndsFrom(p.ready, x, x) /\ FedUpTo(p, x)
    BY DEF EndsFrom, FedUpTo
  <2> QED
    BY <1>1, <1>2, <1>3, <2>1, <2>2
<1>7. ASSUME NEW k \in 0..(Len(s) - 1), k \in T PROVE k + 1 \in T
  <2>1. k + 1 \in 1..Len(s) /\ (k + 1) - 1 = k /\ k + 1 \in 0..Len(s) /\ k \in 0..Len(s) /\ k + 1 # 0
    BY <1>3
  <2>2. g[k + 1] = Feed(g[k], s[k + 1]) /\ s[k + 1] \in F /\ Kept(g[k], k)
    BY <1>1, <1>3, <1>7, <2>1
  <2>3. /\ At(k) \in Nat /\ At(k + 1) \in Nat /\ At(k) <= At(k + 1) /\ x <= At(k + 1)
        /\ At(k + 1) = s[k + 1].seq
    BY <1>4, <1>5, <2>1
  <2>4. time[k + 1] = time[k] + s[k + 1].dur /\ s[k + 1].dur \in Nat
    BY <1>2, <1>3, <2>1
  <2> HIDE DEF At
  <2>5. /\ EndsFrom(g[k + 1].ready, x, At(k + 1)) /\ FedUpTo(g[k + 1], At(k + 1))
        /\ Lasts(g[k + 1], time[k + 1])
    BY <2>2, <2>3, <2>4, FeedPaces
  <2>6. g[k + 1] \in PipeOf(F)
    BY <2>2, FeedHolds
  <2>7. time[k + 1] \in Nat
    BY <2>2, <2>4
  <2> QED
    BY <2>1, <2>5, <2>6, <2>7
<1> HIDE DEF T
<1>8. \A k \in 0..Len(s) : k \in T
  BY <1>3, <1>6, <1>7, BoundedInduction
<1>9. Len(s) \in T /\ Len(s) \in 0..Len(s)
  BY <1>3, <1>8
<1> DEFINE q == Fed(p, s)
<1>10. Kept(q, Len(s))
  BY <1>1, <1>9 DEF T
<1>11. At(Len(s)) \in Nat /\ At(Len(s)) <= n
  BY <1>4, <1>9
<1>12. /\ Len(s) > 0 => At(Len(s)) = s[Len(s)].seq
       /\ Len(s) = 0 => q = p
  BY <1>1, <1>3
<1>13. /\ q \in PipeOf(F) /\ Lasts(q, Duration(s)) /\ EndsFrom(q.ready, x, At(Len(s)))
       /\ FedUpTo(q, At(Len(s)))
  BY <1>2, <1>10
<1> HIDE DEF At, Kept, q
<1>14. EndsFrom(q.ready, x, n)
  <2>1. ASSUME NEW i \in 1..Len(q.ready) PROVE Last(q.ready[i]).seq <= n
    <3>1. q.ready \in Seq(Cut(F))
      BY <1>13 DEF PipeOf
    <3>2. q.ready[i] \in Seq(F) /\ q.ready[i] # << >>
      BY <3>1, ElementOfSeq DEF Cut
    <3>3. Len(q.ready[i]) \in 1..Len(q.ready[i])
      BY <3>2, LenProperties, EmptySeq
    <3>4. Last(q.ready[i]) \in F
      BY <3>2, <3>3, ElementOfSeq DEF Last
    <3>5. Last(q.ready[i]).seq \in Nat
      BY <3>4 DEF Recorded
    <3>6. Last(q.ready[i]).seq <= At(Len(s))
      BY <1>13 DEF EndsFrom
    <3> QED
      BY <1>11, <3>5, <3>6
  <2> QED
    BY <1>13, <2>1 DEF EndsFrom
<1>15. Len(q.ready) * ChunkUs <= Duration(s)
  <2>1. q.ready \in Seq(Cut(F)) /\ q.pending \in Seq(F)
    BY <1>13 DEF PipeOf
  <2>2. Len(q.ready) \in Nat /\ ChunkUs \in Nat /\ Duration(q.pending) \in Nat /\ Duration(s) \in Nat
    <3>1. Duration(q.pending) \in Nat /\ Duration(s) \in Nat
      BY <2>1, TimeIsNat
    <3> QED
      BY <2>1, <3>1, LenProperties, PipelineAssumption DEF ChunkUs, PipelineAssumption
  <2> DEFINE all == Len(q.ready) * ChunkUs
  <2>3. all \in Nat
    BY <2>2, OneMoreTimes
  <2>4. all + Duration(q.pending) <= Duration(s)
    BY <1>13 DEF Lasts
  <2> HIDE DEF all
  <2>5. all <= Duration(s)
    BY <2>2, <2>3, <2>4
  <2> QED
    BY <2>5 DEF all
<1> QED
  BY <1>12, <1>13, <1>14, <1>15 DEF q

\* The newest of what is kept is the frame.
LEMMA KeepsNewest ==
  ASSUME NEW F, F \subseteq Recorded, NEW p \in PipeOf(F), NEW f \in F
  PROVE  LET k == KeepPreRoll(p, f).preRoll
         IN  Len(k) > 0 => k[Len(k)] = f
<1> DEFINE kept == Append(p.preRoll, f)
           n    == Len(kept)
           fits == {k \in 1..n + 1 : Duration(SubSeq(kept, k, n)) <= PreRollMs * 1000}
           r    == KeepPreRoll(p, f).preRoll
<1>1. p.preRoll \in Seq(F)
  BY DEF PipeOf
<1>2. kept \in Seq(F) /\ n \in Nat /\ n = Len(p.preRoll) + 1 /\ kept[n] = f
  BY <1>1, AppendProperties, LenProperties
<1>3. Min(fits) \in fits
  BY <1>1, KeptFrom
<1>4. r = SubSeq(kept, Min(fits), n)
  BY DEF KeepPreRoll, PipeOf
<1> HIDE DEF kept, r
<1>5. Min(fits) \in 1..n + 1
  BY <1>3
<1> HIDE DEF fits, n
<1>6. CASE Min(fits) <= n
  <2>1. Len(r) = n - Min(fits) + 1 /\ r[n - Min(fits) + 1] = kept[n]
    BY <1>2, <1>4, <1>5, <1>6, SubSeqProperties DEF n
  <2> QED
    BY <1>2, <2>1 DEF r
<1>7. CASE ~(Min(fits) <= n)
  <2>1. Len(r) = 0
    BY <1>2, <1>4, <1>5, <1>7, SubSeqProperties DEF n
  <2> QED
    BY <2>1 DEF r
<1> QED
  BY <1>6, <1>7

\* What one frame does to the chunks' ends: what nothing held was behind stays
\* so, whatever is cut ends after it, and at an onset the pre-roll bounds how
\* many chunks are cut at once.
Paces(p, f, q, x) ==
  /\ Ahead(q, x, f.seq) /\ EndsFrom(q.ready, x, f.seq)
  /\ q.ready # << >> => q.preRoll = << >> /\ FedUpTo(q, f.seq)
  /\ p.active => Len(q.ready) <= 1
  /\ ~p.active => Len(q.ready) * ChunkUs <= PreRollMs * 1000

\* Fed up to the newest frame, nothing held is behind it.
LEMMA FedIsAhead ==
  ASSUME NEW q, NEW n \in Nat, FedUpTo(q, n), q.preRoll = << >>, NEW x \in Nat, x <= n
  PROVE  Ahead(q, x, n)
BY DEF Ahead, FedUpTo

\* So is what is kept of a pre-roll that nothing in it was behind.
LEMMA KeepingAhead ==
  ASSUME NEW F, F \subseteq Recorded, NEW p \in PipeOf(F), NEW f \in F, NEW x \in Nat,
         x <= f.seq, \A i \in 1..Len(p.preRoll) : x <= p.preRoll[i].seq
  PROVE  LET k == KeepPreRoll(p, f).preRoll
         IN  k \in Seq(F) /\ \A i \in 1..Len(k) : x <= k[i].seq
<1> DEFINE G == {r \in F : x <= r.seq}
           k == KeepPreRoll(p, f).preRoll
<1>1. p.preRoll \in Seq(F) /\ \A i \in 1..Len(p.preRoll) : p.preRoll[i] \in F
  BY ElementOfSeq DEF PipeOf
<1>2. \A i \in 1..Len(p.preRoll) : p.preRoll[i] \in G
  BY <1>1
<1>3. f \in G
  OBVIOUS
<1>4. G \subseteq F
  OBVIOUS
<1>5. \A i \in 1..Len(p.preRoll) : x <= p.preRoll[i].seq
  OBVIOUS
<1> HIDE DEF G
<1>6. p.preRoll \in Seq(G)
  BY <1>1, <1>2, AmongHolds
<1>7. k \in Seq(G)
  BY <1>3, <1>6, KeepingAmong
<1> HIDE DEF k
<1>8. k \in Seq(F)
  BY <1>4, <1>7, SeqGrows
<1>9. \A i \in 1..Len(k) : k[i] \in G
  BY <1>7, ElementOfSeq
<1> QED
  BY <1>8, <1>9 DEF G, k

LEMMA InactivePaces ==
  ASSUME NEW F, F \subseteq Recorded, NEW p \in PipeOf(F), Settled(p), ~p.active, NEW f \in F,
         Rising(p.preRoll), UpToSeq(p.preRoll, f.seq), NEW x \in Nat, Ahead(p, x, f.seq)
  PROVE  Paces(p, f, Inactive(p, f), x)
<1> DEFINE q == KeepPreRoll(p, f)
           voice == IF f.voiced THEN p.voiceMs + Ms(f.dur) ELSE 0
           start == [type |-> "speech.start", seq |-> f.seq]
           onset == [q EXCEPT !.active = TRUE, !.voiceMs = 0, !.silenceMs = 0,
                              !.preRoll = << >>, !.events = Append(@, start)]
           e == Inactive(p, f)
<1>1. e = IF voice < StartSpeechMs THEN [q EXCEPT !.voiceMs = voice] ELSE Fed(onset, q.preRoll)
  BY DEF Inactive, Fed
<1>2. /\ q \in PipeOf(F) /\ q.active = FALSE /\ q.pending = << >> /\ q.ready = << >>
      /\ q.events = << >> /\ Rolled(q) /\ Rising(q.preRoll) /\ UpToSeq(q.preRoll, f.seq)
  BY KeepingHolds DEF Settled
<1>3. voice \in Int /\ start \in Event /\ f.seq \in Nat
  BY DEF Recorded, PipeOf, Ms, Event
<1>4. q.preRoll \in Seq(F) /\ \A i \in 1..Len(q.preRoll) : x <= q.preRoll[i].seq
  BY KeepingAhead DEF Ahead
<1>5. Len(q.preRoll) > 0 => q.preRoll[Len(q.preRoll)] = f
  BY KeepsNewest
<1>6. x <= f.seq
  BY DEF Ahead
<1> HIDE DEF q, voice, e
<1>7. CASE voice < StartSpeechMs
  <2>1. e = [q EXCEPT !.voiceMs = voice]
    BY <1>1, <1>7
  <2>2. e.preRoll = q.preRoll /\ e.pending = << >> /\ e.ready = << >>
    BY <1>2, <2>1 DEF PipeOf
  <2> QED
    <3>1. Len(e.ready) * ChunkUs <= PreRollMs * 1000
      BY <2>2, PipelineAssumption DEF ChunkUs, PipelineAssumption
    <3>2. Ahead(e, x, f.seq) /\ EndsFrom(e.ready, x, f.seq)
      BY <1>4, <1>6, <2>2 DEF Ahead, EndsFrom
    <3> QED
      BY <2>2, <3>1, <3>2 DEF Paces, e
<1>8. CASE ~(voice < StartSpeechMs)
  <2>1. e = Fed(onset, q.preRoll)
    BY <1>1, <1>8
  <2>2. << >> \in Seq(F) /\ Append(<< >>, start) \in Seq(Event)
    BY <1>3, EmptySeq, AppendProperties
  <2>3. onset = [q EXCEPT !.active = TRUE, !.voiceMs = 0, !.silenceMs = 0,
                          !.preRoll = << >>, !.events = Append(<< >>, start)]
    BY <1>2
  <2> HIDE DEF onset
  <2> DEFINE w == With(q, 0, 0, << >>, Append(<< >>, start))
  <2>4. onset = Activated(w) /\ w \in PipeOf(F)
    <3>1. onset = Activated(w)
      BY <1>2, <2>3 DEF With, Activated, PipeOf
    <3> HIDE DEF start
    <3>2. w \in PipeOf(F)
      BY <1>2, <2>2, Zero, WithHolds
    <3> QED
      BY <3>1, <3>2
  <2> HIDE DEF w
  <2>5. onset \in PipeOf(F)
    BY <2>4, ActivatedHolds
  <2>6. onset.pending = << >> /\ onset.ready = << >> /\ onset.preRoll = << >>
    BY <1>2, <2>3 DEF PipeOf
  <2>7. Short(onset)
    BY <2>6, ShortWhenEmpty
  <2>8. e \in PipeOf(F) /\ e.preRoll = << >>
    BY <1>4, <2>1, <2>5, <2>6, <2>7, FeedingHolds
  <2>9. /\ EndsFrom(e.ready, x, f.seq) /\ Len(e.ready) * ChunkUs <= Duration(q.preRoll)
        /\ Len(q.preRoll) > 0 => FedUpTo(e, q.preRoll[Len(q.preRoll)].seq)
        /\ Len(q.preRoll) = 0 => e.pending = << >>
    BY <1>2, <1>3, <1>4, <1>6, <2>1, <2>5, <2>6, FeedingPaces
  <2>10. FedUpTo(e, f.seq)
    <3>1. Len(q.preRoll) \in Nat
      BY <1>4, LenProperties
    <3> QED
      BY <1>5, <2>9, <3>1 DEF FedUpTo
  <2>11. Ahead(e, x, f.seq)
    BY <1>3, <1>6, <2>8, <2>10, FedIsAhead
  <2>12. Len(e.ready) * ChunkUs <= PreRollMs * 1000
    <3>1. e.ready \in Seq(Cut(F))
      BY <2>8 DEF PipeOf
    <3>2. Len(e.ready) \in Nat /\ ChunkUs \in Nat
      BY <3>1, LenProperties, PipelineAssumption DEF ChunkUs, PipelineAssumption
    <3> DEFINE all == Len(e.ready) * ChunkUs
    <3>3. all \in Nat
      BY <3>2, OneMoreTimes
    <3>4. all <= Duration(q.preRoll) /\ Duration(q.preRoll) <= PreRollMs * 1000
      BY <1>2, <2>9 DEF Rolled
    <3>5. Duration(q.preRoll) \in Nat /\ PreRollMs * 1000 \in Nat
      BY <1>4, TimeIsNat, PipelineAssumption DEF PipelineAssumption
    <3> HIDE DEF all
    <3>6. all <= PreRollMs * 1000
      BY <3>3, <3>4, <3>5
    <3> QED
      BY <3>6 DEF all
  <2> QED
    BY <2>8, <2>9, <2>10, <2>11, <2>12 DEF Paces, e
<1> QED
  BY <1>7, <1>8

LEMMA AtMostOne == \A n : n = 0 \/ n = 1 => n <= 1
OBVIOUS

LEMMA VoicedPaces ==
  ASSUME NEW F, F \subseteq Recorded, NEW p \in PipeOf(F), Settled(p), p.active, NEW f \in F,
         NEW x \in Nat, Ahead(p, x, f.seq)
  PROVE  Paces(p, f, Voiced(p, f), x)
<1> DEFINE q == [p EXCEPT !.silenceMs = 0, !.preRoll = << >>]
           e == Voiced(p, f)
<1>1. p.events \in Seq(Event) /\ p.voiceMs \in Span /\ << >> \in Seq(F)
  BY EmptySeq DEF PipeOf, Span
<1>2. q = With(p, p.voiceMs, 0, << >>, p.events)
  <2> HIDE DEF Cut, Event
  <2> QED
    BY DEF PipeOf, With
<1>3. q.preRoll = << >> /\ q.pending = p.pending /\ q.ready = << >>
  BY DEF PipeOf, Settled
<1> HIDE DEF q
<1>4. q \in PipeOf(F)
  BY <1>1, <1>2, Zero, WithHolds
<1>5. e = Feed(q, f)
  BY DEF Voiced, q
<1> HIDE DEF e
<1>6. f.seq \in Nat /\ f.dur \in Nat /\ x <= f.seq /\ f.seq <= f.seq
  BY DEF Recorded, Ahead
<1>7. EndsFrom(q.ready, x, f.seq)
  BY <1>3 DEF EndsFrom
<1>8. Duration(q.pending) \in Nat /\ Lasts(q, Duration(q.pending))
  <2>1. Duration(q.pending) \in Nat
    BY <1>4, TimeIsNat DEF PipeOf
  <2>2. Len(q.ready) * ChunkUs = 0
    BY <1>3, PipelineAssumption DEF ChunkUs, PipelineAssumption
  <2> QED
    BY <2>1, <2>2 DEF Lasts
<1>9. EndsFrom(e.ready, x, f.seq) /\ FedUpTo(e, f.seq)
  BY <1>4, <1>5, <1>6, <1>7, <1>8, FeedPaces
<1>10. e \in PipeOf(F) /\ e.preRoll = << >>
  BY <1>3, <1>4, <1>5, FeedHolds
<1>11. Ahead(e, x, f.seq)
  BY <1>6, <1>9, <1>10, FedIsAhead
<1>12. Len(e.ready) <= 1
  <2> DEFINE c == Append(q.pending, f)
  <2>1. e.ready = << >> \/ e.ready = Append(<< >>, c)
    BY <1>3, <1>4, <1>5 DEF Feed, PipeOf
  <2> HIDE DEF c
  <2>2. Len(<< >>) = 0 /\ Len(Append(<< >>, c)) = 1
    <3>1. << >> \in Seq({c}) /\ c \in {c} /\ Len(<< >>) = 0
      BY EmptySeq
    <3> QED
      BY <3>1, AppendProperties
  <2>3. Len(e.ready) = 0 \/ Len(e.ready) = 1
    BY <2>1, <2>2, Zenon
  <2> QED
    BY <2>3, AtMostOne, Zenon
<1> QED
  BY <1>9, <1>10, <1>11, <1>12 DEF Paces, e

LEMMA SilentPaces ==
  ASSUME NEW F, F \subseteq Recorded, NEW p \in PipeOf(F), Settled(p), p.active, NEW f \in F,
         NEW x \in Nat, Ahead(p, x, f.seq)
  PROVE  Paces(p, f, Silent(p, f), x)
<1> DEFINE q == KeepPreRoll(p, f)
           silence == p.silenceMs + Ms(f.dur)
           end == [type |-> "endpoint", seq |-> f.seq]
           over == [q EXCEPT !.active = FALSE, !.silenceMs = 0, !.events = Append(@, end)]
           e == Silent(p, f)
<1>1. e = IF silence < EndSilenceMs THEN [q EXCEPT !.silenceMs = silence] ELSE KeepPreRoll(over, f)
  BY DEF Silent
<1>2. /\ q \in PipeOf(F) /\ q.pending = p.pending /\ q.ready = << >>
      /\ q.events = << >> /\ q.voiceMs = p.voiceMs
  BY KeepingHolds DEF Settled
<1>3. end \in Event /\ q.voiceMs \in Span
  BY <1>2 DEF Recorded, PipeOf, Event, Span
<1>4. x <= f.seq
  BY DEF Ahead
<1>5. q.preRoll \in Seq(F) /\ \A i \in 1..Len(q.preRoll) : x <= q.preRoll[i].seq
  BY <1>4, KeepingAhead DEF Ahead
<1> HIDE DEF q, silence, e
<1>6. /\ e.pending = p.pending /\ e.ready = << >>
      /\ \A i \in 1..Len(e.preRoll) : x <= e.preRoll[i].seq
  <2>1. CASE silence < EndSilenceMs
    <3>1. e = [q EXCEPT !.silenceMs = silence]
      BY <1>1, <2>1
    <3> QED
      BY <1>2, <1>5, <3>1 DEF PipeOf
  <2>2. CASE ~(silence < EndSilenceMs)
    <3>1. e = KeepPreRoll(over, f)
      BY <1>1, <2>2
    <3>2. Append(<< >>, end) \in Seq(Event)
      BY <1>3, EmptySeq, AppendProperties
    <3>3. over = [q EXCEPT !.active = FALSE, !.silenceMs = 0, !.events = Append(<< >>, end)]
      BY <1>2
    <3>4. over.preRoll = q.preRoll /\ over.pending = q.pending /\ over.ready = q.ready
      BY <1>2 DEF PipeOf
    <3> HIDE DEF over
    <3> DEFINE w == With(q, q.voiceMs, 0, q.preRoll, Append(<< >>, end))
    <3>5. over = Deactivated(w)
      BY <1>2, <3>3 DEF With, Deactivated, PipeOf
    <3> HIDE DEF end
    <3>6. w \in PipeOf(F)
      BY <1>2, <1>3, <1>5, <3>2, Zero, WithHolds
    <3> HIDE DEF w
    <3>7. over \in PipeOf(F)
      BY <3>5, <3>6, DeactivatedHolds
    <3>8. e.pending = over.pending /\ e.ready = over.ready
      BY <3>1, <3>7, KeepingHolds
    <3>9. \A i \in 1..Len(e.preRoll) : x <= e.preRoll[i].seq
      BY <1>4, <1>5, <3>1, <3>4, <3>7, KeepingAhead
    <3> QED
      BY <1>2, <3>4, <3>8, <3>9
  <2> QED
    BY <2>1, <2>2
<1>7. Ahead(e, x, f.seq)
  BY <1>4, <1>6 DEF Ahead
<1> QED
  BY <1>6, <1>7 DEF Paces, EndsFrom, e

LEMMA HysteresisPaces ==
  ASSUME NEW F, F \subseteq Recorded, NEW p \in PipeOf(F), Settled(p), NEW f \in F,
         Rising(p.preRoll), UpToSeq(p.preRoll, f.seq), NEW x \in Nat, Ahead(p, x, f.seq)
  PROVE  Paces(p, f, ApplyHysteresis(p, f), x)
<1>1. p.active \in BOOLEAN /\ f.voiced \in BOOLEAN
  BY DEF PipeOf, Recorded
<1>2. CASE ~p.active
  <2>1. ApplyHysteresis(p, f) = Inactive(p, f)
    BY <1>2 DEF ApplyHysteresis
  <2> QED
    BY <1>2, <2>1, InactivePaces
<1>3. CASE p.active /\ f.voiced
  <2>1. ApplyHysteresis(p, f) = Voiced(p, f)
    BY <1>3 DEF ApplyHysteresis
  <2> QED
    BY <1>3, <2>1, VoicedPaces
<1>4. CASE p.active /\ ~f.voiced
  <2>1. ApplyHysteresis(p, f) = Silent(p, f)
    BY <1>4 DEF ApplyHysteresis
  <2> QED
    BY <1>4, <2>1, SilentPaces
<1> QED
  BY <1>1, <1>2, <1>3, <1>4
===============================================================================
