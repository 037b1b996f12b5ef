--------------------------- MODULE ConnectionProofs ---------------------------
(***************************************************************************)
(* What one connection owes its client and the dashboard, for every size   *)
(* of its channels and every order of its goroutines' steps.               *)
(*                                                                         *)
(* NothingSentIsDropped alone is not inductive.  It rests on an account of *)
(* every event the session sent, which is written, on the channel or in    *)
(* the writer's hands, and on nobody cancelling the context or closing the *)
(* socket before the writer is done.                                       *)
(*                                                                         *)
(* RowIsCurrent alone is not inductive either.  The session must not say   *)
(* anything a row would show before the row exists, and must not make the  *)
(* row a second time.                                                      *)
(***************************************************************************)
EXTENDS Connection, SequenceTheorems, TLAPS

-------------------------------------------------------------------------------
(* The shape of the state.                                                 *)

Messages == [kind : {"start", "audio", "end", "bad"}, seq : Nat]

\* What a session that has started may still do, and one that has not: the
\* row is made once, and nothing a row shows is sent before it is made.
Later    == Events \cup {Call, Tell("push"), Tell("failover")}
Quiet    == {ev \in Events : ev.kind \in {"error", "overloaded"}}
Opening  == {<< >>, <<Emit("error", 0)>>, <<Emit("overloaded", 0)>>,
             <<Tell("refused"), Emit("overloaded", 0)>>}
            \cup {Started(n) : n \in Nat}
            \cup {<<Tell("started"), Emit("ack", n)>> : n \in Nat}

SessionShape ==
  /\ session \in [pc : {"receive", "act", "end", "close", "returned"},
                  todo : Seq(Later) \cup Opening, stop : BOOLEAN,
                  out : Nat \cup {None}, started : BOOLEAN, speaking : BOOLEAN, utt : Nat]
  /\ session.todo \in IF session.started THEN Seq(Later) ELSE Opening

ReaderShape ==
  /\ reader \in [pc : {"read", "offer", "returned"}, msg : Messages \cup {None}]
  /\ reader.pc = "offer" => reader.msg \in Messages
  /\ frames \in Seq(Messages) /\ Len(frames) <= FrameChanSize

WriterShape ==
  /\ writer \in [pc : {"receive", "observe", "write", "done", "returned"},
                 ev : Events \cup {None}, out : Nat \cup {None}]
  /\ writer.pc = "observe" => writer.ev \in Events
  /\ events \in Seq(Events) /\ Len(events) <= EventChanSize

WorldShape ==
  /\ socket \in {"open", "left", "broken", "closed"}
  /\ messages \in 0..MaxMessages
  /\ {cancelled, framesClosed, eventsClosed, writeFailed} \subseteq BOOLEAN
  /\ handler \in {"waiting", "returned"}
  /\ {sent, written} \subseteq Nat

ViewerShape ==
  /\ {"pc", "first", "last", "seen", "views"} \subseteq DOMAIN viewer
  /\ viewer.pc \in {"away", "replayed", "watching"}
  /\ feed \in Seq(Nat) /\ Len(feed) <= FeedSize

RowFields(row) == {"state", "finals", "acked", "log"} \subseteq DOMAIN row
HubShape(h) ==
  /\ {"rows", "ended", "notable", "nextID", "uttStart"} \subseteq DOMAIN h
  /\ Live(h) \subseteq {Me}
  /\ \A s \in Live(h) : RowFields(h.rows[s])
  /\ h.nextID \in Nat

Shapes ==
  /\ SessionShape /\ ReaderShape /\ WriterShape /\ WorldShape /\ ViewerShape
  /\ HubShape(hub)

-------------------------------------------------------------------------------
(* The account of what was sent.                                           *)

Writing == writer.pc \notin {"done", "returned"}

\* While the writer works nothing it depends on is taken from it.
WriterIsServed ==
  Writing => ~cancelled /\ ~writeFailed /\ handler = "waiting" /\ socket \in {"open", "left"}

\* Every event sent is written, in the writer's hands or on the channel.
EventsAccounted ==
  Writing => sent = written + Len(events) + (IF writer.pc = "receive" THEN 0 ELSE 1)

\* A writer that stops has written everything, or could write no more.
StopsWhenWritten ==
  ~Writing => socket = "left" \/ writeFailed \/ (eventsClosed /\ written = sent)

\* The channel is closed by the last thing the session does.
ClosedLast == eventsClosed => session.pc = "returned"

Account == WriterIsServed /\ EventsAccounted /\ StopsWhenWritten /\ ClosedLast

-------------------------------------------------------------------------------
(* The row and what the client was told.                                   *)

\* Before the session starts there is no row, and nothing for it to show.
NothingToShow ==
  ~session.started =>
    /\ Live(hub) = {} /\ told = [acked |-> 0, finals |-> 0]
    /\ events \in Seq(Quiet)
    /\ writer.pc = "observe" => writer.ev \in Quiet

RowInv == NothingToShow /\ RowIsCurrent

ConnInv == Shapes /\ Account /\ RowInv
-------------------------------------------------------------------------------
(* Lemmas about the hub.                                                   *)

USE ConnectionAssumption, HubAssumption

\* Two values of the hub whose rows show a client the same.
Alike(h, g) ==
  /\ DOMAIN g.rows = DOMAIN h.rows
  /\ \A s \in DOMAIN h.rows :
        g.rows[s].acked = h.rows[s].acked /\ g.rows[s].finals = h.rows[s].finals

\* Recording an event numbers it and touches nothing a row counts.
LEMMA RecordingIsAlike ==
  ASSUME NEW h, HubShape(h), NEW s, NEW kind
  PROVE  /\ HubShape(Recorded(h, s, kind)) /\ Alike(h, Recorded(h, s, kind))
         /\ HubShape(RecordedQuietly(h, s, kind)) /\ Alike(h, RecordedQuietly(h, s, kind))
<1>1. HubShape(Logged(h, s, kind)) /\ Alike(h, Logged(h, s, kind))
  BY DEF Logged, HubShape, Alike, RowFields, Live
<1>2. ASSUME NEW g, HubShape(g)
      PROVE  /\ HubShape(Numbered(g)) /\ Alike(g, Numbered(g))
             /\ HubShape(Ringed(g, s, kind)) /\ Alike(g, Ringed(g, s, kind))
  BY <1>2 DEF Numbered, Ringed, HubShape, Alike, RowFields, Live
<1>3. ASSUME NEW f, NEW g, Alike(h, f), Alike(f, g) PROVE Alike(h, g)
  BY <1>3 DEF Alike
<1> QED
  BY <1>1, <1>2, <1>3 DEF Recorded, RecordedQuietly

LEMMA AlikeTransitive ==
  ASSUME NEW f, NEW g, NEW h, Alike(f, g), Alike(g, h)
  PROVE  Alike(f, h)
BY DEF Alike

\* A failover, a push and a refusal change no row's counts.
LEMMA CallsAreAlike ==
  ASSUME NEW h, HubShape(h), NEW s
  PROVE  /\ HubShape(Failover(h, s)) /\ Alike(h, Failover(h, s))
         /\ HubShape(PushObserved(h, s)) /\ Alike(h, PushObserved(h, s))
         /\ HubShape(Refused(h, s)) /\ Alike(h, Refused(h, s))
<1>1. ASSUME NEW state, s \in Live(h)
      PROVE  /\ HubShape([h EXCEPT !.rows[s].state = state])
             /\ Alike(h, [h EXCEPT !.rows[s].state = state])
  BY <1>1 DEF HubShape, Alike, RowFields, Live
<1>2. Alike(h, h)
  BY DEF Alike
<1>3. HubShape(PushObserved(h, s)) /\ Alike(h, PushObserved(h, s))
  BY <1>1, <1>2 DEF PushObserved
<1>4. HubShape(Failover(h, s)) /\ Alike(h, Failover(h, s))
  <2>1. CASE s \notin Live(h)
    BY <2>1, <1>2 DEF Failover
  <2>2. CASE s \in Live(h)
    <3> DEFINE g == [h EXCEPT !.rows[s].state = "failing over"]
    <3>1. HubShape(g) /\ Alike(h, g)
      BY <2>2, <1>1
    <3>2. Failover(h, s) = Recorded(g, s, "failover")
      BY <2>2 DEF Failover
    <3> HIDE DEF g
    <3> QED
      BY <3>1, <3>2, RecordingIsAlike, AlikeTransitive
  <2> QED
    BY <2>1, <2>2
<1> QED
  BY <1>3, <1>4, RecordingIsAlike DEF Refused

\* A new row counts nothing, and takes no other's place.
LEMMA StartMakesRow ==
  ASSUME NEW h, HubShape(h), Live(h) = {}
  PROVE  /\ HubShape(SessionStarted(h, Me)) /\ Live(SessionStarted(h, Me)) = {Me}
         /\ SessionStarted(h, Me).rows[Me].acked = 0
         /\ SessionStarted(h, Me).rows[Me].finals = 0
<1> DEFINE g == [h EXCEPT !.rows = [r \in Live(h) \cup {Me} |->
                                      IF r = Me THEN NewRow(Me) ELSE h.rows[r]]]
<1>1. /\ HubShape(g) /\ DOMAIN g.rows = {Me}
      /\ g.rows[Me].acked = 0 /\ g.rows[Me].finals = 0
  BY DEF HubShape, RowFields, Live, NewRow
<1>2. SessionStarted(h, Me) = Recorded(g, Me, "session.start")
  BY DEF SessionStarted
<1> HIDE DEF g
<1> QED
  BY <1>1, <1>2, RecordingIsAlike DEF Alike, Live

\* A session that ends leaves no live row.
LEMMA EndTakesRow ==
  ASSUME NEW h, HubShape(h)
  PROVE  HubShape(SessionEnded(h, Me)) /\ Live(SessionEnded(h, Me)) = {}
<1>1. CASE Me \notin Live(h)
  BY <1>1 DEF SessionEnded, HubShape
<1>2. CASE Me \in Live(h)
  <2> DEFINE g == Recorded([h EXCEPT !.rows[Me].state = "ended"], Me, "session.end")
  <2>1. HubShape([h EXCEPT !.rows[Me].state = "ended"])
    BY <1>2 DEF HubShape, RowFields, Live
  <2>2. HubShape(g)
    BY <2>1, RecordingIsAlike
  <2>3. SessionEnded(h, Me)
          = [g EXCEPT !.rows = [r \in Live(h) \ {Me} |-> g.rows[r]],
                      !.ended = Newest(Append(@, g.rows[Me]), EndedCapacity),
                      !.uttStart = {u \in @ : u[1] # Me}]
    BY <1>2 DEF SessionEnded
  <2>4. Live(h) \ {Me} = {}
    BY DEF HubShape
  <2> HIDE DEF g
  <2> QED
    BY <2>2, <2>3, <2>4 DEF HubShape, Live, RowFields
<1> QED
  BY <1>1, <1>2

\* What the client is told, a row that is there counts as it is told.
LEMMA ObservedCounts ==
  ASSUME NEW h, HubShape(h), NEW ev \in Events
  PROVE  /\ HubShape(Observe(h, Me, ev)) /\ Live(Observe(h, Me, ev)) = Live(h)
         /\ Me \in Live(h) =>
              /\ Observe(h, Me, ev).rows[Me].acked
                   = IF ev.kind = "ack" THEN ev.n ELSE h.rows[Me].acked
              /\ Observe(h, Me, ev).rows[Me].finals
                   = IF ev.kind = "final" THEN h.rows[Me].finals + 1
                     ELSE h.rows[Me].finals
<1> DEFINE f == IF Me \in Live(h) THEN [h EXCEPT !.rows[Me] = RowUpdate(@, ev)] ELSE h
           g == Timed(f, Me, ev)
           Counted(k) == /\ HubShape(k) /\ Live(k) = Live(h)
                         /\ Me \in Live(h) =>
                              /\ k.rows[Me].acked
                                   = IF ev.kind = "ack" THEN ev.n ELSE h.rows[Me].acked
                              /\ k.rows[Me].finals
                                   = IF ev.kind = "final" THEN h.rows[Me].finals + 1
                                     ELSE h.rows[Me].finals
<1>1. ASSUME NEW row, RowFields(row)
      PROVE  /\ RowFields(RowUpdate(row, ev))
             /\ RowUpdate(row, ev).acked = IF ev.kind = "ack" THEN ev.n ELSE row.acked
             /\ RowUpdate(row, ev).finals
                  = IF ev.kind = "final" THEN row.finals + 1 ELSE row.finals
  BY <1>1 DEF RowUpdate, RowFields
<1>2. Counted(f)
  BY <1>1 DEF HubShape, Live
<1>3. Counted(g)
  <2> HIDE DEF f
  <2> QED
    BY <1>2 DEF Timed, HubShape, Live
<1>4. ASSUME NEW k, Counted(k), NEW kind
      PROVE  Counted(Recorded(k, Me, kind)) /\ Counted(RecordedQuietly(k, Me, kind))
  BY <1>4, RecordingIsAlike DEF Alike, Live
<1>5. CASE ev.kind = "overloaded"
  BY <1>5 DEF Observe, Live
<1>6. CASE ev.kind # "overloaded"
  <2>1. Observe(h, Me, ev) \in
          {g, Recorded(g, Me, ev.kind), RecordedQuietly(g, Me, ev.kind)}
    BY <1>6 DEF Observe
  <2>2. Counted(Observe(h, Me, ev))
    <3> HIDE DEF g, Counted
    <3> QED
      BY <1>3, <1>4, <2>1
  <2> QED
    BY <2>2
<1> QED
  BY <1>5, <1>6

-------------------------------------------------------------------------------
(* The steps.                                                              *)

LEMMA ConnInit == Init => ConnInv
<1> SUFFICES ASSUME Init PROVE ConnInv
  OBVIOUS
<1> USE DEF Init
<1>1. SessionShape /\ ReaderShape /\ WriterShape
  BY DEF SessionShape, ReaderShape, WriterShape, Opening
<1>2. WorldShape
  <2>1. MaxMessages \in Nat
    OBVIOUS
  <2>2. {cancelled, framesClosed, eventsClosed, writeFailed} \subseteq BOOLEAN
    BY Zenon
  <2> QED
    BY <2>1, <2>2 DEF WorldShape
<1>6. ViewerShape
  BY DEF ViewerShape
<1>5. HubShape(hub)
  <2>1. Live(hub) = {}
    BY DEF NewHub, Live
  <2> QED
    BY <2>1 DEF HubShape, NewHub
<1>3. Account
  BY DEF Account, Writing, WriterIsServed, EventsAccounted, StopsWhenWritten, ClosedLast
<1>4. RowInv
  BY DEF RowInv, NothingToShow, RowIsCurrent, NewHub, Live
<1> QED
  BY <1>1, <1>2, <1>3, <1>4, <1>5, <1>6 DEF ConnInv, Shapes

\* What does not move keeps its shape.
LEMMA SameShapes ==
  /\ SessionShape /\ UNCHANGED session => SessionShape'
  /\ ReaderShape /\ UNCHANGED <<reader, frames>> => ReaderShape'
  /\ WriterShape /\ UNCHANGED <<writer, events>> => WriterShape'
  /\ WorldShape /\ UNCHANGED <<world, framesClosed, eventsClosed, handler, sent, written,
                               writeFailed>> => WorldShape'
  /\ ViewerShape /\ UNCHANGED <<viewer, feed>> => ViewerShape'
  /\ HubShape(hub) /\ UNCHANGED hub => HubShape(hub)'
BY DEF SessionShape, ReaderShape, WriterShape, WorldShape, ViewerShape, HubShape, world, Live

\* The account is the writer's: a step of another that sends nothing keeps it.
LEMMA SameAccount ==
  ASSUME Account, UNCHANGED <<writer.pc, socket, cancelled, handler, events, eventsClosed,
                              sent, written, writeFailed>>,
         session.pc = "returned" => session'.pc = "returned"
  PROVE  Account'
BY DEF Account, Writing, WriterIsServed, EventsAccounted, StopsWhenWritten, ClosedLast

\* The row changes by the hub's calls only.
LEMMA SameRow ==
  ASSUME RowInv,
         UNCHANGED <<hub, told, events, writer.pc, writer.ev, session.started>>
  PROVE  RowInv'
BY DEF RowInv, NothingToShow, RowIsCurrent, Live

LEMMA ReaderKeeps ==
  ASSUME ConnInv, ReaderSteps \/ \E kind \in {"start", "audio", "end", "bad"} : Read(kind)
  PROVE  ConnInv'
<1> USE DEF ConnInv, Shapes, world, channels, threads, watching, history
<1>1. ASSUME NEW kind \in {"start", "audio", "end", "bad"}, Read(kind) PROVE ConnInv'
  <2>1. ReaderShape' /\ WorldShape'
    BY <1>1 DEF Read, ReaderShape, WorldShape, Messages
  <2> QED
    BY <1>1, <2>1, SameShapes, SameAccount, SameRow DEF Read
<1>2. CASE ReadFails
  <2>1. ReaderShape' /\ WorldShape'
    BY <1>2 DEF ReadFails, ReaderReturns, ReaderShape, WorldShape
  <2>2. Account'
    BY <1>2 DEF ReadFails, ReaderReturns, Account, Writing, WriterIsServed, EventsAccounted,
                StopsWhenWritten, ClosedLast
  <2> QED
    BY <1>2, <2>1, <2>2, SameShapes, SameRow DEF ReadFails, ReaderReturns
<1>3. CASE Hand
  <2>1. frames' \in Seq(Messages) /\ Len(frames') <= FrameChanSize
    BY <1>3, AppendProperties DEF Hand, ReaderShape
  <2>2. reader'.pc \in {"read", "returned"} /\ reader' = [pc |-> reader'.pc, msg |-> None]
    BY <1>3 DEF Hand, ReaderReturns
  <2>3. ReaderShape'
    BY <2>1, <2>2 DEF ReaderShape
  <2>4. WorldShape'
    BY <1>3 DEF Hand, ReaderReturns, WorldShape
  <2> QED
    BY <1>3, <2>3, <2>4, SameShapes, SameAccount, SameRow DEF Hand
<1>4. CASE HandGivesUp
  <2>1. ReaderShape' /\ WorldShape'
    BY <1>4 DEF HandGivesUp, ReaderReturns, ReaderShape, WorldShape
  <2> QED
    BY <1>4, <2>1, SameShapes, SameAccount, SameRow DEF HandGivesUp, ReaderReturns
<1> QED
  BY <1>1, <1>2, <1>3, <1>4 DEF ReaderSteps

\* What the session has to do next, and what it is left with.
LEMMA NextThing ==
  ASSUME SessionShape, session.todo # << >>
  PROVE  /\ session.started => Doing(session) \in Later /\ Tail(session.todo) \in Seq(Later)
         /\ ~session.started =>
              \/ /\ Doing(session) \in {Call, Tell("refused")} \cup Quiet
                 /\ Tail(session.todo) \in Opening
              \/ /\ Doing(session) = Tell("started")
                 /\ Tail(session.todo) \in Seq(Later)
<1>1. CASE session.started
  <2>1. session.todo \in Seq(Later)
    BY <1>1 DEF SessionShape
  <2> QED
    BY <1>1, <2>1, HeadTailProperties DEF Doing
<1>2. CASE ~session.started
  <2>1. session.todo \in Opening
    BY <1>2 DEF SessionShape
  <2>2. Emit("error", 0) \in Quiet /\ Emit("overloaded", 0) \in Quiet
    BY DEF Quiet, Events, Kinds, Emit
  <2>3. ASSUME NEW e PROVE Head(<<e>>) = e /\ Tail(<<e>>) = << >>
    OBVIOUS
  <2>4. ASSUME NEW d, NEW e PROVE Head(<<d, e>>) = d /\ Tail(<<d, e>>) = <<e>>
    OBVIOUS
  <2>5. ASSUME NEW c, NEW d, NEW e
        PROVE  Head(<<c, d, e>>) = c /\ Tail(<<c, d, e>>) = <<d, e>>
    OBVIOUS
  <2>6. ASSUME NEW n \in Nat PROVE <<Emit("ack", n)>> \in Seq(Later)
    <3>1. Emit("ack", n) \in Later
      BY DEF Later, Events, Kinds, Emit
    <3> QED
      BY <3>1
  <2>7. CASE session.todo \in {<<Emit("error", 0)>>, <<Emit("overloaded", 0)>>}
    BY <1>2, <2>2, <2>3, <2>7 DEF Opening, Doing
  <2>8. CASE session.todo = <<Tell("refused"), Emit("overloaded", 0)>>
    BY <1>2, <2>4, <2>8 DEF Opening, Doing
  <2>9. ASSUME NEW n \in Nat, session.todo = Started(n)
        PROVE  Doing(session) = Call /\ Tail(session.todo) \in Opening
    BY <2>5, <2>9 DEF Started, Opening, Doing
  <2>10. ASSUME NEW n \in Nat, session.todo = <<Tell("started"), Emit("ack", n)>>
         PROVE  Doing(session) = Tell("started") /\ Tail(session.todo) \in Seq(Later)
    BY <2>4, <2>6, <2>10 DEF Doing
  <2> QED
    BY <1>2, <2>1, <2>7, <2>8, <2>9, <2>10 DEF Opening
<1> QED
  BY <1>1, <1>2

LEMMA CallKeeps ==
  ASSUME ConnInv, CallBackend
  PROVE  ConnInv'
<1> USE DEF ConnInv, Shapes, world, channels, threads, watching, history
<1>1. /\ session.pc = "act" /\ session.todo # << >> /\ Doing(session).do = "call"
      /\ UNCHANGED <<world, channels, reader, writer, handler, hub, watching, history>>
  BY DEF CallBackend, Acting
<1>2. /\ session' \in [pc : {"act"}, todo : {Tail(session.todo), <<Emit("error", 0)>>},
                       stop : BOOLEAN, out : Nat \cup {None}, started : BOOLEAN,
                       speaking : BOOLEAN, utt : Nat]
      /\ session'.started = session.started
  BY <1>1 DEF CallBackend, Plan, Did, SessionShape
<1>3. /\ session.started => Tail(session.todo) \in Seq(Later)
      /\ ~session.started => Tail(session.todo) \in Opening
  BY <1>1, NextThing DEF Tell
<1>4. <<Emit("error", 0)>> \in Seq(Later) /\ <<Emit("error", 0)>> \in Opening
  <2>1. Emit("error", 0) \in Later
    BY DEF Later, Events, Kinds, Emit
  <2> QED
    BY <2>1 DEF Opening
<1>5. SessionShape'
  <2> HIDE DEF ConnInv, Shapes
  <2> QED
    BY <1>2, <1>3, <1>4 DEF SessionShape
<1> QED
  BY <1>1, <1>2, <1>5, SameShapes, SameAccount, SameRow

\* A session that has not started answers anything but a start by breaking
\* off, and one that has never starts again.
LEMMA PlansAreShaped ==
  ASSUME SessionShape, NEW msg \in Messages, NEW p \in Plans(session, msg)
  PROVE  /\ p \in [pc : {session.pc}, todo : {p.todo}, stop : BOOLEAN, out : {session.out},
                   started : {session.started}, speaking : BOOLEAN, utt : Nat]
         /\ p.todo \in IF session.started THEN Seq(Later) ELSE Opening
<1> DEFINE Shaped(q) ==
             /\ q \in [pc : {session.pc}, todo : {q.todo}, stop : BOOLEAN, out : {session.out},
                       started : {session.started}, speaking : BOOLEAN, utt : Nat]
             /\ q.todo \in IF session.started THEN Seq(Later) ELSE Opening
<1>1. ASSUME NEW todo, NEW stop \in BOOLEAN, NEW speaking \in BOOLEAN, NEW utt \in Nat,
             todo \in IF session.started THEN Seq(Later) ELSE Opening
      PROVE  /\ Shaped(Plan(todo, stop, session))
             /\ Shaped(Plan(todo, stop, [session EXCEPT !.speaking = speaking]))
             /\ Shaped(Plan(todo, stop, [session EXCEPT !.speaking = speaking, !.utt = utt]))
  BY <1>1 DEF Plan, SessionShape
<1>2. session.utt \in Nat /\ session.utt + 1 \in Nat /\ msg.seq \in Nat
  BY DEF SessionShape, Messages
<1>3. ASSUME NEW n \in Nat
      PROVE  /\ {Emit("error", n), Emit("partial", n), Emit("ack", n), Emit("final", n),
                 Emit("speech.start", n), Emit("partial.reset", n)} \subseteq Later
             /\ {Call, Tell("push"), Tell("failover")} \subseteq Later
  BY DEF Later, Events, Kinds, Emit
<1>4. ASSUME NEW b \in Later PROVE <<b>> \in Seq(Later)
  OBVIOUS
<1>5. ASSUME NEW b \in Later, NEW c \in Later, NEW d \in Later
      PROVE  /\ <<b, c>> \in Seq(Later) /\ <<b, c, d>> \in Seq(Later)
  OBVIOUS
<1>6. ASSUME NEW a \in Later, NEW b \in Later, NEW c \in Later, NEW d \in Later
      PROVE  <<a, b, c, d>> \in Seq(Later)
  OBVIOUS
<1>7. /\ Pushed(msg.seq) \in Seq(Later)
      /\ <<Emit("speech.start", session.utt)>> \o Pushed(msg.seq) \in Seq(Later)
  <2>1. Pushed(msg.seq) \in Seq(Later)
    BY <1>2, <1>3, <1>6 DEF Pushed
  <2>2. <<Emit("speech.start", session.utt)>> \in Seq(Later)
    BY <1>2, <1>3, <1>4
  <2> QED
    BY <2>1, <2>2, ConcatProperties
<1>8. Moved \in Seq(Later) /\ Moved \o <<Emit("partial", 0)>> \in Seq(Later)
  <2>1. Moved \in Seq(Later)
    BY <1>3, <1>5 DEF Moved
  <2>2. <<Emit("partial", 0)>> \in Seq(Later)
    BY <1>3, <1>4
  <2> QED
    BY <2>1, <2>2, ConcatProperties
<1>9. CASE msg.kind = "bad" \/ (msg.kind = "start") = session.started
  <2>1. p = Plan(<<Emit("error", 0)>>, TRUE, session)
    BY <1>9 DEF Plans, Breaks
  <2>2. <<Emit("error", 0)>> \in Seq(Later) /\ <<Emit("error", 0)>> \in Opening
    BY <1>3, <1>4 DEF Opening
  <2> QED
    BY <1>1, <1>2, <2>1, <2>2
<1>10. CASE msg.kind = "start" /\ ~session.started
  <2>1. p \in {Plan(Started(msg.seq), FALSE, session),
               Plan(<<Tell("refused"), Emit("overloaded", 0)>>, TRUE, session)}
    BY <1>10 DEF Plans
  <2>2. {Started(msg.seq), <<Tell("refused"), Emit("overloaded", 0)>>} \subseteq Opening
    BY <1>2 DEF Opening
  <2> HIDE DEF Shaped
  <2>3. Shaped(p)
    BY <1>1, <1>10, <2>1, <2>2
  <2> QED
    BY <2>3 DEF Shaped
<1>11. CASE msg.kind = "end" /\ session.started
  <2>1. p = Plan(<<Call, Emit("final", session.utt)>>, TRUE, session)
    BY <1>11 DEF Plans
  <2>2. <<Call, Emit("final", session.utt)>> \in Seq(Later)
    BY <1>2, <1>3, <1>5
  <2> HIDE DEF Shaped
  <2>3. Shaped(p)
    BY <1>1, <1>11, <2>1, <2>2
  <2> QED
    BY <2>3 DEF Shaped
<1>12. CASE msg.kind = "audio" /\ session.started /\ ~session.speaking
  <2>1. p \in {Plan(<< >>, FALSE, session),
               Plan(<<Emit("speech.start", session.utt)>> \o Pushed(msg.seq), FALSE,
                    [session EXCEPT !.speaking = TRUE])}
    BY <1>12 DEF Plans
  <2>2. << >> \in Seq(Later)
    OBVIOUS
  <2> HIDE DEF Shaped
  <2>3. Shaped(p)
    <3>1. Shaped(Plan(<< >>, FALSE, session))
      BY <1>1, <1>12, <2>2
    <3>2. Shaped(Plan(<<Emit("speech.start", session.utt)>> \o Pushed(msg.seq), FALSE,
                      [session EXCEPT !.speaking = TRUE]))
      BY <1>1, <1>7, <1>12
    <3> QED
      BY <2>1, <3>1, <3>2
  <2> QED
    BY <2>3 DEF Shaped
<1>13. CASE msg.kind = "audio" /\ session.started /\ session.speaking
  <2>1. p \in {Plan(Pushed(msg.seq), FALSE, session),
               Plan(Moved, FALSE, session), Plan(Moved \o <<Emit("partial", 0)>>, FALSE, session),
               Plan(<<Call, Emit("final", session.utt), Call>>, FALSE,
                    [session EXCEPT !.speaking = FALSE, !.utt = session.utt + 1])}
    BY <1>13 DEF Plans
  <2>2. <<Call, Emit("final", session.utt), Call>> \in Seq(Later)
    BY <1>2, <1>3, <1>5
  <2> HIDE DEF Shaped
  <2>3. Shaped(p)
    <3>1. Shaped(Plan(Pushed(msg.seq), FALSE, session))
      BY <1>1, <1>7, <1>13
    <3>2. /\ Shaped(Plan(Moved, FALSE, session))
          /\ Shaped(Plan(Moved \o <<Emit("partial", 0)>>, FALSE, session))
      BY <1>1, <1>8, <1>13
    <3>3. Shaped(Plan(<<Call, Emit("final", session.utt), Call>>, FALSE,
                      [session EXCEPT !.speaking = FALSE, !.utt = session.utt + 1]))
      BY <1>1, <1>2, <1>13, <2>2
    <3> QED
      BY <2>1, <3>1, <3>2, <3>3
  <2> QED
    BY <2>3 DEF Shaped
<1>14. session.started \in BOOLEAN /\ msg.kind \in {"start", "audio", "end", "bad"}
  BY DEF SessionShape, Messages
<1> QED
  BY <1>9, <1>10, <1>11, <1>12, <1>13, <1>14

LEMMA ReceiveKeeps ==
  ASSUME ConnInv, Receive
  PROVE  ConnInv'
<1> USE DEF ConnInv, Shapes, world, channels, threads, watching, history
<1>1. /\ session.pc = "receive" /\ frames # << >> /\ frames' = Tail(frames)
      /\ UNCHANGED <<world, framesClosed, events, eventsClosed, reader, writer, handler, hub,
                     watching, history>>
  BY DEF Receive
<1>2. Head(frames) \in Messages /\ Tail(frames) \in Seq(Messages)
      /\ Len(Tail(frames)) = Len(frames) - 1
  BY <1>1, HeadTailProperties DEF ReaderShape
<1>3. ReaderShape'
  BY <1>1, <1>2, LenProperties DEF ReaderShape
<1>4. PICK p \in Plans(session, Head(frames)) : session' = [p EXCEPT !.pc = "act"]
  BY DEF Receive
<1>5. SessionShape' /\ session'.started = session.started
  BY <1>2, <1>4, PlansAreShaped DEF SessionShape
<1> QED
  BY <1>1, <1>3, <1>5, SameShapes, SameAccount, SameRow

LEMMA SendKeeps ==
  ASSUME ConnInv, Send
  PROVE  ConnInv'
<1> USE DEF ConnInv, Shapes, world, channels, threads, watching, history
<1>1. /\ session.pc = "act" /\ session.todo # << >> /\ Doing(session).do = "send"
      /\ UNCHANGED <<world, frames, framesClosed, eventsClosed, reader, writer, handler, hub,
                     watching, told, written, writeFailed>>
  BY DEF Send, Acting
<1>2. /\ Doing(session) \in Events
      /\ ~session.started => Doing(session) \in Quiet
      /\ session.started => Tail(session.todo) \in Seq(Later)
      /\ ~session.started => Tail(session.todo) \in Opening
  BY <1>1, NextThing DEF Later, Call, Tell, Quiet
<1>3. CASE /\ Len(events) < EventChanSize /\ events' = Append(events, Doing(session))
           /\ sent' = sent + 1 /\ session' = Did(session)
  <2>1. SessionShape' /\ session'.started = session.started /\ session'.pc = "act"
    BY <1>1, <1>2, <1>3 DEF Did, SessionShape
  <2>2. events' \in Seq(Events) /\ Len(events') = Len(events) + 1
    BY <1>2, <1>3, AppendProperties DEF WriterShape
  <2>3. WriterShape'
    BY <1>1, <1>3, <2>2, LenProperties DEF WriterShape
  <2>4. WorldShape'
    BY <1>1, <1>3 DEF WorldShape
  <2>5. Account'
    <3>1. ~eventsClosed /\ ~eventsClosed'
      BY <1>1 DEF Account, ClosedLast
    <3>2. sent \in Nat /\ written \in Nat /\ Len(events) \in Nat
      BY LenProperties DEF WriterShape, WorldShape
    <3> QED
      BY <1>1, <1>3, <2>2, <3>1, <3>2 DEF Account, Writing, WriterIsServed, EventsAccounted,
         StopsWhenWritten, ClosedLast
  <2>6. RowInv'
    <3>1. ~session.started => events' \in Seq(Quiet)
      BY <1>2, <1>3, AppendProperties DEF RowInv, NothingToShow
    <3> QED
      BY <1>1, <2>1, <3>1 DEF RowInv, NothingToShow, RowIsCurrent, Live
  <2> QED
    BY <1>1, <1>3, <2>1, <2>3, <2>4, <2>5, <2>6, SameShapes
<1>4. CASE session' = Leaving(session) /\ UNCHANGED <<events, sent>>
  <2>1. SessionShape' /\ session'.started = session.started
    BY <1>4, EmptySeq DEF Leaving, SessionShape, Opening
  <2> QED
    BY <1>1, <1>4, <2>1, SameShapes, SameAccount, SameRow
<1> QED
  BY <1>3, <1>4 DEF Send

LEMMA TellHubKeeps ==
  ASSUME ConnInv, TellHub
  PROVE  ConnInv'
<1> USE DEF ConnInv, Shapes, world, channels, threads, watching, history
<1>1. /\ session.pc = "act" /\ session.todo # << >> /\ Doing(session).do = "hub"
      /\ UNCHANGED <<world, channels, reader, writer, handler, watching, history>>
      /\ session' = [Did(session) EXCEPT !.out = Notified(hub, hub'),
                       !.started = @ \/ Doing(session).kind = "started"]
  BY DEF TellHub, Acting
<1>2. /\ session'.pc = "act" /\ session'.todo = Tail(session.todo)
      /\ session'.started = (session.started \/ Doing(session).kind = "started")
      /\ session' \in [pc : {"act"}, todo : {Tail(session.todo)}, stop : BOOLEAN,
                       out : {Notified(hub, hub')}, started : BOOLEAN, speaking : BOOLEAN,
                       utt : Nat]
  BY <1>1 DEF Did, SessionShape
<1>3. \/ /\ Doing(session) = Tell("started") /\ ~session.started
         /\ Tail(session.todo) \in Seq(Later)
      \/ /\ Doing(session) \in {Tell("refused"), Tell("push"), Tell("failover")}
         /\ Tail(session.todo) \in IF session.started THEN Seq(Later) ELSE Opening
  <2>1. ASSUME NEW e \in Quiet \cup Events \cup {Call} PROVE e.do # "hub"
    BY DEF Quiet, Events, Call
  <2>2. session.started \in BOOLEAN
    BY DEF SessionShape
  <2> QED
    BY <1>1, <2>1, <2>2, NextThing DEF Later
<1>4. HubShape(hub') => Notified(hub, hub') \in Nat \cup {None}
  BY DEF Notified, HubShape
<1>5. CASE Doing(session) = Tell("started") /\ ~session.started
           /\ Tail(session.todo) \in Seq(Later)
  <2>1. hub' = SessionStarted(hub, Me)
    BY <1>5 DEF TellHub, Tell
  <2>2. Live(hub) = {} /\ told = [acked |-> 0, finals |-> 0]
    BY <1>5 DEF RowInv, NothingToShow
  <2>3. /\ HubShape(hub') /\ Live(hub') = {Me}
        /\ hub'.rows[Me].acked = 0 /\ hub'.rows[Me].finals = 0
    BY <2>1, <2>2, StartMakesRow
  <2>4. session'.started
    BY <1>2, <1>5 DEF Tell
  <2>5. SessionShape'
    BY <1>2, <1>4, <1>5, <2>3, <2>4 DEF SessionShape
  <2>6. RowInv'
    BY <1>1, <2>2, <2>3, <2>4 DEF RowInv, NothingToShow, RowIsCurrent
  <2>7. HubShape(hub)'
    BY <2>3 DEF HubShape, Live
  <2> QED
    BY <1>1, <1>2, <2>5, <2>6, <2>7, SameShapes, SameAccount
<1>6. CASE Doing(session) \in {Tell("refused"), Tell("push"), Tell("failover")}
           /\ Tail(session.todo) \in IF session.started THEN Seq(Later) ELSE Opening
  <2>1. hub' \in {Refused(hub, Me), PushObserved(hub, Me), Failover(hub, Me)}
    BY <1>6 DEF TellHub, Tell
  <2>2. HubShape(hub') /\ Alike(hub, hub')
    BY <2>1, CallsAreAlike
  <2>3. session'.started = session.started
    BY <1>2, <1>6 DEF Tell, SessionShape
  <2>4. SessionShape'
    BY <1>2, <1>4, <1>6, <2>2, <2>3 DEF SessionShape
  <2>5. RowInv'
    BY <1>1, <2>2, <2>3 DEF RowInv, NothingToShow, RowIsCurrent, Alike, Live
  <2>6. HubShape(hub)'
    BY <2>2 DEF HubShape, Live
  <2> QED
    BY <1>1, <1>2, <2>4, <2>5, <2>6, SameShapes, SameAccount
<1> QED
  BY <1>3, <1>5, <1>6

LEMMA RestOfSessionKeeps ==
  ASSUME ConnInv, FramesEnd \/ Acted \/ EndRow \/ CloseEvents \/ BroadcastBySession
  PROVE  ConnInv'
<1> USE DEF ConnInv, Shapes, world, channels, threads, watching, history
<1>1. CASE FramesEnd
  <2>1. SessionShape' /\ session'.started = session.started /\ session.pc = "receive"
    BY <1>1 DEF FramesEnd, SessionShape
  <2> QED
    BY <1>1, <2>1, SameShapes, SameAccount, SameRow DEF FramesEnd
<1>2. CASE Acted
  <2>1. SessionShape' /\ session'.started = session.started /\ session.pc = "act"
    BY <1>2 DEF Acted, SessionShape
  <2> QED
    BY <1>2, <2>1, SameShapes, SameAccount, SameRow DEF Acted
<1>3. CASE EndRow
  <2>1. /\ (HubShape(hub') /\ Live(hub') = {}) \/ hub' = hub
        /\ session.pc = "end"
        /\ UNCHANGED <<world, channels, reader, writer, handler, watching, history>>
    BY <1>3, EndTakesRow DEF EndRow
  <2>2. HubShape(hub')
    BY <2>1
  <2>3. Notified(hub, hub') \in Nat \cup {None}
    BY <2>2 DEF Notified, HubShape
  <2>4. SessionShape' /\ session'.started = session.started
    BY <1>3, <2>3 DEF EndRow, SessionShape
  <2>5. RowInv'
    BY <2>1, <2>4 DEF RowInv, NothingToShow, RowIsCurrent, Live
  <2>6. HubShape(hub)'
    BY <2>2 DEF HubShape, Live
  <2> QED
    BY <2>1, <2>4, <2>5, <2>6, SameShapes, SameAccount
<1>4. CASE CloseEvents
  <2>1. SessionShape' /\ session'.started = session.started /\ session'.pc = "returned"
    BY <1>4 DEF CloseEvents, SessionShape
  <2>2. WorldShape'
    BY <1>4 DEF CloseEvents, LeavesContext, WorldShape
  <2>3. Account'
    BY <1>4, <2>1 DEF CloseEvents, LeavesContext, Account, Writing, WriterIsServed,
       EventsAccounted, StopsWhenWritten, ClosedLast
  <2> QED
    BY <1>4, <2>1, <2>2, <2>3, SameShapes, SameRow DEF CloseEvents, LeavesContext
<1>5. CASE BroadcastBySession
  <2>1. SessionShape' /\ session'.started = session.started /\ session'.pc = session.pc
    BY <1>5 DEF BroadcastBySession, SessionShape
  <2>2. session.out \in Nat
    BY <1>5 DEF BroadcastBySession, SessionShape
  <2>3. ViewerShape'
    BY <1>5, <2>2, AppendProperties DEF BroadcastBySession, Deliver, Room, ViewerShape
  <2> QED
    BY <1>5, <2>1, <2>3, SameShapes, SameAccount, SameRow DEF BroadcastBySession
<1> QED
  BY <1>1, <1>2, <1>3, <1>4, <1>5

LEMMA SessionKeeps == ConnInv /\ SessionSteps => ConnInv'
BY ReceiveKeeps, CallKeeps, TellHubKeeps, SendKeeps, RestOfSessionKeeps DEF SessionSteps

LEMMA TakeKeeps ==
  ASSUME ConnInv, Take
  PROVE  ConnInv'
<1> USE DEF ConnInv, Shapes, world, channels, threads, watching, history
<1>1. /\ writer.pc = "receive" /\ events # << >> /\ events' = Tail(events)
      /\ writer' = [writer EXCEPT !.pc = "observe", !.ev = Head(events)]
      /\ UNCHANGED <<world, frames, framesClosed, eventsClosed, reader, session, handler, hub,
                     watching, history>>
  BY DEF Take
<1>2. /\ Head(events) \in Events /\ Tail(events) \in Seq(Events)
      /\ Len(events') = Len(events) - 1 /\ Len(events) \in Nat
  BY <1>1, HeadTailProperties, LenProperties DEF WriterShape
<1>3. WriterShape'
  <2>1. writer' \in [pc : {"observe"}, ev : Events, out : Nat \cup {None}]
    BY <1>1, <1>2 DEF WriterShape
  <2>2. EventChanSize \in Nat /\ Len(events') <= EventChanSize
    BY <1>2 DEF WriterShape
  <2> QED
    BY <1>1, <1>2, <2>1, <2>2 DEF WriterShape
<1>4. writer'.pc = "observe" /\ writer'.ev = Head(events)
  BY <1>1 DEF WriterShape
<1>5. Account'
  <2>1. sent \in Nat /\ written \in Nat
    BY DEF WorldShape
  <2> QED
    BY <1>1, <1>2, <1>4, <2>1 DEF Account, Writing, WriterIsServed, EventsAccounted,
       StopsWhenWritten, ClosedLast
<1>6. RowInv'
  <2>1. ~session.started => Head(events) \in Quiet /\ Tail(events) \in Seq(Quiet)
    BY <1>1, HeadTailProperties DEF RowInv, NothingToShow
  <2> QED
    BY <1>1, <1>4, <2>1 DEF RowInv, NothingToShow, RowIsCurrent, Live
<1> QED
  BY <1>1, <1>3, <1>5, <1>6, SameShapes

LEMMA ObserveKeeps ==
  ASSUME ConnInv, ObserveEvent
  PROVE  ConnInv'
<1> USE DEF ConnInv, Shapes, world, channels, threads, watching, history
<1> DEFINE ev == writer.ev
<1>1. /\ writer.pc = "observe" /\ ev \in Events
      /\ hub' = Observe(hub, Me, ev)
      /\ told' = [acked  |-> IF ev.kind = "ack" THEN ev.n ELSE told.acked,
                  finals |-> IF ev.kind = "final" THEN told.finals + 1 ELSE told.finals]
      /\ writer' = [writer EXCEPT !.pc = "write", !.out = Notified(hub, hub')]
      /\ UNCHANGED <<world, channels, reader, session, handler, watching, sent, written,
                     writeFailed>>
  BY DEF ObserveEvent, WriterShape
<1>2. /\ HubShape(hub') /\ Live(hub') = Live(hub)
      /\ Me \in Live(hub) =>
           /\ hub'.rows[Me].acked = IF ev.kind = "ack" THEN ev.n ELSE hub.rows[Me].acked
           /\ hub'.rows[Me].finals = IF ev.kind = "final" THEN hub.rows[Me].finals + 1
                                     ELSE hub.rows[Me].finals
  BY <1>1, ObservedCounts
<1>3. Notified(hub, hub') \in Nat \cup {None}
  BY <1>2 DEF Notified, HubShape
<1>4. WriterShape' /\ writer'.pc = "write"
  BY <1>1, <1>3 DEF WriterShape
<1>5. Account'
  BY <1>1, <1>4 DEF Account, Writing, WriterIsServed, EventsAccounted, StopsWhenWritten,
     ClosedLast
<1>6. RowInv'
  <2>1. NothingToShow'
    <3>1. ~session.started => ev.kind \notin {"ack", "final"}
      BY <1>1 DEF RowInv, NothingToShow, Quiet
    <3> QED
      BY <1>1, <1>2, <1>4, <3>1 DEF RowInv, NothingToShow
  <2>2. RowIsCurrent'
    BY <1>1, <1>2 DEF RowInv, RowIsCurrent
  <2> QED
    BY <2>1, <2>2 DEF RowInv
<1>7. HubShape(hub)'
  BY <1>2 DEF HubShape, Live
<1> QED
  BY <1>1, <1>4, <1>5, <1>6, <1>7, SameShapes

LEMMA WriteKeeps ==
  ASSUME ConnInv, Write
  PROVE  ConnInv'
<1> USE DEF ConnInv, Shapes, world, channels, threads, watching, history
<1>1. /\ writer.pc = "write"
      /\ UNCHANGED <<messages, cancelled, channels, reader, session, handler, hub, watching, told,
                     sent>>
  BY DEF Write
<1>2. sent \in Nat /\ written \in Nat /\ Len(events) \in Nat
  BY LenProperties DEF WorldShape, WriterShape
<1>3. ~cancelled /\ ~writeFailed /\ handler = "waiting" /\ socket \in {"open", "left"}
  BY <1>1 DEF Account, WriterIsServed, Writing
<1>4. CASE /\ written' = written + 1 /\ writer' = [writer EXCEPT !.pc = "receive", !.ev = None]
           /\ UNCHANGED <<socket, writeFailed>>
  <2>1. WriterShape' /\ writer'.pc = "receive"
    BY <1>1, <1>4 DEF WriterShape
  <2>2. WorldShape'
    BY <1>1, <1>2, <1>4 DEF WorldShape
  <2>3. Account'
    BY <1>1, <1>2, <1>4, <2>1 DEF Account, Writing, WriterIsServed, EventsAccounted,
       StopsWhenWritten, ClosedLast
  <2>4. RowInv'
    BY <1>1, <2>1 DEF RowInv, NothingToShow, RowIsCurrent, Live
  <2> QED
    BY <1>1, <1>4, <2>1, <2>2, <2>3, <2>4, SameShapes
<1>5. CASE /\ writer' = [writer EXCEPT !.pc = "done", !.ev = None]
           /\ writeFailed' = (writeFailed \/ socket = "open")
           /\ socket' = IF socket = "open" THEN "broken" ELSE socket
           /\ UNCHANGED written
  <2>1. WriterShape' /\ writer'.pc = "done"
    BY <1>1, <1>5 DEF WriterShape
  <2>2. WorldShape'
    BY <1>1, <1>5 DEF WorldShape
  <2>3. Account'
    BY <1>1, <1>3, <1>5, <2>1 DEF Account, Writing, WriterIsServed, EventsAccounted,
       StopsWhenWritten, ClosedLast
  <2>4. RowInv'
    BY <1>1, <2>1 DEF RowInv, NothingToShow, RowIsCurrent, Live
  <2> QED
    BY <1>1, <1>5, <2>1, <2>2, <2>3, <2>4, SameShapes
<1> QED
  BY <1>4, <1>5 DEF Write

LEMMA RestOfWriterKeeps ==
  ASSUME ConnInv, Drained \/ WriterReturns \/ BroadcastByWriter
  PROVE  ConnInv'
<1> USE DEF ConnInv, Shapes, world, channels, threads, watching, history
<1>1. CASE Drained
  <2>1. WriterShape' /\ writer'.pc = "done"
    BY <1>1 DEF Drained, WriterShape
  <2>2. Account'
    <3>1. sent \in Nat /\ written \in Nat /\ Len(events) = 0
      BY <1>1 DEF Drained, WorldShape
    <3> QED
      BY <1>1, <2>1, <3>1 DEF Drained, Account, Writing, WriterIsServed, EventsAccounted,
         StopsWhenWritten, ClosedLast
  <2>3. RowInv'
    BY <1>1, <2>1 DEF Drained, RowInv, NothingToShow, RowIsCurrent, Live
  <2> QED
    BY <1>1, <2>1, <2>2, <2>3, SameShapes DEF Drained
<1>2. CASE WriterReturns
  <2>1. WriterShape' /\ writer'.pc = "returned"
    BY <1>2 DEF WriterReturns, WriterShape
  <2>2. WorldShape'
    BY <1>2 DEF WriterReturns, WorldShape
  <2>3. Account'
    BY <1>2, <2>1 DEF WriterReturns, Account, Writing, WriterIsServed, EventsAccounted,
       StopsWhenWritten, ClosedLast
  <2>4. RowInv'
    BY <1>2, <2>1 DEF WriterReturns, RowInv, NothingToShow, RowIsCurrent, Live
  <2> QED
    BY <1>2, <2>1, <2>2, <2>3, <2>4, SameShapes DEF WriterReturns
<1>3. CASE BroadcastByWriter
  <2>1. WriterShape' /\ writer'.pc = writer.pc /\ writer'.ev = writer.ev
    BY <1>3 DEF BroadcastByWriter, WriterShape
  <2>2. writer.out \in Nat
    BY <1>3 DEF BroadcastByWriter, WriterShape
  <2>3. ViewerShape'
    BY <1>3, <2>2, AppendProperties DEF BroadcastByWriter, Deliver, Room, ViewerShape
  <2> QED
    BY <1>3, <2>1, <2>3, SameShapes, SameAccount, SameRow DEF BroadcastByWriter
<1> QED
  BY <1>1, <1>2, <1>3

LEMMA WriterKeeps == ConnInv /\ WriterSteps => ConnInv'
BY TakeKeeps, ObserveKeeps, WriteKeeps, RestOfWriterKeeps DEF WriterSteps

LEMMA HandlerAndClientKeep ==
  ASSUME ConnInv, HandlerReturns \/ ClientLeaves
  PROVE  ConnInv'
<1> USE DEF ConnInv, Shapes, world, channels, threads, watching, history
<1>1. CASE HandlerReturns
  <2>1. WorldShape'
    BY <1>1 DEF HandlerReturns, WorldShape
  <2>2. Account'
    BY <1>1 DEF HandlerReturns, Account, Writing, WriterIsServed, EventsAccounted,
       StopsWhenWritten, ClosedLast
  <2> QED
    BY <1>1, <2>1, <2>2, SameShapes, SameRow DEF HandlerReturns
<1>2. CASE ClientLeaves
  <2>1. WorldShape'
    BY <1>2 DEF ClientLeaves, WorldShape
  <2>2. Account'
    BY <1>2 DEF ClientLeaves, Account, Writing, WriterIsServed, EventsAccounted,
       StopsWhenWritten, ClosedLast
  <2> QED
    BY <1>2, <2>1, <2>2, SameShapes, SameRow DEF ClientLeaves
<1> QED
  BY <1>1, <1>2

LEMMA ViewingKeeps ==
  ASSUME ConnInv, Viewing
  PROVE  ConnInv'
<1> USE DEF ConnInv, Shapes, world, channels, threads, watching, history
<1>1. UNCHANGED <<world, channels, threads, hub, history>>
  BY DEF Viewing, Connect, Subscribe, Show, Disconnect, Attend
<1>2. ViewerShape'
  <2>1. CASE Connect
    BY <2>1 DEF Connect, Attend, ViewerShape
  <2>2. CASE Subscribe
    BY <2>2 DEF Subscribe, Attend, ViewerShape
  <2>3. CASE Show
    BY <2>3, HeadTailProperties, LenProperties DEF Show, Attend, ViewerShape
  <2>4. CASE Disconnect
    BY <2>4 DEF Disconnect, Attend, ViewerShape
  <2> QED
    BY <2>1, <2>2, <2>3, <2>4 DEF Viewing
<1> QED
  BY <1>1, <1>2, SameShapes, SameAccount, SameRow

LEMMA ConnNext == ConnInv /\ [Next]_vars => ConnInv'
<1>1. ASSUME ConnInv, UNCHANGED vars PROVE ConnInv'
  BY <1>1, SameShapes, SameAccount, SameRow
     DEF ConnInv, Shapes, vars, world, channels, threads, watching, history
<1> QED
  BY <1>1, ReaderKeeps, SessionKeeps, WriterKeeps, HandlerAndClientKeep, ViewingKeeps DEF Next

LEMMA ConnAlways == Spec => []ConnInv
BY ConnInit, ConnNext, PTL DEF Spec

-------------------------------------------------------------------------------
(* Results.                                                                *)

\* Every goroutine and channel of a connection keeps the shape conn.go gives
\* it, and no channel ever holds more than its buffer, whatever its size.
THEOREM ConnectionTypes == Spec => []TypeOK
<1>1. ConnInv => TypeOK
  BY DEF ConnInv, Shapes, SessionShape, ReaderShape, WriterShape, WorldShape, ViewerShape,
     HubShape, TypeOK
<1> QED
  BY <1>1, ConnAlways, PTL

\* The gateway closes a socket only over a connection whose every sent event
\* was written: the handler waits for the session and the writer, and neither
\* of them cancels the other's context (conn.go:141-173, 250-254).
THEOREM NothingSentIsEverDropped == Spec => []NothingSentIsDropped
<1>1. ConnInv => NothingSentIsDropped
  BY DEF ConnInv, Account, WriterIsServed, StopsWhenWritten, Writing, NothingSentIsDropped
<1> QED
  BY <1>1, ConnAlways, PTL

\* What the dashboard's row counts is what the client was told, though the
\* session makes the row and the writer keeps it (hub.go:399-403).
THEOREM RowAlwaysCurrent == Spec => []RowIsCurrent
<1>1. ConnInv => RowIsCurrent
  BY DEF ConnInv, RowInv
<1> QED
  BY <1>1, ConnAlways, PTL
===============================================================================
