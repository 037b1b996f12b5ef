------------------------------- MODULE Connection -----------------------------
(***************************************************************************)
(* One WebSocket connection's four goroutines (cmd/gateway/conn.go): the   *)
(* reader, the session, the writer and the handler that waits for them,    *)
(* over two bounded channels and one cancelled context; the dashboard hub  *)
(* the session and the writer report to, and one browser watching its feed *)
(* (internal/dash/sse.go).                                                 *)
(*                                                                         *)
(* What the session does with a message is module Session's business:      *)
(* here a message becomes a list of things to do, each a call to the       *)
(* backend, a call to the hub, or an event for the client.                 *)
(***************************************************************************)
EXTENDS Hub, FiniteSets

CONSTANTS
  Me,            \* the session's name
  None,
  FrameChanSize, EventChanSize,   \* 64 each in the gateway
  FeedSize,      \* a subscriber's buffer, 256
  MaxMessages,   \* bound: what the client sends
  MaxViews       \* bound: how often the browser connects

ASSUME ConnectionAssumption ==
  {FrameChanSize, EventChanSize, FeedSize, MaxMessages, MaxViews} \subseteq Nat \ {0}

VARIABLES
  socket,      \* "open", "left" by the client, "broken", or "closed" by the gateway
  messages,    \* how many the client sent
  cancelled,   \* the connection's context
  reader, frames, framesClosed,
  session, events, eventsClosed,
  writer, handler,
  hub,
  viewer, feed,
  told,        \* history: what the writer took from the channel, as a row would count it
  sent,        \* history: how many events the session put on the channel
  written,     \* history: how many of them the client was given
  writeFailed  \* history

channels == <<frames, framesClosed, events, eventsClosed>>
threads  == <<reader, session, writer, handler>>
world    == <<socket, messages, cancelled>>
watching == <<viewer, feed>>
history  == <<told, sent, written, writeFailed>>
vars == <<world, channels, threads, hub, watching, history>>

Init ==
  /\ socket = "open" /\ messages = 0 /\ cancelled = FALSE
  /\ reader = [pc |-> "read", msg |-> None]
  /\ session = [pc |-> "receive", todo |-> << >>, stop |-> FALSE, out |-> None,
                started |-> FALSE, speaking |-> FALSE, utt |-> 1]
  /\ writer = [pc |-> "receive", ev |-> None, out |-> None]
  /\ handler = "waiting"
  /\ frames = << >> /\ framesClosed = FALSE
  /\ events = << >> /\ eventsClosed = FALSE
  /\ hub = NewHub
  /\ viewer = [pc |-> "away", first |-> 0, last |-> 0, seen |-> {}, views |-> 0]
  /\ feed = << >>
  /\ told = [acked |-> 0, finals |-> 0]
  /\ sent = 0 /\ written = 0 /\ writeFailed = FALSE

-------------------------------------------------------------------------------
(* readLoop.                                                               *)

\* A decoded and validated frame, or the error it gives; text is ignored.
Read(kind) ==
  /\ reader.pc = "read" /\ socket = "open" /\ messages < MaxMessages
  /\ messages' = messages + 1
  /\ reader' = [pc |-> "offer", msg |-> [kind |-> kind, seq |-> messages + 1]]
  /\ UNCHANGED <<socket, cancelled, channels, session, writer, handler, hub, watching, history>>

ReaderReturns ==
  /\ reader' = [pc |-> "returned", msg |-> None]
  /\ framesClosed' = TRUE

\* The client has gone, the gateway has closed, or the context is cancelled:
\* the library then drops the connection.
ReadFails ==
  /\ reader.pc = "read" /\ (socket # "open" \/ cancelled)
  /\ socket' = IF socket = "open" THEN "broken" ELSE socket
  /\ ReaderReturns
  /\ UNCHANGED <<messages, cancelled, frames, events, eventsClosed, session, writer, handler,
                 hub, watching, history>>

\* A violation of the protocol is the last thing read.
Hand ==
  /\ reader.pc = "offer" /\ Len(frames) < FrameChanSize
  /\ frames' = Append(frames, reader.msg)
  /\ IF reader.msg.kind = "bad" THEN ReaderReturns
     ELSE reader' = [pc |-> "read", msg |-> None] /\ UNCHANGED framesClosed
  /\ UNCHANGED <<world, events, eventsClosed, session, writer, handler, hub, watching, history>>

\* Mutant: a wait that never gives way.
NeverGivesWay == FALSE

\* What a wait on a full channel gives way to: <-ctx.Done().
GivesWay == cancelled
HandGivesUp ==
  /\ reader.pc = "offer" /\ GivesWay
  /\ ReaderReturns
  /\ UNCHANGED <<world, frames, events, eventsClosed, session, writer, handler, hub,
                 watching, history>>

-------------------------------------------------------------------------------
(* sessionLoop.                                                            *)

Call          == [do |-> "call", kind |-> None, n |-> 0]
Tell(kind)    == [do |-> "hub", kind |-> kind, n |-> 0]
Emit(kind, n) == [do |-> "send", kind |-> kind, n |-> n]
Pushed(n) == <<Call, Tell("push"), Emit("partial", 0), Emit("ack", n)>>
Moved     == <<Call, Tell("failover"), Emit("partial.reset", 0)>>

\* Mutant: the client hears of its session before there is a row.
StartedLate(seq) == <<Call, Emit("ack", seq), Tell("started")>>

\* The row exists before the client hears of its session.
Started(seq) == <<Call, Tell("started"), Emit("ack", seq)>>

\* What a session makes of a message: what it does, whether it ends there,
\* and its new locals.
Plan(todo, stop, c) == [c EXCEPT !.todo = todo, !.stop = stop]
Breaks(c)           == {Plan(<<Emit("error", 0)>>, TRUE, c)}
Plans(c, msg) ==
  CASE msg.kind = "bad" \/ (msg.kind = "start") = c.started -> Breaks(c)
    [] msg.kind = "start" /\ ~c.started ->
         {Plan(Started(msg.seq), FALSE, c),
          Plan(<<Tell("refused"), Emit("overloaded", 0)>>, TRUE, c)}
    [] msg.kind = "end" /\ c.started -> {Plan(<<Call, Emit("final", c.utt)>>, TRUE, c)}
    [] msg.kind = "audio" /\ c.started /\ ~c.speaking ->
         {Plan(<< >>, FALSE, c),
          Plan(<<Emit("speech.start", c.utt)>> \o Pushed(msg.seq), FALSE,
               [c EXCEPT !.speaking = TRUE])}
    [] msg.kind = "audio" /\ c.started /\ c.speaking ->
         {Plan(Pushed(msg.seq), FALSE, c),
          Plan(Moved, FALSE, c), Plan(Moved \o <<Emit("partial", 0)>>, FALSE, c),
          Plan(<<Call, Emit("final", c.utt), Call>>, FALSE,
               [c EXCEPT !.speaking = FALSE, !.utt = @ + 1])}

Receive ==
  /\ session.pc = "receive" /\ frames # << >>
  /\ frames' = Tail(frames)
  /\ \E p \in Plans(session, Head(frames)) : session' = [p EXCEPT !.pc = "act"]
  /\ UNCHANGED <<world, framesClosed, events, eventsClosed, reader, writer, handler, hub,
                 watching, history>>

FramesEnd ==
  /\ session.pc = "receive" /\ frames = << >> /\ framesClosed
  /\ session' = [session EXCEPT !.pc = "end"]
  /\ UNCHANGED <<world, channels, reader, writer, handler, hub, watching, history>>

Doing(c)   == Head(c.todo)
Acting(do) == session.pc = "act" /\ session.todo # << >> /\ Doing(session).do = do
Did(c)     == [c EXCEPT !.todo = Tail(@)]
Leaving(c) == [c EXCEPT !.pc = "end", !.todo = << >>]

\* The number of the event to broadcast, if the hub has recorded one.
Notified(before, after) == IF after.notable = before.notable THEN None ELSE after.nextID

\* A backend call is answered, or fails as it does when the context ends.
CallBackend ==
  /\ Acting("call")
  /\ \/ session' = Did(session)
     \/ session' = Plan(<<Emit("error", 0)>>, TRUE, session)
  /\ UNCHANGED <<world, channels, reader, writer, handler, hub, watching, history>>

\* The hub is told, and what it recorded is broadcast once its lock is free.
TellHub ==
  LET kind == Doing(session).kind IN
  /\ Acting("hub") /\ session.out = None
  /\ hub' = CASE kind = "started"  -> SessionStarted(hub, Me)
              [] kind = "refused"  -> Refused(hub, Me)
              [] kind = "failover" -> Failover(hub, Me)
              [] kind = "push"     -> PushObserved(hub, Me)
  /\ session' = [Did(session) EXCEPT !.out = Notified(hub, hub'),
                   !.started = @ \/ kind = "started"]
  /\ UNCHANGED <<world, channels, reader, writer, handler, watching, history>>

\* trySend: the event is taken, or the context is done.
Send ==
  /\ Acting("send") /\ session.out = None
  /\ \/ /\ Len(events) < EventChanSize
        /\ events' = Append(events, Doing(session))
        /\ sent' = sent + 1
        /\ session' = Did(session)
     \/ /\ GivesWay
        /\ session' = Leaving(session)
        /\ UNCHANGED <<events, sent>>
  /\ UNCHANGED <<world, frames, framesClosed, eventsClosed, reader, writer, handler, hub,
                 watching, told, written, writeFailed>>

Acted ==
  /\ session.pc = "act" /\ session.todo = << >> /\ session.out = None
  /\ session' = [session EXCEPT !.pc = IF session.stop THEN "end" ELSE "receive"]
  /\ UNCHANGED <<world, channels, reader, writer, handler, hub, watching, history>>

\* The deferred cleanup: the hub first, and the channel closed last.
EndRow ==
  /\ session.pc = "end"
  /\ hub' = IF session.started THEN SessionEnded(hub, Me) ELSE hub
  /\ session' = [session EXCEPT !.pc = "close", !.out = Notified(hub, hub')]
  /\ UNCHANGED <<world, channels, reader, writer, handler, watching, history>>

\* Mutant: the session cancels the context as it ends.
CancelsContext == cancelled' = TRUE

\* The context is left alone: the writer may still be writing.
LeavesContext == UNCHANGED cancelled
CloseEvents ==
  /\ session.pc = "close" /\ session.out = None
  /\ eventsClosed' = TRUE
  /\ session' = [session EXCEPT !.pc = "returned"]
  /\ LeavesContext
  /\ UNCHANGED <<socket, messages, frames, framesClosed, events, reader, writer, handler, hub,
                 watching, history>>

-------------------------------------------------------------------------------
(* writeLoop, and the handler.                                             *)

Take ==
  /\ writer.pc = "receive" /\ events # << >>
  /\ events' = Tail(events)
  /\ writer' = [writer EXCEPT !.pc = "observe", !.ev = Head(events)]
  /\ UNCHANGED <<world, frames, framesClosed, eventsClosed, reader, session, handler, hub,
                 watching, history>>

ObserveEvent ==
  LET ev == writer.ev IN
  /\ writer.pc = "observe"
  /\ hub' = Observe(hub, Me, ev)
  /\ told' = [acked  |-> IF ev.kind = "ack" THEN ev.n ELSE told.acked,
              finals |-> IF ev.kind = "final" THEN told.finals + 1 ELSE told.finals]
  /\ writer' = [writer EXCEPT !.pc = "write", !.out = Notified(hub, hub')]
  /\ UNCHANGED <<world, channels, reader, session, handler, watching, sent, written, writeFailed>>

\* A write may time out or fail in the network at any time, and then the
\* library drops the connection.
Write ==
  /\ writer.pc = "write" /\ writer.out = None
  /\ \/ /\ socket = "open"
        /\ written' = written + 1
        /\ writer' = [writer EXCEPT !.pc = "receive", !.ev = None]
        /\ UNCHANGED <<socket, writeFailed>>
     \/ /\ writer' = [writer EXCEPT !.pc = "done", !.ev = None]
        /\ writeFailed' = (writeFailed \/ socket = "open")
        /\ socket' = IF socket = "open" THEN "broken" ELSE socket
        /\ UNCHANGED written
  /\ UNCHANGED <<messages, cancelled, channels, reader, session, handler, hub, watching, told, sent>>

Drained ==
  /\ writer.pc = "receive" /\ events = << >> /\ eventsClosed
  /\ writer' = [writer EXCEPT !.pc = "done"]
  /\ UNCHANGED <<world, channels, reader, session, handler, hub, watching, history>>

\* close(done), which the handler waits for, and then the cancellation.
WriterReturns ==
  /\ writer.pc = "done"
  /\ writer' = [writer EXCEPT !.pc = "returned"]
  /\ cancelled' = TRUE
  /\ UNCHANGED <<socket, messages, channels, reader, session, handler, hub, watching, history>>

HandlerReturns ==
  /\ handler = "waiting" /\ session.pc = "returned" /\ writer.pc \in {"done", "returned"}
  /\ handler' = "returned"
  /\ socket' = IF socket = "open" THEN "closed" ELSE socket
  /\ cancelled' = TRUE
  /\ UNCHANGED <<messages, channels, reader, session, writer, hub, watching, history>>

ClientLeaves ==
  /\ socket = "open"
  /\ socket' = "left"
  /\ UNCHANGED <<messages, cancelled, channels, threads, hub, watching, history>>

-------------------------------------------------------------------------------
(* The feed.                                                               *)

Subscribed == viewer.pc = "watching"

\* Mutant: one event too many.
RoomForOneMore == Len(feed) <= FeedSize

Room == Len(feed) < FeedSize

\* A subscriber whose buffer is full is skipped, not waited for.
Deliver(id) == feed' = IF Subscribed /\ Room THEN Append(feed, id) ELSE feed

BroadcastBySession ==
  /\ session.out # None
  /\ Deliver(session.out)
  /\ session' = [session EXCEPT !.out = None]
  /\ UNCHANGED <<world, channels, reader, writer, handler, hub, viewer, history>>
BroadcastByWriter ==
  /\ writer.out # None
  /\ Deliver(writer.out)
  /\ writer' = [writer EXCEPT !.out = None]
  /\ UNCHANGED <<world, channels, reader, session, handler, hub, viewer, history>>

Attend(v) == viewer' = v /\ UNCHANGED <<world, channels, threads, hub, history>>
Ids(evs)  == {evs[i].id : i \in DOMAIN evs}

\* The browser connects: what it missed is replayed to it, if it has seen any.
Connect ==
  LET missed == IF viewer.last = 0 THEN << >> ELSE Since(hub, viewer.last) IN
  /\ viewer.pc = "away" /\ viewer.views < MaxViews
  /\ Attend([viewer EXCEPT !.pc = "replayed", !.views = @ + 1, !.seen = @ \cup Ids(missed),
                           !.last = IF missed = << >> THEN @ ELSE Last(missed).id])
  /\ UNCHANGED feed

Subscribe ==
  /\ viewer.pc = "replayed"
  /\ Attend([viewer EXCEPT !.pc = "watching"])
  /\ feed' = << >>

Show ==
  /\ Subscribed /\ feed # << >>
  /\ Attend([viewer EXCEPT !.first = IF @ = 0 THEN Head(feed) ELSE @,
                           !.last = Head(feed), !.seen = @ \cup {Head(feed)}])
  /\ feed' = Tail(feed)

Disconnect ==
  /\ Subscribed
  /\ Attend([viewer EXCEPT !.pc = "away"])
  /\ feed' = << >>

-------------------------------------------------------------------------------
ReaderSteps  == ReadFails \/ Hand \/ HandGivesUp
SessionSteps == \/ Receive \/ FramesEnd \/ CallBackend \/ TellHub \/ Send \/ Acted \/ EndRow
                \/ CloseEvents \/ BroadcastBySession
WriterSteps  == Take \/ ObserveEvent \/ Write \/ Drained \/ WriterReturns \/ BroadcastByWriter
Viewing      == Connect \/ Subscribe \/ Show \/ Disconnect

Next ==
  \/ \E msg \in {"start", "audio", "end", "bad"} : Read(msg)
  \/ ReaderSteps \/ SessionSteps \/ WriterSteps \/ HandlerReturns \/ ClientLeaves
  \/ Viewing

Spec == Init /\ [][Next]_vars

\* The scheduler runs every goroutine that can run; a backend call and a
\* write have timeouts of their own.  Nobody owes the gateway a message.
FairSpec == /\ Spec
            /\ WF_vars(ReaderSteps) /\ WF_vars(SessionSteps) /\ WF_vars(WriterSteps)
            /\ WF_vars(HandlerReturns)

-------------------------------------------------------------------------------
(* Properties.                                                             *)

Kinds  == {"ack", "partial", "partial.reset", "speech.start", "final", "error", "overloaded"}
Events == [do : {"send"}, kind : Kinds, n : Nat]

\* Every goroutine and channel of a connection has the shape conn.go gives
\* it, and no channel holds more than its buffer.
TypeOK ==
  /\ socket \in {"open", "left", "broken", "closed"}
  /\ messages \in 0..MaxMessages
  /\ {cancelled, framesClosed, eventsClosed, writeFailed} \subseteq BOOLEAN
  /\ reader.pc \in {"read", "offer", "returned"}
  /\ session.pc \in {"receive", "act", "end", "close", "returned"}
  /\ writer.pc \in {"receive", "observe", "write", "done", "returned"}
  /\ writer.ev \in Events \cup {None}
  /\ handler \in {"waiting", "returned"}
  /\ Len(frames) <= FrameChanSize
  /\ events \in Seq(Events) /\ Len(events) <= EventChanSize
  /\ Len(feed) <= FeedSize
  /\ viewer.pc \in {"away", "replayed", "watching"}
  /\ Live(hub) \subseteq {Me}
  /\ {sent, written, hub.nextID} \subseteq Nat

\* Cancelling in the wrong place once raced the last event of a session
\* against its write (conn.go:151-158, 165-173, 250-254): what a session
\* sent is written before the gateway closes the socket, unless the client
\* left or a write failed in the network.
NothingSentIsDropped ==
  handler = "returned" /\ socket # "left" /\ ~writeFailed => written = sent

\* "Everything the client is told, the dashboard sees" (hub.go:399-403),
\* although the row is made by one goroutine and kept by another: a live
\* row shows the last acknowledgement and every final the client was told.
RowIsCurrent ==
  Me \in Live(hub) =>
    hub.rows[Me].acked = told.acked /\ hub.rows[Me].finals = told.finals

AllReturned == \A pc \in {reader.pc, session.pc, writer.pc, handler} : pc = "returned"

\* A failure in any one of the loops promptly unblocks the others
\* (conn.go:141-145), full channels and a browser that reads nothing
\* notwithstanding: a connection that has lost its socket, or whose session
\* has ended, has all its goroutines return.
GoroutinesEnd == (socket # "open" \/ session.pc = "end") ~> AllReturned

\* "Cleared on final; bounded by live sessions" (hub.go:159): refuted by
\* a speech.start the writer reports after the row has ended (see the README).
StartsAreLive == {u[1] : u \in hub.uttStart} \subseteq Live(hub)

\* "The server replays the notable ring and the browser closes its own gap"
\* (sse.go:153-155): no event between the first and the last a watching
\* browser was shown is missing from what it was shown or is about to be.
ClosesItsGap ==
  Subscribed =>
    \A ev \in {hub.notable[i] : i \in DOMAIN hub.notable} :
      viewer.first < ev.id /\ ev.id < viewer.last =>
        ev.id \in viewer.seen \cup {feed[i] : i \in DOMAIN feed} \cup {session.out, writer.out}
===============================================================================
