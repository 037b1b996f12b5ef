---------------------------------- MODULE Hub ---------------------------------
(***************************************************************************)
(* The dashboard's observation point (internal/dash/hub.go), as operators  *)
(* on its value: one row per live session, the rows that ended last, the   *)
(* ring of notable events, and the starts of the utterances that have no   *)
(* final yet.  Every operation holds the hub's lock; sending a recorded    *)
(* event to the subscribers happens after it is released.                  *)
(*                                                                         *)
(* An event is its number, its kind and its session; the texts, latencies, *)
(* worker names and per-frame tallies a row also shows are left out.       *)
(***************************************************************************)
EXTENDS Integers, Sequences, SequencesExt

CONSTANTS
  EndedCapacity,    \* endedCapacity, 64
  LogCapacity,      \* streamLogCapacity, 256
  NotableCapacity   \* notableCapacity, 512

ASSUME HubAssumption == {EndedCapacity, LogCapacity, NotableCapacity} \subseteq Nat \ {0}

NewHub == [rows |-> << >>, ended |-> << >>, notable |-> << >>, nextID |-> 0, uttStart |-> {}]
Live(h) == DOMAIN h.rows

\* The last n elements.
Newest(seq, n) == IF Len(seq) <= n THEN seq ELSE SubSeq(seq, Len(seq) - n + 1, Len(seq))

\* recordLocked: a number, the row's log, and the ring if it is notable.
Stamp(h, s, kind) == [id |-> h.nextID + 1, s |-> s, kind |-> kind]
Logged(h, s, kind) ==
  IF s \notin Live(h) THEN h
  ELSE [h EXCEPT !.rows[s].log = Newest(Append(@, kind), LogCapacity)]
Numbered(h) == [h EXCEPT !.nextID = @ + 1]
Ringed(h, s, kind) ==
  [h EXCEPT !.notable = Newest(Append(@, Stamp(h, s, kind)), NotableCapacity)]
RecordedQuietly(h, s, kind) == Numbered(Logged(h, s, kind))
Recorded(h, s, kind)        == Numbered(Ringed(Logged(h, s, kind), s, kind))

-------------------------------------------------------------------------------
(* The calls a session makes.                                              *)

NewRow(s) == [id |-> s, state |-> "listening", finals |-> 0, acked |-> 0, log |-> << >>]

SessionStarted(h, s) ==
  Recorded([h EXCEPT !.rows = [r \in Live(h) \cup {s} |->
                                 IF r = s THEN NewRow(s) ELSE h.rows[r]]],
           s, "session.start")

\* The row leaves the live ones as it is, and takes its utterances with it.
SessionEnded(h, s) ==
  IF s \notin Live(h) THEN h
  ELSE LET g == Recorded([h EXCEPT !.rows[s].state = "ended"], s, "session.end")
       IN  [g EXCEPT !.rows = [r \in Live(h) \ {s} |-> g.rows[r]],
                     !.ended = Newest(Append(@, g.rows[s]), EndedCapacity),
                     !.uttStart = {u \in @ : u[1] # s}]

Failover(h, s) ==
  IF s \notin Live(h) THEN h
  ELSE Recorded([h EXCEPT !.rows[s].state = "failing over"], s, "failover")

\* A push landed: the recovery is complete.
PushObserved(h, s) ==
  IF s \in Live(h) /\ h.rows[s].state = "failing over"
  THEN [h EXCEPT !.rows[s].state = "speech"] ELSE h

\* A session that was refused has no row.
Refused(h, s) == Recorded(h, s, "overloaded")

-------------------------------------------------------------------------------
(* Observe: what the writer is about to tell the client.  An event is a    *)
(* kind and a number: the acknowledged seq, or the utterance.              *)

RowUpdate(row, ev) ==
  CASE ev.kind = "ack"          -> [row EXCEPT !.acked = ev.n]
    [] ev.kind = "partial"      -> IF row.state = "failing over" THEN row
                                   ELSE [row EXCEPT !.state = "speech"]
    [] ev.kind = "speech.start" -> [row EXCEPT !.state = "speech"]
    [] ev.kind = "final"        -> [row EXCEPT !.finals = @ + 1, !.state = "listening"]
    [] ev.kind = "error"        -> [row EXCEPT !.state = "ended"]
    [] OTHER                    -> row

Timed(h, s, ev) ==
  CASE ev.kind = "speech.start" -> [h EXCEPT !.uttStart = @ \cup {<<s, ev.n>>}]
    [] ev.kind = "final"        -> [h EXCEPT !.uttStart = @ \ {<<s, ev.n>>}]
    [] OTHER                    -> h

Observe(h, s, ev) ==
  LET g == Timed(IF s \in Live(h) THEN [h EXCEPT !.rows[s] = RowUpdate(@, ev)] ELSE h, s, ev)
  IN  CASE ev.kind = "ack"        -> g
        [] ev.kind = "overloaded" -> h
        [] ev.kind = "partial"    -> RecordedQuietly(g, s, ev.kind)
        [] OTHER                  -> Recorded(g, s, ev.kind)

\* Since: what a viewer that reconnects has missed, as far as the ring goes.
Since(h, id) == SelectSeq(h.notable, LAMBDA ev : ev.id > id)
===============================================================================
