-------------------------------- MODULE Fleet ---------------------------------
(***************************************************************************)
(* The sessions of one gateway sharing its router and its admission        *)
(* control: internal/router picks a worker for each and learns from what   *)
(* they report, internal/admission bounds how many there are.              *)
(*                                                                         *)
(* Router.Pick holds no lock across its scan, so a pick is one step for    *)
(* the snapshot, two per worker and one or two to commit; a report is a    *)
(* step that reads the peers and a step that decides.  What a session      *)
(* does on its worker between two reports is module Session's business.    *)
(***************************************************************************)
EXTENDS Health

CONSTANTS
  Workers,       \* every worker that may join the fleet
  BootWorkers,   \* those that answered at startup
  Sessions,      \* connections; one that ends is used for a later client
  None,          \* no worker
  Key,           \* each worker's compatibility key
  Capable,       \* the workers whose capabilities allow online sessions
  Stateless,     \* STATELESS_STREAM: pushes go through Bifrost's pool
  Shared,        \* the workers that advertise a shared KV tier
  Drainable,     \* bound: the workers an operator drains
  Mortal,        \* bound: the workers that stop answering
  Limited,       \* the workers with a rate-limit bucket; a nil one allows all
  Latencies,     \* the latencies a push may take, in milliseconds
  MaxSessions,   \* the hard ceiling of admission control
  MaxAttempts    \* coord.MaxFailoverAttempts, 3 in the gateway

ASSUME FleetAssumption ==
  /\ BootWorkers \subseteq Workers /\ None \notin Workers
  /\ Latencies \subseteq Nat \ {0}
  /\ MaxSessions \in Nat /\ MaxAttempts \in Nat \ {0}
  /\ Stateless \in BOOLEAN
  /\ IsFiniteSet(Sessions)

VARIABLES
  fleet,        \* Router.workers
  health,       \* each worker's circuit breaker and windows
  bucket,       \* each worker's rate-limit bucket
  outstanding,  \* Worker.outstanding
  admitted,     \* Controller.admitted
  conn,         \* each session's locals
  up,           \* the workers that answer
  suspect       \* nodeProbe's goroutines whose Health call has just failed

shared == <<bucket, outstanding, admitted>>
world  == <<fleet, up, suspect>>
vars   == <<shared, world, health, conn>>

NoScan == [todo |-> {}, shut |-> {}, cand |-> None, best |-> None,
           score |-> 0, probe |-> None]
NoReport == [worker |-> None, from |-> None, ok |-> FALSE, latency |-> 0]
\* A connection without a session.
Closed == [pc |-> "off", owner |-> None, target |-> None, excluded |-> {},
           attempt |-> 1, scan |-> NoScan, report |-> NoReport, next |-> "off",
           trial |-> None]

Init ==
  /\ fleet = BootWorkers /\ up = Workers /\ suspect = {}
  /\ health = [w \in Workers |-> NewWorker]
  /\ bucket = [w \in Workers |-> NewBucket]
  /\ outstanding = [w \in Workers |-> 0]
  /\ admitted = 0
  /\ conn = [s \in Sessions |-> Closed]

Shut == {w \in fleet : health[w].draining}
HasBudget(w) == w \in Limited => Available(bucket[w])
Becomes(s, c) == conn' = [conn EXCEPT ![s] = c]
\* Router.Report is called for w, and the session goes on at next.  from: the
\* worker whose answer, or silence, the outcome is.
Reports(c, w, from, ok, latency, next) ==
  [c EXCEPT !.pc = "report", !.next = next,
            !.report = [NoReport EXCEPT !.worker = w, !.from = from, !.ok = ok,
                                        !.latency = latency]]

-------------------------------------------------------------------------------
(* session.start.                                                          *)

\* Controller.Admit, a compare-and-swap; at the ceiling nothing happens.
Admit(s) ==
  /\ conn[s].pc = "off"
  /\ admitted < MaxSessions
  /\ admitted' = admitted + 1
  /\ Becomes(s, [Closed EXCEPT !.pc = "pick"])
  /\ UNCHANGED <<bucket, outstanding, world, health>>

-------------------------------------------------------------------------------
(* Router.Pick.                                                            *)

\* The time and the list of workers are read once.
PickBegins(s) ==
  LET c == conn[s] IN
  /\ c.pc = "pick"
  /\ Becomes(s, [c EXCEPT !.pc = "scan", !.scan =
       [NoScan EXCEPT !.todo = fleet \ c.excluded, !.shut = Shut]])
  /\ UNCHANGED <<shared, world, health>>

\* The filter, on the next worker of a random order.
Filter(s, w) ==
  LET c      == conn[s]
      usable == /\ Eligible(health[w])
                /\ HasBudget(w)
                /\ w \in Capable
  IN  /\ c.pc = "scan" /\ c.scan.cand = None /\ w \in c.scan.todo
      /\ Becomes(s, [c EXCEPT !.scan.todo = @ \ {w},
                              !.scan.cand = IF usable THEN w ELSE None])
      /\ UNCHANGED <<shared, world, health>>

\* (Outstanding + 1) * p95, doubled unless the worker shares the session's key.
Score(c, w) ==
  LET p95       == P95(health[w].latencies)
      preferred == c.owner # None /\ Key[w] = Key[c.owner]
  IN  (outstanding[w] + 1) * (IF p95 = 0 THEN 1 ELSE p95) * (IF preferred THEN 1 ELSE 2)

\* A worker due for a trial is held out of the scoring.
Consider(s) ==
  LET c == conn[s]
      k == c.scan
      w == k.cand
      better == k.best = None \/ Score(c, w) < k.score
      held   == [k EXCEPT !.cand = None, !.probe = IF k.probe = None THEN w ELSE k.probe]
      ahead  == [k EXCEPT !.cand = None, !.best = w, !.score = Score(c, w)]
      behind == [k EXCEPT !.cand = None]
  IN  /\ c.pc = "scan" /\ w # None
      /\ Becomes(s, [c EXCEPT !.scan = IF DueForProbe(health[w]) THEN held
                                       ELSE IF better THEN ahead ELSE behind])
      /\ UNCHANGED <<shared, world, health>>

Scanned(c) == c.pc = "scan" /\ c.scan.todo = {} /\ c.scan.cand = None
TryingWhenAlone(c) == c.scan.probe # None /\ c.scan.best = None
Trying(c)  == c.scan.probe # None /\ HasBudget(c.scan.probe)
Winning(c) == c.scan.best # None /\ HasBudget(c.scan.best)
Chosen(c, w, pc) == [c EXCEPT !.pc = pc, !.target = w, !.scan = NoScan]
Takes(w)   == bucket' = IF w \in Limited THEN [bucket EXCEPT ![w] = Spent(@)] ELSE bucket

\* The trial is preferred to the best score; its token is taken first.
TakeProbe(s) ==
  LET c == conn[s] IN
  /\ Scanned(c) /\ Trying(c)
  /\ Takes(c.scan.probe)
  /\ Becomes(s, Chosen(c, c.scan.probe, "begin"))
  /\ UNCHANGED <<outstanding, admitted, world, health>>

Begin(s) ==
  LET c == conn[s] IN
  /\ c.pc = "begin"
  /\ health' = [health EXCEPT ![c.target] = BeginProbe(@)]
  /\ Becomes(s, [c EXCEPT !.pc = "call",
       !.trial = IF health[c.target].status = "ejected" THEN c.target ELSE None])
  /\ UNCHANGED <<shared, world>>

TakeBest(s) ==
  LET c == conn[s] IN
  /\ Scanned(c) /\ ~Trying(c) /\ Winning(c)
  /\ Takes(c.scan.best)
  /\ Becomes(s, Chosen(c, c.scan.best, "call"))
  /\ UNCHANGED <<outstanding, admitted, world, health>>

\* ErrNoCapacity ends the session, whether it was opening or failing over.
NoCapacity(s) ==
  LET c == conn[s] IN
  /\ Scanned(c) /\ ~Trying(c) /\ ~Winning(c)
  /\ Becomes(s, [c EXCEPT !.pc = "leave", !.scan = NoScan])
  /\ UNCHANGED <<shared, world, health>>

-------------------------------------------------------------------------------
(* openWithRetry, openStatelessWithRetry and HandleBackendFailure: what is *)
(* done with the worker that was picked.                                   *)

\* The worker opened a handle, or recovered the session: it takes the bind
\* over from the owner, if there was one.
Bound(owner, w) ==
  [v \in Workers |-> outstanding[v] + (IF v = w THEN 1 ELSE 0)
                                    - (IF v = owner THEN 1 ELSE 0)]

Opened(s) ==
  LET c == conn[s]
      w == c.target
  IN  /\ c.pc = "call" /\ ~Stateless /\ w \in up
      /\ outstanding' = Bound(c.owner, w)
      /\ Becomes(s, Reports([c EXCEPT !.owner = w, !.target = None, !.excluded = {},
                                      !.attempt = 1], w, w, TRUE, 0, "bound"))
      /\ UNCHANGED <<bucket, admitted, world, health>>

\* The virtual handle of a stateless session needs no call to the worker.
OpenedVirtually(s) ==
  LET c == conn[s]
      w == c.target
  IN  /\ c.pc = "call" /\ Stateless /\ w \in Shared
      /\ outstanding' = Bound(None, w)
      /\ Becomes(s, Reports([c EXCEPT !.owner = w, !.target = None, !.excluded = {},
                                      !.attempt = 1], w, None, TRUE, 0, "bound"))
      /\ UNCHANGED <<bucket, admitted, world, health>>

\* The next attempt, without this worker, as long as there is one.
Retry(c) == IF c.attempt < MaxAttempts THEN "pick" ELSE "leave"
Excluding(c) == [c EXCEPT !.target = None, !.excluded = @ \cup {c.target},
                          !.attempt = IF @ < MaxAttempts THEN @ + 1 ELSE @]

ExcludedUnreported(c) == [Excluding(c) EXCEPT !.pc = Retry(c)]
ExcludedReported(c)   == Reports(Excluding(c), c.target, c.target, FALSE, 0, Retry(c))

\* Nobody answers, and the router hears of it.
OpenFails(s) ==
  LET c == conn[s] IN
  /\ c.pc = "call" /\ ~Stateless /\ c.target \notin up
  /\ Becomes(s, ExcludedReported(c))
  /\ UNCHANGED <<shared, world, health>>

\* A worker outside the shared tier is passed over, and no outcome is reported.
OpenedNowhere(s) ==
  LET c == conn[s] IN
  /\ c.pc = "call" /\ Stateless /\ c.target \notin Shared
  /\ Becomes(s, [ExcludedUnreported(c) EXCEPT !.trial = None])
  /\ UNCHANGED <<shared, world, health>>

-------------------------------------------------------------------------------
(* dispatchChunk.                                                          *)

\* Who may serve a session's push: its worker, or any peer of its pool.
Pool(w)    == {v \in fleet : Key[v] = Key[w]}
Servers(w) == IF Stateless THEN Pool(w) \cap up ELSE {w} \cap up

\* The outcome is reported for the session's worker, whoever served it.
PushAnswered(s, v, latency) ==
  LET c == conn[s] IN
  /\ c.pc = "bound" /\ v \in Servers(c.owner)
  /\ Becomes(s, Reports(c, c.owner, v, TRUE, latency, "bound"))
  /\ UNCHANGED <<shared, world, health>>

\* A failover excludes its owner; a stateless session has none and ends.
AfterFailure(c) ==
  IF Stateless THEN Reports(c, c.owner, c.owner, FALSE, 0, "leave")
  ELSE Reports([c EXCEPT !.excluded = {c.owner}, !.attempt = 1], c.owner, c.owner, FALSE, 0, "pick")

PushFails(s) ==
  LET c == conn[s] IN
  /\ c.pc = "bound" /\ Servers(c.owner) = {}
  /\ Becomes(s, AfterFailure(c))
  /\ UNCHANGED <<shared, world, health>>

\* A 429 zeroes the bucket and blocks it, and then counts as a failure.
PushRefused(s) ==
  LET c == conn[s] IN
  /\ c.pc = "bound" /\ Servers(c.owner) # {}
  /\ bucket' = IF c.owner \in Limited THEN [bucket EXCEPT ![c.owner] = Refused] ELSE bucket
  /\ Becomes(s, AfterFailure(c))
  /\ UNCHANGED <<outstanding, admitted, world, health>>

-------------------------------------------------------------------------------
(* Router.Report.                                                          *)

Peers(w) == [v \in Pool(w) \ {w} |-> health[v]]

\* The outcome joins its worker's record; peerP95 has read the peers' before.
Report(s) ==
  LET c == conn[s]
      r == c.report
  IN  /\ c.pc = "report"
      /\ health' = [health EXCEPT ![r.worker] =
                      Reported(@, r.ok, r.latency, Baseline(Peers(r.worker)))]
      /\ Becomes(s, [c EXCEPT !.pc = c.next, !.report = NoReport, !.next = "off",
                              !.trial = IF @ = r.worker THEN None ELSE @])
      /\ UNCHANGED <<shared, world>>

-------------------------------------------------------------------------------
(* The end of a session: the slot first, then the bind.                    *)

\* The client ends the session, or its connection breaks.
Leave(s) ==
  /\ conn[s].pc = "bound"
  /\ Becomes(s, [conn[s] EXCEPT !.pc = "leave"])
  /\ UNCHANGED <<shared, world, health>>

ReleasedIfBound(c) == IF c.owner = None THEN admitted ELSE admitted - 1
Released(c)        == admitted - 1

Release(s) ==
  /\ conn[s].pc = "leave"
  /\ admitted' = Released(conn[s])
  /\ Becomes(s, [Closed EXCEPT !.pc = "unbind", !.owner = conn[s].owner])
  /\ UNCHANGED <<bucket, outstanding, world, health>>

Unbind(s) ==
  /\ conn[s].pc = "unbind"
  /\ outstanding' = Bound(conn[s].owner, None)
  /\ Becomes(s, Closed)
  /\ UNCHANGED <<bucket, admitted, world, health>>

-------------------------------------------------------------------------------
(* nodeProbe, the control plane, and the world.                            *)

HealthCallFails(w) ==
  /\ w \in fleet \ (up \cup suspect)
  /\ suspect' = suspect \cup {w}
  /\ UNCHANGED <<shared, fleet, up, health, conn>>

\* Router.MarkUnhealthy, whatever has happened since the call failed.
MarkUnhealthy(w) ==
  /\ w \in suspect
  /\ suspect' = suspect \ {w}
  /\ health' = [health EXCEPT ![w] = IF @.status = "ejected" THEN @ ELSE Eject(@)]
  /\ UNCHANGED <<shared, fleet, up, conn>>

Reopened(c, w) == [c EXCEPT !.scan.shut = @ \ {w}]
SetDraining(w, on) ==
  /\ w \in fleet \cap Drainable /\ health[w].draining # on
  /\ health' = [health EXCEPT ![w].draining = on]
  /\ conn' = IF on THEN conn ELSE [s \in Sessions |-> Reopened(conn[s], w)]
  /\ UNCHANGED <<shared, world>>

\* Router.Add, after a health check.
Add(w) ==
  /\ w \in up \ fleet
  /\ fleet' = fleet \cup {w}
  /\ UNCHANGED <<shared, up, suspect, health, conn>>

TimerExpires(w) ==
  /\ health[w].status = "ejected" /\ ~health[w].expired
  /\ health' = [health EXCEPT ![w] = Expired(@)]
  /\ UNCHANGED <<shared, world, conn>>

Refill(w) ==
  /\ bucket[w].tokens < Limit
  /\ bucket' = [bucket EXCEPT ![w] = Refilled(@)]
  /\ UNCHANGED <<outstanding, admitted, world, health, conn>>

RetryAfterPasses(w) ==
  /\ bucket[w].blocked
  /\ bucket' = [bucket EXCEPT ![w].blocked = FALSE]
  /\ UNCHANGED <<outstanding, admitted, world, health, conn>>

GoesDown(w) ==
  /\ w \in up \cap Mortal
  /\ up' = up \ {w}
  /\ UNCHANGED <<shared, fleet, suspect, health, conn>>

ComesUp(w) ==
  /\ w \in Workers \ up
  /\ up' = up \cup {w}
  /\ UNCHANGED <<shared, fleet, suspect, health, conn>>

-------------------------------------------------------------------------------
Picking(s)  == PickBegins(s) \/ (\E w \in Workers : Filter(s, w)) \/ Consider(s)
               \/ TakeProbe(s) \/ Begin(s) \/ TakeBest(s) \/ NoCapacity(s)
Opening(s)  == Opened(s) \/ OpenedVirtually(s) \/ OpenFails(s) \/ OpenedNowhere(s)
Ending(s)   == Release(s) \/ Unbind(s)
Pushing(s)  == (\E v \in Workers, l \in Latencies : PushAnswered(s, v, l))
               \/ PushFails(s) \/ PushRefused(s)
\* What a session's goroutine goes on with by itself.
Proceeds(s) == Picking(s) \/ Opening(s) \/ Report(s) \/ Ending(s)

Timers(w)  == TimerExpires(w) \/ Refill(w) \/ RetryAfterPasses(w)
Control(w) == HealthCallFails(w) \/ MarkUnhealthy(w) \/ Add(w)
              \/ \E on \in BOOLEAN : SetDraining(w, on)
Next ==
  \/ \E s \in Sessions : Admit(s) \/ Proceeds(s) \/ Pushing(s) \/ Leave(s)
  \/ \E w \in Workers : Timers(w) \/ Control(w) \/ GoesDown(w) \/ ComesUp(w)

Spec == Init /\ [][Next]_vars

\* Goroutines run, every call has a timeout, and time passes; nobody has to
\* connect, push or leave, and a worker need not come back.
Fairness ==
  /\ \A s \in Sessions : WF_vars(Proceeds(s))
  /\ \A w \in Workers : WF_vars(TimerExpires(w)) /\ WF_vars(Refill(w))
                          /\ WF_vars(RetryAfterPasses(w)) /\ WF_vars(MarkUnhealthy(w))
FairSpec == Spec /\ Fairness

-------------------------------------------------------------------------------
(* Properties.                                                             *)

Scans == [todo : SUBSET Workers, shut : SUBSET Workers,
          cand : Workers \cup {None}, best : Workers \cup {None}, score : Nat,
          probe : Workers \cup {None}]

\* Types: the records of internal/router's workers and buckets, the counters
\* of the router and of admission control, and each session's locals.
TypeOK ==
  /\ fleet \subseteq Workers /\ up \subseteq Workers /\ suspect \subseteq fleet
  /\ \A w \in Workers :
       /\ health[w].status \in {"healthy", "degraded", "ejected"}
       /\ Len(health[w].outcomes) <= Window /\ Len(health[w].latencies) <= Window
       /\ bucket[w].tokens \in 0..Limit
       /\ outstanding[w] \in 0..Cardinality(Sessions)
  /\ admitted \in 0..MaxSessions
  /\ \A s \in Sessions :
       /\ conn[s].pc \in {"off", "pick", "scan", "begin", "call", "report", "bound",
                          "leave", "unbind"}
       /\ conn[s].scan \in Scans
       /\ conn[s].attempt \in 1..MaxAttempts

\* A worker marked probing (router.go, beginProbe) has a session that will
\* still report on it: no trial is left behind that nothing will resolve.
TrialHasASession ==
  \A w \in Workers : health[w].probing => \E s \in Sessions : conn[s].trial = w

\* And so each trial is decided (router.go, report).
TrialIsDecided == \A w \in Workers : health[w].probing ~> ~health[w].probing

\* A pick that began while a worker was draining does not choose it unless the
\* drain was lifted in the meantime (router.go, SetDraining).
DrainedIsNotChosen ==
  [][\A s \in Sessions :
       conn'[s].target # conn[s].target => conn'[s].target \notin conn[s].scan.shut]_vars

\* Every admitted session gives its slot and its bind back exactly once,
\* however its start, its failovers and its end interleave with the others'
\* (admission.go, Release; router.go, UnbindSession): the ceiling is neither
\* eroded nor lifted, and Pick scores on what each worker really carries.
CountersBalance ==
  /\ admitted = Cardinality({s \in Sessions : conn[s].pc \notin {"off", "unbind"}})
  /\ \A w \in Workers : outstanding[w] = Cardinality({s \in Sessions : conn[s].owner = w})

Owed(w) == /\ w \in fleet \cap Capable /\ DueForProbe(health[w])
           /\ HasBudget(w)
InService(w) == w \notin fleet \/ health[w].status # "ejected"

\* As long as new sessions keep coming, a worker whose ejection has run out is
\* not passed over for ever for peers that score better (router.go,
\* dueForProbe).
NotOutscoredForEver ==
  ([]<><<\E s \in Sessions : Admit(s)>>_vars) =>
    \A w \in Workers :
      []<>~(Owed(w) /\ \A v \in Workers \ {w} : InService(v))

\* "exactly ONE session at a time is exposed to a recovering worker"
\* (router.go, Pick).
OneTrialAtATime ==
  \A w \in Workers : Cardinality({s \in Sessions : conn[s].trial = w}) <= 1

\* A worker returns from ejection on its own answer to a session, not on an
\* outcome that was somebody else's or nobody's (docs/build-plan.md, "route one
\* new session there, restore on success").
RestoredOnItsAnswer ==
  [][\A w \in Workers :
       health[w].status = "ejected" /\ health'[w].status # "ejected" =>
         \E s \in Sessions : /\ conn[s].pc = "report" /\ conn'[s] # conn[s]
                             /\ conn[s].report.worker = w /\ conn[s].report.from = w]_vars
===============================================================================
