------------------------------ MODULE FleetProofs ------------------------------
(***************************************************************************)
(* No trial of an ejected worker is left behind, for every fleet, every    *)
(* number of sessions and every order of their steps.                      *)
(*                                                                         *)
(* TrialHasASession alone is not inductive.  It has to be known that a     *)
(* session with a trial is on its way to reporting on that worker and no   *)
(* other, and that only an ejected worker is marked probing, since report  *)
(* leaves the mark alone on a worker in service.                           *)
(*                                                                         *)
(* And the counters of the router and of admission control are right: a    *)
(* step moves one session in or out of the sets they count, and what a     *)
(* session is bound to follows from where it stands.                       *)
(***************************************************************************)
EXTENDS Fleet, DataTheorems

\* The fields the argument depends on exist.
HealthFields(h) ==
  {"status", "expired", "probing", "outcomes", "latencies", "draining"} \subseteq DOMAIN h
ConnFields(c) ==
  /\ {"pc", "owner", "target", "excluded", "attempt", "scan", "report", "next",
      "trial"} \subseteq DOMAIN c
  /\ {"todo", "shut", "cand", "best", "score", "probe"} \subseteq DOMAIN c.scan

\* A session with a trial is at its call, or reports on it.
WillReport(c) ==
  c.trial # None => \/ c.pc = "call" /\ c.target = c.trial
                    \/ c.pc = "report" /\ c.report.worker = c.trial

\* Only a capable worker is considered, so only a capable one is picked, and
\* no report leads into a call.
PicksCapable(c) ==
  /\ {c.scan.cand, c.scan.best, c.scan.probe} \subseteq Capable \cup {None}
  /\ c.pc \in {"begin", "call"} => c.target \in Capable
  /\ c.next \notin {"begin", "call"}

SessionOK(c) == ConnFields(c) /\ WillReport(c) /\ PicksCapable(c)
WorkerOK(h)  == HealthFields(h) /\ (h.probing => h.status = "ejected")

TrialInv ==
  /\ DOMAIN conn = Sessions /\ DOMAIN health = Workers
  /\ \A s \in Sessions : SessionOK(conn[s])
  /\ \A w \in Workers : WorkerOK(health[w])
  /\ TrialHasASession

-------------------------------------------------------------------------------
(* Lemmas.                                                                 *)

\* Whatever a report says, the trial it finds is over.
LEMMA ReportedSettles ==
  \A h, ok, latency, base :
    WorkerOK(h) => /\ WorkerOK(Reported(h, ok, latency, base))
                   /\ ~Reported(h, ok, latency, base).probing
<1> SUFFICES ASSUME NEW h, NEW ok, NEW latency, NEW base, WorkerOK(h)
             PROVE  /\ WorkerOK(Reported(h, ok, latency, base))
                    /\ ~Reported(h, ok, latency, base).probing
  OBVIOUS
<1> USE DEF WorkerOK, HealthFields
<1>1. CASE h.status # "ejected"
  <2>1. Reported(h, ok, latency, base) = Evaluated(h, ok, latency, base)
    BY <1>1 DEF Reported
  <2>2. ~h.probing
    BY <1>1
  <2>3. /\ HealthFields(Evaluated(h, ok, latency, base))
        /\ ~Evaluated(h, ok, latency, base).probing
    BY <2>2 DEF Evaluated, Eject
  <2> QED
    BY <2>1, <2>3
<1>2. CASE h.status = "ejected" /\ h.probing
  BY <1>2 DEF Reported, Resolved
<1>3. CASE h.status = "ejected" /\ ~h.probing
  BY <1>3 DEF Reported
<1> QED
  BY <1>1, <1>2, <1>3

\* A step of one session that keeps its trial, and the workers' records.
LEMMA SessionStep ==
  ASSUME TrialInv, NEW s \in Sessions, UNCHANGED health,
         DOMAIN conn' = Sessions, \A t \in Sessions \ {s} : conn'[t] = conn[t],
         SessionOK(conn'[s]), conn'[s].trial = conn[s].trial
  PROVE  TrialInv'
<1>1. \A t \in Sessions : conn'[t].trial = conn[t].trial
  OBVIOUS
<1>2. TrialHasASession'
  BY <1>1 DEF TrialInv, TrialHasASession
<1> QED
  BY <1>2 DEF TrialInv

\* A step that touches the workers' records and no session's trial.
LEMMA WorkerStep ==
  ASSUME TrialInv, UNCHANGED conn, DOMAIN health' = Workers,
         \A w \in Workers : WorkerOK(health'[w]) /\ (health'[w].probing => health[w].probing)
  PROVE  TrialInv'
BY DEF TrialInv, TrialHasASession

-------------------------------------------------------------------------------
(* The steps.                                                              *)

LEMMA TrialInit == Init => TrialInv
BY FleetAssumption
   DEF FleetAssumption, Init, TrialInv, TrialHasASession, SessionOK, ConnFields,
       WillReport, PicksCapable, WorkerOK, HealthFields, NewWorker, Closed, NoScan

\* Picking considers capable workers only; the pick of a worker that is due
\* marks it, and the session has the trial.
LEMMA PickingKeeps ==
  ASSUME TrialInv, NEW s \in Sessions, Picking(s)
  PROVE  TrialInv'
<1> USE DEF TrialInv, SessionOK, ConnFields, WillReport, PicksCapable, Becomes
<1>1. CASE PickBegins(s)
  BY <1>1, SessionStep DEF PickBegins, NoScan
<1>2. ASSUME NEW w \in Workers, Filter(s, w) PROVE TrialInv'
  BY <1>2, SessionStep DEF Filter
<1>3. CASE Consider(s)
  <2> DEFINE k == conn[s].scan
  <2>1. conn'[s] = [conn[s] EXCEPT !.scan = conn'[s].scan]
    BY <1>3 DEF Consider
  <2>2. /\ ConnFields(conn'[s])
        /\ conn'[s].scan.cand = None
        /\ conn'[s].scan.best \in {k.best, k.cand}
        /\ conn'[s].scan.probe \in {k.probe, k.cand}
    <3>1. CASE DueForProbe(health[k.cand])
      BY <1>3, <3>1 DEF Consider
    <3>2. CASE ~DueForProbe(health[k.cand])
      BY <1>3, <3>2 DEF Consider
    <3> QED
      BY <3>1, <3>2
  <2>3. SessionOK(conn'[s]) /\ conn'[s].trial = conn[s].trial
    BY <2>1, <2>2
  <2> QED
    BY <1>3, <2>3, SessionStep DEF Consider
<1>4. CASE TakeProbe(s)
  BY <1>4, SessionStep DEF TakeProbe, Chosen, NoScan, Scanned, Trying
<1>5. CASE Begin(s)
  <2>1. /\ conn'[s].pc = "call" /\ conn'[s].target = conn[s].target
        /\ conn'[s].trial \in {None, conn[s].target} /\ conn'[s].scan = conn[s].scan
        /\ ConnFields(conn'[s])
    BY <1>5 DEF Begin
  <2>2. SessionOK(conn'[s])
    BY <2>1, <1>5 DEF Begin
  <2>3. \A w \in Workers : WorkerOK(health'[w])
    BY <1>5 DEF Begin, BeginProbe, WorkerOK, HealthFields
  <2>4. \A w \in Workers : health'[w].probing =>
          health[w].probing \/ (w = conn[s].target /\ conn'[s].trial = w)
    BY <1>5 DEF Begin, BeginProbe, WorkerOK, HealthFields
  <2>5. conn[s].trial = None
    BY <1>5 DEF Begin
  <2>6. TrialHasASession'
    BY <2>4, <2>5, <1>5, FleetAssumption DEF Begin, TrialHasASession, FleetAssumption
  <2> QED
    BY <2>2, <2>3, <2>6, <1>5 DEF Begin
<1>6. CASE TakeBest(s)
  <2>1. conn[s].trial = None /\ conn[s].scan.best \in Capable
    BY <1>6 DEF TakeBest, Scanned, Winning
  <2>2. /\ ConnFields(conn'[s]) /\ conn'[s].scan = NoScan
        /\ conn'[s].target = conn[s].scan.best
        /\ conn'[s].trial = conn[s].trial /\ conn'[s].next = conn[s].next
    BY <1>6 DEF TakeBest, Chosen, NoScan
  <2>3. SessionOK(conn'[s])
    <3>1. ConnFields(conn'[s])
      BY <2>2
    <3>2. WillReport(conn'[s])
      BY <2>1, <2>2, <1>6 DEF TakeBest, Chosen
    <3>3. {conn'[s].scan.cand, conn'[s].scan.best, conn'[s].scan.probe} = {None}
      BY <2>2 DEF NoScan
    <3>4. conn'[s].target \in Capable /\ conn'[s].next \notin {"begin", "call"}
      BY <2>1, <2>2
    <3> QED
      BY <3>1, <3>2, <3>3, <3>4
  <2>4. /\ DOMAIN conn' = Sessions /\ UNCHANGED health
        /\ \A t \in Sessions \ {s} : conn'[t] = conn[t]
    BY <1>6 DEF TakeBest
  <2> QED
    BY <2>1, <2>2, <2>3, <2>4, SessionStep
<1>7. CASE NoCapacity(s)
  BY <1>7, SessionStep DEF NoCapacity, NoScan, Scanned
<1> QED
  BY <1>1, <1>2, <1>3, <1>4, <1>5, <1>6, <1>7 DEF Picking

\* What was picked is opened or not, and reported on; a stateless session
\* finds every capable worker in the shared tier.
LEMMA OpeningKeeps ==
  ASSUME TrialInv, NEW s \in Sessions, Opening(s),
         ~Stateless \/ Capable \subseteq Shared
  PROVE  TrialInv'
<1> USE DEF TrialInv, SessionOK, ConnFields, WillReport, PicksCapable, Becomes,
            Reports, NoReport
<1>1. CASE Opened(s)
  BY <1>1, SessionStep DEF Opened
<1>2. CASE OpenedVirtually(s)
  BY <1>2, SessionStep DEF OpenedVirtually
<1>3. CASE OpenFails(s)
  BY <1>3, SessionStep DEF OpenFails, ExcludedReported, Excluding, Retry
<1>4. ~OpenedNowhere(s)
  BY DEF OpenedNowhere
<1> QED
  BY <1>1, <1>2, <1>3, <1>4 DEF Opening

\* A push is answered, fails or is refused: none is a trial's.
LEMMA PushingKeeps ==
  ASSUME TrialInv, NEW s \in Sessions, Pushing(s)
  PROVE  TrialInv'
<1> USE DEF TrialInv, SessionOK, ConnFields, WillReport, PicksCapable, Becomes,
            Reports, NoReport, AfterFailure
<1>1. ASSUME NEW v \in Workers, NEW l \in Latencies, PushAnswered(s, v, l) PROVE TrialInv'
  BY <1>1, SessionStep DEF PushAnswered
<1>2. CASE PushFails(s)
  BY <1>2, SessionStep DEF PushFails
<1>3. CASE PushRefused(s)
  BY <1>3, SessionStep DEF PushRefused
<1> QED
  BY <1>1, <1>2, <1>3 DEF Pushing

\* A report ends the trial of its session and settles the worker's.
LEMMA ReportKeeps ==
  ASSUME TrialInv, NEW s \in Sessions, Report(s)
  PROVE  TrialInv'
<1> DEFINE u == conn[s].report.worker
<1>1. /\ \A w \in Workers : WorkerOK(health'[w])
      /\ \A w \in Workers : IF w = u THEN ~health'[w].probing
                            ELSE health'[w] = health[w]
      /\ DOMAIN health' = Workers
  BY ReportedSettles DEF Report, TrialInv
<1>2. /\ DOMAIN conn' = Sessions
      /\ \A t \in Sessions \ {s} : conn'[t] = conn[t]
      /\ SessionOK(conn'[s])
      /\ conn[s].trial \in {None, u}
  <2> USE DEF TrialInv, SessionOK, ConnFields, WillReport, PicksCapable
  <2>1. conn[s].trial \in {None, u}
    BY DEF Report
  <2>2. /\ DOMAIN conn' = Sessions
        /\ \A t \in Sessions \ {s} : conn'[t] = conn[t]
        /\ ConnFields(conn'[s]) /\ conn'[s].scan = conn[s].scan
        /\ conn'[s].target = conn[s].target
        /\ conn'[s].pc = conn[s].next
        /\ conn'[s].next = "off" /\ conn'[s].trial = None
    BY <2>1 DEF Report, Becomes
  <2> QED
    BY <2>1, <2>2
<1> HIDE DEF u
<1>3. TrialHasASession'
  BY <1>1, <1>2, FleetAssumption DEF TrialInv, TrialHasASession, FleetAssumption
<1> QED
  BY <1>1, <1>2, <1>3 DEF TrialInv

\* A session that ends has no trial left.
LEMMA EndingKeeps ==
  ASSUME TrialInv, NEW s \in Sessions, Admit(s) \/ Leave(s) \/ Ending(s)
  PROVE  TrialInv'
<1> USE DEF TrialInv, SessionOK, ConnFields, WillReport, PicksCapable, Becomes,
            Closed, NoScan
<1>1. CASE Admit(s)
  BY <1>1, SessionStep DEF Admit
<1>2. CASE Leave(s)
  BY <1>2, SessionStep DEF Leave
<1>3. CASE Release(s)
  BY <1>3, SessionStep DEF Release
<1>4. CASE Unbind(s)
  BY <1>4, SessionStep DEF Unbind
<1> QED
  BY <1>1, <1>2, <1>3, <1>4 DEF Ending

\* Timers, drains and the failure of a health call mark nobody probing.
LEMMA WorldKeeps ==
  ASSUME TrialInv, NEW w \in Workers,
         Timers(w) \/ Control(w) \/ GoesDown(w) \/ ComesUp(w)
  PROVE  TrialInv'
<1> USE DEF TrialInv, WorkerOK, HealthFields
<1>1. CASE TimerExpires(w)
  BY <1>1, WorkerStep DEF TimerExpires, Expired
<1>2. CASE MarkUnhealthy(w)
  BY <1>2, WorkerStep DEF MarkUnhealthy, Eject
<1>3. ASSUME NEW on \in BOOLEAN, SetDraining(w, on) PROVE TrialInv'
  <2>1. /\ DOMAIN health' = Workers
        /\ \A v \in Workers : WorkerOK(health'[v]) /\ health'[v].probing = health[v].probing
    BY <1>3 DEF SetDraining
  <2>2. /\ DOMAIN conn' = Sessions
        /\ \A s \in Sessions : SessionOK(conn'[s]) /\ conn'[s].trial = conn[s].trial
    BY <1>3 DEF SetDraining, Reopened, SessionOK, ConnFields, WillReport, PicksCapable
  <2> QED
    BY <2>1, <2>2 DEF TrialHasASession
<1>4. CASE UNCHANGED <<health, conn>>
  BY <1>4, WorkerStep
<1>5. Refill(w) \/ RetryAfterPasses(w) \/ HealthCallFails(w) \/ Add(w)
        \/ GoesDown(w) \/ ComesUp(w) => UNCHANGED <<health, conn>>
  BY DEF Refill, RetryAfterPasses, HealthCallFails, Add, GoesDown, ComesUp
<1> QED
  BY <1>1, <1>2, <1>3, <1>4, <1>5 DEF Timers, Control

-------------------------------------------------------------------------------
(* The theorem.                                                            *)

\* A worker marked probing (router.go, beginProbe) always has a session that
\* will report on it.  A stateless session passes over a worker outside the
\* shared tier without a report (conn.go, openStatelessWithRetry), so there it
\* is assumed that every capable worker is in that tier.
THEOREM TrialsAreDecided ==
  ASSUME ~Stateless \/ Capable \subseteq Shared
  PROVE  Spec => []TrialHasASession
<1>1. Init => TrialInv
  BY TrialInit
<1>2. TrialInv /\ [Next]_vars => TrialInv'
  <2> SUFFICES ASSUME TrialInv, [Next]_vars PROVE TrialInv'
    OBVIOUS
  <2>1. ASSUME NEW s \in Sessions, Admit(s) \/ Proceeds(s) \/ Pushing(s) \/ Leave(s)
        PROVE  TrialInv'
    BY <2>1, PickingKeeps, OpeningKeeps, PushingKeeps, ReportKeeps, EndingKeeps
       DEF Proceeds
  <2>2. ASSUME NEW w \in Workers, Timers(w) \/ Control(w) \/ GoesDown(w) \/ ComesUp(w)
        PROVE  TrialInv'
    BY <2>2, WorldKeeps
  <2>3. CASE UNCHANGED vars
    BY <2>3 DEF vars, TrialInv, TrialHasASession
  <2> QED
    BY <2>1, <2>2, <2>3 DEF Next
<1>3. TrialInv => TrialHasASession
  BY DEF TrialInv
<1> QED
  BY <1>1, <1>2, <1>3, PTL DEF Spec

-------------------------------------------------------------------------------
(* The counters.                                                           *)

\* What a session is bound to and where it stands: one that is not open has no
\* bind, and a stateless one is bound once, when it opens.
WillPick(c) == c.pc = "report" /\ c.next = "pick"
HolderOK(c) ==
  /\ ConnFields(c)
  /\ c.pc = "off" => c.owner = None
  /\ c.pc = "report" => c.next \in {"pick", "bound", "leave"}
  /\ Stateless /\ (c.pc \in {"pick", "scan", "begin", "call"} \/ WillPick(c)) => c.owner = None

Admitted(c) == c.pc \notin {"off", "unbind"}

BalanceInv ==
  /\ DOMAIN conn = Sessions
  /\ \A s \in Sessions : HolderOK(conn[s])
  /\ CountersBalance

\* Two sets of sessions that differ at one session only.
LEMMA CountMoves ==
  ASSUME NEW S, NEW T, NEW x, IsFiniteSet(S), S \ {x} = T \ {x}
  PROVE  Cardinality(T) = Cardinality(S) + (IF x \in T THEN 1 ELSE 0)
                                         - (IF x \in S THEN 1 ELSE 0)
<1> DEFINE R == S \ {x}
<1>1. /\ IsFiniteSet(R) /\ Cardinality(S) \in Nat
      /\ Cardinality(R) = IF x \in S THEN Cardinality(S) - 1 ELSE Cardinality(S)
  BY FS_RemoveElement, FS_CardinalityType
<1>2. Cardinality(R \cup {x}) = Cardinality(R) + 1
  BY <1>1, FS_AddElement
<1>3. (x \in T => T = R \cup {x}) /\ (x \notin T => T = R)
  OBVIOUS
<1> HIDE DEF R
<1>4. x \in T => Cardinality(T) = Cardinality(R) + 1
  BY <1>2, <1>3, Zenon
<1>5. x \notin T => Cardinality(T) = Cardinality(R)
  BY <1>3, Zenon
<1> DEFINE n == Cardinality(S)
           m == Cardinality(T)
           r == Cardinality(R)
<1>6. n \in Nat /\ r = IF x \in S THEN n - 1 ELSE n
  BY <1>1
<1>7. (x \in T => m = r + 1) /\ (x \notin T => m = r)
  BY <1>4, <1>5
<1> HIDE DEF n, m, r
<1>8. m = n + (IF x \in T THEN 1 ELSE 0) - (IF x \in S THEN 1 ELSE 0)
  BY <1>6, <1>7
<1> QED
  BY <1>8 DEF n, m

\* What one session's step does to the sets that are counted.
LEMMA OneMoves ==
  ASSUME BalanceInv, NEW s \in Sessions, \A t \in Sessions \ {s} : conn'[t] = conn[t]
  PROVE  /\ Cardinality({t \in Sessions : conn'[t].pc \notin {"off", "unbind"}}) =
              admitted + (IF Admitted(conn'[s]) THEN 1 ELSE 0)
                       - (IF Admitted(conn[s]) THEN 1 ELSE 0)
         /\ \A w \in Workers :
              Cardinality({t \in Sessions : conn'[t].owner = w}) =
                outstanding[w] + (IF conn'[s].owner = w THEN 1 ELSE 0)
                               - (IF conn[s].owner = w THEN 1 ELSE 0)
<1>1. \A Q \in SUBSET Sessions : IsFiniteSet(Q)
  <2>1. IsFiniteSet(Sessions)
    BY FleetAssumption DEF FleetAssumption
  <2> QED
    BY <2>1, FS_Subset
<1>2. Cardinality({t \in Sessions : conn'[t].pc \notin {"off", "unbind"}}) =
        admitted + (IF Admitted(conn'[s]) THEN 1 ELSE 0)
                 - (IF Admitted(conn[s]) THEN 1 ELSE 0)
  <2> DEFINE S == {t \in Sessions : conn[t].pc \notin {"off", "unbind"}}
             T == {t \in Sessions : conn'[t].pc \notin {"off", "unbind"}}
  <2>1. IsFiniteSet(S) /\ S \ {s} = T \ {s} /\ admitted = Cardinality(S)
    BY <1>1 DEF BalanceInv, CountersBalance
  <2>2. (s \in S <=> Admitted(conn[s])) /\ (s \in T <=> Admitted(conn'[s]))
    BY DEF Admitted
  <2> HIDE DEF S, T
  <2>3. Cardinality(T) = Cardinality(S) + (IF s \in T THEN 1 ELSE 0)
                                        - (IF s \in S THEN 1 ELSE 0)
    BY <2>1, CountMoves
  <2> QED
    BY <2>1, <2>2, <2>3 DEF T
<1>3. ASSUME NEW w \in Workers
      PROVE  Cardinality({t \in Sessions : conn'[t].owner = w}) =
               outstanding[w] + (IF conn'[s].owner = w THEN 1 ELSE 0)
                              - (IF conn[s].owner = w THEN 1 ELSE 0)
  <2> DEFINE S == {t \in Sessions : conn[t].owner = w}
             T == {t \in Sessions : conn'[t].owner = w}
  <2>1. IsFiniteSet(S) /\ S \ {s} = T \ {s} /\ outstanding[w] = Cardinality(S)
    BY <1>1 DEF BalanceInv, CountersBalance
  <2>2. (s \in S <=> conn[s].owner = w) /\ (s \in T <=> conn'[s].owner = w)
    OBVIOUS
  <2> HIDE DEF S, T
  <2>3. Cardinality(T) = Cardinality(S) + (IF s \in T THEN 1 ELSE 0)
                                        - (IF s \in S THEN 1 ELSE 0)
    BY <2>1, CountMoves
  <2> QED
    BY <2>1, <2>2, <2>3 DEF T
<1> QED
  BY <1>2, <1>3

\* A step of one session that keeps its slot and its bind.
LEMMA HoldsStill ==
  ASSUME BalanceInv, NEW s \in Sessions, UNCHANGED <<admitted, outstanding>>,
         DOMAIN conn' = Sessions, \A t \in Sessions \ {s} : conn'[t] = conn[t],
         HolderOK(conn'[s]), conn'[s].owner = conn[s].owner,
         Admitted(conn'[s]) <=> Admitted(conn[s])
  PROVE  BalanceInv'
<1>1. /\ admitted = Cardinality({t \in Sessions : conn'[t].pc \notin {"off", "unbind"}})
      /\ \A w \in Workers : outstanding[w] = Cardinality({t \in Sessions : conn'[t].owner = w})
  <2>1. {t \in Sessions : conn'[t].pc \notin {"off", "unbind"}} =
          {t \in Sessions : conn[t].pc \notin {"off", "unbind"}}
    BY DEF Admitted
  <2>2. \A w : {t \in Sessions : conn'[t].owner = w} = {t \in Sessions : conn[t].owner = w}
    OBVIOUS
  <2> QED
    BY <2>1, <2>2 DEF BalanceInv, CountersBalance
<1> QED
  BY <1>1 DEF BalanceInv, CountersBalance

\* A step of one session that moves its bind, and perhaps nothing else.
LEMMA BindMoves ==
  ASSUME BalanceInv, NEW s \in Sessions, UNCHANGED admitted,
         DOMAIN conn' = Sessions, \A t \in Sessions \ {s} : conn'[t] = conn[t],
         HolderOK(conn'[s]), Admitted(conn'[s]) <=> Admitted(conn[s]),
         outstanding' = Bound(conn[s].owner, conn'[s].owner)
  PROVE  BalanceInv'
<1>1. \A w \in Workers :
        outstanding'[w] = Cardinality({t \in Sessions : conn'[t].owner = w})
  BY OneMoves DEF Bound
<1>2. {t \in Sessions : conn'[t].pc \notin {"off", "unbind"}} =
        {t \in Sessions : conn[t].pc \notin {"off", "unbind"}}
  BY DEF Admitted
<1>3. admitted = Cardinality({t \in Sessions : conn'[t].pc \notin {"off", "unbind"}})
  BY <1>2 DEF BalanceInv, CountersBalance
<1> QED
  BY <1>1, <1>3 DEF BalanceInv, CountersBalance

\* A session takes its slot, or gives it back.
LEMMA SlotMoves ==
  ASSUME BalanceInv, NEW s \in Sessions, UNCHANGED outstanding,
         DOMAIN conn' = Sessions, \A t \in Sessions \ {s} : conn'[t] = conn[t],
         HolderOK(conn'[s]), conn'[s].owner = conn[s].owner,
         \/ Admitted(conn'[s]) /\ ~Admitted(conn[s]) /\ admitted' = admitted + 1
         \/ ~Admitted(conn'[s]) /\ Admitted(conn[s]) /\ admitted' = admitted - 1
  PROVE  BalanceInv'
<1>1. admitted' = Cardinality({t \in Sessions : conn'[t].pc \notin {"off", "unbind"}})
  <2> DEFINE m == Cardinality({t \in Sessions : conn'[t].pc \notin {"off", "unbind"}})
  <2>1. m = admitted + (IF Admitted(conn'[s]) THEN 1 ELSE 0)
                     - (IF Admitted(conn[s]) THEN 1 ELSE 0)
    BY OneMoves
  <2>2. admitted \in Nat
    BY FleetAssumption, FS_Subset, FS_CardinalityType
       DEF FleetAssumption, BalanceInv, CountersBalance
  <2> HIDE DEF m
  <2>3. admitted' = m
    BY <2>1, <2>2
  <2> QED
    BY <2>3 DEF m
<1>2. \A w : {t \in Sessions : conn'[t].owner = w} = {t \in Sessions : conn[t].owner = w}
  OBVIOUS
<1>3. \A w \in Workers :
        outstanding[w] = Cardinality({t \in Sessions : conn'[t].owner = w})
  BY <1>2 DEF BalanceInv, CountersBalance
<1> QED
  BY <1>1, <1>3 DEF BalanceInv, CountersBalance

LEMMA BalanceInit == Init => BalanceInv
<1> SUFFICES ASSUME Init
             PROVE  BalanceInv
  OBVIOUS
<1>1. {s \in Sessions : conn[s].pc \notin {"off", "unbind"}} = {}
  BY DEF Init, Closed
<1>2. \A w \in Workers : {s \in Sessions : conn[s].owner = w} = {}
  BY FleetAssumption DEF FleetAssumption, Init, Closed
<1>3. CountersBalance
  BY <1>1, <1>2, FS_EmptySet DEF Init, CountersBalance
<1>4. \A s \in Sessions : HolderOK(conn[s])
  BY DEF Init, HolderOK, WillPick, ConnFields, Closed, NoScan
<1> QED
  BY <1>3, <1>4 DEF Init, BalanceInv

\* Picking, pushing and reporting move neither a slot nor a bind.
LEMMA PickingBalances ==
  ASSUME BalanceInv, NEW s \in Sessions, Picking(s)
  PROVE  BalanceInv'
<1> USE DEF BalanceInv, HolderOK, WillPick, ConnFields, Admitted, Becomes, shared
<1>1. CASE PickBegins(s)
  BY <1>1, HoldsStill DEF PickBegins, NoScan
<1>2. ASSUME NEW w \in Workers, Filter(s, w) PROVE BalanceInv'
  BY <1>2, HoldsStill DEF Filter
<1>3. CASE Consider(s)
  <2>1. conn'[s] = [conn[s] EXCEPT !.scan = conn'[s].scan] /\ ConnFields(conn'[s])
    BY <1>3 DEF Consider
  <2> QED
    BY <1>3, <2>1, HoldsStill DEF Consider
<1>4. CASE TakeProbe(s)
  BY <1>4, HoldsStill DEF TakeProbe, Chosen, NoScan, Scanned
<1>5. CASE Begin(s)
  BY <1>5, HoldsStill DEF Begin
<1>6. CASE TakeBest(s)
  BY <1>6, HoldsStill DEF TakeBest, Chosen, NoScan, Scanned
<1>7. CASE NoCapacity(s)
  BY <1>7, HoldsStill DEF NoCapacity, NoScan, Scanned
<1> QED
  BY <1>1, <1>2, <1>3, <1>4, <1>5, <1>6, <1>7 DEF Picking

LEMMA PushingBalances ==
  ASSUME BalanceInv, NEW s \in Sessions, Pushing(s) \/ Report(s) \/ Leave(s)
  PROVE  BalanceInv'
<1> USE DEF BalanceInv, HolderOK, WillPick, ConnFields, Admitted, Becomes, shared,
            Reports, NoReport, AfterFailure
<1>1. ASSUME NEW v \in Workers, NEW l \in Latencies, PushAnswered(s, v, l) PROVE BalanceInv'
  BY <1>1, HoldsStill DEF PushAnswered
<1>2. CASE PushFails(s)
  BY <1>2, HoldsStill DEF PushFails
<1>3. CASE PushRefused(s)
  BY <1>3, HoldsStill DEF PushRefused
<1>4. CASE Report(s)
  BY <1>4, HoldsStill DEF Report
<1>5. CASE Leave(s)
  BY <1>5, HoldsStill DEF Leave
<1> QED
  BY <1>1, <1>2, <1>3, <1>4, <1>5 DEF Pushing

\* The bind goes to the worker that opened, from the owner if there was one.
LEMMA OpeningBalances ==
  ASSUME BalanceInv, NEW s \in Sessions, Opening(s)
  PROVE  BalanceInv'
<1> USE DEF BalanceInv, HolderOK, WillPick, ConnFields, Admitted, Becomes, Reports, NoReport
<1>1. CASE Opened(s)
  BY <1>1, BindMoves DEF Opened
<1>2. CASE OpenedVirtually(s)
  BY <1>2, BindMoves DEF OpenedVirtually
<1>3. CASE OpenFails(s)
  BY <1>3, HoldsStill DEF OpenFails, ExcludedReported, Excluding, Retry, shared
<1>4. CASE OpenedNowhere(s)
  BY <1>4, HoldsStill DEF OpenedNowhere, ExcludedUnreported, Excluding, Retry, shared
<1> QED
  BY <1>1, <1>2, <1>3, <1>4 DEF Opening

\* The slot is given back before the bind.
LEMMA EndingBalances ==
  ASSUME BalanceInv, NEW s \in Sessions, Admit(s) \/ Ending(s)
  PROVE  BalanceInv'
<1> USE DEF BalanceInv, HolderOK, WillPick, ConnFields, Admitted, Becomes, Closed, NoScan
<1>1. CASE Admit(s)
  BY <1>1, SlotMoves DEF Admit
<1>2. CASE Release(s)
  BY <1>2, SlotMoves DEF Release, Released
<1>3. CASE Unbind(s)
  BY <1>3, BindMoves DEF Unbind
<1> QED
  BY <1>1, <1>2, <1>3 DEF Ending

\* Nothing else counts a session.
LEMMA WorldBalances ==
  ASSUME BalanceInv, NEW w \in Workers,
         Timers(w) \/ Control(w) \/ GoesDown(w) \/ ComesUp(w)
  PROVE  BalanceInv'
<1>1. UNCHANGED <<admitted, outstanding>>
  BY DEF Timers, Control, TimerExpires, Refill, RetryAfterPasses, HealthCallFails,
     MarkUnhealthy, Add, SetDraining, GoesDown, ComesUp, shared
<1>2. /\ DOMAIN conn' = Sessions
      /\ \A s \in Sessions :
           /\ conn'[s].pc = conn[s].pc /\ conn'[s].owner = conn[s].owner
           /\ HolderOK(conn'[s])
  <2> USE DEF BalanceInv
  <2>1. CASE UNCHANGED conn
    BY <2>1
  <2>2. CASE conn' = [s \in Sessions |-> Reopened(conn[s], w)]
    BY <2>2 DEF Reopened, HolderOK, WillPick, ConnFields
  <2> QED
    BY <2>1, <2>2 DEF Timers, Control, TimerExpires, Refill, RetryAfterPasses,
       HealthCallFails, MarkUnhealthy, Add, SetDraining, GoesDown, ComesUp
<1>3. /\ {s \in Sessions : conn'[s].pc \notin {"off", "unbind"}} =
           {s \in Sessions : conn[s].pc \notin {"off", "unbind"}}
      /\ \A v : {s \in Sessions : conn'[s].owner = v} = {s \in Sessions : conn[s].owner = v}
  BY <1>2
<1> QED
  BY <1>1, <1>2, <1>3 DEF BalanceInv, CountersBalance

LEMMA BalanceNext == BalanceInv /\ [Next]_vars => BalanceInv'
<1> SUFFICES ASSUME BalanceInv, [Next]_vars
             PROVE  BalanceInv'
  OBVIOUS
<1>1. ASSUME NEW s \in Sessions, Admit(s) \/ Proceeds(s) \/ Pushing(s) \/ Leave(s)
      PROVE  BalanceInv'
  BY <1>1, PickingBalances, OpeningBalances, PushingBalances, EndingBalances DEF Proceeds
<1>2. ASSUME NEW w \in Workers, Timers(w) \/ Control(w) \/ GoesDown(w) \/ ComesUp(w)
      PROVE  BalanceInv'
  BY <1>2, WorldBalances
<1>3. CASE UNCHANGED vars
  BY <1>3 DEF vars, shared, BalanceInv, CountersBalance
<1> QED
  BY <1>1, <1>2, <1>3 DEF Next

\* Every admitted session gives its slot and its bind back exactly once
\* (admission.go, Release; router.go, BindSession and UnbindSession), however
\* starts, failovers and ends of any number of sessions interleave: Stateless
\* or not, and whichever workers share the tier.
THEOREM CountersAlwaysBalance == Spec => []CountersBalance
<1>1. BalanceInv => CountersBalance
  BY DEF BalanceInv
<1> QED
  BY <1>1, BalanceNext, BalanceInit, PTL DEF Spec

-------------------------------------------------------------------------------
(* Types.                                                                  *)

\* The k-th smallest of a sequence of latencies is one of them, for every k
\* that is an index: P95 is a latency some call had.
LEMMA RankedIsThere ==
  ASSUME NEW q \in Seq(Nat), NEW k \in Nat, k < Len(q)
  PROVE  /\ Ranked(q, k) \in {q[i] : i \in DOMAIN q}
         /\ Cardinality({i \in DOMAIN q : q[i] < Ranked(q, k)}) <= k
         /\ Cardinality({i \in DOMAIN q : q[i] <= Ranked(q, k)}) > k
<1> DEFINE D == DOMAIN q
           C(v) == Cardinality({i \in D : q[i] <= v})
           T == {v \in Nat : C(v) > k}
<1>1. /\ D = 1..Len(q) /\ Len(q) \in Nat /\ \A i \in D : q[i] \in Nat
      /\ IsFiniteSet(D) /\ Cardinality(D) = Len(q)
  <2>1. D = 1..Len(q) /\ Len(q) \in Nat /\ \A i \in D : q[i] \in Nat
    BY LenProperties, ElementOfSeq
  <2>2. /\ IsFiniteSet(1..Len(q))
        /\ Cardinality(1..Len(q)) = IF 1 > Len(q) THEN 0 ELSE Len(q) - 1 + 1
    BY <2>1, FS_Interval
  <2>3. Cardinality(1..Len(q)) = Len(q)
    BY <2>1, <2>2
  <2> QED
    BY <2>1, <2>2, <2>3
<1>2. \A S \in SUBSET D : IsFiniteSet(S) /\ Cardinality(S) \in Nat
  BY <1>1, FS_Subset, FS_CardinalityType
<1>3. T # {}
  <2>1. PICK b \in Nat : \A i \in D : q[i] <= b
    BY <1>1, SequenceIsBounded
  <2>2. {i \in D : q[i] <= b} = D
    BY <2>1
  <2>3. C(b) > k
    BY <1>1, <2>2
  <2> QED
    BY <2>1, <2>3
<1>4. PICK v \in T : \A u \in T : v <= u
  <2> HIDE DEF T
  <2>1. T \subseteq Nat
    BY DEF T
  <2> QED
    BY <1>3, <2>1, LeastNatural
<1>5. v \in Nat /\ C(v) > k
  BY <1>4
<1>6. Cardinality({i \in D : q[i] < v}) <= k
  <2>1. CASE v = 0
    <3>1. {i \in D : q[i] < v} = {}
      BY <1>1, <2>1
    <3>2. Cardinality({i \in D : q[i] < v}) = 0
      BY <3>1, FS_EmptySet, Zenon
    <3> QED
      BY <3>2
  <2>2. CASE v # 0
    <3>1. v - 1 \in Nat /\ v - 1 \notin T
      BY <1>4, <1>5, <2>2
    <3>2. {i \in D : q[i] < v} = {i \in D : q[i] <= v - 1}
      BY <1>1, <1>5
    <3>3. C(v - 1) \in Nat /\ ~(C(v - 1) > k)
      BY <1>2, <3>1
    <3>4. Cardinality({i \in D : q[i] < v}) = C(v - 1)
      BY <3>2, Zenon
    <3> HIDE DEF C
    <3> QED
      BY <3>3, <3>4
  <2> QED
    BY <2>1, <2>2
<1>7. v \in {q[i] : i \in D}
  <2> SUFFICES ASSUME v \notin {q[i] : i \in D} PROVE FALSE
    OBVIOUS
  <2>1. {i \in D : q[i] < v} = {i \in D : q[i] <= v}
    BY <1>1, <1>5
  <2>2. Cardinality({i \in D : q[i] <= v}) \in Nat
    BY <1>2
  <2> QED
    BY <1>5, <1>6, <2>1, <2>2
<1> HIDE DEF T, C
<1>8. /\ v \in {q[x] : x \in DOMAIN q}
      /\ Cardinality({x \in DOMAIN q : q[x] < v}) <= k
      /\ Cardinality({x \in DOMAIN q : q[x] <= v}) > k
  BY <1>5, <1>6, <1>7 DEF C
<1> QED
  BY <1>8, Zenon DEF Ranked

LEMMA P95IsNatural ==
  ASSUME NEW q \in Seq(Nat)
  PROVE  P95(q) \in Nat
<1>1. CASE q = << >>
  BY <1>1 DEF P95
<1>2. CASE q # << >>
  <2> DEFINE k == (Len(q) * 95) \div 100
  <2>1. Len(q) \in Nat \ {0}
    BY <1>2, EmptySeq
  <2>2. k \in Nat /\ k < Len(q)
    BY <2>1
  <2> HIDE DEF k
  <2>3. Ranked(q, k) \in {q[i] : i \in DOMAIN q}
    BY <2>2, RankedIsThere
  <2>4. \A i \in DOMAIN q : q[i] \in Nat
    BY LenProperties, ElementOfSeq
  <2>5. Ranked(q, k) \in Nat
    BY <2>3, <2>4
  <2> QED
    BY <1>2, <2>5 DEF P95, k
<1> QED
  BY <1>1, <1>2

Workerlike  == Workers \cup {None}
HealthTypes == [status : {"healthy", "degraded", "ejected"}, expired : BOOLEAN,
                probing : BOOLEAN, outcomes : Seq(BOOLEAN), latencies : Seq(Nat),
                draining : BOOLEAN]
WindowsFit(h) == Len(h.outcomes) <= Window /\ Len(h.latencies) <= Window
ReportTypes == [worker : Workerlike, from : Workerlike, ok : BOOLEAN, latency : Nat]
ConnTypes ==
  [pc : {"off", "pick", "scan", "begin", "call", "report", "bound", "leave", "unbind"},
   owner : Workerlike, target : Workerlike, excluded : SUBSET Workerlike,
   attempt : 1..MaxAttempts, scan : Scans, report : ReportTypes,
   next : {"off", "pick", "bound", "leave"}, trial : Workerlike]

WorldTypes  == fleet \subseteq Workers /\ up \subseteq Workers /\ suspect \subseteq fleet
HealthTyped == health \in [Workers -> HealthTypes] /\ \A w \in Workers : WindowsFit(health[w])
BucketTyped == bucket \in [Workers -> [tokens : 0..Limit, blocked : BOOLEAN]]
ConnTyped   == conn \in [Sessions -> ConnTypes]
\* The ceiling of admission control is not passed.
UnderCeiling == admitted <= MaxSessions

TypesInv ==
  WorldTypes /\ HealthTyped /\ BucketTyped /\ ConnTyped /\ UnderCeiling /\ BalanceInv

\* A window takes one more sample and stays as long as it may be.
LEMMA RolledFits ==
  ASSUME NEW S, NEW q \in Seq(S), NEW x \in S, Len(q) <= Window
  PROVE  Rolled(q, x) \in Seq(S) /\ Len(Rolled(q, x)) <= Window
<1>1. Window \in Nat /\ Window > 0 /\ Len(q) \in Nat
  BY LenProperties, HealthAssumption DEF HealthAssumption
<1>2. CASE Len(q) < Window
  BY <1>1, <1>2, AppendProperties DEF Rolled
<1>3. CASE Len(q) = Window
  <2>1. Tail(q) \in Seq(S) /\ Len(Tail(q)) = Len(q) - 1
    BY <1>1, <1>3, HeadTailProperties, EmptySeq
  <2>2. Append(Tail(q), x) \in Seq(S) /\ Len(Append(Tail(q), x)) = Len(q)
    BY <1>1, <2>1, AppendProperties
  <2> QED
    BY <1>1, <1>3, <2>2 DEF Rolled
<1> QED
  BY <1>1, <1>2, <1>3

\* Whatever happens to a worker's record, it stays one, and only an operator
\* drains it or lifts the drain.
LEMMA RecordsKeepTypes ==
  ASSUME NEW h \in HealthTypes, WindowsFit(h), NEW ok \in BOOLEAN, NEW latency \in Nat, NEW base
  PROVE  \A g \in {BeginProbe(h), Eject(h), Expired(h), Reported(h, ok, latency, base)} :
           g \in HealthTypes /\ WindowsFit(g) /\ g.draining = h.draining
<1> DEFINE Fine(g) == g \in HealthTypes /\ WindowsFit(g) /\ g.draining = h.draining
<1>1. Fine(BeginProbe(h)) /\ Fine(Eject(h)) /\ Fine(Expired(h))
  BY DEF BeginProbe, Eject, Expired, HealthTypes, WindowsFit
<1>2. Fine(Resolved(h, ok))
  <2>1. Window \in Nat /\ Len(<< >>) = 0
    BY HealthAssumption DEF HealthAssumption
  <2>2. Fine([h EXCEPT !.probing = FALSE, !.expired = FALSE])
    BY DEF HealthTypes, WindowsFit
  <2>3. << >> \in Seq(BOOLEAN) /\ << >> \in Seq(Nat)
    BY EmptySeq
  <2> DEFINE g == [h EXCEPT !.probing = FALSE, !.status = "healthy", !.expired = FALSE,
                            !.outcomes = << >>, !.latencies = << >>]
  <2>4. g \in HealthTypes
    BY <2>3 DEF HealthTypes
  <2>5. g.outcomes = << >> /\ g.latencies = << >> /\ g.draining = h.draining
    BY DEF HealthTypes
  <2> HIDE DEF g
  <2>6. Fine(g)
    BY <2>1, <2>4, <2>5 DEF WindowsFit
  <2> QED
    BY <2>2, <2>6 DEF Resolved, g
<1>3. Fine(Evaluated(h, ok, latency, base))
  <2> DEFINE k == [h EXCEPT !.outcomes  = Rolled(@, ok),
                            !.latencies = IF latency > 0 THEN Rolled(@, latency) ELSE @]
  <2>1. /\ Rolled(h.outcomes, ok) \in Seq(BOOLEAN) /\ Len(Rolled(h.outcomes, ok)) <= Window
        /\ Rolled(h.latencies, latency) \in Seq(Nat)
        /\ Len(Rolled(h.latencies, latency)) <= Window
    BY RolledFits DEF HealthTypes, WindowsFit
  <2>2. Fine(k)
    BY <2>1 DEF HealthTypes, WindowsFit
  <2>3. Evaluated(h, ok, latency, base) \in
          {Eject(k), [k EXCEPT !.status = "degraded"], [k EXCEPT !.status = "healthy"]}
    BY DEF Evaluated
  <2>4. ASSUME NEW g, Fine(g), NEW status \in {"degraded", "healthy"}
        PROVE  Fine(Eject(g)) /\ Fine([g EXCEPT !.status = status])
    BY <2>4 DEF Eject, HealthTypes, WindowsFit
  <2> HIDE DEF k, Fine
  <2> QED
    BY <2>2, <2>3, <2>4
<1>4. Fine(Reported(h, ok, latency, base))
  BY <1>2, <1>3 DEF Reported, HealthTypes
<1> QED
  BY <1>1, <1>4

LEMMA TypesInit == Init => TypesInv
<1> SUFFICES ASSUME Init PROVE TypesInv
  OBVIOUS
<1> USE FleetAssumption, HealthAssumption DEF FleetAssumption, HealthAssumption, Init
<1>1. HealthTyped
  BY DEF HealthTyped, NewWorker, HealthTypes, WindowsFit
<1>2. Closed \in ConnTypes
  <2>1. NoScan \in Scans
    BY DEF NoScan, Scans
  <2>2. NoReport \in ReportTypes
    BY DEF NoReport, ReportTypes, Workerlike
  <2> QED
    BY <2>1, <2>2 DEF Closed, ConnTypes, Workerlike
<1>3. WorldTypes /\ BucketTyped /\ UnderCeiling
  BY DEF WorldTypes, BucketTyped, NewBucket, UnderCeiling
<1>4. ConnTyped
  BY <1>2 DEF ConnTyped
<1> QED
  BY <1>1, <1>3, <1>4, BalanceInit DEF TypesInv

LEMMA BecomesTyped ==
  ASSUME ConnTyped, NEW s \in Sessions, NEW c \in ConnTypes, Becomes(s, c)
  PROVE  ConnTyped'
BY DEF ConnTyped, Becomes

LEMMA ProbesKeepTypes ==
  ASSUME HealthTyped, NEW w \in Workers
  PROVE  /\ BeginProbe(health[w]) \in HealthTypes
         /\ WindowsFit(BeginProbe(health[w]))
<1>1. health[w] \in HealthTypes /\ WindowsFit(health[w])
  BY DEF HealthTyped
<1> QED
  BY <1>1 DEF BeginProbe, HealthTypes, WindowsFit

LEMMA ReportsKeepTypes ==
  ASSUME HealthTyped, NEW w \in Workers, NEW r \in ReportTypes
  PROVE  \A base :
           /\ Reported(health[w], r.ok, r.latency, base) \in HealthTypes
           /\ WindowsFit(Reported(health[w], r.ok, r.latency, base))
           /\ Reported(health[w], r.ok, r.latency, base).draining = health[w].draining
<1>1. health[w] \in HealthTypes /\ WindowsFit(health[w])
  BY DEF HealthTyped
<1>2. r.ok \in BOOLEAN /\ r.latency \in Nat
  BY DEF ReportTypes
<1> DEFINE h == health[w]
           ok == r.ok
           latency == r.latency
<1>3. h \in HealthTypes /\ WindowsFit(h) /\ ok \in BOOLEAN /\ latency \in Nat
  BY <1>1, <1>2
<1> HIDE DEF h, ok, latency
<1>4. ASSUME NEW base
      PROVE  /\ Reported(h, ok, latency, base) \in HealthTypes
             /\ WindowsFit(Reported(h, ok, latency, base))
             /\ Reported(h, ok, latency, base).draining = h.draining
  <2> DEFINE g == Reported(h, ok, latency, base)
  <2>1. \A k \in {BeginProbe(h), Eject(h), Expired(h), g} :
          k \in HealthTypes /\ WindowsFit(k) /\ k.draining = h.draining
    BY <1>3, RecordsKeepTypes
  <2> QED
    BY <2>1
<1> QED
  BY <1>4 DEF h, ok, latency

LEMMA HealthStaysTyped ==
  ASSUME HealthTyped, NEW w, NEW g, health' = [health EXCEPT ![w] = g],
         w \in Workers => g \in HealthTypes /\ WindowsFit(g)
  PROVE  HealthTyped'
BY DEF HealthTyped

\* A session's step that leaves the world, the ceiling and the records alone.
LEMMA OnlyConn ==
  ASSUME TypesInv, ConnTyped', BalanceInv', UNCHANGED <<world, health, bucket, admitted>>
  PROVE  TypesInv'
BY DEF TypesInv, WorldTypes, HealthTyped, BucketTyped, UnderCeiling, world

LEMMA ScoreIsNatural ==
  ASSUME TypesInv, NEW c, NEW w \in Workers
  PROVE  Score(c, w) \in Nat
<1>1. outstanding[w] \in Nat
  BY FleetAssumption, FS_Subset, FS_CardinalityType
     DEF FleetAssumption, TypesInv, BalanceInv, CountersBalance
<1>2. P95(health[w].latencies) \in Nat
  BY P95IsNatural DEF TypesInv, HealthTyped, HealthTypes
<1> DEFINE a == outstanding[w]
           b == P95(health[w].latencies)
<1>3. \A m \in Nat : \A n \in {1, 2} : (a + 1) * (IF b = 0 THEN 1 ELSE b) * n \in Nat
  <2>1. a \in Nat /\ b \in Nat
    BY <1>1, <1>2
  <2> HIDE DEF a, b
  <2> QED
    BY <2>1
<1> QED
  BY <1>3 DEF Score

LEMMA PickingTyped ==
  ASSUME TypesInv, NEW s \in Sessions, Picking(s), BalanceInv'
  PROVE  TypesInv'
<1> DEFINE c == conn[s]
           k == conn[s].scan
<1>1. ConnTyped /\ c \in ConnTypes /\ k \in Scans /\ NoScan \in Scans
  BY DEF TypesInv, ConnTyped, ConnTypes, NoScan, Scans
<1>2. ASSUME NEW j \in Scans, NEW pc \in {"scan", "leave"}
      PROVE  /\ [c EXCEPT !.scan = j] \in ConnTypes
             /\ [c EXCEPT !.pc = pc, !.scan = j] \in ConnTypes
  BY <1>1, <1>2 DEF ConnTypes
<1>3. ASSUME NEW w \in Workerlike, NEW pc \in {"begin", "call"}
      PROVE  Chosen(c, w, pc) \in ConnTypes
  BY <1>1, <1>3 DEF Chosen, ConnTypes
<1>4. CASE PickBegins(s)
  <2>1. [NoScan EXCEPT !.todo = fleet \ c.excluded, !.shut = Shut] \in Scans
    BY <1>1 DEF TypesInv, WorldTypes, Scans, Shut
  <2> QED
    BY <1>1, <1>2, <1>4, <2>1, BecomesTyped, OnlyConn DEF PickBegins, shared
<1>5. ASSUME NEW w \in Workers, Filter(s, w) PROVE TypesInv'
  <2>1. \A cand \in Workerlike : [k EXCEPT !.todo = @ \ {w}, !.cand = cand] \in Scans
    BY <1>1 DEF Scans, Workerlike
  <2>2. \E cand \in Workerlike :
          Becomes(s, [c EXCEPT !.scan = [k EXCEPT !.todo = @ \ {w}, !.cand = cand]])
    BY <1>1, <1>5 DEF Filter, Workerlike, ConnTypes, Scans
  <2> QED
    BY <1>1, <1>2, <1>5, <2>1, <2>2, BecomesTyped, OnlyConn DEF Filter, shared
<1>6. CASE Consider(s)
  <2>1. k.cand \in Workers
    BY <1>1, <1>6 DEF Consider, Scans
  <2>2. Score(c, k.cand) \in Nat
    BY <2>1, ScoreIsNatural
  <2>3. \A n \in Nat :
          /\ [k EXCEPT !.cand = None, !.probe = IF k.probe = None THEN k.cand ELSE k.probe]
               \in Scans
          /\ [k EXCEPT !.cand = None, !.best = k.cand, !.score = n] \in Scans
          /\ [k EXCEPT !.cand = None] \in Scans
    BY <1>1, <2>1 DEF Scans
  <2>4. \E j \in Scans : Becomes(s, [c EXCEPT !.scan = j])
    BY <1>6, <2>2, <2>3 DEF Consider
  <2> QED
    BY <1>1, <1>2, <1>6, <2>4, BecomesTyped, OnlyConn DEF Consider, shared
<1>7. ASSUME NEW w \in Workerlike, Takes(w), HasBudget(w) PROVE BucketTyped'
  <2>1. BucketTyped /\ Limit \in Nat /\ Floor \in Nat
    BY HealthAssumption DEF TypesInv, HealthAssumption
  <2>2. w \in Limited /\ w \in Workers => Spent(bucket[w]) \in [tokens : 0..Limit, blocked : BOOLEAN]
    BY <1>7, <2>1 DEF BucketTyped, HasBudget, Available, Spent
  <2> QED
    BY <1>7, <2>1, <2>2 DEF BucketTyped, Takes
<1>8. ASSUME ConnTyped', BucketTyped', UNCHANGED <<world, health, admitted>> PROVE TypesInv'
  BY <1>8 DEF TypesInv, WorldTypes, HealthTyped, UnderCeiling, world
<1>9. CASE TakeProbe(s)
  <2>1. k.probe \in Workerlike /\ HasBudget(k.probe) /\ Takes(k.probe)
    BY <1>1, <1>9 DEF TakeProbe, Trying, Scans, Workerlike
  <2> QED
    BY <1>1, <1>3, <1>7, <1>8, <1>9, <2>1, BecomesTyped DEF TakeProbe
<1>10. CASE TakeBest(s)
  <2>1. k.best \in Workerlike /\ HasBudget(k.best) /\ Takes(k.best)
    BY <1>1, <1>10 DEF TakeBest, Winning, Scans, Workerlike
  <2> QED
    BY <1>1, <1>3, <1>7, <1>8, <1>10, <2>1, BecomesTyped DEF TakeBest
<1>11. CASE Begin(s)
  <2>1. HealthTyped'
    <3>1. c.target \in Workers =>
            BeginProbe(health[c.target]) \in HealthTypes
            /\ WindowsFit(BeginProbe(health[c.target]))
      BY ProbesKeepTypes DEF TypesInv
    <3> QED
      BY <1>11, <3>1, HealthStaysTyped DEF Begin, TypesInv
  <2>2. \A w \in Workerlike : [c EXCEPT !.pc = "call", !.trial = w] \in ConnTypes
    BY <1>1 DEF ConnTypes
  <2>3. ConnTyped'
    BY <1>1, <1>11, <2>2, BecomesTyped DEF Begin, ConnTypes, Workerlike
  <2> QED
    BY <1>11, <2>1, <2>3 DEF Begin, TypesInv, WorldTypes, BucketTyped, UnderCeiling, world, shared
<1>12. CASE NoCapacity(s)
  BY <1>1, <1>2, <1>12, BecomesTyped, OnlyConn DEF NoCapacity, shared
<1> QED
  BY <1>4, <1>5, <1>6, <1>9, <1>10, <1>11, <1>12 DEF Picking

\* What a session reports, and what it excludes when a call fails.
LEMMA ReportsTyped ==
  ASSUME NEW c \in ConnTypes, NEW w \in Workerlike, NEW from \in Workerlike,
         NEW ok \in BOOLEAN, NEW latency \in Nat, NEW next \in {"pick", "bound", "leave"}
  PROVE  Reports(c, w, from, ok, latency, next) \in ConnTypes
<1>1. [NoReport EXCEPT !.worker = w, !.from = from, !.ok = ok, !.latency = latency]
        \in ReportTypes
  BY DEF NoReport, ReportTypes
<1> QED
  BY <1>1 DEF Reports, ConnTypes

LEMMA ExcludingTyped ==
  ASSUME NEW c \in ConnTypes
  PROVE  Excluding(c) \in ConnTypes /\ Retry(c) \in {"pick", "leave"}
<1>1. MaxAttempts \in Nat \ {0} /\ None \in Workerlike
  BY FleetAssumption DEF FleetAssumption, Workerlike
<1>2. /\ c.target \in Workerlike /\ c.excluded \cup {c.target} \in SUBSET Workerlike
      /\ (IF c.attempt < MaxAttempts THEN c.attempt + 1 ELSE c.attempt) \in 1..MaxAttempts
  BY <1>1 DEF ConnTypes
<1>3. Excluding(c) \in ConnTypes
  BY <1>1, <1>2 DEF Excluding, ConnTypes
<1> QED
  BY <1>3 DEF Retry

\* The first attempt is one of those allowed.
LEMMA FirstAttempt == 1 \in 1..MaxAttempts /\ {} \in SUBSET Workerlike
BY FleetAssumption DEF FleetAssumption

LEMMA OpeningTyped ==
  ASSUME TypesInv, NEW s \in Sessions, Opening(s), BalanceInv'
  PROVE  TypesInv'
<1> DEFINE c == conn[s]
<1>1. ConnTyped /\ c \in ConnTypes /\ c.target \in Workerlike /\ None \in Workerlike
  BY DEF TypesInv, ConnTyped, ConnTypes, Workerlike
<1>2. ASSUME NEW w \in Workerlike
      PROVE  [c EXCEPT !.owner = w, !.target = None, !.excluded = {}, !.attempt = 1]
               \in ConnTypes
  BY <1>1, FirstAttempt DEF ConnTypes
<1>3. CASE Opened(s)
  BY <1>1, <1>2, <1>3, ReportsTyped, BecomesTyped, OnlyConn DEF Opened
<1>4. CASE OpenedVirtually(s)
  BY <1>1, <1>2, <1>4, ReportsTyped, BecomesTyped, OnlyConn DEF OpenedVirtually
<1>5. CASE OpenFails(s)
  <2>1. ExcludedReported(c) \in ConnTypes
    BY <1>1, ReportsTyped, ExcludingTyped DEF ExcludedReported
  <2> QED
    BY <1>1, <1>5, <2>1, BecomesTyped, OnlyConn DEF OpenFails, shared
<1>6. CASE OpenedNowhere(s)
  <2>1. [ExcludedUnreported(c) EXCEPT !.trial = None] \in ConnTypes
    BY <1>1, ExcludingTyped DEF ExcludedUnreported, ConnTypes
  <2> QED
    BY <1>1, <1>6, <2>1, BecomesTyped, OnlyConn DEF OpenedNowhere, shared
<1> QED
  BY <1>3, <1>4, <1>5, <1>6 DEF Opening

LEMMA PushingTyped ==
  ASSUME TypesInv, NEW s \in Sessions, Pushing(s), BalanceInv'
  PROVE  TypesInv'
<1> DEFINE c == conn[s]
<1>1. ConnTyped /\ c \in ConnTypes /\ c.owner \in Workerlike
  BY DEF TypesInv, ConnTyped, ConnTypes
<1>2. AfterFailure(c) \in ConnTypes
  <2>1. [c EXCEPT !.excluded = {c.owner}, !.attempt = 1] \in ConnTypes
    BY <1>1, FirstAttempt DEF ConnTypes
  <2> QED
    BY <1>1, <2>1, ReportsTyped DEF AfterFailure
<1>3. ASSUME NEW v \in Workers, NEW l \in Latencies, PushAnswered(s, v, l) PROVE TypesInv'
  <2>1. l \in Nat /\ v \in Workerlike
    BY FleetAssumption DEF FleetAssumption, Workerlike
  <2> QED
    BY <1>1, <1>3, <2>1, ReportsTyped, BecomesTyped, OnlyConn DEF PushAnswered, shared
<1>4. CASE PushFails(s)
  BY <1>1, <1>2, <1>4, BecomesTyped, OnlyConn DEF PushFails, shared
<1>5. CASE PushRefused(s)
  <2>1. BucketTyped'
    <3>1. Refused \in [tokens : 0..Limit, blocked : BOOLEAN]
      BY HealthAssumption DEF HealthAssumption, Refused
    <3> QED
      BY <1>5, <3>1 DEF PushRefused, TypesInv, BucketTyped
  <2> QED
    BY <1>1, <1>2, <1>5, <2>1, BecomesTyped
       DEF PushRefused, TypesInv, WorldTypes, HealthTyped, UnderCeiling, world
<1> QED
  BY <1>3, <1>4, <1>5 DEF Pushing

LEMMA ReportTyped ==
  ASSUME TypesInv, NEW s \in Sessions, Report(s), BalanceInv'
  PROVE  TypesInv'
<1> DEFINE c == conn[s]
           r == conn[s].report
<1>1. ConnTyped /\ c \in ConnTypes /\ r \in ReportTypes /\ NoReport \in ReportTypes
  BY DEF TypesInv, ConnTyped, ConnTypes, NoReport, ReportTypes, Workerlike
<1>2. HealthTyped'
  <2>1. \A base : r.worker \in Workers =>
          /\ Reported(health[r.worker], r.ok, r.latency, base) \in HealthTypes
          /\ WindowsFit(Reported(health[r.worker], r.ok, r.latency, base))
    BY <1>1, ReportsKeepTypes DEF TypesInv
  <2>2. PICK base : health' = [health EXCEPT
                                 ![r.worker] = Reported(@, r.ok, r.latency, base)]
    BY DEF Report
  <2> QED
    BY <2>1, <2>2, HealthStaysTyped DEF TypesInv
<1>3. ConnTyped'
  <2>1. \A w \in Workerlike : [c EXCEPT !.pc = c.next, !.report = NoReport, !.next = "off",
                                        !.trial = w] \in ConnTypes
    BY <1>1 DEF ConnTypes
  <2>2. PICK w \in Workerlike :
          Becomes(s, [c EXCEPT !.pc = c.next, !.report = NoReport, !.next = "off", !.trial = w])
    <3>1. c.trial \in Workerlike /\ None \in Workerlike
      BY <1>1 DEF ConnTypes, Workerlike
    <3> QED
      BY <3>1 DEF Report
  <2> QED
    BY <1>1, <2>1, <2>2, BecomesTyped
<1> QED
  BY <1>2, <1>3 DEF Report, TypesInv, WorldTypes, BucketTyped, UnderCeiling, world, shared

LEMMA EndingTyped ==
  ASSUME TypesInv, NEW s \in Sessions, Admit(s) \/ Leave(s) \/ Ending(s), BalanceInv'
  PROVE  TypesInv'
<1> DEFINE c == conn[s]
<1>1. ConnTyped /\ c \in ConnTypes /\ Closed \in ConnTypes
  <2>1. NoScan \in Scans
    BY DEF NoScan, Scans
  <2>2. NoReport \in ReportTypes
    BY DEF NoReport, ReportTypes, Workerlike
  <2>3. Closed \in ConnTypes
    BY <2>1, <2>2, FleetAssumption DEF FleetAssumption, Closed, ConnTypes, Workerlike
  <2> QED
    BY <2>3 DEF TypesInv, ConnTyped
<1>2. /\ [Closed EXCEPT !.pc = "pick"] \in ConnTypes
      /\ [c EXCEPT !.pc = "leave"] \in ConnTypes
      /\ [Closed EXCEPT !.pc = "unbind", !.owner = c.owner] \in ConnTypes
  BY <1>1 DEF ConnTypes
<1>3. admitted \in Nat /\ MaxSessions \in Nat /\ admitted <= MaxSessions
  BY FleetAssumption, FS_Subset, FS_CardinalityType
     DEF FleetAssumption, TypesInv, BalanceInv, CountersBalance, UnderCeiling
<1>4. CASE Admit(s)
  <2>1. ConnTyped' /\ UnderCeiling'
    BY <1>1, <1>2, <1>3, <1>4, BecomesTyped DEF Admit, UnderCeiling
  <2> QED
    BY <1>4, <2>1 DEF Admit, TypesInv, WorldTypes, HealthTyped, BucketTyped, world
<1>5. CASE Leave(s)
  BY <1>1, <1>2, <1>5, BecomesTyped, OnlyConn DEF Leave, shared
<1>6. CASE Release(s)
  <2>1. ConnTyped' /\ UnderCeiling'
    BY <1>1, <1>2, <1>3, <1>6, BecomesTyped DEF Release, Released, UnderCeiling
  <2> QED
    BY <1>6, <2>1 DEF Release, TypesInv, WorldTypes, HealthTyped, BucketTyped, world
<1>7. CASE Unbind(s)
  BY <1>1, <1>7, BecomesTyped, OnlyConn DEF Unbind
<1> QED
  BY <1>4, <1>5, <1>6, <1>7 DEF Ending

LEMMA WorldTyped ==
  ASSUME TypesInv, NEW w \in Workers, Timers(w) \/ Control(w) \/ GoesDown(w) \/ ComesUp(w),
         BalanceInv'
  PROVE  TypesInv'
<1>1. HealthTyped'
  <2>1. HealthTyped /\ health[w] \in HealthTypes /\ WindowsFit(health[w])
    BY DEF TypesInv, HealthTyped
  <2>2. CASE UNCHANGED health
    BY <2>1, <2>2 DEF HealthTyped
  <2>3. CASE TimerExpires(w) \/ MarkUnhealthy(w)
    <3>1. \A g \in {Expired(health[w]), Eject(health[w]), health[w]} :
            g \in HealthTypes /\ WindowsFit(g)
      BY <2>1, RecordsKeepTypes
    <3>2. \E g \in {Expired(health[w]), Eject(health[w]), health[w]} :
            health' = [health EXCEPT ![w] = g]
      BY <2>3 DEF TimerExpires, MarkUnhealthy
    <3> QED
      BY <2>1, <3>1, <3>2, HealthStaysTyped
  <2>4. ASSUME NEW on \in BOOLEAN, SetDraining(w, on) PROVE HealthTyped'
    <3>1. [health[w] EXCEPT !.draining = on] \in HealthTypes
          /\ WindowsFit([health[w] EXCEPT !.draining = on])
      BY <2>1 DEF HealthTypes, WindowsFit
    <3>2. health' = [health EXCEPT ![w] = [health[w] EXCEPT !.draining = on]]
      BY <2>4 DEF SetDraining
    <3> QED
      BY <2>1, <3>1, <3>2, HealthStaysTyped
  <2> QED
    BY <2>2, <2>3, <2>4 DEF Timers, Control, Refill, RetryAfterPasses, HealthCallFails, Add,
       GoesDown, ComesUp
<1>2. ConnTyped'
  <2>1. CASE UNCHANGED conn
    BY <2>1 DEF TypesInv, ConnTyped
  <2>2. CASE conn' = [s \in Sessions |-> Reopened(conn[s], w)]
    <3>1. ASSUME NEW s \in Sessions PROVE Reopened(conn[s], w) \in ConnTypes
      <4>1. conn[s] \in ConnTypes /\ conn[s].scan \in Scans
        BY DEF TypesInv, ConnTyped, ConnTypes
      <4>2. [conn[s].scan EXCEPT !.shut = @ \ {w}] \in Scans
        BY <4>1 DEF Scans
      <4> QED
        BY <4>1, <4>2 DEF Reopened, ConnTypes
    <3> QED
      BY <2>2, <3>1 DEF ConnTyped
  <2> QED
    BY <2>1, <2>2 DEF Timers, Control, TimerExpires, Refill, RetryAfterPasses,
       HealthCallFails, MarkUnhealthy, Add, SetDraining, GoesDown, ComesUp
<1>3. BucketTyped'
  <2>1. BucketTyped /\ Limit \in Nat
    BY HealthAssumption DEF TypesInv, HealthAssumption
  <2>2. CASE Refill(w)
    BY <2>1, <2>2 DEF Refill, Refilled, BucketTyped
  <2>3. CASE RetryAfterPasses(w)
    BY <2>1, <2>3 DEF RetryAfterPasses, BucketTyped
  <2>4. CASE UNCHANGED bucket
    BY <2>1, <2>4 DEF BucketTyped
  <2> QED
    BY <2>2, <2>3, <2>4
       DEF Timers, Control, TimerExpires, HealthCallFails, MarkUnhealthy, Add, SetDraining,
           GoesDown, ComesUp, shared
<1>4. WorldTypes' /\ UnderCeiling'
  BY DEF TypesInv, WorldTypes, UnderCeiling, Timers, Control, TimerExpires, Refill,
         RetryAfterPasses, HealthCallFails, MarkUnhealthy, Add, SetDraining, GoesDown,
         ComesUp, shared, world
<1> QED
  BY <1>1, <1>2, <1>3, <1>4 DEF TypesInv

LEMMA TypesNext == TypesInv /\ [Next]_vars => TypesInv'
<1> SUFFICES ASSUME TypesInv, [Next]_vars PROVE TypesInv'
  OBVIOUS
<1>1. BalanceInv'
  BY BalanceNext DEF TypesInv
<1>2. ASSUME NEW s \in Sessions, Admit(s) \/ Proceeds(s) \/ Pushing(s) \/ Leave(s)
      PROVE  TypesInv'
  BY <1>1, <1>2, PickingTyped, OpeningTyped, PushingTyped, ReportTyped, EndingTyped
     DEF Proceeds
<1>3. ASSUME NEW w \in Workers, Timers(w) \/ Control(w) \/ GoesDown(w) \/ ComesUp(w)
      PROVE  TypesInv'
  BY <1>1, <1>3, WorldTyped
<1>4. CASE UNCHANGED vars
  BY <1>1, <1>4 DEF vars, shared, world, TypesInv, WorldTypes, HealthTyped, BucketTyped,
     ConnTyped, UnderCeiling
<1> QED
  BY <1>2, <1>3, <1>4 DEF Next

\* The records of internal/router's workers and buckets, the counters of the
\* router and of admission control and each session's locals keep the shapes
\* the code gives them: in particular no window outgrows windowSize, no more
\* sessions are admitted than the ceiling, and every score is a number.
THEOREM FleetTypes == Spec => []TypeOK
<1>1. TypesInv => TypeOK
  <2> SUFFICES ASSUME TypesInv PROVE TypeOK
    OBVIOUS
  <2>1. \A w \in Workers : outstanding[w] \in 0..Cardinality(Sessions)
    <3>1. IsFiniteSet(Sessions)
      BY FleetAssumption DEF FleetAssumption
    <3>2. \A S \in SUBSET Sessions : Cardinality(S) \in 0..Cardinality(Sessions)
      BY <3>1, FS_Subset, FS_CardinalityType
    <3> QED
      BY <3>2 DEF TypesInv, BalanceInv, CountersBalance
  <2>2. admitted \in 0..MaxSessions
    BY FleetAssumption, FS_Subset, FS_CardinalityType
       DEF FleetAssumption, TypesInv, BalanceInv, CountersBalance, UnderCeiling
  <2>3. ASSUME NEW w \in Workers
        PROVE  /\ health[w].status \in {"healthy", "degraded", "ejected"}
               /\ Len(health[w].outcomes) <= Window /\ Len(health[w].latencies) <= Window
               /\ bucket[w].tokens \in 0..Limit
    <3>1. health[w] \in HealthTypes /\ WindowsFit(health[w])
          /\ bucket[w] \in [tokens : 0..Limit, blocked : BOOLEAN]
      BY DEF TypesInv, HealthTyped, BucketTyped
    <3> QED
      BY <3>1 DEF HealthTypes, WindowsFit
  <2>4. ASSUME NEW s \in Sessions
        PROVE  /\ conn[s].pc \in {"off", "pick", "scan", "begin", "call", "report", "bound",
                                   "leave", "unbind"}
               /\ conn[s].scan \in Scans
               /\ conn[s].attempt \in 1..MaxAttempts
    <3>1. conn[s] \in ConnTypes
      BY DEF TypesInv, ConnTyped
    <3> QED
      BY <3>1 DEF ConnTypes
  <2>5. WorldTypes
    BY DEF TypesInv
  <2> QED
    BY <2>1, <2>2, <2>3, <2>4, <2>5 DEF WorldTypes, TypeOK
<1> QED
  BY <1>1, TypesInit, TypesNext, PTL DEF Spec

-------------------------------------------------------------------------------
(* Drained workers.                                                        *)

\* A scan's snapshot names workers that are still draining, since one whose
\* drain is lifted leaves it, and the scan holds on to none of them.
ScanOK(k) ==
  /\ \A w \in k.shut : health[w].draining
  /\ k.cand \notin k.shut /\ k.best \notin k.shut /\ k.probe \notin k.shut
ScansOK  == \A s \in Sessions : ScanOK(conn[s].scan)
DrainInv == TypesInv /\ ScansOK

\* A step changes a session's target to nobody or to a worker it held on to.
Retargets(s) ==
  conn'[s].target \in {conn[s].target, None, conn[s].scan.best, conn[s].scan.probe}

\* The steps of sessions drain nobody.
LEMMA SessionsDrainNobody ==
  ASSUME TypesInv, NEW s \in Sessions, Admit(s) \/ Proceeds(s) \/ Pushing(s) \/ Leave(s)
  PROVE  \A w \in Workers : health'[w].draining = health[w].draining
<1>1. health \in [Workers -> HealthTypes] /\ \A w \in Workers : WindowsFit(health[w])
  BY DEF TypesInv, HealthTyped
<1>2. CASE UNCHANGED health
  BY <1>2
<1>3. CASE Begin(s)
  <2>1. \A w \in Workers : BeginProbe(health[w]).draining = health[w].draining
    BY <1>1 DEF BeginProbe, HealthTypes
  <2> QED
    BY <1>1, <1>3, <2>1 DEF Begin
<1>4. CASE Report(s)
  <2> DEFINE r == conn[s].report
  <2>1. r \in ReportTypes
    BY DEF TypesInv, ConnTyped, ConnTypes
  <2>2. \A w \in Workers : \A base :
          Reported(health[w], r.ok, r.latency, base).draining = health[w].draining
    BY <2>1, ReportsKeepTypes DEF TypesInv
  <2> QED
    BY <1>1, <1>4, <2>2 DEF Report
<1> QED
  BY <1>2, <1>3, <1>4
     DEF Admit, Leave, Proceeds, Picking, Opening, Ending, Pushing, PickBegins, Filter,
         Consider, TakeProbe, TakeBest, NoCapacity, Opened, OpenedVirtually, OpenFails,
         OpenedNowhere, PushAnswered, PushFails, PushRefused, Release, Unbind

\* The other sessions stay where they are.
LEMMA OthersStay ==
  ASSUME TypesInv, NEW s \in Sessions, Admit(s) \/ Proceeds(s) \/ Pushing(s) \/ Leave(s)
  PROVE  \A t \in Sessions \ {s} : conn'[t] = conn[t]
<1>1. DOMAIN conn = Sessions
  BY DEF TypesInv, ConnTyped
<1> QED
  BY <1>1
     DEF Becomes, Admit, Leave, Proceeds, Picking, Opening, Ending, Pushing, PickBegins, Filter,
         Consider, TakeProbe, TakeBest, NoCapacity, Opened, OpenedVirtually, OpenFails,
         OpenedNowhere, PushAnswered, PushFails, PushRefused, Release, Unbind, Begin, Report

\* The scan of a session that steps.
LEMMA SessionScans ==
  ASSUME DrainInv, NEW s \in Sessions, Admit(s) \/ Proceeds(s) \/ Pushing(s) \/ Leave(s)
  PROVE  ScanOK(conn'[s].scan) /\ Retargets(s)
<1> DEFINE c == conn[s]
           k == conn[s].scan
<1>1. /\ c \in ConnTypes /\ k \in Scans /\ DOMAIN conn = Sessions
      /\ ScanOK(k) /\ ScanOK(NoScan) /\ None \notin k.shut
      /\ ScanOK(Closed.scan) /\ Closed.target = None
  <2>1. c \in ConnTypes /\ k \in Scans /\ DOMAIN conn = Sessions /\ ScanOK(k)
    BY DEF DrainInv, ScansOK, TypesInv, ConnTyped, ConnTypes
  <2>2. None \notin k.shut
    BY <2>1, FleetAssumption DEF FleetAssumption, Scans
  <2>3. ScanOK(NoScan) /\ ScanOK(Closed.scan) /\ Closed.target = None
    BY DEF ScanOK, NoScan, Closed
  <2> QED
    BY <2>1, <2>2, <2>3
<1>2. ConnFields(c)
  BY <1>1 DEF ConnFields, ConnTypes, Scans
<1>12. ASSUME conn'[s].scan \in {k, NoScan}, conn'[s].target \in {c.target, None}
       PROVE  ScanOK(conn'[s].scan) /\ Retargets(s)
  BY <1>1, <1>12 DEF Retargets
<1>3. CASE PickBegins(s)
  <2>1. conn'[s] = [c EXCEPT !.pc = "scan", !.scan =
                      [NoScan EXCEPT !.todo = fleet \ c.excluded, !.shut = Shut]]
    BY <1>1, <1>3 DEF PickBegins, Becomes
  <2>2. None \notin Shut
    BY FleetAssumption DEF FleetAssumption, Shut, DrainInv, TypesInv, WorldTypes
  <2>3. /\ conn'[s].target = c.target /\ conn'[s].scan.shut = Shut
        /\ conn'[s].scan.cand = None /\ conn'[s].scan.best = None /\ conn'[s].scan.probe = None
    BY <1>2, <2>1 DEF ConnFields, NoScan
  <2>4. ScanOK(conn'[s].scan)
    BY <2>2, <2>3 DEF ScanOK, Shut
  <2> QED
    BY <2>3, <2>4 DEF Retargets
<1>4. ASSUME NEW w \in Workers, Filter(s, w) PROVE ScanOK(conn'[s].scan) /\ Retargets(s)
  <2>1. PICK cand \in {w, None} :
          /\ conn'[s] = [c EXCEPT !.scan = [k EXCEPT !.todo = @ \ {w}, !.cand = cand]]
          /\ cand = w => ~health[w].draining \/ w = None
    BY <1>1, <1>4 DEF Filter, Becomes, Eligible
  <2>2. /\ conn'[s].target = c.target /\ conn'[s].scan.shut = k.shut
        /\ conn'[s].scan.cand = cand /\ conn'[s].scan.best = k.best
        /\ conn'[s].scan.probe = k.probe
    BY <1>2, <2>1 DEF ConnFields
  <2> QED
    BY <1>1, <2>1, <2>2 DEF ScanOK, Retargets
<1>5. CASE Consider(s)
  <2>1. PICK j : /\ conn'[s] = [c EXCEPT !.scan = j]
                 /\ j.shut = k.shut /\ j.cand = None
                 /\ j.best \in {k.best, k.cand} /\ j.probe \in {k.probe, k.cand}
    <3> DEFINE held   == [k EXCEPT !.cand = None,
                                   !.probe = IF k.probe = None THEN k.cand ELSE k.probe]
               ahead  == [k EXCEPT !.cand = None, !.best = k.cand, !.score = Score(c, k.cand)]
               behind == [k EXCEPT !.cand = None]
    <3>1. \E j \in {held, ahead, behind} : conn'[s] = [c EXCEPT !.scan = j]
      BY <1>1, <1>5 DEF Consider, Becomes
    <3>2. \A j \in {held, ahead, behind} :
            /\ j.shut = k.shut /\ j.cand = None
            /\ j.best \in {k.best, k.cand} /\ j.probe \in {k.probe, k.cand}
      BY <1>1 DEF Scans
    <3> QED
      BY <3>1, <3>2
  <2>2. conn'[s].target = c.target /\ conn'[s].scan = j
    BY <1>2, <2>1 DEF ConnFields
  <2>3. ScanOK(j)
    BY <1>1, <2>1 DEF ScanOK
  <2> QED
    BY <2>2, <2>3 DEF Retargets
<1>6. CASE TakeProbe(s) \/ TakeBest(s) \/ NoCapacity(s)
  <2>1. \E d \in {Chosen(c, k.probe, "begin"), Chosen(c, k.best, "call"),
                  [c EXCEPT !.pc = "leave", !.scan = NoScan]} : conn'[s] = d
    BY <1>1, <1>6 DEF TakeProbe, TakeBest, NoCapacity, Becomes
  <2>2. conn'[s].scan = NoScan /\ conn'[s].target \in {c.target, k.probe, k.best}
    BY <1>2, <2>1 DEF Chosen, ConnFields
  <2> QED
    BY <1>1, <2>2 DEF Retargets
<1>7. CASE Begin(s) \/ Report(s) \/ Leave(s)
  <2>1. ASSUME Begin(s) PROVE conn'[s].scan = k /\ conn'[s].target = c.target
    <3>1. PICK trial : conn'[s] = [c EXCEPT !.pc = "call", !.trial = trial]
      BY <1>1, <2>1 DEF Begin, Becomes
    <3> QED
      BY <1>2, <3>1 DEF ConnFields
  <2>2. ASSUME Report(s) PROVE conn'[s].scan = k /\ conn'[s].target = c.target
    <3>1. PICK trial : conn'[s] = [c EXCEPT !.pc = c.next, !.report = NoReport, !.next = "off",
                                            !.trial = trial]
      BY <1>1, <2>2 DEF Report, Becomes
    <3> QED
      BY <1>2, <3>1 DEF ConnFields
  <2>3. ASSUME Leave(s) PROVE conn'[s].scan = k /\ conn'[s].target = c.target
    BY <1>1, <1>2, <2>3 DEF Leave, Becomes, ConnFields
  <2> QED
    BY <1>7, <1>12, <2>1, <2>2, <2>3
<1>8. CASE Opening(s)
  <2>1. ASSUME Opened(s) \/ OpenedVirtually(s)
        PROVE  conn'[s].scan = k /\ conn'[s].target = None
    <3> DEFINE d == [c EXCEPT !.owner = c.target, !.target = None, !.excluded = {},
                              !.attempt = 1]
    <3>1. ConnFields(d) /\ d.scan = k /\ d.target = None
      BY <1>2 DEF ConnFields
    <3>2. \E from \in {c.target, None} : conn'[s] = Reports(d, c.target, from, TRUE, 0, "bound")
      BY <1>1, <2>1 DEF Opened, OpenedVirtually, Becomes
    <3> HIDE DEF d
    <3>3. conn'[s].scan = d.scan /\ conn'[s].target = d.target
      BY <3>1, <3>2 DEF Reports, ConnFields
    <3> QED
      BY <3>1, <3>3
  <2>2. ASSUME OpenFails(s)
        PROVE  conn'[s].scan = k /\ conn'[s].target = None
    <3> DEFINE d == Excluding(c)
    <3>1. ConnFields(d) /\ d.scan = k /\ d.target = None
      BY <1>2 DEF ConnFields, Excluding
    <3>2. conn'[s] = Reports(d, c.target, c.target, FALSE, 0, Retry(c))
      BY <1>1, <2>2 DEF OpenFails, Becomes, ExcludedReported
    <3> HIDE DEF d
    <3>3. conn'[s].scan = d.scan /\ conn'[s].target = d.target
      BY <3>1, <3>2 DEF Reports, ConnFields
    <3> QED
      BY <3>1, <3>3
  <2>3. ASSUME OpenedNowhere(s)
        PROVE  conn'[s].scan = k /\ conn'[s].target = None
    BY <1>1, <1>2, <2>3 DEF OpenedNowhere, Becomes, ExcludedUnreported, Excluding, ConnFields
  <2> QED
    BY <1>8, <1>12, <2>1, <2>2, <2>3 DEF Opening
<1>9. CASE Pushing(s)
  <2>1. ASSUME NEW v, NEW l, PushAnswered(s, v, l)
        PROVE  conn'[s].scan = k /\ conn'[s].target = c.target
    BY <1>1, <1>2, <2>1 DEF PushAnswered, Becomes, Reports, ConnFields
  <2>2. AfterFailure(c).scan = k /\ AfterFailure(c).target = c.target
    <3> DEFINE d == [c EXCEPT !.excluded = {c.owner}, !.attempt = 1]
    <3>1. ConnFields(d) /\ d.scan = k /\ d.target = c.target
      BY <1>2 DEF ConnFields
    <3>2. CASE Stateless
      BY <1>2, <3>2 DEF AfterFailure, Reports, ConnFields
    <3>3. CASE ~Stateless
      <4>1. AfterFailure(c) = Reports(d, c.owner, c.owner, FALSE, 0, "pick")
        BY <3>3 DEF AfterFailure
      <4> HIDE DEF d
      <4>2. AfterFailure(c).scan = d.scan /\ AfterFailure(c).target = d.target
        BY <3>1, <4>1 DEF Reports, ConnFields
      <4> QED
        BY <3>1, <4>2
    <3> QED
      BY <3>2, <3>3
  <2>3. ASSUME PushFails(s) \/ PushRefused(s)
        PROVE  conn'[s].scan = k /\ conn'[s].target = c.target
    BY <1>1, <2>2, <2>3 DEF PushFails, PushRefused, Becomes
  <2> QED
    BY <1>9, <1>12, <2>1, <2>3 DEF Pushing
<1>10. CASE Admit(s) \/ Ending(s)
  <2>1. ASSUME Admit(s) PROVE conn'[s].scan = NoScan /\ conn'[s].target = None
    BY <1>1, <2>1 DEF Admit, Becomes, Closed
  <2>2. ASSUME Release(s) PROVE conn'[s].scan = NoScan /\ conn'[s].target = None
    BY <1>1, <2>2 DEF Release, Becomes, Closed
  <2>3. ASSUME Unbind(s) PROVE conn'[s].scan = NoScan /\ conn'[s].target = None
    BY <1>1, <2>3 DEF Unbind, Becomes, Closed
  <2> QED
    BY <1>10, <1>12, <2>1, <2>2, <2>3 DEF Ending
<1> QED
  BY <1>3, <1>4, <1>5, <1>6, <1>7, <1>8, <1>9, <1>10 DEF Proceeds, Picking

\* A drain adds to what is drained, and the end of one is taken out of every
\* snapshot.
LEMMA WorldScans ==
  ASSUME DrainInv, NEW w \in Workers, Timers(w) \/ Control(w) \/ GoesDown(w) \/ ComesUp(w)
  PROVE  ScansOK' /\ \A s \in Sessions : conn'[s].target = conn[s].target
<1>1. /\ health \in [Workers -> HealthTypes] /\ conn \in [Sessions -> ConnTypes]
      /\ \A s \in Sessions : conn[s].scan \in Scans /\ ScanOK(conn[s].scan)
  BY DEF DrainInv, ScansOK, TypesInv, HealthTyped, ConnTyped, ConnTypes
<1>2. CASE UNCHANGED conn /\ \A v \in Workers : health'[v].draining = health[v].draining
  BY <1>1, <1>2 DEF ScansOK, ScanOK, Scans
<1>3. ASSUME NEW on \in BOOLEAN, SetDraining(w, on)
      PROVE  ScansOK' /\ \A s \in Sessions : conn'[s].target = conn[s].target
  <2>1. \A v \in Workers : health'[v].draining = IF v = w THEN on ELSE health[v].draining
    BY <1>1, <1>3 DEF SetDraining, HealthTypes
  <2>2. CASE on
    <3>1. UNCHANGED conn
      BY <1>3, <2>2 DEF SetDraining
    <3> QED
      BY <1>1, <2>1, <2>2, <3>1 DEF ScansOK, ScanOK, Scans
  <2>3. CASE ~on
    <3>1. \A s \in Sessions : conn'[s] = Reopened(conn[s], w)
      BY <1>3, <2>3 DEF SetDraining
    <3>2. \A s \in Sessions :
            /\ conn'[s].scan.shut = conn[s].scan.shut \ {w}
            /\ conn'[s].scan.cand = conn[s].scan.cand /\ conn'[s].scan.best = conn[s].scan.best
            /\ conn'[s].scan.probe = conn[s].scan.probe
            /\ conn'[s].target = conn[s].target
      <4>1. \A s \in Sessions : ConnFields(conn[s])
        BY <1>1 DEF ConnFields, ConnTypes, Scans
      <4>2. ASSUME NEW c, ConnFields(c)
            PROVE  /\ Reopened(c, w).scan.shut = c.scan.shut \ {w}
                   /\ Reopened(c, w).scan.cand = c.scan.cand
                   /\ Reopened(c, w).scan.best = c.scan.best
                   /\ Reopened(c, w).scan.probe = c.scan.probe
                   /\ Reopened(c, w).target = c.target
        BY <4>2 DEF Reopened, ConnFields
      <4> QED
        BY <3>1, <4>1, <4>2
    <3> QED
      BY <1>1, <2>1, <3>2 DEF ScansOK, ScanOK, Scans
  <2> QED
    BY <2>2, <2>3
<1>4. CASE TimerExpires(w) \/ MarkUnhealthy(w)
  <2>1. \A v \in Workers : HealthFields(health[v])
    BY <1>1 DEF HealthFields, HealthTypes
  <2>2. Expired(health[w]).draining = health[w].draining
        /\ Eject(health[w]).draining = health[w].draining
    BY <2>1 DEF Expired, Eject, HealthFields
  <2>3. \E g : g.draining = health[w].draining /\ health' = [health EXCEPT ![w] = g]
    BY <1>4, <2>2 DEF TimerExpires, MarkUnhealthy
  <2>4. \A v \in Workers : health'[v].draining = health[v].draining
    BY <1>1, <2>3
  <2> QED
    BY <1>2, <1>4, <2>4 DEF TimerExpires, MarkUnhealthy
<1>5. CASE UNCHANGED <<conn, health>>
  BY <1>2, <1>5
<1> QED
  BY <1>3, <1>4, <1>5 DEF Timers, Control, Refill, RetryAfterPasses, HealthCallFails, Add,
     GoesDown, ComesUp

\* A pick that read a worker as draining does not choose it unless the drain was
\* lifted in the meantime (router.go, SetDraining and Pick): the filter reads
\* the flag again, and neither a health call that fails nor a report of another
\* session lifts it.
THEOREM DrainedIsNeverChosen == Spec => DrainedIsNotChosen
<1>1. Init => DrainInv
  <2>1. Init => ScansOK
    BY DEF Init, Closed, NoScan, ScansOK, ScanOK
  <2> QED
    BY <2>1, TypesInit DEF DrainInv
<1>2. ASSUME DrainInv, [Next]_vars
      PROVE  /\ DrainInv'
             /\ \A s \in Sessions :
                  conn'[s].target # conn[s].target => conn'[s].target \notin conn[s].scan.shut
  <2>1. TypesInv /\ TypesInv' /\ ScansOK
    BY <1>2, TypesNext DEF DrainInv
  <2>2. \A s \in Sessions : None \notin conn[s].scan.shut /\ conn[s].scan.shut \subseteq Workers
    BY <2>1, FleetAssumption DEF FleetAssumption, TypesInv, ConnTyped, ConnTypes, Scans
  <2>3. ASSUME NEW s \in Sessions, Admit(s) \/ Proceeds(s) \/ Pushing(s) \/ Leave(s)
        PROVE  /\ ScansOK'
               /\ \A t \in Sessions :
                    conn'[t].target # conn[t].target => conn'[t].target \notin conn[t].scan.shut
    <3>1. /\ ScanOK(conn'[s].scan) /\ Retargets(s)
          /\ \A t \in Sessions \ {s} : conn'[t] = conn[t]
      BY <1>2, <2>1, <2>3, SessionScans, OthersStay
    <3>2. \A w \in Workers : health'[w].draining = health[w].draining
      BY <2>1, <2>3, SessionsDrainNobody
    <3>3. \A t \in Sessions : ScanOK(conn'[t].scan) /\ conn'[t].scan.shut \subseteq Workers
      <4>1. \A t \in Sessions : conn'[t].scan.shut \subseteq Workers
        BY <2>1 DEF TypesInv, ConnTyped, ConnTypes, Scans
      <4> QED
        BY <2>1, <3>1, <4>1 DEF ScansOK
    <3>4. ScansOK'
      BY <3>2, <3>3 DEF ScansOK, ScanOK
    <3>5. \A t \in Sessions :
            conn'[t].target # conn[t].target => conn'[t].target \notin conn[t].scan.shut
      BY <2>1, <2>2, <3>1 DEF Retargets, ScansOK, ScanOK
    <3> QED
      BY <3>4, <3>5
  <2>4. ASSUME NEW w \in Workers, Timers(w) \/ Control(w) \/ GoesDown(w) \/ ComesUp(w)
        PROVE  /\ ScansOK'
               /\ \A s \in Sessions : conn'[s].target = conn[s].target
    BY <1>2, <2>4, WorldScans
  <2>5. CASE UNCHANGED vars
    BY <2>1, <2>5 DEF vars, DrainInv, ScansOK, ScanOK
  <2> QED
    BY <1>2, <2>1, <2>3, <2>4, <2>5 DEF Next, DrainInv
<1> QED
  BY <1>1, <1>2, PTL DEF Spec, DrainedIsNotChosen

-------------------------------------------------------------------------------
(* Restoring a worker.                                                     *)

\* Without the pool, what a session reports of a worker is that worker's own
\* answer, or its silence.
ReportsItsOwn(c) == c.pc = "report" => c.report.from = c.report.worker
AnswersInv == TypesInv /\ \A s \in Sessions : ReportsItsOwn(conn[s])

\* A session's step reports what its worker answered.
LEMMA SessionAnswers ==
  ASSUME ~Stateless, AnswersInv, NEW s \in Sessions,
         Admit(s) \/ Proceeds(s) \/ Pushing(s) \/ Leave(s)
  PROVE  ReportsItsOwn(conn'[s])
<1> DEFINE c == conn[s]
<1>1. c \in ConnTypes /\ ConnFields(c) /\ ReportsItsOwn(c) /\ DOMAIN conn = Sessions
  <2>1. c \in ConnTypes /\ DOMAIN conn = Sessions
    BY DEF AnswersInv, TypesInv, ConnTyped
  <2> QED
    BY <2>1 DEF AnswersInv, ConnFields, ConnTypes, Scans
<1>2. CASE Admit(s) \/ Ending(s)
  <2>1. ASSUME Admit(s) PROVE conn'[s].pc = "pick"
    BY <1>1, <2>1 DEF Admit, Becomes, Closed
  <2>2. ASSUME Release(s) PROVE conn'[s].pc = "unbind"
    BY <1>1, <2>2 DEF Release, Becomes, Closed
  <2>3. ASSUME Unbind(s) PROVE conn'[s].pc = "off"
    BY <1>1, <2>3 DEF Unbind, Becomes, Closed
  <2>4. conn'[s].pc \in {"pick", "unbind", "off"}
    BY <1>2, <2>1, <2>2, <2>3 DEF Ending
  <2> QED
    BY <2>4 DEF ReportsItsOwn
<1>3. CASE Picking(s)
  <2> DEFINE Chooses == conn'[s].pc \in {"scan", "begin", "call", "leave"}
  <2>1. ASSUME PickBegins(s) \/ \E w \in Workers : Filter(s, w) PROVE Chooses
    BY <1>1, <2>1 DEF PickBegins, Filter, Becomes, ConnFields
  <2>2. ASSUME Consider(s) PROVE Chooses
    BY <1>1, <2>2 DEF Consider, Becomes, ConnFields
  <2>3. ASSUME TakeProbe(s) \/ TakeBest(s) PROVE Chooses
    BY <1>1, <2>3 DEF TakeProbe, TakeBest, Becomes, Chosen, ConnFields
  <2>4. ASSUME Begin(s) \/ NoCapacity(s) PROVE Chooses
    BY <1>1, <2>4 DEF Begin, NoCapacity, Becomes, ConnFields
  <2>5. Chooses
    BY <1>3, <2>1, <2>2, <2>3, <2>4 DEF Picking
  <2> QED
    BY <2>5 DEF ReportsItsOwn
<1>4. CASE Report(s)
  <2>1. PICK trial : conn'[s] = [c EXCEPT !.pc = c.next, !.report = NoReport, !.next = "off",
                                          !.trial = trial]
    BY <1>1, <1>4 DEF Report, Becomes
  <2>2. conn'[s].pc = c.next /\ c.next # "report"
    BY <1>1, <2>1 DEF ConnFields, ConnTypes
  <2> QED
    BY <2>2 DEF ReportsItsOwn
<1>5. CASE Leave(s)
  BY <1>1, <1>5 DEF Leave, Becomes, ConnFields, ReportsItsOwn
<1>8. CASE Opening(s)
  <2>1. CASE Opened(s)
    <3> DEFINE d == [c EXCEPT !.owner = c.target, !.target = None, !.excluded = {},
                              !.attempt = 1]
    <3>1. ConnFields(d)
      BY <1>1 DEF ConnFields
    <3>2. conn'[s] = Reports(d, c.target, c.target, TRUE, 0, "bound")
      BY <1>1, <2>1 DEF Opened, Becomes
    <3> HIDE DEF d
    <3>3. ReportsItsOwn(Reports(d, c.target, c.target, TRUE, 0, "bound"))
      BY <3>1 DEF ReportsItsOwn, Reports, NoReport, ConnFields
    <3> QED
      BY <3>2, <3>3
  <2>2. CASE OpenFails(s)
    <3> DEFINE d == Excluding(c)
    <3>1. ConnFields(d)
      BY <1>1 DEF ConnFields, Excluding
    <3>2. conn'[s] = Reports(d, c.target, c.target, FALSE, 0, Retry(c))
      BY <1>1, <2>2 DEF OpenFails, Becomes, ExcludedReported
    <3> HIDE DEF d
    <3>3. ReportsItsOwn(Reports(d, c.target, c.target, FALSE, 0, Retry(c)))
      BY <3>1 DEF ReportsItsOwn, Reports, NoReport, ConnFields
    <3> QED
      BY <3>2, <3>3
  <2> QED
    BY <1>8, <2>1, <2>2 DEF Opening, OpenedVirtually, OpenedNowhere
<1>9. CASE Pushing(s)
  <2>1. ASSUME NEW v \in Workers, NEW l \in Latencies, PushAnswered(s, v, l)
        PROVE  ReportsItsOwn(conn'[s])
    <3>1. conn'[s] = Reports(c, c.owner, c.owner, TRUE, l, "bound")
      BY <1>1, <2>1 DEF PushAnswered, Servers, Becomes
    <3>2. ReportsItsOwn(Reports(c, c.owner, c.owner, TRUE, l, "bound"))
      BY <1>1 DEF ReportsItsOwn, Reports, NoReport, ConnFields
    <3> QED
      BY <3>1, <3>2
  <2>2. CASE PushFails(s) \/ PushRefused(s)
    <3> DEFINE d == [c EXCEPT !.excluded = {c.owner}, !.attempt = 1]
    <3>1. ConnFields(d)
      BY <1>1 DEF ConnFields
    <3>2. conn'[s] = Reports(d, c.owner, c.owner, FALSE, 0, "pick")
      BY <1>1, <2>2 DEF PushFails, PushRefused, AfterFailure, Becomes
    <3> HIDE DEF d
    <3>3. ReportsItsOwn(Reports(d, c.owner, c.owner, FALSE, 0, "pick"))
      BY <3>1 DEF ReportsItsOwn, Reports, NoReport, ConnFields
    <3> QED
      BY <3>2, <3>3
  <2> QED
    BY <1>9, <2>1, <2>2 DEF Pushing
<1> QED
  BY <1>2, <1>3, <1>4, <1>5, <1>8, <1>9 DEF Proceeds

\* The other steps report nothing.
LEMMA WorldAnswers ==
  ASSUME AnswersInv, NEW w \in Workers, Timers(w) \/ Control(w) \/ GoesDown(w) \/ ComesUp(w)
  PROVE  \A s \in Sessions : ReportsItsOwn(conn'[s])
<1>1. \A s \in Sessions : ConnFields(conn[s]) /\ ReportsItsOwn(conn[s])
  BY DEF AnswersInv, TypesInv, ConnTyped, ConnFields, ConnTypes, Scans
<1>2. ASSUME NEW c, ConnFields(c), ReportsItsOwn(c)
      PROVE  ReportsItsOwn(Reopened(c, w))
  BY <1>2 DEF Reopened, ConnFields, ReportsItsOwn
<1>3. ASSUME NEW on \in BOOLEAN, SetDraining(w, on)
      PROVE  \A s \in Sessions : conn'[s] \in {conn[s], Reopened(conn[s], w)}
  BY <1>3 DEF SetDraining
<1>4. UNCHANGED conn \/ \E on \in BOOLEAN : SetDraining(w, on)
  BY DEF Timers, Control, TimerExpires, Refill, RetryAfterPasses, HealthCallFails,
     MarkUnhealthy, Add, GoesDown, ComesUp
<1> QED
  BY <1>1, <1>2, <1>3, <1>4

\* Only a report that a trial succeeded restores a worker.
LEMMA OnlyReportsRestore ==
  ASSUME TypesInv, NEW s \in Sessions, Admit(s) \/ Proceeds(s) \/ Pushing(s) \/ Leave(s),
         NEW w \in Workers, health[w].status = "ejected", health'[w].status # "ejected"
  PROVE  Report(s) /\ conn[s].report.worker = w
<1>1. health \in [Workers -> HealthTypes]
  BY DEF TypesInv, HealthTyped
<1>2. CASE UNCHANGED health
  BY <1>2
<1>3. CASE Begin(s)
  <2>1. \A h \in HealthTypes : BeginProbe(h).status = h.status
    BY DEF BeginProbe, HealthTypes
  <2> QED
    BY <1>1, <1>3, <2>1 DEF Begin
<1>4. CASE Report(s)
  BY <1>1, <1>4 DEF Report
<1> QED
  BY <1>2, <1>3, <1>4
     DEF Admit, Leave, Proceeds, Picking, Opening, Ending, Pushing, PickBegins, Filter,
         Consider, TakeProbe, TakeBest, NoCapacity, Opened, OpenedVirtually, OpenFails,
         OpenedNowhere, PushAnswered, PushFails, PushRefused, Release, Unbind

LEMMA WorldRestoresNobody ==
  ASSUME TypesInv, NEW v \in Workers, Timers(v) \/ Control(v) \/ GoesDown(v) \/ ComesUp(v),
         NEW w \in Workers, health[w].status = "ejected"
  PROVE  health'[w].status = "ejected"
<1>1. health \in [Workers -> HealthTypes]
  BY DEF TypesInv, HealthTyped
<1>2. \A h \in HealthTypes :
        /\ Expired(h).status = h.status /\ Eject(h).status = "ejected"
        /\ \A on \in BOOLEAN : [h EXCEPT !.draining = on].status = h.status
  BY DEF Expired, Eject, HealthTypes
<1>3. CASE UNCHANGED health
  BY <1>3
<1>4. CASE TimerExpires(v) \/ MarkUnhealthy(v)
  BY <1>1, <1>2, <1>4 DEF TimerExpires, MarkUnhealthy
<1>5. ASSUME NEW on \in BOOLEAN, SetDraining(v, on) PROVE health'[w].status = "ejected"
  BY <1>1, <1>2, <1>5 DEF SetDraining
<1> QED
  BY <1>3, <1>4, <1>5 DEF Timers, Control, Refill, RetryAfterPasses, HealthCallFails, Add,
     GoesDown, ComesUp, shared, world

\* With stateful streams, an ejected worker goes back into service only when a
\* session reports that worker's own answer (router.go, report): a picked
\* worker's open and its pushes go to that worker.  The pool of a stateless
\* gateway breaks both, as run unearned_restore shows.
THEOREM RestoredByItsAnswer ==
  ASSUME ~Stateless
  PROVE  Spec => RestoredOnItsAnswer
<1>1. Init => AnswersInv
  <2>1. Init => \A s \in Sessions : ReportsItsOwn(conn[s])
    BY DEF Init, Closed, ReportsItsOwn
  <2> QED
    BY <2>1, TypesInit DEF AnswersInv
<1> DEFINE Restored(w) == health[w].status = "ejected" /\ health'[w].status # "ejected"
           Earned(s, w) == /\ conn[s].pc = "report" /\ conn'[s] # conn[s]
                           /\ conn[s].report.worker = w /\ conn[s].report.from = w
<1>2. ASSUME AnswersInv, [Next]_vars
      PROVE  /\ AnswersInv'
             /\ \A w \in Workers : Restored(w) => \E s \in Sessions : Earned(s, w)
  <2>1. TypesInv /\ TypesInv' /\ \A s \in Sessions : ReportsItsOwn(conn[s])
    BY <1>2, TypesNext DEF AnswersInv
  <2>2. ASSUME NEW s \in Sessions, Admit(s) \/ Proceeds(s) \/ Pushing(s) \/ Leave(s)
        PROVE  /\ \A t \in Sessions : ReportsItsOwn(conn'[t])
               /\ \A w \in Workers : Restored(w) => Earned(s, w)
    <3>1. \A t \in Sessions : ReportsItsOwn(conn'[t])
      BY <1>2, <2>1, <2>2, SessionAnswers, OthersStay
    <3>2. ASSUME NEW w \in Workers, Restored(w)
          PROVE  Earned(s, w)
      <4>1. Report(s) /\ conn[s].report.worker = w
        BY <2>1, <2>2, <3>2, OnlyReportsRestore
      <4>2. conn[s].pc = "report" /\ conn[s].report.from = w
        BY <2>1, <4>1 DEF Report, ReportsItsOwn
      <4>3. conn'[s].pc = conn[s].next /\ conn[s].next # "report"
        <5>1. DOMAIN conn = Sessions /\ conn[s] \in ConnTypes /\ ConnFields(conn[s])
          BY <2>1 DEF TypesInv, ConnTyped, ConnFields, ConnTypes, Scans
        <5>2. PICK trial :
                conn'[s] = [conn[s] EXCEPT !.pc = conn[s].next, !.report = NoReport,
                                           !.next = "off", !.trial = trial]
          BY <4>1, <5>1 DEF Report, Becomes
        <5> QED
          BY <5>1, <5>2 DEF ConnFields, ConnTypes
      <4> QED
        BY <4>1, <4>2, <4>3
    <3> QED
      BY <3>1, <3>2
  <2>3. ASSUME NEW w \in Workers, Timers(w) \/ Control(w) \/ GoesDown(w) \/ ComesUp(w)
        PROVE  /\ \A t \in Sessions : ReportsItsOwn(conn'[t])
               /\ \A v \in Workers : ~Restored(v)
    BY <1>2, <2>1, <2>3, WorldAnswers, WorldRestoresNobody
  <2>4. ASSUME UNCHANGED vars
        PROVE  /\ \A t \in Sessions : ReportsItsOwn(conn'[t])
               /\ \A v \in Workers : ~Restored(v)
    BY <2>1, <2>4 DEF vars
  <2> HIDE DEF Restored, Earned
  <2>5. /\ \A t \in Sessions : ReportsItsOwn(conn'[t])
        /\ \A w \in Workers : Restored(w) => \E s \in Sessions : Earned(s, w)
    BY <1>2, <2>2, <2>3, <2>4 DEF Next
  <2>6. AnswersInv'
    BY <2>1, <2>5 DEF AnswersInv, ReportsItsOwn
  <2> QED
    BY <2>5, <2>6
<1> QED
  BY <1>1, <1>2, PTL DEF Spec, RestoredOnItsAnswer
===============================================================================
