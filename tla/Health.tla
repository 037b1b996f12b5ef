-------------------------------- MODULE Health --------------------------------
(***************************************************************************)
(* What the router knows of one worker: its circuit breaker                *)
(* (internal/router/router.go, type Worker) and its rate-limit bucket      *)
(* (internal/router/bucket.go), as operators on two records.               *)
(*                                                                         *)
(* Durations are abstracted: an ejection's timer and a Retry-After run out *)
(* at some moment, and time between two steps refills a bucket, so the     *)
(* backoff, which only sets the length of the first, is not kept.          *)
(***************************************************************************)
EXTENDS Integers, Sequences, FiniteSets

CONSTANTS
  Window,      \* windowSize, 50 in the gateway
  MinSamples,  \* minLatencySamples, 20
  Multiple,    \* GrayFailureMultiple, 3
  Limit,       \* the tokens of a full bucket
  Floor        \* limit * headroom, the tokens that are never spent

ASSUME HealthAssumption ==
  /\ {Window, MinSamples, Multiple, Limit, Floor} \subseteq Nat
  /\ MinSamples \in 1..Window /\ Multiple > 0 /\ Floor < Limit

NewWorker == [status |-> "healthy", expired |-> FALSE, probing |-> FALSE,
              outcomes |-> << >>, latencies |-> << >>, draining |-> FALSE]

\* May Pick consider the worker?
EligibleWhenDrained(h) == h.status = "ejected" => ~h.probing /\ h.expired
Eligible(h) == ~h.draining /\ EligibleWhenDrained(h)

\* Is it owed one trial?
DueForProbe(h) == h.status = "ejected" /\ Eligible(h)

BeginProbe(h) == IF h.status = "ejected" THEN [h EXCEPT !.probing = TRUE] ELSE h

Eject(h) == [h EXCEPT !.status = "ejected", !.expired = FALSE, !.probing = FALSE]

\* The ejection has lasted its backoff: half open, not yet back in service.
ExpiredToHealthy(h) == [h EXCEPT !.status = "healthy"]
Expired(h)          == [h EXCEPT !.expired = TRUE]

\* The k-th smallest value of f, counted from 0.
Ranked(f, k) ==
  CHOOSE v \in {f[x] : x \in DOMAIN f} :
    /\ Cardinality({x \in DOMAIN f : f[x] < v}) <= k
    /\ Cardinality({x \in DOMAIN f : f[x] <= v}) > k

P95(latencies) ==
  IF latencies = << >> THEN 0 ELSE Ranked(latencies, (Len(latencies) * 95) \div 100)

\* The median p95 of a worker's peers, over those with enough samples.
Baseline(peers) ==
  LET judged == {w \in DOMAIN peers : Len(peers[w].latencies) >= MinSamples}
  IN  IF judged = {} THEN 0
      ELSE Ranked([w \in judged |-> P95(peers[w].latencies)], Cardinality(judged) \div 2)

\* A sample joins its rolling window.
RolledOn(window, x) == Append(window, x)
Rolled(window, x) ==
  IF Len(window) < Window THEN Append(window, x) ELSE Append(Tail(window), x)

Failures(h) == Cardinality({i \in DOMAIN h.outcomes : ~h.outcomes[i]})
Failing(h)  == 2 * Failures(h) > Len(h.outcomes)
Erring(h)   == 10 * Failures(h) > Len(h.outcomes)
\* Alive, but far slower than its peers.
Gray(h, base) ==
  /\ Len(h.latencies) >= MinSamples /\ base > 0
  /\ P95(h.latencies) > Multiple * base

\* The outstanding trial is decided: back in service without its history, or
\* ejected again.
Resolved(h, ok) ==
  IF ok THEN [h EXCEPT !.probing = FALSE, !.status = "healthy",
                       !.expired = FALSE, !.outcomes = << >>, !.latencies = << >>]
        ELSE [h EXCEPT !.probing = FALSE, !.expired = FALSE]

\* An outcome joins the windows and the verdict is given again.
Evaluated(h, ok, latency, base) ==
  LET k == [h EXCEPT !.outcomes  = Rolled(@, ok),
                     !.latencies = IF latency > 0 THEN Rolled(@, latency) ELSE @]
  IN  IF Failing(k) \/ Gray(k, base) THEN Eject(k)
      ELSE [k EXCEPT !.status = IF Erring(k) THEN "degraded" ELSE "healthy"]

ReportedToThoseInService(h, ok, latency, base) ==
  IF h.status = "ejected" THEN h ELSE Evaluated(h, ok, latency, base)

\* Worker.report; a report on an ejected worker without a trial is dropped.
Reported(h, ok, latency, base) ==
  CASE h.status # "ejected"             -> Evaluated(h, ok, latency, base)
    [] h.status = "ejected" /\ h.probing  -> Resolved(h, ok)
    [] h.status = "ejected" /\ ~h.probing -> h

-------------------------------------------------------------------------------
(* The bucket.                                                             *)

NewBucket == [tokens |-> Limit, blocked |-> FALSE]

Available(b) == ~b.blocked /\ b.tokens > Floor
Spent(b)     == [b EXCEPT !.tokens = @ - 1]
Refused      == [tokens |-> 0, blocked |-> TRUE]
Refilled(b)  == [b EXCEPT !.tokens = Limit]
===============================================================================
