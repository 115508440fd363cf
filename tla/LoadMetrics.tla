------------------------------ MODULE LoadMetrics ------------------------------
(***************************************************************************)
(* LoadBalancingMetrics and the health score of load_balancer.py: which    *)
(* requests an instance refuses.  Scores are in thousandths; utilizations  *)
(* in percent; response times in milliseconds, averaged over a window.     *)
(***************************************************************************)
EXTENDS Integers, Sequences, SequencesExt, FiniteSetsExt

CONSTANTS
  Utilizations,        \* values of CPU and memory psutil reports
  ResponseTimes,
  QueueSizes,          \* arguments of set_queue_size
  Burst,               \* requests that start or end together
  MaxActive,           \* bound: requests in flight
  MaxRequests,         \* bound: requests in all
  max_response_times

LoadAssumption ==
  /\ Utilizations \subseteq 0 .. 100 /\ ResponseTimes \subseteq Nat /\ QueueSizes \subseteq Int
  /\ Burst \in Nat \ {0} /\ {MaxActive, MaxRequests, max_response_times} \subseteq Nat

VARIABLES
  active_requests, queue_size, total_requests, failed_requests, response_times,
  in_flight   \* requests started and not ended

vars == <<active_requests, queue_size, total_requests, failed_requests, response_times, in_flight>>

TypeOK ==
  /\ {active_requests, queue_size, total_requests, failed_requests} \subseteq Nat
  /\ response_times \in Seq(ResponseTimes) /\ Len(response_times) <= max_response_times
  /\ in_flight \in 0 .. MaxActive

Init ==
  /\ active_requests = 0 /\ queue_size = 0
  /\ total_requests = 0 /\ failed_requests = 0
  /\ response_times = <<>>
  /\ in_flight = 0

Least(a, b) == IF a < b THEN a ELSE b
Greatest(a, b) == IF a > b THEN a ELSE b

\* record_request_start, as often as a burst has requests
Start ==
  /\ in_flight + Burst <= MaxActive /\ total_requests + Burst <= MaxRequests
  /\ active_requests' = active_requests + Burst
  /\ total_requests' = total_requests + Burst
  /\ in_flight' = in_flight + Burst
  /\ UNCHANGED <<queue_size, failed_requests, response_times>>

Released == Greatest(0, active_requests - Burst)

\* Responses without a time are not kept; the oldest one goes.
Timed(ms) ==
  LET longer == Append(response_times, ms) IN
  IF ms = 0 THEN response_times
  ELSE IF Len(longer) > max_response_times THEN Tail(longer)
  ELSE longer

\* record_request_end
End(success, ms) ==
  /\ in_flight >= Burst
  /\ active_requests' = Released
  /\ failed_requests' = failed_requests + (IF success THEN 0 ELSE Burst)
  /\ response_times' = Timed(ms)
  /\ in_flight' = in_flight - Burst
  /\ UNCHANGED <<queue_size, total_requests>>

SetQueueSize(size) ==
  /\ queue_size' = Greatest(0, size)
  /\ UNCHANGED <<active_requests, total_requests, failed_requests, response_times, in_flight>>

Next ==
  \/ Start
  \/ \E success \in BOOLEAN, ms \in ResponseTimes : End(success, ms)
  \/ \E size \in QueueSizes : SetQueueSize(size)

Spec == Init /\ [][Next]_vars

-----------------------------------------------------------------------------
\* get_instance_load, for what psutil says
InstanceLoad(cpu, memory) ==
  [cpu |-> cpu, memory |-> memory, active |-> active_requests, queue |-> queue_size,
   response |-> IF response_times = <<>> THEN 0
                ELSE FoldLeft(+, 0, response_times) \div Len(response_times),
   \* thousandths
   errors |-> IF total_requests = 0 THEN 0 ELSE (1000 * failed_requests) \div total_requests]

\* calculate_health_score
HealthScore(load) ==
  Greatest(0, 100000 - (250 * load.cpu + 250 * load.memory
                        + Least(50 * load.active, 5000) + Least(45 * load.queue, 2250)
                        + Least(load.response, 1000) + Least((250 * load.errors) \div 1000, 250)))

\* should_accept_request
Accepts(load) ==
  /\ HealthScore(load) >= 50000
  /\ load.cpu <= 90 /\ load.memory <= 90
  /\ load.active <= 100 /\ load.queue <= 50

(* Properties *)

\* The comment at load_balancer.py:315-319: with CPU and memory at 90 or less the
\* score never falls below 46.5, whatever the history of the requests.
ScoreFloor ==
  \A cpu, memory \in Utilizations :
    (cpu <= 90 /\ memory <= 90) => HealthScore(InstanceLoad(cpu, memory)) >= 46500

\* An instance that has nothing to do and whose machine is not busy accepts again:
\* neither the failures nor the slow answers of its past shut it off for ever, and
\* no burst leaves requests counted as active.
IdleAccepts ==
  \A cpu, memory \in Utilizations :
    (in_flight = 0 /\ queue_size = 0 /\ cpu <= 90 /\ memory <= 90)
      => Accepts(InstanceLoad(cpu, memory))

\* More load never turns a refusal into an acceptance.
RefusalIsMonotone ==
  \A cpu, memory, busier \in Utilizations :
    (cpu <= busier /\ Accepts(InstanceLoad(busier, memory))) =>
      /\ Accepts(InstanceLoad(cpu, memory))
      /\ queue_size <= 50 /\ in_flight <= 100

\* The load balancer's picture of the instance is neither stuck nor contradictory.
LoadIsJudged == ScoreFloor /\ IdleAccepts /\ RefusalIsMonotone

==============================================================================
