----------------------------- MODULE JobLifecycle -----------------------------
(***************************************************************************)
(* What the batch service promises about one job, whatever its queues,     *)
(* workers and clean-up do: the states of BatchJobStatus as a graph        *)
(* without cycles.  A job is processed at most once, its results appear    *)
(* once and whole, and "expired" is reached only after the deadline and    *)
(* is final.                                                               *)
(***************************************************************************)
CONSTANTS Jobs, NoResults, All(_)     \* All(j): the complete results of j

VARIABLES status, late, results
lifecycleVars == <<status, late, results>>

Init ==
  /\ status = [j \in Jobs |-> "none"]
  /\ late = {}                          \* jobs whose deadline was reached
  /\ results = [j \in Jobs |-> NoResults]

Move(j, from, to) ==
  /\ status[j] \in from
  /\ status' = [status EXCEPT ![j] = to]
  /\ UNCHANGED late

Accept(j) == Move(j, {"none"}, "pending") /\ UNCHANGED results
Reject(j) == Move(j, {"none"}, "failed") /\ UNCHANGED results
Begin(j)  == Move(j, {"pending"}, "processing") /\ UNCHANGED results
Cancel(j) == Move(j, {"pending"}, "cancelled") /\ UNCHANGED results
Finish(j) == /\ Move(j, {"processing"}, "completed")
             /\ results' = [results EXCEPT ![j] = All(j)]

DeadlineReached(j) ==
  /\ status[j] # "none"
  /\ late' = late \union {j}
  /\ UNCHANGED <<status, results>>

\* Jobs past their deadline expire, several at a time in a clean-up round.
Expire(S) ==
  /\ S \subseteq late
  /\ status' = [j \in Jobs |-> IF j \in S THEN "expired" ELSE status[j]]
  /\ UNCHANGED <<late, results>>

Next ==
  \/ \E j \in Jobs : \/ Accept(j) \/ Reject(j) \/ Begin(j) \/ Cancel(j)
                     \/ Finish(j) \/ DeadlineReached(j)
  \/ \E S \in SUBSET Jobs : Expire(S)

Spec == Init /\ [][Next]_lifecycleVars

==============================================================================
