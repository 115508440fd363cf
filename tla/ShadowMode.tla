------------------------------ MODULE ShadowMode ------------------------------
(***************************************************************************)
(* ShadowModeService: beside an answered request a shadow prediction runs, *)
(* in a task of its own or before the answer, and is compared with the     *)
(* primary result.  stop() waits for the tasks it knows, up to a time      *)
(* limit after which it cancels them.                                      *)
(***************************************************************************)
CONSTANTS
  Requests,
  async_dispatch   \* shadow_async_dispatch

ShadowAssumption == async_dispatch \in BOOLEAN

VARIABLES
  enabled,
  shadow_model,    \* there is one
  phase,           \* of the service: new, started, stopping, stopped
  pending_tasks,   \* _pending_tasks
  gathered,        \* tasks stop() waits for
  pc,              \* of each request: new, predicting, ended, cancelled
  returned,        \* requests whose dispatch has returned
  \* history
  before_stop      \* predictions running when stop() was called

vars == <<enabled, shadow_model, phase, pending_tasks, gathered, pc, returned, before_stop>>

TypeOK ==
  /\ enabled \in BOOLEAN /\ shadow_model \in BOOLEAN
  /\ phase \in {"new", "started", "stopping", "stopped"}
  /\ pending_tasks \subseteq Requests /\ gathered \subseteq Requests
  /\ pc \in [Requests -> {"new", "predicting", "ended", "cancelled"}]
  /\ returned \subseteq Requests
  /\ before_stop \subseteq Requests

Init ==
  /\ enabled \in BOOLEAN
  /\ shadow_model = FALSE
  /\ phase = "new"
  /\ pending_tasks = {} /\ gathered = {}
  /\ pc = [r \in Requests |-> "new"]
  /\ returned = {}
  /\ before_stop = {}

\* start(): loading the model may fail, find no name or a model that is not
\* ready, which disables the service.
Start ==
  /\ phase = "new"
  /\ phase' = "started"
  /\ shadow_model' \in IF enabled THEN BOOLEAN ELSE {FALSE}
  /\ enabled' = shadow_model'
  /\ UNCHANGED <<pending_tasks, gathered, pc, returned, before_stop>>

\* mutant
Untracked(r) == pending_tasks

Tracked(r) == pending_tasks \union {r}

\* dispatch_shadow_prediction after should_shadow() said yes; it does not look at
\* whether the service has been stopped.
Dispatch(r) ==
  /\ phase # "new"
  /\ pc[r] = "new"
  /\ enabled /\ shadow_model
  /\ pc' = [pc EXCEPT ![r] = "predicting"]
  /\ IF async_dispatch THEN pending_tasks' = Tracked(r) /\ returned' = returned \union {r}
     ELSE UNCHANGED <<pending_tasks, returned>>
  /\ UNCHANGED <<enabled, shadow_model, phase, gathered, before_stop>>

\* The shadow model answers and the labels are compared, or it raises, which is
\* logged; the done callback forgets the task, a synchronous dispatch returns.
Predicted(r) ==
  /\ pc[r] = "predicting"
  /\ pc' = [pc EXCEPT ![r] = "ended"]
  /\ pending_tasks' = pending_tasks \ {r}
  /\ returned' = returned \union {r}
  /\ UNCHANGED <<enabled, shadow_model, phase, gathered, before_stop>>

Gathered == pending_tasks

\* stop() before its wait.
StopBegins ==
  /\ phase = "started"
  /\ phase' = "stopping"
  /\ gathered' = Gathered
  /\ before_stop' = {r \in returned : pc[r] = "predicting"}
  /\ UNCHANGED <<enabled, shadow_model, pending_tasks, pc, returned>>

Waiting == {r \in gathered : pc[r] = "predicting"}

\* All gathered tasks are done, or the time limit cancels those that are not.
StopEnds ==
  /\ phase = "stopping"
  /\ phase' = "stopped"
  /\ pc' = [r \in Requests |-> IF r \in Waiting THEN "cancelled" ELSE pc[r]]
  /\ pending_tasks' = pending_tasks \ Waiting
  /\ UNCHANGED <<enabled, shadow_model, gathered, returned, before_stop>>

Next ==
  \/ Start \/ StopBegins \/ StopEnds
  \/ \E r \in Requests : Dispatch(r) \/ Predicted(r)

Spec == Init /\ [][Next]_vars

-----------------------------------------------------------------------------
(* Properties *)

\* Every shadow prediction whose request has been answered is in the set stop()
\* reads, so that none is out of its reach while the service is up.
NoneUntracked ==
  \A r \in returned : pc[r] = "predicting" => r \in pending_tasks

\* What was dispatched before stop() has ended or been cancelled when it returns.
NothingLeftBehind ==
  phase = "stopped" => \A r \in before_stop : pc[r] # "predicting"

\* stop() has every prediction it must end in its sight, and ends it.
ShadowsAreTracked == NoneUntracked /\ NothingLeftBehind

\* shadow_mode.py:94, "Stop the shadow mode service and cleanup pending tasks.":
\* after stop() no shadow prediction is pending.
StopCleansUp == phase = "stopped" => pending_tasks = {}

==============================================================================
