---------------------------- MODULE CircuitBreaker ----------------------------
(***************************************************************************)
(* CircuitBreaker of load_balancer.py, called by several threads.  The     *)
(* breaker has no lock, so a step is one access to one of its attributes:  *)
(* threads come between the test of the state and what follows from it,    *)
(* between the load and the store of a counter, and between two            *)
(* assignments.  pc says what a call does next; a call that runs its       *)
(* function, or has ended, is outside of the breaker's own lines.          *)
(***************************************************************************)
EXTENDS Naturals

CONSTANTS
  Calls,        \* threads
  failure_threshold,
  recovery_timeout,
  MaxTime,      \* bound: the clock
  MaxFailures,  \* bound: failures of all calls
  None

BreakerAssumption ==
  /\ failure_threshold \in Nat \ {0} /\ recovery_timeout \in Nat
  /\ MaxTime \in Nat \ {0} /\ MaxFailures \in Nat
  /\ None \notin Nat

VARIABLES
  state, failure_count, success_count, last_failure_time,
  pc,           \* what each thread does next
  local,        \* the value a thread has read and not used yet
  now,
  \* history
  failures,     \* calls that have failed
  failed_at,    \* when the latest of them did, or 0
  proven,       \* successes since the breaker last became half open
  raced         \* whom threads met within the breaker's own lines

shared  == <<state, failure_count, success_count, last_failure_time>>
history == <<failures, failed_at, proven>>
vars    == <<shared, pc, local, now, history, raced>>

Resetting == {"r_forget", "r_zero", "r_time"}
Failing   == {"f_store", "clock", "time", "f_state", "f_closed", "f_enough", "open", "reopen"}
Admitting == {"found_open", "half", "afresh"}
Proving   == {"s_count", "s_store", "s_enough", "s_close", "s_closed", "clear"}
Places    == Resetting \union Failing \union Admitting \union Proving
               \union {"forget", "zero", "idle", "function"}

TypeOK ==
  /\ state \in {"closed", "open", "half_open"}
  /\ failure_count \in 0 .. failures /\ success_count \in Nat
  /\ last_failure_time \in 1 .. MaxTime \union {None}
  /\ pc \in [Calls -> Places] /\ local \in [Calls -> Nat]
  /\ now \in 1 .. MaxTime
  /\ failures \in 0 .. MaxFailures /\ failed_at \in 0 .. MaxTime /\ proven \in Nat
  /\ raced \in SUBSET {"calls", "reset"}

Init ==
  /\ state = "closed" /\ failure_count = 0 /\ success_count = 0
  /\ last_failure_time = None
  /\ pc = [c \in Calls |-> "idle"] /\ local = [c \in Calls |-> 0] /\ now = 1
  /\ failures = 0 /\ failed_at = 0 /\ proven = 0 /\ raced = {}

Inside(p) == p \notin {"idle", "function"}

\* Whom a thread meets at p: a reset is anybody's that resets.
Meets(c, p) ==
  {IF p \in Resetting \/ pc[d] \in Resetting THEN "reset" ELSE "calls" :
     d \in {e \in Calls \ {c} : Inside(p) /\ Inside(pc[e])}}

Goes(c, from, to) ==
  /\ pc[c] = from /\ pc' = [pc EXCEPT ![c] = to]
  /\ raced' = raced \union Meets(c, to)
  /\ UNCHANGED now

\* A step that reads only, and one that keeps what it has read.
Looks(c, from, to) ==
  Goes(c, from, to) /\ UNCHANGED <<shared, local, history>>
Loads(c, from, to, value) ==
  /\ Goes(c, from, to) /\ local' = [local EXCEPT ![c] = value]
  /\ UNCHANGED shared

\* An assignment to one attribute.
SetState(c, from, to, value) ==
  /\ Goes(c, from, to) /\ state' = value
  /\ UNCHANGED <<failure_count, success_count, last_failure_time, local, failures, failed_at>>
SetFailures(c, from, to, value) ==
  /\ Goes(c, from, to) /\ failure_count' = value /\ local' = [local EXCEPT ![c] = 0]
  /\ UNCHANGED <<state, success_count, last_failure_time, history>>
SetSuccesses(c, from, to, value) ==
  /\ Goes(c, from, to) /\ success_count' = value /\ local' = [local EXCEPT ![c] = 0]
  /\ UNCHANGED <<state, failure_count, last_failure_time, history>>
SetTime(c, from, to, value) ==
  /\ Goes(c, from, to) /\ last_failure_time' = value /\ local' = [local EXCEPT ![c] = 0]
  /\ UNCHANGED <<state, failure_count, success_count, history>>

-----------------------------------------------------------------------------
\* The clock is read just before last_failure_time; reading it earlier would
\* only refuse more.  A reset between the two looks at last_failure_time makes
\* the subtraction raise, which refuses the call as well.
MayRecover ==
  last_failure_time # None /\ now - last_failure_time >= recovery_timeout

\* call() up to the function: an open breaker raises RuntimeError, unless the
\* time-out has passed.
Admit(c) ==
  \/ Looks(c, "idle", IF state = "open" THEN "found_open" ELSE "function")
  \/ Looks(c, "found_open", IF MayRecover THEN "half" ELSE "idle")
  \/ SetState(c, "half", "afresh", "half_open") /\ proven' = 0
  \/ SetSuccesses(c, "afresh", "function", 0)

\* mutant
EnoughAtOnce == success_count >= 1

Enough == success_count >= 2

\* _on_success
Succeed(c) ==
  \/ /\ Goes(c, "function", IF state = "half_open" THEN "s_count" ELSE "s_closed")
     /\ proven' = proven + (IF state = "half_open" THEN 1 ELSE 0)
     /\ UNCHANGED <<shared, local, failures, failed_at>>
  \/ Loads(c, "s_count", "s_store", success_count) /\ UNCHANGED history
  \/ SetSuccesses(c, "s_store", "s_enough", local[c] + 1)
  \/ Looks(c, "s_enough", IF Enough THEN "s_close" ELSE "idle")
  \/ SetState(c, "s_close", "forget", "closed") /\ UNCHANGED proven
  \/ SetFailures(c, "forget", "zero", 0)
  \/ Looks(c, "s_closed", IF state = "closed" THEN "clear" ELSE "idle")
  \/ SetFailures(c, "clear", "idle", 0)

\* _on_failure: also a call admitted long ago moves last_failure_time.
Fail(c) ==
  \/ /\ failures < MaxFailures /\ failures' = failures + 1
     /\ Loads(c, "function", "f_store", failure_count) /\ UNCHANGED <<failed_at, proven>>
  \/ SetFailures(c, "f_store", "clock", local[c] + 1)
  \/ /\ Loads(c, "clock", "time", now)
     /\ failed_at' = now /\ UNCHANGED <<failures, proven>>
  \/ SetTime(c, "time", "f_state", local[c])
  \/ Looks(c, "f_state", IF state = "half_open" THEN "reopen" ELSE "f_closed")
  \/ SetState(c, "reopen", "zero", "open") /\ UNCHANGED proven
  \/ Looks(c, "f_closed", IF state = "closed" THEN "f_enough" ELSE "idle")
  \/ Looks(c, "f_enough", IF failure_count >= failure_threshold THEN "open" ELSE "idle")
  \/ SetState(c, "open", "idle", "open") /\ UNCHANGED proven

\* The last assignment of a call that closed the breaker, or opened it again.
Zero(c) == SetSuccesses(c, "zero", "idle", 0)

\* reset, on a thread that is in no call
Reset(c) ==
  \/ SetState(c, "idle", "r_forget", "closed") /\ UNCHANGED proven
  \/ SetFailures(c, "r_forget", "r_zero", 0)
  \/ SetSuccesses(c, "r_zero", "r_time", 0)
  \/ SetTime(c, "r_time", "idle", None)

Tick ==
  /\ now < MaxTime /\ now' = now + 1
  /\ UNCHANGED <<shared, pc, local, history, raced>>

Next ==
  \/ \E c \in Calls : Admit(c) \/ Succeed(c) \/ Fail(c) \/ Zero(c) \/ Reset(c)
  \/ Tick

Spec == Init /\ [][Next]_vars

-----------------------------------------------------------------------------
(* Properties.  The first two hold however threads meet, the others as long *)
(* as no two threads were within the breaker's lines at once.               *)

\* A closed breaker has its tolerance, or somebody is about to see to it:
\* whatever threads overwrite each other's counts, no breaker comes to rest
\* closed with as many failures as should have opened it, to open again at the
\* first failure after a recovery (load_balancer.py:174-201, :218-219).
ClosedHasRoom ==
  (state = "closed" /\ failure_count >= failure_threshold)
    => \E c \in Calls : pc[c] \in {"forget", "r_forget"} \union (Failing \ {"f_store", "reopen"})

\* An open breaker knows when it failed, without which it would refuse every
\* call until somebody resets it (:152): only a reset that runs beside a call
\* can take that away (:189-201, :217-220).
OpenKnowsWhen ==
  (state = "open" /\ "reset" \notin raced) => last_failure_time # None

\* Who meets an open breaker gets to its function only after the time-out of
\* the latest failure of any call, also of one admitted before it opened.
QuietAfterFailure ==
  [][ \A c \in Calls :
        (pc[c] \in Admitting /\ pc'[c] = "function" /\ raced = {})
          => failed_at + recovery_timeout <= now ]_vars

\* Two successes after the latest try at recovery, with no failure between
\* them, close the breaker; it never goes from open to closed but by a reset.
ClosesWhenProven ==
  [][ (state # "closed" /\ state' = "closed" /\ raced = {})
        => \/ state = "half_open" /\ proven >= 2
           \/ \E c \in Calls : pc'[c] = "r_forget" ]_vars

\* The breaker protects for as long as it is asked to, and recovers when proven.
BreakerRecovers ==
  []ClosedHasRoom /\ []OpenKnowsWhen /\ QuietAfterFailure /\ ClosesWhenProven

\* The class's documentation (load_balancer.py:114-117): it will "open" "to
\* block further requests for a period of time".  With threads it may not: one
\* that found the time-out passed makes the breaker half open after another has
\* failed, and one that counted its success closes it after another reopened it.
OpenBlocks ==
  [][ state = "open" => \/ state' = "open"
                        \/ state' = "half_open" /\ failed_at + recovery_timeout <= now
                        \/ \E c \in Calls : pc'[c] = "r_forget" ]_vars

==============================================================================
