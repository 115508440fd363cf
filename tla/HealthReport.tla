------------------------------ MODULE HealthReport ------------------------------
(***************************************************************************)
(* What the process says of its health: the detailed report asks component *)
(* after component, and takes a second for the system's load, while they   *)
(* change; the simple report, readiness and the warm-up of models.  Vault, *)
(* once it has answered, is called healthy for a minute without a look.    *)
(***************************************************************************)
EXTENDS Naturals, Sequences, FiniteSets, SequencesExt

CONSTANTS
  MaxChanges,  \* bound: changes of components
  MaxReports,  \* bound: detailed reports
  None

Components == <<"model", "system", "secrets_backend", "kafka", "async_batch">>
Component == ToSet(Components)

\* How each component may be.  A model that is ready or is not may be able to describe
\* itself or not; Vault may be sealed (or not know us), or away.
States(x) ==
  CASE x = "model" -> {"healthy", "ready, not described", "degraded", "unhealthy"}
    [] x = "system" -> {"healthy", "degraded", "unknown"}
    [] x = "secrets_backend" -> {"healthy", "sealed", "away"}
    [] x = "kafka" -> {"disabled", "unhealthy", "degraded", "healthy"}
    [] x = "async_batch" -> {"disabled", "idle", "healthy", "unhealthy"}

\* What the report would say of a component that it looks at.
Status(x, state) ==
  IF state = "ready, not described" \/ (x = "secrets_backend" /\ state # "healthy")
  THEN "unhealthy" ELSE state
Statuses(x) == {Status(x, state) : state \in States(x)}

HealthAssumption ==
  /\ MaxChanges \in Nat /\ MaxReports \in Nat
  /\ None \notin Nat /\ \A x \in Component : None \notin Statuses(x)

VARIABLES
  enabled,     \* optional components that the settings switch on
  component,   \* the state of each component
  remembered,  \* whether Vault has answered is_healthy in the last minute
  position,    \* of the component the report asks next, or None without a report
  statuses,    \* what the report has gathered
  report,      \* the latest [status, dependencies], or None
  warm,        \* _warmup_complete
  ran,         \* the latest warm-up: fast, slow or failed
  changes, reports,
  \* history
  seen,        \* per component, the statuses it deserved since the report began
  reused       \* whether the report has Vault's health from memory

vars ==
  <<enabled, component, remembered, position, statuses, report, warm, ran, changes, reports,
    seen, reused>>

Gathered == [Component -> (UNION {Statuses(x) : x \in Component}) \union {None}]

TypeOK ==
  /\ enabled \subseteq {"kafka", "async_batch"}
  /\ \A x \in Component : component[x] \in States(x) /\ seen[x] \subseteq Statuses(x)
  /\ remembered \in BOOLEAN /\ reused \in BOOLEAN
  /\ position \in 1 .. Len(Components) + 1 \union {None}
  /\ statuses \in Gathered
  /\ report = None \/ (report.status \in {"healthy", "unhealthy"} /\ report.dependencies \in Gathered)
  /\ warm \in BOOLEAN /\ ran \in {"fast", "slow", "failed"}
  /\ changes \in 0 .. MaxChanges /\ reports \in 0 .. MaxReports

Unasked == [x \in Component |-> None]

\* The application has started, with the optional services that it could start, and has
\* warmed up a model that was ready.
Init ==
  /\ enabled \in SUBSET {"kafka", "async_batch"}
  /\ component \in [Component -> {"healthy", "disabled"}]
  /\ \A x \in {"kafka", "async_batch"} \ enabled : component[x] = "disabled"
  /\ \A x \in Component \ {"kafka", "async_batch"} : component[x] = "healthy"
  /\ remembered = FALSE
  /\ position = None /\ statuses = Unasked /\ report = None
  /\ ran \in {"fast", "slow", "failed"} /\ warm = (ran # "slow")
  /\ changes = 0 /\ reports = 0
  /\ seen = [x \in Component |-> {}] /\ reused = FALSE

\* VaultSecretManager.is_healthy: within a minute of an answer of Vault, whatever it was,
\* Vault is not asked (see VaultHealth).  The environment as a backend is always healthy.
SecretsStatus == IF remembered THEN "healthy"
                 ELSE Status("secrets_backend", component["secrets_backend"])
Remember == remembered' = (remembered \/ component["secrets_backend"] # "away")

Asked == Component \ ({"kafka", "async_batch"} \ enabled)

-----------------------------------------------------------------------------
(* The detailed report *)

Begin ==
  /\ position = None /\ reports < MaxReports
  /\ position' = 1 /\ statuses' = Unasked /\ reports' = reports + 1
  /\ seen' = [x \in Component |-> {Status(x, component[x])}] /\ reused' = FALSE
  /\ UNCHANGED <<enabled, component, remembered, report, warm, ran, changes>>

\* check_model_health and the other checks, each within its own error handling.
Check ==
  /\ position \in DOMAIN Components /\ Components[position] # "secrets_backend"
  /\ LET x == Components[position]
     IN statuses' = [statuses EXCEPT ![x] = IF x \in Asked THEN Status(x, component[x]) ELSE None]
  /\ position' = position + 1
  /\ UNCHANGED <<enabled, component, remembered, report, warm, ran, changes, reports, seen, reused>>

CheckSecrets ==
  /\ position \in DOMAIN Components /\ Components[position] = "secrets_backend"
  /\ statuses' = [statuses EXCEPT !["secrets_backend"] = SecretsStatus]
  /\ reused' = remembered /\ Remember
  /\ position' = position + 1
  /\ UNCHANGED <<enabled, component, report, warm, ran, changes, reports, seen>>

\* Anything but "healthy" makes the whole unhealthy: degraded, unknown, disabled and idle.
AllHealthy(found) == \A x \in Component : found[x] \in {"healthy", None}

Report ==
  /\ position = Len(Components) + 1
  /\ report' = [status |-> IF AllHealthy(statuses) THEN "healthy" ELSE "unhealthy",
                dependencies |-> statuses]
  /\ position' = None
  /\ UNCHANGED <<enabled, component, remembered, statuses, warm, ran, changes, reports, seen, reused>>

\* get_readiness and get_simple_health: a model that is ready may be unable to describe
\* itself, which only the detailed report finds out.
Ready == component["model"] \in {"healthy", "ready, not described"}
SimpleHealthy == Ready /\ SecretsStatus = "healthy"

\* The simple report asks the secrets backend too, unless is_ready raises.
Probe ==
  /\ Remember
  /\ UNCHANGED <<enabled, component, position, statuses, report, warm, ran, changes, reports,
                 seen, reused>>

-----------------------------------------------------------------------------
(* Warm-up *)

\* The average time of the iterations that did not fail is compared with 100 ms; it is
\* zero when all failed.  With several models the last one decides.
WarmUp(result) ==
  /\ result \in (IF Ready THEN {"fast", "slow", "failed"} ELSE {"failed"})
  /\ warm' = (result # "slow") /\ ran' = result
  /\ UNCHANGED <<enabled, component, remembered, position, statuses, report, changes, reports,
                 seen, reused>>

\* The environment: a component changes while the report is made, or between reports.
Change(x, s) ==
  /\ changes < MaxChanges /\ s \in States(x) \ {component[x]}
  /\ component' = [component EXCEPT ![x] = s]
  /\ seen' = [seen EXCEPT ![x] = @ \union {Status(x, s)}]
  /\ changes' = changes + 1
  /\ UNCHANGED <<enabled, remembered, position, statuses, report, warm, ran, reports, reused>>

\* A minute after the answer of Vault.
Forget ==
  /\ remembered' = FALSE
  /\ UNCHANGED <<enabled, component, position, statuses, report, warm, ran, changes, reports,
                 seen, reused>>

Next ==
  \/ Begin \/ Check \/ CheckSecrets \/ Report \/ Probe \/ Forget
  \/ \E result \in {"fast", "slow", "failed"} : WarmUp(result)
  \/ \E x \in Component : \E s \in States(x) : Change(x, s)

Spec == Init /\ [][Next]_vars

-----------------------------------------------------------------------------
(* Properties *)

\* A report is about its own time: each status was deserved at some moment since it
\* began, but for a Vault that is called healthy from memory; so a healthy report has
\* seen every component that is switched on healthy, with that exception, and an
\* unhealthy one has seen one that was not (monitoring_service.py:46-83).
ReportIsHonest ==
  (report # None /\ position = None) =>
    LET looked == Asked \ (IF reused THEN {"secrets_backend"} ELSE {}) IN
    /\ \A x \in looked : report.dependencies[x] \in seen[x]
    /\ report.status = "healthy" => \A x \in looked : "healthy" \in seen[x]
    /\ report.status = "unhealthy" => \E x \in looked : seen[x] # {"healthy"}

\* The three probes are ordered: what the detailed report would call healthy now is
\* healthy to the simple one, and ready.
ProbesAreOrdered ==
  /\ AllHealthy([x \in Component |->
       IF x = "secrets_backend" THEN SecretsStatus
       ELSE IF x \in Asked THEN Status(x, component[x]) ELSE None]) => SimpleHealthy
  /\ SimpleHealthy => Ready

\* Reports are true of their time, and the probes do not contradict each other.
HealthIsHonest == ReportIsHonest /\ ProbesAreOrdered

\* health.py:57-58, "verifies that the configured secret manager [...] is accessible and
\* operational": not within a minute of Vault's last answer (README, section 6).
HealthyIsAccessible ==
  (report # None /\ position = None /\ report.dependencies["secrets_backend"] = "healthy") =>
    "healthy" \in seen["secrets_backend"]

\* model_warmup.py:38, "Checks if the model warm-up process has completed successfully.":
\* also when every iteration failed (README, section 6).
WarmMeansServed == warm => ran = "fast"

\* model_warmup.py:136-138, "the service is not reported as 'ready' until the model
\* warm-up process has been successfully completed": readiness does not ask
\* (README, section 6).
ReadyMeansWarm == Ready => warm

==============================================================================
