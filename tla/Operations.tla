------------------------------ MODULE Operations ------------------------------
(***************************************************************************)
(* What surrounds serving: what operators administer, the requests through *)
(* the API, and the indicators and the health that a process reports.      *)
(* Each component keeps its own state and reads nobody else's, so a        *)
(* behaviour follows one of them (focus) while the others stay where they  *)
(* begin: interleaving them would reach no further state of any.           *)
(***************************************************************************)
EXTENDS Administration

CONSTANTS
  Calls, MayAsk, MaxRequests,                                        \* HttpApi
  Predictions, max_history, max_confidence, max_latencies, day, KpiTime, MaxPredictions,
  MaxChanges, MaxReports                                             \* HealthReport

VARIABLES
  focus,
  world, request_pc, request, outcome, active, recorded, arrivals, answered, dropped, handled,
  detailed, history, low, high, by_label, by_bucket, by_backend, latencies, total_cost,
  cost_by_day, gauges, kpi_now, all,
  enabled, component, remembered, position, statuses, report, warm, ran, changes, reports,
  seen, reused

apiVars ==
  <<world, request_pc, request, outcome, active, recorded, arrivals, answered, dropped, handled>>
kpiVars ==
  <<detailed, history, low, high, by_label, by_bucket, by_backend, latencies, total_cost,
    cost_by_day, gauges, kpi_now, all>>
healthVars ==
  <<enabled, component, remembered, position, statuses, report, warm, ran, changes, reports,
    seen, reused>>

vars ==
  <<focus, settingsVars, secretVars, vaultVars, scriptVars, cacheVars, versionVars, scalerVars,
    apiVars, kpiVars, healthVars>>

Api == INSTANCE HttpApi WITH pc <- request_pc
Kpi == INSTANCE KpiMetrics WITH MaxTime <- KpiTime, now <- kpi_now
Health == INSTANCE HealthReport

\* What these components assume of their constants.
ASSUME Assumptions == Api!ApiAssumption /\ Kpi!KpiAssumption /\ Health!HealthAssumption

\* Choices of the initial state are made only for the component that is followed.
Init ==
  /\ focus \in {"settings", "secret", "vault", "script", "models", "registry", "scaler", "api",
              "kpi", "health"}
  /\ Setting!Init
  /\ focus # "settings" =>
       /\ given = (CHOOSE e \in Environments : TRUE) /\ dotenv = (CHOOSE e \in Dotenvs : TRUE)
       /\ profile = None /\ lower = (CHOOSE e \in Environments : DOMAIN e = {})
  /\ Secret!Init /\ Vault!Init
  /\ Script!Init
  /\ focus # "script" =>
       /\ values = (CHOOSE f \in Files : TRUE) /\ dry_run = {} /\ ~rollout_asked
       /\ rotated = Head(FileKeys) /\ was = [k \in Script!Secret |-> "old"]
  /\ Models!Init /\ Registry!Init /\ Scaler!Init
  /\ Api!Init
  /\ focus # "api" => world = [debug |-> FALSE, api_key |-> TRUE, model |-> "ready",
                             optional |-> "running"]
  /\ Kpi!Init /\ (focus # "kpi" => detailed)
  /\ Health!Init /\ (focus # "health" => enabled = {} /\ ran = "fast")

Next ==
  /\ UNCHANGED focus
  /\ IF focus = "settings" THEN Setting!Next ELSE UNCHANGED settingsVars
  /\ IF focus = "secret" THEN Secret!Next ELSE UNCHANGED secretVars
  /\ IF focus = "vault" THEN Vault!Next ELSE UNCHANGED vaultVars
  /\ IF focus = "script" THEN Script!Next ELSE UNCHANGED scriptVars
  /\ IF focus = "models" THEN Models!Next ELSE UNCHANGED cacheVars
  /\ IF focus = "registry" THEN Registry!Next ELSE UNCHANGED versionVars
  /\ IF focus = "scaler" THEN Scaler!Next ELSE UNCHANGED scalerVars
  /\ IF focus = "api" THEN Api!Next ELSE UNCHANGED apiVars
  /\ IF focus = "kpi" THEN Kpi!Next ELSE UNCHANGED kpiVars
  /\ IF focus = "health" THEN Health!Next ELSE UNCHANGED healthVars

Spec == Init /\ [][Next]_vars

-----------------------------------------------------------------------------
(* Properties, stated and explained in the modules of the components *)

TypeOK ==
  /\ Setting!TypeOK
  /\ Secret!TypeOK /\ Vault!TypeOK /\ Script!TypeOK /\ Models!TypeOK /\ Registry!TypeOK
  /\ Scaler!TypeOK /\ Api!TypeOK /\ Kpi!TypeOK /\ Health!TypeOK

\* settings.py, secrets.py, vault_health.py: profiles fill in what nobody decided, alike
\* in every process; secrets are recent, own writes seen, outages reported.
ConfigurationHolds ==
  Setting!ProfilesHold /\ Secret!SecretsAreFresh /\ Vault!OutagesAreReported

\* rotate-secrets.py, migrate-secrets-to-vault.py: exit codes and counts are true.
ScriptsAreHonest == Script!ScriptsAreHonest

\* persistence.py, mlflow_registry.py, online_normalization.py: crashes, failures and
\* restarts cost no artifact.
ArtifactsAreSound ==
  Models!CachedModelsAreSound /\ Registry!VersionsAreSound /\ Scaler!ScalerIsExact

\* main.py, middleware, routes, monitoring: a request is answered for a reason and
\* counted, and the indicators and the health of the process are true.
ServiceReportsItself ==
  Api!RequestsAreAnswered /\ Kpi!KpisAreSound /\ Health!HealthIsHonest

==============================================================================
