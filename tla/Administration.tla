---------------------------- MODULE Administration ----------------------------
(***************************************************************************)
(* What operators give a process and care for beside it: its settings, its *)
(* secrets and what it says of Vault, the scripts that migrate and rotate  *)
(* secrets, the models on disk and in the registry, and the scaler whose   *)
(* state outlives a process.  Operations adds what the process says of     *)
(* itself and puts all of them together.                                   *)
(***************************************************************************)
EXTENDS Integers, Sequences

CONSTANTS
  None,
  Environments, Dotenvs, Names, Texts, Assignments, MaxLoads, Refused, \* Settings
  SecretKeys, Readers, cache_ttl, MaxVersion, SecretTime,            \* Secrets
  health_interval, vault_day, renew_before, MaxChecks, VaultTime,    \* VaultHealth
  FileKeys, Keywords, Files, timeout,                                \* SecretScripts
  Replicas, Dirs, Contents, MaxCaches, Partial, Nothing, Torn,       \* ModelCache
  Operators, MaxVersions, Outages, Switchable, Archived, Serving,    \* ModelVersions
  Values, Widths, MaxBatch, CutShort                                 \* OnlineScaler

VARIABLES
  environ, lower, dotenv, profile, boot, settings, instance, worker, given, order, imported,
  usable, value, cache, secret_pc, key, got, secret_now, replaced, late, settled,
  vault_up, sealed, expires, manager, health_at, monitor_at, gauge, renewals, vault_now, up_at, told,
  values, stored, dry_run, rollout_asked, migration, file_position, backup, success,
  failed_secrets, skipped_secrets, progress, rotation, rotated, polls, rollout, pods, was, written,
  model, directory, metadata, memory, cache_pc, at, content, caches, overlapped, mixed,
  clean, loaded,
  stage, tagged, deleted, mlflow_up, outages, operator_pc, registering, active_version, is_active,
  returned, promoted, demoted,
  scaler, state_file, refused, samples, saved

settingsVars ==
  <<environ, lower, dotenv, profile, boot, settings, instance, worker, given, order, imported>>
secretVars ==
  <<usable, value, cache, secret_pc, key, got, secret_now, replaced, late, settled>>
vaultVars ==
  <<vault_up, sealed, expires, manager, health_at, monitor_at, gauge, renewals, vault_now,
    up_at, told>>
scriptVars ==
  <<values, stored, dry_run, rollout_asked, migration, file_position, backup, success,
    failed_secrets, skipped_secrets, progress, rotation, rotated, polls, rollout, pods, was,
    written>>
cacheVars ==
  <<model, directory, metadata, memory, cache_pc, at, content, caches, overlapped, mixed,
    clean, loaded>>
versionVars ==
  <<stage, tagged, deleted, mlflow_up, outages, operator_pc, registering, active_version,
    is_active, returned, promoted, demoted>>
scalerVars == <<scaler, state_file, refused, samples, saved>>

Setting == INSTANCE Settings
Secret == INSTANCE Secrets WITH
  Keys <- SecretKeys, MaxTime <- SecretTime, pc <- secret_pc, now <- secret_now
Vault == INSTANCE VaultHealth WITH
  MaxTime <- VaultTime, day <- vault_day, up <- vault_up, now <- vault_now
Script == INSTANCE SecretScripts WITH
  Keys <- FileKeys, position <- file_position, saved <- backup
Models == INSTANCE ModelCache WITH pc <- cache_pc
Registry == INSTANCE ModelVersions WITH
  up <- mlflow_up, pc <- operator_pc, active <- active_version
Scaler == INSTANCE OnlineScaler WITH file <- state_file, seen <- samples

\* What the components assume of their constants.
ASSUME AdministrationAssumption ==
  /\ Setting!SettingsAssumption
  /\ Secret!SecretsAssumption /\ Vault!HealthAssumption /\ Script!ScriptsAssumption
  /\ Models!CacheAssumption /\ Registry!VersionsAssumption /\ Scaler!ScalerAssumption

==============================================================================
