----------------------------- MODULE SecretScripts -----------------------------
(***************************************************************************)
(* The operators' scripts for secrets in Vault, which may run at the same  *)
(* time: migrate-secrets-to-vault.py backs up, validates, writes and       *)
(* verifies secret after secret; rotate-secrets.py writes one new value,   *)
(* verifies it and restarts the deployment.  Vault and Kubernetes may fail *)
(* at every call.                                                          *)
(***************************************************************************)
EXTENDS Naturals, Sequences, FiniteSets, SequencesExt

CONSTANTS
  Keys,        \* secrets, in the order of the file: a sequence
  Keywords,    \* per secret, the keywords of validate_secret that its key contains
  Files,       \* what the file may hold: per secret, [length, classes, shape] of its value
  timeout,     \* polls of a rollout before it is given up
  None

ScriptsAssumption ==
  /\ Keys \in Seq(ToSet(Keys)) /\ Cardinality(ToSet(Keys)) = Len(Keys)
  /\ DOMAIN Keywords = ToSet(Keys) /\ timeout \in Nat \ {0}
  /\ \A f \in Files : DOMAIN f = ToSet(Keys)

Secret == ToSet(Keys)

-----------------------------------------------------------------------------
(* SecretValidator *)

\* The keywords in the order they are tried, and the validator of each.
Order ==
  <<"api_key", "database_url", "db_url", "webhook_url", "slack_webhook",
    "mlflow_tracking_uri", "mlflow_uri">>
ValidatorOf(keyword) ==
  CASE keyword = "api_key" -> "api key"
    [] keyword \in {"database_url", "db_url"} -> "database"
    [] keyword \in {"webhook_url", "slack_webhook"} -> "webhook"
    [] keyword \in {"mlflow_tracking_uri", "mlflow_uri"} -> "mlflow"

Validator(k) ==
  LET found == SelectSeq(Order, LAMBDA keyword : keyword \in Keywords[k])
  IN IF found = <<>> THEN "generic" ELSE ValidatorOf(Head(found))

\* The shapes of URLs that the pattern of each validator matches: a database needs a
\* user and a host with a dot, a webhook has one segment after /services/.
Shapes(validator) ==
  CASE validator = "database" -> {"postgresql user@dotted.host", "other user@dotted.host"}
    [] validator = "webhook" -> {"slack services/segment"}
    [] validator = "mlflow" -> {"http with port", "sqlite", "postgresql", "postgresql user@dotted.host"}

VARIABLES
  values,       \* what the file holds
  stored,       \* per secret, who wrote its version in Vault: nobody, old, migration, rotation
  dry_run,      \* scripts that run with --dry-run
  rollout_asked,
  migration,    \* where the migration is: starting, writing, verifying, exit 0 or exit 1
  position,     \* the secret of the file it is at
  saved,        \* what its backup holds, or None without one
  success, failed_secrets, skipped_secrets,
  progress,     \* ProgressTracker.current
  rotation,     \* where the rotation is: starting, verifying, patching, waiting, exit 0 or 1
  rotated,      \* the secret it rotates
  polls,        \* of the rollout
  rollout,      \* of the pods: not asked, asked (the deployment is patched) or complete
  pods,         \* the version of the rotated secret that the pods started with
  \* history
  was,          \* what Vault held at the beginning
  written       \* secrets the migration has written

vars ==
  <<values, stored, dry_run, rollout_asked, migration, position, saved, success, failed_secrets,
    skipped_secrets, progress, rotation, rotated, polls, rollout, pods, was, written>>
migrationVars == <<migration, position, saved, success, failed_secrets, skipped_secrets, progress, written>>
rotationVars == <<rotation, rotated, polls, rollout, pods>>
options == <<values, dry_run, rollout_asked, was>>

\* validate_secret
Valid(k) ==
  CASE Validator(k) = "api key" ->
         values[k].length >= 16 /\ {"upper", "lower", "digit"} \subseteq values[k].classes
    [] Validator(k) = "generic" -> values[k].length >= 8
    [] OTHER -> values[k].length > 0 /\ values[k].shape \in Shapes(Validator(k))

Writers == {"nobody", "old", "migration", "rotation"}

TypeOK ==
  /\ values \in Files
  /\ stored \in [Secret -> Writers] /\ was \in [Secret -> {"nobody", "old"}]
  /\ dry_run \subseteq {"migration", "rotation"} /\ rollout_asked \in BOOLEAN
  /\ migration \in {"starting", "writing", "verifying", "exit 0", "exit 1"}
  /\ position \in 1 .. Len(Keys) + 1
  /\ saved = None \/ saved \in [Secret -> Writers]
  /\ success \in 0 .. Len(Keys) /\ progress \in 0 .. Len(Keys)
  /\ failed_secrets \subseteq Secret /\ skipped_secrets \subseteq Secret
  /\ rotation \in {"starting", "verifying", "patching", "waiting", "exit 0", "exit 1"}
  /\ rotated \in Secret /\ polls \in 0 .. timeout
  /\ rollout \in {"not asked", "asked", "complete"} /\ pods \in Writers
  /\ written \subseteq Secret

Init ==
  /\ values \in Files
  /\ was \in [Secret -> {"nobody", "old"}] /\ stored = was
  /\ dry_run \in SUBSET {"migration", "rotation"} /\ rollout_asked \in BOOLEAN
  /\ migration = "starting" /\ position = 1 /\ saved = None
  /\ success = 0 /\ failed_secrets = {} /\ skipped_secrets = {} /\ progress = 0 /\ written = {}
  /\ rotation = "starting" /\ rotated \in Secret /\ polls = 0
  /\ rollout = "not asked" /\ pods = stored[rotated]

-----------------------------------------------------------------------------
(* migrate-secrets-to-vault.py *)

DryMigration == "migration" \in dry_run
DryRotation == "rotation" \in dry_run

MigrationExits(status) == migration' = status /\ UNCHANGED <<position, saved, success,
                                            failed_secrets, skipped_secrets, progress, written>>

\* main up to the loop: no connection ends it; a backup that fails is only a warning.
\* The backup reads all secrets that exist, which the rotation may be replacing.
StartMigration ==
  /\ migration = "starting"
  /\ \/ MigrationExits("exit 1")
     \/ /\ migration' = "writing"
        /\ saved' \in (IF DryMigration THEN {None} ELSE {stored, None})
        /\ UNCHANGED <<position, success, failed_secrets, skipped_secrets, progress, written>>
  /\ UNCHANGED <<stored, options, rotationVars>>

Current == Keys[position]
More == migration = "writing" /\ position <= Len(Keys)

\* The next secret of the file, after this one ended in success, failure or being skipped.
Goes(outcome) ==
  /\ migration' = "writing" /\ position' = position + 1
  /\ success' = IF outcome = "success" THEN success + 1 ELSE success
  /\ failed_secrets' = IF outcome = "failed" THEN failed_secrets \union {Current} ELSE failed_secrets
  /\ skipped_secrets' =
       IF outcome = "skipped" THEN skipped_secrets \union {Current} ELSE skipped_secrets

\* A dry run counts every secret as migrated, valid or not.
DryRun ==
  /\ More /\ DryMigration
  /\ Goes("success")
  /\ UNCHANGED <<stored, options, rotationVars, saved, progress, written>>

Skip ==
  /\ More /\ ~DryMigration /\ ~Valid(Current)
  /\ Goes("skipped")
  /\ UNCHANGED <<stored, options, rotationVars, saved, progress, written>>

\* migrate_secret
Migrate ==
  /\ More /\ ~DryMigration /\ Valid(Current)
  /\ \/ /\ stored' = [stored EXCEPT ![Current] = "migration"]
        /\ written' = written \union {Current}
        /\ progress' = progress + 1
        /\ migration' = "verifying"
        /\ UNCHANGED <<position, success, failed_secrets, skipped_secrets>>
     \/ Goes("failed") /\ UNCHANGED <<stored, written, progress>>
  /\ UNCHANGED <<options, rotationVars, saved>>

\* What verify_secret may find: there is a value, or Vault does not answer.
Verdicts == {"success", "failed"}

Verify ==
  /\ migration = "verifying"
  /\ \E verdict \in Verdicts : Goes(verdict)
  /\ UNCHANGED <<stored, options, rotationVars, saved, progress, written>>

\* mutant
NoneFailed == failed_secrets = {}

\* The exit status of the migration.
AllMigrated == failed_secrets = {} /\ skipped_secrets = {}

EndMigration ==
  /\ migration = "writing" /\ position > Len(Keys)
  /\ MigrationExits(IF AllMigrated THEN "exit 0" ELSE "exit 1")
  /\ UNCHANGED <<stored, options, rotationVars>>

-----------------------------------------------------------------------------
(* rotate-secrets.py *)

RotationGoes(to) == rotation' = to /\ UNCHANGED <<rotated, polls, rollout, pods>>

\* rotate_secret: a new value over whatever is there, or an error.
Rotate ==
  /\ rotation = "starting"
  /\ \/ RotationGoes("exit 1") /\ UNCHANGED stored
     \/ /\ RotationGoes(IF DryRotation THEN "exit 0" ELSE "verifying")
        /\ stored' = IF DryRotation THEN stored ELSE [stored EXCEPT ![rotated] = "rotation"]
  /\ UNCHANGED <<options, migrationVars>>

\* verify_secret_rotation: a value is there, whoever wrote it.
VerifyRotation ==
  /\ rotation = "verifying"
  /\ \/ RotationGoes("exit 1")
     \/ RotationGoes(IF rollout_asked THEN "patching" ELSE "exit 0")
  /\ UNCHANGED <<stored, options, migrationVars>>

\* trigger_kubernetes_rollout: a patch that fails is a warning.
Patch ==
  /\ rotation = "patching"
  /\ \/ RotationGoes("exit 0")
     \/ /\ rotation' = "waiting" /\ rollout' = "asked"
        /\ UNCHANGED <<rotated, polls, pods>>
  /\ UNCHANGED <<stored, options, migrationVars>>

\* Kubernetes replaces the pods, also when nobody waits for it any more.
PodsRestart ==
  /\ rollout = "asked"
  /\ rollout' = "complete" /\ pods' = stored[rotated]
  /\ UNCHANGED <<stored, options, migrationVars, rotation, rotated, polls>>

\* _wait_for_rollout: the rollout is complete, is not yet, or could not be asked about.
Poll ==
  /\ rotation = "waiting" /\ polls < timeout
  /\ \/ RotationGoes("exit 0")
     \/ /\ rollout = "asked"
        /\ polls' = polls + 1 /\ UNCHANGED <<rotation, rotated, rollout, pods>>
  /\ UNCHANGED <<stored, options, migrationVars>>

GiveUp ==
  /\ rotation = "waiting" /\ polls = timeout
  /\ RotationGoes("exit 0")
  /\ UNCHANGED <<stored, options, migrationVars>>

Next ==
  \/ StartMigration \/ DryRun \/ Skip \/ Migrate \/ Verify \/ EndMigration
  \/ Rotate \/ VerifyRotation \/ Patch \/ PodsRestart \/ Poll \/ GiveUp

Spec == Init /\ [][Next]_vars

-----------------------------------------------------------------------------
(* Properties *)

\* A migration that exits with 0 after a real run has written every secret of the
\* file, and none of them is back to what Vault held before, whatever a rotation does
\* meanwhile (migrate-secrets-to-vault.py:542-608).
ZeroMeansMigrated ==
  (migration = "exit 0" /\ ~DryMigration)
    => \A k \in Secret : k \in written /\ stored[k] \in {"migration", "rotation"}

\* Every secret the loop has passed is a success, failed or skipped, exactly once.
AllAccountedFor ==
  /\ failed_secrets \intersect skipped_secrets = {}
  /\ position - 1 = success + Cardinality(failed_secrets) + Cardinality(skipped_secrets)

\* A dry run of either script writes nothing to Vault, and restarts no pods.
DryRunsTouchNothing ==
  /\ DryMigration => written = {} /\ \A k \in Secret : stored[k] # "migration"
  /\ DryRotation => pods = was[rotated] /\ \A k \in Secret : stored[k] # "rotation"

\* A rotation that ends with 1 restarts nothing: the pods keep the version that they
\* started with, also when only the verification failed (rotate-secrets.py:388-396).
FailedRotationsRestartNothing ==
  rotation = "exit 1" => rollout = "not asked" /\ pods = was[rotated]

\* Exit codes and counts of the two scripts are true, dry runs are dry.
ScriptsAreHonest ==
  ZeroMeansMigrated /\ AllAccountedFor /\ DryRunsTouchNothing /\ FailedRotationsRestartNothing

\* migrate-secrets-to-vault.py:602, "Backup saved": logged also when the backup failed
\* and the migration went on over the old values (README, section 6).
BackupSaved ==
  (migration \in {"exit 0", "exit 1"} /\ written # {}) => saved # None

\* rotate-secrets.py:4, "This script implements a zero-downtime secret rotation
\* strategy": an exit of 0 does not say that the pods have the new secret (README).
ZeroMeansRolledOut ==
  (rotation = "exit 0" /\ rollout_asked /\ ~DryRotation) => rollout = "complete"

==============================================================================
