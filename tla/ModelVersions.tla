------------------------------ MODULE ModelVersions ------------------------------
(***************************************************************************)
(* Versions of a model in MLflow's registry as ModelRegistry drives it for *)
(* several operators, registration being several calls that may fail one   *)
(* by one; and the registry of the /model-versions routes, which knows     *)
(* nothing of MLflow's.                                                    *)
(***************************************************************************)
EXTENDS Naturals, Sequences, FiniteSets, FiniteSetsExt

CONSTANTS
  Operators,    \* who calls ModelRegistry
  MaxVersions,  \* bound: versions of the model in MLflow
  Outages,      \* bound: how often MLflow goes away
  Switchable,   \* versions of the routes that are not Archived
  Archived,     \* those that are
  Serving,      \* the version that is active when the process starts
  None

VersionsAssumption ==
  /\ MaxVersions \in Nat /\ Outages \in Nat
  /\ Serving \in Switchable /\ Switchable \intersect Archived = {} /\ None \notin Nat

Stages == {"None", "Staging", "Production", "Archived"}

VARIABLES
  stage,        \* MLflow: per version, its stage
  tagged,       \* versions that have their tags and description
  deleted,      \* versions that were deleted
  up, outages,  \* MLflow answers; how often it went away
  pc,           \* of each operator: idle or tagging
  registering,  \* the version each operator registers, or None
  active,       \* _active_version of the routes
  is_active,    \* versions of the routes that are marked as serving
  \* history
  returned,     \* versions that register_model returned
  promoted,     \* a version was promoted
  demoted       \* a version was deleted, or moved from Production by its number

vars ==
  <<stage, tagged, deleted, up, outages, pc, registering, active, is_active, returned, promoted, demoted>>
routeVars == <<active, is_active>>

Versions == DOMAIN stage \ deleted

TypeOK ==
  /\ stage \in [1 .. Len(stage) -> Stages] /\ Len(stage) <= MaxVersions
  /\ tagged \subseteq DOMAIN stage /\ deleted \subseteq DOMAIN stage /\ returned \subseteq DOMAIN stage
  /\ up \in BOOLEAN /\ outages \in 0 .. Outages
  /\ pc \in [Operators -> {"idle", "tagging"}]
  /\ \A o \in Operators : registering[o] \in (IF pc[o] = "idle" THEN {None} ELSE DOMAIN stage)
  /\ active \in Switchable /\ is_active \subseteq Switchable
  /\ promoted \in BOOLEAN /\ demoted \in BOOLEAN

Init ==
  /\ stage = <<>> /\ tagged = {} /\ deleted = {}
  /\ up = TRUE /\ outages = 0
  /\ pc = [o \in Operators |-> "idle"] /\ registering = [o \in Operators |-> None]
  /\ active = Serving
  /\ is_active = {Serving}
  /\ returned = {} /\ promoted = FALSE /\ demoted = FALSE

-----------------------------------------------------------------------------
(* ModelRegistry *)

\* register_model: the version is there before its tags and its description are.
Register(o) ==
  /\ pc[o] = "idle" /\ up /\ Len(stage) < MaxVersions
  /\ stage' = Append(stage, "None")
  /\ pc' = [pc EXCEPT ![o] = "tagging"]
  /\ registering' = [registering EXCEPT ![o] = Len(stage) + 1]
  /\ UNCHANGED <<tagged, deleted, up, outages, routeVars, returned, promoted, demoted>>

\* The tags and the description, or an MlflowException: None is returned.
Tag(o) ==
  /\ pc[o] = "tagging"
  /\ IF up /\ registering[o] \notin deleted
     THEN tagged' = tagged \union {registering[o]} /\ returned' = returned \union {registering[o]}
     ELSE UNCHANGED <<tagged, returned>>
  /\ pc' = [pc EXCEPT ![o] = "idle"]
  /\ registering' = [registering EXCEPT ![o] = None]
  /\ UNCHANGED <<stage, deleted, up, outages, routeVars, promoted, demoted>>

\* The versions a transition with archive_existing_versions moves to Archived.
Existing(s, v) == {w \in Versions \ {v} : stage[w] = s}

\* transition_model_stage; promote_to_production is the one to Production.  MLflow
\* archives the versions of these two stages only.
Transition(v, s, archive) ==
  /\ up /\ v \in Versions
  /\ archive => s \in {"Staging", "Production"}
  /\ stage' = [w \in DOMAIN stage |->
                 IF archive /\ w \in Existing(s, v) THEN "Archived"
                 ELSE IF w = v THEN s ELSE stage[w]]
  /\ promoted' = (promoted \/ s = "Production")
  /\ demoted' = (demoted \/ (stage[v] = "Production" /\ s # "Production"))
  /\ UNCHANGED <<tagged, deleted, up, outages, pc, registering, routeVars, returned>>

\* delete_model_version
Delete(v) ==
  /\ up /\ v \in Versions
  /\ deleted' = deleted \union {v}
  /\ demoted' = (demoted \/ stage[v] = "Production")
  /\ UNCHANGED <<stage, tagged, up, outages, pc, registering, routeVars, returned, promoted>>

\* get_latest_versions of MLflow: one version of the stage, the newest.
LatestIn(s) ==
  LET found == {w \in Versions : stage[w] = s} IN IF found = {} THEN {} ELSE {Max(found)}

\* GET .../production: 503 when MLflow is not initialised, 404 without an answer.
ProductionStatus == IF up /\ LatestIn("Production") # {} THEN 200 ELSE 404

\* get_all_production_models
AllProduction == IF up THEN LatestIn("Production") ELSE {}

\* Version numbers are strings: "10" comes before "9".
StringLess(a, b) ==
  LET da == IF a < 10 THEN <<a>> ELSE <<a \div 10, a % 10>>
      db == IF b < 10 THEN <<b>> ELSE <<b \div 10, b % 10>>
  IN da[1] < db[1] \/ (da[1] = db[1] /\ Len(da) < Len(db))
       \/ (da[1] = db[1] /\ Len(da) = 2 /\ Len(db) = 2 /\ da[2] < db[2])

\* get_model_version without a version and a stage, of versions 1 .. n.
LatestOf(n) == CHOOSE v \in 1 .. n : \A w \in 1 .. n : ~StringLess(v, w)

-----------------------------------------------------------------------------
(* /model-versions *)

\* POST /model-versions/switch: 404 for an unknown version, 409 for an archived one.
SwitchStatus(v) == IF v \in Switchable THEN 200 ELSE IF v \in Archived THEN 409 ELSE 404

Switch(v, dry_run) ==
  /\ SwitchStatus(v) = 200
  /\ IF dry_run THEN UNCHANGED routeVars
     ELSE active' = v /\ is_active' = (is_active \ {active}) \union {v}
  /\ UNCHANGED <<stage, tagged, deleted, up, outages, pc, registering, returned, promoted, demoted>>

\* The environment
Reach ==
  /\ up => outages < Outages
  /\ up' = ~up /\ outages' = IF up THEN outages + 1 ELSE outages
  /\ UNCHANGED <<stage, tagged, deleted, pc, registering, routeVars, returned, promoted, demoted>>

Next ==
  \/ \E o \in Operators : Register(o) \/ Tag(o)
  \/ \E v \in DOMAIN stage :
       \/ \E s \in Stages, archive \in BOOLEAN : Transition(v, s, archive)
       \/ Delete(v)
  \/ \E v \in Switchable \union Archived, dry_run \in BOOLEAN : Switch(v, dry_run)
  \/ Reach

Spec == Init /\ [][Next]_vars

-----------------------------------------------------------------------------
(* Properties *)

\* What register_model returned is whole, and nobody else's: failures in between cost
\* a version without tags that nobody was told of (mlflow_registry.py:118-145).
ReturnedIsWhole ==
  /\ returned \subseteq tagged
  /\ \A o, p \in Operators : (o # p /\ registering[o] # None) => registering[o] # registering[p]

\* Once a version was promoted there is one in Production, whatever promotions race,
\* until somebody deletes it or moves it elsewhere by its number
\* (mlflow_registry.py:266-302).
ProductionStays == (promoted /\ ~demoted /\ up) => ProductionStatus = 200

\* Exactly the active version is marked as serving, and it is not an archived one.
OneServes == is_active = {active} /\ active \notin Archived

\* Registrations are whole, production stays, one version is marked as serving.
VersionsAreSound == ReturnedIsWhole /\ ProductionStays /\ OneServes

\* mlflow_registry.py:113, "Model version info or None if registration failed": None
\* is also returned for a version that is in the registry (README, section 6).
NoneMeansFailed ==
  \A v \in DOMAIN stage : v \in returned \/ \E o \in Operators : registering[o] = v

\* mlflow_registry.py:215, "Get all production model versions (for A/B testing).": one
\* at most is returned (README, section 6).
AllProductionIsAll == up => AllProduction = {w \in Versions : stage[w] = "Production"}

\* mlflow_registry.py:178, "Get latest version overall": not from the tenth version on
\* (README, section 6).
LatestIsNewest == \A n \in 1 .. 12 : LatestOf(n) = n

==============================================================================
