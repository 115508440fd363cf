------------------------------ MODULE VaultHealth ------------------------------
(***************************************************************************)
(* What a process says of its secret backend: get_secret_manager falls     *)
(* back to the environment for good, the Vault manager answers from its    *)
(* last check within an interval, and VaultHealthMonitor caches that.      *)
(***************************************************************************)
EXTENDS Naturals

CONSTANTS
  health_interval, \* _health_check_interval, and health_check_interval of the monitor
  day,             \* ticks of a day, which the monitor leaves out
  renew_before,    \* ticks before it expires when a token needs renewal
  MaxTime,         \* bound: ticks of the clock
  MaxChecks,       \* bound: looks at the token
  None

HealthAssumption ==
  /\ health_interval \in Nat \ {0} /\ day \in Nat \ {0}
  /\ renew_before \in Nat /\ MaxTime \in Nat /\ MaxChecks \in Nat
  /\ None \notin Nat

VARIABLES
  up, sealed,   \* Vault is reachable; it is sealed
  expires,      \* when our token expires
  manager,      \* "none", "vault" or "env"
  health_at,    \* _last_health_check of the manager, or None
  monitor_at,   \* last_health_check of the monitor, or None
  gauge,        \* vault_connection_status
  renewals,     \* vault_token_renewals
  now,
  \* history
  up_at,        \* when Vault could last be reached
  told          \* the latest answer, how long Vault was away, and whether the answer was
                \* a gauge of a day ago or more

vars == <<up, sealed, expires, manager, health_at, monitor_at, gauge, renewals, now, up_at, told>>

Times == 0 .. MaxTime

TypeOK ==
  /\ up \in BOOLEAN /\ sealed \in BOOLEAN /\ expires \in Times
  /\ manager \in {"none", "vault", "env"}
  /\ health_at \in Times \union {None} /\ monitor_at \in Times \union {None}
  /\ gauge \in BOOLEAN /\ renewals \in 0 .. MaxChecks
  /\ now \in Times /\ up_at \in 0 .. now /\ told \in [ok : BOOLEAN, away : Times, aged : BOOLEAN]

Init ==
  /\ up = TRUE /\ sealed = FALSE /\ expires = MaxTime
  /\ manager = "none"
  /\ health_at = None /\ monitor_at = None /\ gauge = FALSE /\ renewals = 0
  /\ now = 0 /\ up_at = 0 /\ told = [ok |-> TRUE, away |-> 0, aged |-> FALSE]

Authenticated == up /\ ~sealed /\ now < expires

\* get_secret_manager and the constructor: a Vault that cannot be logged into means
\* the environment, for the life of the process.
Choose ==
  /\ manager = "none"
  /\ manager' = IF Authenticated THEN "vault" ELSE "env"
  /\ UNCHANGED <<up, sealed, expires, health_at, monitor_at, gauge, renewals, now, up_at, told>>

Recent(at) == at # None /\ now - at < health_interval

\* VaultSecretManager.is_healthy: healthy within the interval of Vault's last answer,
\* whatever that answer was; an answer is remembered before it is looked at.
IsHealthy == Recent(health_at) \/ Authenticated
HealthAt == IF ~Recent(health_at) /\ up THEN now ELSE health_at

\* The environment is always healthy.
Healthy == manager = "env" \/ IsHealthy

Tell(ok, aged) ==
  told' = [ok |-> ok /\ manager = "vault", away |-> now - up_at, aged |-> aged]

\* is_healthy, asked by /health, get_health_info and check_secrets_backend_health.
CheckHealth ==
  /\ manager # "none"
  /\ health_at' = IF manager = "vault" THEN HealthAt ELSE health_at
  /\ Tell(Healthy, FALSE)
  /\ UNCHANGED <<up, sealed, expires, manager, monitor_at, gauge, renewals, now, up_at>>

\* The monitor asks for the seconds of a difference, which leave its days out.
RecentOfMonitor == monitor_at # None /\ (now - monitor_at) % day < health_interval

\* VaultHealthMonitor.check_vault_health: within its interval the gauge answers.
CheckVaultHealth ==
  /\ manager # "none"
  /\ IF RecentOfMonitor
     THEN Tell(gauge, now - monitor_at >= day) /\ UNCHANGED <<health_at, monitor_at, gauge>>
     ELSE /\ gauge' = Healthy /\ monitor_at' = now
          /\ health_at' = IF manager = "vault" THEN HealthAt ELSE health_at
          /\ Tell(Healthy, FALSE)
  /\ UNCHANGED <<up, sealed, expires, manager, renewals, now, up_at>>

\* check_token_status counts a renewal and leaves the token as it is.
CheckTokenStatus ==
  /\ manager = "vault" /\ Authenticated
  /\ IF expires - now < renew_before
     THEN renewals < MaxChecks /\ renewals' = renewals + 1
     ELSE UNCHANGED renewals
  /\ UNCHANGED <<up, sealed, expires, manager, health_at, monitor_at, gauge, now, up_at, told>>

\* The environment
Reach ==
  /\ up' = ~up /\ up_at' = now
  /\ UNCHANGED <<sealed, expires, manager, health_at, monitor_at, gauge, renewals, now, told>>

Seal ==
  /\ up /\ sealed' = ~sealed
  /\ UNCHANGED <<up, expires, manager, health_at, monitor_at, gauge, renewals, now, up_at, told>>

Revoke ==
  /\ expires > now /\ expires' = now
  /\ UNCHANGED <<up, sealed, manager, health_at, monitor_at, gauge, renewals, now, up_at, told>>

Tick ==
  /\ now < MaxTime /\ now' = now + 1
  /\ up_at' = IF up THEN now' ELSE up_at
  /\ UNCHANGED <<up, sealed, expires, manager, health_at, monitor_at, gauge, renewals, told>>

Next ==
  \/ Choose \/ CheckHealth \/ CheckVaultHealth \/ CheckTokenStatus
  \/ Reach \/ Seal \/ Revoke \/ Tick

Spec == Init /\ [][Next]_vars

-----------------------------------------------------------------------------
(* Properties *)

\* A Vault that cannot be reached any more is called healthy for less than twice the
\* interval: the manager's answer may be that old when the monitor caches it.  Only
\* who asks the monitor again after a day or more may be given the gauge of then
\* (secrets.py:378-388, vault_health.py:66-71).
OutagesAreReported == told.ok /\ ~told.aged => told.away < 2 * health_interval

\* vault_health.py:60-61, "the result is cached for a configurable interval": not kept a
\* day later, .seconds starts again (README, section 6).
CachedForAnInterval == ~told.aged

\* secrets.py:375-376, "`True` if Vault is healthy and the client is authenticated,
\* `False` otherwise.": not kept within the interval of an unhealthy answer
\* (README, section 6).
HealthyMeansAuthenticated == (manager = "vault" /\ IsHealthy) => Authenticated

\* vault_health.py:32, "Total Vault token renewals": not kept, nothing is renewed
\* (README, section 6).
RenewalsRenew == renewals > 0 => expires > now

==============================================================================
