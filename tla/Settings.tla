------------------------------- MODULE Settings -------------------------------
(***************************************************************************)
(* The settings of a process and their profiles.  A profile is applied by  *)
(* writing its overrides into os.environ, where a variable that is there   *)
(* already stays; the settings are then read from the environment, and     *)
(* checked.  The module-level settings are made at import; worker          *)
(* processes inherit the environment and import anew.                      *)
(*                                                                         *)
(* The settings ignore the case of a name, os.environ does not: a variable *)
(* that is not in upper case as the profiles write it (lower) is read, but *)
(* a profile does not see it, and what the profile adds is read after it.  *)
(*                                                                         *)
(* The keys stand for those the checks read, and for those that one        *)
(* profile sets and another does not.                                      *)
(***************************************************************************)
EXTENDS Integers, Sequences

CONSTANTS
  Environments, \* what operators may put into the environment
  Dotenvs,      \* what may be in the file .env
  Names,        \* of profiles, as people write them
  Texts,        \* what a field of text may hold
  Assignments,  \* pairs of a key and a value that code may set
  MaxLoads,     \* bound: further calls of load_from_profile
  None, Refused

Defaults ==
  [environment |-> "production", debug |-> FALSE, workers |-> 1, host |-> "0.0.0.0",
   redis |-> FALSE, features |-> FALSE, cache |-> 1000, text |-> 512,
   model |-> "distilbert", allowed |-> {"distilbert", "roberta"}]
Keys == DOMAIN Defaults

\* What a field holds, and what the fields together do.
Type ==
  [environment |-> Texts, debug |-> BOOLEAN, workers |-> Int, host |-> Texts,
   redis |-> BOOLEAN, features |-> BOOLEAN, cache |-> Int, text |-> Int,
   model |-> Texts, allowed |-> SUBSET Texts]
Objects == [Keys -> UNION {Type[k] : k \in Keys}]

SettingsAssumption ==
  /\ {"production", "development", "staging", "local", "0.0.0.0", "127.0.0.1", "distilbert",
      "roberta"} \subseteq Texts
  /\ \A e \in Environments \union Dotenvs :
       DOMAIN e \subseteq Keys /\ \A k \in DOMAIN e : e[k] \in Type[k]
  /\ \E e \in Environments : DOMAIN e = {}
  /\ \A a \in Assignments : a[1] \in Keys
  /\ MaxLoads \in Nat /\ None \notin Names
  /\ None # Refused /\ None \notin Objects /\ Refused \notin Objects

Development ==
  [environment |-> "development", debug |-> TRUE, workers |-> 1, redis |-> FALSE,
   cache |-> 100, text |-> 512]
Staging ==
  [environment |-> "staging", debug |-> FALSE, workers |-> 2, redis |-> TRUE,
   cache |-> 1000, text |-> 512]
Production ==
  [environment |-> "production", debug |-> FALSE, workers |-> 4, redis |-> TRUE,
   cache |-> 10000, text |-> 512, features |-> TRUE]

\* What f says, and what g says of the rest.
Over(f, g) == [k \in DOMAIN f \union DOMAIN g |-> IF k \in DOMAIN f THEN f[k] ELSE g[k]]

Local == Over([environment |-> "local", host |-> "127.0.0.1"], Development)

\* get_profile, with the aliases.
Overrides(name) ==
  CASE name = "local" -> Local
    [] name \in {"development", "dev"} -> Development
    [] name = "staging" -> Staging
    [] name \in {"production", "prod"} -> Production
    [] OTHER -> None

VARIABLES
  environ,   \* os.environ: a function on the keys that are set
  lower,     \* the operator's variables that are spelled otherwise than the profiles do
  dotenv, profile, \* the file; MLOPS_PROFILE, or None
  boot,      \* "importing", "running" or "refused"
  settings,  \* the module-level object, or None
  instance,  \* what load_from_profile last gave: settings, Refused, or None
  worker,    \* what a worker process imported last, likewise
  \* history
  given,     \* the environment the operator gave
  order,     \* the profiles applied, in order
  imported   \* the settings as they were imported

vars ==
  <<environ, lower, dotenv, profile, boot, settings, instance, worker, given, order, imported>>

\* The bounds of the fields, and validate_configuration_consistency.
Valid(s) ==
  /\ 1 <= s.workers /\ s.workers <= 16
  /\ 10 <= s.cache /\ s.cache <= 100000
  /\ 1 <= s.text /\ s.text <= 10000
  /\ s.model \in s.allowed
  /\ ~(s.debug /\ s.workers > 1)
  /\ s.cache * s.text <= 1000 * 100000

IsSettings(s) == DOMAIN s = Keys
Made == {x \in {settings, imported, instance, worker} : x \notin {None, Refused}}

TypeOK ==
  /\ DOMAIN environ \subseteq Keys /\ given \in Environments /\ lower \in Environments
  /\ dotenv \in Dotenvs
  /\ profile \in Names \union {None}
  /\ boot \in {"importing", "running", "refused"}
  /\ Len(order) <= MaxLoads + 1 /\ \A i \in DOMAIN order : order[i] \in Names \union {"development"}
  /\ \A s \in Made : IsSettings(s)
  /\ boot = "running" <=> imported # None

Init ==
  /\ given \in Environments /\ environ = given
  /\ lower \in Environments /\ DOMAIN lower \intersect DOMAIN given = {}
  /\ dotenv \in Dotenvs /\ profile \in Names \union {None}
  /\ boot = "importing"
  /\ settings = None /\ imported = None /\ instance = None /\ worker = None
  /\ order = <<>>

\* "only if not already set"
Applied(env, overrides) == Over(env, overrides)

\* cls(): the environment goes before the file, and both before the defaults of the fields.
Beneath == Over(lower, Over(dotenv, Defaults))
Read(env) == Over(env, Beneath)
MadeOf(env) == IF Valid(Read(env)) THEN Read(env) ELSE Refused

\* load_from_profile(name): the environment it leaves and what it gives.
After(env, name) == IF Overrides(name) = None THEN env ELSE Applied(env, Overrides(name))
Given(env, name) == IF Overrides(name) = None THEN Refused ELSE MadeOf(After(env, name))
Recorded(name) == IF Overrides(name) = None THEN order ELSE Append(order, name)

\* The import of settings.py, by this process or a worker.
EnvOfImport(env) == IF profile = None THEN env ELSE After(env, profile)
Imported(env) == IF profile = None THEN MadeOf(env) ELSE Given(env, profile)

Import ==
  LET s == Imported(environ) IN
  /\ boot = "importing"
  /\ environ' = EnvOfImport(environ)
  /\ order' = IF profile = None THEN order ELSE Recorded(profile)
  /\ IF s = Refused THEN boot' = "refused" /\ UNCHANGED <<settings, imported>>
     ELSE boot' = "running" /\ settings' = s /\ imported' = s
  /\ UNCHANGED <<lower, dotenv, profile, instance, worker, given>>

\* load_from_profile with a name, or with none, called later in the process.
Load(asked) ==
  LET name == IF asked # None THEN asked
              ELSE IF profile # None THEN profile ELSE "development"
  IN
  /\ boot = "running"
  /\ Len(order) <= MaxLoads - (IF profile = None THEN 1 ELSE 0)
  /\ environ' = After(environ, name)
  /\ instance' = Given(environ, name)
  /\ order' = Recorded(name)
  /\ UNCHANGED <<lower, dotenv, profile, boot, settings, worker, given, imported>>

\* A setter of Settings: nothing is validated again.
Assign(k, v) ==
  /\ boot = "running"
  /\ settings' = [settings EXCEPT ![k] = v]
  /\ UNCHANGED <<environ, lower, dotenv, profile, boot, instance, worker, given, order, imported>>

\* A worker process is started, or started again.
StartWorker ==
  /\ boot = "running"
  /\ worker' = Imported(environ)
  /\ UNCHANGED <<environ, lower, dotenv, profile, boot, settings, instance, given, order, imported>>

Next ==
  \/ Import \/ StartWorker
  \/ \E name \in Names \union {None} : Load(name)
  \/ \E a \in Assignments : Assign(a[1], a[2])

Spec == Init /\ [][Next]_vars

-----------------------------------------------------------------------------
(* Properties *)

\* A variable the operator set as the profiles spell it holds its value through every
\* profile, in every object and every process, until code assigns another
\* (settings.py:324-325).
OperatorDecides ==
  \A k \in DOMAIN given :
    /\ environ[k] = given[k]
    /\ \A s \in Made \ {settings} : s[k] = given[k]

\* What the operator left open, or spelled otherwise, is as the first profile applied says
\* that knows the key: no later call changes what a process, or a worker of it, was
\* started with.
FirstProfileDecides ==
  \A k \in DOMAIN environ \ DOMAIN given :
    \E i \in DOMAIN order :
      /\ k \in DOMAIN Overrides(order[i]) /\ environ[k] = Overrides(order[i])[k]
      /\ \A j \in 1 .. i - 1 : k \notin DOMAIN Overrides(order[j])

\* A worker has the settings of its parent, unless a later call of load_from_profile
\* added variables; and if it refuses to start, such a call is why.
WorkersAgree ==
  (worker # None /\ Len(order) <= (IF profile = None THEN 0 ELSE 1)) => worker = imported

\* Every profile starts as it is: a refusal has a cause outside of the profiles.
ProfilesStart ==
  boot = "refused" =>
    (DOMAIN given # {} \/ DOMAIN lower # {} \/ DOMAIN dotenv # {} \/ Overrides(profile) = None)

\* Profiles fill in what nobody decided, once, and alike in every process.
ProfilesHold == OperatorDecides /\ FirstProfileDecides /\ WorkersAgree /\ ProfilesStart

\* settings.py:324-325, "Environment variables can still override these defaults".
\* Refuted: not one in lower case, which the settings would read (settings.py:396).
LowerCaseOverrides ==
  \A k \in DOMAIN lower : imported # None => imported[k] = lower[k]

\* docs/configuration/PROFILES.md:404-407: values of .env go before profile defaults.
\* Refuted: the defaults are written into the environment, which goes before the file.
DotenvBeforeProfile ==
  \A k \in DOMAIN dotenv \ (DOMAIN given \union DOMAIN lower) : imported # None => imported[k] = dotenv[k]

\* settings.py:333, "Settings instance with profile defaults applied".  Refuted: of a
\* second profile only those are applied that the first does not know.
ProfileIsApplied ==
  (order # <<>> /\ instance \notin {None, Refused}) =>
    LET last == Overrides(order[Len(order)]) IN
    \A k \in DOMAIN last \ DOMAIN given : instance[k] = last[k]

\* docs/configuration/PROFILES.md:24, "override only what's different".  Refuted: one
\* valid variable that the profile contradicts keeps the process from starting.
OverridesStart == (boot = "refused" /\ Overrides(profile) # None) => ~Valid(Read(given))

\* settings.py:170, "ensure configuration consistency".  Refuted: setters do not check.
SettingsStayConsistent == settings # None => Valid(settings)

==============================================================================
