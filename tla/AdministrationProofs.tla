-------------------------- MODULE AdministrationProofs --------------------------
(***************************************************************************)
(* Proofs about the components of Administration, for every value of the   *)
(* constants.  Each has an inductive invariant (...Inv): its initial       *)
(* states satisfy it (...Init), its steps keep it (...Next), and it        *)
(* implies the property of the component (...Sound).  OperationsProofs     *)
(* puts them together.                                                     *)
(***************************************************************************)
EXTENDS Administration, Induction, TLAPS

-----------------------------------------------------------------------------
(*****************************************************************************)
(* The settings.  A load refuses or keeps what the operator gave; every      *)
(* object of the process keeps it too, and the first profile that was        *)
(* applied decides what nobody gave, in the workers as in the process that   *)
(* imported the module.                                                      *)
(*****************************************************************************)
\* Names that a profile may be asked by.
ProfileNames == Names \union {"development"}

\* What an environment holds that an operator or a profile may have made.
IsEnv(e) == DOMAIN e \subseteq Setting!Keys /\ \A k \in DOMAIN e : e[k] \in Setting!Type[k]

\* What the operator gave is in x.
Keeps(x) == DOMAIN given \subseteq DOMAIN x /\ \A k \in DOMAIN given : x[k] = given[k]

\* The names of the settings.
KeyNames ==
  {"environment", "debug", "workers", "host", "redis", "features", "cache", "text", "model",
   "allowed"}

\* How many profiles the import applies.
ProfilesOfImport == IF profile = None THEN 0 ELSE 1

\* What was imported, loaded or assigned comes from the environment as it is now, and that
\* from the operator and the profiles in their order.
SettingsInv ==
  /\ Setting!TypeOK
  /\ order \in Seq(ProfileNames)
  /\ Keeps(environ)
  /\ boot = "importing" => environ = given /\ order = <<>>
  /\ boot = "refused" => Setting!Imported(given) = Refused
  /\ boot # "running" => settings = None /\ imported = None /\ instance = None /\ worker = None
  /\ boot = "running" =>
       /\ imported = Setting!Imported(given) /\ DOMAIN settings = Setting!Keys
       /\ Len(order) >= ProfilesOfImport
       /\ Len(order) = ProfilesOfImport => environ = Setting!EnvOfImport(given)
  /\ \A x \in {imported, instance, worker} :
       x \notin {None, Refused} => DOMAIN x = Setting!Keys /\ Keeps(x)
  /\ \A j \in DOMAIN order : DOMAIN Setting!Overrides(order[j]) \subseteq DOMAIN environ
  /\ Setting!FirstProfileDecides
  /\ Setting!WorkersAgree

LEMMA SettingsConstants ==
  /\ \A e \in Environments \union Dotenvs : IsEnv(e)
  /\ \A a \in Assignments : a[1] \in Setting!Keys
  /\ MaxLoads \in Nat /\ None \notin Names
  /\ None # Refused /\ None \notin Setting!Objects /\ Refused \notin Setting!Objects
  BY AdministrationAssumption DEF Setting!SettingsAssumption, IsEnv

LEMMA SettingsKeys == Setting!Keys = KeyNames
  BY DEF Setting!Keys, Setting!Defaults, KeyNames

LEMMA SettingsTexts ==
  {"production", "development", "staging", "local", "0.0.0.0", "127.0.0.1", "distilbert",
   "roberta"} \subseteq Texts
  BY AdministrationAssumption DEF Setting!SettingsAssumption

LEMMA SettingsTypes ==
  /\ Setting!Type["environment"] = Texts /\ Setting!Type["debug"] = BOOLEAN
  /\ Setting!Type["workers"] = Int /\ Setting!Type["host"] = Texts
  /\ Setting!Type["redis"] = BOOLEAN /\ Setting!Type["features"] = BOOLEAN
  /\ Setting!Type["cache"] = Int /\ Setting!Type["text"] = Int
  /\ Setting!Type["model"] = Texts /\ Setting!Type["allowed"] = SUBSET Texts
  BY DEF Setting!Type

LEMMA SettingsOver ==
  ASSUME NEW f, NEW g
  PROVE  /\ DOMAIN Setting!Over(f, g) = DOMAIN f \union DOMAIN g
         /\ \A k \in DOMAIN f : Setting!Over(f, g)[k] = f[k]
         /\ \A k \in DOMAIN g \ DOMAIN f : Setting!Over(f, g)[k] = g[k]
  BY DEF Setting!Over

LEMMA SettingsOverEnv ==
  ASSUME NEW f, NEW g, IsEnv(f), IsEnv(g)
  PROVE  IsEnv(Setting!Over(f, g))
  <1>1. DOMAIN Setting!Over(f, g) \subseteq Setting!Keys
    BY SettingsOver DEF IsEnv
  <1>2. ASSUME NEW k \in DOMAIN Setting!Over(f, g)
        PROVE  Setting!Over(f, g)[k] \in Setting!Type[k]
    <2>1. k \in DOMAIN f \/ k \in DOMAIN g \ DOMAIN f
      BY <1>2, SettingsOver
    <2>2. CASE k \in DOMAIN f
      <3>1. Setting!Over(f, g)[k] = f[k]
        BY <2>2, SettingsOver
      <3>2. f[k] \in Setting!Type[k]
        BY <2>2 DEF IsEnv
      <3> QED BY <3>1, <3>2
    <2>3. CASE k \in DOMAIN g \ DOMAIN f
      <3>1. Setting!Over(f, g)[k] = g[k]
        BY <2>3 DEF Setting!Over
      <3>2. g[k] \in Setting!Type[k]
        BY <2>3 DEF IsEnv
      <3> QED BY <3>1, <3>2
    <2> QED BY <2>1, <2>2, <2>3
  <1> QED BY <1>1, <1>2 DEF IsEnv

\* What a profile overrides, read off its definition.
LEMMA ProfileOverrides ==
  ASSUME NEW name, Setting!Overrides(name) # None
  PROVE  Setting!Overrides(name) \in
           {Setting!Local, Setting!Development, Setting!Staging, Setting!Production}
  <1>1. CASE name = "local"
    BY <1>1 DEF Setting!Overrides
  <1>2. CASE name \in {"development", "dev"}
    BY <1>2 DEF Setting!Overrides
  <1>3. CASE name = "staging"
    BY <1>3 DEF Setting!Overrides
  <1>4. CASE name \in {"production", "prod"}
    BY <1>4 DEF Setting!Overrides
  <1>5. CASE name \notin {"local", "development", "dev", "staging", "production", "prod"}
    BY <1>5 DEF Setting!Overrides
  <1> QED BY <1>1, <1>2, <1>3, <1>4, <1>5

LEMMA DefaultsEnv == IsEnv(Setting!Defaults)
  <1>1. DOMAIN Setting!Defaults =
          {"environment", "debug", "workers", "host", "redis", "features", "cache", "text",
           "model", "allowed"}
    BY DEF Setting!Defaults
  <1>2. /\ Setting!Defaults["environment"] \in Texts
        /\ Setting!Defaults["debug"] \in BOOLEAN
        /\ Setting!Defaults["workers"] \in Int
        /\ Setting!Defaults["host"] \in Texts
        /\ Setting!Defaults["redis"] \in BOOLEAN
        /\ Setting!Defaults["features"] \in BOOLEAN
        /\ Setting!Defaults["cache"] \in Int
        /\ Setting!Defaults["text"] \in Int
        /\ Setting!Defaults["model"] \in Texts /\ Setting!Defaults["allowed"] \in SUBSET Texts
    BY SettingsTexts DEF Setting!Defaults
  <1> QED BY <1>1, <1>2, SettingsKeys, SettingsTypes DEF IsEnv, KeyNames

LEMMA ProfileEnv ==
  ASSUME NEW name, Setting!Overrides(name) # None
  PROVE  IsEnv(Setting!Overrides(name))
  <1>1. IsEnv(Setting!Development)
    <2>1. DOMAIN Setting!Development = {"environment", "debug", "workers", "redis", "cache", "text"}
      BY DEF Setting!Development
    <2>2. /\ Setting!Development["environment"] \in Texts
          /\ Setting!Development["debug"] \in BOOLEAN
          /\ Setting!Development["workers"] \in Int
          /\ Setting!Development["redis"] \in BOOLEAN
          /\ Setting!Development["cache"] \in Int
          /\ Setting!Development["text"] \in Int
      BY SettingsTexts DEF Setting!Development
    <2> QED BY <2>1, <2>2, SettingsKeys, SettingsTypes DEF IsEnv, KeyNames
  <1>2. IsEnv(Setting!Staging)
    <2>1. DOMAIN Setting!Staging = {"environment", "debug", "workers", "redis", "cache", "text"}
      BY DEF Setting!Staging
    <2>2. /\ Setting!Staging["environment"] \in Texts
          /\ Setting!Staging["debug"] \in BOOLEAN
          /\ Setting!Staging["workers"] \in Int
          /\ Setting!Staging["redis"] \in BOOLEAN
          /\ Setting!Staging["cache"] \in Int
          /\ Setting!Staging["text"] \in Int
      BY SettingsTexts DEF Setting!Staging
    <2> QED BY <2>1, <2>2, SettingsKeys, SettingsTypes DEF IsEnv, KeyNames
  <1>3. IsEnv(Setting!Production)
    <2>1. DOMAIN Setting!Production = {"environment", "debug", "workers", "redis", "cache", "text", "features"}
      BY DEF Setting!Production
    <2>2. /\ Setting!Production["environment"] \in Texts
          /\ Setting!Production["debug"] \in BOOLEAN
          /\ Setting!Production["workers"] \in Int
          /\ Setting!Production["redis"] \in BOOLEAN
          /\ Setting!Production["cache"] \in Int
          /\ Setting!Production["text"] \in Int
          /\ Setting!Production["features"] \in BOOLEAN
      BY SettingsTexts DEF Setting!Production
    <2> QED BY <2>1, <2>2, SettingsKeys, SettingsTypes DEF IsEnv, KeyNames
  <1>4. IsEnv([environment |-> "local", host |-> "127.0.0.1"])
    <2> DEFINE l == [environment |-> "local", host |-> "127.0.0.1"]
    <2>1. DOMAIN l = {"environment", "host"} /\ l["environment"] \in Texts /\ l["host"] \in Texts
      BY SettingsTexts
    <2>2. IsEnv(l)
      <3> HIDE DEF l
      <3> QED BY <2>1, SettingsKeys, SettingsTypes DEF IsEnv, KeyNames
    <2> QED BY <2>2
  <1>5. IsEnv(Setting!Local)
    BY <1>1, <1>4, SettingsOverEnv DEF Setting!Local
  <1> QED BY <1>1, <1>2, <1>3, <1>5, ProfileOverrides

\* Reading an environment gives settings, which hold what is in the environment.
LEMMA SettingsRead ==
  ASSUME NEW e, DOMAIN e \subseteq Setting!Keys, dotenv \in Dotenvs /\ lower \in Environments
  PROVE  /\ DOMAIN Setting!Read(e) = Setting!Keys
         /\ \A k \in DOMAIN e : Setting!Read(e)[k] = e[k]
         /\ IsEnv(e) => Setting!Read(e) \in Setting!Objects
  <1>1. /\ IsEnv(dotenv) /\ IsEnv(lower) /\ IsEnv(Setting!Defaults)
        /\ DOMAIN Setting!Defaults = Setting!Keys
    BY SettingsConstants, DefaultsEnv DEF Setting!Keys
  <1>2. IsEnv(Setting!Beneath) /\ DOMAIN Setting!Beneath = Setting!Keys
    <2> DEFINE file == Setting!Over(dotenv, Setting!Defaults)
    <2>1. IsEnv(file) /\ DOMAIN file = Setting!Keys
      BY <1>1, SettingsOver, SettingsOverEnv DEF IsEnv
    <2>2. Setting!Beneath = Setting!Over(lower, file)
      BY DEF Setting!Beneath
    <2> HIDE DEF file
    <2> QED BY <1>1, <2>1, <2>2, SettingsOver, SettingsOverEnv DEF IsEnv
  <1>3. DOMAIN Setting!Read(e) = Setting!Keys /\ \A k \in DOMAIN e : Setting!Read(e)[k] = e[k]
    BY <1>2, SettingsOver DEF Setting!Read
  <1>4. IsEnv(e) => IsEnv(Setting!Read(e))
    BY <1>2, SettingsOverEnv DEF Setting!Read
  <1>5. Setting!Read(e) = [k \in Setting!Keys |-> Setting!Read(e)[k]]
    <2> DEFINE g == Setting!Beneath
    <2>1. Setting!Read(e) = [k \in DOMAIN e \union DOMAIN g |-> IF k \in DOMAIN e THEN e[k] ELSE g[k]]
      BY DEF Setting!Read, Setting!Over
    <2>2. DOMAIN e \union DOMAIN g = Setting!Keys
      BY <1>2
    <2> HIDE DEF g
    <2> QED BY <2>1, <2>2
  <1>6. IsEnv(Setting!Read(e)) => Setting!Read(e) \in Setting!Objects
    <2> HAVE IsEnv(Setting!Read(e))
    <2>1. \A k \in Setting!Keys : Setting!Read(e)[k] \in UNION {Setting!Type[j] : j \in Setting!Keys}
      BY <1>3 DEF IsEnv
    <2> HIDE DEF Setting!Read
    <2> QED BY <1>5, <2>1 DEF Setting!Objects
  <1> QED BY <1>3, <1>4, <1>6

\* After a profile the environment keeps what it held, and has what the profile says.
LEMMA ProfileApplied ==
  ASSUME NEW e, NEW name, DOMAIN e \subseteq Setting!Keys
  PROVE  /\ DOMAIN Setting!After(e, name) \subseteq Setting!Keys
         /\ DOMAIN e \subseteq DOMAIN Setting!After(e, name)
         /\ \A k \in DOMAIN e : Setting!After(e, name)[k] = e[k]
         /\ Setting!Overrides(name) # None =>
              /\ DOMAIN Setting!After(e, name) = DOMAIN e \union DOMAIN Setting!Overrides(name)
              /\ \A k \in DOMAIN Setting!Overrides(name) \ DOMAIN e :
                   Setting!After(e, name)[k] = Setting!Overrides(name)[k]
         /\ IsEnv(e) => IsEnv(Setting!After(e, name))
  <1>1. CASE Setting!Overrides(name) = None
    BY <1>1 DEF Setting!After
  <1>2. CASE Setting!Overrides(name) # None
    <2>1. Setting!After(e, name) = Setting!Over(e, Setting!Overrides(name))
      BY <1>2 DEF Setting!After, Setting!Applied
    <2>2. IsEnv(Setting!Overrides(name))
      BY <1>2, ProfileEnv
    <2>3. DOMAIN Setting!Overrides(name) \subseteq Setting!Keys
      BY <2>2 DEF IsEnv
    <2> DEFINE o == Setting!Overrides(name)
    <2>4. /\ DOMAIN Setting!Over(e, o) = DOMAIN e \union DOMAIN o
          /\ \A k \in DOMAIN e : Setting!Over(e, o)[k] = e[k]
          /\ \A k \in DOMAIN o \ DOMAIN e : Setting!Over(e, o)[k] = o[k]
      BY SettingsOver
    <2>5. IsEnv(e) => IsEnv(Setting!Over(e, o))
      BY <2>2, SettingsOverEnv
    <2> HIDE DEF o
    <2>6. DOMAIN o \subseteq Setting!Keys
      BY <2>3 DEF o
    <2>7. Setting!After(e, name) = Setting!Over(e, o)
      BY <2>1 DEF o
    <2> QED BY <2>4, <2>5, <2>6, <2>7 DEF o
  <1> QED BY <1>1, <1>2

\* To apply a profile again changes nothing.
LEMMA ProfileTwice ==
  ASSUME NEW e, NEW name
  PROVE  Setting!After(Setting!After(e, name), name) = Setting!After(e, name)
  <1>1. CASE Setting!Overrides(name) = None
    BY <1>1 DEF Setting!After
  <1>2. CASE Setting!Overrides(name) # None
    <2> DEFINE o == Setting!Overrides(name)
               f == Setting!Over(e, o)
    <2>1. /\ Setting!After(e, name) = f
          /\ Setting!After(f, name) = Setting!Over(f, o)
      BY <1>2 DEF Setting!After, Setting!Applied
    <2>2. f = [k \in DOMAIN e \union DOMAIN o |-> IF k \in DOMAIN e THEN e[k] ELSE o[k]]
      BY DEF Setting!Over
    <2>3. Setting!Over(f, o) = [k \in DOMAIN f \union DOMAIN o |-> IF k \in DOMAIN f THEN f[k] ELSE o[k]]
      BY DEF Setting!Over
    <2>4. DOMAIN f = DOMAIN e \union DOMAIN o
      BY <2>2
    <2>5. DOMAIN f \union DOMAIN o = DOMAIN f
      BY <2>4
    <2>6. Setting!Over(f, o) = f
      <3> HIDE DEF o, f
      <3>1. f = [k \in DOMAIN f |-> f[k]]
        BY <2>2
      <3> QED BY <2>3, <2>5, <3>1
    <2> QED BY <2>1, <2>6
  <1> QED BY <1>1, <1>2

\* Settings that are made have all keys and hold what was in the environment.
LEMMA SettingsMade ==
  ASSUME NEW e, DOMAIN e \subseteq Setting!Keys, dotenv \in Dotenvs /\ lower \in Environments, Keeps(e),
         NEW s, s = Setting!MadeOf(e), s # Refused
  PROVE  /\ DOMAIN s = Setting!Keys /\ Keeps(s)
         /\ IsEnv(e) => s # None
  <1>1. s = Setting!Read(e)
    BY DEF Setting!MadeOf
  <1> QED BY <1>1, SettingsRead, SettingsConstants DEF Keeps

LEMMA SettingsGiven ==
  ASSUME NEW e, NEW name, DOMAIN e \subseteq Setting!Keys,
         dotenv \in Dotenvs, lower \in Environments, Keeps(e),
         NEW s, s = Setting!Given(e, name), s # Refused
  PROVE  /\ DOMAIN s = Setting!Keys /\ Keeps(s) /\ Setting!Overrides(name) # None
         /\ IsEnv(e) => s # None
  <1>1. Setting!Overrides(name) # None /\ s = Setting!MadeOf(Setting!After(e, name))
    BY DEF Setting!Given
  <1>2. Keeps(Setting!After(e, name))
    BY ProfileApplied DEF Keeps
  <1> QED BY <1>1, <1>2, ProfileApplied, SettingsMade

\* A profile over the defaults alone is valid.
LEMMA ProfileValid ==
  ASSUME NEW s, NEW o \in {Setting!Local, Setting!Development, Setting!Staging, Setting!Production},
         \A k \in KeyNames : s[k] = IF k \in DOMAIN o THEN o[k] ELSE Setting!Defaults[k]
  PROVE  Setting!Valid(s)
  <1> DEFINE d == Setting!Defaults
  <1>1. /\ d["text"] = 512 /\ d["model"] = "distilbert" /\ d["allowed"] = {"distilbert", "roberta"}
    BY DEF Setting!Defaults
  <1>2. /\ {"workers", "cache", "text", "debug"} \subseteq DOMAIN o
        /\ "model" \notin DOMAIN o /\ "allowed" \notin DOMAIN o
        /\ o["text"] = 512
        /\ o["workers"] \in {1, 2, 4} /\ o["cache"] \in {100, 1000, 10000}
        /\ o["workers"] > 1 => ~o["debug"]
    <2>1. CASE o = Setting!Development
      BY <2>1 DEF Setting!Development
    <2>2. CASE o = Setting!Local
      <3>1. /\ DOMAIN o = {"environment", "host"} \union DOMAIN Setting!Development
            /\ \A k \in {"workers", "cache", "text", "debug"} : o[k] = Setting!Development[k]
        <4> DEFINE f == [environment |-> "local", host |-> "127.0.0.1"]
                   g == Setting!Development
        <4>1. o = [k \in DOMAIN f \union DOMAIN g |-> IF k \in DOMAIN f THEN f[k] ELSE g[k]]
          BY <2>2 DEF Setting!Local, Setting!Over
        <4>2. DOMAIN f = {"environment", "host"}
          OBVIOUS
        <4>3. {"workers", "cache", "text", "debug"} \subseteq DOMAIN g
          BY DEF Setting!Development
        <4> HIDE DEF f, g
        <4> QED BY <4>1, <4>2, <4>3 DEF g
      <3> QED BY <3>1 DEF Setting!Development
    <2>3. CASE o = Setting!Staging
      BY <2>3 DEF Setting!Staging
    <2>4. CASE o = Setting!Production
      BY <2>4 DEF Setting!Production
    <2> QED BY <2>1, <2>2, <2>3, <2>4
  <1>3. /\ s["workers"] = o["workers"] /\ s["cache"] = o["cache"] /\ s["text"] = 512
        /\ s["model"] = "distilbert" /\ s["allowed"] = {"distilbert", "roberta"}
        /\ s["debug"] = o["debug"]
    BY <1>1, <1>2 DEF KeyNames
  <1>4. ~(s["debug"] /\ s["workers"] > 1)
    BY <1>2, <1>3
  <1>5. s["model"] \in s["allowed"]
    BY <1>3
  <1>6. /\ 1 <= s["workers"] /\ s["workers"] <= 16 /\ 10 <= s["cache"] /\ s["cache"] <= 100000
        /\ 1 <= s["text"] /\ s["text"] <= 10000 /\ s["cache"] * s["text"] <= 1000 * 100000
    BY <1>2, <1>3
  <1> QED BY <1>4, <1>5, <1>6 DEF Setting!Valid

LEMMA DefaultsValid ==
  ASSUME NEW s, \A k \in KeyNames : s[k] = Setting!Defaults[k]
  PROVE  Setting!Valid(s)
  <1>1. /\ s["workers"] = 1 /\ s["cache"] = 1000 /\ s["text"] = 512
        /\ s["model"] = "distilbert" /\ s["allowed"] = {"distilbert", "roberta"}
    BY DEF Setting!Defaults, KeyNames
  <1>2. s["model"] \in s["allowed"]
    BY <1>1
  <1>3. /\ 1 <= s["workers"] /\ s["workers"] <= 16 /\ 10 <= s["cache"] /\ s["cache"] <= 100000
        /\ 1 <= s["text"] /\ s["text"] <= 10000 /\ s["cache"] * s["text"] <= 1000 * 100000
        /\ ~(s["workers"] > 1)
    BY <1>1
  <1> QED BY <1>2, <1>3 DEF Setting!Valid

\* A refusal at import has a cause outside of the profiles.
LEMMA RefusalHasACause ==
  ASSUME DOMAIN given = {}, DOMAIN lower = {}, DOMAIN dotenv = {},
         Setting!Imported(given) = Refused,
         given \in Environments, dotenv \in Dotenvs /\ lower \in Environments
  PROVE  Setting!Overrides(profile) = None
  <1> SUFFICES ASSUME Setting!Overrides(profile) # None PROVE FALSE
    OBVIOUS
  <1> DEFINE g == Setting!Beneath
  <1>1. DOMAIN g = KeyNames /\ \A k \in KeyNames : g[k] = Setting!Defaults[k]
    <2>1. DOMAIN Setting!Defaults = KeyNames
      BY SettingsKeys DEF Setting!Keys
    <2> QED BY <2>1 DEF Setting!Beneath, Setting!Over
  <1>3. CASE profile = None
    <2>1. Setting!MadeOf(given) = Refused
      BY <1>3 DEF Setting!Imported
    <2>2. \A k \in KeyNames : Setting!Read(given)[k] = Setting!Defaults[k]
      BY <1>1 DEF Setting!Read, Setting!Over
    <2>3. Setting!Valid(Setting!Read(given))
      BY <2>2, DefaultsValid
    <2>4. Setting!Read(given) \in Setting!Objects
      BY SettingsRead, SettingsConstants DEF IsEnv
    <2> QED BY <2>1, <2>3, <2>4, SettingsConstants DEF Setting!MadeOf
  <1>4. CASE profile # None
    <2> DEFINE o == Setting!Overrides(profile)
               a == Setting!Over(given, o)
    <2>1. Setting!MadeOf(a) = Refused
      BY <1>4 DEF Setting!Imported, Setting!Given, Setting!After, Setting!Applied
    <2>2. DOMAIN a = DOMAIN o /\ \A k \in DOMAIN o : a[k] = o[k]
      BY DEF Setting!Over
    <2>3. o \in {Setting!Local, Setting!Development, Setting!Staging, Setting!Production}
      BY ProfileOverrides
    <2>4. IsEnv(o)
      BY ProfileEnv
    <2>5. IsEnv(a)
      BY <2>4, SettingsOverEnv, SettingsConstants
    <2> HIDE DEF o, a
    <2>6. \A k \in KeyNames : Setting!Read(a)[k] = IF k \in DOMAIN o THEN o[k] ELSE Setting!Defaults[k]
      <3>1. Setting!Read(a) = [k \in DOMAIN a \union DOMAIN g |-> IF k \in DOMAIN a THEN a[k] ELSE g[k]]
        BY DEF Setting!Read, Setting!Over
      <3> HIDE DEF g
      <3> QED BY <1>1, <2>2, <3>1
    <2>7. Setting!Valid(Setting!Read(a))
      BY <2>3, <2>6, ProfileValid
    <2>8. Setting!Read(a) \in Setting!Objects
      BY <2>5, SettingsRead DEF IsEnv
    <2> QED BY <2>1, <2>7, <2>8, SettingsConstants DEF Setting!MadeOf
  <1> QED BY <1>3, <1>4

LEMMA SettingsInit == Setting!Init => SettingsInv
  <1> SUFFICES ASSUME Setting!Init PROVE SettingsInv
    OBVIOUS
  <1>1. /\ given \in Environments /\ environ = given /\ dotenv \in Dotenvs /\ lower \in Environments
        /\ profile \in Names \union {None} /\ boot = "importing" /\ settings = None
        /\ imported = None /\ instance = None /\ worker = None /\ order = <<>>
    BY DEF Setting!Init
  <1>2. Len(order) = 0 /\ DOMAIN order = {} /\ order \in Seq(ProfileNames)
    BY <1>1
  <1>3. DOMAIN environ \subseteq Setting!Keys
    BY <1>1, SettingsConstants DEF IsEnv
  <1>4. Setting!Made = {}
    BY <1>1 DEF Setting!Made
  <1>5. Setting!TypeOK
    <2>1. Len(order) <= MaxLoads + 1
      BY <1>2, SettingsConstants
    <2> QED BY <1>1, <1>2, <1>3, <1>4, <2>1 DEF Setting!TypeOK
  <1> QED BY <1>1, <1>2, <1>5
          DEF SettingsInv, Keeps, Setting!FirstProfileDecides, Setting!WorkersAgree

\* What is made at import depends on what no step changes.
LEMMA SettingsSame ==
  ASSUME UNCHANGED <<lower, dotenv, profile, given>>
  PROVE  /\ Setting!Imported(given)' = Setting!Imported(given)
         /\ Setting!EnvOfImport(given)' = Setting!EnvOfImport(given)
  BY DEF Setting!Imported, Setting!EnvOfImport, Setting!Given, Setting!MadeOf, Setting!Read,
         Setting!Beneath,
         Setting!After

\* What the invariant says of an object that was made.
LEMMA SettingsObjects ==
  ASSUME SettingsInv
  PROVE  /\ DOMAIN environ \subseteq Setting!Keys /\ Keeps(environ)
         /\ dotenv \in Dotenvs /\ lower \in Environments
         /\ given \in Environments /\ IsEnv(given) /\ profile \in Names \union {None}
         /\ order \in Seq(ProfileNames) /\ Len(order) \in Nat /\ DOMAIN order = 1 .. Len(order)
         /\ boot = "running" => imported # None
  <1>1. order \in Seq(ProfileNames) => Len(order) \in Nat /\ DOMAIN order = 1 .. Len(order)
    OBVIOUS
  <1> QED BY <1>1, SettingsConstants DEF SettingsInv, Setting!TypeOK

\* A profile that is known adds its name, and the variables that nobody had set.
LEMMA ProfileRecorded ==
  ASSUME SettingsInv, NEW name \in ProfileNames,
         environ' = Setting!After(environ, name), order' = Setting!Recorded(name),
         given' = given
  PROVE  /\ DOMAIN environ' \subseteq Setting!Keys /\ Keeps(environ)'
         /\ order' \in Seq(ProfileNames)
         /\ \A j \in DOMAIN order' : DOMAIN Setting!Overrides(order'[j]) \subseteq DOMAIN environ'
         /\ Setting!FirstProfileDecides'
         /\ IF Setting!Overrides(name) = None THEN environ' = environ /\ order' = order
            ELSE Len(order') = Len(order) + 1
  <1>1. /\ DOMAIN environ \subseteq Setting!Keys /\ Keeps(environ) /\ order \in Seq(ProfileNames)
        /\ Len(order) \in Nat /\ DOMAIN order = 1 .. Len(order)
    BY SettingsObjects
  <1>2. /\ DOMAIN environ' \subseteq Setting!Keys /\ DOMAIN environ \subseteq DOMAIN environ'
        /\ \A k \in DOMAIN environ : environ'[k] = environ[k]
    BY <1>1, ProfileApplied
  <1>3. Keeps(environ)'
    BY <1>1, <1>2 DEF Keeps
  <1>4. /\ \A j \in DOMAIN order : DOMAIN Setting!Overrides(order[j]) \subseteq DOMAIN environ
        /\ Setting!FirstProfileDecides
    BY DEF SettingsInv
  <1>5. CASE Setting!Overrides(name) = None
    <2>1. environ' = environ /\ order' = order
      BY <1>5 DEF Setting!After, Setting!Recorded
    <2>2. Setting!FirstProfileDecides'
      BY <1>4, <2>1 DEF Setting!FirstProfileDecides, Setting!Overrides
    <2> QED BY <1>1, <1>2, <1>3, <1>4, <1>5, <2>1, <2>2
  <1>6. CASE Setting!Overrides(name) # None
    <2> DEFINE n == Len(order)
               o == Setting!Overrides(name)
    <2>1. order' = Append(order, name)
      BY <1>6 DEF Setting!Recorded
    <2>2. /\ order' \in Seq(ProfileNames) /\ Len(order') = n + 1
          /\ DOMAIN order' = 1 .. n + 1 /\ order'[n + 1] = name
          /\ \A j \in 1 .. n : order'[j] = order[j]
      BY <1>1, <2>1
    <2>3. /\ DOMAIN environ' = DOMAIN environ \union DOMAIN o
          /\ \A k \in DOMAIN o \ DOMAIN environ : environ'[k] = o[k]
      <3>1. environ' = Setting!Over(environ, o)
        BY <1>6 DEF Setting!After, Setting!Applied
      <3> HIDE DEF o
      <3> QED BY <3>1 DEF Setting!Over
    <2>4. ASSUME NEW j \in 1 .. n + 1
          PROVE  DOMAIN Setting!Overrides(order'[j]) \subseteq DOMAIN environ'
      <3>1. CASE j = n + 1
        BY <2>2, <2>3, <3>1
      <3>2. CASE j # n + 1
        <4>1. j \in 1 .. n
          BY <1>1, <3>2
        <4> QED BY <1>1, <1>2, <1>4, <2>2, <4>1
      <3> QED BY <3>1, <3>2
    <2>5. ASSUME NEW k \in DOMAIN environ' \ DOMAIN given
          PROVE  \E i \in DOMAIN order' :
                   /\ k \in DOMAIN Setting!Overrides(order'[i])
                   /\ environ'[k] = Setting!Overrides(order'[i])[k]
                   /\ \A j \in 1 .. i - 1 : k \notin DOMAIN Setting!Overrides(order'[j])
      <3>1. CASE k \in DOMAIN environ
        <4>1. PICK i \in DOMAIN order :
                /\ k \in DOMAIN Setting!Overrides(order[i])
                /\ environ[k] = Setting!Overrides(order[i])[k]
                /\ \A j \in 1 .. i - 1 : k \notin DOMAIN Setting!Overrides(order[j])
          BY <1>4, <3>1 DEF Setting!FirstProfileDecides
        <4>2. i \in 1 .. n /\ i \in 1 .. n + 1 /\ \A j \in 1 .. i - 1 : j \in 1 .. n
          BY <1>1
        <4>3. \A j \in 1 .. i - 1 : order'[j] = order[j]
          BY <2>2, <4>2
        <4> HIDE DEF n, o
        <4> QED BY <1>2, <2>2, <3>1, <4>1, <4>2, <4>3
      <3>2. CASE k \notin DOMAIN environ
        <4>1. k \in DOMAIN o /\ environ'[k] = o[k]
          BY <2>3, <3>2
        <4>2. \A j \in 1 .. n : k \notin DOMAIN Setting!Overrides(order'[j])
          BY <1>1, <1>4, <2>2, <3>2
        <4>3. n + 1 \in DOMAIN order' /\ 1 .. (n + 1) - 1 = 1 .. n
          BY <1>1, <2>2
        <4> HIDE DEF n
        <4> QED BY <2>2, <4>1, <4>2, <4>3
      <3> QED BY <3>1, <3>2
    <2>6. Setting!FirstProfileDecides'
      <3> USE <1>1
      <3>1. \A x : Setting!Overrides(x)' = Setting!Overrides(x)
        BY DEF Setting!Overrides
      <3> HIDE DEF n, o
      <3> QED BY <2>5 DEF Setting!FirstProfileDecides, Setting!Overrides
    <2> QED BY <1>2, <1>3, <1>6, <2>2, <2>4, <2>6
  <1> QED BY <1>5, <1>6

LEMMA SettingsImport ==
  ASSUME SettingsInv, Setting!Import
  PROVE  SettingsInv'
  <1> DEFINE s == Setting!Imported(environ)
  <1>1. /\ boot = "importing" /\ environ' = Setting!EnvOfImport(environ)
        /\ order' = IF profile = None THEN order ELSE Setting!Recorded(profile)
        /\ IF s = Refused THEN boot' = "refused" /\ UNCHANGED <<settings, imported>>
           ELSE boot' = "running" /\ settings' = s /\ imported' = s
        /\ UNCHANGED <<lower, dotenv, profile, instance, worker, given>>
    BY DEF Setting!Import
  <1>2. /\ environ = given /\ order = <<>> /\ settings = None /\ imported = None
        /\ instance = None /\ worker = None /\ s = Setting!Imported(given)
    BY <1>1 DEF SettingsInv
  <1>3. /\ DOMAIN environ \subseteq Setting!Keys /\ Keeps(environ)
        /\ dotenv \in Dotenvs /\ lower \in Environments
        /\ given \in Environments /\ IsEnv(environ) /\ profile \in Names \union {None}
    BY <1>2, SettingsObjects
  <1>4. /\ Setting!Imported(given)' = s /\ Setting!EnvOfImport(given)' = environ'
    BY <1>1, <1>2, SettingsSame
  <1>5. /\ DOMAIN environ' \subseteq Setting!Keys /\ Keeps(environ)'
        /\ order' \in Seq(ProfileNames) /\ Len(order') <= 1
        /\ \A j \in DOMAIN order' : DOMAIN Setting!Overrides(order'[j]) \subseteq DOMAIN environ'
        /\ Setting!FirstProfileDecides'
        /\ s # Refused => Len(order') = ProfilesOfImport
    <2>1. CASE profile = None
      <3>1. environ' = environ /\ order' = <<>>
        BY <1>1, <1>2, <2>1 DEF Setting!EnvOfImport
      <3>2. Keeps(environ)' /\ DOMAIN environ' \subseteq Setting!Keys
        BY <1>1, <1>3, <3>1 DEF Keeps
      <3>3. Setting!FirstProfileDecides'
        BY <1>1, <1>2, <3>1 DEF Setting!FirstProfileDecides
      <3> QED BY <2>1, <3>1, <3>2, <3>3 DEF ProfilesOfImport
    <2>2. CASE profile # None
      <3>1. /\ profile \in ProfileNames /\ environ' = Setting!After(environ, profile)
            /\ order' = Setting!Recorded(profile)
        BY <1>1, <1>3, <2>2 DEF Setting!EnvOfImport, ProfileNames
      <3>2. s # Refused => Setting!Overrides(profile) # None
        BY <2>2 DEF Setting!Imported, Setting!Given
      <3>3. Len(order) = 0
        BY <1>2
      <3>4. given' = given
        BY <1>1
      <3>5. /\ DOMAIN environ' \subseteq Setting!Keys /\ Keeps(environ)'
            /\ order' \in Seq(ProfileNames)
            /\ \A j \in DOMAIN order' : DOMAIN Setting!Overrides(order'[j]) \subseteq DOMAIN environ'
            /\ Setting!FirstProfileDecides'
            /\ IF Setting!Overrides(profile) = None THEN environ' = environ /\ order' = order
               ELSE Len(order') = Len(order) + 1
        BY <3>1, <3>4, ProfileRecorded
      <3>6. ProfilesOfImport = 1
        BY <2>2 DEF ProfilesOfImport
      <3>7. Len(order') <= 1 /\ (s # Refused => Len(order') = 1)
        BY <3>2, <3>3, <3>5
      <3>8. s # Refused => Len(order') = ProfilesOfImport
        BY <3>6, <3>7
      <3> HIDE DEF s
      <3> QED BY <3>5, <3>7, <3>8
    <2> QED BY <2>1, <2>2
  <1>6. s # Refused => DOMAIN s = Setting!Keys /\ Keeps(s) /\ s # None
    <2> HAVE s # Refused
    <2>1. CASE profile = None
      <3>1. s = Setting!MadeOf(environ)
        BY <2>1 DEF Setting!Imported
      <3> HIDE DEF s
      <3> QED BY <1>3, <3>1, SettingsMade
    <2>2. CASE profile # None
      <3>1. s = Setting!Given(environ, profile)
        BY <2>2 DEF Setting!Imported
      <3> HIDE DEF s
      <3> QED BY <1>3, <3>1, SettingsGiven
    <2> QED BY <2>1, <2>2
  <1> HIDE DEF s
  <1>7. Setting!TypeOK'
    <2>1. \A x \in Setting!Made' : Setting!IsSettings(x)
      BY <1>1, <1>2, <1>6, SettingsConstants DEF Setting!Made, Setting!IsSettings
    <2>2. Len(order') <= MaxLoads + 1
      BY <1>5, SettingsConstants
    <2>3. \A i \in DOMAIN order' : order'[i] \in Names \union {"development"}
      BY <1>5 DEF ProfileNames
    <2>4. /\ boot' \in {"importing", "running", "refused"}
          /\ boot' = "running" <=> imported' # None
      BY <1>1, <1>2, <1>6
    <2> QED BY <1>1, <1>3, <1>5, <2>1, <2>2, <2>3, <2>4 DEF Setting!TypeOK, Setting!IsSettings
  <1>8. \A x \in {imported', instance', worker'} :
          x \notin {None, Refused} => DOMAIN x = Setting!Keys /\ Keeps(x)'
    BY <1>1, <1>2, <1>6 DEF Keeps
  <1>9. Setting!WorkersAgree'
    BY <1>1, <1>2 DEF Setting!WorkersAgree
  <1>10. ProfilesOfImport' = ProfilesOfImport /\ ProfilesOfImport \in Nat
    BY <1>1 DEF ProfilesOfImport
  <1>11. boot' = "running" =>
           /\ imported' = s /\ DOMAIN settings' = Setting!Keys
           /\ Len(order') = ProfilesOfImport
    BY <1>1, <1>5, <1>6
  <1>12. boot' # "running" => settings' = None /\ imported' = None /\ s = Refused
    BY <1>1, <1>2
  <1> QED BY <1>1, <1>2, <1>4, <1>5, <1>7, <1>8, <1>9, <1>10, <1>11, <1>12 DEF SettingsInv

LEMMA SettingsLoad ==
  ASSUME SettingsInv, NEW asked \in Names \union {None}, Setting!Load(asked)
  PROVE  SettingsInv'
  <1> DEFINE name == IF asked # None THEN asked
                     ELSE IF profile # None THEN profile ELSE "development"
  <1>1. /\ boot = "running" /\ Len(order) <= MaxLoads - (IF profile = None THEN 1 ELSE 0)
        /\ environ' = Setting!After(environ, name) /\ instance' = Setting!Given(environ, name)
        /\ order' = Setting!Recorded(name)
        /\ UNCHANGED <<lower, dotenv, profile, boot, settings, worker, given, imported>>
    BY DEF Setting!Load
  <1>2. /\ DOMAIN environ \subseteq Setting!Keys /\ Keeps(environ)
        /\ dotenv \in Dotenvs /\ lower \in Environments
        /\ profile \in Names \union {None} /\ Len(order) \in Nat
    BY SettingsObjects
  <1>3. name \in ProfileNames
    BY <1>2 DEF ProfileNames
  <1> HIDE DEF name
  <1>4. /\ DOMAIN environ' \subseteq Setting!Keys /\ Keeps(environ)'
        /\ order' \in Seq(ProfileNames)
        /\ \A j \in DOMAIN order' : DOMAIN Setting!Overrides(order'[j]) \subseteq DOMAIN environ'
        /\ Setting!FirstProfileDecides'
        /\ IF Setting!Overrides(name) = None THEN environ' = environ /\ order' = order
           ELSE Len(order') = Len(order) + 1
    BY <1>1, <1>3, ProfileRecorded
  <1>5. ProfilesOfImport' = ProfilesOfImport /\ ProfilesOfImport \in Nat /\ ProfilesOfImport >= 0
    BY <1>1 DEF ProfilesOfImport
  <1>6. instance' # Refused => DOMAIN instance' = Setting!Keys /\ Keeps(instance)'
    <2> HAVE instance' # Refused
    <2>1. DOMAIN instance' = Setting!Keys /\ Keeps(instance')
      BY <1>1, <1>2, SettingsGiven
    <2> QED BY <1>1, <2>1 DEF Keeps
  <1>7. Setting!TypeOK'
    <2>1. \A x \in Setting!Made' : Setting!IsSettings(x)
      <3>1. \A x \in Setting!Made : Setting!IsSettings(x)
        BY DEF SettingsInv, Setting!TypeOK
      <3>2. \A x \in Setting!Made' : x \in Setting!Made \/ (x = instance' /\ x # Refused)
        BY <1>1 DEF Setting!Made
      <3> QED BY <1>6, <3>1, <3>2 DEF Setting!IsSettings
    <2>2. Len(order') <= MaxLoads + 1
      BY <1>1, <1>2, <1>4, <1>5, SettingsConstants DEF SettingsInv, Setting!TypeOK
    <2>3. \A i \in DOMAIN order' : order'[i] \in Names \union {"development"}
      BY <1>4 DEF ProfileNames
    <2> QED BY <1>1, <1>4, <2>1, <2>2, <2>3
            DEF SettingsInv, Setting!TypeOK, Setting!IsSettings
  <1>8. \A x \in {imported', instance', worker'} :
          x \notin {None, Refused} => DOMAIN x = Setting!Keys /\ Keeps(x)'
    <2>1. \A x \in {imported, worker} :
            x \notin {None, Refused} => DOMAIN x = Setting!Keys /\ Keeps(x)
      BY DEF SettingsInv
    <2> QED BY <1>1, <1>6, <2>1 DEF Keeps
  <1>9. /\ Setting!Imported(given)' = Setting!Imported(given)
        /\ Setting!EnvOfImport(given)' = Setting!EnvOfImport(given)
    BY <1>1, SettingsSame
  <1>10. /\ imported = Setting!Imported(given) /\ DOMAIN settings = Setting!Keys
         /\ Len(order) >= ProfilesOfImport
         /\ Len(order) = ProfilesOfImport => environ = Setting!EnvOfImport(given)
         /\ (worker # None /\ Len(order) <= ProfilesOfImport) => worker = imported
    BY <1>1 DEF SettingsInv, Setting!WorkersAgree, ProfilesOfImport
  <1>11. /\ Len(order') >= ProfilesOfImport
         /\ Len(order') <= ProfilesOfImport => environ' = environ /\ Len(order) <= ProfilesOfImport
    <2>1. CASE Setting!Overrides(name) = None
      BY <1>4, <1>10, <2>1
    <2>2. CASE Setting!Overrides(name) # None
      BY <1>2, <1>4, <1>5, <1>10, <2>2
    <2> QED BY <2>1, <2>2
  <1>12. Len(order') <= ProfilesOfImport => environ' = Setting!EnvOfImport(given)
    BY <1>2, <1>5, <1>10, <1>11
  <1>13. Setting!WorkersAgree'
    BY <1>1, <1>10, <1>11 DEF Setting!WorkersAgree, ProfilesOfImport
  <1>14. Len(order') = ProfilesOfImport' => environ' = Setting!EnvOfImport(given)'
    BY <1>5, <1>9, <1>12
  <1> QED BY <1>1, <1>4, <1>5, <1>7, <1>8, <1>9, <1>10, <1>11, <1>13, <1>14 DEF SettingsInv

LEMMA SettingsAssign ==
  ASSUME SettingsInv, NEW k, NEW v, Setting!Assign(k, v)
  PROVE  SettingsInv'
  <1>1. /\ boot = "running" /\ settings' = [settings EXCEPT ![k] = v]
        /\ UNCHANGED <<environ, lower, dotenv, profile, boot, instance, worker, given, order, imported>>
    BY DEF Setting!Assign
  <1>2. DOMAIN settings' = Setting!Keys
    BY <1>1 DEF SettingsInv
  <1>3. \A x \in Setting!Made' : Setting!IsSettings(x)
    BY <1>1, <1>2 DEF SettingsInv, Setting!TypeOK, Setting!Made, Setting!IsSettings
  <1>4. Setting!TypeOK'
    BY <1>1, <1>3 DEF SettingsInv, Setting!TypeOK, Setting!IsSettings
  <1>5. Setting!Imported(given)' = Setting!Imported(given)
        /\ Setting!EnvOfImport(given)' = Setting!EnvOfImport(given)
    BY <1>1, SettingsSame
  <1>6. Setting!FirstProfileDecides' /\ Setting!WorkersAgree'
    BY <1>1 DEF SettingsInv, Setting!FirstProfileDecides, Setting!WorkersAgree, Setting!Overrides
  <1>7. \A j \in DOMAIN order' : DOMAIN Setting!Overrides(order'[j]) \subseteq DOMAIN environ'
    BY <1>1 DEF SettingsInv
  <1>8. Keeps(environ)' /\ \A x \in {imported', instance', worker'} :
          x \notin {None, Refused} => DOMAIN x = Setting!Keys /\ Keeps(x)'
    BY <1>1 DEF SettingsInv, Keeps
  <1> QED BY <1>1, <1>2, <1>4, <1>5, <1>6, <1>7, <1>8 DEF SettingsInv, ProfilesOfImport

LEMMA SettingsWorker ==
  ASSUME SettingsInv, Setting!StartWorker
  PROVE  SettingsInv'
  <1>1. /\ boot = "running" /\ worker' = Setting!Imported(environ)
        /\ UNCHANGED <<environ, lower, dotenv, profile, boot, settings, instance, given, order, imported>>
    BY DEF Setting!StartWorker
  <1>2. /\ DOMAIN environ \subseteq Setting!Keys /\ Keeps(environ)
        /\ dotenv \in Dotenvs /\ lower \in Environments
        /\ Len(order) \in Nat
    BY SettingsObjects
  <1>3. worker' # Refused => DOMAIN worker' = Setting!Keys /\ Keeps(worker')
    <2>1. CASE profile = None
      <3>1. worker' = Setting!MadeOf(environ)
        BY <1>1, <2>1 DEF Setting!Imported
      <3> QED BY <1>2, <3>1, SettingsMade
    <2>2. CASE profile # None
      <3>1. worker' = Setting!Given(environ, profile)
        BY <1>1, <2>2 DEF Setting!Imported
      <3> QED BY <1>2, <3>1, SettingsGiven
    <2> QED BY <2>1, <2>2
  <1>4. \A x \in Setting!Made' : Setting!IsSettings(x)
    <2>1. \A x \in Setting!Made' : x \in Setting!Made \/ (x = worker' /\ x # Refused)
      BY <1>1 DEF Setting!Made
    <2> QED BY <1>3, <2>1 DEF SettingsInv, Setting!TypeOK, Setting!IsSettings
  <1>5. Setting!TypeOK'
    BY <1>1, <1>4 DEF SettingsInv, Setting!TypeOK, Setting!IsSettings
  <1>6. Setting!Imported(given)' = Setting!Imported(given)
        /\ Setting!EnvOfImport(given)' = Setting!EnvOfImport(given)
    BY <1>1, SettingsSame
  <1>7. Setting!FirstProfileDecides'
    BY <1>1 DEF SettingsInv, Setting!FirstProfileDecides, Setting!Overrides
  \* A worker that starts before any later profile finds the environment of the import.
  <1>8. Len(order) <= ProfilesOfImport => worker' = imported
    <2> HAVE Len(order) <= ProfilesOfImport
    <2>1. environ = Setting!EnvOfImport(given) /\ imported = Setting!Imported(given)
      <3>1. Len(order) >= ProfilesOfImport /\ ProfilesOfImport \in Nat
        BY <1>1 DEF SettingsInv, ProfilesOfImport
      <3>2. Len(order) = ProfilesOfImport
        BY <1>2, <3>1
      <3> QED BY <1>1, <3>2 DEF SettingsInv
    <2>2. CASE profile = None
      BY <1>1, <2>1, <2>2 DEF Setting!Imported, Setting!EnvOfImport
    <2>3. CASE profile # None
      <3>1. environ = Setting!After(given, profile)
        BY <2>1, <2>3 DEF Setting!EnvOfImport
      <3>2. Setting!After(environ, profile) = Setting!After(given, profile)
        BY <3>1, ProfileTwice
      <3>3. Setting!Given(environ, profile) = Setting!Given(given, profile)
        BY <3>2 DEF Setting!Given
      <3> QED BY <1>1, <2>1, <2>3, <3>3 DEF Setting!Imported
    <2> QED BY <2>2, <2>3
  <1>9. Setting!WorkersAgree'
    BY <1>1, <1>8 DEF Setting!WorkersAgree, ProfilesOfImport
  <1>10. \A j \in DOMAIN order' : DOMAIN Setting!Overrides(order'[j]) \subseteq DOMAIN environ'
    BY <1>1 DEF SettingsInv
  <1>11. Keeps(environ)' /\ \A x \in {imported', instance', worker'} :
          x \notin {None, Refused} => DOMAIN x = Setting!Keys /\ Keeps(x)'
    <2>1. \A x \in {imported, instance} :
            x \notin {None, Refused} => DOMAIN x = Setting!Keys /\ Keeps(x)
      BY DEF SettingsInv
    <2> QED BY <1>1, <1>2, <1>3, <2>1 DEF Keeps
  <1> QED BY <1>1, <1>5, <1>6, <1>7, <1>9, <1>10, <1>11 DEF SettingsInv, ProfilesOfImport

LEMMA SettingsNext == SettingsInv /\ [Setting!Next]_settingsVars => SettingsInv'
  <1> SUFFICES ASSUME SettingsInv, [Setting!Next]_settingsVars PROVE SettingsInv'
    OBVIOUS
  <1>1. CASE UNCHANGED settingsVars
    <2>1. UNCHANGED <<environ, lower, dotenv, profile, boot, settings, instance, worker, given, order,
                      imported>>
      BY <1>1 DEF settingsVars
    <2>2. Setting!Imported(given)' = Setting!Imported(given)
          /\ Setting!EnvOfImport(given)' = Setting!EnvOfImport(given)
      BY <2>1, SettingsSame
    <2>3. Setting!TypeOK'
      BY <2>1 DEF SettingsInv, Setting!TypeOK, Setting!Made, Setting!IsSettings
    <2>4. Setting!FirstProfileDecides' /\ Setting!WorkersAgree'
      BY <2>1 DEF SettingsInv, Setting!FirstProfileDecides, Setting!WorkersAgree,
                  Setting!Overrides
    <2>5. \A j \in DOMAIN order' : DOMAIN Setting!Overrides(order'[j]) \subseteq DOMAIN environ'
      BY <2>1 DEF SettingsInv
    <2>6. Keeps(environ)' /\ \A x \in {imported', instance', worker'} :
            x \notin {None, Refused} => DOMAIN x = Setting!Keys /\ Keeps(x)'
      BY <2>1 DEF SettingsInv, Keeps
    <2> QED BY <2>1, <2>2, <2>3, <2>4, <2>5, <2>6 DEF SettingsInv, ProfilesOfImport
  <1> QED BY <1>1, SettingsImport, SettingsLoad, SettingsAssign, SettingsWorker
          DEF Setting!Next

LEMMA SettingsSound == SettingsInv => Setting!ProfilesHold
  <1> SUFFICES ASSUME SettingsInv PROVE Setting!ProfilesHold
    OBVIOUS
  <1>1. Setting!OperatorDecides
    <2>1. \A x \in Setting!Made \ {settings} : Keeps(x)
      BY DEF SettingsInv, Setting!Made
    <2> QED BY <2>1 DEF SettingsInv, Keeps, Setting!OperatorDecides
  <1>2. Setting!ProfilesStart
    BY SettingsObjects, RefusalHasACause DEF SettingsInv, Setting!ProfilesStart
  <1> QED BY <1>1, <1>2 DEF SettingsInv, Setting!ProfilesHold

-----------------------------------------------------------------------------
(*****************************************************************************)
(* The secrets.  Each value knows when it was replaced, so an entry that a   *)
(* thread holds or the cache keeps was current when it was fetched,          *)
(* however late it was stored, and the writes that have settled are at       *)
(* most as new as it.                                                        *)
(*****************************************************************************)
\* Version v of k was Vault's at time t.
CurrentAt(k, v, t) == v < value[k] => replaced[k][v] >= t

\* Every value but the current one knows when it was replaced.
SecretsRemembered ==
  /\ replaced \in [SecretKeys -> Seq(Nat)]
  /\ \A k \in SecretKeys :
       /\ Len(replaced[k]) = value[k] - 1
       /\ \A v \in 1 .. value[k] - 1 : replaced[k][v] <= secret_now

\* An entry was Vault's when it was fetched, which was before it was stored.
EntryWasCurrent(k, e) ==
  /\ e.value <= value[k] /\ e.since <= e.at /\ e.at <= secret_now
  /\ CurrentAt(k, e.value, e.since)

\* So was what is cached, which is nothing that a settled write replaced.
CachedWasCurrent ==
  \A k \in SecretKeys : cache[k] # None =>
    EntryWasCurrent(k, cache[k]) /\ settled[k] <= cache[k].value

\* So is what a thread looks at, or has fetched and not yet stored.
FetchedWasCurrent ==
  \A r \in Readers : secret_pc[r] \in {"checking", "storing"} =>
    /\ EntryWasCurrent(key[r], got[r])
    /\ secret_pc[r] = "storing" => settled[key[r]] <= got[r].value

\* The types, and what readers and the cache hold.
SecretInv ==
  /\ Secret!TypeOK
  /\ late \in [Readers -> Int] /\ \A r \in Readers : late[r] < cache_ttl
  /\ settled \in [SecretKeys -> Nat] /\ \A k \in SecretKeys : settled[k] <= value[k]
  /\ SecretsRemembered /\ CachedWasCurrent /\ FetchedWasCurrent

LEMMA SecretConstants ==
  /\ cache_ttl \in Nat \ {0} /\ SecretTime \in Nat /\ MaxVersion \in Nat \ {0}
  /\ None \notin SecretKeys /\ None \notin Nat /\ None \notin Secret!Entries
  <1>1. /\ cache_ttl \in Nat \ {0} /\ SecretTime \in Nat /\ MaxVersion \in Nat \ {0}
        /\ None \notin SecretKeys /\ None \notin Nat
        /\ None \notin [value : Nat, at : Nat, since : Nat]
    BY AdministrationAssumption DEF Secret!SecretsAssumption
  <1>2. Secret!Entries \subseteq [value : Nat, at : Nat, since : Nat]
    BY <1>1 DEF Secret!Entries, Secret!Versions, Secret!Times
  <1> QED BY <1>1, <1>2

LEMMA SecretInit == Secret!Init => SecretInv
  <1> SUFFICES ASSUME Secret!Init PROVE SecretInv
    OBVIOUS
  <1> USE SecretConstants DEF Secret!Init
  <1>1. Secret!TypeOK
    BY DEF Secret!TypeOK, Secret!Versions, Secret!Times, Secret!Steps
  <1>2. SecretsRemembered
    BY DEF SecretsRemembered
  <1>3. CachedWasCurrent /\ FetchedWasCurrent
    BY DEF CachedWasCurrent, FetchedWasCurrent
  <1> QED BY <1>1, <1>2, <1>3 DEF SecretInv

\* Types spelled out, as the steps need them.
LEMMA SecretTypes ==
  ASSUME SecretInv
  PROVE  /\ usable \in BOOLEAN
         /\ \A k \in SecretKeys : value[k] \in Nat /\ 1 <= value[k] /\ value[k] <= MaxVersion
         /\ \A k \in SecretKeys : cache[k] # None => cache[k] \in Secret!Entries
         /\ \A r \in Readers : secret_pc[r] # "idle" => key[r] \in SecretKeys
         /\ \A r \in Readers :
              IF secret_pc[r] \in {"checking", "storing"} THEN got[r] \in Secret!Entries ELSE got[r] = None
         /\ secret_now \in Nat /\ secret_now <= SecretTime
         /\ \A k \in SecretKeys : \A v \in 1 .. value[k] - 1 : replaced[k][v] \in Nat
  BY SecretConstants
     DEF SecretInv, Secret!TypeOK, Secret!Versions, Secret!Times, SecretsRemembered

LEMMA EntryTypes ==
  ASSUME NEW e \in Secret!Entries
  PROVE  /\ e.value \in Nat /\ 1 <= e.value /\ e.value \in Secret!Versions
         /\ e.at \in Nat /\ e.since \in Nat
  BY SecretConstants DEF Secret!Entries, Secret!Versions, Secret!Times

\* An entry that has not expired is not too late.
LEMMA EntryIsRecent ==
  ASSUME SecretInv, NEW k \in SecretKeys, NEW e \in Secret!Entries, EntryWasCurrent(k, e),
         secret_now - e.at < cache_ttl
  PROVE  Secret!Lateness(k, e) \in Int /\ Secret!Lateness(k, e) < cache_ttl
  <1>1. /\ value[k] \in Nat /\ secret_now \in Nat /\ cache_ttl \in Nat \ {0}
        /\ e.value \in Nat /\ 1 <= e.value /\ e.at \in Nat /\ e.since \in Nat
        /\ e.value <= value[k] /\ e.since <= e.at
    BY SecretTypes, EntryTypes, SecretConstants DEF EntryWasCurrent
  <1>2. CASE e.value = value[k]
    <2>1. Secret!Lateness(k, e) = 0 - (e.at - e.since)
      BY <1>2 DEF Secret!Lateness
    <2> QED BY ONLY <1>1, <2>1
  <1>3. CASE e.value # value[k]
    <2>1. Secret!Lateness(k, e) = (secret_now - replaced[k][e.value]) - (e.at - e.since)
      BY <1>3 DEF Secret!Lateness
    <2>2. e.value \in 1 .. value[k] - 1
      BY <1>1, <1>3
    <2>3. replaced[k][e.value] \in Nat /\ replaced[k][e.value] >= e.since
      BY <1>1, <1>3, <2>2, SecretTypes DEF EntryWasCurrent, CurrentAt
    <2> QED BY ONLY <1>1, <2>1, <2>3, secret_now - e.at < cache_ttl
  <1> QED BY <1>2, <1>3

\* A thread goes on, holding what it may, and answers in time if it answers.
LEMMA SecretGoesOn ==
  ASSUME SecretInv, NEW r \in Readers, NEW step \in Secret!Steps, NEW k, NEW g, NEW l \in Int,
         l < cache_ttl, IF step = "idle" THEN k = None ELSE k \in SecretKeys,
         IF step \in {"checking", "storing"} THEN g \in Secret!Entries ELSE g = None,
         step \in {"checking", "storing"} => EntryWasCurrent(k, g),
         step = "storing" => settled[k] <= g.value,
         Secret!Becomes(r, step, k), got' = [got EXCEPT ![r] = g], late' = [late EXCEPT ![r] = l],
         UNCHANGED <<usable, value, cache, secret_now, replaced, settled>>
  PROVE  SecretInv'
  <1>1. secret_pc' = [secret_pc EXCEPT ![r] = step] /\ key' = [key EXCEPT ![r] = k]
    BY DEF Secret!Becomes
  <1>2. Secret!TypeOK'
    <2> QED BY <1>1, SecretConstants DEF SecretInv, Secret!TypeOK
  <1>3. late' \in [Readers -> Int] /\ \A s \in Readers : late'[s] < cache_ttl
    BY DEF SecretInv
  <1>4. FetchedWasCurrent'
    <2>1. ASSUME NEW s \in Readers, secret_pc'[s] \in {"checking", "storing"}
          PROVE  /\ EntryWasCurrent(key'[s], got'[s])
                 /\ secret_pc'[s] = "storing" => settled[key'[s]] <= got'[s].value
      <3>1. CASE s = r
        BY <1>1, <2>1, <3>1 DEF SecretInv, Secret!TypeOK
      <3>2. CASE s # r
        <4>1. secret_pc'[s] = secret_pc[s] /\ key'[s] = key[s] /\ got'[s] = got[s]
          BY <1>1, <3>2 DEF SecretInv, Secret!TypeOK
        <4> QED BY <2>1, <4>1 DEF SecretInv, FetchedWasCurrent
      <3> QED BY <3>1, <3>2
    <2> QED BY <2>1 DEF FetchedWasCurrent, EntryWasCurrent, CurrentAt
  <1> QED BY <1>2, <1>3, <1>4
          DEF SecretInv, SecretsRemembered, CachedWasCurrent, EntryWasCurrent, CurrentAt

\* What the steps of one thread have in common.
LEMMA ThreadsHold ==
  ASSUME SecretInv, NEW r \in Readers
  PROVE  /\ late[r] \in Int /\ late[r] < cache_ttl
         /\ late = [late EXCEPT ![r] = late[r]] /\ got = [got EXCEPT ![r] = got[r]]
         /\ secret_pc[r] # "idle" => key[r] \in SecretKeys
         /\ secret_pc[r] \notin {"checking", "storing"} => got[r] = None
         /\ secret_pc[r] \in {"checking", "storing"} =>
              got[r] \in Secret!Entries /\ EntryWasCurrent(key[r], got[r])
         /\ {"idle", "found", "checking", "reading", "storing", "written", "invalidating"}
              \subseteq Secret!Steps
  <1>1. /\ late \in [Readers -> Int] /\ late[r] < cache_ttl
        /\ got \in [Readers -> Secret!Entries \union {None}]
    BY DEF SecretInv, Secret!TypeOK
  <1>2. secret_pc[r] \in {"checking", "storing"} => EntryWasCurrent(key[r], got[r])
    BY DEF SecretInv, FetchedWasCurrent
  <1> QED BY <1>1, <1>2, SecretTypes DEF Secret!Steps

LEMMA SecretGet ==
  ASSUME SecretInv, NEW r \in Readers, NEW k \in SecretKeys, Secret!Get(r, k)
  PROVE  SecretInv'
  <1>1. /\ secret_pc[r] = "idle"
        /\ Secret!Becomes(r, "reading", k) \/ Secret!Becomes(r, "found", k)
        /\ UNCHANGED <<usable, value, cache, got, secret_now, replaced, late, settled>>
    BY DEF Secret!Get
  <1>2. got[r] = None
    BY <1>1, ThreadsHold
  <1>3. late' = [late EXCEPT ![r] = late[r]] /\ got' = [got EXCEPT ![r] = None]
    BY <1>1, <1>2, ThreadsHold
  <1> QED BY <1>1, <1>3, ThreadsHold, SecretGoesOn

LEMMA SecretTake ==
  ASSUME SecretInv, NEW r \in Readers, Secret!Take(r)
  PROVE  SecretInv'
  <1>1. /\ secret_pc[r] = "found" /\ key[r] \in SecretKeys /\ got[r] = None
        /\ UNCHANGED <<usable, value, cache, secret_now, replaced, late, settled>>
    BY ThreadsHold DEF Secret!Take
  <1>2. late' = [late EXCEPT ![r] = late[r]]
    BY <1>1, ThreadsHold
  <1>3. CASE cache[key[r]] = None
    <2>1. Secret!Becomes(r, "idle", None) /\ got' = [got EXCEPT ![r] = None]
      BY <1>1, <1>3, ThreadsHold DEF Secret!Take
    <2> QED BY <1>1, <1>2, <2>1, ThreadsHold, SecretGoesOn
  <1>4. CASE cache[key[r]] # None
    <2>1. Secret!Becomes(r, "checking", key[r]) /\ got' = [got EXCEPT ![r] = cache[key[r]]]
      BY <1>4 DEF Secret!Take
    <2>2. cache[key[r]] \in Secret!Entries /\ EntryWasCurrent(key[r], cache[key[r]])
      BY <1>1, <1>4, SecretTypes DEF SecretInv, CachedWasCurrent
    <2> QED BY <1>1, <1>2, <2>1, <2>2, ThreadsHold, SecretGoesOn
  <1> QED BY <1>3, <1>4

LEMMA SecretCheck ==
  ASSUME SecretInv, NEW r \in Readers, Secret!Check(r)
  PROVE  SecretInv'
  <1>1. /\ secret_pc[r] = "checking" /\ key[r] \in SecretKeys
        /\ got[r] \in Secret!Entries /\ EntryWasCurrent(key[r], got[r])
        /\ got' = [got EXCEPT ![r] = None]
        /\ UNCHANGED <<usable, value, cache, secret_now, replaced, settled>>
    BY ThreadsHold DEF Secret!Check
  <1>2. CASE secret_now - got[r].at < cache_ttl
    <2>1. /\ late' = [late EXCEPT ![r] = Secret!Lateness(key[r], got[r])]
          /\ Secret!Becomes(r, "idle", None)
      BY <1>2 DEF Secret!Check
    <2>2. /\ Secret!Lateness(key[r], got[r]) \in Int
          /\ Secret!Lateness(key[r], got[r]) < cache_ttl
      BY <1>1, <1>2, EntryIsRecent
    <2> QED BY <1>1, <2>1, <2>2, ThreadsHold, SecretGoesOn
  <1>3. CASE ~(secret_now - got[r].at < cache_ttl)
    <2>1. late' = [late EXCEPT ![r] = late[r]] /\ Secret!Becomes(r, "reading", key[r])
      BY <1>3, ThreadsHold DEF Secret!Check
    <2> QED BY <1>1, <2>1, ThreadsHold, SecretGoesOn
  <1> QED BY <1>2, <1>3

LEMMA SecretFetch ==
  ASSUME SecretInv, NEW r \in Readers, Secret!Fetch(r)
  PROVE  SecretInv'
  <1>1. /\ secret_pc[r] = "reading" /\ key[r] \in SecretKeys /\ got[r] = None
        /\ UNCHANGED <<usable, value, cache, secret_now, replaced, late, settled>>
    BY ThreadsHold DEF Secret!Fetch
  <1>2. late' = [late EXCEPT ![r] = late[r]]
    BY <1>1, ThreadsHold
  <1>3. CASE usable
    <2> DEFINE e == [value |-> value[key[r]], at |-> secret_now, since |-> secret_now]
    <2>1. got' = [got EXCEPT ![r] = e] /\ Secret!Becomes(r, "storing", key[r])
      BY <1>3 DEF Secret!Fetch
    <2>2. /\ value[key[r]] \in Secret!Versions /\ secret_now \in Secret!Times
          /\ value[key[r]] \in Nat /\ secret_now \in Nat /\ settled[key[r]] <= value[key[r]]
      BY <1>1, SecretTypes DEF SecretInv, Secret!TypeOK
    <2>3. /\ e \in Secret!Entries /\ EntryWasCurrent(key[r], e) /\ settled[key[r]] <= e.value
      BY <2>2 DEF Secret!Entries, EntryWasCurrent, CurrentAt
    <2> HIDE DEF e
    <2> QED BY <1>1, <1>2, <2>1, <2>3, ThreadsHold, SecretGoesOn
  <1>4. CASE ~usable
    <2>1. got' = [got EXCEPT ![r] = None] /\ Secret!Becomes(r, "idle", None)
      BY <1>1, <1>4, ThreadsHold DEF Secret!Fetch
    <2> QED BY <1>1, <1>2, <2>1, ThreadsHold, SecretGoesOn
  <1> QED BY <1>3, <1>4

LEMMA SecretStore ==
  ASSUME SecretInv, NEW r \in Readers, Secret!Store(r)
  PROVE  SecretInv'
  <1> DEFINE e == [got[r] EXCEPT !.at = secret_now]
  <1>1. /\ secret_pc[r] = "storing" /\ key[r] \in SecretKeys
        /\ got[r] \in Secret!Entries /\ EntryWasCurrent(key[r], got[r])
        /\ cache' = [cache EXCEPT ![key[r]] = e]
        /\ late' = [late EXCEPT ![r] = Secret!Lateness(key[r], e)]
        /\ got' = [got EXCEPT ![r] = None]
        /\ secret_pc' = [secret_pc EXCEPT ![r] = "idle"] /\ key' = [key EXCEPT ![r] = None]
        /\ UNCHANGED <<usable, value, secret_now, replaced, settled>>
    BY ThreadsHold DEF Secret!Store, Secret!Becomes
  <1>2. /\ e \in Secret!Entries /\ e.value = got[r].value /\ e.since = got[r].since
        /\ e.at = secret_now /\ secret_now \in Nat
    BY <1>1, SecretTypes DEF Secret!Entries, SecretInv, Secret!TypeOK
  <1> HIDE DEF e
  <1>3. EntryWasCurrent(key[r], e) /\ settled[key[r]] <= e.value
    <2>1. settled[key[r]] <= got[r].value
      BY <1>1 DEF SecretInv, FetchedWasCurrent
    <2>2. got[r].at \in Nat /\ got[r].since \in Nat
      BY <1>1, EntryTypes
    <2> QED BY <1>1, <1>2, <2>1, <2>2 DEF EntryWasCurrent
  <1>4. late' \in [Readers -> Int] /\ \A s \in Readers : late'[s] < cache_ttl
    <2>1. secret_now - e.at < cache_ttl
      BY <1>2, SecretConstants
    <2>2. Secret!Lateness(key[r], e) \in Int /\ Secret!Lateness(key[r], e) < cache_ttl
      BY <1>1, <1>2, <1>3, <2>1, EntryIsRecent
    <2> QED BY <1>1, <2>2 DEF SecretInv
  <1>5. Secret!TypeOK'
    BY <1>1, <1>2, SecretConstants, ThreadsHold DEF SecretInv, Secret!TypeOK
  <1>6. FetchedWasCurrent'
    BY <1>1 DEF SecretInv, Secret!TypeOK, FetchedWasCurrent, EntryWasCurrent, CurrentAt
  <1>7. CachedWasCurrent'
    BY <1>1, <1>3 DEF SecretInv, Secret!TypeOK, CachedWasCurrent, EntryWasCurrent, CurrentAt
  <1> QED BY <1>1, <1>4, <1>5, <1>6, <1>7 DEF SecretInv, SecretsRemembered

\* A secret gets its next version, whoever writes it.
LEMMA SecretReplace ==
  ASSUME SecretInv, NEW k \in SecretKeys, Secret!Replace(k),
         UNCHANGED <<usable, cache, got, secret_now, late, settled>>,
         \A r \in Readers :
           secret_pc'[r] \in {"checking", "storing"} =>
             secret_pc'[r] = secret_pc[r] /\ key'[r] = key[r]
  PROVE  /\ value' \in [SecretKeys -> Secret!Versions]
         /\ SecretsRemembered' /\ CachedWasCurrent' /\ FetchedWasCurrent'
         /\ \A s \in SecretKeys : settled'[s] <= value'[s]
  <1> USE SecretConstants
  <1>1. /\ value[k] < MaxVersion /\ value' = [value EXCEPT ![k] = value[k] + 1]
        /\ replaced' = [replaced EXCEPT ![k] = Append(replaced[k], secret_now)]
    BY DEF Secret!Replace
  <1>2. value \in [SecretKeys -> Secret!Versions] /\ replaced \in [SecretKeys -> Seq(Nat)]
    BY DEF SecretInv, Secret!TypeOK, SecretsRemembered
  <1>3. value' \in [SecretKeys -> Secret!Versions]
    BY <1>1, <1>2, SecretTypes DEF Secret!Versions
  <1>4. /\ replaced'[k] \in Seq(Nat) /\ Len(replaced'[k]) = value[k]
        /\ \A v \in 1 .. value[k] - 1 : replaced'[k][v] = replaced[k][v]
        /\ replaced'[k][value[k]] = secret_now
    <2>1. Len(replaced[k]) = value[k] - 1 /\ replaced[k] \in Seq(Nat) /\ secret_now \in Nat
      BY <1>2, SecretTypes DEF SecretInv, SecretsRemembered
    <2>2. /\ Append(replaced[k], secret_now) \in Seq(Nat)
          /\ Len(Append(replaced[k], secret_now)) = Len(replaced[k]) + 1
          /\ DOMAIN replaced[k] = 1 .. Len(replaced[k])
          /\ \A j \in DOMAIN replaced[k] : Append(replaced[k], secret_now)[j] = replaced[k][j]
          /\ Append(replaced[k], secret_now)[Len(replaced[k]) + 1] = secret_now
      BY <2>1, AppendFacts
    <2>3. replaced'[k] = Append(replaced[k], secret_now)
      BY <1>1, <1>2
    <2> QED BY <2>1, <2>2, <2>3, SecretTypes
  <1>5. /\ value'[k] = value[k] + 1
        /\ \A s \in SecretKeys : s # k => value'[s] = value[s] /\ replaced'[s] = replaced[s]
    BY <1>1, <1>2
  <1>6. SecretsRemembered'
    <2>1. replaced' \in [SecretKeys -> Seq(Nat)]
      BY <1>1, <1>2, <1>4
    <2>2. ASSUME NEW s \in SecretKeys
          PROVE  /\ Len(replaced'[s]) = value'[s] - 1
                 /\ \A v \in 1 .. value'[s] - 1 : replaced'[s][v] <= secret_now
      <3>1. CASE s = k
        <4>1. ASSUME NEW v \in 1 .. value[k] PROVE replaced'[k][v] <= secret_now
          <5>1. CASE v = value[k]
            BY <1>4, <5>1, SecretTypes
          <5>2. CASE v # value[k]
            <6>1. v \in 1 .. value[k] - 1
              BY <5>2, SecretTypes
            <6> QED BY <1>4, <6>1 DEF SecretInv, SecretsRemembered
          <5> QED BY <5>1, <5>2
        <4> QED BY <1>4, <1>5, <3>1, <4>1, SecretTypes
      <3>2. CASE s # k
        BY <1>5, <3>2 DEF SecretInv, SecretsRemembered
      <3> QED BY <3>1, <3>2
    <2> QED BY <2>1, <2>2 DEF SecretsRemembered
  \* What was current at a time that has come still was.
  <1>7. ASSUME NEW s \in SecretKeys, NEW v \in Nat, 1 <= v, v <= value[s],
               NEW t \in Nat, t <= secret_now, CurrentAt(s, v, t)
        PROVE  (v < value'[s] => replaced'[s][v] >= t) /\ v <= value'[s]
    <2>1. CASE s # k
      BY <1>5, <1>7, <2>1, SecretTypes DEF CurrentAt
    <2>2. CASE s = k /\ v = value[k]
      BY <1>4, <1>5, <1>7, <2>2, SecretTypes
    <2>3. CASE s = k /\ v # value[k]
      <3>1. v \in 1 .. value[k] - 1
        BY <1>7, <2>3, SecretTypes
      <3>2. v < value[k] /\ replaced[k][v] >= t /\ replaced'[k][v] = replaced[k][v]
        BY <1>4, <1>7, <2>3, <3>1, SecretTypes DEF CurrentAt
      <3> QED BY <1>5, <2>3, <3>2, SecretTypes
    <2> QED BY <2>1, <2>2, <2>3
  \* So was an entry.
  <1>8. ASSUME NEW s \in SecretKeys, NEW e \in Secret!Entries, EntryWasCurrent(s, e)
        PROVE  /\ e.value <= value'[s] /\ e.since <= e.at /\ e.at <= secret_now
               /\ e.value < value'[s] => replaced'[s][e.value] >= e.since
    <2>1. /\ e.value \in Nat /\ 1 <= e.value /\ e.at \in Nat /\ e.since \in Nat
          /\ e.value <= value[s] /\ e.since <= e.at /\ e.at <= secret_now
          /\ CurrentAt(s, e.value, e.since) /\ secret_now \in Nat
      BY <1>8, EntryTypes, SecretTypes DEF EntryWasCurrent
    <2>2. e.since <= secret_now
      BY ONLY <2>1
    <2> QED BY <1>7, <2>1, <2>2
  <1>9. CachedWasCurrent'
    <2> SUFFICES ASSUME NEW s \in SecretKeys, cache[s] # None
                 PROVE  /\ cache[s].value <= value'[s] /\ cache[s].since <= cache[s].at
                        /\ cache[s].at <= secret_now /\ settled[s] <= cache[s].value
                        /\ cache[s].value < value'[s] =>
                             replaced'[s][cache[s].value] >= cache[s].since
      BY DEF CachedWasCurrent, EntryWasCurrent, CurrentAt
    <2>1. /\ cache[s] \in Secret!Entries /\ EntryWasCurrent(s, cache[s])
          /\ settled[s] <= cache[s].value
      BY SecretTypes DEF SecretInv, CachedWasCurrent
    <2> QED BY <1>8, <2>1
  <1>10. FetchedWasCurrent'
    <2> SUFFICES ASSUME NEW r \in Readers, secret_pc[r] \in {"checking", "storing"}
                 PROVE  /\ got[r].value <= value'[key[r]] /\ got[r].since <= got[r].at
                        /\ got[r].at <= secret_now
                        /\ secret_pc[r] = "storing" => settled[key[r]] <= got[r].value
                        /\ got[r].value < value'[key[r]] =>
                             replaced'[key[r]][got[r].value] >= got[r].since
      BY DEF FetchedWasCurrent, EntryWasCurrent, CurrentAt
    <2>1. /\ key[r] \in SecretKeys /\ got[r] \in Secret!Entries
          /\ EntryWasCurrent(key[r], got[r])
          /\ secret_pc[r] = "storing" => settled[key[r]] <= got[r].value
      BY ThreadsHold DEF SecretInv, FetchedWasCurrent
    <2> QED BY <1>8, <2>1
  <1>11. \A s \in SecretKeys : settled'[s] <= value'[s]
    BY <1>5, SecretTypes DEF SecretInv
  <1> QED BY <1>3, <1>6, <1>9, <1>10, <1>11

LEMMA SecretSet ==
  ASSUME SecretInv, NEW r \in Readers, NEW k \in SecretKeys, Secret!Set(r, k)
  PROVE  SecretInv'
  <1> USE SecretConstants
  <1>1. /\ secret_pc[r] = "idle" /\ secret_pc' = [secret_pc EXCEPT ![r] = "written"]
        /\ key' = [key EXCEPT ![r] = k] /\ Secret!Replace(k)
        /\ UNCHANGED <<usable, cache, got, secret_now, late, settled>>
    BY DEF Secret!Set, Secret!Becomes
  <1>2. \A s \in Readers : secret_pc'[s] \in {"checking", "storing"} =>
          secret_pc'[s] = secret_pc[s] /\ key'[s] = key[s]
    BY <1>1 DEF SecretInv, Secret!TypeOK
  <1>3. /\ value' \in [SecretKeys -> Secret!Versions]
        /\ SecretsRemembered' /\ CachedWasCurrent' /\ FetchedWasCurrent'
        /\ \A s \in SecretKeys : settled'[s] <= value'[s]
    BY <1>1, <1>2, SecretReplace
  <1>4. Secret!TypeOK'
    BY <1>1, <1>3, ThreadsHold DEF SecretInv, Secret!TypeOK
  <1> QED BY <1>1, <1>3, <1>4 DEF SecretInv

LEMMA SecretRotate ==
  ASSUME SecretInv, NEW k \in SecretKeys, Secret!Rotate(k)
  PROVE  SecretInv'
  <1>1. /\ Secret!Replace(k)
        /\ UNCHANGED <<usable, cache, secret_pc, key, got, secret_now, late, settled>>
    BY DEF Secret!Rotate
  <1>2. /\ value' \in [SecretKeys -> Secret!Versions]
        /\ SecretsRemembered' /\ CachedWasCurrent' /\ FetchedWasCurrent'
        /\ \A s \in SecretKeys : settled'[s] <= value'[s]
    BY <1>1, SecretReplace
  <1>3. Secret!TypeOK'
    BY <1>1, <1>2 DEF SecretInv, Secret!TypeOK
  <1> QED BY <1>1, <1>2, <1>3 DEF SecretInv

\* After a write the cache has nothing of the key, or loses it.
LEMMA SecretSettles ==
  ASSUME SecretInv, NEW r \in Readers, secret_pc[r] \in {"written", "invalidating"},
         cache'[key[r]] = None, cache' \in [SecretKeys -> Secret!Entries \union {None}],
         \A k \in SecretKeys : k # key[r] => cache'[k] = cache[k],
         Secret!Settle(key[r]), Secret!Becomes(r, "idle", None),
         UNCHANGED <<usable, value, got, secret_now, replaced, late>>
  PROVE  SecretInv'
  <1> USE SecretConstants
  <1>1. /\ key[r] \in SecretKeys
        /\ settled' = [settled EXCEPT ![key[r]] =
                         IF Secret!NoFetchOf(key[r]) THEN value[key[r]] ELSE settled[key[r]]]
        /\ secret_pc' = [secret_pc EXCEPT ![r] = "idle"] /\ key' = [key EXCEPT ![r] = None]
    BY ThreadsHold DEF Secret!Settle, Secret!Becomes
  <1>2. Secret!TypeOK'
    BY <1>1, ThreadsHold DEF SecretInv, Secret!TypeOK
  <1>3. settled' \in [SecretKeys -> Nat] /\ \A k \in SecretKeys : settled'[k] <= value'[k]
    BY <1>1, SecretTypes DEF SecretInv
  <1>4. CachedWasCurrent'
    BY <1>1 DEF SecretInv, Secret!TypeOK, CachedWasCurrent, EntryWasCurrent, CurrentAt
  <1>5. FetchedWasCurrent'
    <2> SUFFICES ASSUME NEW s \in Readers, secret_pc'[s] \in {"checking", "storing"}
                 PROVE  /\ EntryWasCurrent(key'[s], got[s])
                        /\ secret_pc'[s] = "storing" => settled'[key'[s]] <= got[s].value
      BY DEF FetchedWasCurrent, EntryWasCurrent, CurrentAt
    <2>1. /\ secret_pc[s] \in {"checking", "storing"} /\ key'[s] = key[s]
          /\ secret_pc'[s] = secret_pc[s] /\ key[s] \in SecretKeys
          /\ got[s] \in Secret!Entries /\ EntryWasCurrent(key[s], got[s])
      BY <1>1, ThreadsHold DEF SecretInv, Secret!TypeOK
    <2>2. ASSUME secret_pc[s] = "storing" PROVE settled'[key[s]] <= got[s].value
      <3>1. /\ settled[key[s]] <= got[s].value /\ got[s].value \in Nat
            /\ value[key[s]] \in Nat
        BY <2>1, <2>2, EntryTypes, SecretTypes DEF SecretInv, FetchedWasCurrent
      <3>2. CASE key[s] = key[r] /\ Secret!NoFetchOf(key[r])
        <4>1. ~(got[s].value < value[key[r]])
          BY <2>2, <3>2 DEF Secret!NoFetchOf
        <4>2. settled'[key[s]] = value[key[r]]
          BY <1>1, <3>2 DEF SecretInv
        <4> QED BY <3>1, <3>2, <4>1, <4>2
      <3>3. CASE ~(key[s] = key[r] /\ Secret!NoFetchOf(key[r]))
        <4>1. settled'[key[s]] = settled[key[s]]
          BY <1>1, <2>1, <3>3 DEF SecretInv
        <4> QED BY <3>1, <4>1
      <3> QED BY <3>2, <3>3
    <2> QED BY <2>1, <2>2
  <1> QED BY <1>1, <1>2, <1>3, <1>4, <1>5 DEF SecretInv, SecretsRemembered

LEMMA SecretSeek ==
  ASSUME SecretInv, NEW r \in Readers, Secret!Seek(r)
  PROVE  SecretInv'
  <1>1. /\ secret_pc[r] = "written" /\ key[r] \in SecretKeys /\ got[r] = None
        /\ UNCHANGED <<usable, value, cache, got, secret_now, replaced, late>>
    BY ThreadsHold DEF Secret!Seek
  <1>2. CASE cache[key[r]] = None
    <2>1. Secret!Becomes(r, "idle", None) /\ Secret!Settle(key[r])
      BY <1>2 DEF Secret!Seek
    <2>2. cache' \in [SecretKeys -> Secret!Entries \union {None}]
      BY <1>1 DEF SecretInv, Secret!TypeOK
    <2> QED BY <1>1, <1>2, <2>1, <2>2, SecretSettles
  <1>3. CASE cache[key[r]] # None
    <2>1. Secret!Becomes(r, "invalidating", key[r]) /\ UNCHANGED settled
      BY <1>3 DEF Secret!Seek
    <2>2. late' = [late EXCEPT ![r] = late[r]] /\ got' = [got EXCEPT ![r] = None]
      BY <1>1, ThreadsHold
    <2> QED BY <1>1, <2>1, <2>2, ThreadsHold, SecretGoesOn
  <1> QED BY <1>2, <1>3

LEMMA SecretInvalidate ==
  ASSUME SecretInv, NEW r \in Readers, Secret!Invalidate(r)
  PROVE  SecretInv'
  <1>1. /\ secret_pc[r] = "invalidating" /\ key[r] \in SecretKeys
        /\ cache' = [cache EXCEPT ![key[r]] = None]
        /\ Secret!Settle(key[r]) /\ Secret!Becomes(r, "idle", None)
        /\ UNCHANGED <<usable, value, got, secret_now, replaced, late>>
    BY ThreadsHold DEF Secret!Invalidate, Secret!CacheWithout
  <1>2. /\ cache'[key[r]] = None /\ cache' \in [SecretKeys -> Secret!Entries \union {None}]
        /\ \A k \in SecretKeys : k # key[r] => cache'[k] = cache[k]
    BY <1>1 DEF SecretInv, Secret!TypeOK
  <1> QED BY <1>1, <1>2, SecretSettles

LEMMA SecretTick ==
  ASSUME SecretInv, Secret!Tick
  PROVE  SecretInv'
  <1> USE SecretConstants
  <1>1. /\ secret_now < SecretTime /\ secret_now' = secret_now + 1
        /\ UNCHANGED <<usable, value, cache, secret_pc, key, got, replaced, late, settled>>
    BY DEF Secret!Tick
  <1>2. Secret!TypeOK'
    BY <1>1, SecretTypes DEF SecretInv, Secret!TypeOK, Secret!Times, Secret!Versions
  <1>3. ASSUME NEW k \in SecretKeys, NEW e \in Secret!Entries, EntryWasCurrent(k, e)
        PROVE  /\ e.value <= value[k] /\ e.since <= e.at /\ e.at <= secret_now'
               /\ e.value < value[k] => replaced[k][e.value] >= e.since
    <2>1. e.at \in Nat /\ secret_now \in Nat
      BY EntryTypes, SecretTypes
    <2> QED BY <1>1, <1>3, <2>1 DEF EntryWasCurrent, CurrentAt
  <1>4. FetchedWasCurrent'
    <2> SUFFICES ASSUME NEW r \in Readers, secret_pc[r] \in {"checking", "storing"}
                 PROVE  /\ got[r].value <= value[key[r]] /\ got[r].since <= got[r].at
                        /\ got[r].at <= secret_now'
                        /\ secret_pc[r] = "storing" => settled[key[r]] <= got[r].value
                        /\ got[r].value < value[key[r]] =>
                             replaced[key[r]][got[r].value] >= got[r].since
      BY <1>1 DEF FetchedWasCurrent, EntryWasCurrent, CurrentAt
    <2>1. /\ key[r] \in SecretKeys /\ got[r] \in Secret!Entries
          /\ EntryWasCurrent(key[r], got[r])
          /\ secret_pc[r] = "storing" => settled[key[r]] <= got[r].value
      BY ThreadsHold DEF SecretInv, FetchedWasCurrent
    <2> QED BY <1>3, <2>1
  <1>5. SecretsRemembered'
    <2>1. SecretsRemembered /\ secret_now \in Nat /\ value' = value /\ replaced' = replaced
      BY <1>1, SecretTypes DEF SecretInv
    <2>2. ASSUME NEW k \in SecretKeys, NEW v \in 1 .. value[k] - 1
          PROVE  replaced[k][v] <= secret_now'
      <3>1. replaced[k][v] <= secret_now /\ replaced[k][v] \in Nat
        BY <2>1 DEF SecretsRemembered
      <3> QED BY <1>1, <2>1, <3>1
    <2> QED BY <2>1, <2>2 DEF SecretsRemembered
  <1>6. CachedWasCurrent'
    <2> SUFFICES ASSUME NEW k \in SecretKeys, cache[k] # None
                 PROVE  /\ cache[k].value <= value[k] /\ cache[k].since <= cache[k].at
                        /\ cache[k].at <= secret_now' /\ settled[k] <= cache[k].value
                        /\ cache[k].value < value[k] =>
                             replaced[k][cache[k].value] >= cache[k].since
      BY <1>1 DEF CachedWasCurrent, EntryWasCurrent, CurrentAt
    <2>1. /\ cache[k] \in Secret!Entries /\ EntryWasCurrent(k, cache[k])
          /\ settled[k] <= cache[k].value
      BY SecretTypes DEF SecretInv, CachedWasCurrent
    <2> QED BY <1>3, <2>1
  <1> QED BY <1>1, <1>2, <1>4, <1>5, <1>6 DEF SecretInv

LEMMA SecretNext == SecretInv /\ [Secret!Next]_secretVars => SecretInv'
  <1> SUFFICES ASSUME SecretInv, [Secret!Next]_secretVars PROVE SecretInv'
    OBVIOUS
  <1>1. CASE Secret!ClearCache
    BY <1>1 DEF Secret!ClearCache, SecretInv, Secret!TypeOK, SecretsRemembered, CachedWasCurrent,
                FetchedWasCurrent, EntryWasCurrent, CurrentAt
  <1>2. CASE Secret!VaultChanges
    BY <1>2 DEF Secret!VaultChanges, SecretInv, Secret!TypeOK, SecretsRemembered,
                CachedWasCurrent, FetchedWasCurrent, EntryWasCurrent, CurrentAt
  <1>3. CASE UNCHANGED secretVars
    BY <1>3 DEF secretVars, SecretInv, Secret!TypeOK, SecretsRemembered, CachedWasCurrent,
                FetchedWasCurrent, EntryWasCurrent, CurrentAt
  <1> QED BY <1>1, <1>2, <1>3, SecretGet, SecretTake, SecretCheck, SecretFetch, SecretStore,
             SecretSet, SecretSeek, SecretInvalidate, SecretRotate, SecretTick DEF Secret!Next

LEMMA SecretSound == SecretInv => Secret!SecretsAreFresh
  <1> SUFFICES ASSUME SecretInv PROVE Secret!SecretsAreFresh
    OBVIOUS
  <1>1. ASSUME NEW k \in SecretKeys, cache[k] # None PROVE cache[k].value >= settled[k]
    BY <1>1, SecretTypes, EntryTypes DEF SecretInv, CachedWasCurrent
  <1> QED BY <1>1 DEF SecretInv, Secret!SecretsAreFresh, Secret!AnswersAreRecent,
                      Secret!OwnWritesAreSeen

-----------------------------------------------------------------------------
(*****************************************************************************)
(* The health of Vault.  A check moves the time of the last good answer;     *)
(* the gauge is up only if that answer is at most an interval older than     *)
(* the check, and who was told of health was told in time.                   *)
(*****************************************************************************)
\* The last good answer, and what the gauge and those who were told have of it.
VaultInv ==
  /\ Vault!TypeOK
  /\ vault_up => up_at = vault_now
  /\ health_at # None => health_at <= up_at
  /\ manager = "none" => ~gauge /\ monitor_at = None
  /\ (gauge /\ manager = "vault") => monitor_at # None /\ monitor_at < up_at + health_interval
  /\ told.ok /\ ~told.aged => told.away < 2 * health_interval

LEMMA VaultConstants ==
  /\ health_interval \in Nat \ {0} /\ vault_day \in Nat \ {0}
  /\ renew_before \in Nat /\ VaultTime \in Nat /\ MaxChecks \in Nat
  /\ None \notin Nat
  BY AdministrationAssumption DEF Vault!HealthAssumption

LEMMA VaultInit == Vault!Init => VaultInv
  <1> SUFFICES ASSUME Vault!Init PROVE VaultInv
    OBVIOUS
  <1> USE VaultConstants DEF Vault!Init
  <1>1. told = [ok |-> TRUE, away |-> 0, aged |-> FALSE] /\ 0 \in Vault!Times /\ 0 < 2 * health_interval
    BY DEF Vault!Times
  <1>2. told \in [ok : BOOLEAN, away : Vault!Times, aged : BOOLEAN] /\ told.away < 2 * health_interval
    BY <1>1
  <1>3. vault_up \in BOOLEAN /\ sealed \in BOOLEAN /\ gauge \in BOOLEAN /\ ~gauge
    OBVIOUS
  <1>4. /\ expires \in Vault!Times /\ vault_now \in Vault!Times /\ up_at \in 0 .. vault_now
        /\ renewals \in 0 .. MaxChecks /\ up_at = vault_now
    BY DEF Vault!Times
  <1> QED BY <1>2, <1>3, <1>4 DEF VaultInv, Vault!TypeOK

LEMMA VaultTypes ==
  ASSUME VaultInv
  PROVE  /\ vault_up \in BOOLEAN /\ sealed \in BOOLEAN /\ gauge \in BOOLEAN
         /\ vault_now \in Nat /\ vault_now <= VaultTime /\ expires \in Nat /\ expires <= VaultTime
         /\ up_at \in Nat /\ up_at <= vault_now
         /\ health_at # None => health_at \in Nat /\ health_at <= VaultTime
         /\ monitor_at # None => monitor_at \in Nat /\ monitor_at <= VaultTime
         /\ renewals \in Nat /\ renewals <= MaxChecks
  BY VaultConstants DEF VaultInv, Vault!TypeOK, Vault!Times

\* An answer of the manager is younger than the interval, or true now.
LEMMA VaultHealthy ==
  ASSUME VaultInv, Vault!IsHealthy
  PROVE  vault_now < up_at + health_interval
  <1>1. CASE Vault!Recent(health_at)
    BY <1>1, VaultConstants, VaultTypes DEF Vault!Recent, VaultInv
  <1>2. CASE Vault!Authenticated
    BY <1>2, VaultConstants, VaultTypes DEF Vault!Authenticated, VaultInv
  <1> QED BY <1>1, <1>2 DEF Vault!IsHealthy

\* What the manager remembers of its latest look.
LEMMA VaultRemembers ==
  ASSUME VaultInv
  PROVE  /\ Vault!HealthAt \in Vault!Times \union {None}
         /\ Vault!HealthAt # None => Vault!HealthAt <= up_at
  BY VaultConstants, VaultTypes DEF Vault!HealthAt, VaultInv, Vault!TypeOK, Vault!Times

\* What an answer says holds for less than twice the interval.
LEMMA VaultTells ==
  ASSUME VaultInv, NEW ok \in BOOLEAN, NEW aged \in BOOLEAN, Vault!Tell(ok, aged),
         ok /\ ~aged /\ manager = "vault" => vault_now < up_at + 2 * health_interval
  PROVE  told' \in [ok : BOOLEAN, away : Vault!Times, aged : BOOLEAN]
         /\ (told'.ok /\ ~told'.aged => told'.away < 2 * health_interval)
  <1>1. vault_now - up_at \in Vault!Times
    BY VaultConstants, VaultTypes DEF Vault!Times
  <1>2. /\ told'.ok = (ok /\ manager = "vault") /\ told'.away = vault_now - up_at
        /\ told'.aged = aged
    BY DEF Vault!Tell
  <1>3. told'.ok /\ ~told'.aged => told'.away < 2 * health_interval
    <2>1. told'.ok /\ ~told'.aged => ok /\ ~aged /\ manager = "vault"
      BY <1>2
    <2>2. ok /\ ~aged /\ manager = "vault" => vault_now - up_at < 2 * health_interval
      BY VaultConstants, VaultTypes
    <2> QED BY <1>2, <2>1, <2>2
  <1> QED BY <1>1, <1>3 DEF Vault!Tell

LEMMA VaultCheckHealth ==
  ASSUME VaultInv, Vault!CheckHealth
  PROVE  VaultInv'
  <1>1. Vault!Healthy \in BOOLEAN
    BY DEF Vault!Healthy, Vault!IsHealthy, Vault!Authenticated, Vault!Recent
  <1>2. Vault!Healthy /\ manager = "vault" => vault_now < up_at + 2 * health_interval
    BY VaultHealthy, VaultConstants, VaultTypes DEF Vault!Healthy
  <1>3. Vault!Tell(Vault!Healthy, FALSE)
    BY DEF Vault!CheckHealth
  <1>4. told' \in [ok : BOOLEAN, away : Vault!Times, aged : BOOLEAN]
        /\ (told'.ok /\ ~told'.aged => told'.away < 2 * health_interval)
    BY <1>1, <1>2, <1>3, VaultTells
  <1>5. /\ health_at' \in Vault!Times \union {None} /\ (health_at' # None => health_at' <= up_at)
        /\ UNCHANGED <<vault_up, sealed, expires, manager, monitor_at, gauge, renewals,
                       vault_now, up_at>>
    BY VaultRemembers DEF Vault!CheckHealth, VaultInv, Vault!TypeOK
  <1> QED BY <1>4, <1>5 DEF VaultInv, Vault!TypeOK

\* What is less than d is what is left of it by d.
LEMMA LessIsRest ==
  ASSUME NEW a \in Nat, NEW d \in Nat, a < d
  PROVE  a % d = a
  OBVIOUS

LEMMA VaultCheckVaultHealth ==
  ASSUME VaultInv, Vault!CheckVaultHealth
  PROVE  VaultInv'
  <1>0. UNCHANGED <<vault_up, sealed, expires, manager, renewals, vault_now, up_at>>
    BY DEF Vault!CheckVaultHealth
  <1>1. CASE Vault!RecentOfMonitor
    <2> DEFINE aged == vault_now - monitor_at >= vault_day
    <2>1. Vault!Tell(gauge, aged) /\ UNCHANGED <<health_at, monitor_at, gauge>>
      BY <1>1 DEF Vault!CheckVaultHealth
    <2>2. gauge /\ ~aged /\ manager = "vault" => vault_now < up_at + 2 * health_interval
      <3> SUFFICES ASSUME gauge, ~aged, manager = "vault"
                   PROVE  vault_now < up_at + 2 * health_interval
        OBVIOUS
      <3>1. /\ monitor_at \in Nat /\ monitor_at < up_at + health_interval
            /\ vault_now \in Nat /\ up_at \in Nat
            /\ vault_day \in Nat \ {0} /\ health_interval \in Nat \ {0}
            /\ vault_now - monitor_at < vault_day
            /\ (vault_now - monitor_at) % vault_day < health_interval
        BY <1>1, VaultConstants, VaultTypes DEF Vault!RecentOfMonitor, VaultInv
      <3>2. CASE vault_now < monitor_at
        BY ONLY <3>1, <3>2
      <3>3. CASE vault_now >= monitor_at
        <4>1. vault_now - monitor_at \in Nat
          BY ONLY <3>1, <3>3
        <4>2. (vault_now - monitor_at) % vault_day = vault_now - monitor_at
          BY <3>1, <4>1, LessIsRest
        <4>3. vault_now - monitor_at < health_interval
          BY <3>1, <4>2
        <4> QED BY ONLY <3>1, <4>3
      <3> QED BY <3>1, <3>2, <3>3
    <2>4. aged \in BOOLEAN
      OBVIOUS
    <2> HIDE DEF aged
    <2>3. told' \in [ok : BOOLEAN, away : Vault!Times, aged : BOOLEAN]
          /\ (told'.ok /\ ~told'.aged => told'.away < 2 * health_interval)
      BY <2>1, <2>2, <2>4, VaultTells, VaultTypes
    <2> QED BY <1>0, <2>1, <2>3 DEF VaultInv, Vault!TypeOK
  <1>2. CASE ~Vault!RecentOfMonitor
    <2>1. /\ gauge' = Vault!Healthy /\ monitor_at' = vault_now /\ Vault!Tell(Vault!Healthy, FALSE)
          /\ manager # "none"
      BY <1>2 DEF Vault!CheckVaultHealth
    <2>2. Vault!Healthy \in BOOLEAN
      BY DEF Vault!Healthy, Vault!IsHealthy, Vault!Authenticated, Vault!Recent
    <2>3. Vault!Healthy /\ manager = "vault" => vault_now < up_at + health_interval
      BY VaultHealthy DEF Vault!Healthy
    <2>4. told' \in [ok : BOOLEAN, away : Vault!Times, aged : BOOLEAN]
          /\ (told'.ok /\ ~told'.aged => told'.away < 2 * health_interval)
      <3>1. Vault!Healthy /\ manager = "vault" => vault_now < up_at + 2 * health_interval
        BY <2>3, VaultConstants, VaultTypes
      <3> QED BY <2>1, <2>2, <3>1, VaultTells
    <2>5. /\ health_at' \in Vault!Times \union {None}
          /\ (health_at' # None => health_at' <= up_at)
      BY <1>2, VaultRemembers DEF Vault!CheckVaultHealth, VaultInv, Vault!TypeOK
    <2>6. monitor_at' \in Vault!Times /\ monitor_at' # None
      BY <2>1, VaultConstants, VaultTypes DEF Vault!Times
    <2> QED BY <1>0, <2>1, <2>2, <2>3, <2>4, <2>5, <2>6 DEF VaultInv, Vault!TypeOK
  <1> QED BY <1>1, <1>2

LEMMA VaultNext == VaultInv /\ [Vault!Next]_vaultVars => VaultInv'
  <1> SUFFICES ASSUME VaultInv, [Vault!Next]_vaultVars PROVE VaultInv'
    OBVIOUS
  <1> USE VaultConstants
  <1>1. CASE Vault!Choose
    BY <1>1 DEF Vault!Choose, VaultInv, Vault!TypeOK
  <1>2. CASE Vault!CheckTokenStatus
    <2>1. renewals' \in 0 .. MaxChecks
      BY <1>2, VaultTypes DEF Vault!CheckTokenStatus, VaultInv, Vault!TypeOK
    <2> QED BY <1>2, <2>1 DEF Vault!CheckTokenStatus, VaultInv, Vault!TypeOK
  <1>3. CASE Vault!Reach
    <2>1. /\ vault_up' \in BOOLEAN /\ up_at' = vault_now /\ vault_now \in 0 .. vault_now
          /\ UNCHANGED <<sealed, expires, manager, health_at, monitor_at, gauge, renewals,
                         vault_now, told>>
      BY <1>3, VaultTypes DEF Vault!Reach
    <2>2. /\ health_at # None => health_at <= vault_now
          /\ (gauge /\ manager = "vault") =>
               monitor_at # None /\ monitor_at < vault_now + health_interval
      BY VaultTypes DEF VaultInv
    <2> QED BY <2>1, <2>2 DEF VaultInv, Vault!TypeOK
  <1>4. CASE Vault!Seal
    BY <1>4 DEF Vault!Seal, VaultInv, Vault!TypeOK
  <1>5. CASE Vault!Revoke
    BY <1>5 DEF Vault!Revoke, VaultInv, Vault!TypeOK
  <1>6. CASE Vault!Tick
    <2>1. /\ vault_now' = vault_now + 1 /\ vault_now' \in Vault!Times
          /\ up_at' \in 0 .. vault_now' /\ up_at' >= up_at /\ (vault_up => up_at' = vault_now')
          /\ UNCHANGED <<vault_up, sealed, expires, manager, health_at, monitor_at, gauge,
                         renewals, told>>
      BY <1>6, VaultTypes DEF Vault!Tick, Vault!Times
    <2>2. /\ health_at # None => health_at <= up_at'
          /\ (gauge /\ manager = "vault") =>
               monitor_at # None /\ monitor_at < up_at' + health_interval
      BY <2>1, VaultTypes DEF VaultInv
    <2> QED BY <2>1, <2>2 DEF VaultInv, Vault!TypeOK
  <1>7. CASE UNCHANGED vaultVars
    BY <1>7 DEF vaultVars, VaultInv, Vault!TypeOK
  <1> QED BY <1>1, <1>2, <1>3, <1>4, <1>5, <1>6, <1>7, VaultCheckHealth, VaultCheckVaultHealth
          DEF Vault!Next

LEMMA VaultSound == VaultInv => Vault!OutagesAreReported
  BY DEF VaultInv, Vault!OutagesAreReported

-----------------------------------------------------------------------------
(*****************************************************************************)
(* The scripts.  The migration accounts for the keys it has passed: each     *)
(* was written, failed or was skipped, once; a dry run writes nothing; a     *)
(* rotation restarts the pods only after it wrote.                           *)
(*****************************************************************************)
\* The secrets before the one the migration is at, and its counts.
Passed == {FileKeys[i] : i \in 1 .. file_position - 1}

\* Each key that was passed was migrated, failed or was skipped.
MigrationAccounts ==
  /\ failed_secrets \subseteq Passed /\ skipped_secrets \subseteq Passed
  /\ failed_secrets \intersect skipped_secrets = {}
  /\ file_position - 1 =
       success + Cardinality(failed_secrets) + Cardinality(skipped_secrets)
  /\ progress <= (IF migration = "verifying" THEN file_position ELSE file_position - 1)

\* What the migration has written, and what it may exit with.
MigrationWrites ==
  /\ migration = "verifying" =>
       file_position <= Len(FileKeys) /\ FileKeys[file_position] \in written /\ ~Script!DryMigration
  /\ migration = "exit 0" =>
       file_position = Len(FileKeys) + 1 /\ failed_secrets = {} /\ skipped_secrets = {}
  /\ ~Script!DryMigration => Passed \subseteq written \union failed_secrets \union skipped_secrets
  /\ \A k \in written : stored[k] \in {"migration", "rotation"}
  /\ Script!DryMigration => written = {} /\ \A k \in Script!Secret : stored[k] # "migration"

\* Pods restart only for a secret that was written.
RotationRestarts ==
  /\ rollout = "not asked" => pods = was[rotated]
  /\ rollout # "not asked" => rotation \in {"waiting", "exit 0"} /\ ~Script!DryRotation
  /\ Script!DryRotation =>
       rotation \in {"starting", "exit 0", "exit 1"} /\ \A k \in Script!Secret : stored[k] # "rotation"

\* Both scripts together.
ScriptInv == Script!TypeOK /\ MigrationAccounts /\ MigrationWrites /\ RotationRestarts

LEMMA ScriptConstants ==
  /\ FileKeys \in Seq(Script!Secret) /\ Len(FileKeys) \in Nat /\ timeout \in Nat \ {0}
  /\ \A i, j \in 1 .. Len(FileKeys) : FileKeys[i] = FileKeys[j] => i = j
  /\ Script!Secret = {FileKeys[i] : i \in 1 .. Len(FileKeys)}
  /\ \A S : Script!Cardinality(S) = Cardinality(S)
  <1>1. /\ FileKeys \in Seq(Script!Secret) /\ Script!Cardinality(Script!Secret) = Len(FileKeys)
        /\ timeout \in Nat \ {0}
    BY AdministrationAssumption DEF Script!ScriptsAssumption, Script!Secret
  <1>2. \A S : Script!Cardinality(S) = Cardinality(S)
    BY DEF Script!Cardinality, Cardinality
  <1> DEFINE n == Len(FileKeys)
  <1>3. n \in Nat /\ DOMAIN FileKeys = 1 .. n /\ FileKeys \in [1 .. n -> Script!Secret]
    BY <1>1
  <1>4. Script!Secret = {FileKeys[i] : i \in 1 .. n}
    BY <1>3 DEF Script!Secret, Script!ToSet
  <1>5. FileKeys \in Surjection(1 .. n, Script!Secret)
    BY <1>3, <1>4 DEF Surjection
  <1>6. IsFiniteSet(1 .. n) /\ Cardinality(1 .. n) = n
    BY <1>3, FS_Interval
  <1>7. FileKeys \in Injection(1 .. n, Script!Secret)
    BY <1>1, <1>2, <1>5, <1>6, FS_SurjSameCardinalityImpliesInj
  <1>8. \A i, j \in 1 .. n : FileKeys[i] = FileKeys[j] => i = j
    BY <1>7 DEF Injection, IsInjective
  <1> QED BY <1>1, <1>2, <1>3, <1>4, <1>8

LEMMA ScriptFile ==
  /\ \A i \in 1 .. Len(FileKeys) : FileKeys[i] \in Script!Secret
  /\ \A k \in Script!Secret : \E i \in 1 .. Len(FileKeys) : k = FileKeys[i]
  /\ \A i, j \in 1 .. Len(FileKeys) : FileKeys[i] = FileKeys[j] => i = j
  BY ScriptConstants

LEMMA ScriptNumbers == Len(FileKeys) \in Nat /\ timeout \in Nat \ {0}
  BY ScriptConstants

LEMMA ScriptInit == Script!Init => ScriptInv
  <1> SUFFICES ASSUME Script!Init PROVE ScriptInv
    OBVIOUS
  <1> USE ScriptNumbers
  <1>1. /\ values \in Files /\ was \in [Script!Secret -> {"nobody", "old"}] /\ stored = was
        /\ dry_run \subseteq {"migration", "rotation"} /\ rollout_asked \in BOOLEAN
        /\ migration = "starting" /\ file_position = 1 /\ backup = None /\ success = 0
        /\ failed_secrets = {} /\ skipped_secrets = {} /\ progress = 0 /\ written = {}
        /\ rotation = "starting" /\ rotated \in Script!Secret /\ polls = 0
        /\ rollout = "not asked" /\ pods = stored[rotated]
    BY DEF Script!Init
  <1>2. \A k \in Script!Secret : stored[k] \in {"nobody", "old"}
    BY <1>1
  <1>3. Script!TypeOK
    <2>1. stored \in [Script!Secret -> Script!Writers] /\ pods \in Script!Writers
      BY <1>1 DEF Script!Writers
    <2>2. /\ 1 \in 1 .. Len(FileKeys) + 1 /\ 0 \in 0 .. Len(FileKeys) /\ 0 \in 0 .. timeout
      OBVIOUS
    <2> QED BY <1>1, <2>1, <2>2 DEF Script!TypeOK
  <1>4. Passed = {} /\ Cardinality({}) = 0
    <2>1. file_position = 1
      BY <1>1
    <2>2. 1 .. file_position - 1 = {}
      BY ONLY <2>1
    <2> QED BY <2>2, FS_EmptySet DEF Passed
  <1>5. MigrationAccounts
    <2>1. /\ file_position = 1 /\ success = 0 /\ progress = 0
          /\ Cardinality(failed_secrets) = 0 /\ Cardinality(skipped_secrets) = 0
      BY <1>1, <1>4
    <2>2. file_position - 1 = success + Cardinality(failed_secrets) + Cardinality(skipped_secrets)
      BY ONLY <2>1
    <2>3. progress <= (IF migration = "verifying" THEN file_position ELSE file_position - 1)
      BY ONLY <2>1
    <2> QED BY <1>1, <2>2, <2>3 DEF MigrationAccounts
  <1>6. MigrationWrites
    BY <1>1, <1>2, <1>4 DEF MigrationWrites
  <1>7. RotationRestarts
    BY <1>1, <1>2 DEF RotationRestarts
  <1> QED BY <1>3, <1>5, <1>6, <1>7 DEF ScriptInv

\* The sets of the migration are finite, so its counts are numbers.
LEMMA ScriptCounts ==
  ASSUME ScriptInv
  PROVE  /\ file_position \in Nat /\ 1 <= file_position /\ file_position <= Len(FileKeys) + 1
         /\ success \in Nat /\ progress \in Nat
         /\ IsFiniteSet(failed_secrets) /\ Cardinality(failed_secrets) \in Nat
         /\ IsFiniteSet(skipped_secrets) /\ Cardinality(skipped_secrets) \in Nat
  <1>1. IsFiniteSet(Script!Secret)
    <2>1. IsFiniteSet({FileKeys[i] : i \in 1 .. Len(FileKeys)})
      <3>1. \A j, k \in 1 .. Len(FileKeys) : j # k => FileKeys[j] # FileKeys[k]
        BY ScriptConstants
      <3> QED BY <3>1, ScriptNumbers, DistinctCount
    <2> QED BY <2>1, ScriptConstants
  <1>2. failed_secrets \subseteq Script!Secret /\ skipped_secrets \subseteq Script!Secret
    BY DEF ScriptInv, Script!TypeOK
  <1>3. IsFiniteSet(failed_secrets) /\ IsFiniteSet(skipped_secrets)
    BY <1>1, <1>2, FS_Subset
  <1>4. Cardinality(failed_secrets) \in Nat /\ Cardinality(skipped_secrets) \in Nat
    BY <1>3, FS_CardinalityType
  <1>5. file_position \in 1 .. Len(FileKeys) + 1 /\ success \in 0 .. Len(FileKeys)
        /\ progress \in 0 .. Len(FileKeys)
    BY DEF ScriptInv, Script!TypeOK
  <1> QED BY <1>3, <1>4, <1>5, ScriptNumbers

\* The migration goes on to the next secret of the file.
LEMMA ScriptGoes ==
  ASSUME ScriptInv, NEW outcome \in {"success", "failed", "skipped"}, Script!Goes(outcome),
         file_position <= Len(FileKeys), UNCHANGED <<written, dry_run, stored, progress>>,
         migration \in {"writing", "verifying"},
         ~Script!DryMigration =>
           outcome # "success" \/ FileKeys[file_position] \in written
  PROVE  /\ file_position' \in 1 .. Len(FileKeys) + 1 /\ success' \in 0 .. Len(FileKeys)
         /\ failed_secrets' \subseteq Script!Secret /\ skipped_secrets' \subseteq Script!Secret
         /\ MigrationAccounts' /\ MigrationWrites'
  <1> USE ScriptNumbers
  <1> DEFINE k == FileKeys[file_position]
  <1>1. /\ migration' = "writing" /\ file_position' = file_position + 1
        /\ success' = IF outcome = "success" THEN success + 1 ELSE success
        /\ failed_secrets' = IF outcome = "failed" THEN failed_secrets \union {k} ELSE failed_secrets
        /\ skipped_secrets' =
             IF outcome = "skipped" THEN skipped_secrets \union {k} ELSE skipped_secrets
    BY DEF Script!Goes, Script!Current
  <1>0. /\ file_position \in Nat /\ 1 <= file_position /\ success \in Nat /\ progress \in Nat
        /\ IsFiniteSet(failed_secrets) /\ Cardinality(failed_secrets) \in Nat
        /\ IsFiniteSet(skipped_secrets) /\ Cardinality(skipped_secrets) \in Nat
    BY ScriptCounts
  <1>2. k \in Script!Secret /\ k \notin Passed
    BY <1>0, ScriptFile DEF Passed
  <1>3. Passed' = Passed \union {k}
    BY <1>0, <1>1 DEF Passed
  <1>4. failed_secrets \subseteq Passed /\ skipped_secrets \subseteq Passed
    BY DEF ScriptInv, MigrationAccounts
  <1>5. /\ failed_secrets' \subseteq Passed' /\ skipped_secrets' \subseteq Passed'
        /\ failed_secrets' \intersect skipped_secrets' = {}
    BY <1>1, <1>2, <1>3, <1>4 DEF ScriptInv, MigrationAccounts
  <1>6. /\ Cardinality(failed_secrets') =
             Cardinality(failed_secrets) + (IF outcome = "failed" THEN 1 ELSE 0)
        /\ Cardinality(skipped_secrets') =
             Cardinality(skipped_secrets) + (IF outcome = "skipped" THEN 1 ELSE 0)
    <2>1. /\ Cardinality(failed_secrets \union {k}) = Cardinality(failed_secrets) + 1
          /\ Cardinality(skipped_secrets \union {k}) = Cardinality(skipped_secrets) + 1
      BY <1>2, <1>4, <1>0, FS_AddElement
    <2> QED BY <1>1, <2>1, <1>0
  <1>7. file_position' - 1 =
          success' + Cardinality(failed_secrets') + Cardinality(skipped_secrets')
    <2>1. file_position - 1 =
            success + Cardinality(failed_secrets) + Cardinality(skipped_secrets)
      BY DEF ScriptInv, MigrationAccounts
    <2>2. success' = success + (IF outcome = "success" THEN 1 ELSE 0)
      BY <1>1, <1>0
    <2> QED BY <1>1, <1>6, <2>1, <2>2, <1>0
  <1>8. /\ Cardinality(failed_secrets') \in Nat /\ Cardinality(skipped_secrets') \in Nat
        /\ success' \in Nat
    BY <1>1, <1>6, <1>0
  <1>9. progress <= file_position' - 1
    BY <1>1, <1>0 DEF ScriptInv, MigrationAccounts
  <1>10. MigrationAccounts'
    BY <1>1, <1>5, <1>7, <1>9 DEF MigrationAccounts
  <1>11. success' <= Len(FileKeys)
    BY <1>1, <1>7, <1>8, <1>0
  <1>12. ~Script!DryMigration => Passed' \subseteq written \union failed_secrets' \union skipped_secrets'
    BY <1>1, <1>3 DEF ScriptInv, MigrationWrites
  <1>13. MigrationWrites'
    BY <1>1, <1>12 DEF ScriptInv, MigrationWrites, Script!DryMigration
  <1>14. file_position' \in 1 .. Len(FileKeys) + 1 /\ success' \in 0 .. Len(FileKeys)
    BY <1>0, <1>1, <1>8, <1>11
  <1>15. failed_secrets' \subseteq Script!Secret /\ skipped_secrets' \subseteq Script!Secret
    <2>1. failed_secrets \subseteq Script!Secret /\ skipped_secrets \subseteq Script!Secret
      BY DEF ScriptInv, Script!TypeOK
    <2> QED BY <1>1, <1>2, <2>1
  <1> QED BY <1>10, <1>13, <1>14, <1>15

LEMMA ScriptMigrates ==
  ASSUME ScriptInv, Script!StartMigration \/ Script!DryRun \/ Script!Skip \/ Script!Verify
                      \/ Script!EndMigration
  PROVE  ScriptInv'
  <1> USE ScriptNumbers
  <1>1. CASE Script!StartMigration
    <2>1. /\ migration = "starting" /\ migration' \in {"exit 1", "writing"}
          /\ backup' \in {backup, None, stored}
          /\ UNCHANGED <<values, stored, dry_run, rollout_asked, file_position, success,
                         failed_secrets, skipped_secrets, progress, rotation, rotated, polls,
                         rollout, pods, was, written>>
      BY <1>1 DEF Script!StartMigration, Script!MigrationExits, Script!options,
                  Script!rotationVars
    <2>2. Script!TypeOK'
      BY <2>1 DEF ScriptInv, Script!TypeOK
    <2>3. MigrationAccounts'
      BY <2>1 DEF ScriptInv, MigrationAccounts, Passed
    <2> QED BY <2>1, <2>2, <2>3 DEF ScriptInv, MigrationWrites, Passed,
               RotationRestarts, Script!DryMigration, Script!DryRotation
  <1>2. ASSUME NEW outcome \in {"success", "failed", "skipped"}, Script!Goes(outcome),
               file_position <= Len(FileKeys), migration \in {"writing", "verifying"},
               ~Script!DryMigration =>
                 outcome # "success" \/ FileKeys[file_position] \in written,
               UNCHANGED <<values, stored, dry_run, rollout_asked, backup, progress, rotation,
                           rotated, polls, rollout, pods, was, written>>
        PROVE  ScriptInv'
    <2>1. /\ file_position' \in 1 .. Len(FileKeys) + 1 /\ success' \in 0 .. Len(FileKeys)
          /\ failed_secrets' \subseteq Script!Secret /\ skipped_secrets' \subseteq Script!Secret
          /\ MigrationAccounts' /\ MigrationWrites'
      BY <1>2, ScriptGoes
    <2>2. migration' = "writing"
      BY <1>2 DEF Script!Goes
    <2>3. Script!TypeOK'
      BY <1>2, <2>1, <2>2 DEF ScriptInv, Script!TypeOK
    <2>4. RotationRestarts'
      BY <1>2 DEF ScriptInv, RotationRestarts, Script!DryRotation
    <2> QED BY <2>1, <2>3, <2>4 DEF ScriptInv
  <1>3. CASE Script!DryRun
    BY <1>2, <1>3 DEF Script!DryRun, Script!More, Script!options, Script!rotationVars
  <1>4. CASE Script!Skip
    BY <1>2, <1>4 DEF Script!Skip, Script!More, Script!options, Script!rotationVars
  <1>5. CASE Script!Verify
    <2>1. FileKeys[file_position] \in written /\ file_position <= Len(FileKeys)
      BY <1>5 DEF Script!Verify, ScriptInv, MigrationWrites
    <2> QED BY <1>2, <1>5, <2>1 DEF Script!Verify, Script!Verdicts, Script!options,
                                     Script!rotationVars
  <1>6. CASE Script!EndMigration
    <2>0. file_position = Len(FileKeys) + 1
      <3>1. file_position > Len(FileKeys)
        BY <1>6 DEF Script!EndMigration
      <3>2. file_position \in Nat /\ file_position <= Len(FileKeys) + 1
        BY ScriptCounts
      <3> QED BY <3>1, <3>2, ScriptNumbers
    <2>1. /\ migration = "writing" /\ migration' \in {"exit 0", "exit 1"}
          /\ migration' = "exit 0" => failed_secrets = {} /\ skipped_secrets = {}
          /\ UNCHANGED <<values, stored, dry_run, rollout_asked, file_position, backup, success,
                         failed_secrets, skipped_secrets, progress, rotation, rotated, polls,
                         rollout, pods, was, written>>
      BY <1>6 DEF Script!EndMigration, Script!MigrationExits, Script!AllMigrated,
                  Script!options, Script!rotationVars
    <2>2. Script!TypeOK'
      BY <2>1 DEF ScriptInv, Script!TypeOK
    <2> QED BY <2>0, <2>1, <2>2 DEF ScriptInv, MigrationAccounts, MigrationWrites, Passed,
               RotationRestarts, Script!DryMigration, Script!DryRotation
  <1> QED BY <1>1, <1>3, <1>4, <1>5, <1>6

LEMMA ScriptMigrate ==
  ASSUME ScriptInv, Script!Migrate
  PROVE  ScriptInv'
  <1> USE ScriptNumbers
  <1> DEFINE k == FileKeys[file_position]
  <1>1. /\ migration = "writing" /\ file_position <= Len(FileKeys) /\ ~Script!DryMigration
        /\ UNCHANGED <<values, dry_run, rollout_asked, was, backup, rotation, rotated, polls,
                       rollout, pods>>
    BY DEF Script!Migrate, Script!More, Script!options, Script!rotationVars
  <1>2. CASE Script!Goes("failed") /\ UNCHANGED <<stored, written, progress>>
    <2>1. /\ file_position' \in 1 .. Len(FileKeys) + 1 /\ success' \in 0 .. Len(FileKeys)
          /\ failed_secrets' \subseteq Script!Secret /\ skipped_secrets' \subseteq Script!Secret
          /\ MigrationAccounts' /\ MigrationWrites'
      BY <1>1, <1>2, ScriptGoes
    <2>2. migration' = "writing"
      BY <1>2 DEF Script!Goes
    <2>3. Script!TypeOK'
      BY <1>1, <1>2, <2>1, <2>2 DEF ScriptInv, Script!TypeOK
    <2>4. RotationRestarts'
      BY <1>1, <1>2 DEF ScriptInv, RotationRestarts, Script!DryRotation
    <2> QED BY <2>1, <2>3, <2>4 DEF ScriptInv
  <1>3. CASE /\ stored' = [stored EXCEPT ![k] = "migration"] /\ written' = written \union {k}
             /\ progress' = progress + 1 /\ migration' = "verifying"
             /\ UNCHANGED <<file_position, success, failed_secrets, skipped_secrets>>
    <2>1. k \in Script!Secret
      BY <1>1, ScriptCounts, ScriptConstants
    <2>2. progress <= file_position - 1
      BY <1>1 DEF ScriptInv, MigrationAccounts
    <2>3. Script!TypeOK'
      <3>1. progress' \in 0 .. Len(FileKeys)
        BY <1>1, <1>3, <2>2, ScriptCounts
      <3> QED BY <1>1, <1>3, <2>1, <3>1 DEF ScriptInv, Script!TypeOK, Script!Writers
    <2>4. MigrationAccounts'
      BY <1>3, <2>2, ScriptCounts DEF ScriptInv, MigrationAccounts, Passed
    <2>5. stored \in [Script!Secret -> Script!Writers] /\ written \subseteq Script!Secret
      BY DEF ScriptInv, Script!TypeOK
    <2>6. MigrationWrites'
      <3>1. Passed' \subseteq written' \union failed_secrets' \union skipped_secrets'
        BY <1>1, <1>3 DEF ScriptInv, MigrationWrites, Passed
      <3>2. ASSUME NEW s \in written' PROVE stored'[s] \in {"migration", "rotation"}
        <4>1. CASE s = k
          BY <1>3, <2>1, <2>5, <4>1
        <4>2. CASE s # k
          <5>1. s \in written /\ s \in Script!Secret
            BY <1>3, <2>5, <4>2
          <5>2. stored'[s] = stored[s]
            BY <1>3, <2>5, <4>2, <5>1
          <5> QED BY <5>1, <5>2 DEF ScriptInv, MigrationWrites
        <4> QED BY <4>1, <4>2
      <3>3. ~Script!DryMigration'
        BY <1>1 DEF Script!DryMigration
      <3> QED BY <1>1, <1>3, <3>1, <3>2, <3>3 DEF MigrationWrites
    <2>7. RotationRestarts'
      BY <1>1, <1>3, <2>5 DEF ScriptInv, RotationRestarts, Script!DryRotation
    <2> QED BY <2>3, <2>4, <2>6, <2>7 DEF ScriptInv
  <1> QED BY <1>2, <1>3 DEF Script!Migrate, Script!Current

\* No step of the rotation disturbs what the migration has counted and written.
LEMMA ScriptRotates ==
  ASSUME ScriptInv, UNCHANGED Script!migrationVars, UNCHANGED Script!options,
         rotated' = rotated,
         \/ UNCHANGED stored
         \/ ~Script!DryRotation /\ stored' = [stored EXCEPT ![rotated] = "rotation"]
  PROVE  /\ MigrationAccounts' /\ MigrationWrites'
         /\ stored' \in [Script!Secret -> Script!Writers]
  <1>1. /\ UNCHANGED <<values, dry_run, rollout_asked, was, migration, file_position, backup,
                       success, failed_secrets, skipped_secrets, progress, written>>
        /\ stored \in [Script!Secret -> Script!Writers] /\ rotated \in Script!Secret
        /\ written \subseteq Script!Secret
    BY DEF Script!migrationVars, Script!options, ScriptInv, Script!TypeOK
  <1>2. stored' \in [Script!Secret -> Script!Writers]
        /\ \A k \in Script!Secret : stored'[k] \in {stored[k], "rotation"}
    BY <1>1 DEF Script!Writers
  <1>3. MigrationAccounts'
    BY <1>1 DEF ScriptInv, MigrationAccounts, Passed
  <1>4. MigrationWrites'
    BY <1>1, <1>2 DEF ScriptInv, MigrationWrites, Passed, Script!DryMigration
  <1> QED BY <1>2, <1>3, <1>4

LEMMA ScriptRotation ==
  ASSUME ScriptInv, Script!Rotate \/ Script!VerifyRotation \/ Script!Patch
                      \/ Script!PodsRestart \/ Script!Poll \/ Script!GiveUp
  PROVE  ScriptInv'
  <1> USE ScriptNumbers
  <1>1. /\ UNCHANGED Script!migrationVars /\ UNCHANGED Script!options /\ rotated' = rotated
        /\ \/ UNCHANGED stored
           \/ ~Script!DryRotation /\ stored' = [stored EXCEPT ![rotated] = "rotation"]
    BY DEF Script!Rotate, Script!VerifyRotation, Script!Patch, Script!PodsRestart, Script!Poll,
           Script!GiveUp, Script!RotationGoes
  <1>2. /\ MigrationAccounts' /\ MigrationWrites'
        /\ stored' \in [Script!Secret -> Script!Writers]
    BY <1>1, ScriptRotates
  <1>3. /\ UNCHANGED <<values, dry_run, rollout_asked, was, migration, file_position, backup,
                       success, failed_secrets, skipped_secrets, progress, written>>
        /\ stored \in [Script!Secret -> Script!Writers] /\ rotated \in Script!Secret
    BY <1>1 DEF Script!migrationVars, Script!options, ScriptInv, Script!TypeOK
  <1>4. /\ polls' \in 0 .. timeout /\ pods' \in Script!Writers
        /\ rotation' \in {"starting", "verifying", "patching", "waiting", "exit 0", "exit 1"}
        /\ rollout' \in {"not asked", "asked", "complete"}
    <2>1. /\ polls \in 0 .. timeout /\ pods \in Script!Writers
          /\ rotation \in {"starting", "verifying", "patching", "waiting", "exit 0", "exit 1"}
          /\ rollout \in {"not asked", "asked", "complete"}
      BY DEF ScriptInv, Script!TypeOK
    <2>2. CASE Script!Rotate
      BY <2>1, <2>2 DEF Script!Rotate, Script!RotationGoes
    <2>3. CASE Script!VerifyRotation
      BY <2>1, <2>3 DEF Script!VerifyRotation, Script!RotationGoes
    <2>4. CASE Script!Patch
      BY <2>1, <2>4 DEF Script!Patch, Script!RotationGoes
    <2>5. CASE Script!PodsRestart
      BY <1>3, <2>1, <2>5 DEF Script!PodsRestart
    <2>6. CASE Script!Poll
      <3>1. polls < timeout /\ (polls' = polls \/ polls' = polls + 1)
        BY <2>6 DEF Script!Poll, Script!RotationGoes
      <3>2. polls' \in 0 .. timeout
        <4>1. polls \in 0 .. timeout /\ timeout \in Nat
          BY <2>1
        <4> QED BY ONLY <3>1, <4>1
      <3> QED BY <2>1, <2>6, <3>2 DEF Script!Poll, Script!RotationGoes
    <2>7. CASE Script!GiveUp
      BY <2>1, <2>7 DEF Script!GiveUp, Script!RotationGoes
    <2> QED BY <2>2, <2>3, <2>4, <2>5, <2>6, <2>7
  <1>5. Script!TypeOK'
    BY <1>1, <1>2, <1>3, <1>4 DEF ScriptInv, Script!TypeOK
  <1>6. RotationRestarts'
    <2>1. CASE Script!Rotate
      BY <1>1, <1>3, <2>1 DEF Script!Rotate, Script!RotationGoes, Script!DryRotation, ScriptInv,
                         RotationRestarts
    <2>2. CASE Script!VerifyRotation
      BY <1>3, <2>2 DEF Script!VerifyRotation, Script!RotationGoes, Script!DryRotation, ScriptInv,
                         RotationRestarts
    <2>3. CASE Script!Patch
      BY <1>3, <2>3 DEF Script!Patch, Script!RotationGoes, Script!DryRotation, ScriptInv,
                         RotationRestarts
    <2>4. CASE Script!PodsRestart
      BY <1>3, <2>4 DEF Script!PodsRestart, Script!DryRotation, ScriptInv, RotationRestarts
    <2>5. CASE Script!Poll \/ Script!GiveUp
      BY <1>3, <2>5 DEF Script!Poll, Script!GiveUp, Script!RotationGoes, Script!DryRotation,
                         ScriptInv, RotationRestarts
    <2> QED BY <2>1, <2>2, <2>3, <2>4, <2>5
  <1> QED BY <1>2, <1>5, <1>6 DEF ScriptInv

LEMMA ScriptNext == ScriptInv /\ [Script!Next]_scriptVars => ScriptInv'
  <1> SUFFICES ASSUME ScriptInv, [Script!Next]_scriptVars PROVE ScriptInv'
    OBVIOUS
  <1>1. CASE UNCHANGED scriptVars
    <2>1. Script!TypeOK'
      BY <1>1 DEF scriptVars, ScriptInv, Script!TypeOK
    <2>2. MigrationAccounts'
      BY <1>1 DEF scriptVars, ScriptInv, MigrationAccounts, Passed
    <2>3. MigrationWrites'
      BY <1>1 DEF scriptVars, ScriptInv, MigrationWrites, Passed, Script!DryMigration
    <2>4. RotationRestarts'
      BY <1>1 DEF scriptVars, ScriptInv, RotationRestarts, Script!DryRotation
    <2> QED BY <2>1, <2>2, <2>3, <2>4 DEF ScriptInv
  <1> QED BY <1>1, ScriptMigrates, ScriptMigrate, ScriptRotation DEF Script!Next

LEMMA ScriptSound == ScriptInv => Script!ScriptsAreHonest
  <1> SUFFICES ASSUME ScriptInv PROVE Script!ScriptsAreHonest
    OBVIOUS
  <1> USE ScriptNumbers
  <1>1. Script!ZeroMeansMigrated
    <2> SUFFICES ASSUME migration = "exit 0", ~Script!DryMigration, NEW k \in Script!Secret
                 PROVE  k \in written /\ stored[k] \in {"migration", "rotation"}
      BY DEF Script!ZeroMeansMigrated
    <2>1. Passed \subseteq written /\ file_position = Len(FileKeys) + 1
      BY DEF ScriptInv, MigrationWrites
    <2>2. k \in Passed
      <3>1. PICK i \in 1 .. Len(FileKeys) : k = FileKeys[i]
        BY ScriptFile
      <3>2. file_position = Len(FileKeys) + 1
        BY <2>1
      <3>3. file_position - 1 = Len(FileKeys)
        <4>1. Len(FileKeys) \in Nat
          OBVIOUS
        <4> QED BY ONLY <3>2, <4>1
      <3>4. i \in 1 .. file_position - 1
        BY <3>3
      <3> QED BY <3>1, <3>4 DEF Passed
    <2> QED BY <2>1, <2>2 DEF ScriptInv, MigrationWrites
  <1>2. Script!AllAccountedFor
    BY ScriptConstants DEF ScriptInv, MigrationAccounts, Script!AllAccountedFor
  <1>3. Script!DryRunsTouchNothing
    BY DEF ScriptInv, MigrationWrites, RotationRestarts, Script!DryRunsTouchNothing
  <1>4. Script!FailedRotationsRestartNothing
    BY DEF ScriptInv, RotationRestarts, Script!FailedRotationsRestartNothing
  <1> QED BY <1>1, <1>2, <1>3, <1>4 DEF Script!ScriptsAreHonest

-----------------------------------------------------------------------------
(*****************************************************************************)
(* The cached models.  Writers of one directory at one time know that they   *)
(* overlap; a writer that was alone finds what it copied, so a directory     *)
(* that was finished without overlap is whole, and one that never saw an     *)
(* overlap is described, on disk and in every memory, by whole models        *)
(* only.                                                                     *)
(*****************************************************************************)
\* Two replicas that write one directory know that they are two, and have mixed it.
OverlapsAreNoted ==
  \A p, q \in Replicas :
    p # q /\ Models!Writing(p) /\ Models!Writing(q) /\ at[p] = at[q] => p \in overlapped

\* A writer that another one came between has mixed its directory.
OverlapsMix == \A p \in Replicas : Models!Writing(p) /\ p \in overlapped => at[p] \in mixed

\* A directory that was finished without overlap is nobody's at the moment.
NobodyWritesClean == \A p \in Replicas : Models!Writing(p) => at[p] \notin clean

\* A lone writer finds what it copied.
SeesItsOwn(p) ==
  /\ cache_pc[p] \in {"preparing", "copying"} => content[p] \in Contents
  /\ (cache_pc[p] \in {"hashing", "describing", "dumping"} /\ p \notin overlapped) =>
       at[p] \in directory /\ model[at[p]] \in Contents
  /\ (cache_pc[p] \in {"describing", "dumping"} /\ p \notin overlapped) => content[p] = model[at[p]]

\* So do all.
LoneWritersSeeTheirOwn == \A p \in Replicas : SeesItsOwn(p)

\* Such a directory is there, with the model its metadata says.
CleanIsWhole ==
  \A d \in clean : d \in directory /\ model[d] \in Contents /\ metadata[d] = model[d]

\* Of a directory that no two replicas wrote at a time, only whole models are described:
\* in its file, in the memories, and to those who load it.
UnmixedAreWhole ==
  \A d \in Dirs \ mixed :
    /\ metadata[d] \in Contents \union {None, Torn}
    /\ \A p \in Replicas : memory[p][d] \in Contents \union {None}
    /\ \A p \in Replicas : (cache_pc[p] \in {"validating", "opening"} /\ at[p] = d) =>
         content[p] \in Contents \union {None}

\* The types, and what the writers of one directory know of each other.
CacheInv ==
  /\ Models!TypeOK
  /\ OverlapsAreNoted /\ OverlapsMix /\ NobodyWritesClean /\ LoneWritersSeeTheirOwn
  /\ CleanIsWhole /\ UnmixedAreWhole

LEMMA CacheConstants ==
  /\ MaxCaches \in Nat /\ None \notin Dirs
  /\ Partial \notin Contents /\ None \notin Contents /\ Partial # None
  /\ None \notin Models!Hashes /\ Torn \notin Models!Hashes /\ Torn # None
  /\ Contents \subseteq Models!Hashes /\ Models!Hashes \subseteq Contents \union {Partial, Nothing}
  BY AdministrationAssumption DEF Models!CacheAssumption, Models!Hashes

LEMMA CacheInit == Models!Init => CacheInv
  <1> SUFFICES ASSUME Models!Init PROVE CacheInv
    OBVIOUS
  <1> USE CacheConstants DEF Models!Init
  <1>1. Models!TypeOK
    <2>1. /\ model \in [Dirs -> Models!File]
          /\ metadata \in [Dirs -> Models!Hashes \union {Torn, None}]
          /\ memory \in [Replicas -> [Dirs -> Models!Hashes \union {None}]]
          /\ content \in [Replicas -> Models!Hashes \union {None}]
      BY DEF Models!File
    <2> QED BY <2>1 DEF Models!TypeOK, Models!Steps
  <1>2. \A p \in Replicas : cache_pc[p] = "idle"
    OBVIOUS
  <1> QED BY <1>1, <1>2 DEF CacheInv, OverlapsAreNoted, OverlapsMix, NobodyWritesClean,
             LoneWritersSeeTheirOwn, SeesItsOwn, CleanIsWhole, UnmixedAreWhole, Models!Writing,
             Models!Writes

\* The types, spelled out.
LEMMA CacheTypes ==
  ASSUME CacheInv
  PROVE  /\ model \in [Dirs -> Models!File]
         /\ metadata \in [Dirs -> Models!Hashes \union {Torn, None}]
         /\ directory \subseteq Dirs /\ clean \subseteq Dirs /\ mixed \subseteq Dirs
         /\ overlapped \subseteq Replicas
         /\ \A d \in Dirs : model[d] # None => d \in directory
         /\ memory \in [Replicas -> [Dirs -> Models!Hashes \union {None}]]
         /\ cache_pc \in [Replicas -> Models!Steps]
         /\ at \in [Replicas -> Dirs \union {None}]
         /\ content \in [Replicas -> Models!Hashes \union {None}]
         /\ \A p \in Replicas : (at[p] = None) = (cache_pc[p] = "idle")
         /\ \A p \in Replicas : cache_pc[p] # "idle" => at[p] \in Dirs
         /\ caches \in 0 .. MaxCaches
         /\ loaded \in [Replicas -> Contents \union {None}]
  BY DEF CacheInv, Models!TypeOK

\* A replica goes on: what the others do is as it was.
LEMMA CacheGoes ==
  ASSUME CacheInv, NEW p \in Replicas, NEW step \in Models!Steps,
         NEW d \in Dirs \union {None}, NEW c \in Models!Hashes \union {None},
         (d = None) = (step = "idle"), Models!Goes(p, step, d, c)
  PROVE  /\ cache_pc' \in [Replicas -> Models!Steps]
         /\ at' \in [Replicas -> Dirs \union {None}]
         /\ content' \in [Replicas -> Models!Hashes \union {None}]
         /\ \A q \in Replicas : (at'[q] = None) = (cache_pc'[q] = "idle")
         /\ cache_pc'[p] = step /\ at'[p] = d /\ content'[p] = c
         /\ \A q \in Replicas : q # p =>
              cache_pc'[q] = cache_pc[q] /\ at'[q] = at[q] /\ content'[q] = content[q]
  BY CacheTypes DEF Models!Goes

\* A replica begins to write a directory, or has done all it can of it.
LEMMA CacheBegins ==
  ASSUME CacheInv, NEW p \in Replicas, NEW d \in Dirs, cache_pc[p] = "idle",
         NEW step \in {"preparing", "removing", "idle"}, NEW e \in {d, None},
         NEW c \in Models!Hashes \union {None},
         (e = None) = (step = "idle"), step = "preparing" => c \in Contents,
         Models!Begins(p, d), Models!Goes(p, step, e, c),
         UNCHANGED <<metadata, memory, loaded>>, caches' \in 0 .. MaxCaches,
         model' \in [Dirs -> Models!File], directory' \subseteq Dirs,
         \A f \in Dirs : model'[f] # None => f \in directory',
         \A f \in Dirs : f # d => model'[f] = model[f],
         \A f \in Dirs : f # d => (f \in directory' <=> f \in directory)
  PROVE  CacheInv'
  <1> DEFINE others == {q \in Replicas \ {p} : Models!Writing(q) /\ at[q] = d}
  <1>1. /\ overlapped' = (overlapped \ {p}) \union (IF others = {} THEN {} ELSE others \union {p})
        /\ mixed' = IF others = {} THEN mixed ELSE mixed \union {d}
        /\ clean' = clean \ {d}
    BY DEF Models!Begins
  <1>2. /\ cache_pc' \in [Replicas -> Models!Steps]
        /\ at' \in [Replicas -> Dirs \union {None}]
        /\ content' \in [Replicas -> Models!Hashes \union {None}]
        /\ \A q \in Replicas : (at'[q] = None) = (cache_pc'[q] = "idle")
        /\ cache_pc'[p] = step /\ at'[p] = e /\ content'[p] = c
        /\ \A q \in Replicas : q # p =>
             cache_pc'[q] = cache_pc[q] /\ at'[q] = at[q] /\ content'[q] = content[q]
    <2>1. step \in Models!Steps
      BY DEF Models!Steps, Models!Writes
    <2> QED BY <2>1, CacheGoes
  <1>3. \A q \in Replicas : q # p /\ q \notin overlapped' => q \notin overlapped /\ q \notin others
    BY <1>1
  <1>4. \A q \in others : q \in overlapped' /\ p \in overlapped'
    BY <1>1
  <1>5. \A q \in Replicas : q # p => (Models!Writing(q)' <=> Models!Writing(q))
    BY <1>2 DEF Models!Writing
  <1>6. \A q \in Replicas : q # p /\ Models!Writing(q) /\ at[q] = d => q \in others
    OBVIOUS
  <1>7. Models!Writing(p)' => at'[p] = d
    BY <1>2 DEF Models!Writing, Models!Writes
  <1>8. mixed' \subseteq Dirs /\ mixed \subseteq mixed' /\ clean' \subseteq Dirs
    BY <1>1, CacheTypes
  <1>9. (p \in overlapped' => d \in mixed') /\ \A q \in others : d \in mixed'
    BY <1>1
  <1>10. \A q \in Replicas : q # p /\ q \in overlapped' => q \in overlapped \/ q \in others
    BY <1>1
  <1>11. OverlapsAreNoted'
    <2> SUFFICES ASSUME NEW q \in Replicas, NEW r \in Replicas, q # r, Models!Writing(q)',
                        Models!Writing(r)', at'[q] = at'[r]
                 PROVE  q \in overlapped'
      BY DEF OverlapsAreNoted
    <2> HIDE DEF others
    <2>1. CASE q = p
      <3>1. r \in others
        BY <1>2, <1>5, <1>6, <1>7, <2>1
      <3> QED BY <1>4, <2>1, <3>1
    <2>2. CASE r = p
      <3>1. q \in others
        BY <1>2, <1>5, <1>6, <1>7, <2>2
      <3> QED BY <1>4, <3>1
    <2>3. CASE q # p /\ r # p
      <3>1. q \in overlapped
        BY <1>2, <1>5, <2>3 DEF CacheInv, OverlapsAreNoted
      <3> QED BY <1>1, <2>3, <3>1
    <2> QED BY <2>1, <2>2, <2>3
  <1>12. OverlapsMix'
    <2> SUFFICES ASSUME NEW q \in Replicas, Models!Writing(q)', q \in overlapped'
                 PROVE  at'[q] \in mixed'
      BY DEF OverlapsMix
    <2>1. CASE q = p
      BY <1>7, <1>9, <2>1
    <2>2. CASE q # p /\ q \in others
      BY <1>2, <1>9, <2>2
    <2>3. CASE q # p /\ q \notin others
      BY <1>2, <1>5, <1>8, <1>10, <2>3 DEF CacheInv, OverlapsMix
    <2> QED BY <2>1, <2>2, <2>3
  <1>13. NobodyWritesClean'
    <2> SUFFICES ASSUME NEW q \in Replicas, Models!Writing(q)' PROVE at'[q] \notin clean'
      BY DEF NobodyWritesClean
    <2> QED BY <1>1, <1>2, <1>5, <1>7 DEF CacheInv, NobodyWritesClean
  <1>14. LoneWritersSeeTheirOwn'
    <2> SUFFICES ASSUME NEW q \in Replicas PROVE SeesItsOwn(q)'
      BY DEF LoneWritersSeeTheirOwn
    <2>1. CASE q = p
      BY <1>2, <2>1 DEF SeesItsOwn
    <2>2. CASE q # p
      <3>1. (cache_pc[q] \in {"hashing", "describing", "dumping"} /\ q \notin overlapped') =>
              q \notin overlapped /\ at[q] # d /\ at[q] \in Dirs
        BY <1>3, <1>6, <2>2, CacheTypes DEF Models!Writing, Models!Writes
      <3>2. SeesItsOwn(q)
        BY DEF CacheInv, LoneWritersSeeTheirOwn
      <3> QED BY <1>2, <2>2, <3>1, <3>2 DEF SeesItsOwn
    <2> QED BY <2>1, <2>2
  <1>15. CleanIsWhole'
    BY <1>1, CacheTypes DEF CacheInv, CleanIsWhole
  <1>16. UnmixedAreWhole'
    <2>1. \A q \in Replicas : cache_pc'[q] \in {"validating", "opening"} =>
            cache_pc[q] = cache_pc'[q] /\ at[q] = at'[q] /\ content[q] = content'[q]
      BY <1>2
    <2> QED BY <1>8, <2>1 DEF CacheInv, UnmixedAreWhole
  <1> HIDE DEF others
  <1>17. overlapped' \subseteq Replicas
    BY <1>1, CacheTypes DEF others
  <1>18. Models!TypeOK'
    BY <1>2, <1>8, <1>17, CacheTypes DEF Models!TypeOK
  <1> QED BY <1>11, <1>12, <1>13, <1>14, <1>15, <1>16, <1>18 DEF CacheInv

LEMMA CacheCache ==
  ASSUME CacheInv, NEW p \in Replicas, NEW d \in Dirs, NEW c \in Contents, Models!Cache(p, d, c)
  PROVE  CacheInv'
  <1>1. /\ cache_pc[p] = "idle" /\ caches < MaxCaches /\ caches' = caches + 1
        /\ directory' = directory \union {d} /\ UNCHANGED <<model, metadata, memory, loaded>>
        /\ Models!Begins(p, d) /\ Models!Goes(p, "preparing", d, c)
    BY DEF Models!Cache
  <1>2. c \in Models!Hashes \union {None} /\ (d = None) = ("preparing" = "idle")
    BY CacheConstants
  <1>3. caches' \in 0 .. MaxCaches
    BY <1>1, CacheTypes, CacheConstants
  <1>4. /\ model' \in [Dirs -> Models!File] /\ directory' \subseteq Dirs
        /\ \A f \in Dirs : model'[f] # None => f \in directory'
        /\ \A f \in Dirs : f # d => model'[f] = model[f]
        /\ \A f \in Dirs : f # d => (f \in directory' <=> f \in directory)
    BY <1>1, CacheTypes
  <1> QED BY <1>1, <1>2, <1>3, <1>4, CacheBegins

LEMMA CacheRemove ==
  ASSUME CacheInv, NEW p \in Replicas, NEW d \in Dirs, Models!Remove(p, d)
  PROVE  CacheInv'
  <1>1. /\ cache_pc[p] = "idle" /\ model' = [model EXCEPT ![d] = None]
        /\ Models!Begins(p, d) /\ UNCHANGED <<metadata, memory, caches, loaded>>
    BY DEF Models!Remove
  <1>2. None \in Models!File /\ (d = None) = ("removing" = "idle") /\ (None = None) = ("idle" = "idle")
    BY CacheConstants DEF Models!File
  <1>3. /\ model' \in [Dirs -> Models!File] /\ caches' \in 0 .. MaxCaches
        /\ \A f \in Dirs : f # d => model'[f] = model[f]
        /\ \A f \in Dirs : model'[f] # None => f \in directory \ {d}
    BY <1>1, <1>2, CacheTypes
  <1>4. CASE directory' = directory \ {d} /\ Models!Goes(p, "removing", d, None)
    <2>1. /\ directory' \subseteq Dirs /\ \A f \in Dirs : model'[f] # None => f \in directory'
          /\ \A f \in Dirs : f # d => (f \in directory' <=> f \in directory)
      BY <1>3, <1>4, CacheTypes
    <2> QED BY <1>1, <1>2, <1>3, <1>4, <2>1, CacheBegins
  <1>5. CASE Models!Goes(p, "idle", None, None) /\ UNCHANGED directory
    <2>1. /\ directory' \subseteq Dirs /\ \A f \in Dirs : model'[f] # None => f \in directory'
          /\ \A f \in Dirs : f # d => (f \in directory' <=> f \in directory)
      BY <1>3, <1>5, CacheTypes
    <2> QED BY <1>1, <1>2, <1>3, <1>5, <2>1, CacheBegins
  <1> QED BY <1>4, <1>5 DEF Models!Remove, Models!Ends

\* A replica stops writing, or only reads, and the files stay as they are.
LEMMA CacheQuiet ==
  ASSUME CacheInv, NEW p \in Replicas, NEW step \in {"idle", "validating", "opening"},
         NEW d \in Dirs \union {None}, NEW c \in Models!Hashes \union {None},
         (d = None) = (step = "idle"), Models!Goes(p, step, d, c),
         memory' \in [Replicas -> [Dirs -> Models!Hashes \union {None}]],
         \A q \in Replicas : \A e \in Dirs \ mixed : memory'[q][e] \in Contents \union {None},
         step # "idle" /\ d \notin mixed => c \in Contents \union {None},
         loaded' \in [Replicas -> Contents \union {None}],
         UNCHANGED <<model, directory, metadata, caches, overlapped, mixed, clean>>
  PROVE  CacheInv'
  <1>1. /\ cache_pc' \in [Replicas -> Models!Steps]
        /\ at' \in [Replicas -> Dirs \union {None}]
        /\ content' \in [Replicas -> Models!Hashes \union {None}]
        /\ \A q \in Replicas : (at'[q] = None) = (cache_pc'[q] = "idle")
        /\ cache_pc'[p] = step /\ at'[p] = d /\ content'[p] = c
        /\ \A q \in Replicas : q # p =>
             cache_pc'[q] = cache_pc[q] /\ at'[q] = at[q] /\ content'[q] = content[q]
    <2>1. step \in Models!Steps
      BY DEF Models!Steps
    <2> QED BY <2>1, CacheGoes
  <1>2. Models!TypeOK'
    BY <1>1, CacheTypes DEF Models!TypeOK
  <1>3. ~Models!Writing(p)'
        /\ \A q \in Replicas : Models!Writing(q)' => q # p /\ Models!Writing(q)
    BY <1>1 DEF Models!Writing, Models!Writes
  <1>4. OverlapsAreNoted' /\ OverlapsMix' /\ NobodyWritesClean'
    BY <1>1, <1>3 DEF CacheInv, OverlapsAreNoted, OverlapsMix, NobodyWritesClean
  <1>5. CleanIsWhole'
    BY DEF CacheInv, CleanIsWhole
  <1>6. ASSUME NEW q \in Replicas PROVE SeesItsOwn(q)'
    <2>1. SeesItsOwn(q)
      BY DEF CacheInv, LoneWritersSeeTheirOwn
    <2> QED BY <1>1, <2>1 DEF SeesItsOwn
  <1>7. UnmixedAreWhole'
    <2> SUFFICES ASSUME NEW e \in Dirs \ mixed, NEW q \in Replicas,
                        cache_pc'[q] \in {"validating", "opening"}, at'[q] = e
                 PROVE  content'[q] \in Contents \union {None}
      BY DEF CacheInv, UnmixedAreWhole
    <2>1. CASE q = p
      BY <1>1, <2>1
    <2>2. CASE q # p
      BY <1>1, <2>2 DEF CacheInv, UnmixedAreWhole
    <2> QED BY <2>1, <2>2
  <1> QED BY <1>2, <1>4, <1>5, <1>6, <1>7 DEF CacheInv, LoneWritersSeeTheirOwn

\* A call of cache_onnx_model or of invalidate_cache is over, for whatever reason.
LEMMA CacheQuits ==
  ASSUME CacheInv, NEW p \in Replicas, Models!Goes(p, "idle", None, None),
         UNCHANGED <<model, directory, metadata, memory, caches, overlapped, mixed, clean, loaded>>
  PROVE  CacheInv'
  <1>1. None \in Models!Hashes \union {None} /\ (None = None) = ("idle" = "idle")
    OBVIOUS
  <1>2. \A q \in Replicas : \A e \in Dirs \ mixed : memory'[q][e] \in Contents \union {None}
    BY DEF CacheInv, UnmixedAreWhole
  <1>3. /\ memory' \in [Replicas -> [Dirs -> Models!Hashes \union {None}]]
        /\ loaded' \in [Replicas -> Contents \union {None}]
    BY CacheTypes
  <1> QED BY <1>1, <1>2, <1>3, CacheQuiet

\* A writer goes on to its next step, and touches no directory but its own.
LEMMA CacheWrites ==
  ASSUME CacheInv, NEW p \in Replicas, Models!Writing(p),
         NEW step \in {"copying", "hashing", "describing", "dumping"},
         NEW c \in Models!Hashes \union {None},
         Models!Goes(p, step, at[p], c),
         UNCHANGED <<directory, memory, caches, overlapped, mixed, clean, loaded>>,
         model' \in [Dirs -> Models!File], \A e \in Dirs : model'[e] # None => e \in directory,
         \A e \in Dirs : e # at[p] => model'[e] = model[e],
         metadata' \in {metadata, [metadata EXCEPT ![at[p]] = Torn]},
         step = "copying" => c \in Contents,
         (p \notin overlapped /\ step # "copying") =>
           at[p] \in directory /\ model'[at[p]] \in Contents,
         (p \notin overlapped /\ step \in {"describing", "dumping"}) => c = model'[at[p]]
  PROVE  CacheInv'
  <1>0. at[p] \in Dirs /\ (at[p] = None) = (step = "idle")
    BY CacheTypes, CacheConstants DEF Models!Writing, Models!Writes
  <1>1. /\ cache_pc' \in [Replicas -> Models!Steps]
        /\ at' \in [Replicas -> Dirs \union {None}]
        /\ content' \in [Replicas -> Models!Hashes \union {None}]
        /\ \A q \in Replicas : (at'[q] = None) = (cache_pc'[q] = "idle")
        /\ cache_pc'[p] = step /\ at'[p] = at[p] /\ content'[p] = c
        /\ \A q \in Replicas : q # p =>
             cache_pc'[q] = cache_pc[q] /\ at'[q] = at[q] /\ content'[q] = content[q]
    <2>1. step \in Models!Steps
      BY DEF Models!Steps, Models!Writes
    <2> QED BY <1>0, <2>1, CacheGoes
  <1>2. /\ metadata' \in [Dirs -> Models!Hashes \union {Torn, None}]
        /\ \A e \in Dirs : metadata'[e] \in {metadata[e], Torn}
        /\ \A e \in Dirs : e # at[p] => metadata'[e] = metadata[e]
    BY CacheTypes
  <1>3. Models!TypeOK'
    BY <1>1, <1>2, CacheTypes DEF Models!TypeOK
  <1>4. \A q \in Replicas : Models!Writing(q)' = Models!Writing(q) /\ at'[q] = at[q]
    BY <1>1 DEF Models!Writing, Models!Writes
  <1>5. OverlapsAreNoted' /\ OverlapsMix' /\ NobodyWritesClean'
    BY <1>4 DEF CacheInv, OverlapsAreNoted, OverlapsMix, NobodyWritesClean
  <1>6. LoneWritersSeeTheirOwn'
    <2> SUFFICES ASSUME NEW q \in Replicas PROVE SeesItsOwn(q)'
      BY DEF LoneWritersSeeTheirOwn
    <2>1. CASE q = p
      BY <1>1, <2>1 DEF SeesItsOwn
    <2>2. CASE q # p
      <3>1. (cache_pc[q] \in {"hashing", "describing", "dumping"} /\ q \notin overlapped) =>
              at[q] \in Dirs /\ at[q] # at[p]
        BY <2>2, CacheTypes DEF Models!Writing, Models!Writes, CacheInv, OverlapsAreNoted
      <3>2. SeesItsOwn(q)
        BY DEF CacheInv, LoneWritersSeeTheirOwn
      <3> QED BY <1>1, <2>2, <3>1, <3>2 DEF SeesItsOwn
    <2> QED BY <2>1, <2>2
  <1>7. CleanIsWhole'
    <2>1. at[p] \notin clean /\ clean \subseteq Dirs
      BY CacheTypes DEF CacheInv, NobodyWritesClean
    <2> QED BY <1>2, <2>1 DEF CacheInv, CleanIsWhole
  <1>8. UnmixedAreWhole'
    <2>1. \A q \in Replicas : cache_pc'[q] \in {"validating", "opening"} =>
            cache_pc[q] = cache_pc'[q] /\ at[q] = at'[q] /\ content[q] = content'[q]
      BY <1>1
    <2> QED BY <1>2, <2>1 DEF CacheInv, UnmixedAreWhole
  <1> QED BY <1>3, <1>5, <1>6, <1>7, <1>8 DEF CacheInv

LEMMA CacheCopies ==
  ASSUME CacheInv, NEW p \in Replicas, Models!Create(p) \/ Models!Copy(p)
  PROVE  CacheInv'
  <1>1. /\ cache_pc[p] \in {"preparing", "copying"} /\ Models!Writing(p)
        /\ UNCHANGED <<directory, metadata, memory, caches, overlapped, mixed, clean, loaded>>
    BY DEF Models!Create, Models!Copy, Models!Writing, Models!Writes
  <1>2. content[p] \in Contents /\ content[p] \in Models!Hashes \union {None} /\ at[p] \in Dirs
    BY <1>1, CacheTypes DEF CacheInv, LoneWritersSeeTheirOwn, SeesItsOwn
  <1>3. content[p] \in Models!File /\ Partial \in Models!File /\ None \in Models!Hashes \union {None}
    BY <1>2 DEF Models!File
  <1>4. CASE Models!Ends(p) /\ UNCHANGED model
    BY <1>1, <1>4, CacheQuits DEF Models!Ends
  <1>5. CASE /\ at[p] \in directory /\ model' = [model EXCEPT ![at[p]] = Partial]
             /\ Models!Goes(p, "copying", at[p], content[p])
    <2>1. /\ model' \in [Dirs -> Models!File] /\ \A e \in Dirs : model'[e] # None => e \in directory
          /\ \A e \in Dirs : e # at[p] => model'[e] = model[e]
      BY <1>2, <1>3, <1>5, CacheTypes
    <2> QED BY <1>1, <1>2, <1>5, <2>1, CacheWrites
  <1>6. CASE /\ at[p] \in directory /\ model' = [model EXCEPT ![at[p]] = content[p]]
             /\ Models!Goes(p, "hashing", at[p], None)
    <2>1. /\ model' \in [Dirs -> Models!File] /\ \A e \in Dirs : model'[e] # None => e \in directory
          /\ \A e \in Dirs : e # at[p] => model'[e] = model[e]
          /\ model'[at[p]] \in Contents
      BY <1>2, <1>3, <1>6, CacheTypes
    <2> QED BY <1>1, <1>3, <1>6, <2>1, CacheWrites
  <1> QED BY <1>4, <1>5, <1>6 DEF Models!Create, Models!Copy

LEMMA CacheDescribes ==
  ASSUME CacheInv, NEW p \in Replicas, Models!Hash(p) \/ Models!Describe(p)
  PROVE  CacheInv'
  <1>1. /\ cache_pc[p] \in {"hashing", "describing"} /\ Models!Writing(p)
        /\ UNCHANGED <<model, directory, memory, caches, overlapped, mixed, clean, loaded>>
    BY DEF Models!Hash, Models!Describe, Models!Writing, Models!Writes
  <1>2. at[p] \in Dirs /\ model[at[p]] \in Models!File
    BY <1>1, CacheTypes
  <1>3. SeesItsOwn(p)
    BY DEF CacheInv, LoneWritersSeeTheirOwn
  <1>4. p \notin overlapped => at[p] \in directory /\ model'[at[p]] \in Contents
    BY <1>1, <1>3 DEF SeesItsOwn
  <1>5. /\ model' \in [Dirs -> Models!File] /\ \A e \in Dirs : model'[e] # None => e \in directory
        /\ \A e \in Dirs : e # at[p] => model'[e] = model[e]
    BY <1>1, CacheTypes
  <1>6. CASE Models!Hash(p)
    <2>1. Models!Goes(p, "describing", at[p], Models!HashOf(at[p])) /\ metadata' = metadata
      BY <1>6 DEF Models!Hash
    <2>2. Models!HashOf(at[p]) \in Models!Hashes \union {None}
      BY <1>2 DEF Models!HashOf, Models!File, Models!Hashes
    <2>3. p \notin overlapped => Models!HashOf(at[p]) = model'[at[p]]
      BY <1>1, <1>4, CacheConstants DEF Models!HashOf
    <2> QED BY <1>1, <1>4, <1>5, <2>1, <2>2, <2>3, CacheWrites
  <1>7. CASE Models!Describe(p) /\ Models!Ends(p) /\ UNCHANGED metadata
    BY <1>1, <1>7, CacheQuits DEF Models!Ends
  <1>8. CASE /\ Models!Describe(p) /\ Models!Goes(p, "dumping", at[p], content[p])
             /\ metadata' = [metadata EXCEPT ![at[p]] = Torn]
    <2>1. content[p] \in Models!Hashes \union {None}
      BY CacheTypes
    <2>2. p \notin overlapped => content[p] = model'[at[p]]
      BY <1>1, <1>3, <1>8 DEF SeesItsOwn, Models!Describe
    <2> QED BY <1>1, <1>4, <1>5, <1>8, <2>1, <2>2, CacheWrites
  <1> QED BY <1>6, <1>7, <1>8 DEF Models!Describe

\* Writers that end and leave a word: a description or its removal.
LEMMA CacheEnds ==
  ASSUME CacheInv, NEW p \in Replicas, Models!Writing(p), NEW c \in Models!Hashes \union {None},
         Models!Goes(p, "idle", None, None),
         metadata' = [metadata EXCEPT ![at[p]] = c] \/ (p \in overlapped /\ UNCHANGED metadata),
         memory' = [memory EXCEPT ![p][at[p]] = c],
         clean' = clean \/ (cache_pc[p] = "dumping" /\ p \notin overlapped /\ clean' = clean \union {at[p]}),
         p \notin overlapped => c \in Contents \union {None},
         cache_pc[p] = "dumping" => c = content[p],
         UNCHANGED <<model, directory, caches, overlapped, mixed, loaded>>
  PROVE  CacheInv'
  <1> DEFINE d == at[p]
  <1>1. d \in Dirs
    BY CacheTypes DEF Models!Writing, Models!Writes
  <1>2. None \in Models!Hashes \union {None} /\ (None = None) = ("idle" = "idle")
    OBVIOUS
  <1>3. /\ cache_pc' \in [Replicas -> Models!Steps]
        /\ at' \in [Replicas -> Dirs \union {None}]
        /\ content' \in [Replicas -> Models!Hashes \union {None}]
        /\ \A q \in Replicas : (at'[q] = None) = (cache_pc'[q] = "idle")
        /\ cache_pc'[p] = "idle"
        /\ \A q \in Replicas : q # p =>
             cache_pc'[q] = cache_pc[q] /\ at'[q] = at[q] /\ content'[q] = content[q]
    <2>1. "idle" \in Models!Steps
      BY DEF Models!Steps
    <2> QED BY <1>2, <2>1, CacheGoes
  <1>4. /\ metadata' \in [Dirs -> Models!Hashes \union {Torn, None}]
        /\ memory' \in [Replicas -> [Dirs -> Models!Hashes \union {None}]]
        /\ metadata'[d] \in {c, metadata[d]} /\ (p \notin overlapped => metadata'[d] = c)
        /\ \A e \in Dirs : e # d => metadata'[e] = metadata[e]
        /\ memory'[p][d] = c
        /\ \A q \in Replicas, e \in Dirs : (q # p \/ e # d) => memory'[q][e] = memory[q][e]
        /\ clean' \subseteq Dirs
    BY <1>1, CacheTypes
  <1>5. Models!TypeOK'
    BY <1>3, <1>4, CacheTypes DEF Models!TypeOK
  <1>6. \A q \in Replicas : Models!Writing(q)' => q # p /\ Models!Writing(q)
    BY <1>3 DEF Models!Writing, Models!Writes
  <1>7. OverlapsAreNoted' /\ OverlapsMix'
    BY <1>3, <1>6 DEF CacheInv, OverlapsAreNoted, OverlapsMix
  <1>8. NobodyWritesClean'
    <2> SUFFICES ASSUME NEW q \in Replicas, Models!Writing(q)' PROVE at'[q] \notin clean'
      BY DEF NobodyWritesClean
    <2>1. q # p /\ Models!Writing(q) /\ at'[q] = at[q] /\ at[q] \notin clean
      BY <1>3, <1>6 DEF CacheInv, NobodyWritesClean
    <2>2. p \notin overlapped => at[q] # d
      BY <2>1 DEF CacheInv, OverlapsAreNoted
    <2> QED BY <2>1, <2>2
  <1>9. ASSUME NEW q \in Replicas PROVE SeesItsOwn(q)'
    <2>1. SeesItsOwn(q)
      BY DEF CacheInv, LoneWritersSeeTheirOwn
    <2> QED BY <1>3, <2>1 DEF SeesItsOwn
  <1>10. CleanIsWhole'
    <2> SUFFICES ASSUME NEW e \in clean'
                 PROVE  e \in directory /\ model[e] \in Contents /\ metadata'[e] = model[e]
      BY DEF CleanIsWhole
    <2>1. CASE e = d
      <3>1. d \notin clean
        BY DEF CacheInv, NobodyWritesClean
      <3>2. cache_pc[p] = "dumping" /\ p \notin overlapped
        BY <2>1, <3>1
      <3>3. SeesItsOwn(p)
        BY DEF CacheInv, LoneWritersSeeTheirOwn
      <3> QED BY <1>4, <2>1, <3>2, <3>3 DEF SeesItsOwn
    <2>2. CASE e # d
      BY <1>4, <2>2, CacheTypes DEF CacheInv, CleanIsWhole
    <2> QED BY <2>1, <2>2
  <1>11. d \notin mixed => p \notin overlapped
    BY DEF CacheInv, OverlapsMix
  <1>12. UnmixedAreWhole'
    <2> SUFFICES ASSUME NEW e \in Dirs \ mixed
                 PROVE  /\ metadata'[e] \in Contents \union {None, Torn}
                        /\ \A q \in Replicas : memory'[q][e] \in Contents \union {None}
                        /\ \A q \in Replicas :
                             (cache_pc'[q] \in {"validating", "opening"} /\ at'[q] = e) =>
                               content'[q] \in Contents \union {None}
      BY DEF UnmixedAreWhole
    <2>1. \A q \in Replicas : cache_pc'[q] \in {"validating", "opening"} =>
            cache_pc[q] = cache_pc'[q] /\ at[q] = at'[q] /\ content[q] = content'[q]
      BY <1>3
    <2>2. e = d => c \in Contents \union {None} /\ metadata'[e] = c
      BY <1>4, <1>11
    <2> HIDE DEF d
    <2>3. \A q \in Replicas : memory'[q][e] \in {c, memory[q][e]} /\ (e # d => memory'[q][e] = memory[q][e])
      BY <1>1, <1>4
    <2> QED BY <1>4, <2>1, <2>2, <2>3 DEF CacheInv, UnmixedAreWhole
  <1> QED BY <1>5, <1>7, <1>8, <1>9, <1>10, <1>12 DEF CacheInv, LoneWritersSeeTheirOwn

LEMMA CacheWords ==
  ASSUME CacheInv, NEW p \in Replicas, Models!Dump(p) \/ Models!Forget(p)
  PROVE  CacheInv'
  <1>1. CASE Models!Forget(p)
    <2>1. Models!Writing(p) /\ cache_pc[p] # "dumping" /\ None \in Contents \union {None}
      BY <1>1 DEF Models!Forget, Models!Writing, Models!Writes
    <2>2. /\ Models!Goes(p, "idle", None, None)
          /\ metadata' = [metadata EXCEPT ![at[p]] = None]
          /\ memory' = [memory EXCEPT ![p][at[p]] = None]
          /\ UNCHANGED <<model, directory, caches, overlapped, mixed, clean, loaded>>
      BY <1>1 DEF Models!Forget, Models!Ends
    <2> QED BY <2>1, <2>2, CacheEnds
  <1>2. CASE Models!Dump(p) /\ UNCHANGED <<metadata, memory, clean>>
    BY <1>2, CacheQuits DEF Models!Dump, Models!Ends
  <1>3. CASE /\ Models!Dump(p)
             /\ metadata' = [metadata EXCEPT ![at[p]] = content[p]] \/ (p \in overlapped /\ UNCHANGED metadata)
             /\ memory' = [memory EXCEPT ![p][at[p]] = content[p]]
             /\ clean' = IF p \notin overlapped THEN clean \union {at[p]} ELSE clean
    <2>1. Models!Writing(p) /\ cache_pc[p] = "dumping" /\ content[p] \in Models!Hashes \union {None}
      BY <1>3, CacheTypes DEF Models!Dump, Models!Writing, Models!Writes
    <2>2. /\ Models!Goes(p, "idle", None, None)
          /\ UNCHANGED <<model, directory, caches, overlapped, mixed, loaded>>
      BY <1>3 DEF Models!Dump, Models!Ends
    <2>3. p \notin overlapped => content[p] \in Contents \union {None}
      BY <2>1 DEF CacheInv, LoneWritersSeeTheirOwn, SeesItsOwn
    <2>4. clean' = clean \/ (cache_pc[p] = "dumping" /\ p \notin overlapped /\ clean' = clean \union {at[p]})
      BY <1>3, <2>1
    <2> QED BY <1>3, <2>1, <2>2, <2>3, <2>4, CacheEnds
  <1> QED BY <1>1, <1>2, <1>3 DEF Models!Dump

LEMMA CacheKnown ==
  ASSUME CacheInv, NEW p \in Replicas, NEW d \in Dirs
  PROVE  /\ Models!Known(p, d) \in Models!Hashes \union {None}
         /\ d \notin mixed => Models!Known(p, d) \in Contents \union {None}
  <1>1. /\ memory[p][d] \in Models!Hashes \union {None}
        /\ metadata[d] \in Models!Hashes \union {Torn, None}
    BY CacheTypes
  <1>2. d \notin mixed =>
          memory[p][d] \in Contents \union {None} /\ metadata[d] \in Contents \union {None, Torn}
    BY DEF CacheInv, UnmixedAreWhole
  <1> QED BY <1>1, <1>2, CacheConstants DEF Models!Known

LEMMA CacheLoads ==
  ASSUME CacheInv, NEW p \in Replicas, NEW d \in Dirs, Models!Load(p, d)
  PROVE  CacheInv'
  <1>1. /\ cache_pc[p] = "idle" /\ memory' = [memory EXCEPT ![p][d] = Models!Known(p, d)]
        /\ UNCHANGED <<model, directory, metadata, caches, overlapped, mixed, clean, loaded>>
    BY DEF Models!Load
  <1>2. /\ Models!Known(p, d) \in Models!Hashes \union {None}
        /\ d \notin mixed => Models!Known(p, d) \in Contents \union {None}
    BY CacheKnown
  <1>3. memory' \in [Replicas -> [Dirs -> Models!Hashes \union {None}]]
    BY <1>1, <1>2, CacheTypes
  <1>4. \A q \in Replicas : \A e \in Dirs \ mixed : memory'[q][e] \in Contents \union {None}
    <2> SUFFICES ASSUME NEW q \in Replicas, NEW e \in Dirs \ mixed
                 PROVE  memory'[q][e] \in Contents \union {None}
      OBVIOUS
    <2>1. memory[q][e] \in Contents \union {None}
      BY DEF CacheInv, UnmixedAreWhole
    <2>2. CASE q = p /\ e = d
      BY <1>1, <1>2, <2>2, CacheTypes
    <2>3. CASE q # p \/ e # d
      BY <1>1, <2>1, <2>3, CacheTypes
    <2> QED BY <2>2, <2>3
  <1>5. loaded' \in [Replicas -> Contents \union {None}]
    BY <1>1, CacheTypes
  <1>6. CASE Models!Known(p, d) # None
    <2>1. Models!Goes(p, "validating", d, Models!Known(p, d))
      BY <1>6 DEF Models!Load
    <2>2. (d = None) = ("validating" = "idle") /\ d \in Dirs \union {None}
      BY CacheConstants
    <2> QED BY <1>1, <1>2, <1>3, <1>4, <1>5, <2>1, <2>2, CacheQuiet
  <1>7. CASE UNCHANGED <<cache_pc, at, content>>
    <2>1. Models!TypeOK'
      BY <1>1, <1>3, <1>7, CacheTypes DEF Models!TypeOK
    <2>2. OverlapsAreNoted' /\ OverlapsMix' /\ NobodyWritesClean' /\ CleanIsWhole'
      BY <1>1, <1>7 DEF CacheInv, OverlapsAreNoted, OverlapsMix, NobodyWritesClean, CleanIsWhole,
                        Models!Writing
    <2>3. LoneWritersSeeTheirOwn'
      BY <1>1, <1>7 DEF CacheInv, LoneWritersSeeTheirOwn, SeesItsOwn
    <2>4. UnmixedAreWhole'
      BY <1>1, <1>4, <1>7 DEF CacheInv, UnmixedAreWhole
    <2> QED BY <2>1, <2>2, <2>3, <2>4 DEF CacheInv
  <1> QED BY <1>6, <1>7 DEF Models!Load

LEMMA CacheValidates ==
  ASSUME CacheInv, NEW p \in Replicas, Models!Validate(p)
  PROVE  CacheInv'
  <1> DEFINE c == IF Models!HashOf(at[p]) = content[p] THEN content[p] ELSE None
  <1>1. /\ cache_pc[p] = "validating" /\ Models!Goes(p, "opening", at[p], c)
        /\ UNCHANGED <<model, directory, metadata, memory, caches, overlapped, mixed, clean, loaded>>
    BY DEF Models!Validate
  <1>2. at[p] \in Dirs /\ at[p] \in Dirs \union {None} /\ (at[p] = None) = ("opening" = "idle")
    BY <1>1, CacheTypes, CacheConstants
  <1>3. c \in Models!Hashes \union {None} /\ (at[p] \notin mixed => c \in Contents \union {None})
    BY <1>1, <1>2, CacheTypes DEF CacheInv, UnmixedAreWhole
  <1>4. \A q \in Replicas : \A e \in Dirs \ mixed : memory'[q][e] \in Contents \union {None}
    BY <1>1 DEF CacheInv, UnmixedAreWhole
  <1>5. /\ memory' \in [Replicas -> [Dirs -> Models!Hashes \union {None}]]
        /\ loaded' \in [Replicas -> Contents \union {None}]
    BY <1>1, CacheTypes
  <1> HIDE DEF c
  <1> QED BY <1>1, <1>2, <1>3, <1>4, <1>5, CacheQuiet

LEMMA CacheOpenCrash ==
  ASSUME CacheInv, NEW p \in Replicas, Models!Open(p) \/ Models!Crash(p)
  PROVE  CacheInv'
  <1>1. None \in Models!Hashes \union {None} /\ (None = None) = ("idle" = "idle")
    OBVIOUS
  <1>2. /\ Models!Goes(p, "idle", None, None)
        /\ UNCHANGED <<model, directory, metadata, caches, overlapped, mixed, clean>>
    BY DEF Models!Open, Models!Crash, Models!Ends
  <1>3. /\ memory' \in [Replicas -> [Dirs -> Models!Hashes \union {None}]]
        /\ \A q \in Replicas : \A e \in Dirs : memory'[q][e] \in {memory[q][e], None}
    <2>1. CASE UNCHANGED memory
      BY <2>1, CacheTypes
    <2>2. CASE memory' = [memory EXCEPT ![p] = [e \in Dirs |-> None]]
      <3>1. memory' \in [Replicas -> [Dirs -> Models!Hashes \union {None}]]
        BY <2>2, CacheTypes
      <3>2. \A q \in Replicas : \A e \in Dirs : memory'[q][e] \in {memory[q][e], None}
        BY <2>2, CacheTypes
      <3> QED BY <3>1, <3>2
    <2> QED BY <2>1, <2>2 DEF Models!Open, Models!Crash
  <1>4. \A q \in Replicas : \A e \in Dirs \ mixed : memory'[q][e] \in Contents \union {None}
    BY <1>3 DEF CacheInv, UnmixedAreWhole
  <1>5. loaded' \in [Replicas -> Contents \union {None}]
    BY CacheTypes DEF Models!Open, Models!Crash
  <1> QED BY <1>1, <1>2, <1>3, <1>4, <1>5, CacheQuiet

LEMMA CacheNext == CacheInv /\ [Models!Next]_cacheVars => CacheInv'
  <1> SUFFICES ASSUME CacheInv, [Models!Next]_cacheVars PROVE CacheInv'
    OBVIOUS
  <1>1. CASE UNCHANGED cacheVars
    BY <1>1 DEF cacheVars, CacheInv, Models!TypeOK, OverlapsAreNoted, OverlapsMix, NobodyWritesClean,
                LoneWritersSeeTheirOwn, SeesItsOwn, CleanIsWhole, UnmixedAreWhole, Models!Writing
  <1> QED BY <1>1, CacheCache, CacheRemove, CacheCopies, CacheDescribes, CacheWords, CacheLoads,
             CacheValidates, CacheOpenCrash
          DEF Models!Next

LEMMA CacheSound == CacheInv => Models!CachedModelsAreSound
  <1> SUFFICES ASSUME CacheInv PROVE Models!CachedModelsAreSound
    OBVIOUS
  <1>1. Models!RecachingRepairs
    <2> SUFFICES ASSUME NEW d \in clean
                 PROVE  /\ Models!IsModelCached(d) /\ model[d] \in Contents /\ metadata[d] = model[d]
                        /\ \A p \in Replicas : memory[p][d] \in {None, model[d]} =>
                             Models!LoadsSilently(p, d)
      BY DEF Models!RecachingRepairs
    <2>1. /\ d \in directory /\ model[d] \in Contents /\ metadata[d] = model[d] /\ model[d] # None
          /\ metadata[d] \in Models!Hashes
      BY CacheConstants DEF CacheInv, CleanIsWhole
    <2> QED BY <2>1 DEF Models!IsModelCached, Models!LoadsSilently, Models!Known, Models!HashOf
  <1>2. Models!SilentLoadsAreWhole
    <2> SUFFICES ASSUME NEW p \in Replicas, cache_pc[p] = "opening", content[p] # None,
                        at[p] \notin mixed
                 PROVE  content[p] \in Contents
      BY DEF Models!SilentLoadsAreWhole
    <2> QED BY CacheTypes DEF CacheInv, UnmixedAreWhole
  <1> QED BY <1>1, <1>2 DEF Models!CachedModelsAreSound

-----------------------------------------------------------------------------
(*****************************************************************************)
(* The versions in the registry.  A version exists once it is registered,    *)
(* only what can be switched to is active, and while nobody demotes what     *)
(* was promoted some version is in production.                               *)
(*****************************************************************************)
\* The types, and what is in production and active.
RegistryInv ==
  /\ Registry!TypeOK /\ stage \in Seq(Registry!Stages)
  /\ registering \in [Operators -> Nat \union {None}]
  /\ Registry!ReturnedIsWhole
  /\ (promoted /\ ~demoted) => \E v \in Registry!Versions : stage[v] = "Production"
  /\ is_active = {active_version}

LEMMA RegistryConstants ==
  /\ MaxVersions \in Nat /\ Outages \in Nat /\ Serving \in Switchable
  /\ Switchable \intersect Archived = {} /\ None \notin Nat
  BY AdministrationAssumption DEF Registry!VersionsAssumption

LEMMA RegistryInit == Registry!Init => RegistryInv
  <1> SUFFICES ASSUME Registry!Init PROVE RegistryInv
    OBVIOUS
  <1> USE RegistryConstants DEF Registry!Init
  <1>1. stage = <<>> /\ Len(stage) = 0 /\ stage \in Seq(Registry!Stages) /\ 1 .. 0 = {}
    OBVIOUS
  <1>2. stage \in [1 .. Len(stage) -> Registry!Stages] /\ Len(stage) <= MaxVersions
    BY <1>1
  <1>3. mlflow_up \in BOOLEAN /\ promoted \in BOOLEAN /\ demoted \in BOOLEAN
    OBVIOUS
  <1>4. outages \in 0 .. Outages
    OBVIOUS
  <1>5. operator_pc \in [Operators -> {"idle", "tagging"}]
        /\ registering \in [Operators -> Nat \union {None}]
        /\ \A o \in Operators :
             registering[o] \in (IF operator_pc[o] = "idle" THEN {None} ELSE DOMAIN stage)
    OBVIOUS
  <1>6. tagged = {} /\ deleted = {} /\ returned = {} /\ active_version \in Switchable
        /\ is_active \subseteq Switchable
    OBVIOUS
  <1>7. Registry!TypeOK
    BY ONLY <1>2, <1>3, <1>4, <1>5, <1>6 DEF Registry!TypeOK
  <1> QED BY <1>1, <1>5, <1>7 DEF RegistryInv, Registry!ReturnedIsWhole

LEMMA RegistryTypes ==
  ASSUME RegistryInv
  PROVE  /\ stage \in Seq(Registry!Stages) /\ Len(stage) \in Nat /\ DOMAIN stage = 1 .. Len(stage)
         /\ \A v \in DOMAIN stage : v \in Nat /\ stage[v] \in Registry!Stages
         /\ Len(stage) <= MaxVersions
         /\ tagged \subseteq DOMAIN stage /\ deleted \subseteq DOMAIN stage
         /\ returned \subseteq DOMAIN stage
         /\ operator_pc \in [Operators -> {"idle", "tagging"}]
         /\ registering \in [Operators -> Nat \union {None}]
         /\ \A o \in Operators :
              registering[o] \in (IF operator_pc[o] = "idle" THEN {None} ELSE DOMAIN stage)
  <1>1. stage \in Seq(Registry!Stages)
    BY DEF RegistryInv
  <1>2. Len(stage) \in Nat /\ DOMAIN stage = 1 .. Len(stage)
        /\ \A v \in DOMAIN stage : v \in Nat /\ stage[v] \in Registry!Stages
    BY <1>1
  <1> QED BY <1>1, <1>2 DEF RegistryInv, Registry!TypeOK

LEMMA RegistryRegister ==
  ASSUME RegistryInv, NEW o \in Operators, Registry!Register(o)
  PROVE  RegistryInv'
  <1> DEFINE n == Len(stage)
  <1>1. /\ operator_pc[o] = "idle" /\ n < MaxVersions /\ stage' = Append(stage, "None")
        /\ operator_pc' = [operator_pc EXCEPT ![o] = "tagging"]
        /\ registering' = [registering EXCEPT ![o] = n + 1]
        /\ UNCHANGED <<tagged, deleted, mlflow_up, outages, active_version, is_active, returned,
                       promoted, demoted>>
    BY DEF Registry!Register, Registry!routeVars
  <1>2. /\ stage \in Seq(Registry!Stages) /\ n \in Nat /\ DOMAIN stage = 1 .. n
        /\ "None" \in Registry!Stages
    BY RegistryTypes DEF Registry!Stages
  <1>3. /\ stage' \in Seq(Registry!Stages) /\ Len(stage') = n + 1 /\ DOMAIN stage' = 1 .. n + 1
        /\ \A v \in DOMAIN stage : stage'[v] = stage[v]
    BY <1>1, <1>2
  <1>4. stage' \in [1 .. Len(stage') -> Registry!Stages] /\ Len(stage') <= MaxVersions
    <2>1. stage' \in [1 .. Len(stage') -> Registry!Stages]
      BY ONLY <1>3
    <2> QED BY ONLY <1>1, <1>2, <1>3, <2>1, RegistryConstants
  <1>5. DOMAIN stage \subseteq DOMAIN stage' /\ n + 1 \in DOMAIN stage' /\ n + 1 \notin DOMAIN stage
        /\ n + 1 \in Nat
    BY <1>2, <1>3
  <1> HIDE DEF n
  <1>6. registering' \in [Operators -> Nat \union {None}]
    BY <1>1, <1>5, RegistryTypes
  <1>7. Registry!TypeOK'
    BY <1>1, <1>4, <1>5, RegistryTypes DEF RegistryInv, Registry!TypeOK
  <1>8. Registry!ReturnedIsWhole'
    <2>1. \A p \in Operators : registering[p] # n + 1
      BY <1>5, RegistryTypes, RegistryConstants
    <2> QED BY <1>1, <2>1, RegistryTypes DEF RegistryInv, Registry!ReturnedIsWhole
  <1>9. (promoted /\ ~demoted) => \E v \in Registry!Versions' : stage'[v] = "Production"
    BY <1>1, <1>3, <1>5 DEF RegistryInv, Registry!Versions
  <1> QED BY <1>1, <1>3, <1>6, <1>7, <1>8, <1>9 DEF RegistryInv

LEMMA RegistryTag ==
  ASSUME RegistryInv, NEW o \in Operators, Registry!Tag(o)
  PROVE  RegistryInv'
  <1>1. /\ operator_pc[o] = "tagging"
        /\ operator_pc' = [operator_pc EXCEPT ![o] = "idle"]
        /\ registering' = [registering EXCEPT ![o] = None]
        /\ \/ tagged' = tagged \union {registering[o]} /\ returned' = returned \union {registering[o]}
           \/ UNCHANGED <<tagged, returned>>
        /\ UNCHANGED <<stage, deleted, mlflow_up, outages, active_version, is_active, promoted, demoted>>
    BY DEF Registry!Tag, Registry!routeVars
  <1>2. registering[o] \in DOMAIN stage
    BY <1>1, RegistryTypes
  <1>3. registering' \in [Operators -> Nat \union {None}]
    BY <1>1, RegistryTypes
  <1>4. Registry!TypeOK'
    BY <1>1, <1>2, RegistryTypes DEF RegistryInv, Registry!TypeOK
  <1>5. Registry!ReturnedIsWhole'
    BY <1>1, RegistryTypes DEF RegistryInv, Registry!ReturnedIsWhole
  <1>6. (promoted /\ ~demoted) => \E v \in Registry!Versions' : stage'[v] = "Production"
    BY <1>1 DEF RegistryInv, Registry!Versions
  <1> QED BY <1>1, <1>3, <1>4, <1>5, <1>6 DEF RegistryInv

LEMMA RegistryTransition ==
  ASSUME RegistryInv, NEW v \in DOMAIN stage, NEW s \in Registry!Stages, NEW archive \in BOOLEAN,
         Registry!Transition(v, s, archive)
  PROVE  RegistryInv'
  <1> DEFINE n == Len(stage)
  <1>1. /\ v \in Registry!Versions
        /\ stage' = [w \in DOMAIN stage |->
                       IF archive /\ w \in Registry!Existing(s, v) THEN "Archived"
                       ELSE IF w = v THEN s ELSE stage[w]]
        /\ promoted' = (promoted \/ s = "Production")
        /\ demoted' = (demoted \/ (stage[v] = "Production" /\ s # "Production"))
        /\ UNCHANGED <<tagged, deleted, mlflow_up, outages, operator_pc, registering,
                       active_version, is_active, returned>>
    BY DEF Registry!Transition, Registry!routeVars
  <1>2. n \in Nat /\ DOMAIN stage = 1 .. n
    BY RegistryTypes
  <1>3. \A w \in 1 .. n : stage'[w] \in Registry!Stages
    BY <1>1, <1>2, RegistryTypes DEF Registry!Stages
  <1>4. stage' \in [1 .. n -> Registry!Stages]
    BY <1>1, <1>2, <1>3
  <1>5. stage' \in Seq(Registry!Stages) /\ Len(stage') = n /\ DOMAIN stage' = 1 .. n
    BY <1>2, <1>4
  <1>6. Registry!TypeOK'
    <2>1. promoted' \in BOOLEAN /\ demoted' \in BOOLEAN
      BY <1>1
    <2> HIDE DEF n
    <2>2. n <= MaxVersions
      BY RegistryTypes DEF n
    <2> QED BY <1>1, <1>2, <1>4, <1>5, <2>1, <2>2, RegistryTypes DEF RegistryInv, Registry!TypeOK
  <1>7. Registry!ReturnedIsWhole'
    BY <1>1 DEF RegistryInv, Registry!ReturnedIsWhole
  <1>8. promoted' /\ ~demoted' => \E w \in Registry!Versions' : stage'[w] = "Production"
    <2> HAVE promoted' /\ ~demoted'
    <2>1. Registry!Versions' = Registry!Versions
      BY <1>1, <1>2, <1>5 DEF Registry!Versions
    <2>2. v \notin Registry!Existing(s, v)
      BY DEF Registry!Existing
    <2>3. CASE s = "Production"
      BY <1>1, <2>1, <2>2, <2>3
    <2>4. CASE s # "Production"
      <3>1. promoted /\ ~demoted /\ stage[v] # "Production"
        BY <1>1, <2>4
      <3>2. PICK w \in Registry!Versions : stage[w] = "Production"
        BY <3>1 DEF RegistryInv
      <3>3. w \notin Registry!Existing(s, v) /\ w # v /\ w \in DOMAIN stage
        BY <2>4, <3>1, <3>2 DEF Registry!Existing, Registry!Versions
      <3> QED BY <1>1, <2>1, <3>2, <3>3
    <2> QED BY <2>3, <2>4
  <1> QED BY <1>1, <1>5, <1>6, <1>7, <1>8 DEF RegistryInv

LEMMA RegistryDelete ==
  ASSUME RegistryInv, NEW v \in DOMAIN stage, Registry!Delete(v)
  PROVE  RegistryInv'
  <1>1. /\ deleted' = deleted \union {v} /\ demoted' = (demoted \/ stage[v] = "Production")
        /\ UNCHANGED <<stage, tagged, mlflow_up, outages, operator_pc, registering,
                       active_version, is_active, returned, promoted>>
    BY DEF Registry!Delete, Registry!routeVars
  <1>2. Registry!TypeOK'
    <2>1. demoted' \in BOOLEAN
      BY <1>1
    <2> QED BY <1>1, <2>1 DEF RegistryInv, Registry!TypeOK
  <1>3. Registry!ReturnedIsWhole'
    BY <1>1 DEF RegistryInv, Registry!ReturnedIsWhole
  <1>4. promoted' /\ ~demoted' => \E w \in Registry!Versions' : stage'[w] = "Production"
    <2> HAVE promoted' /\ ~demoted'
    <2>1. promoted /\ ~demoted /\ stage[v] # "Production"
      BY <1>1
    <2> QED BY <1>1, <2>1 DEF RegistryInv, Registry!Versions
  <1> QED BY <1>1, <1>2, <1>3, <1>4 DEF RegistryInv

LEMMA RegistryNext == RegistryInv /\ [Registry!Next]_versionVars => RegistryInv'
  <1> SUFFICES ASSUME RegistryInv, [Registry!Next]_versionVars PROVE RegistryInv'
    OBVIOUS
  <1>1. ASSUME NEW v \in Switchable \union Archived, NEW dry_run_asked \in BOOLEAN,
               Registry!Switch(v, dry_run_asked)
        PROVE  RegistryInv'
    <2>1. /\ v \in Switchable
          /\ \/ active_version' = v /\ is_active' = (is_active \ {active_version}) \union {v}
             \/ UNCHANGED <<active_version, is_active>>
          /\ UNCHANGED <<stage, tagged, deleted, mlflow_up, outages, operator_pc, registering,
                         returned, promoted, demoted>>
      BY <1>1 DEF Registry!Switch, Registry!SwitchStatus, Registry!routeVars
    <2>2. is_active' = {active_version'} /\ active_version' \in Switchable
      BY <2>1 DEF RegistryInv, Registry!TypeOK
    <2> QED BY <2>1, <2>2 DEF RegistryInv, Registry!TypeOK, Registry!ReturnedIsWhole,
                              Registry!Versions
  <1>2. CASE Registry!Reach
    <2>1. UNCHANGED <<stage, tagged, deleted, operator_pc, registering, active_version, is_active,
                      returned, promoted, demoted>>
      BY <1>2 DEF Registry!Reach, Registry!routeVars
    <2>2. mlflow_up \in BOOLEAN /\ outages \in 0 .. Outages
      BY DEF RegistryInv, Registry!TypeOK
    <2>3. mlflow_up' \in BOOLEAN
      BY <1>2 DEF Registry!Reach
    <2>4. outages' \in 0 .. Outages
      BY <1>2, <2>2, RegistryConstants DEF Registry!Reach
    <2> QED BY <2>1, <2>3, <2>4 DEF RegistryInv, Registry!TypeOK, Registry!ReturnedIsWhole,
                                    Registry!Versions
  <1>3. CASE UNCHANGED versionVars
    BY <1>3 DEF versionVars, RegistryInv, Registry!TypeOK, Registry!ReturnedIsWhole,
                Registry!Versions
  <1> QED BY <1>1, <1>2, <1>3, RegistryRegister, RegistryTag, RegistryTransition, RegistryDelete
          DEF Registry!Next

LEMMA RegistrySound == RegistryInv => Registry!VersionsAreSound
  <1> SUFFICES ASSUME RegistryInv PROVE Registry!VersionsAreSound
    OBVIOUS
  <1>1. Registry!ProductionStays
    <2> SUFFICES ASSUME promoted, ~demoted, mlflow_up PROVE Registry!ProductionStatus = 200
      BY DEF Registry!ProductionStays
    <2>1. Registry!LatestIn("Production") # {}
      BY DEF RegistryInv, Registry!LatestIn
    <2> QED BY <2>1 DEF Registry!ProductionStatus
  <1>2. Registry!OneServes
    BY RegistryConstants DEF RegistryInv, Registry!TypeOK, Registry!OneServes
  <1> QED BY <1>1, <1>2 DEF RegistryInv, Registry!VersionsAreSound

-----------------------------------------------------------------------------
(*****************************************************************************)
(* The scaler.  Its mean and variance, in twelfths, are those of all         *)
(* values it was given: a batch is added by the recurrence of the code,      *)
(* which keeps the sums that the reference definition takes over the whole   *)
(* sequence.  Both are folds, which agree step by step.                      *)
(*****************************************************************************)
\* Arithmetic.
LEMMA Cancels ==
  /\ \A a \in Int : (2 * a) \div 2 = a /\ (3 * a) \div 3 = a /\ (4 * a) \div 4 = a
  /\ \A a \in Int : (12 * a) \div 12 = a /\ a \div 1 = a
  OBVIOUS

\* One sample, by the number of those before it.
WelfordHolds(n, mean, var, t, q) ==
  /\ mean \in Int /\ var \in Int
  /\ mean * n = 12 * t /\ var * n = 12 * (n * q - t * t)
  /\ n = 0 => mean = 0 /\ var = 0 /\ t = 0 /\ q = 0

LEMMA WelfordStep ==
  ASSUME NEW n \in Nat, n <= 3, NEW mean, NEW var, NEW t \in Int, NEW q \in Int, NEW x \in Int,
         WelfordHolds(n, mean, var, t, q)
  PROVE  LET m == mean + (x * 12 - mean) \div (n + 1)
             v == var + ((x * 12 - mean) * (x * 12 - m)) \div 12
         IN WelfordHolds(n + 1, m, v, t + x, q + x * x)
  <1> DEFINE m == mean + (x * 12 - mean) \div (n + 1)
             v == var + ((x * 12 - mean) * (x * 12 - m)) \div 12
  <1>1. mean \in Int /\ var \in Int
    BY DEF WelfordHolds
  <1>2. CASE n = 0
    <2>1. mean = 0 /\ var = 0 /\ t = 0 /\ q = 0
      BY <1>2 DEF WelfordHolds
    <2>2. m = 12 * x
      BY <1>2, <2>1
    <2>3. (x * 12 - mean) * (x * 12 - m) = 12 * 0
      BY <2>1, <2>2
    <2>4. v = 0
      BY <2>1, <2>3, Cancels
    <2> HIDE DEF m, v
    <2> QED BY <1>2, <2>1, <2>2, <2>4 DEF WelfordHolds
  <1>3. CASE n = 1
    <2>1. mean = 12 * t /\ var = 12 * (q - t * t)
      BY <1>1, <1>3 DEF WelfordHolds
    <2>2. m = 6 * (t + x)
      BY <1>3, <2>1
    <2>3. (x * 12 - mean) * (x * 12 - m) = 12 * (6 * ((x - t) * (x - t)))
      <3>1. x * 12 - mean = 12 * (x - t) /\ x * 12 - m = 6 * (x - t)
        BY <2>1, <2>2
      <3> HIDE DEF m
      <3> QED BY <3>1
    <2>4. v = var + 6 * ((x - t) * (x - t))
      <3>1. ((x * 12 - mean) * (x * 12 - m)) \div 12 = 6 * ((x - t) * (x - t))
        <4> HIDE DEF m
        <4>1. 6 * ((x - t) * (x - t)) \in Int
          OBVIOUS
        <4> QED BY ONLY <2>3, <4>1, Cancels
      <3> QED BY <3>1
    <2> HIDE DEF m, v
    <2> QED BY <1>3, <2>1, <2>2, <2>4 DEF WelfordHolds
  <1>4. CASE n = 2
    <2>1. mean = 6 * t /\ var = 12 * q - 6 * (t * t)
      BY <1>1, <1>4 DEF WelfordHolds
    <2>2. m = 4 * (t + x)
      BY <1>4, <2>1
    <2>3. (x * 12 - mean) * (x * 12 - m) = 12 * (2 * ((2 * x - t) * (2 * x - t)))
      <3>1. x * 12 - mean = 6 * (2 * x - t) /\ x * 12 - m = 4 * (2 * x - t)
        BY <2>1, <2>2
      <3> HIDE DEF m
      <3> QED BY <3>1
    <2>4. v = var + 2 * ((2 * x - t) * (2 * x - t))
      <3>1. ((x * 12 - mean) * (x * 12 - m)) \div 12 = 2 * ((2 * x - t) * (2 * x - t))
        <4> HIDE DEF m
        <4>1. 2 * ((2 * x - t) * (2 * x - t)) \in Int
          OBVIOUS
        <4> QED BY ONLY <2>3, <4>1, Cancels
      <3> QED BY <3>1
    <2> HIDE DEF m, v
    <2> QED BY <1>4, <2>1, <2>2, <2>4 DEF WelfordHolds
  <1>5. CASE n = 3
    <2>1. mean = 4 * t /\ var = 12 * q - 4 * (t * t)
      BY <1>1, <1>5 DEF WelfordHolds
    <2>2. m = 3 * (t + x)
      BY <1>5, <2>1
    <2>3. (x * 12 - mean) * (x * 12 - m) = 12 * ((3 * x - t) * (3 * x - t))
      <3>1. x * 12 - mean = 4 * (3 * x - t) /\ x * 12 - m = 3 * (3 * x - t)
        BY <2>1, <2>2
      <3> HIDE DEF m
      <3> QED BY <3>1
    <2>4. v = var + (3 * x - t) * (3 * x - t)
      <3>1. ((x * 12 - mean) * (x * 12 - m)) \div 12 = (3 * x - t) * (3 * x - t)
        <4> HIDE DEF m
        <4>1. (3 * x - t) * (3 * x - t) \in Int
          OBVIOUS
        <4> QED BY ONLY <2>3, <4>1, Cancels
      <3> QED BY <3>1
    <2> HIDE DEF m, v
    <2>5. m \in Int /\ v \in Int /\ m * 4 = 12 * (t + x)
      BY <2>1, <2>2, <2>4
    <2>6. v * 4 = 12 * (4 * (q + x * x) - (t + x) * (t + x))
      BY ONLY <2>1, <2>4, t \in Int, q \in Int, x \in Int
    <2> QED BY <1>5, <2>5, <2>6 DEF WelfordHolds
  <1> HIDE DEF m, v
  <1> QED BY <1>2, <1>3, <1>4, <1>5 DEF m, v

\* A fold from the left goes through the prefixes.
Follows(F, n, V, base, G) ==
  /\ F[{}] = base
  /\ \A s \in SUBSET (1 .. n) :
       s # {} /\ F[s \ {MaxOf(s)}] \in V => F[s] = G[MaxOf(s)][F[s \ {MaxOf(s)}]]

\* The same of the initial intervals, one step after the other.
Runs(F, n, V, base, G) ==
  /\ F[1 .. 0] = base
  /\ \A k \in 0 .. n : F[1 .. k] \in V
  /\ \A k \in 1 .. n : F[1 .. k] = G[k][F[1 .. (k - 1)]]

LEMMA FoldRuns ==
  ASSUME NEW n \in Nat, NEW V, NEW base \in V, NEW G \in [1 .. n -> [V -> V]],
         NEW F, Follows(F, n, V, base, G)
  PROVE  Runs(F, n, V, base, G)
  <1> DEFINE T == {k \in Nat : k <= n => F[1 .. k] \in V}
  <1>1. F[1 .. 0] = base
    <2>1. 1 .. 0 = {}
      OBVIOUS
    <2> QED BY <2>1 DEF Follows
  <1>2. ASSUME NEW k \in 1 .. n, F[1 .. (k - 1)] \in V
        PROVE  F[1 .. k] = G[k][F[1 .. (k - 1)]] /\ F[1 .. k] \in V
    <2>1. /\ 1 .. k \in SUBSET (1 .. n) /\ 1 .. k # {}
          /\ MaxOf(1 .. k) = k /\ (1 .. k) \ {k} = 1 .. (k - 1)
      BY Prefixes
    <2>2. F[1 .. k] = G[k][F[1 .. (k - 1)]]
      BY <1>2, <2>1 DEF Follows
    <2> QED BY <1>2, <2>2
  <1>3. ASSUME NEW k \in Nat, k \in T PROVE k + 1 \in T
    <2> SUFFICES ASSUME k + 1 <= n PROVE F[1 .. (k + 1)] \in V
      OBVIOUS
    <2>1. k + 1 \in 1 .. n /\ (k + 1) - 1 = k /\ F[1 .. k] \in V
      BY <1>3
    <2> QED BY <1>2, <2>1
  <1>4. Nat \subseteq T
    <2>1. 0 \in T
      BY <1>1
    <2> HIDE DEF T
    <2> QED BY <1>3, <2>1, Counting
  <1>5. \A k \in 0 .. n : F[1 .. k] \in V
    BY <1>4
  <1>6. ASSUME NEW k \in 1 .. n PROVE F[1 .. k] = G[k][F[1 .. (k - 1)]]
    <2>1. k - 1 \in 0 .. n
      OBVIOUS
    <2> QED BY <1>2, <1>5, <2>1
  <1> QED BY <1>1, <1>5, <1>6 DEF Runs

\* Sums of the prefixes of a sequence of terms.
Running(p, n, g) ==
  p \in [0 .. n -> Int] /\ p[0] = 0 /\ \A k \in 1 .. n : p[k] = p[k - 1] + g[k]

LEMMA RunningAgree ==
  ASSUME NEW n \in Nat, NEW m \in Nat, n <= m, NEW g, NEW h, NEW p, NEW r,
         Running(p, n, g), Running(r, m, h), \A k \in 1 .. n : g[k] = h[k]
  PROVE  p[n] = r[n]
  <1> DEFINE T == {k \in Nat : k <= n => p[k] = r[k]}
  <1>1. 0 \in T
    BY DEF Running
  <1>2. ASSUME NEW k \in Nat, k \in T PROVE k + 1 \in T
    <2> SUFFICES ASSUME k + 1 <= n PROVE p[k + 1] = r[k + 1]
      OBVIOUS
    <2>1. k + 1 \in 1 .. n /\ k + 1 \in 1 .. m /\ (k + 1) - 1 = k /\ p[k] = r[k]
      BY <1>2
    <2>2. p[k + 1] = p[k] + g[k + 1] /\ r[k + 1] = r[k] + h[k + 1]
      BY <2>1 DEF Running
    <2> QED BY <2>1, <2>2
  <1>3. Nat \subseteq T
    <2> HIDE DEF T
    <2> QED BY <1>1, <1>2, Counting
  <1> QED BY <1>3

LEMMA TotalRuns ==
  ASSUME NEW q \in Seq(Int)
  PROVE  \E p : Running(p, Len(q), q) /\ Scaler!Total(q) = p[Len(q)]
  <1> DEFINE n == Len(q)
             D == DOMAIN q
             Fold(f) == f = [s \in SUBSET D |->
                               IF s = {} THEN 0
                               ELSE LET x == CHOOSE x \in s : \A y \in s : x >= y IN
                                    f[s \ {x}] + q[x]]
             F == CHOOSE f : Fold(f)
             G == [i \in 1 .. n |-> [v \in Int |-> v + q[i]]]
  <1>1. n \in Nat /\ 0 \in Int /\ D = 1 .. n /\ \A i \in 1 .. n : q[i] \in Int
    OBVIOUS
  <1>2. Scaler!Total(q) = F[D]
    BY DEF Scaler!Total, Scaler!FoldLeft, Scaler!MapThenFoldSet, Scaler!Max
  <1>3. G \in [1 .. n -> [Int -> Int]] /\ \A i \in 1 .. n, v \in Int : G[i][v] = v + q[i]
    OBVIOUS
  <1> HIDE DEF n, G
  <1>4. PICK f : IsLeftFold(f, 1 .. n, Int, 0, G)
    BY <1>1, <1>3, LeftFoldExists
  <1>5. Fold(f)
    <2>1. ASSUME NEW s \in SUBSET D, s # {}
          PROVE  f[s] = f[s \ {MaxOf(s)}] + q[MaxOf(s)]
      <3>1. f[s] = G[MaxOf(s)][f[s \ {MaxOf(s)}]] /\ f[s \ {MaxOf(s)}] \in Int
        BY <1>1, <1>4, <2>1 DEF IsLeftFold
      <3>2. MaxOf(s) \in 1 .. n
        BY <1>1, <2>1, MaxExists
      <3> QED BY <1>3, <3>1, <3>2
    <2>2. f[{}] = 0 /\ f = [s \in SUBSET D |-> f[s]]
      BY <1>1, <1>4 DEF IsLeftFold
    <2> HIDE DEF D
    <2> QED BY <2>1, <2>2 DEF MaxOf
  <1> HIDE DEF Fold, D
  <1>6. Fold(F)
    BY <1>5
  <1> HIDE DEF F
  <1>7. F[{}] = 0
    BY <1>6 DEF Fold
  <1>8. \A s \in SUBSET (1 .. n) : s # {} /\ F[s \ {MaxOf(s)}] \in Int
          => F[s] = G[MaxOf(s)][F[s \ {MaxOf(s)}]]
    <2>1. \A s \in SUBSET (1 .. n) : s # {} => F[s] = F[s \ {MaxOf(s)}] + q[MaxOf(s)]
      BY <1>1, <1>6 DEF Fold, MaxOf
    <2>2. \A s \in SUBSET (1 .. n) : s # {} => MaxOf(s) \in 1 .. n
      BY <1>1, MaxExists
    <2> QED BY <1>3, <2>1, <2>2
  <1> DEFINE p == [k \in 0 .. n |-> F[1 .. k]]
  <1>9. /\ F[1 .. 0] = 0 /\ \A k \in 0 .. n : F[1 .. k] \in Int
        /\ \A k \in 1 .. n : F[1 .. k] = G[k][F[1 .. (k - 1)]]
    <2>1. Follows(F, n, Int, 0, G)
      BY <1>7, <1>8 DEF Follows
    <2>2. Runs(F, n, Int, 0, G)
      BY ONLY <1>1, <1>3, <2>1, FoldRuns
    <2> QED BY <2>2 DEF Runs
  <1>10. Running(p, n, q)
    <2>1. \A k \in 1 .. n : p[k] = F[1 .. k] /\ p[k - 1] = F[1 .. (k - 1)] /\ p[k - 1] \in Int
      BY <1>1, <1>9
    <2>2. p \in [0 .. n -> Int] /\ p[0] = 0
      BY <1>1, <1>9
    <2> HIDE DEF p
    <2>3. \A k \in 1 .. n : p[k] = p[k - 1] + q[k]
      <3> SUFFICES ASSUME NEW k \in 1 .. n PROVE p[k] = p[k - 1] + q[k]
        OBVIOUS
      <3>1. p[k] = G[k][p[k - 1]] /\ p[k - 1] \in Int
        BY <1>9, <2>1
      <3>2. G[k][p[k - 1]] = p[k - 1] + q[k]
        BY ONLY <1>3, <3>1, k \in 1 .. n
      <3> QED BY ONLY <3>1, <3>2
    <2> QED BY <2>2, <2>3 DEF Running
  <1>11. Scaler!Total(q) = p[n]
    BY <1>1, <1>2
  <1> QED BY <1>10, <1>11 DEF n
LEMMA SquaresRun ==
  ASSUME NEW q \in Seq(Int)
  PROVE  \E p : Running(p, Len(q), [k \in 1 .. Len(q) |-> q[k] * q[k]]) /\ Scaler!Squares(q) = p[Len(q)]
  <1> DEFINE n == Len(q)
             D == DOMAIN q
             Fold(f) == f = [s \in SUBSET D |->
                               IF s = {} THEN 0
                               ELSE LET x == CHOOSE x \in s : \A y \in s : x >= y IN
                                    f[s \ {x}] + q[x] * q[x]]
             F == CHOOSE f : Fold(f)
             G == [i \in 1 .. n |-> [v \in Int |-> v + q[i] * q[i]]]
  <1>1. n \in Nat /\ 0 \in Int /\ D = 1 .. n /\ \A i \in 1 .. n : q[i] \in Int /\ q[i] * q[i] \in Int
    OBVIOUS
  <1>2. Scaler!Squares(q) = F[D]
    BY DEF Scaler!Squares, Scaler!FoldLeft, Scaler!MapThenFoldSet, Scaler!Max
  <1>3. G \in [1 .. n -> [Int -> Int]] /\ \A i \in 1 .. n, v \in Int : G[i][v] = v + q[i] * q[i]
    OBVIOUS
  <1> HIDE DEF n, G
  <1>4. PICK f : IsLeftFold(f, 1 .. n, Int, 0, G)
    BY <1>1, <1>3, LeftFoldExists
  <1>5. Fold(f)
    <2>1. ASSUME NEW s \in SUBSET D, s # {}
          PROVE  f[s] = f[s \ {MaxOf(s)}] + q[MaxOf(s)] * q[MaxOf(s)]
      <3>1. f[s] = G[MaxOf(s)][f[s \ {MaxOf(s)}]] /\ f[s \ {MaxOf(s)}] \in Int
        BY <1>1, <1>4, <2>1 DEF IsLeftFold
      <3>2. MaxOf(s) \in 1 .. n
        BY <1>1, <2>1, MaxExists
      <3> QED BY <1>3, <3>1, <3>2
    <2>2. f[{}] = 0 /\ f = [s \in SUBSET D |-> f[s]]
      BY <1>1, <1>4 DEF IsLeftFold
    <2> HIDE DEF D
    <2> QED BY <2>1, <2>2 DEF MaxOf
  <1> HIDE DEF Fold, D
  <1>6. Fold(F)
    BY <1>5
  <1> HIDE DEF F
  <1>7. F[{}] = 0
    BY <1>6 DEF Fold
  <1>8. \A s \in SUBSET (1 .. n) : s # {} /\ F[s \ {MaxOf(s)}] \in Int
          => F[s] = G[MaxOf(s)][F[s \ {MaxOf(s)}]]
    <2>1. \A s \in SUBSET (1 .. n) : s # {} => F[s] = F[s \ {MaxOf(s)}] + q[MaxOf(s)] * q[MaxOf(s)]
      BY <1>1, <1>6 DEF Fold, MaxOf
    <2>2. \A s \in SUBSET (1 .. n) : s # {} => MaxOf(s) \in 1 .. n
      BY <1>1, MaxExists
    <2> QED BY <1>3, <2>1, <2>2
  <1> DEFINE p == [k \in 0 .. n |-> F[1 .. k]]
  <1>9. /\ F[1 .. 0] = 0 /\ \A k \in 0 .. n : F[1 .. k] \in Int
        /\ \A k \in 1 .. n : F[1 .. k] = G[k][F[1 .. (k - 1)]]
    <2>1. Follows(F, n, Int, 0, G)
      BY <1>7, <1>8 DEF Follows
    <2>2. Runs(F, n, Int, 0, G)
      BY ONLY <1>1, <1>3, <2>1, FoldRuns
    <2> QED BY <2>2 DEF Runs
  <1>10. Running(p, n, [k \in 1 .. n |-> q[k] * q[k]])
    <2>1. \A k \in 1 .. n : p[k] = F[1 .. k] /\ p[k - 1] = F[1 .. (k - 1)] /\ p[k - 1] \in Int
      BY <1>1, <1>9
    <2>2. p \in [0 .. n -> Int] /\ p[0] = 0
      BY <1>1, <1>9
    <2> HIDE DEF p
    <2>3. \A k \in 1 .. n : p[k] = p[k - 1] + q[k] * q[k]
      <3> SUFFICES ASSUME NEW k \in 1 .. n PROVE p[k] = p[k - 1] + q[k] * q[k]
        OBVIOUS
      <3>1. p[k] = G[k][p[k - 1]] /\ p[k - 1] \in Int
        BY <1>9, <2>1
      <3>2. G[k][p[k - 1]] = p[k - 1] + q[k] * q[k]
        BY ONLY <1>3, <3>1, k \in 1 .. n
      <3> QED BY ONLY <3>1, <3>2
    <2> QED BY <2>2, <2>3 DEF Running
  <1>11. Scaler!Squares(q) = p[n]
    BY <1>1, <1>2
  <1> QED BY <1>10, <1>11 DEF n

\* What a scaler is that stands for the samples q.
Stands(s, q) ==
  /\ q \in Seq(Values) /\ Len(q) <= 4
  /\ \/ s = Scaler!Fresh /\ Len(q) = 0
     \/ /\ s \in [mean : Int, var : Int, n : Nat, width : Widths]
        /\ s.n = Len(q) /\ s.n > 0
        /\ WelfordHolds(s.n, s.mean, s.var, Scaler!Total(q), Scaler!Squares(q))

\* The scaler stands for what it was given, its file for what was saved.
ScalerInv ==
  /\ Stands(scaler, samples) /\ saved \in Seq(Values) /\ refused \in BOOLEAN
  /\ state_file \in {None, CutShort} \/ Stands(state_file, saved)

LEMMA ScalerConstants == Values \subseteq Int /\ Widths \subseteq Nat \ {0} /\ MaxBatch \in Nat
  BY AdministrationAssumption DEF Scaler!ScalerAssumption


LEMMA FreshStands == Stands(Scaler!Fresh, <<>>) /\ <<>> \in Seq(Values)
  <1>1. <<>> \in Seq(Values) /\ Len(<<>>) = 0 /\ Len(<<>>) <= 4
    OBVIOUS
  <1> QED BY <1>1 DEF Stands

LEMMA StateChanged ==
  ASSUME NEW v \in [mean : Int, var : Int, n : Nat, width : Widths], NEW m \in Int, NEW w \in Int
  PROVE  LET a == [v EXCEPT !.n = v.n + 1, !.mean = m, !.var = w]
         IN /\ a \in [mean : Int, var : Int, n : Nat, width : Widths]
            /\ a.n = v.n + 1 /\ a.mean = m /\ a.var = w
  <1>1. v.n + 1 \in Nat
    OBVIOUS
  <1> QED BY <1>1

LEMMA ScalerInit == Scaler!Init => ScalerInv
  BY FreshStands DEF Scaler!Init, ScalerInv

\* A batch after the samples q brings the scaler to the samples q and those of the batch.
LEMMA BatchIsAdded ==
  ASSUME NEW q \in Seq(Values), NEW batch \in Seq(Values), Len(batch) > 0,
         Len(q) + Len(batch) <= 4, NEW width \in Widths, NEW s, Stands(s, q)
  PROVE  LET base == IF s = Scaler!Fresh THEN [mean |-> 0, var |-> 0, n |-> 0, width |-> width] ELSE s
             r == Scaler!FoldLeft(LAMBDA c, x : Scaler!Add(c, x * Scaler!Unit), base, batch)
         IN Stands(r, q \o batch)
  <1> DEFINE base == IF s = Scaler!Fresh THEN [mean |-> 0, var |-> 0, n |-> 0, width |-> width] ELSE s
             V == [mean : Int, var : Int, n : Nat, width : Widths]
             n == Len(batch)
             D == DOMAIN batch
             Fold(f) == f = [t \in SUBSET D |->
                               IF t = {} THEN base
                               ELSE LET x == CHOOSE x \in t : \A y \in t : x >= y IN
                                    Scaler!Add(f[t \ {x}], batch[x] * Scaler!Unit)]
             F == CHOOSE f : Fold(f)
             G == [i \in 1 .. n |-> [v \in V |-> Scaler!Add(v, batch[i] * Scaler!Unit)]]
             r == Scaler!FoldLeft(LAMBDA c, x : Scaler!Add(c, x * Scaler!Unit), base, batch)
  <1>1. n \in Nat /\ D = 1 .. n /\ \A i \in 1 .. n : batch[i] \in Int
    <2>1. n \in Nat /\ D = 1 .. n /\ \A i \in 1 .. n : batch[i] \in Values
      OBVIOUS
    <2> QED BY <2>1, ScalerConstants
  <1>2. r = F[D]
    BY DEF Scaler!FoldLeft, Scaler!MapThenFoldSet, Scaler!Max
  <1>3. ASSUME NEW v \in V, NEW i \in 1 .. n
        PROVE  LET x == batch[i]
                   a == Scaler!Add(v, x * Scaler!Unit)
                   m == v.mean + (x * 12 - v.mean) \div (v.n + 1)
               IN /\ a \in V /\ a.n = v.n + 1 /\ a.mean = m
                  /\ a.var = v.var + ((x * 12 - v.mean) * (x * 12 - m)) \div 12
    <2> DEFINE x == batch[i]
               m == v.mean + (x * 12 - v.mean) \div (v.n + 1)
               w == v.var + ((x * 12 - v.mean) * (x * 12 - m)) \div 12
    <2>1. x \in Int /\ v.mean \in Int /\ v.var \in Int /\ v.n \in Nat /\ v.width \in Widths
      BY <1>1
    <2>2. Scaler!Add(v, x * Scaler!Unit) = [v EXCEPT !.n = v.n + 1, !.mean = m, !.var = w]
      BY DEF Scaler!Add, Scaler!Deviation, Scaler!Unit
    <2>3. m \in Int
      BY <2>1
    <2>4. w \in Int
      <3> HIDE DEF m, x
      <3> QED BY <2>1, <2>3
    <2> HIDE DEF m, w
    <2>5. LET a == [v EXCEPT !.n = v.n + 1, !.mean = m, !.var = w]
          IN a \in V /\ a.n = v.n + 1 /\ a.mean = m /\ a.var = w
      BY <2>3, <2>4, StateChanged
    <2>6. LET a == Scaler!Add(v, x * Scaler!Unit)
          IN a \in V /\ a.n = v.n + 1 /\ a.mean = m /\ a.var = w
      BY <2>2, <2>5
    <2> HIDE DEF V
    <2> QED BY <2>6 DEF m, w
  <1>4. base \in V
    BY DEF Stands
  <1>5. G \in [1 .. n -> [V -> V]]
        /\ \A i \in 1 .. n, v \in V : G[i][v] = Scaler!Add(v, batch[i] * Scaler!Unit)
    <2> HIDE DEF V, n
    <2> QED BY <1>3
  <1> HIDE DEF n, G, V, base, r
  <1>6. PICK f : IsLeftFold(f, 1 .. n, V, base, G)
    BY <1>1, <1>4, <1>5, LeftFoldExists
  <1>7. Fold(f)
    <2>1. ASSUME NEW t \in SUBSET D, t # {}
          PROVE  f[t] = Scaler!Add(f[t \ {MaxOf(t)}], batch[MaxOf(t)] * Scaler!Unit)
      <3>1. f[t] = G[MaxOf(t)][f[t \ {MaxOf(t)}]] /\ f[t \ {MaxOf(t)}] \in V
        BY <1>1, <1>6, <2>1 DEF IsLeftFold
      <3>2. MaxOf(t) \in 1 .. n
        BY <1>1, <2>1, MaxExists
      <3> QED BY <1>5, <3>1, <3>2
    <2>2. f[{}] = base /\ f = [t \in SUBSET D |-> f[t]]
      BY <1>1, <1>6 DEF IsLeftFold
    <2> HIDE DEF D
    <2> QED BY <2>1, <2>2 DEF MaxOf
  <1> HIDE DEF Fold, D
  <1>8. Fold(F)
    BY <1>7
  <1> HIDE DEF F
  <1>9. F[{}] = base
    BY <1>8 DEF Fold
  <1>10. \A t \in SUBSET (1 .. n) : t # {} /\ F[t \ {MaxOf(t)}] \in V
          => F[t] = G[MaxOf(t)][F[t \ {MaxOf(t)}]]
    <2>1. \A t \in SUBSET (1 .. n) :
            t # {} => F[t] = Scaler!Add(F[t \ {MaxOf(t)}], batch[MaxOf(t)] * Scaler!Unit)
      BY <1>1, <1>8 DEF Fold, MaxOf
    <2>2. \A t \in SUBSET (1 .. n) : t # {} => MaxOf(t) \in 1 .. n
      BY <1>1, MaxExists
    <2> QED BY <1>5, <2>1, <2>2
  <1>11. /\ F[1 .. 0] = base /\ \A k \in 0 .. n : F[1 .. k] \in V
         /\ \A k \in 1 .. n : F[1 .. k] = G[k][F[1 .. (k - 1)]]
    <2>1. Follows(F, n, V, base, G)
      BY <1>9, <1>10 DEF Follows
    <2>2. Runs(F, n, V, base, G)
      BY ONLY <1>1, <1>4, <1>5, <2>1, FoldRuns
    <2> QED BY <2>2 DEF Runs
  <1> DEFINE both == q \o batch
             l == Len(q)
  <1>12. /\ both \in Seq(Values) /\ both \in Seq(Int) /\ q \in Seq(Int) /\ l \in Nat /\ n > 0
         /\ l + n <= 4 /\ Len(both) = l + n /\ n \in Nat
         /\ \A k \in 1 .. l : both[k] = q[k]
         /\ \A k \in 1 .. n : both[l + k] = batch[k]
    <2>1. q \in Seq(Values) /\ batch \in Seq(Values) /\ Len(batch) > 0 /\ Len(q) + Len(batch) <= 4
      OBVIOUS
    <2>2. /\ both \in Seq(Values) /\ l \in Nat /\ n \in Nat /\ Len(both) = l + n
          /\ \A k \in 1 .. l : both[k] = q[k]
          /\ \A k \in 1 .. n : both[l + k] = batch[k]
      BY ONLY <2>1 DEF n, both, l
    <2>3. \A z \in Seq(Values) : z \in Seq(Int)
      <3>1. \A z \in Seq(Values) : \A j \in 1 .. Len(z) : z[j] \in Values
        OBVIOUS
      <3> QED BY <3>1, ScalerConstants, SeqWithin
    <2>4. n > 0 /\ l + n <= 4
      BY ONLY <2>1 DEF n, l
    <2> HIDE DEF both, l
    <2> QED BY <2>1, <2>2, <2>3, <2>4
  <1> HIDE DEF both, l
  <1> DEFINE square(z) == [k \in 1 .. Len(z) |-> z[k] * z[k]]
  <1>13. PICK p : Running(p, l + n, both) /\ Scaler!Total(both) = p[l + n]
    BY <1>12, TotalRuns
  <1>14. PICK e : Running(e, l + n, square(both)) /\ Scaler!Squares(both) = e[l + n]
    BY <1>12, SquaresRun
  <1>15. p[l] = Scaler!Total(q) /\ e[l] = Scaler!Squares(q)
    <2>1. PICK p1 : Running(p1, l, q) /\ Scaler!Total(q) = p1[l]
      BY <1>12, TotalRuns DEF l
    <2>2. PICK e1 : Running(e1, l, square(q)) /\ Scaler!Squares(q) = e1[l]
      BY <1>12, SquaresRun DEF l
    <2>3. \A k \in 1 .. l : square(q)[k] = square(both)[k]
      BY ONLY <1>12 DEF l, square
    <2>4. l <= l + n /\ l + n \in Nat /\ l \in Nat
      BY <1>12
    <2> HIDE DEF square
    <2>5. p1[l] = p[l]
      BY <1>12, <1>13, <2>1, <2>4, RunningAgree
    <2>6. e1[l] = e[l]
      BY <1>14, <2>2, <2>3, <2>4, RunningAgree
    <2> QED BY <2>1, <2>2, <2>5, <2>6
  <1> DEFINE At(k) == /\ F[1 .. k].n = l + k
                      /\ WelfordHolds(l + k, F[1 .. k].mean, F[1 .. k].var, p[l + k], e[l + k])
             T == {k \in Nat : k <= n => At(k)}
  <1>16. 0 \in T
    <2>1. base.n = l /\ WelfordHolds(l, base.mean, base.var, p[l], e[l])
      <3>1. CASE s = Scaler!Fresh
        <4>1. l = 0 /\ base.n = 0 /\ base.mean = 0 /\ base.var = 0
          BY <3>1 DEF base, Stands, l, Scaler!Fresh
        <4>2. p[0] = 0 /\ e[0] = 0
          BY <1>13, <1>14 DEF Running
        <4> HIDE DEF square
        <4> QED BY <4>1, <4>2 DEF WelfordHolds
      <3>2. CASE s # Scaler!Fresh
        BY <1>15, <3>2 DEF base, Stands, l
      <3> QED BY <3>1, <3>2
    <2>2. l + 0 = l
      BY <1>12
    <2> HIDE DEF square
    <2> QED BY <1>11, <2>1, <2>2
  <1>17. ASSUME NEW k \in Nat, k \in T PROVE k + 1 \in T
    <2> SUFFICES ASSUME k + 1 <= n PROVE At(k + 1)
      OBVIOUS
    <2>1. At(k) /\ k + 1 \in 1 .. n /\ k \in 0 .. n /\ (k + 1) - 1 = k
      BY <1>12, <1>17
    <2> DEFINE v == F[1 .. k]
               w == F[1 .. (k + 1)]
               x == batch[k + 1]
               m == v.mean + (x * 12 - v.mean) \div (v.n + 1)
    <2>2. v \in V /\ x \in Int /\ w = Scaler!Add(v, x * Scaler!Unit)
      BY <1>1, <1>5, <1>11, <2>1
    <2>3. /\ w.n = v.n + 1 /\ w.mean = m
          /\ w.var = v.var + ((x * 12 - v.mean) * (x * 12 - m)) \div 12
      BY <1>3, <2>1, <2>2
    <2>4. /\ l + k \in Nat /\ l + k <= 3 /\ v.n = l + k /\ l + (k + 1) = (l + k) + 1
          /\ l + (k + 1) \in 1 .. (l + n) /\ l + k \in 0 .. (l + n)
      <3>1. v.n = l + k
        BY <2>1
      <3>2. l \in Nat /\ n \in Nat /\ k \in Nat /\ l + n <= 4 /\ k + 1 <= n
        BY <1>12
      <3> HIDE DEF l, n, v
      <3> QED BY <3>1, <3>2
    <2>5. p[l + (k + 1)] = p[l + k] + x /\ p[l + k] \in Int
      <3>1. (l + (k + 1)) - 1 = l + k
        BY <2>4, <1>12
      <3> QED BY <1>12, <1>13, <2>1, <2>4, <3>1 DEF Running
    <2>6. e[l + (k + 1)] = e[l + k] + x * x /\ e[l + k] \in Int
      <3>1. (l + (k + 1)) - 1 = l + k
        BY <2>4, <1>12
      <3>2. square(both)[l + (k + 1)] = x * x
        BY <1>12, <2>1, <2>4
      <3> HIDE DEF square
      <3> QED BY <1>14, <2>4, <3>1, <3>2 DEF Running
    <2> HIDE DEF v, w, x, m, square
    <2>7. WelfordHolds(l + k, v.mean, v.var, p[l + k], e[l + k])
      BY <2>1 DEF v
    <2>8. WelfordHolds((l + k) + 1, v.mean + (x * 12 - v.mean) \div ((l + k) + 1),
             v.var + ((x * 12 - v.mean) * (x * 12 - (v.mean + (x * 12 - v.mean) \div ((l + k) + 1)))) \div 12,
             p[l + k] + x, e[l + k] + x * x)
      BY <2>2, <2>4, <2>5, <2>6, <2>7, WelfordStep
    <2>9. WelfordHolds(l + (k + 1), w.mean, w.var, p[l + (k + 1)], e[l + (k + 1)])
      BY <2>3, <2>4, <2>5, <2>6, <2>8 DEF m
    <2>10. w.n = l + (k + 1)
      BY <2>3, <2>4
    <2> QED BY <2>9, <2>10 DEF w
  <1>18. At(n)
    <2>1. Nat \subseteq T
      <3> HIDE DEF T
      <3> QED BY <1>16, <1>17, Counting
    <2> QED BY <1>12, <2>1
  <1>19. r = F[1 .. n] /\ r \in V
    BY <1>1, <1>2, <1>11, <1>12
  <1>20. Stands(r, both)
    <2>1. l + n > 0 /\ Len(both) = l + n /\ Len(both) <= 4
      BY <1>12
    <2> HIDE DEF square
    <2> QED BY <1>12, <1>13, <1>14, <1>18, <1>19, <2>1 DEF Stands, V
  <1> QED BY <1>20 DEF r, base, both

LEMMA ScalerNext == ScalerInv /\ [Scaler!Next]_scalerVars => ScalerInv'
  <1> SUFFICES ASSUME ScalerInv, [Scaler!Next]_scalerVars PROVE ScalerInv'
    OBVIOUS
  <1>1. ASSUME NEW batch \in Scaler!SeqOf(Values, MaxBatch), NEW width \in Widths,
               Scaler!PartialFit(batch, width)
        PROVE  ScalerInv'
    <2>1. UNCHANGED <<state_file, saved>> /\ refused' \in BOOLEAN
      BY <1>1 DEF Scaler!PartialFit
    <2>2. batch \in Seq(Values)
      BY DEF Scaler!SeqOf
    <2>3. CASE UNCHANGED <<scaler, samples>>
      BY <2>1, <2>3 DEF ScalerInv
    <2>4. CASE ~UNCHANGED <<scaler, samples>>
      <3>1. /\ batch # <<>> /\ Len(samples) + Len(batch) <= 4
            /\ scaler' = Scaler!FoldLeft(LAMBDA c, x : Scaler!Add(c, x * Scaler!Unit),
                            IF scaler = Scaler!Fresh
                            THEN [mean |-> 0, var |-> 0, n |-> 0, width |-> width] ELSE scaler,
                            batch)
            /\ samples' = samples \o batch
        BY <1>1, <2>4 DEF Scaler!PartialFit, Scaler!MaxSamples
      <3>2. Len(batch) > 0
        <4>1. batch # <<>>
          BY <3>1
        <4> QED BY ONLY <2>2, <4>1
      <3>3. samples \in Seq(Values) /\ Stands(scaler, samples)
        BY DEF ScalerInv, Stands
      <3>4. Stands(scaler', samples')
        BY <2>2, <3>1, <3>2, <3>3, BatchIsAdded
      <3> QED BY <2>1, <3>4 DEF ScalerInv
    <2> QED BY <2>3, <2>4
  <1>2. CASE Scaler!Save
    <2>1. scaler' = scaler /\ samples' = samples /\ refused' \in BOOLEAN
      BY <1>2 DEF Scaler!Save
    <2>2. CASE state_file' = scaler /\ saved' = samples
      BY <2>1, <2>2 DEF ScalerInv, Stands
    <2>3. CASE state_file' = CutShort /\ saved' = <<>>
      BY <2>1, <2>3, FreshStands DEF ScalerInv
    <2> QED BY <1>2, <2>2, <2>3 DEF Scaler!Save
  <1>3. CASE Scaler!Load
    <2>1. UNCHANGED <<state_file, saved>> /\ refused' \in BOOLEAN
      BY <1>3 DEF Scaler!Load
    <2>2. CASE state_file \in {None, CutShort}
      BY <1>3, <2>1, <2>2 DEF ScalerInv, Scaler!Load
    <2>3. CASE state_file \notin {None, CutShort}
      BY <1>3, <2>1, <2>3 DEF ScalerInv, Scaler!Load
    <2> QED BY <2>2, <2>3
  <1>4. CASE Scaler!Reset
    <2>1. /\ scaler' = Scaler!Fresh /\ samples' = <<>> /\ refused' \in BOOLEAN
          /\ UNCHANGED <<state_file, saved>>
      BY <1>4 DEF Scaler!Reset
    <2> QED BY <2>1, FreshStands DEF ScalerInv
  <1>5. CASE UNCHANGED scalerVars
    BY <1>5 DEF scalerVars, ScalerInv
  <1> QED BY <1>1, <1>2, <1>3, <1>4, <1>5 DEF Scaler!Next

LEMMA StandsFor ==
  ASSUME NEW s, NEW q, Stands(s, q)
  PROVE  /\ q \in Seq(Values) /\ s.n = Len(q)
         /\ s = Scaler!Fresh \/ s \in [mean : Int, var : Int, n : 1 .. 4, width : Widths]
         /\ DOMAIN s = DOMAIN Scaler!Fresh
         /\ s # Scaler!Fresh =>
              /\ s.mean * s.n = 12 * Scaler!Total(q)
              /\ s.var * s.n
                   = 12 * (s.n * Scaler!Squares(q) - Scaler!Total(q) * Scaler!Total(q))
  <1>1. CASE s = Scaler!Fresh /\ Len(q) = 0
    BY <1>1 DEF Stands, Scaler!Fresh
  <1>2. CASE /\ s \in [mean : Int, var : Int, n : Nat, width : Widths]
             /\ s.n = Len(q) /\ s.n > 0
             /\ WelfordHolds(s.n, s.mean, s.var, Scaler!Total(q), Scaler!Squares(q))
    <2>1. s.n <= 4 /\ s.n \in Nat /\ q \in Seq(Values)
      BY <1>2 DEF Stands
    <2>2. s.n \in 1 .. 4
      BY <1>2, <2>1
    <2>3. s \in [mean : Int, var : Int, n : 1 .. 4, width : Widths]
      BY <1>2, <2>2
    <2>4. DOMAIN s = DOMAIN Scaler!Fresh
      BY <1>2 DEF Scaler!Fresh
    <2> QED BY <1>2, <2>1, <2>3, <2>4 DEF WelfordHolds
  <1> QED BY <1>1, <1>2 DEF Stands

LEMMA ScalerSound == ScalerInv => Scaler!TypeOK /\ Scaler!ScalerIsExact
  BY StandsFor DEF ScalerInv, Scaler!TypeOK, Scaler!ScalerIsExact, Scaler!Unit, Scaler!MaxSamples

==============================================================================
