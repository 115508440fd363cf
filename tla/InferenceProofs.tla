---------------------------- MODULE InferenceProofs ----------------------------
(***************************************************************************)
(* Proofs about Inference, for every value of the constants.  The          *)
(* components that are not of Streams get their inductive invariants here, *)
(* in the same three lemmas each.  A behaviour follows one component and   *)
(* leaves the others as they are, so all the invariants hold together.     *)
(***************************************************************************)
EXTENDS Inference, StreamsProofs

-----------------------------------------------------------------------------
(*****************************************************************************)
(* The circuit breaker.  However its threads meet, who has made a closed     *)
(* breaker count its threshold is on the way to look at the count, and only  *)
(* a reset forgets the time of a failure.  While no two of them have met,    *)
(* what a thread has found is still so when it acts on it.                   *)
(*****************************************************************************)
FailedBefore == {"f_state", "reopen", "f_closed", "f_enough", "open"}

IsInside(c) == Breaker!Inside(breaker_pc[c])

\* What a thread carries.
CarriesSense ==
  \A c \in BreakerCalls :
    /\ breaker_pc[c] = "f_store" => local[c] < failures
    /\ breaker_pc[c] = "time" => local[c] \in 1 .. BreakerTime

KnowsWhen ==
  /\ state = "open" => last_failure_time # None
  /\ \A c \in BreakerCalls : breaker_pc[c] \in FailedBefore => last_failure_time # None
  /\ \A c \in BreakerCalls : breaker_pc[c] \in Breaker!Resetting =>
       /\ state = "closed"
       /\ \A d \in BreakerCalls : IsInside(d) => c = d

OneInside == \A c \in BreakerCalls, d \in BreakerCalls : IsInside(c) /\ IsInside(d) => c = d

LatestIsKnown ==
  /\ \A c \in BreakerCalls : breaker_pc[c] = "time" => local[c] = failed_at
  /\ \/ last_failure_time = None \/ last_failure_time = failed_at
     \/ \E c \in BreakerCalls : breaker_pc[c] = "time"
  /\ \A c \in BreakerCalls :
       breaker_pc[c] \in {"half", "afresh"} => failed_at + recovery_timeout <= breaker_now

OnlyProvenCount ==
  /\ state = "half_open" =>
       success_count <= proven \/ \E c \in BreakerCalls : breaker_pc[c] = "afresh"
  /\ \A c \in BreakerCalls :
       /\ breaker_pc[c] \in {"s_count", "s_store", "s_enough", "s_close"} => state = "half_open"
       /\ breaker_pc[c] \in {"s_count", "s_store"} => success_count < proven
       /\ breaker_pc[c] = "s_store" => local[c] = success_count
       /\ breaker_pc[c] = "s_close" => proven >= 2

BreakerInv ==
  /\ Breaker!TypeOK /\ Breaker!ClosedHasRoom /\ CarriesSense
  /\ "reset" \notin raced => KnowsWhen
  /\ raced = {} => OneInside /\ LatestIsKnown /\ OnlyProvenCount

LEMMA BreakerFacts ==
  /\ BreakerTime \in Nat \ {0} /\ MaxFailures \in Nat /\ None \notin Nat
  /\ failure_threshold \in Nat \ {0} /\ recovery_timeout \in Nat
  BY Assumptions DEF Breaker!BreakerAssumption

LEMMA BreakerInit == Breaker!Init => BreakerInv
  <1> SUFFICES ASSUME Breaker!Init PROVE BreakerInv
    OBVIOUS
  <1>1. /\ \A c \in BreakerCalls : breaker_pc[c] = "idle" /\ ~IsInside(c)
        /\ breaker_pc = [c \in BreakerCalls |-> "idle"] /\ local = [c \in BreakerCalls |-> 0]
        /\ state = "closed" /\ failure_count = 0 /\ success_count = 0 /\ breaker_now = 1
        /\ failures = 0 /\ failed_at = 0 /\ proven = 0 /\ raced = {} /\ last_failure_time = None
    BY DEF Breaker!Init, IsInside, Breaker!Inside
  <1>2. Breaker!TypeOK
    BY <1>1, BreakerFacts DEF Breaker!TypeOK, Breaker!Places
  <1>3. Breaker!ClosedHasRoom /\ CarriesSense
    BY <1>1, BreakerFacts DEF Breaker!ClosedHasRoom, CarriesSense
  <1>4. KnowsWhen
    BY <1>1 DEF KnowsWhen, FailedBefore, Breaker!Resetting
  <1>5. OneInside /\ LatestIsKnown /\ OnlyProvenCount
    BY <1>1 DEF OneInside, LatestIsKnown, OnlyProvenCount
  <1> QED BY <1>2, <1>3, <1>4, <1>5 DEF BreakerInv

\* One thread goes on, and knows whom it meets.
GoesOn(c, from, to) ==
  /\ breaker_pc' \in [BreakerCalls -> Breaker!Places]
  /\ breaker_pc[c] = from /\ breaker_pc'[c] = to
  /\ \A d \in BreakerCalls : d # c => breaker_pc'[d] = breaker_pc[d]
  /\ breaker_now' = breaker_now
  /\ raced' \in SUBSET {"calls", "reset"}
  /\ raced' = {} => raced = {}
  /\ "reset" \notin raced' => "reset" \notin raced
  /\ (raced' = {} /\ Breaker!Inside(to)) => \A d \in BreakerCalls : IsInside(d) => d = c
  /\ ("reset" \notin raced' /\ Breaker!Inside(to)) =>
       \A d \in BreakerCalls :
         IsInside(d) /\ d # c => to \notin Breaker!Resetting /\ breaker_pc[d] \notin Breaker!Resetting

LEMMA ThreadGoes ==
  ASSUME BreakerInv, NEW c \in BreakerCalls, NEW from, NEW to \in Breaker!Places,
         Breaker!Goes(c, from, to)
  PROVE  GoesOn(c, from, to)
  <1>1. /\ breaker_pc \in [BreakerCalls -> Breaker!Places] /\ raced \in SUBSET {"calls", "reset"}
    BY DEF BreakerInv, Breaker!TypeOK
  <1>2. /\ breaker_pc[c] = from /\ breaker_pc' = [breaker_pc EXCEPT ![c] = to]
        /\ raced' = raced \union Breaker!Meets(c, to) /\ breaker_now' = breaker_now
    BY DEF Breaker!Goes
  <1>3. Breaker!Meets(c, to) \subseteq {"calls", "reset"}
    BY DEF Breaker!Meets
  <1>4. ASSUME NEW d \in BreakerCalls, d # c, Breaker!Inside(to), IsInside(d)
        PROVE  /\ Breaker!Meets(c, to) # {}
               /\ (to \in Breaker!Resetting \/ breaker_pc[d] \in Breaker!Resetting)
                    => "reset" \in Breaker!Meets(c, to)
    <2>1. d \in {e \in BreakerCalls \ {c} : Breaker!Inside(to) /\ Breaker!Inside(breaker_pc[e])}
      BY <1>4 DEF IsInside
    <2>2. (IF to \in Breaker!Resetting \/ breaker_pc[d] \in Breaker!Resetting
           THEN "reset" ELSE "calls") \in Breaker!Meets(c, to)
      BY <2>1 DEF Breaker!Meets
    <2> QED BY <2>2
  <1>5. /\ breaker_pc'[c] = to /\ breaker_pc' \in [BreakerCalls -> Breaker!Places]
        /\ \A d \in BreakerCalls : d # c => breaker_pc'[d] = breaker_pc[d]
    BY <1>1, <1>2
  <1> QED BY <1>1, <1>2, <1>3, <1>4, <1>5 DEF GoesOn

\* Before the function.
LEMMA BreakerAdmit ==
  ASSUME BreakerInv, NEW c \in BreakerCalls, Breaker!Admit(c)
  PROVE  BreakerInv'
  <1>1. CASE /\ Breaker!Looks(c, "idle", IF state = "open" THEN "found_open" ELSE "function")
            /\ state = "open"
    <2>1. /\ GoesOn(c, "idle", "found_open")
          /\ state = "open"
          /\ UNCHANGED <<state, failure_count, success_count, last_failure_time, local, failures,
                         failed_at, proven>>
      BY <1>1, ThreadGoes
         DEF Breaker!Looks, Breaker!shared, Breaker!history, Breaker!Places, Breaker!Admitting
    <2>2. Breaker!TypeOK' /\ Breaker!ClosedHasRoom' /\ CarriesSense'
      BY <2>1, BreakerFacts
         DEF GoesOn, BreakerInv, Breaker!TypeOK, Breaker!ClosedHasRoom, CarriesSense, Breaker!Failing
    <2>3. "reset" \notin raced' => KnowsWhen'
      BY <2>1, BreakerFacts
         DEF GoesOn, BreakerInv, Breaker!TypeOK, KnowsWhen, CarriesSense, FailedBefore,
             Breaker!Resetting, IsInside, Breaker!Inside
    <2>4. raced' = {} => OneInside' /\ LatestIsKnown' /\ OnlyProvenCount'
      BY <2>1, BreakerFacts
         DEF GoesOn, BreakerInv, Breaker!TypeOK, OneInside, LatestIsKnown, OnlyProvenCount,
             IsInside, Breaker!Inside
    <2> QED BY <2>2, <2>3, <2>4 DEF BreakerInv
  <1>2. CASE /\ Breaker!Looks(c, "idle", IF state = "open" THEN "found_open" ELSE "function")
            /\ state # "open"
    <2>1. /\ GoesOn(c, "idle", "function")
          /\ state # "open"
          /\ UNCHANGED <<state, failure_count, success_count, last_failure_time, local, failures,
                         failed_at, proven>>
      BY <1>2, ThreadGoes DEF Breaker!Looks, Breaker!shared, Breaker!history, Breaker!Places
    <2>2. Breaker!TypeOK' /\ Breaker!ClosedHasRoom' /\ CarriesSense'
      BY <2>1, BreakerFacts
         DEF GoesOn, BreakerInv, Breaker!TypeOK, Breaker!ClosedHasRoom, CarriesSense, Breaker!Failing
    <2>3. "reset" \notin raced' => KnowsWhen'
      BY <2>1, BreakerFacts
         DEF GoesOn, BreakerInv, Breaker!TypeOK, KnowsWhen, CarriesSense, FailedBefore,
             Breaker!Resetting, IsInside, Breaker!Inside
    <2>4. raced' = {} => OneInside' /\ LatestIsKnown' /\ OnlyProvenCount'
      BY <2>1, BreakerFacts
         DEF GoesOn, BreakerInv, Breaker!TypeOK, OneInside, LatestIsKnown, OnlyProvenCount,
             IsInside, Breaker!Inside
    <2> QED BY <2>2, <2>3, <2>4 DEF BreakerInv
  <1>3. CASE /\ Breaker!Looks(c, "found_open", IF Breaker!MayRecover THEN "half" ELSE "idle")
            /\ Breaker!MayRecover
    <2>1. /\ GoesOn(c, "found_open", "half")
          /\ last_failure_time # None /\ breaker_now - last_failure_time >= recovery_timeout
          /\ UNCHANGED <<state, failure_count, success_count, last_failure_time, local, failures,
                         failed_at, proven>>
      BY <1>3, ThreadGoes
         DEF Breaker!Looks, Breaker!shared, Breaker!history, Breaker!Places,
             Breaker!Admitting, Breaker!MayRecover
    <2>2. Breaker!TypeOK' /\ Breaker!ClosedHasRoom' /\ CarriesSense'
      BY <2>1, BreakerFacts
         DEF GoesOn, BreakerInv, Breaker!TypeOK, Breaker!ClosedHasRoom, CarriesSense, Breaker!Failing
    <2>3. "reset" \notin raced' => KnowsWhen'
      BY <2>1, BreakerFacts
         DEF GoesOn, BreakerInv, Breaker!TypeOK, KnowsWhen, CarriesSense, FailedBefore,
             Breaker!Resetting, IsInside, Breaker!Inside
    <2>4. raced' = {} => OneInside' /\ LatestIsKnown' /\ OnlyProvenCount'
      BY <2>1, BreakerFacts
         DEF GoesOn, BreakerInv, Breaker!TypeOK, OneInside, LatestIsKnown, OnlyProvenCount,
             IsInside, Breaker!Inside
    <2> QED BY <2>2, <2>3, <2>4 DEF BreakerInv
  <1>4. CASE /\ Breaker!Looks(c, "found_open", IF Breaker!MayRecover THEN "half" ELSE "idle")
            /\ ~Breaker!MayRecover
    <2>1. /\ GoesOn(c, "found_open", "idle")
          /\ UNCHANGED <<state, failure_count, success_count, last_failure_time, local, failures,
                         failed_at, proven>>
      BY <1>4, ThreadGoes
         DEF Breaker!Looks, Breaker!shared, Breaker!history, Breaker!Places, Breaker!MayRecover
    <2>2. Breaker!TypeOK' /\ Breaker!ClosedHasRoom' /\ CarriesSense'
      BY <2>1, BreakerFacts
         DEF GoesOn, BreakerInv, Breaker!TypeOK, Breaker!ClosedHasRoom, CarriesSense, Breaker!Failing
    <2>3. "reset" \notin raced' => KnowsWhen'
      BY <2>1, BreakerFacts
         DEF GoesOn, BreakerInv, Breaker!TypeOK, KnowsWhen, CarriesSense, FailedBefore,
             Breaker!Resetting, IsInside, Breaker!Inside
    <2>4. raced' = {} => OneInside' /\ LatestIsKnown' /\ OnlyProvenCount'
      BY <2>1, BreakerFacts
         DEF GoesOn, BreakerInv, Breaker!TypeOK, OneInside, LatestIsKnown, OnlyProvenCount,
             IsInside, Breaker!Inside
    <2> QED BY <2>2, <2>3, <2>4 DEF BreakerInv
  <1>5. CASE Breaker!SetState(c, "half", "afresh", "half_open") /\ proven' = 0
    <2>1. /\ GoesOn(c, "half", "afresh")
          /\ state' = "half_open" /\ proven' = 0
          /\ UNCHANGED <<failure_count, success_count, last_failure_time, local, failures, failed_at>>
      BY <1>5, ThreadGoes DEF Breaker!SetState, Breaker!Places, Breaker!Admitting
    <2>2. Breaker!TypeOK' /\ Breaker!ClosedHasRoom' /\ CarriesSense'
      BY <2>1, BreakerFacts
         DEF GoesOn, BreakerInv, Breaker!TypeOK, Breaker!ClosedHasRoom, CarriesSense, Breaker!Failing
    <2>3. "reset" \notin raced' => KnowsWhen'
      BY <2>1, BreakerFacts
         DEF GoesOn, BreakerInv, Breaker!TypeOK, KnowsWhen, CarriesSense, FailedBefore,
             Breaker!Resetting, IsInside, Breaker!Inside
    <2>4. raced' = {} => OneInside' /\ LatestIsKnown' /\ OnlyProvenCount'
      BY <2>1, BreakerFacts
         DEF GoesOn, BreakerInv, Breaker!TypeOK, OneInside, LatestIsKnown, OnlyProvenCount,
             IsInside, Breaker!Inside
    <2> QED BY <2>2, <2>3, <2>4 DEF BreakerInv
  <1>6. CASE Breaker!SetSuccesses(c, "afresh", "function", 0)
    <2>1. /\ GoesOn(c, "afresh", "function")
          /\ success_count' = 0 /\ local' = [local EXCEPT ![c] = 0]
          /\ UNCHANGED <<state, failure_count, last_failure_time, failures, failed_at, proven>>
      BY <1>6, ThreadGoes DEF Breaker!SetSuccesses, Breaker!history, Breaker!Places
    <2>2. Breaker!TypeOK' /\ Breaker!ClosedHasRoom' /\ CarriesSense'
      BY <2>1, BreakerFacts
         DEF GoesOn, BreakerInv, Breaker!TypeOK, Breaker!ClosedHasRoom, CarriesSense, Breaker!Failing
    <2>3. "reset" \notin raced' => KnowsWhen'
      BY <2>1, BreakerFacts
         DEF GoesOn, BreakerInv, Breaker!TypeOK, KnowsWhen, CarriesSense, FailedBefore,
             Breaker!Resetting, IsInside, Breaker!Inside
    <2>4. raced' = {} => OneInside' /\ LatestIsKnown' /\ OnlyProvenCount'
      BY <2>1, BreakerFacts
         DEF GoesOn, BreakerInv, Breaker!TypeOK, OneInside, LatestIsKnown, OnlyProvenCount,
             IsInside, Breaker!Inside
    <2> QED BY <2>2, <2>3, <2>4 DEF BreakerInv
  <1> QED BY <1>1, <1>2, <1>3, <1>4, <1>5, <1>6 DEF Breaker!Admit

\* After a function that returned.
LEMMA BreakerSucceed ==
  ASSUME BreakerInv, NEW c \in BreakerCalls, Breaker!Succeed(c)
  PROVE  BreakerInv'
  <1>1. CASE /\ Breaker!Goes(c, "function", IF state = "half_open" THEN "s_count" ELSE "s_closed")
            /\ proven' = proven + (IF state = "half_open" THEN 1 ELSE 0)
            /\ UNCHANGED <<Breaker!shared, local, failures, failed_at>>
            /\ state = "half_open"
    <2>1. /\ GoesOn(c, "function", "s_count")
          /\ proven' = proven + 1 /\ state = "half_open"
          /\ UNCHANGED <<state, failure_count, success_count, last_failure_time, local, failures,
                         failed_at>>
      BY <1>1, ThreadGoes DEF Breaker!shared, Breaker!Places, Breaker!Proving
    <2>2. Breaker!TypeOK' /\ Breaker!ClosedHasRoom' /\ CarriesSense'
      BY <2>1, BreakerFacts
         DEF GoesOn, BreakerInv, Breaker!TypeOK, Breaker!ClosedHasRoom, CarriesSense, Breaker!Failing
    <2>3. "reset" \notin raced' => KnowsWhen'
      BY <2>1, BreakerFacts
         DEF GoesOn, BreakerInv, Breaker!TypeOK, KnowsWhen, CarriesSense, FailedBefore,
             Breaker!Resetting, IsInside, Breaker!Inside
    <2>4. raced' = {} => OneInside' /\ LatestIsKnown' /\ OnlyProvenCount'
      BY <2>1, BreakerFacts
         DEF GoesOn, BreakerInv, Breaker!TypeOK, OneInside, LatestIsKnown, OnlyProvenCount,
             IsInside, Breaker!Inside
    <2> QED BY <2>2, <2>3, <2>4 DEF BreakerInv
  <1>2. CASE /\ Breaker!Goes(c, "function", IF state = "half_open" THEN "s_count" ELSE "s_closed")
            /\ proven' = proven + (IF state = "half_open" THEN 1 ELSE 0)
            /\ UNCHANGED <<Breaker!shared, local, failures, failed_at>>
            /\ state # "half_open"
    <2>1. /\ GoesOn(c, "function", "s_closed")
          /\ state # "half_open"
          /\ UNCHANGED <<state, failure_count, success_count, last_failure_time, local, failures,
                         failed_at, proven>>
      BY <1>2, ThreadGoes
         DEF Breaker!shared, Breaker!Places, Breaker!Proving, BreakerInv, Breaker!TypeOK
    <2>2. Breaker!TypeOK' /\ Breaker!ClosedHasRoom' /\ CarriesSense'
      BY <2>1, BreakerFacts
         DEF GoesOn, BreakerInv, Breaker!TypeOK, Breaker!ClosedHasRoom, CarriesSense, Breaker!Failing
    <2>3. "reset" \notin raced' => KnowsWhen'
      BY <2>1, BreakerFacts
         DEF GoesOn, BreakerInv, Breaker!TypeOK, KnowsWhen, CarriesSense, FailedBefore,
             Breaker!Resetting, IsInside, Breaker!Inside
    <2>4. raced' = {} => OneInside' /\ LatestIsKnown' /\ OnlyProvenCount'
      BY <2>1, BreakerFacts
         DEF GoesOn, BreakerInv, Breaker!TypeOK, OneInside, LatestIsKnown, OnlyProvenCount,
             IsInside, Breaker!Inside
    <2> QED BY <2>2, <2>3, <2>4 DEF BreakerInv
  <1>3. CASE Breaker!Loads(c, "s_count", "s_store", success_count) /\ UNCHANGED Breaker!history
    <2>1. /\ GoesOn(c, "s_count", "s_store")
          /\ local' = [local EXCEPT ![c] = success_count]
          /\ UNCHANGED <<state, failure_count, success_count, last_failure_time, failures, failed_at,
                         proven>>
      BY <1>3, ThreadGoes
         DEF Breaker!Loads, Breaker!shared, Breaker!history, Breaker!Places, Breaker!Proving
    <2>2. Breaker!TypeOK' /\ Breaker!ClosedHasRoom' /\ CarriesSense'
      BY <2>1, BreakerFacts
         DEF GoesOn, BreakerInv, Breaker!TypeOK, Breaker!ClosedHasRoom, CarriesSense, Breaker!Failing
    <2>3. "reset" \notin raced' => KnowsWhen'
      BY <2>1, BreakerFacts
         DEF GoesOn, BreakerInv, Breaker!TypeOK, KnowsWhen, CarriesSense, FailedBefore,
             Breaker!Resetting, IsInside, Breaker!Inside
    <2>4. raced' = {} => OneInside' /\ LatestIsKnown' /\ OnlyProvenCount'
      BY <2>1, BreakerFacts
         DEF GoesOn, BreakerInv, Breaker!TypeOK, OneInside, LatestIsKnown, OnlyProvenCount,
             IsInside, Breaker!Inside
    <2> QED BY <2>2, <2>3, <2>4 DEF BreakerInv
  <1>4. CASE Breaker!SetSuccesses(c, "s_store", "s_enough", local[c] + 1)
    <2>1. /\ GoesOn(c, "s_store", "s_enough")
          /\ success_count' = local[c] + 1 /\ local' = [local EXCEPT ![c] = 0]
          /\ UNCHANGED <<state, failure_count, last_failure_time, failures, failed_at, proven>>
      BY <1>4, ThreadGoes
         DEF Breaker!SetSuccesses, Breaker!history, Breaker!Places, Breaker!Proving
    <2>2. Breaker!TypeOK' /\ Breaker!ClosedHasRoom' /\ CarriesSense'
      BY <2>1, BreakerFacts
         DEF GoesOn, BreakerInv, Breaker!TypeOK, Breaker!ClosedHasRoom, CarriesSense, Breaker!Failing
    <2>3. "reset" \notin raced' => KnowsWhen'
      BY <2>1, BreakerFacts
         DEF GoesOn, BreakerInv, Breaker!TypeOK, KnowsWhen, CarriesSense, FailedBefore,
             Breaker!Resetting, IsInside, Breaker!Inside
    <2>4. raced' = {} => OneInside' /\ LatestIsKnown' /\ OnlyProvenCount'
      BY <2>1, BreakerFacts
         DEF GoesOn, BreakerInv, Breaker!TypeOK, OneInside, LatestIsKnown, OnlyProvenCount,
             IsInside, Breaker!Inside
    <2> QED BY <2>2, <2>3, <2>4 DEF BreakerInv
  <1>5. CASE /\ Breaker!Looks(c, "s_enough", IF Breaker!Enough THEN "s_close" ELSE "idle")
            /\ Breaker!Enough
    <2>1. /\ GoesOn(c, "s_enough", "s_close")
          /\ success_count >= 2
          /\ UNCHANGED <<state, failure_count, success_count, last_failure_time, local, failures,
                         failed_at, proven>>
      BY <1>5, ThreadGoes
         DEF Breaker!Looks, Breaker!shared, Breaker!history, Breaker!Places,
             Breaker!Proving, Breaker!Enough
    <2>2. Breaker!TypeOK' /\ Breaker!ClosedHasRoom' /\ CarriesSense'
      BY <2>1, BreakerFacts
         DEF GoesOn, BreakerInv, Breaker!TypeOK, Breaker!ClosedHasRoom, CarriesSense, Breaker!Failing
    <2>3. "reset" \notin raced' => KnowsWhen'
      BY <2>1, BreakerFacts
         DEF GoesOn, BreakerInv, Breaker!TypeOK, KnowsWhen, CarriesSense, FailedBefore,
             Breaker!Resetting, IsInside, Breaker!Inside
    <2>4. raced' = {} => OneInside' /\ LatestIsKnown' /\ OnlyProvenCount'
      BY <2>1, BreakerFacts
         DEF GoesOn, BreakerInv, Breaker!TypeOK, OneInside, LatestIsKnown, OnlyProvenCount,
             IsInside, Breaker!Inside
    <2> QED BY <2>2, <2>3, <2>4 DEF BreakerInv
  <1>6. CASE /\ Breaker!Looks(c, "s_enough", IF Breaker!Enough THEN "s_close" ELSE "idle")
            /\ ~Breaker!Enough
    <2>1. /\ GoesOn(c, "s_enough", "idle")
          /\ ~(success_count >= 2)
          /\ UNCHANGED <<state, failure_count, success_count, last_failure_time, local, failures,
                         failed_at, proven>>
      BY <1>6, ThreadGoes
         DEF Breaker!Looks, Breaker!shared, Breaker!history, Breaker!Places, Breaker!Enough
    <2>2. Breaker!TypeOK' /\ Breaker!ClosedHasRoom' /\ CarriesSense'
      BY <2>1, BreakerFacts
         DEF GoesOn, BreakerInv, Breaker!TypeOK, Breaker!ClosedHasRoom, CarriesSense, Breaker!Failing
    <2>3. "reset" \notin raced' => KnowsWhen'
      BY <2>1, BreakerFacts
         DEF GoesOn, BreakerInv, Breaker!TypeOK, KnowsWhen, CarriesSense, FailedBefore,
             Breaker!Resetting, IsInside, Breaker!Inside
    <2>4. raced' = {} => OneInside' /\ LatestIsKnown' /\ OnlyProvenCount'
      BY <2>1, BreakerFacts
         DEF GoesOn, BreakerInv, Breaker!TypeOK, OneInside, LatestIsKnown, OnlyProvenCount,
             IsInside, Breaker!Inside
    <2> QED BY <2>2, <2>3, <2>4 DEF BreakerInv
  <1>7. CASE Breaker!SetState(c, "s_close", "forget", "closed") /\ UNCHANGED proven
    <2>1. /\ GoesOn(c, "s_close", "forget")
          /\ state' = "closed"
          /\ UNCHANGED <<failure_count, success_count, last_failure_time, local, failures, failed_at,
                         proven>>
      BY <1>7, ThreadGoes DEF Breaker!SetState, Breaker!Places
    <2>2. Breaker!TypeOK' /\ Breaker!ClosedHasRoom' /\ CarriesSense'
      BY <2>1, BreakerFacts
         DEF GoesOn, BreakerInv, Breaker!TypeOK, Breaker!ClosedHasRoom, CarriesSense, Breaker!Failing
    <2>3. "reset" \notin raced' => KnowsWhen'
      BY <2>1, BreakerFacts
         DEF GoesOn, BreakerInv, Breaker!TypeOK, KnowsWhen, CarriesSense, FailedBefore,
             Breaker!Resetting, IsInside, Breaker!Inside
    <2>4. raced' = {} => OneInside' /\ LatestIsKnown' /\ OnlyProvenCount'
      BY <2>1, BreakerFacts
         DEF GoesOn, BreakerInv, Breaker!TypeOK, OneInside, LatestIsKnown, OnlyProvenCount,
             IsInside, Breaker!Inside
    <2> QED BY <2>2, <2>3, <2>4 DEF BreakerInv
  <1>8. CASE Breaker!SetFailures(c, "forget", "zero", 0)
    <2>1. /\ GoesOn(c, "forget", "zero")
          /\ failure_count' = 0 /\ local' = [local EXCEPT ![c] = 0]
          /\ UNCHANGED <<state, success_count, last_failure_time, failures, failed_at, proven>>
      BY <1>8, ThreadGoes DEF Breaker!SetFailures, Breaker!history, Breaker!Places
    <2>2. Breaker!TypeOK' /\ Breaker!ClosedHasRoom' /\ CarriesSense'
      BY <2>1, BreakerFacts
         DEF GoesOn, BreakerInv, Breaker!TypeOK, Breaker!ClosedHasRoom, CarriesSense, Breaker!Failing
    <2>3. "reset" \notin raced' => KnowsWhen'
      BY <2>1, BreakerFacts
         DEF GoesOn, BreakerInv, Breaker!TypeOK, KnowsWhen, CarriesSense, FailedBefore,
             Breaker!Resetting, IsInside, Breaker!Inside
    <2>4. raced' = {} => OneInside' /\ LatestIsKnown' /\ OnlyProvenCount'
      BY <2>1, BreakerFacts
         DEF GoesOn, BreakerInv, Breaker!TypeOK, OneInside, LatestIsKnown, OnlyProvenCount,
             IsInside, Breaker!Inside
    <2> QED BY <2>2, <2>3, <2>4 DEF BreakerInv
  <1>9. CASE /\ Breaker!Looks(c, "s_closed", IF state = "closed" THEN "clear" ELSE "idle")
            /\ state = "closed"
    <2>1. /\ GoesOn(c, "s_closed", "clear")
          /\ state = "closed"
          /\ UNCHANGED <<state, failure_count, success_count, last_failure_time, local, failures,
                         failed_at, proven>>
      BY <1>9, ThreadGoes
         DEF Breaker!Looks, Breaker!shared, Breaker!history, Breaker!Places, Breaker!Proving
    <2>2. Breaker!TypeOK' /\ Breaker!ClosedHasRoom' /\ CarriesSense'
      BY <2>1, BreakerFacts
         DEF GoesOn, BreakerInv, Breaker!TypeOK, Breaker!ClosedHasRoom, CarriesSense, Breaker!Failing
    <2>3. "reset" \notin raced' => KnowsWhen'
      BY <2>1, BreakerFacts
         DEF GoesOn, BreakerInv, Breaker!TypeOK, KnowsWhen, CarriesSense, FailedBefore,
             Breaker!Resetting, IsInside, Breaker!Inside
    <2>4. raced' = {} => OneInside' /\ LatestIsKnown' /\ OnlyProvenCount'
      BY <2>1, BreakerFacts
         DEF GoesOn, BreakerInv, Breaker!TypeOK, OneInside, LatestIsKnown, OnlyProvenCount,
             IsInside, Breaker!Inside
    <2> QED BY <2>2, <2>3, <2>4 DEF BreakerInv
  <1>10. CASE /\ Breaker!Looks(c, "s_closed", IF state = "closed" THEN "clear" ELSE "idle")
            /\ state # "closed"
    <2>1. /\ GoesOn(c, "s_closed", "idle")
          /\ state # "closed"
          /\ UNCHANGED <<state, failure_count, success_count, last_failure_time, local, failures,
                         failed_at, proven>>
      BY <1>10, ThreadGoes DEF Breaker!Looks, Breaker!shared, Breaker!history, Breaker!Places
    <2>2. Breaker!TypeOK' /\ Breaker!ClosedHasRoom' /\ CarriesSense'
      BY <2>1, BreakerFacts
         DEF GoesOn, BreakerInv, Breaker!TypeOK, Breaker!ClosedHasRoom, CarriesSense, Breaker!Failing
    <2>3. "reset" \notin raced' => KnowsWhen'
      BY <2>1, BreakerFacts
         DEF GoesOn, BreakerInv, Breaker!TypeOK, KnowsWhen, CarriesSense, FailedBefore,
             Breaker!Resetting, IsInside, Breaker!Inside
    <2>4. raced' = {} => OneInside' /\ LatestIsKnown' /\ OnlyProvenCount'
      BY <2>1, BreakerFacts
         DEF GoesOn, BreakerInv, Breaker!TypeOK, OneInside, LatestIsKnown, OnlyProvenCount,
             IsInside, Breaker!Inside
    <2> QED BY <2>2, <2>3, <2>4 DEF BreakerInv
  <1>11. CASE Breaker!SetFailures(c, "clear", "idle", 0)
    <2>1. /\ GoesOn(c, "clear", "idle")
          /\ failure_count' = 0 /\ local' = [local EXCEPT ![c] = 0]
          /\ UNCHANGED <<state, success_count, last_failure_time, failures, failed_at, proven>>
      BY <1>11, ThreadGoes DEF Breaker!SetFailures, Breaker!history, Breaker!Places
    <2>2. Breaker!TypeOK' /\ Breaker!ClosedHasRoom' /\ CarriesSense'
      BY <2>1, BreakerFacts
         DEF GoesOn, BreakerInv, Breaker!TypeOK, Breaker!ClosedHasRoom, CarriesSense, Breaker!Failing
    <2>3. "reset" \notin raced' => KnowsWhen'
      BY <2>1, BreakerFacts
         DEF GoesOn, BreakerInv, Breaker!TypeOK, KnowsWhen, CarriesSense, FailedBefore,
             Breaker!Resetting, IsInside, Breaker!Inside
    <2>4. raced' = {} => OneInside' /\ LatestIsKnown' /\ OnlyProvenCount'
      BY <2>1, BreakerFacts
         DEF GoesOn, BreakerInv, Breaker!TypeOK, OneInside, LatestIsKnown, OnlyProvenCount,
             IsInside, Breaker!Inside
    <2> QED BY <2>2, <2>3, <2>4 DEF BreakerInv
  <1> QED BY <1>1, <1>2, <1>3, <1>4, <1>5, <1>6, <1>7, <1>8, <1>9, <1>10, <1>11 DEF Breaker!Succeed

\* After a function that raised.
LEMMA BreakerFail ==
  ASSUME BreakerInv, NEW c \in BreakerCalls, Breaker!Fail(c)
  PROVE  BreakerInv'
  <1>1. CASE /\ failures < MaxFailures /\ failures' = failures + 1
            /\ Breaker!Loads(c, "function", "f_store", failure_count)
            /\ UNCHANGED <<failed_at, proven>>
    <2>1. /\ GoesOn(c, "function", "f_store")
          /\ local' = [local EXCEPT ![c] = failure_count] /\ failures' = failures + 1
          /\ failures < MaxFailures
          /\ UNCHANGED <<state, failure_count, success_count, last_failure_time, failed_at, proven>>
      BY <1>1, ThreadGoes DEF Breaker!Loads, Breaker!shared, Breaker!Places, Breaker!Failing
    <2>2. Breaker!TypeOK' /\ Breaker!ClosedHasRoom' /\ CarriesSense'
      BY <2>1, BreakerFacts
         DEF GoesOn, BreakerInv, Breaker!TypeOK, Breaker!ClosedHasRoom, CarriesSense, Breaker!Failing
    <2>3. "reset" \notin raced' => KnowsWhen'
      BY <2>1, BreakerFacts
         DEF GoesOn, BreakerInv, Breaker!TypeOK, KnowsWhen, CarriesSense, FailedBefore,
             Breaker!Resetting, IsInside, Breaker!Inside
    <2>4. raced' = {} => OneInside' /\ LatestIsKnown' /\ OnlyProvenCount'
      BY <2>1, BreakerFacts
         DEF GoesOn, BreakerInv, Breaker!TypeOK, OneInside, LatestIsKnown, OnlyProvenCount,
             IsInside, Breaker!Inside
    <2> QED BY <2>2, <2>3, <2>4 DEF BreakerInv
  <1>2. CASE Breaker!SetFailures(c, "f_store", "clock", local[c] + 1)
    <2>1. /\ GoesOn(c, "f_store", "clock")
          /\ failure_count' = local[c] + 1 /\ local' = [local EXCEPT ![c] = 0]
          /\ UNCHANGED <<state, success_count, last_failure_time, failures, failed_at, proven>>
      BY <1>2, ThreadGoes DEF Breaker!SetFailures, Breaker!history, Breaker!Places, Breaker!Failing
    <2>2. Breaker!TypeOK' /\ Breaker!ClosedHasRoom' /\ CarriesSense'
      BY <2>1, BreakerFacts
         DEF GoesOn, BreakerInv, Breaker!TypeOK, Breaker!ClosedHasRoom, CarriesSense, Breaker!Failing
    <2>3. "reset" \notin raced' => KnowsWhen'
      BY <2>1, BreakerFacts
         DEF GoesOn, BreakerInv, Breaker!TypeOK, KnowsWhen, CarriesSense, FailedBefore,
             Breaker!Resetting, IsInside, Breaker!Inside
    <2>4. raced' = {} => OneInside' /\ LatestIsKnown' /\ OnlyProvenCount'
      BY <2>1, BreakerFacts
         DEF GoesOn, BreakerInv, Breaker!TypeOK, OneInside, LatestIsKnown, OnlyProvenCount,
             IsInside, Breaker!Inside
    <2> QED BY <2>2, <2>3, <2>4 DEF BreakerInv
  <1>3. CASE /\ Breaker!Loads(c, "clock", "time", breaker_now) /\ failed_at' = breaker_now
            /\ UNCHANGED <<failures, proven>>
    <2>1. /\ GoesOn(c, "clock", "time")
          /\ local' = [local EXCEPT ![c] = breaker_now] /\ failed_at' = breaker_now
          /\ UNCHANGED <<state, failure_count, success_count, last_failure_time, failures, proven>>
      BY <1>3, ThreadGoes DEF Breaker!Loads, Breaker!shared, Breaker!Places, Breaker!Failing
    <2>2. Breaker!TypeOK' /\ Breaker!ClosedHasRoom' /\ CarriesSense'
      BY <2>1, BreakerFacts
         DEF GoesOn, BreakerInv, Breaker!TypeOK, Breaker!ClosedHasRoom, CarriesSense, Breaker!Failing
    <2>3. "reset" \notin raced' => KnowsWhen'
      BY <2>1, BreakerFacts
         DEF GoesOn, BreakerInv, Breaker!TypeOK, KnowsWhen, CarriesSense, FailedBefore,
             Breaker!Resetting, IsInside, Breaker!Inside
    <2>4. raced' = {} => OneInside' /\ LatestIsKnown' /\ OnlyProvenCount'
      BY <2>1, BreakerFacts
         DEF GoesOn, BreakerInv, Breaker!TypeOK, OneInside, LatestIsKnown, OnlyProvenCount,
             IsInside, Breaker!Inside
    <2> QED BY <2>2, <2>3, <2>4 DEF BreakerInv
  <1>4. CASE Breaker!SetTime(c, "time", "f_state", local[c])
    <2>1. /\ GoesOn(c, "time", "f_state")
          /\ last_failure_time' = local[c] /\ local' = [local EXCEPT ![c] = 0]
          /\ UNCHANGED <<state, failure_count, success_count, failures, failed_at, proven>>
      BY <1>4, ThreadGoes DEF Breaker!SetTime, Breaker!history, Breaker!Places, Breaker!Failing
    <2>2. Breaker!TypeOK' /\ Breaker!ClosedHasRoom' /\ CarriesSense'
      BY <2>1, BreakerFacts
         DEF GoesOn, BreakerInv, Breaker!TypeOK, Breaker!ClosedHasRoom, CarriesSense, Breaker!Failing
    <2>3. "reset" \notin raced' => KnowsWhen'
      BY <2>1, BreakerFacts
         DEF GoesOn, BreakerInv, Breaker!TypeOK, KnowsWhen, CarriesSense, FailedBefore,
             Breaker!Resetting, IsInside, Breaker!Inside
    <2>4. raced' = {} => OneInside' /\ LatestIsKnown' /\ OnlyProvenCount'
      BY <2>1, BreakerFacts
         DEF GoesOn, BreakerInv, Breaker!TypeOK, OneInside, LatestIsKnown, OnlyProvenCount,
             IsInside, Breaker!Inside
    <2> QED BY <2>2, <2>3, <2>4 DEF BreakerInv
  <1>5. CASE /\ Breaker!Looks(c, "f_state", IF state = "half_open" THEN "reopen" ELSE "f_closed")
            /\ state = "half_open"
    <2>1. /\ GoesOn(c, "f_state", "reopen")
          /\ state = "half_open"
          /\ UNCHANGED <<state, failure_count, success_count, last_failure_time, local, failures,
                         failed_at, proven>>
      BY <1>5, ThreadGoes
         DEF Breaker!Looks, Breaker!shared, Breaker!history, Breaker!Places, Breaker!Failing
    <2>2. Breaker!TypeOK' /\ Breaker!ClosedHasRoom' /\ CarriesSense'
      BY <2>1, BreakerFacts
         DEF GoesOn, BreakerInv, Breaker!TypeOK, Breaker!ClosedHasRoom, CarriesSense, Breaker!Failing
    <2>3. "reset" \notin raced' => KnowsWhen'
      BY <2>1, BreakerFacts
         DEF GoesOn, BreakerInv, Breaker!TypeOK, KnowsWhen, CarriesSense, FailedBefore,
             Breaker!Resetting, IsInside, Breaker!Inside
    <2>4. raced' = {} => OneInside' /\ LatestIsKnown' /\ OnlyProvenCount'
      BY <2>1, BreakerFacts
         DEF GoesOn, BreakerInv, Breaker!TypeOK, OneInside, LatestIsKnown, OnlyProvenCount,
             IsInside, Breaker!Inside
    <2> QED BY <2>2, <2>3, <2>4 DEF BreakerInv
  <1>6. CASE /\ Breaker!Looks(c, "f_state", IF state = "half_open" THEN "reopen" ELSE "f_closed")
            /\ state # "half_open"
    <2>1. /\ GoesOn(c, "f_state", "f_closed")
          /\ state # "half_open"
          /\ UNCHANGED <<state, failure_count, success_count, last_failure_time, local, failures,
                         failed_at, proven>>
      BY <1>6, ThreadGoes
         DEF Breaker!Looks, Breaker!shared, Breaker!history, Breaker!Places, Breaker!Failing
    <2>2. Breaker!TypeOK' /\ Breaker!ClosedHasRoom' /\ CarriesSense'
      BY <2>1, BreakerFacts
         DEF GoesOn, BreakerInv, Breaker!TypeOK, Breaker!ClosedHasRoom, CarriesSense, Breaker!Failing
    <2>3. "reset" \notin raced' => KnowsWhen'
      BY <2>1, BreakerFacts
         DEF GoesOn, BreakerInv, Breaker!TypeOK, KnowsWhen, CarriesSense, FailedBefore,
             Breaker!Resetting, IsInside, Breaker!Inside
    <2>4. raced' = {} => OneInside' /\ LatestIsKnown' /\ OnlyProvenCount'
      BY <2>1, BreakerFacts
         DEF GoesOn, BreakerInv, Breaker!TypeOK, OneInside, LatestIsKnown, OnlyProvenCount,
             IsInside, Breaker!Inside
    <2> QED BY <2>2, <2>3, <2>4 DEF BreakerInv
  <1>7. CASE Breaker!SetState(c, "reopen", "zero", "open") /\ UNCHANGED proven
    <2>1. /\ GoesOn(c, "reopen", "zero")
          /\ state' = "open"
          /\ UNCHANGED <<failure_count, success_count, last_failure_time, local, failures, failed_at,
                         proven>>
      BY <1>7, ThreadGoes DEF Breaker!SetState, Breaker!Places
    <2>2. Breaker!TypeOK' /\ Breaker!ClosedHasRoom' /\ CarriesSense'
      BY <2>1, BreakerFacts
         DEF GoesOn, BreakerInv, Breaker!TypeOK, Breaker!ClosedHasRoom, CarriesSense, Breaker!Failing
    <2>3. "reset" \notin raced' => KnowsWhen'
      BY <2>1, BreakerFacts
         DEF GoesOn, BreakerInv, Breaker!TypeOK, KnowsWhen, CarriesSense, FailedBefore,
             Breaker!Resetting, IsInside, Breaker!Inside
    <2>4. raced' = {} => OneInside' /\ LatestIsKnown' /\ OnlyProvenCount'
      BY <2>1, BreakerFacts
         DEF GoesOn, BreakerInv, Breaker!TypeOK, OneInside, LatestIsKnown, OnlyProvenCount,
             IsInside, Breaker!Inside
    <2> QED BY <2>2, <2>3, <2>4 DEF BreakerInv
  <1>8. CASE /\ Breaker!Looks(c, "f_closed", IF state = "closed" THEN "f_enough" ELSE "idle")
            /\ state = "closed"
    <2>1. /\ GoesOn(c, "f_closed", "f_enough")
          /\ state = "closed"
          /\ UNCHANGED <<state, failure_count, success_count, last_failure_time, local, failures,
                         failed_at, proven>>
      BY <1>8, ThreadGoes
         DEF Breaker!Looks, Breaker!shared, Breaker!history, Breaker!Places, Breaker!Failing
    <2>2. Breaker!TypeOK' /\ Breaker!ClosedHasRoom' /\ CarriesSense'
      BY <2>1, BreakerFacts
         DEF GoesOn, BreakerInv, Breaker!TypeOK, Breaker!ClosedHasRoom, CarriesSense, Breaker!Failing
    <2>3. "reset" \notin raced' => KnowsWhen'
      BY <2>1, BreakerFacts
         DEF GoesOn, BreakerInv, Breaker!TypeOK, KnowsWhen, CarriesSense, FailedBefore,
             Breaker!Resetting, IsInside, Breaker!Inside
    <2>4. raced' = {} => OneInside' /\ LatestIsKnown' /\ OnlyProvenCount'
      BY <2>1, BreakerFacts
         DEF GoesOn, BreakerInv, Breaker!TypeOK, OneInside, LatestIsKnown, OnlyProvenCount,
             IsInside, Breaker!Inside
    <2> QED BY <2>2, <2>3, <2>4 DEF BreakerInv
  <1>9. CASE /\ Breaker!Looks(c, "f_closed", IF state = "closed" THEN "f_enough" ELSE "idle")
            /\ state # "closed"
    <2>1. /\ GoesOn(c, "f_closed", "idle")
          /\ state # "closed"
          /\ UNCHANGED <<state, failure_count, success_count, last_failure_time, local, failures,
                         failed_at, proven>>
      BY <1>9, ThreadGoes DEF Breaker!Looks, Breaker!shared, Breaker!history, Breaker!Places
    <2>2. Breaker!TypeOK' /\ Breaker!ClosedHasRoom' /\ CarriesSense'
      BY <2>1, BreakerFacts
         DEF GoesOn, BreakerInv, Breaker!TypeOK, Breaker!ClosedHasRoom, CarriesSense, Breaker!Failing
    <2>3. "reset" \notin raced' => KnowsWhen'
      BY <2>1, BreakerFacts
         DEF GoesOn, BreakerInv, Breaker!TypeOK, KnowsWhen, CarriesSense, FailedBefore,
             Breaker!Resetting, IsInside, Breaker!Inside
    <2>4. raced' = {} => OneInside' /\ LatestIsKnown' /\ OnlyProvenCount'
      BY <2>1, BreakerFacts
         DEF GoesOn, BreakerInv, Breaker!TypeOK, OneInside, LatestIsKnown, OnlyProvenCount,
             IsInside, Breaker!Inside
    <2> QED BY <2>2, <2>3, <2>4 DEF BreakerInv
  <1>10. CASE /\ Breaker!Looks(c, "f_enough",
                          IF failure_count >= failure_threshold THEN "open" ELSE "idle")
            /\ failure_count >= failure_threshold
    <2>1. /\ GoesOn(c, "f_enough", "open")
          /\ failure_count >= failure_threshold
          /\ UNCHANGED <<state, failure_count, success_count, last_failure_time, local, failures,
                         failed_at, proven>>
      BY <1>10, ThreadGoes
         DEF Breaker!Looks, Breaker!shared, Breaker!history, Breaker!Places, Breaker!Failing
    <2>2. Breaker!TypeOK' /\ Breaker!ClosedHasRoom' /\ CarriesSense'
      BY <2>1, BreakerFacts
         DEF GoesOn, BreakerInv, Breaker!TypeOK, Breaker!ClosedHasRoom, CarriesSense, Breaker!Failing
    <2>3. "reset" \notin raced' => KnowsWhen'
      BY <2>1, BreakerFacts
         DEF GoesOn, BreakerInv, Breaker!TypeOK, KnowsWhen, CarriesSense, FailedBefore,
             Breaker!Resetting, IsInside, Breaker!Inside
    <2>4. raced' = {} => OneInside' /\ LatestIsKnown' /\ OnlyProvenCount'
      BY <2>1, BreakerFacts
         DEF GoesOn, BreakerInv, Breaker!TypeOK, OneInside, LatestIsKnown, OnlyProvenCount,
             IsInside, Breaker!Inside
    <2> QED BY <2>2, <2>3, <2>4 DEF BreakerInv
  <1>11. CASE /\ Breaker!Looks(c, "f_enough",
                          IF failure_count >= failure_threshold THEN "open" ELSE "idle")
            /\ ~(failure_count >= failure_threshold)
    <2>1. /\ GoesOn(c, "f_enough", "idle")
          /\ ~(failure_count >= failure_threshold)
          /\ UNCHANGED <<state, failure_count, success_count, last_failure_time, local, failures,
                         failed_at, proven>>
      BY <1>11, ThreadGoes DEF Breaker!Looks, Breaker!shared, Breaker!history, Breaker!Places
    <2>2. Breaker!TypeOK' /\ Breaker!ClosedHasRoom' /\ CarriesSense'
      BY <2>1, BreakerFacts
         DEF GoesOn, BreakerInv, Breaker!TypeOK, Breaker!ClosedHasRoom, CarriesSense, Breaker!Failing
    <2>3. "reset" \notin raced' => KnowsWhen'
      BY <2>1, BreakerFacts
         DEF GoesOn, BreakerInv, Breaker!TypeOK, KnowsWhen, CarriesSense, FailedBefore,
             Breaker!Resetting, IsInside, Breaker!Inside
    <2>4. raced' = {} => OneInside' /\ LatestIsKnown' /\ OnlyProvenCount'
      BY <2>1, BreakerFacts
         DEF GoesOn, BreakerInv, Breaker!TypeOK, OneInside, LatestIsKnown, OnlyProvenCount,
             IsInside, Breaker!Inside
    <2> QED BY <2>2, <2>3, <2>4 DEF BreakerInv
  <1>12. CASE Breaker!SetState(c, "open", "idle", "open") /\ UNCHANGED proven
    <2>1. /\ GoesOn(c, "open", "idle")
          /\ state' = "open"
          /\ UNCHANGED <<failure_count, success_count, last_failure_time, local, failures, failed_at,
                         proven>>
      BY <1>12, ThreadGoes DEF Breaker!SetState, Breaker!Places
    <2>2. Breaker!TypeOK' /\ Breaker!ClosedHasRoom' /\ CarriesSense'
      BY <2>1, BreakerFacts
         DEF GoesOn, BreakerInv, Breaker!TypeOK, Breaker!ClosedHasRoom, CarriesSense, Breaker!Failing
    <2>3. "reset" \notin raced' => KnowsWhen'
      BY <2>1, BreakerFacts
         DEF GoesOn, BreakerInv, Breaker!TypeOK, KnowsWhen, CarriesSense, FailedBefore,
             Breaker!Resetting, IsInside, Breaker!Inside
    <2>4. raced' = {} => OneInside' /\ LatestIsKnown' /\ OnlyProvenCount'
      BY <2>1, BreakerFacts
         DEF GoesOn, BreakerInv, Breaker!TypeOK, OneInside, LatestIsKnown, OnlyProvenCount,
             IsInside, Breaker!Inside
    <2> QED BY <2>2, <2>3, <2>4 DEF BreakerInv
  <1> QED BY <1>1, <1>2, <1>3, <1>4, <1>5, <1>6, <1>7, <1>8, <1>9, <1>10, <1>11, <1>12 DEF Breaker!Fail

\* The last assignment.
LEMMA BreakerZero ==
  ASSUME BreakerInv, NEW c \in BreakerCalls, Breaker!Zero(c)
  PROVE  BreakerInv'
  <1>1. CASE Breaker!SetSuccesses(c, "zero", "idle", 0)
    <2>1. /\ GoesOn(c, "zero", "idle")
          /\ success_count' = 0 /\ local' = [local EXCEPT ![c] = 0]
          /\ UNCHANGED <<state, failure_count, last_failure_time, failures, failed_at, proven>>
      BY <1>1, ThreadGoes DEF Breaker!SetSuccesses, Breaker!history, Breaker!Places
    <2>2. Breaker!TypeOK' /\ Breaker!ClosedHasRoom' /\ CarriesSense'
      BY <2>1, BreakerFacts
         DEF GoesOn, BreakerInv, Breaker!TypeOK, Breaker!ClosedHasRoom, CarriesSense, Breaker!Failing
    <2>3. "reset" \notin raced' => KnowsWhen'
      BY <2>1, BreakerFacts
         DEF GoesOn, BreakerInv, Breaker!TypeOK, KnowsWhen, CarriesSense, FailedBefore,
             Breaker!Resetting, IsInside, Breaker!Inside
    <2>4. raced' = {} => OneInside' /\ LatestIsKnown' /\ OnlyProvenCount'
      BY <2>1, BreakerFacts
         DEF GoesOn, BreakerInv, Breaker!TypeOK, OneInside, LatestIsKnown, OnlyProvenCount,
             IsInside, Breaker!Inside
    <2> QED BY <2>2, <2>3, <2>4 DEF BreakerInv
  <1> QED BY <1>1 DEF Breaker!Zero

\* A reset.
LEMMA BreakerReset ==
  ASSUME BreakerInv, NEW c \in BreakerCalls, Breaker!Reset(c)
  PROVE  BreakerInv'
  <1>1. CASE Breaker!SetState(c, "idle", "r_forget", "closed") /\ UNCHANGED proven
    <2>1. /\ GoesOn(c, "idle", "r_forget")
          /\ state' = "closed"
          /\ UNCHANGED <<failure_count, success_count, last_failure_time, local, failures, failed_at,
                         proven>>
      BY <1>1, ThreadGoes DEF Breaker!SetState, Breaker!Places, Breaker!Resetting
    <2>2. Breaker!TypeOK' /\ Breaker!ClosedHasRoom' /\ CarriesSense'
      BY <2>1, BreakerFacts
         DEF GoesOn, BreakerInv, Breaker!TypeOK, Breaker!ClosedHasRoom, CarriesSense, Breaker!Failing
    <2>3. "reset" \notin raced' => KnowsWhen'
      BY <2>1, BreakerFacts
         DEF GoesOn, BreakerInv, Breaker!TypeOK, KnowsWhen, CarriesSense, FailedBefore,
             Breaker!Resetting, IsInside, Breaker!Inside
    <2>4. raced' = {} => OneInside' /\ LatestIsKnown' /\ OnlyProvenCount'
      BY <2>1, BreakerFacts
         DEF GoesOn, BreakerInv, Breaker!TypeOK, OneInside, LatestIsKnown, OnlyProvenCount,
             IsInside, Breaker!Inside
    <2> QED BY <2>2, <2>3, <2>4 DEF BreakerInv
  <1>2. CASE Breaker!SetFailures(c, "r_forget", "r_zero", 0)
    <2>1. /\ GoesOn(c, "r_forget", "r_zero")
          /\ failure_count' = 0 /\ local' = [local EXCEPT ![c] = 0]
          /\ UNCHANGED <<state, success_count, last_failure_time, failures, failed_at, proven>>
      BY <1>2, ThreadGoes
         DEF Breaker!SetFailures, Breaker!history, Breaker!Places, Breaker!Resetting
    <2>2. Breaker!TypeOK' /\ Breaker!ClosedHasRoom' /\ CarriesSense'
      BY <2>1, BreakerFacts
         DEF GoesOn, BreakerInv, Breaker!TypeOK, Breaker!ClosedHasRoom, CarriesSense, Breaker!Failing
    <2>3. "reset" \notin raced' => KnowsWhen'
      BY <2>1, BreakerFacts
         DEF GoesOn, BreakerInv, Breaker!TypeOK, KnowsWhen, CarriesSense, FailedBefore,
             Breaker!Resetting, IsInside, Breaker!Inside
    <2>4. raced' = {} => OneInside' /\ LatestIsKnown' /\ OnlyProvenCount'
      BY <2>1, BreakerFacts
         DEF GoesOn, BreakerInv, Breaker!TypeOK, OneInside, LatestIsKnown, OnlyProvenCount,
             IsInside, Breaker!Inside
    <2> QED BY <2>2, <2>3, <2>4 DEF BreakerInv
  <1>3. CASE Breaker!SetSuccesses(c, "r_zero", "r_time", 0)
    <2>1. /\ GoesOn(c, "r_zero", "r_time")
          /\ success_count' = 0 /\ local' = [local EXCEPT ![c] = 0]
          /\ UNCHANGED <<state, failure_count, last_failure_time, failures, failed_at, proven>>
      BY <1>3, ThreadGoes
         DEF Breaker!SetSuccesses, Breaker!history, Breaker!Places, Breaker!Resetting
    <2>2. Breaker!TypeOK' /\ Breaker!ClosedHasRoom' /\ CarriesSense'
      BY <2>1, BreakerFacts
         DEF GoesOn, BreakerInv, Breaker!TypeOK, Breaker!ClosedHasRoom, CarriesSense, Breaker!Failing
    <2>3. "reset" \notin raced' => KnowsWhen'
      BY <2>1, BreakerFacts
         DEF GoesOn, BreakerInv, Breaker!TypeOK, KnowsWhen, CarriesSense, FailedBefore,
             Breaker!Resetting, IsInside, Breaker!Inside
    <2>4. raced' = {} => OneInside' /\ LatestIsKnown' /\ OnlyProvenCount'
      BY <2>1, BreakerFacts
         DEF GoesOn, BreakerInv, Breaker!TypeOK, OneInside, LatestIsKnown, OnlyProvenCount,
             IsInside, Breaker!Inside
    <2> QED BY <2>2, <2>3, <2>4 DEF BreakerInv
  <1>4. CASE Breaker!SetTime(c, "r_time", "idle", None)
    <2>1. /\ GoesOn(c, "r_time", "idle")
          /\ last_failure_time' = None /\ local' = [local EXCEPT ![c] = 0]
          /\ UNCHANGED <<state, failure_count, success_count, failures, failed_at, proven>>
      BY <1>4, ThreadGoes DEF Breaker!SetTime, Breaker!history, Breaker!Places
    <2>2. Breaker!TypeOK' /\ Breaker!ClosedHasRoom' /\ CarriesSense'
      BY <2>1, BreakerFacts
         DEF GoesOn, BreakerInv, Breaker!TypeOK, Breaker!ClosedHasRoom, CarriesSense, Breaker!Failing
    <2>3. "reset" \notin raced' => KnowsWhen'
      BY <2>1, BreakerFacts
         DEF GoesOn, BreakerInv, Breaker!TypeOK, KnowsWhen, CarriesSense, FailedBefore,
             Breaker!Resetting, IsInside, Breaker!Inside
    <2>4. raced' = {} => OneInside' /\ LatestIsKnown' /\ OnlyProvenCount'
      BY <2>1, BreakerFacts
         DEF GoesOn, BreakerInv, Breaker!TypeOK, OneInside, LatestIsKnown, OnlyProvenCount,
             IsInside, Breaker!Inside
    <2> QED BY <2>2, <2>3, <2>4 DEF BreakerInv
  <1> QED BY <1>1, <1>2, <1>3, <1>4 DEF Breaker!Reset

\* Who is led to its function past an open breaker, and what closes a breaker.
AfterTimeOut ==
  \A c \in BreakerCalls :
    (breaker_pc[c] \in Breaker!Admitting /\ breaker_pc'[c] = "function" /\ raced = {})
      => failed_at + recovery_timeout <= breaker_now

ProvenOrReset ==
  (state # "closed" /\ state' = "closed" /\ raced = {})
    => \/ state = "half_open" /\ proven >= 2
       \/ \E c \in BreakerCalls : breaker_pc'[c] = "r_forget"

LEMMA BreakerStep ==
  ASSUME BreakerInv, NEW d \in BreakerCalls,
         \/ Breaker!Admit(d) \/ Breaker!Succeed(d) \/ Breaker!Fail(d)
         \/ Breaker!Zero(d) \/ Breaker!Reset(d)
  PROVE  AfterTimeOut /\ ProvenOrReset
  <1> USE DEF Breaker!Admit, Breaker!Succeed, Breaker!Fail, Breaker!Zero, Breaker!Reset,
              Breaker!Looks, Breaker!Loads, Breaker!SetState, Breaker!SetFailures,
              Breaker!SetSuccesses, Breaker!SetTime, Breaker!Goes, Breaker!shared
  <1>1. breaker_pc \in [BreakerCalls -> Breaker!Places]
    BY DEF BreakerInv, Breaker!TypeOK
  <1>2. \A c \in BreakerCalls : c # d => breaker_pc'[c] = breaker_pc[c]
    BY <1>1
  <1>3. breaker_pc[d] \in {"found_open", "half"} => breaker_pc'[d] # "function"
    BY <1>1
  <1>4. raced = {} => LatestIsKnown /\ OnlyProvenCount
    BY DEF BreakerInv
  <1>5. AfterTimeOut
    BY <1>2, <1>3, <1>4 DEF AfterTimeOut, LatestIsKnown, Breaker!Admitting
  <1>6. state' = "closed" => \/ state = "closed" \/ breaker_pc[d] = "s_close"
                             \/ breaker_pc'[d] = "r_forget"
    BY <1>1
  <1>7. ProvenOrReset
    BY <1>4, <1>6 DEF ProvenOrReset, OnlyProvenCount
  <1> QED BY <1>5, <1>7

LEMMA BreakerNext ==
  ASSUME BreakerInv, [Breaker!Next]_breakerVars
  PROVE  /\ BreakerInv'
         /\ UNCHANGED breakerVars \/ AfterTimeOut
         /\ UNCHANGED breakerVars \/ ProvenOrReset
  <1> DEFINE inside == \E c \in BreakerCalls :
                         \/ Breaker!Admit(c) \/ Breaker!Succeed(c) \/ Breaker!Fail(c)
                         \/ Breaker!Zero(c) \/ Breaker!Reset(c)
  <1>1. CASE inside
    BY <1>1, BreakerAdmit, BreakerSucceed, BreakerFail, BreakerZero, BreakerReset, BreakerStep
  <1>2. CASE Breaker!Tick \/ UNCHANGED breakerVars
    <2>1. /\ breaker_now' >= breaker_now /\ breaker_now' \in 1 .. BreakerTime
          /\ UNCHANGED <<state, failure_count, success_count, last_failure_time, breaker_pc,
                         local, failures, failed_at, proven, raced>>
      BY <1>2, BreakerFacts
         DEF Breaker!Tick, Breaker!shared, Breaker!history, breakerVars, BreakerInv, Breaker!TypeOK
    <2>2. Breaker!TypeOK' /\ Breaker!ClosedHasRoom' /\ CarriesSense'
      BY <2>1 DEF BreakerInv, Breaker!TypeOK, Breaker!ClosedHasRoom, CarriesSense
    <2>3. ("reset" \notin raced' => KnowsWhen') /\ (raced' = {} => OneInside' /\ OnlyProvenCount')
      BY <2>1 DEF BreakerInv, KnowsWhen, IsInside, OneInside, OnlyProvenCount
    <2>4. raced' = {} => LatestIsKnown'
      BY <2>1, BreakerFacts DEF BreakerInv, Breaker!TypeOK, LatestIsKnown
    <2>5. AfterTimeOut /\ ProvenOrReset
      BY <2>1 DEF AfterTimeOut, ProvenOrReset, Breaker!Admitting
    <2> QED BY <2>2, <2>3, <2>4, <2>5 DEF BreakerInv
  <1> QED BY <1>1, <1>2 DEF Breaker!Next

-----------------------------------------------------------------------------
(*****************************************************************************)
(* The load metrics.  As many requests are counted as active as are in       *)
(* flight, and the parts of a score are bounded whatever is measured.        *)
(*****************************************************************************)
LoadInv == Load!TypeOK /\ active_requests = in_flight

LEMMA LoadFacts ==
  ASSUME LoadInv
  PROVE  /\ active_requests \in Nat /\ queue_size \in Nat
         /\ total_requests \in Nat /\ failed_requests \in Nat
         /\ response_times \in Seq(Nat) /\ response_times \in Seq(ResponseTimes)
         /\ Len(response_times) \in Nat /\ Len(response_times) <= max_response_times
         /\ in_flight \in Nat /\ active_requests = in_flight
         /\ \A u \in Utilizations : u \in Nat /\ u <= 100
         /\ ResponseTimes \subseteq Nat /\ QueueSizes \subseteq Int
         /\ Burst \in Nat \ {0} /\ MaxActive \in Nat /\ max_response_times \in Nat
  <1>1. /\ \A u \in Utilizations : u \in Nat /\ u <= 100
        /\ ResponseTimes \subseteq Nat /\ QueueSizes \subseteq Int
        /\ Burst \in Nat \ {0} /\ MaxActive \in Nat /\ max_response_times \in Nat
    BY Assumptions DEF Load!LoadAssumption
  <1>2. /\ active_requests \in Nat /\ queue_size \in Nat
        /\ total_requests \in Nat /\ failed_requests \in Nat
        /\ response_times \in Seq(ResponseTimes) /\ Len(response_times) <= max_response_times
        /\ in_flight \in 0 .. MaxActive /\ active_requests = in_flight
    BY DEF LoadInv, Load!TypeOK
  <1>3. response_times \in Seq(Nat) /\ Len(response_times) \in Nat
    <2>1. response_times \in Seq(ResponseTimes)
      BY <1>2
    <2>2. Len(response_times) \in Nat
          /\ \A j \in 1 .. Len(response_times) : response_times[j] \in ResponseTimes
      BY <2>1
    <2>3. \A j \in 1 .. Len(response_times) : response_times[j] \in Nat
      BY <1>1, <2>2
    <2> QED BY <2>1, <2>2, <2>3, SeqWithin
  <1>4. in_flight \in Nat
    BY <1>1, <1>2
  <1> QED BY <1>1, <1>2, <1>3, <1>4

LEMMA LoadInit == Load!Init => LoadInv
  <1> SUFFICES ASSUME Load!Init PROVE LoadInv
    OBVIOUS
  <1>1. max_response_times \in Nat /\ MaxActive \in Nat
    BY Assumptions DEF Load!LoadAssumption
  <1> QED BY <1>1 DEF Load!Init, LoadInv, Load!TypeOK

LEMMA LoadNext ==
  ASSUME LoadInv, [Load!Next]_loadVars
  PROVE  LoadInv'
  <1>1. /\ active_requests \in Nat /\ queue_size \in Nat
        /\ total_requests \in Nat /\ failed_requests \in Nat
        /\ response_times \in Seq(ResponseTimes)
        /\ Len(response_times) \in Nat /\ Len(response_times) <= max_response_times
        /\ in_flight \in Nat /\ active_requests = in_flight
        /\ ResponseTimes \subseteq Nat /\ QueueSizes \subseteq Int
        /\ Burst \in Nat \ {0} /\ MaxActive \in Nat /\ max_response_times \in Nat
    BY LoadFacts
  <1>2. in_flight <= MaxActive
    BY <1>1 DEF LoadInv, Load!TypeOK
  <1>3. CASE Load!Start
    BY <1>1, <1>3 DEF Load!Start, LoadInv, Load!TypeOK
  <1>4. ASSUME NEW success \in BOOLEAN, NEW ms \in ResponseTimes, Load!End(success, ms)
        PROVE  LoadInv'
    <2>1. /\ in_flight >= Burst /\ active_requests' = Load!Released
          /\ failed_requests' = failed_requests + (IF success THEN 0 ELSE Burst)
          /\ response_times' = Load!Timed(ms)
          /\ in_flight' = in_flight - Burst
          /\ UNCHANGED <<queue_size, total_requests>>
      BY <1>4 DEF Load!End
    <2>2. active_requests' = in_flight' /\ active_requests' \in Nat /\ in_flight' \in 0 .. MaxActive
      BY <1>1, <1>2, <2>1 DEF Load!Released, Load!Greatest
    <2>3. failed_requests' \in Nat
      <3>1. failed_requests' = failed_requests \/ failed_requests' = failed_requests + Burst
        BY <1>1, <2>1
      <3> QED BY <1>1, <3>1
    <2>4. response_times' \in Seq(ResponseTimes) /\ Len(response_times') <= max_response_times
      <3> DEFINE a == Append(response_times, ms)
      <3>1. a \in Seq(ResponseTimes) /\ Len(a) = Len(response_times) + 1
        BY <1>1
      <3>2. response_times' \in {response_times, a, Tail(a)}
            /\ (response_times' = a => Len(a) <= max_response_times)
        BY <1>1, <2>1, <3>1 DEF Load!Timed
      <3> HIDE DEF a
      <3>3. /\ Tail(a) \in Seq(ResponseTimes) /\ Len(Tail(a)) = Len(response_times)
        <4>1. a # <<>>
          BY <1>1, <3>1
        <4>2. Tail(a) \in Seq(ResponseTimes) /\ Len(Tail(a)) = Len(a) - 1
          BY <3>1, <4>1, TailFacts
        <4> QED BY <1>1, <3>1, <4>2
      <3> QED BY <1>1, <3>1, <3>2, <3>3
    <2> QED BY <1>1, <2>1, <2>2, <2>3, <2>4 DEF LoadInv, Load!TypeOK
  <1>5. ASSUME NEW size \in QueueSizes, Load!SetQueueSize(size)
        PROVE  LoadInv'
    BY <1>1, <1>2, <1>5 DEF Load!SetQueueSize, Load!Greatest, LoadInv, Load!TypeOK
  <1>6. CASE UNCHANGED loadVars
    BY <1>6 DEF loadVars, LoadInv, Load!TypeOK
  <1> QED BY <1>3, <1>4, <1>5, <1>6 DEF Load!Next

\* What the response times add up to, as FoldLeft adds them, is a number.
Total(q) ==
  (CHOOSE f : f = [s \in SUBSET DOMAIN q |->
                     IF s = {} THEN 0
                     ELSE LET x == CHOOSE x \in s : \A y \in s : x >= y IN
                          f[s \ {x}] + q[x]])[DOMAIN q]

LEMMA TimesAddUp ==
  ASSUME NEW q \in Seq(Nat)
  PROVE  Total(q) \in Nat
  <1> DEFINE D == DOMAIN q
             Fold(f) == f = [s \in SUBSET D |->
                               IF s = {} THEN 0
                               ELSE LET x == CHOOSE x \in s : \A y \in s : x >= y IN
                                    f[s \ {x}] + q[x]]
             F == CHOOSE f : Fold(f)
             n == Len(q)
             G == [i \in 1 .. n |-> [v \in Nat |-> v + q[i]]]
  <1>1. n \in Nat /\ D = 1 .. n /\ \A i \in 1 .. n : q[i] \in Nat
    OBVIOUS
  <1>2. Total(q) = F[D]
    BY DEF Total
  <1>3. G \in [1 .. n -> [Nat -> Nat]] /\ \A i \in 1 .. n, v \in Nat : G[i][v] = v + q[i]
    OBVIOUS
  <1> HIDE DEF n, G
  <1>4. PICK f : IsLeftFold(f, 1 .. n, Nat, 0, G)
    BY <1>1, <1>3, LeftFoldExists
  <1>5. Fold(f)
    <2>1. ASSUME NEW s \in SUBSET D, s # {}
          PROVE  f[s] = f[s \ {MaxOf(s)}] + q[MaxOf(s)]
      <3>1. f[s] = G[MaxOf(s)][f[s \ {MaxOf(s)}]] /\ f[s \ {MaxOf(s)}] \in Nat
        BY <1>1, <1>4, <2>1 DEF IsLeftFold
      <3>2. MaxOf(s) \in 1 .. n
        BY <1>1, <2>1, MaxExists
      <3> QED BY <1>3, <3>1, <3>2
    <2>2. f[{}] = 0 /\ f = [s \in SUBSET D |-> f[s]]
      BY <1>1, <1>4 DEF IsLeftFold
    <2> HIDE DEF D
    <2> QED BY <2>1, <2>2 DEF MaxOf
  <1> HIDE DEF Fold, D
  <1>6. Fold(F)
    BY <1>5
  <1> HIDE DEF F
  <1> DEFINE T == {k \in Nat : k <= n => F[1 .. k] \in Nat}
  <1>7. 0 \in T
    <2>1. 1 .. 0 = {} /\ {} \in SUBSET D
      OBVIOUS
    <2>2. F[{}] = 0
      BY <1>6, <2>1 DEF Fold
    <2> QED BY <2>1, <2>2
  <1>8. ASSUME NEW k \in Nat, k \in T PROVE k + 1 \in T
    <2> SUFFICES ASSUME k + 1 <= n PROVE F[1 .. (k + 1)] \in Nat
      OBVIOUS
    <2>1. k + 1 \in 1 .. n /\ F[1 .. k] \in Nat /\ (k + 1) - 1 = k
      BY <1>1, <1>8
    <2>2. /\ 1 .. (k + 1) \in SUBSET (1 .. n) /\ 1 .. (k + 1) # {}
          /\ MaxOf(1 .. (k + 1)) = k + 1 /\ (1 .. (k + 1)) \ {k + 1} = 1 .. ((k + 1) - 1)
      BY <1>1, <2>1, Prefixes
    <2>3. \A s \in SUBSET D : s # {} => F[s] = F[s \ {MaxOf(s)}] + q[MaxOf(s)]
      BY <1>6 DEF Fold, MaxOf
    <2>4. F[1 .. (k + 1)] = F[1 .. k] + q[k + 1]
      BY <1>1, <2>1, <2>2, <2>3
    <2> QED BY <1>1, <2>1, <2>4
  <1>9. Nat \subseteq T
    <2> HIDE DEF T
    <2> QED BY <1>7, <1>8, Counting
  <1> QED BY <1>1, <1>2, <1>9

\* Every part of a score but the utilizations is bounded, whatever happened before.
AverageTime ==
  IF response_times = <<>> THEN 0 ELSE Total(response_times) \div Len(response_times)

ErrorRate == IF total_requests = 0 THEN 0 ELSE (1000 * failed_requests) \div total_requests

ActivePart == Load!Least(50 * active_requests, 5000)
QueuePart == Load!Least(45 * queue_size, 2250)
TimePart == Load!Least(AverageTime, 1000)
ErrorPart == Load!Least((250 * ErrorRate) \div 1000, 250)

Burden == ActivePart + QueuePart + TimePart + ErrorPart

LEMMA WhatALoadIs ==
  ASSUME NEW cpu, NEW memory
  PROVE  LET load == Load!InstanceLoad(cpu, memory) IN
         /\ load.cpu = cpu /\ load.memory = memory /\ load.active = active_requests
         /\ load.queue = queue_size /\ load.response = AverageTime /\ load.errors = ErrorRate
  BY DEF Load!InstanceLoad, Load!FoldLeft, Load!MapThenFoldSet, Load!Max, AverageTime, ErrorRate,
         Total

LEMMA BurdenParts ==
  ASSUME LoadInv
  PROVE  /\ ActivePart \in Nat /\ ActivePart <= 5000 /\ (active_requests = 0 => ActivePart = 0)
         /\ QueuePart \in Nat /\ QueuePart <= 2250 /\ (queue_size = 0 => QueuePart = 0)
         /\ TimePart \in Nat /\ TimePart <= 1000
         /\ ErrorPart \in Nat /\ ErrorPart <= 250
  <1>1. /\ active_requests \in Nat /\ queue_size \in Nat
        /\ total_requests \in Nat /\ failed_requests \in Nat
        /\ response_times \in Seq(Nat)
    BY LoadFacts
  <1>2. \A x, y \in Nat : y > 0 => x \div y \in Nat
    OBVIOUS
  <1>3. AverageTime \in Nat
    <2>1. CASE response_times # <<>>
      <3>1. Total(response_times) \in Nat
        BY <1>1, TimesAddUp
      <3>2. Len(response_times) \in Nat /\ Len(response_times) > 0
        BY <1>1, <2>1
      <3>3. AverageTime = Total(response_times) \div Len(response_times)
        BY <2>1 DEF AverageTime
      <3> QED BY <1>2, <3>1, <3>2, <3>3
    <2>2. CASE response_times = <<>>
      BY <2>2 DEF AverageTime
    <2> QED BY <2>1, <2>2
  <1>4. ErrorRate \in Nat
    <2>1. CASE total_requests # 0
      <3>1. 1000 * failed_requests \in Nat /\ total_requests > 0
        BY <1>1, <2>1
      <3>2. ErrorRate = (1000 * failed_requests) \div total_requests
        BY <2>1 DEF ErrorRate
      <3> QED BY <1>1, <1>2, <3>1, <3>2
    <2>2. CASE total_requests = 0
      BY <2>2 DEF ErrorRate
    <2> QED BY <2>1, <2>2
  <1>5. /\ ActivePart \in Nat /\ ActivePart <= 5000 /\ (active_requests = 0 => ActivePart = 0)
        /\ QueuePart \in Nat /\ QueuePart <= 2250 /\ (queue_size = 0 => QueuePart = 0)
    BY <1>1 DEF ActivePart, QueuePart, Load!Least
  <1>6. TimePart \in Nat /\ TimePart <= 1000
    BY <1>3 DEF TimePart, Load!Least
  <1>7. ErrorPart \in Nat /\ ErrorPart <= 250
    <2>1. (250 * ErrorRate) \div 1000 \in Nat
      BY <1>4
    <2> QED BY <2>1 DEF ErrorPart, Load!Least
  <1> QED BY <1>5, <1>6, <1>7

LEMMA BurdenIsBounded ==
  ASSUME LoadInv
  PROVE  /\ Burden \in Nat /\ Burden <= 8500
         /\ active_requests = 0 /\ queue_size = 0 => Burden <= 1250
  BY BurdenParts DEF Burden

LEMMA ScoreOf ==
  ASSUME LoadInv, NEW cpu \in Utilizations, NEW memory \in Utilizations
  PROVE  Load!HealthScore(Load!InstanceLoad(cpu, memory))
           = Load!Greatest(0, 100000 - (250 * cpu + 250 * memory + Burden))
  <1> DEFINE load == Load!InstanceLoad(cpu, memory)
  <1>1. /\ load.cpu = cpu /\ load.memory = memory /\ load.active = active_requests
        /\ load.queue = queue_size /\ load.response = AverageTime /\ load.errors = ErrorRate
    BY WhatALoadIs
  <1> HIDE DEF load
  <1>2. Load!HealthScore(load)
          = Load!Greatest(0, 100000 - (250 * cpu + 250 * memory
              + ActivePart + QueuePart + TimePart + ErrorPart))
    BY <1>1 DEF Load!HealthScore, ActivePart, QueuePart, TimePart, ErrorPart
  <1>3. /\ ActivePart \in Int /\ QueuePart \in Int /\ TimePart \in Int /\ ErrorPart \in Int
        /\ cpu \in Int /\ memory \in Int
    <2>1. cpu \in Int /\ memory \in Int
      BY LoadFacts
    <2> QED BY <2>1, BurdenParts
  <1>4. 250 * cpu + 250 * memory + ActivePart + QueuePart + TimePart + ErrorPart
          = 250 * cpu + 250 * memory + Burden
    BY <1>3 DEF Burden
  <1> QED BY <1>2, <1>4 DEF load

LEMMA LoadSound == LoadInv => Load!LoadIsJudged
  <1> SUFFICES ASSUME LoadInv PROVE Load!LoadIsJudged
    OBVIOUS
  <1>1. /\ active_requests = in_flight /\ active_requests \in Nat /\ queue_size \in Nat
        /\ Burden \in Nat /\ Burden <= 8500 /\ (active_requests = 0 /\ queue_size = 0 => Burden <= 1250)
    BY LoadFacts, BurdenIsBounded
  <1>2. \A u \in Utilizations : u \in Nat /\ u <= 100
    BY LoadFacts
  <1>3. ASSUME NEW cpu \in Utilizations, NEW memory \in Utilizations, cpu <= 90, memory <= 90
        PROVE  Load!HealthScore(Load!InstanceLoad(cpu, memory)) >= 46500
    <2>1. cpu \in Nat /\ cpu <= 90 /\ memory \in Nat /\ memory <= 90
      BY <1>2, <1>3
    <2>2. 100000 - (250 * cpu + 250 * memory + Burden) >= 46500
      BY <1>1, <2>1
    <2> QED BY <1>1, <2>1, <2>2, ScoreOf DEF Load!Greatest
  <1>4. ASSUME NEW cpu \in Utilizations, NEW memory \in Utilizations, cpu <= 90, memory <= 90,
               in_flight = 0, queue_size = 0
        PROVE  Load!Accepts(Load!InstanceLoad(cpu, memory))
    <2>1. cpu \in Nat /\ cpu <= 90 /\ memory \in Nat /\ memory <= 90 /\ Burden \in Nat /\ Burden <= 1250
      <3>1. cpu \in Nat /\ cpu <= 90 /\ memory \in Nat /\ memory <= 90
        BY <1>2, <1>4
      <3>2. active_requests = 0 /\ queue_size = 0
        BY <1>1, <1>4
      <3>3. Burden \in Nat /\ Burden <= 1250
        BY <1>1, <3>2
      <3> QED BY <3>1, <3>3
    <2>2. 100000 - (250 * cpu + 250 * memory + Burden) >= 50000
      BY <2>1
    <2>3. Load!HealthScore(Load!InstanceLoad(cpu, memory)) >= 50000
      BY <2>1, <2>2, ScoreOf DEF Load!Greatest
    <2>4. LET load == Load!InstanceLoad(cpu, memory) IN
          load.cpu = cpu /\ load.memory = memory /\ load.active = 0 /\ load.queue = 0
      BY <1>1, <1>4, WhatALoadIs
    <2> QED BY <1>4, <2>3, <2>4 DEF Load!Accepts
  <1>5. ASSUME NEW cpu \in Utilizations, NEW memory \in Utilizations, NEW busier \in Utilizations,
               cpu <= busier, Load!Accepts(Load!InstanceLoad(busier, memory))
        PROVE  /\ Load!Accepts(Load!InstanceLoad(cpu, memory))
               /\ queue_size <= 50 /\ in_flight <= 100
    <2>1. LET load == Load!InstanceLoad(busier, memory) IN
          /\ load.cpu = busier /\ load.memory = memory
          /\ load.active = active_requests /\ load.queue = queue_size
      BY WhatALoadIs
    <2>2. LET load == Load!InstanceLoad(cpu, memory) IN
          /\ load.cpu = cpu /\ load.memory = memory
          /\ load.active = active_requests /\ load.queue = queue_size
      BY WhatALoadIs
    <2>3. /\ Load!HealthScore(Load!InstanceLoad(busier, memory)) >= 50000
          /\ busier <= 90 /\ memory <= 90 /\ active_requests <= 100 /\ queue_size <= 50
      BY <1>5, <2>1 DEF Load!Accepts
    <2>4. cpu \in Nat /\ busier \in Nat /\ memory \in Nat
      BY <1>2
    <2>5. 100000 - (250 * busier + 250 * memory + Burden) >= 50000
      BY <1>1, <2>3, <2>4, ScoreOf DEF Load!Greatest
    <2>6. 100000 - (250 * cpu + 250 * memory + Burden) >= 50000
      BY <1>1, <1>5, <2>4, <2>5
    <2>7. Load!HealthScore(Load!InstanceLoad(cpu, memory)) >= 50000
      BY <1>1, <2>4, <2>6, ScoreOf DEF Load!Greatest
    <2>8. cpu <= 90
      BY <1>5, <2>3, <2>4
    <2> QED BY <1>1, <2>2, <2>3, <2>7, <2>8 DEF Load!Accepts
  <1> QED BY <1>3, <1>4, <1>5 DEF Load!LoadIsJudged, Load!ScoreFloor, Load!IdleAccepts,
                                  Load!RefusalIsMonotone

-----------------------------------------------------------------------------
(*****************************************************************************)
(* The prediction endpoint.  A request that still looks or infers has no     *)
(* result, one that stores or answers has one, and nobody has a status       *)
(* before the end.                                                           *)
(*****************************************************************************)
PredictInv ==
  /\ Predict!TypeOK /\ Predict!OutagesCostNothing
  /\ result \in [Calls -> [by : Backends, cached : BOOLEAN] \union {None}]
  /\ \A c \in Calls :
       /\ predict_pc[c] # "idle" => request[c].text \in Texts /\ request[c].backend \in Backends
       /\ predict_pc[c] # "done" => status[c] = 0
       /\ predict_pc[c] \in {"idle", "looking", "inferring"} => result[c] = None
       /\ predict_pc[c] \in {"storing", "answering"} => result[c] # None

LEMMA PredictInit == Predict!Init => PredictInv
  <1> SUFFICES ASSUME Predict!Init PROVE PredictInv
    OBVIOUS
  <1>1. /\ reachable = TRUE /\ outages = 0 /\ client = FALSE
        /\ redis = [k \in Predict!Keys |-> None]
        /\ request = [c \in Calls |-> Predict!NoRequest]
        /\ predict_pc = [c \in Calls |-> "idle"]
        /\ result = [c \in Calls |-> None]
        /\ status = [c \in Calls |-> 0]
        /\ streamed = {}
    BY DEF Predict!Init
  <1>2. Outages \in Nat
    BY Assumptions DEF Predict!PredictionAssumption
  <1>3. Predict!TypeOK
    <2>1. redis \in [Predict!Keys -> Backends \union {None}]
      BY <1>1
    <2>2. /\ request \in [Calls -> [text : Texts, backend : Backends, cache : BOOLEAN]
                                     \union {Predict!NoRequest}]
          /\ status \in [Calls -> {0, 200, 500, 503}]
          /\ predict_pc \in [Calls -> {"idle", "looking", "inferring", "storing", "answering", "done"}]
      BY <1>1
    <2>3. outages \in 0 .. Outages
      BY <1>1, <1>2
    <2>4. reachable \in BOOLEAN /\ client \in BOOLEAN
      BY <1>1, Zenon
    <2>5. streamed \subseteq Calls /\ \A c \in Calls : result[c] = None
      BY <1>1
    <2> QED BY <2>1, <2>2, <2>3, <2>4, <2>5 DEF Predict!TypeOK
  <1>4. Predict!OutagesCostNothing
    BY <1>1 DEF Predict!OutagesCostNothing
  <1> QED BY <1>1, <1>3, <1>4 DEF PredictInv

\* A step of one request leaves the others alone.
LEMMA OneRequestMoves ==
  ASSUME PredictInv, NEW c \in Calls,
         predict_pc' \in [Calls -> {"idle", "looking", "inferring", "storing", "answering", "done"}],
         result' \in [Calls -> [by : Backends, cached : BOOLEAN] \union {None}],
         status' \in [Calls -> {0, 200, 500, 503}],
         request' \in [Calls -> [text : Texts, backend : Backends, cache : BOOLEAN]
                                  \union {Predict!NoRequest}],
         redis' \in [Predict!Keys -> Backends \union {None}],
         reachable' = reachable, outages' = outages, client' \in BOOLEAN,
         streamed \subseteq streamed', streamed' \subseteq Calls,
         \A d \in Calls : d # c =>
           /\ predict_pc'[d] = predict_pc[d] /\ result'[d] = result[d]
           /\ status'[d] = status[d] /\ request'[d] = request[d],
         predict_pc'[c] # "idle" /\ request'[c].text \in Texts /\ request'[c].backend \in Backends,
         predict_pc'[c] # "done" => status'[c] = 0,
         predict_pc'[c] \in {"looking", "inferring"} => result'[c] = None,
         predict_pc'[c] \in {"storing", "answering"} => result'[c] # None,
         status'[c] = 200 => c \in streamed' /\ result'[c] # None,
         (predict_pc'[c] = "done" /\ result'[c] # None)
           => status'[c] = (IF result'[c].by \in WholeResults THEN 200 ELSE 500)
  PROVE  PredictInv'
  <1>1. Predict!TypeOK'
    <2>1. \A d \in Calls : result'[d] = None \/ result'[d] \in [by : Backends, cached : BOOLEAN]
      OBVIOUS
    <2> QED BY <2>1 DEF Predict!TypeOK, PredictInv
  <1>2. Predict!OutagesCostNothing'
    <2> SUFFICES ASSUME NEW d \in Calls
                 PROVE  /\ status'[d] = 200 => d \in streamed' /\ result'[d] # None
                        /\ (predict_pc'[d] = "done" /\ result'[d] # None)
                             => status'[d] = (IF result'[d].by \in WholeResults THEN 200 ELSE 500)
      BY DEF Predict!OutagesCostNothing
    <2>1. CASE d = c
      BY <2>1
    <2>2. CASE d # c
      BY <2>2 DEF PredictInv, Predict!OutagesCostNothing
    <2> QED BY <2>1, <2>2
  <1>3. ASSUME NEW d \in Calls
        PROVE  /\ predict_pc'[d] # "idle" => request'[d].text \in Texts /\ request'[d].backend \in Backends
               /\ predict_pc'[d] # "done" => status'[d] = 0
               /\ predict_pc'[d] \in {"idle", "looking", "inferring"} => result'[d] = None
               /\ predict_pc'[d] \in {"storing", "answering"} => result'[d] # None
    <2>1. CASE d = c
      BY <2>1
    <2>2. CASE d # c
      BY <2>2 DEF PredictInv
    <2> QED BY <2>1, <2>2
  <1> QED BY <1>1, <1>2, <1>3 DEF PredictInv

LEMMA PredictNext ==
  ASSUME PredictInv, [Predict!Next]_predictVars
  PROVE  PredictInv'
  <1> DEFINE R == [by : Backends, cached : BOOLEAN]
             Q == [text : Texts, backend : Backends, cache : BOOLEAN]
             P == {"idle", "looking", "inferring", "storing", "answering", "done"}
  <1>1. /\ None \notin R /\ None \notin Backends /\ default_backend \in Backends
        /\ WholeResults \subseteq Backends /\ redis_enabled \in BOOLEAN /\ Outages \in Nat
    BY Assumptions DEF Predict!PredictionAssumption
  <1>2. /\ reachable \in BOOLEAN /\ outages \in 0 .. Outages /\ client \in BOOLEAN
        /\ redis \in [Predict!Keys -> Backends \union {None}]
        /\ request \in [Calls -> Q \union {Predict!NoRequest}]
        /\ predict_pc \in [Calls -> P] /\ result \in [Calls -> R \union {None}]
        /\ status \in [Calls -> {0, 200, 500, 503}] /\ streamed \subseteq Calls
    BY DEF PredictInv, Predict!TypeOK
  <1>3. \A c \in Calls :
          /\ predict_pc[c] # "idle" => request[c].text \in Texts /\ request[c].backend \in Backends
          /\ predict_pc[c] # "done" => status[c] = 0
          /\ predict_pc[c] \in {"idle", "looking", "inferring"} => result[c] = None
          /\ predict_pc[c] \in {"storing", "answering"} => result[c] # None
          /\ predict_pc[c] # "idle" => Predict!KeyOf(c) \in Predict!Keys
    BY DEF PredictInv, Predict!KeyOf, Predict!Key, Predict!Keys
  <1>4. ASSUME NEW c \in Calls, NEW t \in Texts, NEW asked_for \in Backends \union {None},
               Predict!Ask(c, t, asked_for)
        PROVE  PredictInv'
    <2> DEFINE b == Predict!BackendFor(asked_for)
               q == [text |-> t, backend |-> b, cache |-> Predict!Connects]
    <2>1. b \in Backends /\ Predict!Connects \in BOOLEAN
      BY <1>1, <1>2 DEF Predict!BackendFor, Predict!Connects
    <2>2. q \in Q /\ q.text \in Texts /\ q.backend \in Backends
      BY <2>1
    <2>3. /\ predict_pc[c] = "idle" /\ client' = Predict!Connects
          /\ request' = [request EXCEPT ![c] = q]
          /\ UNCHANGED <<reachable, outages, redis, result, streamed>>
      BY <1>4 DEF Predict!Ask
    <2>4. \/ /\ status' \in {[status EXCEPT ![c] = 500], [status EXCEPT ![c] = 503]}
             /\ predict_pc' = [predict_pc EXCEPT ![c] = "done"]
          \/ /\ predict_pc' \in {[predict_pc EXCEPT ![c] = "looking"],
                                 [predict_pc EXCEPT ![c] = "inferring"]}
             /\ UNCHANGED status
      BY <1>4 DEF Predict!Ask
    <2> HIDE DEF b, q
    <2>5. /\ request' \in [Calls -> Q \union {Predict!NoRequest}] /\ request'[c] = q
          /\ \A d \in Calls : d # c => request'[d] = request[d]
      BY <1>2, <2>2, <2>3
    <2>6. /\ predict_pc' \in [Calls -> P] /\ status' \in [Calls -> {0, 200, 500, 503}]
          /\ \A d \in Calls : d # c => predict_pc'[d] = predict_pc[d] /\ status'[d] = status[d]
          /\ predict_pc'[c] \in {"looking", "inferring", "done"} /\ status'[c] # 200
          /\ predict_pc'[c] # "done" => status'[c] = 0
      BY <1>2, <1>3, <2>3, <2>4
    <2>7. result'[c] = None /\ result' = result
      BY <1>3, <2>3
    <2> HIDE DEF R, Q, P
    <2>8. /\ predict_pc'[c] # "idle" /\ request'[c].text \in Texts /\ request'[c].backend \in Backends
      BY <2>2, <2>5, <2>6
    <2> QED BY <1>2, <2>1, <2>3, <2>5, <2>6, <2>7, <2>8, OneRequestMoves DEF R, Q, P
  <1>5. ASSUME NEW c \in Calls, Predict!LookUp(c) PROVE PredictInv'
    <2>1. /\ predict_pc[c] = "looking"
          /\ UNCHANGED <<reachable, outages, client, redis, request, status, streamed>>
      BY <1>5 DEF Predict!LookUp
    <2>2. \/ /\ Predict!Get(c) # None
             /\ result' = [result EXCEPT ![c] = [by |-> Predict!Get(c), cached |-> TRUE]]
             /\ predict_pc' = [predict_pc EXCEPT ![c] = "answering"]
          \/ predict_pc' = [predict_pc EXCEPT ![c] = "inferring"] /\ UNCHANGED result
      BY <1>5 DEF Predict!LookUp
    <2>3. Predict!Get(c) # None => Predict!Get(c) \in Backends
      BY <1>2, <1>3, <2>1 DEF Predict!Get
    <2>4. \/ /\ \E r \in R : result' = [result EXCEPT ![c] = r]
             /\ predict_pc' = [predict_pc EXCEPT ![c] = "answering"]
          \/ predict_pc' = [predict_pc EXCEPT ![c] = "inferring"] /\ UNCHANGED result
      BY <2>2, <2>3
    <2> HIDE DEF R, Q
    <2>5. /\ predict_pc' \in [Calls -> P] /\ result' \in [Calls -> R \union {None}]
          /\ \A d \in Calls : d # c => predict_pc'[d] = predict_pc[d] /\ result'[d] = result[d]
          /\ \/ predict_pc'[c] = "answering" /\ result'[c] # None
             \/ predict_pc'[c] = "inferring" /\ result'[c] = None
      BY <1>1, <1>2, <1>3, <2>1, <2>4
    <2>6. status'[c] = 0 /\ request'[c].text \in Texts /\ request'[c].backend \in Backends
      BY <1>3, <2>1
    <2> QED BY <1>2, <2>1, <2>5, <2>6, OneRequestMoves DEF R, Q, P
  <1>6. ASSUME NEW c \in Calls, Predict!Infer(c) PROVE PredictInv'
    <2>1. /\ predict_pc[c] = "inferring"
          /\ result' = [result EXCEPT ![c] = [by |-> request[c].backend, cached |-> FALSE]]
          /\ predict_pc' \in {[predict_pc EXCEPT ![c] = "storing"], [predict_pc EXCEPT ![c] = "answering"]}
          /\ UNCHANGED <<reachable, outages, client, redis, request, status, streamed>>
      BY <1>6 DEF Predict!Infer
    <2>2. [by |-> request[c].backend, cached |-> FALSE] \in R
      BY <1>3, <2>1
    <2>3. \E r \in R : result' = [result EXCEPT ![c] = r]
      BY <2>1, <2>2
    <2> HIDE DEF R, Q
    <2>4. /\ predict_pc' \in [Calls -> P] /\ result' \in [Calls -> R \union {None}]
          /\ \A d \in Calls : d # c => predict_pc'[d] = predict_pc[d] /\ result'[d] = result[d]
          /\ predict_pc'[c] \in {"storing", "answering"} /\ result'[c] # None
      <3>1. PICK r \in R : result' = [result EXCEPT ![c] = r]
        BY <2>3
      <3>2. /\ result' \in [Calls -> R \union {None}] /\ result'[c] # None
            /\ \A d \in Calls : d # c => result'[d] = result[d]
        BY <1>1, <1>2, <3>1
      <3> QED BY <1>2, <2>1, <3>2
    <2>5. status'[c] = 0 /\ request'[c].text \in Texts /\ request'[c].backend \in Backends
      BY <1>3, <2>1
    <2> QED BY <1>2, <2>1, <2>4, <2>5, OneRequestMoves DEF R, Q, P
  <1>7. ASSUME NEW c \in Calls, Predict!InferFails(c) PROVE PredictInv'
    <2>1. /\ predict_pc[c] = "inferring" /\ status' = [status EXCEPT ![c] = 500]
          /\ predict_pc' = [predict_pc EXCEPT ![c] = "done"]
          /\ UNCHANGED <<reachable, outages, client, redis, request, result, streamed>>
      BY <1>7 DEF Predict!InferFails
    <2>2. /\ predict_pc' \in [Calls -> P] /\ status' \in [Calls -> {0, 200, 500, 503}]
          /\ \A d \in Calls : d # c => predict_pc'[d] = predict_pc[d] /\ status'[d] = status[d]
          /\ predict_pc'[c] = "done" /\ status'[c] = 500 /\ result'[c] = None
      BY <1>2, <1>3, <2>1
    <2>3. request'[c].text \in Texts /\ request'[c].backend \in Backends
      BY <1>3, <2>1
    <2> HIDE DEF R, Q
    <2> QED BY <1>2, <2>1, <2>2, <2>3, OneRequestMoves DEF R, Q, P
  <1>8. ASSUME NEW c \in Calls, Predict!Store(c) PROVE PredictInv'
    <2>1. /\ predict_pc[c] = "storing"
          /\ predict_pc' = [predict_pc EXCEPT ![c] = "answering"]
          /\ redis' \in {[redis EXCEPT ![Predict!KeyOf(c)] = result[c].by], redis}
          /\ UNCHANGED <<reachable, outages, client, request, result, status, streamed>>
      BY <1>8 DEF Predict!Store, Predict!AfterSet
    <2>2. result[c] # None /\ result[c] \in R
      BY <1>2, <1>3, <2>1
    <2>3. redis' \in [Predict!Keys -> Backends \union {None}]
      <3>1. result[c].by \in Backends
        BY <2>2
      <3> HIDE DEF R, Q
      <3> QED BY <1>2, <1>3, <2>1, <3>1
    <2> HIDE DEF R, Q
    <2>4. /\ predict_pc' \in [Calls -> P] /\ predict_pc'[c] = "answering"
          /\ \A d \in Calls : d # c => predict_pc'[d] = predict_pc[d]
      BY <1>2, <2>1
    <2>5. /\ status'[c] = 0 /\ request'[c].text \in Texts /\ request'[c].backend \in Backends
          /\ result'[c] # None
      BY <1>3, <2>1, <2>2
    <2> QED BY <1>2, <2>1, <2>3, <2>4, <2>5, OneRequestMoves DEF R, Q, P
  <1>9. ASSUME NEW c \in Calls, Predict!Answer(c) PROVE PredictInv'
    <2>1. /\ predict_pc[c] = "answering" /\ predict_pc' = [predict_pc EXCEPT ![c] = "done"]
          /\ UNCHANGED <<reachable, outages, client, redis, request, result>>
      BY <1>9 DEF Predict!Answer
    <2>2. \/ /\ result[c].by \in WholeResults
             /\ status' = [status EXCEPT ![c] = 200] /\ streamed' = streamed \union {c}
          \/ /\ result[c].by \notin WholeResults
             /\ status' = [status EXCEPT ![c] = 500] /\ UNCHANGED streamed
      BY <1>9 DEF Predict!Answer
    <2> HIDE DEF R, Q
    <2>3. /\ predict_pc' \in [Calls -> P] /\ predict_pc'[c] = "done"
          /\ status' \in [Calls -> {0, 200, 500, 503}]
          /\ \A d \in Calls : d # c => predict_pc'[d] = predict_pc[d] /\ status'[d] = status[d]
          /\ status'[c] = (IF result'[c].by \in WholeResults THEN 200 ELSE 500)
          /\ status'[c] = 200 => c \in streamed'
          /\ streamed \subseteq streamed' /\ streamed' \subseteq Calls
      BY <1>2, <2>1, <2>2
    <2>4. request'[c].text \in Texts /\ request'[c].backend \in Backends /\ result'[c] # None
      BY <1>3, <2>1
    <2> QED BY <1>2, <2>1, <2>3, <2>4, OneRequestMoves DEF R, Q, P
  <1>10. CASE Predict!GoAway \/ Predict!ComeBack \/ \E k \in Predict!Keys : Predict!Expire(k)
    <2>1. UNCHANGED <<client, request, predict_pc, result, status, streamed>>
      BY <1>10 DEF Predict!GoAway, Predict!ComeBack, Predict!Expire
    <2>2. reachable' \in BOOLEAN /\ outages' \in 0 .. Outages
      <3>1. CASE Predict!GoAway
        <4>1. reachable' = FALSE /\ outages' = outages + 1 /\ outages < Outages
          BY <3>1 DEF Predict!GoAway
        <4>2. outages' \in 0 .. Outages
          BY <1>1, <1>2, <4>1
        <4>3. reachable' \in BOOLEAN
          BY <4>1, Zenon
        <4> QED BY <4>2, <4>3
      <3>2. CASE Predict!ComeBack
        BY <1>2, <3>2 DEF Predict!ComeBack
      <3>3. CASE \E k \in Predict!Keys : Predict!Expire(k)
        BY <1>2, <3>3 DEF Predict!Expire
      <3> QED BY <1>10, <3>1, <3>2, <3>3
    <2>3. redis' \in [Predict!Keys -> Backends \union {None}]
      BY <1>2, <1>10 DEF Predict!GoAway, Predict!ComeBack, Predict!Expire
    <2>4. Predict!TypeOK'
      BY <2>1, <2>2, <2>3 DEF PredictInv, Predict!TypeOK
    <2>5. Predict!OutagesCostNothing'
      BY <2>1 DEF PredictInv, Predict!OutagesCostNothing
    <2> QED BY <2>1, <2>4, <2>5 DEF PredictInv
  <1>11. CASE UNCHANGED predictVars
    BY <1>11 DEF predictVars, PredictInv, Predict!TypeOK, Predict!OutagesCostNothing
  <1> HIDE DEF R, Q, P
  <1> QED BY <1>4, <1>5, <1>6, <1>7, <1>8, <1>9, <1>10, <1>11 DEF Predict!Next

-----------------------------------------------------------------------------
(*****************************************************************************)
(* A loaded model.  A thread that works has a text; the cache holds no       *)
(* text twice; until the cache is cleared the hits only rise above what a    *)
(* thread has seen.                                                          *)
(*****************************************************************************)
CleanTexts == {Model!Clean(t) : t \in ModelTexts}

SeenInOrder ==
  ~cleared => \A c \in Calls : /\ before[c] <= lru_info.hits
                               /\ c \in was_hit /\ model_pc[c] = "tracking"
                                    => before[c] < lru_info.hits

CacheInOrder ==
  /\ lru \in Seq(CleanTexts) /\ Len(lru) <= cache_size
  /\ \A j, k \in 1 .. Len(lru) : j # k => lru[j] # lru[k]

ModelInv ==
  /\ lru_info \in [hits : Nat, misses : Nat]
  /\ counted \in [hits : Nat, misses : Nat, predictions : Nat]
  /\ model_pc \in [Calls -> {"idle", "looking", "inferring", "tracking"}]
  /\ text \in [Calls -> CleanTexts \union {Model!Blank}]
  /\ \A c \in Calls : model_pc[c] # "idle" => text[c] \in CleanTexts
  /\ \A c \in Calls : model_pc[c] = "inferring" => c \notin was_hit
  /\ before \in [Calls -> Nat]
  /\ was_hit \subseteq Calls /\ cleared \in BOOLEAN
  /\ CacheInOrder /\ SeenInOrder /\ Model!BatchIsAligned

LEMMA NoBatchIsAligned == batch = Model!NoBatch => Model!BatchIsAligned
  <1>1. \A i \in DOMAIN <<>> : FALSE
    OBVIOUS
  <1> QED BY <1>1 DEF Model!NoBatch, Model!BatchIsAligned

LEMMA ModelInit == Model!Init => ModelInv
  <1> SUFFICES ASSUME Model!Init PROVE ModelInv
    OBVIOUS
  <1>1. cache_size \in Nat
    BY Assumptions DEF Model!ModelAssumption
  <1>2. CacheInOrder
    <2>1. lru = <<>> /\ Len(<<>>) = 0 /\ <<>> \in Seq(CleanTexts)
      BY DEF Model!Init
    <2>2. 1 .. 0 = {} /\ 0 <= cache_size
      BY <1>1
    <2> QED BY <2>1, <2>2 DEF CacheInOrder
  <1>3. SeenInOrder
    BY DEF Model!Init, SeenInOrder
  <1>4. Model!BatchIsAligned
    BY NoBatchIsAligned DEF Model!Init
  <1> QED BY <1>2, <1>3, <1>4 DEF Model!Init, ModelInv

\* Positions of the texts of a batch that are not blank, in order.
LEMMA ValidAreKept ==
  ASSUME NEW ts, NEW n \in Nat, DOMAIN ts = 1 .. n
  PROVE  Kept(Model!ValidIndices(ts), [i \in 1 .. n |-> i], n,
              Nat \ {i \in Nat : i \in 1 .. n /\ ts[i] = Model!Blank})
  <1> DEFINE q == [i \in DOMAIN ts |-> i]
             D == DOMAIN q
             Out == {i \in Nat : i \in 1 .. n /\ ts[i] = Model!Blank}
             Fold(f) == f = [s \in SUBSET D |->
                               IF s = {} THEN <<>>
                               ELSE LET x == CHOOSE x \in s : \A y \in s : x >= y IN
                                    IF ts[q[x]] = Model!Blank THEN f[s \ {x}]
                                    ELSE Append(f[s \ {x}], q[x])]
             F == CHOOSE f : Fold(f)
  <1>1. /\ q \in Seq(Nat) /\ Len(q) = n /\ D = 1 .. n /\ Increasing(q)
        /\ \A i \in 1 .. n : q[i] = i
        /\ q = [i \in 1 .. n |-> i]
    BY DEF Increasing
  <1>2. Model!ValidIndices(ts) = F[D]
    BY DEF Model!ValidIndices, Model!FoldLeft, Model!MapThenFoldSet, Model!Max
  <1>3. \A s \in SUBSET D :
          s # {} => (ts[q[MaxOf(s)]] = Model!Blank <=> q[MaxOf(s)] \in Out)
    <2>1. \A s \in SUBSET D : s # {} => MaxOf(s) \in s
      BY <1>1, MaxExists
    <2> QED BY <1>1, <2>1
  <1> HIDE DEF Out, D, q
  <1>4. ASSUME NEW f PROVE Filters(f, q, Out) <=> Fold(f)
    BY <1>1, <1>3 DEF Filters, MaxOf
  <1> HIDE DEF Fold
  <1>5. \E f : Fold(f)
    <2>1. \E f : Filters(f, q, Out)
      BY <1>1, FilterExists
    <2> QED BY <1>4, <2>1
  <1>6. Fold(F)
    BY <1>5
  <1> HIDE DEF F
  <1>7. Filters(F, q, Out)
    BY <1>4, <1>6
  <1>8. Kept(F[1 .. Len(q)], q, Len(q), Nat \ Out)
    BY <1>1, <1>7, FiltersKeep
  <1> QED BY <1>1, <1>2, <1>8 DEF Out

\* The same of the places that PredictionService.predict_batch passes on.
LEMMA PlacesAreKept ==
  ASSUME NEW ts, NEW n \in Nat, DOMAIN ts = 1 .. n
  PROVE  Kept(Predict!ValidPlaces(ts), [i \in 1 .. n |-> i], n,
              Nat \ {i \in Nat : i \in 1 .. n /\ Predict!ValidTexts(ts)[i] = None})
  <1> DEFINE v == Predict!ValidTexts(ts)
             q == [i \in DOMAIN ts |-> i]
             D == DOMAIN q
             Out == {i \in Nat : i \in 1 .. n /\ v[i] = None}
             Fold(f) == f = [s \in SUBSET D |->
                               IF s = {} THEN <<>>
                               ELSE LET x == CHOOSE x \in s : \A y \in s : x >= y IN
                                    IF v[q[x]] = None THEN f[s \ {x}]
                                    ELSE Append(f[s \ {x}], q[x])]
             F == CHOOSE f : Fold(f)
  <1>1. /\ q \in Seq(Nat) /\ Len(q) = n /\ D = 1 .. n /\ Increasing(q)
        /\ \A i \in 1 .. n : q[i] = i
        /\ q = [i \in 1 .. n |-> i]
    BY DEF Increasing
  <1>2. Predict!ValidPlaces(ts) = F[D]
    BY DEF Predict!ValidPlaces, Predict!FoldLeft, Predict!MapThenFoldSet, Predict!Max
  <1>3. \A s \in SUBSET D : s # {} => (v[q[MaxOf(s)]] = None <=> q[MaxOf(s)] \in Out)
    <2>1. \A s \in SUBSET D : s # {} => MaxOf(s) \in s
      BY <1>1, MaxExists
    <2> HIDE DEF v
    <2> QED BY <1>1, <2>1
  <1> HIDE DEF Out, D, q, v
  <1>4. ASSUME NEW f PROVE Filters(f, q, Out) <=> Fold(f)
    BY <1>1, <1>3 DEF Filters, MaxOf
  <1> HIDE DEF Fold
  <1>5. \E f : Fold(f)
    <2>1. \E f : Filters(f, q, Out)
      BY <1>1, FilterExists
    <2> QED BY <1>4, <2>1
  <1>6. Fold(F)
    BY <1>5
  <1> HIDE DEF F
  <1>7. Filters(F, q, Out)
    BY <1>4, <1>6
  <1>8. Kept(F[1 .. Len(q)], q, Len(q), Nat \ Out)
    BY <1>1, <1>7, FiltersKeep
  <1> QED BY <1>1, <1>2, <1>8 DEF Out, v

\* A batch is answered place by place.
LEMMA BatchesAlign ==
  ASSUME NEW ts, NEW n \in Nat, DOMAIN ts = 1 .. n
  PROVE  LET results == Model!BuildResults(ts, Model!ValidTexts(ts)) IN
         /\ DOMAIN results = 1 .. n
         /\ \A i \in 1 .. n :
              results[i] = IF ts[i] = Model!Blank THEN <<"error">> ELSE Model!Clean(ts[i])
         /\ Len(Model!ValidTexts(ts)) \in Nat
  <1> DEFINE V == Model!ValidIndices(ts)
             q == [i \in 1 .. n |-> i]
             W == Nat \ {i \in Nat : i \in 1 .. n /\ ts[i] = Model!Blank}
             results == Model!BuildResults(ts, Model!ValidTexts(ts))
             raw == Model!ValidTexts(ts)
  <1>1. Kept(V, q, n, W)
    BY ValidAreKept
  <1> HIDE DEF V, W, q
  <1>2. /\ V \in Seq(Nat) /\ Increasing(V)
        /\ \A j \in DOMAIN V : \E i \in 1 .. n : V[j] = q[i] /\ q[i] \in W
        /\ \A i \in 1 .. n : q[i] \in W => \E j \in DOMAIN V : V[j] = q[i]
    BY <1>1 DEF Kept
  <1>3. \A i \in 1 .. n : q[i] = i /\ (i \in W <=> ts[i] # Model!Blank)
    BY DEF q, W
  <1>4. DOMAIN V = 1 .. Len(V) /\ Len(V) \in Nat
    BY <1>2
  <1>5. \A i \in 1 .. n : Model!Contains(V, i) <=> ts[i] # Model!Blank
    <2>1. \A i \in 1 .. n : ts[i] # Model!Blank => \E j \in DOMAIN V : V[j] = i
      BY <1>2, <1>3
    <2>2. \A i \in 1 .. n : (\E j \in DOMAIN V : V[j] = i) => ts[i] # Model!Blank
      BY <1>2, <1>3
    <2> QED BY <1>4, <2>1, <2>2 DEF Model!Contains
  <1>6. raw = [k \in DOMAIN V |-> Model!Clean(ts[V[k]])]
    BY DEF Model!ValidTexts, V
  <1>7. Len(raw) \in Nat
    <2>1. raw \in Seq({raw[k] : k \in DOMAIN V})
      BY <1>4, <1>6
    <2> QED BY <2>1
  <1>8. results = [i \in 1 .. n |->
           IF Model!Contains(V, i)
           THEN raw[Cardinality({j \in Model!ToSet(V) : j <= i})]
           ELSE <<"error">>]
    <2>1. \A S : Model!Cardinality(S) = Cardinality(S)
      BY DEF Model!Cardinality, Cardinality
    <2> QED BY <2>1 DEF Model!BuildResults, V
  <1> HIDE DEF results, raw
  <1>9. ASSUME NEW i \in 1 .. n, ts[i] # Model!Blank
        PROVE  raw[Cardinality({j \in Model!ToSet(V) : j <= i})] = Model!Clean(ts[i])
    <2>1. PICK p \in DOMAIN V : V[p] = i
      BY <1>4, <1>5, <1>9 DEF Model!Contains
    <2>2. Model!ToSet(V) = {V[j] : j \in DOMAIN V}
      BY DEF Model!ToSet
    <2>3. Cardinality({j \in {V[k] : k \in DOMAIN V} : j <= V[p]}) = p
      BY <1>2, PlaceIsRank
    <2> QED BY <1>6, <2>1, <2>2, <2>3
  <1>10. \A i \in 1 .. n :
           results[i] = IF ts[i] = Model!Blank THEN <<"error">> ELSE Model!Clean(ts[i])
    BY <1>5, <1>8, <1>9
  <1>11. DOMAIN results = 1 .. n
    BY <1>8
  <1> QED BY <1>7, <1>10, <1>11 DEF results, raw

\* What a look or an added text does to the cache.
LEMMA RenewedKeeps ==
  ASSUME CacheInOrder, NEW k \in DOMAIN lru, NEW t, t = lru[k],
         lru' = Append(Model!RemoveAt(lru, k), t)
  PROVE  CacheInOrder'
  <1> DEFINE n == Len(lru)
             r == SubSeq(lru, 1, k - 1) \o SubSeq(lru, k + 1, n)
  <1>1. n \in Nat /\ k \in 1 .. n /\ lru \in Seq(CleanTexts) /\ t \in CleanTexts
    BY DEF CacheInOrder
  <1>2. /\ r \in Seq(CleanTexts) /\ Len(r) = n - 1
        /\ \A j \in 1 .. (n - 1) : r[j] = IF j < k THEN lru[j] ELSE lru[j + 1]
    BY <1>1, RemovedFacts
  <1>3. lru' = Append(r, t)
    BY DEF Model!RemoveAt
  <1> HIDE DEF r, n
  <1>4. /\ lru' \in Seq(CleanTexts) /\ Len(lru') = n
        /\ \A j \in 1 .. (n - 1) : lru'[j] = r[j]
        /\ lru'[n] = t
    <2>1. Append(r, t) \in Seq(CleanTexts) /\ Len(Append(r, t)) = Len(r) + 1
          /\ (\A j \in DOMAIN r : Append(r, t)[j] = r[j]) /\ DOMAIN r = 1 .. Len(r)
          /\ Append(r, t)[Len(r) + 1] = t
      BY <1>1, <1>2, AppendFacts
    <2>2. Len(r) + 1 = n
      BY <1>1, <1>2
    <2> QED BY <1>2, <1>3, <2>1, <2>2
  <1> DEFINE At(j) == IF j = n THEN k ELSE IF j < k THEN j ELSE j + 1
  <1>5. \A j \in 1 .. n : At(j) \in 1 .. n /\ lru'[j] = lru[At(j)]
    <2> SUFFICES ASSUME NEW j \in 1 .. n PROVE At(j) \in 1 .. n /\ lru'[j] = lru[At(j)]
      OBVIOUS
    <2>1. CASE j = n
      BY <1>1, <1>4, <2>1
    <2>2. CASE j # n
      <3>1. j \in 1 .. (n - 1) /\ At(j) \in 1 .. n
        BY <1>1, <2>2
      <3>2. lru'[j] = IF j < k THEN lru[j] ELSE lru[j + 1]
        BY <1>2, <1>4, <3>1
      <3> QED BY <2>2, <3>1, <3>2
    <2> QED BY <2>1, <2>2
  <1>6. \A i, j \in 1 .. n : i # j => At(i) # At(j)
    BY <1>1
  <1>7. \A i, j \in 1 .. n : i # j => lru'[i] # lru'[j]
    <2> HIDE DEF At
    <2>1. \A i, j \in 1 .. n : i # j => lru[i] # lru[j]
      BY DEF CacheInOrder, n
    <2> QED BY <1>5, <1>6, <2>1
  <1> QED BY <1>4, <1>7 DEF CacheInOrder, n

LEMMA AddedKeeps ==
  ASSUME CacheInOrder, NEW t \in CleanTexts, lru' = Model!Added(t)
  PROVE  CacheInOrder'
  <1> DEFINE n == Len(lru)
             room == IF n >= cache_size THEN Tail(lru) ELSE lru
  <1>1. n \in Nat /\ lru \in Seq(CleanTexts) /\ cache_size \in Nat \ {0} /\ n <= cache_size
        /\ DOMAIN lru = 1 .. n /\ \A j, k \in 1 .. n : j # k => lru[j] # lru[k]
    BY Assumptions DEF CacheInOrder, Model!ModelAssumption
  <1>2. CASE Model!Contains(lru, t)
    BY <1>2 DEF Model!Added, CacheInOrder
  <1>3. CASE ~Model!Contains(lru, t)
    <2>1. lru' = Append(room, t)
      BY <1>3 DEF Model!Added
    <2>2. \A j \in 1 .. n : lru[j] # t
      BY <1>1, <1>3 DEF Model!Contains
    <2>3. /\ room \in Seq(CleanTexts) /\ Len(room) + 1 <= cache_size /\ Len(room) \in Nat
          /\ \A j \in 1 .. Len(room) : room[j] # t
          /\ \A j, k \in 1 .. Len(room) : j # k => room[j] # room[k]
      <3>1. CASE n >= cache_size
        <4>1. room = Tail(lru) /\ lru # <<>>
          BY <1>1, <3>1
        <4>2. /\ Tail(lru) \in Seq(CleanTexts) /\ Len(Tail(lru)) = n - 1
              /\ \A j \in 1 .. (n - 1) : Tail(lru)[j] = lru[j + 1]
          BY <1>1, <4>1, TailFacts
        <4> HIDE DEF room, n
        <4>3. \A j \in 1 .. Len(room) : j \in 1 .. (n - 1) /\ j + 1 \in 1 .. n
          BY <1>1, <4>1, <4>2
        <4>4. \A j \in 1 .. Len(room) : room[j] = lru[j + 1]
          BY <4>1, <4>2, <4>3
        <4>5. \A j \in 1 .. Len(room) : room[j] # t
          BY <2>2, <4>3, <4>4
        <4>6. ASSUME NEW j \in 1 .. Len(room), NEW k \in 1 .. Len(room), j # k
              PROVE  room[j] # room[k]
          <5>1. j + 1 # k + 1
            BY <4>6
          <5> QED BY <1>1, <4>3, <4>4, <5>1
        <4>7. room \in Seq(CleanTexts) /\ Len(room) + 1 <= cache_size /\ Len(room) \in Nat
          BY <1>1, <4>1, <4>2
        <4> QED BY <4>5, <4>6, <4>7
      <3>2. CASE ~(n >= cache_size)
        <4>1. room = lru
          BY <3>2
        <4> QED BY <1>1, <2>2, <3>2, <4>1
      <3> QED BY <3>1, <3>2
    <2> HIDE DEF room, n
    <2>4. /\ lru' \in Seq(CleanTexts) /\ Len(lru') = Len(room) + 1
          /\ \A j \in 1 .. Len(room) : lru'[j] = room[j]
          /\ lru'[Len(room) + 1] = t
      <3>1. /\ Append(room, t) \in Seq(CleanTexts) /\ Len(Append(room, t)) = Len(room) + 1
            /\ DOMAIN room = 1 .. Len(room)
            /\ \A j \in DOMAIN room : Append(room, t)[j] = room[j]
            /\ Append(room, t)[Len(room) + 1] = t
        BY <2>3, AppendFacts
      <3> QED BY <2>1, <3>1
    <2>5. \A j \in 1 .. (Len(room) + 1) : j \in 1 .. Len(room) \/ j = Len(room) + 1
      BY <2>3
    <2>6. \A j, k \in 1 .. Len(lru') : j # k => lru'[j] # lru'[k]
      BY <2>3, <2>4, <2>5
    <2> QED BY <2>3, <2>4, <2>6 DEF CacheInOrder
  <1> QED BY <1>2, <1>3

\* A thread that moves, while the hits only grow.
LEMMA ThreadMoves ==
  ASSUME ModelInv, NEW c \in Calls,
         NEW at \in {"idle", "looking", "inferring", "tracking"},
         model_pc' = [model_pc EXCEPT ![c] = at],
         text' \in [Calls -> CleanTexts \union {Model!Blank}],
         \A d \in Calls \ {c} : text'[d] = text[d],
         at # "idle" => text'[c] \in CleanTexts,
         before' \in [Calls -> Nat],
         \A d \in Calls \ {c} : before'[d] = before[d],
         was_hit' \in {was_hit, was_hit \union {c}, was_hit \ {c}},
         at = "inferring" => c \notin was_hit',
         lru_info' \in [hits : Nat, misses : Nat],
         lru_info'.hits >= lru_info.hits,
         cleared' = cleared,
         ~cleared => before'[c] <= lru_info'.hits,
         ~cleared /\ c \in was_hit' /\ at = "tracking" => before'[c] < lru_info'.hits,
         counted' \in [hits : Nat, misses : Nat, predictions : Nat],
         CacheInOrder', batch' = Model!NoBatch
  PROVE  ModelInv'
  <1>1. /\ model_pc'[c] = at /\ \A d \in Calls \ {c} : model_pc'[d] = model_pc[d]
        /\ model_pc' \in [Calls -> {"idle", "looking", "inferring", "tracking"}]
    BY DEF ModelInv
  <1>2. \A d \in Calls \ {c} : d \in was_hit' <=> d \in was_hit
    OBVIOUS
  <1>3. ASSUME NEW d \in Calls
        PROVE  /\ model_pc'[d] # "idle" => text'[d] \in CleanTexts
               /\ model_pc'[d] = "inferring" => d \notin was_hit'
    <2>1. CASE d = c
      BY <1>1, <2>1
    <2>2. CASE d # c
      BY <1>1, <1>2, <2>2 DEF ModelInv
    <2> QED BY <2>1, <2>2
  <1>4. SeenInOrder'
    <2> SUFFICES ASSUME ~cleared, NEW d \in Calls
                 PROVE  /\ before'[d] <= lru_info'.hits
                        /\ d \in was_hit' /\ model_pc'[d] = "tracking"
                             => before'[d] < lru_info'.hits
      BY DEF SeenInOrder
    <2>1. CASE d = c
      BY <1>1, <2>1
    <2>2. CASE d # c
      <3>1. /\ before'[d] = before[d] /\ model_pc'[d] = model_pc[d]
            /\ d \in was_hit' <=> d \in was_hit
        BY <1>1, <1>2, <2>2
      <3>2. /\ before[d] <= lru_info.hits
            /\ d \in was_hit /\ model_pc[d] = "tracking" => before[d] < lru_info.hits
        BY DEF ModelInv, SeenInOrder
      <3>3. before[d] \in Nat /\ lru_info.hits \in Nat /\ lru_info'.hits \in Nat
        BY DEF ModelInv
      <3>4. before[d] <= lru_info'.hits
        BY <3>2, <3>3
      <3>5. before[d] < lru_info.hits => before[d] < lru_info'.hits
        BY <3>3
      <3> QED BY <3>1, <3>2, <3>4, <3>5
    <2> QED BY <2>1, <2>2
  <1>5. was_hit' \subseteq Calls /\ cleared' \in BOOLEAN
    BY DEF ModelInv
  <1>6. Model!BatchIsAligned'
    <2>1. \A i \in DOMAIN <<>> : FALSE
      OBVIOUS
    <2> QED BY <2>1 DEF Model!NoBatch, Model!BatchIsAligned
  <1> QED BY <1>1, <1>3, <1>4, <1>5, <1>6 DEF ModelInv

LEMMA PredictKeeps ==
  ASSUME ModelInv, NEW c \in Calls, NEW t \in ModelTexts, Model!Predict(c, t)
  PROVE  ModelInv'
  <1>1. /\ text' = [text EXCEPT ![c] = Model!Clean(t)]
        /\ before' = [before EXCEPT ![c] = lru_info.hits]
        /\ model_pc' = [model_pc EXCEPT ![c] = "looking"] /\ batch' = Model!NoBatch
        /\ UNCHANGED <<lru, lru_info, counted, was_hit, cleared>>
    BY DEF Model!Predict
  <1>2. /\ text \in [Calls -> CleanTexts \union {Model!Blank}] /\ before \in [Calls -> Nat]
        /\ lru_info \in [hits : Nat, misses : Nat] /\ lru_info.hits \in Nat
        /\ counted \in [hits : Nat, misses : Nat, predictions : Nat]
        /\ CacheInOrder
    BY DEF ModelInv
  <1>3. Model!Clean(t) \in CleanTexts
    BY DEF CleanTexts
  <1>4. /\ text' \in [Calls -> CleanTexts \union {Model!Blank}] /\ before' \in [Calls -> Nat]
        /\ text'[c] = Model!Clean(t) /\ before'[c] = lru_info.hits
        /\ \A d \in Calls \ {c} : text'[d] = text[d] /\ before'[d] = before[d]
    BY <1>1, <1>2, <1>3
  <1>5. CacheInOrder'
    BY <1>1, <1>2 DEF CacheInOrder
  <1>6. lru_info'.hits >= lru_info.hits /\ before'[c] <= lru_info'.hits
    BY <1>1, <1>2, <1>4
  <1> QED BY <1>1, <1>2, <1>3, <1>4, <1>5, <1>6, ThreadMoves

LEMMA LookKeeps ==
  ASSUME ModelInv, NEW c \in Calls, Model!Look(c)
  PROVE  ModelInv'
  <1>1. /\ model_pc[c] = "looking" /\ batch' = Model!NoBatch
        /\ UNCHANGED <<counted, text, before, cleared>>
    BY DEF Model!Look
  <1>2. /\ text \in [Calls -> CleanTexts \union {Model!Blank}] /\ before \in [Calls -> Nat]
        /\ lru_info \in [hits : Nat, misses : Nat]
        /\ lru_info.hits \in Nat /\ lru_info.misses \in Nat
        /\ counted \in [hits : Nat, misses : Nat, predictions : Nat]
        /\ CacheInOrder /\ before[c] \in Nat /\ text[c] \in CleanTexts
        /\ ~cleared => before[c] <= lru_info.hits
    BY <1>1 DEF ModelInv, SeenInOrder
  <1>3. CASE Model!Contains(lru, text[c])
    <2>1. /\ \E k \in DOMAIN lru :
               lru[k] = text[c] /\ lru' = Append(Model!RemoveAt(lru, k), text[c])
          /\ lru_info' = [lru_info EXCEPT !.hits = @ + 1]
          /\ was_hit' = was_hit \union {c}
          /\ model_pc' = [model_pc EXCEPT ![c] = "tracking"]
      BY <1>3 DEF Model!Look
    <2>2. CacheInOrder'
      BY <1>2, <2>1, RenewedKeeps
    <2>3. lru_info' \in [hits : Nat, misses : Nat] /\ lru_info'.hits = lru_info.hits + 1
      <3>1. lru_info.hits + 1 \in Nat
        BY <1>2
      <3> QED BY <1>2, <2>1, <3>1
    <2>4. lru_info'.hits >= lru_info.hits /\ (~cleared => before[c] < lru_info'.hits)
      BY <1>2, <2>3
    <2>5. ~cleared => before[c] <= lru_info'.hits
      BY <1>2, <2>3
    <2> QED BY <1>1, <1>2, <2>1, <2>2, <2>3, <2>4, <2>5, ThreadMoves
  <1>4. CASE ~Model!Contains(lru, text[c])
    <2>1. /\ lru_info' = [lru_info EXCEPT !.misses = @ + 1]
          /\ was_hit' = was_hit \ {c} /\ lru' = lru
          /\ model_pc' = [model_pc EXCEPT ![c] = "inferring"]
      BY <1>4 DEF Model!Look
    <2>2. CacheInOrder'
      BY <1>2, <2>1 DEF CacheInOrder
    <2>3. lru_info' \in [hits : Nat, misses : Nat] /\ lru_info'.hits = lru_info.hits
      BY <1>2, <2>1
    <2>4. lru_info'.hits >= lru_info.hits
      BY <1>2, <2>3
    <2> QED BY <1>1, <1>2, <2>1, <2>2, <2>3, <2>4, ThreadMoves
  <1> QED BY <1>3, <1>4

LEMMA InferenceKeeps ==
  ASSUME ModelInv, NEW c \in Calls, Model!Inferred(c) \/ Model!InferenceFailed(c)
  PROVE  ModelInv'
  <1>1. /\ model_pc[c] = "inferring" /\ batch' = Model!NoBatch
        /\ UNCHANGED <<lru_info, counted, text, before, was_hit, cleared>>
    BY DEF Model!Inferred, Model!InferenceFailed
  <1>2. /\ text \in [Calls -> CleanTexts \union {Model!Blank}] /\ before \in [Calls -> Nat]
        /\ lru_info \in [hits : Nat, misses : Nat] /\ lru_info.hits \in Nat
        /\ counted \in [hits : Nat, misses : Nat, predictions : Nat]
        /\ CacheInOrder /\ text[c] \in CleanTexts /\ c \notin was_hit
        /\ ~cleared => before[c] <= lru_info.hits
    BY <1>1 DEF ModelInv, SeenInOrder
  <1>3. PICK at \in {"tracking", "idle"} : model_pc' = [model_pc EXCEPT ![c] = at]
    BY DEF Model!Inferred, Model!InferenceFailed
  <1>4. CacheInOrder'
    <2>1. CASE lru' = Model!Added(text[c])
      BY <1>2, <2>1, AddedKeeps
    <2>2. CASE lru' = lru
      BY <1>2, <2>2 DEF CacheInOrder
    <2> QED BY <2>1, <2>2 DEF Model!Inferred, Model!InferenceFailed
  <1>5. lru_info'.hits >= lru_info.hits
    BY <1>1, <1>2
  <1> QED BY <1>1, <1>2, <1>3, <1>4, <1>5, ThreadMoves

LEMMA TrackKeeps ==
  ASSUME ModelInv, NEW c \in Calls, Model!Track(c)
  PROVE  ModelInv'
  <1>1. /\ model_pc' = [model_pc EXCEPT ![c] = "idle"] /\ was_hit' = was_hit \ {c}
        /\ batch' = Model!NoBatch
        /\ UNCHANGED <<lru, lru_info, text, before, cleared>>
    BY DEF Model!Track
  <1>2. model_pc[c] = "tracking"
    BY DEF Model!Track
  <1>3. /\ text \in [Calls -> CleanTexts \union {Model!Blank}] /\ before \in [Calls -> Nat]
        /\ lru_info \in [hits : Nat, misses : Nat] /\ lru_info.hits \in Nat
        /\ counted.hits \in Nat /\ counted.misses \in Nat /\ counted.predictions \in Nat
        /\ CacheInOrder /\ (~cleared => before[c] <= lru_info.hits)
    BY DEF ModelInv, SeenInOrder
  <1>4. counted' \in [hits : Nat, misses : Nat, predictions : Nat]
    <2>1. PICK h \in {0, 1}, m \in {0, 1} :
            counted' = [hits |-> counted.hits + h, misses |-> counted.misses + m,
                        predictions |-> counted.predictions + 1]
      BY DEF Model!Track
    <2> QED BY <1>3, <2>1
  <1>5. CacheInOrder'
    BY <1>1, <1>3 DEF CacheInOrder
  <1>6. lru_info'.hits >= lru_info.hits
    BY <1>1, <1>3
  <1> QED BY <1>1, <1>3, <1>4, <1>5, <1>6, ThreadMoves

LEMMA PredictBatchKeeps ==
  ASSUME ModelInv, NEW ts \in Model!SeqOf(ModelTexts, MaxBatch), Model!PredictBatch(ts)
  PROVE  ModelInv'
  <1>1. PICK n \in Nat : DOMAIN ts = 1 .. n
    <2>1. MaxBatch \in Nat
      BY Assumptions DEF Model!ModelAssumption
    <2>2. PICK n \in 0 .. MaxBatch : ts \in [1 .. n -> ModelTexts]
      BY DEF Model!SeqOf
    <2> QED BY <2>1, <2>2
  <1> DEFINE results == Model!BuildResults(ts, Model!ValidTexts(ts))
             more == Len(Model!ValidTexts(ts))
  <1>2. /\ batch' = [texts |-> ts, results |-> results]
        /\ counted' = [counted EXCEPT !.predictions = @ + more]
        /\ UNCHANGED <<lru, lru_info, model_pc, text, before, was_hit, cleared>>
    BY DEF Model!PredictBatch
  <1>3. /\ DOMAIN results = 1 .. n
        /\ \A i \in 1 .. n :
             results[i] = IF ts[i] = Model!Blank THEN <<"error">> ELSE Model!Clean(ts[i])
        /\ more \in Nat
    BY <1>1, BatchesAlign
  <1> HIDE DEF results, more
  <1>4. batch'.texts = ts /\ batch'.results = results
    BY <1>2
  <1>5. Model!BatchIsAligned'
    BY <1>1, <1>3, <1>4 DEF Model!BatchIsAligned
  <1>6. counted' \in [hits : Nat, misses : Nat, predictions : Nat]
    BY <1>2, <1>3 DEF ModelInv
  <1>7. CacheInOrder' /\ SeenInOrder'
    BY <1>2 DEF ModelInv, CacheInOrder, SeenInOrder
  <1> QED BY <1>2, <1>5, <1>6, <1>7 DEF ModelInv

LEMMA ClearCacheKeeps ==
  ASSUME ModelInv, Model!ClearCache
  PROVE  ModelInv'
  <1>1. /\ lru' = <<>> /\ lru_info' = [hits |-> 0, misses |-> 0] /\ cleared' = TRUE
        /\ batch' = Model!NoBatch
        /\ UNCHANGED <<counted, model_pc, text, before, was_hit>>
    BY DEF Model!ClearCache
  <1>2. CacheInOrder'
    <2>1. Len(<<>>) = 0 /\ <<>> \in Seq(CleanTexts) /\ 1 .. 0 = {}
      OBVIOUS
    <2>2. 0 <= cache_size
      BY Assumptions DEF Model!ModelAssumption
    <2> QED BY <1>1, <2>1, <2>2 DEF CacheInOrder
  <1>3. SeenInOrder'
    BY <1>1 DEF SeenInOrder
  <1>4. Model!BatchIsAligned'
    <2>1. \A i \in DOMAIN <<>> : FALSE
      OBVIOUS
    <2> QED BY <1>1, <2>1 DEF Model!NoBatch, Model!BatchIsAligned
  <1>5. lru_info' \in [hits : Nat, misses : Nat] /\ cleared' \in BOOLEAN
    BY <1>1
  <1> QED BY <1>1, <1>2, <1>3, <1>4, <1>5 DEF ModelInv

LEMMA ModelNext ==
  ASSUME ModelInv, [Model!Next]_modelVars
  PROVE  ModelInv'
  <1>1. CASE UNCHANGED modelVars
    <2>1. UNCHANGED <<lru, lru_info, counted, model_pc, text, before, batch, was_hit, cleared>>
      BY <1>1 DEF modelVars
    <2>2. CacheInOrder' /\ SeenInOrder' /\ Model!BatchIsAligned'
      BY <2>1 DEF ModelInv, CacheInOrder, SeenInOrder, Model!BatchIsAligned
    <2> QED BY <2>1, <2>2 DEF ModelInv
  <1>2. CASE Model!Next
    <2>1. ASSUME NEW c \in Calls,
                 \/ \E t \in ModelTexts : Model!Predict(c, t)
                 \/ Model!Look(c) \/ Model!Inferred(c) \/ Model!InferenceFailed(c)
                 \/ Model!Track(c)
          PROVE  ModelInv'
      BY <2>1, PredictKeeps, LookKeeps, InferenceKeeps, TrackKeeps
    <2>2. ASSUME NEW ts \in Model!SeqOf(ModelTexts, MaxBatch), Model!PredictBatch(ts)
          PROVE  ModelInv'
      BY <2>2, PredictBatchKeeps
    <2>3. ASSUME Model!ClearCache PROVE ModelInv'
      BY <2>3, ClearCacheKeeps
    <2> QED BY <1>2, <2>1, <2>2, <2>3 DEF Model!Next
  <1> QED BY <1>1, <1>2

LEMMA ModelSound == ModelInv => Model!TypeOK /\ Model!ModelIsSound
  <1> SUFFICES ASSUME ModelInv PROVE Model!TypeOK /\ Model!ModelIsSound
    OBVIOUS
  <1>1. /\ lru \in Seq(CleanTexts) /\ Len(lru) \in Nat /\ DOMAIN lru = 1 .. Len(lru)
        /\ Len(lru) <= cache_size
        /\ \A j, k \in 1 .. Len(lru) : j # k => lru[j] # lru[k]
    BY DEF ModelInv, CacheInOrder
  <1>2. Model!ToSet(lru) \subseteq {Model!Clean(t) : t \in ModelTexts}
    BY <1>1 DEF Model!ToSet, CleanTexts
  <1>3. Model!TypeOK
    BY <1>2 DEF ModelInv, Model!TypeOK, CleanTexts
  <1>4. Model!CacheIsBounded
    <2>1. Cardinality({lru[j] : j \in 1 .. Len(lru)}) = Len(lru)
      BY <1>1, DistinctCount
    <2>2. Model!ToSet(lru) = {lru[j] : j \in 1 .. Len(lru)}
      BY <1>1 DEF Model!ToSet
    <2>3. \A S : Model!Cardinality(S) = Cardinality(S)
      BY DEF Model!Cardinality, Cardinality
    <2> QED BY <1>1, <2>1, <2>2, <2>3 DEF Model!CacheIsBounded
  <1>5. Model!NoHitIsLost
    <2> SUFFICES ASSUME ~cleared, NEW c \in was_hit, model_pc[c] = "tracking"
                 PROVE  lru_info.hits > before[c]
      BY DEF Model!NoHitIsLost, Model!HitSeen
    <2>1. c \in Calls /\ before[c] \in Nat /\ lru_info.hits \in Nat
      BY DEF ModelInv
    <2>2. before[c] < lru_info.hits
      BY <2>1 DEF ModelInv, SeenInOrder
    <2> QED BY <2>1, <2>2
  <1> QED BY <1>3, <1>4, <1>5 DEF ModelInv, Model!ModelIsSound

-----------------------------------------------------------------------------
(*****************************************************************************)
(* The model factory.  While the module of a backend keeps no instance,      *)
(* each that was built since the last reset is in the hands of a thread      *)
(* that has not kept it yet; once it keeps one, only the threads that had    *)
(* looked before build another.                                              *)
(*****************************************************************************)
InstancesNumbered == \E n \in 0 .. MaxInstances : DOMAIN built = 1 .. n

\* What a thread at work was asked for, and when it has an instance.
ThreadsAtWork ==
  \A c \in Calls :
    /\ factory_pc[c] \notin {"idle", "refused"} => asked[c] \in Names /\ Factory!Backend(c) # None
    /\ factory_pc[c] \notin {"storing", "reading", "returning"} => holds[c] = None
    /\ factory_pc[c] = "storing" => holds[c] # None

\* Whatever is kept or held has been built.
KeptWasBuilt ==
  /\ \A c \in Calls : holds[c] # None => holds[c] \in DOMAIN built
  /\ \A n \in Names : model_cache[n] # None => model_cache[n] \in DOMAIN built
  /\ \A b \in Factory!KnownBackends : singleton[b] # None => singleton[b] \in DOMAIN built

BuiltOf(b) == {i \in DOMAIN built : built[i] = b}
ThreadsAt(place, b) == {c \in Calls : factory_pc[c] = place /\ Factory!Backend(c) = b}

BuildersAreFew ==
  \A b \in Factory!KnownBackends :
    /\ singleton[b] = None =>
         Cardinality(BuiltOf(b)) <= Cardinality(Calls) * resets + Cardinality(ThreadsAt("storing", b))
    /\ singleton[b] # None =>
         Cardinality(BuiltOf(b)) + Cardinality(ThreadsAt("building", b))
           <= Cardinality(Calls) * (resets + 1)

FactoryInv ==
  /\ Factory!TypeOK /\ InstancesNumbered /\ ThreadsAtWork /\ KeptWasBuilt
  /\ Factory!RightBackend /\ BuildersAreFew

LEMMA FactoryFacts ==
  /\ MaxInstances \in Nat /\ Resets \in Nat /\ IsFiniteSet(Calls) /\ None \notin Nat
  /\ \A S : Factory!Cardinality(S) = Cardinality(S)
  <1>1. \A S : Factory!Cardinality(S) = Cardinality(S)
    BY DEF Factory!Cardinality, Cardinality
  <1>2. \A S : Factory!IsFiniteSet(S) <=> IsFiniteSet(S)
    BY DEF Factory!IsFiniteSet, IsFiniteSet
  <1> QED BY <1>1, <1>2, Assumptions DEF Factory!FactoryAssumption

LEMMA InstancesAreFinite ==
  ASSUME InstancesNumbered, NEW b
  PROVE  /\ IsFiniteSet(BuiltOf(b)) /\ Cardinality(BuiltOf(b)) \in Nat
         /\ IsFiniteSet(DOMAIN built) /\ Cardinality(DOMAIN built) \in 0 .. MaxInstances
         /\ DOMAIN built = 1 .. Cardinality(DOMAIN built)
  <1>1. PICK n \in 0 .. MaxInstances : DOMAIN built = 1 .. n
    BY DEF InstancesNumbered
  <1>2. n \in Nat /\ MaxInstances \in Nat
    BY FactoryFacts
  <1>3. IsFiniteSet(1 .. n) /\ Cardinality(1 .. n) = n
    BY <1>2, FS_Interval
  <1>4. BuiltOf(b) \in SUBSET (DOMAIN built)
    BY DEF BuiltOf
  <1>5. IsFiniteSet(BuiltOf(b))
    BY <1>1, <1>3, <1>4, FS_Subset
  <1> QED BY <1>1, <1>3, <1>5, FS_CardinalityType

LEMMA ThreadsAreFinite ==
  ASSUME NEW place, NEW b
  PROVE  /\ IsFiniteSet(ThreadsAt(place, b)) /\ Cardinality(ThreadsAt(place, b)) \in Nat
         /\ Cardinality(Calls) \in Nat
         /\ Cardinality(ThreadsAt(place, b)) <= Cardinality(Calls)
  <1>1. ThreadsAt(place, b) \in SUBSET Calls /\ IsFiniteSet(Calls)
    BY FactoryFacts DEF ThreadsAt
  <1> QED BY <1>1, FS_Subset, FS_CardinalityType

\* A thread is in one place.
LEMMA TwoPlaces ==
  ASSUME NEW b
  PROVE  Cardinality(ThreadsAt("storing", b)) + Cardinality(ThreadsAt("building", b)) <= Cardinality(Calls)
  <1> DEFINE S == ThreadsAt("storing", b)
             B == ThreadsAt("building", b)
  <1>1. IsFiniteSet(S) /\ IsFiniteSet(B) /\ Cardinality(S) \in Nat /\ Cardinality(B) \in Nat
    BY ThreadsAreFinite
  <1>2. S \intersect B = {} /\ S \union B \in SUBSET Calls
    BY DEF ThreadsAt
  <1> HIDE DEF S, B
  <1>3. IsFiniteSet(Calls) /\ Cardinality(Calls) \in Nat
    BY FS_CardinalityType, FactoryFacts
  <1>4. Cardinality(S \intersect B) = 0
    BY <1>2, FS_EmptySet
  <1>5. Cardinality(S \union B) = Cardinality(S) + Cardinality(B) - Cardinality(S \intersect B)
    BY <1>1, FS_Union
  <1>6. Cardinality(S \union B) <= Cardinality(Calls)
    BY <1>2, <1>3, FS_Subset
  <1>7. Cardinality(S) + Cardinality(B) <= Cardinality(Calls)
    BY <1>1, <1>3, <1>4, <1>5, <1>6
  <1> QED BY <1>7 DEF S, B

\* A thread that moves on leaves its place for the next.
LEMMA OtherThreadsStay ==
  ASSUME Factory!TypeOK, NEW c \in Calls, NEW x, factory_pc' = [factory_pc EXCEPT ![c] = x], asked' = asked
  PROVE  /\ factory_pc'[c] = x /\ \A d \in Calls : d # c => factory_pc'[d] = factory_pc[d]
         /\ \A d \in Calls : Factory!Backend(d)' = Factory!Backend(d)
  BY DEF Factory!TypeOK, Factory!Backend

LEMMA ThreadEnters ==
  ASSUME Factory!TypeOK, NEW c \in Calls, NEW place,
         factory_pc' = [factory_pc EXCEPT ![c] = place], factory_pc[c] # place, asked' = asked, NEW b
  PROVE  Cardinality(ThreadsAt(place, b)') =
           Cardinality(ThreadsAt(place, b)) + (IF Factory!Backend(c) = b THEN 1 ELSE 0)
  <1>1. IsFiniteSet(ThreadsAt(place, b)) /\ Cardinality(ThreadsAt(place, b)) \in Nat
    BY ThreadsAreFinite
  <1>2. CASE Factory!Backend(c) = b
    <2>1. ThreadsAt(place, b)' = ThreadsAt(place, b) \union {c} /\ c \notin ThreadsAt(place, b)
      BY <1>2, OtherThreadsStay DEF ThreadsAt
    <2> QED BY <1>1, <1>2, <2>1, FS_AddElement
  <1>3. CASE Factory!Backend(c) # b
    <2>1. ThreadsAt(place, b)' = ThreadsAt(place, b)
      BY <1>3, OtherThreadsStay DEF ThreadsAt
    <2> QED BY <1>1, <1>3, <2>1
  <1> QED BY <1>2, <1>3

LEMMA ThreadLeaves ==
  ASSUME Factory!TypeOK, NEW c \in Calls, NEW x, NEW place,
         factory_pc' = [factory_pc EXCEPT ![c] = x], factory_pc[c] = place, x # place, asked' = asked, NEW b
  PROVE  Cardinality(ThreadsAt(place, b)') =
           Cardinality(ThreadsAt(place, b)) - (IF Factory!Backend(c) = b THEN 1 ELSE 0)
  <1>1. IsFiniteSet(ThreadsAt(place, b)) /\ Cardinality(ThreadsAt(place, b)) \in Nat
    BY ThreadsAreFinite
  <1>2. CASE Factory!Backend(c) = b
    <2>1. /\ factory_pc'[c] = x /\ \A d \in Calls : d # c => factory_pc'[d] = factory_pc[d]
          /\ \A d \in Calls : Factory!Backend(d)' = Factory!Backend(d)
      BY OtherThreadsStay
    <2>2. ThreadsAt(place, b)' = ThreadsAt(place, b) \ {c} /\ c \in ThreadsAt(place, b)
      BY <1>2, <2>1 DEF ThreadsAt
    <2> QED BY <1>1, <1>2, <2>2, FS_RemoveElement
  <1>3. CASE Factory!Backend(c) # b
    <2>1. ThreadsAt(place, b)' = ThreadsAt(place, b)
      BY <1>3, OtherThreadsStay DEF ThreadsAt
    <2> QED BY <1>1, <1>3, <2>1
  <1> QED BY <1>2, <1>3

\* One more reset, or one more kept instance, pays for a thread each.
LEMMA OneMoreReset ==
  ASSUME NEW k \in Nat, NEW r \in Nat
  PROVE  k * (r + 1) = k * r + k /\ k * r \in Nat
  OBVIOUS

LEMMA FactoryInit == Factory!Init => FactoryInv
  <1> SUFFICES ASSUME Factory!Init PROVE FactoryInv
    OBVIOUS
  <1>1. DOMAIN built = {} /\ built = <<>>
    BY DEF Factory!Init
  <1>2. InstancesNumbered
    <2>1. 1 .. 0 = {} /\ 0 \in 0 .. MaxInstances
      BY FactoryFacts
    <2> QED BY <1>1, <2>1 DEF InstancesNumbered
  <1>3. Factory!TypeOK
    BY <1>1, FactoryFacts DEF Factory!Init, Factory!TypeOK
  <1>4. ThreadsAtWork /\ KeptWasBuilt /\ Factory!RightBackend
    BY DEF Factory!Init, ThreadsAtWork, KeptWasBuilt, Factory!RightBackend
  <1>5. BuildersAreFew
    <2> SUFFICES ASSUME NEW b \in Factory!KnownBackends
                 PROVE  Cardinality(BuiltOf(b)) <=
                          Cardinality(Calls) * resets + Cardinality(ThreadsAt("storing", b))
      BY DEF Factory!Init, BuildersAreFew
    <2>1. BuiltOf(b) = {} /\ resets = 0
      BY <1>1 DEF BuiltOf, Factory!Init
    <2>2. Cardinality(BuiltOf(b)) = 0
      BY <2>1, FS_EmptySet
    <2>3. Cardinality(Calls) \in Nat /\ Cardinality(ThreadsAt("storing", b)) \in Nat
      BY ThreadsAreFinite
    <2>4. Cardinality(Calls) * 0 = 0
      BY <2>3
    <2> QED BY <2>1, <2>2, <2>3, <2>4
  <1> QED BY <1>2, <1>3, <1>4, <1>5 DEF FactoryInv

\* Nobody has an instance while it is asked for another.
LEMMA CreateKeeps ==
  ASSUME FactoryInv, NEW c \in Calls, NEW n \in Names, Factory!Create(c, n)
  PROVE  FactoryInv'
  <1>1. /\ Factory!TypeOK /\ InstancesNumbered /\ ThreadsAtWork /\ KeptWasBuilt
        /\ Factory!RightBackend /\ BuildersAreFew
    BY DEF FactoryInv
  <1>2. /\ factory_pc[c] \in {"idle", "refused"} /\ asked' = [asked EXCEPT ![c] = n]
        /\ UNCHANGED <<model_cache, singleton, built, holds, resets>>
    BY DEF Factory!Create
  <1>3. \/ /\ model_cache[n] # None /\ UNCHANGED factory_pc
           /\ created' = [created EXCEPT ![c] = model_cache[n]]
        \/ /\ UNCHANGED created
           /\ \/ BackendOf[n] = None /\ factory_pc' = [factory_pc EXCEPT ![c] = "refused"]
              \/ BackendOf[n] # None /\ factory_pc' = [factory_pc EXCEPT ![c] = "looking"]
    BY DEF Factory!Create
  <1>4. /\ asked'[c] = n /\ \A d \in Calls : d # c => asked'[d] = asked[d] /\ factory_pc'[d] = factory_pc[d]
        /\ \/ factory_pc'[c] \in {"idle", "refused"}
           \/ factory_pc'[c] = "looking" /\ BackendOf[n] # None
    BY <1>1, <1>2, <1>3 DEF Factory!TypeOK
  <1>5. holds[c] = None
    BY <1>1, <1>2 DEF ThreadsAtWork
  <1>6. Factory!TypeOK'
    BY <1>1, <1>2, <1>3 DEF Factory!TypeOK
  <1>7. InstancesNumbered' /\ KeptWasBuilt'
    BY <1>1, <1>2 DEF InstancesNumbered, KeptWasBuilt
  <1>8. ThreadsAtWork'
    <2> SUFFICES ASSUME NEW d \in Calls
                 PROVE  /\ factory_pc'[d] \notin {"idle", "refused"} =>
                             asked'[d] \in Names /\ BackendOf[asked'[d]] # None
                        /\ factory_pc'[d] \notin {"storing", "reading", "returning"} => holds'[d] = None
                        /\ factory_pc'[d] = "storing" => holds'[d] # None
      BY DEF ThreadsAtWork, Factory!Backend
    <2>1. CASE d = c
      BY <1>2, <1>4, <1>5, <2>1
    <2>2. CASE d # c
      BY <1>1, <1>2, <1>4, <2>2 DEF ThreadsAtWork, Factory!Backend
    <2> QED BY <2>1, <2>2
  <1>9. Factory!RightBackend'
    BY <1>1, <1>2, <1>4, <1>5 DEF Factory!RightBackend, Factory!Backend
  <1>10. BuildersAreFew'
    <2>1. ASSUME NEW place \in {"storing", "building"}, NEW b
          PROVE  ThreadsAt(place, b)' = ThreadsAt(place, b)
      BY <1>2, <1>4 DEF ThreadsAt, Factory!Backend
    <2>2. \A b \in Factory!KnownBackends : /\ ThreadsAt("storing", b)' = ThreadsAt("storing", b)
                                           /\ ThreadsAt("building", b)' = ThreadsAt("building", b)
                                           /\ BuiltOf(b)' = BuiltOf(b)
      BY <1>2, <2>1 DEF BuiltOf
    <2> QED BY <1>1, <1>2, <2>2 DEF BuildersAreFew
  <1> QED BY <1>6, <1>7, <1>8, <1>9, <1>10 DEF FactoryInv

\* The backend a thread at work was asked for.
LEMMA BackendsAtWork ==
  ASSUME ThreadsAtWork, NEW c \in Calls, factory_pc[c] \notin {"idle", "refused"}
  PROVE  Factory!Backend(c) \in Factory!KnownBackends
  BY DEF ThreadsAtWork, Factory!Backend, Factory!KnownBackends

LEMMA LookForKeeps ==
  ASSUME FactoryInv, NEW c \in Calls, Factory!LookForSingleton(c)
  PROVE  FactoryInv'
  <1>1. /\ Factory!TypeOK /\ InstancesNumbered /\ ThreadsAtWork /\ KeptWasBuilt
        /\ Factory!RightBackend /\ BuildersAreFew
    BY DEF FactoryInv
  <1>2. /\ factory_pc[c] = "looking"
        /\ UNCHANGED <<model_cache, singleton, built, asked, holds, resets, created>>
    BY DEF Factory!LookForSingleton
  <1>3. PICK x \in {"reading", "building"} :
          /\ factory_pc' = [factory_pc EXCEPT ![c] = x]
          /\ x = "building" => singleton[Factory!Backend(c)] = None
    BY DEF Factory!LookForSingleton
  <1>4. /\ factory_pc'[c] = x /\ \A d \in Calls : d # c => factory_pc'[d] = factory_pc[d]
        /\ \A d \in Calls : Factory!Backend(d)' = Factory!Backend(d)
    BY <1>1, <1>2, <1>3, OtherThreadsStay
  <1>5. Factory!TypeOK'
    BY <1>1, <1>2, <1>3 DEF Factory!TypeOK
  <1>6. InstancesNumbered' /\ KeptWasBuilt' /\ Factory!RightBackend'
    BY <1>1, <1>2, <1>4 DEF InstancesNumbered, KeptWasBuilt, Factory!RightBackend
  <1>7. ThreadsAtWork'
    BY <1>1, <1>2, <1>4 DEF ThreadsAtWork
  <1>8. BuildersAreFew'
    <2>1. ASSUME NEW b \in Factory!KnownBackends
          PROVE  /\ ThreadsAt("storing", b)' = ThreadsAt("storing", b)
                 /\ BuiltOf(b)' = BuiltOf(b)
                 /\ singleton[b] # None => ThreadsAt("building", b)' = ThreadsAt("building", b)
      <3>1. ThreadsAt("storing", b)' = ThreadsAt("storing", b)
        BY <1>2, <1>4 DEF ThreadsAt
      <3>2. BuiltOf(b)' = BuiltOf(b)
        BY <1>2 DEF BuiltOf
      <3>3. singleton[b] # None => ThreadsAt("building", b)' = ThreadsAt("building", b)
        BY <1>2, <1>3, <1>4 DEF ThreadsAt
      <3> QED BY <3>1, <3>2, <3>3
    <2> QED BY <1>1, <1>2, <2>1 DEF BuildersAreFew
  <1> QED BY <1>5, <1>6, <1>7, <1>8 DEF FactoryInv

\* A thread that builds one more had looked, or will be the first to keep one.
LEMMA BuildKeeps ==
  ASSUME FactoryInv, NEW c \in Calls, Factory!Build(c)
  PROVE  FactoryInv'
  <1>1. /\ Factory!TypeOK /\ InstancesNumbered /\ ThreadsAtWork /\ KeptWasBuilt
        /\ Factory!RightBackend /\ BuildersAreFew
    BY DEF FactoryInv
  <1>2. /\ factory_pc[c] = "building" /\ UNCHANGED <<model_cache, singleton, asked, resets, created>>
    BY DEF Factory!Build
  <1>3. holds[c] = None /\ Factory!Backend(c) \in Factory!KnownBackends
    BY <1>1, <1>2, BackendsAtWork DEF ThreadsAtWork
  <1>4. CASE Factory!Backend(c) \notin Loadable
    <2>1. factory_pc' = [factory_pc EXCEPT ![c] = "refused"] /\ UNCHANGED <<built, holds>>
      BY <1>4 DEF Factory!Build
    <2>2. /\ factory_pc'[c] = "refused" /\ \A d \in Calls : d # c => factory_pc'[d] = factory_pc[d]
          /\ \A d \in Calls : Factory!Backend(d)' = Factory!Backend(d)
      BY <1>1, <1>2, <2>1, OtherThreadsStay
    <2>3. Factory!TypeOK'
      BY <1>1, <1>2, <2>1 DEF Factory!TypeOK
    <2>4. InstancesNumbered' /\ KeptWasBuilt' /\ Factory!RightBackend'
      BY <1>1, <1>2, <2>1, <2>2 DEF InstancesNumbered, KeptWasBuilt, Factory!RightBackend
    <2>5. ThreadsAtWork'
      BY <1>1, <1>2, <1>3, <2>1, <2>2 DEF ThreadsAtWork
    <2>6. BuildersAreFew'
      <3> SUFFICES ASSUME NEW b \in Factory!KnownBackends
                   PROVE  /\ ThreadsAt("storing", b)' = ThreadsAt("storing", b)
                          /\ BuiltOf(b)' = BuiltOf(b)
                          /\ Cardinality(ThreadsAt("building", b)') \in Nat
                          /\ Cardinality(ThreadsAt("building", b)') <= Cardinality(ThreadsAt("building", b))
        <4>1. \A b \in Factory!KnownBackends : /\ Cardinality(BuiltOf(b)) \in Nat
                                               /\ Cardinality(ThreadsAt("building", b)) \in Nat
                                               /\ Cardinality(Calls) \in Nat /\ resets \in Nat
                                               /\ Cardinality(Calls) * (resets + 1) \in Nat
          <5>1. \A b \in Factory!KnownBackends : /\ Cardinality(BuiltOf(b)) \in Nat
                                                 /\ Cardinality(ThreadsAt("building", b)) \in Nat
                                                 /\ Cardinality(Calls) \in Nat
            BY <1>1, InstancesAreFinite, ThreadsAreFinite
          <5>2. resets \in Nat
            BY <1>1, FactoryFacts DEF Factory!TypeOK
          <5> QED BY <5>1, <5>2, OneMoreReset
        <4> QED BY <1>1, <1>2, <4>1 DEF BuildersAreFew
      <3>1. ThreadsAt("storing", b)' = ThreadsAt("storing", b)
        BY <1>2, <2>2 DEF ThreadsAt
      <3>2. BuiltOf(b)' = BuiltOf(b)
        BY <2>1 DEF BuiltOf
      <3>3. Cardinality(ThreadsAt("building", b)') = Cardinality(ThreadsAt("building", b))
                                                - (IF Factory!Backend(c) = b THEN 1 ELSE 0)
        BY <1>1, <1>2, <2>1, ThreadLeaves
      <3>4. ThreadsAt("building", b)' \in SUBSET ThreadsAt("building", b)
        BY <1>2, <2>2 DEF ThreadsAt
      <3>5. IsFiniteSet(ThreadsAt("building", b)) /\ Cardinality(ThreadsAt("building", b)) \in Nat
        BY ThreadsAreFinite
      <3>6. Cardinality(ThreadsAt("building", b)') \in Nat
        BY <3>4, <3>5, FS_Subset, FS_CardinalityType
      <3> QED BY <3>1, <3>2, <3>3, <3>5, <3>6
    <2> QED BY <2>3, <2>4, <2>5, <2>6 DEF FactoryInv
  <1>5. CASE Factory!Backend(c) \in Loadable
    <2> DEFINE m == Cardinality(DOMAIN built) + 1
    <2>1. /\ Cardinality(DOMAIN built) < MaxInstances
          /\ built' = [i \in DOMAIN built \union {m} |->
                         IF i \in DOMAIN built THEN built[i] ELSE Factory!Backend(c)]
          /\ holds' = [holds EXCEPT ![c] = m]
          /\ factory_pc' = [factory_pc EXCEPT ![c] = "storing"]
      <3>1. Factory!Cardinality(DOMAIN built) = Cardinality(DOMAIN built)
        BY FactoryFacts
      <3> QED BY <1>5, <3>1 DEF Factory!Build
    <2>2. /\ m \in Nat /\ m \in Factory!Instances /\ m \notin DOMAIN built /\ m # None
          /\ DOMAIN built \union {m} = 1 .. m /\ m \in 0 .. MaxInstances
      <3>1. /\ Cardinality(DOMAIN built) \in 0 .. MaxInstances
            /\ DOMAIN built = 1 .. Cardinality(DOMAIN built)
            /\ MaxInstances \in Nat /\ None \notin Nat
        BY <1>1, InstancesAreFinite, FactoryFacts
      <3> QED BY <2>1, <3>1 DEF Factory!Instances
    <2> HIDE DEF m
    <2>3. /\ DOMAIN built' = DOMAIN built \union {m} /\ built'[m] = Factory!Backend(c)
          /\ \A i \in DOMAIN built : built'[i] = built[i]
      BY <2>1, <2>2
    <2>4. /\ factory_pc'[c] = "storing" /\ \A d \in Calls : d # c => factory_pc'[d] = factory_pc[d]
          /\ \A d \in Calls : Factory!Backend(d)' = Factory!Backend(d)
          /\ holds'[c] = m /\ \A d \in Calls : d # c => holds'[d] = holds[d]
      <3>1. holds'[c] = m /\ \A d \in Calls : d # c => holds'[d] = holds[d]
        BY <1>1, <2>1 DEF Factory!TypeOK
      <3> QED BY <1>1, <1>2, <2>1, <3>1, OtherThreadsStay
    <2>5. Factory!TypeOK'
      BY <1>1, <1>2, <2>1, <2>2, <2>3 DEF Factory!TypeOK
    <2>6. InstancesNumbered'
      BY <2>2, <2>3 DEF InstancesNumbered
    <2>7. KeptWasBuilt'
      BY <1>1, <1>2, <2>3, <2>4 DEF KeptWasBuilt
    <2>8. Factory!RightBackend'
      BY <1>1, <1>2, <2>3, <2>4 DEF Factory!RightBackend, KeptWasBuilt
    <2>9. ThreadsAtWork'
      BY <1>1, <1>2, <2>2, <2>4 DEF ThreadsAtWork
    <2>10. BuildersAreFew'
      <3> SUFFICES ASSUME NEW b \in Factory!KnownBackends
                   PROVE  /\ singleton[b] = None =>
                               Cardinality(BuiltOf(b)') <= Cardinality(Calls) * resets
                                                        + Cardinality(ThreadsAt("storing", b)')
                          /\ singleton[b] # None =>
                               Cardinality(BuiltOf(b)') + Cardinality(ThreadsAt("building", b)')
                                 <= Cardinality(Calls) * (resets + 1)
        BY <1>2 DEF BuildersAreFew
      <3>1. /\ Cardinality(ThreadsAt("storing", b)') = Cardinality(ThreadsAt("storing", b))
                                                  + (IF Factory!Backend(c) = b THEN 1 ELSE 0)
            /\ Cardinality(ThreadsAt("building", b)') = Cardinality(ThreadsAt("building", b))
                                                  - (IF Factory!Backend(c) = b THEN 1 ELSE 0)
        <4>1. factory_pc[c] = "building" /\ asked' = asked /\ factory_pc' = [factory_pc EXCEPT ![c] = "storing"]
          BY <1>2, <2>1
        <4>2. Cardinality(ThreadsAt("storing", b)') = Cardinality(ThreadsAt("storing", b))
                                                 + (IF Factory!Backend(c) = b THEN 1 ELSE 0)
          BY <1>1, <4>1, ThreadEnters
        <4>3. Cardinality(ThreadsAt("building", b)') = Cardinality(ThreadsAt("building", b))
                                                 - (IF Factory!Backend(c) = b THEN 1 ELSE 0)
          BY <1>1, <4>1, ThreadLeaves
        <4> QED BY <4>2, <4>3
      <3>2. Cardinality(BuiltOf(b)') = Cardinality(BuiltOf(b)) + (IF Factory!Backend(c) = b THEN 1 ELSE 0)
        <4>1. IsFiniteSet(BuiltOf(b)) /\ Cardinality(BuiltOf(b)) \in Nat
          BY <1>1, InstancesAreFinite
        <4>2. BuiltOf(b)' = IF Factory!Backend(c) = b THEN BuiltOf(b) \union {m} ELSE BuiltOf(b)
          BY <2>2, <2>3 DEF BuiltOf
        <4>3. m \notin BuiltOf(b)
          BY <2>2 DEF BuiltOf
        <4>4. Cardinality(BuiltOf(b) \union {m}) = Cardinality(BuiltOf(b)) + 1
          BY <4>1, <4>3, FS_AddElement
        <4> QED BY <4>1, <4>2, <4>4
      <3>3. /\ Cardinality(BuiltOf(b)) \in Nat
            /\ Cardinality(ThreadsAt("building", b)) \in Nat /\ Cardinality(ThreadsAt("storing", b)) \in Nat
            /\ Cardinality(Calls) * resets \in Nat /\ Cardinality(Calls) * (resets + 1) \in Nat
        <4>1. resets \in Nat /\ Cardinality(Calls) \in Nat
          BY <1>1, ThreadsAreFinite, FactoryFacts DEF Factory!TypeOK
        <4>2. Cardinality(BuiltOf(b)) \in Nat
          BY <1>1, InstancesAreFinite
        <4>3. Cardinality(ThreadsAt("building", b)) \in Nat /\ Cardinality(ThreadsAt("storing", b)) \in Nat
          BY ThreadsAreFinite
        <4> QED BY <4>1, <4>2, <4>3, OneMoreReset
      <3>4. CASE singleton[b] = None
        <4>1. Cardinality(BuiltOf(b)) <= Cardinality(Calls) * resets + Cardinality(ThreadsAt("storing", b))
          BY <1>1, <3>4 DEF BuildersAreFew
        <4> QED BY <3>1, <3>2, <3>3, <3>4, <4>1
      <3>5. CASE singleton[b] # None
        <4>1. Cardinality(BuiltOf(b)) + Cardinality(ThreadsAt("building", b))
                <= Cardinality(Calls) * (resets + 1)
          BY <1>1, <3>5 DEF BuildersAreFew
        <4> QED BY <3>1, <3>2, <3>3, <3>5, <4>1
      <3> QED BY <3>4, <3>5
    <2> QED BY <2>5, <2>6, <2>7, <2>8, <2>9, <2>10 DEF FactoryInv
  <1> QED BY <1>4, <1>5

\* The first instance that is kept leaves to the others at most one each.
LEMMA KeepKeeps ==
  ASSUME FactoryInv, NEW c \in Calls, Factory!KeepSingleton(c)
  PROVE  FactoryInv'
  <1>1. /\ Factory!TypeOK /\ InstancesNumbered /\ ThreadsAtWork /\ KeptWasBuilt
        /\ Factory!RightBackend /\ BuildersAreFew
    BY DEF FactoryInv
  <1>2. /\ factory_pc[c] = "storing" /\ singleton' = [singleton EXCEPT ![Factory!Backend(c)] = holds[c]]
        /\ factory_pc' = [factory_pc EXCEPT ![c] = "reading"]
        /\ UNCHANGED <<model_cache, built, asked, holds, resets, created>>
    BY DEF Factory!KeepSingleton
  <1>3. holds[c] # None /\ Factory!Backend(c) \in Factory!KnownBackends
    BY <1>1, <1>2, BackendsAtWork DEF ThreadsAtWork
  <1>4. /\ factory_pc'[c] = "reading" /\ \A d \in Calls : d # c => factory_pc'[d] = factory_pc[d]
        /\ \A d \in Calls : Factory!Backend(d)' = Factory!Backend(d)
    BY <1>1, <1>2, OtherThreadsStay
  <1>5. /\ singleton'[Factory!Backend(c)] = holds[c]
        /\ \A b \in Factory!KnownBackends : b # Factory!Backend(c) => singleton'[b] = singleton[b]
    BY <1>1, <1>2, <1>3 DEF Factory!TypeOK
  <1>6. Factory!TypeOK'
    BY <1>1, <1>2, <1>3 DEF Factory!TypeOK
  <1>7. InstancesNumbered' /\ KeptWasBuilt'
    BY <1>1, <1>2, <1>3, <1>5 DEF InstancesNumbered, KeptWasBuilt
  <1>8. Factory!RightBackend'
    BY <1>1, <1>2, <1>3, <1>4, <1>5 DEF Factory!RightBackend
  <1>9. ThreadsAtWork'
    BY <1>1, <1>2, <1>4 DEF ThreadsAtWork
  <1>10. BuildersAreFew'
    <2> SUFFICES ASSUME NEW b \in Factory!KnownBackends
                 PROVE  /\ singleton'[b] = None =>
                             Cardinality(BuiltOf(b)') <= Cardinality(Calls) * resets
                                                      + Cardinality(ThreadsAt("storing", b)')
                        /\ singleton'[b] # None =>
                             Cardinality(BuiltOf(b)') + Cardinality(ThreadsAt("building", b)')
                               <= Cardinality(Calls) * (resets + 1)
      BY <1>2 DEF BuildersAreFew
    <2>1. ThreadsAt("building", b)' = ThreadsAt("building", b) /\ BuiltOf(b)' = BuiltOf(b)
      <3>1. ThreadsAt("building", b)' = ThreadsAt("building", b)
        BY <1>2, <1>4 DEF ThreadsAt
      <3> QED BY <1>2, <3>1 DEF BuiltOf
    <2>2. CASE b = Factory!Backend(c)
      <3>1. /\ Cardinality(BuiltOf(b)) \in Nat /\ Cardinality(Calls) \in Nat /\ resets \in Nat
            /\ Cardinality(ThreadsAt("building", b)) \in Nat /\ Cardinality(ThreadsAt("storing", b)) \in Nat
        <4>1. resets \in Nat
          BY <1>1, FactoryFacts DEF Factory!TypeOK
        <4> QED BY <1>1, <4>1, InstancesAreFinite, ThreadsAreFinite
      <3>2. CASE singleton[b] = None
        <4>1. Cardinality(BuiltOf(b)) <= Cardinality(Calls) * resets + Cardinality(ThreadsAt("storing", b))
          BY <1>1, <3>2 DEF BuildersAreFew
        <4>2. Cardinality(ThreadsAt("storing", b)) + Cardinality(ThreadsAt("building", b)) <= Cardinality(Calls)
          BY TwoPlaces
        <4>3. /\ Cardinality(Calls) * (resets + 1) = Cardinality(Calls) * resets + Cardinality(Calls)
              /\ Cardinality(Calls) * resets \in Nat
          BY <3>1, OneMoreReset
        <4>4. Cardinality(BuiltOf(b)) + Cardinality(ThreadsAt("building", b))
                <= Cardinality(Calls) * (resets + 1)
          BY <3>1, <4>1, <4>2, <4>3
        <4> QED BY <1>3, <1>5, <2>1, <2>2, <4>4
      <3>3. CASE singleton[b] # None
        <4>1. Cardinality(BuiltOf(b)) + Cardinality(ThreadsAt("building", b))
                <= Cardinality(Calls) * (resets + 1)
          BY <1>1, <3>3 DEF BuildersAreFew
        <4> QED BY <1>3, <1>5, <2>1, <2>2, <4>1
      <3> QED BY <3>2, <3>3
    <2>3. CASE b # Factory!Backend(c)
      <3>1. ThreadsAt("storing", b)' = ThreadsAt("storing", b)
        BY <1>2, <1>4, <2>3 DEF ThreadsAt
      <3> QED BY <1>1, <1>5, <2>1, <2>3, <3>1 DEF BuildersAreFew
    <2> QED BY <2>2, <2>3
  <1> QED BY <1>6, <1>7, <1>8, <1>9, <1>10 DEF FactoryInv

\* A step in which nobody begins or ends to build counts nothing.
LEMMA CountsStay ==
  ASSUME BuildersAreFew, UNCHANGED <<singleton, built, resets>>,
         \A b \in Factory!KnownBackends : /\ ThreadsAt("storing", b)' = ThreadsAt("storing", b)
                                          /\ ThreadsAt("building", b)' = ThreadsAt("building", b)
  PROVE  BuildersAreFew'
  <1>1. \A b \in Factory!KnownBackends : BuiltOf(b)' = BuiltOf(b)
    BY DEF BuiltOf
  <1> QED BY <1>1 DEF BuildersAreFew

LEMMA ReadKeeps ==
  ASSUME FactoryInv, NEW c \in Calls, Factory!ReadSingleton(c)
  PROVE  FactoryInv'
  <1>1. /\ Factory!TypeOK /\ InstancesNumbered /\ ThreadsAtWork /\ KeptWasBuilt
        /\ Factory!RightBackend /\ BuildersAreFew
    BY DEF FactoryInv
  <1>2. /\ factory_pc[c] = "reading" /\ holds' = [holds EXCEPT ![c] = singleton[Factory!Backend(c)]]
        /\ factory_pc' = [factory_pc EXCEPT ![c] = "returning"]
        /\ UNCHANGED <<model_cache, singleton, built, asked, resets, created>>
    BY DEF Factory!ReadSingleton
  <1>3. Factory!Backend(c) \in Factory!KnownBackends
    BY <1>1, <1>2, BackendsAtWork
  <1>4. /\ factory_pc'[c] = "returning" /\ \A d \in Calls : d # c => factory_pc'[d] = factory_pc[d]
        /\ \A d \in Calls : Factory!Backend(d)' = Factory!Backend(d)
    BY <1>1, <1>2, OtherThreadsStay
  <1>5. holds'[c] = singleton[Factory!Backend(c)] /\ \A d \in Calls : d # c => holds'[d] = holds[d]
    BY <1>1, <1>2 DEF Factory!TypeOK
  <1>6. Factory!TypeOK'
    BY <1>1, <1>2, <1>3 DEF Factory!TypeOK
  <1>7. InstancesNumbered' /\ KeptWasBuilt'
    BY <1>1, <1>2, <1>3, <1>5 DEF InstancesNumbered, KeptWasBuilt
  <1>8. Factory!RightBackend'
    BY <1>1, <1>2, <1>3, <1>4, <1>5 DEF Factory!RightBackend
  <1>9. ThreadsAtWork'
    BY <1>1, <1>2, <1>4, <1>5 DEF ThreadsAtWork
  <1>10. \A b \in Factory!KnownBackends : /\ ThreadsAt("storing", b)' = ThreadsAt("storing", b)
                                          /\ ThreadsAt("building", b)' = ThreadsAt("building", b)
    BY <1>2, <1>4 DEF ThreadsAt
  <1>11. BuildersAreFew'
    BY <1>1, <1>2, <1>10, CountsStay
  <1> QED BY <1>6, <1>7, <1>8, <1>9, <1>11 DEF FactoryInv

LEMMA ReturnKeeps ==
  ASSUME FactoryInv, NEW c \in Calls, Factory!Return(c)
  PROVE  FactoryInv'
  <1>1. /\ Factory!TypeOK /\ InstancesNumbered /\ ThreadsAtWork /\ KeptWasBuilt
        /\ Factory!RightBackend /\ BuildersAreFew
    BY DEF FactoryInv
  <1>2. /\ factory_pc[c] = "returning" /\ model_cache' = [model_cache EXCEPT ![asked[c]] = holds[c]]
        /\ created' = [created EXCEPT ![c] = holds[c]]
        /\ holds' = [holds EXCEPT ![c] = None]
        /\ factory_pc' = [factory_pc EXCEPT ![c] = "idle"]
        /\ UNCHANGED <<singleton, built, asked, resets>>
    BY DEF Factory!Return, Factory!CacheKey
  <1>3. asked[c] \in Names
    BY <1>1, <1>2 DEF ThreadsAtWork
  <1>4. /\ factory_pc'[c] = "idle" /\ \A d \in Calls : d # c => factory_pc'[d] = factory_pc[d]
        /\ \A d \in Calls : Factory!Backend(d)' = Factory!Backend(d)
    BY <1>1, <1>2, OtherThreadsStay
  <1>5. holds'[c] = None /\ \A d \in Calls : d # c => holds'[d] = holds[d]
    BY <1>1, <1>2 DEF Factory!TypeOK
  <1>6. /\ model_cache'[asked[c]] = holds[c]
        /\ \A n \in Names : n # asked[c] => model_cache'[n] = model_cache[n]
    BY <1>1, <1>2, <1>3 DEF Factory!TypeOK
  <1>7. Factory!TypeOK'
    BY <1>1, <1>2, <1>3 DEF Factory!TypeOK
  <1>8. InstancesNumbered' /\ KeptWasBuilt'
    BY <1>1, <1>2, <1>5, <1>6 DEF InstancesNumbered, KeptWasBuilt
  <1>9. Factory!RightBackend'
    <2>1. holds[c] # None => built[holds[c]] = BackendOf[asked[c]]
      BY <1>1 DEF Factory!RightBackend, Factory!Backend
    <2> QED BY <1>1, <1>2, <1>4, <1>5, <1>6, <2>1 DEF Factory!RightBackend
  <1>10. ThreadsAtWork'
    BY <1>1, <1>2, <1>4, <1>5 DEF ThreadsAtWork
  <1>11. \A b \in Factory!KnownBackends : /\ ThreadsAt("storing", b)' = ThreadsAt("storing", b)
                                          /\ ThreadsAt("building", b)' = ThreadsAt("building", b)
    BY <1>2, <1>4 DEF ThreadsAt
  <1>12. BuildersAreFew'
    BY <1>1, <1>2, <1>11, CountsStay
  <1> QED BY <1>7, <1>8, <1>9, <1>10, <1>12 DEF FactoryInv

\* Nobody is at work when the dictionaries are emptied, and each thread may
\* build one more of every backend.
LEMMA ResetKeeps ==
  ASSUME FactoryInv, Factory!Reset
  PROVE  FactoryInv'
  <1>1. /\ Factory!TypeOK /\ InstancesNumbered /\ ThreadsAtWork /\ KeptWasBuilt
        /\ Factory!RightBackend /\ BuildersAreFew
    BY DEF FactoryInv
  <1>2. /\ \A c \in Calls : factory_pc[c] \in {"idle", "refused"}
        /\ resets < Resets /\ resets' = resets + 1
        /\ model_cache' = [n \in Names |-> None]
        /\ singleton' = [b \in Factory!KnownBackends |-> None]
        /\ UNCHANGED <<built, factory_pc, asked, holds, created>>
    BY DEF Factory!Reset
  <1>3. resets \in Nat /\ resets' \in 0 .. Resets
    BY <1>1, <1>2, FactoryFacts DEF Factory!TypeOK
  <1>4. Factory!TypeOK'
    BY <1>1, <1>2, <1>3 DEF Factory!TypeOK
  <1>5. InstancesNumbered' /\ KeptWasBuilt' /\ ThreadsAtWork'
    BY <1>1, <1>2 DEF InstancesNumbered, KeptWasBuilt, ThreadsAtWork, Factory!Backend
  <1>6. Factory!RightBackend'
    BY <1>1, <1>2 DEF Factory!RightBackend, Factory!Backend
  <1>7. BuildersAreFew'
    <2> SUFFICES ASSUME NEW b \in Factory!KnownBackends
                 PROVE  Cardinality(BuiltOf(b)') <= Cardinality(Calls) * resets'
                                                 + Cardinality(ThreadsAt("storing", b)')
      BY <1>2 DEF BuildersAreFew
    <2>1. /\ BuiltOf(b)' = BuiltOf(b)
          /\ \A place \in {"storing", "building"} : ThreadsAt(place, b)' = {} /\ ThreadsAt(place, b) = {}
      BY <1>2 DEF BuiltOf, ThreadsAt
    <2>2. Cardinality(ThreadsAt("storing", b)') = 0 /\ Cardinality(ThreadsAt("storing", b)) = 0
          /\ Cardinality(ThreadsAt("building", b)) = 0
      BY <2>1, FS_EmptySet
    <2>3. Cardinality(BuiltOf(b)) \in Nat /\ Cardinality(Calls) \in Nat
      BY <1>1, InstancesAreFinite, ThreadsAreFinite
    <2>4. /\ Cardinality(Calls) * (resets + 1) = Cardinality(Calls) * resets + Cardinality(Calls)
          /\ Cardinality(Calls) * resets \in Nat
      BY <1>3, <2>3, OneMoreReset
    <2>5. Cardinality(BuiltOf(b)) <= Cardinality(Calls) * (resets + 1)
      BY <1>1, <2>2, <2>3, <2>4 DEF BuildersAreFew
    <2>6. Cardinality(BuiltOf(b)') = Cardinality(BuiltOf(b))
      BY <2>1
    <2> QED BY <1>2, <2>2, <2>3, <2>4, <2>5, <2>6
  <1> QED BY <1>4, <1>5, <1>6, <1>7 DEF FactoryInv

LEMMA FactoryNext == FactoryInv /\ [Factory!Next]_factoryVars => FactoryInv'
  <1> SUFFICES ASSUME FactoryInv, [Factory!Next]_factoryVars PROVE FactoryInv'
    OBVIOUS
  <1>1. CASE UNCHANGED factoryVars
    <2>1. \A b \in Factory!KnownBackends : /\ ThreadsAt("storing", b)' = ThreadsAt("storing", b)
                                           /\ ThreadsAt("building", b)' = ThreadsAt("building", b)
      BY <1>1 DEF factoryVars, ThreadsAt, Factory!Backend
    <2>2. BuildersAreFew'
      BY <1>1, <2>1, CountsStay DEF factoryVars, FactoryInv
    <2> QED BY <1>1, <2>2 DEF factoryVars, FactoryInv, Factory!TypeOK, InstancesNumbered, ThreadsAtWork,
                              KeptWasBuilt, Factory!RightBackend,
                              Factory!Backend
  <1>2. CASE Factory!Next
    BY <1>2, CreateKeeps, LookForKeeps, BuildKeeps, KeepKeeps, ReadKeeps, ReturnKeeps,
       ResetKeeps DEF Factory!Next
  <1> QED BY <1>1, <1>2

LEMMA FactorySound == FactoryInv => Factory!ModelsAreShared
  <1> SUFFICES ASSUME FactoryInv, NEW b \in Factory!KnownBackends
               PROVE  Cardinality({i \in DOMAIN built : built[i] = b})
                        <= Cardinality(Calls) * (resets + 1)
    BY FactoryFacts DEF FactoryInv, Factory!ModelsAreShared, Factory!FewInstances
  <1>1. Factory!TypeOK /\ InstancesNumbered /\ BuildersAreFew
    BY DEF FactoryInv
  <1>2. resets \in Nat
    BY <1>1, FactoryFacts DEF Factory!TypeOK
  <1>3. /\ Cardinality(BuiltOf(b)) \in Nat /\ Cardinality(Calls) \in Nat
        /\ Cardinality(ThreadsAt("building", b)) \in Nat /\ Cardinality(ThreadsAt("storing", b)) \in Nat
        /\ Cardinality(ThreadsAt("storing", b)) <= Cardinality(Calls)
    BY <1>1, InstancesAreFinite, ThreadsAreFinite
  <1>4. /\ Cardinality(Calls) * (resets + 1) = Cardinality(Calls) * resets + Cardinality(Calls)
        /\ Cardinality(Calls) * resets \in Nat
    BY <1>2, <1>3, OneMoreReset
  <1>5. Cardinality(BuiltOf(b)) <= Cardinality(Calls) * (resets + 1)
    BY <1>1, <1>3, <1>4 DEF BuildersAreFew
  <1> QED BY <1>5 DEF BuiltOf

-----------------------------------------------------------------------------
(*****************************************************************************)
(* All components together.                                                  *)
(*****************************************************************************)
Inv ==
  /\ BreakerInv /\ LoadInv /\ DriftInv /\ GpuInv /\ AnomalyInv
  /\ PredictInv /\ ModelInv /\ FactoryInv /\ KafkaInv

LEMMA InitInv == Init => Inv
  <1> SUFFICES ASSUME Init PROVE Inv
    OBVIOUS
  <1>1. /\ Breaker!Init /\ Load!Init /\ Drift!Init /\ Gpu!Init /\ Anomalies!Init
        /\ Predict!Init /\ Model!Init /\ Factory!Init /\ Kafka!Init
    BY DEF Init
  <1>2. BreakerInv /\ LoadInv /\ DriftInv /\ GpuInv /\ AnomalyInv
    BY <1>1, BreakerInit, LoadInit, DriftInit, GpuInit, AnomalyInit
  <1>3. PredictInv /\ ModelInv /\ FactoryInv /\ KafkaInv
    BY <1>1, PredictInit, ModelInit, FactoryInit, KafkaInit
  <1> QED BY <1>2, <1>3 DEF Inv

\* A step of the whole is a step of each component, or leaves it as it is.
LEMMA StepsOfEach ==
  ASSUME [Next]_vars
  PROVE  /\ [Breaker!Next]_breakerVars /\ [Load!Next]_loadVars /\ [Drift!Next]_driftVars
         /\ [Gpu!Next]_gpuVars /\ [Anomalies!Next]_anomalyVars /\ [Predict!Next]_predictVars
         /\ [Model!Next]_modelVars /\ [Factory!Next]_factoryVars /\ [Kafka!Next]_kafkaVars
  BY DEF Next, vars

LEMMA NextInv == Inv /\ [Next]_vars => Inv'
  <1> SUFFICES ASSUME Inv, [Next]_vars PROVE Inv'
    OBVIOUS
  <1>1. /\ BreakerInv /\ LoadInv /\ DriftInv /\ GpuInv /\ AnomalyInv
        /\ PredictInv /\ ModelInv /\ FactoryInv /\ KafkaInv
    BY DEF Inv
  <1>2. /\ [Breaker!Next]_breakerVars /\ [Load!Next]_loadVars /\ [Drift!Next]_driftVars
        /\ [Gpu!Next]_gpuVars /\ [Anomalies!Next]_anomalyVars /\ [Predict!Next]_predictVars
        /\ [Model!Next]_modelVars /\ [Factory!Next]_factoryVars /\ [Kafka!Next]_kafkaVars
    BY StepsOfEach
  <1>3. BreakerInv'
    BY <1>1, <1>2, BreakerNext
  <1>4. LoadInv'
    BY <1>1, <1>2, LoadNext
  <1>5. DriftInv'
    BY <1>1, <1>2, DriftNext
  <1>6. GpuInv'
    BY <1>1, <1>2, GpuNext
  <1>7. AnomalyInv'
    BY <1>1, <1>2, AnomalyNext
  <1>8. PredictInv'
    BY <1>1, <1>2, PredictNext
  <1>9. ModelInv'
    BY <1>1, <1>2, ModelNext
  <1>10. FactoryInv'
    BY <1>1, <1>2, FactoryNext
  <1>11. KafkaInv'
    BY <1>1, <1>2, KafkaNext
  <1> QED BY <1>3, <1>4, <1>5, <1>6, <1>7, <1>8, <1>9, <1>10, <1>11 DEF Inv

LEMMA InvHolds == Spec => []Inv
  <1> QED BY InitInv, NextInv, PTL DEF Spec

-----------------------------------------------------------------------------
\* Every variable of every component keeps its type.
THEOREM TypeCorrect == Spec => []TypeOK
  <1>1. Inv => TypeOK
    <2> SUFFICES ASSUME Inv PROVE TypeOK
      OBVIOUS
    <2>1. Breaker!TypeOK /\ Load!TypeOK /\ Drift!TypeOK
      BY DEF Inv, BreakerInv, LoadInv, DriftInv
    <2>2. Anomalies!TypeOK /\ Predict!TypeOK /\ Factory!TypeOK
      BY DEF Inv, AnomalyInv, PredictInv, FactoryInv
    <2>3. Gpu!TypeOK /\ Model!TypeOK /\ Kafka!TypeOK
      BY GpuSound, ModelSound, KafkaSound DEF Inv
    <2> QED BY <2>1, <2>2, <2>3 DEF TypeOK
  <1> QED BY <1>1, InvHolds, PTL

\* load_balancer.py:141-220, 42-101: wherever threads meet, a closed breaker keeps its
\* tolerance or somebody is about to see to it, and an open one knows when it failed unless
\* a reset ran beside a call.  While no two threads met inside it, it admits nobody within
\* the time-out of the latest failure, and two successes since the latest try close it and
\* nothing but a reset else does.  The score of an instance agrees with its health and load.
THEOREM BreakerProtects == Spec => BalancerProtects
  <1>1. Inv => /\ Breaker!ClosedHasRoom /\ Breaker!OpenKnowsWhen
               /\ focus = "load" => Load!LoadIsJudged
    BY LoadSound DEF Inv, BreakerInv, KnowsWhen, Breaker!OpenKnowsWhen
  <1>2. Inv /\ [Next]_vars =>
          /\ [ \A c \in BreakerCalls :
                 (breaker_pc[c] \in Breaker!Admitting /\ breaker_pc'[c] = "function" /\ raced = {})
                   => failed_at + recovery_timeout <= breaker_now ]_(Breaker!vars)
          /\ [ (state # "closed" /\ state' = "closed" /\ raced = {})
                 => \/ state = "half_open" /\ proven >= 2
                    \/ \E c \in BreakerCalls : breaker_pc'[c] = "r_forget" ]_(Breaker!vars)
    <2> SUFFICES ASSUME Inv, [Next]_vars
                 PROVE  /\ UNCHANGED Breaker!vars \/ AfterTimeOut
                        /\ UNCHANGED Breaker!vars \/ ProvenOrReset
      BY DEF AfterTimeOut, ProvenOrReset
    <2>1. BreakerInv /\ [Breaker!Next]_breakerVars
      BY StepsOfEach DEF Inv
    <2> QED BY <2>1, BreakerNext DEF breakerVars, Breaker!vars, Breaker!shared, Breaker!history
  <1> QED BY <1>1, <1>2, InvHolds, PTL
          DEF Spec, BalancerProtects, Breaker!BreakerRecovers, Breaker!QuietAfterFailure,
              Breaker!ClosesWhenProven

\* drift_detection.py:127-284: a check compares two windows that are long enough, hold
\* no sample twice, and share none before the baseline is replaced.
THEOREM ChecksAreSound == Spec => []WindowsAreSound
  <1>1. Inv => WindowsAreSound
    BY DriftSound DEF Inv, WindowsAreSound
  <1> QED BY <1>1, InvHolds, PTL

\* gpu_batch_optimizer.py:121-427: calls that overlap get their own answers in their own
\* order, round robin spreads the batches of a call evenly, and no GPU looks less busy
\* than it is.
THEOREM OverlapsAreHarmless == Spec => []GpuCallsAreWhole
  <1>1. Inv => GpuCallsAreWhole
    BY GpuSound DEF Inv, GpuCallsAreWhole
  <1> QED BY <1>1, InvHolds, PTL

\* anomaly_buffer.py: an entry goes only for age, request or room, the newest stay, and
\* what is served is in order and had not expired.
THEOREM BufferKeepsEntries == Spec => []EntriesAreKept
  <1>1. Inv => EntriesAreKept
    BY DEF Inv, AnomalyInv, EntriesAreKept
  <1> QED BY <1>1, InvHolds, PTL

\* prediction.py, redis_cache.py: whenever Redis goes or comes back, no request fails for it:
\* whoever got a result from a backend that gives whole ones is answered with it.
THEOREM RedisMayGo == Spec => []OutagesCostNothing
  <1>1. Inv => OutagesCostNothing
    BY DEF Inv, PredictInv, OutagesCostNothing
  <1> QED BY <1>1, InvHolds, PTL

\* models/base.py, pytorch_sentiment.py, onnx_sentiment.py: a batch answers each text in
\* its place, the cache stays within its bound and holds nothing twice, and until it is
\* cleared no hit is reported as a miss, although threads share the counter that tells them.
THEOREM ModelAnswersInPlace == Spec => []ModelIsSound
  <1>1. Inv => ModelIsSound
    BY ModelSound DEF Inv, ModelIsSound
  <1> QED BY <1>1, InvHolds, PTL

\* models/factory.py:57-91: threads get an instance of the backend they asked for, and
\* races cost at most one instance a thread between two resets.
THEOREM RacesAreCheap == Spec => []ModelsAreShared
  <1>1. Inv => ModelsAreShared
    BY FactorySound DEF Inv, ModelsAreShared
  <1> QED BY <1>1, InvHolds, PTL

\* kafka_consumer.py: the counts agree with what was handled; of the messages taken for new
\* only those are lost that joined their batch during its prediction or met a full batch;
\* retries and give-ups add up, and no message is taken for new twice within the window
\* that is remembered.
THEOREM BooksAreBalanced == Spec => []MessagesAreAccounted
  <1>1. Inv => MessagesAreAccounted
    BY KafkaSound DEF Inv, MessagesAreAccounted
  <1> QED BY <1>1, InvHolds, PTL

\* prediction.py:132-165: whatever a batch holds, a valid text is answered in its place
\* by what the model says of it, and an invalid one by an error.
THEOREM BatchesKeepPlaces == \A ts \in Seq(Texts \union {None}) : Predict!KeepsPlaces(ts)
  <1> SUFFICES ASSUME NEW ts \in Seq(Texts \union {None}), NEW i \in DOMAIN ts
               PROVE  Predict!PredictBatch(ts, Predict!Valid(ts))[i] =
                        IF Predict!ValidTexts(ts)[i] = None THEN "Invalid input" ELSE ts[i]
    BY DEF Predict!KeepsPlaces
  <1> DEFINE n == Len(ts)
             v == Predict!ValidTexts(ts)
             V == Predict!ValidPlaces(ts)
             q == [j \in 1 .. n |-> j]
             W == Nat \ {j \in Nat : j \in 1 .. n /\ v[j] = None}
             raw == Predict!Valid(ts)
             Rank == {j \in 1 .. i : v[j] # None}
  <1>1. n \in Nat /\ DOMAIN ts = 1 .. n /\ i \in 1 .. n
    OBVIOUS
  <1>2. v[i] # None => v[i] = ts[i]
    BY DEF Predict!ValidTexts
  <1>3. Kept(V, q, n, W)
    BY <1>1, PlacesAreKept
  <1>4. raw = [k \in DOMAIN V |-> ts[V[k]]]
    BY DEF Predict!Valid
  <1>5. Predict!PredictBatch(ts, raw)[i] =
          IF v[i] = None THEN "Invalid input" ELSE raw[Cardinality(Rank)]
    <2>1. Predict!Cardinality(Rank) = Cardinality(Rank)
      BY DEF Predict!Cardinality, Cardinality
    <2>2. Predict!PredictBatch(ts, raw)[i] =
            IF v[i] = None THEN "Invalid input" ELSE raw[Predict!Cardinality(Rank)]
      <3> HIDE DEF v, raw, n
      <3> QED BY DEF Predict!PredictBatch, v
    <2> QED BY <2>1, <2>2
  <1>6. \A j \in 1 .. n : q[j] = j /\ (j \in W <=> v[j] # None)
    <2> HIDE DEF v, n
    <2> QED OBVIOUS
  <1> HIDE DEF v, V, W, q, raw, n
  <1>7. /\ V \in Seq(Nat) /\ Increasing(V)
        /\ \A j \in DOMAIN V : \E k \in 1 .. n : V[j] = q[k] /\ q[k] \in W
        /\ \A k \in 1 .. n : q[k] \in W => \E j \in DOMAIN V : V[j] = q[k]
    BY <1>3 DEF Kept
  <1>8. ASSUME v[i] # None PROVE raw[Cardinality(Rank)] = ts[i]
    <2>1. PICK p \in DOMAIN V : V[p] = i
      BY <1>1, <1>6, <1>7, <1>8
    <2>2. \A j : j \in Rank <=> j \in {V[k] : k \in DOMAIN V} /\ j <= V[p]
      <3>1. ASSUME NEW j \in Rank PROVE j \in {V[k] : k \in DOMAIN V} /\ j <= V[p]
        <4>1. j \in 1 .. n /\ v[j] # None /\ j <= i
          BY <1>1
        <4>2. PICK k \in DOMAIN V : V[k] = j
          BY <1>6, <1>7, <4>1
        <4> QED BY <2>1, <4>1, <4>2
      <3>2. ASSUME NEW k \in DOMAIN V, V[k] <= V[p] PROVE V[k] \in Rank
        <4>1. PICK m \in 1 .. n : V[k] = q[m] /\ q[m] \in W
          BY <1>7
        <4>2. V[k] = m /\ v[m] # None
          BY <1>6, <4>1
        <4>3. m \in 1 .. i
          BY <1>1, <2>1, <3>2, <4>2
        <4> QED BY <4>2, <4>3
      <3> QED BY <3>1, <3>2
    <2>3. Rank = {j \in {V[k] : k \in DOMAIN V} : j <= V[p]}
      <3> HIDE DEF Rank
      <3> QED BY <2>2
    <2>4. Cardinality({j \in {V[k] : k \in DOMAIN V} : j <= V[p]}) = p
      BY <1>7, PlaceIsRank
    <2> HIDE DEF Rank
    <2>5. raw[p] = ts[i]
      BY <1>4, <2>1
    <2> QED BY <2>3, <2>4, <2>5
  <1> HIDE DEF Rank
  <1>9. Predict!PredictBatch(ts, raw)[i] = IF v[i] = None THEN "Invalid input" ELSE ts[i]
    BY <1>5, <1>8
  <1> QED BY <1>9 DEF v, raw

\* models/factory.py, _find_best_model_file: a quantized file is loaded whenever the
\* directory has one.
THEOREM QuantizedIsPreferred == Factory!QuantizedFirst
  <1> SUFFICES ASSUME NEW files, files \intersect {Factory!Priority[1], Factory!Priority[2]} # {}
               PROVE  Factory!BestFile(files) \in {Factory!Priority[1], Factory!Priority[2]}
    BY DEF Factory!QuantizedFirst
  <1> DEFINE known == {k \in DOMAIN Factory!Priority : Factory!Priority[k] \in files}
             first == CHOOSE k \in known : \A j \in known : k <= j
  <1>1. DOMAIN Factory!Priority = {1, 2, 3, 4}
    <2>1. DOMAIN Factory!Priority = 1 .. 4
      BY DEF Factory!Priority
    <2> QED BY <2>1
  <1>2. known \subseteq Nat /\ known \subseteq {1, 2, 3, 4} /\ (1 \in known \/ 2 \in known)
    BY <1>1
  <1>3. Factory!BestFile(files) = Factory!Priority[first]
    BY <1>2 DEF Factory!BestFile
  <1> HIDE DEF known
  <1>4. first \in known /\ \A j \in known : first <= j
    <2>1. \E k \in known : \A j \in known : k <= j
      BY <1>2, LeastNumber
    <2> QED BY <2>1
  <1> HIDE DEF first
  <1>5. first = 1 \/ first = 2
    BY <1>2, <1>4
  <1> QED BY <1>3, <1>5

==============================================================================
