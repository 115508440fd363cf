----------------------------- MODULE DriftWindows -----------------------------
(***************************************************************************)
(* DriftDetector: the first predictions become the baseline, later ones a  *)
(* rolling window that is compared with it on request.  The three deques   *)
(* of a window always grow and shrink together, so a window is one         *)
(* sequence.  All callers run on the event loop and none awaits inside, so *)
(* every operation is one step; the lock matters because it is a           *)
(* threading.Lock, which its holder cannot take again.                     *)
(***************************************************************************)
EXTENDS Naturals, Sequences, FiniteSets, SequencesExt

CONSTANTS
  Labels,
  window_size,
  min_samples,
  MaxSamples,   \* bound: predictions added
  MayUpdate     \* update_baseline is called

DriftAssumption ==
  /\ min_samples \in Nat \ {0} /\ window_size \in Nat /\ window_size >= min_samples
  /\ MaxSamples \in Nat /\ MayUpdate \in BOOLEAN

VARIABLES
  reference, current,   \* windows of [id, label]
  baseline_established,
  blocked,      \* the event loop waits for a lock its own coroutine holds
  added,        \* predictions so far
  last_check    \* what the latest check_drift compared, and its verdict on the labels

vars == <<reference, current, baseline_established, blocked, added, last_check>>

Samples == [id : 1 .. MaxSamples, label : Labels]

TypeOK ==
  /\ reference \in Seq(Samples) /\ Len(reference) <= window_size
  /\ current \in Seq(Samples) /\ Len(current) <= window_size
  /\ baseline_established \in BOOLEAN /\ blocked \in BOOLEAN
  /\ added \in 0 .. MaxSamples

Init ==
  /\ reference = <<>> /\ current = <<>>
  /\ baseline_established = FALSE /\ blocked = FALSE
  /\ added = 0
  /\ last_check = [reference |-> <<>>, current |-> <<>>, drift |-> FALSE]

\* deque(maxlen=window_size).append
Push(window, sample) ==
  LET w == Append(window, sample)
  IN IF Len(w) > window_size THEN Tail(w) ELSE w

\* mutant
IntoCurrent(sample) == Push(current, sample)

\* The current window after a prediction that went to the baseline.
CurrentBeside(sample) == current

\* add_prediction
AddPrediction(sample, is_reference) ==
  /\ IF is_reference \/ ~baseline_established
     THEN /\ reference' = Push(reference, sample)
          /\ current' = CurrentBeside(sample)
          /\ baseline_established' = (baseline_established \/ Len(reference') >= min_samples)
     ELSE /\ current' = Push(current, sample)
          /\ UNCHANGED <<reference, baseline_established>>
  /\ UNCHANGED <<blocked, last_check>>

Predict(label, is_reference) ==
  /\ ~blocked /\ added < MaxSamples
  /\ added' = added + 1
  /\ AddPrediction([id |-> added', label |-> label], is_reference)

\* Occurrences of a label in a window.
Occurrences(window, label) == Len(SelectSeq(window, LAMBDA s : s.label = label))

\* scipy.stats.chisquare raises ValueError unless both frequency lists have the
\* same sum; chi_squared_test logs it and answers p = 1.  A label the baseline
\* does not have makes the statistic infinite; otherwise p may be on either side.
PredictionDrift(ref, cur) ==
  IF Len(ref) # Len(cur) THEN {FALSE}
  ELSE IF \E l \in Labels : Occurrences(ref, l) = 0 /\ Occurrences(cur, l) > 0 THEN {TRUE}
  ELSE IF \A l \in Labels : Occurrences(ref, l) = Occurrences(cur, l) THEN {FALSE}
  ELSE BOOLEAN

EnoughData == Len(current) >= min_samples

\* check_drift; PSI and the KS test on lengths and confidences are not modelled.
CheckDrift ==
  /\ ~blocked
  /\ baseline_established /\ EnoughData
  /\ \E drift \in PredictionDrift(reference, current) :
       last_check' = [reference |-> reference, current |-> current, drift |-> drift]
  /\ UNCHANGED <<reference, current, baseline_established, blocked, added>>

\* reset_current_window
ResetCurrentWindow ==
  /\ ~blocked
  /\ current' = <<>>
  /\ UNCHANGED <<reference, baseline_established, blocked, added, last_check>>

\* update_baseline copies the window with the lock held and then calls
\* reset_current_window, which waits for the same lock.
UpdateBaseline ==
  /\ MayUpdate /\ ~blocked
  /\ reference' = current
  /\ blocked' = TRUE
  /\ UNCHANGED <<current, baseline_established, added, last_check>>

Next ==
  \/ \E label \in Labels, is_reference \in BOOLEAN : Predict(label, is_reference)
  \/ CheckDrift \/ ResetCurrentWindow \/ UpdateBaseline

Spec == Init /\ [][Next]_vars

-----------------------------------------------------------------------------
(* Properties *)

\* Every comparison rests on at least min_samples predictions on either side,
\* whatever was reset, replaced or rolled out in between (drift_detection.py:262-266).
ComparedEnough ==
  last_check.current # <<>> =>
    Len(last_check.reference) >= min_samples /\ Len(last_check.current) >= min_samples

\* No prediction is compared with itself: until the baseline is replaced no
\* prediction is in both windows, nor twice in one.
WindowsAreDisjoint ==
  /\ ~blocked => {s.id : s \in ToSet(reference)} \intersect {s.id : s \in ToSet(current)} = {}
  /\ Len(reference) = Cardinality(ToSet(reference))
  /\ Len(current) = Cardinality(ToSet(current))

\* What a drift check compares is enough and is not the same twice.
WindowsAreSound == ComparedEnough /\ WindowsAreDisjoint

\* monitoring_routes.py:297, "Drift baseline updated successfully": the call returns.
UpdateReturns == ~blocked

\* drift_detection.py:6, "Prediction drift detection (output distribution
\* changes)": a window of labels the baseline never had is reported as drift.
NewLabelsAreDrift ==
  (last_check.current # <<>> /\ \A s \in ToSet(last_check.current) :
     Occurrences(last_check.reference, s.label) = 0) => last_check.drift

==============================================================================
