------------------------------ MODULE OnlineScaler ------------------------------
(***************************************************************************)
(* OnlineStandardScaler: Welford's update of a mean and a sum of squared   *)
(* deviations, batch by batch, with its state saved to a file and loaded   *)
(* by the next process.  One coordinate is followed, in twelfths, which    *)
(* makes the divisions by up to four samples exact.                        *)
(***************************************************************************)
EXTENDS Integers, Sequences, SequencesExt, FiniteSetsExt

CONSTANTS
  Values,       \* integers that are observed
  Widths,       \* numbers of features of the batches
  MaxBatch,     \* bound: samples of a batch
  None,
  CutShort      \* a file whose writing was interrupted

Unit == 12
MaxSamples == 4

ScalerAssumption == Values \subseteq Int /\ Widths \subseteq Nat \ {0} /\ MaxBatch \in Nat

VARIABLES
  scaler,       \* [mean, var, n, width]: mean_ and var_ in units, None before any sample
  file,         \* the saved state: None (no file), CutShort or a state
  refused,      \* the latest call raised
  \* history
  seen,         \* the samples the scaler stands for
  saved         \* the samples the file stands for

vars == <<scaler, file, refused, seen, saved>>

Fresh == [mean |-> None, var |-> None, n |-> 0, width |-> None]

TypeOK ==
  /\ scaler = Fresh
     \/ scaler \in [mean : Int, var : Int, n : 1 .. MaxSamples, width : Widths]
  /\ file \in {None, CutShort} \/ DOMAIN file = DOMAIN Fresh
  /\ refused \in BOOLEAN
  /\ seen \in Seq(Values) /\ saved \in Seq(Values)

Init == scaler = Fresh /\ file = None /\ refused = FALSE /\ seen = <<>> /\ saved = <<>>

\* What a sample adds to var_: its deviations from the mean before and after it.
Deviation(x, s) == (x - s.mean) * (x - (s.mean + (x - s.mean) \div (s.n + 1)))

\* One sample, in units, added to the state.
Add(s, x) ==
  [s EXCEPT !.n = @ + 1,
            !.mean = @ + (x - @) \div (s.n + 1),
            !.var = @ + Deviation(x, s) \div Unit]

\* partial_fit: nothing for an empty batch, an error for another number of features.
PartialFit(batch, width) ==
  /\ Len(seen) + Len(batch) <= MaxSamples
  /\ IF batch = <<>>
     THEN refused' = FALSE /\ UNCHANGED <<scaler, seen>>
     ELSE IF scaler # Fresh /\ width # scaler.width
          THEN refused' = TRUE /\ UNCHANGED <<scaler, seen>>
          ELSE /\ scaler' = FoldLeft(LAMBDA s, x : Add(s, x * Unit),
                                     IF scaler = Fresh THEN [mean |-> 0, var |-> 0, n |-> 0, width |-> width]
                                     ELSE scaler,
                                     batch)
               /\ seen' = seen \o batch /\ refused' = FALSE
  /\ UNCHANGED <<file, saved>>

\* save_state writes the file in place: it may be cut short.
Save ==
  \/ /\ file' = scaler /\ saved' = seen /\ refused' = FALSE
     /\ UNCHANGED <<scaler, seen>>
  \/ /\ file' = CutShort /\ saved' = <<>> /\ refused' = TRUE
     /\ UNCHANGED <<scaler, seen>>

\* load_state: without a file the scaler stays as it is, an invalid one raises.
Load ==
  /\ IF file \in {None, CutShort}
     THEN refused' = (file # None) /\ UNCHANGED <<scaler, seen>>
     ELSE scaler' = file /\ seen' = saved /\ refused' = FALSE
  /\ UNCHANGED <<file, saved>>

\* reset, or a new process.
Reset ==
  /\ scaler' = Fresh /\ seen' = <<>> /\ refused' = FALSE
  /\ UNCHANGED <<file, saved>>

Next ==
  \/ \E batch \in SeqOf(Values, MaxBatch), width \in Widths : PartialFit(batch, width)
  \/ Save \/ Load \/ Reset

Spec == Init /\ [][Next]_vars

-----------------------------------------------------------------------------
(* Properties *)

Total(values) == FoldLeft(LAMBDA sum, x : sum + x, 0, values)
Squares(values) == FoldLeft(LAMBDA sum, x : sum + x * x, 0, values)

\* However the samples came in batches, and through whatever saves and restarts, the
\* scaler has the mean and the squared deviations of the samples it stands for
\* (online_normalization.py:65-85).
ScalerIsExact ==
  /\ scaler.n = Len(seen)
  /\ scaler # Fresh =>
       /\ scaler.mean * scaler.n = Unit * Total(seen)
       /\ scaler.var * scaler.n = Unit * (scaler.n * Squares(seen) - Total(seen) * Total(seen))

==============================================================================
