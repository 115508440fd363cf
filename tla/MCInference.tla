------------------------------ MODULE MCInference ------------------------------
(***************************************************************************)
(* A small instance of Inference. Two threads in and out of the breaker,   *)
(* which two failures open of three at most; bursts of 51                 *)
(* requests around the limits of 100 active and 50 queued; six predictions *)
(* in windows of three, compared from two, with updates that block the     *)
(* event loop; two calls of up to five texts on two GPUs, by either        *)
(* strategy; room for two of four anomalies with lives of 0, 1 and 3       *)
(* ticks; two requests for two texts that are short enough, Redis going    *)
(* away once (as in the code, only the mock's results are whole); two      *)
(* threads predicting a blank text, a truncated one and another with a     *)
(* cache of one; two threads asking for two spellings of a backend, one    *)
(* that cannot be loaded and one unknown; two partitions, four deliveries, *)
(* ids that repeat over partitions and offsets, as they do when a producer *)
(* sends a message again.                                                  *)
(***************************************************************************)
EXTENDS Inference, Sequences, TLC

CONSTANTS p1, p2, id1, id2

SomeTexts == {<<>>, <<"a">>, <<"b", "c">>}

Spellings == "onnx" :> "onnx" @@ "ONNX" :> "onnx" @@ "mock" :> "mock" @@ "tf" :> None

IdsThatRepeat == [m \in Partitions \X Offsets |-> IF m = <<p1, 2>> THEN id2 ELSE id1]

\* Functions of the code, evaluated for all of their inputs in a bound.
ASSUME Functions == Predict!BatchKeepsPlaces /\ Factory!QuantizedFirst

==============================================================================
