----------------------------- MODULE MCAsyncBatch -----------------------------
(***************************************************************************)
(* Small instances of AsyncBatch: the sizes of the jobs and of the queues. *)
(***************************************************************************)
EXTENDS AsyncBatch, TLC

CONSTANTS BatchesPerJob, QueueSize

MCBatches == [j \in Jobs |-> BatchesPerJob]
\* Only jobs that may pass a deadline have several batches.
MCSomeBatches == [j \in Jobs |-> IF j \in Expiring THEN BatchesPerJob ELSE 1]
MCLimit == [p \in Priority |-> QueueSize]
\* Jobs are interchangeable with those that have the same deadline.
MCSymmetry == Permutations(Expiring) \union Permutations(Jobs \ Expiring)

==============================================================================
