------------------------ MODULE MCCoordinatorContract ------------------------
(* Instances of CoordinatorContract for TLC. *)
EXTENDS CoordinatorContract

CONSTANTS
  Submitter,  \* workers named in submissions, registered or not
  MaxBatch    \* bound: length of a submission list

\* The hash of a worker's result never decides anything on chain: one value.
MCSubmission == [worker_id : Submitter, result_hash : {"hash"}]

\* Every list up to the bound, repeated workers and wrong counts included.
MCBatches == UNION {[1 .. n -> MCSubmission] : n \in 0 .. MaxBatch}
=============================================================================
