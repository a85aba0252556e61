---------------------------- MODULE MCBatchCalls ----------------------------
(* One caller that runs two batches in a row while another thread polls:    *)
(* refinement, polled progress and termination.                             *)
EXTENDS BatchPolling, BatchPool

MCCallers == {caller}
=============================================================================
