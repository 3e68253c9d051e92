----------------------------- MODULE MCPollLoop -----------------------------
(* A small instance of PollLoop for TLC: more updates than a batch, and     *)
(* batches larger than the semaphore.                                       *)
EXTENDS PollLoop
=============================================================================
