--------------------------- MODULE MCRetryExecutor ---------------------------
(***************************************************************************)
(* RetryExecutor for TLC, and the promise it implements.                    *)
(***************************************************************************)
EXTENDS RetryExecutor

Promise == INSTANCE BoundedRetry

(* The executor begins a graph at most MaxAttempts times and never after    *)
(* its verdict, although threads, timers and retries interleave.            *)
KeepsItsPromise == Promise!Spec
=============================================================================
