-------------------------- MODULE MCOutboxDelivery --------------------------
(* Instances of OutboxDelivery for TLC. *)
EXTENDS OutboxDelivery

CONSTANTS w1, w2, e1, e2, e3, c1

OneWorker == {w1}
TwoWorkers == {w1, w2}

\* A task type, and one that request handlers insert and nothing is registered for.
TaskOnly == {"DocumentExtractionRequested"}
TaskAndUnregistered == {"DocumentExtractionRequested", "WorkItemChanged"}

=============================================================================
