----------------------------- MODULE MCDispatch -----------------------------
(* Instances of Dispatch for TLC. *)
EXTENDS Dispatch, TLC

WorkerSymmetry == Permutations(Workers)

\* Two drafts for one customer.
Pair == {"m1", "m2"}
SameCustomer == [m \in Pair |-> "ann"]
Ann == {"ann"}

\* One draft.
Single == {"m1"}
OneCustomer == [m \in Single |-> "ann"]

----------------------------------------------------------------------------
(* What the repository says of dispatch and the code does not do. *)

\* dispatch.worker.ts:294-298: a completion that finds its target resolved
\* lost to an SNS reconcile or an operator, and "the row has the right terminal
\* state": so, with neither around and no lost acknowledgement, what SES took
\* is never recorded as suppressed.
SuppressedWasNotSent ==
  \A m \in Messages : target[m] = "suppressed" => accepted[m] = lost[m]
=============================================================================
