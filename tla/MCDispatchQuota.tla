--------------------------- MODULE MCDispatchQuota ---------------------------
(* The instance of Dispatch with several drafts for each of two customers. *)
EXTENDS Dispatch, TLC

CONSTANTS AnnsDrafts, BobsDrafts

Busy == AnnsDrafts \cup BobsDrafts
Both == {"ann", "bob"}
Addressee == [m \in Busy |-> IF m \in AnnsDrafts THEN "ann" ELSE "bob"]

\* Workers are alike, and so are a customer's drafts, but for the one an idle
\* worker is written down with.
Alike(S) == {f \in Permutations(S) : AnyMessage \in S => f[AnyMessage] = AnyMessage}
Symmetry ==
  {f @@ g @@ h : f \in Permutations(Workers), g \in Alike(AnnsDrafts), h \in Alike(BobsDrafts)}
=============================================================================
