--------------------------- MODULE MCAiGeneration ---------------------------
(* Instances of AiGeneration for TLC. *)
EXTENDS AiGeneration

\* One state change of one customer.
Single == {"e1"}
Ann == {"ann"}
OneCustomer == [e \in Single |-> "ann"]

\* The provider throttles, blocks, or answers with as many tokens as the ceiling
\* check assumes: such a call costs 700000 microcents, all that a cap of 7 allows.
Throttled == {[class |-> "response", status |-> 429, policy |-> FALSE]}
Answered == [choice |-> TRUE, filtered |-> FALSE, text |-> "words", usage |-> TRUE,
             input |-> CeilingInput, output |-> MaxTokens]
TwoAnswers == {Answered, [Answered EXCEPT !.filtered = TRUE]}

----------------------------------------------------------------------------
(* What the repository says of generation and the code does not do. *)

\* gdpr-processor.ts:170-174: the erasure of a customer hard-deletes its
\* generations and messages, so that "The PII embedded in AI text columns" "is
\* removed": an erased customer has none.
RedactedLeavesNothing == \A c \in Customers : customer[c] = "redacted" => GensOf(c) = {}
=============================================================================
