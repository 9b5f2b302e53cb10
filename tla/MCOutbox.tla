------------------------------ MODULE MCOutbox ------------------------------
(* Instances of Outbox for TLC. *)
EXTENDS Outbox, TLC

\* Drainer processes are interchangeable.
DrainerSymmetry == Permutations(Drainers)

\* Deliveries of one shop (one on a topic nobody maps), its install, and one
\* internal event.
Tenants1 == {"shop"}
Mixed == {"order", "redactHook", "otherHook", "install", "scored"}
MixedHooks == {"order", "redactHook", "otherHook"}
MixedKind == [s \in Mixed |->
  CASE s = "order" -> "normal"
    [] s = "redactHook" -> "gdpr"
    [] s = "otherHook" -> "unmapped"
    [] s = "install" -> "installed"
    [] s = "scored" -> "normal"]
MixedTenant == [s \in Mixed |-> "shop"]

\* A shop installed, erased by gdpr.shop_redacted events (sent twice), and
\* still sending a delivery.
Erasing == {"order", "erase", "eraseAgain", "install"}
ErasingHooks == {"order"}
ErasingKind == [s \in Erasing |->
  CASE s = "order" -> "normal"
    [] s \in {"erase", "eraseAgain"} -> "shop_redacted"
    [] s = "install" -> "installed"]
ErasingTenant == [s \in Erasing |-> "shop"]

\* The GDPR deliveries Shopify sends, beside a topic nobody maps.
Gdpr == {"shopHook", "customerHook", "otherHook", "install"}
GdprHooks == {"shopHook", "customerHook", "otherHook"}
GdprKind == [s \in Gdpr |->
  CASE s = "shopHook" -> "shop_redacted"
    [] s = "customerHook" -> "gdpr"
    [] s = "otherHook" -> "unmapped"
    [] s = "install" -> "installed"]
GdprTenant == [s \in Gdpr |-> "shop"]

----------------------------------------------------------------------------
(* What the repository says of the outbox and the code does not do. *)

\* payload-schemas.ts:35: GDPR bodies "are passed through verbatim by the
\* webhook ingest", so with no failing handler no event is ever given up.
HealthyEventsSucceed == deadLettered = {} /\ deferredFailed = {}
=============================================================================
