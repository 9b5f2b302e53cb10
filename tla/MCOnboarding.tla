---------------------------- MODULE MCOnboarding ----------------------------
(* Instances of Onboarding for TLC; the .cfg gives every constant its value. *)
EXTENDS Onboarding
=============================================================================
