------------------------------ MODULE MCConsent ------------------------------
(* A few turns of select, a few clients and one attempt after another. *)
EXTENDS Consent, Wire
=============================================================================
