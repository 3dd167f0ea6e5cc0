---------------------------- MODULE AttemptClaims ----------------------------
(* What the documentation says of the hooks and the code does not do. *)
EXTENDS Attempt

(* "Un-deafen (either mode) fires on death, completion" (README.md:52): with
   the frame over, a dead player or a finished level is not left deafened. *)
OverMeansUndeafened == ~frame /\ (dead \/ complete) => want # "deafen"
=============================================================================
