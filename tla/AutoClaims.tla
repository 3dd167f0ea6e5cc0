----------------------------- MODULE AutoClaims -----------------------------
(* What the documentation and the comments say of hooks and delivery and the
   code does not do. *)
EXTENDS AutoDeafen

(* "Un-deafen (either mode) fires on death, completion, restart, or quit"
   (README.md:52), without exceptions for what was requested before. *)
AlwaysEndsUndeafened == (dead \/ complete) ~> ~ByMod

(* "it self-corrects every attempt" (deafen.cpp:84-86): if attempts keep
   ending in an un-deafen request, the belief is right again and again. *)
SelfCorrects ==
  []<>(call = "undeafen") => []<>(taps = 0 /\ believed = (voice # "off"))
=============================================================================
