----------------------------- MODULE PoliteDeafen -----------------------------
(***************************************************************************)
(* What direct mode promises ("absolute and polite", discord_rpc.hpp:10-12 *)
(* and README "reads your real deafen state ... only un-deafens what it    *)
(* deafened"), with no worker, queue or deadline in it:                    *)
(*                                                                         *)
(*   - the mod deafens only after it was told that the user is not         *)
(*     deafened, and not again on the strength of the same report;         *)
(*   - it un-deafens only after it was told that the user is deafened, and *)
(*     only if its own previous change in the session was a deafen;        *)
(*   - what it did goes away with its session.                             *)
(***************************************************************************)
VARIABLES voice, control, told

politeVars == <<voice, control, told>>

Init ==
  /\ voice \in {"off", "user"}
  /\ control = "none"
  /\ told = "unknown"

Learn ==
  /\ told' = IF voice = "off" THEN "undeaf" ELSE "deaf"
  /\ UNCHANGED <<voice, control>>

Deafen ==
  /\ told = "undeaf"
  /\ voice' = IF voice = "off" THEN "mod" ELSE voice
  /\ control' = "deaf"
  /\ told' = "unknown"

Undeafen ==
  /\ told = "deaf"
  /\ control = "deaf"
  /\ voice' = "off"
  /\ control' = "undeaf"
  /\ told' = "unknown"

Release ==
  /\ voice' = IF voice = "mod" THEN "off" ELSE voice
  /\ control' = "none"
  /\ told' = "unknown"

UserToggle ==
  /\ voice' = IF voice = "off" THEN "user" ELSE "off"
  /\ UNCHANGED <<control, told>>

Next == Learn \/ Deafen \/ Undeafen \/ Release \/ UserToggle

Spec == Init /\ [][Next]_politeVars
=============================================================================
