----------------------------- MODULE RpcRecovery -----------------------------
(***************************************************************************)
(* RpcClient in a world that calms down: until some moment answers are     *)
(* late, commands are refused and Discord goes away, from then on none of  *)
(* this happens any more.  What the faults left behind (a broken session,  *)
(* commands still in flight, answers nobody waits for, tokens that were    *)
(* not stored) must not keep the worker from serving what is asked next.   *)
(***************************************************************************)
EXTENDS RpcClient

VARIABLE
  calm  \* the faults are over

recoveryVars == <<vars, calm>>

RecoveryInit == Init /\ calm = FALSE

(* The steps that are faults, of the worker's surroundings or its clock. *)
Fault ==
  \/ TimedOut \/ OpenFails \/ StepFails
  \/ NotReady /\ (IF inbox = <<>> THEN live ELSE Head(inbox).ok)
  \/ PumpDone /\ (~live \/ inbox # <<>>)
  \/ Open /\ ~Head(inbox').ok
  \/ (Reject \/ Close) /\ UNCHANGED <<mailboxVars, workerVars, stalled>>
  \/ Stall

(* It may get calm by the time of the last call, unless the worker has a
   logout to serve, with which what is asked for then would be dropped, or is
   held in a call. *)
Settles == calls' = MaxCalls /\ calls' # calls /\ ~pendingLogout /\ ~stalled

RecoveryNext ==
  /\ Next
  /\ calm => ~Fault
  /\ calm' \in {calm} \cup (IF Settles THEN {TRUE} ELSE {})

(* The fairness of RpcClient.  When it is calm and the worker may do nothing
   but time out, its command is still on its way and Discord will answer it. *)
RecoverySpec == RecoveryInit /\ [][RecoveryNext]_recoveryVars /\ Fairness

-----------------------------------------------------------------------------
LastInCalm(call) == <>[](calm /\ lastCall = call)

(* If a deafen request is the last call, the user ends up deafened; if it is
   an un-deafen request, the mod's deafen is gone, unless it was disowned
   before: whichever requests it overtakes, and whatever went wrong before it
   was made (threadMain, ensureReady and applyDeafen start every job from
   what the last one left). *)
LastDeafenServed   == LastInCalm("deafen") => <>[](voice # "off")
LastUndeafenServed == LastInCalm("undeafen") => <>[](voice # "mod" \/ orphan # "none")
=============================================================================
