---------------------------- MODULE RpcInvariants ----------------------------
(***************************************************************************)
(* The inductive invariant behind RpcClient's safety properties, in named  *)
(* parts.  RpcSafety checks it, RpcClientProofs proves it.                 *)
(***************************************************************************)
EXTENDS RpcClient

(* Without a connection there is no session, without a session nothing is in
   flight and Discord holds nothing of the mod. *)
LinkInv ==
  /\ ~conn => ~live /\ inbox = <<>> /\ ~authed /\ ~weDeafened
  /\ ~live => inflight = <<>> /\ control = "none" /\ told = "unknown" /\ voice # "mod"

(* What is known of the connection where the worker is. *)
Serving == {"wait", "pump", "dispatch", "get", "set"}
PcInv ==
  /\ awaiting => conn /\ pc \in Sites
  /\ pc = "open" => ~conn
  /\ pc \in {"pump", "ready"} => conn
  /\ pc \in {"get", "set"} => target \in Targets
  /\ pc \in Serving => /\ conn <=> authed
                       /\ state = IF conn THEN "Connected" ELSE "NotConnected"
  /\ pc \notin Serving => ~weDeafened /\ (authed <=> pc = "announce")
  /\ pc = "announce" => conn

(* What is shown while the worker gets ready: "connected" never, and on a
   connection, on the way to one or where tokens are fetched, that it is under
   way. *)
PhaseInv ==
  /\ pc \notin Serving => state # "Connected" /\ (conn => state # "NotConnected")
  /\ pc \in {"open", "refresh", "browser", "exchange"} => state # "NotConnected"
  /\ pc \in {"open", "ready", "tryStored", "refresh", "tryRefreshed"} =>
       state # "AwaitingConsent"

(* Only the last command in flight can carry the current nonce, and once its
   answer is in the inbox nothing is in flight any more. *)
NonceInv ==
  /\ \A i \in DOMAIN inflight : /\ inflight[i].nonce <= nonce
                                /\ inflight[i].nonce = nonce => i = Len(inflight)
  /\ \A i \in DOMAIN inbox : /\ inbox[i].nonce <= nonce
                             /\ inbox[i].nonce = nonce => inflight = <<>>

(* The awaited command is the one the site sends; an accepted answer to it
   means that Discord has done it and that nothing has changed since. *)
Done(answer) ==
  CASE pc = "get" -> told = IF answer.deaf THEN "deaf" ELSE "undeaf"
    [] pc = "set" /\ target = "deafen" -> control = "deaf"
    [] pc = "set" /\ target = "undeafen" -> voice # "mod"
    [] OTHER -> TRUE
AnswerInv ==
  awaiting /\ live =>
    /\ \A i \in DOMAIN inflight :
         inflight[i].nonce = nonce => inflight[i].cmd = Command(pc, target)
    /\ \A i \in DOMAIN inbox :
         inbox[i].nonce = nonce /\ inbox[i].ok => Done(inbox[i])

(* A SET is decided on a report that still stands when it is carried out. *)
Justified(cmd) ==
  /\ cmd = "DEAFEN" => told = "undeaf"
  /\ cmd = "UNDEAFEN" => told = "deaf" /\ control = "deaf"
SetInv ==
  /\ \A i \in DOMAIN inflight : inflight[i].cmd \in {"DEAFEN", "UNDEAFEN"} => i = 1
  /\ inflight # <<>> => Justified(Head(inflight).cmd)
  /\ pc = "set" /\ ~awaiting /\ live => inflight = <<>> /\ Justified(Command(pc, target))

(* The worker owns no deafen that it has asked Discord to undo. *)
OwnerInv ==
  /\ OwnsWhatItSet
  /\ weDeafened => \A i \in DOMAIN inflight : inflight[i].cmd # "UNDEAFEN"
  /\ pc = "set" /\ target = "undeafen" => ~weDeafened

(* A deafen of the mod that is not owned, or still to come, has its cause. *)
OrphanInv ==
  /\ OrphanHasCause
  /\ voice = "mod" => told # "undeaf"
  /\ pc # "set" /\ inflight # <<>> /\ Head(inflight).cmd = "DEAFEN" => orphan # "none"

(* Unless their hand has moved since the mod looked, a user who is deafened
   has not been reported as undeafened, and the mod has not deafened them. *)
UserInv == voice = "user" /\ ~touched => told # "undeaf" /\ control # "deaf"

IInv ==
  /\ TypeOK /\ LinkInv /\ PcInv /\ PhaseInv /\ NonceInv /\ AnswerInv
  /\ SetInv /\ OwnerInv /\ OrphanInv /\ UserInv
=============================================================================
