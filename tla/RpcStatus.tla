------------------------------ MODULE RpcStatus ------------------------------
(***************************************************************************)
(* What the game thread can see of direct mode's worker (discord_rpc.hpp): *)
(* the phase state() returns, the authorization stored as saved values,    *)
(* and the closures that will still change it.  There is no connection,    *)
(* command or deadline in it, nor the calls of the status listener, which  *)
(* SettingsPage adds.  RpcClient implements it, and the settings page is   *)
(* written against it.                                                     *)
(***************************************************************************)
EXTENDS Sequences

VARIABLES
  phase,    \* rpc::state()
  granted,  \* m_authed: has Discord accepted a token on this connection?
  kept,     \* which of access token and user name are stored
  closures  \* values to be stored, in the order in which the game loop will run them

statusVars == <<phase, granted, kept, closures>>

Phases   == {"NotConnected", "Connecting", "AwaitingConsent", "Connected"}
KeptKeys == {"access", "username"}

Init ==
  /\ phase = "NotConnected"
  /\ granted = FALSE
  /\ kept \in SUBSET KeptKeys
  /\ closures = <<>>

-----------------------------------------------------------------------------
(* Connecting is announced first, consent next, and what was granted last. *)
Announce(p) ==
  /\ \/ p = "Connecting" /\ ~granted /\ phase \in {"NotConnected", "Connecting"}
     \/ p = "AwaitingConsent" /\ ~granted
     \/ p = "Connected" /\ granted /\ phase # "Connected"
  /\ phase' = p
  /\ UNCHANGED <<granted, kept, closures>>

(* Tokens come while the authorization is under way, and with no word. *)
Obtain ==
  /\ ~granted /\ phase \in {"Connecting", "AwaitingConsent"}
  /\ closures' = Append(closures, {"access"})
  /\ UNCHANGED <<phase, granted, kept>>

(* The user's name is handed over, if there is one, before "connected" is
   announced. *)
Authenticate ==
  /\ ~granted /\ phase \in {"Connecting", "AwaitingConsent"}
  /\ granted' = TRUE
  /\ closures' \in {closures, Append(closures, {"username"})}
  /\ UNCHANGED <<phase, kept>>

(* Whoever was granted a connection hears of it before it is lost. *)
Drop ==
  /\ granted => phase = "Connected"
  /\ phase' = "NotConnected"
  /\ granted' = FALSE
  /\ UNCHANGED <<kept, closures>>

Worker == (\E p \in Phases : Announce(p)) \/ Obtain \/ Authenticate \/ Drop

(* The game thread: logout() forgets at once what is stored. *)
Forget ==
  /\ kept' = {}
  /\ UNCHANGED <<phase, granted, closures>>

StoreNext ==
  /\ closures # <<>>
  /\ kept' = kept \cup Head(closures)
  /\ closures' = Tail(closures)
  /\ UNCHANGED <<phase, granted>>

Next == Worker \/ Forget \/ StoreNext

Spec == Init /\ [][Next]_statusVars
=============================================================================
