------------------------------- MODULE Discord -------------------------------
(***************************************************************************)
(* The Discord desktop client at the other end of the IPC connection, as   *)
(* far as discord_rpc.cpp relies on it.  None of this code is in the       *)
(* repository: it is modelled from how the worker uses it.                 *)
(*                                                                         *)
(* One session at a time.  Commands of a session are executed and answered *)
(* in the order they were sent, at any later time.  "Discord resets        *)
(* controlled settings on disconnect" (discord_rpc.cpp:464): a deafen set  *)
(* by the session goes away with it.                                       *)
(***************************************************************************)
EXTENDS Naturals, Sequences

CONSTANT
  Env  \* what the outside world does in a run, a subset of EnvActs

EnvActs ==
  { "slow",    \* an answer may come after the worker's deadline
    "reject",  \* Discord, the token endpoint or the user may refuse
    "close",   \* Discord may quit, or not run at all
    "stall",   \* a call that has no deadline may never return
    "user" }   \* the user deafens by hand, before the game and during it

ASSUME EnvAssumption == Env \subseteq EnvActs

Commands == {"AUTHENTICATE", "AUTHORIZE", "GET", "DEAFEN", "UNDEAFEN"}

VARIABLES
  voice,     \* "off", or deafened by the "user" or by the "mod"
  live,      \* is a session open on Discord's side?
  inflight,  \* commands sent and not executed yet
  inbox,     \* answers sent and not read yet
  control,   \* what the session's last executed SET_VOICE_SETTINGS asked
  told,      \* what the session was told of the voice state since that SET
  touched    \* history: has the user's hand moved since the last report to a
             \* session that holds no deafen of its own?

discordVars == <<voice, live, inflight, inbox, control, told, touched>>

Requests == [nonce : Nat, cmd : Commands]
Answers  == [nonce : Nat, ok : BOOLEAN, deaf : BOOLEAN]

DiscordTypeOK ==
  /\ voice \in {"off", "user", "mod"}
  /\ live \in BOOLEAN
  /\ inflight \in Seq(Requests)
  /\ inbox \in Seq(Answers)
  /\ control \in {"none", "deaf", "undeaf"}
  /\ told \in {"unknown", "deaf", "undeaf"}
  /\ touched \in BOOLEAN

DiscordInit ==
  /\ voice \in IF "user" \in Env THEN {"off", "user"} ELSE {"off"}
  /\ live = FALSE
  /\ inflight = <<>>
  /\ inbox = <<>>
  /\ control = "none"
  /\ told = "unknown"
  /\ touched = FALSE

-----------------------------------------------------------------------------
(* The session is over: what it controlled is reset. *)
EndSession ==
  /\ live' = FALSE
  /\ inflight' = <<>>
  /\ voice' = IF voice = "mod" THEN "off" ELSE voice
  /\ control' = "none"
  /\ told' = "unknown"
  /\ touched' = FALSE

(* The first message of a session is the READY dispatch, or a refusal of the
   application id; both carry no nonce. *)
Greetings == {[nonce |-> 0, ok |-> TRUE, deaf |-> FALSE]} \cup
             (IF "reject" \in Env THEN {[nonce |-> 0, ok |-> FALSE, deaf |-> FALSE]} ELSE {})

Answer(good) ==
  /\ inflight # <<>>
  /\ inflight' = Tail(inflight)
  /\ inbox' = Append(inbox, [nonce |-> Head(inflight).nonce, ok |-> good,
                             deaf |-> voice # "off"])
  /\ UNCHANGED live

NextIs(cmd) == inflight # <<>> /\ Head(inflight).cmd = cmd

Accept ==
  /\ NextIs("AUTHENTICATE") \/ NextIs("AUTHORIZE")
  /\ Answer(TRUE)
  /\ UNCHANGED <<voice, control, told, touched>>

Report ==
  /\ NextIs("GET")
  /\ Answer(TRUE)
  /\ told' = IF voice = "off" THEN "undeaf" ELSE "deaf"
  /\ touched' = (touched /\ control = "deaf")
  /\ UNCHANGED <<voice, control>>

SetDeaf ==
  /\ NextIs("DEAFEN")
  /\ Answer(TRUE)
  /\ voice' = IF voice = "off" THEN "mod" ELSE voice
  /\ control' = "deaf"
  /\ told' = "unknown"
  /\ UNCHANGED touched

SetUndeaf ==
  /\ NextIs("UNDEAFEN")
  /\ Answer(TRUE)
  /\ voice' = "off"
  /\ control' = "undeaf"
  /\ told' = "unknown"
  /\ UNCHANGED touched

Reject ==
  /\ "reject" \in Env
  /\ Answer(FALSE)
  /\ UNCHANGED <<voice, control, told, touched>>

Execute == Accept \/ Report \/ SetDeaf \/ SetUndeaf \/ Reject

(* Discord quits, restarts or drops the session; answers already written can
   still be read. *)
Close ==
  /\ "close" \in Env
  /\ live
  /\ EndSession
  /\ UNCHANGED inbox

UserToggle ==
  /\ "user" \in Env
  /\ voice' = IF voice = "off" THEN "user" ELSE "off"
  /\ touched' = TRUE
  /\ UNCHANGED <<live, inflight, inbox, control, told>>
=============================================================================
