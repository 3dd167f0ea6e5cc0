------------------------------- MODULE Delivery -------------------------------
(***************************************************************************)
(* deafen::request (deafen.cpp) and what becomes of a request in the two   *)
(* delivery modes.                                                         *)
(*                                                                         *)
(* In "keybind" mode the game taps the key that toggles deafen in Discord  *)
(* and keeps a belief of the state it left Discord in; the key presses     *)
(* arrive in Discord later.  In "direct" mode the request goes to the RPC  *)
(* worker.  RpcClient models the worker message by message; here one step  *)
(* serves a target as applyDeafen does when its connection is up, and one  *)
(* step ends the session, which takes the deafen the session set with it.  *)
(***************************************************************************)
EXTENDS Integers

CONSTANTS
  Platform,  \* "windows", "wine" or "mac"
  Modes,     \* the delivery modes the mod may be started in
  World,     \* what else happens, a subset of WorldActs
  MaxTaps,   \* bound: key presses on their way to Discord
  MaxTurns   \* bound: how often the player changes something

WorldActs ==
  { "user",    \* the user presses the Discord key by hand
    "mode",    \* the user changes delivery-mode
    "rebind",  \* the user changes or clears the mod's deafen key
    "logout",  \* the user logs the mod out of Discord
    "drop",    \* the session with Discord ends
    "fail" }   \* SendInput or a command of the worker may fail

ASSUME DeliveryAssumption ==
  /\ Platform \in {"windows", "wine", "mac"}
  /\ Modes \subseteq {"direct", "keybind"}
  /\ World \subseteq WorldActs
  /\ MaxTaps \in Nat
  /\ MaxTurns \in Nat

VARIABLES
  mode,      \* the delivery-mode setting
  binding,   \* the keybind setting: "none", "unmapped" or "key"
  believed,  \* s_believedDeafened
  astray,    \* history: an odd number of toggles happened without or against the belief
  taps,      \* key presses sent and not seen by Discord yet
  target,    \* the worker's m_pending, "none" for nullopt
  owned,     \* m_weDeafened
  leaving,   \* m_pendingLogout
  voice,     \* Discord: "off", or deafened by the "user", a "key" press or the "session"
  turns      \* how often the player changed something (bounds the model)

deliveryVars == <<mode, binding, believed, astray, taps, target, owned, leaving, voice, turns>>
keyVars      == <<believed, astray, taps>>
workerVars   == <<target, owned, leaving>>

DeliveryInit ==
  /\ mode \in Modes
  /\ binding = "key"
  /\ believed = FALSE /\ astray = FALSE /\ taps = 0
  /\ target = "none" /\ owned = FALSE /\ leaving = FALSE
  /\ voice = "off"
  /\ turns = 0

-----------------------------------------------------------------------------
(* tapKey: under Wine nothing is sent, on macOS Discord does not see it, and
   Windows may not take it. *)
TapSent == Platform = "windows" /\ taps' = taps + 1 /\ UNCHANGED astray
TapLost ==
  /\ Platform # "windows" \/ "fail" \in World
  /\ astray' = ~astray
  /\ UNCHANGED taps
TapKey == TapSent \/ TapLost

BelieveThenTap(t) ==  \* faulty: the belief changes even if no key is bound
  /\ taps < MaxTaps
  /\ IF believed = (t = "deafen")
     THEN UNCHANGED keyVars
     ELSE /\ believed' = (t = "deafen")
          /\ IF binding = "key" THEN TapKey ELSE UNCHANGED <<astray, taps>>
  /\ UNCHANGED workerVars

AlwaysTap(t) ==  \* faulty: no check of the belief
  /\ taps < MaxTaps
  /\ IF binding # "key"
     THEN UNCHANGED keyVars
     ELSE believed' = (t = "deafen") /\ TapKey
  /\ UNCHANGED workerVars

(* The keystroke mode of request(): nothing to change, no key bound or no
   mapping for it leave the belief as it is. *)
TapIfNeeded(t) ==
  /\ taps < MaxTaps
  /\ IF believed = (t = "deafen") \/ binding # "key"
     THEN UNCHANGED keyVars
     ELSE believed' = (t = "deafen") /\ TapKey
  /\ UNCHANGED workerVars

(* rpc::requestDeafen: a new target replaces one the worker has not taken. *)
PostTarget(t) ==
  /\ target' = t
  /\ UNCHANGED <<keyVars, owned, leaving>>

(* deafen::request. *)
Deliver(t) ==
  /\ IF mode = "keybind" THEN TapIfNeeded(t) ELSE PostTarget(t)
  /\ UNCHANGED <<mode, binding, voice, turns>>

-----------------------------------------------------------------------------
Toggle(by) == voice' = IF voice = "off" THEN by ELSE "off"

(* Discord sees a key press. *)
KeyArrives ==
  /\ taps > 0
  /\ taps' = taps - 1
  /\ Toggle("key")
  /\ UNCHANGED <<mode, binding, believed, astray, workerVars, turns>>

(* The worker changes Discord, and the belief does not know. *)
SetVoice(v) ==
  /\ voice' = v
  /\ astray' = IF (voice = "off") = (v = "off") THEN astray ELSE ~astray

ServeUnowned ==  \* faulty: forgets that it deafened
  /\ target # "none" /\ ~leaving
  /\ target' = "none"
  /\ \/ /\ target = "deafen" /\ voice = "off"
        /\ SetVoice("session") /\ UNCHANGED owned
     \/ /\ target = "deafen" /\ voice # "off"
        /\ owned' = FALSE /\ UNCHANGED <<voice, astray>>
     \/ /\ target = "undeafen" /\ owned
        /\ owned' = FALSE /\ SetVoice("off")
     \/ /\ target = "undeafen" /\ ~owned
        /\ UNCHANGED <<owned, voice, astray>>
  /\ UNCHANGED <<mode, binding, believed, taps, leaving, turns>>

(* applyDeafen: what a target does when GET and SET are answered. *)
Serve ==
  /\ target # "none" /\ ~leaving
  /\ target' = "none"
  /\ \/ /\ target = "deafen" /\ voice = "off"
        /\ SetVoice("session") /\ owned' = TRUE
     \/ /\ target = "deafen" /\ voice # "off"
        /\ owned' = FALSE /\ UNCHANGED <<voice, astray>>
     \/ /\ target = "undeafen" /\ owned
        /\ owned' = FALSE /\ SetVoice("off")
     \/ /\ target = "undeafen" /\ ~owned
        /\ UNCHANGED <<owned, voice, astray>>
  /\ UNCHANGED <<mode, binding, believed, taps, leaving, turns>>

(* A target whose GET or SET fails or is answered too late: nothing comes of
   it; or the SET has deafened, and the worker does not know that it did; or an
   un-deafen is given up for good, with or without effect. *)
ServeFails ==
  /\ "fail" \in World
  /\ target # "none" /\ ~leaving
  /\ target' = "none"
  /\ \/ UNCHANGED <<owned, voice, astray>>
     \/ target = "deafen" /\ voice = "off" /\ SetVoice("session") /\ UNCHANGED owned
     \/ /\ target = "undeafen" /\ owned /\ owned' = FALSE
        /\ SetVoice("off") \/ UNCHANGED <<voice, astray>>
  /\ UNCHANGED <<mode, binding, believed, taps, leaving, turns>>

(* disconnect, and what Discord does when its session ends. *)
Disconnect ==
  /\ owned' = FALSE
  /\ SetVoice(IF voice = "session" THEN "off" ELSE voice)

(* The session ends in the middle of a command, whose target is dropped, or
   between two, where pumpIncoming notices. *)
LoseSession ==
  /\ "drop" \in World
  /\ Disconnect
  /\ target' \in {target, "none"}
  /\ UNCHANGED <<mode, binding, believed, taps, leaving, turns>>

(* threadMain takes a logout, and drops the target it takes with it. *)
ServeLogout ==
  /\ leaving /\ leaving' = FALSE
  /\ target' = "none"
  /\ Disconnect
  /\ UNCHANGED <<mode, binding, believed, taps, turns>>

(* The player's own doings.  A change of the mode carries nothing over; to
   direct mode it also connects the worker, which leaves deafening alone. *)
Turn(act) ==
  /\ act \in World
  /\ turns < MaxTurns
  /\ turns' = turns + 1

ChangeMode ==
  /\ Turn("mode")
  /\ mode' \in {"direct", "keybind"} \ {mode}
  /\ UNCHANGED <<binding, keyVars, workerVars, voice>>

Rebind ==
  /\ Turn("rebind")
  /\ binding' \in {"none", "unmapped", "key"} \ {binding}
  /\ UNCHANGED <<mode, keyVars, workerVars, voice>>

ToggleByHand ==
  /\ Turn("user")
  /\ Toggle("user")
  /\ astray' = ~astray
  /\ UNCHANGED <<mode, binding, believed, taps, workerVars>>

(* rpc::logout: the worker's session ends when it gets there. *)
Logout ==
  /\ Turn("logout")
  /\ target' = "none" /\ leaving' = TRUE
  /\ UNCHANGED <<mode, binding, keyVars, owned, voice>>

WorkerTurn == Serve \/ ServeFails \/ ServeLogout
Elsewhere  == KeyArrives \/ WorkerTurn \/ LoseSession \/ ToggleByHand

DeliveryNext ==
  \/ \E t \in {"deafen", "undeafen"} : Deliver(t)
  \/ Elsewhere \/ ChangeMode \/ Rebind \/ Logout

DeliverySpec == DeliveryInit /\ [][DeliveryNext]_deliveryVars

-----------------------------------------------------------------------------
DeliveryTypeOK ==
  /\ mode \in {"direct", "keybind"}
  /\ binding \in {"none", "unmapped", "key"}
  /\ believed \in BOOLEAN /\ astray \in BOOLEAN /\ taps \in Nat
  /\ target \in {"none", "deafen", "undeafen"} /\ owned \in BOOLEAN /\ leaving \in BOOLEAN
  /\ voice \in {"off", "user", "key", "session"} /\ turns \in Nat

(* Keybind mode's belief is wrong exactly as long as an odd number of toggles
   happened without it: presses by hand, lost presses and what direct mode did
   before or after.  Whatever is requested how often, however late the presses
   arrive and whichever key is bound, it is right once they have arrived if
   "nothing else touches your deafen key" (README.md:49-50), and a single
   toggle it does not know of inverts it for good (deafen.cpp:84-100). *)
WillBeDeafened == IF taps % 2 = 0 THEN voice # "off" ELSE voice = "off"
BeliefTracks   == (WillBeDeafened <=> believed) <=> ~astray

BeliefInv == DeliveryTypeOK /\ BeliefTracks
=============================================================================
