------------------------------ MODULE AutoDeafen ------------------------------
(***************************************************************************)
(* The hooks of the game (Attempt) and the delivery of their requests      *)
(* (Delivery) together: every hook that requests something calls           *)
(* deafen::request before it returns, key presses and the worker go on     *)
(* beside the game, and the player changes delivery-mode and key where the *)
(* settings page is open.                                                  *)
(***************************************************************************)
EXTENDS Attempt, Delivery

VARIABLES
  upset,  \* history: something happened that the requests cannot make up for
  lost    \* history: the deafen wanted was dropped, or ended with its session

autoVars == <<attemptVars, deliveryVars, upset, lost>>

AutoInit == Init /\ DeliveryInit /\ upset = FALSE /\ lost = FALSE

Settled == taps = 0 /\ target = "none" /\ ~leaving

(* A deafen is requested that direct mode takes for a repeated one: it has
   not been taken back, or its un-deafen is replaced before it is served. *)
Repeats == mode = "direct" /\ call' = "deafen" /\ (want = "deafen" \/ target = "undeafen")

(* A hook, and the request it makes. *)
Hook ==
  /\ Next
  /\ IF call' = "none" THEN UNCHANGED deliveryVars ELSE Deliver(call')
  /\ upset' = (upset \/ Repeats)
  /\ lost' = (lost /\ call' = "none")

(* The settings page changes delivery-mode or the key without regard to what
   was delivered before; it also has the row that logs out. *)
SettingsPage ==
  /\ phase # "playing"
  /\ \/ /\ ChangeMode \/ Rebind
        /\ upset' = (upset \/ want = "deafen" \/ ~Settled \/ astray \/ binding' # "key")
     \/ Logout /\ UNCHANGED upset
  /\ UNCHANGED <<attemptVars, lost>>

(* Presses and targets get their turn.  What a failure leaves deafened nobody
   will un-deafen; what it does not deafen is only lost. *)
Background ==
  /\ \/ KeyArrives /\ UNCHANGED <<upset, lost>>
     \/ Serve /\ UNCHANGED <<upset, lost>>
     \/ ServeFails /\ upset' = (upset \/ voice' # "off") /\ lost' = (want = "deafen")
     \/ ServeLogout /\ UNCHANGED upset /\ lost' = (want = "deafen")
  /\ UNCHANGED attemptVars

SessionEnds ==
  /\ LoseSession
  /\ lost' = (want = "deafen")
  /\ UNCHANGED <<attemptVars, upset>>

ByHand ==
  /\ ToggleByHand
  /\ upset' = (upset \/ mode = "direct")
  /\ UNCHANGED <<attemptVars, lost>>

AutoNext == Hook \/ SettingsPage \/ Background \/ SessionEnds \/ ByHand

AutoSpec == AutoInit /\ [][AutoNext]_autoVars

(* Key presses arrive and the worker gets its turn; frames and attempts end
   as in Attempt. *)
AutoFairSpec ==
  /\ AutoSpec
  /\ WF_autoVars(Background)
  /\ WF_autoVars(Hook /\ PostUpdate)
  /\ SF_autoVars(Hook /\ Leave)

-----------------------------------------------------------------------------
Disturbed == upset \/ (mode = "keybind" /\ astray)

(* When nothing is under way, Discord is deafened only if a deafen is the last
   thing the hooks asked for, and if it is, Discord is deafened unless direct
   mode lost that deafen with its session, to a logout or to a command that
   failed.  No order of firing, dying, pausing and restarting inverts the toggle
   or loses the un-deafen, nor does a lost session, a logout or a change of
   delivery-mode while nothing is deafened (main.cpp's hooks with deafen.cpp's
   request and disconnect).  A command that fails and leaves Discord deafened, a
   change in mid-deafen, a repeated deafen and toggles by hand are another
   matter. *)
FollowsHooks ==
  Settled /\ ~Disturbed =>
    /\ voice # "off" => want = "deafen"
    /\ want = "deafen" => voice # "off" \/ (mode = "direct" /\ lost)

(* The invariant behind it, mode by mode and as long as nothing came up that
   the requests cannot make up for.  In keybind mode the belief is what the
   hooks want, and the worker is idle. *)
KeysInv ==
  mode = "keybind" /\ ~upset =>
    believed = (want = "deafen") /\ target = "none" /\ ~owned

(* In direct mode no press is under way and Discord is deafened by a session
   whose worker knows it, or not at all.  Unless a logout is about to drop both,
   a target that waits is the one that would change what Discord is, and with
   none waiting Discord is what the hooks want, but for a deafen lost. *)
TargetInv ==
  mode = "direct" /\ ~upset =>
    /\ taps = 0
    /\ voice = IF owned THEN "session" ELSE "off"
    /\ ~leaving =>
         /\ target = "none" => (owned => want = "deafen") /\ (want = "deafen" => owned \/ lost)
         /\ target # "none" => want = target
         /\ target = "deafen" => ~owned

AutoInv ==
  /\ BeliefInv /\ upset \in BOOLEAN /\ lost \in BOOLEAN
  /\ ~upset => binding = "key"
  /\ KeysInv /\ TargetInv

(* "un-deafens when the attempt ends" (README.md:3-5, :52), end to end and in
   both modes, with the same exceptions. *)
ByMod          == voice \in {"key", "session"}
EndsUndeafened == (dead \/ complete) ~> (~ByMod \/ Disturbed)
=============================================================================
