--------------------------- MODULE AutoDeafenProofs ---------------------------
(***************************************************************************)
(* Hooks and delivery together (AutoDeafen): the composition implements    *)
(* both of its parts, and Discord ends up as the hooks want it, for every  *)
(* level, config, platform and World and any number of edits and presses.  *)
(***************************************************************************)
EXTENDS AutoDeafen, AttemptProofs, DeliveryProofs

(* A step of the hooks either asks for nothing and leaves the last request as
   it is, or its request becomes the last one. *)
LEMMA HookRequests ==
  ASSUME Next
  PROVE  \/ call' = "none" /\ want' = want
         \/ call' \in {"deafen", "undeafen"} /\ want' = call'
<1>1. CASE Silent
  BY <1>1 DEF Silent
<1>2. CASE Request("deafen") \/ Request("undeafen")
  BY <1>2 DEF Request
<1>3. UndeafenIfNeeded => Silent \/ Request("undeafen")
  BY DEF UndeafenIfNeeded
<1>4. CASE Frame
  <2>1. CASE PostUpdate
    BY <1>1, <1>2, <2>1, FiresOrNot
  <2>2. CASE Update \/ (\E a, k \in BOOLEAN : DestroyPlayer(a, k)) \/ LevelComplete
    BY <1>1, <1>2, <1>3, <2>2 DEF Update, DestroyPlayer, LevelComplete
  <2> QED BY <1>4, <2>1, <2>2 DEF Frame
<1>5. CASE SetupHasCompleted
  BY <1>5 DEF SetupHasCompleted
<1>6. CASE PauseGame \/ Resume \/ ResetLevel \/ SwitchStartPos \/ OnQuit \/ Configure
  BY <1>1, <1>2, <1>3, <1>6
     DEF PauseGame, Resume, ResetLevel, SwitchStartPos, OnQuit, Configure
<1> QED BY <1>4, <1>5, <1>6 DEF Next

(* The delivery under a hook: nothing, or the request. *)
LEMMA HookDelivers ==
  ASSUME Hook
  PROVE  \/ UNCHANGED deliveryVars /\ want' = want
         \/ Deliver(call') /\ call' \in {"deafen", "undeafen"} /\ want' = call'
  BY HookRequests DEF Hook

(* Whatever happens beside the hooks is a step of Delivery and leaves the
   hooks alone. *)
LEMMA BesidesHooks ==
  ASSUME SettingsPage \/ Background \/ SessionEnds \/ ByHand
  PROVE  DeliveryNext /\ UNCHANGED attemptVars
  BY DEF SettingsPage, Background, SessionEnds, ByHand, DeliveryNext, Elsewhere, WorkerTurn

(* Together, the hooks are still the hooks. *)
THEOREM HooksInside == AutoSpec => Spec
<1>1. AutoInit => Init
  BY DEF AutoInit
<1>2. [AutoNext]_autoVars => [Next]_attemptVars
  BY BesidesHooks DEF AutoNext, Hook, autoVars
<1> QED BY <1>1, <1>2, PTL DEF AutoSpec, Spec

(* Together, the delivery is still the delivery. *)
THEOREM DeliveryInside == AutoSpec => DeliverySpec
<1>1. AutoInit => DeliveryInit
  BY DEF AutoInit
<1>2. [AutoNext]_autoVars => [DeliveryNext]_deliveryVars
  BY BesidesHooks, HookDelivers DEF AutoNext, autoVars, DeliveryNext
<1> QED BY <1>1, <1>2, PTL DEF AutoSpec, DeliverySpec

-----------------------------------------------------------------------------
(* The parts of AutoInv that tell of mode, key, want and what is under way. *)
Followed ==
  /\ upset \in BOOLEAN /\ lost \in BOOLEAN
  /\ ~upset => binding = "key"
  /\ KeysInv /\ TargetInv

(* Nothing is wanted, believed or under way at the start. *)
LEMMA AutoStarts == ASSUME AutoInit PROVE Followed
  BY DEF AutoInit, Init, DeliveryInit, Followed, KeysInv, TargetInv

(* A request in keybind mode: with a key bound the belief follows it. *)
LEMMA KeyHookFollows ==
  ASSUME BeliefInv, Followed, Hook, mode = "keybind" PROVE Followed'
<1> USE DEF Followed, KeysInv, TargetInv
<1>1. upset' = (upset \/ Repeats) /\ lost' \in BOOLEAN
  BY DEF Hook
<1>2. CASE UNCHANGED deliveryVars /\ want' = want
  BY <1>1, <1>2 DEF deliveryVars
<1>3. CASE Deliver(call') /\ call' \in {"deafen", "undeafen"} /\ want' = call'
  <2>1. TapIfNeeded(call') /\ UNCHANGED <<mode, binding>>
    BY <1>3 DEF Deliver
  <2>2. binding = "key" => believed' = (want' = "deafen")
    BY <1>3, <2>1 DEF TapIfNeeded, keyVars, BeliefInv, DeliveryTypeOK
  <2> QED BY <1>1, <2>1, <2>2 DEF TapIfNeeded, workerVars
<1> QED BY <1>2, <1>3, HookDelivers

(* A request in direct mode: it becomes the target, and unless the worker will
   take it for a repeated one or is about to log out, it would change what
   Discord is. *)
LEMMA DirectHookFollows ==
  ASSUME BeliefInv, Followed, Hook, mode = "direct" PROVE Followed'
<1> USE DEF Followed, KeysInv, TargetInv
<1>1. upset' = (upset \/ Repeats) /\ lost' = (lost /\ call' = "none")
  BY DEF Hook
<1>2. CASE UNCHANGED deliveryVars /\ want' = want
  <2>1. call' = "none" \/ (Deliver(call') /\ call' \in {"deafen", "undeafen"} /\ want' = call')
    BY HookRequests DEF Hook
  <2>2. CASE call' = "none"
    BY <1>1, <1>2, <2>2 DEF deliveryVars
  <2>3. CASE Deliver(call') /\ call' \in {"deafen", "undeafen"} /\ want' = call'
    <3>1. target' = call'
      BY <2>3 DEF Deliver, PostTarget
    <3> QED BY <1>1, <1>2, <2>3, <3>1 DEF deliveryVars, BeliefInv, DeliveryTypeOK
  <2> QED BY <2>1, <2>2, <2>3
<1>3. CASE Deliver(call') /\ call' \in {"deafen", "undeafen"} /\ want' = call'
  <2>1. target' = call' /\ UNCHANGED <<keyVars, owned, leaving, mode, binding, voice>>
    BY <1>3 DEF Deliver, PostTarget
  <2>2. target' # "none" /\ taps' = taps /\ want' = target' /\ lost' = FALSE
    BY <1>1, <1>3, <2>1 DEF keyVars
  <2>3. ~upset' /\ ~leaving /\ target' = "deafen" => ~owned
    <3>1. HAVE ~upset' /\ ~leaving /\ target' = "deafen"
    <3>2. ~upset /\ want # "deafen" /\ target # "undeafen"
      BY <1>1, <2>1, <3>1 DEF Repeats
    <3>3. target = "none"
      BY <3>1, <3>2 DEF BeliefInv, DeliveryTypeOK
    <3> QED BY <3>1, <3>2, <3>3
  <2> QED BY <1>1, <2>1, <2>2, <2>3
<1> QED BY <1>2, <1>3, HookDelivers

(* A change of mode that finds everything settled and nothing deafened finds
   belief and worker at rest, too, *)
LEMMA ModeFollows ==
  ASSUME BeliefInv, Followed, SettingsPage, ChangeMode \/ Rebind,
         upset' = (upset \/ want = "deafen" \/ ~Settled \/ astray \/ binding' # "key")
  PROVE  Followed'
<1> USE DEF Followed, KeysInv, TargetInv
<1>1. UNCHANGED <<believed, astray, taps, target, owned, leaving, voice, want, lost>>
  BY DEF SettingsPage, ChangeMode, Rebind, keyVars, workerVars, attemptVars, history
<1>2. upset' \in BOOLEAN /\ (~upset' => binding' = "key")
  OBVIOUS
<1>3. ASSUME ~upset'
      PROVE  taps = 0 /\ target = "none" /\ ~owned /\ ~believed /\ voice = "off" /\ want # "deafen"
  <2>1. ~upset /\ want # "deafen" /\ taps = 0 /\ target = "none" /\ ~astray /\ ~leaving
    BY <1>3 DEF Settled
  <2>2. taps % 2 = 0
    BY <2>1
  <2>3. (voice # "off") <=> believed
    BY <2>1, <2>2 DEF BeliefInv, BeliefTracks, WillBeDeafened
  <2>4. mode \in {"direct", "keybind"} /\ believed \in BOOLEAN /\ owned \in BOOLEAN
    BY DEF BeliefInv, DeliveryTypeOK
  <2> QED BY <2>1, <2>3, <2>4
<1>4. KeysInv' /\ TargetInv'
  <2>1. CASE upset'
    BY <2>1
  <2>2. CASE ~upset'
    <3>1. believed' = FALSE /\ want' # "deafen" /\ target' = "none" /\ owned' = FALSE
      BY <1>1, <1>3, <2>2 DEF BeliefInv, DeliveryTypeOK
    <3>2. taps' = 0 /\ voice' = "off"
      BY <1>1, <1>3, <2>2
    <3> QED BY <3>1, <3>2
  <2> QED BY <2>1, <2>2
<1> QED BY <1>1, <1>2, <1>4

(* and a logout leaves owner and Discord to the worker. *)
LEMMA LogoutFollows ==
  ASSUME BeliefInv, Followed, SettingsPage, Logout, UNCHANGED upset PROVE Followed'
<1>1. /\ target' = "none" /\ leaving' = TRUE
      /\ UNCHANGED <<mode, binding, believed, taps, owned, voice, want, lost, upset>>
  BY DEF SettingsPage, Logout, keyVars, attemptVars, history
<1> QED BY <1>1 DEF Followed, KeysInv, TargetInv

(* The worker serves a target as it was meant, whatever Discord was. *)
LEMMA ServeFollows ==
  ASSUME BeliefInv, Followed, Serve, UNCHANGED <<upset, want, lost>> PROVE Followed'
<1> USE DEF Followed, KeysInv, TargetInv
<1>1. /\ target # "none" /\ target' = "none" /\ ~leaving
      /\ UNCHANGED <<mode, binding, believed, taps, leaving>>
  BY DEF Serve
<1>2. CASE mode = "keybind"
  BY <1>1, <1>2
<1>3. CASE mode = "direct" /\ upset
  BY <1>1, <1>3
<1>4. CASE mode = "direct" /\ ~upset
  <2>1. /\ taps = 0 /\ voice = IF owned THEN "session" ELSE "off"
        /\ want = target /\ (target = "deafen" => ~owned)
    BY <1>1, <1>4
  <2>2. CASE target = "deafen"
    <3>1. voice = "off"
      BY <2>1, <2>2
    <3>2. owned' = TRUE /\ voice' = "session"
      BY <2>2, <3>1 DEF Serve, SetVoice
    <3> QED BY <1>1, <1>4, <2>1, <2>2, <3>2
  <2>3. CASE target = "undeafen"
    <3>1. CASE owned
      BY <1>1, <1>4, <2>1, <2>3, <3>1 DEF Serve, SetVoice
    <3>2. CASE ~owned
      BY <1>1, <1>4, <2>1, <2>3, <3>2 DEF Serve
    <3> QED BY <3>1, <3>2
  <2> QED BY <1>1, <2>2, <2>3 DEF BeliefInv, DeliveryTypeOK
<1> QED BY <1>2, <1>3, <1>4 DEF BeliefInv, DeliveryTypeOK

(* A target that fails is made up for or lost as long as Discord is not left
   deafened, *)
LEMMA FailFollows ==
  ASSUME BeliefInv, Followed, ServeFails, UNCHANGED want,
         upset' = (upset \/ voice' # "off"), lost' = (want = "deafen")
  PROVE  Followed'
<1> USE DEF Followed, KeysInv, TargetInv
<1>1. /\ target # "none" /\ target' = "none" /\ ~leaving
      /\ UNCHANGED <<mode, binding, believed, taps, leaving>>
  BY DEF ServeFails
<1>2. CASE mode = "keybind"
  BY <1>1, <1>2
<1>3. CASE mode = "direct" /\ upset'
  BY <1>1, <1>3
<1>4. CASE mode = "direct" /\ ~upset'
  <2>1. ~upset /\ voice' = "off"
    BY <1>4
  <2>2. owned' = FALSE
    <3>1. voice = IF owned THEN "session" ELSE "off"
      BY <1>4, <2>1
    <3>2. CASE UNCHANGED <<owned, voice, astray>>
      BY <2>1, <3>1, <3>2 DEF BeliefInv, DeliveryTypeOK
    <3>3. CASE SetVoice("session")
      BY <2>1, <3>3 DEF SetVoice
    <3>4. CASE owned' = FALSE
      BY <3>4
    <3> QED BY <3>2, <3>3, <3>4 DEF ServeFails
  <2> QED BY <1>1, <1>4, <2>1, <2>2
<1> QED BY <1>1, <1>2, <1>3, <1>4 DEF BeliefInv, DeliveryTypeOK

(* and so is the deafen that ends with its session, by itself or logged out. *)
LEMMA EndFollows ==
  ASSUME BeliefInv, Followed, LoseSession \/ ServeLogout, UNCHANGED <<upset, want>>,
         lost' = (want = "deafen")
  PROVE  Followed'
<1> USE DEF Followed, KeysInv, TargetInv
<1>1. /\ owned' = FALSE /\ voice' = IF voice = "session" THEN "off" ELSE voice
      /\ target' \in {target, "none"}
      /\ UNCHANGED <<mode, binding, believed, taps>>
  BY DEF LoseSession, ServeLogout, Disconnect, SetVoice
<1>2. target' # "none" => target' = target /\ (~leaving' => ~leaving)
  BY <1>1 DEF LoseSession, ServeLogout
<1>3. mode = "direct" /\ ~upset => voice' = "off"
  BY <1>1
<1> QED BY <1>1, <1>2, <1>3

(* Presses that arrive, targets, sessions and the user's hand. *)
LEMMA OthersFollow ==
  ASSUME BeliefInv, Followed, Background \/ SessionEnds \/ ByHand PROVE Followed'
<1>1. want' = want
  BY BesidesHooks DEF attemptVars, history
<1>2. CASE KeyArrives /\ UNCHANGED <<upset, lost>>
  BY <1>1, <1>2 DEF KeyArrives, workerVars, Followed, KeysInv, TargetInv
<1>3. CASE Serve /\ UNCHANGED <<upset, lost>>
  BY <1>1, <1>3, ServeFollows
<1>4. CASE ServeFails /\ upset' = (upset \/ voice' # "off") /\ lost' = (want = "deafen")
  BY <1>1, <1>4, FailFollows
<1>5. CASE (LoseSession \/ ServeLogout) /\ UNCHANGED upset /\ lost' = (want = "deafen")
  BY <1>1, <1>5, EndFollows
<1>6. CASE ByHand
  BY <1>1, <1>6 DEF ByHand, ToggleByHand, workerVars, Followed, KeysInv, TargetInv
<1> QED BY <1>2, <1>3, <1>4, <1>5, <1>6 DEF Background, SessionEnds

(* Every step keeps hooks and delivery in agreement. *)
LEMMA StepFollows == ASSUME BeliefInv, Followed, [AutoNext]_autoVars PROVE Followed'
<1>1. CASE Hook
  <2>1. mode \in {"direct", "keybind"}
    BY DEF BeliefInv, DeliveryTypeOK
  <2> QED BY <1>1, <2>1, KeyHookFollows, DirectHookFollows
<1>2. CASE SettingsPage
  BY <1>2, ModeFollows, LogoutFollows DEF SettingsPage
<1>3. CASE Background \/ SessionEnds \/ ByHand
  BY <1>3, OthersFollow
<1>4. CASE UNCHANGED autoVars
  BY <1>4 DEF autoVars, deliveryVars, attemptVars, history, Followed, KeysInv, TargetInv
<1> QED BY <1>1, <1>2, <1>3, <1>4 DEF AutoNext

(* The invariant of the composition holds in every reachable state. *)
THEOREM AutoInvariant == AutoSpec => []AutoInv
<1>1. AutoInit => Followed
  BY AutoStarts
<1>2. BeliefInv /\ Followed /\ [AutoNext]_autoVars => Followed'
  BY StepFollows
<1>3. BeliefInv /\ Followed => AutoInv
  BY DEF AutoInv, Followed
<1> QED BY <1>1, <1>2, <1>3, DeliveryInside, BeliefInvariant, PTL DEF AutoSpec

(* Settled and undisturbed, Discord is deafened only if the hooks last asked
   for it, and if they did, unless direct mode lost that deafen, in both modes
   and across changes of the mode, lost sessions and logouts. *)
THEOREM HooksFollowed == AutoSpec => []FollowsHooks
<1>1. AutoInv => FollowsHooks
  <2> SUFFICES ASSUME AutoInv, Settled, ~Disturbed
               PROVE  /\ voice # "off" => want = "deafen"
                      /\ want = "deafen" => voice # "off" \/ (mode = "direct" /\ lost)
    BY DEF FollowsHooks
  <2>1. CASE mode = "direct"
    <3>1. /\ voice = IF owned THEN "session" ELSE "off"
          /\ owned => want = "deafen"
          /\ want = "deafen" => owned \/ lost
      BY <2>1 DEF AutoInv, TargetInv, Settled, Disturbed
    <3> QED BY <2>1, <3>1
  <2>2. CASE mode = "keybind"
    <3>1. ~astray /\ taps = 0 /\ believed = (want = "deafen")
      BY <2>2 DEF AutoInv, KeysInv, Settled, Disturbed
    <3>2. taps % 2 = 0
      BY <3>1
    <3>3. (voice # "off") <=> believed
      BY <3>1, <3>2 DEF AutoInv, BeliefInv, BeliefTracks, WillBeDeafened
    <3> QED BY <3>1, <3>3
  <2> QED BY <2>1, <2>2 DEF AutoInv, BeliefInv, DeliveryTypeOK
<1> QED BY <1>1, AutoInvariant, PTL

(* What was proved of the hooks and of the belief on their own holds of the
   composition: no interleaving with the delivery takes it back. *)
THEOREM PartsKept == AutoSpec => [](AttemptInv /\ BeliefTracks)
  BY HooksInside, DeliveryInside, AttemptInvariant, Belief, PTL
=============================================================================
