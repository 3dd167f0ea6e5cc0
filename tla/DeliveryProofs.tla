---------------------------- MODULE DeliveryProofs ----------------------------
(***************************************************************************)
(* The belief of keybind mode, for any sequence of requests in any mode,   *)
(* any number of key presses under way and any changes of mode and key.    *)
(***************************************************************************)
EXTENDS Delivery, TLAPS

(* One press more or less inverts what Discord ends in. *)
LEMMA Parity ==
  ASSUME NEW n \in Nat
  PROVE  n % 2 \in {0, 1} /\ (n + 1) % 2 = 1 - (n % 2) /\ (n > 0 => (n - 1) % 2 = 1 - (n % 2))
  OBVIOUS

(* Unless presses, belief, history or Discord change, the belief stays as
   right or wrong as it is. *)
LEMMA QuietKeeps ==
  ASSUME BeliefTracks, UNCHANGED <<believed, astray, taps, voice>>
  PROVE  BeliefTracks'
  BY DEF BeliefTracks, WillBeDeafened

(* What a request does to the belief and to the presses under way. *)
LEMMA TapKeeps ==
  ASSUME BeliefInv, NEW t \in {"deafen", "undeafen"}, TapIfNeeded(t), UNCHANGED voice
  PROVE  BeliefTracks' /\ believed' \in BOOLEAN /\ astray' \in BOOLEAN /\ taps' \in Nat
<1> USE DEF BeliefInv, DeliveryTypeOK
<1>1. CASE UNCHANGED keyVars
  BY <1>1, QuietKeeps DEF keyVars
<1>2. CASE believed # (t = "deafen") /\ believed' = (t = "deafen") /\ TapKey
  <2>1. (believed' <=> ~believed) /\ believed' \in BOOLEAN
    BY <1>2
  <2>2. CASE TapSent
    <3>1. taps' = taps + 1 /\ astray' = astray
      BY <2>2 DEF TapSent
    <3>2. WillBeDeafened' <=> ~WillBeDeafened
      BY <2>1, <3>1, Parity DEF WillBeDeafened
    <3> QED BY <2>1, <3>1, <3>2 DEF BeliefTracks
  <2>3. CASE TapLost
    <3>1. taps' = taps /\ astray' = ~astray
      BY <2>3 DEF TapLost
    <3>2. WillBeDeafened' <=> WillBeDeafened
      BY <2>1, <3>1 DEF WillBeDeafened
    <3> QED BY <2>1, <3>1, <3>2 DEF BeliefTracks
  <2> QED BY <1>2, <2>2, <2>3 DEF TapKey
<1> QED BY <1>1, <1>2 DEF TapIfNeeded

(* A request keeps the invariant in either mode. *)
LEMMA DeliverKeeps ==
  ASSUME BeliefInv, NEW t \in {"deafen", "undeafen"}, Deliver(t)
  PROVE  BeliefInv'
<1>1. UNCHANGED <<mode, binding, voice, turns>>
  BY DEF Deliver
<1>2. CASE TapIfNeeded(t)
  <2>1. UNCHANGED workerVars
    BY <1>2 DEF TapIfNeeded
  <2> QED BY <1>1, <1>2, <2>1, TapKeeps DEF BeliefInv, DeliveryTypeOK, workerVars
<1>3. CASE PostTarget(t)
  <2>1. BeliefTracks'
    BY <1>1, <1>3, QuietKeeps DEF PostTarget, keyVars, BeliefInv
  <2> QED BY <1>1, <1>3, <2>1 DEF PostTarget, keyVars, BeliefInv, DeliveryTypeOK
<1> QED BY <1>2, <1>3 DEF Deliver

(* A press that arrives changes Discord, not what it ends in. *)
LEMMA ArrivalKeeps == ASSUME BeliefInv, KeyArrives PROVE BeliefInv'
<1> USE DEF BeliefInv, DeliveryTypeOK
<1>1. taps' = taps - 1 /\ taps > 0
  BY DEF KeyArrives
<1>2. voice' \in {"off", "key"} /\ (voice' = "off" <=> voice # "off")
  BY DEF KeyArrives, Toggle
<1>3. taps % 2 \in {0, 1} /\ taps' % 2 = 1 - (taps % 2)
  BY <1>1, Parity
<1>4. WillBeDeafened' <=> WillBeDeafened
  BY <1>2, <1>3 DEF WillBeDeafened
<1> QED BY <1>1, <1>2, <1>4 DEF KeyArrives, BeliefTracks, workerVars

(* A press by hand inverts what Discord ends in. *)
LEMMA ByHandKeeps == ASSUME BeliefInv, ToggleByHand PROVE BeliefInv'
<1> USE DEF BeliefInv, DeliveryTypeOK
<1>1. voice' \in {"off", "user"} /\ (voice' = "off" <=> voice # "off")
  BY DEF ToggleByHand, Toggle
<1>2. taps' = taps /\ astray' = ~astray
  BY DEF ToggleByHand
<1>3. WillBeDeafened' <=> ~WillBeDeafened
  BY <1>1, <1>2 DEF WillBeDeafened
<1>4. believed' = believed
  BY DEF ToggleByHand
<1>5. BeliefTracks'
  BY <1>2, <1>3, <1>4 DEF BeliefTracks
<1> QED BY <1>1, <1>2, <1>4, <1>5 DEF ToggleByHand, Turn, workerVars

(* What the worker does to Discord inverts what it ends in if it changes
   anything, and the history keeps account of it. *)
LEMMA SetVoiceKeeps ==
  ASSUME BeliefInv, NEW v \in {"off", "user", "key", "session"}, SetVoice(v),
         UNCHANGED <<believed, taps>>
  PROVE  BeliefTracks' /\ astray' \in BOOLEAN /\ voice' \in {"off", "user", "key", "session"}
<1> USE DEF BeliefInv, DeliveryTypeOK
<1>1. voice' = v
  BY DEF SetVoice
<1>2. CASE (voice = "off") = (v = "off")
  <2>1. astray' = astray
    BY <1>2 DEF SetVoice
  <2>2. WillBeDeafened' <=> WillBeDeafened
    BY <1>1, <1>2 DEF WillBeDeafened
  <2> QED BY <1>1, <2>1, <2>2 DEF BeliefTracks
<1>3. CASE (voice = "off") # (v = "off")
  <2>1. astray' = ~astray
    BY <1>3 DEF SetVoice
  <2>2. WillBeDeafened' <=> ~WillBeDeafened
    BY <1>1, <1>3 DEF WillBeDeafened
  <2> QED BY <1>1, <2>1, <2>2 DEF BeliefTracks
<1> QED BY <1>2, <1>3

(* A target served keeps the invariant, *)
LEMMA ServeKeeps == ASSUME BeliefInv, Serve PROVE BeliefInv'
<1>1. target' = "none" /\ UNCHANGED <<mode, binding, believed, taps, leaving, turns>>
  BY DEF Serve
<1>2. BeliefTracks' /\ astray' \in BOOLEAN /\ voice' \in {"off", "user", "key", "session"}
  <2>1. CASE SetVoice("session")
    BY <1>1, <2>1, SetVoiceKeeps
  <2>2. CASE SetVoice("off")
    BY <1>1, <2>2, SetVoiceKeeps
  <2>3. CASE UNCHANGED <<voice, astray>>
    BY <1>1, <2>3, QuietKeeps DEF BeliefInv, DeliveryTypeOK
  <2> QED BY <2>1, <2>2, <2>3 DEF Serve
<1>3. owned' \in BOOLEAN
  BY DEF Serve, BeliefInv, DeliveryTypeOK
<1> QED BY <1>1, <1>2, <1>3 DEF BeliefInv, DeliveryTypeOK

(* and so does one that fails, whatever it did to Discord. *)
LEMMA FailKeeps == ASSUME BeliefInv, ServeFails PROVE BeliefInv'
<1>1. target' = "none" /\ UNCHANGED <<mode, binding, believed, taps, leaving, turns>>
  BY DEF ServeFails
<1>2. BeliefTracks' /\ astray' \in BOOLEAN /\ voice' \in {"off", "user", "key", "session"}
  <2>1. CASE SetVoice("session")
    BY <1>1, <2>1, SetVoiceKeeps
  <2>2. CASE SetVoice("off")
    BY <1>1, <2>2, SetVoiceKeeps
  <2>3. CASE UNCHANGED <<voice, astray>>
    BY <1>1, <2>3, QuietKeeps DEF BeliefInv, DeliveryTypeOK
  <2> QED BY <2>1, <2>2, <2>3 DEF ServeFails
<1>3. owned' \in BOOLEAN
  BY DEF ServeFails, BeliefInv, DeliveryTypeOK
<1> QED BY <1>1, <1>2, <1>3 DEF BeliefInv, DeliveryTypeOK

(* The end of a session, noticed or asked for, keeps it. *)
LEMMA EndKeeps == ASSUME BeliefInv, LoseSession \/ ServeLogout PROVE BeliefInv'
<1>1. /\ Disconnect /\ UNCHANGED <<mode, binding, believed, taps, turns>>
      /\ leaving' \in BOOLEAN /\ target' \in {"none", "deafen", "undeafen"}
  BY DEF LoseSession, ServeLogout, BeliefInv, DeliveryTypeOK
<1>2. PICK v \in {"off", "user", "key", "session"} : SetVoice(v)
  BY <1>1 DEF Disconnect, BeliefInv, DeliveryTypeOK
<1>3. BeliefTracks' /\ astray' \in BOOLEAN /\ voice' \in {"off", "user", "key", "session"}
  BY <1>1, <1>2, SetVoiceKeeps
<1> QED BY <1>1, <1>3 DEF Disconnect, BeliefInv, DeliveryTypeOK

(* With its types, the property of the belief is inductive. *)
THEOREM BeliefInvariant == DeliverySpec => []BeliefInv
<1>1. DeliveryInit => BeliefInv
  <2> SUFFICES ASSUME DeliveryInit PROVE BeliefInv
    OBVIOUS
  <2>1. taps = 0 /\ taps % 2 = 0 /\ ~believed /\ ~astray /\ voice = "off"
    BY DEF DeliveryInit
  <2>2. BeliefTracks
    BY <2>1 DEF BeliefTracks, WillBeDeafened
  <2> QED BY <2>2, DeliveryAssumption
          DEF DeliveryAssumption, DeliveryInit, BeliefInv, DeliveryTypeOK
<1>2. BeliefInv /\ [DeliveryNext]_deliveryVars => BeliefInv'
  <2> SUFFICES ASSUME BeliefInv, [DeliveryNext]_deliveryVars PROVE BeliefInv'
    OBVIOUS
  <2>1. CASE \E t \in {"deafen", "undeafen"} : Deliver(t)
    BY <2>1, DeliverKeeps
  <2>2. CASE KeyArrives
    BY <2>2, ArrivalKeeps
  <2>3. CASE Serve
    BY <2>3, ServeKeeps
  <2>4. CASE ServeFails
    BY <2>4, FailKeeps
  <2>5. CASE ToggleByHand
    BY <2>5, ByHandKeeps
  <2>6. CASE ChangeMode
    <3>1. BeliefTracks'
      BY <2>6, QuietKeeps DEF ChangeMode, keyVars, BeliefInv
    <3> QED BY <2>6, <3>1 DEF ChangeMode, Turn, keyVars, workerVars, BeliefInv, DeliveryTypeOK
  <2>7. CASE Rebind
    <3>1. BeliefTracks'
      BY <2>7, QuietKeeps DEF Rebind, keyVars, BeliefInv
    <3> QED BY <2>7, <3>1 DEF Rebind, Turn, keyVars, workerVars, BeliefInv, DeliveryTypeOK
  <2>8. CASE Logout
    <3>1. BeliefTracks'
      BY <2>8, QuietKeeps DEF Logout, keyVars, BeliefInv
    <3> QED BY <2>8, <3>1 DEF Logout, Turn, keyVars, BeliefInv, DeliveryTypeOK
  <2>9. CASE LoseSession \/ ServeLogout
    BY <2>9, EndKeeps
  <2>10. CASE UNCHANGED deliveryVars
    <3>1. BeliefTracks'
      BY <2>10, QuietKeeps DEF deliveryVars, BeliefInv
    <3> QED BY <2>10, <3>1 DEF deliveryVars, BeliefInv, DeliveryTypeOK
  <2> QED BY <2>1, <2>2, <2>3, <2>4, <2>5, <2>6, <2>7, <2>8, <2>9, <2>10
          DEF DeliveryNext, Elsewhere, WorkerTurn
<1> QED BY <1>1, <1>2, PTL DEF DeliverySpec

(* Keybind mode's belief is wrong exactly while an odd number of toggles
   happened without it, whatever the modes, the platform and the bounds. *)
THEOREM Belief == DeliverySpec => []BeliefTracks
<1>1. BeliefInv => BeliefTracks
  BY DEF BeliefInv
<1> QED BY <1>1, BeliefInvariant, PTL

(* Settings, belief, worker and Discord keep their types in either mode. *)
THEOREM DeliveryTypes == DeliverySpec => []DeliveryTypeOK
<1>1. BeliefInv => DeliveryTypeOK
  BY DEF BeliefInv
<1> QED BY <1>1, BeliefInvariant, PTL
=============================================================================
