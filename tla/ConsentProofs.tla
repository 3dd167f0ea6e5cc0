---------------------------- MODULE ConsentProofs ----------------------------
(***************************************************************************)
(* Proofs about the authorization in the browser (Consent, OAuthRedirect), *)
(* for any deadline, any clients of the port and any number of attempts.   *)
(***************************************************************************)
EXTENDS Consent, TLAPS

(* The authorization starts in ConsentInv. *)
LEMMA ConsentInit == ASSUME Init PROVE ConsentInv
<1> USE RedirectAssumption, ConsentAssumption DEF Init, RedirectInit, RedirectAssumption,
      ConsentAssumption
<1>1. TypeOK
  <2>1. queue \in Seq(ClientKinds) /\ served \in Seq(ClientKinds)
    OBVIOUS
  <2>2. clock \in 0..Timeout /\ arrived \in 0..MaxClients
    OBVIOUS
  <2> QED BY <2>1, <2>2 DEF TypeOK
<1>2. ConsentTypeOK
  <2>1. NoCode \in [challenge : 0..0, redirect : BOOLEAN] /\ attempt = 0 /\ issue = NoCode
    BY DEF NoCode
  <2>2. links \in Seq(1..attempt) /\ attempt \in 0..MaxAttempts /\ tabs \subseteq 1..attempt
    OBVIOUS
  <2> QED BY <2>1, <2>2 DEF ConsentTypeOK
<1> QED
  BY <1>1, <1>2
  DEF ConsentInv, EndsForAReason, RefusedForAReason, ServingInv, CodeInv, PromptingInv, PromptInv

-----------------------------------------------------------------------------
(* A client at the door, whether anybody listens or not. *)
LEMMA ConnectsKeeps ==
  ASSUME TypeOK, NEW kind \in ClientKinds, Connects(kind), arrived' \in 0..MaxClients
  PROVE  /\ TypeOK' /\ UNCHANGED <<listening, clock, client, code, served>>
  BY DEF TypeOK, Connects

(* What the listener does keeps its own part of the invariant. *)
LEMMA ListenerKeeps == ASSUME ConsentInv, Listener PROVE ConsentInv'
<1> USE RedirectAssumption DEF RedirectAssumption
<1>1. UNCHANGED <<attempt, stage, viaBrowser, issue, links, tabs, outcome>>
  BY DEF Listener
<1>2. TypeOK /\ ServingInv /\ CodeInv /\ EndsForAReason /\ ConsentTypeOK
  BY DEF ConsentInv
<1>3. /\ TypeOK' /\ ServingInv' /\ CodeInv' /\ EndsForAReason'
      /\ (listening' => listening) /\ (~listening => UNCHANGED <<served, code>>)
  <2>1. CASE Accept
    BY <1>2, <2>1 DEF Accept, TypeOK, ServingInv, CodeInv, EndsForAReason
  <2>2. CASE Receive
    <3>1. listening /\ ~code /\ client \in ClientKinds
      BY <1>2, <2>2 DEF Receive, TypeOK, ServingInv
    <3>2. \A i \in DOMAIN served : served[i] \notin Coded
      BY <1>2, <3>1 DEF EndsForAReason
    <3>3. TypeOK' /\ ServingInv'
      BY <1>2, <2>2, <3>1 DEF Receive, TypeOK, ServingInv
    <3>4. /\ Len(served') = Len(served) + 1 /\ DOMAIN served' = 1..(Len(served) + 1)
          /\ served'[Len(served) + 1] = client
          /\ \A i \in 1..Len(served) : served'[i] = served[i] /\ i \in DOMAIN served
      BY <1>2, <2>2, <3>1 DEF Receive, TypeOK
    <3>5. EndsForAReason'
      <4>1. ASSUME NEW i \in DOMAIN served', served'[i] \in Coded
            PROVE  i = Len(served') /\ code'
        <5>1. i \notin 1..Len(served)
          BY <3>2, <3>4, <4>1
        <5>2. i = Len(served) + 1
          BY <1>2, <3>4, <5>1 DEF TypeOK
        <5> QED BY <2>2, <3>4, <4>1, <5>2 DEF Receive
      <4>2. listening'
        BY <2>2, <3>1 DEF Receive
      <4> QED BY <4>1, <4>2 DEF EndsForAReason
    <3>6. CodeInv'
      <4>1. Last(served') = client /\ served' # <<>>
        BY <3>4 DEF Last
      <4> QED BY <2>2, <4>1 DEF Receive, CodeInv
    <3> QED BY <2>2, <3>1, <3>3, <3>5, <3>6 DEF Receive
  <2>3. CASE Finish
    BY <1>2, <2>3 DEF Finish, TypeOK, ServingInv, CodeInv, EndsForAReason
  <2>4. CASE Tick
    BY <1>2, <2>4 DEF Tick, TypeOK, ServingInv, CodeInv, EndsForAReason
  <2>5. CASE Arrive
    <3>1. PICK kind \in Clients : Connects(kind)
      BY <2>5 DEF Arrive
    <3>2. kind \in ClientKinds
      BY DEF ClientKinds
    <3>3. arrived' \in 0..MaxClients
      BY <1>2, <2>5 DEF Arrive, TypeOK
    <3> QED BY <1>2, <3>1, <3>2, <3>3, ConnectsKeeps DEF ServingInv, CodeInv, EndsForAReason
  <2> QED BY <2>1, <2>2, <2>3, <2>4, <2>5 DEF Listener, Serving
<1>4. CASE stage = "wait"
  BY <1>1, <1>3, <1>4 DEF ConsentInv, ConsentTypeOK, RefusedForAReason, PromptingInv, PromptInv
<1>5. CASE stage # "wait"
  <2>1. ~listening /\ UNCHANGED <<served, code>>
    BY <1>2, <1>3, <1>5 DEF ConsentTypeOK
  <2> QED
    BY <1>1, <1>3, <2>1 DEF ConsentInv, ConsentTypeOK, RefusedForAReason, PromptingInv, PromptInv
<1> QED BY <1>4, <1>5

(* Where the listener's variables stay, so does its part of the invariant. *)
LEMMA ListenerStays ==
  ASSUME ConsentInv, UNCHANGED redirectVars
  PROVE  /\ TypeOK' /\ EndsForAReason' /\ ServingInv' /\ CodeInv'
         /\ (listening' => listening) /\ UNCHANGED <<served, code>>
  BY DEF ConsentInv, redirectVars, TypeOK, EndsForAReason, ServingInv, CodeInv

(* What is known of an attempt and the tabs at any time. *)
LEMMA Types ==
  ASSUME ConsentInv
  PROVE  /\ attempt \in Nat /\ MaxAttempts \in Nat /\ attempt <= MaxAttempts
         /\ arrived \in Nat /\ MaxClients \in Nat
         /\ 0 \in 0..attempt /\ attempt \in 0..attempt
         /\ tabs \subseteq 1..attempt /\ links \in Seq(1..attempt)
         /\ issue \in [challenge : 0..attempt, redirect : BOOLEAN] /\ viaBrowser \in BOOLEAN
         /\ stage \notin {"wait"} => ~listening
<1>1. MaxAttempts \in Nat /\ MaxClients \in Nat
  BY RedirectAssumption, ConsentAssumption DEF RedirectAssumption, ConsentAssumption
<1>2. attempt \in 0..MaxAttempts /\ arrived \in 0..MaxClients
  BY DEF ConsentInv, ConsentTypeOK, TypeOK
<1>3. stage \notin {"wait"} => ~listening
  BY DEF ConsentInv, ConsentTypeOK
<1>4. /\ tabs \subseteq 1..attempt /\ links \in Seq(1..attempt)
      /\ issue \in [challenge : 0..attempt, redirect : BOOLEAN] /\ viaBrowser \in BOOLEAN
  BY DEF ConsentInv, ConsentTypeOK
<1> QED BY <1>1, <1>2, <1>3, <1>4

(* An attempt has given up or is done. *)
LEMMA FailKeeps ==
  ASSUME ConsentInv, NEW reason \in {"no port", "no code", "failed", "refused", "granted"},
         Fail(reason), UNCHANGED <<redirectVars, attempt, issue, links, tabs>>, ~listening,
         viaBrowser' \in BOOLEAN,
         reason = "refused" => viaBrowser' /\ Last(served) \in Coded \ {"code"}
  PROVE  ConsentInv'
<1>1. stage' = "idle" /\ outcome' = reason /\ UNCHANGED <<attempt, issue, links, tabs>>
  BY DEF Fail
<1>2. ConsentTypeOK'
  BY <1>1, ListenerStays DEF ConsentInv, ConsentTypeOK
<1>3. RefusedForAReason' /\ PromptingInv' /\ PromptInv'
  BY <1>1, ListenerStays DEF RefusedForAReason, PromptingInv, PromptInv
<1> QED
  BY <1>2, <1>3, ListenerStays DEF ConsentInv

(* So does every step of authenticate. *)
LEMMA AuthenticateKeeps == ASSUME ConsentInv, Authenticate PROVE ConsentInv'
<1>1. CASE PromptGranted
  <2>1. /\ ~listening /\ stage = "prompt" /\ stage' = "exchange"
        /\ UNCHANGED <<attempt, viaBrowser, links, tabs, outcome>>
        /\ issue' = [challenge |-> attempt, redirect |-> FALSE]
    BY <1>1, Types DEF PromptGranted
  <2>2. TypeOK' /\ EndsForAReason' /\ ServingInv' /\ CodeInv' /\ (listening' => listening)
    BY <1>1, ListenerStays DEF PromptGranted
  <2>3. attempt \in 0..attempt
    BY Types
  <2>4. issue' \in [challenge : 0..attempt', redirect : BOOLEAN]
    BY <2>1, <2>3
  <2>5. ConsentTypeOK'
    BY <2>1, <2>2, <2>4, Types DEF ConsentInv, ConsentTypeOK
  <2> QED BY <2>1, <2>2, <2>5 DEF ConsentInv, RefusedForAReason, PromptingInv, PromptInv
<1>2. CASE PromptFails
  <2>1. /\ ~listening /\ stage = "prompt" /\ stage' = "bind"
        /\ UNCHANGED <<attempt, viaBrowser, issue, tabs, outcome>>
        /\ links' = Append(links, attempt)
    BY <1>2, Types DEF PromptFails
  <2>2. TypeOK' /\ EndsForAReason' /\ ServingInv' /\ CodeInv' /\ (listening' => listening)
    BY <1>2, ListenerStays DEF PromptFails
  <2>3. links' \in Seq(1..attempt')
    BY <1>2, <2>1, Types DEF PromptFails, ConsentInv, PromptingInv
  <2>4. ConsentTypeOK'
    BY <2>1, <2>2, <2>3, Types DEF ConsentInv, ConsentTypeOK
  <2> QED BY <2>1, <2>2, <2>4 DEF ConsentInv, RefusedForAReason, PromptingInv, PromptInv
<1>3. CASE PortTaken
  BY <1>3, FailKeeps, Types DEF PortTaken
<1>4. CASE PortBound
  <2>1. /\ UNCHANGED <<attempt, viaBrowser, issue, links, tabs, outcome>>
        /\ stage = "bind" /\ stage' = "wait"
    BY <1>4 DEF PortBound
  <2>2. TypeOK' /\ EndsForAReason' /\ ServingInv' /\ CodeInv'
    <3>1. /\ listening' = TRUE /\ code' = FALSE /\ clock' = 0 /\ arrived' = arrived
          /\ queue' = <<>> /\ served' = <<>> /\ client' = "none"
      BY <1>4 DEF PortBound, Listen
    <3>2. queue' \in Seq(ClientKinds) /\ served' \in Seq(ClientKinds) /\ DOMAIN served' = {}
      BY <3>1
    <3>3. clock' \in 0..Timeout /\ arrived' \in 0..MaxClients
      BY <3>1, RedirectAssumption DEF RedirectAssumption, ConsentInv, TypeOK
    <3>4. TypeOK'
      BY <3>1, <3>2, <3>3 DEF TypeOK
    <3> QED BY <3>1, <3>2, <3>4 DEF EndsForAReason, ServingInv, CodeInv
  <2>3. ConsentTypeOK'
    BY <2>1 DEF ConsentInv, ConsentTypeOK
  <2> QED BY <2>1, <2>2, <2>3 DEF ConsentInv, RefusedForAReason, PromptingInv, PromptInv
<1>5. CASE Heard
  <2>1. CASE ~code
    BY <1>5, <2>1, FailKeeps DEF Heard
  <2>2. CASE code
    <3>1. /\ ~listening /\ stage = "wait" /\ stage' = "exchange" /\ viaBrowser' = TRUE
          /\ UNCHANGED <<attempt, links, tabs, outcome>>
          /\ issue' \in Issued(Last(served))
      BY <1>5, <2>2 DEF Heard
    <3>2. /\ TypeOK' /\ EndsForAReason' /\ ServingInv' /\ CodeInv' /\ (listening' => listening)
          /\ code' /\ served' = served
      BY <1>5, <2>2, ListenerStays DEF Heard
    <3>3. attempt \in 0..attempt /\ 0 \in 0..attempt
      BY Types
    <3>4. /\ issue' \in [challenge : 0..attempt', redirect : BOOLEAN]
          /\ Last(served) = "code" => issue' = [challenge |-> attempt, redirect |-> TRUE]
      <4>1. CASE Last(served) = "code"
        <5>1. issue' = [challenge |-> attempt, redirect |-> TRUE]
          BY <3>1, <4>1 DEF Issued
        <5> QED BY <3>1, <3>3, <5>1
      <4>2. CASE Last(served) # "code"
        <5>1. issue' \in [challenge : {0}, redirect : BOOLEAN] /\ attempt' = attempt
          BY <3>1, <4>2 DEF Issued
        <5> QED BY <3>3, <4>2, <5>1
      <4> QED BY <4>1, <4>2
    <3>5. ConsentTypeOK'
      BY <3>1, <3>2, <3>4, Types DEF ConsentInv, ConsentTypeOK
    <3> QED BY <3>1, <3>2, <3>4, <3>5 DEF ConsentInv, RefusedForAReason, PromptingInv, PromptInv
  <2> QED BY <2>1, <2>2
<1>6. CASE Exchange
  <2>1. ~listening /\ UNCHANGED <<redirectVars, attempt, viaBrowser, issue, links, tabs>>
    BY <1>6, Types DEF Exchange
  <2>2. PICK reason \in {"failed", "refused", "granted"} :
          /\ Fail(reason)
          /\ reason = "refused" =>
               Sent # [verifier |-> issue.challenge, redirect |-> issue.redirect]
    BY <1>6 DEF Exchange
  <2>3. reason = "refused" => viaBrowser /\ Last(served) \in Coded \ {"code"}
    <3> SUFFICES ASSUME reason = "refused" PROVE viaBrowser /\ Last(served) \in Coded \ {"code"}
      OBVIOUS
    <3>1. CASE ~viaBrowser
      <4>1. issue = [challenge |-> attempt, redirect |-> FALSE]
        BY <1>6, <3>1 DEF Exchange, ConsentInv, PromptInv
      <4>2. viaBrowser = FALSE
        BY <3>1, Types
      <4>3. Sent = [verifier |-> issue.challenge, redirect |-> issue.redirect]
        BY <4>1, <4>2 DEF Sent
      <4> QED BY <2>2, <4>3
    <3>2. CASE viaBrowser
      <4>1. code /\ (Last(served) = "code" => issue = [challenge |-> attempt, redirect |-> TRUE])
        BY <1>6, <3>2 DEF Exchange, ConsentInv, PromptInv
      <4>2. viaBrowser = TRUE
        BY <3>2, Types
      <4>3. ASSUME Last(served) = "code" PROVE FALSE
        <5>1. issue = [challenge |-> attempt, redirect |-> TRUE]
          BY <4>1, <4>3
        <5>2. Sent = [verifier |-> issue.challenge, redirect |-> issue.redirect]
          BY <4>2, <5>1 DEF Sent
        <5> QED BY <2>2, <5>2
      <4>4. Last(served) \in Coded
        BY <4>1 DEF ConsentInv, CodeInv
      <4> QED BY <3>2, <4>3, <4>4
    <3> QED BY <3>1, <3>2
  <2> QED BY <2>1, <2>2, <2>3, FailKeeps, Types
<1> QED BY <1>1, <1>2, <1>3, <1>4, <1>5, <1>6 DEF Authenticate

(* A new attempt, whose number none had before it. *)
LEMMA BeginKeeps == ASSUME ConsentInv, Begin PROVE ConsentInv'
<1>1. /\ ~listening /\ attempt' = attempt + 1 /\ attempt < MaxAttempts
      /\ stage' = "prompt" /\ viaBrowser' = FALSE /\ issue' = NoCode
      /\ UNCHANGED <<links, tabs, outcome>>
  BY Types DEF Begin
<1>2. TypeOK' /\ EndsForAReason' /\ ServingInv' /\ CodeInv' /\ (listening' => listening)
  BY ListenerStays DEF Begin
<1>3. /\ attempt' \in 0..MaxAttempts /\ attempt' > 0
      /\ 1..attempt \subseteq 1..attempt' /\ 0 \in 0..attempt'
  BY <1>1, Types
<1>4. issue' \in [challenge : 0..attempt', redirect : BOOLEAN]
  BY <1>1, <1>3 DEF NoCode
<1>5. links' \in Seq(1..attempt')
  BY <1>1, <1>3, Types
<1>6. tabs' \subseteq 1..attempt'
  BY <1>1, <1>3, Types
<1>7. ConsentTypeOK'
  BY <1>1, <1>2, <1>3, <1>4, <1>5, <1>6 DEF ConsentInv, ConsentTypeOK
<1> QED BY <1>1, <1>2, <1>3, <1>7 DEF ConsentInv, RefusedForAReason, PromptingInv, PromptInv

(* Tabs are opened and decided in. *)
LEMMA TabsKeep == ASSUME ConsentInv, OpenLink \/ UserDecides PROVE ConsentInv'
<1>1. UNCHANGED <<attempt, stage, viaBrowser, issue, outcome>>
  BY DEF OpenLink, UserDecides
<1>2. CASE OpenLink
  <2>1. Head(links) \in 1..attempt /\ links' \in Seq(1..attempt)
    BY <1>2, Types DEF OpenLink
  <2>2. tabs' \subseteq 1..attempt
    BY <1>2, <2>1, Types DEF OpenLink
  <2>3. /\ TypeOK' /\ EndsForAReason' /\ ServingInv' /\ CodeInv' /\ (listening' => listening)
        /\ UNCHANGED <<served, code>>
    BY <1>2, ListenerStays DEF OpenLink
  <2> QED
    BY <1>1, <2>1, <2>2, <2>3
    DEF ConsentInv, ConsentTypeOK, RefusedForAReason, PromptingInv, PromptInv
<1>3. CASE UserDecides
  <2>1. tabs' \subseteq tabs /\ links' = links /\ arrived' = arrived + 1 /\ arrived < MaxClients
    BY <1>3 DEF UserDecides
  <2>2. PICK kind \in ClientKinds : Connects(kind)
    BY <1>3 DEF UserDecides, ClientKinds
  <2>3. arrived' \in 0..MaxClients
    BY <2>1, Types
  <2>4. TypeOK' /\ UNCHANGED <<listening, clock, client, code, served>>
    BY <2>2, <2>3, ConnectsKeeps DEF ConsentInv
  <2>5. ConsentTypeOK'
    BY <1>1, <2>1, <2>4 DEF ConsentInv, ConsentTypeOK
  <2> QED
    BY <1>1, <2>4, <2>5
    DEF ConsentInv, EndsForAReason, RefusedForAReason, ServingInv, CodeInv, PromptingInv, PromptInv
<1> QED BY <1>2, <1>3

(* The inductive invariant of the authorization. *)
THEOREM ConsentInvariant == Spec => []ConsentInv
<1>1. ConsentInv /\ [Next]_consentVars => ConsentInv'
  <2> SUFFICES ASSUME ConsentInv, [Next]_consentVars PROVE ConsentInv'
    OBVIOUS
  <2>1. CASE UNCHANGED consentVars
    <3>1. /\ TypeOK' /\ EndsForAReason' /\ ServingInv' /\ CodeInv' /\ (listening' => listening)
          /\ UNCHANGED <<served, code>>
      BY <2>1, ListenerStays DEF consentVars
    <3>2. UNCHANGED <<attempt, stage, viaBrowser, issue, links, tabs, outcome>>
      BY <2>1 DEF consentVars
    <3> QED
      BY <3>1, <3>2 DEF ConsentInv, ConsentTypeOK, RefusedForAReason, PromptingInv, PromptInv
  <2> QED
    BY <2>1, ListenerKeeps, AuthenticateKeeps, BeginKeeps, TabsKeep DEF Next
<1> QED BY <1>1, ConsentInit, PTL DEF Spec

(* The listener's variables keep their types; a client is served only while
   the port is bound. *)
THEOREM ListenerTypes == Spec => []TypeOK
<1>1. ConsentInv => TypeOK
  BY DEF ConsentInv
<1> QED BY <1>1, ConsentInvariant, PTL

(* The port is bound during the wait of an attempt only. *)
THEOREM ConsentTypes == Spec => []ConsentTypeOK
<1>1. ConsentInv => ConsentTypeOK
  BY DEF ConsentInv
<1> QED BY <1>1, ConsentInvariant, PTL

(* Whatever connects to the port, in any order and number, the wait ends with a
   code, the last thing received, or because the time is up. *)
THEOREM WaitEndsForAReason == Spec => []EndsForAReason
<1>1. ConsentInv => EndsForAReason
  BY DEF ConsentInv
<1> QED BY <1>1, ConsentInvariant, PTL

(* Of the codes of this attempt none that came whole is refused, however many
   tabs are left open, whenever the user decides in them and whoever else
   connects. *)
THEOREM OwnCodeNotRefused == Spec => []RefusedForAReason
<1>1. ConsentInv => RefusedForAReason
  BY DEF ConsentInv
<1> QED BY <1>1, ConsentInvariant, PTL
=============================================================================
