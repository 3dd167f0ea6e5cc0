------------------------------- MODULE Consent -------------------------------
(***************************************************************************)
(* The full authorization (discord_rpc.cpp authenticate, :252-304), one    *)
(* attempt after another: a verifier of its own, the prompt inside the     *)
(* Discord client, or else the browser and its redirect (OAuthRedirect),   *)
(* and the exchange of the code for tokens.                                *)
(*                                                                         *)
(* A verifier, and the challenge computed from it, is the number of the    *)
(* attempt it was made for.  Tabs of the browser stay open from one        *)
(* attempt to the next, and the redirect says nothing of which it is of.   *)
(***************************************************************************)
EXTENDS OAuthRedirect, SequencesExt

CONSTANT
  MaxAttempts  \* bound: how often an authorization is tried

ASSUME ConsentAssumption == MaxAttempts \in Nat

VARIABLES
  attempt,  \* the number of this authorization, and its verifier
  stage,    \* where authenticate is
  viaBrowser, \* did the code in hand come through the port?
  issue,    \* what the code in hand was issued for: challenge (0: no attempt's), and redirect
  links,    \* closures of the game loop that will open a tab, by challenge
  tabs,     \* the open tabs, by challenge
  outcome   \* what became of the last attempt

consentVars == <<redirectVars, attempt, stage, viaBrowser, issue, links, tabs, outcome>>

NoCode == [challenge |-> 0, redirect |-> FALSE]

Init ==
  /\ RedirectInit
  /\ attempt = 0 /\ stage = "idle" /\ viaBrowser = FALSE /\ issue = NoCode
  /\ links = <<>> /\ tabs = {} /\ outcome = "none"

-----------------------------------------------------------------------------
Begin ==
  /\ stage = "idle" /\ attempt < MaxAttempts
  /\ attempt' = attempt + 1
  /\ stage' = "prompt" /\ viaBrowser' = FALSE /\ issue' = NoCode
  /\ UNCHANGED <<redirectVars, links, tabs, outcome>>

(* AUTHORIZE: the user grants it in Discord. *)
PromptGranted ==
  /\ stage = "prompt"
  /\ issue' = [challenge |-> attempt, redirect |-> FALSE]
  /\ stage' = "exchange"
  /\ UNCHANGED <<redirectVars, attempt, viaBrowser, links, tabs, outcome>>

(* It is denied, refused or never answered: the link for the browser is
   queued, before anybody listens. *)
PromptFails ==
  /\ stage = "prompt"
  /\ links' = Append(links, attempt)
  /\ stage' = "bind"
  /\ UNCHANGED <<redirectVars, attempt, viaBrowser, issue, tabs, outcome>>

Fail(reason) == stage' = "idle" /\ outcome' = reason

PortTaken ==
  /\ stage = "bind"
  /\ Fail("no port")
  /\ UNCHANGED <<redirectVars, attempt, viaBrowser, issue, links, tabs>>

PortBound ==
  /\ stage = "bind"
  /\ Listen
  /\ stage' = "wait"
  /\ UNCHANGED <<attempt, viaBrowser, issue, links, tabs, outcome>>

(* What the code behind "code=" was issued for: a whole redirect of this
   attempt's tab has what the link asked for, an earlier tab's has another
   challenge, and what a stranger sends, or is left of a code cut short, was
   issued for no attempt. *)
Issued(kind) ==
  IF kind = "code" THEN {[challenge |-> attempt, redirect |-> TRUE]}
                   ELSE [challenge : {0}, redirect : BOOLEAN]

HeardLeaking ==  \* faulty: the wait returns the code without closing the port
  /\ stage = "wait" /\ code
  /\ viaBrowser' = TRUE /\ issue' \in Issued(Last(served))
  /\ stage' = "exchange"
  /\ UNCHANGED <<redirectVars, attempt, links, tabs, outcome>>

(* waitForOAuthRedirect has returned. *)
Heard ==
  /\ stage = "wait" /\ ~listening
  /\ viaBrowser' = TRUE
  /\ IF code
     THEN issue' \in Issued(Last(served)) /\ stage' = "exchange" /\ UNCHANGED outcome
     ELSE Fail("no code") /\ UNCHANGED issue
  /\ UNCHANGED <<redirectVars, attempt, links, tabs>>

SentWithoutUri ==  \* faulty: redirect_uri is left out
  [verifier |-> attempt, redirect |-> FALSE]

(* What the exchange sends along with the code. *)
Sent == [verifier |-> attempt, redirect |-> viaBrowser]

(* The token endpoint takes a code with the verifier of its challenge, and with
   the redirect it was issued for if there was one; or it cannot be reached. *)
Exchange ==
  /\ stage = "exchange"
  /\ \/ Fail("failed")
     \/ Fail(IF Sent = [verifier |-> issue.challenge, redirect |-> issue.redirect]
             THEN "granted" ELSE "refused")
  /\ UNCHANGED <<redirectVars, attempt, viaBrowser, issue, links, tabs>>

Authenticate ==
  PromptGranted \/ PromptFails \/ PortTaken \/ PortBound \/ Heard \/ Exchange

-----------------------------------------------------------------------------
(* The game loop opens the browser, and the user grants or denies in any tab
   at any time, or never; of what the browser then sends, the first piece may
   end before or within the code.  There are strangers at the port, too. *)
OpenLink ==
  /\ links # <<>>
  /\ links' = Tail(links)
  /\ tabs' = tabs \cup {Head(links)}
  /\ UNCHANGED <<redirectVars, attempt, stage, viaBrowser, issue, outcome>>

UserDecides ==
  /\ arrived < MaxClients /\ arrived' = arrived + 1
  /\ \E tab \in tabs :
       /\ tabs' = tabs \ {tab}
       /\ \E kind \in {"other", "cut", IF tab = attempt THEN "code" ELSE "stale"} :
            Connects(kind)
  /\ UNCHANGED <<attempt, stage, viaBrowser, issue, links, outcome>>

Listener ==
  /\ Serving \/ Tick \/ Arrive
  /\ UNCHANGED <<attempt, stage, viaBrowser, issue, links, tabs, outcome>>

Next == Begin \/ Authenticate \/ OpenLink \/ UserDecides \/ Listener

Spec == Init /\ [][Next]_consentVars

(* The worker's thread runs, its prompt has a deadline, and the clock ticks. *)
FairSpec ==
  /\ Spec
  /\ WF_consentVars(Authenticate)
  /\ WF_consentVars(Serving /\ Listener)
  /\ WF_consentVars(Tick /\ Listener)

-----------------------------------------------------------------------------
ConsentTypeOK ==
  /\ attempt \in 0..MaxAttempts /\ tabs \subseteq 1..attempt
  /\ stage \in {"idle", "prompt", "bind", "wait", "exchange"}
  /\ viaBrowser \in BOOLEAN /\ issue \in [challenge : 0..attempt, redirect : BOOLEAN]
  /\ links \in Seq(1..attempt)
  /\ outcome \in {"none", "no port", "no code", "failed", "refused", "granted"}
  /\ listening => stage = "wait"

(* A code the user granted in this attempt is exchanged the way it was issued,
   whether in Discord or in the browser ("PKCE flow", discord_rpc.cpp:252): the
   endpoint refuses only what came through the port and was an earlier
   attempt's code, a stranger's, or one cut short. *)
RefusedForAReason ==
  outcome = "refused" /\ stage = "idle" =>
    viaBrowser /\ Last(served) \in Coded \ {"code"}

(* What the properties rest on: nobody is received from after the code, what
   was received last carries it, there is an attempt while authenticate is under
   way, and the code in hand was issued for that attempt, in Discord or in the
   browser, unless something else came through the port. *)
ServingInv   == client # "none" => listening /\ ~code
CodeInv      == code => served # <<>> /\ Last(served) \in Coded
PromptingInv == stage # "idle" => attempt > 0
PromptInv ==
  /\ stage = "prompt" => ~viaBrowser
  /\ stage = "exchange" /\ ~viaBrowser => issue = [challenge |-> attempt, redirect |-> FALSE]
  /\ stage = "exchange" /\ viaBrowser =>
       code /\ (Last(served) = "code" => issue = [challenge |-> attempt, redirect |-> TRUE])

(* The inductive invariant: all of this and the properties above. *)
ConsentInv ==
  /\ TypeOK /\ ConsentTypeOK /\ EndsForAReason /\ RefusedForAReason
  /\ ServingInv /\ CodeInv /\ PromptingInv /\ PromptInv

(* Every attempt ends: the prompt and the wait have deadlines ("Blocks up to
   timeoutMs", rpc_conn.hpp:44), and only a client of the port that neither
   sends nor leaves can hold one up. *)
ConsentEnds == stage # "idle" ~> (stage = "idle" \/ client = "silent")
=============================================================================
