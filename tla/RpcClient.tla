------------------------------- MODULE RpcClient -------------------------------
(***************************************************************************)
(* Direct mode: RpcClient's worker thread (discord_rpc.cpp) between the    *)
(* game thread's mailbox (Mailbox) and the Discord client (Discord).       *)
(*                                                                         *)
(* The thread runs threadMain -> ensureReady -> authenticate ->            *)
(* applyDeafen; pc is where it is in those functions.  Every call of       *)
(* sendCommand is a site: at a site with awaiting = FALSE the command is   *)
(* about to be sent, with awaiting = TRUE its answer is being waited for.  *)
(* A deadline that passes, an ERROR answer and a payload that cannot be    *)
(* parsed all make sendCommand return nullopt: TimedOut and Refused.       *)
(***************************************************************************)
EXTENDS Mailbox, Discord

VARIABLES
  pc,           \* where the worker is
  awaiting,     \* sendCommand: sent, waiting for the answer with this nonce
  target,       \* threadMain's target, "none" for nullopt
  connectOnly,  \* threadMain's connectOnly
  wauth,        \* ensureReady's auth: the tokens in its snapshot
  conn,         \* m_conn != nullptr
  authed,       \* m_authed
  weDeafened,   \* m_weDeafened
  state,        \* m_state, what the settings page shows
  nonce,        \* m_nonce
  orphan,       \* history: why the mod may have stopped owning its deafen
  stalled       \* is the worker held in a call that has no deadline?

job  == <<target, connectOnly, wauth>>
link == <<conn, authed, weDeafened, orphan>>
vars == <<mailboxVars, discordVars, pc, awaiting, job, link, state, nonce, stalled>>

AuthSites == {"tryStored", "tryRefreshed", "tryCode"}
Sites     == AuthSites \cup {"authorize", "get", "set"}
PCs       == Sites \cup {"wait", "pump", "dispatch", "open", "ready",
                         "refresh", "browser", "exchange", "authFailed", "announce"}
States    == {"NotConnected", "Connecting", "AwaitingConsent", "Connected"}

Init ==
  /\ MailboxInit
  /\ DiscordInit
  /\ pc = "wait" /\ awaiting = FALSE
  /\ target = "none" /\ connectOnly = FALSE /\ wauth = {}
  /\ conn = FALSE /\ authed = FALSE /\ weDeafened = FALSE /\ orphan = "none"
  /\ state = "NotConnected"
  /\ nonce = 0
  /\ stalled = FALSE

-----------------------------------------------------------------------------
(* Moving the worker.  Back at the wait its locals are gone. *)
Goto(site) ==
  /\ pc' = site
  /\ awaiting' = FALSE
  /\ IF site = "wait"
     THEN target' = "none" /\ connectOnly' = FALSE /\ wauth' = {}
     ELSE UNCHANGED job

(* The status set on the way into connectIpc, and by authenticate() for the
   token refresh and both consent prompts. *)
Announced(site) ==
  CASE site \in {"open", "refresh"} -> "Connecting"
    [] site \in {"authorize", "browser"} -> "AwaitingConsent"
    [] OTHER -> state

Enter(site) == Goto(site) /\ state' = Announced(site)

DisconnectSilently ==  \* faulty: the status is not updated
  /\ conn' = FALSE /\ authed' = FALSE /\ weDeafened' = FALSE /\ orphan' = "none"
  /\ inbox' = <<>>
  /\ EndSession
  /\ UNCHANGED state

(* disconnect(): drop the connection and forget everything tied to it. *)
Disconnect ==
  /\ conn' = FALSE /\ authed' = FALSE /\ weDeafened' = FALSE /\ orphan' = "none"
  /\ state' = "NotConnected"
  /\ inbox' = <<>>
  /\ EndSession

(* authenticate()'s first branch with a token to try. *)
FirstTry(tokens) ==
  IF "access" \in tokens THEN "tryStored"
  ELSE IF "refresh" \in tokens THEN "refresh" ELSE "authorize"

RetryForever ==  \* faulty: a failed GET or SET is tried again
  CASE pc = "tryStored" -> FirstTry(wauth \ {"access"})
    [] pc \in {"refresh", "tryRefreshed"} -> "authorize"
    [] pc = "authorize" -> "browser"
    [] pc \in {"browser", "exchange", "tryCode"} -> "authFailed"
    [] OTHER -> pc

(* Where a failed step of ensureReady or applyDeafen leads. *)
AfterFailure ==
  CASE pc = "tryStored" -> FirstTry(wauth \ {"access"})
    [] pc \in {"refresh", "tryRefreshed"} -> "authorize"
    [] pc = "authorize" -> "browser"
    [] pc \in {"browser", "exchange", "tryCode"} -> "authFailed"
    [] OTHER -> "wait"

GiveUp ==
  /\ Enter(AfterFailure)
  /\ orphan' = IF pc = "set" /\ conn THEN "unanswered" ELSE orphan
  /\ UNCHANGED <<conn, authed, weDeafened>>

Command(site, t) ==
  CASE site \in AuthSites -> "AUTHENTICATE"
    [] site = "authorize" -> "AUTHORIZE"
    [] site = "get" -> "GET"
    [] OTHER -> IF t = "deafen" THEN "DEAFEN" ELSE "UNDEAFEN"

-----------------------------------------------------------------------------
(* threadMain: wait_for returns with work, or empty-handed after 500 ms. *)
TakeWork ==
  /\ pc = "wait"
  /\ ~pendingLogout
  /\ TakeAll
  /\ pc' = IF conn THEN "pump" ELSE "dispatch"
  /\ target' = pending
  /\ connectOnly' = pendingConnect
  /\ UNCHANGED <<discordVars, awaiting, wauth, link, state, nonce>>

TakeLogoutAndServe ==  \* faulty: no "continue" after the logout
  /\ pc = "wait"
  /\ pendingLogout
  /\ TakeAll
  /\ Disconnect
  /\ pc' = "dispatch"
  /\ target' = pending /\ connectOnly' = pendingConnect
  /\ UNCHANGED <<nonce, awaiting, wauth>>

(* A logout is served alone: the target or connect taken with it is dropped. *)
TakeLogout ==
  /\ pc = "wait"
  /\ pendingLogout
  /\ TakeAll
  /\ Disconnect
  /\ Goto("wait")
  /\ UNCHANGED nonce

(* pumpIncoming: drop what arrived between commands. *)
PumpRead ==
  /\ pc = "pump"
  /\ inbox # <<>>
  /\ inbox' = Tail(inbox)
  /\ UNCHANGED <<mailboxVars, voice, live, inflight, control, told, touched,
                 pc, awaiting, job, link, state, nonce>>

PumpClosed ==
  /\ pc = "pump"
  /\ ~live /\ inbox = <<>>
  /\ Disconnect
  /\ Goto("dispatch")
  /\ UNCHANGED <<mailboxVars, nonce>>

PumpDone ==
  /\ pc = "pump"
  /\ (live /\ inbox = <<>>) \/ "slow" \in Env
  /\ Goto("dispatch")
  /\ UNCHANGED <<mailboxVars, discordVars, link, state, nonce>>

NothingToDo ==
  /\ pc = "dispatch"
  /\ target = "none" /\ ~connectOnly
  /\ Goto("wait")
  /\ UNCHANGED <<mailboxVars, discordVars, link, state, nonce>>

AlreadyReady ==
  /\ pc = "dispatch"
  /\ target # "none" \/ connectOnly
  /\ conn /\ authed
  /\ Goto(IF target = "none" THEN "wait" ELSE "get")
  /\ UNCHANGED <<mailboxVars, discordVars, link, state, nonce>>

(* ensureReady takes its snapshot of the tokens here, once. *)
GetReady ==
  /\ pc = "dispatch"
  /\ target # "none" \/ connectOnly
  /\ ~(conn /\ authed)
  /\ pc' = IF conn THEN FirstTry(auth) ELSE "open"
  /\ wauth' = auth
  /\ state' = Announced(pc')
  /\ UNCHANGED <<mailboxVars, discordVars, awaiting, target, connectOnly, link, nonce>>

Open ==
  /\ pc = "open"
  /\ conn' = TRUE
  /\ live' = TRUE
  /\ \E g \in Greetings : inbox' = <<g>>
  /\ Goto("ready")
  /\ UNCHANGED <<mailboxVars, voice, inflight, control, told, touched,
                 authed, weDeafened, orphan, state, nonce>>

OpenFails ==
  /\ pc = "open"
  /\ "close" \in Env
  /\ Goto("wait")
  /\ state' = "NotConnected"
  /\ UNCHANGED <<mailboxVars, discordVars, link, nonce>>

Ready ==
  /\ pc = "ready"
  /\ inbox # <<>> /\ Head(inbox).ok
  /\ inbox' = Tail(inbox)
  /\ Enter(FirstTry(wauth))
  /\ UNCHANGED <<mailboxVars, voice, live, inflight, control, told, touched, link, nonce>>

(* No READY within 3 s, another message in its place, or a closed session. *)
NotReady ==
  /\ pc = "ready"
  /\ \/ "slow" \in Env
     \/ inbox # <<>> /\ ~Head(inbox).ok
     \/ inbox = <<>> /\ ~live
  /\ Disconnect
  /\ Goto("wait")
  /\ UNCHANGED <<mailboxVars, nonce>>

-----------------------------------------------------------------------------
SendSameNonce ==  \* faulty: the nonce is not counted up
  /\ pc \in Sites /\ ~awaiting
  /\ conn
  /\ nonce' = nonce
  /\ awaiting' = TRUE
  /\ inflight' = IF live
                 THEN Append(inflight, [nonce |-> nonce, cmd |-> Command(pc, target)])
                 ELSE inflight
  /\ UNCHANGED <<mailboxVars, voice, live, inbox, control, told, touched, pc, job, link, state>>

(* sendCommand.  A write to a session Discord has closed may still succeed. *)
Send ==
  /\ pc \in Sites /\ ~awaiting
  /\ conn
  /\ nonce' = nonce + 1
  /\ awaiting' = TRUE
  /\ inflight' = IF live
                 THEN Append(inflight, [nonce |-> nonce + 1, cmd |-> Command(pc, target)])
                 ELSE inflight
  /\ UNCHANGED <<mailboxVars, voice, live, inbox, control, told, touched, pc, job, link, state>>

(* The write fails: the caller finds no connection (Unsent). *)
SendFails ==
  /\ pc \in Sites /\ ~awaiting
  /\ conn /\ ~live
  /\ nonce' = nonce + 1
  /\ Disconnect
  /\ Goto(pc)
  /\ UNCHANGED mailboxVars

Unsent ==
  /\ pc \in Sites /\ ~awaiting
  /\ ~conn
  /\ GiveUp
  /\ UNCHANGED <<mailboxVars, discordVars, nonce>>

(* An event, or the late answer to an earlier command. *)
SkipStale ==
  /\ awaiting
  /\ inbox # <<>> /\ Head(inbox).nonce # nonce
  /\ inbox' = Tail(inbox)
  /\ UNCHANGED <<mailboxVars, voice, live, inflight, control, told, touched,
                 pc, awaiting, job, link, state, nonce>>

TimedOut ==
  /\ awaiting
  /\ "slow" \in Env
  /\ GiveUp
  /\ UNCHANGED <<mailboxVars, discordVars, nonce>>

(* The connection is found closed while waiting: Unsent follows. *)
ClosedWhileWaiting ==
  /\ awaiting
  /\ inbox = <<>> /\ ~live
  /\ Disconnect
  /\ Goto(pc)
  /\ UNCHANGED <<mailboxVars, nonce>>

ReceiveAny(good) ==  \* faulty: the nonce is not compared
  /\ awaiting
  /\ inbox # <<>> /\ Head(inbox).ok = good
  /\ inbox' = Tail(inbox)
  /\ UNCHANGED <<voice, live, inflight, control, told, touched, nonce>>

Receive(good) ==
  /\ awaiting
  /\ inbox # <<>> /\ Head(inbox).nonce = nonce /\ Head(inbox).ok = good
  /\ inbox' = Tail(inbox)
  /\ UNCHANGED <<voice, live, inflight, control, told, touched, nonce>>

Refused ==
  /\ Receive(FALSE)
  /\ GiveUp
  /\ UNCHANGED mailboxVars

(* tryAuthenticate succeeds.  The user's name is handed to the game thread if
   Discord told one. *)
Authenticated ==
  /\ pc \in AuthSites
  /\ Receive(TRUE)
  /\ authed' = TRUE
  /\ Post({"username"}) \/ UNCHANGED mailboxVars
  /\ Goto("announce")
  /\ UNCHANGED <<conn, weDeafened, orphan, state>>

AnnouncedThenNamed ==  \* faulty: the name is handed over once "connected" shows
  /\ pc = "announce"
  /\ state' = "Connected"
  /\ Post({"username"})
  /\ Goto(IF target = "none" THEN "wait" ELSE "get")
  /\ UNCHANGED <<discordVars, link, nonce>>

(* The end of ensureReady: only now the page is told. *)
AnnounceConnected ==
  /\ pc = "announce"
  /\ state' = "Connected"
  /\ Goto(IF target = "none" THEN "wait" ELSE "get")
  /\ UNCHANGED <<mailboxVars, discordVars, link, nonce>>

Authorized ==
  /\ pc = "authorize"
  /\ Receive(TRUE)
  /\ Goto("exchange")
  /\ UNCHANGED <<mailboxVars, link, state>>

-----------------------------------------------------------------------------
(* exchangeAndStore posts the store of the new tokens to the game thread and
   returns; the worker goes on with m_liveToken. *)
Exchanged(site) ==
  /\ \E keys \in {{"access"}, Tokens} : Post(keys)
  /\ Goto(site)
  /\ UNCHANGED <<discordVars, link, state, nonce>>

Refresh  == pc = "refresh"  /\ Exchanged("tryRefreshed")
Exchange == pc = "exchange" /\ Exchanged("tryCode")

(* The redirect of the browser flow brings a code within three minutes. *)
BrowserCode ==
  /\ pc = "browser"
  /\ Goto("exchange")
  /\ UNCHANGED <<mailboxVars, discordVars, link, state, nonce>>

(* No code, or an HTTPS failure. *)
StepFails ==
  /\ pc \in {"refresh", "browser", "exchange"}
  /\ "reject" \in Env
  /\ GiveUp
  /\ UNCHANGED <<mailboxVars, discordVars, nonce>>

AuthFailed ==
  /\ pc = "authFailed"
  /\ Disconnect
  /\ Goto("wait")
  /\ UNCHANGED <<mailboxVars, nonce>>

-----------------------------------------------------------------------------
(* applyDeafen, once GET_VOICE_SETTINGS is answered. *)
Learned(t) == pc = "get" /\ target = t /\ Receive(TRUE)

(* Already deafened, maybe by hand: leave it alone, and it is not ours. *)
LeaveDeafened ==
  /\ Learned("deafen")
  /\ Head(inbox).deaf
  /\ weDeafened' = FALSE
  /\ orphan' = IF weDeafened THEN "repeat" ELSE orphan
  /\ Goto("wait")
  /\ UNCHANGED <<mailboxVars, conn, authed, state>>

GoDeafenAnyway ==  \* faulty: the reported state is not looked at
  /\ Learned("deafen")
  /\ Goto("set")
  /\ UNCHANGED <<mailboxVars, link, state>>

GoDeafen ==
  /\ Learned("deafen")
  /\ ~Head(inbox).deaf
  /\ Goto("set")
  /\ UNCHANGED <<mailboxVars, link, state>>

NotOurs ==
  /\ Learned("undeafen")
  /\ ~weDeafened
  /\ Goto("wait")
  /\ UNCHANGED <<mailboxVars, link, state>>

GoUndeafenAnyway ==  \* faulty: un-deafens whoever deafened
  /\ Learned("undeafen")
  /\ weDeafened' = FALSE
  /\ Goto(IF Head(inbox).deaf THEN "set" ELSE "wait")
  /\ UNCHANGED <<mailboxVars, conn, authed, orphan, state>>

GoUndeafenInverted ==  \* faulty: the reported state is taken the wrong way
  /\ Learned("undeafen")
  /\ weDeafened
  /\ weDeafened' = FALSE
  /\ Goto(IF Head(inbox).deaf THEN "wait" ELSE "set")
  /\ UNCHANGED <<mailboxVars, conn, authed, orphan, state>>

(* Ownership is given up before the un-deafen is sent. *)
GoUndeafen ==
  /\ Learned("undeafen")
  /\ weDeafened
  /\ weDeafened' = FALSE
  /\ Goto(IF Head(inbox).deaf THEN "set" ELSE "wait")
  /\ UNCHANGED <<mailboxVars, conn, authed, orphan, state>>

SetDoneUnowned ==  \* faulty: a successful deafen is not remembered
  /\ pc = "set"
  /\ Receive(TRUE)
  /\ orphan' = "none"
  /\ Goto("wait")
  /\ UNCHANGED <<mailboxVars, conn, authed, weDeafened, state>>

SetDone ==
  /\ pc = "set"
  /\ Receive(TRUE)
  /\ weDeafened' = (target = "deafen")
  /\ orphan' = "none"
  /\ Goto("wait")
  /\ UNCHANGED <<mailboxVars, conn, authed, state>>

-----------------------------------------------------------------------------
Steps ==
  \/ TakeWork \/ TakeLogout \/ PumpRead \/ PumpClosed \/ PumpDone
  \/ NothingToDo \/ AlreadyReady \/ GetReady \/ Open \/ OpenFails \/ Ready \/ NotReady
  \/ Send \/ SendFails \/ Unsent \/ SkipStale \/ TimedOut \/ ClosedWhileWaiting
  \/ Refused \/ Authenticated \/ AnnounceConnected \/ Authorized
  \/ Refresh \/ Exchange \/ BrowserCode \/ StepFails \/ AuthFailed
  \/ LeaveDeafened \/ GoDeafen \/ NotOurs \/ GoUndeafen \/ SetDone

Worker == Steps /\ ~stalled /\ UNCHANGED stalled

workerVars == <<pc, awaiting, job, link, state, nonce>>

(* What may hold the worker for ever.  A write (a command, the handshake, the
   Pong that a read owes a Ping) waits for Discord to read; the browser's
   redirect is received, and the HTTPS request answered, without a timeout. *)
Writes == Sites \cup {"pump", "ready"}

Stall ==
  /\ "stall" \in Env
  /\ ~stalled
  /\ \/ pc \in {"open", "refresh", "browser", "exchange"}
     \/ pc \in Writes /\ conn /\ live
  /\ stalled' = TRUE
  /\ UNCHANGED <<mailboxVars, discordVars, workerVars>>

(* A blocked write fails when Discord closes the session. *)
Unblock ==
  /\ stalled /\ pc \in Writes /\ ~live
  /\ stalled' = FALSE
  /\ UNCHANGED <<mailboxVars, discordVars, workerVars>>

Game ==
  /\ \/ \E t \in Targets : RequestDeafen(t)
     \/ Connect \/ Logout \/ RunPosted
  /\ UNCHANGED <<discordVars, workerVars, stalled>>

Outside ==
  /\ Execute \/ Close \/ UserToggle
  /\ UNCHANGED <<mailboxVars, workerVars, stalled>>

Next == Game \/ Worker \/ Outside \/ Stall \/ Unblock

Spec == Init /\ [][Next]_vars

(* The worker's thread is scheduled unless a call holds it, Discord answers
   what it was sent, and the game loop runs what was queued for it.  Nobody has
   to make a call. *)
Fairness ==
  /\ WF_vars(Worker \/ Unblock)
  /\ WF_vars(Execute /\ UNCHANGED <<mailboxVars, workerVars, stalled>>)
  /\ WF_vars(RunPosted /\ UNCHANGED <<discordVars, workerVars, stalled>>)

FairSpec == Spec /\ Fairness

-----------------------------------------------------------------------------
(* Every variable has its type (RpcClient's and its mailbox's members). *)
TypeOK ==
  /\ MailboxTypeOK
  /\ DiscordTypeOK
  /\ pc \in PCs /\ awaiting \in BOOLEAN
  /\ target \in Targets \cup {"none"} /\ connectOnly \in BOOLEAN
  /\ wauth \in SUBSET Tokens
  /\ conn \in BOOLEAN /\ authed \in BOOLEAN /\ weDeafened \in BOOLEAN
  /\ orphan \in {"none", "repeat", "unanswered"}
  /\ state \in States
  /\ nonce \in Nat
  /\ stalled \in BOOLEAN

(* While the session lives, m_weDeafened means that the last thing this
   session asked of Discord, and the last it will carry out, is a deafen: no
   late, stale or lost answer makes the worker own what it did not set
   (applyDeafen, sendCommand's nonce match). *)
OwnsWhatItSet == weDeafened /\ live => control = "deaf"

(* Between jobs the page never shows a prompt or a connection attempt that is
   over, and "connected" is shown exactly for an authenticated connection
   (setStatus in ensureReady, connectIpc, authenticate and disconnect). *)
StatusTruthful ==
  pc = "wait" =>
    /\ state \in {"NotConnected", "Connected"}
    /\ state = "Connected" <=> conn
    /\ conn <=> authed

(* The mod's own deafen is left without an owner only by a repeated request
   or by a SET that was refused or not answered in time: outside these two
   cases m_weDeafened is never lost while Discord still holds the deafen. *)
OrphanHasCause ==
  pc # "set" /\ live /\ voice = "mod" /\ ~weDeafened => orphan # "none"

(* "Absolute and polite" (discord_rpc.hpp:10-12): every change the worker
   makes to the voice state is one PoliteDeafen allows, whatever is late,
   refused, closed or done by hand in between. *)
Polite == INSTANCE PoliteDeafen WITH voice <- voice, control <- control, told <- told
PoliteSpec == Polite!Spec

(* What the game thread sees of the worker is RpcStatus: whatever happens on
   the worker's side, phases come in its order, a token is only stored while
   an authorization is under way, the user's name only with an authentication,
   and "connected" is shown only after both (setStatus, tryAuthenticate,
   exchangeAndStore).  The refresh token is hidden: the settings page does not
   look at it. *)
Status == INSTANCE RpcStatus WITH
  phase    <- state,
  granted  <- authed,
  kept     <- saved \ {"refresh"},
  closures <- [i \in DOMAIN posted |-> posted[i] \ {"refresh"}]
StatusSpec == Status!Spec

(* A deafen the user made by hand goes away by the user's hand only, whatever
   is late, refused or asked again, unless that hand moved after the mod had
   looked: between the report and the SET decided on it, or while the mod's own
   deafen was on (README "only un-deafens what it deafened"; applyDeafen looks
   once, and compares nothing when the SET is carried out). *)
KeepsUserDeafen == [][voice = "user" /\ voice' # "user" => UserToggle \/ touched]_vars

(* Every job ends, without an endless retry, or the worker is held for good in
   one of the calls that have no deadline: whatever else is late, refused or
   closed, every other wait of the worker ends (threadMain). *)
WorkerReturns == []<>(pc = "wait") \/ <>[]stalled

Last(call) == <>[](lastCall = call)

(* If no call follows a logout, the connection goes down and stays down, unless
   a call without a deadline keeps the worker from serving it (threadMain,
   disconnect). *)
LastLogoutServed ==
  Last("logout") => <>[](~conn /\ state = "NotConnected") \/ <>[]stalled
=============================================================================
