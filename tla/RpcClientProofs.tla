--------------------------- MODULE RpcClientProofs ---------------------------
(***************************************************************************)
(* Proofs about direct mode (RpcClient), for every Env, every set of calls *)
(* and any number of them.  TypeOK first, then one lemma for every part of *)
(* IInv under the worker's steps, then Discord's steps, the game thread's, *)
(* the theorems, and at the end the refinement of RpcStatus.               *)
(***************************************************************************)
EXTENDS RpcInvariants, RpcRecovery, SequenceTheorems, TLAPS

(* Answers and commands leave and enter the queues at their ends. *)
LEMMA TailProperties ==
  ASSUME NEW S, NEW s \in Seq(S), s # <<>>
  PROVE  /\ Tail(s) \in Seq(S)
         /\ Head(s) = s[1] /\ Head(s) \in S
         /\ Len(Tail(s)) = Len(s) - 1
         /\ DOMAIN Tail(s) = 1..(Len(s) - 1)
         /\ \A i \in DOMAIN Tail(s) : i + 1 \in DOMAIN s /\ Tail(s)[i] = s[i + 1]
  BY HeadTailProperties

(* What Append adds, and what it leaves. *)
LEMMA AppendProperties2 ==
  ASSUME NEW S, NEW s \in Seq(S), NEW x \in S
  PROVE  /\ Append(s, x) \in Seq(S)
         /\ Append(s, x) # <<>>
         /\ Len(Append(s, x)) = Len(s) + 1
         /\ DOMAIN Append(s, x) = 1..(Len(s) + 1)
         /\ Append(s, x)[Len(s) + 1] = x
         /\ \A i \in DOMAIN s : Append(s, x)[i] = s[i]
         /\ s = <<>> => Head(Append(s, x)) = x
         /\ s # <<>> => Head(Append(s, x)) = Head(s)
  BY AppendProperties

(* An empty queue is a queue of anything. *)
LEMMA EmptyQueues ==
  /\ <<>> \in Seq(Requests)
  /\ <<>> \in Seq(Answers)
  /\ <<>> \in Seq(SUBSET SavedKeys)
  BY EmptySeq

(* A freshly opened session's inbox is one message long. *)
LEMMA AnswerQueue == ASSUME NEW g \in Answers PROVE <<g>> \in Seq(Answers)
  OBVIOUS

(* The greetings are answers like the others. *)
LEMMA GreetingsType == Greetings \subseteq Answers
<1>1. \A b \in BOOLEAN : [nonce |-> 0, ok |-> b, deaf |-> FALSE] \in Answers
  BY DEF Answers
<1>2. \A g \in Greetings : \E b \in BOOLEAN : g = [nonce |-> 0, ok |-> b, deaf |-> FALSE]
  BY DEF Greetings
<1> QED BY <1>1, <1>2

(* The program starts in a state of the right types. *)
LEMMA InitType == ASSUME Init PROVE TypeOK
<1>1. saved \in SUBSET SavedKeys
  BY MailboxAssumption DEF Init, MailboxInit
<1>2. MailboxTypeOK
  BY <1>1, EmptyQueues DEF Init, MailboxInit, MailboxTypeOK, Tokens
<1>3. DiscordTypeOK
  BY EmptyQueues DEF Init, DiscordInit, DiscordTypeOK
<1> QED BY <1>2, <1>3 DEF Init, TypeOK, PCs, Sites, AuthSites, States, Tokens

-----------------------------------------------------------------------------
(* Type correctness, one step per group of actions. *)
LEMMA GameType == ASSUME TypeOK, Game PROVE TypeOK'
<1> USE DEF TypeOK, MailboxTypeOK, DiscordTypeOK, Game, discordVars, workerVars, job, link,
        Called, mailbox
<1>1. CASE \E t \in Targets : RequestDeafen(t)
  BY <1>1, MailboxAssumption DEF RequestDeafen, ApiCalls
<1>2. CASE Connect
  BY <1>2, MailboxAssumption DEF Connect, ApiCalls
<1>3. CASE Logout
  BY <1>3, MailboxAssumption DEF Logout, ApiCalls
<1>4. CASE RunPosted
  <2>1. posted' \in Seq(SUBSET SavedKeys) /\ Head(posted) \in SUBSET SavedKeys
    BY <1>4, TailProperties DEF RunPosted
  <2> QED BY <1>4, <2>1 DEF RunPosted
<1> QED BY <1>1, <1>2, <1>3, <1>4

(* Discord and the user keep the types. *)
LEMMA OutsideType == ASSUME TypeOK, Outside PROVE TypeOK'
<1> USE DEF TypeOK, MailboxTypeOK, DiscordTypeOK, Outside, workerVars, mailboxVars, mailbox, job,
      link
<1>1. CASE Execute
  <2>1. PICK good \in BOOLEAN : Answer(good)
    BY <1>1 DEF Execute, Accept, Report, SetDeaf, SetUndeaf, Reject
  <2>2. inflight' \in Seq(Requests) /\ Head(inflight) \in Requests
    BY <2>1, TailProperties DEF Answer
  <2>3. inbox' \in Seq(Answers)
    <3> DEFINE x == [nonce |-> Head(inflight).nonce, ok |-> good, deaf |-> voice # "off"]
    <3>1. x \in Answers
      BY <2>2 DEF Answers, Requests
    <3> QED BY <2>1, <3>1, AppendProperties2 DEF Answer
  <2>4. /\ voice' \in {"off", "user", "mod"} /\ live' \in BOOLEAN
        /\ control' \in {"none", "deaf", "undeaf"} /\ told' \in {"unknown", "deaf", "undeaf"}
        /\ touched' \in BOOLEAN
    BY <1>1 DEF Execute, Accept, Report, SetDeaf, SetUndeaf, Reject, Answer
  <2>5. DiscordTypeOK'
    BY <2>2, <2>3, <2>4
  <2> QED BY <2>5
<1>2. CASE Close
  <2>1. DiscordTypeOK'
    BY <1>2, EmptyQueues DEF Close, EndSession
  <2> QED BY <2>1
<1>3. CASE UserToggle
  BY <1>3 DEF UserToggle
<1> QED BY <1>1, <1>2, <1>3

(* Moving the worker keeps its locals' types. *)
LEMMA GotoType ==
  ASSUME TypeOK, NEW site \in PCs, Goto(site)
  PROVE  /\ pc' \in PCs /\ awaiting' \in BOOLEAN
         /\ target' \in Targets \cup {"none"} /\ connectOnly' \in BOOLEAN
         /\ wauth' \in SUBSET Tokens
  BY DEF TypeOK, Goto, job

(* disconnect() keeps the types of what it resets. *)
LEMMA DisconnectType ==
  ASSUME TypeOK, Disconnect
  PROVE  /\ conn' \in BOOLEAN /\ authed' \in BOOLEAN /\ weDeafened' \in BOOLEAN
         /\ orphan' \in {"none", "repeat", "unanswered"} /\ state' \in States
         /\ DiscordTypeOK'
  BY EmptyQueues DEF TypeOK, DiscordTypeOK, Disconnect, EndSession, States

(* A failed step leads to a place the worker knows. *)
LEMMA GiveUpType ==
  ASSUME TypeOK, GiveUp
  PROVE  /\ pc' \in PCs /\ awaiting' \in BOOLEAN
         /\ target' \in Targets \cup {"none"} /\ connectOnly' \in BOOLEAN
         /\ wauth' \in SUBSET Tokens
         /\ conn' \in BOOLEAN /\ authed' \in BOOLEAN /\ weDeafened' \in BOOLEAN
         /\ orphan' \in {"none", "repeat", "unanswered"} /\ state' \in States
<1>1. AfterFailure \in PCs
  BY DEF AfterFailure, FirstTry, PCs, Sites, AuthSites
<1> QED BY <1>1, GotoType DEF TypeOK, GiveUp, Enter, Announced, States

(* Reading an answer leaves answers. *)
LEMMA InboxType ==
  ASSUME TypeOK, inbox # <<>>
  PROVE  Tail(inbox) \in Seq(Answers) /\ Head(inbox) \in Answers
  BY TailProperties DEF TypeOK, DiscordTypeOK

(* A queued closure stores saved keys. *)
LEMMA PostType ==
  ASSUME TypeOK, NEW keys \in SUBSET SavedKeys, Post(keys)
  PROVE  MailboxTypeOK'
<1>1. posted' \in Seq(SUBSET SavedKeys)
  BY AppendProperties2 DEF TypeOK, MailboxTypeOK, Post
<1> QED BY <1>1 DEF TypeOK, MailboxTypeOK, Post, mailbox

(* A sent command joins the requests in flight. *)
LEMMA SendType ==
  ASSUME TypeOK, Send
  PROVE  inflight' \in Seq(Requests)
<1> DEFINE x == [nonce |-> nonce + 1, cmd |-> Command(pc, target)]
<1>1. x \in Requests
  BY DEF TypeOK, Requests, Command, Commands
<1> QED BY <1>1, AppendProperties2 DEF TypeOK, DiscordTypeOK, Send

(* Type correctness under the worker's steps. *)
LEMMA WorkerType == ASSUME TypeOK, Worker PROVE TypeOK'
<1> USE DEF TypeOK, MailboxTypeOK, DiscordTypeOK, mailboxVars, mailbox, discordVars, job, link,
        PCs, Sites, AuthSites, States
<1>0. stalled' \in BOOLEAN
  BY DEF Worker
<1> USE <1>0
<1>1. CASE TakeWork
  <2>1. MailboxTypeOK'
    BY <1>1 DEF TakeWork, TakeAll
  <2>2. DiscordTypeOK'
    BY <1>1 DEF TakeWork
  <2> QED BY <1>1, <2>1, <2>2 DEF TakeWork
<1>2. CASE TakeLogout
  BY <1>2, GotoType, DisconnectType DEF TakeLogout, TakeAll
<1>3. CASE PumpRead
  BY <1>3, InboxType DEF PumpRead
<1>4. CASE PumpClosed
  BY <1>4, GotoType, DisconnectType DEF PumpClosed
<1>5. CASE PumpDone
  BY <1>5, GotoType DEF PumpDone
<1>6. CASE NothingToDo
  BY <1>6, GotoType DEF NothingToDo
<1>7. CASE AlreadyReady
  BY <1>7, GotoType DEF AlreadyReady
<1>8. CASE GetReady
  BY <1>8 DEF GetReady, Announced, FirstTry
<1>9. CASE Open
  <2>1. PICK g \in Greetings : inbox' = <<g>>
    BY <1>9 DEF Open
  <2>2. g \in Answers
    BY GreetingsType
  <2>3. inbox' \in Seq(Answers)
    BY ONLY <2>1, <2>2, AnswerQueue
  <2> QED BY <1>9, <2>3, GotoType DEF Open
<1>10. CASE OpenFails
  BY <1>10, GotoType DEF OpenFails
<1>11. CASE Ready
  BY <1>11, InboxType, GotoType DEF Ready, Enter, Announced, FirstTry
<1>12. CASE NotReady
  BY <1>12, GotoType, DisconnectType DEF NotReady
<1>13. CASE Send
  BY <1>13, SendType DEF Send
<1>14. CASE SendFails
  BY <1>14, GotoType, DisconnectType DEF SendFails
<1>15. CASE Unsent
  BY <1>15, GiveUpType DEF Unsent
<1>16. CASE SkipStale
  BY <1>16, InboxType DEF SkipStale
<1>17. CASE TimedOut
  BY <1>17, GiveUpType DEF TimedOut
<1>18. CASE ClosedWhileWaiting
  BY <1>18, GotoType, DisconnectType DEF ClosedWhileWaiting
<1>19. CASE Refused
  BY <1>19, InboxType, GiveUpType DEF Refused, Receive
<1>20. CASE Authenticated
  <2>0. {"username"} \in SUBSET SavedKeys
    BY DEF SavedKeys
  <2>1. Post({"username"}) => MailboxTypeOK'
    BY ONLY <2>0, PostType, TypeOK
  <2>2. MailboxTypeOK'
    BY <1>20, <2>1 DEF Authenticated
  <2> QED BY <1>20, <2>2, InboxType, GotoType DEF Authenticated, Receive
<1>21. CASE Authorized
  BY <1>21, InboxType, GotoType DEF Authorized, Receive
<1>22. CASE Refresh
  <2>1. PICK keys \in {{"access"}, Tokens} : Post(keys)
    BY <1>22 DEF Refresh, Exchanged
  <2>2. MailboxTypeOK'
    BY <2>1, PostType DEF SavedKeys, Tokens
  <2> QED BY <1>22, <2>2, GotoType DEF Refresh, Exchanged
<1>23. CASE Exchange
  <2>1. PICK keys \in {{"access"}, Tokens} : Post(keys)
    BY <1>23 DEF Exchange, Exchanged
  <2>2. MailboxTypeOK'
    BY <2>1, PostType DEF SavedKeys, Tokens
  <2> QED BY <1>23, <2>2, GotoType DEF Exchange, Exchanged
<1>24. CASE BrowserCode
  BY <1>24, GotoType DEF BrowserCode
<1>25. CASE StepFails
  BY <1>25, GiveUpType DEF StepFails
<1>26. CASE AuthFailed
  BY <1>26, GotoType, DisconnectType DEF AuthFailed
<1>27. CASE LeaveDeafened
  <2>1. inbox' \in Seq(Answers)
    BY <1>27, InboxType DEF LeaveDeafened, Learned, Receive
  <2>2. pc' \in PCs /\ target' \in Targets \cup {"none"} /\ connectOnly' \in BOOLEAN
        /\ awaiting' \in BOOLEAN /\ wauth' \in SUBSET Tokens
    BY <1>27, GotoType DEF LeaveDeafened
  <2>3. MailboxTypeOK'
    BY <1>27 DEF LeaveDeafened
  <2>4. DiscordTypeOK'
    BY <1>27, <2>1 DEF LeaveDeafened, Learned, Receive
  <2>5. /\ conn' \in BOOLEAN /\ authed' \in BOOLEAN /\ weDeafened' \in BOOLEAN
        /\ orphan' \in {"none", "repeat", "unanswered"} /\ state' \in States /\ nonce' \in Nat
    BY <1>27 DEF LeaveDeafened, Learned, Receive
  <2> QED BY <2>2, <2>3, <2>4, <2>5
<1>28. CASE GoDeafen
  BY <1>28, InboxType, GotoType DEF GoDeafen, Learned, Receive
<1>29. CASE NotOurs
  BY <1>29, InboxType, GotoType DEF NotOurs, Learned, Receive
<1>30. CASE GoUndeafen
  <2>1. inbox' \in Seq(Answers)
    BY <1>30, InboxType DEF GoUndeafen, Learned, Receive
  <2>2. pc' \in PCs /\ target' \in Targets \cup {"none"} /\ connectOnly' \in BOOLEAN
        /\ awaiting' \in BOOLEAN /\ wauth' \in SUBSET Tokens
    BY <1>30, GotoType DEF GoUndeafen
  <2>3. MailboxTypeOK'
    BY <1>30 DEF GoUndeafen
  <2>4. DiscordTypeOK'
    BY <1>30, <2>1 DEF GoUndeafen, Learned, Receive
  <2>5. /\ conn' \in BOOLEAN /\ authed' \in BOOLEAN /\ weDeafened' \in BOOLEAN
        /\ orphan' \in {"none", "repeat", "unanswered"} /\ state' \in States /\ nonce' \in Nat
    BY <1>30 DEF GoUndeafen, Learned, Receive
  <2> QED BY <2>2, <2>3, <2>4, <2>5
<1>31. CASE SetDone
  BY <1>31, InboxType, GotoType DEF SetDone, Receive
<1>32. CASE AnnounceConnected
  BY <1>32, GotoType DEF AnnounceConnected
<1> QED BY <1>1, <1>2, <1>3, <1>4, <1>5, <1>6, <1>7, <1>8, <1>9, <1>10, <1>11, <1>12, <1>13,
      <1>14, <1>15, <1>16, <1>17, <1>18, <1>19, <1>20, <1>21, <1>22, <1>23, <1>24, <1>25, <1>26,
      <1>27, <1>28, <1>29, <1>30, <1>31, <1>32 DEF Worker, Steps

(* A call that holds the worker, or lets go of it, changes nothing else. *)
LEMMA StallType == ASSUME TypeOK, Stall \/ Unblock PROVE TypeOK'
<1>1. stalled' \in BOOLEAN /\ UNCHANGED <<mailboxVars, discordVars, workerVars>>
  BY DEF Stall, Unblock
<1>2. MailboxTypeOK'
  BY <1>1 DEF TypeOK, MailboxTypeOK, mailboxVars, mailbox
<1>3. DiscordTypeOK'
  BY <1>1 DEF TypeOK, DiscordTypeOK, discordVars
<1> QED BY <1>1, <1>2, <1>3 DEF TypeOK, workerVars, job, link

(* Every reachable state has the types of TypeOK. *)
THEOREM TypeCorrect == Spec => []TypeOK
<1>1. Init => TypeOK
  BY InitType
<1>2. TypeOK /\ [Next]_vars => TypeOK'
  <2> SUFFICES ASSUME TypeOK, [Next]_vars PROVE TypeOK'
    OBVIOUS
  <2>1. CASE UNCHANGED vars
    BY <2>1 DEF vars, TypeOK, MailboxTypeOK, DiscordTypeOK, mailboxVars, mailbox, discordVars,
       job, link
  <2> QED BY <2>1, GameType, WorkerType, OutsideType, StallType DEF Next
<1> QED BY <1>1, <1>2, PTL DEF Spec

-----------------------------------------------------------------------------
(* What reading an answer leaves, in the terms the invariants use. *)
LEMMA InboxRead ==
  ASSUME TypeOK, inbox # <<>>, inbox' = Tail(inbox)
  PROVE  /\ \A i \in DOMAIN inbox' : \E j \in DOMAIN inbox : inbox'[i] = inbox[j]
         /\ 1 \in DOMAIN inbox /\ Head(inbox) = inbox[1]
<1>1. inbox \in Seq(Answers)
  BY DEF TypeOK, DiscordTypeOK
<1> QED BY <1>1, TailProperties

(* After Discord executes a command the rest has moved up by one. *)
LEMMA Executed ==
  ASSUME TypeOK, NEW good \in BOOLEAN, Answer(good)
  PROVE  /\ \A i \in DOMAIN inflight' : /\ i + 1 \in DOMAIN inflight
                                        /\ inflight'[i] = inflight[i + 1]
         /\ Len(inflight') = Len(inflight) - 1 /\ Len(inflight') \in Nat
         /\ 1 \in DOMAIN inflight /\ Head(inflight) = inflight[1]
         /\ inflight' # <<>> => 1 \in DOMAIN inflight' /\ Head(inflight') = inflight'[1]
         /\ \A i \in DOMAIN inbox' :
              \/ \E j \in DOMAIN inbox : inbox'[i] = inbox[j]
              \/ inbox'[i] = [nonce |-> Head(inflight).nonce, ok |-> good, deaf |-> voice # "off"]
<1>1. inflight \in Seq(Requests) /\ inbox \in Seq(Answers) /\ inflight # <<>>
  BY DEF TypeOK, DiscordTypeOK, Answer
<1>2. inflight' \in Seq(Requests) /\ Head(inflight) \in Requests
  BY <1>1, TailProperties DEF Answer
<1> DEFINE x == [nonce |-> Head(inflight).nonce, ok |-> good, deaf |-> voice # "off"]
<1>3. x \in Answers
  BY <1>2 DEF Answers, Requests
<1>4. inbox' = Append(inbox, x)
  BY DEF Answer
<1> HIDE DEF x
<1>5. \A i \in DOMAIN inbox' : (\E j \in DOMAIN inbox : inbox'[i] = inbox[j]) \/ inbox'[i] = x
  BY <1>1, <1>3, <1>4, AppendProperties2
<1>6. /\ \A i \in DOMAIN inflight' : /\ i + 1 \in DOMAIN inflight
                                     /\ inflight'[i] = inflight[i + 1]
      /\ Len(inflight') = Len(inflight) - 1 /\ Len(inflight') \in Nat
      /\ 1 \in DOMAIN inflight /\ Head(inflight) = inflight[1]
  BY <1>1, <1>2, TailProperties DEF Answer
<1>7. inflight' # <<>> => 1 \in DOMAIN inflight' /\ Head(inflight') = inflight'[1]
  BY <1>2
<1> QED BY <1>5, <1>6, <1>7 DEF x

(* After a send to a live session the new command is the last one. *)
LEMMA Sent ==
  ASSUME TypeOK, Send, live
  PROVE  /\ Len(inflight') = Len(inflight) + 1 /\ inflight' # <<>> /\ Len(inflight) \in Nat
         /\ inflight = <<>> => Head(inflight') = inflight'[1] /\ Len(inflight') = 1
         /\ inflight # <<>> => Head(inflight') = Head(inflight)
         /\ \A i \in DOMAIN inflight' :
              \/ i \in DOMAIN inflight /\ inflight'[i] = inflight[i] /\ i # Len(inflight')
              \/ i = Len(inflight') /\ inflight'[i].nonce = nonce'
                    /\ inflight'[i].cmd = Command(pc, target)
<1> DEFINE x == [nonce |-> nonce + 1, cmd |-> Command(pc, target)]
<1>1. x \in Requests
  BY DEF TypeOK, Requests, Command, Commands
<1>2. inflight \in Seq(Requests) /\ inflight' = Append(inflight, x)
  BY DEF TypeOK, DiscordTypeOK, Send
<1>3. x.nonce = nonce' /\ x.cmd = Command(pc, target)
  BY DEF Send
<1> HIDE DEF x
<1> QED BY <1>1, <1>2, <1>3, AppendProperties2


(* Nonces are numbers. *)
LEMMA QueueTypes ==
  ASSUME TypeOK
  PROVE  /\ nonce \in Nat
         /\ \A i \in DOMAIN inflight : inflight[i].nonce \in Nat
         /\ \A i \in DOMAIN inbox : inbox[i].nonce \in Nat
<1>1. inflight \in Seq(Requests) /\ inbox \in Seq(Answers)
  BY DEF TypeOK, DiscordTypeOK
<1>2. /\ \A i \in DOMAIN inflight : inflight[i] \in Requests
      /\ \A i \in DOMAIN inbox : inbox[i] \in Answers
  BY <1>1
<1> QED BY <1>2 DEF Requests, Answers, TypeOK

(* The worker's steps preserve the parts of the invariant, one by one. *)
LEMMA WorkerLink == ASSUME IInv, Worker PROVE LinkInv'
<1> USE DEF IInv, LinkInv, PcInv, mailboxVars, discordVars, job, link, Sites, AuthSites
<1>1. CASE TakeWork
  BY <1>1 DEF TakeWork, TakeAll
<1>2. CASE TakeLogout
  BY <1>2 DEF TakeLogout, Disconnect, EndSession, Goto, TakeAll
<1>3. CASE PumpRead
  BY <1>3 DEF PumpRead
<1>4. CASE PumpClosed
  BY <1>4 DEF PumpClosed, Disconnect, EndSession, Goto
<1>5. CASE PumpDone
  BY <1>5 DEF PumpDone, Goto
<1>6. CASE NothingToDo
  BY <1>6 DEF NothingToDo, Goto
<1>7. CASE AlreadyReady
  BY <1>7 DEF AlreadyReady, Goto
<1>8. CASE GetReady
  BY <1>8 DEF GetReady, Announced, FirstTry
<1>9. CASE Open
  BY <1>9 DEF Open, Goto
<1>10. CASE OpenFails
  BY <1>10 DEF OpenFails, Goto
<1>11. CASE Ready
  BY <1>11 DEF Ready, Enter, Announced, FirstTry, Goto
<1>12. CASE NotReady
  BY <1>12 DEF NotReady, Disconnect, EndSession, Goto
<1>13. CASE Send
  BY <1>13 DEF Send
<1>14. CASE SendFails
  BY <1>14 DEF SendFails, Disconnect, EndSession, Goto
<1>15. CASE Unsent
  BY <1>15 DEF Unsent, AfterFailure, Enter, Announced, FirstTry, GiveUp, Goto
<1>16. CASE SkipStale
  BY <1>16 DEF SkipStale
<1>17. CASE TimedOut
  BY <1>17 DEF TimedOut, AfterFailure, Enter, Announced, FirstTry, GiveUp, Goto
<1>18. CASE ClosedWhileWaiting
  BY <1>18 DEF ClosedWhileWaiting, Disconnect, EndSession, Goto
<1>19. CASE Refused
  BY <1>19 DEF Refused, AfterFailure, Enter, Announced, FirstTry, GiveUp, Goto, Receive
<1>20. CASE Authenticated
  BY <1>20 DEF Authenticated, Goto, Receive
<1>21. CASE Authorized
  BY <1>21 DEF Authorized, Goto, Receive
<1>22. CASE Refresh
  BY <1>22 DEF Refresh, Exchanged, Goto
<1>23. CASE Exchange
  BY <1>23 DEF Exchange, Exchanged, Goto
<1>24. CASE BrowserCode
  BY <1>24 DEF BrowserCode, Goto
<1>25. CASE StepFails
  BY <1>25 DEF StepFails, AfterFailure, Enter, Announced, FirstTry, GiveUp, Goto
<1>26. CASE AuthFailed
  BY <1>26 DEF AuthFailed, Disconnect, EndSession, Goto
<1>27. CASE LeaveDeafened
  BY <1>27 DEF LeaveDeafened, Goto, Learned, Receive
<1>28. CASE GoDeafen
  BY <1>28 DEF GoDeafen, Goto, Learned, Receive
<1>29. CASE NotOurs
  BY <1>29 DEF NotOurs, Goto, Learned, Receive
<1>30. CASE GoUndeafen
  BY <1>30 DEF GoUndeafen, Goto, Learned, Receive
<1>31. CASE SetDone
  BY <1>31 DEF SetDone, Goto, Receive
<1>32. CASE AnnounceConnected
  BY <1>32 DEF AnnounceConnected, Goto
<1> QED
  BY <1>1, <1>2, <1>3, <1>4, <1>5, <1>6, <1>7, <1>8, <1>9, <1>10, <1>11, <1>12, <1>13, <1>14,
     <1>15, <1>16, <1>17, <1>18, <1>19, <1>20, <1>21, <1>22, <1>23, <1>24, <1>25, <1>26, <1>27,
     <1>28, <1>29, <1>30, <1>31, <1>32 DEF Worker, Steps

(* Where the worker is and what the page shows stay in step. *)
LEMMA WorkerPc == ASSUME IInv, Worker PROVE PcInv'
<1> USE DEF IInv, LinkInv, PcInv, TypeOK, Serving, mailboxVars, discordVars, job, link, Sites,
      AuthSites, PCs, Targets
<1>1. CASE TakeWork
  BY <1>1 DEF TakeWork, MailboxTypeOK, TakeAll
<1>2. CASE TakeLogout
  BY <1>2 DEF TakeLogout, Disconnect, EndSession, Goto, TakeAll
<1>3. CASE PumpRead
  BY <1>3 DEF PumpRead
<1>4. CASE PumpClosed
  BY <1>4 DEF PumpClosed, Disconnect, EndSession, Goto
<1>5. CASE PumpDone
  BY <1>5 DEF PumpDone, Goto
<1>6. CASE NothingToDo
  BY <1>6 DEF NothingToDo, Goto
<1>7. CASE AlreadyReady
  BY <1>7 DEF AlreadyReady, Goto
<1>8. CASE GetReady
  BY <1>8 DEF GetReady, Announced, FirstTry
<1>9. CASE Open
  BY <1>9 DEF Open, Goto
<1>10. CASE OpenFails
  BY <1>10 DEF OpenFails, Goto
<1>11. CASE Ready
  BY <1>11 DEF Ready, Enter, Announced, FirstTry, Goto
<1>12. CASE NotReady
  BY <1>12 DEF NotReady, Disconnect, EndSession, Goto
<1>13. CASE Send
  BY <1>13 DEF Send
<1>14. CASE SendFails
  BY <1>14 DEF SendFails, Disconnect, EndSession, Goto
<1>15. CASE Unsent
  BY <1>15 DEF Unsent, AfterFailure, Enter, Announced, FirstTry, GiveUp, Goto
<1>16. CASE SkipStale
  BY <1>16 DEF SkipStale
<1>17. CASE TimedOut
  BY <1>17 DEF TimedOut, AfterFailure, Enter, Announced, FirstTry, GiveUp, Goto
<1>18. CASE ClosedWhileWaiting
  BY <1>18 DEF ClosedWhileWaiting, Disconnect, EndSession, Goto
<1>19. CASE Refused
  BY <1>19 DEF Refused, AfterFailure, Enter, Announced, FirstTry, GiveUp, Goto, Receive
<1>20. CASE Authenticated
  BY <1>20 DEF Authenticated, Goto, Receive
<1>21. CASE Authorized
  BY <1>21 DEF Authorized, Goto, Receive
<1>22. CASE Refresh
  BY <1>22 DEF Refresh, Exchanged, Goto
<1>23. CASE Exchange
  BY <1>23 DEF Exchange, Exchanged, Goto
<1>24. CASE BrowserCode
  BY <1>24 DEF BrowserCode, Goto
<1>25. CASE StepFails
  BY <1>25 DEF StepFails, AfterFailure, Enter, Announced, FirstTry, GiveUp, Goto
<1>26. CASE AuthFailed
  BY <1>26 DEF AuthFailed, Disconnect, EndSession, Goto
<1>27. CASE LeaveDeafened
  BY <1>27 DEF LeaveDeafened, Goto, Learned, Receive
<1>28. CASE GoDeafen
  BY <1>28 DEF GoDeafen, Goto, Learned, Receive
<1>29. CASE NotOurs
  BY <1>29 DEF NotOurs, Goto, Learned, Receive
<1>30. CASE GoUndeafen
  BY <1>30 DEF GoUndeafen, Goto, Learned, Receive
<1>31. CASE SetDone
  BY <1>31 DEF SetDone, Goto, Receive
<1>32. CASE AnnounceConnected
  BY <1>32 DEF AnnounceConnected, Goto
<1> QED
  BY <1>1, <1>2, <1>3, <1>4, <1>5, <1>6, <1>7, <1>8, <1>9, <1>10, <1>11, <1>12, <1>13, <1>14,
     <1>15, <1>16, <1>17, <1>18, <1>19, <1>20, <1>21, <1>22, <1>23, <1>24, <1>25, <1>26, <1>27,
     <1>28, <1>29, <1>30, <1>31, <1>32 DEF Worker, Steps

(* "Connected" is announced by authentication only, which ends in a job. *)
LEMMA WorkerPhase == ASSUME IInv, Worker PROVE PhaseInv'
<1> USE DEF IInv, LinkInv, PcInv, PhaseInv, TypeOK, Serving, mailboxVars, discordVars, job, link,
      Sites, AuthSites, PCs
<1>1. CASE TakeWork
  BY <1>1 DEF TakeWork, MailboxTypeOK, TakeAll
<1>2. CASE TakeLogout
  BY <1>2 DEF TakeLogout, Disconnect, EndSession, Goto, TakeAll
<1>3. CASE PumpRead
  BY <1>3 DEF PumpRead
<1>4. CASE PumpClosed
  BY <1>4 DEF PumpClosed, Disconnect, EndSession, Goto
<1>5. CASE PumpDone
  BY <1>5 DEF PumpDone, Goto
<1>6. CASE NothingToDo
  BY <1>6 DEF NothingToDo, Goto
<1>7. CASE AlreadyReady
  BY <1>7 DEF AlreadyReady, Goto
<1>8. CASE GetReady
  BY <1>8 DEF GetReady, Announced, FirstTry
<1>9. CASE Open
  BY <1>9 DEF Open, Goto
<1>10. CASE OpenFails
  BY <1>10 DEF OpenFails, Goto
<1>11. CASE Ready
  BY <1>11 DEF Ready, Enter, Announced, FirstTry, Goto
<1>12. CASE NotReady
  BY <1>12 DEF NotReady, Disconnect, EndSession, Goto
<1>13. CASE Send
  BY <1>13 DEF Send
<1>14. CASE SendFails
  BY <1>14 DEF SendFails, Disconnect, EndSession, Goto
<1>15. CASE Unsent
  BY <1>15 DEF Unsent, AfterFailure, Enter, Announced, FirstTry, GiveUp, Goto
<1>16. CASE SkipStale
  BY <1>16 DEF SkipStale
<1>17. CASE TimedOut
  BY <1>17 DEF TimedOut, AfterFailure, Enter, Announced, FirstTry, GiveUp, Goto
<1>18. CASE ClosedWhileWaiting
  BY <1>18 DEF ClosedWhileWaiting, Disconnect, EndSession, Goto
<1>19. CASE Refused
  BY <1>19 DEF Refused, AfterFailure, Enter, Announced, FirstTry, GiveUp, Goto, Receive
<1>20. CASE Authenticated
  BY <1>20 DEF Authenticated, Goto, Receive
<1>21. CASE Authorized
  BY <1>21 DEF Authorized, Goto, Receive
<1>22. CASE Refresh
  BY <1>22 DEF Refresh, Exchanged, Goto
<1>23. CASE Exchange
  BY <1>23 DEF Exchange, Exchanged, Goto
<1>24. CASE BrowserCode
  BY <1>24 DEF BrowserCode, Goto
<1>25. CASE StepFails
  BY <1>25 DEF StepFails, AfterFailure, Enter, Announced, FirstTry, GiveUp, Goto
<1>26. CASE AuthFailed
  BY <1>26 DEF AuthFailed, Disconnect, EndSession, Goto
<1>27. CASE LeaveDeafened
  BY <1>27 DEF LeaveDeafened, Goto, Learned, Receive
<1>28. CASE GoDeafen
  BY <1>28 DEF GoDeafen, Goto, Learned, Receive
<1>29. CASE NotOurs
  BY <1>29 DEF NotOurs, Goto, Learned, Receive
<1>30. CASE GoUndeafen
  BY <1>30 DEF GoUndeafen, Goto, Learned, Receive
<1>31. CASE SetDone
  BY <1>31 DEF SetDone, Goto, Receive
<1>32. CASE AnnounceConnected
  BY <1>32 DEF AnnounceConnected, Goto
<1> QED
  BY <1>1, <1>2, <1>3, <1>4, <1>5, <1>6, <1>7, <1>8, <1>9, <1>10, <1>11, <1>12, <1>13, <1>14,
     <1>15, <1>16, <1>17, <1>18, <1>19, <1>20, <1>21, <1>22, <1>23, <1>24, <1>25, <1>26, <1>27,
     <1>28, <1>29, <1>30, <1>31, <1>32 DEF Worker, Steps

(* Only a send makes a new nonce. *)
LEMMA WorkerNonce == ASSUME IInv, Worker PROVE NonceInv'
<1> USE DEF IInv, NonceInv, TypeOK, LinkInv, mailboxVars, discordVars, job, link
<1>1. CASE TakeWork
  BY <1>1 DEF TakeWork, TakeAll
<1>2. CASE TakeLogout
  BY <1>2 DEF TakeLogout, Disconnect, EndSession, Goto, TakeAll
<1>3. CASE PumpRead
  BY <1>3, InboxRead DEF PumpRead
<1>4. CASE PumpClosed
  BY <1>4 DEF PumpClosed, Disconnect, EndSession, Goto
<1>5. CASE PumpDone
  BY <1>5 DEF PumpDone, Goto
<1>6. CASE NothingToDo
  BY <1>6 DEF NothingToDo, Goto
<1>7. CASE AlreadyReady
  BY <1>7 DEF AlreadyReady, Goto
<1>8. CASE GetReady
  BY <1>8 DEF GetReady, Announced, FirstTry
<1>9. CASE Open
  <2>1. inflight' = <<>>
    BY <1>9 DEF Open, PcInv
  <2>2. \A i \in DOMAIN inbox' : inbox'[i].nonce = 0
    BY <1>9 DEF Open, Greetings
  <2> QED BY <1>9, <2>1, <2>2 DEF Open
<1>10. CASE OpenFails
  BY <1>10 DEF OpenFails, Goto
<1>11. CASE Ready
  BY <1>11, InboxRead DEF Ready, Enter, Announced, FirstTry, Goto
<1>12. CASE NotReady
  BY <1>12 DEF NotReady, Disconnect, EndSession, Goto
<1>13. CASE Send
  <2>1. CASE live
    BY <1>13, <2>1, Sent, QueueTypes DEF Send
  <2>2. CASE ~live
    BY <1>13, <2>2, QueueTypes DEF Send
  <2> QED BY <2>1, <2>2 DEF DiscordTypeOK
<1>14. CASE SendFails
  BY <1>14 DEF SendFails, Disconnect, EndSession, Goto
<1>15. CASE Unsent
  BY <1>15 DEF Unsent, AfterFailure, Enter, Announced, FirstTry, GiveUp, Goto
<1>16. CASE SkipStale
  BY <1>16, InboxRead DEF SkipStale
<1>17. CASE TimedOut
  BY <1>17 DEF TimedOut, AfterFailure, Enter, Announced, FirstTry, GiveUp, Goto
<1>18. CASE ClosedWhileWaiting
  BY <1>18 DEF ClosedWhileWaiting, Disconnect, EndSession, Goto
<1>19. CASE Refused
  BY <1>19, InboxRead DEF Refused, AfterFailure, Enter, Announced, FirstTry, GiveUp, Goto, Receive
<1>20. CASE Authenticated
  BY <1>20, InboxRead DEF Authenticated, Goto, Receive
<1>21. CASE Authorized
  BY <1>21, InboxRead DEF Authorized, Goto, Receive
<1>22. CASE Refresh
  BY <1>22 DEF Refresh, Exchanged, Goto
<1>23. CASE Exchange
  BY <1>23 DEF Exchange, Exchanged, Goto
<1>24. CASE BrowserCode
  BY <1>24 DEF BrowserCode, Goto
<1>25. CASE StepFails
  BY <1>25 DEF StepFails, AfterFailure, Enter, Announced, FirstTry, GiveUp, Goto
<1>26. CASE AuthFailed
  BY <1>26 DEF AuthFailed, Disconnect, EndSession, Goto
<1>27. CASE LeaveDeafened
  BY <1>27, InboxRead DEF LeaveDeafened, Goto, Learned, Receive
<1>28. CASE GoDeafen
  BY <1>28, InboxRead DEF GoDeafen, Goto, Learned, Receive
<1>29. CASE NotOurs
  BY <1>29, InboxRead DEF NotOurs, Goto, Learned, Receive
<1>30. CASE GoUndeafen
  BY <1>30, InboxRead DEF GoUndeafen, Goto, Learned, Receive
<1>31. CASE SetDone
  BY <1>31, InboxRead DEF SetDone, Goto, Receive
<1>32. CASE AnnounceConnected
  BY <1>32 DEF AnnounceConnected, Goto
<1> QED
  BY <1>1, <1>2, <1>3, <1>4, <1>5, <1>6, <1>7, <1>8, <1>9, <1>10, <1>11, <1>12, <1>13, <1>14,
     <1>15, <1>16, <1>17, <1>18, <1>19, <1>20, <1>21, <1>22, <1>23, <1>24, <1>25, <1>26, <1>27,
     <1>28, <1>29, <1>30, <1>31, <1>32 DEF Worker, Steps

(* Only a send starts a wait, and nothing of it has come back then. *)
LEMMA WorkerAnswer == ASSUME IInv, Worker PROVE AnswerInv'
<1> USE DEF IInv, AnswerInv, PcInv, NonceInv, Sites, AuthSites, mailboxVars, discordVars, job,
      link
<1>1. CASE TakeWork
  BY <1>1 DEF TakeWork, Command, Done, TakeAll
<1>2. CASE TakeLogout
  BY <1>2 DEF TakeLogout, Disconnect, EndSession, Goto, TakeAll
<1>3. CASE PumpRead
  BY <1>3, InboxRead DEF PumpRead, Command, Done
<1>4. CASE PumpClosed
  BY <1>4 DEF PumpClosed, Disconnect, EndSession, Goto
<1>5. CASE PumpDone
  BY <1>5 DEF PumpDone, Goto
<1>6. CASE NothingToDo
  BY <1>6 DEF NothingToDo, Goto
<1>7. CASE AlreadyReady
  BY <1>7 DEF AlreadyReady, Goto
<1>8. CASE GetReady
  BY <1>8 DEF GetReady, Announced, Command, Done, FirstTry
<1>9. CASE Open
  BY <1>9 DEF Open, Goto
<1>10. CASE OpenFails
  BY <1>10 DEF OpenFails, Goto
<1>11. CASE Ready
  BY <1>11, InboxRead DEF Ready, Enter, Announced, FirstTry, Goto
<1>12. CASE NotReady
  BY <1>12 DEF NotReady, Disconnect, EndSession, Goto
<1>13. CASE Send
  <2>1. CASE live
    <3>1. \A i \in DOMAIN inflight' : inflight'[i].nonce = nonce'
          => inflight'[i].cmd = Command(pc, target)
      BY <1>13, <2>1, Sent, QueueTypes DEF Send
    <3>2. \A i \in DOMAIN inbox' : inbox'[i].nonce # nonce'
      BY <1>13, QueueTypes DEF Send
    <3> QED BY <1>13, <3>1, <3>2 DEF Send, Command
  <2> QED BY <1>13, <2>1 DEF Send
<1>14. CASE SendFails
  BY <1>14 DEF SendFails, Disconnect, EndSession, Goto
<1>15. CASE Unsent
  BY <1>15 DEF Unsent, AfterFailure, Enter, Announced, FirstTry, GiveUp, Goto
<1>16. CASE SkipStale
  BY <1>16, InboxRead DEF SkipStale, Command, Done
<1>17. CASE TimedOut
  BY <1>17 DEF TimedOut, AfterFailure, Enter, Announced, FirstTry, GiveUp, Goto
<1>18. CASE ClosedWhileWaiting
  BY <1>18 DEF ClosedWhileWaiting, Disconnect, EndSession, Goto
<1>19. CASE Refused
  BY <1>19, InboxRead DEF Refused, AfterFailure, Enter, Announced, FirstTry, GiveUp, Goto, Receive
<1>20. CASE Authenticated
  BY <1>20, InboxRead DEF Authenticated, Goto, Receive
<1>21. CASE Authorized
  BY <1>21, InboxRead DEF Authorized, Goto, Receive
<1>22. CASE Refresh
  BY <1>22 DEF Refresh, Exchanged, Goto
<1>23. CASE Exchange
  BY <1>23 DEF Exchange, Exchanged, Goto
<1>24. CASE BrowserCode
  BY <1>24 DEF BrowserCode, Goto
<1>25. CASE StepFails
  BY <1>25 DEF StepFails, AfterFailure, Enter, Announced, FirstTry, GiveUp, Goto
<1>26. CASE AuthFailed
  BY <1>26 DEF AuthFailed, Disconnect, EndSession, Goto
<1>27. CASE LeaveDeafened
  BY <1>27, InboxRead DEF LeaveDeafened, Goto, Learned, Receive
<1>28. CASE GoDeafen
  BY <1>28, InboxRead DEF GoDeafen, Goto, Learned, Receive
<1>29. CASE NotOurs
  BY <1>29, InboxRead DEF NotOurs, Goto, Learned, Receive
<1>30. CASE GoUndeafen
  BY <1>30, InboxRead DEF GoUndeafen, Goto, Learned, Receive
<1>31. CASE SetDone
  BY <1>31, InboxRead DEF SetDone, Goto, Receive
<1>32. CASE AnnounceConnected
  BY <1>32 DEF AnnounceConnected, Goto
<1> QED
  BY <1>1, <1>2, <1>3, <1>4, <1>5, <1>6, <1>7, <1>8, <1>9, <1>10, <1>11, <1>12, <1>13, <1>14,
     <1>15, <1>16, <1>17, <1>18, <1>19, <1>20, <1>21, <1>22, <1>23, <1>24, <1>25, <1>26, <1>27,
     <1>28, <1>29, <1>30, <1>31, <1>32 DEF Worker, Steps

(* A SET is sent on the answer of the GET before it. *)
LEMMA WorkerSet == ASSUME IInv, Worker PROVE SetInv'
<1> USE DEF IInv, SetInv, OwnerInv, OwnsWhatItSet, AnswerInv, Done, LinkInv, PcInv, NonceInv,
      Sites, AuthSites, mailboxVars, discordVars, job, link
<1>1. CASE TakeWork
  BY <1>1 DEF TakeWork, Command, Justified, TakeAll
<1>2. CASE TakeLogout
  BY <1>2 DEF TakeLogout, Command, Disconnect, EndSession, Goto, Justified, TakeAll
<1>3. CASE PumpRead
  BY <1>3, InboxRead DEF PumpRead, Command, Justified
<1>4. CASE PumpClosed
  BY <1>4 DEF PumpClosed, Command, Disconnect, EndSession, Goto, Justified
<1>5. CASE PumpDone
  BY <1>5 DEF PumpDone, Command, Goto, Justified
<1>6. CASE NothingToDo
  BY <1>6 DEF NothingToDo, Command, Goto, Justified
<1>7. CASE AlreadyReady
  BY <1>7 DEF AlreadyReady, Command, Goto, Justified
<1>8. CASE GetReady
  BY <1>8 DEF GetReady, Announced, Command, FirstTry, Justified
<1>9. CASE Open
  BY <1>9 DEF Open, Command, Goto, Justified
<1>10. CASE OpenFails
  BY <1>10 DEF OpenFails, Command, Goto, Justified
<1>11. CASE Ready
  BY <1>11, InboxRead DEF Ready, Command, Enter, Announced, FirstTry, Goto, Justified
<1>12. CASE NotReady
  BY <1>12 DEF NotReady, Command, Disconnect, EndSession, Goto, Justified
<1>13. CASE Send
  BY <1>13, Sent DEF Send, Command, Justified
<1>14. CASE SendFails
  BY <1>14 DEF SendFails, Command, Disconnect, EndSession, Goto, Justified
<1>15. CASE Unsent
  BY <1>15 DEF Unsent, AfterFailure, Command, Enter, Announced, FirstTry, GiveUp, Goto, Justified
<1>16. CASE SkipStale
  BY <1>16, InboxRead DEF SkipStale, Command, Justified
<1>17. CASE TimedOut
  BY <1>17 DEF TimedOut, AfterFailure, Command, Enter, Announced, FirstTry, GiveUp, Goto, Justified
<1>18. CASE ClosedWhileWaiting
  BY <1>18 DEF ClosedWhileWaiting, Command, Disconnect, EndSession, Goto, Justified
<1>19. CASE Refused
  BY <1>19, InboxRead DEF Refused, AfterFailure, Command, Enter, Announced, FirstTry, GiveUp, Goto,
     Justified, Receive
<1>20. CASE Authenticated
  BY <1>20, InboxRead DEF Authenticated, Command, Goto, Justified, Receive
<1>21. CASE Authorized
  BY <1>21, InboxRead DEF Authorized, Command, Goto, Justified, Receive
<1>22. CASE Refresh
  BY <1>22 DEF Refresh, Command, Exchanged, Goto, Justified
<1>23. CASE Exchange
  BY <1>23 DEF Exchange, Command, Exchanged, Goto, Justified
<1>24. CASE BrowserCode
  BY <1>24 DEF BrowserCode, Command, Goto, Justified
<1>25. CASE StepFails
  BY <1>25 DEF StepFails, AfterFailure, Command, Enter, Announced, FirstTry, GiveUp, Goto, Justified
<1>26. CASE AuthFailed
  BY <1>26 DEF AuthFailed, Command, Disconnect, EndSession, Goto, Justified
<1>27. CASE LeaveDeafened
  BY <1>27, InboxRead DEF LeaveDeafened, Command, Goto, Justified, Learned, Receive
<1>28. CASE GoDeafen
  BY <1>28, InboxRead DEF GoDeafen, Command, Goto, Justified, Learned, Receive
<1>29. CASE NotOurs
  BY <1>29, InboxRead DEF NotOurs, Command, Goto, Justified, Learned, Receive
<1>30. CASE GoUndeafen
  BY <1>30, InboxRead DEF GoUndeafen, Command, Goto, Justified, Learned, Receive
<1>31. CASE SetDone
  BY <1>31, InboxRead DEF SetDone, Command, Goto, Justified, Receive
<1>32. CASE AnnounceConnected
  BY <1>32 DEF AnnounceConnected, Command, Goto, Justified
<1> QED
  BY <1>1, <1>2, <1>3, <1>4, <1>5, <1>6, <1>7, <1>8, <1>9, <1>10, <1>11, <1>12, <1>13, <1>14,
     <1>15, <1>16, <1>17, <1>18, <1>19, <1>20, <1>21, <1>22, <1>23, <1>24, <1>25, <1>26, <1>27,
     <1>28, <1>29, <1>30, <1>31, <1>32 DEF Worker, Steps

(* Ownership starts with a SET that is done and ends before its undoing. *)
LEMMA WorkerOwner == ASSUME IInv, Worker PROVE OwnerInv'
<1> USE DEF IInv, OwnerInv, OwnsWhatItSet, AnswerInv, Done, SetInv, LinkInv, PcInv, NonceInv,
      Sites, AuthSites, Targets, mailboxVars, discordVars, job, link
<1>1. CASE TakeWork
  BY <1>1 DEF TakeWork, TakeAll
<1>2. CASE TakeLogout
  BY <1>2 DEF TakeLogout, Disconnect, EndSession, Goto, TakeAll
<1>3. CASE PumpRead
  BY <1>3, InboxRead DEF PumpRead
<1>4. CASE PumpClosed
  BY <1>4 DEF PumpClosed, Disconnect, EndSession, Goto
<1>5. CASE PumpDone
  BY <1>5 DEF PumpDone, Goto
<1>6. CASE NothingToDo
  BY <1>6 DEF NothingToDo, Goto
<1>7. CASE AlreadyReady
  BY <1>7 DEF AlreadyReady, Goto
<1>8. CASE GetReady
  BY <1>8 DEF GetReady, Announced, FirstTry
<1>9. CASE Open
  BY <1>9 DEF Open, Goto
<1>10. CASE OpenFails
  BY <1>10 DEF OpenFails, Goto
<1>11. CASE Ready
  BY <1>11, InboxRead DEF Ready, Enter, Announced, FirstTry, Goto
<1>12. CASE NotReady
  BY <1>12 DEF NotReady, Disconnect, EndSession, Goto
<1>13. CASE Send
  BY <1>13, Sent DEF Send, Command
<1>14. CASE SendFails
  BY <1>14 DEF SendFails, Disconnect, EndSession, Goto
<1>15. CASE Unsent
  BY <1>15 DEF Unsent, AfterFailure, Enter, Announced, FirstTry, GiveUp, Goto
<1>16. CASE SkipStale
  BY <1>16, InboxRead DEF SkipStale
<1>17. CASE TimedOut
  BY <1>17 DEF TimedOut, AfterFailure, Enter, Announced, FirstTry, GiveUp, Goto
<1>18. CASE ClosedWhileWaiting
  BY <1>18 DEF ClosedWhileWaiting, Disconnect, EndSession, Goto
<1>19. CASE Refused
  BY <1>19, InboxRead DEF Refused, AfterFailure, Enter, Announced, FirstTry, GiveUp, Goto, Receive
<1>20. CASE Authenticated
  BY <1>20, InboxRead DEF Authenticated, Goto, Receive
<1>21. CASE Authorized
  BY <1>21, InboxRead DEF Authorized, Goto, Receive
<1>22. CASE Refresh
  BY <1>22 DEF Refresh, Exchanged, Goto
<1>23. CASE Exchange
  BY <1>23 DEF Exchange, Exchanged, Goto
<1>24. CASE BrowserCode
  BY <1>24 DEF BrowserCode, Goto
<1>25. CASE StepFails
  BY <1>25 DEF StepFails, AfterFailure, Enter, Announced, FirstTry, GiveUp, Goto
<1>26. CASE AuthFailed
  BY <1>26 DEF AuthFailed, Disconnect, EndSession, Goto
<1>27. CASE LeaveDeafened
  BY <1>27, InboxRead DEF LeaveDeafened, Goto, Learned, Receive
<1>28. CASE GoDeafen
  BY <1>28, InboxRead DEF GoDeafen, Goto, Learned, Receive
<1>29. CASE NotOurs
  BY <1>29, InboxRead DEF NotOurs, Goto, Learned, Receive
<1>30. CASE GoUndeafen
  BY <1>30, InboxRead DEF GoUndeafen, Goto, Learned, Receive
<1>31. CASE SetDone
  <2>1. inbox[1].nonce = nonce /\ inbox[1].ok /\ 1 \in DOMAIN inbox
    BY <1>31, InboxRead DEF SetDone, Receive
  <2>2. inflight' = <<>>
    BY <1>31, <2>1 DEF SetDone, Receive
  <2>3. live /\ target = "deafen" => control = "deaf"
    BY <1>31, <2>1 DEF SetDone, Receive
  <2>4. weDeafened' => target = "deafen"
    BY <1>31 DEF SetDone
  <2>5. (weDeafened /\ live => control = "deaf")'
    BY <1>31, <2>3, <2>4 DEF SetDone, Receive
  <2>6. pc' # "set"
    BY <1>31 DEF SetDone, Goto
  <2> QED BY <2>2, <2>5, <2>6
<1>32. CASE AnnounceConnected
  BY <1>32 DEF AnnounceConnected, Goto
<1> QED
  BY <1>1, <1>2, <1>3, <1>4, <1>5, <1>6, <1>7, <1>8, <1>9, <1>10, <1>11, <1>12, <1>13, <1>14,
     <1>15, <1>16, <1>17, <1>18, <1>19, <1>20, <1>21, <1>22, <1>23, <1>24, <1>25, <1>26, <1>27,
     <1>28, <1>29, <1>30, <1>31, <1>32 DEF Worker, Steps

(* The worker gives up a deafen of the mod for a known reason only. *)
LEMMA WorkerOrphan == ASSUME IInv, Worker PROVE OrphanInv'
<1> USE DEF IInv, OrphanInv, OrphanHasCause, OwnerInv, OwnsWhatItSet, AnswerInv, Done, SetInv,
      LinkInv, PcInv, NonceInv, Sites, AuthSites, Targets, mailboxVars, discordVars, job, link
<1>1. CASE TakeWork
  BY <1>1 DEF TakeWork, TakeAll
<1>2. CASE TakeLogout
  BY <1>2 DEF TakeLogout, Disconnect, EndSession, Goto, TakeAll
<1>3. CASE PumpRead
  BY <1>3, InboxRead DEF PumpRead
<1>4. CASE PumpClosed
  BY <1>4 DEF PumpClosed, Disconnect, EndSession, Goto
<1>5. CASE PumpDone
  BY <1>5 DEF PumpDone, Goto
<1>6. CASE NothingToDo
  BY <1>6 DEF NothingToDo, Goto
<1>7. CASE AlreadyReady
  BY <1>7 DEF AlreadyReady, Goto
<1>8. CASE GetReady
  BY <1>8 DEF GetReady, Announced, FirstTry
<1>9. CASE Open
  BY <1>9 DEF Open, Goto
<1>10. CASE OpenFails
  BY <1>10 DEF OpenFails, Goto
<1>11. CASE Ready
  BY <1>11, InboxRead DEF Ready, Enter, Announced, FirstTry, Goto
<1>12. CASE NotReady
  BY <1>12 DEF NotReady, Disconnect, EndSession, Goto
<1>13. CASE Send
  BY <1>13, Sent DEF Send, Command
<1>14. CASE SendFails
  BY <1>14 DEF SendFails, Disconnect, EndSession, Goto
<1>15. CASE Unsent
  BY <1>15 DEF Unsent, AfterFailure, Enter, Announced, FirstTry, GiveUp, Goto
<1>16. CASE SkipStale
  BY <1>16, InboxRead DEF SkipStale
<1>17. CASE TimedOut
  BY <1>17 DEF TimedOut, AfterFailure, Enter, Announced, FirstTry, GiveUp, Goto
<1>18. CASE ClosedWhileWaiting
  BY <1>18 DEF ClosedWhileWaiting, Disconnect, EndSession, Goto
<1>19. CASE Refused
  BY <1>19, InboxRead DEF Refused, AfterFailure, Enter, Announced, FirstTry, GiveUp, Goto, Receive
<1>20. CASE Authenticated
  BY <1>20, InboxRead DEF Authenticated, Goto, Receive
<1>21. CASE Authorized
  BY <1>21, InboxRead DEF Authorized, Goto, Receive
<1>22. CASE Refresh
  BY <1>22 DEF Refresh, Exchanged, Goto
<1>23. CASE Exchange
  BY <1>23 DEF Exchange, Exchanged, Goto
<1>24. CASE BrowserCode
  BY <1>24 DEF BrowserCode, Goto
<1>25. CASE StepFails
  BY <1>25 DEF StepFails, AfterFailure, Enter, Announced, FirstTry, GiveUp, Goto
<1>26. CASE AuthFailed
  BY <1>26 DEF AuthFailed, Disconnect, EndSession, Goto
<1>27. CASE LeaveDeafened
  BY <1>27, InboxRead DEF LeaveDeafened, Goto, Learned, Receive
<1>28. CASE GoDeafen
  BY <1>28, InboxRead DEF GoDeafen, Goto, Learned, Receive
<1>29. CASE NotOurs
  BY <1>29, InboxRead DEF NotOurs, Goto, Learned, Receive
<1>30. CASE GoUndeafen
  BY <1>30, InboxRead DEF GoUndeafen, Goto, Learned, Receive
<1>31. CASE SetDone
  BY <1>31, InboxRead DEF SetDone, Goto, Receive
<1>32. CASE AnnounceConnected
  BY <1>32 DEF AnnounceConnected, Goto
<1> QED
  BY <1>1, <1>2, <1>3, <1>4, <1>5, <1>6, <1>7, <1>8, <1>9, <1>10, <1>11, <1>12, <1>13, <1>14,
     <1>15, <1>16, <1>17, <1>18, <1>19, <1>20, <1>21, <1>22, <1>23, <1>24, <1>25, <1>26, <1>27,
     <1>28, <1>29, <1>30, <1>31, <1>32 DEF Worker, Steps

(* The worker itself changes neither what was told nor the control. *)
LEMMA WorkerUser == ASSUME IInv, Worker PROVE UserInv'
<1> USE DEF IInv, UserInv, mailboxVars, discordVars, job, link
<1>1. CASE TakeWork
  BY <1>1 DEF TakeWork, TakeAll
<1>2. CASE TakeLogout
  BY <1>2 DEF TakeLogout, Disconnect, EndSession, Goto, TakeAll
<1>3. CASE PumpRead
  BY <1>3 DEF PumpRead
<1>4. CASE PumpClosed
  BY <1>4 DEF PumpClosed, Disconnect, EndSession, Goto
<1>5. CASE PumpDone
  BY <1>5 DEF PumpDone, Goto
<1>6. CASE NothingToDo
  BY <1>6 DEF NothingToDo, Goto
<1>7. CASE AlreadyReady
  BY <1>7 DEF AlreadyReady, Goto
<1>8. CASE GetReady
  BY <1>8 DEF GetReady, Announced, FirstTry
<1>9. CASE Open
  BY <1>9 DEF Open, Goto
<1>10. CASE OpenFails
  BY <1>10 DEF OpenFails, Goto
<1>11. CASE Ready
  BY <1>11 DEF Ready, Enter, Announced, FirstTry, Goto
<1>12. CASE NotReady
  BY <1>12 DEF NotReady, Disconnect, EndSession, Goto
<1>13. CASE Send
  BY <1>13 DEF Send
<1>14. CASE SendFails
  BY <1>14 DEF SendFails, Disconnect, EndSession, Goto
<1>15. CASE Unsent
  BY <1>15 DEF Unsent, AfterFailure, Enter, Announced, FirstTry, GiveUp, Goto
<1>16. CASE SkipStale
  BY <1>16 DEF SkipStale
<1>17. CASE TimedOut
  BY <1>17 DEF TimedOut, AfterFailure, Enter, Announced, FirstTry, GiveUp, Goto
<1>18. CASE ClosedWhileWaiting
  BY <1>18 DEF ClosedWhileWaiting, Disconnect, EndSession, Goto
<1>19. CASE Refused
  BY <1>19 DEF Refused, AfterFailure, Enter, Announced, FirstTry, GiveUp, Goto, Receive
<1>20. CASE Authenticated
  BY <1>20 DEF Authenticated, Goto, Receive
<1>21. CASE Authorized
  BY <1>21 DEF Authorized, Goto, Receive
<1>22. CASE Refresh
  BY <1>22 DEF Refresh, Exchanged, Goto
<1>23. CASE Exchange
  BY <1>23 DEF Exchange, Exchanged, Goto
<1>24. CASE BrowserCode
  BY <1>24 DEF BrowserCode, Goto
<1>25. CASE StepFails
  BY <1>25 DEF StepFails, AfterFailure, Enter, Announced, FirstTry, GiveUp, Goto
<1>26. CASE AuthFailed
  BY <1>26 DEF AuthFailed, Disconnect, EndSession, Goto
<1>27. CASE LeaveDeafened
  BY <1>27 DEF LeaveDeafened, Goto, Learned, Receive
<1>28. CASE GoDeafen
  BY <1>28 DEF GoDeafen, Goto, Learned, Receive
<1>29. CASE NotOurs
  BY <1>29 DEF NotOurs, Goto, Learned, Receive
<1>30. CASE GoUndeafen
  BY <1>30 DEF GoUndeafen, Goto, Learned, Receive
<1>31. CASE SetDone
  BY <1>31 DEF SetDone, Goto, Receive
<1>32. CASE AnnounceConnected
  BY <1>32 DEF AnnounceConnected, Goto
<1> QED
  BY <1>1, <1>2, <1>3, <1>4, <1>5, <1>6, <1>7, <1>8, <1>9, <1>10, <1>11, <1>12, <1>13, <1>14,
     <1>15, <1>16, <1>17, <1>18, <1>19, <1>20, <1>21, <1>22, <1>23, <1>24, <1>25, <1>26, <1>27,
     <1>28, <1>29, <1>30, <1>31, <1>32 DEF Worker, Steps


-----------------------------------------------------------------------------
(* Discord's own steps. *)
LEMMA ExecuteStep == ASSUME IInv, Outside, Execute PROVE IInv'
<1> USE DEF Outside, workerVars, mailboxVars, job, link
<1>1. PICK good \in BOOLEAN : Answer(good)
  BY DEF Execute, Accept, Report, SetDeaf, SetUndeaf, Reject
<1>2. TypeOK /\ TypeOK'
  BY OutsideType DEF IInv
<1>3. inflight # <<>> /\ live
  BY <1>1 DEF Answer, IInv, LinkInv
<1>4. LinkInv'
  BY <1>1, <1>3 DEF IInv, LinkInv, Answer
<1>5. PcInv' /\ PhaseInv'
  BY DEF IInv, PcInv, PhaseInv, Serving
<1>6. NonceInv'
  BY <1>1, <1>2, Executed, QueueTypes DEF IInv, NonceInv
<1>7. AnswerInv'
  <2> SUFFICES ASSUME awaiting PROVE AnswerInv'
    BY DEF AnswerInv
  <2>1. \A i \in DOMAIN inflight' : inflight'[i].nonce = nonce
        => inflight'[i].cmd = Command(pc, target)
    BY <1>1, <1>2, <1>3, Executed DEF IInv, AnswerInv
  <2>2. \A j \in DOMAIN inbox : inbox[j].nonce # nonce
    BY <1>3 DEF IInv, NonceInv
  <2>3. Head(inflight).nonce = nonce => Head(inflight).cmd = Command(pc, target)
    BY <1>1, <1>2, <1>3, Executed DEF IInv, AnswerInv
  <2>4. good /\ Head(inflight).nonce = nonce =>
          /\ pc = "get" => told' = IF voice # "off" THEN "deaf" ELSE "undeaf"
          /\ pc = "set" /\ target = "deafen" => control' = "deaf"
          /\ pc = "set" /\ target = "undeafen" => voice' # "mod"
    BY <1>1, <2>3 DEF Command, AuthSites, Execute, Accept, Report, SetDeaf, SetUndeaf, Reject,
       NextIs, Answer
  <2>5. ASSUME NEW i \in DOMAIN inbox', inbox'[i].nonce = nonce, inbox'[i].ok
        PROVE  /\ pc = "get" => told' = IF inbox'[i].deaf THEN "deaf" ELSE "undeaf"
               /\ pc = "set" /\ target = "deafen" => control' = "deaf"
               /\ pc = "set" /\ target = "undeafen" => voice' # "mod"
    <3>1. inbox'[i] = [nonce |-> Head(inflight).nonce, ok |-> good, deaf |-> voice # "off"]
      BY <1>1, <1>2, <2>2, <2>5, Executed
    <3>2. Head(inflight).nonce = nonce
      BY ONLY <2>5, <3>1
    <3>3. inbox'[i].ok = good /\ inbox'[i].deaf = (voice # "off")
      BY <3>1
    <3>4. good /\ (inbox'[i].deaf <=> voice # "off")
      BY <2>5, <3>3
    <3> QED BY <2>4, <3>2, <3>4
  <2> QED BY <2>1, <2>5 DEF AnswerInv, Done, Command
<1>8. SetInv'
  BY <1>1, <1>2, <1>3, Executed DEF IInv, SetInv, Justified, Command
<1>9. OwnerInv'
  BY <1>1, <1>2, <1>3, Executed DEF IInv, OwnerInv, OwnsWhatItSet, Execute, Accept, Report,
     SetDeaf, SetUndeaf, Reject, NextIs, Answer
<1>10. OrphanInv'
  BY <1>1, <1>2, <1>3, Executed DEF IInv, OrphanInv, OrphanHasCause, SetInv, Justified, OwnerInv,
     Execute, Accept, Report, SetDeaf, SetUndeaf, Reject, NextIs, Answer
<1>11. UserInv'
  BY <1>3 DEF IInv, UserInv, SetInv, Justified, Execute, Accept, Report, SetDeaf, SetUndeaf,
     Reject, NextIs, Answer
<1> QED BY <1>2, <1>4, <1>5, <1>6, <1>7, <1>8, <1>9, <1>10, <1>11 DEF IInv

(* The end of a session clears what the invariant speaks of. *)
LEMMA CloseStep == ASSUME IInv, Outside, Close PROVE IInv'
<1> USE DEF Outside, workerVars, mailboxVars, job, link, Close, EndSession
<1>1. TypeOK' BY OutsideType DEF IInv
<1>2. LinkInv' BY DEF IInv, LinkInv
<1>3. PcInv' /\ PhaseInv' BY DEF IInv, PcInv, PhaseInv, Serving
<1>4. NonceInv' BY DEF IInv, NonceInv
<1>5. AnswerInv' BY DEF AnswerInv
<1>6. SetInv' BY DEF SetInv
<1>7. OwnerInv' BY DEF IInv, OwnerInv, OwnsWhatItSet
<1>8. OrphanInv' BY DEF OrphanInv, OrphanHasCause
<1>9. UserInv' BY DEF UserInv
<1> QED BY <1>1, <1>2, <1>3, <1>4, <1>5, <1>6, <1>7, <1>8, <1>9 DEF IInv

(* The user's hand changes the voice state only, and is noted. *)
LEMMA UserStep == ASSUME IInv, Outside, UserToggle PROVE IInv'
<1> USE DEF Outside, workerVars, mailboxVars, job, link, UserToggle
<1>1. TypeOK' BY OutsideType DEF IInv
<1>2. LinkInv' BY DEF IInv, LinkInv
<1>3. PcInv' /\ PhaseInv' BY DEF IInv, PcInv, PhaseInv, Serving
<1>4. NonceInv' BY DEF IInv, NonceInv
<1>5. AnswerInv' BY DEF IInv, AnswerInv, Done, Command
<1>6. SetInv' BY DEF IInv, SetInv, Justified, Command
<1>7. OwnerInv' BY DEF IInv, OwnerInv, OwnsWhatItSet
<1>8. OrphanInv' BY DEF IInv, OrphanInv, OrphanHasCause
<1>9. UserInv' BY DEF UserInv
<1> QED BY <1>1, <1>2, <1>3, <1>4, <1>5, <1>6, <1>7, <1>8, <1>9 DEF IInv

(* The invariant speaks of no variable the game thread writes, nor of a held
   worker. *)
LEMMA QuietStep == ASSUME IInv, TypeOK', UNCHANGED <<discordVars, workerVars>> PROVE IInv'
<1> USE DEF IInv, discordVars, workerVars, job, link
<1>1. LinkInv' /\ PcInv' /\ PhaseInv' /\ NonceInv'
  BY DEF LinkInv, PcInv, PhaseInv, Serving, NonceInv
<1>2. AnswerInv' /\ SetInv'
  BY DEF AnswerInv, Done, Command, SetInv, Justified
<1>3. OwnerInv' /\ OrphanInv' /\ UserInv'
  BY DEF OwnerInv, OwnsWhatItSet, OrphanInv, OrphanHasCause, UserInv
<1> QED BY <1>1, <1>2, <1>3

(* The invariant holds at the start. *)
LEMMA Initially == ASSUME Init PROVE IInv
<1> USE DEF Init, DiscordInit
<1>1. TypeOK BY InitType
<1>2. LinkInv /\ PcInv /\ PhaseInv /\ NonceInv /\ AnswerInv
  BY DEF LinkInv, PcInv, PhaseInv, Serving, NonceInv, AnswerInv
<1>3. SetInv /\ OwnerInv /\ OrphanInv /\ UserInv
  BY DEF SetInv, OwnerInv, OwnsWhatItSet, OrphanInv, OrphanHasCause, UserInv
<1> QED BY <1>1, <1>2, <1>3 DEF IInv

(* Every step preserves the invariant. *)
LEMMA Inductive == ASSUME IInv, [Next]_vars PROVE IInv'
<1>1. CASE Game
  BY <1>1, GameType, QuietStep DEF Game, IInv
<1>2. CASE Worker
  BY <1>2, WorkerType, WorkerLink, WorkerPc, WorkerPhase, WorkerNonce, WorkerAnswer, WorkerSet,
     WorkerOwner, WorkerOrphan, WorkerUser DEF IInv
<1>3. CASE Outside
  BY <1>3, ExecuteStep, CloseStep, UserStep DEF Outside
<1>4. CASE UNCHANGED vars
  <2>1. TypeOK'
    BY <1>4 DEF vars, IInv, TypeOK, MailboxTypeOK, DiscordTypeOK, mailboxVars, mailbox,
       discordVars, job, link
  <2> QED BY <1>4, <2>1, QuietStep DEF vars, workerVars
<1>5. CASE Stall \/ Unblock
  BY <1>5, StallType, QuietStep DEF Stall, Unblock, IInv
<1> QED BY <1>1, <1>2, <1>3, <1>4, <1>5 DEF Next

(* The invariant holds in every reachable state. *)
THEOREM Invariant == Spec => []IInv
  BY Initially, Inductive, PTL DEF Spec

-----------------------------------------------------------------------------
(* The worker owns only a deafen that its session carried out last. *)
THEOREM Ownership == Spec => []OwnsWhatItSet
<1>1. IInv => OwnsWhatItSet
  BY DEF IInv, OwnerInv
<1> QED BY <1>1, Invariant, PTL

(* Between jobs the page shows what the connection is. *)
THEOREM ShowsTheLink == Spec => []StatusTruthful
<1>1. IInv => StatusTruthful
  BY DEF IInv, PcInv, Serving, StatusTruthful
<1> QED BY <1>1, Invariant, PTL

(* A deafen is disowned by a repeated request or an unanswered SET only. *)
THEOREM Disowned == Spec => []OrphanHasCause
<1>1. IInv => OrphanHasCause
  BY DEF IInv, OrphanInv
<1> QED BY <1>1, Invariant, PTL

(* What the worker leaves in its inbox, and why it gives a deafen up. *)
LEMMA WorkerInbox ==
  ASSUME Worker
  PROVE  inbox' = inbox \/ (inbox # <<>> /\ inbox' = Tail(inbox)) \/ inbox' = <<>> \/ Open
BY DEF Worker, Steps, discordVars, TakeWork, TakeLogout, PumpRead, PumpClosed, PumpDone,
     NothingToDo, AlreadyReady, GetReady, OpenFails, Ready, NotReady, Send, SendFails,
     Unsent, SkipStale, TimedOut, ClosedWhileWaiting, Refused, Authenticated, AnnounceConnected,
     Authorized, Refresh, Exchange, Exchanged, BrowserCode, StepFails, AuthFailed, Learned,
     LeaveDeafened, GoDeafen, NotOurs, GoUndeafen, SetDone, Receive, Disconnect

LEMMA WorkerOrphans ==
  ASSUME Worker
  PROVE  orphan' \in {"none", "repeat", orphan} \/ Unsent \/ TimedOut \/ Refused \/ StepFails
BY DEF Worker, Steps, link, TakeWork, TakeLogout, PumpRead, PumpClosed, PumpDone,
     NothingToDo, AlreadyReady, GetReady, Open, OpenFails, Ready, NotReady, Send, SendFails,
     SkipStale, ClosedWhileWaiting, Authenticated, AnnounceConnected, Authorized,
     Refresh, Exchange, Exchanged, BrowserCode, AuthFailed, LeaveDeafened,
     GoDeafen, NotOurs, GoUndeafen, SetDone, Disconnect

(* A Discord that refuses nothing and is never late accepts everything, and no
   SET goes unanswered while the connection is there. *)
NeverRefused == orphan # "unanswered" /\ \A i \in DOMAIN inbox : inbox[i].ok

LEMMA NeverRefusedStep ==
  ASSUME IInv, NeverRefused, [Next]_vars, "slow" \notin Env, "reject" \notin Env
  PROVE  NeverRefused'
<1> USE DEF NeverRefused
<1>0. TypeOK
  BY DEF IInv
<1>1. CASE Worker
  <2>1. orphan' # "unanswered"
    <3>1. ~TimedOut /\ ~StepFails
      BY DEF TimedOut, StepFails
    <3>2. ~Refused
      <4>1. inbox # <<>> => Head(inbox).ok
        BY <1>0, TailProperties DEF TypeOK, DiscordTypeOK
      <4> QED BY <4>1 DEF Refused, Receive
    <3>3. Unsent => orphan' = orphan
      BY DEF Unsent, GiveUp
    <3> QED BY <1>1, <3>1, <3>2, <3>3, WorkerOrphans
  <2>2. \A i \in DOMAIN inbox' : inbox'[i].ok
    <3>1. CASE inbox # <<>> /\ inbox' = Tail(inbox)
      BY <1>0, <3>1, InboxRead
    <3>2. CASE Open
      BY <3>2 DEF Open, Greetings
    <3> QED BY <1>1, <3>1, <3>2, WorkerInbox
  <2> QED BY <2>1, <2>2
<1>2. CASE Outside
  <2>1. orphan' = orphan
    BY <1>2 DEF Outside, workerVars, link
  <2>2. CASE Execute
    <3>1. Answer(TRUE)
      BY <2>2 DEF Execute, Accept, Report, SetDeaf, SetUndeaf, Reject
    <3>2. \A i \in DOMAIN inbox' :
            \/ \E j \in DOMAIN inbox : inbox'[i] = inbox[j]
            \/ inbox'[i] = [nonce |-> Head(inflight).nonce, ok |-> TRUE, deaf |-> voice # "off"]
      BY <1>0, <3>1, Executed
    <3>3. \A i \in DOMAIN inbox' : inbox'[i].ok
      BY <3>2
    <3> QED BY <2>1, <3>3
  <2> QED BY <1>2, <2>1, <2>2 DEF Outside, Close, UserToggle
<1>3. CASE Game \/ Stall \/ Unblock \/ UNCHANGED vars
  BY <1>3 DEF Game, Stall, Unblock, discordVars, workerVars, link, vars
<1> QED BY <1>1, <1>2, <1>3 DEF Next

(* Where every command is answered in time and none is refused, a repeated
   request is the only way to lose a deafen: sessions that close and the user's
   hand do not take the mod's own deafen away from it (applyDeafen). *)
DisownedByRepeat ==
  pc # "set" /\ live /\ voice = "mod" /\ ~weDeafened => orphan = "repeat"

THEOREM OnlyRepeats ==
  ASSUME "slow" \notin Env, "reject" \notin Env
  PROVE  Spec => []DisownedByRepeat
<1>1. Init => NeverRefused
  BY DEF Init, DiscordInit, NeverRefused
<1>2. IInv /\ NeverRefused /\ [Next]_vars => NeverRefused'
  BY NeverRefusedStep
<1>3. IInv /\ NeverRefused => DisownedByRepeat
  BY DEF IInv, TypeOK, OrphanInv, OrphanHasCause, NeverRefused, DisownedByRepeat
<1> QED BY <1>1, <1>2, <1>3, Invariant, PTL DEF Spec

(* The worker by itself changes the voice state by disconnecting only. *)
LEMMA WorkerVoice == ASSUME Worker PROVE UNCHANGED <<voice, control, told>> \/ Disconnect
BY DEF Worker, Steps, discordVars, TakeWork, TakeLogout, PumpRead, PumpClosed, PumpDone,
   NothingToDo, AlreadyReady, GetReady, Open, OpenFails, Ready, NotReady, Send, SendFails,
   Unsent, SkipStale, TimedOut, ClosedWhileWaiting, Refused, Authenticated, AnnounceConnected,
   Authorized, Refresh, Exchange, Exchanged, BrowserCode, StepFails, AuthFailed, Learned,
   LeaveDeafened, GoDeafen, NotOurs, GoUndeafen, SetDone, Receive

(* A disconnect is a release. *)
LEMMA WorkerPolite == ASSUME IInv, Worker PROVE [Polite!Next]_(Polite!politeVars)
<1>1. CASE UNCHANGED <<voice, control, told>>
  BY <1>1 DEF Polite!politeVars
<1>2. CASE Disconnect
  BY <1>2 DEF Disconnect, EndSession, Polite!Next, Polite!Release
<1> QED BY <1>1, <1>2, WorkerVoice

(* What Discord carries out is polite because SetInv justified it. *)
LEMMA OutsidePolite == ASSUME IInv, Outside PROVE [Polite!Next]_(Polite!politeVars)
<1> USE DEF Polite!Next, Polite!politeVars, Outside
<1>1. CASE Accept \/ Reject
  BY <1>1 DEF Accept, Reject
<1>2. CASE Report
  BY <1>2 DEF Report, Polite!Learn
<1>3. CASE SetDeaf
  BY <1>3 DEF SetDeaf, NextIs, IInv, SetInv, Justified, Polite!Deafen
<1>4. CASE SetUndeaf
  BY <1>4 DEF SetUndeaf, NextIs, IInv, SetInv, Justified, Polite!Undeafen
<1>5. CASE Close
  BY <1>5 DEF Close, EndSession, Polite!Release
<1>6. CASE UserToggle
  BY <1>6 DEF UserToggle, Polite!UserToggle
<1> QED BY <1>1, <1>2, <1>3, <1>4, <1>5, <1>6 DEF Execute

(* Every step of direct mode is a step of PoliteDeafen or changes nothing there. *)
THEOREM Refinement == Spec => PoliteSpec
<1>1. Init => Polite!Init
  BY DEF Init, DiscordInit, Polite!Init
<1>2. IInv /\ [Next]_vars => [Polite!Next]_(Polite!politeVars)
  <2> SUFFICES ASSUME IInv, [Next]_vars PROVE [Polite!Next]_(Polite!politeVars)
    OBVIOUS
  <2>1. CASE Game \/ Stall \/ Unblock \/ UNCHANGED vars
    BY <2>1 DEF Game, Stall, Unblock, vars, discordVars, Polite!politeVars
  <2> QED BY <2>1, WorkerPolite, OutsidePolite DEF Next
<1> QED BY <1>1, <1>2, Invariant, PTL DEF Spec, PoliteSpec, Polite!Spec

(* A deafen of the user's goes away by their own hand, or after it moved since
   the mod had looked. *)
THEOREM UserKept == Spec => KeepsUserDeafen
<1>1. IInv /\ [Next]_vars => [voice = "user" /\ voice' # "user" => UserToggle \/ touched]_vars
  <2> SUFFICES ASSUME IInv, [Next]_vars, voice = "user", ~touched, ~UserToggle
               PROVE  voice' = "user"
    OBVIOUS
  <2>1. told # "undeaf" /\ control # "deaf"
    BY DEF IInv, UserInv
  <2>2. CASE Worker
    BY <2>2, WorkerVoice DEF Disconnect, EndSession
  <2>3. CASE Game \/ Stall \/ Unblock \/ UNCHANGED vars
    BY <2>3 DEF Game, Stall, Unblock, vars, discordVars
  <2>4. CASE Outside
    BY <2>1, <2>4 DEF Outside, Execute, Accept, Report, SetDeaf, SetUndeaf, Reject, NextIs,
       Close, EndSession, IInv, SetInv, Justified
  <2> QED BY <2>2, <2>3, <2>4 DEF Next
<1> QED BY <1>1, Invariant, PTL DEF Spec, KeepsUserDeafen

-----------------------------------------------------------------------------
(***************************************************************************)
(* Direct mode implements RpcStatus, what the settings page is written     *)
(* against.  PhaseInv (RpcInvariants) says what is shown while the worker  *)
(* gets ready; the rest is that the queue of closures without the refresh  *)
(* tokens is a queue.                                                      *)
(***************************************************************************)

(* What a queue of closures stores, but for the refresh token. *)
Shown(q) == [i \in DOMAIN q |-> q[i] \ {"refresh"}]

LEMMA ShownSeq ==
  ASSUME NEW q \in Seq(SUBSET SavedKeys)
  PROVE  /\ Shown(q) \in Seq(SUBSET SavedKeys)
         /\ Len(Shown(q)) = Len(q) /\ DOMAIN Shown(q) = 1..Len(q)
         /\ q # <<>> => Shown(q) # <<>>
<1>1. DOMAIN q = 1..Len(q) /\ Len(q) \in Nat /\ \A i \in 1..Len(q) : q[i] \in SUBSET SavedKeys
  OBVIOUS
<1>2. Shown(q) \in [1..Len(q) -> SUBSET SavedKeys]
  BY <1>1 DEF Shown
<1>3. Shown(q) \in Seq(SUBSET SavedKeys) /\ Len(Shown(q)) = Len(q)
  BY <1>1, <1>2
<1> QED BY <1>1, <1>2, <1>3

LEMMA ShownTail ==
  ASSUME NEW q \in Seq(SUBSET SavedKeys), q # <<>>
  PROVE  /\ Head(Shown(q)) = Head(q) \ {"refresh"}
         /\ Shown(Tail(q)) = Tail(Shown(q))
<1>1. /\ Len(q) \in Nat \ {0} /\ Tail(q) \in Seq(SUBSET SavedKeys) /\ Head(q) = q[1]
      /\ Len(Tail(q)) = Len(q) - 1 /\ \A i \in 1..(Len(q) - 1) : Tail(q)[i] = q[i + 1]
  OBVIOUS
<1>2. /\ Shown(q) \in Seq(SUBSET SavedKeys) /\ Len(Shown(q)) = Len(q) /\ Shown(q) # <<>>
      /\ \A i \in 1..Len(q) : Shown(q)[i] = q[i] \ {"refresh"}
  BY ShownSeq, <1>1 DEF Shown
<1>3. /\ Len(Tail(Shown(q))) = Len(q) - 1 /\ Tail(Shown(q)) \in Seq(SUBSET SavedKeys)
      /\ \A i \in 1..(Len(q) - 1) : Tail(Shown(q))[i] = Shown(q)[i + 1]
      /\ Head(Shown(q)) = Shown(q)[1]
  BY <1>1, <1>2
<1>4. /\ Shown(Tail(q)) \in Seq(SUBSET SavedKeys) /\ Len(Shown(Tail(q))) = Len(q) - 1
      /\ \A i \in 1..(Len(q) - 1) : Shown(Tail(q))[i] = Tail(q)[i] \ {"refresh"}
  BY ShownSeq, <1>1 DEF Shown
<1>5. ASSUME NEW i \in 1..(Len(q) - 1) PROVE Shown(Tail(q))[i] = Tail(Shown(q))[i]
  <2>1. i + 1 \in 1..Len(q)
    BY <1>1
  <2>2. Tail(Shown(q))[i] = q[i + 1] \ {"refresh"}
    BY <1>2, <1>3, <2>1
  <2>3. Shown(Tail(q))[i] = q[i + 1] \ {"refresh"}
    BY <1>1, <1>4
  <2> QED BY <2>2, <2>3
<1>6. /\ Len(Shown(Tail(q))) = Len(Tail(Shown(q)))
      /\ \A i \in 1..Len(Shown(Tail(q))) : Shown(Tail(q))[i] = Tail(Shown(q))[i]
  BY <1>3, <1>4, <1>5
<1>7. Shown(Tail(q)) = Tail(Shown(q))
  BY <1>3, <1>4, <1>6, SeqEqual, Zenon
<1> QED BY <1>1, <1>2, <1>3, <1>7

LEMMA ShownAppend ==
  ASSUME NEW q \in Seq(SUBSET SavedKeys), NEW keys \in SUBSET SavedKeys
  PROVE  Shown(Append(q, keys)) = Append(Shown(q), keys \ {"refresh"})
<1> DEFINE r == Append(q, keys)
           s == Append(Shown(q), keys \ {"refresh"})
<1>1. /\ r \in Seq(SUBSET SavedKeys) /\ Len(q) \in Nat /\ Len(r) = Len(q) + 1
      /\ \A i \in 1..Len(q) : r[i] = q[i]
      /\ r[Len(q) + 1] = keys
  OBVIOUS
<1>2. /\ Shown(q) \in Seq(SUBSET SavedKeys) /\ Len(Shown(q)) = Len(q)
      /\ \A i \in 1..Len(q) : Shown(q)[i] = q[i] \ {"refresh"}
  BY ShownSeq DEF Shown
<1>3. /\ s \in Seq(SUBSET SavedKeys) /\ Len(s) = Len(q) + 1
      /\ \A i \in 1..Len(q) : s[i] = Shown(q)[i]
      /\ s[Len(q) + 1] = keys \ {"refresh"}
  BY <1>1, <1>2
<1> HIDE DEF r, s
<1>4. /\ Shown(r) \in Seq(SUBSET SavedKeys) /\ Len(Shown(r)) = Len(q) + 1
      /\ \A i \in 1..(Len(q) + 1) : Shown(r)[i] = r[i] \ {"refresh"}
  BY ShownSeq, <1>1 DEF Shown
<1>5. ASSUME NEW i \in 1..(Len(q) + 1) PROVE Shown(r)[i] = s[i]
  <2>1. Shown(r)[i] = r[i] \ {"refresh"}
    BY <1>4
  <2>2. CASE i \in 1..Len(q)
    <3>1. r[i] = q[i] /\ s[i] = Shown(q)[i] /\ Shown(q)[i] = q[i] \ {"refresh"}
      BY <1>1, <1>2, <1>3, <2>2
    <3> QED BY <2>1, <3>1
  <2>3. CASE i = Len(q) + 1
    BY <1>1, <1>3, <2>1, <2>3
  <2> QED BY <1>1, <2>2, <2>3
<1>6. /\ Len(Shown(r)) = Len(s)
      /\ \A i \in 1..Len(Shown(r)) : Shown(r)[i] = s[i]
  BY <1>3, <1>4, <1>5
<1>7. Shown(r) = s
  BY <1>3, <1>4, <1>6, SeqEqual, Zenon
<1> QED BY <1>7 DEF r, s

-----------------------------------------------------------------------------
(* What shows nothing is a stutter, and a step that only changes what is shown
   is an announcement or a drop. *)
LEMMA QuietStatus ==
  ASSUME UNCHANGED <<state, authed, saved, posted>>
  PROVE  [Status!Next]_(Status!statusVars)
BY DEF Status!statusVars

LEMMA DropStatus ==
  ASSUME IInv, pc # "announce", state' = "NotConnected", authed' = FALSE,
         UNCHANGED <<saved, posted>>
  PROVE  [Status!Next]_(Status!statusVars)
<1>1. authed => state = "Connected"
  BY DEF IInv, LinkInv, PcInv
<1> QED BY <1>1 DEF Status!Next, Status!Worker, Status!Drop

LEMMA EnterStatus ==
  ASSUME NEW site, state' = Announced(site), UNCHANGED <<authed, saved, posted>>,
         site \in {"open", "refresh"} => state \in {"NotConnected", "Connecting"},
         site \in {"open", "refresh", "authorize", "browser"} => ~authed
  PROVE  [Status!Next]_(Status!statusVars)
<1>1. CASE site \in {"open", "refresh"}
  <2>1. Status!Announce("Connecting")
    BY <1>1 DEF Announced, Status!Announce
  <2> QED BY <2>1 DEF Status!Next, Status!Worker, Status!Phases
<1>2. CASE site \in {"authorize", "browser"}
  <2>1. Status!Announce("AwaitingConsent")
    BY <1>2 DEF Announced, Status!Announce
  <2> QED BY <2>1 DEF Status!Next, Status!Worker, Status!Phases
<1>3. CASE site \notin {"open", "refresh", "authorize", "browser"}
  BY <1>3, QuietStatus DEF Announced
<1> QED BY <1>1, <1>2, <1>3

(* A step of authenticate() that did not work leads to the next way to try. *)
LEMMA GiveUpStatus ==
  ASSUME IInv, GiveUp, pc \in Sites \cup {"refresh", "browser", "exchange"},
         UNCHANGED <<saved, posted>>
  PROVE  [Status!Next]_(Status!statusVars)
<1>1. state' = Announced(AfterFailure) /\ authed' = authed
  BY DEF GiveUp, Enter
<1>2. AfterFailure \in {"open", "refresh"} => state \in {"NotConnected", "Connecting"}
  BY DEF AfterFailure, FirstTry, IInv, PhaseInv, TypeOK, States, Serving
<1>3. AfterFailure \in {"open", "refresh", "authorize", "browser"} => ~authed
  BY DEF AfterFailure, FirstTry, IInv, PcInv, Serving
<1> QED BY <1>1, <1>2, <1>3, EnterStatus

(* What a queued closure stores, tokens or a name, is queued in RpcStatus. *)
LEMMA PostShown ==
  ASSUME IInv, NEW keys \in SUBSET SavedKeys, Post(keys)
  PROVE  saved' = saved /\ Shown(posted') = Append(Shown(posted), keys \ {"refresh"})
BY ShownAppend DEF Post, IInv, TypeOK, MailboxTypeOK

LEMMA WorkerStatus == ASSUME IInv, Worker PROVE [Status!Next]_(Status!statusVars)
<1> USE DEF mailboxVars, mailbox
<1>1. CASE TakeWork \/ PumpRead \/ PumpDone \/ NothingToDo \/ AlreadyReady \/ Open
  BY <1>1, QuietStatus DEF TakeWork, TakeAll, PumpRead, PumpDone, NothingToDo,
     AlreadyReady, Open, link
<1>2. CASE \/ TakeLogout \/ PumpClosed \/ OpenFails \/ NotReady
           \/ SendFails \/ ClosedWhileWaiting \/ AuthFailed
  <2>1. UNCHANGED <<saved, posted>> /\ state' = "NotConnected"
    BY <1>2 DEF TakeLogout, TakeAll, PumpClosed, OpenFails, NotReady, SendFails,
       ClosedWhileWaiting, AuthFailed, Disconnect
  <2>2. pc # "announce"
    BY <1>2 DEF TakeLogout, PumpClosed, OpenFails, NotReady, SendFails, ClosedWhileWaiting,
       AuthFailed, IInv, PcInv, Sites, AuthSites
  <2>3. authed' = FALSE
    <3>1. OpenFails => authed' = authed /\ ~authed
      BY DEF OpenFails, link, IInv, PcInv, Serving, TypeOK
    <3> QED
      BY <1>2, <3>1, Zenon DEF TakeLogout, PumpClosed, NotReady, SendFails, ClosedWhileWaiting,
         AuthFailed, Disconnect, IInv, TypeOK
  <2> QED BY <2>1, <2>2, <2>3, DropStatus
<1>3. CASE GetReady
  <2>1. ~conn /\ ~authed /\ state = "NotConnected" /\ pc' = "open"
    BY <1>3 DEF GetReady, IInv, PcInv, Serving
  <2> QED BY <1>3, <2>1, EnterStatus DEF GetReady, link
<1>4. CASE Ready
  <2>1. state \in {"NotConnected", "Connecting"} /\ ~authed
    BY <1>4 DEF Ready, IInv, PcInv, PhaseInv, TypeOK, States, Serving
  <2> QED BY <1>4, <2>1, EnterStatus DEF Ready, Enter, link
<1>5. CASE Unsent \/ StepFails
  BY <1>5, GiveUpStatus DEF Unsent, StepFails
<1>6. CASE TimedOut \/ Refused
  BY <1>6, GiveUpStatus DEF TimedOut, Refused, Receive, IInv, PcInv
<1>7. CASE \/ Send \/ SkipStale \/ Authorized \/ BrowserCode
           \/ LeaveDeafened \/ GoDeafen \/ NotOurs \/ GoUndeafen \/ SetDone
  BY <1>7, QuietStatus DEF Send, SkipStale, Authorized, BrowserCode, LeaveDeafened, GoDeafen,
     NotOurs, GoUndeafen, SetDone, link
<1>8. CASE Authenticated
  <2>1. conn /\ ~authed /\ state \in {"Connecting", "AwaitingConsent"}
    BY <1>8 DEF Authenticated, Receive, AuthSites, Serving, IInv, PcInv, PhaseInv, TypeOK, States
  <2>2. saved' = saved /\ Shown(posted') \in {Shown(posted), Append(Shown(posted), {"username"})}
    <3>1. CASE Post({"username"})
      <4>1. {"username"} \in SUBSET SavedKeys /\ {"username"} \ {"refresh"} = {"username"}
        BY DEF SavedKeys
      <4> QED BY <3>1, <4>1, PostShown
    <3> QED BY <1>8, <3>1 DEF Authenticated
  <2>3. Status!Authenticate
    BY <1>8, <2>1, <2>2 DEF Authenticated, Status!Authenticate, Shown
  <2> QED BY <2>3 DEF Status!Next, Status!Worker
<1>9. CASE Refresh \/ Exchange
  <2>1. ~authed /\ state \in {"Connecting", "AwaitingConsent"} /\ UNCHANGED <<authed, state>>
    BY <1>9 DEF Refresh, Exchange, Exchanged, IInv, PcInv, PhaseInv, TypeOK, States, Serving, link
  <2>2. PICK keys \in {{"access"}, Tokens} : Post(keys)
    BY <1>9 DEF Refresh, Exchange, Exchanged
  <2>3. keys \in SUBSET SavedKeys /\ keys \ {"refresh"} = {"access"}
    BY DEF Tokens, SavedKeys
  <2>4. saved' = saved /\ Shown(posted') = Append(Shown(posted), {"access"})
    BY <2>2, <2>3, PostShown
  <2>5. Status!Obtain
    BY <2>1, <2>4 DEF Status!Obtain, Shown
  <2> QED BY <2>5 DEF Status!Next, Status!Worker
<1>10. CASE AnnounceConnected
  <2>1. authed /\ state # "Connected"
    BY <1>10 DEF AnnounceConnected, IInv, PcInv, PhaseInv, Serving
  <2>2. Status!Announce("Connected")
    BY <1>10, <2>1 DEF AnnounceConnected, Status!Announce, link
  <2> QED BY <2>2 DEF Status!Next, Status!Worker, Status!Phases
<1> QED BY <1>1, <1>2, <1>3, <1>4, <1>5, <1>6, <1>7, <1>8, <1>9, <1>10 DEF Worker, Steps

(* Of the calls, logout() is seen; and the closures run in their order. *)
LEMMA GameStatus == ASSUME IInv, Game PROVE [Status!Next]_(Status!statusVars)
<1>1. UNCHANGED <<state, authed>>
  BY DEF Game, workerVars, link
<1>2. CASE Connect \/ \E t \in Targets : RequestDeafen(t)
  BY <1>1, <1>2, QuietStatus DEF Connect, RequestDeafen, Called
<1>3. CASE Logout
  <2>1. Status!Forget
    BY <1>1, <1>3 DEF Logout, Called, Status!Forget
  <2> QED BY <2>1 DEF Status!Next
<1>4. CASE RunPosted
  <2>1. posted \in Seq(SUBSET SavedKeys) /\ posted # <<>>
    BY <1>4 DEF RunPosted, IInv, TypeOK, MailboxTypeOK
  <2>2. /\ Shown(posted) # <<>> /\ Shown(posted') = Tail(Shown(posted))
        /\ saved' \ {"refresh"} = (saved \ {"refresh"}) \cup Head(Shown(posted))
    BY <1>4, <2>1, ShownSeq, ShownTail DEF RunPosted
  <2>3. Status!StoreNext
    BY <1>1, <2>2 DEF Status!StoreNext, Shown
  <2> QED BY <2>3 DEF Status!Next
<1> QED BY <1>2, <1>3, <1>4 DEF Game

(* The whole worker, with its connection, commands, deadlines and tokens, looks
   to the game thread like RpcStatus. *)
THEOREM StatusRefinement == Spec => StatusSpec
<1>1. Init => Status!Init
  <2> SUFFICES ASSUME Init PROVE Status!Init
    OBVIOUS
  <2>1. saved \in SUBSET SavedKeys /\ posted = <<>> /\ state = "NotConnected" /\ ~authed
    BY MailboxAssumption DEF Init, MailboxInit
  <2>2. Shown(posted) = <<>>
    BY <2>1, ShownSeq DEF Shown
  <2> QED BY <2>1, <2>2 DEF Status!Init, Status!KeptKeys, SavedKeys, Tokens, Shown
<1>2. IInv /\ [Next]_vars => [Status!Next]_(Status!statusVars)
  <2> SUFFICES ASSUME IInv, [Next]_vars PROVE [Status!Next]_(Status!statusVars)
    OBVIOUS
  <2>1. CASE Outside \/ Stall \/ Unblock \/ UNCHANGED vars
    BY <2>1, QuietStatus DEF Outside, Stall, Unblock, vars, mailboxVars, workerVars, link
  <2> QED BY <2>1, WorkerStatus, GameStatus DEF Next
<1> QED BY <1>1, <1>2, Invariant, PTL DEF Spec, StatusSpec, Status!Spec

-----------------------------------------------------------------------------
(* That faults end from some moment on takes steps away and adds none: what was
   proved of direct mode holds of RpcRecovery. *)
THEOREM RecoveryInside == RecoverySpec => Spec
<1>1. RecoveryInit => Init
  BY DEF RecoveryInit
<1>2. [RecoveryNext]_recoveryVars => [Next]_vars
  BY DEF RecoveryNext, recoveryVars
<1> QED BY <1>1, <1>2, PTL DEF RecoverySpec, Spec
=============================================================================
