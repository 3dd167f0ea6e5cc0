------------------------------- MODULE Mailbox -------------------------------
(***************************************************************************)
(* The game thread's side of RpcClient (discord_rpc.cpp): the three public *)
(* calls, the mailbox they fill under m_mutex for the worker thread, the   *)
(* mod's saved values, and the closures the worker hands back with         *)
(* Loader::queueInMainThread.                                              *)
(*                                                                         *)
(* A token is abstracted to its presence: a saved value, or a field of an  *)
(* AuthContext, is the set of the keys that hold a non-empty string.       *)
(***************************************************************************)
EXTENDS Naturals, Sequences

CONSTANTS
  Calls,      \* the public calls the game thread makes
  MaxCalls,   \* bound: how many calls it makes in a behaviour
  InitSaved   \* the contents saved by earlier game sessions

Tokens    == {"access", "refresh"}
SavedKeys == Tokens \cup {"username"}
Targets   == {"deafen", "undeafen"}
ApiCalls  == Targets \cup {"connect", "logout"}

ASSUME MailboxAssumption ==
  /\ Calls \subseteq ApiCalls
  /\ MaxCalls \in Nat
  /\ InitSaved \subseteq SUBSET SavedKeys

VARIABLES
  saved,           \* saved values that are non-empty; game thread only
  posted,          \* closures queued for the game thread, each a set of keys to store
  pending,         \* m_pending, "none" for nullopt
  pendingConnect,  \* m_pendingConnect
  pendingLogout,   \* m_pendingLogout
  auth,            \* m_auth, the snapshot of the tokens
  calls,           \* how many calls were made (bounds the model)
  lastCall         \* history: the most recent call

mailbox     == <<pending, pendingConnect, pendingLogout, auth>>
mailboxVars == <<saved, posted, mailbox, calls, lastCall>>

MailboxTypeOK ==
  /\ saved \in SUBSET SavedKeys
  /\ posted \in Seq(SUBSET SavedKeys)
  /\ pending \in Targets \cup {"none"}
  /\ pendingConnect \in BOOLEAN
  /\ pendingLogout \in BOOLEAN
  /\ auth \in SUBSET Tokens
  /\ calls \in Nat
  /\ lastCall \in ApiCalls \cup {"none"}

MailboxInit ==
  /\ saved \in InitSaved
  /\ posted = <<>>
  /\ pending = "none"
  /\ pendingConnect = FALSE
  /\ pendingLogout = FALSE
  /\ auth = {}
  /\ calls = 0
  /\ lastCall = "none"

-----------------------------------------------------------------------------
(* Every call bumps the bound and is remembered as the latest one. *)
Called(c) ==
  /\ c \in Calls
  /\ calls < MaxCalls
  /\ calls' = calls + 1
  /\ lastCall' = c
  /\ UNCHANGED posted

RequestDeafenOldestWins(t) ==  \* faulty: an untaken target is kept
  /\ Called(t)
  /\ auth' = saved \cap Tokens
  /\ pending' = IF pending = "none" THEN t ELSE pending
  /\ UNCHANGED <<saved, pendingConnect, pendingLogout>>

(* enqueue(): snapshot the saved tokens, then post the work under the mutex.
   A new target replaces one the worker has not taken yet. *)
RequestDeafen(t) ==
  /\ Called(t)
  /\ auth' = saved \cap Tokens
  /\ pending' = t
  /\ UNCHANGED <<saved, pendingConnect, pendingLogout>>

Connect ==
  /\ Called("connect")
  /\ auth' = saved \cap Tokens
  /\ pendingConnect' = TRUE
  /\ UNCHANGED <<saved, pending, pendingLogout>>

(* logout() withdraws a pending target, but not a pending connect. *)
Logout ==
  /\ Called("logout")
  /\ saved' = {}
  /\ auth' = {}
  /\ pending' = "none"
  /\ pendingLogout' = TRUE
  /\ UNCHANGED pendingConnect

(* The game loop runs the oldest closure the worker queued. *)
RunPosted ==
  /\ posted # <<>>
  /\ saved' = saved \cup Head(posted)
  /\ posted' = Tail(posted)
  /\ UNCHANGED <<mailbox, calls, lastCall>>

(* The worker's side: everything in the mailbox is taken in one critical
   section; the snapshot stays for authSnapshot(). *)
TakeAll ==
  /\ pending' = "none"
  /\ pendingConnect' = FALSE
  /\ pendingLogout' = FALSE
  /\ UNCHANGED <<auth, saved, posted, calls, lastCall>>

Post(keys) ==
  /\ posted' = Append(posted, keys)
  /\ UNCHANGED <<saved, mailbox, calls, lastCall>>
=============================================================================
