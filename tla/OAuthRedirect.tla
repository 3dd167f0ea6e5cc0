---------------------------- MODULE OAuthRedirect ----------------------------
(***************************************************************************)
(* waitForOAuthRedirect (rpc_conn.cpp): the worker listens for the         *)
(* browser's redirect after an authorization in the browser.  One client   *)
(* is served at a time; what it sends is abstracted to what the code reads *)
(* out of the one piece it receives: anything behind "code=" is a code,    *)
(* whoever sends it and however much of it has come.  Time passes in turns *)
(* of select, a second each.  Consent calls it.                            *)
(***************************************************************************)
EXTENDS Naturals, Sequences

CONSTANTS
  Timeout,    \* timeoutMs, in turns of select
  Clients,    \* what connects to the port besides the redirects
  MaxClients  \* bound: how many clients connect

ClientKinds ==
  { "code",    \* the redirect of an authorization granted in this attempt
    "stale",   \* one granted in the browser tab of an earlier attempt
    "cut",     \* a redirect of which the first piece ends within the code
    "foreign", \* a stranger's request with a code of its own
    "other",   \* no code: a denial, a stray request, or a piece that ends before
    "empty",   \* a client that goes without sending anything
    "silent" } \* one that stays connected and sends nothing

ASSUME RedirectAssumption ==
  /\ Timeout \in Nat
  /\ Clients \subseteq {"foreign", "other", "empty", "silent"}
  /\ MaxClients \in Nat

(* The clients a code is read from. *)
Coded == {"code", "stale", "cut", "foreign"}

VARIABLES
  listening,  \* the port is bound: between listen and the last closesocket
  clock,      \* how many turns have passed, up to Timeout
  queue,      \* clients connected and not accepted, the listen backlog
  client,     \* the client being received from, "none" outside recv
  code,       \* was a code read?
  served,     \* history: the clients recv returned for, in order
  arrived     \* how many clients have connected (bounds the model)

redirectVars == <<listening, clock, queue, client, code, served, arrived>>

RedirectInit ==
  /\ listening = FALSE /\ clock = Timeout
  /\ queue = <<>> /\ client = "none"
  /\ code = FALSE /\ served = <<>> /\ arrived = 0

-----------------------------------------------------------------------------
(* bind and listen: the wait begins. *)
Listen ==
  /\ ~listening
  /\ listening' = TRUE /\ clock' = 0
  /\ queue' = <<>> /\ client' = "none"
  /\ code' = FALSE /\ served' = <<>>
  /\ UNCHANGED arrived

(* A connection is taken by the backlog, or refused if nobody listens. *)
Connects(kind) ==
  /\ queue' = IF listening THEN Append(queue, kind) ELSE queue
  /\ UNCHANGED <<listening, clock, client, code, served>>

Arrive ==
  /\ listening /\ arrived < MaxClients
  /\ arrived' = arrived + 1
  /\ \E kind \in Clients : Connects(kind)

Tick ==
  /\ listening /\ clock < Timeout
  /\ clock' = clock + 1
  /\ UNCHANGED <<listening, queue, client, code, served, arrived>>

(* select reports a client before the deadline, and accept takes it. *)
Accept ==
  /\ listening /\ client = "none" /\ ~code /\ clock < Timeout
  /\ queue # <<>>
  /\ client' = Head(queue)
  /\ queue' = Tail(queue)
  /\ UNCHANGED <<listening, clock, code, served, arrived>>

ReceiveOnce ==  \* faulty: the first client ends the wait
  /\ client \notin {"none", "silent"}
  /\ code' = (client \in Coded)
  /\ served' = Append(served, client)
  /\ client' = "none"
  /\ listening' = FALSE
  /\ UNCHANGED <<clock, queue, arrived>>

(* recv has no timeout of its own: it returns when the client sends or goes.
   Without a code the loop goes on, "in case the real redirect is still
   coming". *)
Receive ==
  /\ client \notin {"none", "silent"}
  /\ code' = (client \in Coded)
  /\ served' = Append(served, client)
  /\ client' = "none"
  /\ UNCHANGED <<listening, clock, queue, arrived>>

FinishOnCode ==  \* faulty: the deadline does not end the wait
  /\ listening /\ client = "none"
  /\ code
  /\ listening' = FALSE
  /\ UNCHANGED <<clock, queue, client, code, served, arrived>>

Finish ==
  /\ listening /\ client = "none"
  /\ code \/ clock = Timeout
  /\ listening' = FALSE
  /\ UNCHANGED <<clock, queue, client, code, served, arrived>>

Serving == Accept \/ Receive \/ Finish

-----------------------------------------------------------------------------
TypeOK ==
  /\ listening \in BOOLEAN /\ code \in BOOLEAN
  /\ clock \in 0..Timeout /\ arrived \in 0..MaxClients
  /\ queue \in Seq(ClientKinds) /\ served \in Seq(ClientKinds)
  /\ client \in (IF listening THEN ClientKinds ELSE {}) \cup {"none"}

(* The wait ends empty-handed only when the time is up, and with a code only
   if it is the last thing received: neither a denial nor a request without a
   code ends it, nor does anything come after the code.  Whose code it is and
   whether it has come whole the listener does not see. *)
EndsForAReason ==
  /\ ~listening => code \/ clock = Timeout
  /\ \A i \in DOMAIN served : served[i] \in Coded => i = Len(served) /\ code
=============================================================================
