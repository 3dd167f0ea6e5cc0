------------------------------- MODULE Channel -------------------------------
(***************************************************************************)
(* What readJson (rpc_conn.hpp) promises of the messages Discord sends: on *)
(* one connection after another, messages are taken in the order in which  *)
(* they were sent, each of them once; frames are returned, pings answered, *)
(* and nothing is taken after a close or once the connection has failed.   *)
(* There are no bytes, headers or deadlines in it.  IpcConn implements it. *)
(***************************************************************************)
EXTENDS Naturals, Sequences

VARIABLES
  up,       \* there is a connection to read from
  queue,    \* the messages sent and not taken, each with its op and identity at
  got,      \* the messages returned
  answered  \* the pings answered

channelVars == <<up, queue, got, answered>>

Init == up \in BOOLEAN /\ queue = <<>> /\ got = <<>> /\ answered = <<>>

Open ==
  /\ ~up
  /\ up' = TRUE /\ queue' = <<>> /\ got' = <<>> /\ answered' = <<>>

Send ==
  /\ up
  /\ Len(queue') = Len(queue) + 1
  /\ SubSeq(queue', 1, Len(queue)) = queue
  /\ UNCHANGED <<up, got, answered>>

(* The first message, if it is not a close. *)
Take ==
  /\ up /\ queue # <<>>
  /\ LET m == Head(queue)
     IN  /\ m.op # "Close"
         /\ got' = IF m.op \in {"Frame", "Handshake"} THEN Append(got, m.at) ELSE got
         /\ answered' = IF m.op = "Ping" THEN Append(answered, m.at) ELSE answered
  /\ queue' = Tail(queue)
  /\ UNCHANGED up

(* A close was read, or the connection is given up with what it still holds. *)
End ==
  /\ up' = FALSE /\ queue' = <<>>
  /\ UNCHANGED <<got, answered>>

(* The connection is taken down, dead or not. *)
Forget == up' = FALSE /\ queue' = <<>> /\ got' = <<>> /\ answered' = <<>>

Next == Open \/ Send \/ Take \/ End \/ Forget

Spec == Init /\ [][Next]_channelVars
=============================================================================
