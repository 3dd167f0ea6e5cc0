------------------------------- MODULE IpcConn -------------------------------
(***************************************************************************)
(* Reading and writing discord-ipc messages on a byte stream (rpc_conn.cpp *)
(* IpcConnBase, core/wire.hpp): readJson takes a header and a payload with *)
(* readExact, chunk by chunk, under a deadline; pings are answered on the  *)
(* way, and a message that breaks off half-way ends the connection.        *)
(* sendBytes hands a message over chunk by chunk too, with no deadline.    *)
(*                                                                         *)
(* The stream is the concatenation of the messages the peer sent; a byte   *)
(* is known by its place in it.  A header is Header bytes long, a length   *)
(* above MaxLength stands for one above the limit of 1 MiB.  Of the other  *)
(* direction only the numbers of bytes are kept.                           *)
(***************************************************************************)
EXTENDS Integers, Sequences, FiniteSets

CONSTANTS
  Header,     \* length of a header, 8 in the code
  MaxLength,  \* the longest payload accepted, 1 MiB in the code
  Ops,        \* the opcodes the peer uses
  Lengths,    \* the payload lengths the peer uses
  MaxSent,    \* bound: how many messages the peer sends
  Buffer,     \* how many bytes the system holds that the peer has not taken
  MaxOwed     \* bound: no command is written once so many bytes were

ASSUME IpcAssumption ==
  /\ Header \in Nat \ {0}
  /\ MaxLength \in Nat
  /\ Ops \subseteq {"Handshake", "Frame", "Close", "Ping", "Pong"}
  /\ Lengths \subseteq Nat
  /\ MaxSent \in Nat
  /\ Buffer \in Nat \ {0}
  /\ MaxOwed \in Nat

VARIABLES
  sent,       \* the peer's messages, each with its place in the stream
  written,    \* how many bytes of them the peer has written
  hungUp,     \* the peer closed its end
  alive,      \* there is a connection, and no read or write found it dead
  reading,    \* "no", the part readJson is reading, or "pong" while it answers
  consumed,   \* how many bytes were taken from the stream
  have,       \* how many of them belong to the part being read
  message,    \* what the header being read or last read said
  late,       \* the deadline of the part being read has passed
  delivered,  \* the messages returned as Read::Ok, in order
  pongs,      \* the pings answered, in order
  writing,    \* bytes of the message being written that sendBytes still has
  room,       \* how many more the system takes before the peer reads some
  handed,     \* history: how many bytes the system has taken
  owed        \* history: the length of all messages sendMessage was to write

peerVars == <<sent, written, hungUp>>
readVars == <<reading, consumed, have, message, late, delivered, pongs>>
outVars  == <<writing, room, handed, owed>>
ipcVars  == <<peerVars, alive, readVars, outVars>>

EndOf(m) == m.at + Header + m.length
Total    == IF sent = <<>> THEN 0 ELSE EndOf(sent[Len(sent)])
NoMessage == [op |-> "Pong", length |-> 0, at |-> 0]

(* A stream nothing was sent on. *)
Fresh ==
  /\ sent = <<>> /\ written = 0 /\ hungUp = FALSE
  /\ reading = "no"
  /\ consumed = 0 /\ have = 0 /\ message = NoMessage /\ late = FALSE
  /\ delivered = <<>> /\ pongs = <<>>
  /\ writing = 0 /\ room = Buffer /\ handed = 0 /\ owed = 0

(* The connection is taken down, and the next stream is a fresh one. *)
TakeDown ==
  /\ alive' = FALSE
  /\ sent' = <<>> /\ written' = 0 /\ hungUp' = FALSE
  /\ reading' = "no"
  /\ consumed' = 0 /\ have' = 0 /\ message' = NoMessage /\ late' = FALSE
  /\ delivered' = <<>> /\ pongs' = <<>>
  /\ writing' = 0 /\ room' = Buffer /\ handed' = 0 /\ owed' = 0

-----------------------------------------------------------------------------
(* The peer: one message after another is written, at any speed, until it
   goes. *)
PeerSend ==
  /\ ~hungUp /\ written = Total /\ Len(sent) < MaxSent
  /\ \E op \in Ops, length \in Lengths :
       sent' = Append(sent, [op |-> op, length |-> length, at |-> Total])
  /\ UNCHANGED <<written, hungUp, alive, readVars, outVars>>

PeerWrite ==
  /\ ~hungUp /\ written < Total
  /\ written' = written + 1
  /\ UNCHANGED <<sent, hungUp, alive, readVars, outVars>>

HangUp ==
  /\ ~hungUp
  /\ hungUp' = TRUE
  /\ UNCHANGED <<sent, written, alive, readVars, outVars>>

(* It takes what was written to it, or does not. *)
PeerDrain ==
  /\ ~hungUp /\ room < Buffer
  /\ room' = Buffer
  /\ UNCHANGED <<peerVars, alive, readVars, writing, handed, owed>>

(* parseIpcHeader of the Header bytes taken last: the header they are, or
   whatever bytes from elsewhere in the stream read as. *)
HeadersAt(at) ==
  LET real == {m \in {sent[i] : i \in DOMAIN sent} : m.at = at}
  IN  IF real # {} THEN real ELSE [op : Ops, length : Lengths, at : {at}]

-----------------------------------------------------------------------------
(* The end of a readJson; after Closed its caller drops the connection. *)
Return(r) ==
  /\ alive' = (r # "Closed")
  /\ reading' = "no" /\ have' = 0
  /\ message' = NoMessage /\ late' = FALSE

Idle == alive /\ reading = "no" /\ writing = 0

ReadJson ==
  /\ Idle
  /\ reading' = "header" /\ have' = 0 /\ late' = FALSE
  /\ UNCHANGED <<peerVars, alive, consumed, message, delivered, pongs, outVars>>

(* The clock: the deadline passes; the payload has a later one of its own. *)
Expire ==
  /\ reading \in {"header", "payload"} /\ ~late
  /\ late' = TRUE
  /\ UNCHANGED <<peerVars, alive, reading, consumed, have, message, delivered, pongs, outVars>>

(* How many bytes readExact is to read. *)
Needed == CASE reading = "header" -> Header
            [] reading = "payload" -> message.length
            [] OTHER -> 0

RecvWhole ==  \* faulty: asks for a whole header however much it has
  /\ ~late /\ have < Needed
  /\ \E k \in 1..Needed :
       /\ consumed + k <= written
       /\ consumed' = consumed + k /\ have' = have + k
  /\ UNCHANGED <<peerVars, alive, reading, message, late, delivered, pongs, outVars>>

(* One turn of readExact: some bytes, or the end of the stream. *)
RecvSome ==
  /\ ~late /\ have < Needed
  /\ \E k \in 1..(Needed - have) :
       /\ consumed + k <= written
       /\ consumed' = consumed + k /\ have' = have + k
  /\ UNCHANGED <<peerVars, alive, reading, message, late, delivered, pongs, outVars>>

RecvClosed ==
  /\ ~late /\ have < Needed
  /\ hungUp /\ consumed = written
  /\ Return("Closed")
  /\ UNCHANGED <<peerVars, consumed, delivered, pongs, outVars>>

DeadlineAlwaysIdle ==  \* faulty: a header that broke off counts as idle
  /\ late /\ have < Needed
  /\ Return(IF reading = "header" THEN "Timeout" ELSE "Closed")
  /\ UNCHANGED <<peerVars, consumed, delivered, pongs, outVars>>

DeadlineOnlyIdle ==  \* faulty: waits on for a header that broke off
  /\ late /\ have < Needed
  /\ reading = "header" => have = 0
  /\ Return(IF reading = "header" /\ have = 0 THEN "Timeout" ELSE "Closed")
  /\ UNCHANGED <<peerVars, consumed, delivered, pongs, outVars>>

(* Nothing in time is Timeout; part of a message in time is Closed. *)
Deadline ==
  /\ late /\ have < Needed
  /\ Return(IF reading = "header" /\ have = 0 THEN "Timeout" ELSE "Closed")
  /\ UNCHANGED <<peerVars, consumed, delivered, pongs, outVars>>

(* A complete header: the payload is read under a deadline of its own. *)
HeaderDone ==
  /\ reading = "header" /\ have = Header
  /\ \E m \in HeadersAt(consumed - Header) :
       \/ m.length > MaxLength /\ Return("Closed")
       \/ /\ m.length <= MaxLength
          /\ reading' = "payload" /\ have' = 0
          /\ message' = m /\ late' = FALSE
          /\ UNCHANGED alive
  /\ UNCHANGED <<peerVars, consumed, delivered, pongs, outVars>>

(* sendMessage: header and payload go out as one message. *)
Write(length) ==
  /\ writing' = Header + length
  /\ owed' = owed + Header + length
  /\ UNCHANGED <<room, handed>>

(* readJson goes on to the next header under its first deadline, which may
   have passed by now. *)
NextHeader ==
  /\ reading' = "header" /\ have' = 0
  /\ message' = NoMessage /\ late' \in BOOLEAN
  /\ UNCHANGED alive

PayloadUnanswered ==  \* faulty: a ping is skipped like an unknown opcode
  /\ reading = "payload" /\ have = message.length
  /\ IF message.op \in {"Frame", "Handshake"}
     THEN delivered' = Append(delivered, message.at) /\ Return("Ok")
     ELSE UNCHANGED delivered /\ IF message.op = "Close" THEN Return("Closed") ELSE NextHeader
  /\ UNCHANGED <<peerVars, consumed, pongs, outVars>>

(* A complete message.  A ping is answered with its own payload; a pong or an
   unknown opcode is skipped. *)
PayloadDone ==
  /\ reading = "payload" /\ have = message.length
  /\ \/ /\ message.op \in {"Frame", "Handshake"}
        /\ delivered' = Append(delivered, message.at)
        /\ Return("Ok")
        /\ UNCHANGED <<pongs, outVars>>
     \/ /\ message.op = "Close"
        /\ Return("Closed")
        /\ UNCHANGED <<delivered, pongs, outVars>>
     \/ /\ message.op = "Ping"
        /\ pongs' = Append(pongs, message.at)
        /\ Write(message.length)
        /\ reading' = "pong" /\ have' = 0
        /\ message' = NoMessage /\ late' = FALSE
        /\ UNCHANGED <<alive, delivered>>
     \/ /\ message.op = "Pong"
        /\ NextHeader
        /\ UNCHANGED <<delivered, pongs, outVars>>
  /\ UNCHANGED <<peerVars, consumed>>

-----------------------------------------------------------------------------
(* sendJson of a command, called between two reads. *)
SendJson ==
  /\ Idle /\ owed < MaxOwed
  /\ \E length \in Lengths : length <= MaxLength /\ Write(length)
  /\ UNCHANGED <<peerVars, alive, readVars>>

SendOnce ==  \* faulty: a short write is taken for the whole
  /\ writing > 0
  /\ \E k \in 1..writing :
       /\ k <= room
       /\ writing' = 0
       /\ room' = room - k /\ handed' = handed + k
  /\ UNCHANGED <<peerVars, alive, readVars, owed>>

(* One turn of sendBytes: the system takes what it has room for; with no room
   the call blocks. *)
SendSome ==
  /\ writing > 0
  /\ \E k \in 1..writing :
       /\ k <= room
       /\ writing' = writing - k
       /\ room' = room - k /\ handed' = handed + k
  /\ UNCHANGED <<peerVars, alive, readVars, owed>>

(* The write fails, the peer being gone.  A command that could not be written
   costs the connection; whether the pong was is not looked at. *)
SendBreaks ==
  /\ writing > 0 /\ hungUp
  /\ writing' = 0
  /\ alive' = (reading = "pong")
  /\ UNCHANGED <<peerVars, readVars, room, handed, owed>>

PongDone ==
  /\ reading = "pong" /\ writing = 0
  /\ NextHeader
  /\ UNCHANGED <<peerVars, consumed, delivered, pongs, outVars>>

Peer   == PeerSend \/ PeerWrite \/ PeerDrain \/ HangUp
Reader == RecvSome \/ RecvClosed \/ Deadline \/ HeaderDone \/ PayloadDone \/ PongDone
Writer == SendSome \/ SendBreaks
Caller == ReadJson \/ SendJson

-----------------------------------------------------------------------------
TypeOK ==
  /\ sent \in Seq([op : Ops, length : Lengths, at : Nat])
  /\ written \in 0..Total /\ consumed \in 0..written
  /\ hungUp \in BOOLEAN /\ alive \in BOOLEAN /\ late \in BOOLEAN
  /\ reading \in {"no", "header", "payload", "pong"}
  /\ message \in [op : Ops \cup {"Pong"}, length : Lengths \cup {0}, at : Nat]
  /\ have \in 0..Needed
  /\ room \in 0..Buffer
  /\ owed \in Nat /\ writing \in 0..owed /\ handed \in 0..(owed - writing)

(* A connection that is used starts every header at the first byte of a
   message: no timeout, ping or short read shifts the framing. *)
Aligned ==
  alive /\ reading # "payload" =>
    consumed - have \in {Total} \cup {sent[i].at : i \in DOMAIN sent}

(* Where the message begins that is being read, or is to be read next. *)
Mark == consumed - have - (IF reading = "payload" THEN Header ELSE 0)

(* How many messages were taken: those that begin before it. *)
Taken == Cardinality({i \in DOMAIN sent : sent[i].at < Mark})

Untaken == IF alive THEN SubSeq(sent, Taken + 1, Len(sent)) ELSE <<>>

(* Every message sent is taken once, in order: frames are returned, pings are
   answered, a close is obeyed, and a timeout leaves everything for the next
   read ("PINGs are answered internally, CLOSE => Closed", rpc_conn.hpp:32;
   "nothing arrived in time; connection still fine", :21). *)
Messages ==
  INSTANCE Channel WITH
    up <- alive,
    queue <- Untaken,
    got <- delivered,
    answered <- pongs

ChannelSpec == Messages!Spec

(* What Discord gets is whole messages, one after another: however the system
   cuts the writes, nothing follows a message that was not finished, unless
   Discord is gone anyway. *)
WholeMessages == handed + writing = owed \/ hungUp

(* What these rest on: the peer's messages follow one another in the stream, a
   payload is read behind its own header, and nothing is written meanwhile. *)
StreamInv ==
  \A i \in DOMAIN sent :
    /\ EndOf(sent[i]) = IF i = Len(sent) THEN Total ELSE sent[i + 1].at
    /\ EndOf(sent[i]) <= Total
    /\ \A j \in DOMAIN sent : i < j => EndOf(sent[i]) <= sent[j].at
PayloadInv ==
  alive /\ reading = "payload" =>
    /\ message \in {sent[i] : i \in DOMAIN sent}
    /\ consumed - have = message.at + Header
WriteInv == reading \in {"header", "payload"} => writing = 0

IpcInv ==
  /\ TypeOK /\ Aligned /\ WholeMessages
  /\ StreamInv /\ PayloadInv /\ WriteInv

(* Writing has no deadline: a peer that is there and takes nothing blocks it. *)
Stuck == writing > 0 /\ room = 0
=============================================================================
