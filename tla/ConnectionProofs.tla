--------------------------- MODULE ConnectionProofs ---------------------------
(***************************************************************************)
(* Proofs about connections (IpcConn, Transport, Connection), for headers, *)
(* payloads, buffers and ladders of any size and any number of messages.   *)
(* First the stream of one connection, step by step of the reader and the  *)
(* writer, then the ladder and the life of one connection after another.   *)
(***************************************************************************)
EXTENDS Connection, FiniteSetTheorems, SequenceTheorems, TLAPS

Records == [op : Ops, length : Lengths, at : Nat]

(* Places in the stream are numbers. *)
LEMMA Places ==
  ASSUME TypeOK
  PROVE  /\ Header \in Nat \ {0} /\ Total \in Nat /\ Len(sent) \in Nat /\ MaxLength \in Nat
         /\ DOMAIN sent = 1..Len(sent)
         /\ \A i \in DOMAIN sent : sent[i] \in Records /\ EndOf(sent[i]) \in Nat
         /\ \A l \in Lengths \cup {0} : l \in Nat
         /\ written \in Nat /\ consumed \in Nat /\ Needed \in Nat /\ have \in Nat
         /\ message.length \in Nat /\ message.at \in Nat
         /\ owed \in Nat /\ writing \in Nat /\ handed \in Nat /\ room \in Nat
<1> USE IpcAssumption DEF IpcAssumption
<1>1. /\ Header \in Nat \ {0} /\ MaxLength \in Nat
      /\ \A l \in Lengths \cup {0} : l \in Nat
  OBVIOUS
<1>0. sent \in Seq(Records)
  BY DEF TypeOK, Records
<1>7. /\ Len(sent) \in Nat /\ DOMAIN sent = 1..Len(sent)
      /\ \A i \in DOMAIN sent : sent[i] \in Records
  BY <1>0
<1>2. \A i \in DOMAIN sent : EndOf(sent[i]) \in Nat
  <2> SUFFICES ASSUME NEW i \in DOMAIN sent PROVE EndOf(sent[i]) \in Nat
    OBVIOUS
  <2>1. sent[i].at \in Nat /\ sent[i].length \in Lengths
    BY <1>7 DEF Records
  <2>2. sent[i].length \in Nat /\ Header \in Nat
    BY <1>1, <2>1
  <2> QED BY <2>1, <2>2 DEF EndOf
<1>3. sent # <<>> => Len(sent) \in DOMAIN sent
  BY <1>0, <1>7
<1>4. Total \in Nat
  BY <1>2, <1>3 DEF Total
<1>5. message.length \in Nat /\ message.at \in Nat
  BY <1>1 DEF TypeOK
<1>6. Needed \in Nat
  BY <1>1, <1>5 DEF Needed
<1> QED BY <1>1, <1>2, <1>4, <1>5, <1>6, <1>7 DEF TypeOK

(* A stream nothing was sent on is in order, with or without a connection. *)
LEMMA FreshIpc == Fresh /\ alive \in BOOLEAN => IpcInv
<1> SUFFICES ASSUME Fresh, alive \in BOOLEAN PROVE IpcInv
  OBVIOUS
<1> USE IpcAssumption DEF IpcAssumption, Fresh
<1>1. Total = 0 /\ Needed = 0 /\ DOMAIN sent = {}
  BY DEF Total, Needed
<1>2. sent \in Seq([op : Ops, length : Lengths, at : Nat])
  OBVIOUS
<1>3. message \in [op : Ops \cup {"Pong"}, length : Lengths \cup {0}, at : Nat]
  BY DEF NoMessage
<1>4. room \in 0..Buffer /\ owed \in Nat /\ writing \in 0..owed /\ handed \in 0..(owed - writing)
  OBVIOUS
<1>5. written \in 0..Total /\ consumed \in 0..written /\ have \in 0..Needed
  BY <1>1
<1>6. TypeOK
  BY <1>2, <1>3, <1>4, <1>5 DEF TypeOK
<1> QED BY <1>1, <1>6 DEF IpcInv, Aligned, WholeMessages, StreamInv, PayloadInv, WriteInv

(* The peer: a new message begins where the last one ends. *)
LEMMA PeerSendStep == ASSUME IpcInv, PeerSend PROVE IpcInv'
<1>1. PICK m \in Records : sent' = Append(sent, m) /\ m.at = Total
  <2>1. PICK op \in Ops, length \in Lengths :
          sent' = Append(sent, [op |-> op, length |-> length, at |-> Total])
    BY DEF PeerSend
  <2>2. Total \in Nat
    BY Places DEF IpcInv
  <2> QED BY <2>1, <2>2 DEF Records
<1>2. /\ UNCHANGED <<written, hungUp, alive, readVars, outVars>> /\ written = Total
  BY DEF PeerSend
<1>3. /\ sent \in Seq(Records) /\ sent' \in Seq(Records) /\ Len(sent) \in Nat
      /\ Len(sent') = Len(sent) + 1 /\ sent' # <<>>
      /\ \A i \in 1..Len(sent) : sent'[i] = sent[i]
      /\ sent'[Len(sent) + 1] = m
  BY <1>1 DEF IpcInv, TypeOK, Records
<1>4. DOMAIN sent' = 1..(Len(sent) + 1) /\ DOMAIN sent = 1..Len(sent)
  BY <1>3
<1>5. Total' = EndOf(m) /\ EndOf(m) \in Nat /\ Total \in Nat /\ Total <= Total'
  <2>1. Total' = EndOf(m)
    BY <1>3 DEF Total, EndOf
  <2>2. m.length \in Nat /\ Header \in Nat /\ Total \in Nat
    BY Places, IpcAssumption DEF Records, IpcInv, IpcAssumption
  <2> QED BY <1>1, <2>1, <2>2 DEF EndOf
<1>6. Needed' = Needed
  BY <1>2 DEF Needed, readVars
<1>7. TypeOK'
  BY <1>2, <1>3, <1>5, <1>6 DEF IpcInv, TypeOK, Records, readVars, outVars
<1>8. Aligned'
  <2>1. {Total} \cup {sent[i].at : i \in DOMAIN sent} \subseteq {sent'[i].at : i \in DOMAIN sent'}
    BY <1>1, <1>3, <1>4
  <2> QED BY <1>2, <2>1 DEF IpcInv, Aligned, readVars
<1>9. /\ \A i \in DOMAIN sent : sent'[i] = sent[i] /\ EndOf(sent[i]) \in Nat
      /\ \A i \in DOMAIN sent : EndOf(sent[i]) <= Total
      /\ \A i, j \in DOMAIN sent : i < j => EndOf(sent[i]) <= sent[j].at
  BY <1>3, <1>4, Places DEF IpcInv, StreamInv
<1>10. /\ \A i \in DOMAIN sent' : EndOf(sent'[i]) <= EndOf(m)
       /\ \A i, j \in DOMAIN sent' : i < j => EndOf(sent'[i]) <= sent'[j].at
  <2> SUFFICES ASSUME NEW i \in DOMAIN sent'
               PROVE /\ EndOf(sent'[i]) <= EndOf(m)
                     /\ \A j \in DOMAIN sent' : i < j => EndOf(sent'[i]) <= sent'[j].at
    OBVIOUS
  <2>1. CASE i = Len(sent) + 1
    <3>1. \A j \in DOMAIN sent' : ~(i < j)
      BY <1>3, <1>4, <2>1
    <3> QED BY <1>3, <1>5, <2>1, <3>1
  <2>2. CASE i \in DOMAIN sent
    <3>1. sent'[i] = sent[i] /\ EndOf(sent[i]) <= Total /\ EndOf(sent[i]) \in Nat
      BY <1>9, <2>2
    <3>2. EndOf(sent[i]) <= EndOf(m)
      BY <1>5, <3>1
    <3>3. ASSUME NEW j \in DOMAIN sent', i < j PROVE EndOf(sent[i]) <= sent'[j].at
      <4>1. j \in DOMAIN sent \/ j = Len(sent) + 1
        BY <1>3, <1>4
      <4>2. CASE j \in DOMAIN sent
        BY <1>9, <2>2, <3>3, <4>2
      <4>3. CASE j = Len(sent) + 1
        BY <1>1, <1>3, <3>1, <4>3
      <4> QED BY <4>1, <4>2, <4>3
    <3> QED BY <3>1, <3>2, <3>3
  <2> QED BY <1>3, <1>4, <2>1, <2>2
<1>11. ASSUME NEW i \in DOMAIN sent'
       PROVE EndOf(sent'[i]) = IF i = Len(sent') THEN EndOf(m) ELSE sent'[i + 1].at
  <2>1. CASE i = Len(sent) + 1
    BY <1>3, <2>1
  <2>2. CASE i \in 1..(Len(sent) - 1)
    <3>1. i \in DOMAIN sent /\ i + 1 \in DOMAIN sent /\ i # Len(sent) /\ i # Len(sent')
      BY <1>3, <1>4, <2>2
    <3>2. EndOf(sent[i]) = sent[i + 1].at
      BY <3>1 DEF IpcInv, StreamInv
    <3>3. sent'[i] = sent[i] /\ sent'[i + 1] = sent[i + 1]
      BY <1>9, <3>1
    <3> QED BY <3>1, <3>2, <3>3
  <2>3. CASE i = Len(sent) /\ Len(sent) > 0
    <3>0. i \in DOMAIN sent
      BY <1>3, <1>4, <2>3
    <3>1. EndOf(sent[i]) = Total
      BY <2>3, <3>0 DEF IpcInv, StreamInv
    <3>2. sent'[i] = sent[i] /\ i # Len(sent') /\ sent'[i + 1] = m
      BY <1>3, <2>3
    <3> QED BY <1>1, <3>1, <3>2
  <2> QED BY <1>3, <1>4, <2>1, <2>2, <2>3
<1>12. StreamInv'
  <2>1. StreamInv' =
          \A i \in DOMAIN sent' :
            /\ EndOf(sent'[i]) = IF i = Len(sent') THEN Total' ELSE sent'[i + 1].at
            /\ EndOf(sent'[i]) <= Total'
            /\ \A j \in DOMAIN sent' : i < j => EndOf(sent'[i]) <= sent'[j].at
    BY DEF StreamInv, EndOf
  <2> QED BY <1>5, <1>10, <1>11, <2>1
<1>13. PayloadInv'
  <2>1. {sent[i] : i \in DOMAIN sent} \subseteq {sent'[i] : i \in DOMAIN sent'}
    BY <1>3, <1>4
  <2> QED BY <1>2, <2>1 DEF IpcInv, PayloadInv, readVars
<1> QED BY <1>2, <1>7, <1>8, <1>12, <1>13 DEF IpcInv, WholeMessages, WriteInv, readVars, outVars

(* The sent messages, and so every place in the stream, are the same. *)
LEMMA SameStream ==
  ASSUME IpcInv, UNCHANGED sent
  PROVE  StreamInv' /\ Total' = Total
BY DEF IpcInv, StreamInv, Total, EndOf

LEMMA SameTypes ==
  ASSUME IpcInv, UNCHANGED sent, hungUp' \in BOOLEAN, alive' \in BOOLEAN, late' \in BOOLEAN,
         written' \in 0..Total, consumed' \in 0..written', have' \in 0..Needed',
         reading' \in {"no", "header", "payload", "pong"},
         message' = message \/ message' = NoMessage \/ message' \in Records,
         room' \in 0..Buffer, owed' \in Nat, writing' \in 0..owed',
         handed' \in 0..(owed' - writing')
  PROVE  TypeOK'
<1>1. sent' \in Seq([op : Ops, length : Lengths, at : Nat])
  BY DEF IpcInv, TypeOK
<1>2. message' \in [op : Ops \cup {"Pong"}, length : Lengths \cup {0}, at : Nat]
  BY DEF IpcInv, TypeOK, NoMessage, Records
<1>3. Total' = Total
  BY SameStream
<1> QED BY <1>1, <1>2, <1>3 DEF TypeOK

(* The types of what most steps leave alone. *)
LEMMA Numbers ==
  ASSUME IpcInv
  PROVE  /\ written \in 0..Total /\ consumed \in 0..written /\ have \in 0..Needed
         /\ hungUp \in BOOLEAN /\ alive \in BOOLEAN /\ late \in BOOLEAN
         /\ reading \in {"no", "header", "payload", "pong"}
         /\ room \in 0..Buffer
         /\ owed \in Nat /\ writing \in 0..owed /\ handed \in 0..(owed - writing)
  BY DEF IpcInv, TypeOK

LEMMA PeerStep == ASSUME IpcInv, Peer PROVE IpcInv'
<1>1. CASE PeerSend
  BY <1>1, PeerSendStep
<1>2. CASE PeerWrite \/ HangUp \/ PeerDrain
  <2>1. UNCHANGED <<sent, alive, readVars, writing, handed, owed>> /\ Needed' = Needed
    BY <1>2 DEF PeerWrite, HangUp, PeerDrain, Needed, readVars, outVars, peerVars
  <2>4. written' \in 0..Total /\ consumed \in 0..written' /\ hungUp' \in BOOLEAN
    <3>1. Total \in Nat /\ written \in Nat /\ consumed \in Nat /\ consumed' = consumed
      BY <2>1, Places DEF IpcInv, readVars
    <3>2. written' = written \/ (written' = written + 1 /\ written < Total)
      BY <1>2 DEF PeerWrite, HangUp, PeerDrain, peerVars
    <3>3. written' \in 0..Total /\ consumed' \in 0..written'
      BY <3>1, <3>2, Numbers
    <3>4. hungUp' \in BOOLEAN
      BY <1>2, Numbers DEF PeerWrite, HangUp, PeerDrain, peerVars
    <3> QED BY <3>1, <3>3, <3>4
  <2>5. room' \in 0..Buffer
    BY <1>2, IpcAssumption, Numbers DEF IpcAssumption, PeerWrite, HangUp, PeerDrain, outVars
  <2>2. TypeOK'
    BY <2>1, <2>4, <2>5, Numbers, SameTypes DEF readVars
  <2>3. hungUp => hungUp'
    BY <1>2 DEF PeerWrite, HangUp, PeerDrain, peerVars
  <2> QED BY <2>1, <2>2, <2>3, SameStream
          DEF IpcInv, Aligned, WholeMessages, PayloadInv, WriteInv, readVars
<1> QED BY <1>1, <1>2 DEF Peer

-----------------------------------------------------------------------------
(* The reader. *)
LEMMA SomeBytes == ASSUME IpcInv, RecvSome PROVE IpcInv'
<1>1. PICK k \in 1..(Needed - have) : /\ consumed + k <= written
                                     /\ consumed' = consumed + k /\ have' = have + k
  BY DEF RecvSome
<1>2. UNCHANGED <<peerVars, alive, reading, message, late, delivered, pongs, outVars>>
  BY DEF RecvSome
<1>3. Needed' = Needed /\ consumed' - have' = consumed - have
  BY <1>1, <1>2, Places DEF Needed, IpcInv
<1>4. TypeOK'
  BY <1>1, <1>2, <1>3, Places, SameStream DEF IpcInv, TypeOK, peerVars, outVars
<1> QED BY <1>2, <1>3, <1>4, SameStream
        DEF IpcInv, Aligned, WholeMessages, PayloadInv, WriteInv, peerVars, outVars

(* Wherever a read ends without a message, it was at a boundary or the
   connection is given up. *)
LEMMA ReturnStep ==
  ASSUME IpcInv, NEW r, Return(r), UNCHANGED <<peerVars, consumed, outVars>>,
         r # "Closed" => alive /\ reading # "payload" /\ have = 0
  PROVE  IpcInv'
<1>1. Needed' = 0 /\ have' = 0 /\ reading' = "no" /\ alive' \in BOOLEAN
  BY DEF Return, Needed
<1>2. TypeOK'
  <2>1. late' = FALSE /\ message' = NoMessage /\ have' \in 0..Needed'
        /\ UNCHANGED <<sent, written, hungUp, consumed, writing, room, handed, owed>>
    BY <1>1 DEF Return, peerVars, outVars
  <2> QED BY <1>1, <2>1, SameTypes, Numbers
<1>3. Aligned'
  BY <1>1, SameStream, Places DEF Return, IpcInv, Aligned, peerVars
<1> QED BY <1>1, <1>2, <1>3, SameStream
        DEF IpcInv, WholeMessages, PayloadInv, WriteInv, peerVars, outVars

(* A complete header is the one of a message that was sent. *)
LEMMA HeaderStep == ASSUME IpcInv, HeaderDone, alive PROVE IpcInv'
<1>1. UNCHANGED <<peerVars, consumed, delivered, pongs, outVars>> /\ reading = "header"
      /\ have = Header
  BY DEF HeaderDone
<1>2. PICK m \in HeadersAt(consumed - Header) :
        \/ m.length > MaxLength /\ Return("Closed")
        \/ /\ reading' = "payload" /\ have' = 0
           /\ message' = m /\ late' = FALSE
           /\ UNCHANGED alive
  BY DEF HeaderDone
<1>3. m \in {sent[i] : i \in DOMAIN sent} /\ m.at = consumed - Header
  <2>1. consumed - Header # Total
    BY Places DEF IpcInv, TypeOK
  <2>2. PICK i \in DOMAIN sent : sent[i].at = consumed - Header
    BY <1>1, <2>1 DEF IpcInv, Aligned
  <2> QED BY <2>2 DEF HeadersAt
<1>4. CASE Return("Closed")
  BY <1>1, <1>4, ReturnStep
<1>5. CASE reading' = "payload" /\ have' = 0 /\ message' = m /\ late' = FALSE /\ UNCHANGED alive
  <2>1. m \in Records
    BY <1>3, Places DEF IpcInv
  <2>2. Needed' = m.length /\ m.length \in Nat
    BY <1>5, <2>1, Places DEF Needed, Records, IpcInv
  <2>3. TypeOK'
    <3>1. late' \in BOOLEAN /\ message' \in Records
      BY <1>5, <2>1
    <3>2. have' \in 0..Needed'
      BY <1>5, <2>2
    <3>3. UNCHANGED <<sent, written, hungUp, consumed, writing, room, handed, owed>>
      BY <1>1 DEF peerVars, outVars
    <3> QED BY <1>5, <3>1, <3>2, <3>3, SameTypes, Numbers
  <2>4. PayloadInv'
    BY <1>1, <1>3, <1>5, Places DEF PayloadInv, IpcInv, peerVars
  <2> QED BY <1>1, <1>5, <2>3, <2>4, SameStream
          DEF IpcInv, Aligned, WholeMessages, WriteInv, peerVars, outVars
<1> QED BY <1>2, <1>4, <1>5

(* After a whole message the stream is at the next one, or at its end. *)
LEMMA AtBoundary ==
  ASSUME IpcInv, alive, reading = "payload", have = message.length
  PROVE  consumed \in {Total} \cup {sent[i].at : i \in DOMAIN sent}
<1>1. PICK i \in DOMAIN sent : message = sent[i] /\ consumed - have = message.at + Header
  BY DEF IpcInv, PayloadInv
<1>2. consumed = EndOf(sent[i])
  BY <1>1, Places DEF EndOf, IpcInv
<1>3. i # Len(sent) => i + 1 \in DOMAIN sent
  BY Places DEF IpcInv
<1> QED BY <1>2, <1>3 DEF IpcInv, StreamInv

(* The reader goes on at a boundary. *)
LEMMA NextHeaderStep ==
  ASSUME IpcInv, NextHeader, UNCHANGED <<peerVars, consumed, outVars>>, writing = 0,
         alive => consumed \in {Total} \cup {sent[i].at : i \in DOMAIN sent}
  PROVE  IpcInv'
<1>1. /\ reading' = "header" /\ have' = 0 /\ message' = NoMessage /\ late' \in BOOLEAN
      /\ UNCHANGED <<sent, written, hungUp, alive, consumed, writing, room, handed, owed>>
  BY DEF NextHeader, peerVars, outVars
<1>2. have' \in 0..Needed'
  BY <1>1, IpcAssumption DEF Needed, IpcAssumption
<1>3. TypeOK'
  BY <1>1, <1>2, SameTypes, Numbers
<1>4. Aligned'
  BY <1>1, SameStream, Places DEF Aligned, IpcInv
<1> QED BY <1>1, <1>3, <1>4, SameStream DEF IpcInv, WholeMessages, PayloadInv, WriteInv

(* sendMessage starts on what was written whole. *)
LEMMA WriteStep ==
  ASSUME IpcInv, NEW length \in Lengths \cup {0}, Write(length), writing = 0
  PROVE  /\ owed' \in Nat /\ writing' \in 0..owed' /\ handed' \in 0..(owed' - writing')
         /\ room' \in 0..Buffer
         /\ hungUp' = hungUp => WholeMessages'
<1>1. /\ writing' = Header + length /\ owed' = owed + Header + length
      /\ handed' = handed /\ room' = room
  BY DEF Write
<1>2. /\ Header \in Nat /\ length \in Nat /\ owed \in Nat /\ handed \in Nat
      /\ handed <= owed /\ room \in 0..Buffer
  BY Places, Numbers DEF IpcInv
<1>3. handed = owed \/ hungUp
  BY <1>2 DEF IpcInv, WholeMessages
<1> QED BY <1>1, <1>2, <1>3 DEF WholeMessages

LEMMA PayloadStep == ASSUME IpcInv, PayloadDone, alive PROVE IpcInv'
<1>1. /\ reading = "payload" /\ have = message.length /\ writing = 0
      /\ UNCHANGED <<peerVars, consumed>>
  BY DEF PayloadDone, IpcInv, WriteInv
<1>2. consumed \in {Total} \cup {sent[i].at : i \in DOMAIN sent}
  BY <1>1, AtBoundary
<1>3. CASE message.op \in {"Frame", "Handshake"} /\ Return("Ok") /\ UNCHANGED outVars
  <2>1. /\ reading' = "no" /\ have' = 0 /\ message' = NoMessage /\ late' = FALSE /\ alive'
        /\ UNCHANGED <<sent, written, hungUp, consumed, writing, room, handed, owed>>
    BY <1>1, <1>3 DEF Return, peerVars, outVars
  <2>2. have' \in 0..Needed'
    BY <2>1 DEF Needed
  <2>3. TypeOK'
    BY <2>1, <2>2, SameTypes, Numbers
  <2>4. Aligned'
    BY <1>2, <2>1, SameStream, Places DEF Aligned, IpcInv
  <2> QED BY <2>1, <2>3, <2>4, SameStream DEF IpcInv, WholeMessages, PayloadInv, WriteInv
<1>4. CASE Return("Closed") /\ UNCHANGED outVars
  BY <1>1, <1>4, ReturnStep
<1>5. CASE /\ Write(message.length) /\ reading' = "pong" /\ have' = 0
           /\ message' = NoMessage /\ late' = FALSE /\ UNCHANGED alive
  <2>1. message.length \in Lengths \cup {0}
    BY DEF IpcInv, TypeOK
  <2>2. /\ owed' \in Nat /\ writing' \in 0..owed' /\ handed' \in 0..(owed' - writing')
        /\ room' \in 0..Buffer /\ WholeMessages'
    BY <1>1, <1>5, <2>1, WriteStep DEF peerVars
  <2>3. have' \in 0..Needed' /\ UNCHANGED <<sent, written, hungUp, consumed>>
    BY <1>1, <1>5 DEF Needed, peerVars
  <2>4. TypeOK'
    BY <1>5, <2>2, <2>3, SameTypes, Numbers
  <2>5. Aligned'
    BY <1>2, <1>5, <2>3, SameStream, Places DEF Aligned, IpcInv
  <2> QED BY <1>5, <2>2, <2>3, <2>4, <2>5, SameStream DEF IpcInv, PayloadInv, WriteInv
<1>6. CASE NextHeader /\ UNCHANGED outVars
  BY <1>1, <1>2, <1>6, NextHeaderStep
<1> QED BY <1>3, <1>4, <1>5, <1>6 DEF PayloadDone

LEMMA ReaderStep == ASSUME IpcInv, Reader, alive PROVE IpcInv'
<1>1. CASE RecvSome
  BY <1>1, SomeBytes
<1>2. CASE RecvClosed
  BY <1>2, ReturnStep DEF RecvClosed
<1>3. CASE Deadline
  BY <1>3, ReturnStep DEF Deadline
<1>4. CASE HeaderDone
  BY <1>4, HeaderStep
<1>5. CASE PayloadDone
  BY <1>5, PayloadStep
<1>6. CASE PongDone
  <2>1. consumed - have = consumed
    BY <1>6, Numbers, Places DEF PongDone, Needed, IpcInv
  <2>2. consumed \in {Total} \cup {sent[i].at : i \in DOMAIN sent}
    BY <1>6, <2>1 DEF PongDone, IpcInv, Aligned
  <2> QED BY <1>6, <2>2, NextHeaderStep DEF PongDone
<1> QED BY <1>1, <1>2, <1>3, <1>4, <1>5, <1>6 DEF Reader

-----------------------------------------------------------------------------
(* The writer, the callers and the clock. *)
LEMMA WriterStep == ASSUME IpcInv, Writer, alive PROVE IpcInv'
<1>0. UNCHANGED <<sent, written, hungUp, readVars, owed>> /\ writing > 0
  BY DEF Writer, SendSome, SendBreaks, peerVars
<1>1. /\ UNCHANGED <<sent, written, hungUp, readVars, owed>> /\ Needed' = Needed
      /\ reading \notin {"header", "payload"}
  BY <1>0 DEF Needed, readVars, IpcInv, WriteInv
<1>2. alive' \in BOOLEAN
  BY Numbers DEF Writer, SendSome, SendBreaks
<1>3. /\ writing' \in 0..owed' /\ handed' \in 0..(owed' - writing') /\ room' \in 0..Buffer
      /\ WholeMessages'
  <2>1. CASE SendSome
    <3>1. PICK k \in 1..writing : /\ k <= room /\ writing' = writing - k
                                  /\ room' = room - k /\ handed' = handed + k
      BY <2>1 DEF SendSome
    <3>2. /\ room \in Nat /\ Buffer \in Nat /\ room <= Buffer /\ owed' = owed
          /\ handed + writing <= owed /\ handed \in Nat /\ writing \in Nat /\ owed \in Nat
      BY <1>1, Numbers, IpcAssumption DEF IpcAssumption
    <3>3. handed' + writing' = handed + writing
      BY <3>1, <3>2
    <3>4. WholeMessages'
      BY <1>1, <3>2, <3>3 DEF IpcInv, WholeMessages
    <3> QED BY <3>1, <3>2, <3>4
  <2>2. CASE SendBreaks
    <3>1. hungUp' /\ writing' = 0 /\ room' = room /\ handed' = handed /\ owed' = owed
      BY <2>2 DEF SendBreaks, peerVars
    <3>2. owed \in Nat /\ writing \in 0..owed /\ handed \in 0..(owed - writing)
          /\ room \in 0..Buffer
      BY Numbers
    <3> QED BY <3>1, <3>2 DEF WholeMessages
  <2> QED BY <2>1, <2>2 DEF Writer
<1>4. TypeOK'
  BY <1>1, <1>2, <1>3, SameTypes, Numbers DEF readVars
<1>5. Aligned'
  BY <1>1, SameStream DEF IpcInv, Aligned, readVars
<1> QED BY <1>1, <1>3, <1>4, <1>5, SameStream DEF IpcInv, PayloadInv, WriteInv, readVars

LEMMA CallerStep == ASSUME IpcInv, Caller PROVE IpcInv'
<1>1. CASE ReadJson
  <2>1. /\ reading = "no" /\ writing = 0 /\ have = 0 /\ reading' = "header" /\ have' = 0
        /\ late' = FALSE
        /\ UNCHANGED <<sent, written, hungUp, alive, consumed, message>>
        /\ UNCHANGED <<writing, room, handed, owed>>
    BY <1>1, Numbers DEF ReadJson, Idle, Needed, peerVars, outVars
  <2>2. have' \in 0..Needed'
    BY <2>1, IpcAssumption DEF Needed, IpcAssumption
  <2>3. TypeOK'
    BY <2>1, <2>2, SameTypes, Numbers
  <2>4. Aligned'
    BY <2>1, SameStream DEF IpcInv, Aligned
  <2> QED BY <2>1, <2>3, <2>4, SameStream DEF IpcInv, WholeMessages, PayloadInv, WriteInv
<1>2. CASE SendJson
  <2>1. PICK length \in Lengths : Write(length)
    BY <1>2 DEF SendJson
  <2>2. /\ reading = "no" /\ writing = 0
        /\ UNCHANGED <<sent, written, hungUp, alive, readVars>> /\ Needed' = Needed
    BY <1>2 DEF SendJson, Idle, Needed, peerVars, readVars
  <2>3. /\ owed' \in Nat /\ writing' \in 0..owed' /\ handed' \in 0..(owed' - writing')
        /\ room' \in 0..Buffer /\ WholeMessages'
    BY <2>1, <2>2, WriteStep
  <2>4. TypeOK'
    BY <2>2, <2>3, SameTypes, Numbers DEF readVars
  <2>5. Aligned'
    BY <2>2, SameStream DEF IpcInv, Aligned, readVars
  <2> QED BY <2>2, <2>3, <2>4, <2>5, SameStream DEF IpcInv, PayloadInv, WriteInv, readVars
<1> QED BY <1>1, <1>2 DEF Caller

LEMMA ExpireStep == ASSUME IpcInv, Expire PROVE IpcInv'
<1>1. /\ late' = TRUE /\ Needed' = Needed
      /\ UNCHANGED <<sent, written, hungUp, alive, reading, consumed, have, message, writing, room,
                     handed, owed>>
  BY DEF Expire, Needed, peerVars, outVars
<1>2. TypeOK'
  BY <1>1, SameTypes, Numbers
<1> QED BY <1>1, <1>2, SameStream
        DEF IpcInv, Aligned, WholeMessages, PayloadInv, WriteInv

LEMMA FramingStep == ASSUME IpcInv, Framing PROVE IpcInv'
<1>1. Caller \/ (alive /\ (Peer \/ Reader \/ Writer \/ Expire))
  BY DEF Framing
<1> QED BY <1>1, CallerStep, PeerStep, ReaderStep, WriterStep, ExpireStep

(* A step that leaves the stream alone, or takes it down. *)
LEMMA SameIpc == ASSUME IpcInv, UNCHANGED ipcVars PROVE IpcInv'
<1>1. /\ Needed' = Needed
      /\ UNCHANGED <<sent, written, hungUp, alive, late, reading, consumed, have, message, writing,
                     room, handed, owed>>
  BY DEF ipcVars, peerVars, readVars, outVars, Needed
<1>2. TypeOK'
  BY <1>1, SameTypes, Numbers
<1> QED BY <1>1, <1>2, SameStream
        DEF IpcInv, Aligned, WholeMessages, PayloadInv, WriteInv

LEMMA Down == ASSUME TakeDown PROVE IpcInv' /\ Fresh' /\ alive' = FALSE
<1>1. Fresh' /\ alive' = FALSE
  BY DEF TakeDown, Fresh
<1>2. (alive \in BOOLEAN)'
  BY <1>1
<1>3. IpcInv'
  BY <1>1, <1>2, FreshIpc, PTL
<1> QED BY <1>1, <1>3

-----------------------------------------------------------------------------
(* The ladder and the connections found on it. *)
LadderInv == LadderTypeOK /\ OneBridge /\ (rung = "wait" => bridge # "none")

LEMMA ClimbStep ==
  ASSUME LadderInv, StartOpen \/ Climb
  PROVE  LadderInv' /\ rung # "found"
<1> USE TransportAssumption DEF TransportAssumption, LadderInv, LadderTypeOK, OneBridge, hostVars,
        bridgeVars
<1>1. CASE StartOpen \/ TryPipes \/ TrySockets
  BY <1>1 DEF StartOpen, TryPipes, TrySockets
<1>2. CASE Launch
  BY <1>2 DEF Launch, CreateBridge, NoBridge, Alive
<1>3. CASE Poll \/ WaitedLongEnough
  BY <1>3 DEF Poll, WaitedLongEnough
<1> QED BY <1>1, <1>2, <1>3 DEF Climb

LEMMA SurroundingsStep ==
  ASSUME LadderInv, DiscordStarts \/ DiscordQuits \/ BridgeRuns
  PROVE  LadderInv' /\ rung' = rung
<1> USE DEF LadderInv, LadderTypeOK, OneBridge, hostVars, bridgeVars
<1>1. CASE DiscordStarts \/ DiscordQuits
  <2>1. discord' \in BOOLEAN /\ UNCHANGED <<world, bridge, stray, rung, polls>>
    BY <1>1 DEF DiscordStarts, DiscordQuits
  <2> QED BY <2>1
<1>2. CASE BridgeRuns
  BY <1>2 DEF BridgeRuns, Alive
<1> QED BY <1>1, <1>2

(* A connection that is found begins with its HANDSHAKE. *)
LEMMA FoundStep ==
  ASSUME ConnInv, Opening
  PROVE  ConnInv'
<1>1. LadderInv
  BY DEF ConnInv, ConnTypeOK, LadderInv
<1>2. /\ StartOpen \/ Climb
      /\ opened' = opened
      /\ \/ /\ rung' = "found" /\ alive' = TRUE
            /\ owed' = Header + HandshakeLength /\ writing' = owed'
            /\ UNCHANGED <<peerVars, readVars, room, handed>>
         \/ rung' # "found" /\ UNCHANGED ipcVars
  BY DEF Opening, Found
<1>3. LadderInv' /\ rung # "found" /\ Fresh /\ IpcInv
  BY <1>1, <1>2, ClimbStep DEF ConnInv
<1>4. ~alive /\ ~opened
  BY <1>3 DEF ConnInv, ConnTypeOK
<1>5. CASE rung' # "found" /\ UNCHANGED ipcVars
  <2>1. Fresh' /\ alive' = alive
    BY <1>3, <1>5 DEF Fresh, ipcVars, peerVars, readVars, outVars
  <2>2. IpcInv'
    BY <1>3, <1>5, SameIpc
  <2> QED BY <1>2, <1>3, <1>4, <2>1, <2>2 DEF ConnInv, ConnTypeOK, LadderInv, IpcInv
<1>6. CASE /\ rung' = "found" /\ alive' = TRUE
           /\ owed' = Header + HandshakeLength /\ writing' = owed'
           /\ UNCHANGED <<peerVars, readVars, room, handed>>
  <2>1. /\ reading = "no" /\ Needed' = Needed /\ handed = 0 /\ consumed - have = 0 /\ Total = 0
        /\ UNCHANGED <<sent, written, hungUp, reading, consumed, have, message, late, room, handed>>
    BY <1>3, <1>6 DEF Fresh, Needed, Total, peerVars, readVars
  <2>2. /\ owed' \in Nat /\ writing' \in 0..owed' /\ handed' \in 0..(owed' - writing')
        /\ WholeMessages'
    BY <1>6, <2>1, IpcAssumption, ConnectionAssumption
       DEF IpcAssumption, ConnectionAssumption, WholeMessages
  <2>3. TypeOK'
    BY <1>3, <1>6, <2>1, <2>2, SameTypes, Numbers
  <2>4. Aligned'
    BY <1>3, <2>1, SameStream DEF Aligned
  <2>5. IpcInv'
    BY <1>3, <2>1, <2>2, <2>3, <2>4, SameStream DEF IpcInv, PayloadInv, WriteInv
  <2> QED BY <1>2, <1>3, <1>4, <1>6, <2>3, <2>5 DEF ConnInv, ConnTypeOK, LadderInv
<1> QED BY <1>2, <1>5, <1>6

(* A connection that goes takes its stream with it. *)
LEMMA DropStep == ASSUME ConnInv, Drop PROVE ConnInv'
<1>1. IpcInv' /\ Fresh' /\ alive' = FALSE /\ opened' = FALSE
  BY Down DEF Drop
<1>2. LadderInv'
  BY DEF Drop, ConnInv, ConnTypeOK, LadderInv, LadderTypeOK, OneBridge, hostVars
<1> QED BY <1>1, <1>2 DEF ConnInv, ConnTypeOK, LadderInv, IpcInv

LEMMA RestartStep == ASSUME ConnInv, Restart PROVE ConnInv'
<1>1. IpcInv' /\ Fresh' /\ alive' = FALSE /\ opened' = FALSE
  BY Down DEF Restart
<1>2. LadderInv'
  BY TransportAssumption DEF TransportAssumption, Restart, GameRestarts, ConnInv, ConnTypeOK,
     LadderInv, LadderTypeOK, OneBridge, hostVars
<1> QED BY <1>1, <1>2 DEF ConnInv, ConnTypeOK, LadderInv, IpcInv

(* What happens on a connection, and around it. *)
LEMMA MessageStep == ASSUME ConnInv, Framing PROVE ConnInv'
<1>1. IpcInv'
  BY FramingStep DEF ConnInv
<1>2. rung = "found" /\ UNCHANGED <<transportVars, opened>>
  BY DEF Framing
<1> QED BY <1>1, <1>2 DEF ConnInv, ConnTypeOK, LadderTypeOK, OneBridge, IpcInv, transportVars,
        hostVars, bridgeVars

LEMMA SameConn ==
  ASSUME ConnInv, UNCHANGED <<ipcVars, opened>>, LadderInv', rung' = rung
  PROVE  ConnInv'
<1>1. IpcInv'
  BY SameIpc DEF ConnInv
<1>2. rung' # "found" => Fresh'
  BY DEF ConnInv, Fresh, ipcVars, peerVars, readVars, outVars
<1> QED BY <1>1, <1>2 DEF ConnInv, ConnTypeOK, LadderInv, IpcInv, ipcVars

LEMMA QuitsStep == ASSUME ConnInv, Quits PROVE ConnInv'
<1>1. LadderInv' /\ rung' = rung /\ opened' = opened
  BY SurroundingsStep DEF Quits, ConnInv, ConnTypeOK, LadderInv
<1>2. CASE UNCHANGED ipcVars
  BY <1>1, <1>2, SameConn
<1>3. CASE rung = "found" /\ HangUp
  <2>1. IpcInv' /\ alive' = alive
    BY <1>3, PeerStep DEF ConnInv, Peer, HangUp
  <2> QED BY <1>1, <1>3, <2>1 DEF ConnInv, ConnTypeOK, LadderInv, IpcInv
<1> QED BY <1>2, <1>3 DEF Quits

LEMMA ConnStep == ASSUME ConnInv, [Next]_connVars PROVE ConnInv'
<1>1. LadderInv
  BY DEF ConnInv, ConnTypeOK, LadderInv
<1>2. CASE Opened \/ UNCHANGED connVars
  <2>1. UNCHANGED <<ipcVars, transportVars>>
    BY <1>2 DEF Opened, connVars
  <2>2. LadderInv' /\ rung' = rung /\ IpcInv' /\ alive' = alive /\ (rung' # "found" => Fresh')
    BY <1>1, <2>1, SameIpc DEF ConnInv, LadderInv, LadderTypeOK, OneBridge, transportVars, hostVars,
       bridgeVars, ipcVars, Fresh, peerVars, readVars, outVars
  <2>3. opened' \in BOOLEAN /\ (opened' => rung = "found")
    <3>1. CASE Opened
      BY <3>1 DEF Opened
    <3>2. CASE UNCHANGED connVars
      <4>1. opened' = opened
        BY <3>2 DEF connVars
      <4> QED BY <4>1, Zenon DEF ConnInv, ConnTypeOK
    <3> QED BY <1>2, <3>1, <3>2
  <2> QED BY <2>2, <2>3 DEF ConnInv, ConnTypeOK, LadderInv, IpcInv
<1>3. CASE Elsewhere
  BY <1>1, <1>3, SurroundingsStep, SameConn DEF Elsewhere, Surroundings
<1> QED BY <1>2, <1>3, FoundStep, DropStep, MessageStep, QuitsStep, RestartStep DEF Next

-----------------------------------------------------------------------------
(* What the messages taken so far are, in the stream. *)

(* Of n messages at ever later places, k - 1 are before the k-th. *)
LEMMA Earlier ==
  ASSUME NEW n \in Nat, NEW s, NEW k \in 1..n,
         \A i \in 1..n : s[i].at \in Nat,
         \A i, j \in 1..n : i < j => s[i].at < s[j].at
  PROVE  Cardinality({i \in 1..n : s[i].at < s[k].at}) = k - 1
<1>1. \A i \in 1..n : s[i].at < s[k].at <=> i < k
  <2> TAKE i \in 1..n
  <2>1. i < k \/ i = k \/ k < i
    OBVIOUS
  <2>2. s[i].at \in Nat /\ s[k].at \in Nat
    OBVIOUS
  <2> QED BY <2>1, <2>2
<1>2. {i \in 1..n : s[i].at < s[k].at} = 1..(k - 1)
  <2>1. {i \in 1..n : s[i].at < s[k].at} = {i \in 1..n : i < k}
    BY <1>1
  <2> QED BY <2>1
<1>3. Cardinality(1..(k - 1)) = k - 1
  BY FS_Interval
<1> QED BY <1>2, <1>3

LEMMA Interval == ASSUME NEW n \in Nat PROVE Cardinality(1..n) = n
<1>1. n < 1 => n = 0
  OBVIOUS
<1> QED BY <1>1, FS_Interval

(* The places of the messages, in the order in which they were sent. *)
LEMMA Ordered ==
  ASSUME IpcInv
  PROVE  /\ \A i \in DOMAIN sent : sent[i].at \in Nat /\ sent[i].at < Total
         /\ \A i, j \in DOMAIN sent : i < j => sent[i].at < sent[j].at
<1>1. ASSUME NEW i \in DOMAIN sent
      PROVE sent[i].at \in Nat /\ EndOf(sent[i]) \in Nat /\ sent[i].at < EndOf(sent[i])
  <2>1. sent[i] \in Records /\ Header \in Nat \ {0} /\ \A l \in Lengths : l \in Nat
    BY Places DEF IpcInv
  <2>2. sent[i].at \in Nat /\ sent[i].length \in Nat
    BY <2>1 DEF Records
  <2> QED BY <2>1, <2>2 DEF EndOf
<1>2. /\ Total \in Nat
      /\ \A i \in DOMAIN sent : EndOf(sent[i]) <= Total
      /\ \A i, j \in DOMAIN sent : i < j => EndOf(sent[i]) <= sent[j].at
  BY Places DEF IpcInv, StreamInv
<1> QED BY <1>1, <1>2

Before(mark) == Cardinality({i \in DOMAIN sent : sent[i].at < mark})

LEMMA Counted ==
  ASSUME IpcInv
  PROVE  /\ \A k \in DOMAIN sent : Before(sent[k].at) = k - 1
         /\ Before(Total) = Len(sent)
<1>1. Len(sent) \in Nat /\ DOMAIN sent = 1..Len(sent)
  BY Places DEF IpcInv
<1>2. ASSUME NEW k \in DOMAIN sent PROVE Before(sent[k].at) = k - 1
  BY <1>1, Earlier, Ordered DEF Before
<1>3. {i \in DOMAIN sent : sent[i].at < Total} = 1..Len(sent)
  BY <1>1, Ordered
<1>4. Cardinality(1..Len(sent)) = Len(sent)
  BY <1>1, Interval
<1> QED BY <1>2, <1>3, <1>4 DEF Before

(* A connection that is up is at the beginning of a message, or at the end. *)
LEMMA AtMark ==
  ASSUME IpcInv, alive
  PROVE  /\ Mark \in {Total} \cup {sent[i].at : i \in DOMAIN sent}
         /\ Mark \in Nat /\ Mark <= Total
         /\ Taken \in 0..Len(sent) /\ Len(sent) \in Nat
<1>1. Mark \in {Total} \cup {sent[i].at : i \in DOMAIN sent}
  <2>1. CASE reading = "payload"
    <3>1. PICK i \in DOMAIN sent : message = sent[i]
      BY <2>1 DEF IpcInv, PayloadInv
    <3>2. consumed - have = message.at + Header /\ message.at \in Nat /\ Header \in Nat
      BY <2>1, Places DEF IpcInv, PayloadInv
    <3>3. Mark = message.at
      BY <2>1, <3>2 DEF Mark
    <3> QED BY <3>1, <3>3
  <2>2. CASE reading # "payload"
    <3>1. Mark = consumed - have
      BY <2>2, Places DEF Mark, IpcInv
    <3> QED BY <2>2, <3>1 DEF IpcInv, Aligned
  <2> QED BY <2>1, <2>2
<1>2. Taken = Before(Mark)
  BY DEF Taken, Before
<1>3. Len(sent) \in Nat /\ DOMAIN sent = 1..Len(sent) /\ Total \in Nat
  BY Places DEF IpcInv
<1>4. Taken \in 0..Len(sent)
  BY <1>1, <1>2, <1>3, Counted
<1> QED BY <1>1, <1>3, <1>4, Ordered

-----------------------------------------------------------------------------
(* The steps, as they look in the channel. *)
Taking == [Messages!Next]_(Messages!channelVars)

LEMMA Quiet ==
  ASSUME UNCHANGED <<sent, alive, delivered, pongs>>, Mark' = Mark
  PROVE  Taking
<1>1. Taken' = Taken
  BY DEF Taken
<1>2. Untaken' = Untaken
  BY <1>1 DEF Untaken
<1> QED BY <1>2 DEF Taking, Messages!channelVars

LEMMA Unmoved == ASSUME UNCHANGED ipcVars PROVE Taking
<1>1. UNCHANGED <<sent, alive, delivered, pongs>> /\ Mark' = Mark
  BY DEF ipcVars, peerVars, readVars, Mark
<1> QED BY <1>1, Quiet

LEMMA Ends == ASSUME alive' = FALSE, UNCHANGED <<delivered, pongs>> PROVE Taking
<1>1. Untaken' = <<>>
  BY DEF Untaken
<1> QED BY <1>1 DEF Taking, Messages!Next, Messages!End

(* What was not taken stays as it is when the stream grows. *)
LEMMA Grown ==
  ASSUME NEW S, NEW s \in Seq(S), NEW t \in Seq(S), Len(t) = Len(s) + 1,
         \A i \in 1..Len(s) : t[i] = s[i], NEW k \in 0..Len(s)
  PROVE  /\ Len(SubSeq(s, k + 1, Len(s))) = Len(s) - k
         /\ Len(SubSeq(t, k + 1, Len(s) + 1)) = Len(s) + 1 - k
         /\ SubSeq(SubSeq(t, k + 1, Len(s) + 1), 1, Len(SubSeq(s, k + 1, Len(s))))
              = SubSeq(s, k + 1, Len(s))
<1>1. Len(s) \in Nat /\ k \in Nat /\ k <= Len(s)
  OBVIOUS
<1>2. PICK old : old = SubSeq(s, k + 1, Len(s))
  OBVIOUS
<1>3. PICK new : new = SubSeq(t, k + 1, Len(s) + 1)
  OBVIOUS
<1>4. old \in Seq(S) /\ Len(old) = Len(s) - k /\ \A i \in 1..(Len(s) - k) : old[i] = s[k + i]
  BY <1>2
<1>5. /\ new \in Seq(S) /\ Len(new) = Len(s) + 1 - k
      /\ \A i \in 1..(Len(s) + 1 - k) : new[i] = t[k + i]
  BY <1>3
<1>6. PICK cut : cut = SubSeq(new, 1, Len(old))
  OBVIOUS
<1>7. cut \in Seq(S) /\ Len(cut) = Len(old) /\ \A i \in 1..Len(old) : cut[i] = new[i]
  BY <1>1, <1>4, <1>5, <1>6
<1>8. \A i \in 1..Len(old) : cut[i] = old[i]
  <2> TAKE i \in 1..Len(old)
  <2>1. i \in 1..(Len(s) - k) /\ i \in 1..(Len(s) + 1 - k) /\ k + i \in 1..Len(s)
    BY <1>1, <1>4
  <2> QED BY <1>4, <1>5, <1>7, <2>1
<1>9. cut = old
  BY <1>4, <1>7, <1>8
<1> QED BY <1>2, <1>3, <1>4, <1>5, <1>6, <1>9

(* A message sent is the last of those not taken. *)
LEMMA SendTaking == ASSUME IpcInv, PeerSend, alive PROVE Taking
<1>1. PICK m \in Records : sent' = Append(sent, m) /\ m.at = Total
  <2>1. PICK op \in Ops, length \in Lengths :
          sent' = Append(sent, [op |-> op, length |-> length, at |-> Total])
    BY DEF PeerSend
  <2>2. Total \in Nat
    BY Places DEF IpcInv
  <2> QED BY <2>1, <2>2 DEF Records
<1>2. UNCHANGED <<alive, delivered, pongs>> /\ Mark' = Mark
  BY DEF PeerSend, Mark, readVars
<1>3. /\ sent \in Seq(Records) /\ sent' \in Seq(Records) /\ Len(sent) \in Nat
      /\ Len(sent') = Len(sent) + 1
      /\ \A i \in 1..Len(sent) : sent'[i] = sent[i]
      /\ sent'[Len(sent) + 1] = m
  BY <1>1 DEF IpcInv, TypeOK, Records
<1>4. DOMAIN sent' = 1..(Len(sent) + 1) /\ DOMAIN sent = 1..Len(sent)
  BY <1>3
<1>5. Mark \in Nat /\ Total \in Nat /\ Mark <= Total /\ Taken \in 0..Len(sent)
  BY AtMark, Places DEF IpcInv
<1>6. Taken' = Taken
  <2>1. {i \in DOMAIN sent' : sent'[i].at < Mark} = {i \in DOMAIN sent : sent[i].at < Mark}
    <3>1. ASSUME NEW i \in DOMAIN sent' PROVE i \in DOMAIN sent \/ ~(sent'[i].at < Mark)
      <4>1. CASE i = Len(sent) + 1
        BY <1>1, <1>3, <1>5, <4>1
      <4> QED BY <1>3, <1>4, <4>1
    <3>2. DOMAIN sent \subseteq DOMAIN sent' /\ \A i \in DOMAIN sent : sent'[i] = sent[i]
      BY <1>3, <1>4
    <3> QED BY <3>1, <3>2
  <2> QED BY <1>2, <2>1 DEF Taken
<1>7. /\ Untaken = SubSeq(sent, Taken + 1, Len(sent))
      /\ Untaken' = SubSeq(sent', Taken + 1, Len(sent) + 1)
  BY <1>2, <1>3, <1>6 DEF Untaken
<1>8. /\ Len(Untaken) = Len(sent) - Taken
      /\ Len(Untaken') = Len(sent) + 1 - Taken
      /\ SubSeq(Untaken', 1, Len(Untaken)) = Untaken
  BY <1>3, <1>5, <1>7, Grown
<1>9. Messages!Send
  BY <1>2, <1>5, <1>3, <1>8 DEF Messages!Send
<1> QED BY <1>9 DEF Taking, Messages!Next

(* A message read to its end is the first of those not taken. *)
LEMMA FirstTaken ==
  ASSUME IpcInv, alive, alive', reading = "payload", have = message.length,
         UNCHANGED sent, Mark' = consumed
  PROVE  Untaken # <<>> /\ Head(Untaken) = message /\ Untaken' = Tail(Untaken)
<1>1. PICK i \in DOMAIN sent : message = sent[i] /\ consumed - have = message.at + Header
  BY DEF IpcInv, PayloadInv
<1>2. consumed = EndOf(sent[i]) /\ Mark = sent[i].at
  <2>1. /\ consumed \in Nat /\ have \in Nat /\ Header \in Nat
        /\ message.at \in Nat /\ message.length \in Nat
    BY Places DEF IpcInv
  <2>2. consumed = message.at + Header + message.length /\ Mark = message.at
    BY <1>1, <2>1 DEF Mark
  <2> QED BY <1>1, <2>2 DEF EndOf
<1>3. sent \in Seq(Records) /\ Len(sent) \in Nat /\ DOMAIN sent = 1..Len(sent)
  BY Places DEF IpcInv, TypeOK, Records
<1>4. Taken = i - 1
  <2>1. Taken = Before(sent[i].at)
    BY <1>2 DEF Taken, Before
  <2> QED BY <2>1, Counted
<1>5. Taken' = i
  <2>1. Taken' = Before(consumed)
    BY DEF Taken, Before
  <2>2. consumed = IF i = Len(sent) THEN Total ELSE sent[i + 1].at
    BY <1>2 DEF IpcInv, StreamInv
  <2>3. CASE i = Len(sent)
    BY <2>1, <2>2, <2>3, Counted
  <2>4. CASE i # Len(sent)
    <3>1. i + 1 \in DOMAIN sent
      BY <1>3, <2>4
    <3>2. Before(sent[i + 1].at) = (i + 1) - 1
      BY <3>1, Counted
    <3> QED BY <1>3, <2>1, <2>2, <2>4, <3>2
  <2> QED BY <2>3, <2>4
<1>6. i \in 1..Len(sent) /\ Taken + 1 = i /\ Taken' + 1 = i + 1 /\ Len(sent') = Len(sent)
  BY <1>3, <1>4, <1>5
<1>7. Untaken = SubSeq(sent, i, Len(sent)) /\ Untaken' = SubSeq(sent, i + 1, Len(sent))
  BY <1>6 DEF Untaken
<1>8. /\ Head(SubSeq(sent, i, Len(sent))) = sent[i]
      /\ Tail(SubSeq(sent, i, Len(sent))) = SubSeq(sent, i + 1, Len(sent))
  BY <1>3, <1>6, HeadTailOfSubSeq
<1>9. SubSeq(sent, i, Len(sent)) # <<>>
  <2>1. Len(SubSeq(sent, i, Len(sent))) = Len(sent) - i + 1
    BY <1>3, <1>6
  <2> QED BY <1>3, <1>6, <2>1
<1> QED BY <1>1, <1>7, <1>8, <1>9

(* A complete message is returned, answered, skipped or obeyed. *)
LEMMA PayloadTaking == ASSUME IpcInv, PayloadDone, alive PROVE Taking
<1>1. reading = "payload" /\ have = message.length /\ UNCHANGED <<sent, consumed>>
  BY DEF PayloadDone, peerVars
<1>2. ASSUME alive', reading' # "payload", have' = 0
      PROVE /\ alive /\ Untaken # <<>> /\ Head(Untaken) = message
            /\ Untaken' = Tail(Untaken) /\ alive' = alive
  <2>1. consumed \in Nat /\ consumed' = consumed
    BY <1>1, Places DEF IpcInv
  <2>2. Mark' = consumed
    BY <1>2, <2>1 DEF Mark
  <2>3. alive \in BOOLEAN
    BY Numbers
  <2>4. alive' \in BOOLEAN
    BY <2>3 DEF PayloadDone, Return, NextHeader
  <2> QED BY <1>1, <1>2, <2>2, <2>3, <2>4, FirstTaken
<1>3. CASE /\ message.op \in {"Frame", "Handshake"} /\ Return("Ok")
           /\ delivered' = Append(delivered, message.at) /\ UNCHANGED pongs
  <2>1. alive' /\ reading' # "payload" /\ have' = 0
    BY <1>3 DEF Return
  <2>2. Messages!Take
    BY <1>2, <1>3, <2>1 DEF Messages!Take
  <2> QED BY <2>2 DEF Taking, Messages!Next
<1>4. CASE Return("Closed") /\ UNCHANGED <<delivered, pongs>>
  BY <1>4, Ends DEF Return
<1>5. CASE /\ message.op = "Ping" /\ UNCHANGED <<alive, delivered>>
           /\ pongs' = Append(pongs, message.at) /\ reading' = "pong" /\ have' = 0
  <2>1. Messages!Take
    BY <1>2, <1>5 DEF Messages!Take
  <2> QED BY <2>1 DEF Taking, Messages!Next
<1>6. CASE message.op = "Pong" /\ NextHeader /\ UNCHANGED <<delivered, pongs>>
  <2>1. alive' /\ reading' # "payload" /\ have' = 0
    BY <1>6 DEF NextHeader
  <2>2. Messages!Take
    BY <1>2, <1>6, <2>1 DEF Messages!Take
  <2> QED BY <2>2 DEF Taking, Messages!Next
<1> QED BY <1>3, <1>4, <1>5, <1>6 DEF PayloadDone

(* Bytes, headers, deadlines and pongs take nothing; they may end it. *)
LEMMA ReaderTaking == ASSUME IpcInv, Reader, alive PROVE Taking
<1> USE DEF peerVars
<1>0. consumed \in Nat /\ have \in Nat /\ Header \in Nat /\ alive \in BOOLEAN
      /\ (reading \in {"no", "pong"} => have = 0)
  BY Places, Numbers DEF IpcInv, Needed
<1>1. CASE RecvSome
  <2>1. consumed' - have' = consumed - have /\ reading' = reading
    BY <1>0, <1>1, Places DEF RecvSome, IpcInv
  <2>2. Mark' = Mark
    BY <2>1 DEF Mark
  <2> QED BY <1>1, <2>2, Quiet DEF RecvSome
<1>2. CASE RecvClosed
  BY <1>2, Ends DEF RecvClosed, Return
<1>3. CASE Deadline
  <2>1. UNCHANGED <<sent, consumed, delivered, pongs>>
    BY <1>3 DEF Deadline
  <2>2. CASE Return("Closed")
    BY <2>1, <2>2, Ends DEF Return
  <2>3. CASE Return("Timeout") /\ reading = "header" /\ have = 0
    <3>1. Mark' = Mark /\ alive' = alive
      BY <1>0, <2>1, <2>3 DEF Return, Mark
    <3> QED BY <2>1, <3>1, Quiet
  <2> QED BY <1>3, <2>2, <2>3 DEF Deadline
<1>4. CASE HeaderDone
  <2>1. UNCHANGED <<sent, consumed, delivered, pongs>> /\ reading = "header" /\ have = Header
    BY <1>4 DEF HeaderDone
  <2>2. CASE Return("Closed")
    BY <2>1, <2>2, Ends DEF Return
  <2>3. CASE reading' = "payload" /\ have' = 0 /\ UNCHANGED alive
    <3>1. Mark' = Mark
      BY <1>0, <2>1, <2>3 DEF Mark
    <3> QED BY <2>1, <2>3, <3>1, Quiet
  <2> QED BY <1>4, <2>2, <2>3 DEF HeaderDone
<1>5. CASE PayloadDone
  BY <1>5, PayloadTaking
<1>6. CASE PongDone
  <2>1. UNCHANGED <<sent, alive, delivered, pongs>> /\ Mark' = Mark
    BY <1>0, <1>6 DEF PongDone, NextHeader, Mark
  <2> QED BY <2>1, Quiet
<1> QED BY <1>1, <1>2, <1>3, <1>4, <1>5, <1>6 DEF Reader

LEMMA FramingTaking == ASSUME IpcInv, Framing PROVE Taking
<1> USE DEF peerVars, readVars
<1>1. CASE alive /\ Peer
  <2>1. CASE PeerWrite \/ HangUp \/ PeerDrain
    <3>1. UNCHANGED <<sent, alive, delivered, pongs>> /\ Mark' = Mark
      BY <2>1 DEF PeerWrite, HangUp, PeerDrain, Mark
    <3> QED BY <3>1, Quiet
  <2> QED BY <1>1, <2>1, SendTaking DEF Peer
<1>2. CASE alive /\ Reader
  BY <1>2, ReaderTaking
<1>3. CASE alive /\ Writer
  <2>1. UNCHANGED <<sent, delivered, pongs>> /\ Mark' = Mark
    BY <1>3 DEF Writer, SendSome, SendBreaks, Mark
  <2>2. alive \in BOOLEAN
    BY Numbers
  <2>3. alive' = alive \/ alive' = FALSE
    BY <1>3, <2>2 DEF Writer, SendSome, SendBreaks
  <2> QED BY <2>1, <2>3, Quiet, Ends
<1>4. CASE Expire
  <2>1. UNCHANGED <<sent, alive, delivered, pongs>> /\ Mark' = Mark
    BY <1>4 DEF Expire, Mark
  <2> QED BY <2>1, Quiet
<1>5. CASE Caller
  <2>1. CASE ReadJson
    <3>1. /\ reading = "no" /\ reading' = "header" /\ have' = 0
          /\ UNCHANGED <<sent, alive, consumed, delivered, pongs>>
      BY <2>1 DEF ReadJson, Idle
    <3>2. have = 0
      BY <3>1, Numbers DEF Needed
    <3>3. Mark' = Mark
      BY <3>1, <3>2 DEF Mark
    <3> QED BY <3>1, <3>3, Quiet
  <2>2. CASE SendJson
    <3>1. UNCHANGED <<sent, alive, delivered, pongs>> /\ Mark' = Mark
      BY <2>2 DEF SendJson, Mark
    <3> QED BY <3>1, Quiet
  <2> QED BY <1>5, <2>1, <2>2 DEF Caller
<1> QED BY <1>1, <1>2, <1>3, <1>4, <1>5 DEF Framing

(* A connection that is found is a channel with nothing sent on it yet. *)
LEMMA OpeningTaking == ASSUME ConnInv, Opening PROVE Taking
<1>1. LadderInv
  BY DEF ConnInv, ConnTypeOK, LadderInv
<1>2. /\ StartOpen \/ Climb
      /\ \/ /\ rung' = "found" /\ alive' = TRUE
            /\ UNCHANGED <<peerVars, readVars>>
         \/ rung' # "found" /\ UNCHANGED ipcVars
  BY DEF Opening, Found
<1>3. rung # "found"
  BY <1>1, <1>2, ClimbStep
<1>4. Fresh /\ ~alive
  BY <1>3 DEF ConnInv, ConnTypeOK
<1>5. CASE UNCHANGED ipcVars
  BY <1>5, Unmoved
<1>6. CASE rung' = "found" /\ alive' = TRUE /\ UNCHANGED <<peerVars, readVars>>
  <2>1. sent' = <<>> /\ delivered' = <<>> /\ pongs' = <<>>
    BY <1>4, <1>6 DEF Fresh, peerVars, readVars
  <2>2. Untaken' = <<>>
    <3>1. DOMAIN sent' = {} /\ Len(sent') = 0
      BY <2>1
    <3>2. Taken' = Cardinality({})
      BY <3>1 DEF Taken
    <3>3. Taken' = 0
      BY <3>2, FS_EmptySet
    <3>4. Untaken' = SubSeq(<<>>, 1, 0)
      BY <1>6, <2>1, <3>1, <3>3 DEF Untaken
    <3> QED BY <3>4
  <2>3. Messages!Open
    BY <1>4, <1>6, <2>1, <2>2 DEF Messages!Open
  <2> QED BY <2>3 DEF Taking, Messages!Next
<1> QED BY <1>2, <1>5, <1>6

LEMMA ConnTaking == ASSUME ConnInv, [Next]_connVars PROVE Taking
<1>1. CASE UNCHANGED ipcVars
  BY <1>1, Unmoved
<1>2. CASE HangUp
  <2>1. UNCHANGED <<sent, alive, delivered, pongs>> /\ Mark' = Mark
    BY <1>2 DEF HangUp, Mark, readVars
  <2> QED BY <2>1, Quiet
<1>3. CASE TakeDown
  <2>1. Messages!Forget
    BY <1>3 DEF TakeDown, Untaken, Messages!Forget
  <2> QED BY <2>1 DEF Taking, Messages!Next
<1>4. CASE Framing
  BY <1>4, FramingTaking DEF ConnInv
<1>5. Opening \/ Framing \/ UNCHANGED ipcVars \/ HangUp \/ TakeDown
  BY DEF Next, Opened, Drop, Quits, Elsewhere, Restart, connVars
<1> QED BY <1>1, <1>2, <1>3, <1>4, <1>5, OpeningTaking

(* The inductive invariant of one connection after another. *)
THEOREM ConnectionInvariant == Spec => []ConnInv
<1>1. Init => ConnInv
  <2> SUFFICES ASSUME Init PROVE ConnInv
    OBVIOUS
  <2>1. IpcInv /\ TypeOK /\ Fresh
    BY FreshIpc DEF Init, IpcInv
  <2>2. LadderTypeOK /\ OneBridge /\ rung = "idle"
    <3>1. /\ world \in Worlds /\ discord \in BOOLEAN /\ bridge = "none" /\ stray = FALSE
          /\ rung = "idle" /\ polls = 0
      BY DEF Init, TransportInit
    <3>2. polls \in 0..Polls /\ ~(polls > 0)
      BY <3>1, TransportAssumption DEF TransportAssumption
    <3> QED BY <3>1, <3>2 DEF LadderTypeOK, OneBridge
  <2> QED BY <2>1, <2>2 DEF Init, ConnInv, ConnTypeOK
<1> QED BY <1>1, ConnStep, PTL DEF Spec

(* Headers are read at the first byte of a message, for headers, payloads and
   chunks of any size and wherever a deadline falls. *)
THEOREM FramingKept == Spec => []Aligned
<1>1. ConnInv => Aligned
  BY DEF ConnInv, IpcInv
<1> QED BY <1>1, ConnectionInvariant, PTL

(* readJson takes the messages Discord sent one after another, each of them
   once, returns the frames and answers the pings, for any cuts of the stream,
   deadlines and failures: bytes, headers and deadlines implement Channel. *)
THEOREM ChannelRefinement == Spec => ChannelSpec
<1>1. Init => Messages!Init
  BY DEF Init, Fresh, Untaken, Messages!Init
<1>2. ConnInv /\ [Next]_connVars => [Messages!Next]_(Messages!channelVars)
  BY ConnTaking DEF Taking
<1> QED BY <1>1, <1>2, ConnectionInvariant, PTL DEF Spec, ChannelSpec, Messages!Spec

(* What is written is whole messages, however little the system takes. *)
THEOREM WritesWhole == Spec => []WholeMessages
<1>1. ConnInv => WholeMessages
  BY DEF ConnInv, IpcInv
<1> QED BY <1>1, ConnectionInvariant, PTL

(* No launch forgets a bridge that is alive. *)
THEOREM BridgeKept == Spec => []OneBridge
<1>1. ConnInv => OneBridge
  BY DEF ConnInv
<1> QED BY <1>1, ConnectionInvariant, PTL
=============================================================================
