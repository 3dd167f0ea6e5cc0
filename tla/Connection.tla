----------------------------- MODULE Connection -----------------------------
(***************************************************************************)
(* One connection to Discord after another (rpc_conn.cpp): open climbs the *)
(* ladder of transports (Transport) and writes the HANDSHAKE, the worker   *)
(* reads and writes messages (IpcConn) until the connection is dropped,    *)
(* and the next open finds the bridge as the last one left it.             *)
(***************************************************************************)
EXTENDS IpcConn, Transport

CONSTANT HandshakeLength

ASSUME ConnectionAssumption == HandshakeLength \in Nat

VARIABLE opened  \* the HANDSHAKE was written, and open has returned the connection

connVars == <<ipcVars, transportVars, opened>>

Init == Fresh /\ alive = FALSE /\ TransportInit /\ opened = FALSE

-----------------------------------------------------------------------------
(* Where openTransport finds something, the connection begins. *)
Found(step) ==
  /\ step
  /\ IF rung' = "found"
     THEN alive' = TRUE /\ owed' = Header + HandshakeLength /\ writing' = owed'
          /\ UNCHANGED <<peerVars, readVars, room, handed>>
     ELSE UNCHANGED ipcVars
  /\ UNCHANGED opened

Opening == Found(StartOpen) \/ Found(Climb)

(* The HANDSHAKE is out: open returns the connection. *)
Opened ==
  /\ rung = "found" /\ ~opened /\ alive /\ writing = 0
  /\ opened' = TRUE
  /\ UNCHANGED <<ipcVars, transportVars>>

(* The connection is taken down: by open itself if the HANDSHAKE could not be
   written, by the worker when it is dead or no longer wanted.  A bridge may
   end with the connection it served. *)
Drop ==
  /\ rung = "found"
  /\ ~alive \/ (opened /\ reading = "no" /\ writing = 0)
  /\ TakeDown
  /\ rung' = "idle" /\ opened' = FALSE
  /\ bridge' \in {bridge} \cup (IF bridge = "serving" THEN {"exited"} ELSE {})
  /\ UNCHANGED <<hostVars, stray, polls>>

Framing ==
  /\ rung = "found"
  /\ \/ opened /\ Caller
     \/ alive /\ (Peer \/ Reader \/ Writer \/ Expire)
  /\ UNCHANGED <<transportVars, opened>>

-----------------------------------------------------------------------------
(* Discord quits, and with it the other end of every connection. *)
Quits ==
  /\ DiscordQuits
  /\ IF rung = "found" /\ ~hungUp THEN HangUp ELSE UNCHANGED ipcVars
  /\ UNCHANGED opened

Elsewhere ==
  /\ Surroundings
  /\ UNCHANGED <<ipcVars, opened>>

Restart ==
  /\ GameRestarts
  /\ TakeDown /\ opened' = FALSE

Next == Opening \/ Opened \/ Drop \/ Framing \/ Quits \/ Elsewhere \/ Restart

Spec == Init /\ [][Next]_connVars

(* The worker's thread runs, the clock ticks, and a bridge comes to serve the
   pipe or to exit.  Nobody has to call, to send or to read. *)
Work == Found(Climb) \/ Opened \/ (~alive /\ Drop) \/ (Framing /\ (Reader \/ Writer))

FairSpec ==
  /\ Spec
  /\ WF_connVars(Work)
  /\ WF_connVars(Framing /\ Expire)
  /\ WF_connVars(Elsewhere /\ BridgeRuns)

-----------------------------------------------------------------------------
(* The HANDSHAKE is written, and messages are exchanged, on a connection that
   was found. *)
ConnTypeOK ==
  /\ TypeOK /\ LadderTypeOK
  /\ opened \in BOOLEAN
  /\ (alive \/ opened => rung = "found")

(* Nothing of one connection is left for the next; a launch is waited for as
   long as its handle is there. *)
ConnInv ==
  /\ ConnTypeOK /\ IpcInv /\ OneBridge
  /\ (rung # "found" => Fresh)
  /\ (rung = "wait" => bridge # "none")

(* open and readJson return, however the peer dawdles, unless it is there and
   lets a write block. *)
Calling == reading # "no" \/ rung \notin {"idle", "found"} \/ (rung = "found" /\ ~opened)

CallReturns == Calling ~> (~Calling \/ Stuck)

(* Once Discord stays up and the game runs, a worker that goes on asking gets
   through to it, whatever an earlier bridge died of: one that has exited is
   replaced, and one that comes up too late is found by the next call. *)
ReachesDiscord ==
  /\ <>[](discord /\ Reachable)
  /\ []<><<Found(StartOpen)>>_connVars
  /\ <>[][~Restart]_connVars
  => []<>(rung = "found")
=============================================================================
