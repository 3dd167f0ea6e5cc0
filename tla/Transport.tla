------------------------------ MODULE Transport ------------------------------
(***************************************************************************)
(* How the worker gets a connection (rpc_conn.cpp openTransport): the pipe *)
(* on Windows, the socket on macOS, and under Wine one rung after another: *)
(* the pipe, the host's socket through AF_UNIX, and the bundled bridge.    *)
(*                                                                         *)
(* The bridge is a program of its own.  The static handle s_bridge refers  *)
(* to the last one launched; a job object ends it with the game (that such *)
(* an object can be had is assumed).                                       *)
(***************************************************************************)
EXTENDS Naturals

CONSTANTS
  Worlds,  \* the machines the game runs on, a subset of Machines
  Polls    \* how often the pipe is tried after a launch, 16 in the code

Machines ==
  [ os   : {"windows", "mac", "wine"},
    unix : {"none", "blocked", "ok"},  \* AF_UNIX: not there, not reaching the host, working
    exe  : BOOLEAN ]                   \* can the bridge be launched?

ASSUME TransportAssumption == Worlds \subseteq Machines /\ Polls \in Nat

VARIABLES
  world,    \* the machine
  discord,  \* is Discord running on the host?
  bridge,   \* the process s_bridge refers to, "none" for a null handle
  stray,    \* history: was s_bridge overwritten while its process was alive?
  rung,     \* where openTransport is, "idle" outside and "found" once it has a connection
  polls     \* how often the pipe was tried since the launch

hostVars      == <<world, discord>>
bridgeVars    == <<bridge, stray>>
transportVars == <<hostVars, bridgeVars, rung, polls>>

Alive(process) == process \in {"starting", "serving"}

TransportInit ==
  /\ world \in Worlds /\ discord \in BOOLEAN
  /\ bridge = "none" /\ stray = FALSE
  /\ rung = "idle" /\ polls = 0

-----------------------------------------------------------------------------
(* The host and the bridge, which serves the pipe once it has reached Discord
   and ends when there is none. *)
DiscordStarts ==
  /\ ~discord /\ discord' = TRUE
  /\ UNCHANGED <<world, bridgeVars, rung, polls>>

DiscordQuits ==
  /\ discord /\ discord' = FALSE
  /\ UNCHANGED <<world, bridgeVars, rung, polls>>

BridgeRuns ==
  /\ \/ bridge = "starting" /\ discord /\ bridge' = "serving"
     \/ Alive(bridge) /\ ~discord /\ bridge' = "exited"
  /\ UNCHANGED <<hostVars, stray, rung, polls>>

(* The game ends or crashes, its bridge with it, and is started again. *)
GameRestarts ==
  /\ bridge' = "none"
  /\ rung' = "idle" /\ polls' = 0
  /\ UNCHANGED <<hostVars, stray>>

-----------------------------------------------------------------------------
PipeServed ==
  CASE world.os = "windows" -> discord
    [] world.os = "wine"    -> bridge = "serving"
    [] OTHER                -> FALSE

SocketServed == discord /\ world.unix = "ok"

StartOpen ==
  /\ rung = "idle"
  /\ rung' = IF world.os = "mac" THEN "sockets" ELSE "pipes"
  /\ UNCHANGED <<hostVars, bridgeVars, polls>>

(* tryPipes, the first rung: on Windows there is no other. *)
TryPipes ==
  /\ rung = "pipes"
  /\ rung' = IF PipeServed THEN "found"
             ELSE IF world.os = "windows" THEN "idle"
             ELSE IF world.unix = "none" THEN "launch" ELSE "sockets"
  /\ UNCHANGED <<hostVars, bridgeVars, polls>>

(* unixSocketCandidates, on macOS the only rung. *)
TrySockets ==
  /\ rung = "sockets"
  /\ rung' = IF SocketServed THEN "found"
             ELSE IF world.os = "mac" THEN "idle" ELSE "launch"
  /\ UNCHANGED <<hostVars, bridgeVars, polls>>

(* CreateProcess, and s_bridge refers to the new process. *)
CreateBridge ==
  /\ world.exe
  /\ bridge' = "starting" /\ rung' = "wait"
  /\ stray' = (stray \/ Alive(bridge))

NoBridge ==
  /\ rung' = "idle"
  /\ UNCHANGED stray

LaunchAgain ==  \* faulty: the exit code of the last bridge is not asked for
  /\ rung = "launch"
  /\ \/ CreateBridge
     \/ ~world.exe /\ bridge' = "none" /\ NoBridge
  /\ UNCHANGED <<hostVars, polls>>

LaunchOnce ==  \* faulty: a bridge that has died is not replaced
  /\ rung = "launch"
  /\ \/ bridge = "none" /\ CreateBridge
     \/ (bridge # "none" \/ ~world.exe) /\ UNCHANGED bridge /\ NoBridge
  /\ UNCHANGED <<hostVars, polls>>

(* launchBundledBridge: one that runs is left alone and not waited for; one
   that has exited is replaced, if another can be launched. *)
Launch ==
  /\ rung = "launch"
  /\ \/ Alive(bridge) /\ UNCHANGED bridge /\ NoBridge
     \/ ~Alive(bridge) /\ CreateBridge
     \/ ~Alive(bridge) /\ ~world.exe /\ bridge' = "none" /\ NoBridge
  /\ UNCHANGED <<hostVars, polls>>

(* After a launch: the pipe is tried again, a quarter of a second apart. *)
Poll ==
  /\ rung = "wait" /\ polls < Polls
  /\ \/ PipeServed /\ rung' = "found" /\ polls' = 0
     \/ ~PipeServed /\ polls' = polls + 1 /\ UNCHANGED rung
  /\ UNCHANGED <<hostVars, bridgeVars>>

WaitedLongEnough ==
  /\ rung = "wait" /\ polls = Polls
  /\ rung' = "idle" /\ polls' = 0
  /\ UNCHANGED <<hostVars, bridgeVars>>

Climb == TryPipes \/ TrySockets \/ Launch \/ Poll \/ WaitedLongEnough

Surroundings == DiscordStarts \/ BridgeRuns

-----------------------------------------------------------------------------
LadderTypeOK ==
  /\ world \in Worlds /\ discord \in BOOLEAN
  /\ bridge \in {"none", "starting", "serving", "exited"}
  /\ stray \in BOOLEAN
  /\ rung \in {"idle", "pipes", "sockets", "launch", "wait", "found"}
  /\ polls \in 0..Polls
  /\ polls > 0 => rung = "wait" /\ bridge # "none"

(* At most one bridge of ours is alive, however often connecting fails and is
   tried again and whatever becomes of the bridge: no launch loses the one
   before ("Relaunched on later connect attempts if the previous instance
   died", rpc_conn.cpp:368-369). *)
OneBridge == ~stray

(* Discord can be reached from this machine. *)
Reachable == CASE world.os = "mac"  -> world.unix = "ok"
               [] world.os = "wine" -> world.unix = "ok" \/ world.exe
               [] OTHER             -> TRUE
=============================================================================
