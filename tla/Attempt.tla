------------------------------- MODULE Attempt -------------------------------
(***************************************************************************)
(* The PlayLayer hooks of main.cpp: when an attempt asks for a deafen and  *)
(* when it asks for its end.  The game itself (who calls which hook, and   *)
(* in which order) is outside the repository and modelled as the hooks     *)
(* rely on it: a frame moves the player, may kill them, may complete the   *)
(* level and ends with postUpdate, which also runs while the player is     *)
(* dead; between frames the game pauses, resumes, resets and quits.        *)
(*                                                                         *)
(* Positions stand for the x axis of the level; PercentAt gives a          *)
(* position's percent in 2.1 (TRUE) and native (FALSE) terms.              *)
(***************************************************************************)
EXTENDS Thresholds

CONSTANTS
  Last,       \* the last position, where the level is completed
  PercentAt,  \* [BOOLEAN -> [0..Last -> 0..100]]
  StartPos,   \* positions of the StartPos objects, in the order of their indices
  Configs,    \* the configs the player may give the level, {} for none
  Settings,   \* the values the mod's settings take
  MaxEdits    \* bound: how often config, settings or practice mode change

ASSUME AttemptAssumption ==
  /\ Last \in Nat
  /\ PercentAt \in [BOOLEAN -> [0..Last -> 0..100]]
  /\ StartPos \in [DOMAIN StartPos -> 0..Last] /\ 0 \notin DOMAIN StartPos
  /\ {} \in Configs
  /\ Settings \subseteq [enabled : BOOLEAN, practice : BOOLEAN, onPause : BOOLEAN]
  /\ MaxEdits \in Nat

VARIABLES
  phase,           \* "menu", "playing" or "paused"
  frame,           \* inside a frame: the game has moved and postUpdate is due
  pos,             \* where the player is
  startPos,        \* m_startPosObject as an index, 0 for the level start
  dead,            \* m_player1->m_isDead
  complete,        \* the level is completed
  practice,        \* m_isPracticeMode
  config,          \* the store's config of this level
  settings,        \* "enabled", "trigger-in-practice" and "undeafen-on-pause"
  threshold,       \* m_threshold
  pendingResolve,  \* m_pendingResolve
  deafened,        \* m_deafenedThisAttempt
  use21,           \* m_use21
  sessionUsed,     \* s_sessionUsed
  call,            \* the deafen::request the latest step made, if any
  want,            \* history: the latest deafen::request of all
  fires,           \* history: thresholds fired in this attempt
  asked,           \* history: a deafen was requested since the level was entered
  edits            \* how often the player changed something (bounds the model)

gameVars    == <<phase, frame, pos, startPos, dead, complete, practice>>
inputVars   == <<config, settings, edits>>
hookVars    == <<threshold, pendingResolve, deafened, use21, sessionUsed>>
history     == <<want, fires, asked>>
attemptVars == <<gameVars, inputVars, hookVars, call, history>>

Indices   == {0} \cup DOMAIN StartPos
PositionOf(i) == IF i = 0 THEN 0 ELSE StartPos[i]

Init ==
  /\ phase = "menu" /\ frame = FALSE /\ pos = 0 /\ startPos = 0
  /\ dead = FALSE /\ complete = FALSE /\ practice = FALSE
  /\ config \in Configs /\ settings \in Settings /\ edits = 0
  /\ threshold = {} /\ pendingResolve = FALSE
  /\ deafened = FALSE /\ use21 = FALSE /\ sessionUsed = FALSE
  /\ call = "none" /\ want = "none" /\ fires = 0 /\ asked = FALSE

-----------------------------------------------------------------------------
(* deafen::request(target), and a step without a request. *)
Request(target) ==
  /\ call' = target /\ want' = target
  /\ asked' = IF target = "deafen" THEN TRUE ELSE asked
Silent == call' = "none" /\ UNCHANGED <<want, asked>>

(* undeafenIfNeeded; the level sessions that never deafened stay silent. *)
UndeafenIfNeeded ==
  IF sessionUsed THEN Request("undeafen") /\ deafened' = FALSE
                 ELSE Silent /\ UNCHANGED deafened

CurrentPercent == PercentAt[use21][pos]

-----------------------------------------------------------------------------
(* setupHasCompleted of a classic level; a new PlayLayer has new Fields. *)
SetupHasCompleted ==
  /\ phase = "menu"
  /\ phase' = "playing"
  /\ startPos' \in Indices
  /\ pos' = PositionOf(startPos')
  /\ dead' = FALSE /\ complete' = FALSE /\ practice' = FALSE
  /\ threshold' = {} /\ pendingResolve' = TRUE
  /\ deafened' = FALSE /\ use21' = FALSE
  /\ fires' = 0 /\ asked' = FALSE /\ call' = "none"
  /\ UNCHANGED <<frame, inputVars, sessionUsed, want>>

(* The game's part of a frame: a living player may move on. *)
Update ==
  /\ phase = "playing" /\ ~frame
  /\ frame' = TRUE
  /\ pos' \in IF dead \/ complete \/ pos = Last THEN {pos} ELSE {pos, pos + 1}
  /\ Silent
  /\ UNCHANGED <<phase, startPos, dead, complete, practice, inputVars, hookVars, fires>>

DestroyAnyPlayer(anticheat, kills) ==  \* faulty: every call ends the attempt
  /\ frame /\ ~complete
  /\ dead' = IF kills /\ ~anticheat THEN TRUE ELSE dead
  /\ UndeafenIfNeeded
  /\ UNCHANGED <<phase, frame, pos, startPos, complete, practice, inputVars,
                 threshold, pendingResolve, use21, sessionUsed, fires>>

(* destroyPlayer: a death, or one of the calls that kill nobody. *)
DestroyPlayer(anticheat, kills) ==
  /\ frame /\ ~complete
  /\ dead' = IF kills /\ ~anticheat THEN TRUE ELSE dead
  /\ IF ~anticheat /\ dead' THEN UndeafenIfNeeded ELSE Silent /\ UNCHANGED deafened
  /\ UNCHANGED <<phase, frame, pos, startPos, complete, practice, inputVars,
                 threshold, pendingResolve, use21, sessionUsed, fires>>

LevelComplete ==
  /\ frame /\ ~dead /\ ~complete /\ pos = Last
  /\ complete' = TRUE
  /\ UndeafenIfNeeded
  /\ UNCHANGED <<phase, frame, pos, startPos, dead, practice, inputVars,
                 threshold, pendingResolve, use21, sessionUsed, fires>>

(* resolveNow's early returns leave no threshold and the old basis. *)
Eligible == settings.enabled /\ (practice => settings.practice)
Basis    == IF Eligible THEN \E c \in config : c.use21 ELSE use21
Resolved ==
  IF Eligible
  THEN ResolveThreshold(config, startPos, PercentAt[Basis][PositionOf(startPos)])
  ELSE {}

PostUpdateRearmed ==  \* faulty: the threshold stays armed after it fired
  /\ frame
  /\ frame' = FALSE
  /\ pendingResolve' = FALSE
  /\ use21' = IF pendingResolve THEN Basis ELSE use21
  /\ threshold' = IF pendingResolve THEN Resolved ELSE threshold
  /\ IF \E t \in threshold' : PercentAt[use21'][pos] >= t
     THEN deafened' = TRUE /\ sessionUsed' = TRUE /\ fires' = fires + 1 /\ Request("deafen")
     ELSE UNCHANGED <<deafened, sessionUsed, fires>> /\ Silent
  /\ UNCHANGED <<phase, pos, startPos, dead, complete, practice, inputVars>>

(* postUpdate: resolve if due, then compare and fire. *)
PostUpdate ==
  /\ frame
  /\ frame' = FALSE
  /\ pendingResolve' = FALSE
  /\ use21' = IF pendingResolve THEN Basis ELSE use21
  /\ LET armed == IF pendingResolve THEN Resolved ELSE threshold
     IN  IF \E t \in armed : PercentAt[use21'][pos] >= t
         THEN /\ threshold' = {}
              /\ deafened' = TRUE /\ sessionUsed' = TRUE
              /\ fires' = fires + 1
              /\ Request("deafen")
         ELSE /\ threshold' = armed
              /\ UNCHANGED <<deafened, sessionUsed, fires>>
              /\ Silent
  /\ UNCHANGED <<phase, pos, startPos, dead, complete, practice, inputVars>>

-----------------------------------------------------------------------------
(* Between frames. *)
PauseGame ==
  /\ phase = "playing" /\ ~frame
  /\ phase' = "paused"
  /\ IF deafened /\ settings.onPause THEN Request("undeafen") ELSE Silent
  /\ UNCHANGED <<frame, pos, startPos, dead, complete, practice, inputVars, hookVars, fires>>

Resume ==
  /\ phase = "paused"
  /\ phase' = "playing"
  /\ IF deafened /\ settings.onPause THEN Request("deafen") ELSE Silent
  /\ UNCHANGED <<frame, pos, startPos, dead, complete, practice, inputVars, hookVars, fires>>

ResetLevelOnly ==  \* faulty: a restart forgets the deafen (fixed in v0.2.1)
  /\ phase # "menu" /\ ~frame
  /\ Silent
  /\ phase' = "playing"
  /\ dead' = FALSE /\ complete' = FALSE
  /\ pos' \in {PositionOf(startPos)} \cup (IF practice THEN PositionOf(startPos)..pos ELSE {})
  /\ pendingResolve' = TRUE /\ deafened' = FALSE /\ fires' = 0
  /\ UNCHANGED <<frame, startPos, practice, inputVars, threshold, use21, sessionUsed>>

(* Respawn, quick restart or the pause menu's restart, from the startpos or,
   in practice mode, from a checkpoint passed before. *)
ResetLevel ==
  /\ phase # "menu" /\ ~frame
  /\ IF deafened THEN UndeafenIfNeeded ELSE Silent
  /\ phase' = "playing"
  /\ dead' = FALSE /\ complete' = FALSE
  /\ pos' \in {PositionOf(startPos)} \cup (IF practice THEN PositionOf(startPos)..pos ELSE {})
  /\ pendingResolve' = TRUE /\ deafened' = FALSE /\ fires' = 0
  /\ UNCHANGED <<frame, startPos, practice, inputVars, threshold, use21, sessionUsed>>

(* The startpos switcher may move the spawn after resetLevel. *)
SwitchStartPos ==
  /\ phase = "playing" /\ ~frame /\ pendingResolve
  /\ startPos' \in Indices
  /\ pos' = PositionOf(startPos')
  /\ Silent
  /\ UNCHANGED <<phase, frame, dead, complete, practice, inputVars, hookVars, fires>>

OnQuitKeepingSession ==  \* faulty: s_sessionUsed survives the level
  /\ phase # "menu" /\ ~frame
  /\ UndeafenIfNeeded
  /\ phase' = "menu"
  /\ UNCHANGED <<frame, pos, startPos, dead, complete, practice, inputVars,
                 threshold, pendingResolve, use21, sessionUsed, fires>>

OnQuit ==
  /\ phase # "menu" /\ ~frame
  /\ UndeafenIfNeeded
  /\ sessionUsed' = FALSE
  /\ phase' = "menu"
  /\ UNCHANGED <<frame, pos, startPos, dead, complete, practice, inputVars,
                 threshold, pendingResolve, use21, fires>>

(* The config popup and the settings page, in the menu or while paused. *)
Configure ==
  /\ phase # "playing" /\ edits < MaxEdits
  /\ edits' = edits + 1
  /\ config' \in Configs /\ settings' \in Settings
  /\ practice' \in IF phase = "paused" THEN BOOLEAN ELSE {practice}
  /\ Silent
  /\ UNCHANGED <<phase, frame, pos, startPos, dead, complete, hookVars, fires>>

Frame == Update \/ (\E a, k \in BOOLEAN : DestroyPlayer(a, k)) \/ LevelComplete \/ PostUpdate

Next ==
  \/ Frame \/ SetupHasCompleted \/ PauseGame \/ Resume \/ ResetLevel
  \/ SwitchStartPos \/ OnQuit \/ Configure

Spec == Init /\ [][Next]_attemptVars

-----------------------------------------------------------------------------
TypeOK ==
  /\ phase \in {"menu", "playing", "paused"} /\ frame \in BOOLEAN
  /\ pos \in 0..Last /\ startPos \in Indices
  /\ dead \in BOOLEAN /\ complete \in BOOLEAN /\ practice \in BOOLEAN
  /\ config \in Configs /\ settings \in Settings /\ edits \in 0..MaxEdits
  /\ threshold \subseteq 1..100 /\ pendingResolve \in BOOLEAN
  /\ deafened \in BOOLEAN /\ use21 \in BOOLEAN /\ sessionUsed \in BOOLEAN
  /\ call \in {"none", "deafen", "undeafen"} /\ want \in {"none", "deafen", "undeafen"}
  /\ fires \in Nat /\ asked \in BOOLEAN

(* A deafen that is still wanted is remembered by both flags, so that the
   next death, completion, restart or quit takes it back (undeafenIfNeeded,
   resetLevel); out of the level nothing is left wanted. *)
Remembered == want = "deafen" => phase # "menu" /\ deafened /\ sessionUsed

(* "At most once per attempt" (main.cpp:126), whatever is edited, paused or
   switched between the frames. *)
AtMostOnce == fires <= 1

(* "Untouched levels never wake the delivery backend" (main.cpp:17-18): an
   un-deafen request follows a deafen request of the same stay in the level. *)
OptIn == call = "undeafen" => asked

(* The threshold fires on the run only: the player has moved past the startpos
   when it fires, in the percents the config uses, whatever the switcher or
   the popup changed since (core/resolve.hpp:30-31, README.md:93-94). *)
FiresPastSpawn ==
  [][fires' > fires => pos > PositionOf(startPos)]_attemptVars

(* A deafened run stays deafened until it dies, completes, pauses, restarts or
   is left: the destroyPlayer calls that kill nobody change nothing. *)
StaysDeafened ==
  [][want = "deafen" /\ want' = "undeafen" =>
       dead' \/ complete' \/ phase' # "playing" \/ fires' = 0]_attemptVars

(* The invariant behind these, in parts: no flag outlives its level session,
   and a threshold that fired is not armed again before the next reset. *)
FlagInv ==
  /\ Remembered /\ OptIn
  /\ frame => phase = "playing"
  /\ phase = "menu" => ~sessionUsed
  /\ phase # "menu" /\ deafened => sessionUsed
  /\ sessionUsed => asked
FireInv ==
  /\ AtMostOnce
  /\ fires > 0 => threshold = {} /\ ~pendingResolve
SpawnInv ==
  /\ pos >= PositionOf(startPos)
  /\ ~pendingResolve => \A t \in threshold : t > PercentAt[use21][PositionOf(startPos)]
AttemptInv == TypeOK /\ FlagInv /\ FireInv /\ SpawnInv

(* The frames go on, and whoever is dead or done respawns, restarts or leaves
   sooner or later. *)
Leave == (dead \/ complete) /\ (ResetLevel \/ OnQuit)
FairSpec ==
  /\ Spec
  /\ WF_attemptVars(PostUpdate)
  /\ SF_attemptVars(Leave)

(* After the end of an attempt the deafen it asked for is taken back. *)
AttemptEndsUndeafened == (dead \/ complete) ~> (want # "deafen")
=============================================================================
