---------------------------- MODULE AttemptProofs ----------------------------
(***************************************************************************)
(* Proofs about the PlayLayer hooks (Attempt), for every level, config,    *)
(* setting and number of edits.                                            *)
(***************************************************************************)
EXTENDS Attempt, TLAPS

(* What resolve() arms lies within 1..100 and above the spawn percent. *)
LEMMA ThresholdBounds ==
  ASSUME NEW cfg, NEW i, NEW spawn \in Int, NEW t \in ResolveThreshold(cfg, i, spawn)
  PROVE  t \in 1..100 /\ t > spawn
  BY DEF ResolveThreshold

(* Every spawn point is a position of the level. *)
LEMMA SpawnPositions == \A i \in Indices : PositionOf(i) \in 0..Last /\ Last \in Nat
  BY AttemptAssumption DEF Indices, PositionOf

(* The level has a first position, and the bound is a number. *)
LEMMA FirstPosition == Last \in Nat /\ 0 \in 0..Last /\ MaxEdits \in Nat
  BY AttemptAssumption

(* The percent of a position is a number. *)
LEMMA Percents == \A b \in BOOLEAN, p \in 0..Last : PercentAt[b][p] \in 0..100
  BY AttemptAssumption

(* The hooks start in AttemptInv. *)
LEMMA AttemptInit == ASSUME Init PROVE AttemptInv
<1> USE DEF Init
<1>1. TypeOK
  <2>1. /\ phase \in {"menu", "playing", "paused"} /\ frame \in BOOLEAN
        /\ pos \in 0..Last /\ startPos \in Indices
        /\ dead \in BOOLEAN /\ complete \in BOOLEAN /\ practice \in BOOLEAN
    BY FirstPosition DEF Indices
  <2>2. config \in Configs /\ settings \in Settings /\ edits \in 0..MaxEdits
    BY FirstPosition
  <2>3. /\ threshold \subseteq 1..100 /\ pendingResolve \in BOOLEAN
        /\ deafened \in BOOLEAN /\ use21 \in BOOLEAN /\ sessionUsed \in BOOLEAN
        /\ call \in {"none", "deafen", "undeafen"} /\ want \in {"none", "deafen", "undeafen"}
        /\ fires \in Nat /\ asked \in BOOLEAN
    OBVIOUS
  <2> QED BY <2>1, <2>2, <2>3 DEF TypeOK
<1>2. FlagInv /\ FireInv
  BY DEF FlagInv, FireInv, Remembered, OptIn, AtMostOnce
<1>3. SpawnInv
  BY DEF SpawnInv, PositionOf
<1> QED BY <1>1, <1>2, <1>3 DEF AttemptInv

(* What postUpdate compares with: a threshold it may have just resolved. *)
LEMMA Armed ==
  ASSUME AttemptInv, PostUpdate
  PROVE  /\ use21' \in BOOLEAN
         /\ \A t \in (IF pendingResolve THEN Resolved ELSE threshold) :
              t \in 1..100 /\ t > PercentAt[use21'][PositionOf(startPos)]
         /\ threshold' \subseteq (IF pendingResolve THEN Resolved ELSE threshold)
<1> USE DEF AttemptInv, TypeOK
<1>1. use21' \in BOOLEAN
  BY DEF PostUpdate, Basis
<1>2. CASE pendingResolve
  <2>1. use21' = Basis
    BY <1>2 DEF PostUpdate
  <2>2. PercentAt[Basis][PositionOf(startPos)] \in Int
    BY <1>1, <2>1, SpawnPositions, Percents
  <2>3. \A t \in Resolved : t \in 1..100 /\ t > PercentAt[Basis][PositionOf(startPos)]
    BY <2>2, ThresholdBounds DEF Resolved
  <2> QED BY <1>1, <1>2, <2>1, <2>3 DEF PostUpdate
<1>3. CASE ~pendingResolve
  BY <1>1, <1>3 DEF PostUpdate, SpawnInv
<1> QED BY <1>2, <1>3

(* postUpdate either fires or leaves flags and requests alone. *)
LEMMA FiresOrNot ==
  ASSUME PostUpdate
  PROVE  \/ /\ deafened' = TRUE /\ sessionUsed' = TRUE /\ fires' = fires + 1
            /\ threshold' = {} /\ Request("deafen")
            /\ pendingResolve \/ threshold # {}
         \/ /\ UNCHANGED <<deafened, sessionUsed, fires>> /\ Silent
            /\ threshold' = IF pendingResolve THEN Resolved ELSE threshold
<1> DEFINE armed == IF pendingResolve THEN Resolved ELSE threshold
<1>1. CASE \E t \in armed : PercentAt[use21'][pos] >= t
  BY <1>1 DEF PostUpdate
<1>2. CASE ~\E t \in armed : PercentAt[use21'][pos] >= t
  BY <1>2 DEF PostUpdate
<1> QED BY <1>1, <1>2

(* Whatever a step requests, the record of it keeps its type. *)
LEMMA RequestTypes ==
  ASSUME TypeOK, Silent \/ Request("deafen") \/ Request("undeafen")
  PROVE  /\ call' \in {"none", "deafen", "undeafen"} /\ want' \in {"none", "deafen", "undeafen"}
         /\ asked' \in BOOLEAN
<1>0. want \in {"none", "deafen", "undeafen"} /\ asked \in BOOLEAN
  BY DEF TypeOK
<1>1. CASE Silent
  BY <1>0, <1>1 DEF Silent
<1>2. CASE Request("deafen")
  BY <1>2 DEF Request
<1>3. CASE Request("undeafen")
  BY <1>0, <1>3 DEF Request
<1> QED BY <1>1, <1>2, <1>3

(* Type correctness, one step per hook. *)
LEMMA AttemptType == ASSUME AttemptInv, Next PROVE TypeOK'
<1> USE SpawnPositions
    DEF AttemptInv, TypeOK, gameVars, inputVars, hookVars, Request, Silent, UndeafenIfNeeded
<1>1. CASE Update
  BY <1>1 DEF Update
<1>2. CASE \E a, k \in BOOLEAN : DestroyPlayer(a, k)
  <2>1. PICK a \in BOOLEAN, k \in BOOLEAN : DestroyPlayer(a, k)
    BY <1>2
  <2>2. dead' \in BOOLEAN
    BY <2>1, Zenon DEF DestroyPlayer
  <2> QED BY <2>1, <2>2 DEF DestroyPlayer
<1>3. CASE LevelComplete
  BY <1>3 DEF LevelComplete
<1>4. CASE PostUpdate
  <2>1. threshold' \subseteq 1..100 /\ use21' \in BOOLEAN
    BY <1>4, Armed
  <2>2. deafened' \in BOOLEAN /\ sessionUsed' \in BOOLEAN /\ fires' \in Nat
    <3>1. CASE deafened' = TRUE /\ sessionUsed' = TRUE /\ fires' = fires + 1
      BY <3>1
    <3>2. CASE UNCHANGED <<deafened, sessionUsed, fires>>
      BY <3>2
    <3> QED BY ONLY <1>4, <3>1, <3>2, FiresOrNot
  <2>3. Silent \/ Request("deafen")
    BY ONLY <1>4, FiresOrNot
  <2>4. /\ call' \in {"none", "deafen", "undeafen"} /\ want' \in {"none", "deafen", "undeafen"}
        /\ asked' \in BOOLEAN
    BY <2>3, RequestTypes
  <2> QED BY <1>4, <2>1, <2>2, <2>4 DEF PostUpdate
<1>5. CASE SetupHasCompleted
  BY <1>5 DEF SetupHasCompleted
<1>6. CASE PauseGame \/ Resume
  <2>1. Silent \/ Request("deafen") \/ Request("undeafen")
    BY <1>6 DEF PauseGame, Resume
  <2>2. /\ call' \in {"none", "deafen", "undeafen"} /\ want' \in {"none", "deafen", "undeafen"}
        /\ asked' \in BOOLEAN
    BY <2>1, RequestTypes
  <2>3. phase' \in {"menu", "playing", "paused"}
    BY <1>6 DEF PauseGame, Resume
  <2>4. UNCHANGED <<frame, pos, startPos, dead, complete, practice, inputVars, hookVars, fires>>
    BY <1>6 DEF PauseGame, Resume
  <2> QED BY <2>2, <2>3, <2>4
<1>7. CASE ResetLevel
  <2>1. pos' \in 0..Last
    BY <1>7 DEF ResetLevel
  <2> QED BY <1>7, <2>1 DEF ResetLevel
<1>8. CASE SwitchStartPos
  BY <1>8 DEF SwitchStartPos
<1>9. CASE OnQuit
  BY <1>9 DEF OnQuit
<1>10. CASE Configure
  BY <1>10, FirstPosition DEF Configure
<1> QED BY <1>1, <1>2, <1>3, <1>4, <1>5, <1>6, <1>7, <1>8, <1>9, <1>10 DEF Next, Frame

(* The flags follow the requests. *)
LEMMA AttemptFlags == ASSUME FlagInv, TypeOK, Next PROVE FlagInv'
<1> USE DEF FlagInv, TypeOK, Remembered, OptIn, inputVars, hookVars, history, Request, Silent,
            UndeafenIfNeeded
<1>1. CASE Update
  BY <1>1 DEF Update
<1>2. CASE \E a, k \in BOOLEAN : DestroyPlayer(a, k)
  <2>1. PICK a \in BOOLEAN, k \in BOOLEAN : DestroyPlayer(a, k)
    BY <1>2
  <2> QED BY <2>1 DEF DestroyPlayer
<1>3. CASE LevelComplete
  BY <1>3 DEF LevelComplete
<1>4. CASE PostUpdate
  <2>1. phase' = phase /\ phase # "menu" /\ frame' = FALSE
    BY <1>4 DEF PostUpdate
  <2>2. CASE deafened' = TRUE /\ sessionUsed' = TRUE /\ Request("deafen")
    BY <2>1, <2>2
  <2>3. CASE UNCHANGED <<deafened, sessionUsed>> /\ Silent
    BY <2>1, <2>3
  <2> QED BY ONLY <1>4, <2>2, <2>3, FiresOrNot
<1>5. CASE SetupHasCompleted
  BY <1>5 DEF SetupHasCompleted
<1>6. CASE PauseGame
  BY <1>6 DEF PauseGame
<1>7. CASE Resume
  BY <1>7 DEF Resume
<1>8. CASE ResetLevel
  BY <1>8 DEF ResetLevel
<1>9. CASE SwitchStartPos \/ Configure
  BY <1>9 DEF SwitchStartPos, Configure
<1>10. CASE OnQuit
  BY <1>10 DEF OnQuit
<1> QED BY <1>1, <1>2, <1>3, <1>4, <1>5, <1>6, <1>7, <1>8, <1>9, <1>10 DEF Next, Frame

(* A threshold that fired is gone until the next reset. *)
LEMMA AttemptFires == ASSUME FireInv, fires \in Nat, Next PROVE FireInv'
<1> USE DEF FireInv, AtMostOnce, hookVars
<1>1. CASE Update \/ LevelComplete
  BY <1>1 DEF Update, LevelComplete
<1>2. CASE \E a, k \in BOOLEAN : DestroyPlayer(a, k)
  BY <1>2 DEF DestroyPlayer
<1>3. CASE PostUpdate
  <2>1. ~pendingResolve'
    BY <1>3 DEF PostUpdate
  <2>2. CASE fires' = fires + 1 /\ threshold' = {} /\ (pendingResolve \/ threshold # {})
    <3>1. fires = 0
      BY <1>3, <2>2
    <3> QED BY <2>1, <2>2, <3>1
  <2>3. CASE UNCHANGED fires /\ threshold' = IF pendingResolve THEN Resolved ELSE threshold
    BY <2>1, <2>3
  <2> QED BY <1>3, <2>2, <2>3, FiresOrNot
<1>4. CASE SetupHasCompleted \/ ResetLevel
  BY <1>4 DEF SetupHasCompleted, ResetLevel
<1>5. CASE PauseGame \/ Resume \/ SwitchStartPos \/ Configure
  BY <1>5 DEF PauseGame, Resume, SwitchStartPos, Configure
<1>6. CASE OnQuit
  BY <1>6 DEF OnQuit
<1> QED BY <1>1, <1>2, <1>3, <1>4, <1>5, <1>6 DEF Next, Frame

(* The player is never left of the spawn, nor a threshold below it. *)
LEMMA AttemptSpawn == ASSUME AttemptInv, Next PROVE SpawnInv'
<1> USE SpawnPositions DEF AttemptInv, TypeOK, SpawnInv, gameVars, inputVars, hookVars
<1>1. CASE Update
  BY <1>1 DEF Update, PositionOf
<1>2. CASE (\E a, k \in BOOLEAN : DestroyPlayer(a, k)) \/ LevelComplete
  BY <1>2 DEF DestroyPlayer, LevelComplete, PositionOf
<1>3. CASE PostUpdate
  BY <1>3, Armed DEF PostUpdate, PositionOf
<1>4. CASE SetupHasCompleted \/ ResetLevel \/ SwitchStartPos
  BY <1>4 DEF SetupHasCompleted, ResetLevel, SwitchStartPos, PositionOf
<1>5. CASE PauseGame \/ Resume \/ OnQuit \/ Configure
  BY <1>5 DEF PauseGame, Resume, OnQuit, Configure, PositionOf
<1> QED BY <1>1, <1>2, <1>3, <1>4, <1>5 DEF Next, Frame

(* The invariant holds in every reachable state. *)
THEOREM AttemptInvariant == Spec => []AttemptInv
<1>1. AttemptInv /\ [Next]_attemptVars => AttemptInv'
  <2> SUFFICES ASSUME AttemptInv, [Next]_attemptVars PROVE AttemptInv'
    OBVIOUS
  <2>1. CASE Next
    BY <2>1, AttemptType, AttemptFlags, AttemptFires, AttemptSpawn DEF AttemptInv, TypeOK
  <2>2. CASE UNCHANGED attemptVars
    BY <2>2 DEF attemptVars, gameVars, inputVars, hookVars, history, AttemptInv, TypeOK, FlagInv,
       Remembered, OptIn, FireInv, AtMostOnce, SpawnInv, PositionOf
  <2> QED BY <2>1, <2>2
<1> QED BY <1>1, AttemptInit, PTL DEF Spec

(* The flags of the hooks keep their types, an armed threshold is a percent of
   1 to 100. *)
THEOREM HookTypes == Spec => []TypeOK
<1>1. AttemptInv => TypeOK
  BY DEF AttemptInv
<1> QED BY <1>1, AttemptInvariant, PTL

(* A wanted deafen is always remembered by the flags that take it back. *)
THEOREM RemembersDeafen == Spec => []Remembered
<1>1. AttemptInv => Remembered
  BY DEF AttemptInv, FlagInv
<1> QED BY <1>1, AttemptInvariant, PTL

(* A threshold fires at most once per attempt. *)
THEOREM FiresAtMostOnce == Spec => []AtMostOnce
<1>1. AttemptInv => AtMostOnce
  BY DEF AttemptInv, FireInv
<1> QED BY <1>1, AttemptInvariant, PTL

(* Levels without a deafen never make a request. *)
THEOREM StrictlyOptIn == Spec => []OptIn
<1>1. AttemptInv => OptIn
  BY DEF AttemptInv, FlagInv
<1> QED BY <1>1, AttemptInvariant, PTL

(* A threshold fires only past the spawn point. *)
THEOREM NeverAtSpawn == Spec => FiresPastSpawn
<1>1. AttemptInv /\ [Next]_attemptVars
        => [fires' > fires => pos > PositionOf(startPos)]_attemptVars
  <2> SUFFICES ASSUME AttemptInv, Next, fires' > fires PROVE pos > PositionOf(startPos)
    BY DEF AttemptInv, TypeOK, attemptVars, history
  <2>0. fires \in Nat
    BY DEF AttemptInv, TypeOK
  <2>1. PostUpdate
    <3>1. ~(fires' = fires \/ fires' = 0)
      BY <2>0
    <3>2. CASE Frame
      BY <3>1, <3>2 DEF Frame, Update, DestroyPlayer, LevelComplete
    <3>3. ~(SetupHasCompleted \/ ResetLevel)
      BY <3>1 DEF SetupHasCompleted, ResetLevel
    <3>4. ~(PauseGame \/ Resume \/ SwitchStartPos \/ OnQuit \/ Configure)
      BY <3>1 DEF PauseGame, Resume, SwitchStartPos, OnQuit, Configure
    <3> QED BY <3>2, <3>3, <3>4 DEF Next
  <2>2. PICK t \in (IF pendingResolve THEN Resolved ELSE threshold) : PercentAt[use21'][pos] >= t
    BY <2>0, <2>1 DEF PostUpdate
  <2>3. t > PercentAt[use21'][PositionOf(startPos)] /\ t \in Int /\ use21' \in BOOLEAN
    BY <2>1, <2>2, Armed
  <2>4. pos \in 0..Last /\ PositionOf(startPos) \in 0..Last
    BY SpawnPositions DEF AttemptInv, TypeOK
  <2>5. PercentAt[use21'][pos] \in Int /\ PercentAt[use21'][PositionOf(startPos)] \in Int
    BY <2>3, <2>4, Percents
  <2>6. pos # PositionOf(startPos)
    BY <2>2, <2>3, <2>5
  <2> QED BY <2>4, <2>6, FirstPosition DEF AttemptInv, SpawnInv
<1> QED BY <1>1, AttemptInvariant, PTL DEF Spec, FiresPastSpawn
(* A deafened run stays deafened until it ends, pauses or is left. *)
THEOREM KeepsDeafened == Spec => StaysDeafened
<1> DEFINE Kept == want = "deafen" /\ want' = "undeafen" =>
                     dead' \/ complete' \/ phase' # "playing" \/ fires' = 0
<1>1. [Next]_attemptVars => [Kept]_attemptVars
  <2> SUFFICES ASSUME Next, want = "deafen", want' = "undeafen"
               PROVE  dead' \/ complete' \/ phase' # "playing" \/ fires' = 0
    OBVIOUS
  <2>0. ~Silent
    BY DEF Silent
  <2>1. CASE \E a, k \in BOOLEAN : DestroyPlayer(a, k)
    BY <2>0, <2>1 DEF DestroyPlayer
  <2>2. CASE LevelComplete
    BY <2>2 DEF LevelComplete
  <2>3. ~Update /\ ~SwitchStartPos /\ ~Configure /\ ~SetupHasCompleted
    BY <2>0 DEF Update, SwitchStartPos, Configure, SetupHasCompleted
  <2>4. ~PostUpdate
    BY <2>0, FiresOrNot DEF Request
  <2>5. CASE PauseGame \/ OnQuit
    BY <2>5 DEF PauseGame, OnQuit
  <2>6. ~Resume
    BY <2>0 DEF Resume, Request
  <2>7. CASE ResetLevel
    BY <2>7 DEF ResetLevel
  <2> QED BY <2>1, <2>2, <2>3, <2>4, <2>5, <2>6, <2>7 DEF Next, Frame
<1> QED BY <1>1, PTL DEF Spec, StaysDeafened
=============================================================================
