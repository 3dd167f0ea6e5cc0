------------------------------ MODULE MCAttempt ------------------------------
(* A level of five positions: 10 long in game units, 8 s long in native
   time, with two StartPos objects. *)
EXTENDS AttemptClaims, TLC
X    == <<0, 3, 5, 8, 10>>
Time == <<0, 4, 5, 6, 8>>
MCPercentAt == [b \in BOOLEAN |-> [p \in 0..4 |->
  IF b THEN PercentForPos(X[p + 1], 10, TRUE) ELSE PercentForPos(Time[p + 1], 8, FALSE)]]
MCStartPos == <<1, 3>>
Config(on, old, sp) == {[enabled |-> on, use21 |-> old, sp |-> sp]}
MCConfigs == {{}, Config(FALSE, FALSE, 0 :> 50),
              Config(TRUE, FALSE, 0 :> 50 @@ 1 :> 50 @@ 2 :> 200),
              Config(TRUE, TRUE, 0 :> 100 @@ 1 :> 50 @@ 2 :> 81)}
MCSettings == {[enabled |-> TRUE, practice |-> p, onPause |-> o] : p, o \in BOOLEAN}
              \cup {[enabled |-> FALSE, practice |-> FALSE, onPause |-> TRUE]}
=============================================================================
