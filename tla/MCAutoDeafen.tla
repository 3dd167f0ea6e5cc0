----------------------------- MODULE MCAutoDeafen -----------------------------
(* A level of three positions with one StartPos object. *)
EXTENDS AutoClaims, KeySender, TLC
MCPercentAt == [b \in BOOLEAN |-> [p \in 0..2 |-> PercentForPos(p, 2, b)]]
MCStartPos  == <<1>>
MCConfigs   == {{}, {[enabled |-> TRUE, use21 |-> FALSE, sp |-> (0 :> 50 @@ 1 :> 100)]}}
MCSettings  == {[enabled |-> TRUE, practice |-> FALSE, onPause |-> o] : o \in BOOLEAN}
=============================================================================
