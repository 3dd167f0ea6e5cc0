---------------------------- MODULE MCConfigStore ----------------------------
(* An online level with one StartPos object, at 60 percent in 2.1 terms and at
   40 in native ones, a local level without, and the files an editor may leave
   behind. *)
EXTENDS ConfigStore, TLC
MCLevels == {"online", "local"}
MCKeyOf  == [l \in MCLevels |-> IF l = "online" THEN "o:1" ELSE "l:a"]
MCRows   == [l \in MCLevels |-> IF l = "online" THEN 1 ELSE 0]
MCSpawn  == [l \in MCLevels |-> [b \in BOOLEAN |-> [i \in 0..MCRows[l] |->
              IF i = 0 THEN 0 ELSE IF b THEN 60 ELSE 40]]]
MCTexts  == {{}, {0}, {50}, {101}}
Raw(on, p21, sp) == [enabled |-> on, p21 |-> p21, sp |-> sp]
Full   == "o:1" :> Raw({TRUE}, {}, 0 :> {50} @@ 1 :> {200} @@ 7 :> {60})
          @@ "l:a" :> Raw({FALSE}, {TRUE}, 0 :> {100})
Broken == "o:1" :> Raw({}, {}, 0 :> {} @@ -1 :> {50}) @@ "" :> Raw({TRUE}, {}, 0 :> {50})
          @@ "l:b" :> Raw({TRUE}, {TRUE}, 0 :> {5})
File(readable, entries) == [readable |-> readable, entries |-> entries]
MCHandFiles == {File(TRUE, <<>>), File(TRUE, Full), File(TRUE, Broken), File(FALSE, Full)}
=============================================================================
