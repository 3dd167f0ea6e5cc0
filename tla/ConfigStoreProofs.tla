-------------------------- MODULE ConfigStoreProofs --------------------------
(***************************************************************************)
(* levels.json and the store agree: for any levels, any hand-edited file   *)
(* and any number of edits, what save writes is what refresh reads.        *)
(***************************************************************************)
EXTENDS ConfigStore, TLAPS

(* The value of an optional that is there. *)
LEMMA TheValue == ASSUME NEW x PROVE (CHOOSE n \in {x} : TRUE) = x
  OBVIOUS

(* Reading back one entry. *)
LEMMA ParseDump == ASSUME NEW cfg, IsConfig(cfg) PROVE Parse(Dump(cfg)) = cfg
<1> USE DEF IsConfig
<1> DEFINE raw == Dump(cfg)
<1>1. (raw.enabled = {TRUE}) = cfg.enabled /\ (raw.p21 = {TRUE}) = cfg.use21
  BY DEF Dump
<1>2. Indexed(raw.sp) = DOMAIN cfg.sp
  BY DEF Indexed, Dump
<1>3. \A i \in DOMAIN cfg.sp : (CHOOSE n \in raw.sp[i] : TRUE) = cfg.sp[i]
  BY TheValue DEF Dump
<1>4. [i \in Indexed(raw.sp) |-> CHOOSE n \in raw.sp[i] : TRUE] = cfg.sp
  BY <1>2, <1>3
<1> QED BY <1>1, <1>4 DEF Parse

(* Reading back the file. *)
LEMMA LoadSaved == ASSUME NEW lvls, IsStore(lvls) PROVE Load(Saved(lvls)) = lvls
<1>1. Load(Saved(lvls)) = [k \in DOMAIN lvls |-> Parse(Dump(lvls[k]))]
  BY DEF Load, Saved, IsStore
<1>2. \A k \in DOMAIN lvls : Parse(Dump(lvls[k])) = lvls[k]
  BY ParseDump DEF IsStore
<1> QED BY <1>1, <1>2 DEF IsStore

(* Whatever the user wrote, what is read are configs. *)
LEMMA LoadHandFile == ASSUME NEW f \in HandFiles PROVE IsStore(Load(f))
<1>1. ASSUME NEW k \in DOMAIN f.entries PROVE IsConfig(Parse(f.entries[k]))
  <2> DEFINE raw == f.entries[k]
  <2>1. \A i \in DOMAIN raw.sp : i \in Int /\ raw.sp[i] \subseteq Int
    BY StoreAssumption DEF IsRaw
  <2>2. \A i \in Indexed(raw.sp) : i \in Nat /\ (CHOOSE n \in raw.sp[i] : TRUE) \in Int
    BY <2>1 DEF Indexed
  <2> QED BY <2>2 DEF Parse, IsConfig
<1> QED BY <1>1 DEF Load, IsStore

(* Editing the store keeps it one. *)
LEMMA UpdatedIsStore ==
  ASSUME NEW lvls, IsStore(lvls), NEW key, key # "", NEW cfg, IsConfig(cfg)
  PROVE  IsStore(Updated(lvls, key, cfg))
<1>1. IsStore(SetLevelConfig(lvls, key, cfg))
  BY DEF SetLevelConfig, IsStore
<1>2. IsStore(RemoveLevelConfig(lvls, key))
  BY DEF RemoveLevelConfig, IsStore
<1> QED BY <1>1, <1>2 DEF Updated

(* The popup edits configs. *)
LEMMA EditedIsConfig == ASSUME NEW p, IsPopup(p) PROVE IsConfig(Edited(p))
<1> DEFINE rows == {j \in DOMAIN p.inputs : ParsePercent(p.inputs[j]) # {}}
<1>1. \A i \in rows : i \in Nat /\ (CHOOSE n \in p.inputs[i] : TRUE) \in Int
  BY DEF IsPopup, ParsePercent
<1> QED BY <1>1 DEF Edited, IsConfig, IsPopup

(* The popup opens on what the store holds. *)
LEMMA OpensAPopup ==
  ASSUME NEW lvls, IsStore(lvls), NEW level \in Levels PROVE IsPopup(PopupFor(lvls, level))
<1>1. \A c \in LevelConfig(lvls, KeyOf[level]) : IsConfig(c)
  BY DEF LevelConfig, IsStore
<1> DEFINE inputs == [i \in 0..Rows[level] |->
                         {c.sp[i] : c \in {d \in LevelConfig(lvls, KeyOf[level]) :
                               i \in DOMAIN d.sp}}]
<1>2. DOMAIN inputs \subseteq Nat
  <2>1. Rows[level] \in Nat
    BY StoreAssumption
  <2> QED BY <2>1
<1>3. \A i \in DOMAIN inputs : inputs[i] \subseteq Int
  BY <1>1 DEF IsConfig
<1>6. \A i \in DOMAIN inputs : IsInput(inputs[i])
  <2> SUFFICES ASSUME NEW i \in DOMAIN inputs, NEW m \in inputs[i], NEW n \in inputs[i]
               PROVE  m = n
    BY <1>3 DEF IsInput
  <2>1. \A c, d \in LevelConfig(lvls, KeyOf[level]) : c = d
    BY DEF LevelConfig
  <2> QED BY <2>1
<1>4. /\ PopupFor(lvls, level).inputs = inputs
      /\ PopupFor(lvls, level) \in [enabled : BOOLEAN, use21 : BOOLEAN, inputs : {inputs}]
  BY DEF PopupFor
<1> HIDE DEF inputs
<1>5. inputs \in [DOMAIN inputs -> SUBSET Int]
  <2>1. inputs = [i \in DOMAIN inputs |-> inputs[i]]
    BY DEF inputs
  <2> QED BY <1>3, <2>1
<1> QED BY <1>2, <1>6, <1>4, <1>5 DEF IsPopup

(* The store and the file stay in step. *)
LEMMA StoreStep == ASSUME TypeOK, InSync, Next PROVE TypeOK' /\ InSync'
<1>0. IsStore(Fresh) /\ IsStore(NoLevels)
  BY DEF TypeOK, Fresh, NoLevels, IsStore
<1>1. ASSUME NEW level \in Levels, EnterLevel(level) PROVE TypeOK' /\ InSync'
  BY <1>1 DEF EnterLevel, TypeOK, InSync
<1>2. CASE OpenPopup
  <2>1. \A p \in popup' : IsPopup(p)
    BY <1>0, <1>2, OpensAPopup DEF OpenPopup, TypeOK
  <2>2. IsStore(levels') /\ loaded' \in BOOLEAN
    BY <1>0, <1>2 DEF OpenPopup
  <2> QED BY <1>2, <2>1, <2>2 DEF OpenPopup, TypeOK, InSync, Fresh
<1>3. CASE OnToggleEnabled \/ OnToggle21 \/ \E text \in Texts : TypePercent(text)
  <2>1. \A p \in popup' : IsPopup(p)
    <3>1. CASE OnToggleEnabled
      BY <3>1 DEF OnToggleEnabled, TypeOK, IsPopup
    <3>2. CASE OnToggle21
      BY <3>2 DEF OnToggle21, TypeOK, IsPopup
    <3>3. ASSUME NEW text \in Texts, TypePercent(text) PROVE \A p \in popup' : IsPopup(p)
      <4>1. PICK p \in popup : \E i \in DOMAIN p.inputs : popup' = {[p EXCEPT !.inputs[i] = text]}
        BY <3>3 DEF TypePercent
      <4>2. IsPopup(p) /\ IsInput(text) /\ text \in SUBSET Int
        BY StoreAssumption DEF TypeOK, IsInput
      <4> QED BY <4>1, <4>2 DEF IsPopup
    <3> QED BY <1>3, <3>1, <3>2, <3>3
  <2>2. UNCHANGED <<disk, levels, loaded, inLevel, clean>>
    BY <1>3 DEF OnToggleEnabled, OnToggle21, TypePercent
  <2> QED BY <2>1, <2>2 DEF TypeOK, InSync
<1>4. CASE OnClose
  <2>1. PICK p \in popup, level \in inLevel : levels' = Updated(Fresh, KeyOf[level], Edited(p))
    BY <1>4 DEF OnClose
  <2>2. IsConfig(Edited(p)) /\ KeyOf[level] # ""
    BY <2>1, EditedIsConfig, StoreAssumption DEF TypeOK
  <2>3. IsStore(levels')
    BY <1>0, <2>1, <2>2, UpdatedIsStore
  <2>4. PICK written \in BOOLEAN :
          /\ disk' = IF written THEN Saved(levels') ELSE disk
          /\ clean' = written
    BY <1>4 DEF OnClose
  <2>5. written => Load(disk') = levels'
    BY <2>3, <2>4, LoadSaved
  <2>6. loaded' = TRUE /\ popup' = {} /\ inLevel' = inLevel
    BY <1>4 DEF OnClose
  <2> QED BY <2>3, <2>4, <2>5, <2>6 DEF TypeOK, InSync
<1>5. CASE OnQuit
  BY <1>5 DEF OnQuit, TypeOK, InSync
<1>6. CASE HandEdit
  <2>1. IsStore(Load(disk'))
    BY <1>6, LoadHandFile DEF HandEdit
  <2> QED BY <1>6, <2>1 DEF HandEdit, TypeOK, InSync
<1>7. CASE Restart
  BY <1>0, <1>7 DEF Restart, TypeOK, InSync
<1> QED BY <1>1, <1>2, <1>3, <1>4, <1>5, <1>6, <1>7 DEF Next

(* The player is in one level at a time. *)
LEMMA LevelStep == ASSUME OneLevel, [Next]_storeVars PROVE OneLevel'
<1>1. CASE \E level \in Levels : EnterLevel(level)
  BY <1>1 DEF EnterLevel, OneLevel
<1>2. CASE UNCHANGED inLevel
  BY <1>2 DEF OneLevel
<1>3. CASE OnQuit \/ Restart
  BY <1>3 DEF OnQuit, Restart, OneLevel
<1> QED
  BY <1>1, <1>2, <1>3
  DEF Next, OpenPopup, OnToggleEnabled, OnToggle21, OnClose, HandEdit, TypePercent, storeVars

(* The popup is the one of the level. *)
LEMMA PopupStep == ASSUME TypeOK, OneLevel, OnePopup, [Next]_storeVars PROVE OnePopup'
<1> USE DEF OnePopup
<1>1. CASE \E level \in Levels : EnterLevel(level)
  BY <1>1 DEF EnterLevel
<1>2. CASE OpenPopup
  <2>1. PICK level \in inLevel : popup' = {PopupFor(Fresh, level)}
    BY <1>2 DEF OpenPopup
  <2>2. DOMAIN PopupFor(Fresh, level).inputs = 0..Rows[level]
    BY DEF PopupFor
  <2>3. inLevel' = {level}
    BY <1>2 DEF OpenPopup, OneLevel
  <2> QED BY <2>1, <2>2, <2>3
<1>3. CASE OnToggleEnabled \/ OnToggle21 \/ \E text \in Texts : TypePercent(text)
  <2>1. \E p \in popup : \E q : popup' = {q} /\ DOMAIN q.inputs = DOMAIN p.inputs
    <3>1. CASE OnToggleEnabled
      <4>1. PICK p \in popup : popup' = {[p EXCEPT !.enabled = ~@]}
        BY <3>1 DEF OnToggleEnabled
      <4>2. [p EXCEPT !.enabled = ~@].inputs = p.inputs
        BY DEF TypeOK, IsPopup
      <4> QED BY <4>1, <4>2
    <3>2. CASE OnToggle21
      <4>1. PICK p \in popup : popup' = {[p EXCEPT !.use21 = ~@]}
        BY <3>2 DEF OnToggle21
      <4>2. [p EXCEPT !.use21 = ~@].inputs = p.inputs
        BY DEF TypeOK, IsPopup
      <4> QED BY <4>1, <4>2
    <3>3. ASSUME NEW text \in Texts, TypePercent(text)
          PROVE  \E p \in popup : \E q : popup' = {q} /\ DOMAIN q.inputs = DOMAIN p.inputs
      <4>1. PICK p \in popup : \E i \in DOMAIN p.inputs : popup' = {[p EXCEPT !.inputs[i] = text]}
        BY <3>3 DEF TypePercent
      <4>2. \A i : DOMAIN [p EXCEPT !.inputs[i] = text].inputs = DOMAIN p.inputs
        BY DEF TypeOK, IsPopup
      <4> QED BY <4>1, <4>2
    <3> QED BY <1>3, <3>1, <3>2, <3>3
  <2>2. inLevel' = inLevel
    BY <1>3 DEF OnToggleEnabled, OnToggle21, TypePercent
  <2> QED BY <2>1, <2>2
<1>4. CASE OnClose \/ OnQuit \/ Restart
  BY <1>4 DEF OnClose, OnQuit, Restart
<1>5. CASE HandEdit \/ UNCHANGED storeVars
  BY <1>5 DEF HandEdit, storeVars
<1> QED BY <1>1, <1>2, <1>3, <1>4, <1>5 DEF Next

(* The inductive invariant of store, file and popup. *)
THEOREM StoreInvariant == Spec => []StoreInv
<1>1. Init => StoreInv
  <2>1. IsStore(NoLevels)
    BY DEF NoLevels, IsStore
  <2> QED BY <2>1, LoadHandFile DEF Init, StoreInv, TypeOK, InSync, OneLevel, OnePopup
<1>2. StoreInv /\ [Next]_storeVars => StoreInv'
  <2> SUFFICES ASSUME StoreInv, [Next]_storeVars PROVE StoreInv'
    OBVIOUS
  <2>1. CASE Next
    BY <2>1, StoreStep, LevelStep, PopupStep DEF StoreInv
  <2>2. CASE UNCHANGED storeVars
    BY <2>2, LevelStep, PopupStep DEF storeVars, StoreInv, TypeOK, InSync
  <2> QED BY <2>1, <2>2
<1> QED BY <1>1, <1>2, PTL DEF Spec

(* The store holds configs, whatever the file held. *)
THEOREM StoreTypes == Spec => []TypeOK
<1>1. StoreInv => TypeOK
  BY DEF StoreInv
<1> QED BY <1>1, StoreInvariant, PTL

(* What is in memory is what entering the level again would read. *)
THEOREM StoreInSync == Spec => []InSync
<1>1. StoreInv => InSync
  BY DEF StoreInv
<1> QED BY <1>1, StoreInvariant, PTL

(* An edit of the store is an edit of one key. *)
LEMMA OthersStay ==
  ASSUME NEW lvls, NEW key, NEW cfg, NEW k, k # key
  PROVE  LevelConfig(Updated(lvls, key, cfg), k) = LevelConfig(lvls, k)
  BY DEF Updated, SetLevelConfig, RemoveLevelConfig, LevelConfig

(* A popup that goes while its level goes on was closed: its level is the one
   that is written. *)
LEMMA ClosedBySaving ==
  ASSUME StoreInv, [Next]_storeVars, Closes, NEW p \in popup, NEW level \in inLevel
  PROVE  OnClose /\ levels' = Updated(Fresh, KeyOf[level], Edited(p))
<1>1. popup # {} /\ popup' = {} /\ inLevel' # {}
  BY DEF Closes
<1>2. OnClose
  BY <1>1
     DEF Next, EnterLevel, OpenPopup, OnToggleEnabled, OnToggle21, OnQuit, TypePercent,
         HandEdit, Restart, storeVars
<1>3. PICK q \in popup, l \in inLevel : levels' = Updated(Fresh, KeyOf[l], Edited(q))
  BY <1>2 DEF OnClose
<1>4. q = p /\ l = level
  BY DEF StoreInv, OneLevel, OnePopup
<1> QED BY <1>2, <1>3, <1>4

(* Closing a popup changes the config of its own level only, for any number of
   levels, whatever else the file holds. *)
THEOREM OtherLevelsKept == Spec => KeepsOthers
<1>1. ASSUME StoreInv, [Next]_storeVars, Closes /\ clean,
             NEW level \in inLevel, NEW k \in DOMAIN Load(disk) \ {KeyOf[level]}
      PROVE  LevelConfig(Load(disk'), k) = LevelConfig(Load(disk), k)
  <2>0. PICK p \in popup : TRUE
    BY <1>1 DEF Closes
  <2>1. OnClose
    BY <1>1, <2>0, ClosedBySaving
  <2>2. levels' = Updated(Fresh, KeyOf[level], Edited(p))
    BY <1>1, <2>0, ClosedBySaving
  <2>3. Fresh = Load(disk)
    BY <1>1 DEF StoreInv, InSync, Fresh
  <2>4. CASE disk' = disk
    BY <2>4
  <2>5. CASE disk' = Saved(levels')
    <3>1. IsStore(levels')
      BY <1>1, <2>1, StoreStep DEF StoreInv, TypeOK, Next
    <3>2. Load(disk') = Updated(Load(disk), KeyOf[level], Edited(p))
      BY <2>2, <2>3, <2>5, <3>1, LoadSaved
    <3> QED BY <3>2, OthersStay
  <2> QED BY <2>1, <2>4, <2>5 DEF OnClose
<1>2. StoreInv /\ [Next]_storeVars =>
        [Closes /\ clean =>
           \A level \in inLevel : \A k \in DOMAIN Load(disk) \ {KeyOf[level]} :
             LevelConfig(Load(disk'), k) = LevelConfig(Load(disk), k)]_storeVars
  BY <1>1
<1> QED BY <1>2, StoreInvariant, PTL DEF Spec, KeepsOthers

-----------------------------------------------------------------------------
(* An input that shows a number in range is saved as that number, any other
   input is not saved. *)
LEMMA EditedRows ==
  ASSUME NEW p, IsPopup(p), NEW i \in DOMAIN p.inputs
  PROVE  LET sp == Edited(p).sp IN
         IF i \in DOMAIN sp THEN p.inputs[i] \cap Percents = {sp[i]}
                            ELSE p.inputs[i] \cap Percents = {}
<1> DEFINE sp == Edited(p).sp
<1>1. sp = [j \in {k \in DOMAIN p.inputs : ParsePercent(p.inputs[k]) # {}} |->
              CHOOSE n \in p.inputs[j] : TRUE]
  BY DEF Edited
<1>2. i \in DOMAIN sp <=> p.inputs[i] \cap Percents # {}
  BY <1>1 DEF ParsePercent
<1>3. ASSUME i \in DOMAIN sp PROVE p.inputs[i] \cap Percents = {sp[i]}
  <2>1. PICK n \in p.inputs[i] : n \in Percents
    BY <1>2, <1>3
  <2>2. p.inputs[i] = {n}
    BY DEF IsPopup, IsInput
  <2>3. sp[i] = n
    BY <1>1, <1>3, <2>2, TheValue
  <2> QED BY <2>1, <2>2, <2>3
<1> QED BY <1>2, <1>3

(* What the level has after its popup was closed: the popup's config, or none
   if there is nothing to keep. *)
LEMMA ConfigOfEdited ==
  ASSUME NEW lvls, NEW key, NEW cfg
  PROVE  LevelConfig(Updated(lvls, key, cfg), key)
           = IF cfg.enabled \/ DOMAIN cfg.sp # {} THEN {cfg} ELSE {}
  BY DEF Updated, SetLevelConfig, RemoveLevelConfig, LevelConfig

(* A closed popup: its type, its rows and what its level has afterwards. *)
LEMMA Closed ==
  ASSUME StoreInv, [Next]_storeVars, Closes, NEW p \in popup, NEW level \in inLevel
  PROVE  /\ IsPopup(p) /\ DOMAIN p.inputs = 0..Rows[level]
         /\ LevelConfig(levels', KeyOf[level])
              = IF p.enabled \/ DOMAIN Edited(p).sp # {} THEN {Edited(p)} ELSE {}
<1>1. levels' = Updated(Fresh, KeyOf[level], Edited(p))
  BY ClosedBySaving
<1>2. Edited(p).enabled = p.enabled
  BY DEF Edited
<1> QED BY <1>1, <1>2, ConfigOfEdited DEF StoreInv, TypeOK, OnePopup

(* What is typed is what the game arms at that spawn point, if it is above the
   spawn point's own percent, for every number of rows, every place of a row and
   every text. *)
THEOREM TypedArms == Spec => TypedIsResolved
<1>1. ASSUME StoreInv, [Next]_storeVars, Closes, NEW p \in popup, NEW level \in inLevel,
             NEW i \in 0..Rows[level]
      PROVE  Armed(LevelConfig(levels', KeyOf[level]), level, i)
               = IF p.enabled
                 THEN {n \in p.inputs[i] \cap Percents : n > SpawnPercent[level][p.use21][i]}
                 ELSE {}
  <2> DEFINE cfg == Edited(p)
             spawn == SpawnPercent[level][p.use21][i]
             had == LevelConfig(levels', KeyOf[level])
  <2>1. /\ IsPopup(p) /\ i \in DOMAIN p.inputs
        /\ cfg.enabled = p.enabled /\ cfg.use21 = p.use21
        /\ had = IF p.enabled \/ DOMAIN cfg.sp # {} THEN {cfg} ELSE {}
    BY <1>1, Closed DEF Edited
  <2>2. IF i \in DOMAIN cfg.sp THEN p.inputs[i] \cap Percents = {cfg.sp[i]}
                               ELSE p.inputs[i] \cap Percents = {}
    BY <2>1, EditedRows
  <2>3. p.use21 \in BOOLEAN /\ p.enabled \in BOOLEAN
    BY <2>1 DEF IsPopup
  <2> HIDE DEF cfg, had
  <2>4. ASSUME had = {cfg} PROVE Armed(had, level, i) = ResolveThreshold({cfg}, i, spawn)
    <3>1. (\E c \in {cfg} : c.use21) = p.use21
      BY <2>1, <2>3, Zenon
    <3> QED BY <2>4, <3>1 DEF Armed
  <2>5. CASE had = {}
    BY <2>1, <2>5 DEF Armed, ResolveThreshold, had
  <2>6. CASE had = {cfg} /\ ~p.enabled
    <3>1. ResolveThreshold({cfg}, i, spawn) = {}
      BY <2>1, <2>6 DEF ResolveThreshold
    <3> QED BY <2>4, <2>6, <3>1 DEF had
  <2>7. CASE had = {cfg} /\ p.enabled /\ i \notin DOMAIN cfg.sp
    <3>1. ResolveThreshold({cfg}, i, spawn) = {}
      BY <2>7 DEF ResolveThreshold
    <3> QED BY <2>2, <2>4, <2>7, <3>1 DEF had
  <2>8. CASE had = {cfg} /\ p.enabled /\ i \in DOMAIN cfg.sp
    <3>1. cfg.sp[i] \in 1..100 /\ p.inputs[i] \cap Percents = {cfg.sp[i]}
      BY <2>2, <2>8 DEF Percents
    <3>2. ResolveThreshold({cfg}, i, spawn) = {n \in {cfg.sp[i]} : n > spawn}
      BY <2>1, <2>8, <3>1 DEF ResolveThreshold
    <3> QED BY <2>4, <2>8, <3>1, <3>2 DEF had
  <2> QED BY <2>1, <2>5, <2>6, <2>7, <2>8
<1>2. StoreInv /\ [Next]_storeVars =>
        [Closes => \A p \in popup, level \in inLevel : \A i \in 0..Rows[level] :
           Armed(LevelConfig(levels', KeyOf[level]), level, i)
             = IF p.enabled
               THEN {n \in p.inputs[i] \cap Percents : n > SpawnPercent[level][p.use21][i]}
               ELSE {}]_storeVars
  BY <1>1
<1> QED BY <1>2, StoreInvariant, PTL DEF Spec, TypedIsResolved

(* A popup opened again shows what it was closed with, except that a level
   whose config was dropped opens as enabled. *)
THEOREM ReopensAsClosed == Spec => Reopens
<1> DEFINE again(level) == PopupFor(levels', level)
           Same(p, level) ==
             /\ \A i \in 0..Rows[level] : again(level).inputs[i] = p.inputs[i] \cap Percents
             /\ \/ again(level).enabled = p.enabled /\ again(level).use21 = p.use21
                \/ LevelConfig(levels', KeyOf[level]) = {} /\ again(level).enabled
<1>1. ASSUME StoreInv, [Next]_storeVars, Closes, NEW p \in popup, NEW level \in inLevel
      PROVE  Same(p, level)
  <2> DEFINE cfg == Edited(p)
             had == LevelConfig(levels', KeyOf[level])
  <2>1. /\ IsPopup(p) /\ DOMAIN p.inputs = 0..Rows[level]
        /\ cfg.enabled = p.enabled /\ cfg.use21 = p.use21
        /\ had = IF p.enabled \/ DOMAIN cfg.sp # {} THEN {cfg} ELSE {}
    BY <1>1, Closed DEF Edited
  <2>2. \A i \in 0..Rows[level] :
          IF i \in DOMAIN cfg.sp THEN p.inputs[i] \cap Percents = {cfg.sp[i]}
                                 ELSE p.inputs[i] \cap Percents = {}
    BY <2>1, EditedRows
  <2>3. /\ again(level).enabled = (\A c \in had : c.enabled)
        /\ again(level).use21 = (\E c \in had : c.use21)
        /\ \A i \in 0..Rows[level] :
             again(level).inputs[i] = {c.sp[i] : c \in {d \in had : i \in DOMAIN d.sp}}
    BY DEF PopupFor
  <2>4. p.enabled \in BOOLEAN /\ p.use21 \in BOOLEAN
    BY <2>1 DEF IsPopup
  <2> HIDE DEF cfg, had, again
  <2>5. CASE had = {cfg}
    <3>1. again(level).enabled = p.enabled
      BY <2>1, <2>3, <2>4, <2>5, Zenon
    <3>2. again(level).use21 = p.use21
      BY <2>1, <2>3, <2>4, <2>5, Zenon
    <3>3. ASSUME NEW i \in 0..Rows[level]
          PROVE  again(level).inputs[i] = p.inputs[i] \cap Percents
      <4>1. {c.sp[i] : c \in {d \in {cfg} : i \in DOMAIN d.sp}}
              = IF i \in DOMAIN cfg.sp THEN {cfg.sp[i]} ELSE {}
        OBVIOUS
      <4> QED BY <2>2, <2>3, <2>5, <4>1
    <3> QED BY <3>1, <3>2, <3>3
  <2>6. CASE had = {} /\ DOMAIN cfg.sp = {}
    BY <2>2, <2>3, <2>6 DEF had
  <2> QED BY <2>1, <2>5, <2>6
<1>2. StoreInv /\ [Next]_storeVars =>
        [Closes => \A p \in popup, level \in inLevel : Same(p, level)]_storeVars
  BY <1>1
<1> QED BY <1>2, StoreInvariant, PTL DEF Spec, Reopens
=============================================================================
