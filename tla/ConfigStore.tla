----------------------------- MODULE ConfigStore -----------------------------
(***************************************************************************)
(* The per-level configs: ConfigStore (config_store.cpp), the popup that   *)
(* edits them (level_config_popup.cpp) and levels.json, which the user may *)
(* edit by hand at any time.                                               *)
(*                                                                         *)
(* An optional value is a set: {} is missing or of the wrong type.  A key  *)
(* of an "sp" object that is no index is the index -1, and "" is an empty  *)
(* level key.  A file that is not there is a file without entries.         *)
(***************************************************************************)
EXTENDS Thresholds

CONSTANTS
  Levels,     \* the levels the player enters
  KeyOf,      \* levelKeyFor: [Levels -> keys]
  Rows,       \* [Levels -> Nat]: how many StartPos objects a level has
  SpawnPercent, \* the percent of a level's rows, in 2.1 (TRUE) and native (FALSE) terms
  Texts,      \* what may be typed into a percent input, {} for nothing
  HandFiles,  \* what the user may make of levels.json
  Faults,     \* may writing levels.json fail?
  MaxEdits    \* bound: how many edits are made

Percents == 1..100

(* An entry of the file is an object; its parts may be anything. *)
IsRaw(raw) == \A i \in DOMAIN raw.sp : i \in Int /\ raw.sp[i] \subseteq Int

(* What an input shows: a number or nothing. *)
IsInput(text) == text \subseteq Int /\ \A m, n \in text : m = n

ASSUME StoreAssumption ==
  /\ KeyOf \in [Levels -> STRING \ {""}]
  /\ Rows \in [Levels -> Nat]
  /\ \A l \in Levels : \A b \in BOOLEAN :
       SpawnPercent[l][b] \in [0..Rows[l] -> 0..100] /\ SpawnPercent[l][b][0] = 0
  /\ \A text \in Texts : IsInput(text)
  /\ \A f \in HandFiles : \A k \in DOMAIN f.entries : IsRaw(f.entries[k])
  /\ Faults \in BOOLEAN
  /\ MaxEdits \in Nat

VARIABLES
  disk,    \* levels.json: is it readable, and its entries
  levels,  \* m_levels
  loaded,  \* m_loaded
  inLevel, \* the level being played, as a set
  popup,   \* the open popup, as a set
  clean,   \* history: nothing happened to levels or disk since they last met
  edits    \* how many edits were made (bounds the model)

storeVars == <<disk, levels, loaded, inLevel, popup, clean, edits>>

-----------------------------------------------------------------------------
(* loadFromDisk, entry by entry: what does not parse is skipped. *)
Indexed(sp) == {i \in DOMAIN sp : i >= 0 /\ sp[i] # {}}
Parse(raw) ==
  [enabled |-> raw.enabled = {TRUE},
   use21   |-> raw.p21 = {TRUE},
   sp      |-> [i \in Indexed(raw.sp) |-> CHOOSE n \in raw.sp[i] : TRUE]]

Load(file) ==
  [k \in IF file.readable THEN DOMAIN file.entries \ {""} ELSE {} |->
     Parse(file.entries[k])]

DumpAlways21(cfg) ==  \* faulty: writes p21 whenever the config has thresholds
  [enabled |-> {cfg.enabled},
   p21     |-> IF cfg.use21 \/ cfg.sp # <<>> THEN {TRUE} ELSE {},
   sp      |-> [i \in DOMAIN cfg.sp |-> {cfg.sp[i]}]]

(* save(): the default of p21 is left out. *)
Dump(cfg) ==
  [enabled |-> {cfg.enabled},
   p21     |-> IF cfg.use21 THEN {TRUE} ELSE {},
   sp      |-> [i \in DOMAIN cfg.sp |-> {cfg.sp[i]}]]

Saved(lvls) == [readable |-> TRUE, entries |-> [k \in DOMAIN lvls |-> Dump(lvls[k])]]

(* levelConfig, setLevelConfig and removeLevelConfig on a loaded store. *)
LevelConfig(lvls, key) == IF key \in DOMAIN lvls THEN {lvls[key]} ELSE {}
SetLevelConfig(lvls, key, cfg) ==
  [k \in DOMAIN lvls \cup {key} |-> IF k = key THEN cfg ELSE lvls[k]]
RemoveLevelConfig(lvls, key) == [k \in DOMAIN lvls \ {key} |-> lvls[k]]

(* `if (!m_loaded) refresh()`. *)
Fresh == IF loaded THEN levels ELSE Load(disk)

-----------------------------------------------------------------------------
(* The popup: two toggles and an input per row. *)
PopupFor(lvls, level) ==
  LET cfg == LevelConfig(lvls, KeyOf[level])
  IN  [enabled |-> \A c \in cfg : c.enabled,
       use21   |-> \E c \in cfg : c.use21,
       inputs  |-> [i \in 0..Rows[level] |->
                      {c.sp[i] : c \in {d \in cfg : i \in DOMAIN d.sp}}]]

ParsePercent(text) == text \cap Percents

EditedFromOne(p) ==  \* faulty: the rows are numbered from one
  LET rows == {i \in DOMAIN p.inputs : ParsePercent(p.inputs[i]) # {}}
  IN  [enabled |-> p.enabled, use21 |-> p.use21,
       sp |-> [i \in {j + 1 : j \in rows} |-> CHOOSE n \in p.inputs[i - 1] : TRUE]]

(* The config saveConfig builds from the popup. *)
Edited(p) ==
  [enabled |-> p.enabled, use21 |-> p.use21,
   sp |-> [i \in {j \in DOMAIN p.inputs : ParsePercent(p.inputs[j]) # {}} |->
             CHOOSE n \in p.inputs[i] : TRUE]]

UpdatedTidier(lvls, key, cfg) ==  \* faulty: drops every disabled config
  IF cfg.enabled THEN SetLevelConfig(lvls, key, cfg) ELSE RemoveLevelConfig(lvls, key)

UpdatedAlone(lvls, key, cfg) ==  \* faulty: keeps the edited level only
  IF cfg.enabled \/ DOMAIN cfg.sp # {}
  THEN [k \in {key} |-> cfg]
  ELSE RemoveLevelConfig(lvls, key)

(* "keep levels.json tidy": a disabled config without thresholds goes. *)
Updated(lvls, key, cfg) ==
  IF cfg.enabled \/ DOMAIN cfg.sp # {}
  THEN SetLevelConfig(lvls, key, cfg)
  ELSE RemoveLevelConfig(lvls, key)

-----------------------------------------------------------------------------
NoLevels == [k \in {} |-> {}]

Init ==
  /\ disk \in HandFiles
  /\ levels = NoLevels /\ loaded = FALSE
  /\ inLevel = {} /\ popup = {}
  /\ clean = FALSE /\ edits = 0

(* setupHasCompleted of a classic level. *)
EnterLevel(level) ==
  /\ inLevel = {}
  /\ inLevel' = {level}
  /\ levels' = Load(disk) /\ loaded' = TRUE
  /\ clean' = TRUE
  /\ UNCHANGED <<disk, popup, edits>>

(* The button of the pause menu. *)
OpenPopup ==
  /\ popup = {}
  /\ \E level \in inLevel : popup' = {PopupFor(Fresh, level)}
  /\ levels' = Fresh /\ loaded' = TRUE
  /\ UNCHANGED <<disk, inLevel, clean, edits>>

Edit ==
  /\ edits < MaxEdits
  /\ edits' = edits + 1

TypePercent(text) ==
  /\ Edit
  /\ \E p \in popup : \E i \in DOMAIN p.inputs :
       p.inputs[i] # text /\ popup' = {[p EXCEPT !.inputs[i] = text]}
  /\ UNCHANGED <<disk, levels, loaded, inLevel, clean>>

OnToggleEnabled ==
  /\ Edit
  /\ \E p \in popup : popup' = {[p EXCEPT !.enabled = ~@]}
  /\ UNCHANGED <<disk, levels, loaded, inLevel, clean>>

OnToggle21 ==
  /\ Edit
  /\ \E p \in popup : popup' = {[p EXCEPT !.use21 = ~@]}
  /\ UNCHANGED <<disk, levels, loaded, inLevel, clean>>

(* onClose: saveConfig, whose write may fail, then the popup goes. *)
OnClose ==
  /\ popup # {}
  /\ popup' = {}
  /\ \E p \in popup, level \in inLevel :
       levels' = Updated(Fresh, KeyOf[level], Edited(p))
  /\ loaded' = TRUE
  /\ \E written \in IF Faults THEN BOOLEAN ELSE {TRUE} :
       /\ disk' = IF written THEN Saved(levels') ELSE disk
       /\ clean' = written
  /\ UNCHANGED <<inLevel, edits>>

OnQuit ==
  /\ inLevel # {} /\ popup = {}
  /\ inLevel' = {}
  /\ UNCHANGED <<disk, levels, loaded, popup, clean, edits>>

(* The user saves levels.json from an editor, with or without typing errors. *)
HandEdit ==
  /\ Edit
  /\ disk' \in HandFiles \ {disk}
  /\ clean' = FALSE
  /\ UNCHANGED <<levels, loaded, inLevel, popup>>

(* The game quits or crashes, with a popup open or not, and starts again. *)
Restart ==
  /\ levels' = NoLevels /\ loaded' = FALSE
  /\ inLevel' = {} /\ popup' = {} /\ clean' = FALSE
  /\ UNCHANGED <<disk, edits>>

Next ==
  \/ \E level \in Levels : EnterLevel(level)
  \/ OpenPopup \/ OnToggleEnabled \/ OnToggle21 \/ OnClose \/ OnQuit
  \/ \E text \in Texts : TypePercent(text)
  \/ HandEdit \/ Restart

Spec == Init /\ [][Next]_storeVars

-----------------------------------------------------------------------------
IsConfig(cfg) ==
  /\ cfg \in [enabled : BOOLEAN, use21 : BOOLEAN, sp : {cfg.sp}]
  /\ DOMAIN cfg.sp \subseteq Nat /\ cfg.sp \in [DOMAIN cfg.sp -> Int]

IsStore(lvls) ==
  /\ lvls \in [DOMAIN lvls -> {lvls[k] : k \in DOMAIN lvls}]
  /\ "" \notin DOMAIN lvls
  /\ \A k \in DOMAIN lvls : IsConfig(lvls[k])

IsPopup(p) ==
  /\ p \in [enabled : BOOLEAN, use21 : BOOLEAN, inputs : {p.inputs}]
  /\ DOMAIN p.inputs \subseteq Nat /\ p.inputs \in [DOMAIN p.inputs -> SUBSET Int]
  /\ \A i \in DOMAIN p.inputs : IsInput(p.inputs[i])

TypeOK ==
  /\ IsStore(levels) /\ IsStore(Load(disk))
  /\ loaded \in BOOLEAN /\ clean \in BOOLEAN
  /\ inLevel \subseteq Levels
  /\ \A p \in popup : IsPopup(p)

(* What the game has in memory is what it would read back: entering a level
   again changes nothing unless the file was edited or could not be written
   (save and loadFromDisk are inverse on every config the mod can hold). *)
InSync == clean => Load(disk) = levels

(* The popup was closed, and its level goes on. *)
Closes == popup # {} /\ popup' = {} /\ inLevel' # {}

(* Closing the popup of one level leaves the configs of all others as
   levels.json has them, as long as the file was not edited since the level
   was entered. *)
KeepsOthers ==
  [][Closes /\ clean =>
       \A level \in inLevel : \A k \in DOMAIN Load(disk) \ {KeyOf[level]} :
         LevelConfig(Load(disk'), k) = LevelConfig(Load(disk), k)]_storeVars

(* What resolveNow arms for an attempt that starts at row i: the arming guard
   takes the StartPos object's own percent in the terms the config is in. *)
Armed(cfg, level, i) ==
  ResolveThreshold(cfg, i, SpawnPercent[level][\E c \in cfg : c.use21][i])

(* What is typed into a row is what the game arms for that spawn point: a
   percent of 1 to 100 if the level is enabled and the percent is above the
   spawn point's own, by the 2.1 switch of the same popup, else no deafen (the
   popup's "empty = don't deafen", hand-edited values the popup rejects, and the
   guard of resolveThreshold). *)
TypedIsResolved ==
  [][Closes => \A p \in popup, level \in inLevel : \A i \in 0..Rows[level] :
       Armed(LevelConfig(levels', KeyOf[level]), level, i)
         = IF p.enabled
           THEN {n \in p.inputs[i] \cap Percents : n > SpawnPercent[level][p.use21][i]}
           ELSE {}]_storeVars

(* The popup shows what it was closed with when it is opened again, except
   that a level without a config opens as enabled. *)
Reopens ==
  [][Closes => \A p \in popup, level \in inLevel :
       LET again == PopupFor(levels', level)
       IN  /\ \A i \in 0..Rows[level] : again.inputs[i] = p.inputs[i] \cap Percents
           /\ \/ again.enabled = p.enabled /\ again.use21 = p.use21
              \/ LevelConfig(levels', KeyOf[level]) = {} /\ again.enabled]_storeVars

(* The invariant behind these: besides types and InSync, the player is in one
   level at a time and edits it in one popup with the rows of that level. *)
OneLevel == \A k, l \in inLevel : k = l
OnePopup ==
  \A p \in popup :
    /\ inLevel # {} /\ \A q \in popup : p = q
    /\ \A level \in inLevel : DOMAIN p.inputs = 0..Rows[level]
StoreInv == TypeOK /\ InSync /\ OneLevel /\ OnePopup
=============================================================================
