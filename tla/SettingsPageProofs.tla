-------------------------- MODULE SettingsPageProofs --------------------------
(***************************************************************************)
(* The settings page's row (SettingsPage) shows what the worker lets it    *)
(* see, for queues of any length and any interleaving of the worker with   *)
(* the three reads of refreshDisplay.                                      *)
(***************************************************************************)
EXTENDS SettingsPage, SequenceTheorems, TLAPS

(* Appending to a queue, of closures or of calls. *)
LEMMA Appends ==
  ASSUME NEW S, NEW s \in Seq(S), NEW e \in S
  PROVE  /\ Append(s, e) \in Seq(S) /\ Append(s, e) # <<>>
         /\ Len(Append(s, e)) = Len(s) + 1 /\ DOMAIN Append(s, e) = 1..(Len(s) + 1)
         /\ Append(s, e)[Len(s) + 1] = e
         /\ \A i \in DOMAIN s : i \in DOMAIN Append(s, e) /\ Append(s, e)[i] = s[i]
  OBVIOUS

(* Taking the first of a queue. *)
LEMMA Takes ==
  ASSUME NEW S, NEW s \in Seq(S), s # <<>>
  PROVE  /\ Tail(s) \in Seq(S) /\ Head(s) = s[1] /\ Head(s) \in S /\ 1 \in DOMAIN s
         /\ Len(Tail(s)) = Len(s) - 1 /\ DOMAIN Tail(s) = 1..(Len(s) - 1)
         /\ \A i \in DOMAIN Tail(s) : i + 1 \in DOMAIN s /\ Tail(s)[i] = s[i + 1]
  BY HeadTailProperties

(* Positions in a queue stay positions when it grows. *)
LEMMA Wider ==
  ASSUME NEW m \in Nat, NEW n \in Nat, m <= n, NEW s \in Seq(0..m)
  PROVE  s \in Seq(0..n)
<1>1. \A i \in 1..Len(s) : s[i] \in 0..n
  OBVIOUS
<1> QED BY <1>1

(* The texts that go with a phase, and what has a label. *)
LEMMA SaidTexts == \A p \in Phases : Said(p) \subseteq Texts
<1> SUFFICES ASSUME NEW p \in Phases PROVE Said(p) \subseteq Texts
  OBVIOUS
<1>1. p = "Connecting" => Said(p) = {"connecting", "refreshing"}
  BY DEF Said
<1>2. p = "AwaitingConsent" => Said(p) = {"prompt"}
  BY DEF Said
<1>3. p = "Connected" => Said(p) = {"connected"}
  BY DEF Said
<1>4. p = "NotConnected" => Said(p) = {"reason"}
  BY DEF Said
<1> QED BY <1>1, <1>2, <1>3, <1>4 DEF Phases, Texts

LEMMA Labels == \A a \in BOOLEAN : LabelFor(a) \in {"Connect", "Log out"}
  BY DEF LabelFor

(* What the types say of the two queues. *)
LEMMA QueueTypes ==
  ASSUME PageTypeOK
  PROVE  /\ closures \in Seq(SUBSET KeptKeys) /\ Len(closures) \in Nat
         /\ DOMAIN closures = 1..Len(closures)
         /\ pings \in Seq(0..Len(closures)) /\ Len(pings) \in Nat
         /\ DOMAIN pings = 1..Len(pings)
         /\ \A i \in DOMAIN pings : pings[i] \in Nat /\ pings[i] <= Len(closures)
<1>1. closures \in Seq(SUBSET KeptKeys) /\ pings \in Seq(0..Len(closures))
  BY DEF PageTypeOK
<1>2. Len(closures) \in Nat /\ DOMAIN closures = 1..Len(closures)
  BY <1>1, LenProperties
<1>3. Len(pings) \in Nat /\ DOMAIN pings = 1..Len(pings)
  BY <1>1, LenProperties
<1>4. \A i \in 1..Len(pings) : pings[i] \in 0..Len(closures)
  BY <1>1, ElementOfSeq
<1> QED BY <1>1, <1>2, <1>3, <1>4

(* setStatus changes what the worker says, and says so later. *)
LEMMA StatusSet ==
  ASSUME PageTypeOK, SetStatus
  PROVE  /\ phase' \in Phases /\ granted' \in BOOLEAN /\ words' \in Said(phase')
         /\ telling' = TRUE
         /\ UNCHANGED <<kept, closures, pings, settings, open, locals, node>>
<1>1. phase' \in Phases /\ UNCHANGED <<kept, closures>>
  BY DEF SetStatus, Announce, Drop, Phases
<1>2. granted' \in BOOLEAN
  <2>1. CASE Drop
    BY <2>1 DEF Drop
  <2>2. CASE \E p \in Phases : Announce(p)
    <3>1. granted' = granted
      BY <2>2 DEF Announce
    <3> QED BY <2>2, <3>1 DEF Announce, PageTypeOK
  <2> QED BY <2>1, <2>2 DEF SetStatus
<1> QED BY <1>1, <1>2 DEF SetStatus

(* It ends up with a call of the listener behind all the closures. *)
LEMMA ListenerQueued ==
  ASSUME PageTypeOK, QueueListener
  PROVE  /\ pings' \in Seq(0..Len(closures)) /\ pings' # <<>>
         /\ DOMAIN pings' = 1..(Len(pings) + 1) /\ pings'[Len(pings) + 1] = Len(closures)
         /\ \A i \in DOMAIN pings : pings'[i] = pings[i]
         /\ UNCHANGED <<phase, granted, kept, closures, words, settings, open, locals, node>>
<1>1. pings' = Append(pings, Len(closures)) /\ Len(closures) \in 0..Len(closures)
  BY QueueTypes DEF QueueListener
<1>2. /\ pings' \in Seq(0..Len(closures)) /\ pings' # <<>>
      /\ DOMAIN pings' = 1..(Len(pings) + 1) /\ pings'[Len(pings) + 1] = Len(closures)
      /\ \A i \in DOMAIN pings : pings'[i] = pings[i]
  BY <1>1, QueueTypes, Appends
<1> QED BY <1>2 DEF QueueListener, statusVars

(* Tokens, or a name, queued with no word. *)
LEMMA StoreKept ==
  ASSUME PageTypeOK, StoreQueued
  PROVE  /\ closures' \in Seq(SUBSET KeptKeys) /\ granted' \in BOOLEAN
         /\ pings \in Seq(0..Len(closures')) /\ Busy(phase)
         /\ UNCHANGED <<phase, kept, words, telling, pings, settings, open, locals, node>>
<1>1. PICK keys \in SUBSET KeptKeys : closures' \in {closures, Append(closures, keys)}
  <2>1. {"access"} \in SUBSET KeptKeys /\ {"username"} \in SUBSET KeptKeys
    BY DEF KeptKeys
  <2> QED BY <2>1 DEF StoreQueued, Obtain, Authenticate
<1>2. closures' \in Seq(SUBSET KeptKeys) /\ Len(closures') \in {Len(closures), Len(closures) + 1}
  <2>1. CASE closures' = closures
    BY <2>1, QueueTypes
  <2>2. CASE closures' = Append(closures, keys)
    BY <2>2, QueueTypes, Appends
  <2> QED BY <1>1, <2>1, <2>2
<1>3. pings \in Seq(0..Len(closures'))
  BY <1>2, QueueTypes, Wider
<1>4. Busy(phase) /\ UNCHANGED <<phase, kept, words, telling, pings, settings, open, locals, node>>
  BY DEF StoreQueued, Obtain, Authenticate, Busy
<1>5. granted' \in BOOLEAN
  BY DEF StoreQueued, Obtain, Authenticate, PageTypeOK
<1> QED BY <1>2, <1>3, <1>4, <1>5

(* A closure that runs leaves one closure less before every call. *)
LEMMA ClosureRun ==
  ASSUME PageTypeOK, QueueInv, RunClosure
  PROVE  /\ Free /\ kept' \in SUBSET KeptKeys
         /\ closures' \in Seq(SUBSET KeptKeys) /\ Len(closures') = Len(closures) - 1
         /\ DOMAIN closures' = 1..(Len(closures) - 1) /\ 1 \in DOMAIN closures
         /\ pings' \in Seq(0..Len(closures')) /\ DOMAIN pings' = DOMAIN pings
         /\ \A i \in DOMAIN pings : pings'[i] = pings[i] - 1
         /\ pings' = <<>> <=> pings = <<>>
         /\ UNCHANGED <<phase, granted, words, telling, settings, open, locals, node>>
<1>1. closures # <<>> /\ kept' = kept \cup Head(closures) /\ closures' = Tail(closures)
  BY DEF RunClosure, StoreNext
<1>2. /\ closures' \in Seq(SUBSET KeptKeys) /\ Len(closures') = Len(closures) - 1
      /\ DOMAIN closures' = 1..(Len(closures) - 1) /\ 1 \in DOMAIN closures
      /\ Head(closures) \in SUBSET KeptKeys
  BY <1>1, QueueTypes, Takes
<1>3. kept' \in SUBSET KeptKeys
  BY <1>1, <1>2 DEF PageTypeOK
<1>4. pings' = [i \in DOMAIN pings |-> pings[i] - 1]
  BY DEF RunClosure
<1>5. \A i \in DOMAIN pings : pings[i] \in 1..Len(closures)
  <2> SUFFICES ASSUME NEW i \in DOMAIN pings PROVE pings[i] \in 1..Len(closures)
    OBVIOUS
  <2>1. i \in 1..Len(pings) /\ Len(pings) \in Nat /\ pings # <<>>
    BY QueueTypes
  <2>2. 1 \in DOMAIN pings /\ pings[1] > 0
    BY <2>1, QueueTypes, Takes DEF RunClosure
  <2>3. i = 1 \/ 1 < i
    BY <2>1
  <2>4. i = 1 \/ pings[1] <= pings[i]
    BY <2>2, <2>3 DEF QueueInv
  <2> QED BY <2>2, <2>4, QueueTypes
<1>6. pings' \in [1..Len(pings) -> 0..Len(closures')]
  BY <1>2, <1>4, <1>5, QueueTypes
<1>7. pings' \in Seq(0..Len(closures')) /\ (pings' = <<>> <=> pings = <<>>)
  BY <1>6, QueueTypes
<1>8. Free /\ UNCHANGED <<phase, granted, words, telling, settings, open, locals, node>>
  BY DEF RunClosure, StoreNext
<1> QED BY <1>2, <1>3, <1>4, <1>7, <1>8

(* A call of the listener leaves the queue's head. *)
LEMMA PingRun ==
  ASSUME PageTypeOK, RunPing
  PROVE  /\ pings' \in Seq(0..Len(closures)) /\ DOMAIN pings' = 1..(Len(pings) - 1)
         /\ \A i \in DOMAIN pings' : i + 1 \in DOMAIN pings /\ pings'[i] = pings[i + 1]
         /\ 1 \in DOMAIN pings /\ pings[1] = 0
         /\ step' = IF open THEN "state" ELSE "no"
         /\ UNCHANGED <<statusVars, words, telling, settings, open, seen, known, node>>
<1>1. pings # <<>> /\ Head(pings) = 0 /\ pings' = Tail(pings)
  BY DEF RunPing
<1>2. /\ pings' \in Seq(0..Len(closures)) /\ DOMAIN pings' = 1..(Len(pings) - 1)
      /\ \A i \in DOMAIN pings' : i + 1 \in DOMAIN pings /\ pings'[i] = pings[i + 1]
      /\ 1 \in DOMAIN pings /\ pings[1] = 0
  BY <1>1, QueueTypes, Takes
<1> QED BY <1>2 DEF RunPing

-----------------------------------------------------------------------------
(* The row starts in its invariant. *)
LEMMA PageStarts == ASSUME PageInit PROVE PageInv
<1>0. /\ closures = <<>> /\ closures \in Seq(SUBSET KeptKeys) /\ DOMAIN closures = {}
      /\ pings = <<>> /\ pings \in Seq(0..Len(closures)) /\ DOMAIN pings = {}
  <2>1. closures = <<>> /\ pings = <<>>
    BY DEF PageInit, Init
  <2>2. Len(<<>>) = 0 /\ \A S : <<>> \in Seq(S)
    OBVIOUS
  <2> QED BY <2>1, <2>2
<1> USE DEF PageInit, Init
<1>1. PageTypeOK
  BY <1>0 DEF PageTypeOK, Phases, KeptKeys, Texts
<1>2. QueueInv /\ RefreshInv /\ FollowsEvents
  <2>1. QueueInv
    BY <1>0 DEF QueueInv
  <2> QED BY <2>1 DEF RefreshInv, FollowsEvents, Free, Busy
<1>3. WordsInv
  BY DEF WordsInv
<1>4. ColourInv
  BY DEF ColourInv, ColourOf
<1> QED BY <1>1, <1>2, <1>3, <1>4 DEF PageInv

(* The row's own variables. *)
LEMMA RowKept ==
  ASSUME PageTypeOK, UNCHANGED <<settings, open, locals, node>>
  PROVE  /\ keybind' \in BOOLEAN /\ mirror' \in BOOLEAN /\ unseen' \in BOOLEAN
         /\ open' \in BOOLEAN /\ known' \in BOOLEAN /\ enabled' \in BOOLEAN
         /\ step' \in {"no", "state", "button", "text"} /\ seen' \in Phases
         /\ label' \in {"Connect", "Log out"} /\ shown' \in Texts
         /\ colour' \in {"white", "red", "orange", "yellow", "green", "grey"}
  BY DEF PageTypeOK, settings, locals, node

(* The types. *)
LEMMA PageTypes == ASSUME PageTypeOK, QueueInv, WordsInv, PageNext PROVE PageTypeOK'
<1> USE DEF PageTypeOK, statusVars, settings, locals, node
<1>1. CASE SetStatus
  <2>1. words' \in Texts
    BY <1>1, StatusSet, SaidTexts
  <2> QED BY <1>1, <2>1, StatusSet
<1>2. CASE StoreQueued
  <2>1. /\ closures' \in Seq(SUBSET KeptKeys) /\ pings' \in Seq(0..Len(closures'))
        /\ granted' \in BOOLEAN /\ UNCHANGED <<phase, kept, words, telling>>
    BY <1>2, StoreKept
  <2>2. UNCHANGED <<settings, open, locals, node>>
    BY <1>2, StoreKept
  <2> QED BY <2>1, <2>2, RowKept
<1>13. CASE QueueListener
  <2>1. telling' \in BOOLEAN
    BY <1>13 DEF QueueListener
  <2>2. /\ pings' \in Seq(0..Len(closures'))
        /\ UNCHANGED <<phase, granted, kept, closures, words>>
    BY <1>13, ListenerQueued
  <2>3. UNCHANGED <<settings, open, locals, node>>
    BY <1>13, ListenerQueued
  <2> QED BY <2>1, <2>2, <2>3, RowKept
<1>3. CASE ReadState
  BY <1>3 DEF ReadState
<1>4. CASE SetButton
  <2>1. known' \in BOOLEAN /\ label' = LabelFor(known') /\ enabled' \in BOOLEAN
    BY <1>4 DEF SetButton, Authorized
  <2> QED BY <1>4, <2>1, Labels DEF SetButton
<1>5. CASE SetText
  <2>1. TextFor(seen, known) \in Texts
    BY DEF TextFor, Texts
  <2>2. ColourFor(seen, known) \in {"white", "red", "orange", "yellow", "green", "grey"}
    BY DEF ColourFor
  <2> QED BY <1>5, <2>1, <2>2 DEF SetText
<1>6. CASE RunClosure
  <2>1. /\ closures' \in Seq(SUBSET KeptKeys) /\ pings' \in Seq(0..Len(closures'))
        /\ kept' \in SUBSET KeptKeys
    BY <1>6, ClosureRun
  <2>2. UNCHANGED <<phase, granted, words, telling>>
    BY <1>6, ClosureRun
  <2>3. UNCHANGED <<settings, open, locals, node>>
    BY <1>6, ClosureRun
  <2> QED BY <2>1, <2>2, <2>3, RowKept
<1>7. CASE RunPing
  <2>1. pings' \in Seq(0..Len(closures)) /\ closures' = closures
    BY <1>7, PingRun
  <2>2. step' \in {"no", "state", "button", "text"}
    BY <1>7 DEF RunPing
  <2>3. UNCHANGED <<statusVars, words, telling, settings, open, seen, known, node>>
    BY <1>7, PingRun
  <2> QED BY <2>1, <2>2, <2>3
<1>8. CASE Frame
  BY <1>8 DEF Frame
<1>9. CASE OpenPage
  BY <1>9 DEF OpenPage, Texts
<1>10. CASE ClosePage
  BY <1>10 DEF ClosePage
<1>11. CASE Click
  <2>1. kept' \in SUBSET KeptKeys /\ UNCHANGED <<phase, granted, closures>>
    BY <1>11 DEF Click, Forget
  <2> QED BY <1>11, <2>1 DEF Click
<1>12. CASE SetMode
  BY <1>12 DEF SetMode
<1> QED BY <1>1, <1>2, <1>3, <1>4, <1>5, <1>6, <1>7, <1>8, <1>9, <1>10, <1>11, <1>12,
       <1>13 DEF PageNext, WorkerSide, Refresh, GameLoop, Player

(* What the queues hold is left alone by whatever neither adds nor takes. *)
QueuesKept == UNCHANGED <<phase, words, telling, closures, pings>>

LEMMA QuietSteps ==
  ASSUME Refresh \/ Frame \/ Player \/ UNCHANGED pageVars
  PROVE  QueuesKept
  BY DEF Refresh, ReadState, SetButton, SetText, Frame, Player, OpenPage, ClosePage, Click,
         Forget, SetMode, pageVars, statusVars, QueuesKept

(* The calls stay in order, each closure before one of them. *)
LEMMA PageQueue == ASSUME PageTypeOK, QueueInv, PageNext PROVE QueueInv'
<1> USE DEF QueueInv
<1>1. CASE SetStatus
  BY <1>1, StatusSet
<1>6. CASE QueueListener
  <2>1. \A i, j \in DOMAIN pings' : i < j => pings'[i] <= pings'[j]
    <3> SUFFICES ASSUME NEW i \in 1..(Len(pings) + 1), NEW j \in 1..(Len(pings) + 1), i < j
                 PROVE  pings'[i] <= pings'[j]
      BY <1>6, ListenerQueued
    <3>1. Len(pings) \in Nat
      BY QueueTypes
    <3>2. i \in 1..Len(pings)
      BY <3>1
    <3>3. pings'[i] = pings[i] /\ pings[i] <= Len(closures)
      BY <1>6, <3>2, ListenerQueued, QueueTypes
    <3>4. CASE j = Len(pings) + 1
      <4>1. pings'[j] = Len(closures)
        BY <1>6, <3>4, ListenerQueued
      <4> QED BY <3>3, <4>1
    <3>5. CASE j \in 1..Len(pings)
      <4>1. pings'[j] = pings[j] /\ pings[i] <= pings[j]
        BY <1>6, <3>2, <3>5, ListenerQueued, QueueTypes
      <4> QED BY <3>3, <4>1
    <3> QED BY <3>1, <3>4, <3>5
  <2>2. Len(pings) + 1 \in DOMAIN pings' /\ pings'[Len(pings) + 1] = Len(closures)
    BY <1>6, ListenerQueued, QueueTypes
  <2>3. \A i \in DOMAIN closures : i <= Len(closures)
    BY QueueTypes
  <2>4. closures' = closures
    BY <1>6, ListenerQueued
  <2> QED BY <2>1, <2>2, <2>3, <2>4
<1>2. CASE StoreQueued
  BY <1>2, StoreKept DEF Busy
<1>3. CASE RunClosure
  <2>0. /\ DOMAIN pings' = DOMAIN pings
        /\ \A i \in DOMAIN pings : pings'[i] = pings[i] - 1 /\ pings[i] \in Nat
    BY <1>3, ClosureRun, QueueTypes
  <2>1. \A i, j \in DOMAIN pings' : i < j => pings'[i] <= pings'[j]
    BY <2>0
  <2>2. ASSUME NEW i \in DOMAIN closures', ~Busy(phase), ~telling
        PROVE  \E j \in DOMAIN pings' : i <= pings'[j]
    <3>1. i + 1 \in DOMAIN closures /\ i \in Nat
      <4>1. i \in 1..(Len(closures) - 1) /\ Len(closures) \in Nat
        BY <1>3, <2>2, ClosureRun, QueueTypes
      <4>2. i + 1 \in 1..Len(closures) /\ i \in Nat
        BY <4>1
      <4> QED BY <4>2, QueueTypes
    <3>2. PICK j \in DOMAIN pings : i + 1 <= pings[j]
      BY <2>2, <3>1
    <3>3. j \in DOMAIN pings' /\ i <= pings'[j]
      BY <2>0, <3>1, <3>2
    <3> QED BY <3>3
  <2> QED BY <1>3, <2>1, <2>2, ClosureRun DEF Busy
<1>4. CASE RunPing
  <2>1. UNCHANGED <<closures, phase, telling>>
    BY <1>4 DEF RunPing, statusVars
  <2>2. \A i, j \in DOMAIN pings' : i < j => pings'[i] <= pings'[j]
    <3> SUFFICES ASSUME NEW i \in DOMAIN pings', NEW j \in DOMAIN pings', i < j
                 PROVE  pings'[i] <= pings'[j]
      OBVIOUS
    <3>1. i \in Nat /\ j \in Nat /\ i + 1 < j + 1
      BY <1>4, PingRun, QueueTypes
    <3> QED BY <1>4, <3>1, PingRun
  <2>3. ASSUME NEW i \in DOMAIN closures, ~Busy(phase), ~telling
        PROVE  \E j \in DOMAIN pings' : i <= pings'[j]
    <3>1. PICK j \in DOMAIN pings : i <= pings[j]
      BY <2>3
    <3>2. i > 0 /\ j # 1 /\ j \in 1..Len(pings)
      BY <1>4, <3>1, PingRun, QueueTypes
    <3>3. j - 1 \in DOMAIN pings' /\ (j - 1) + 1 = j
      BY <1>4, <3>2, PingRun, QueueTypes
    <3>4. pings'[j - 1] = pings[j]
      BY <1>4, <3>3, PingRun
    <3> QED BY <3>1, <3>3, <3>4
  <2> QED BY <2>1, <2>2, <2>3 DEF Busy
<1>5. CASE QueuesKept
  BY <1>5 DEF QueuesKept, Busy
<1> QED
  BY <1>1, <1>2, <1>3, <1>4, <1>5, <1>6, QuietSteps DEF PageNext, WorkerSide, GameLoop

(* Phase and words change together. *)
LEMMA PageWords == ASSUME PageTypeOK, QueueInv, WordsInv, PageNext PROVE WordsInv'
<1> USE DEF WordsInv, Said
<1>1. CASE SetStatus
  BY <1>1, StatusSet
<1>2. CASE UNCHANGED <<phase, words>>
  BY <1>2
<1>3. QueueListener \/ StoreQueued \/ RunClosure \/ RunPing => UNCHANGED <<phase, words>>
  BY DEF QueueListener, StoreQueued, Obtain, Authenticate, RunClosure, StoreNext, RunPing,
         statusVars
<1> QED BY <1>1, <1>2, <1>3, QuietSteps DEF PageNext, WorkerSide, GameLoop, QueuesKept

-----------------------------------------------------------------------------
(* While the worker says something nothing is claimed of the row; else it is the
   worker that stands still. *)
LEMMA WorkerCalls == ASSUME PageTypeOK, SetStatus \/ QueueListener PROVE ~Heard'
  BY StatusSet, ListenerQueued DEF Heard

(* What refreshDisplay knows stays true until a call is queued. *)
LEMMA PageRefresh ==
  ASSUME PageTypeOK, mirror = keybind, RefreshInv, QueueInv, PageNext PROVE RefreshInv'
<1> USE DEF RefreshInv, Heard, Free, statusVars, settings, locals, node
<1>1. CASE SetStatus \/ QueueListener
  BY <1>1, WorkerCalls
<1>2. CASE StoreQueued
  BY <1>2 DEF StoreQueued, Obtain, Authenticate, Authorized
<1>3. CASE ReadState
  BY <1>3 DEF ReadState, Authorized
<1>4. CASE SetButton
  BY <1>4 DEF SetButton, Authorized
<1>5. CASE SetText
  BY <1>5 DEF SetText
<1>6. CASE RunClosure
  BY <1>6, ClosureRun
<1>7. CASE RunPing
  BY <1>7 DEF RunPing
<1>8. CASE Frame \/ OpenPage
  BY <1>8 DEF Frame, OpenPage
<1>9. CASE ClosePage
  BY <1>9 DEF ClosePage
<1>10. CASE Click
  BY <1>10 DEF Click, Forget
<1>11. CASE SetMode
  BY <1>11 DEF SetMode
<1> QED BY <1>1, <1>2, <1>3, <1>4, <1>5, <1>6, <1>7, <1>8, <1>9, <1>10, <1>11
       DEF PageNext, WorkerSide, Refresh, GameLoop, Player

(* While the authorization is under way the line does not tell what is stored. *)
LEMMA BusyText ==
  \A p \in Phases, a, b \in BOOLEAN : Busy(p) => TextFor(p, a) = TextFor(p, b)
  BY DEF Phases, Busy, TextFor

(* Without a call queued, a closure runs only while the authorization is under
   way, or none is there. *)
LEMMA UnheardClosure ==
  ASSUME PageTypeOK, QueueInv, RunClosure, Heard
  PROVE  Busy(phase)
<1>1. 1 \in DOMAIN closures
  BY ClosureRun
<1>2. DOMAIN pings = {} /\ ~telling
  BY DEF Heard
<1> QED BY <1>1, <1>2 DEF QueueInv

(* A refresh that read one state of the worker leaves the row right, and
   nothing changes that state without a call. *)
LEMMA PageFollows ==
  ASSUME PageTypeOK, mirror = keybind, QueueInv, RefreshInv, FollowsEvents, PageNext
  PROVE  FollowsEvents'
<1> USE DEF FollowsEvents, Heard, Free, statusVars, settings, locals, node
<1>1. CASE SetStatus \/ QueueListener
  BY <1>1, WorkerCalls
<1>2. CASE StoreQueued
  BY <1>2 DEF StoreQueued, Obtain, Authenticate, Authorized, TextFor
<1>3. CASE ReadState \/ SetButton
  BY <1>3 DEF ReadState, SetButton
<1>4. CASE SetText
  <2>1. UNCHANGED <<phase, kept, words, telling, pings, keybind, open, label, enabled, seen, known>>
    BY <1>4 DEF SetText
  <2>2. shown' = TextFor(seen, known) /\ step = "text"
    BY <1>4 DEF SetText
  <2>3. SUFFICES ASSUME Heard PROVE FollowsEvents'
    BY <2>1
  <2>4. /\ seen = phase /\ known = Authorized /\ label = LabelFor(known)
        /\ enabled = (~keybind /\ ~Busy(phase))
    BY <2>2, <2>3 DEF RefreshInv
  <2>5. Authorized' = Authorized /\ TextFor(phase, Authorized)' = TextFor(phase, Authorized)
    BY <2>1 DEF Authorized, TextFor
  <2> QED BY <2>1, <2>2, <2>4, <2>5
<1>5. CASE RunClosure
  <2>1. SUFFICES ASSUME Heard, open, step = "no" PROVE FollowsEvents'
    BY <1>5, ClosureRun
  <2>2. Busy(phase) /\ UNCHANGED <<phase, words, telling, settings, open, locals, node>>
    BY <1>5, <2>1, UnheardClosure, ClosureRun
  <2>3. Authorized \in BOOLEAN /\ Authorized' \in BOOLEAN /\ phase \in Phases
    BY DEF Authorized, PageTypeOK
  <2>4. TextFor(phase, Authorized)' = TextFor(phase, Authorized)
    BY <2>2, <2>3 DEF TextFor, Busy
  <2>5. shown' = TextFor(phase, Authorized)' /\ Busy(phase')
    BY <2>1, <2>2, <2>4
  <2> QED BY <2>1, <2>2, <2>5 DEF Busy
<1>6. CASE RunPing
  BY <1>6 DEF RunPing
<1>7. CASE Frame \/ OpenPage \/ Click
  BY <1>7 DEF Frame, OpenPage, Click
<1>8. CASE ClosePage
  BY <1>8 DEF ClosePage
<1>9. CASE SetMode
  BY <1>9 DEF SetMode, Authorized, TextFor
<1> QED BY <1>1, <1>2, <1>3, <1>4, <1>5, <1>6, <1>7, <1>8, <1>9
       DEF PageNext, WorkerSide, Refresh, GameLoop, Player

(* Every text a refresh shows has the colour that goes with the state. *)
LEMMA TextHasColour ==
  ASSUME phase \in Phases, WordsInv
  PROVE  ColourOf(TextFor(phase, Authorized)) = ColourFor(phase, Authorized)
<1> DEFINE t == TextFor(phase, Authorized)
<1>1. CASE phase = "Connected"
  <2>1. Authorized /\ words = "connected"
    BY <1>1 DEF Authorized, WordsInv, Said
  <2>2. t = "connected" /\ ColourFor(phase, Authorized) = "green"
    BY <1>1, <2>1 DEF TextFor, ColourFor
  <2> QED BY <2>2 DEF ColourOf
<1>2. CASE phase = "AwaitingConsent"
  <2>1. t = "prompt" /\ ColourFor(phase, Authorized) = "yellow"
    BY <1>2 DEF TextFor, ColourFor
  <2> QED BY <2>1 DEF ColourOf
<1>3. CASE phase = "Connecting"
  <2>1. t \in {"connecting", "refreshing"} /\ ColourFor(phase, Authorized) = "grey"
    BY <1>3 DEF TextFor, ColourFor, WordsInv, Said
  <2> QED BY <2>1 DEF ColourOf
<1>4. CASE phase = "NotConnected" /\ Authorized
  <2>1. t \in {"authorized", "authorized as"} /\ ColourFor(phase, Authorized) = "orange"
    BY <1>4 DEF TextFor, ColourFor
  <2> QED BY <2>1 DEF ColourOf
<1>5. CASE phase = "NotConnected" /\ ~Authorized
  <2>1. words \in {"reason", "not connected"}
    BY <1>5 DEF WordsInv, Said
  <2>2. t \in {"reason", "not authorized"} /\ ColourFor(phase, Authorized) = "red"
    BY <1>5, <2>1 DEF TextFor, ColourFor
  <2> QED BY <2>2 DEF ColourOf
<1> QED BY <1>1, <1>2, <1>3, <1>4, <1>5 DEF Phases

(* A line keeps its text and its colour together. *)
LEMMA PageColour == ASSUME PageTypeOK, WordsInv, ColourInv, PageNext PROVE ColourInv'
<1> USE DEF ColourInv
<1>1. CASE OpenPage
  BY <1>1 DEF OpenPage, ColourOf
<1>2. CASE SetText
  <2>1. CASE shown' = shown
    BY <1>2, <2>1 DEF SetText
  <2>2. CASE shown' # shown /\ ~mixed'
    <3>1. seen = phase /\ known = Authorized /\ colour' = ColourFor(seen, known)
      BY <1>2, <2>2 DEF SetText
    <3>2. shown' = TextFor(phase, Authorized) /\ colour' = ColourFor(phase, Authorized)
      BY <1>2, <3>1 DEF SetText
    <3> QED BY <3>2, TextHasColour DEF PageTypeOK
  <2> QED BY <2>1, <2>2
<1>3. CASE UNCHANGED <<shown, colour, mixed>>
  BY <1>3
<1> QED BY <1>1, <1>2, <1>3
       DEF PageNext, WorkerSide, Refresh, GameLoop, Player, node, SetStatus, QueueListener,
           StoreQueued, ReadState, SetButton, RunClosure, RunPing, Frame, ClosePage, Click, SetMode

(* The invariant holds in every reachable state. *)
THEOREM PageInvariant == PageSpec => []PageInv
<1>1. PageInit => PageInv
  BY PageStarts
<1>2. PageInv /\ [PageNext]_pageVars => PageInv'
  <2> SUFFICES ASSUME PageInv, [PageNext]_pageVars PROVE PageInv'
    OBVIOUS
  <2>1. CASE PageNext
    <3>1. PageTypeOK' /\ QueueInv' /\ WordsInv' /\ ColourInv'
      BY <2>1, PageTypes, PageQueue, PageWords, PageColour DEF PageInv
    <3>2. RefreshInv' /\ FollowsEvents'
      BY <2>1, PageRefresh, PageFollows DEF PageInv
    <3>3. mirror' = keybind'
      <4>1. SetMode \/ UNCHANGED <<keybind, mirror>>
        BY <2>1
           DEF PageNext, WorkerSide, Refresh, GameLoop, Player, settings, SetStatus,
               QueueListener, StoreQueued, ReadState, SetButton, SetText, RunClosure, RunPing,
               Frame, OpenPage, ClosePage, Click
      <4>2. SetMode => mirror' = keybind'
        BY DEF SetMode
      <4> QED BY <4>1, <4>2 DEF PageInv
    <3> QED BY <3>1, <3>2, <3>3 DEF PageInv
  <2>2. CASE UNCHANGED pageVars
    <3> USE <2>2 DEF pageVars, statusVars, settings, locals, node, PageInv
    <3>1. PageTypeOK'
      BY DEF PageTypeOK
    <3>2. QueueInv' /\ WordsInv'
      BY DEF QueueInv, WordsInv, Busy
    <3>3. RefreshInv' /\ ColourInv'
      BY DEF RefreshInv, ColourInv, Heard, Free, Busy, Authorized
    <3>4. FollowsEvents'
      BY DEF FollowsEvents, Heard, Free, Busy, Authorized, TextFor
    <3> QED BY <3>1, <3>2, <3>3, <3>4
  <2> QED BY <2>1, <2>2
<1> QED BY <1>1, <1>2, PTL DEF PageSpec

(* Without the frame's refresh: once the listener's calls are through, text,
   label and button are what a refresh would make them. *)
THEOREM RowFollows == PageSpec => []FollowsEvents
<1>1. PageInv => FollowsEvents
  BY DEF PageInv
<1> QED BY <1>1, PageInvariant, PTL

(* A line drawn from one state of the worker has the colour of that state. *)
THEOREM ColourRight == PageSpec => []ColourTellsState
<1>1. PageInv => ColourTellsState
  <2> SUFFICES ASSUME PageInv, open, Free, Heard, ~mixed
               PROVE  colour = ColourFor(phase, Authorized)
    BY DEF ColourTellsState
  <2>1. colour = ColourOf(shown) /\ shown = TextFor(phase, Authorized)
    BY DEF PageInv, ColourInv, FollowsEvents
  <2> QED BY <2>1, TextHasColour DEF PageInv, PageTypeOK
<1> QED BY <1>1, PageInvariant, PTL

(* A click that can be made does what its label says, unless the call that
   will redraw the row is queued or the worker's next step. *)
THEOREM LabelKept == PageSpec => ClickDoesWhatItSays
<1>1. PageInv /\ [PageNext]_pageVars
        => [Click => (label = LabelFor(Authorized) \/ ~Heard)]_pageVars
  <2> SUFFICES ASSUME PageInv, Click, Heard PROVE label = LabelFor(Authorized)
    OBVIOUS
  <2>1. open /\ Free /\ enabled
    BY DEF Click
  <2>2. ~Busy(phase)
    BY <2>1 DEF PageInv, RefreshInv
  <2> QED BY <2>1, <2>2 DEF PageInv, FollowsEvents
<1> QED BY <1>1, PageInvariant, PTL DEF PageSpec, ClickDoesWhatItSays
=============================================================================
