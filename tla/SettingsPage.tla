---------------------------- MODULE SettingsPage ----------------------------
(***************************************************************************)
(* The "Discord connection" row of the settings page and the delivery-mode *)
(* listener (discord_setting.cpp), against what the worker lets the game   *)
(* thread see (RpcStatus).                                                 *)
(*                                                                         *)
(* Every setStatus of the worker changes phase and text first and queues   *)
(* a call of the status listener next, behind the closures queued before   *)
(* it; the game thread goes on in between.  refreshDisplay looks at the    *)
(* worker three times (lines 105, 106 and 123-157); the worker goes on     *)
(* between them, the rest of the game thread does not.                     *)
(***************************************************************************)
EXTENDS RpcStatus, Naturals

CONSTANT
  MaxQueued  \* bound: closures and listener calls queued for the game loop

ASSUME PageAssumption == MaxQueued \in Nat

VARIABLES
  words,    \* rpc::status(), what the worker last said
  telling,  \* setStatus: phase and text are changed, the listener not yet queued
  pings,    \* queued listener calls: how many closures come before each
  keybind,  \* is delivery-mode "keybind"?
  mirror,   \* the saved value "keystroke-mode"
  open,     \* active() # nullptr: the page shows the row
  step,     \* where refreshDisplay is, "no" outside
  seen,     \* its local state
  known,    \* its local authorized
  label,    \* m_buttonLabel
  enabled,  \* is the button enabled?
  shown,    \* m_lastStatus, the text of the status line
  colour,   \* and its colour
  mixed,    \* history: was the line last drawn while the worker went on?
  unseen    \* history: delivery-mode changed since the last refresh

node     == <<label, enabled, shown, colour, mixed>>
locals   == <<step, seen, known>>
settings == <<keybind, mirror, unseen>>
pageVars == <<statusVars, words, telling, pings, settings, open, locals, node>>

Texts == {"", "not connected", "connecting", "refreshing", "prompt", "connected", "reason",
          "logging out", "not authorized", "authorized", "authorized as"}

PageInit ==
  /\ Init
  /\ words = "not connected" /\ telling = FALSE /\ pings = <<>>
  /\ keybind \in BOOLEAN /\ mirror = keybind /\ unseen = FALSE
  /\ open = FALSE /\ step = "no" /\ seen = "NotConnected" /\ known = FALSE
  /\ label = "Connect" /\ enabled = TRUE /\ shown = "" /\ colour = "white"
  /\ mixed = FALSE

-----------------------------------------------------------------------------
(* The texts that are said with a phase (setStatus). *)
Said(p) ==
  CASE p = "Connecting" -> {"connecting", "refreshing"}
    [] p = "AwaitingConsent" -> {"prompt"}
    [] p = "Connected" -> {"connected"}
    [] OTHER -> {"reason"}

RoomToQueue == Len(closures) + Len(pings) < MaxQueued

(* setStatus: phase and text change under the mutex. *)
SetStatus ==
  /\ ~telling /\ RoomToQueue
  /\ (\E p \in Phases : Announce(p)) \/ Drop
  /\ words' \in Said(phase')
  /\ telling' = TRUE
  /\ UNCHANGED <<pings, settings, open, locals, node>>

QueueListenerUnheard ==  \* faulty: a lost connection is not passed on to the listener
  /\ telling
  /\ telling' = FALSE
  /\ pings' = IF phase = "NotConnected" THEN pings ELSE Append(pings, Len(closures))
  /\ UNCHANGED <<statusVars, words, settings, open, locals, node>>

(* With the mutex let go, the listener is queued, whether or not anything
   changed. *)
QueueListener ==
  /\ telling
  /\ telling' = FALSE
  /\ pings' = Append(pings, Len(closures))
  /\ UNCHANGED <<statusVars, words, settings, open, locals, node>>

(* Tokens, and the user's name, are queued with no call of the listener. *)
StoreQueued ==
  /\ ~telling /\ RoomToQueue
  /\ Obtain \/ Authenticate
  /\ UNCHANGED <<words, telling, pings, settings, open, locals, node>>

-----------------------------------------------------------------------------
(* The game thread does one thing at a time. *)
Free == step = "no"

Authorized == phase = "Connected" \/ "access" \in kept

RunClosure ==
  /\ Free
  /\ pings # <<>> => Head(pings) > 0
  /\ StoreNext
  /\ pings' = [i \in DOMAIN pings |-> pings[i] - 1]
  /\ UNCHANGED <<words, telling, settings, open, locals, node>>

(* The status listener refreshes the row if there is one. *)
RunPing ==
  /\ Free
  /\ pings # <<>> /\ Head(pings) = 0
  /\ pings' = Tail(pings)
  /\ step' = IF open THEN "state" ELSE "no"
  /\ UNCHANGED <<statusVars, words, telling, settings, open, seen, known, node>>

OpenPageBlank ==  \* faulty: the label member is not initialised
  /\ Free /\ ~open
  /\ open' = TRUE /\ step' = "state"
  /\ label' = "" /\ enabled' = TRUE /\ shown' = "" /\ colour' = "white"
  /\ mixed' = FALSE
  /\ UNCHANGED <<statusVars, words, telling, pings, settings, seen, known>>

(* A new row starts with its defaults and is refreshed at once. *)
OpenPage ==
  /\ Free /\ ~open
  /\ open' = TRUE /\ step' = "state"
  /\ label' = "Connect" /\ enabled' = TRUE /\ shown' = "" /\ colour' = "white"
  /\ mixed' = FALSE
  /\ UNCHANGED <<statusVars, words, telling, pings, settings, seen, known>>

ClosePage ==
  /\ Free /\ open
  /\ open' = FALSE
  /\ UNCHANGED <<statusVars, words, telling, pings, settings, locals, node>>

(* update(), once a frame. *)
Frame ==
  /\ Free /\ open
  /\ step' = "state"
  /\ UNCHANGED <<statusVars, words, telling, pings, settings, open, seen, known, node>>

(* onButton: decide anew what the button means, do it, and refresh. *)
Click ==
  /\ Free /\ open /\ enabled
  /\ IF Authorized THEN Forget ELSE UNCHANGED statusVars
  /\ step' = "state"
  /\ UNCHANGED <<words, telling, pings, settings, open, seen, known, node>>

(* The delivery-mode listener: the mirror follows; direct mode also connects,
   which leaves it to the worker what happens. *)
SetMode ==
  /\ Free /\ open
  /\ keybind' = ~keybind
  /\ mirror' = ~keybind
  /\ unseen' = TRUE
  /\ UNCHANGED <<statusVars, words, telling, pings, open, locals, node>>

-----------------------------------------------------------------------------
(* refreshDisplay *)
Busy(p) == p \in {"Connecting", "AwaitingConsent"}

LabelFor(authorized) == IF authorized THEN "Log out" ELSE "Connect"

TextForTerse(p, authorized) ==  \* faulty: what is stored does not show in the text
  CASE p = "Connected" -> IF authorized THEN words ELSE "logging out"
    [] p = "AwaitingConsent" -> "prompt"
    [] OTHER -> words

TextFor(p, authorized) ==
  CASE p = "Connected" -> IF authorized THEN words ELSE "logging out"
    [] p = "AwaitingConsent" -> "prompt"
    [] p = "Connecting" -> words
    [] OTHER -> IF authorized
                THEN IF "username" \in kept THEN "authorized as" ELSE "authorized"
                ELSE IF words = "not connected" THEN "not authorized" ELSE words

ColourFor(p, authorized) ==
  CASE p = "Connected" -> IF authorized THEN "green" ELSE "grey"
    [] p = "AwaitingConsent" -> "yellow"
    [] p = "Connecting" -> "grey"
    [] OTHER -> IF authorized THEN "orange" ELSE "red"

ReadState ==
  /\ step = "state"
  /\ seen' = phase
  /\ step' = "button"
  /\ UNCHANGED <<statusVars, words, telling, pings, settings, open, known, node>>

SetButtonAlways ==  \* faulty: the button is not grayed while a connect is in flight
  /\ step = "button"
  /\ known' = Authorized
  /\ label' = LabelFor(known')
  /\ enabled' = ~mirror
  /\ unseen' = FALSE
  /\ step' = "text"
  /\ UNCHANGED <<statusVars, words, telling, pings, keybind, mirror, open, seen,
                 shown, colour, mixed>>

(* isAuthorized asks for the state again. *)
SetButton ==
  /\ step = "button"
  /\ known' = Authorized
  /\ label' = LabelFor(known')
  /\ enabled' = (~mirror /\ ~Busy(seen))
  /\ unseen' = FALSE
  /\ step' = "text"
  /\ UNCHANGED <<statusVars, words, telling, pings, keybind, mirror, open, seen,
                 shown, colour, mixed>>

(* The line is redrawn, colour and all, only if its text is another one. *)
SetText ==
  /\ step = "text"
  /\ shown' = TextFor(seen, known)
  /\ colour' = IF shown' = shown THEN colour ELSE ColourFor(seen, known)
  /\ mixed' = IF shown' = shown THEN mixed ELSE seen # phase \/ known # Authorized
  /\ step' = "no"
  /\ UNCHANGED <<statusVars, words, telling, pings, settings, open, seen, known, label, enabled>>

-----------------------------------------------------------------------------
WorkerSide == SetStatus \/ QueueListener \/ StoreQueued
Refresh    == ReadState \/ SetButton \/ SetText
GameLoop   == RunClosure \/ RunPing \/ Frame
Player     == OpenPage \/ ClosePage \/ Click \/ SetMode

PageNext == WorkerSide \/ Refresh \/ GameLoop \/ Player

PageSpec == PageInit /\ [][PageNext]_pageVars
-----------------------------------------------------------------------------
PageTypeOK ==
  /\ phase \in Phases /\ granted \in BOOLEAN /\ kept \in SUBSET KeptKeys
  /\ closures \in Seq(SUBSET KeptKeys) /\ pings \in Seq(0..Len(closures))
  /\ words \in Texts /\ shown \in Texts /\ telling \in BOOLEAN
  /\ keybind \in BOOLEAN /\ mirror \in BOOLEAN /\ unseen \in BOOLEAN
  /\ open \in BOOLEAN /\ known \in BOOLEAN /\ enabled \in BOOLEAN
  /\ step \in {"no", "state", "button", "text"} /\ seen \in Phases
  /\ label \in {"Connect", "Log out"}
  /\ colour \in {"white", "red", "orange", "yellow", "green", "grey"}

(* The game thread has heard of all the worker did: no listener call is queued,
   nor about to be. *)
Heard == pings = <<>> /\ ~telling

(* "Refreshes are event-driven" (discord_setting.cpp:5-7): once the listener
   calls are through, the row shows what a refresh would show now, even if
   the per-frame call never came, and although refreshDisplay may have mixed
   two states of the worker.  Only a stored token may leave the label of a
   grayed button behind, and a change of delivery-mode its graying. *)
FollowsEvents ==
  open /\ Free /\ Heard =>
    /\ shown = TextFor(phase, Authorized)
    /\ label = LabelFor(Authorized) \/ Busy(phase)
    /\ enabled = (~keybind /\ ~Busy(phase)) \/ unseen

(* "a live, color-coded status line" (discord_setting.cpp:1-2): once the
   listener calls are through, the colour is that of the state, too.  A line
   that was drawn while the worker went on may keep a wrong colour for good,
   since line 159 draws no text twice. *)
ColourTellsState ==
  open /\ Free /\ Heard /\ ~mixed => colour = ColourFor(phase, Authorized)

(* A click does what the label says (onButton decides on its own, after the
   label was drawn): the worker can come between only with a setStatus whose
   listener call, the one that will redraw the row, is queued or is its very
   next step. *)
ClickDoesWhatItSays ==
  [][Click => (label = LabelFor(Authorized) \/ ~Heard)]_pageVars

-----------------------------------------------------------------------------
(* The invariant behind these, in parts.  The calls are queued in the order
   of the closures before them, and a closure is followed by a call unless the
   authorization is still under way or the call is about to be queued. *)
QueueInv ==
  /\ \A i, j \in DOMAIN pings : i < j => pings[i] <= pings[j]
  /\ \A i \in DOMAIN closures : Busy(phase) \/ telling \/ \E j \in DOMAIN pings : i <= pings[j]

(* What the worker said last goes with its phase. *)
WordsInv == words \in Said(phase) \cup (IF phase = "NotConnected" THEN {"not connected"} ELSE {})

(* What refreshDisplay has read is out of date only if a call is queued, or about
   to be, that will make it read again; a grayed button stays gray until then. *)
RefreshInv ==
  Heard =>
    /\ step \in {"button", "text"} => seen = phase
    /\ step = "text" =>
         /\ known = Authorized /\ label = LabelFor(known)
         /\ enabled = (~keybind /\ ~Busy(phase))
    /\ open /\ Free /\ Busy(phase) => ~enabled

(* A line that was drawn from one state of the worker has the colour of its
   text, and each text has one. *)
ColourOf(text) ==
  CASE text = "" -> "white"
    [] text \in {"connecting", "refreshing", "logging out"} -> "grey"
    [] text = "prompt" -> "yellow"
    [] text = "connected" -> "green"
    [] text \in {"authorized", "authorized as"} -> "orange"
    [] OTHER -> "red"
ColourInv == ~mixed => colour = ColourOf(shown)

PageInv ==
  /\ PageTypeOK /\ mirror = keybind
  /\ QueueInv /\ WordsInv /\ RefreshInv /\ ColourInv /\ FollowsEvents
=============================================================================
