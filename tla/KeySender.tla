------------------------------ MODULE KeySender ------------------------------
(***************************************************************************)
(* From the key bound in the game to the events a tap is made of           *)
(* (deafen.cpp keyNameFromCode and specFromKeybind, keysender_win.cpp,     *)
(* keysender_mac.cpp).  Three tables, written apart, must agree on what a  *)
(* name means; a name without an entry is outside a table's domain.        *)
(* Nothing here has state: TLC evaluates the two facts at the end.         *)
(***************************************************************************)
EXTENDS Integers, Sequences, FiniteSets, TLC
LOCAL INSTANCE SequencesExt

Letters == << "a", "b", "c", "d", "e", "f", "g", "h", "i", "j", "k", "l", "m",
              "n", "o", "p", "q", "r", "s", "t", "u", "v", "w", "x", "y", "z" >>
Digits  == << "0", "1", "2", "3", "4", "5", "6", "7", "8", "9" >>
FKeys   == << "f1", "f2", "f3", "f4", "f5", "f6", "f7", "f8", "f9", "f10", "f11", "f12",
              "f13", "f14", "f15", "f16", "f17", "f18", "f19", "f20", "f21", "f22",
              "f23", "f24" >>

(* names[1] has the code first, and so on. *)
From(first, names) == [code \in first..(first + Len(names) - 1) |-> names[code - first + 1]]
Codes(first, names) ==
  [name \in ToSet(names) |-> first + (CHOOSE i \in DOMAIN names : names[i] = name) - 1]

-----------------------------------------------------------------------------
(* keyNameFromCode, a code per name: the game's codes are mostly Windows' own,
   with other ones for arrows and for what Geode normalises. *)
NamedCodes ==
  [ space |-> {32}, enter |-> {13, 4105}, tab |-> {9}, backspace |-> {8}, delete |-> {46},
    home |-> {36}, end |-> {35}, pageup |-> {33}, pagedown |-> {34},
    up |-> {38, 283}, down |-> {40, 284}, left |-> {37, 285}, right |-> {39, 286},
    minus |-> {189}, equal |-> {184, 187, 4097, 4104}, comma |-> {188}, period |-> {190},
    slash |-> {191, 4103}, semicolon |-> {186, 4101}, apostrophe |-> {222, 4102},
    bracketleft |-> {219, 4098}, bracketright |-> {221, 4099}, backslash |-> {220, 4100},
    grave |-> {192, 4096} ]

NamedKeys ==
  [code \in UNION {NamedCodes[name] : name \in DOMAIN NamedCodes} |->
     CHOOSE name \in DOMAIN NamedCodes : code \in NamedCodes[name]]

KeyNameFromCode ==
  From(65, Letters) @@ From(48, Digits) @@ From(112, FKeys) @@ NamedKeys

(* vkFor: the virtual key codes of winuser.h. *)
VkFor ==
  Codes(65, Letters) @@ Codes(48, Digits) @@ Codes(112, FKeys) @@
  [ space |-> 32, enter |-> 13, tab |-> 9, backspace |-> 8, delete |-> 46, esc |-> 27,
    home |-> 36, end |-> 35, pageup |-> 33, pagedown |-> 34,
    up |-> 38, down |-> 40, left |-> 37, right |-> 39,
    minus |-> 189, equal |-> 187, comma |-> 188, period |-> 190, slash |-> 191,
    semicolon |-> 186, apostrophe |-> 222, bracketleft |-> 219, bracketright |-> 221,
    backslash |-> 220, grave |-> 192 ]

(* keyCodeFor: Carbon's key codes. *)
MacCodes(names, codes) ==
  [name \in ToSet(names) |-> codes[CHOOSE i \in DOMAIN names : names[i] = name]]

KeyCodeFor ==
  MacCodes(Letters, << 0, 11, 8, 2, 14, 3, 5, 4, 34, 38, 40, 37, 46,
                       45, 31, 35, 12, 15, 1, 17, 32, 9, 13, 7, 16, 6 >>) @@
  MacCodes(Digits, << 29, 18, 19, 20, 21, 23, 22, 26, 28, 25 >>) @@
  MacCodes(SubSeq(FKeys, 1, 20), << 122, 120, 99, 118, 96, 97, 98, 100, 101, 109, 103, 111,
                                    105, 107, 113, 106, 64, 79, 80, 90 >>) @@
  [ space |-> 49, enter |-> 36, tab |-> 48, backspace |-> 51, delete |-> 117, esc |-> 53,
    home |-> 115, end |-> 119, pageup |-> 116, pagedown |-> 121,
    up |-> 126, down |-> 125, left |-> 123, right |-> 124,
    minus |-> 27, equal |-> 24, comma |-> 43, period |-> 47, slash |-> 44,
    semicolon |-> 41, apostrophe |-> 39, bracketleft |-> 33, bracketright |-> 30,
    backslash |-> 42, grave |-> 50 ]

-----------------------------------------------------------------------------
(* tapNative: the modifiers go down, the key down and up, the modifiers up
   again in reverse. *)
Modifiers == << "ctrl", "shift", "alt", "super" >>

Pressed(key)  == [key |-> key, down |-> TRUE]
Released(key) == [key |-> key, down |-> FALSE]

Tap(mods) ==
  LET held == SelectSeq(Modifiers, LAMBDA m : m \in mods)
  IN  [i \in DOMAIN held |-> Pressed(held[i])]
        \o <<Pressed("key"), Released("key")>>
        \o [i \in DOMAIN held |-> Released(Reverse(held)[i])]

(* The keys that are down after some events, on a keyboard nobody touches. *)
Held(events) ==
  {events[i].key : i \in {j \in DOMAIN events :
     events[j].down /\ \A k \in DOMAIN events : k > j => events[k] # Released(events[j].key)}}

-----------------------------------------------------------------------------
(* The names of KeyNameFromCode are known to both senders but for F21 to F24,
   which "have no Mac key" (keysender_mac.cpp:20); different keys are sent as
   different codes; and on Windows, a bound key with a virtual key code is
   sent as that code, "OEMPlus is 0xB8 (not VK's 0xBB)" being the only one
   that is not its own (deafen.cpp:18-20). *)
ASSUME TapsTheBoundKey ==
  LET names == ToSet(Letters \o Digits \o FKeys) \cup DOMAIN NamedCodes
      Injective(codes) == \A m, n \in DOMAIN codes : codes[m] = codes[n] => m = n
  IN  /\ {KeyNameFromCode[c] : c \in DOMAIN KeyNameFromCode} = names
      /\ names \subseteq DOMAIN VkFor
      /\ names \ DOMAIN KeyCodeFor = {"f21", "f22", "f23", "f24"}
      /\ Injective(VkFor) /\ Injective(KeyCodeFor)
      /\ \A c \in DOMAIN KeyNameFromCode \cap 0..255 :
           VkFor[KeyNameFromCode[c]] = c \/ c = 184

(* A tap that is delivered presses the key once, with the modifiers bound and
   no others, and leaves nothing held.  One that SendInput breaks off
   (keysender_win.cpp:85-88) may leave keys held; the next tap of that key is
   seen as bound all the same, and leaves nothing held again. *)
ASSUME TapHeals ==
  \A mods \in SUBSET ToSet(Modifiers) : \A cut \in 0..Len(Tap(mods)) :
    LET before == SubSeq(Tap(mods), 1, cut)
        press  == Len(before) + Cardinality(mods) + 1
        events == before \o Tap(mods)
    IN  /\ events[press] = Pressed("key")
        /\ Held(SubSeq(events, 1, press)) = mods \cup {"key"}
        /\ Held(events) = {}
=============================================================================
