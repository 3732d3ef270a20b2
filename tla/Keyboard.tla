------------------------------ MODULE Keyboard ------------------------------
(***************************************************************************)
(* The PS/2 keyboard (keyboard.c): each poll, in the vsync, fetches one    *)
(* byte while no key is buffered and decodes it; the program takes the     *)
(* buffered key whenever it likes.  The device is external: it queues the  *)
(* make and break codes of the keys that are pressed and released.         *)
(***************************************************************************)
EXTENDS Integers, Sequences

CONSTANTS Presses    \* bound: how many keys are pressed

VARIABLES queue,     \* the device's bytes not yet fetched
          held,      \* the keys that are down
          up,        \* is_up
          extended,  \* is_extended
          pause,     \* pause_byte_count
          modifiers,
          buffered,  \* bufferedKey: the key, or "none"
          taking,    \* what KeyboardGetKey returns, between its read and its clear
          presses,
          typed,     \* history: keys pressed and not yet returned, with the shift at the press
          overlap    \* history: keys were held together in a way the decoder confuses

deviceVars == <<queue, held, presses, overlap>>
decoderVars == <<up, extended, pause, modifiers>>
keyboardVars == <<deviceVars, decoderVars, buffered, taking, typed>>

\* A normal key, an extended one, Pause, and the modifiers.
Keys == {"a", "left", "pause", "lshift", "rshift", "rctrl", "win"}
Extended == {"left", "rctrl", "win"}
Shifts == {"lshift", "rshift"}
Modifiers == Shifts \cup {"rctrl", "win"}

Code == [a |-> 28, left |-> 107, lshift |-> 18, rshift |-> 89, rctrl |-> 20, win |-> 31]
E0 == 224
E1 == 225
F0 == 240
Pause == <<E1, 20, 119, E1, F0, 20, F0, 119>>

Prefix(k) == IF k \in Extended THEN <<E0>> ELSE <<>>
Make(k) == IF k = "pause" THEN Pause ELSE Append(Prefix(k), Code[k])
Break(k) == IF k = "pause" THEN <<>> ELSE Prefix(k) \o <<F0, Code[k]>>

\* Only the normal keys have two characters.
Typed(k, shift) == [key |-> k, shifted |-> shift /\ k = "a"]

KeyboardInit ==
    /\ queue = <<>> /\ held = {} /\ presses = 0 /\ typed = <<>> /\ overlap = FALSE
    /\ up = FALSE /\ extended = FALSE /\ pause = 0 /\ modifiers = {}
    /\ buffered = "none" /\ taking = <<>>

(***************************************************************************)
(* The device.                                                             *)
(***************************************************************************)
\* A normal key decodes wrong while an extended key is down, and the shift
\* of two shift keys ends with the first.
Confuses(k) == \/ k \notin Extended \cup Shifts \cup {"pause"} /\ held \cap Extended # {}
               \/ k \in Shifts /\ held \cap Shifts # {}

Press(k) ==
    /\ presses < Presses /\ k \notin held
    /\ presses' = presses + 1
    /\ queue' = queue \o Make(k)
    /\ held' = IF k = "pause" THEN held ELSE held \cup {k}
    /\ overlap' = (overlap \/ Confuses(k))
    /\ typed' = IF k \in Modifiers THEN typed
                ELSE Append(typed, Typed(k, held \cap Shifts # {}))
    /\ UNCHANGED <<decoderVars, buffered, taking>>

LetGo(k) ==
    /\ k \in held
    /\ held' = held \ {k}
    /\ queue' = queue \o Break(k)
    /\ UNCHANGED <<decoderVars, buffered, taking, typed, presses, overlap>>

(***************************************************************************)
(* _Decode.                                                                *)
(***************************************************************************)
\* A modifier of code sc, which the extended prefix tells apart only for "win".
ModifierOf(sc) == IF sc \in {18, 89} THEN {"shift"} ELSE IF sc = 20 THEN {"ctrl"}
                  ELSE IF sc = 31 /\ extended THEN {"win"} ELSE {}

\* The key of code sc, 0 in the tables of the code for none.
KeyOf(sc) == IF sc = 28 /\ ~extended THEN "a" ELSE IF sc = 107 /\ extended THEN "left" ELSE "none"

DecodePause ==
    /\ pause > 0
    /\ pause' = pause - 1
    /\ buffered' = IF pause = 1 THEN "pause" ELSE "none"
    /\ UNCHANGED <<up, extended, modifiers>>

DecodePrefix(sc) ==
    /\ pause = 0 /\ sc \in {E0, E1}
    /\ extended' = (extended \/ sc = E0)
    /\ pause' = IF sc = E1 THEN 7 ELSE 0
    /\ buffered' = "none"
    /\ UNCHANGED <<up, modifiers>>

DecodeMake(sc) ==
    /\ pause = 0 /\ sc \notin {E0, E1} /\ ~up
    /\ up' = (sc = F0)
    /\ modifiers' = modifiers \cup ModifierOf(sc)
    /\ buffered' = KeyOf(sc)
    /\ UNCHANGED <<extended, pause>>

\* Mutant of DecodeBreak: the extended prefix is forgotten only with its own key.
DecodeBreakKeeps(sc) ==
    /\ pause = 0 /\ sc \notin {E0, E1} /\ up
    /\ up' = FALSE
    /\ extended' = (extended /\ ModifierOf(sc) # {})
    /\ modifiers' = modifiers \ ModifierOf(sc)
    /\ buffered' = "none"
    /\ UNCHANGED pause

DecodeBreak(sc) ==
    /\ pause = 0 /\ sc \notin {E0, E1} /\ up
    /\ up' = FALSE /\ extended' = FALSE
    /\ modifiers' = modifiers \ ModifierOf(sc)
    /\ buffered' = "none"
    /\ UNCHANGED pause

\* Mutant of MayPoll: it is fetched anyway.
MayPollAlways == TRUE

\* KeyboardPoll: nothing is fetched while a key is buffered.
MayPoll == buffered = "none"

KeyboardPoll ==
    /\ queue # <<>> /\ MayPoll
    /\ queue' = Tail(queue)
    /\ \/ DecodePause
       \/ DecodePrefix(Head(queue))
       \/ DecodeMake(Head(queue))
       \/ DecodeBreak(Head(queue))
    /\ UNCHANGED <<held, presses, overlap, taking, typed>>

\* A poll that finds no key changes nothing.
KeyboardPollEmpty == queue = <<>> /\ MayPoll /\ UNCHANGED keyboardVars

(***************************************************************************)
(* The program.                                                            *)
(***************************************************************************)
\* KeyboardGetKey(true): the key by the shift as it is now, then the clear.
KeyboardGetKey ==
    /\ buffered # "none" /\ taking = <<>>
    /\ taking' = <<Typed(buffered, "shift" \in modifiers)>>
    /\ UNCHANGED <<deviceVars, decoderVars, buffered, typed>>

GetKeyClear ==
    /\ taking # <<>>
    /\ taking' = <<>> /\ buffered' = "none"
    /\ typed' = IF typed = <<>> THEN <<>> ELSE Tail(typed)
    /\ UNCHANGED <<deviceVars, decoderVars>>

KeyboardNext == \/ \E k \in Keys : Press(k) \/ LetGo(k)
                \/ KeyboardPoll \/ KeyboardPollEmpty \/ KeyboardGetKey \/ GetKeyClear

KeyboardSpec == KeyboardInit /\ [][KeyboardNext]_keyboardVars

(***************************************************************************)
(* Properties.                                                             *)
(***************************************************************************)
\* Keys are returned once each, in order, by the shift they were typed with,
\* however late the program is and wherever the polls fall in KeyboardGetKey:
\* no byte, a shift's release included, is decoded while a key waits.
KeysInOrder ==
    ~overlap => /\ taking # <<>> => typed # <<>> /\ taking[1] = Head(typed)
                /\ queue = <<>> /\ buffered = "none" => typed = <<>>

\* With all keys released and their codes read the decoder is at rest, whatever
\* keys were held together: no modifier sticks, no prefix waits for the next key.
DecoderRests ==
    held = {} /\ queue = <<>> => modifiers = {} /\ ~up /\ ~extended /\ pause = 0
=============================================================================
