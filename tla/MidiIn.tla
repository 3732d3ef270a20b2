------------------------------- MODULE MidiIn -------------------------------
(***************************************************************************)
(* MIDI in (MIDI_IN == ENABLED): ProcessMusic empties the receiving ring   *)
(* once per frame and plays what it finds.  The sync interrupt nests in it *)
(* and puts bytes between any two of its reads.  A message that is not all *)
(* there yet is left for a later frame by handing its first byte back.     *)
(***************************************************************************)
EXTENDS UartRing, SequencesExt

CONSTANTS NoteOn, Control, Program,  \* 0x90, 0xb0 and 0xc0 with their channel
          Other,                     \* a status ProcessMusic does not know
          RealTime,                  \* 0xf0 and more
          Data,                      \* bytes below 0x80
          MidiBytes,                 \* bound: how many bytes come
          Inside                     \* real-time bytes come inside messages too

VARIABLES midiAt,            \* where ProcessMusic is in its loop
          c1,                \* the byte it looks at
          lastMidiInStatus,
          played,            \* the messages it acted on
          heard              \* the sender's side: see Heard

midiVars == <<midiAt, c1, lastMidiInStatus, played>>
allMidiVars == <<uartVars, midiVars, heard>>

Status == {NoteOn, Control, Program, Other}
Args(s) == IF s \in {NoteOn, Control} THEN 2 ELSE 1

None == "none"

MidiInit ==
    /\ UartInit
    /\ midiAt = "out" /\ c1 = Blank /\ lastMidiInStatus = None
    /\ played = <<>>
    /\ heard = [status |-> None, owed |-> 0, args |-> <<>>, messages |-> <<>>, left |-> MidiBytes]

(***************************************************************************)
(* The sender: a MIDI stream of whole messages, with running status, that  *)
(* may pause anywhere.  heard.messages are the messages that a receiver    *)
(* takes from the bytes so far (Other's left out), "owed" is how many      *)
(* bytes the message now being sent still needs.                           *)
(***************************************************************************)
Heard(b) ==
    LET h == [heard EXCEPT !.left = @ - 1]
        owed == (IF h.owed = 0 THEN Args(h.status) ELSE h.owed) - 1
        args == Append(h.args, b)
    IN  CASE b = RealTime -> h
          [] b \in Status -> [h EXCEPT !.status = b, !.owed = Args(b)]
          [] owed > 0 -> [h EXCEPT !.owed = owed, !.args = args]
          [] OTHER -> [h EXCEPT !.owed = 0, !.args = <<>>,
                                !.messages = IF h.status = Other THEN @
                                             ELSE Append(@, <<h.status>> \o args)]

MaySend(b) ==
    /\ heard.left > 0
    /\ b \in Data => heard.status # None
    /\ b \in Status => heard.owed = 0
    /\ b = RealTime => Inside \/ heard.owed = 0

Receive(b) ==
    /\ MaySend(b)
    /\ ScanlineIn(b, FALSE)
    /\ heard' = Heard(b)
    /\ UNCHANGED midiVars

(***************************************************************************)
(* ProcessMusic.                                                           *)
(***************************************************************************)
Unread == Ahead(rxHead, rxTail, RxSize)

Frame == /\ midiAt = "out"
         /\ midiAt' = "loop"
         /\ UNCHANGED <<uartVars, c1, lastMidiInStatus, played, heard>>

\* ReadUART found nothing: MIDI_NULL ends the loop.
MidiLoopEnds == /\ midiAt = "loop" /\ uartCall = "none"
            /\ Unread = 0
            /\ midiAt' = "out"
            /\ UNCHANGED <<uartVars, c1, lastMidiInStatus, played, heard>>

\* ReadUART where a byte is there, by now or by an earlier check.
ReadUART == /\ midiAt \in {"loop", "first", "second"}
            /\ ReadChar
            /\ UNCHANGED <<midiVars, heard>>

Act(message) == played' = Append(played, message)

\* The first byte of a turn of the loop.
GotFirst ==
    /\ midiAt = "loop"
    /\ ReadCharTail
    /\ c1' = got
    /\ midiAt' = IF got = RealTime THEN "loop" ELSE "switch"
    /\ lastMidiInStatus' = IF got \in Status THEN got ELSE lastMidiInStatus
    /\ UNCHANGED <<played, heard>>

\* How many bytes the message at c1 still needs.
Needs == CASE c1 \in {NoteOn, Control} -> 2
           [] c1 = Program -> 1
           [] c1 \notin Status /\ lastMidiInStatus \in {NoteOn, Control} -> 1
           [] OTHER -> 0

\* Mutant of NotThere: the frame ends, but the byte is not handed back.
NotThereKept ==
    /\ midiAt = "switch"
    /\ Unread < Needs
    /\ midiAt' = "out"
    /\ UNCHANGED <<uartVars, c1, lastMidiInStatus, played, heard>>

\* UartGoBack(1): the frame is over for this message.
NotThere ==
    /\ midiAt = "switch"
    /\ Unread < Needs
    /\ rxTail' = IF rxTail = 0 THEN RxSize - 1 ELSE rxTail - 1
    /\ overrun' = (overrun \/ Unread = RxSize - 1)
    /\ midiAt' = "out"
    /\ UNCHANGED <<rxBuf, rxHead, got, uartCall, txVars, c1, lastMidiInStatus, played, heard>>

Switch ==
    /\ midiAt = "switch"
    /\ Unread >= Needs
    /\ midiAt' = CASE c1 \in {NoteOn, Control} -> "first"
                   [] Needs = 1 -> "second"
                   [] OTHER -> "loop"
    /\ IF c1 \notin Status /\ lastMidiInStatus = Program
       THEN Act(<<Program, c1>>) ELSE UNCHANGED played
    /\ UNCHANGED <<uartVars, c1, lastMidiInStatus, heard>>

\* The note or the controller, with the status still in lastMidiInStatus.
GotNote ==
    /\ midiAt = "first"
    /\ ReadCharTail
    /\ c1' = got
    /\ midiAt' = "second"
    /\ UNCHANGED <<lastMidiInStatus, played, heard>>

\* The last byte: the volume, the controller's value or the patch.
GotLast ==
    /\ midiAt = "second"
    /\ ReadCharTail
    /\ Act(IF lastMidiInStatus = Program THEN <<Program, got>>
           ELSE <<lastMidiInStatus, c1, got>>)
    /\ midiAt' = "loop"
    /\ UNCHANGED <<c1, lastMidiInStatus, heard>>

\* After an overrun the bytes that were counted may be gone: MIDI_NULL is data.
ReadNull ==
    /\ midiAt \in {"first", "second"} /\ uartCall = "none"
    /\ Unread = 0
    /\ c1' = None
    /\ midiAt' = IF midiAt = "first" THEN "second" ELSE "loop"
    /\ played' = IF midiAt = "first" THEN played
                 ELSE Append(played, <<lastMidiInStatus, c1, None>>)
    /\ UNCHANGED <<uartVars, lastMidiInStatus, heard>>

MidiProcess == \/ Frame \/ MidiLoopEnds \/ ReadUART \/ GotFirst
               \/ ReadNull \/ NotThere \/ Switch \/ GotNote \/ GotLast

MidiNext == (\E b \in Bytes : Receive(b)) \/ MidiProcess

\* The vsync interrupt runs ProcessMusic every frame, and its loop goes on.
MidiSpec == MidiInit /\ [][MidiNext]_allMidiVars /\ WF_allMidiVars(MidiProcess)

(***************************************************************************)
(* Properties.                                                             *)
(***************************************************************************)
\* ProcessMusic has acted on every message that came, in order and on none
\* twice.  (Both sides only ever grow, so a wrong message would stay.  Where the
\* ring overruns, bytes are lost.)
MidiAllPlayed == overrun \/ played = heard.messages
=============================================================================
