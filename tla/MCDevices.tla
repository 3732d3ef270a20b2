------------------------------ MODULE MCDevices ------------------------------
(***************************************************************************)
(* The parts of the kernel that talk to something outside and share no     *)
(* state with each other, one of them in each behaviour: the UART rings    *)
(* with any program, the UART with a MIDI sender, a song streamed from     *)
(* SPI RAM, one streamed from the SD card, the SD card's driver, the       *)
(* EEPROM and the keyboard.                                                *)
(***************************************************************************)
EXTENDS MidiIn, SongStream, SdDriver, EepromBlocks, Keyboard, WstStream

CONSTANTS d, e   \* MIDI data bytes

VARIABLE device  \* the part that runs

devices == <<device, allMidiVars, streamVars, sdVars, eepromVars, keyboardVars, wstVars>>

(***************************************************************************)
(* Small instances.                                                        *)
(***************************************************************************)
\* It loops but for its first byte, and is twice as long as the ring takes.
MCSong == <<"loopStart", "note", "second", "tickEnd", "note", "second", "note", "second",
            "tickEnd", "loopEnd">>

\* Six entries in three sectors, the first four of them in a row.
MCWords == [i \in 0 .. 5 |-> IF i < 4 THEN i + 1 ELSE i + 5]

\* Ids that share a byte.  The EEPROM comes erased, with the blocks of a
\* program that has no signature, or with a game's block.
MCIds == {<<"a", "x">>, <<"b", "x">>}
MCSignature == <<"s", "t">>
MCErased == [i \in Block |-> <<"ff", "ff", "ff">>]
MCOld == [MCErased EXCEPT ![1] = <<"b", "ff", "p">>, ![2] = <<"a", "x", "p">>]
MCUsed == [MCErased EXCEPT ![0] = <<"s", "t", "q">>, ![2] = <<"a", "x", "q">>]
MCShipped == {MCErased, MCOld, MCUsed}

(***************************************************************************)
(* The specification.                                                      *)
(***************************************************************************)
DevicesInit ==
    /\ device \in {"uart", "midi", "stream", "sd", "eeprom", "keyboard", "wst"}
    /\ MidiInit /\ StreamInit /\ SdInit /\ EepromInit /\ KeyboardInit
    /\ WstInit
    /\ device # "sd" => kind = CHOOSE k \in Kinds : TRUE
    /\ device # "eeprom" => eeprom = MCErased

\* What comes in differs byte by byte where a MIDI sender sends it.
Uart == device = "uart" /\ UartNext({d}, {d, e})
        /\ UNCHANGED <<device, midiVars, heard, streamVars, sdVars, eepromVars, keyboardVars, wstVars>>
Midi(A) == device = "midi" /\ A
           /\ UNCHANGED <<device, streamVars, sdVars, eepromVars, keyboardVars, wstVars>>
Stream(A) == device = "stream" /\ A
             /\ UNCHANGED <<device, allMidiVars, sdVars, eepromVars, keyboardVars, wstVars>>
Sd == device = "sd" /\ SdNext
      /\ UNCHANGED <<device, allMidiVars, streamVars, eepromVars, keyboardVars, wstVars>>
Eeprom == device = "eeprom" /\ EepromNext
          /\ UNCHANGED <<device, allMidiVars, streamVars, sdVars, keyboardVars, wstVars>>
Keyb == device = "keyboard" /\ KeyboardNext
         /\ UNCHANGED <<device, allMidiVars, streamVars, sdVars, eepromVars, wstVars>>
Wst(A) == device = "wst" /\ A
          /\ UNCHANGED <<device, allMidiVars, streamVars, sdVars, eepromVars, keyboardVars>>

DevicesNext == Uart \/ Midi(MidiNext) \/ Stream(StreamNext) \/ Sd \/ Eeprom \/ Keyb \/ Wst(WstNext)

\* The fairness of MidiSpec, StreamSpec and WstSpec: of the actions joined in one
\* condition only those of the device are ever enabled.
DevicesSpec ==
    /\ DevicesInit /\ [][DevicesNext]_devices
    /\ WF_devices(Midi(MidiProcess) \/ Stream(Interrupt) \/ Wst(BlankLine \/ FrameLine))
    /\ SF_devices(Stream(Fill) \/ Wst(GoOn))
    /\ SF_devices(Stream(Enter /\ ~vsyncFlag) \/ Wst(WstPoll))
    /\ SF_devices(Stream(SongBufWrite))

\* However the frames cut the stream, ProcessMusic comes to act on all of it: no
\* message stays behind in the ring because its first byte was handed back once
\* too often or too rarely.
MidiPlaysAll == <>[](device = "midi" => MidiAllPlayed)

\* The song in SPI RAM never stops for good, however slowly the ring is filled:
\* it comes round to its loop's start again and again, unless it is started over
\* so often.
StreamGoesOn == []<>(device = "stream" => SongComesRound)
=============================================================================
