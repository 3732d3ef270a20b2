# Uzebox kernel: specifications, model checks and proofs

The Uzebox is a game console built on an 8-bit AVR ATmega644 at 28.6 MHz. Its
kernel (`src/kernel`) draws the video in software from a timer interrupt, mixes
the sound in the same interrupt, and gives games a file library, controllers,
a keyboard, a serial port and an EEPROM store. This directory holds TLA+
specifications of the kernel's own logic, the TLC configurations that check
them on small instances, and theorems that TLAPS proves for every instance.

    tlc -workers 2 -config UzeFS_errors.cfg MCUzeFS.tla      # any run of section 4
    tlapm UzeFSCardProofs.tla                                # any *Proofs.tla

## 1. Inventory

Paths are below `src/kernel` unless they start with `src`.

| component | source | state | operations | hard behaviour |
|---|---|---|---|---|
| UzeFS file library | `uzefs/uzefs.c`, `uzefs.h` | the card; the lent buffer and its kept sector (`win`, `win_sect`, `wstate`), the volume (`vol`, with the free hint and `VF_FSI`), the slots (`slots`) | mount, unmount, lend, unlend, open, close, read, write, seek, truncate, sync, fragments, extent, stat, delete, rename, opendir, readdir | order of card writes against power cuts; late writes of the kept sector; a command that fails half-way; positions on sector and cluster boundaries; handles sharing one FAT; long names over several entries; a root directory that grows |
| UzeFS card driver | `uzefs/uzefs_sd.c` | the card's type, the open stream, the card itself | init, read a window, count a run, measure gaps, write, registers, stream begin, restart, end | a byte always in flight; resets inside a read; a stream open between calls |
| UzeFS in the bootloader | `uzefs/uzefs_bl.c` | one file | open, read | a read-only subset of the library |
| Video engine: sync and vsync | `uzeboxVideoEngineCore.s`, `uzeboxVideoEngine.c` | `sync_phase`, `sync_pulse`, `sync_flags`, the vsync counter, callbacks, the fader | the sync interrupt, `WaitVsync`, `GetVsyncFlag`, `ClearVsyncFlag`, counters, `FadeIn`, `FadeOut`, callback setters | the interrupt enables interrupts for the vsync work and nests; updates of the main program are not atomic |
| Sound engine | `uzeboxSoundEngine.c`, `uzeboxSoundEngineCore.s` | tracks, song position, the song buffer, MIDI status | `TriggerFx`, `TriggerNote`, `StartSong`, `StopSong`, `ProcessMusic` in the interrupt, `SongBufWrite`, MIDI in | tracks written by both sides; a ring with no full check; messages cut by frames |
| Sound mixers | `soundMixerVsync.s`, `soundMixerInline.s` | mixing banks, channels, UART rings | mix a line or a field, move a UART byte | cycle counting; banks shared with the sync pulses |
| UART rings | `uzeboxCore.c`, `soundMixerInline.s` | two rings | `UartReadChar`, `UartSendChar`, `UartGoBack`, `InitUartRxBuffer`, the scanline | loads and stores of both sides interleave; overrun |
| EEPROM blocks | `uzeboxCore.c` | the EEPROM's bytes | read, write, format, `FormatEeprom2`, the check of `Initialize` | a power cut between two bytes |
| Controllers and reset | `uzeboxCore.c` | pads, mouse, watchdog seed | port sequences | device timing |
| Keyboard | `keyboard.c` | decoder flags, key buffer | poll, decode, get | prefixes and releases; a key taken while a poll comes |
| Uzeamp song stream | `src/demos/Uzeamp/uzmmode/wst.c`, `gen_wst.py` | the sound buffer as a ring, an open multiple-block read, two counts of samples | `wst_start`, `wst_poll`, `wst_stop`, `wst_fill`, the text frame's byte a line | the program and the frame's scanlines clock one card and fill one ring |
| Stand-alone UART | `uart.c` | a ring | receive interrupt, read | overrun |
| SD, SPI RAM drivers | `sdBase.S`, `mmc.s`, `spiram.s`, `bootlib.s` | port registers | byte protocols | timing against devices outside the repository |
| Video modes | `videoMode*` | screen memory | cycle-exact rendering | timing, pixels |
| FatFs, Petit FatFs | `fatfs`, `petitfatfs` | third-party | | |
| Uzem, Uzenet, asset tools, demos | `src/tools`, `src/demos` | programs of their own | | |

How they interact. The sync interrupt (every half scanline, or every line)
plays a sample, moves UART bytes, draws the frame and, once a field, does the
vsync work with interrupts on: fading, `ProcessMusic`, mixing, the controllers,
the keyboard's poll and the user's callbacks. The main program shares with it,
without locks, the sound tracks, the song buffer, the vsync flag, the UART
rings, the key buffer and the fader. UzeFS is called from the main program only
and is not re-entrant; inside it the calls of different handles meet in the FAT
and the directory on the card, the kept sector and the free hint. Uzeamp keeps
a read of the card open across fields: the blank reads ahead in the program,
the frame's lines read on in the interrupt.

What makes each component correct:

* UzeFS: whenever the power goes no cluster is in two chains or in a chain and
  free, no file's size falls short of its chain, no file shows bytes that are
  not its own; a handle's position agrees with its chain; a writer excludes
  every other handle; a sync that succeeds leaves everything on the card; no
  cluster is lost when nothing fails; every call returns. The directory is a
  folder: names change one at a time, a long name belongs to its file, a
  listing misses nothing.
* SD driver: a read gives the bytes that were asked for, a count the length of
  the run, and no command goes to a card that is still sending.
* Video: fields have their pulses however the pulses nest in the work, the
  program is never left waiting for a frame or a fade, a fade ends as it was
  asked for whatever fade it was started over, a sample is mixed before it is
  played.
* Sound: an effect plays out, the song keeps its instruments, loops run as
  often as they say; a streamed song is played in order and goes on.
* UART: each ring is a first-in first-out queue; MIDI messages are acted on
  whole, in order, all of them.
* Keyboard: keys come in order with the shift they were typed with, and the
  decoder comes to rest.
* EEPROM: a block is read back as it was written, whatever else was cut off.

`PROJECT.json` lists the places in the code where these are hard to keep and
hard to test, with the properties that watch each.

## 2. Plan

| order | modules | what | state |
|---|---|---|---|
| 1 | `UzeFSVolume`, `UzeFS`, `MCUzeFS`, `UzeFSProofs`, `UzeFSCardProofs`, `UzeFSPositionProofs`, `UzeFSSizeProofs`, `UzeFSDataProofs` | the volume and every call of the library as steps, tiers 0 and 2, card errors, power cuts | done: type correctness, the sound card, the one writer, the handles' positions, sizes against chains, the bytes of files, and that no cluster is lost are proved |
| 2 | `ByteQueue`, `UartRing`, `MidiIn` | the rings, the queue they implement, and a reader that hands bytes back | done: both refinements are proved (in `EngineProofs`) |
| 3 | `SoundTracks`, `VideoSync`, `EngineProofs`, `MCEngine` | what the sync interrupt shares with the program | done; `LoopsRunOut` is not proved |
| 4 | `SongStream`, `SdDriver`, `SdDriverProofs`, `EepromBlocks`, `Keyboard`, `WstStream`, `DeviceProofs`, `MCDevices` | what serves devices | done: the four promises of the card driver, the keyboard's, the two song streams' and the EEPROM's are proved |
| 5 | `Folder`, `UzeFSDir`, `MCUzeFSDir` | the FAT32 root directory with long names as a folder | done, model-checked |
| 6 | `UzeFSDirProofs` | `RootIsItsOwn` for every geometry, along the lines of `CardInv` | left |
| 7 | `FileStore`, `UzeFSData` | the data of files with old told from new; a handle as a position in a sequence of units | left |
| 8 | compositions | `UzeFS` on `SdDriver`; `ProcessMusic` of `SoundTracks` inside the work of `VideoSync` | left: the product of the state spaces needs coarser steps on both sides |

## 3. The modules

A definition marked "Mutant of ..." is a plausible mistake in the definition
after it. No action uses it; each shows that the property it is listed with in
`PROJECT.json` would catch that mistake. History variables, marked so where
they are declared, only record what the properties speak of.

### UzeFSVolume

The contents of a card as a function from sectors: FAT sectors hold entries of
`FatEps` clusters each, directory sectors `DirEps` entries each, data sectors a
set of offsets. `Fat`, `Ent`, `SetFat`, `SetEnt`, `FatNext`, `Walk` are
`fat_loc`/`fat_next`/`fat_put`, `dir_write` and the walk of `uzefs_seek`.
`SoundChains` says what a sound card is. Everything is a function of the
contents, so the same predicate speaks of the card and of `View`, the card with
the kept sector in place of its own copy, which is what the library reads.

Abstractions of data, all of them named in the module: a file position counts
units (`UPS` to a sector, 512 in the code); a data sector is the set of its
offsets written since its cluster was last taken (so "bytes of somebody else"
is the complement); FAT entry values besides 0, clusters and the end mark are
one value `Bad`; names are compared only. Sector writes are atomic: a command
writes all of its sector or none of it.

### UzeFS

One variable or field for one of the code's:

| TLA+ | code |
|---|---|
| `card` | what is on the card |
| `kept`, `dirty` | the lent buffer's sector (`win`, `win_sect`, `WS_VALID`) and `WS_DIRTY` |
| `lent` | `"none"` (no buffer), `"plain"` (tier 0: a buffer, nothing kept in it), `"kept"` (tier 2, lent with `keep`: `WS_KEPT`) |
| `mounted`, `hint` | `VF_MOUNTED`, `vol.free_hint` |
| `files[f]` | `slots[f]`; `flags` are `FF_*` |
| `pc`, `call` | where the call in progress is, and its locals |

A call is cut into steps so that each writes the card at most once; between any
two the power may go (`Crash`) and in any of them the card may fail
(`...Fails`, `DiskError`), which takes the code's own error path (`FailSlot`).
Since the library is not re-entrant the only interleaving is of whole calls of
different handles, by a host that calls in any order, and of power cuts with
steps.

| call | steps |
|---|---|
| `uzefs_mount`, `uzefs_unmount` | `Mount`, `MountFails`; `Unmount`, `UnmountClose`, `SyncEntry`, `SyncDone`, `UnmountEnd` |
| `uzefs_lend`, `uzefs_unlend` | `Lend`, `LendFails` |
| `uzefs_open` | `OpenExisting`, `OpenNew`, `OpenNewFails`, then `CutSize`, `Free` (TRUNC), `Append` (APPEND) |
| `uzefs_stat`, and lookups that are refused | `Stat` |
| `uzefs_read`, `uzefs_write` | `Read`, `Write`, then `SameCluster`/`NextCluster` (`locate`), `Alloc`/`AllocFull` (`alloc_cluster`), `ReadChunk`/`WriteChunk`, `Link`, `Join` (`link_new`) |
| `uzefs_seek` | `Seek`, and the zeros of a seek past the end as a write |
| `uzefs_truncate` | `Truncate`, `Cut`, `CutSize`, `Free` (`free_chain`, one cluster a step) |
| `uzefs_sync`, `uzefs_close` | `Sync`, `SyncEntry`, `SyncDone`, `SyncFlushFails` |
| `uzefs_delete`, `uzefs_rename`, `uzefs_fragments` | `Delete` then `Free`; `Rename`; `Fragments` |

The sector layer is `Load` (`win_load`), `Put` (`win_put`), `Flush`
(`win_flush`) and their failures. At tier 2 a change waits in the kept sector
until another sector takes the buffer, and a failed write drops it (`Drop`):
that is what makes the order of writes on the card different from the order in
the code, and what most runs are about.

Not in this module: long names, listings, the growing root directory and FSInfo,
which are in `UzeFSDir`; the second FAT copy, attributes and dates, the read
buffer of tier 1, `UZEFS_SIZE_EVERY_WRITE`, the boot sector, `uzefs_extent`'s
answer and streaming, which no module has.

`MCUzeFS` has the instances: the modes hosts open with, an empty volume and one
whose chain loops.

### Folder, UzeFSDir, MCUzeFSDir

`Folder` is what the calls promise of the names: `names` as the library sees
them, `durable` as a PC would find them now. A call changes `names` at one
moment; what is on the card follows, at once or later, and a cut or an error
takes `names` back to `durable`.

`UzeFSDir` is the FAT32 root directory. A sector is a function: data sectors
hold entries of kind `"file"`, `"long"`, `"dir"`, `"label"`, removed or never
used, the FAT and the FSInfo count have a sector each. The sector layer is that
of `UzeFS`.

| call | steps |
|---|---|
| every lookup | `Scan` (`dir_scan`, a sector a step), which carries the start of a long name (`EntryEnd`: `dir_entry_end`) and the first free entry |
| `uzefs_stat`, `uzefs_open` | `Stat`; `OpenFound`, `OpenRefused`, or `OpenNew` then `WriteEntry` |
| a full root (`dir_grow`) | `Alloc`, `Take` (`alloc_cluster`), `Zero`, `Join`; `MarkCount` before the first change of the FAT (`fat_put`, `VF_FSI`) |
| `uzefs_delete`, `uzefs_rename` | `FindClosed`, `RemoveSector`/`RemoveNext` (`dir_remove`), then `Free`/`Freed`; `RenameTarget` first scans for the new name |
| `uzefs_opendir`, `uzefs_readdir` | `OpenDir`; `ReadDir`, which resumes the scan at `Resume` |

A file here is its entry and its first cluster; sizes, data and positions are
`UzeFS`'s. `Breaks` is a power cut or a failed command in any step.
`MCUzeFSDir` runs two kinds of behaviour: `"fails"`, where anything may break
and the calls change the directory, and `"lists"`, where nothing fails and every
call may come between the steps of a listing.

### ByteQueue, UartRing, MidiIn

`ByteQueue` is a bounded first-in first-out queue. `UartRing` has the six ring
variables of `uzeboxCore.c`; `ScanlineIn`/`ScanlineOut` are the interrupt's byte
(`soundMixerInline.s`), and `UartReadChar`, `UartSendChar` and
`InitUartRxBuffer` are each cut at the store the other side can see. Nothing
checks whether the receiving ring is full: one byte too many makes its ends meet,
which for the queue is `Overflow`, a loss of all that waits. `MidiIn`
adds `ProcessMusic`'s MIDI loop, which empties the ring once a frame and hands
back the first byte of a message that is not all there (`UartGoBack`), and the
sender, with running status and pauses anywhere.

### SoundTracks

The track records with their flags, patch numbers and command streams.
`TriggerFx` is taken apart where the interrupt falls differently (`FxClaim`,
`FxCommon`, `FxPatch`, `FxLoad`, `FxStore`), `ProcessMusic` is one event or one
patch command a step (`NoteOn`, `NoteOff`, `Program`, `RunCommand`, `Wait`,
`PatchEnd`, ...). `owner` and `instrument` are history: the effect a channel
was given to, and what the song last chose for it. Volumes, waves, envelopes
and slides are left out.

### SongStream

The stream player's ring in RAM, its two-byte commands, its loop and the stall
when fewer than `SONG_BUFFER_MIN` bytes are there, in the interrupt; and the
program that fills the ring from a file while it waits for the frame
(`CustomWaitVsync` of `SPIRamMusicDemo`, read for how the code is used).

### VideoSync

`VsyncPulse`, `Line`, `Render` and `LastLine` are the interrupt's phases,
`Work` the vsync work (`ProcessFading`, `ChooseBank`, `MixBlock`, `MixRest`) in
which they nest, `WaitVsync`, `ClearVsyncFlag`, `FadeAtOnce` (speed 0) and
`StartFade` with its parts the program. A fade may be started at any time, over
one that is running too. `screen` is `DDRC`, as the table's step it came from:
only `End` steps are told apart by a property. The two mixing banks are a ring
of positions; `fresh` is history, and so is `main.met`: the four stores that
start a fade have a field's work between them once at most, being much shorter
than a field. `age` counts the pulses nested in the work, which lasts `MaxWork` of
them at most. Nothing keeps the model from entering the work again (`LastLine`):
that it does not happen is a consequence of `MaxWork` being less than a field.

### SdDriver

The driver of `uzefs_sd.c`, one call at a time, against a card that may refuse,
fail, send an error token or stay busy wherever it is asked, and a console that
may be reset between any two steps while the card keeps its state. A byte is a
step where the driver counts bytes (`uzefs_sd_read`, `_count`).

A single block whose token does not come in 40000 bytes is left as it is
(`uzefs_sd.c:256-280`, `410-421`: no CMD12 is sent), so the card is still in that
read when the call returns (`Token`). Such a card refuses the commands of the
next calls until `uzefs_sd_init` sends its CMD12. That the block may then come
after all, and one of its bytes be taken for an answer, is left out.

### EepromBlocks, Keyboard

`EepromBlocks` writes a byte a step (`WriteEeprom`) with `PowerCut` between any
two; `InitializeEeprom` looks at the signature as `Initialize` does. `Keyboard`
is the decoder of `keyboard.c`, one byte a poll, with `KeyboardGetKey` cut
between its read and its clear, against a keyboard that sends what is pressed.

### WstStream

Uzeamp's song stream. A line of the field is a step: in the blank `BlankLine`
(the kernel plays a sample), in the frame `FrameLine` (it also clocks a byte of
the card through the framing state machine of `gen_wst.py`). The program's
`wst_start`, `wst_poll`, `wst_stop` and `wst_fill` are cut where a line can be
told to come. The card answers late, refuses, or ends a read by an error token.

The counts between the frame and the program are words of 16 bits: `wst.left`
is capped at `0xFFFF` (`Capped`) and `wst.stored` wraps, `wst_poll` taking the
difference. `wst.h:60` has it called once a field; a program that leaves fields
out is modelled as far as the words count what the frames store meanwhile
(`PollsInTime`). Without a poll for some five seconds of frames the count comes
back to where it was and a song loses its place; that the model has to say so was
found by the attempt to prove it for songs longer than the word.

### MCEngine, MCDevices

Parts that share no state are run one in each behaviour, chosen by the initial
state: `MCEngine` has `SoundTracks` and `VideoSync`, `MCDevices` the seven parts
that serve devices. Their fairness conditions join those of the parts: of the
actions joined in one condition only those of the part that runs are ever
enabled.

## 4. Runs

| run | instance | checks | distinct states |
|---|---|---|---|
| `errors` | tier 0, two files, two handles, two clusters of two sectors, card errors and power cuts; `RepairedSpec` | `CardSound`, `NoStaleBytes`, `PositionsAgree`, `LagInLastCluster`, `WriterExcludes`, `SyncedIsOnCard` | 890 274 |
| `calls` | every call and way to lend on two files with two handles and three clusters, nothing fails | `NoLostCluster`, `NoStaleBytes`, `ContigIsInOnePiece`, `SyncedIsOnCard` | 1 332 620 |
| `returns` | every call and mode on one file, the buffer kept or taken back, sectors of two units, every error, power cuts, an empty and a damaged volume | `TypeOK`, `SizeCoversChain`, `CallsReturn` under fairness | 454 995 |
| `dir` | a FAT32 root, three clusters, tiers 0 and 2 | `DirSound`, `ListingSound`, `DirIsFolder` (refinement), `OkIsDone` | 786 450 |
| `engine` | `SoundTracks` or `VideoSync` | `FxPlaysOut`, `SongKeepsInstrument`, `LoopsRunOut`, `SoundKeepsAhead`, `FieldIsWhole`, `FadeEndsAsAsked`, `FxEnds`, `ProgramGoesOn` | 603 652 |
| `devices` | one of the parts that serve devices | `RingHoldsSong`, `SdReadGivesWindow`, `SdNoCommandInRead`, `SdCountIsRun`, `SdInitFinds`, `SavedIsRead`, `KeysInOrder`, `DecoderRests`, `SongInOrder`, `OneClock`, `TxIsQueue`, `RxIsQueue` (refinements), `MidiPlaysAll`, `StreamGoesOn`, `SongEnds` | 433 902 |

Deadlock is checked in every run: a host may always call something, and the
lines of the picture go on.

**Bounds of the file library.** Two or three clusters are enough for a chain to
grow, to be shared wrongly and to fill the card, and for the hint to wrap;
`FatEps = 2` makes the FAT two sectors, so that two FAT writes may or may not
meet in the buffer; `DirEps = 1` puts the two entries in different sectors, so
that a directory write always moves the buffer; two names and two handles give
two files, or a file and a handle on a removed one. `MaxSize` lets a file reach
the second cluster, partly filled, `MaxXfer` lets one transfer cross one
boundary or more. In `errors` a sector has two units, a cluster two sectors, and a
file of five units one unit in its second cluster. Geometries in which chunk, sector and cluster ends are
all different are what the proofs of section 5 are for. Names are only compared,
so the runs on blank volumes that check safety use symmetry over them.
`NoStaleBytes` and `PositionsAgree` are checked where the card fails only at
tier 0: at tier 2 a failed write also drops what another handle had been told
was written (the run `lost_create`). `SizeCoversChain` is asked of the card that
came sound: on a damaged one a file's size never covered its chain.

**Bounds of the directory.** Sectors of two entries and clusters of two sectors
make a long name of two entries span a sector or end one; a root of one cluster
that is full, has room, or holds directories only, grows at most once into one
of two clusters full of what looks like entries. Two names and one handle are a
file that is there and one that is made.

**Bounds of the engine.** Two wave channels and the noise channel, two effects
(a loop by count; one that cuts itself) and two song patches (one holds its note
and loops by search): every branch of `TriggerFx`'s choice of a channel and both
ways back in `PatchCommand14` occur. A field of six half-line pulses and six
lines has every kind of pulse, and two lines of a picture. A fader of three
steps has an inner one, so that a fade can be started over another at each end
and between. `MaxWork` is nine pulses, the longest `VideoAssumption` allows: one
less than the steps a field takes here. With ten the work is entered again and
samples are mixed over; that the work of the code is so short is an assumption.

**Bounds of the devices.** Rings of four bytes wrap after three. Five MIDI bytes
make two messages, or one with running status. The song of ten bytes is twice
what its ring of five takes, and the six bytes after its loop end are what the
filler can read ahead (`SONG_BUFFER_SIZE + 1`; with fewer the player meets what
lies behind the file). Six FAT words in three sectors give runs inside and over
sectors. Three EEPROM blocks and two ids that share a byte; three key presses.
For the song stream: a ring of five with a margin of one, `FillMax` and batches
of one, a song of eleven samples that begins inside a sector of three, four
blank and two frame lines, two starts or one and an error token. Words wrap at
eleven, the least that `WstAssumption` allows, and the song is longer than the
ring and than the word, so that the cap of `wst.left` and the wrap both happen.

**Fairness, and why the code justifies it.**

* `CallsReturn` and `DirCallsReturn`: weak fairness of the steps of the call in
  progress, since the processor runs on. Nothing is assumed of the host, of power
  cuts or of the card, whose failures end a call.
* `FxEnds`, `StreamGoesOn`: strong fairness of the interrupt's steps, because
  the timer's request is latched and waits out any time with interrupts off; weak
  fairness of a call of the program that was begun. The reader of the song is
  strongly fair in `Enter` and `SongBufWrite`: each needs a window between two
  frames, which the program reaches every frame.
* `ProgramGoesOn`: weak fairness of the timer and the work together (the work gets
  its turn because no more than `MaxWork` pulses come before it ends); strong
  fairness of the program's steps inside `WaitVsync`, `FadeIn` and `FadeOut`,
  since a field has room for many between two of its works. That the flag is
  tested while it is set needs no more: only the program clears it.
* `SongEnds`: weak fairness of the lines; strong fairness of the program's steps,
  each of which fits between two lines; `wst_poll` every field, as its caller's
  main loop does.
* `MidiPlaysAll`: weak fairness of `ProcessMusic`, which runs once a frame.

**What the six other runs show.** Each ends in a violation: a disagreement
between the code and what its own documents say of it.

* `lost_create` (`WriterExcludes`): at tier 2 a failed write of the kept sector
  drops an entry another handle created; the entry reads as free, the next
  creation takes it, and two handles write one directory entry, although
  `spec-uzefs.md` 7.3 says that a writer excludes every other handle. The handle
  whose creation was dropped is not told: its own sync finds nothing to do and
  succeeds. The card stays sound all the same (section 5).
* `stale_gap` (`NoStaleBytes`): a power cut or an error between `link_new`'s two
  writes, or in a truncate before its size, leaves the size past the chain, as
  `spec-uzefs.md` 12.2 says. When the file is written again without a repair,
  `put_data` takes a new cluster inside the old size for one with something worth
  keeping, reads what a deleted file left there, and the file shows it. The code's
  own order never makes this happen on a card repaired first, which is what
  `RepairedSpec` says of the host, the run `errors` checks and `BytesAreOwn` proves.
* `stale_count` (`FreeCountRight`): the write that marks FSInfo's free count
  unknown fails; `VF_FSI` was set before it, so it is not tried again, and later
  calls change the FAT under a count a PC trusts.
* `root_loop` (`DirCallsReturn`): when the root's own chain loops and no entry is
  a never-used one, a lookup does not return, although the library says it
  answers loops with `UZEFS_ERR_CORRUPT`.
* `race` (`SongKeepsInstrument`): `ProcessMusic` between the two stores of flags
  in `TriggerFx` lets the song's note take the claimed track, and the effect's
  patch becomes the song's instrument.
* `late_fill` (`SongInOrder`): `wst_fill` called in the line before the frame, as
  it is after a restart of the read that took long, loads its place and then
  loses the frame's samples.

Seen while modelling, outside of these runs:

* `uzefs.h:113-114` says of `uzefs_open` that a created file's entry is on the
  card when it returns. At tier 2 it is in the kept sector until another sector
  takes the buffer (`OpenNew` ends in `Put`, which only holds it).
* A song started over while the last one's `loopEnd` is pending sends the filler
  to a wrong offset (`LateRestart = TRUE` in `SongStream`); the demo stops the
  song before the next frame, so the runs keep it `FALSE`.
* A MIDI real-time byte inside a message (`Inside = TRUE` in `MidiIn`) is read as
  the message's data; real-time bytes between messages are skipped.
* `keyboard.c:377`: an extended key that is held leaves `is_extended` set, and a
  normal key pressed then is looked up as extended and lost (`overlap` in
  `Keyboard`). `keyboard.c:419-420`: page down (`0x7A`) gives `KB_DOWN`.
* `uzeboxVideoEngineCore.s:703-706`: `GetVsyncCounter` loads two bytes with
  interrupts on and can return a count torn over a carry; `:875` stores a user
  callback in two halves.
* `uzeboxVideoEngine.c:355-371`: a fade started over one of the other direction
  (`LodeRunner.c:153`, then `205`, when a key ends the level early) can have the old
  one's step between its stores: with `fadeStep` at the table's end and the old
  direction, `ProcessFading` moves it out of the table and ends the fade, which
  `fadeActive` then starts again there. The next field reads one byte in front of
  or behind `fader` for its colours and moves back inside. `FadeEndsAsAsked` says
  that it is one step and one field at most, and that the fade ends as it should.
* `uzeboxVideoEngineCore.s:687`: a frame that ends between the load and the store of
  `ClearVsyncFlag` is lost to the program, which waits for the next one
  (`ProgramGoesOn`).

## 5. Proofs

### The file library

`UzeFSProofs` proves

    THEOREM TypeCorrect == Spec => []TypeOK

for every geometry, number of files, set of modes and calls, with or without
errors and crashes. `TypeOK` carries the meaning of the kept sector: at most one
sector, only while the buffer is lent to be kept, equal to the card's copy
unless it is dirty. It is not inductive: that a new cluster's number, taken from
the free hint long after `alloc_cluster` moved it, is a cluster at all, or that
there is a cluster to cut the chain at, depends on where the call is. The
inductive invariant is

    IndInv == DiskOK /\ CtrlOK

where `DiskOK` is the part of `TypeOK` about the card and the buffer and
`CtrlOK` adds to the rest `TransferOK`, `NewClOK`, `HintOK` and `ClustOK`: what
a call in progress may count on. The lemmas come in three layers: what a change
of one entry does to a card's contents, what the operations of the sector layer
do to `card` and `View` (`LoadOK`, `PutOK`, ...), and one lemma for each action.

`UzeFSCardProofs` proves

    THEOREM CardIsSound == ASSUME SoundVolumes PROVE Spec => []CardSound

the library's main promise about power cuts, from any sound volumes, for every
geometry, number of files, set of modes and calls, at tiers 0 and 2, with or
without errors and crashes. `CardSound` is not inductive, for two reasons. A
handle writes its first cluster into its entry again at every sync, long after
it took it, so what the handles hold must agree with the chains. And at tier 2
a failed write drops the kept sector, so that what the library reads goes back
to what is on the card: both must be sound, and sound together. The inductive
invariant is

    CardInv == IndInv /\ Good(files, {card, View}) /\ StepsOK

`Good` says: each of `card` and `View` has sound chains; the first cluster of
every writer is in use there and in no chain but its own (`Own`); no two writers
work on one chain (`Distinct`); and no two entries start one chain, one as it is
on the card and one as the library reads it (`Apart`). `StepsOK` is what a call
in progress relies on: the cluster to link is taken and in no chain yet, and
the directory sector that will name it is not waiting in the buffer (`NewOK`,
`KeptNoDir`: taking a cluster is on the card before naming it is); the chain to
free hangs only where it will be cut off (`CutOK`, `SizeOK`, `FreeOK`); and the
handle may change its file (`WriterOK`, `DirtyOK`).

The lemmas: `SetFatGood` and `SetEntGood` (one change of a FAT or a directory
entry keeps a set of contents good), `MetaGood` (a data write changes neither),
`Milder` and `Fewer` (so do changes of a slot that only give up rights),
`StepGood`, then one lemma for each action. No induction along a chain is needed here:
`SoundChains` speaks of which cluster each entry points to, and that no cluster
is pointed to twice is a property of single entries.
`CardInv` was checked with TLC, as an invariant of instances at tiers 0 and 2
with errors and cuts, before it was proved.

`UzeFSPositionProofs` proves, for the same volumes, geometries, files and calls,

    THEOREM OneWriter ==     ASSUME SoundVolumes, NothingDropped PROVE Spec => []WriterExcludes
    THEOREM PositionsHold == ASSUME SoundVolumes, NothingDropped PROVE Spec => []PositionsAgree

A handle open for writing is the only one of its file, and every handle that
works is, between calls, where `uzefs_seek` would put it: in the cluster and the
sector that a walk down its file's chain leads to. `NothingDropped` says that
the buffer is not lent to be kept where the card may fail: all of tier 0 with
errors and cuts, and tier 2 without errors, but with cuts. It cannot be left out: a failed write
of the kept sector takes back a directory entry or a link that open handles
stand on (the run `lost_create` shows it for the entry). The invariant is

    WholeInv == CardInv /\ LeftOK /\ PosInv
    PosInv == LoanOK /\ WritersOpen /\ Named /\ WriterExcludes /\ AllPlaced

`Named` says that the entry of an open file stays in use, without which a second
handle could be made of it by creating the file again. `AllPlaced` says for every
handle, and for every point of the call in progress, how far the chain can be
walked from its first cluster and where the handle stands on it: at rest in the
sector of its position or, on a cluster's boundary, at the end of the cluster
before; in a transfer with a new cluster
taken but not linked, just before the link; in a truncate, on a chain cut off
behind it. Two handles that read one file stand on the same chain; a writer
stands on one no other handle has, and that chain shares no cluster with others
(`SoundChains`), so what it links, cuts or frees leaves every other walk as it was.

How far a walk goes is a recursive function of the card's contents. What it
comes to is had by induction all the same: the library's induction theorems
cannot be instantiated here, but that a set of numbers that is not empty has a
least element (`NatMin`) follows from its facts on finite sets, and from that
that a set holding zero and every successor holds all numbers (`NatAll`). A
statement to be shown by induction is then a set of the numbers it holds for.
The lemmas on walks (a walk has one value, a walk is a walk of its parts, a walk
that misses a changed entry is unchanged) are the first part of the module.

`UzeFSSizeProofs` proves, for the same geometries, files and calls,

    THEOREM SizesCoverChains ==
      ASSUME SoundVolumes, CoveredVolumes, NothingDropped PROVE Spec => SizeCoversChain
    THEOREM LagIsSmall ==
      ASSUME SoundVolumes, CoveredVolumes, NothingDropped PROVE Spec => []LagInLastCluster
    THEOREM MarkStaysTrue ==
      ASSUME SoundVolumes, CoveredVolumes, NothingDropped PROVE Spec => []ContigIsInOnePiece

Whenever the power goes no size on the card falls short of its chain; between
calls the entry of an open file is behind its slot in the last cluster at most;
and a file that `uzefs_fragments` has marked as one piece is one. `CoveredVolumes`
asks of the first volumes what the first theorem says of all later ones, and
that no chain runs into a bad value. `NothingDropped` is as above. The
invariant is `WholeInv /\ SizeInv /\ KeptInv`:

    SizeInv == Ends(card) /\ Ends(View) /\ AllSized /\ AllInOnePiece /\ Locals

`Ends` says that the walk from an entry's first cluster has left the clusters
after as many steps as the size has clusters, on the card and as the library
reads it: a link of a growing file reaches neither before the size that covers
it does (`link_new`), and a cut chain is shorter before its size is
(`uzefs_truncate`). `Sized` says for every point of a call what the entry and
the slot differ by: nothing but a size in the last cluster, except from the
cutting of a chain to the writing of its size, and from the taking of a cluster to the
slot's own write of the entry. `Locals` is what the call in progress counts on:
its new cluster ends a chain, a read stays inside the file, and a file being
changed has no mark. `SizeInv` was checked with TLC, with errors and cuts, before
it was proved. `ChainLen` counts the steps of a walk; that what it counts is
where the walk ends (`CoveredIs`) is by the walk's never coming twice to one
cluster (`WalkOnce`) and the library's facts on the size of sets.

`KeptInv` is there for the mark at tier 2: `frag_walk` counts links on the card
(`uzefs_sd_count`), which a changed FAT sector waiting in the buffer is ahead of.
It says what can be waiting when: an entry of the FAT that chains use is the
same on the card, or ends a chain there, so that a run of links found on the card
is one; only a cut chain is not so, from the cut to the writing of its size, which
no `uzefs_fragments` comes between; and nothing of the FAT waits when a cluster
is linked, the entry having been written after it was taken.

    THEOREM NoneIsLost ==
      ASSUME SoundVolumes, CoveredVolumes, OwnedVolumes, NothingFails
      PROVE  Spec => []NoLostCluster

Between calls every cluster that is in use is on the chain of a file.
`OwnedVolumes` asks it of the first volumes. `NothingFails` (no card errors, no
power cuts) is what the code needs: a cut between `alloc_cluster` and `link_new`,
or in the middle of a chain that `free_chain` frees, does leave clusters lost, and
`spec-uzefs.md` accepts that; the run `calls` checks the property under the same
hypothesis. That a cluster is on some chain says that a walk to it exists, which
is awkward to keep along when links change. The invariant says it from the other
side:

    LostInv == NoneLost(View, Outside) /\ CutFirst /\ FreeEnds
    NoneLost(k, X) == \A S \in SUBSET Cluster :
      Stays(k, S) /\ Starts(k, S) /\ X \cap Cluster \subseteq S =>
        \A c \in Cluster : Fat(k, c) # 0 => c \in S

A cluster in use is in every set of clusters that has the first cluster of every
file, and those in `X`, and that no chain leaves. A step then needs no walk: from
a set that is closed after it one is made that was closed before it. `Outside` is
the one cluster a call in progress holds that no file has, the one it has taken
and not linked or the first of those it has cut off; `CutFirst` and `FreeEnds` say
that a file cut to nothing gives up the chain it had, and that what is cut off ends.
`AtRest` says that a card that is not mounted has no change waiting. `OwnedIs`
shows that with nothing outside this is what the property says: the
clusters that some walk comes to are such a set.

`UzeFSDataProofs` proves that no file shows what was not written to it, and that
what was written through a handle is on the card after its sync or close:

    THEOREM BytesAreOwn ==
      ASSUME SoundVolumes, CoveredVolumes, OwnVolumes, NothingDropped
      PROVE  RepairedSpec => []NoStaleBytes
    THEOREM SyncsReachCard ==
      ASSUME SoundVolumes, CoveredVolumes, OwnVolumes, NothingDropped
      PROVE  RepairedSpec => SyncedIsOnCard

`OwnVolumes` asks `NoStaleBytes` of the first volumes (`OwnsIs` shows that the form
with the lengths of chains, which the runs check, and the one with walks, which
the proofs use, agree). The invariant is that of `UzeFSSizeProofs` and

    DataInv == Owns(card) /\ Owns(View) /\ (\A f \in Handle : Live(f) => Fits(f))

`Owns` says that every unit below a file's size that its chain reaches is in a
sector which holds that unit as the file's own: on the card, for the power cut
after the next write, and as the library reads it, for the sector that waits in
the buffer. `Fits` says the same of a slot, whose size runs ahead of the entry's.
Of a writer it says in addition that the chain has the last byte of the file
(`Reached`): a cluster linked later lies past the size, so that its old content is
nobody's. That is what `RepairedFirst` provides and the run `stale_gap` lacks, and
it is why the theorem is not one of `Spec`. From the taking of a
cluster to its link (`FitNew`) the cluster already holds all that was written
at the end of the file, which is where the position is: `put_data` writes the
data before `link_new` the size and the FAT. The lemmas are of two kinds. `Keeps`
says when a change of the volume leaves a file its chain and its bytes, which it
does for every file but one because chains do not meet (`SoundChains`); the
others say of the one file what a written chunk, a join, a cut chain and
a size add to it. `DataInv` was checked with TLC before it was proved.

`SyncsReachCard` needs little more. At its last write the sync has an entry with
the slot's size (`Sized`), a chain that ends with it (`Covered`) and, for a writer,
reaches it (`Reached`), and the slot's bytes (`Fits`), in what the library reads,
which that write makes the card. `FlushLive` adds that the handle has not failed:
only a sync, a close or the loop of an unmount gets there, and they look first.
A file that is only read may have come with a size past its chain, which nothing
asks a host to repair before it reads; of such a file the card holds what the
chain has.

### The card driver

`SdDriverProofs` proves the four properties of `SdDriver` that the run `devices`
checks: `SdReadGivesWindow`, `SdNoCommandInRead`, `SdCountIsRun` and
`SdInitFinds`, for any size of sector, any size of word that divides it, any
words, any number of sectors and any of the kinds of card, with refusals,
errors, timeouts and resets anywhere. They follow from one invariant,

    SdInv == SdTypes /\ ReadingOK /\ SendsOK /\ TypeIsKind /\ InitFinds
             /\ WindowOK /\ CountOK /\ GapOK

`ReadingOK` says that the card sends a sector only where the call in progress, a
stream that is open, or a reset before `uzefs_sd_init` left it so, and that what
a wait for a token that ran out left behind (`Owed`) is a single block, none of
it sent. `WindowOK`
gives the card's head in `uzefs_sd_read` from what is left to skip, to take and
to pass by, so that the byte under way is the one after the byte just stored.
`CountOK` does the same for `uzefs_sd_count`: the words found so far are a run, and
the head is at the word after them, wherever in a sector that is and whether or
not the next sector has been begun. That a sector holds a whole number of words
is needed there.

### The UART rings

`EngineProofs` proves `UartSpec => TxIsQueue` (`SendsInOrder`) and
`UartSpec => RxIsQueue` (`ReadsInOrder`) for every ring size. The invariant
`UartInv` adds to the types what a call in progress relies on across the
scanline's steps: `SendRoom` (the place `UartSendChar` has stored its byte in is
still free) and `ResetTail` (between the two stores of `InitUartRxBuffer` the tail
is zero). That a byte which `UartReadChar` has found counts as taken from then on
(`RxNext`) is what makes an overrun, in the middle of that call too, a loss of
just what waits. The lemmas on `Window` say what a store
behind the head, a moved head and a moved tail do to the sequence of bytes the
ring holds, once for both rings; each action is then shown to be a step of
`ByteQueue` or to leave it alone.

### The sync pulses, the fader and the mixing banks

`EngineProofs` also proves `FieldIsWhole`, `FadeEndsAsAsked` and `SoundKeepsAhead`
for every television standard (pulses of each kind, lines),
picture, fader size and first block of the mixer that is shorter than a bank.
`SyncInv` says which pulses the field has had, from the phase and the counter
alone (`MadeSoFar`), and that the counter never stands inside the frame, which
the frame leaves in one step. `FadeInv` says where a fade is while it is set up by
the stores of `FadeIn`, `FadeOut` and `doFade` (`StoringOK`): where it begins, or one
step from there if the vsync work has come between them and the fade it is
started over was active; outside of the table only if that step ended the old
fade. `ActiveOK` takes it on from there: an active fade is in the table or comes
back into it with its next step. `FadingOK` says of a fade that is waited for that
its direction is its own, so that it ends at its own end.

`SoundInv` is the argument for the banks (`SoundStaysAhead`). Which bank plays
(`Base`) follows from `mixBank` and from whether this field's work has chosen yet,
and how far it has been played (`SoFar`) from the pulse counter alone: of the bank
that plays exactly the samples not yet played are fresh, of the other exactly
what the work has mixed (`MixedSoFar`). The field's last line plays the bank's last sample,
because a bank is as long as a field's samples (`BankSize`, for which the
pulses must come in pairs), and there the two banks change roles. What is
assumed of the work is that it is shorter than a field (`MaxWork`). `AgeInv` counts
the pulses since it began, so that it is over before the next last line
(`WorkIsOver`): `LastLine` itself would enter it again.

### The tracks

`EngineProofs` also proves `FxPlaysOut` (`EffectsPlayOut`) and
`SongKeepsInstrument` (`SongsKeepInstruments`) for any channels, patch streams,
effects and songs, where the interrupt does not fall inside `TriggerFx`
(`~Preempted`; the run `race` shows what happens when it does). The invariant
`TracksInv` says of every track that belongs to an effect that it plays the
effect's patch (`OwnersPlay`), and of a call of `TriggerFx` what it relies on from
one store to the next (`FxRelies`): the claim is still there when
`TriggerCommon` looks at the priority flag, and when the flag is stored again.
Nothing is assumed of the streams: commands outside of the model, a loop end
without a start or a stream without an end keep the invariant too.

### The keyboard

`DeviceProofs` proves `KeysInOrder` (`KeysComeInOrder`) and `DecoderRests`
(`DecoderComesToRest`) for any presses: any keys of those modelled, held for any
time, overlapping or not, with any pauses. `KeyInv` says that the bytes the
keyboard has queued, run through the decoder from where it is (`Decodes`,
`RunsOver`), leave it between two scan codes, holding the modifiers that are
down, and give the keys pressed that the program has not got yet. What a run
over a sequence of bytes gives is defined without recursion, by the sequence of
the decoder's states; the lemmas `DecodesNext` and `DecodesLess` take a byte off
its front, `DecodedMake`, `DecodedBreak` and `DecodedPause` put a press, a
release and the pause key's eight bytes behind it.

### The song stream

`DeviceProofs` also proves

    THEOREM SongPlaysInOrder == ASSUME ~LateFill PROVE WstSpec => []SongInOrder
    THEOREM OneClocksTheCard == ASSUME ~LateFill PROVE WstSpec => []OneClock

for every ring, margin, fill, song, place to start from, sector, field and word
that `WstAssumption` allows (the code's: a ring of 524, `FillMax` 500, batches of
16, a field of 262 lines, a word of 65536), with error tokens, late answers,
refusals, starts, stops and polls anywhere. `~LateFill` is what the run
`late_fill` breaks: `wst_fill` must not be called in the line before the frame.
The invariant,

    StreamInv == /\ StreamTypes /\ CallOK /\ ClockInv /\ CountInv /\ ReadInv
                 /\ RingInv /\ RoomInv /\ LateInv

was checked with TLC first. `Told` is the number of samples the ring was given.
`RingInv` gives every slot of the ring from `Told`, the last sample played and
the two places; `ReadInv` says that the card's next byte is sample `Told` + 1, or
how far from it the framing state machine knows it to be; `CountInv` that
`wst.left` is the rest of the song or as much of it as the word still counts.
`RoomInv` is why W never meets the kernel's place: a batch, a last byte and one
fill a field fit, and a line of the blank is played between two of them.
`LateInv` is why the words suffice: what may be stored before the next poll is
counted by them. `ClockInv` is why the fill is gone before the frame: it is at
least two lines from it when it takes bytes, and never more than a line from
looking again.

### The song in SPI RAM

`DeviceProofs` proves

    THEOREM SongStaysInRing == ASSUME ~LateRestart PROVE StreamSpec => []RingHoldsSong

for every song with one loop, every ring, limit and number of bytes a frame
(`SongAssumption`): the song's only loop end is its last byte, its only loop
start comes before `LoopAt`, a note has two bytes; the file repeats the loop for
as long as a full ring and a frame's bytes, and the loop is no shorter than that.
`~LateRestart` leaves out a song started over with the last one's end pending.

`SongInv` gives the program's place in the file from the player's: `FileAt` is
the player's place, or the same place in the loop's copy behind the song from the
time the player has gone round until the program goes back (`Rewinds`), and the
program reads as far in front of it as the ring has bytes waiting (`OffsetInv`).
From how far that can be behind the song follows that the player never comes to
the loop's end a second time before the program has gone back for the first,
which is what one variable `loopEnd` relies on. `BufferInv` says which byte of
the song each place of the ring holds, the one just stored included.

### The EEPROM

`DeviceProofs` proves

    THEOREM BlocksAreSaved == EepromSpec => []SavedIsRead

for an EEPROM of any number of blocks that holds anything at first, any ids and
any data, with the power cut before any byte. `EepromAssumption` asks that no id
has a byte `0xff` and that no game uses the header's id: a torn id would
otherwise be another game's.

`EepromInv` ties the bytes still to come (`task`) to what is already there.
`Fills` is a block being written: it is the last with its id or was a free one,
each byte of its id is `0xff` or the new one until the last byte is written, so
it is no other id's block and, if it is torn, nobody's. `Formats` is a formatting:
the signature's bytes and those of every freed id are written or still to come,
and it spares ids only where the signature was found, which `Initialize` asks
for; so a formatting cut off after the signature has still freed or kept whole
every block whose id is promised something. `Keeps` is the promise to one id, and
every step that writes a byte shows that the blocks of the other ids are those
they were.

### What is only model-checked

Of the file library `NoStaleBytes` and `SyncedIsOnCard` under `Spec` (the run `calls`, in which nothing
fails; the run `stale_gap` shows why not in general); those of the growing
directory (`UzeFSDir`); `LoopsRunOut`, which is about what a whole patch adds up
to; those of `MidiIn`; the refinement of `Folder`; and all liveness. That a sector write is
atomic, that the card does not lie about a write it acknowledged, and that a
host keeps to the modes the header allows (`LegalMode`) are assumptions of both
the runs and the proofs.

## 6. Not modelled

* Video modes, the mixers' sample arithmetic, the assembly SD and SPI RAM
  drivers, the controllers' ports: their correctness is cycle counts, pixels and
  the timing of devices the repository does not have; there is no control flow
  for a model to explore beyond the parts above.
* FatFs, Petit FatFs, LodePNG, the MIDI file reader of midiconv: third-party
  code kept in the tree.
* Uzem: an interpreter of the AVR's instructions, a function of the instruction
  set. The asset tools: one-shot converters of files. The Uzenet server: a
  program for another machine.
* The demos and games: some hundred programs of their own, most of their lines
  being tile, map and music tables. Only the loops that are the other half of a
  kernel protocol are modelled. They and the vendored code are most of the
  repository, so the lines the modules stand for are a small share of all.
* In the modelled parts: the MOD player, volumes and envelopes; the vsync
  counter and user callbacks; `uzefs_extent`, `uzefs_stream`, the read buffer of
  tier 1, the second FAT copy, FAT16's fixed root with long names; 31 kHz
  streams; the stand-alone UART, a ring with the same indices as `UartRing`'s
  outside of the default kernel build.
