----------------------------- MODULE EepromBlocks -----------------------------
(***************************************************************************)
(* The blocks games keep in the EEPROM (uzeboxCore.c).  Every byte is      *)
(* written on its own and the power may go between two of them.  When it   *)
(* is back, Initialize formats an EEPROM without the signature.            *)
(*                                                                         *)
(* A block is its id, two bytes, and its data, here one byte.  Block 0     *)
(* is the header; its id is the signature.                                 *)
(***************************************************************************)
EXTENDS Integers, FiniteSetsExt

CONSTANTS EEPROM_MAX_BLOCKS,
          Ids,              \* the ids games use, each <<low byte, high byte>>
          BlockData,        \* the bytes of data
          EEPROM_SIGNATURE, \* <<low byte, high byte>>
          Erased,            \* an erased byte, 0xff
          Shipped           \* what the EEPROM may hold at first

EEPROM_FREE_BLOCK == <<Erased, Erased>>
Block == 0 .. EEPROM_MAX_BLOCKS - 1
IsId(id) == id = <<id[1], id[2]>>
IsEeprom(e) == e = [i \in Block |-> <<e[i][1], e[i][2], e[i][3]>>]

\* A torn id, one byte of it still or already erased, is never one games use,
\* and the header's id is the kernel's.
ASSUME EepromAssumption ==
    /\ EEPROM_MAX_BLOCKS \in Nat \ {0}
    /\ \A id \in Ids \cup {EEPROM_SIGNATURE} : IsId(id) /\ Erased \notin {id[1], id[2]}
    /\ EEPROM_SIGNATURE \notin Ids
    /\ \A e \in Shipped : IsEeprom(e)

VARIABLES eeprom,   \* a block's bytes: its id, low byte first, and its data
          task,     \* the bytes still to be written, each a <<block, byte, value>>
          writes,   \* history: what the task is
          saved     \* history: what each id holds: "data", "none", or "any" after a cut

eepromVars == <<eeprom, task, writes, saved>>

Id(i) == <<eeprom[i][1], eeprom[i][2]>>

EepromInit ==
    /\ eeprom \in Shipped
    /\ task = {} /\ writes = [is |-> "power"]
    /\ saved = [id \in Ids |-> [is |-> "any"]]

(***************************************************************************)
(* EepromBlockExists: the last block with the id, and the first free block *)
(* (block 0 never counts as one).                                          *)
(***************************************************************************)
Hits(id) == {i \in Block : Id(i) = id}
FreeBlocks == {i \in Block \ {0} : Id(i) = EEPROM_FREE_BLOCK}

\* EepromReadBlock: the data of the block EepromBlockExists finds.
EepromReadBlock(id) == eeprom[Max(Hits(id))][3]

\* Bytes a block's writing goes through: its id, then its data.
IdBytes(i, id) == {<<i, 1, id[1]>>, <<i, 2, id[2]>>}
BytesOf(i, id, data) == IdBytes(i, id) \cup {<<i, 3, data>>}

Ready == task = {} /\ writes.is = "nothing"

EepromWriteBlock(id, data) ==
    /\ Ready
    /\ LET full == Hits(id) = {} /\ FreeBlocks = {}
           target == IF Hits(id) # {} THEN Max(Hits(id)) ELSE Min(FreeBlocks)
       IN  /\ ~full
           /\ task' = BytesOf(target, id, data)
    /\ writes' = [is |-> "block", id |-> id, data |-> data]
    /\ UNCHANGED <<eeprom, saved>>

(***************************************************************************)
(* FormatEeprom and FormatEeprom2, which spares the ids of "kept": first   *)
(* the signature, then the free ids.                                       *)
(***************************************************************************)
\* Mutant of Spared: the first block after the header is always freed.
SparedLate(kept) == {i \in Block \ {1} : Id(i) \in kept}

Spared(kept) == {i \in Block : Id(i) \in kept}

FormatBytes(kept) ==
    IdBytes(0, EEPROM_SIGNATURE)
    \cup UNION {IdBytes(i, EEPROM_FREE_BLOCK) : i \in Block \ ({0} \cup Spared(kept))}

FormatEeprom2(kept) ==
    /\ Ready
    /\ task' = FormatBytes(kept)
    /\ writes' = [is |-> "format", kept |-> kept]
    /\ UNCHANGED <<eeprom, saved>>

\* Initialize: isEepromFormatted looks at the signature alone.
InitializeEeprom ==
    /\ writes.is = "power" /\ task = {}
    /\ IF Id(0) = EEPROM_SIGNATURE
       THEN writes' = [is |-> "nothing"] /\ UNCHANGED task
       ELSE writes' = [is |-> "format", kept |-> {}] /\ task' = FormatBytes({})
    /\ UNCHANGED <<eeprom, saved>>

\* What the ids hold after the task, if it is done, or cut off.
SavedAfter(done) ==
    [id \in Ids |->
        IF writes.is = "block" THEN IF id # writes.id THEN saved[id]
                        ELSE IF done THEN [is |-> "data", data |-> writes.data]
                        ELSE [is |-> "any"]
        ELSE IF id \in writes.kept THEN saved[id]
        ELSE [is |-> IF done THEN "none" ELSE "any"]]

\* Every task goes through the EEPROM upwards.
IsFirst(b) == b \in task /\ \A c \in task \ {b} : b[1] < c[1] \/ (b[1] = c[1] /\ b[2] < c[2])

\* WriteEeprom: one byte.
WriteEeprom(b) ==
    /\ IsFirst(b)
    /\ eeprom' = [eeprom EXCEPT ![b[1]][b[2]] = b[3]]
    /\ task' = task \ {b}
    /\ IF task' = {} THEN saved' = SavedAfter(TRUE) /\ writes' = [is |-> "nothing"]
       ELSE UNCHANGED <<saved, writes>>

\* The power goes and comes back.
PowerCut ==
    /\ saved' = IF task = {} THEN saved ELSE SavedAfter(FALSE)
    /\ task' = {} /\ writes' = [is |-> "power"]
    /\ UNCHANGED eeprom

EepromNext ==
    \/ InitializeEeprom \/ PowerCut
    \/ \E b \in task : WriteEeprom(b)
    \/ \E id \in Ids, data \in BlockData : EepromWriteBlock(id, data)
    \/ \E kept \in SUBSET Ids : FormatEeprom2(kept)

EepromSpec == EepromInit /\ [][EepromNext]_eepromVars

(***************************************************************************)
(* Properties.                                                             *)
(***************************************************************************)
\* EepromReadBlock finds what EepromWriteBlock last wrote for an id and nothing
\* for an id never written, whatever was cut off in the writing of other ids and
\* whatever a formatting that spared the id was doing when the power went.
SavedIsRead ==
    Ready => \A id \in Ids :
        CASE saved[id].is = "any" -> TRUE
          [] saved[id].is = "none" -> Hits(id) = {}
          [] OTHER -> /\ Hits(id) # {}
                      /\ EepromReadBlock(id) = saved[id].data

=============================================================================
