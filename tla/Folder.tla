------------------------------- MODULE Folder -------------------------------
(***************************************************************************)
(* What the calls of a file library promise about the names in its folder: *)
(* a call adds, removes or renames the file it was asked to, at one moment *)
(* and nothing else, and what is on the card follows the same changes in   *)
(* the same order, though it may do so later.                              *)
(***************************************************************************)
VARIABLES names,    \* the names of the folder
          durable,  \* the names a PC would find on the card now
          asked     \* the call in progress: its operation and one or two names

Create == /\ asked.op = "create"
          /\ names' = names \cup {asked.name}

Remove == /\ asked.op = "delete"
          /\ names' = names \ {asked.name}

Rename == /\ asked.op = "rename"
          /\ asked.name \in names /\ asked.to \notin names
          /\ names' = (names \ {asked.name}) \cup {asked.to}

Change == /\ Create \/ Remove \/ Rename
          /\ durable' \in {durable, names, names'}

\* What waited reaches the card.
Keep == durable' = names /\ UNCHANGED names

\* What waited is lost: the power went, or the card failed.
Lose == names' = durable /\ UNCHANGED durable

Spec == names = durable /\ [][Lose \/ Keep \/ Change]_<<names, durable>>
=============================================================================
