------------------------------ MODULE ByteQueue ------------------------------
(***************************************************************************)
(* What a ring of bytes between an interrupt and a program promises: the   *)
(* bytes come out once each and in the order they went in.                 *)
(*                                                                         *)
(* "q" is what went in and has not come out, "out" the byte that came out  *)
(* last.  Where a ring's program may do so, a byte is handed back          *)
(* (PutBack) or everything thrown away (Clear); where it may not, but one  *)
(* byte too many comes, it throws away the others too (Overflow).          *)
(***************************************************************************)
EXTENDS Naturals, Sequences

CONSTANTS Bytes,     \* the values of a byte
          Capacity   \* how many bytes the ring holds at most

VARIABLES q, out

Init == q = <<>>

Put(b) == /\ Len(q) < Capacity
          /\ q' = Append(q, b)
          /\ UNCHANGED out

Take == /\ q # <<>>
        /\ out' = Head(q)
        /\ q' = Tail(q)

PutBack(b) == /\ Len(q) < Capacity
              /\ q' = <<b>> \o q
              /\ UNCHANGED out

Clear == /\ q' = <<>>
         /\ UNCHANGED out

Overflow == Len(q) = Capacity /\ Clear

Next == Take \/ \E b \in Bytes : Put(b)

Spec == Init /\ [][Next]_<<q, out>>
=============================================================================
