------------------------------ MODULE UartRing ------------------------------
(***************************************************************************)
(* The UART rings of the kernel (uzeboxCore.c, UART > 0): one byte of each *)
(* direction moves per scanline, in the sync interrupt (soundMixerInline.s)*)
(* and the program works on the other ends with the interrupt enabled.     *)
(*                                                                         *)
(* The heads and tails are single volatile bytes, so a step is the code    *)
(* between two accesses that the other side can see: a call of the program *)
(* is one or two steps, the interrupt is one.  Masking with the size minus *)
(* one is wrapping at the size, which defines.h wants to be a power of two.*)
(***************************************************************************)
EXTENDS Naturals, Sequences

CONSTANTS Bytes,        \* the values of a byte
          Blank,        \* what the buffers hold before anything came
          RxSize,       \* UART_RX_BUFFER_SIZE
          TxSize,       \* UART_TX_BUFFER_SIZE
          HalfDuplex    \* UART = 2: a byte received keeps the line from sending

ASSUME UartAssumption == /\ Blank \in Bytes
                         /\ RxSize \in Nat \ {0, 1}
                         /\ TxSize \in Nat \ {0, 1}
                         /\ HalfDuplex \in BOOLEAN

VARIABLES rxBuf, rxHead, rxTail,  \* uart_rx_buf, uart_rx_head, uart_rx_tail
          txBuf, txHead, txTail,  \* the same for sending
          uartCall,               \* the call the program is in the middle of
          got,                    \* the byte UartReadChar found last
          overrun,                \* history: a byte too many came since the last reset
          udr                     \* the byte the interrupt gave to UDR0 last

rxVars == <<rxBuf, rxHead, rxTail, got, overrun>>
txVars == <<txBuf, txHead, txTail, udr>>
uartVars == <<rxVars, txVars, uartCall>>

Wrap(i, n) == IF i < n THEN i ELSE i - n

\* How far the head is ahead of the tail (UartUnreadCount).
Ahead(head, tail, n) == IF tail <= head THEN head - tail ELSE head + n - tail

\* The bytes of a ring from the tail up to the head, in order.
Window(buf, head, tail, n) ==
    [i \in 1 .. Ahead(head, tail, n) |-> buf[Wrap(tail + i - 1, n)]]

UartInit ==
    /\ rxBuf = [i \in 0 .. RxSize - 1 |-> Blank]
    /\ txBuf = [i \in 0 .. TxSize - 1 |-> Blank]
    /\ rxHead = 0 /\ rxTail = 0 /\ txHead = 0 /\ txTail = 0
    /\ uartCall = "none" /\ overrun = FALSE
    /\ got = Blank /\ udr = Blank

(***************************************************************************)
(* The interrupt: at most one byte in, at most one byte out.               *)
(***************************************************************************)
\* Where the bytes begin that the program has not found yet.
RxNext == IF uartCall = "read" THEN Wrap(rxTail + 1, RxSize) ELSE rxTail

\* Neither the interrupt nor UartPutInRxBuffer checks for a full ring: its ends meet.
RxPut(b) ==
    /\ rxBuf' = [rxBuf EXCEPT ![rxHead] = b]
    /\ rxHead' = Wrap(rxHead + 1, RxSize)
    /\ overrun' = (overrun \/ Ahead(rxHead, RxNext, RxSize) = RxSize - 1)
    /\ UNCHANGED <<rxTail, got, uartCall>>

TxGet ==
    /\ txHead # txTail
    /\ udr' = txBuf[txTail]
    /\ txTail' = Wrap(txTail + 1, TxSize)
    /\ UNCHANGED <<txBuf, txHead, uartCall>>

\* One scanline: "b" is the byte that came in, if one did, "ready" whether the
\* port can take another one (UDRE0).
ScanlineIn(b, ready) ==
    /\ RxPut(b)
    /\ IF ready /\ ~HalfDuplex /\ txHead # txTail THEN TxGet ELSE UNCHANGED <<txVars, uartCall>>

ScanlineOut == TxGet /\ UNCHANGED rxVars

(***************************************************************************)
(* The program.                                                            *)
(***************************************************************************)
\* UartReadChar up to its store of the tail: the head is read once, and the
\* byte at the tail is one the interrupt does not write.
ReadChar ==
    /\ uartCall = "none"
    /\ rxHead # rxTail
    /\ got' = rxBuf[rxTail]
    /\ uartCall' = "read"
    /\ UNCHANGED <<rxBuf, rxHead, rxTail, overrun, txVars>>

ReadCharTail ==
    /\ uartCall = "read"
    /\ rxTail' = Wrap(rxTail + 1, RxSize)
    /\ uartCall' = "none"
    /\ UNCHANGED <<rxBuf, rxHead, got, overrun, txVars>>

\* Mutant of InitRx: the tail is left where it is.
InitRxKeeps ==
    /\ uartCall = "none"
    /\ uartCall' = "reset"
    /\ UNCHANGED <<rxVars, txVars>>

\* InitUartRxBuffer: the tail, then the head.
InitRx ==
    /\ uartCall = "none"
    /\ rxTail' = 0
    /\ uartCall' = "reset"
    /\ UNCHANGED <<rxBuf, rxHead, got, overrun, txVars>>

InitRxHead ==
    /\ uartCall = "reset"
    /\ rxHead' = 0
    /\ overrun' = FALSE
    /\ uartCall' = "none"
    /\ UNCHANGED <<rxBuf, rxTail, got, txVars>>

TxFull == Wrap(txHead + 1, TxSize) = txTail

\* Mutant of SendChar: without the check for a full ring.
SendCharUnchecked(b) ==
    /\ uartCall = "none"
    /\ txBuf' = [txBuf EXCEPT ![txHead] = b]
    /\ uartCall' = "send"
    /\ UNCHANGED <<txHead, txTail, udr, rxVars>>

\* UartSendChar up to its store of the head; a full ring refuses the byte.
SendChar(b) ==
    /\ uartCall = "none"
    /\ ~TxFull
    /\ txBuf' = [txBuf EXCEPT ![txHead] = b]
    /\ uartCall' = "send"
    /\ UNCHANGED <<txHead, txTail, udr, rxVars>>

SendCharHead ==
    /\ uartCall = "send"
    /\ txHead' = Wrap(txHead + 1, TxSize)
    /\ uartCall' = "none"
    /\ UNCHANGED <<txBuf, txTail, udr, rxVars>>

\* With the bytes that the other side and the program send.
UartNext(received, sent) ==
    \/ \E b \in received, ready \in BOOLEAN : ScanlineIn(b, ready)
    \/ ScanlineOut
    \/ ReadChar \/ ReadCharTail
    \/ InitRx \/ InitRxHead
    \/ \E b \in sent : SendChar(b)
    \/ SendCharHead

UartSpec == UartInit /\ [][UartNext(Bytes, Bytes)]_uartVars

(***************************************************************************)
(* Properties.                                                             *)
(***************************************************************************)
UartTypeOK ==
    /\ rxBuf \in [0 .. RxSize - 1 -> Bytes] /\ txBuf \in [0 .. TxSize - 1 -> Bytes]
    /\ rxHead \in 0 .. RxSize - 1 /\ rxTail \in 0 .. RxSize - 1
    /\ txHead \in 0 .. TxSize - 1 /\ txTail \in 0 .. TxSize - 1
    /\ uartCall \in {"none", "read", "reset", "send"}
    /\ got \in Bytes /\ udr \in Bytes /\ overrun \in BOOLEAN

\* The bytes a ring holds, as its reader sees them: a byte ReadChar has found
\* is out already, and while the ring is reset there is nothing in it.
RxContents ==
    IF uartCall = "reset" THEN <<>>
    ELSE Window(rxBuf, rxHead, RxNext, RxSize)

TxContents == Window(txBuf, txHead, txTail, TxSize)

RxQ == INSTANCE ByteQueue WITH q <- RxContents, out <- got, Capacity <- RxSize - 1
TxQ == INSTANCE ByteQueue WITH q <- TxContents, out <- udr, Capacity <- TxSize - 1

\* Every byte that goes into the sending ring is sent, in order and once,
\* wherever the interrupt falls in UartSendChar: the ring is a queue of one byte
\* less than its size.
TxIsQueue == TxQ!Spec

\* The receiving ring may hand back the byte it gave last (which a byte too many
\* may have overwritten), or be emptied by InitUartRxBuffer.
RxMay == \/ RxQ!Next \/ RxQ!Overflow
         \/ \E b \in Bytes : (b = got \/ overrun) /\ RxQ!PutBack(b)
         \/ uartCall' = "reset" /\ RxQ!Clear

\* The receiving ring is a queue as well, although neither the interrupt nor
\* UartPutInRxBuffer checks whether it is full, and InitUartRxBuffer's two stores
\* may have the interrupt between them: a byte too many loses all that wait, but
\* no byte is ever given twice, out of order or from before it came, not even to
\* a UartReadChar the interrupt falls into.
RxIsQueue == RxQ!Init /\ [][RxMay]_<<RxContents, got>>
=============================================================================
