------------------------------- MODULE Uart -------------------------------
(***************************************************************************)
(* kernel/uart.c and the PL011 as the code uses it: processes that write   *)
(* to the console (consolewrite calls uartputc for each byte), the         *)
(* interrupt handler uartintr, and the device with its two FIFOs.  The     *)
(* handler and the writers run on different CPUs.  uart_tx_r and uart_tx_w *)
(* are 64 bits wide and never wrap, so the transmit ring is a sequence.    *)
(* A read of FR and the write to DR that follows it are two steps.         *)
(***************************************************************************)
EXTENDS Naturals, Sequences

CONSTANTS
    Writers,
    Bytes,
    UART_TX_BUF_SIZE,
    FifoSize,   \* bytes the transmit FIFO of the device holds (FR.TXFF above)
    MaxRx,      \* bytes the receive FIFO holds; 0: nobody types
    MaxWrite,   \* bound: bytes in one write
    Echo,       \* a byte echoed by consoleintr through uartputc_sync
    Irq,        \* the CPU that runs uartintr
    None

ASSUME SizeAssumption ==
    /\ UART_TX_BUF_SIZE \in Nat \ {0} /\ FifoSize \in Nat \ {0}
    /\ MaxRx \in Nat /\ MaxWrite \in Nat \ {0}
ASSUME NamesAssumption == Irq \notin Writers /\ None \notin Writers \cup {Irq} /\ Echo \notin Bytes

VARIABLES
    tx,      \* uart_tx_buf between uart_tx_r and uart_tx_w
    lock,    \* who holds uart_tx_lock
    pc,      \* where each writer and the handler is
    c,       \* the local variable c of uartstart, in the hands of the lock holder
    left,    \* bytes a writer has still to give to uartputc
    fifo,    \* the transmit FIFO of the device
    last,    \* the last byte of a writer that went out on the line
    rx,      \* how many bytes the receive FIFO holds
    rxi      \* the raw receive interrupt

vars == <<tx, lock, pc, c, left, fifo, last, rx, rxi>>

Actors == Writers \cup {Irq}

Init ==
    /\ tx = <<>> /\ lock = None
    /\ pc = [a \in Actors |-> "idle"]
    /\ c \in [Actors -> {None}]
    /\ left = [w \in Writers |-> 0]
    /\ fifo = <<>> /\ last = <<>>
    /\ rx = 0 /\ rxi = FALSE

Goto(a, l) == pc' = [pc EXCEPT ![a] = l]

TxFull == Len(tx) = UART_TX_BUF_SIZE
TXFF == Len(fifo) = FifoSize

\* A byte written to DR; the device drops it if its FIFO is full.
WriteDR(b) == fifo' = IF TXFF THEN fifo ELSE Append(fifo, b)

(***************************************************************************)
(* consolewrite and uartputc.                                              *)
(***************************************************************************)
Write(w) ==
    /\ pc[w] = "idle"
    /\ \E k \in 1 .. MaxWrite : left' = [left EXCEPT ![w] = k]
    /\ Goto(w, "lock")
    /\ UNCHANGED <<tx, lock, c, fifo, last, rx, rxi>>

\* The ring is full: sleep(&uart_tx_r, &uart_tx_lock).
PutSleep(w) ==
    /\ pc[w] = "lock" /\ lock = None /\ TxFull
    /\ Goto(w, "asleep")
    /\ UNCHANGED <<tx, lock, c, left, fifo, last, rx, rxi>>

\* There is room: store the byte and call uartstart.
PutByte(w) ==
    /\ pc[w] = "lock" /\ lock = None /\ ~TxFull
    /\ \E b \in Bytes : tx' = Append(tx, b)
    /\ lock' = w
    /\ left' = [left EXCEPT ![w] = @ - 1]
    /\ Goto(w, "start")
    /\ UNCHANGED <<c, fifo, last, rx, rxi>>

(***************************************************************************)
(* uartstart, for a writer or for the handler.                             *)
(***************************************************************************)
\* Nothing to send, or TXFF: return, and release the lock.
StartReturn(a) ==
    /\ pc[a] = "start" /\ (tx = <<>> \/ TXFF)
    /\ lock' = None
    /\ Goto(a, CASE a = Irq -> "clear"
                 [] a # Irq -> IF left[a] = 0 THEN "idle" ELSE "lock")
    /\ UNCHANGED <<tx, c, left, fifo, last, rx, rxi>>

\* Fault: uartstart does not look at TXFF.
StartTakeBlind(a) ==
    /\ pc[a] = "start" /\ tx # <<>>
    /\ c' = [c EXCEPT ![a] = Head(tx)]
    /\ tx' = Tail(tx)
    /\ pc' = [b \in Actors |-> IF b = a THEN "dr"
                               ELSE IF pc[b] = "asleep" THEN "lock" ELSE pc[b]]
    /\ UNCHANGED <<lock, left, fifo, last, rx, rxi>>

\* Fault: uartstart wakes nobody.
StartTakeNoWakeup(a) ==
    /\ pc[a] = "start" /\ tx # <<>> /\ ~TXFF
    /\ c' = [c EXCEPT ![a] = Head(tx)]
    /\ tx' = Tail(tx)
    /\ Goto(a, "dr")
    /\ UNCHANGED <<lock, left, fifo, last, rx, rxi>>

\* Take the oldest byte out of the ring and wake the sleepers.
StartTake(a) ==
    /\ pc[a] = "start" /\ tx # <<>> /\ ~TXFF
    /\ c' = [c EXCEPT ![a] = Head(tx)]
    /\ tx' = Tail(tx)
    /\ pc' = [b \in Actors |-> IF b = a THEN "dr"
                               ELSE IF pc[b] = "asleep" THEN "lock" ELSE pc[b]]
    /\ UNCHANGED <<lock, left, fifo, last, rx, rxi>>

\* *R(UART_DR) = c, and round the loop.
StartWrite(a) ==
    /\ pc[a] = "dr"
    /\ WriteDR(c[a])
    /\ c' = [c EXCEPT ![a] = None]
    /\ Goto(a, "start")
    /\ UNCHANGED <<tx, lock, left, last, rx, rxi>>

(***************************************************************************)
(* uartintr.  IMSC is UART_RXI (uartsti), so only rxi raises it.           *)
(***************************************************************************)
Interrupt ==
    /\ pc[Irq] = "idle" /\ rxi
    /\ Goto(Irq, "rx")
    /\ UNCHANGED <<tx, lock, c, left, fifo, last, rx, rxi>>

\* One round of the receive loop.  Reading the FIFO below its trigger level
\* (one byte) takes rxi back.  consoleintr echoes most characters.
Getc ==
    /\ pc[Irq] = "rx" /\ rxi /\ rx > 0
    /\ rx' = rx - 1
    /\ rxi' = (rx' > 0)
    /\ Goto(Irq, "rx") \/ Goto(Irq, "echo")
    /\ UNCHANGED <<tx, lock, c, left, fifo, last>>

\* uartputc_sync spins until TXFF is clear; it does not take uart_tx_lock.
EchoSpin ==
    /\ pc[Irq] = "echo" /\ ~TXFF
    /\ Goto(Irq, "echo_dr")
    /\ UNCHANGED <<tx, lock, c, left, fifo, last, rx, rxi>>

EchoWrite ==
    /\ pc[Irq] = "echo_dr"
    /\ WriteDR(Echo)
    /\ Goto(Irq, "rx")
    /\ UNCHANGED <<tx, lock, c, left, last, rx, rxi>>

\* The receive loop ends; acquire(&uart_tx_lock) for uartstart.
RxDone ==
    /\ pc[Irq] = "rx" /\ ~(rxi /\ rx > 0)
    /\ lock = None
    /\ lock' = Irq
    /\ Goto(Irq, "start")
    /\ UNCHANGED <<tx, c, left, fifo, last, rx, rxi>>

\* *R(UART_ICR) = UART_RXI | UART_TXI.
Clear ==
    /\ pc[Irq] = "clear"
    /\ rxi' = FALSE
    /\ Goto(Irq, "idle")
    /\ UNCHANGED <<tx, lock, c, left, fifo, last, rx>>

(***************************************************************************)
(* The device.                                                             *)
(***************************************************************************)
Transmit ==
    /\ fifo # <<>>
    /\ fifo' = Tail(fifo)
    /\ last' = IF Head(fifo) = Echo THEN last ELSE <<Head(fifo)>>
    /\ UNCHANGED <<tx, lock, pc, c, left, rx, rxi>>

\* A character arrives; rxi is raised when the FIFO reaches its trigger level.
Receive ==
    /\ rx < MaxRx
    /\ rx' = rx + 1
    /\ rxi' = (rxi \/ rx = 0)
    /\ UNCHANGED <<tx, lock, pc, c, left, fifo, last>>

Step(a) == StartReturn(a) \/ StartTake(a) \/ StartWrite(a)
WriterStep(w) == PutSleep(w) \/ PutByte(w) \/ Step(w)
IrqStep == Interrupt \/ Getc \/ EchoSpin \/ EchoWrite \/ RxDone \/ Clear \/ Step(Irq)

Next ==
    \/ \E w \in Writers : Write(w) \/ WriterStep(w)
    \/ IrqStep \/ Transmit \/ Receive

Spec == Init /\ [][Next]_vars
---------------------------------------------------------------------------
\* uartputc and uartstart: a writer sleeps only while the ring is full.
NoSleepOnRoom == \A w \in Writers : lock = None /\ pc[w] = "asleep" => TxFull

\* The bytes of the writers in the FIFO, and those the kernel has accepted and
\* the device not sent, oldest first.
InFifo ==
    LET Written(b) == b # Echo IN SelectSeq(fifo, Written)
Pending ==
    LET sending == {a \in Actors : pc[a] = "dr"}
    IN  InFifo \o (IF sending = {} THEN <<>> ELSE <<c[CHOOSE a \in sending : TRUE]>>) \o tx

Stream == INSTANCE ByteStream
              WITH queue <- Pending, Capacity <- UART_TX_BUF_SIZE + FifoSize + 1

\* The echo took the last place in the FIFO after uartstart had looked at TXFF.
LostToEcho ==
    /\ TXFF /\ fifo[FifoSize] = Echo
    /\ Pending' = InFifo \o tx
    /\ UNCHANGED <<fifo, tx, last>>

\* uartputc and uartstart: the bytes of the writers go out once each, in the
\* order uartputc took them; one can be lost only to an echo of uartputc_sync.
OutputInOrder == [][Stream!Next \/ UNCHANGED <<Pending, last>> \/ LostToEcho]_vars
===========================================================================
