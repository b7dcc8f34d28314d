-------------------------------- MODULE Uart --------------------------------
(***************************************************************************)
(* The serial port driver (uart.c): writers put bytes in a ring buffer,    *)
(* uartstart moves them to the device whenever it is idle, called by the   *)
(* writers and by the interrupt handler; uartputc_sync bypasses the ring   *)
(* and the lock, for printf and for echoing.  Threads are the writing      *)
(* processes, those in printf and the interrupt handler.  A slot of the    *)
(* ring that has been read is marked empty, so that a second read shows.   *)
(***************************************************************************)
EXTENDS Naturals, Sequences, FiniteSets

CONSTANTS Writers, Printers, \* processes in write(), kernel threads in printf
          Handler,           \* the one interrupt handler the PLIC lets run
          UART_TX_BUF_SIZE,  \* 32
          TXIDX,             \* the uint64 indexes are modulo TXIDX (2^64)
          FIFO               \* bytes the device's transmit FIFO holds (16)

ASSUME UartBounds == /\ UART_TX_BUF_SIZE \in Nat \ {0} /\ TXIDX \in Nat
                     /\ TXIDX % UART_TX_BUF_SIZE = 0 /\ TXIDX > UART_TX_BUF_SIZE + 1
                     /\ FIFO \in Nat /\ FIFO >= 3
ASSUME UartThreads == /\ Writers \cap Printers = {} /\ Handler \notin Writers \cup Printers
                      /\ "free" \notin Writers \cup Printers \cup {Handler}

VARIABLES tx_buf, tx_r, tx_w, \* uart_tx_buf, uart_tx_r, uart_tx_w
          txlock,             \* who holds uart_tx_lock, or "free"
          thr,                \* bytes in the device, first to go first
          irq,                \* the device's interrupt is pending
          upc,                \* of every thread in this module
          byte,               \* the byte uartstart has in hand, or NoByte
          accepted, sent      \* history: bytes of writers taken in and sent

ring == <<tx_buf, tx_r, tx_w>>
hist == <<accepted, sent>>
uvars == <<ring, txlock, thr, irq, upc, byte, hist>>

\* Bytes of writers are numbered; those of uartputc_sync need no number.
NoByte == TXIDX

Threads == Writers \cup Printers \cup {Handler}

UInit ==
  /\ tx_buf = [i \in 0 .. UART_TX_BUF_SIZE - 1 |-> NoByte] /\ tx_r = 0 /\ tx_w = 0
  /\ txlock = "free" /\ thr = <<>> /\ irq = FALSE
  /\ upc = [t \in Threads |-> "out"]
  /\ byte = NoByte /\ accepted = 0 /\ sent = 0

\* Mutants: the ring takes one byte too many; idle means room in the FIFO.
TxFullLate == tx_w = (tx_r + UART_TX_BUF_SIZE + 1) % TXIDX
TxIdleRoom == Len(thr) < FIFO

TxFull == tx_w = (tx_r + UART_TX_BUF_SIZE) % TXIDX
TxIdle == thr = <<>>  \* LSR_TX_IDLE

\* wakeup(&uart_tx_r)
Wake(pcs) == [t \in Threads |-> IF pcs[t] = "asleep" THEN "putc" ELSE pcs[t]]

\* uartputc of one byte, from acquire to uartstart: store it, or sleep
\* (releasing the lock) while the ring is full.
uartputc(t) ==
  /\ upc[t] = "putc" /\ txlock = "free"
  /\ IF TxFull
     THEN /\ upc' = [upc EXCEPT ![t] = "asleep"]
          /\ UNCHANGED <<tx_buf, tx_w, txlock, accepted>>
     ELSE /\ tx_buf' = [tx_buf EXCEPT ![tx_w % UART_TX_BUF_SIZE] = accepted]
          /\ tx_w' = (tx_w + 1) % TXIDX
          /\ accepted' = (accepted + 1) % TXIDX
          /\ txlock' = t
          /\ upc' = [upc EXCEPT ![t] = "start"]
  /\ UNCHANGED <<tx_r, thr, irq, byte, sent>>

\* The handler takes the lock for its call of uartstart.
LockForStart(t) ==
  /\ upc[t] = "txlock" /\ txlock = "free"
  /\ txlock' = t
  /\ upc' = [upc EXCEPT ![t] = "start"]
  /\ UNCHANGED <<ring, thr, irq, byte, hist>>

\* One turn of uartstart's loop up to the write of the byte; it returns, and
\* its caller releases the lock, when the ring is empty or the device busy.
uartstart(t) ==
  /\ upc[t] = "start"
  /\ IF tx_w = tx_r \/ ~TxIdle
     THEN /\ txlock' = "free"
          /\ upc' = [upc EXCEPT ![t] = "out"]
          /\ UNCHANGED <<tx_buf, tx_r, byte>>
     ELSE /\ byte' = tx_buf[tx_r % UART_TX_BUF_SIZE]
          /\ tx_buf' = [tx_buf EXCEPT ![tx_r % UART_TX_BUF_SIZE] = NoByte]
          /\ tx_r' = (tx_r + 1) % TXIDX
          /\ upc' = [Wake(upc) EXCEPT ![t] = "thr"]
          /\ UNCHANGED txlock
  /\ UNCHANGED <<tx_w, thr, irq, hist>>

\* WriteReg(THR, c) in uartstart.
StartWrites(t) ==
  /\ upc[t] = "thr"
  /\ thr' = Append(thr, byte)
  /\ byte' = NoByte
  /\ upc' = [upc EXCEPT ![t] = "start"]
  /\ UNCHANGED <<ring, txlock, irq, hist>>

\* uartputc_sync: spin until the device is idle, then write.
SyncIdle(t) ==
  /\ upc[t] = "sync" /\ TxIdle
  /\ upc' = [upc EXCEPT ![t] = "put"]
  /\ UNCHANGED <<ring, txlock, thr, irq, byte, hist>>

SyncWrites(t) ==
  /\ upc[t] = "put"
  /\ thr' = Append(thr, NoByte)
  /\ upc' = [upc EXCEPT ![t] = "out"]
  /\ UNCHANGED <<ring, txlock, irq, byte, hist>>

\* The device sends a byte, and raises an interrupt when it has no more.
Transmit ==
  /\ thr # <<>>
  /\ thr' = Tail(thr)
  /\ irq' = (irq \/ Len(thr) = 1)
  /\ sent' = IF Head(thr) = NoByte THEN sent ELSE (sent + 1) % TXIDX
  /\ UNCHANGED <<ring, txlock, upc, byte, accepted>>

UStep(t) == uartputc(t) \/ LockForStart(t) \/ uartstart(t) \/ StartWrites(t)
            \/ SyncIdle(t) \/ SyncWrites(t)
=============================================================================
