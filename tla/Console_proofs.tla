--------------------------- MODULE Console_proofs ---------------------------
(***************************************************************************)
(* Proofs about Console and Uart, for any number of readers, writers and   *)
(* printing threads and for rings and indexes of any size: output is not   *)
(* stuck and does not overrun the device, input is not stuck, and the      *)
(* line buffer with its three indexes implements LineInput.                *)
(***************************************************************************)
EXTENDS Console, Integers, TLAPS

\* A remainder is less than the divisor.
LEMMA Remainder ==
  ASSUME NEW m \in Nat \ {0}, NEW x \in Nat
  PROVE  x % m \in 0 .. m - 1
OBVIOUS

\* The indexes of the output ring.
LEMMA RingIndex ==
  ASSUME NEW x \in Nat
  PROVE  /\ (x + 1) % TXIDX \in Nat
         /\ x % UART_TX_BUF_SIZE \in 0 .. UART_TX_BUF_SIZE - 1
<1>1. x + 1 \in Nat
  OBVIOUS
<1> QED BY <1>1, Remainder, UartBounds

\* The number that stands for the bytes of uartputc_sync().
LEMMA NoByteType == NoByte \in Nat
BY Zenon, UartBounds DEF NoByte

-----------------------------------------------------------------------------
(* Output.                                                                 *)

UartTypes ==
  /\ tx_buf \in [0 .. UART_TX_BUF_SIZE - 1 -> Nat] /\ tx_r \in Nat /\ tx_w \in Nat
  /\ thr \in Seq(Nat) /\ byte \in Nat /\ accepted \in Nat
  /\ upc \in [Threads -> {"out", "putc", "asleep", "txlock", "start", "thr", "sync", "put"}]
  /\ \A t \in Writers : upc[t] \in {"out", "putc", "asleep", "start", "thr"}
  /\ \A t \in Printers : upc[t] \in {"out", "sync", "put"}
  /\ upc[Handler] \notin {"putc", "asleep"}

\* uartstart runs under uart_tx_lock, and one thread prints at a time.
OneAtATime ==
  /\ \A t \in Threads : upc[t] \in {"start", "thr"} => txlock = t
  /\ \A t, u \in Printers : upc[t] # "out" /\ upc[u] # "out" => t = u

\* Who has found the device idle and has still to write: the handler, a
\* printing thread, a writer in uartstart.
HandlerLate == upc[Handler] \in {"thr", "put"}
PrinterLate == \E t \in Printers : upc[t] = "put"
WriterLate == \E t \in Writers : upc[t] = "thr"
Late == (IF HandlerLate THEN 1 ELSE 0) + (IF PrinterLate THEN 1 ELSE 0)
        + (IF WriterLate THEN 1 ELSE 0)

\* At most one byte of each is in the device or on its way there.
OutputInv == UartTypes /\ OneAtATime /\ Len(thr) + Late <= 3

\* After uartinit().
LEMMA OutputInit == Init => OutputInv /\ OutputNotStuck
<1> SUFFICES ASSUME Init PROVE OutputInv /\ OutputNotStuck
  BY Zenon
<1>1. UartTypes
  BY UartThreads, NoByteType DEF Init, UInit, UartTypes, Threads
<1>2. OneAtATime /\ ~HandlerLate /\ ~PrinterLate /\ ~WriterLate /\ Len(thr) = 0
  BY Zenon DEF Init, UInit, OneAtATime, HandlerLate, PrinterLate, WriterLate, Threads
<1>3. OutputNotStuck
  BY Zenon DEF Init, UInit, OutputNotStuck
<1> QED BY <1>1, <1>2, <1>3 DEF OutputInv, Late

\* Where each kind of thread can be.
LEMMA Kinds ==
  ASSUME UartTypes, NEW t \in Threads
  PROVE  /\ upc[t] \in {"putc", "asleep"} => t \in Writers
         /\ upc[t] = "txlock" => t = Handler
         /\ upc[t] \in {"start", "thr"} => t \in Writers \cup {Handler}
         /\ upc[t] \in {"sync", "put"} => t \in Printers \cup {Handler}
BY Zenon, UartThreads DEF UartTypes, Threads

\* A step that leaves the driver alone.
LEMMA OutputStutters ==
  ASSUME OutputInv, UNCHANGED uvars
  PROVE  OutputInv'
BY Zenon DEF OutputInv, UartTypes, OneAtATime, Late, HandlerLate, PrinterLate, WriterLate,
       uvars, ring, hist

\* A thread that goes from a place outside uartputc_sync and uartstart to
\* another, with the ring and the device as they were.
LEMMA OutputEnters ==
  ASSUME OutputInv, NEW t \in Threads, NEW s \in {"putc", "sync", "txlock"},
         upc' = [upc EXCEPT ![t] = s],
         s = "putc" => t \in Writers,
         s = "txlock" => t = Handler,
         s = "sync" => t \in Printers \cup {Handler},
         t \in Printers => \A u \in Printers : upc[u] = "out",
         UNCHANGED <<ring, txlock, thr, byte, hist>>
  PROVE  OutputInv'
<1>1. UartTypes'
  BY UartThreads DEF OutputInv, UartTypes, ring, hist, Threads
<1>2. OneAtATime'
  BY DEF OutputInv, UartTypes, OneAtATime, Threads
<1>3. (HandlerLate' => HandlerLate) /\ (PrinterLate' => PrinterLate) /\ (WriterLate' => WriterLate)
  BY Zenon DEF OutputInv, UartTypes, HandlerLate, PrinterLate, WriterLate, Threads
<1>4. Late' <= Late /\ Late \in Nat /\ Late' \in Nat
  BY <1>3 DEF Late
<1>5. Len(thr') = Len(thr) /\ Len(thr) \in Nat
  BY DEF OutputInv, UartTypes
<1> QED BY <1>1, <1>2, <1>4, <1>5 DEF OutputInv

\* Every step of uartputc(), uartputc_sync(), uartstart() and uartintr().
LEMMA OutputUart ==
  ASSUME OutputInv, NEW t \in Threads, UStep(t)
  PROVE  OutputInv'
<1> USE UartThreads, Kinds, NoByteType DEF OutputInv
<1>1. CASE uartputc(t)
  <2>1. t \in Writers
    BY Zenon, <1>1 DEF uartputc
  <2>2. UartTypes'
    <3>1. /\ (accepted + 1) % TXIDX \in Nat /\ (tx_w + 1) % TXIDX \in Nat
          /\ tx_w % UART_TX_BUF_SIZE \in 0 .. UART_TX_BUF_SIZE - 1
      BY RingIndex, Zenon DEF UartTypes
    <3>2. /\ accepted' \in Nat /\ tx_w' \in Nat /\ tx_r' \in Nat /\ thr' \in Seq(Nat)
          /\ byte' \in Nat /\ tx_buf' \in [0 .. UART_TX_BUF_SIZE - 1 -> Nat]
      BY SMTT(20), <1>1, <3>1 DEF uartputc, UartTypes
    <3>3. PICK v \in {"asleep", "start"} : upc' = [upc EXCEPT ![t] = v]
      BY Zenon, <1>1 DEF uartputc
    <3>4. /\ upc' \in [Threads -> {"out", "putc", "asleep", "txlock", "start", "thr", "sync", "put"}]
          /\ \A u \in Writers : upc'[u] \in {"out", "putc", "asleep", "start", "thr"}
          /\ \A u \in Printers : upc'[u] \in {"out", "sync", "put"}
          /\ upc'[Handler] \notin {"putc", "asleep"}
      BY <2>1, <3>3 DEF UartTypes, Threads
    <3> QED BY Zenon, <3>2, <3>4 DEF UartTypes
  <2>3. OneAtATime'
    BY <1>1, <2>1 DEF uartputc, UartTypes, OneAtATime, Threads
  <2>4. (HandlerLate' => HandlerLate) /\ (PrinterLate' => PrinterLate) /\ (WriterLate' => WriterLate)
    BY <1>1, <2>1 DEF uartputc, UartTypes, HandlerLate, PrinterLate, WriterLate, Threads
  <2>5. thr' = thr /\ Len(thr) \in Nat
    BY <1>1 DEF uartputc, UartTypes
  <2> QED BY <2>2, <2>3, <2>4, <2>5 DEF Late
<1>2. CASE LockForStart(t)
  <2>1. t = Handler
    BY Zenon, <1>2 DEF LockForStart
  <2>2. UartTypes'
    BY <1>2, <2>1 DEF LockForStart, UartTypes, ring, hist, Threads
  <2>3. OneAtATime'
    BY <1>2, <2>1 DEF LockForStart, UartTypes, OneAtATime, Threads
  <2>4. (HandlerLate' => HandlerLate) /\ (PrinterLate' => PrinterLate) /\ (WriterLate' => WriterLate)
    BY <1>2, <2>1 DEF LockForStart, UartTypes, HandlerLate, PrinterLate, WriterLate, Threads
  <2>5. thr' = thr /\ Len(thr) \in Nat
    BY <1>2 DEF LockForStart, UartTypes
  <2> QED BY <2>2, <2>3, <2>4, <2>5 DEF Late
<1>3. CASE uartstart(t)
  <2>1. t \in Writers \cup {Handler}
    BY Zenon, <1>3 DEF uartstart
  <2>2. UartTypes'
    <3>1. (tx_r + 1) % TXIDX \in Nat /\ tx_r % UART_TX_BUF_SIZE \in 0 .. UART_TX_BUF_SIZE - 1
      BY RingIndex, Zenon DEF UartTypes
    <3>2. /\ accepted' \in Nat /\ tx_w' \in Nat /\ tx_r' \in Nat /\ thr' \in Seq(Nat)
          /\ byte' \in Nat /\ tx_buf' \in [0 .. UART_TX_BUF_SIZE - 1 -> Nat]
      BY SMTT(20), <1>3, <3>1 DEF uartstart, UartTypes, hist
    <3>3. upc' = [upc EXCEPT ![t] = "out"] \/ upc' = [Wake(upc) EXCEPT ![t] = "thr"]
      BY Zenon, <1>3 DEF uartstart
    <3>4. /\ upc' \in [Threads -> {"out", "putc", "asleep", "txlock", "start", "thr", "sync", "put"}]
          /\ \A u \in Writers : upc'[u] \in {"out", "putc", "asleep", "start", "thr"}
          /\ \A u \in Printers : upc'[u] \in {"out", "sync", "put"}
          /\ upc'[Handler] \notin {"putc", "asleep"}
      <4>1. CASE upc' = [upc EXCEPT ![t] = "out"]
        BY ZenonT(30), <2>1, <4>1 DEF UartTypes, Threads
      <4>2. CASE upc' = [Wake(upc) EXCEPT ![t] = "thr"]
        BY ZenonT(30), <2>1, <4>2 DEF UartTypes, Wake, Threads
      <4> QED BY Zenon, <3>3, <4>1, <4>2
    <3> QED BY Zenon, <3>2, <3>4 DEF UartTypes
  <2>3. OneAtATime'
    <3>1. \A u \in Threads : upc'[u] \in {"start", "thr"} => upc[u] \in {"start", "thr"}
      BY <1>3, Zenon DEF uartstart, UartTypes, Wake
    <3>2. \A u \in Threads : upc[u] \in {"start", "thr"} => u = t
      BY Zenon, <1>3 DEF uartstart, OneAtATime
    <3>3. upc'[t] \in {"start", "thr"} => txlock' = t
      BY <1>3, <3>2 DEF uartstart, UartTypes, OneAtATime
    <3>4. \A u \in Printers : upc'[u] = upc[u]
      BY <1>3, <2>1, Zenon DEF uartstart, UartTypes, Wake, Threads
    <3> QED BY <3>1, <3>2, <3>3, <3>4 DEF OneAtATime
  <2>4. CASE tx_w = tx_r \/ ~TxIdle
    <3>1. (HandlerLate' => HandlerLate) /\ (PrinterLate' => PrinterLate) /\ (WriterLate' => WriterLate)
      BY <1>3, <2>1, <2>4 DEF uartstart, UartTypes, HandlerLate, PrinterLate, WriterLate, Threads
    <3>2. thr' = thr /\ Len(thr) \in Nat
      BY <1>3 DEF uartstart, UartTypes
    <3> QED BY <2>2, <2>3, <3>1, <3>2 DEF Late
  <2>5. CASE ~(tx_w = tx_r \/ ~TxIdle)
    <3>1. Len(thr') = 0
      BY <1>3, <2>5 DEF uartstart, TxIdle
    <3> QED BY <2>2, <2>3, <3>1 DEF Late
  <2> QED BY <2>4, <2>5
<1>4. CASE StartWrites(t)
  <2>1. t \in Writers \cup {Handler} /\ txlock = t
    BY Zenon, <1>4 DEF StartWrites, OneAtATime
  <2>2. UartTypes'
    BY <1>4, <2>1 DEF StartWrites, UartTypes, ring, hist, Threads
  <2>3. OneAtATime'
    BY <1>4, <2>1 DEF StartWrites, UartTypes, OneAtATime, Threads
  <2>4. Len(thr') = Len(thr) + 1 /\ Len(thr) \in Nat
    BY <1>4 DEF StartWrites, UartTypes
  <2>5. PrinterLate' <=> PrinterLate
    BY <1>4, <2>1 DEF StartWrites, UartTypes, PrinterLate, Threads
  <2>6. CASE t = Handler
    <3>1. HandlerLate /\ ~HandlerLate' /\ (WriterLate' <=> WriterLate)
      BY <1>4, <2>6 DEF StartWrites, UartTypes, HandlerLate, WriterLate, Threads
    <3> QED BY <2>2, <2>3, <2>4, <2>5, <3>1 DEF Late
  <2>7. CASE t \in Writers
    <3>1. WriterLate /\ ~WriterLate'
      BY <1>4, <2>1, <2>7 DEF StartWrites, UartTypes, OneAtATime, WriterLate, Threads
    <3>2. HandlerLate' <=> HandlerLate
      BY <1>4, <2>7 DEF StartWrites, UartTypes, HandlerLate, Threads
    <3> QED BY <2>2, <2>3, <2>4, <2>5, <3>1, <3>2 DEF Late
  <2> QED BY <2>1, <2>6, <2>7
<1>5. CASE SyncIdle(t)
  <2>1. t \in Printers \cup {Handler}
    BY Zenon, <1>5 DEF SyncIdle
  <2>2. UartTypes'
    BY <1>5, <2>1 DEF SyncIdle, UartTypes, ring, hist, Threads
  <2>3. OneAtATime'
    BY <1>5, <2>1 DEF SyncIdle, UartTypes, OneAtATime, Threads
  <2>4. Len(thr') = 0
    BY Zenon, <1>5 DEF SyncIdle, TxIdle
  <2> QED BY <2>2, <2>3, <2>4 DEF Late
<1>6. CASE SyncWrites(t)
  <2>1. t \in Printers \cup {Handler}
    BY <1>6 DEF SyncWrites
  <2>2. UartTypes'
    BY <1>6, <2>1 DEF SyncWrites, UartTypes, ring, hist, Threads
  <2>3. OneAtATime'
    BY <1>6, <2>1 DEF SyncWrites, UartTypes, OneAtATime, Threads
  <2>4. Len(thr') = Len(thr) + 1 /\ Len(thr) \in Nat
    BY <1>6 DEF SyncWrites, UartTypes
  <2>5. WriterLate' <=> WriterLate
    BY <1>6, <2>1 DEF SyncWrites, UartTypes, WriterLate, Threads
  <2>6. CASE t = Handler
    <3>1. HandlerLate /\ ~HandlerLate' /\ (PrinterLate' <=> PrinterLate)
      BY <1>6, <2>6 DEF SyncWrites, UartTypes, HandlerLate, PrinterLate, Threads
    <3> QED BY <2>2, <2>3, <2>4, <2>5, <3>1 DEF Late
  <2>7. CASE t \in Printers
    <3>1. PrinterLate /\ ~PrinterLate'
      BY <1>6, <2>7 DEF SyncWrites, UartTypes, OneAtATime, PrinterLate, Threads
    <3>2. HandlerLate' <=> HandlerLate
      BY <1>6, <2>7 DEF SyncWrites, UartTypes, HandlerLate, Threads
    <3> QED BY <2>2, <2>3, <2>4, <2>5, <3>1, <3>2 DEF Late
  <2> QED BY <2>1, <2>6, <2>7
<1> QED BY <1>1, <1>2, <1>3, <1>4, <1>5, <1>6 DEF UStep

\* The device sends a byte.
LEMMA OutputTransmits ==
  ASSUME OutputInv, Transmit
  PROVE  OutputInv'
<1>1. UartTypes' /\ OneAtATime'
  BY DEF OutputInv, Transmit, UartTypes, OneAtATime, ring
<1>2. Len(thr') = Len(thr) - 1 /\ Len(thr) \in Nat
  BY DEF OutputInv, Transmit, UartTypes
<1>3. Late' = Late /\ Late \in Nat
  BY DEF Transmit, Late, HandlerLate, PrinterLate, WriterLate
<1> QED BY <1>1, <1>2, <1>3 DEF OutputInv

\* Every step of the console.
LEMMA OutputStep ==
  ASSUME OutputInv, [Next]_vars
  PROVE  OutputInv'
<1>1. CASE UartStep
  BY <1>1, OutputUart, OutputTransmits DEF UartStep
<1>2. CASE HandlerStep
  <2>1. CASE Claim
    BY Zenon, <2>1 DEF Claim, OutputInv, UartTypes, OneAtATime, Late, HandlerLate, PrinterLate,
                WriterLate, ring, hist
  <2>2. CASE \E c \in load.keys : consoleintr(c)
    BY <2>2, OutputStutters DEF consoleintr
  <2>3. CASE Echo
    BY <2>3, OutputEnters, UartThreads, Zenon DEF Echo, Threads
  <2>4. CASE EchoDone \/ Complete
    BY <2>4, OutputStutters DEF EchoDone, Complete
  <2>5. CASE StartOutput
    BY <2>5, OutputEnters, UartThreads, Zenon DEF StartOutput, Threads
  <2> QED BY <1>2, <2>1, <2>2, <2>3, <2>4, <2>5 DEF HandlerStep
<1>3. CASE \E p \in Readers : ReadCall(p) \/ ReadWaits(p) \/ ReadChar(p) \/ kill(p)
  BY <1>3, OutputStutters DEF ReadCall, ReadWaits, ReadChar, kill
<1>4. CASE \E p \in Writers : consolewrite(p)
  BY <1>4, OutputEnters, UartThreads, Zenon DEF consolewrite, Threads
<1>5. CASE \E t \in Printers : printf(t)
  BY <1>5, OutputEnters, UartThreads, Zenon DEF printf, Threads
<1>6. CASE Press
  BY Zenon, <1>6 DEF Press, OutputInv, UartTypes, OneAtATime, Late, HandlerLate, PrinterLate,
              WriterLate, ring, hist
<1>7. CASE UNCHANGED vars
  BY <1>7, OutputStutters DEF vars
<1> QED BY <1>1, <1>2, <1>3, <1>4, <1>5, <1>6, <1>7 DEF Next

\* The device's FIFO is never overrun: of the threads that find it idle at the
\* same time and write later, there are at most a handler, a thread in printf
\* and a writer, however many writers and printing threads there are.
THEOREM FifoNotOverrun == Spec => []NoOverrun
<1>1. OutputInv => NoOverrun
  <2> SUFFICES ASSUME OutputInv PROVE NoOverrun
    BY Zenon
  <2>1. Late \in Nat /\ Len(thr) \in Nat
    BY DEF Late, OutputInv, UartTypes
  <2> QED BY <2>1, UartBounds DEF OutputInv, NoOverrun
<1>2. Init => OutputInv
  BY Zenon, OutputInit
<1>3. OutputInv /\ [Next]_vars => OutputInv'
  BY OutputStep
<1> QED BY <1>1, <1>2, <1>3, PTL DEF Spec

\* No step leaves bytes in the ring with nobody to send them.
LEMMA NotStuckStep ==
  ASSUME OutputInv, OutputNotStuck, [Next]_vars
  PROVE  OutputNotStuck'
<1> USE UartThreads DEF OutputNotStuck
<1>0. upc \in [Threads -> {"out", "putc", "asleep", "txlock", "start", "thr", "sync", "put"}]
      /\ Handler \in Threads /\ thr \in Seq(Nat) /\ byte \in Nat
  BY Zenon DEF OutputInv, UartTypes, Threads
<1>1. ASSUME NEW t \in Threads, UStep(t), UNCHANGED cvars
      PROVE  OutputNotStuck'
  <2>1. hpc' = hpc
    BY Zenon, <1>1 DEF cvars, handler
  <2>2. CASE uartputc(t)
    BY <1>0, <2>1, <2>2 DEF uartputc
  <2>3. CASE LockForStart(t)
    BY <1>0, <2>3 DEF LockForStart
  <2>4. CASE uartstart(t)
    <3>1. CASE tx_w = tx_r
      BY <2>4, <3>1 DEF uartstart
    <3>2. CASE thr # <<>>
      BY <2>4, <3>2 DEF uartstart
    <3>3. CASE tx_w # tx_r /\ thr = <<>>
      BY <1>0, <2>4, <3>3 DEF uartstart, TxIdle, Wake
    <3> QED BY <3>1, <3>2, <3>3
  <2>5. CASE StartWrites(t)
    <3>1. thr' # <<>>
      BY <1>0, <2>5 DEF StartWrites
    <3> QED BY Zenon, <3>1
  <2>6. CASE SyncIdle(t)
    BY <1>0, <2>6 DEF SyncIdle
  <2>7. CASE SyncWrites(t)
    <3>1. thr' # <<>>
      BY <1>0, <2>7 DEF SyncWrites
    <3> QED BY Zenon, <3>1
  <2> HIDE DEF OutputNotStuck
  <2> QED BY <1>1, <2>2, <2>3, <2>4, <2>5, <2>6, <2>7, Zenon DEF UStep
<1>2. CASE Transmit /\ UNCHANGED cvars
  <2>1. thr' = <<>> => irq'
    <3>1. Len(thr') = Len(thr) - 1 /\ Len(thr) \in Nat
      BY <1>0, <1>2 DEF Transmit
    <3>2. thr' = <<>> => Len(thr') = 0
      OBVIOUS
    <3>3. thr' = <<>> => Len(thr) = 1
      BY <3>1, <3>2
    <3> QED BY <1>2, <3>3, Zenon DEF Transmit
  <2>2. CASE thr' # <<>>
    BY Zenon, <2>2
  <2> QED BY <2>1, <2>2
<1>3. CASE HandlerStep
  <2>1. CASE Claim
    BY Zenon, <2>1 DEF Claim
  <2>2. CASE \E c \in load.keys : consoleintr(c)
    BY Zenon, <2>2 DEF consoleintr
  <2>3. CASE Echo
    BY Zenon, <2>3 DEF Echo
  <2>4. CASE EchoDone
    BY Zenon, <2>4 DEF EchoDone
  <2>5. CASE StartOutput
    BY <1>0, <2>5 DEF StartOutput
  <2>6. CASE Complete
    BY Zenon, <2>6 DEF Complete, uvars, ring
  <2> HIDE DEF OutputNotStuck
  <2> QED BY <1>3, <2>1, <2>2, <2>3, <2>4, <2>5, <2>6, Zenon DEF HandlerStep
<1>4. CASE \E p \in Readers : ReadCall(p) \/ ReadWaits(p) \/ ReadChar(p) \/ kill(p)
  <2>1. UNCHANGED <<uvars, handler>>
    BY <1>4, Zenon DEF ReadCall, ReadWaits, ReadChar, kill
  <2> QED BY Zenon, <2>1 DEF uvars, ring, handler
<1>5. CASE \E p \in Writers : consolewrite(p)
  BY <1>0, <1>5 DEF consolewrite, ring, cvars, handler, Threads
<1>6. CASE \E t \in Printers : printf(t)
  BY <1>0, <1>6 DEF printf, ring, cvars, handler, Threads
<1>7. CASE Press
  BY Zenon, <1>7 DEF Press
<1>8. CASE UNCHANGED vars
  BY Zenon, <1>8 DEF vars, uvars, ring, cvars, handler
<1> HIDE DEF OutputNotStuck
<1> QED BY <1>1, <1>2, <1>3, <1>4, <1>5, <1>6, <1>7, <1>8, Zenon DEF Next, UartStep

\* Output does not stop with bytes left in the ring: the property is inductive,
\* given what a thread can be doing.
THEOREM OutputGoesOn == Spec => []OutputNotStuck
<1>1. Init => OutputInv /\ OutputNotStuck
  BY Zenon, OutputInit
<1>2. OutputInv /\ OutputNotStuck /\ [Next]_vars => (OutputInv /\ OutputNotStuck)'
  BY OutputStep, NotStuckStep
<1> QED BY <1>1, <1>2, PTL DEF Spec

-----------------------------------------------------------------------------

\* Arithmetic modulo m, one turn up or down.
LEMMA ModTurn ==
  ASSUME NEW m \in Nat \ {0}, NEW x \in Int
  PROVE  /\ x \in 0 .. m - 1 => x % m = x
         /\ x \in -m .. -1 => x % m = x + m
         /\ x \in m .. 2 * m - 1 => x % m = x - m
<1>1. x \in 0 .. m - 1 => x % m = x
  OBVIOUS
<1>2. x \in -m .. -1 => x % m = x + m
  OBVIOUS
<1>3. x \in m .. 2 * m - 1 => x % m = x - m
  OBVIOUS
<1> QED BY <1>1, <1>2, <1>3

\* Division with remainder, and what a multiple of the divisor is at least.
LEMMA Division ==
  ASSUME NEW m \in Nat \ {0}, NEW x \in Int
  PROVE  x \div m \in Int /\ x % m \in 0 .. m - 1 /\ x = m * (x \div m) + (x % m)
OBVIOUS

\* A multiple of m other than 0 is at least m away from 0.
LEMMA Multiple ==
  ASSUME NEW m \in Nat \ {0}, NEW t \in Int
  PROVE  (t >= 1 => m * t >= m) /\ (t <= -1 => m * t <= -m)
<1>1. t >= 1 => m * t >= m
  OBVIOUS
<1>2. t <= -1 => m * t <= -m
  OBVIOUS
<1> QED BY <1>1, <1>2

\* There is only one remainder.
LEMMA RemainderIs ==
  ASSUME NEW m \in Nat \ {0}, NEW d \in Int, NEW s \in 0 .. m - 1
  PROVE  (m * d + s) % m = s
<1> DEFINE x == m * d + s
           u == x \div m
           v == x % m
<1>1. x \in Int /\ x = m * d + s
  OBVIOUS
<1> HIDE DEF x
<1>2. u \in Int /\ v \in 0 .. m - 1 /\ x = m * u + v
  BY <1>1, Division
<1> HIDE DEF u, v
<1>3. m * (d - u) = v - s
  BY <1>1, <1>2
<1>4. d - u \in Int
  BY <1>2
<1>5. (d - u >= 1 => m * (d - u) >= m) /\ (d - u <= -1 => m * (d - u) <= -m)
  BY <1>4, Multiple
<1>6. ~(d - u >= 1) /\ ~(d - u <= -1)
  BY <1>2, <1>3, <1>5
<1>7. d - u = 0
  BY <1>4, <1>6
<1>8. v = s
  BY <1>1, <1>2, <1>7
<1> QED BY <1>8 DEF v, x

\* Whole turns do not change a remainder.
LEMMA WholeTurns ==
  ASSUME NEW m \in Nat \ {0}, NEW x \in Int, NEW q \in Int
  PROVE  (x + m * q) % m = x % m
<1> DEFINE u == x \div m
           v == x % m
<1>1. u \in Int /\ v \in 0 .. m - 1 /\ x = m * u + v
  BY Division
<1> HIDE DEF u, v
<1>2. x + m * q = m * (u + q) + v /\ u + q \in Int
  BY <1>1
<1>3. (m * (u + q) + v) % m = v
  BY <1>1, <1>2, RemainderIs
<1> QED BY <1>2, <1>3 DEF v

\* Numbers with the same remainder are a turn apart at least.
LEMMA SameRemainder ==
  ASSUME NEW m \in Nat \ {0}, NEW x \in Int, NEW y \in Int, x % m = y % m, x > y
  PROVE  x - y >= m
<1>1. /\ x \div m \in Int /\ x = m * (x \div m) + (x % m) /\ x % m \in Int
      /\ y \div m \in Int /\ y = m * (y \div m) + (y % m)
  BY Division
<1> DEFINE t == (x \div m) - (y \div m)
<1>2. t \in Int /\ x - y = m * t
  BY <1>1
<1> HIDE DEF t
<1>3. m * t > 0
  BY <1>2
<1>4. t >= 1
  BY <1>2, <1>3
<1> QED BY <1>2, <1>4, Multiple

-----------------------------------------------------------------------------
(* Input.                                                                  *)

Index == 0 .. IDX - 1

\* The ring of cons.buf is smaller than the range of its indexes.
LEMMA Sizes == IDX \in Nat \ {0} /\ INPUT_BUF_SIZE \in Nat \ {0} /\ INPUT_BUF_SIZE < IDX
BY ConsoleBounds

\* cons.r, cons.w and cons.e wrap round once at most.
LEMMA IndexTurn ==
  ASSUME NEW x \in -IDX .. 2 * IDX - 1
  PROVE  x % IDX = IF x < 0 THEN x + IDX ELSE IF x < IDX THEN x ELSE x - IDX
<1>1. x \in Int
  BY Sizes
<1>2. /\ x \in 0 .. IDX - 1 => x % IDX = x
      /\ x \in -IDX .. -1 => x % IDX = x + IDX
      /\ x \in IDX .. 2 * IDX - 1 => x % IDX = x - IDX
  BY <1>1, Sizes, ModTurn, Zenon
<1> QED BY <1>1, <1>2, Sizes

\* Distances round the ring of indexes, for either order of the two.
LEMMA DistIs ==
  ASSUME NEW a \in Index, NEW b \in Index
  PROVE  Dist(a, b) = IF a >= b THEN a - b ELSE a - b + IDX
<1>1. a - b \in -IDX .. 2 * IDX - 1
  BY Sizes DEF Index
<1>2. (a - b) % IDX = IF a - b < 0 THEN a - b + IDX ELSE IF a - b < IDX THEN a - b ELSE a - b - IDX
  BY <1>1, IndexTurn
<1> QED BY <1>2, Sizes DEF Dist, Index

\* An index moves one on, and from the last to 0.
LEMMA NextIndex ==
  ASSUME NEW a \in Index
  PROVE  (a + 1) % IDX = IF a = IDX - 1 THEN 0 ELSE a + 1
<1> DEFINE x == a + 1
<1>1. x \in -IDX .. 2 * IDX - 1
  BY Sizes DEF Index
<1> HIDE DEF x
<1>2. x % IDX = IF x < 0 THEN x + IDX ELSE IF x < IDX THEN x ELSE x - IDX
  BY <1>1, IndexTurn
<1> QED BY <1>2, Sizes DEF Index, x

\* Moving an index forward or back changes its distance from another by as much.
LEMMA DistNext ==
  ASSUME NEW a \in Index, NEW b \in Index
  PROVE  /\ (a + 1) % IDX \in Index
         /\ Dist(a, b) \in Index /\ Dist(a, a) = 0 /\ (Dist(a, b) = 0 <=> a = b)
         /\ Dist(a, b) < IDX - 1 => Dist((a + 1) % IDX, b) = Dist(a, b) + 1
         /\ a # b => Dist(a, (b + 1) % IDX) = Dist(a, b) - 1
<1> DEFINE x == (a + 1) % IDX
           y == (b + 1) % IDX
<1>0. x = (IF a = IDX - 1 THEN 0 ELSE a + 1)
  BY Zenon, NextIndex
<1>1. x = (IF a = IDX - 1 THEN 0 ELSE a + 1) /\ y = (IF b = IDX - 1 THEN 0 ELSE b + 1)
  BY <1>0, NextIndex
<1>2. x \in Index /\ y \in Index
  BY <1>1, Sizes DEF Index
<1> HIDE DEF x, y
<1>3. /\ Dist(a, b) = IF a >= b THEN a - b ELSE a - b + IDX
      /\ Dist(a, a) = IF a >= a THEN a - a ELSE a - a + IDX
      /\ Dist(x, b) = IF x >= b THEN x - b ELSE x - b + IDX
      /\ Dist(a, y) = IF a >= y THEN a - y ELSE a - y + IDX
  BY <1>2, DistIs
<1>4. /\ Dist(a, b) \in Index /\ Dist(a, a) = 0 /\ (Dist(a, b) = 0 <=> a = b)
      /\ Dist(a, b) < IDX - 1 => Dist(x, b) = Dist(a, b) + 1
      /\ a # b => Dist(a, y) = Dist(a, b) - 1
  BY <1>1, <1>2, <1>3, Sizes DEF Index
<1> QED BY <1>2, <1>4 DEF x, y

\* cons.e moved back by k is k nearer to cons.w.
LEMMA DistBack ==
  ASSUME NEW a \in Index, NEW b \in Index, NEW k \in 0 .. Dist(a, b)
  PROVE  (a - k) % IDX \in Index /\ Dist((a - k) % IDX, b) = Dist(a, b) - k
<1> DEFINE x == (a - k) % IDX
<1>1. Dist(a, b) \in Index
  BY Zenon, DistNext
<1>2. k \in Index
  BY <1>1, Sizes DEF Index
<1>3. x = IF a >= k THEN a - k ELSE a - k + IDX
  BY <1>2, DistIs DEF Dist
<1>4. x \in Index
  BY <1>2, <1>3, Sizes DEF Index
<1> HIDE DEF x
<1>5. /\ Dist(a, b) = IF a >= b THEN a - b ELSE a - b + IDX
      /\ Dist(x, b) = IF x >= b THEN x - b ELSE x - b + IDX
  BY <1>4, DistIs
<1>6. Dist(x, b) = Dist(a, b) - k
  BY <1>2, <1>3, <1>4, <1>5, Sizes DEF Index
<1> QED BY <1>4, <1>6 DEF x

\* The k-th index from a on, where k is at most one turn.
Pos(a, k) == (a + k - 1) % IDX

\* Counting on from an index: the distance counted, the index reached, the
\* same index counted from further on and from behind.
LEMMA PosIs ==
  ASSUME NEW a \in Index, NEW k \in 1 .. IDX
  PROVE  /\ Pos(a, k) = IF a + k - 1 < IDX THEN a + k - 1 ELSE a + k - 1 - IDX
         /\ Pos(a, k) \in Index
<1> DEFINE x == a + k - 1
<1>1. x \in -IDX .. 2 * IDX - 1 /\ x >= 0
  BY Sizes DEF Index
<1> HIDE DEF x
<1>2. x % IDX = IF x < 0 THEN x + IDX ELSE IF x < IDX THEN x ELSE x - IDX
  BY <1>1, IndexTurn
<1> QED BY <1>1, <1>2, Sizes DEF Index, x, Pos

\* The same index counted from another one nearer by, and counted back.
LEMMA PosFrom ==
  ASSUME NEW a \in Index, NEW b \in Index
  PROVE  /\ Pos(a, Dist(b, a) + 1) = b /\ Pos(a, 1) = a
         /\ \A k \in 1 .. IDX - Dist(b, a) : Pos(a, Dist(b, a) + k) = Pos(b, k)
         /\ \A j \in 1 .. Dist(b, a) : (b - j) % IDX = Pos(a, Dist(b, a) - j + 1)
<1> DEFINE d == Dist(b, a)
<1>1. d = (IF b >= a THEN b - a ELSE b - a + IDX) /\ d \in Index
  BY DistIs, DistNext
<1> HIDE DEF d
<1>2. Pos(a, 1) = a
  <2>1. 1 \in 1 .. IDX
    BY Sizes
  <2> QED BY <2>1, PosIs, Sizes DEF Index
<1>3. ASSUME NEW k \in 1 .. IDX - d PROVE Pos(a, d + k) = Pos(b, k)
  <2>1. d + k \in 1 .. IDX /\ k \in 1 .. IDX
    BY <1>1, Sizes DEF Index
  <2>2. Pos(a, d + k) = IF a + (d + k) - 1 < IDX THEN a + (d + k) - 1 ELSE a + (d + k) - 1 - IDX
    BY <2>1, PosIs
  <2>3. Pos(b, k) = IF b + k - 1 < IDX THEN b + k - 1 ELSE b + k - 1 - IDX
    BY <2>1, PosIs
  <2> QED BY <1>1, <2>1, <2>2, <2>3, Sizes DEF Index
<1>4. Pos(a, d + 1) = b
  <2>1. 1 \in 1 .. IDX - d /\ 1 \in 1 .. IDX
    BY <1>1, Sizes DEF Index
  <2>2. Pos(b, 1) = b
    BY <2>1, PosIs, Sizes DEF Index
  <2> QED BY <1>3, <2>1, <2>2
<1>5. ASSUME NEW j \in 1 .. d PROVE (b - j) % IDX = Pos(a, d - j + 1)
  <2> DEFINE x == b - j
  <2>1. x \in -IDX .. 2 * IDX - 1 /\ d - j + 1 \in 1 .. IDX
    BY <1>1, Sizes DEF Index
  <2> HIDE DEF x
  <2>2. x % IDX = IF x < 0 THEN x + IDX ELSE IF x < IDX THEN x ELSE x - IDX
    BY <2>1, IndexTurn
  <2>3. Pos(a, d - j + 1) = IF a + (d - j + 1) - 1 < IDX THEN a + (d - j + 1) - 1
                            ELSE a + (d - j + 1) - 1 - IDX
    BY <2>1, PosIs
  <2> QED BY <1>1, <2>1, <2>2, <2>3, Sizes DEF Index, x
<1> QED BY <1>2, <1>3, <1>4, <1>5 DEF d

\* The slot of an index does not depend on its turns, as 2^32 is a multiple of
\* the size of cons.buf.
LEMMA SlotTurn ==
  ASSUME NEW x \in -IDX .. 2 * IDX - 1
  PROVE  (x % IDX) % INPUT_BUF_SIZE = x % INPUT_BUF_SIZE
<1> DEFINE q == IDX \div INPUT_BUF_SIZE
<1>1. q \in Int /\ IDX = INPUT_BUF_SIZE * q /\ x \in Int
  BY ConsoleBounds, Division
<1> HIDE DEF q
<1>2. x % IDX = IF x < 0 THEN x + IDX ELSE IF x < IDX THEN x ELSE x - IDX
  BY IndexTurn
<1>3. /\ (x + INPUT_BUF_SIZE * q) % INPUT_BUF_SIZE = x % INPUT_BUF_SIZE
      /\ (x + INPUT_BUF_SIZE * (-q)) % INPUT_BUF_SIZE = x % INPUT_BUF_SIZE
  <2>1. -q \in Int
    BY <1>1
  <2> QED BY <1>1, <2>1, WholeTurns, Sizes, Zenon
<1>4. x + INPUT_BUF_SIZE * q = x + IDX /\ x + INPUT_BUF_SIZE * (-q) = x - IDX
  BY <1>1, Sizes
<1>5. (x + IDX) % INPUT_BUF_SIZE = x % INPUT_BUF_SIZE
      /\ (x - IDX) % INPUT_BUF_SIZE = x % INPUT_BUF_SIZE
  BY <1>3, <1>4
<1>6. x % IDX = x + IDX \/ x % IDX = x \/ x % IDX = x - IDX
  BY <1>2
<1> QED BY Zenon, <1>5, <1>6

\* As many indexes in a row as cons.buf has slots have different slots.
LEMMA SlotsDiffer ==
  ASSUME NEW a \in Index, NEW j \in 1 .. INPUT_BUF_SIZE, NEW k \in 1 .. INPUT_BUF_SIZE,
         Pos(a, j) % INPUT_BUF_SIZE = Pos(a, k) % INPUT_BUF_SIZE
  PROVE  j = k
<1> DEFINE x == a + j - 1
           y == a + k - 1
<1>1. x \in -IDX .. 2 * IDX - 1 /\ y \in -IDX .. 2 * IDX - 1 /\ x \in Int /\ y \in Int
  BY Sizes DEF Index
<1>2. Pos(a, j) = x % IDX /\ Pos(a, k) = y % IDX
  BY DEF Pos
<1>3. x - y = j - k
  BY DEF Index
<1> HIDE DEF x, y
<1>4. x % INPUT_BUF_SIZE = y % INPUT_BUF_SIZE
  BY <1>1, <1>2, SlotTurn
<1>5. ~(x > y) /\ ~(y > x)
  <2>1. CASE x > y
    <3>1. x - y >= INPUT_BUF_SIZE
      BY <1>1, <1>4, <2>1, SameRemainder, Sizes
    <3> QED BY <1>3, <3>1, Sizes
  <2>2. CASE y > x
    <3>1. y - x >= INPUT_BUF_SIZE
      BY <1>1, <1>4, <2>2, SameRemainder, Sizes
    <3> QED BY <1>1, <1>3, <3>1, Sizes
  <2> QED BY <2>1, <2>2
<1> QED BY <1>1, <1>3, <1>5

InputTypes ==
  /\ r \in Index /\ w \in Index /\ e \in Index
  /\ rpc \in [Readers -> {"user", "loop", "asleep"}]

\* The three indexes follow each other round the ring, e at most a buffer
\* ahead of r.
InputInv ==
  /\ InputTypes
  /\ Dist(e, r) = Dist(w, r) + Dist(e, w)
  /\ Dist(e, r) <= INPUT_BUF_SIZE

\* What is being edited has no line end.
Editing ==
  /\ buf \in [0 .. INPUT_BUF_SIZE - 1 -> {"x", "nl", "^D", "nul"}]
  /\ load \in Loads
  /\ \A k \in 1 .. Dist(e, w) : Between(w, e)[k] # "nl"

\* So kill erases back to w.
LEMMA LineStartIs ==
  ASSUME InputInv, Editing
  PROVE  LineStart = Dist(e, w) /\ Dist(e, w) \in Nat
<1>0. w \in Index /\ e \in Index
  BY Zenon DEF InputInv, InputTypes
<1>1. Dist(e, w) \in Nat
  BY <1>0, DistNext DEF Index
<1>2. ASSUME NEW j \in 1 .. Dist(e, w) PROVE At((e - j) % IDX) # "nl"
  <2> DEFINE k == Dist(e, w) - j + 1
  <2>1. k \in 1 .. Dist(e, w)
    BY <1>1
  <2>2. (e - j) % IDX = Pos(w, k)
    BY ZenonT(30), <1>0, PosFrom
  <2> HIDE DEF k
  <2>3. Between(w, e)[k] = At(Pos(w, k))
    BY Zenon, <2>1 DEF Between, Pos
  <2> QED BY Zenon, <2>1, <2>2, <2>3 DEF Editing
<1> DEFINE d == Dist(e, w)
           P(i) == /\ \A j \in 1 .. i : At((e - j) % IDX) # "nl"
                   /\ i = d \/ At((e - i - 1) % IDX) = "nl"
<1>3. d \in 0 .. d /\ P(d)
  BY <1>1, <1>2
<1>4. ASSUME NEW i \in 0 .. d, P(i) PROVE i = d
  <2> SUFFICES ASSUME i # d PROVE FALSE
    BY Zenon
  <2>1. i + 1 \in 1 .. d /\ e - (i + 1) = e - i - 1
    BY <1>0, <1>1 DEF Index
  <2> QED BY Zenon, <1>2, <1>4, <2>1
<1>5. LineStart = CHOOSE i \in 0 .. d : P(i)
  BY Zenon DEF LineStart
<1> HIDE DEF P, d
<1>6. LineStart \in 0 .. d /\ P(LineStart)
  BY Zenon, <1>3, <1>5
<1> QED BY Zenon, <1>1, <1>4, <1>6 DEF d

\* consoleintr() erases no more than the line it edits.
LEMMA ErasedType ==
  ASSUME InputInv, Editing, NEW c
  PROVE  Erased(c) \in 0 .. Dist(e, w)
<1>1. Dist(e, w) \in Nat /\ (e # w => Dist(e, w) >= 1)
  BY DistNext DEF InputInv, InputTypes, Index
<1> QED BY <1>1, LineStartIs DEF Erased

\* A typed character: stored, with or without handing the line over, or not,
\* with Erased(c) characters taken back.
LEMMA InputTyped ==
  ASSUME InputInv, InputNotStuck, Editing, NEW key, consoleintr(key)
  PROVE  InputInv' /\ InputNotStuck'
<1> DEFINE c == IF key = "cr" THEN "nl" ELSE key
           x == (e + 1) % IDX
<1>0. r' = r /\ r \in Index /\ w \in Index /\ e \in Index
  BY Zenon DEF consoleintr, InputInv, InputTypes
<1>1. CASE Stored(c)
  <2>1. Dist(e, r) < INPUT_BUF_SIZE /\ Dist(e, r) < IDX - 1 /\ Dist(e, w) < IDX - 1
    <3>1. Dist(e, r) < INPUT_BUF_SIZE
      BY <1>1 DEF Stored
    <3>2. Dist(e, r) \in Index /\ Dist(e, w) \in Index /\ Dist(w, r) \in Index
      BY <1>0, DistNext
    <3>3. Dist(e, r) = Dist(w, r) + Dist(e, w)
      BY Zenon DEF InputInv
    <3> QED BY <3>1, <3>2, <3>3, Sizes DEF Index
  <2>2. x \in Index /\ Dist(x, r) = Dist(e, r) + 1 /\ Dist(x, w) = Dist(e, w) + 1 /\ Dist(x, x) = 0
    BY <1>0, <2>1, DistNext
  <2>3. e' = x
    BY <1>1 DEF consoleintr
  <2> HIDE DEF x
  <2>4. Dist(e, r) \in Nat /\ Dist(e, w) \in Nat /\ Dist(w, r) \in Nat
    BY <1>0, DistNext DEF Index
  <2>5. Dist(x, r) <= INPUT_BUF_SIZE
    BY <2>1, <2>2, <2>4, Sizes
  <2>6. CASE EndsLine(c, x)
    <3>1. w' = x /\ rpc' = [p \in Readers |-> IF rpc[p] = "asleep" THEN "loop" ELSE rpc[p]]
      BY <1>1, <2>6 DEF consoleintr, x
    <3>2. rpc' \in [Readers -> {"user", "loop", "asleep"}] /\ \A p \in Readers : rpc'[p] # "asleep"
      BY <3>1 DEF InputInv, InputTypes
    <3> QED BY <1>0, <2>2, <2>3, <2>4, <2>5, <3>1, <3>2 DEF InputInv, InputTypes, InputNotStuck, Dist
  <2>7. CASE ~EndsLine(c, x)
    <3>1. w' = w /\ rpc' = rpc
      BY <1>1, <2>7 DEF consoleintr, x
    <3>2. Dist(x, r) # INPUT_BUF_SIZE
      BY Zenon, <2>7 DEF EndsLine
    <3>3. Dist(x, r) = Dist(w, r) + Dist(x, w)
      BY <2>2, <2>4 DEF InputInv
    <3> QED BY <1>0, <2>2, <2>3, <2>5, <3>1, <3>2, <3>3 DEF InputInv, InputTypes, InputNotStuck, Dist
  <2> QED BY <2>6, <2>7
<1>2. CASE ~Stored(c)
  <2> DEFINE k == Erased(c)
             y == (e - k) % IDX
  <2>1. e' = y /\ w' = w /\ rpc' = rpc
    BY Zenon, <1>2 DEF consoleintr
  <2>2. k \in 0 .. Dist(e, w)
    BY Zenon, ErasedType
  <2> HIDE DEF k
  <2>3. Dist(e, r) \in Nat /\ Dist(e, w) \in Nat /\ Dist(w, r) \in Nat
    BY <1>0, DistNext DEF Index
  <2>4. Dist(e, r) = Dist(w, r) + Dist(e, w) /\ Dist(e, r) <= INPUT_BUF_SIZE
    BY Zenon DEF InputInv
  <2>5. k \in 0 .. Dist(e, r)
    BY <2>2, <2>3, <2>4
  <2>6. y \in Index /\ Dist(y, w) = Dist(e, w) - k /\ Dist(y, r) = Dist(e, r) - k
    BY <1>0, <2>2, <2>5, DistBack
  <2> HIDE DEF y
  <2>7. Dist(y, r) = Dist(w, r) + Dist(y, w) /\ Dist(y, r) <= INPUT_BUF_SIZE
    BY <2>2, <2>3, <2>4, <2>6, Sizes
  <2>8. Dist(y, r) = INPUT_BUF_SIZE => w = y
    <3> SUFFICES ASSUME Dist(y, r) = INPUT_BUF_SIZE PROVE w = y
      BY Zenon
    <3>1. Dist(e, r) = INPUT_BUF_SIZE
      BY <2>2, <2>3, <2>4, <2>6, Sizes
    <3>2. Dist(e, w) = 0
      BY <1>0, <3>1, DistNext DEF InputNotStuck
    <3>3. k = 0
      BY <2>2, <3>2
    <3>4. Dist(y, w) = 0
      BY <2>3, <2>6, <3>2, <3>3
    <3> QED BY <1>0, <2>6, <3>4, DistNext, Zenon
  <2> QED BY <1>0, <2>1, <2>6, <2>7, <2>8 DEF InputInv, InputTypes, InputNotStuck, Dist
<1> QED BY <1>1, <1>2

\* A character read, or a ^D left for the next read.
LEMMA InputRead ==
  ASSUME InputInv, InputNotStuck, NEW p \in Readers, ReadChar(p)
  PROVE  InputInv' /\ InputNotStuck'
<1> DEFINE x == (r + 1) % IDX
<1>0. w' = w /\ e' = e /\ r # w /\ r \in Index /\ w \in Index /\ e \in Index
  BY Zenon DEF ReadChar, InputInv, InputTypes
<1>1. rpc' \in [Readers -> {"user", "loop", "asleep"}]
      /\ \A q \in Readers : rpc'[q] # "asleep"
  <2>1. rpc' = rpc \/ rpc' = [rpc EXCEPT ![p] = "user"]
    BY Zenon DEF ReadChar, ReadReturns
  <2>2. \A q \in Readers : rpc[q] # "asleep"
    BY <1>0 DEF InputNotStuck
  <2> QED BY <2>1, <2>2 DEF InputInv, InputTypes
<1>2. CASE r' = r
  BY <1>0, <1>1, <1>2 DEF InputInv, InputTypes, InputNotStuck, Dist
<1>3. CASE r' = x
  <2>1. Dist(e, r) \in Nat /\ Dist(e, w) \in Nat /\ Dist(w, r) \in Nat /\ Dist(w, r) # 0
    BY <1>0, DistNext DEF Index
  <2>2. Dist(e, r) = Dist(w, r) + Dist(e, w) /\ Dist(e, r) <= INPUT_BUF_SIZE
    BY Zenon DEF InputInv
  <2>3. e # r
    BY <1>0, <2>1, <2>2, DistNext
  <2>4. x \in Index /\ Dist(w, x) = Dist(w, r) - 1 /\ Dist(e, x) = Dist(e, r) - 1
    BY <1>0, <2>3, DistNext, Zenon
  <2> HIDE DEF x
  <2>5. Dist(e, x) = Dist(w, x) + Dist(e, w) /\ Dist(e, x) < INPUT_BUF_SIZE
    BY <2>1, <2>2, <2>4, Sizes
  <2>6. Dist(e, x) # INPUT_BUF_SIZE /\ Dist(e, x) <= INPUT_BUF_SIZE
    BY <2>1, <2>4, <2>5, Sizes
  <2> QED BY <1>0, <1>1, <1>3, <2>4, <2>5, <2>6 DEF InputInv, InputTypes, InputNotStuck, Dist
<1> QED BY <1>2, <1>3 DEF ReadChar

\* A step that leaves the indexes alone, and lets readers sleep only when
\* there is nothing to read.
LEMMA InputRests ==
  ASSUME InputInv, InputNotStuck, UNCHANGED <<r, w, e>>,
         rpc' \in [Readers -> {"user", "loop", "asleep"}],
         \A p \in Readers : rpc'[p] = "asleep" => rpc[p] = "asleep" \/ r = w
  PROVE  InputInv' /\ InputNotStuck'
BY ZenonT(30) DEF InputInv, InputTypes, InputNotStuck, Dist

\* Every step of the keyboard's interrupts and of consoleread().
LEMMA InputStep ==
  ASSUME InputInv, InputNotStuck, Editing, [Next]_vars
  PROVE  InputInv' /\ InputNotStuck'
<1>0. rpc \in [Readers -> {"user", "loop", "asleep"}]
  BY Zenon DEF InputInv, InputTypes
<1>1. CASE \E c \in load.keys : consoleintr(c)
  BY <1>1, InputTyped
<1>2. CASE \E p \in Readers : ReadChar(p)
  BY <1>2, InputRead
<1>3. CASE \E p \in Readers : ReadCall(p) \/ ReadWaits(p) \/ kill(p)
  <2> SUFFICES ASSUME NEW p \in Readers, ReadCall(p) \/ ReadWaits(p) \/ kill(p)
               PROVE  InputInv' /\ InputNotStuck'
    BY <1>3
  <2>1. UNCHANGED <<r, w, e>>
    BY Zenon DEF ReadCall, ReadWaits, kill, line
  <2>2. PICK s \in {"user", "loop", "asleep"} :
          rpc' = [rpc EXCEPT ![p] = s] /\ (s = "asleep" => r = w)
    BY Zenon DEF ReadCall, ReadWaits, ReadReturns, kill
  <2> QED BY <1>0, <2>1, <2>2, InputRests
<1>4. CASE UNCHANGED <<line, reader>>
  BY <1>0, <1>4, InputRests DEF line, reader
<1>5. UartStep \/ Claim \/ Echo \/ EchoDone \/ StartOutput \/ Complete \/ Press
      \/ (\E p \in Writers : consolewrite(p)) \/ (\E t \in Printers : printf(t))
      \/ UNCHANGED vars => UNCHANGED <<line, reader>>
  BY Zenon DEF UartStep, Claim, Echo, EchoDone, StartOutput, Complete, Press, consolewrite, printf,
         vars, cvars
<1> QED BY <1>1, <1>2, <1>3, <1>4, <1>5 DEF Next, HandlerStep

-----------------------------------------------------------------------------
(* The line buffer implements LineInput.                                   *)

Content == {"x", "nl", "^D", "nul"}

\* The k-th character from index a on, and those from a up to b, in a buffer B.
Cell(B, a, k) == B[Pos(a, k) % INPUT_BUF_SIZE]
Text(B, a, b) == [k \in 1 .. Dist(b, a) |-> Cell(B, a, k)]

\* Two sequences of characters are equal when they agree everywhere.
LEMMA SameText ==
  ASSUME NEW s \in Seq(Content), NEW t \in Seq(Content), Len(s) = Len(t),
         \A k \in 1 .. Len(s) : s[k] = t[k]
  PROVE  s = t
OBVIOUS

\* Appending a character, to one sequence and to two in a row.
LEMMA AppendText ==
  ASSUME NEW s \in Seq(Content), NEW u \in Seq(Content), NEW t \in Seq(Content), NEW c \in Content,
         Len(t) = Len(s) + Len(u) + 1,
         \A k \in 1 .. Len(s) : t[k] = s[k],
         \A k \in 1 .. Len(u) : t[Len(s) + k] = u[k],
         t[Len(s) + Len(u) + 1] = c
  PROVE  t = Append(s \o u, c)
<1> DEFINE v == Append(s \o u, c)
<1>1. v \in Seq(Content) /\ Len(v) = Len(s) + Len(u) + 1
  OBVIOUS
<1>2. ASSUME NEW k \in 1 .. Len(s) + Len(u) + 1 PROVE v[k] = t[k]
  <2>1. CASE k \in 1 .. Len(s)
    BY <1>1, <2>1
  <2>2. CASE k \in Len(s) + 1 .. Len(s) + Len(u)
    <3>1. k - Len(s) \in 1 .. Len(u) /\ Len(s) + (k - Len(s)) = k
      BY <2>2
    <3>2. v[k] = u[k - Len(s)]
      BY <1>1, <2>2
    <3> QED BY SMTT(20), <3>1, <3>2
  <2>3. CASE k = Len(s) + Len(u) + 1
    BY <1>1, <2>3
  <2>4. k \in 1 .. Len(s) \/ k \in Len(s) + 1 .. Len(s) + Len(u) \/ k = Len(s) + Len(u) + 1
    <3>1. Len(s) \in Nat /\ Len(u) \in Nat
      OBVIOUS
    <3> QED BY <3>1
  <2> QED BY Zenon, <2>1, <2>2, <2>3, <2>4
<1> HIDE DEF v
<1>3. v = t
  BY <1>1, <1>2, SameText
<1> QED BY <1>3 DEF v

\* Appending a character to one sequence.
LEMMA AppendOne ==
  ASSUME NEW s \in Seq(Content), NEW t \in Seq(Content), NEW c \in Content,
         Len(t) = Len(s) + 1, \A k \in 1 .. Len(s) : t[k] = s[k], t[Len(s) + 1] = c
  PROVE  t = Append(s, c)
OBVIOUS

\* The text from a to b and that from b to c are the cells counted from a.
InCells(B, a, b, c) ==
  /\ Text(B, a, b) \in Seq(Content) /\ Len(Text(B, a, b)) = Dist(b, a)
  /\ Text(B, b, c) \in Seq(Content) /\ Len(Text(B, b, c)) = Dist(c, b)
  /\ \A k \in 1 .. Dist(b, a) : Text(B, a, b)[k] = Cell(B, a, k)
  /\ \A k \in 1 .. Dist(c, b) : Text(B, b, c)[k] = Cell(B, a, Dist(b, a) + k)

\* What is ready and what is being edited: the cells counted from a, in a row.
LEMMA TextIs ==
  ASSUME NEW B \in [0 .. INPUT_BUF_SIZE - 1 -> Content], NEW a \in Index, NEW b \in Index,
         NEW c \in Index, Dist(c, a) = Dist(b, a) + Dist(c, b), Dist(c, a) <= INPUT_BUF_SIZE
  PROVE  InCells(B, a, b, c)
<1>1. Dist(b, a) \in Index /\ Dist(c, b) \in Index
  BY Zenon, DistNext
<1>2. /\ Dist(b, a) \in Nat /\ Dist(c, b) \in Nat /\ Dist(b, a) <= IDX /\ Dist(c, b) <= IDX
      /\ Dist(c, b) <= IDX - Dist(b, a)
  BY <1>1, Sizes DEF Index
<1>3. ASSUME NEW i \in Index, NEW k \in 1 .. IDX PROVE Cell(B, i, k) \in Content
  <2>1. Pos(i, k) \in Int
    BY PosIs DEF Index
  <2>2. Pos(i, k) % INPUT_BUF_SIZE \in 0 .. INPUT_BUF_SIZE - 1
    BY <2>1, Sizes, Division, Zenon
  <2> QED BY <2>2 DEF Cell
<1>4. ASSUME NEW i \in Index, NEW j \in Index, Dist(j, i) \in Nat, Dist(j, i) <= IDX
      PROVE  Text(B, i, j) \in Seq(Content) /\ Len(Text(B, i, j)) = Dist(j, i)
             /\ \A k \in 1 .. Dist(j, i) : Text(B, i, j)[k] = Cell(B, i, k)
  <2>1. \A k \in 1 .. Dist(j, i) : Cell(B, i, k) \in Content
    <3>1. \A k \in 1 .. Dist(j, i) : k \in 1 .. IDX
      BY <1>4, Sizes
    <3> QED BY Zenon, <1>3, <3>1
  <2> QED BY <1>4, <2>1 DEF Text
<1>5. ASSUME NEW k \in 1 .. Dist(c, b) PROVE Cell(B, b, k) = Cell(B, a, Dist(b, a) + k)
  <2>1. k \in 1 .. IDX - Dist(b, a)
    BY <1>2, Sizes
  <2>2. Pos(a, Dist(b, a) + k) = Pos(b, k)
    BY ZenonT(30), <2>1, PosFrom
  <2> QED BY Zenon, <2>2 DEF Cell
<1> QED BY Zenon, <1>2, <1>4, <1>5 DEF InCells

\* The buffers B and C differ only in the slots of the cells J counted from a.
DifferIn(B, C, a, J) ==
  \A i \in 0 .. INPUT_BUF_SIZE - 1 : C[i] = B[i] \/ \E j \in J : i = Pos(a, j) % INPUT_BUF_SIZE

\* Cells stay when their slots are none of those written.
LEMMA CellsKept ==
  ASSUME NEW a \in Index, NEW B, NEW C,
         NEW K \in SUBSET (1 .. INPUT_BUF_SIZE), NEW J \in SUBSET (1 .. INPUT_BUF_SIZE),
         K \cap J = {}, DifferIn(B, C, a, J)
  PROVE  \A k \in K : Cell(C, a, k) = Cell(B, a, k)
<1> SUFFICES ASSUME NEW k \in K PROVE Cell(C, a, k) = Cell(B, a, k)
  BY Zenon
<1> DEFINE i == Pos(a, k) % INPUT_BUF_SIZE
<1>1. k \in 1 .. INPUT_BUF_SIZE /\ k \in 1 .. IDX
  BY Sizes
<1>2. i \in 0 .. INPUT_BUF_SIZE - 1
  <2>1. Pos(a, k) \in Int
    BY <1>1, PosIs DEF Index
  <2> QED BY <2>1, Sizes, Division, Zenon
<1>3. ASSUME NEW j \in J, i = Pos(a, j) % INPUT_BUF_SIZE PROVE FALSE
  <2>1. j \in 1 .. INPUT_BUF_SIZE
    BY Zenon
  <2>2. k = j
    BY Zenon, <1>1, <1>3, <2>1, SlotsDiffer
  <2> QED BY Zenon, <2>2
<1>4. C[i] = B[i]
  BY Zenon, <1>2, <1>3 DEF DifferIn
<1> QED BY Zenon, <1>4 DEF Cell

\* The three indexes of a state, and its text.
LEMMA LineIs ==
  ASSUME InputInv
  PROVE  /\ r \in Index /\ w \in Index /\ e \in Index
         /\ Dist(e, r) = Dist(w, r) + Dist(e, w) /\ Dist(e, r) <= INPUT_BUF_SIZE
         /\ Dist(w, r) \in Nat /\ Dist(e, w) \in Nat
<1>1. /\ r \in Index /\ w \in Index /\ e \in Index
      /\ Dist(e, r) = Dist(w, r) + Dist(e, w) /\ Dist(e, r) <= INPUT_BUF_SIZE
  BY Zenon DEF InputInv, InputTypes
<1>2. Dist(w, r) \in Index /\ Dist(e, w) \in Index
  BY Zenon, <1>1, DistNext
<1>3. Dist(w, r) \in Nat /\ Dist(e, w) \in Nat
  BY <1>2 DEF Index
<1> QED BY Zenon, <1>1, <1>3

\* Between is Text, before and after a step.
LEMMA BetweenIs ==
  /\ Between(r, w) = Text(buf, r, w) /\ Between(w, e) = Text(buf, w, e)
  /\ Between(r, w)' = Text(buf', r', w') /\ Between(w, e)' = Text(buf', w', e')
<1>1. Between(r, w) = Text(buf, r, w) /\ Between(w, e) = Text(buf, w, e)
  BY Zenon DEF Between, Text, Cell, At, Pos
<1>2. Between(r, w)' = Text(buf', r', w') /\ Between(w, e)' = Text(buf', w', e')
  BY Zenon DEF Between, Text, Cell, At, Pos, Dist
<1> QED BY Zenon, <1>1, <1>2

\* Text of C grown by ch: all of it up to x, in one and in two parts.
Grown(B, C, a, b, c, x, ch) ==
  /\ Text(C, a, x) = Append(Text(B, a, b) \o Text(B, b, c), ch) /\ Text(C, x, x) = <<>>
  /\ Text(C, a, b) = Text(B, a, b) /\ Text(C, b, x) = Append(Text(B, b, c), ch)

\* A character stored at c: the text up to it, and the text in two parts, grow.
LEMMA StoreText ==
  ASSUME NEW B \in [0 .. INPUT_BUF_SIZE - 1 -> Content], NEW a \in Index, NEW b \in Index,
         NEW c \in Index, Dist(c, a) = Dist(b, a) + Dist(c, b), Dist(c, a) < INPUT_BUF_SIZE,
         NEW ch \in Content, NEW C \in [0 .. INPUT_BUF_SIZE - 1 -> Content],
         C[c % INPUT_BUF_SIZE] = ch,
         \A i \in 0 .. INPUT_BUF_SIZE - 1 : i # c % INPUT_BUF_SIZE => C[i] = B[i],
         NEW x \in Index, Dist(x, a) = Dist(c, a) + 1, Dist(x, b) = Dist(c, b) + 1
  PROVE  Grown(B, C, a, b, c, x, ch)
<1> DEFINE d == Dist(b, a)
           m == Dist(c, b)
           s == Text(B, a, b)
           u == Text(B, b, c)
<1>0. d \in Nat /\ m \in Nat /\ d + m < INPUT_BUF_SIZE /\ d + m < IDX - 1 /\ m < IDX - 1
  <2>1. d \in Index /\ m \in Index
    BY Zenon, DistNext
  <2> QED BY SMTT(20), <2>1, Sizes DEF Index
<1>1. Dist(x, a) = d + m + 1 /\ Dist(x, b) = m + 1 /\ Dist(x, x) = 0
  BY <1>0, DistNext
<1>4. Pos(a, d + m + 1) = c
  <2>1. Pos(a, Dist(c, a) + 1) = c
    BY Zenon, PosFrom
  <2> QED BY <2>1
<1>5. \A k \in 1 .. d + m : Cell(C, a, k) = Cell(B, a, k)
  <2> DEFINE K == 1 .. d + m
             J == {d + m + 1}
  <2>1. K \in SUBSET (1 .. INPUT_BUF_SIZE) /\ J \in SUBSET (1 .. INPUT_BUF_SIZE)
        /\ K \cap J = {}
    BY SMTT(20), <1>0, Sizes
  <2>2. DifferIn(B, C, a, J)
    BY Zenon, <1>4 DEF DifferIn
  <2> HIDE DEF K, J
  <2>3. \A k \in K : Cell(C, a, k) = Cell(B, a, k)
    BY <2>1, <2>2, CellsKept, SMT
  <2> QED BY Zenon, <2>3 DEF K
<1>6. Cell(C, a, d + m + 1) = ch
  BY Zenon, <1>4 DEF Cell
<1>7. /\ s \in Seq(Content) /\ Len(s) = d /\ u \in Seq(Content) /\ Len(u) = m
      /\ \A k \in 1 .. d : s[k] = Cell(B, a, k)
      /\ \A k \in 1 .. m : u[k] = Cell(B, a, d + k)
  <2>1. Dist(c, a) <= INPUT_BUF_SIZE
    BY <1>0, Sizes
  <2>2. InCells(B, a, b, c)
    BY Zenon, <2>1, TextIs
  <2> QED BY Zenon, <2>2 DEF InCells
<1>8. /\ Text(C, a, x) \in Seq(Content) /\ Len(Text(C, a, x)) = d + m + 1
      /\ \A k \in 1 .. d + m + 1 : Text(C, a, x)[k] = Cell(C, a, k)
  <2>1. Dist(x, a) = Dist(x, a) + Dist(x, x) /\ Dist(x, a) <= INPUT_BUF_SIZE
    BY <1>0, <1>1, Sizes
  <2>2. InCells(C, a, x, x)
    BY Zenon, <2>1, TextIs
  <2> QED BY Zenon, <1>1, <2>2 DEF InCells
<1>9. /\ Text(C, a, b) \in Seq(Content) /\ Len(Text(C, a, b)) = d
      /\ Text(C, b, x) \in Seq(Content) /\ Len(Text(C, b, x)) = m + 1
      /\ \A k \in 1 .. d : Text(C, a, b)[k] = Cell(C, a, k)
      /\ \A k \in 1 .. m + 1 : Text(C, b, x)[k] = Cell(C, a, d + k)
  <2>1. Dist(x, a) = Dist(b, a) + Dist(x, b) /\ Dist(x, a) <= INPUT_BUF_SIZE
    BY <1>0, <1>1, Sizes
  <2>2. InCells(C, a, b, x)
    BY Zenon, <2>1, TextIs
  <2> QED BY Zenon, <1>1, <2>2 DEF InCells
<1>10. Text(C, x, x) = <<>>
  BY <1>1 DEF Text
<1> HIDE DEF d, m, s, u
<1>12. Text(C, a, b) = s
  <2>1. \A k \in 1 .. d : k \in 1 .. d + m
    BY <1>0
  <2>2. \A k \in 1 .. d : Text(C, a, b)[k] = s[k]
    BY ONLY <1>5, <1>7, <1>9, <2>1, ZenonT(30)
  <2> QED BY Zenon, <1>7, <1>9, <2>2, SameText
<1>13. Text(C, a, x) = Append(s \o u, ch)
  <2>1. \A k \in 1 .. d : k \in 1 .. d + m /\ k \in 1 .. d + m + 1
    BY <1>0
  <2>2. \A k \in 1 .. m : d + k \in 1 .. d + m /\ d + k \in 1 .. d + m + 1
    BY <1>0
  <2>3. d + m + 1 \in 1 .. d + m + 1
    BY <1>0
  <2>4. \A k \in 1 .. d : Text(C, a, x)[k] = s[k]
    BY ONLY <1>5, <1>7, <1>8, <2>1, ZenonT(30)
  <2>5. \A k \in 1 .. m : Text(C, a, x)[d + k] = u[k]
    <3>1. \A k \in 1 .. m : Text(C, a, x)[d + k] = Cell(C, a, d + k)
      BY ONLY <1>8, <2>2, Zenon
    <3>2. \A k \in 1 .. m : Cell(C, a, d + k) = Cell(B, a, d + k)
      BY ONLY <1>5, <2>2, Zenon
    <3>3. \A k \in 1 .. m : u[k] = Cell(B, a, d + k)
      BY ONLY <1>7, Zenon
    <3> QED BY ONLY <3>1, <3>2, <3>3, Zenon
  <2>6. Text(C, a, x)[d + m + 1] = ch
    BY Zenon, <1>6, <1>8, <2>3
  <2> QED BY SMTT(20), <1>7, <1>8, <2>4, <2>5, <2>6, AppendText
<1>14. Text(C, b, x) = Append(u, ch)
  <2>1. \A k \in 1 .. m : d + k \in 1 .. d + m /\ k \in 1 .. m + 1
    BY <1>0
  <2>2. \A k \in 1 .. m : Text(C, b, x)[k] = u[k]
    BY ONLY <1>5, <1>7, <1>9, <2>1, ZenonT(30)
  <2>3. m + 1 \in 1 .. m + 1 /\ d + (m + 1) = d + m + 1
    BY <1>0
  <2>4. Text(C, b, x)[m + 1] = ch
    BY Zenon, <1>6, <1>9, <2>3
  <2> QED BY SMTT(20), <1>7, <1>9, <2>2, <2>4, AppendOne
<1> QED BY Zenon, <1>10, <1>12, <1>13, <1>14 DEF s, u, Grown

\* Text of C without the last h characters.
Shrunk(B, C, a, b, c, x, h) ==
  Text(C, a, b) = Text(B, a, b) /\ Text(C, b, x) = SubSeq(Text(B, b, c), 1, Dist(c, b) - h)

\* The last h characters taken back: the rest of the line stays.
LEMMA EraseText ==
  ASSUME NEW B \in [0 .. INPUT_BUF_SIZE - 1 -> Content], NEW a \in Index, NEW b \in Index,
         NEW c \in Index, Dist(c, a) = Dist(b, a) + Dist(c, b), Dist(c, a) <= INPUT_BUF_SIZE,
         NEW h \in 0 .. Dist(c, b), NEW C \in [0 .. INPUT_BUF_SIZE - 1 -> Content],
         \A i \in 0 .. INPUT_BUF_SIZE - 1 :
           C[i] = B[i] \/ \E j \in 1 .. h : i = (c - j) % INPUT_BUF_SIZE,
         NEW x \in Index, Dist(x, a) = Dist(c, a) - h, Dist(x, b) = Dist(c, b) - h
  PROVE  Shrunk(B, C, a, b, c, x, h)
<1> DEFINE d == Dist(b, a)
           m == Dist(c, b)
           s == Text(B, a, b)
           u == Text(B, b, c)
<1>0. d \in Nat /\ m \in Nat /\ d + m <= INPUT_BUF_SIZE /\ h \in 0 .. m
  <2>1. d \in Index /\ m \in Index
    BY Zenon, DistNext
  <2> QED BY <2>1, Sizes DEF Index
<1>1. Dist(x, a) = d + m - h /\ Dist(x, b) = m - h
  BY <1>0
<1>2. ASSUME NEW j \in 1 .. h
      PROVE  (c - j) % INPUT_BUF_SIZE = Pos(a, d + m - j + 1) % INPUT_BUF_SIZE
  <2>1. j \in 1 .. Dist(c, a) /\ c - j \in -IDX .. 2 * IDX - 1 /\ a \in Index /\ c \in Index
    BY <1>0, Sizes DEF Index
  <2>2. (c - j) % IDX = Pos(a, Dist(c, a) - j + 1)
    BY ONLY <2>1, PosFrom, ZenonT(30)
  <2>3. ((c - j) % IDX) % INPUT_BUF_SIZE = (c - j) % INPUT_BUF_SIZE
    BY Zenon, <2>1, SlotTurn
  <2>4. Dist(c, a) - j + 1 = d + m - j + 1
    BY <1>0
  <2> QED BY Zenon, <2>2, <2>3, <2>4
<1>3. \A k \in 1 .. d + m - h : Cell(C, a, k) = Cell(B, a, k)
  <2> DEFINE K == 1 .. d + m - h
             J == {d + m - j + 1 : j \in 1 .. h}
  <2>1. K \in SUBSET (1 .. INPUT_BUF_SIZE) /\ J \in SUBSET (1 .. INPUT_BUF_SIZE)
        /\ K \cap J = {}
    BY SMTT(20), <1>0, Sizes
  <2>2. DifferIn(B, C, a, J)
    <3>1. ASSUME NEW i \in 0 .. INPUT_BUF_SIZE - 1, NEW j \in 1 .. h, i = (c - j) % INPUT_BUF_SIZE
          PROVE  \E k \in J : i = Pos(a, k) % INPUT_BUF_SIZE
      <4>1. d + m - j + 1 \in J
        BY Zenon
      <4>2. i = Pos(a, d + m - j + 1) % INPUT_BUF_SIZE
        BY Zenon, <1>2, <3>1
      <4> QED BY Zenon, <4>1, <4>2
    <3> QED BY Zenon, <3>1 DEF DifferIn
  <2> HIDE DEF K, J
  <2>3. \A k \in K : Cell(C, a, k) = Cell(B, a, k)
    BY <2>1, <2>2, CellsKept, SMT
  <2> QED BY Zenon, <2>3 DEF K
<1>4. /\ s \in Seq(Content) /\ Len(s) = d /\ u \in Seq(Content) /\ Len(u) = m
      /\ \A k \in 1 .. d : s[k] = Cell(B, a, k)
      /\ \A k \in 1 .. m : u[k] = Cell(B, a, d + k)
  <2>1. InCells(B, a, b, c)
    BY Zenon, TextIs
  <2> QED BY Zenon, <2>1 DEF InCells
<1>5. /\ Text(C, a, b) \in Seq(Content) /\ Len(Text(C, a, b)) = d
      /\ Text(C, b, x) \in Seq(Content) /\ Len(Text(C, b, x)) = m - h
      /\ \A k \in 1 .. d : Text(C, a, b)[k] = Cell(C, a, k)
      /\ \A k \in 1 .. m - h : Text(C, b, x)[k] = Cell(C, a, d + k)
  <2>1. Dist(x, a) = Dist(b, a) + Dist(x, b) /\ Dist(x, a) <= INPUT_BUF_SIZE
    BY <1>0, <1>1, Sizes
  <2>2. InCells(C, a, b, x)
    BY Zenon, <2>1, TextIs
  <2> QED BY Zenon, <1>1, <2>2 DEF InCells
<1> HIDE DEF d, m, s, u
<1>6. Text(C, a, b) = s
  <2>1. \A k \in 1 .. d : k \in 1 .. d + m - h
    BY <1>0
  <2>2. \A k \in 1 .. d : Text(C, a, b)[k] = s[k]
    BY ONLY <1>3, <1>4, <1>5, <2>1, Zenon
  <2> QED BY Zenon, <1>4, <1>5, <2>2, SameText
<1>7. Text(C, b, x) = SubSeq(u, 1, m - h)
  <2>1. \A k \in 1 .. m - h : d + k \in 1 .. d + m - h /\ k \in 1 .. m
    BY <1>0
  <2>2. \A k \in 1 .. m - h : Text(C, b, x)[k] = u[k]
    BY ONLY <1>3, <1>4, <1>5, <2>1, ZenonT(30)
  <2> DEFINE t == SubSeq(u, 1, m - h)
  <2>3. t \in Seq(Content) /\ Len(t) = m - h /\ \A k \in 1 .. m - h : t[k] = u[k]
    BY <1>0, <1>4
  <2> HIDE DEF t
  <2>4. Text(C, b, x) = t
    BY Zenon, <1>5, <2>2, <2>3, SameText
  <2> QED BY Zenon, <2>4 DEF t
<1> QED BY Zenon, <1>6, <1>7 DEF s, u, m, Shrunk

\* Text of C without the first character.
Taken(B, C, a, b, c, x) ==
  Text(C, x, b) = Tail(Text(B, a, b)) /\ Text(C, b, c) = Text(B, b, c)

\* The character at a taken: what was ready loses its head.
LEMMA TakeText ==
  ASSUME NEW B \in [0 .. INPUT_BUF_SIZE - 1 -> Content], NEW a \in Index, NEW b \in Index,
         NEW c \in Index, Dist(c, a) = Dist(b, a) + Dist(c, b), Dist(c, a) <= INPUT_BUF_SIZE,
         NEW C \in [0 .. INPUT_BUF_SIZE - 1 -> Content],
         \A i \in 0 .. INPUT_BUF_SIZE - 1 : i # a % INPUT_BUF_SIZE => C[i] = B[i],
         a # b, NEW x \in Index,
         Dist(x, a) = 1, Dist(b, x) = Dist(b, a) - 1, Dist(c, x) = Dist(c, a) - 1
  PROVE  Taken(B, C, a, b, c, x)
<1> DEFINE d == Dist(b, a)
           m == Dist(c, b)
           s == Text(B, a, b)
           u == Text(B, b, c)
<1>0. d \in Nat /\ m \in Nat /\ d + m <= INPUT_BUF_SIZE /\ d >= 1 /\ d + m < IDX
  <2>1. d \in Index /\ m \in Index /\ d # 0
    BY Zenon, DistNext
  <2> QED BY SMTT(20), <2>1, Sizes DEF Index
<1>1. Dist(b, x) = d - 1 /\ Dist(c, x) = d + m - 1
  BY <1>0
<1>2. \A k \in 2 .. d + m : Cell(C, a, k) = Cell(B, a, k)
  <2> DEFINE K == 2 .. d + m
             J == {1}
  <2>1. K \in SUBSET (1 .. INPUT_BUF_SIZE) /\ J \in SUBSET (1 .. INPUT_BUF_SIZE)
        /\ K \cap J = {}
    BY <1>0, Sizes
  <2>2. DifferIn(B, C, a, J)
    <3>1. Pos(a, 1) = a
      BY Zenon, PosFrom
    <3> QED BY Zenon, <3>1 DEF DifferIn
  <2> HIDE DEF K, J
  <2>3. \A k \in K : Cell(C, a, k) = Cell(B, a, k)
    BY <2>1, <2>2, CellsKept, SMT
  <2> QED BY Zenon, <2>3 DEF K
<1>3. \A k \in 1 .. d + m - 1 : Cell(C, x, k) = Cell(C, a, k + 1)
  <2> SUFFICES ASSUME NEW k \in 1 .. d + m - 1 PROVE Pos(x, k) = Pos(a, k + 1)
    BY Zenon DEF Cell
  <2>1. k \in 1 .. IDX - Dist(x, a) /\ Dist(x, a) + k = k + 1
    BY <1>0, Sizes
  <2>2. Pos(a, Dist(x, a) + k) = Pos(x, k)
    BY ZenonT(30), <2>1, PosFrom
  <2> QED BY Zenon, <2>1, <2>2
<1>4. /\ s \in Seq(Content) /\ Len(s) = d /\ u \in Seq(Content) /\ Len(u) = m
      /\ \A k \in 1 .. d : s[k] = Cell(B, a, k)
      /\ \A k \in 1 .. m : u[k] = Cell(B, a, d + k)
  <2>1. InCells(B, a, b, c)
    BY Zenon, TextIs
  <2> QED BY Zenon, <2>1 DEF InCells
<1>5. /\ Text(C, x, b) \in Seq(Content) /\ Len(Text(C, x, b)) = d - 1
      /\ Text(C, b, c) \in Seq(Content) /\ Len(Text(C, b, c)) = m
      /\ \A k \in 1 .. d - 1 : Text(C, x, b)[k] = Cell(C, x, k)
      /\ \A k \in 1 .. m : Text(C, b, c)[k] = Cell(C, x, d - 1 + k)
  <2>1. Dist(c, x) = Dist(b, x) + Dist(c, b) /\ Dist(c, x) <= INPUT_BUF_SIZE
    BY <1>0, <1>1, Sizes
  <2>2. InCells(C, x, b, c)
    BY Zenon, <2>1, TextIs
  <2> QED BY Zenon, <1>1, <2>2 DEF InCells
<1> HIDE DEF d, m, s, u
<1>6. Text(C, b, c) = u
  <2>1. ASSUME NEW k \in 1 .. m PROVE Text(C, b, c)[k] = u[k]
    <3>1. d - 1 + k \in 1 .. d + m - 1 /\ (d - 1 + k) + 1 = d + k /\ d + k \in 2 .. d + m
      BY <1>0
    <3>2. Text(C, b, c)[k] = Cell(C, x, d - 1 + k)
      BY Zenon, <1>5
    <3>3. Cell(C, x, d - 1 + k) = Cell(C, a, d + k)
      BY Zenon, <1>3, <3>1
    <3>4. Cell(C, a, d + k) = Cell(B, a, d + k)
      BY Zenon, <1>2, <3>1
    <3> QED BY Zenon, <1>4, <3>2, <3>3, <3>4
  <2> QED BY Zenon, <1>4, <1>5, <2>1, SameText
<1>7. Text(C, x, b) = Tail(s)
  <2>1. ASSUME NEW k \in 1 .. d - 1 PROVE Text(C, x, b)[k] = s[k + 1]
    <3>1. k \in 1 .. d + m - 1 /\ k + 1 \in 2 .. d + m /\ k + 1 \in 1 .. d
      BY <1>0
    <3>2. Text(C, x, b)[k] = Cell(C, x, k)
      BY Zenon, <1>5
    <3>3. Cell(C, x, k) = Cell(C, a, k + 1) /\ Cell(C, a, k + 1) = Cell(B, a, k + 1)
      BY Zenon, <1>2, <1>3, <3>1
    <3> QED BY Zenon, <1>4, <3>1, <3>2, <3>3
  <2> DEFINE t == Tail(s)
  <2>2. t \in Seq(Content) /\ Len(t) = d - 1 /\ \A k \in 1 .. d - 1 : t[k] = s[k + 1]
    BY <1>0, <1>4
  <2> HIDE DEF t
  <2>3. Text(C, x, b) = t
    BY Zenon, <1>5, <2>1, <2>2, SameText
  <2> QED BY Zenon, <2>3 DEF t
<1> QED BY Zenon, <1>6, <1>7 DEF s, u, Taken

\* A character is stored: a step of Type.
LEMMA TypeStep ==
  ASSUME InputInv, Editing, NEW key \in load.keys, consoleintr(key),
         Stored(IF key = "cr" THEN "nl" ELSE key)
  PROVE  [Lines!Next]_<<Between(r, w), Between(w, e)>> /\ Editing'
<1> PICK c : c = IF key = "cr" THEN "nl" ELSE key
  BY Zenon
<1> PICK x : x = (e + 1) % IDX
  BY Zenon
<1>1. c \in {"x", "nl", "^D"}
  <2>1. key \in {"x", "cr", "^D", "^U", "^H", "^P", "nul"}
    BY Zenon, ConsoleKeys DEF Editing
  <2>2. c \notin {"^U", "^H", "^P", "nul"}
    BY Zenon DEF Stored
  <2> QED BY <2>1, <2>2
<1>2. /\ e' = x /\ r' = r /\ load' = load /\ buf' = [buf EXCEPT ![e % INPUT_BUF_SIZE] = c]
      /\ EndsLine(c, x) => w' = x
      /\ ~EndsLine(c, x) => w' = w
      /\ Dist(e, r) < INPUT_BUF_SIZE
  BY Zenon DEF consoleintr, Stored
<1>3. /\ r \in Index /\ w \in Index /\ e \in Index
      /\ Dist(e, r) = Dist(w, r) + Dist(e, w) /\ Dist(e, r) <= INPUT_BUF_SIZE
      /\ Dist(w, r) \in Nat /\ Dist(e, w) \in Nat
  BY Zenon, LineIs
<1>4. /\ x \in Index /\ Dist(x, r) = Dist(e, r) + 1 /\ Dist(x, w) = Dist(e, w) + 1
      /\ Dist(x, x) = 0
  <2>1. Dist(e, r) < IDX - 1 /\ Dist(e, w) < IDX - 1
    BY <1>2, <1>3, Sizes
  <2> QED BY Zenon, <1>3, <2>1, DistNext
<1>5. /\ buf \in [0 .. INPUT_BUF_SIZE - 1 -> Content] /\ buf' \in [0 .. INPUT_BUF_SIZE - 1 -> Content]
      /\ buf'[e % INPUT_BUF_SIZE] = c
      /\ \A i \in 0 .. INPUT_BUF_SIZE - 1 : i # e % INPUT_BUF_SIZE => buf'[i] = buf[i]
  <2>1. buf \in [0 .. INPUT_BUF_SIZE - 1 -> Content] /\ c \in Content
    BY <1>1 DEF Editing, Content
  <2>2. e % INPUT_BUF_SIZE \in 0 .. INPUT_BUF_SIZE - 1
    BY <1>3, Sizes, Division DEF Index
  <2> QED BY Zenon, <1>2, <2>1, <2>2
<1>6. c \in Content
  BY <1>1 DEF Content
<1>7. /\ Text(buf', r, x) = Append(Text(buf, r, w) \o Text(buf, w, e), c)
      /\ Text(buf', x, x) = <<>>
      /\ Text(buf', r, w) = Text(buf, r, w)
      /\ Text(buf', w, x) = Append(Text(buf, w, e), c)
  <2>1. Dist(e, r) < INPUT_BUF_SIZE
    BY Zenon, <1>2
  <2>2. Grown(buf, buf', r, w, e, x, c)
    BY ONLY <1>3, <1>4, <1>5, <1>6, <2>1, StoreText, Zenon
  <2> QED BY Zenon, <2>2 DEF Grown
<1>8. Len(Text(buf, r, w)) = Dist(w, r) /\ Len(Text(buf, w, e)) = Dist(e, w)
      /\ Text(buf, w, e) \in Seq(Content)
  <2>1. InCells(buf, r, w, e)
    BY ONLY <1>3, <1>5, TextIs, Zenon
  <2> QED BY Zenon, <2>1 DEF InCells
<1>9. Len(Between(r, w)) + Len(Between(w, e)) < INPUT_BUF_SIZE
  BY <1>2, <1>3, <1>8, BetweenIs
<1>10. EndsLine(c, x) <=> c \in {"nl", "^D"}
                            \/ Len(Between(r, w)) + Len(Between(w, e)) + 1 = INPUT_BUF_SIZE
  <2>1. Len(Between(r, w)) + Len(Between(w, e)) + 1 = Dist(x, r)
    BY Zenon, <1>3, <1>4, <1>8, BetweenIs
  <2> QED BY Zenon, <2>1 DEF EndsLine
<1>11. CASE EndsLine(c, x)
  <2>1. Between(r, w)' = Append(Between(r, w) \o Between(w, e), c) /\ Between(w, e)' = <<>>
    BY Zenon, <1>2, <1>7, <1>11, BetweenIs
  <2>2. Lines!Type(c)
    BY Zenon, <1>9, <1>10, <1>11, <2>1 DEF Lines!Type
  <2>3. Dist(e, w)' = 0
    BY ZenonT(30), <1>2, <1>4, <1>11 DEF Dist
  <2>4. Editing'
    BY <1>2, <1>5, <2>3 DEF Editing, Content
  <2> QED BY Zenon, <1>1, <2>2, <2>4 DEF Lines!Next
<1>12. CASE ~EndsLine(c, x)
  <2>1. Between(w, e)' = Append(Between(w, e), c) /\ Between(r, w)' = Between(r, w)
    BY Zenon, <1>2, <1>7, <1>12, BetweenIs
  <2>2. Lines!Type(c)
    BY Zenon, <1>9, <1>10, <1>12, <2>1 DEF Lines!Type
  <2>3. Dist(e, w)' = Dist(e, w) + 1
    BY Zenon, <1>2, <1>4, <1>12 DEF Dist
  <2>4. \A k \in 1 .. Dist(e, w) + 1 : Between(w, e)'[k] # "nl"
    <3> PICK u : u = Between(w, e)
      BY Zenon
    <3>1. u \in Seq(Content) /\ Len(u) = Dist(e, w) /\ \A k \in 1 .. Dist(e, w) : u[k] # "nl"
      BY Zenon, <1>8, BetweenIs DEF Editing
    <3>2. Between(w, e)' = Append(u, c) /\ c # "nl"
      BY Zenon, <1>10, <1>12, <2>1
    <3> QED BY ONLY <3>1, <3>2, <1>3, <1>6
  <2>5. Editing'
    BY Zenon, <1>2, <1>5, <2>3, <2>4 DEF Editing, Content
  <2> QED BY Zenon, <1>1, <2>2, <2>5 DEF Lines!Next
<1> QED BY Zenon, <1>11, <1>12

\* Characters are taken back, one or the whole line, or nothing is changed.
LEMMA EraseStep ==
  ASSUME InputInv, Editing, NEW key \in load.keys, consoleintr(key),
         ~Stored(IF key = "cr" THEN "nl" ELSE key)
  PROVE  [Lines!Next]_<<Between(r, w), Between(w, e)>> /\ Editing'
<1> PICK c : c = IF key = "cr" THEN "nl" ELSE key
  BY Zenon
<1> PICK h : h = Erased(c)
  BY Zenon
<1> PICK x : x = (e - h) % IDX
  BY Zenon
<1> PICK m : m = Dist(e, w)
  BY Zenon
<1>1. /\ e' = x /\ r' = r /\ w' = w /\ load' = load
      /\ buf' = Emptied({(e - j) % INPUT_BUF_SIZE : j \in 1 .. h})
  BY Zenon DEF consoleintr
<1>2. /\ r \in Index /\ w \in Index /\ e \in Index
      /\ Dist(e, r) = Dist(w, r) + Dist(e, w) /\ Dist(e, r) <= INPUT_BUF_SIZE
      /\ Dist(w, r) \in Nat /\ Dist(e, w) \in Nat
  BY Zenon, LineIs
<1>3. h \in 0 .. Dist(e, w) /\ (c = "^U" => h = Dist(e, w))
      /\ (c # "^U" => h = 0 \/ h = 1)
  <2>1. h \in 0 .. Dist(e, w)
    BY Zenon, ErasedType
  <2> QED BY <2>1, LineStartIs DEF Erased
<1>4. x \in Index /\ Dist(x, r) = Dist(e, r) - h /\ Dist(x, w) = Dist(e, w) - h
  <2>1. h \in 0 .. Dist(e, r)
    BY <1>2, <1>3
  <2> QED BY Zenon, <1>2, <1>3, <2>1, DistBack
<1>5. /\ buf \in [0 .. INPUT_BUF_SIZE - 1 -> Content] /\ buf' \in [0 .. INPUT_BUF_SIZE - 1 -> Content]
      /\ \A i \in 0 .. INPUT_BUF_SIZE - 1 :
           buf'[i] = buf[i] \/ \E j \in 1 .. h : i = (e - j) % INPUT_BUF_SIZE
  <2>1. buf \in [0 .. INPUT_BUF_SIZE - 1 -> Content] /\ "nul" \in Content
    BY DEF Editing, Content
  <2> DEFINE J == {(e - j) % INPUT_BUF_SIZE : j \in 1 .. h}
  <2>2. buf' = [i \in 0 .. INPUT_BUF_SIZE - 1 |-> IF i \in J THEN "nul" ELSE buf[i]]
    BY Zenon, <1>1, <2>1 DEF Emptied
  <2>3. \A i \in J : \E j \in 1 .. h : i = (e - j) % INPUT_BUF_SIZE
    BY Zenon
  <2> HIDE DEF J
  <2>4. buf' \in [0 .. INPUT_BUF_SIZE - 1 -> Content]
        /\ \A i \in 0 .. INPUT_BUF_SIZE - 1 : buf'[i] = buf[i] \/ i \in J
    BY <2>1, <2>2
  <2> QED BY Zenon, <2>1, <2>3, <2>4
<1>6. Shrunk(buf, buf', r, w, e, x, h)
  BY ONLY <1>2, <1>3, <1>4, <1>5, EraseText, Zenon
<1>7. Len(Text(buf, w, e)) = m /\ Text(buf, w, e) \in Seq(Content)
  <2>1. InCells(buf, r, w, e)
    BY ONLY <1>2, <1>5, TextIs, Zenon
  <2> QED BY Zenon, <2>1 DEF InCells
<1> PICK u : u = Between(w, e)
  BY Zenon
<1>8. u \in Seq(Content) /\ Len(u) = m /\ m \in Nat /\ \A k \in 1 .. m : u[k] # "nl"
  BY Zenon, <1>2, <1>7, BetweenIs DEF Editing
<1>9. Between(r, w)' = Between(r, w) /\ Between(w, e)' = SubSeq(u, 1, m - h)
  BY Zenon, <1>1, <1>6, BetweenIs DEF Shrunk
<1>10. h \in 0 .. m /\ (c = "^U" => h = m)
  BY Zenon, <1>3
<1>11. Editing'
  <2>1. Dist(e, w)' = m - h
    BY Zenon, <1>1, <1>4 DEF Dist
  <2>2. \A k \in 1 .. m - h : SubSeq(u, 1, m - h)[k] # "nl"
    BY ONLY <1>8, <1>10
  <2>3. \A k \in 1 .. m - h : Between(w, e)'[k] # "nl"
    BY Zenon, <1>9, <2>2
  <2>4. load' \in Loads /\ buf' \in [0 .. INPUT_BUF_SIZE - 1 -> {"x", "nl", "^D", "nul"}]
    BY Zenon, <1>1, <1>5 DEF Editing, Content
  <2> QED BY Zenon, <2>1, <2>3, <2>4 DEF Editing
<1>12. CASE h = 0
  <2>1. SubSeq(u, 1, m - h) = u
    BY ONLY <1>8, <1>12
  <2> QED BY Zenon, <1>9, <1>11, <2>1
<1>13. CASE c = "^U"
  <2>1. SubSeq(u, 1, m - h) = <<>>
    BY ONLY <1>8, <1>10, <1>13
  <2>2. Lines!EraseLine
    BY Zenon, <1>9, <2>1 DEF Lines!EraseLine
  <2> QED BY Zenon, <1>11, <2>2 DEF Lines!Next
<1>14. CASE h = 1
  <2>1. u # <<>> /\ m - h = Len(u) - 1
    BY ONLY <1>8, <1>10, <1>14
  <2>2. Lines!Erase
    BY Zenon, <1>8, <1>9, <2>1 DEF Lines!Erase
  <2> QED BY Zenon, <1>11, <2>2 DEF Lines!Next
<1> QED BY Zenon, <1>3, <1>12, <1>13, <1>14

\* A character is read, or a ^D is left where it is.
LEMMA TakeStep ==
  ASSUME InputInv, Editing, NEW p \in Readers, ReadChar(p)
  PROVE  [Lines!Next]_<<Between(r, w), Between(w, e)>> /\ Editing'
<1> PICK x : x = (r + 1) % IDX
  BY Zenon
<1>1. /\ w' = w /\ e' = e /\ load' = load /\ r # w
      /\ \/ r' = r /\ buf' = buf
         \/ r' = x /\ buf' = Emptied({r % INPUT_BUF_SIZE})
  BY Zenon DEF ReadChar
<1>2. /\ r \in Index /\ w \in Index /\ e \in Index
      /\ Dist(e, r) = Dist(w, r) + Dist(e, w) /\ Dist(e, r) <= INPUT_BUF_SIZE
      /\ Dist(w, r) \in Nat /\ Dist(e, w) \in Nat
  BY Zenon, LineIs
<1>3. CASE r' = r /\ buf' = buf
  <2>1. <<Between(r, w), Between(w, e)>>' = <<Between(r, w), Between(w, e)>>
    BY Zenon, <1>1, <1>3, BetweenIs
  <2> QED BY Zenon, <1>1, <1>3, <2>1 DEF Editing, Dist
<1>4. CASE r' = x /\ buf' = Emptied({r % INPUT_BUF_SIZE})
  <2>1. x \in Index /\ Dist(x, r) = 1 /\ Dist(w, x) = Dist(w, r) - 1
        /\ Dist(e, x) = Dist(e, r) - 1
    <3>1. Dist(w, r) # 0 /\ Dist(r, r) = 0
      BY Zenon, <1>1, <1>2, DistNext
    <3>2. Dist(e, r) # 0 /\ Dist(r, r) < IDX - 1 /\ 0 + 1 = 1
      BY <1>2, <3>1, Sizes
    <3>3. e # r
      BY Zenon, <1>2, <3>2, DistNext
    <3> QED BY Zenon, <1>1, <1>2, <3>1, <3>2, <3>3, DistNext
  <2>2. /\ buf \in [0 .. INPUT_BUF_SIZE - 1 -> Content]
        /\ buf' \in [0 .. INPUT_BUF_SIZE - 1 -> Content]
        /\ \A i \in 0 .. INPUT_BUF_SIZE - 1 : i # r % INPUT_BUF_SIZE => buf'[i] = buf[i]
    <3>1. buf \in [0 .. INPUT_BUF_SIZE - 1 -> Content] /\ "nul" \in Content
      BY DEF Editing, Content
    <3> QED BY <1>4, <3>1 DEF Emptied
  <2>3. Taken(buf, buf', r, w, e, x)
    <3>1. r # w
      BY Zenon, <1>1
    <3> QED BY ONLY <1>2, <2>1, <2>2, <3>1, TakeText, Zenon
  <2>4. Between(r, w)' = Tail(Between(r, w)) /\ Between(w, e)' = Between(w, e)
    BY Zenon, <1>1, <1>4, <2>3, BetweenIs DEF Taken
  <2>5. Between(r, w) # <<>>
    <3>1. InCells(buf, r, w, e)
      BY ONLY <1>2, <2>2, TextIs, Zenon
    <3>2. Len(Between(r, w)) = Dist(w, r) /\ Dist(w, r) # 0
      BY Zenon, <1>1, <1>2, <3>1, BetweenIs, DistNext DEF InCells
    <3> QED BY <3>2
  <2>6. Lines!Take
    BY Zenon, <2>4, <2>5 DEF Lines!Take
  <2>7. Editing'
    BY Zenon, <1>1, <2>2, <2>4 DEF Editing, Content, Dist
  <2> QED BY Zenon, <2>6, <2>7 DEF Lines!Next
<1> QED BY Zenon, <1>1, <1>3, <1>4

\* Every step of the console is a step of LineInput or changes no text.
LEMMA LinesStep ==
  ASSUME InputInv, Editing, [Next]_vars
  PROVE  [Lines!Next]_<<Between(r, w), Between(w, e)>> /\ Editing'
<1>1. CASE \E c \in load.keys : consoleintr(c)
  BY Zenon, <1>1, TypeStep, EraseStep
<1>2. CASE \E p \in Readers : ReadChar(p)
  BY Zenon, <1>2, TakeStep
<1>3. CASE UNCHANGED <<line, load>>
  <2>1. r' = r /\ w' = w /\ e' = e /\ buf' = buf /\ load' = load
    BY Zenon, <1>3 DEF line
  <2>2. <<Between(r, w), Between(w, e)>>' = <<Between(r, w), Between(w, e)>>
    BY Zenon, <2>1, BetweenIs
  <2> QED BY Zenon, <2>1, <2>2 DEF Editing, Dist
<1>4. UartStep \/ Claim \/ Echo \/ EchoDone \/ StartOutput \/ Complete \/ Press
      \/ (\E p \in Writers : consolewrite(p)) \/ (\E t \in Printers : printf(t))
      \/ (\E p \in Readers : ReadCall(p) \/ ReadWaits(p) \/ kill(p))
      \/ UNCHANGED vars => UNCHANGED <<line, load>>
  BY Zenon DEF UartStep, Claim, Echo, EchoDone, StartOutput, Complete, Press, consolewrite, printf,
         ReadCall, ReadWaits, kill, vars, cvars
<1> QED BY Zenon, <1>1, <1>2, <1>3, <1>4 DEF Next, HandlerStep

\* The invariant of the input side.
LineInv == InputInv /\ InputNotStuck /\ Editing

\* The console starts with nothing typed.
LEMMA LineInit == Init => LineInv /\ Lines!Init
<1> SUFFICES ASSUME Init PROVE LineInv /\ Lines!Init
  BY Zenon
<1>1. r = 0 /\ w = 0 /\ e = 0 /\ 0 \in Index
      /\ rpc \in [Readers -> {"user", "loop", "asleep"}]
      /\ \A p \in Readers : rpc[p] # "asleep"
  BY Sizes DEF Init, Index
<1>2. Dist(0, 0) = 0
  BY <1>1, DistNext
<1>3. InputInv /\ InputNotStuck
  BY <1>1, <1>2, Sizes DEF InputInv, InputTypes, InputNotStuck
<1>4. Editing
  BY <1>1, <1>2 DEF Init, Editing
<1>5. Between(r, w) = <<>> /\ Between(w, e) = <<>>
  BY <1>1, <1>2 DEF Between
<1> QED BY Zenon, <1>3, <1>4, <1>5 DEF LineInv, Lines!Init

\* Every step keeps the invariant and is one of LineInput, or none.
LEMMA LineStep ==
  ASSUME LineInv, [Next]_vars
  PROVE  LineInv' /\ [Lines!Next]_<<Between(r, w), Between(w, e)>>
BY Zenon, InputStep, LinesStep DEF LineInv

\* Input is not stuck: a reader never sleeps with a line to read, and a full
\* buffer has been handed over, for any buffer size and any width of the
\* indexes that go round it.
THEOREM InputGoesOn == Spec => []InputNotStuck
<1>1. Init => LineInv
  BY Zenon, LineInit
<1>2. LineInv /\ [Next]_vars => LineInv'
  BY Zenon, LineStep
<1>3. LineInv => InputNotStuck
  BY Zenon DEF LineInv
<1> QED BY <1>1, <1>2, <1>3, PTL DEF Spec

\* The ring of cons.buf with r, w and e, as consoleintr() and consoleread() use
\* it, implements the editable line and queue of LineInput: nothing handed over
\* is taken back, nothing is lost, and each character is read once and in order.
THEOREM InputImplementsLines == Spec => InputIsLines
<1>1. Init => LineInv /\ Lines!Init
  BY Zenon, LineInit
<1>2. LineInv /\ [Next]_vars => LineInv' /\ [Lines!Next]_<<Between(r, w), Between(w, e)>>
  BY Zenon, LineStep
<1> QED BY <1>1, <1>2, PTL DEF Spec, InputIsLines, Lines!Spec
=============================================================================
