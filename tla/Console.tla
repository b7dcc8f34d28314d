------------------------------ MODULE Console -------------------------------
(***************************************************************************)
(* The console (console.c) on top of the serial port: the interrupt        *)
(* handler takes typed characters, echoes them and edits the current line  *)
(* in a ring buffer with three indexes; consoleread hands finished lines   *)
(* to processes; consolewrite and printf send output.                      *)
(***************************************************************************)
EXTENDS Uart

CONSTANTS Readers,         \* processes in read()
          Loads,           \* who uses the console: sets of readers, writers,
                           \* printers and keys ("x", "cr", "^D", "^U", "^H",
                           \* "^P", "nul"), one of which a behaviour has
          ReadSizes,
          INPUT_BUF_SIZE,  \* 128
          IDX,             \* the uint indexes are modulo IDX (2^32)
          BACKSPACE        \* bytes echoed for an erased character (3)

ASSUME ConsoleBounds == /\ INPUT_BUF_SIZE \in Nat \ {0} /\ IDX \in Nat
                        /\ IDX % INPUT_BUF_SIZE = 0 /\ IDX > INPUT_BUF_SIZE
ASSUME ConsoleKeys ==
         \A l \in Loads : l.keys \subseteq {"x", "cr", "^D", "^U", "^H", "^P", "nul"}

VARIABLES buf, r, w, e,      \* cons
          conslock,
          rx,                \* the device has received a character
          hpc, echo,         \* the handler: control, bytes left to echo
          rpc, n, target,    \* consoleread, for each reader
          load

line == <<buf, r, w, e>>
handler == <<rx, hpc, echo>>
reader == <<rpc, n, target>>
cvars == <<line, handler, reader, conslock, load>>
vars == <<uvars, cvars>>

Init ==
  /\ UInit
  /\ buf = [i \in 0 .. INPUT_BUF_SIZE - 1 |-> "nul"] /\ r = 0 /\ w = 0 /\ e = 0
  /\ conslock = "free" /\ rx = FALSE
  /\ hpc = "idle" /\ echo = 0
  /\ rpc = [p \in Readers |-> "user"]
  /\ n = [p \in Readers |-> 0] /\ target = [p \in Readers |-> 0]
  /\ load \in Loads

Dist(to, from) == (to - from) % IDX  \* unsigned subtraction
At(i) == buf[i % INPUT_BUF_SIZE]

\* Slots read or erased are marked, so that reading them again would show.
Emptied(slots) == [i \in DOMAIN buf |-> IF i \in slots THEN "nul" ELSE buf[i]]

-----------------------------------------------------------------------------
(* The interrupt handler: devintr, uartintr, consoleintr.                  *)

Claim ==
  /\ hpc = "idle" /\ irq
  /\ irq' = FALSE /\ hpc' = "getc"
  /\ UNCHANGED <<ring, txlock, thr, upc, byte, hist, line, conslock, rx, echo, reader, load>>

\* The characters erased by a typed c, and the bytes echoed for it: kill
\* erases back to the previous line end or to w, backspace one character.
LineStart == CHOOSE i \in 0 .. Dist(e, w) :
               /\ \A j \in 1 .. i : At((e - j) % IDX) # "nl"
               /\ i = Dist(e, w) \/ At((e - i - 1) % IDX) = "nl"

\* Mutant: a backspace may take back what has been handed over.
ErasedPastW(c) == IF c = "^H" /\ e # r THEN 1 ELSE 0

Erased(c) == CASE c = "^U" -> LineStart
               [] c = "^H" -> IF e # w THEN 1 ELSE 0
               [] OTHER -> 0
Stored(c) == c \notin {"^U", "^H", "^P", "nul"} /\ Dist(e, r) < INPUT_BUF_SIZE

\* Mutant: a line that fills the buffer is not handed over.
EndsLineNotFull(c, i) == c \in {"nl", "^D"}

EndsLine(c, i) == c \in {"nl", "^D"} \/ Dist(i, r) = INPUT_BUF_SIZE

\* uartgetc reads a character, whichever it is, and consoleintr takes cons.lock
\* until the echo is out, so that the order of echo and change is not seen.
\* Characters are erased, or c is stored and, at a line end or when the buffer
\* is full, the line handed over and the readers woken; ^P only prints.
consoleintr(key) ==
  LET c == IF key = "cr" THEN "nl" ELSE key
      next == (e + 1) % IDX
  IN /\ hpc = "getc" /\ rx /\ conslock = "free"
     /\ rx' = FALSE
     /\ conslock' = Handler /\ hpc' = "echo"
     /\ echo' = Erased(c) * BACKSPACE + (IF Stored(c) \/ c = "^P" THEN 1 ELSE 0)
     /\ IF Stored(c)
        THEN /\ buf' = [buf EXCEPT ![e % INPUT_BUF_SIZE] = c]
             /\ e' = next
             /\ IF EndsLine(c, next)
                THEN /\ w' = next
                     /\ rpc' = [p \in Readers |-> IF rpc[p] = "asleep" THEN "loop" ELSE rpc[p]]
                ELSE UNCHANGED <<w, rpc>>
        ELSE /\ e' = (e - Erased(c)) % IDX
             /\ buf' = Emptied({(e - j) % INPUT_BUF_SIZE : j \in 1 .. Erased(c)})
             /\ UNCHANGED <<w, rpc>>
     /\ UNCHANGED <<uvars, r, n, target, load>>

\* consputc: one byte of the echo.
Echo ==
  /\ hpc = "echo" /\ echo > 0 /\ upc[Handler] = "out"
  /\ echo' = echo - 1
  /\ upc' = [upc EXCEPT ![Handler] = "sync"]
  /\ UNCHANGED <<ring, txlock, thr, irq, byte, hist, line, conslock, rx, hpc, reader, load>>

EchoDone ==
  /\ hpc = "echo" /\ echo = 0 /\ upc[Handler] = "out"
  /\ conslock' = "free" /\ hpc' = "getc"
  /\ UNCHANGED <<uvars, line, rx, echo, reader, load>>

\* Mutant: the handler forgets to restart the output.
StartOutputNever ==
  /\ hpc = "getc" /\ ~rx
  /\ hpc' = "idle"
  /\ UNCHANGED <<uvars, line, conslock, rx, echo, reader, load>>

\* No more input: uartstart, then plic_complete.
StartOutput ==
  /\ hpc = "getc" /\ ~rx
  /\ hpc' = "tx" /\ upc' = [upc EXCEPT ![Handler] = "txlock"]
  /\ UNCHANGED <<ring, txlock, thr, irq, byte, hist, line, conslock, rx, echo, reader, load>>

Complete ==
  /\ hpc = "tx" /\ upc[Handler] = "out"
  /\ hpc' = "idle"
  /\ UNCHANGED <<uvars, line, conslock, rx, echo, reader, load>>

-----------------------------------------------------------------------------
(* consoleread.                                                            *)

ReadCall(p) ==
  /\ p \in load.readers /\ rpc[p] = "user"
  /\ \E k \in ReadSizes : n' = [n EXCEPT ![p] = k] /\ target' = [target EXCEPT ![p] = k]
  /\ rpc' = [rpc EXCEPT ![p] = "loop"]
  /\ UNCHANGED <<uvars, line, conslock, handler, load>>

\* The read returns, and releases the lock.
ReadReturns(p) ==
  /\ rpc' = [rpc EXCEPT ![p] = "user"]
  /\ n' = [n EXCEPT ![p] = 0] /\ target' = [target EXCEPT ![p] = 0]
  /\ conslock' = "free"

\* With nothing to read: killed() may find that the process has been killed;
\* else sleep, even if a kill has come since.
ReadWaits(p) ==
  /\ rpc[p] = "loop" /\ conslock \in {"free", p} /\ n[p] > 0 /\ r = w
  /\ \/ ReadReturns(p)
     \/ /\ rpc' = [rpc EXCEPT ![p] = "asleep"]
        /\ conslock' = "free"
        /\ UNCHANGED <<n, target>>
  /\ UNCHANGED <<uvars, line, handler, load>>

\* One character: a ^D after others is left for the next read; the copy to
\* the user's buffer may fail, and the character is gone.
ReadChar(p) ==
  LET c == At(r)
      keep == c = "^D" /\ n[p] < target[p]
  IN /\ rpc[p] = "loop" /\ conslock \in {"free", p} /\ n[p] > 0 /\ r # w
     /\ IF keep THEN UNCHANGED <<r, buf>>
        ELSE r' = (r + 1) % IDX /\ buf' = Emptied({r % INPUT_BUF_SIZE})
     /\ \/ c \in {"^D", "nl"} /\ ReadReturns(p)
        \/ c # "^D" /\ ReadReturns(p)  \* either_copyout failed
        \/ /\ c \notin {"^D", "nl"}
           /\ IF n[p] = 1
              THEN ReadReturns(p)
              ELSE /\ n' = [n EXCEPT ![p] = @ - 1]
                   /\ conslock' = p
                   /\ UNCHANGED <<rpc, target>>
     /\ UNCHANGED <<uvars, w, e, handler, load>>

\* kill makes a sleeper run again.
kill(p) ==
  /\ rpc[p] = "asleep"
  /\ rpc' = [rpc EXCEPT ![p] = "loop"]
  /\ UNCHANGED <<uvars, line, conslock, handler, n, target, load>>

-----------------------------------------------------------------------------
(* consolewrite, printf, and the keyboard.                                 *)

\* Each byte of a write is one uartputc.
consolewrite(p) ==
  /\ p \in load.writers /\ upc[p] = "out"
  /\ upc' = [upc EXCEPT ![p] = "putc"]
  /\ UNCHANGED <<ring, txlock, thr, irq, byte, hist, cvars>>

\* printf sends each character with uartputc_sync; pr.lock keeps others out.
printf(t) ==
  /\ t \in load.printers /\ \A u \in Printers : upc[u] = "out"
  /\ upc' = [upc EXCEPT ![t] = "sync"]
  /\ UNCHANGED <<ring, txlock, thr, irq, byte, hist, cvars>>

\* A key is pressed; which one matters when it is read.
Press ==
  /\ ~rx
  /\ rx' = TRUE /\ irq' = TRUE
  /\ UNCHANGED <<ring, txlock, thr, upc, byte, hist, line, conslock, hpc, echo, reader, load>>

UartStep == (Transmit \/ \E t \in Threads : UStep(t)) /\ UNCHANGED cvars

HandlerStep == Claim \/ (\E c \in load.keys : consoleintr(c)) \/ Echo \/ EchoDone \/ StartOutput \/ Complete

Next ==
  \/ UartStep \/ HandlerStep
  \/ \E p \in Readers : ReadCall(p) \/ ReadWaits(p) \/ ReadChar(p) \/ kill(p)
  \/ \E p \in Writers : consolewrite(p)
  \/ \E t \in Printers : printf(t)
  \/ Press

Spec == Init /\ [][Next]_vars

-----------------------------------------------------------------------------
(* Properties.                                                             *)

Between(i, j) == [k \in 1 .. Dist(j, i) |-> At((i + k - 1) % IDX)]

Lines == INSTANCE LineInput WITH
           Chars <- {"x", "nl", "^D"}, Ends <- {"nl", "^D"}, Size <- INPUT_BUF_SIZE,
           ready <- Between(r, w), edit <- Between(w, e)

\* The three indexes in their ring implement an editable line in front of a
\* queue, as they run round 2^32 and with the buffer full: erasing never takes
\* back what a reader may have seen, and no character is lost or read twice.
InputIsLines == Lines!Spec

\* A reader sleeps only while there is nothing to read, and a buffer full of
\* characters can be read: neither a lost wakeup nor a line too long for the
\* buffer leaves the console dead.
InputNotStuck ==
  /\ \A p \in Readers : rpc[p] = "asleep" => r = w
  /\ Dist(e, r) = INPUT_BUF_SIZE => w = e

\* Bytes of writers in the device, in uartstart's hand and in the ring.
Pending ==
  SelectSeq(thr, LAMBDA b : b # NoByte) \o (IF byte = NoByte THEN <<>> ELSE <<byte>>)
  \o [k \in 1 .. (tx_w - tx_r) % TXIDX |-> tx_buf[(tx_r + k - 1) % UART_TX_BUF_SIZE]]

\* What processes write to the console reaches the line in the order accepted,
\* each byte once, although echo and printf bypass the ring and its lock.
OutputInOrder ==
  /\ Len(Pending) = (accepted - sent) % TXIDX
  /\ \A k \in 1 .. Len(Pending) : Pending[k] = (sent + k - 1) % TXIDX

\* Output cannot stop with bytes in the ring: the device is busy, or its
\* interrupt is coming, or a thread has yet to look at the ring.
OutputNotStuck ==
  tx_w # tx_r =>
    \/ thr # <<>> \/ irq \/ hpc \in {"getc", "echo"}
    \/ \E t \in Threads : upc[t] \in {"txlock", "start", "thr", "put"}

\* The device never gets more bytes than its FIFO holds, although a thread
\* that finds it idle writes later, when others may have written too.
NoOverrun == Len(thr) <= FIFO
=============================================================================
