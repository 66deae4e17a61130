------------------------------- MODULE Serial -------------------------------
(***************************************************************************)
(* Character input and output: the serial port of devices/serial.c, with   *)
(* its transmit queue, the input buffer of devices/input.c, and the        *)
(* keyboard handler that also feeds it.  Both queues are those of          *)
(* ByteQueue.                                                              *)
(*                                                                         *)
(* The code runs with interrupts off, so a call or a handler is one step,  *)
(* up to where it sleeps on a full or an empty queue.  One thread writes   *)
(* at a time: it holds the console lock.  Code with interrupts off may     *)
(* write while that thread sleeps.  The UART interrupts when its           *)
(* transmitter becomes idle or is found idle when the interrupt is         *)
(* enabled, and as long as it holds a received byte.                       *)
(***************************************************************************)
EXTENDS Integers, Sequences

CONSTANTS
  Char,
  Capacity,    \* INTQ_BUFSIZE - 1
  NoChar,
  MaxWritten,  \* bound: bytes written to the serial port
  MaxReceived  \* bound: bytes that arrive from the line and the keyboard

ASSUME SerialAssumption ==
  /\ Capacity \in Nat \ {0}
  /\ NoChar \notin Char
  /\ MaxWritten \in Nat /\ MaxReceived \in Nat

VARIABLES
  mode,      \* transmission mode
  txq,       \* data to be transmitted
  buffer,    \* input.c: keys from the keyboard and the serial port
  ier,       \* UART: the interrupts enabled
  thr,       \* UART: the byte being transmitted, NoChar when idle
  thre,      \* UART: is a transmitter-idle interrupt pending?
  rbr,       \* UART: the byte received, NoChar when read
  writer,    \* the byte of the thread asleep in serial_putc, or NoChar
  reader,    \* is a thread asleep in input_getc?
  written,   \* history: the bytes passed to serial_putc
  out,       \* history: the bytes given to the UART
  received   \* history: the number of bytes and keys that arrived

uart == <<ier, thr, thre, rbr>>
history == <<written, out, received>>
serialVars == <<mode, txq, buffer, uart, writer, reader, history>>

tx_full == Len(txq) = Capacity
input_full(buf) == Len(buf) = Capacity

-----------------------------------------------------------------------------
(***************************************************************************)
(* write_ier, given the queues' new contents and the new transmitter.      *)
(* Enabling the transmit interrupt while the transmitter is idle raises it.*)
(***************************************************************************)
IerFor(tq, buf) ==
  {i \in {"XMIT", "RECV"} : IF i = "XMIT" THEN tq # <<>> ELSE ~input_full(buf)}

write_ier(tq, buf, pending, line) ==
  /\ ier' = IerFor(tq, buf)
  /\ thre' = (pending \/ ("XMIT" \in ier' \ ier /\ line = NoChar))

\* Mutant: the input buffer's routines do not notify the serial port.
serial_notify_Missing(buf) == UNCHANGED <<ier, thre>>

serial_notify(buf) ==
  IF mode = "QUEUE" THEN write_ier(txq, buf, thre, thr) ELSE UNCHANGED <<ier, thre>>

-----------------------------------------------------------------------------
\* The values of static data and the UART's state after reset.
InitSerial ==
  /\ mode = "UNINIT"
  /\ txq = <<>> /\ buffer = <<>>
  /\ ier = {} /\ thr = NoChar /\ thre = FALSE /\ rbr = NoChar
  /\ writer = NoChar /\ reader = FALSE
  /\ written = <<>> /\ out = <<>> /\ received = 0

serial_init_queue ==
  /\ mode # "QUEUE"
  /\ mode' = "QUEUE"
  /\ write_ier(txq, buffer, thre, thr)
  /\ UNCHANGED <<txq, buffer, thr, rbr, writer, reader, history>>

\* putc_poll: busy-waits for the transmitter, so the step is taken when it is
\* idle.
putc_poll(b) ==
  /\ thr = NoChar
  /\ thr' = b
  /\ out' = Append(out, b)

\* Before serial_init_queue.  The first character calls init_poll.
serial_putc_poll(b) ==
  /\ mode # "QUEUE" /\ Len(written) < MaxWritten
  /\ putc_poll(b)
  /\ written' = Append(written, b)
  /\ mode' = "POLL"
  /\ thre' = FALSE
  /\ UNCHANGED <<txq, buffer, ier, rbr, writer, reader, received>>

\* Mutant: the interrupt enable register is not updated.
Enqueue_NoIer(b) ==
  /\ txq' = Append(txq, b)
  /\ written' = Append(written, b)
  /\ UNCHANGED <<ier, thre, thr, out>>

\* intq_putc and write_ier.
Enqueue(b) ==
  /\ txq' = Append(txq, b)
  /\ written' = Append(written, b)
  /\ write_ier(txq', buffer, thre, thr)
  /\ UNCHANGED <<thr, out>>

\* Interrupts on: sleep while the queue is full.
serial_putc(b) ==
  /\ mode = "QUEUE" /\ writer = NoChar /\ Len(written) < MaxWritten
  /\ \/ ~tx_full /\ Enqueue(b) /\ UNCHANGED writer
     \/ tx_full /\ writer' = b /\ UNCHANGED <<txq, ier, thre, thr, written, out>>
  /\ UNCHANGED <<mode, buffer, rbr, reader, received>>

serial_putc_woken ==
  /\ writer # NoChar /\ ~tx_full
  /\ Enqueue(writer)
  /\ writer' = NoChar
  /\ UNCHANGED <<mode, buffer, rbr, reader, received>>

\* Mutant: the new byte is polled out, past the queued ones.
PollOne_New(b) ==
  /\ putc_poll(b)
  /\ txq' = txq

\* When the queue is full, send its first byte by polling and queue the new one.
PollOne(b) ==
  /\ putc_poll(Head(txq))
  /\ txq' = Append(Tail(txq), b)

\* Interrupts off: never sleeps.
serial_putc_off(b) ==
  /\ mode = "QUEUE" /\ Len(written) < MaxWritten
  /\ \/ ~tx_full /\ Enqueue(b)
     \/ /\ tx_full
        /\ PollOne(b)
        /\ written' = Append(written, b)
        /\ write_ier(txq', buffer, FALSE, thr')
  /\ UNCHANGED <<mode, buffer, rbr, writer, reader, received>>

\* Sends everything by polling; leaves the interrupt enable register alone.
serial_flush ==
  /\ txq # <<>>
  /\ out' = out \o txq
  /\ txq' = <<>>
  /\ thr' = txq[Len(txq)]
  /\ thre' = FALSE
  /\ UNCHANGED <<mode, buffer, ier, rbr, writer, reader, written, received>>

-----------------------------------------------------------------------------
(***************************************************************************)
(* Input.                                                                  *)
(***************************************************************************)
\* Takes the first key, or sleeps; a sleeping reader is woken by input_putc.
input_getc ==
  /\ \/ /\ buffer # <<>>
        /\ buffer' = Tail(buffer)
        /\ reader' = FALSE
        /\ serial_notify(buffer')
     \/ /\ buffer = <<>> /\ ~reader
        /\ reader' = TRUE
        /\ UNCHANGED <<buffer, ier, thre>>
  /\ UNCHANGED <<mode, txq, thr, rbr, writer, history>>

\* keyboard_interrupt for a key that makes a character; dropped when the
\* buffer is full.
keyboard_interrupt(b) ==
  /\ received < MaxReceived
  /\ received' = received + 1
  /\ \/ /\ ~input_full(buffer)
        /\ buffer' = Append(buffer, b)
        /\ serial_notify(buffer')
     \/ /\ input_full(buffer)
        /\ UNCHANGED <<buffer, ier, thre>>
  /\ UNCHANGED <<mode, txq, thr, rbr, writer, reader, written, out>>

-----------------------------------------------------------------------------
\* The UART asks for an interrupt.
Asserted == \/ thre /\ "XMIT" \in ier
            \/ rbr # NoChar /\ "RECV" \in ier

\* Reading IIR ends a pending transmit interrupt.  The UART holds one byte each
\* way, so each loop goes round at most once.
serial_interrupt ==
  /\ mode = "QUEUE" /\ Asserted
  /\ LET receive == rbr # NoChar /\ ~input_full(buffer)
         transmit == txq # <<>> /\ thr = NoChar
     IN /\ buffer' = IF receive THEN Append(buffer, rbr) ELSE buffer
        /\ rbr' = IF receive THEN NoChar ELSE rbr
        /\ txq' = IF transmit THEN Tail(txq) ELSE txq
        /\ thr' = IF transmit THEN Head(txq) ELSE thr
        /\ out' = IF transmit THEN Append(out, Head(txq)) ELSE out
  /\ write_ier(txq', buffer', FALSE, thr')
  /\ UNCHANGED <<mode, writer, reader, written, received>>

\* The UART has shifted a byte out.
uart_sent ==
  /\ thr # NoChar
  /\ thr' = NoChar
  /\ thre' = ("XMIT" \in ier)
  /\ UNCHANGED <<mode, txq, buffer, ier, rbr, writer, reader, history>>

\* A byte arrives; it overwrites one that nobody has read.
uart_receives(b) ==
  /\ received < MaxReceived
  /\ received' = received + 1
  /\ rbr' = b
  /\ UNCHANGED <<mode, txq, buffer, ier, thr, thre, writer, reader, written, out>>

NextSerial ==
  \/ serial_init_queue
  \/ \E b \in Char : \/ serial_putc_poll(b) \/ serial_putc(b) \/ serial_putc_off(b)
                     \/ keyboard_interrupt(b) \/ uart_receives(b)
  \/ serial_putc_woken \/ serial_flush
  \/ input_getc
  \/ serial_interrupt \/ uart_sent

\* The hardware works: bytes leave the transmitter, and an asserted interrupt is
\* taken when interrupts are next on.  A woken writer runs.
SerialFairness == /\ WF_serialVars(uart_sent) /\ SF_serialVars(serial_interrupt)
            /\ WF_serialVars(serial_putc_woken)

SerialSpec == InitSerial /\ [][NextSerial]_serialVars /\ SerialFairness

-----------------------------------------------------------------------------
\* Bytes leave in the order they were written, though some go by interrupt and
\* some by polling.
OutputInOrder == written = out \o txq

\* Everything that is queued is sent, and a sleeping writer returns.
OutputDrains == mode = "QUEUE" ~> txq = <<>> /\ writer = NoChar

\* A byte in the UART is read when there is room for it.
InputRead == rbr # NoChar /\ mode = "QUEUE" ~> rbr = NoChar \/ input_full(buffer)

=============================================================================
