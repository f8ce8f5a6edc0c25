--------------------------- MODULE BufferChannel ----------------------------
(***************************************************************************)
(* BufferChannel: buffered writes over Channel::send, which accepts only   *)
(* what the server's window has room for, and buffered reads.  The module  *)
(* has the steps; a protocol such as Scp says when they are taken.         *)
(*                                                                         *)
(* Channel::send is the operation FlowControl is about: it accepts what    *)
(* the window allows at the moment the session task takes it.  The handle  *)
(* gets the server's messages in order.                                    *)
(***************************************************************************)
EXTENDS Integers, SequencesExt

VARIABLES
  window,       \* what the server's window has left, as the session task knows it
  wire,         \* bytes accepted by Channel::send and not yet read by the server
  inbox,        \* the handle's messages
  write_buf, read_buf,
  pos,          \* flush: bytes of write_buf it has sent
  blocked       \* flush: in the inner loop, waiting for the window

bufferVars == <<window, wire, inbox, write_buf, read_buf, pos, blocked>>

\* BufferChannel::new, on a channel whose server has opened a window of w.
BufferInit(w) ==
  /\ window = w /\ wire = <<>> /\ inbox = <<>>
  /\ write_buf = <<>> /\ read_buf = <<>> /\ pos = 0 /\ blocked = FALSE

-----------------------------------------------------------------------------
(* Writing.                                                                *)

\* Channel::send(data): how much is accepted.
Accepted(data) == Min({Len(data), window})

ChannelSend(data) ==
  /\ wire' = wire \o SubSeq(data, 1, Accepted(data))
  /\ window' = window - Accepted(data)

\* What is left of data after its first n bytes.
Rest(data, n) == SubSeq(data, n + 1, Len(data))

\* send: what waits goes first.
Queued(data) == write_buf \o data

\* BufferChannel::send.
BufferSend(data) ==
  /\ ChannelSend(Queued(data))
  /\ write_buf' = Rest(Queued(data), Accepted(Queued(data)))
  /\ UNCHANGED <<inbox, read_buf, pos, blocked>>

\* The next attempt of flush sends the last of the buffer.
FlushCompletes == ~blocked /\ pos + Accepted(Rest(write_buf, pos)) = Len(write_buf)

\* flush: an attempt.
FlushTry ==
  /\ ~blocked
  /\ ChannelSend(Rest(write_buf, pos))
  /\ IF FlushCompletes
     THEN write_buf' = <<>> /\ pos' = 0 /\ UNCHANGED blocked
     ELSE /\ pos' = pos + Accepted(Rest(write_buf, pos)) /\ blocked' = TRUE
          /\ UNCHANGED write_buf
  /\ UNCHANGED <<inbox, read_buf>>

-----------------------------------------------------------------------------
(* Reading.                                                                *)

Arrived == IF Head(inbox).type = "stdout" THEN read_buf \o Head(inbox).data ELSE read_buf

\* Mutant: what arrives while flush waits is not kept.
KeptNot == read_buf

\* flush keeps what arrives while it waits.
Kept == Arrived

\* flush: Close is an error.
FlushHearFails == inbox # <<>> /\ Head(inbox).type = "close"

\* Mutant: flush waits on after the window has grown.
WokenNever == FALSE

\* flush: a WindowChange ends the inner loop.
Woken == Head(inbox).type = "window"

\* flush: a message in the inner loop.
FlushHear ==
  /\ blocked /\ inbox # <<>>
  /\ read_buf' = Kept
  /\ blocked' = (~Woken /\ ~FlushHearFails)
  /\ pos' = IF FlushHearFails THEN 0 ELSE pos
  /\ inbox' = Tail(inbox)
  /\ UNCHANGED <<window, wire, write_buf>>

\* fill_once: Close and Eof are errors.
FillFails == inbox # <<>> /\ Head(inbox).type \in {"close", "eof"}

\* fill_once: a message; the callers repeat it until they have enough.
FillOnce ==
  /\ inbox # <<>>
  /\ read_buf' = Arrived
  /\ inbox' = Tail(inbox)
  /\ UNCHANGED <<window, wire, write_buf, pos, blocked>>

\* consumer_read_buffer.
Consume(n) ==
  /\ read_buf' = Rest(read_buf, n)
  /\ UNCHANGED <<window, wire, inbox, write_buf, pos, blocked>>

\* A future is dropped in the middle: flush loses its position, not its buffer.
BufferCancel ==
  /\ pos' = 0 /\ blocked' = FALSE
  /\ UNCHANGED <<window, wire, inbox, write_buf, read_buf>>

-----------------------------------------------------------------------------
(* External: the session task and the server.                              *)

\* The server's message is put into the handle's queue.
Put(msg) ==
  /\ inbox' = Append(inbox, msg)
  /\ UNCHANGED <<wire, write_buf, read_buf, pos, blocked>>

\* The server reads a byte.
TakeByte ==
  /\ wire # <<>>
  /\ wire' = Tail(wire)
  /\ UNCHANGED <<window, inbox, write_buf, read_buf, pos, blocked>>
=============================================================================
