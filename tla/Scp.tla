-------------------------------- MODULE Scp ---------------------------------
(***************************************************************************)
(* The SCP client over a BufferChannel.  A call of scp::Handle,            *)
(* FileReceiver or FileSender is the list of BufferChannel calls it makes; *)
(* one application task makes the calls one after the other and may drop   *)
(* one in the middle.                                                      *)
(*                                                                         *)
(* A byte is a pair: what it is to the protocol and a number that tells    *)
(* equal bytes apart.  A record is its letter and a line feed, so it can   *)
(* be cut in two; the digits of a size are in the letter's number.         *)
(***************************************************************************)
EXTENDS BufferChannel

CONSTANTS
  Window,       \* the server's initial window
  Sizes,        \* sizes of files
  Records,      \* letters of the records without a file: T, D, E
  MaxCalls,     \* bound: calls of the application
  MaxCancels,   \* bound: futures dropped in the middle
  Refuses       \* the server may refuse a record

ASSUME ScpAssumption ==
  /\ Window \in Nat /\ Records \subseteq {"T", "D", "E"} /\ Sizes \subseteq Nat /\ MaxCalls \in Nat /\ MaxCancels \in Nat
  /\ Refuses \in BOOLEAN

VARIABLES
  mode,         \* the command: "send" (scp -t) or "receive" (scp -f)
  todo,         \* what the call in progress has still to do
  stage,        \* between calls: what the application may call next
  size, received,   \* FileReceiver, or bytes a FileSender still has to send
  file,         \* the bytes a FileReceiver has handed to the application
  calls, cancels,   \* calls made, calls dropped
  sent, used,   \* History: bytes given to send, bytes taken out of the read buffer
  spoiled,      \* History: a flush was dropped after part of its buffer was sent
  server        \* External: the scp process

scpVars == <<mode, todo, stage, size, received, file, calls, cancels, sent, used, spoiled>>
vars == <<bufferVars, scpVars, server>>

Nul == <<"0", 0>>
Lf == <<"lf", 0>>
Zero(byte) == byte[1] = "0"

\* Handle::new; the command has been accepted.
Init ==
  /\ BufferInit(Window)
  /\ mode \in {"send", "receive"} /\ todo = <<>> /\ stage = "new"
  /\ size = 0 /\ received = 0 /\ file = <<>> /\ calls = 0 /\ cancels = 0
  /\ sent = <<>> /\ used = <<>> /\ spoiled = FALSE
  /\ \E n \in Sizes :
       server = [phase |-> IF mode = "send" THEN "line" ELSE "start", size |-> n, got |-> <<>>,
                 out |-> IF mode = "send" THEN <<<<"0", 0>>>> ELSE <<>>, said |-> <<>>,
                 line |-> Nul, credit |-> 0, count |-> 0, files |-> <<>>]

-----------------------------------------------------------------------------
(* The calls.  Each ends with the stage it leaves the application in.      *)

Send(bytes) == [do |-> "send", bytes |-> bytes]
Flush == [do |-> "flush"]
WaitForResponse == [do |-> "wait"]
ReadLine == [do |-> "line"]
ConsumeLine(n) == [do |-> "consume", n |-> n]
Done(next) == [do |-> "done", stage |-> next]

\* set_timestamp, start_sending_file, enter, exit: a record and its answer.
Record(letter, n, next) ==
  <<Send(<<<<letter, n>>, Lf>>), Flush, WaitForResponse, Done(next)>>

\* start_sending: the process says that it is there.
StartSending == <<WaitForResponse, Done("ready")>>

\* FileSender::finish.
Finish == <<Send(<<Nul>>), Flush, WaitForResponse, Done("ready")>>

\* start_receiving: nothing is flushed before the answer is awaited.
StartReceiving == <<Send(<<Nul>>), ReadLine>>

\* start_receiving goes on when it has the record.
Received(n) == <<Send(<<Nul>>), Flush, ConsumeLine(n), Done("receiving")>>

\* FileReceiver::receive of the last bytes.
Acknowledge == <<Send(<<Nul>>), Flush, Done("finished")>>

May(m, s) == mode = m /\ stage = s /\ todo = <<>> /\ calls < MaxCalls

Calls(list) ==
  /\ todo' = list /\ calls' = calls + 1
  /\ UNCHANGED <<mode, stage, file, cancels, sent, used, spoiled, server>>
  /\ UNCHANGED bufferVars

CallStartSending == May("send", "new") /\ Calls(StartSending) /\ UNCHANGED <<size, received>>

CallRecord ==
  /\ May("send", "ready")
  /\ \E letter \in Records : Calls(Record(letter, 0, "ready"))
  /\ UNCHANGED <<size, received>>

CallStartSendingFile ==
  /\ May("send", "ready")
  /\ \E n \in Sizes :
       /\ Calls(Record("C", n, "file"))
       /\ size' = n /\ received' = 0

\* FileSender::send: bytes of the file, numbered; no flush.
CallFileSend ==
  /\ May("send", "file") /\ received < size
  /\ \E n \in 1..(size - received) :
       /\ Calls(<<Send([i \in 1..n |-> <<"d", received + i>>]), Done("file")>>)
       /\ received' = received + n
  /\ UNCHANGED size

CallFinish ==
  /\ May("send", "file") /\ received = size
  /\ Calls(Finish)
  /\ UNCHANGED <<size, received>>

CallStartReceiving ==
  /\ May("receive", "new")
  /\ Calls(StartReceiving)
  /\ UNCHANGED <<size, received>>

\* FileReceiver::receive, as long as is_finished() is false.
CallReceive ==
  /\ May("receive", "receiving") /\ received # size + 1
  /\ Calls(<<[do |-> "chunk"]>>)
  /\ UNCHANGED <<size, received>>

-----------------------------------------------------------------------------
(* A call goes on.                                                         *)

Doing(what) == todo # <<>> /\ Head(todo).do = what

\* A flush that ends early forgets how much of its buffer it has sent.
CallUnchanged ==
  /\ spoiled' = (spoiled \/ (pos > 0 /\ pos' = 0 /\ write_buf' # <<>>))
  /\ UNCHANGED <<mode, calls, cancels, server>>

\* `?`: the call returns an error.
Fails == todo' = <<>> /\ stage' = "failed"

\* Channel::send on a channel the session task no longer knows.
Gone == server.phase = "gone"

DoSendFails ==
  /\ (Doing("send") \/ (Doing("flush") /\ ~blocked)) /\ Gone
  /\ BufferCancel /\ Fails
  /\ UNCHANGED <<size, received, file, sent, used>> /\ CallUnchanged

DoSend ==
  /\ Doing("send") /\ ~Gone
  /\ BufferSend(Head(todo).bytes)
  /\ sent' = sent \o Head(todo).bytes
  /\ todo' = Tail(todo)
  /\ UNCHANGED <<stage, size, received, file, used>> /\ CallUnchanged

DoFlush ==
  /\ Doing("flush") /\ ~Gone
  /\ FlushTry
  /\ todo' = IF FlushCompletes THEN Tail(todo) ELSE todo
  /\ UNCHANGED <<stage, size, received, file, sent, used>> /\ CallUnchanged

DoFlushHear ==
  /\ Doing("flush")
  /\ FlushHear
  /\ IF FlushHearFails THEN Fails ELSE UNCHANGED <<todo, stage>>
  /\ UNCHANGED <<size, received, file, sent, used>> /\ CallUnchanged

LineEnd == {i \in DOMAIN read_buf : read_buf[i] = Lf}

\* fill, fill_exact(1), read_line_lf: is there enough in the read buffer?
Enough ==
  \/ (Doing("wait") \/ Doing("chunk")) /\ read_buf # <<>>
  \/ (Doing("line") \/ Doing("message")) /\ LineEnd # {}

DoFill ==
  /\ (Doing("wait") \/ Doing("chunk") \/ Doing("line") \/ Doing("message")) /\ ~Enough
  /\ FillOnce
  /\ IF FillFails THEN Fails ELSE UNCHANGED <<todo, stage>>
  /\ UNCHANGED <<size, received, file, sent, used>> /\ CallUnchanged

Uses(n) ==
  /\ Consume(n)
  /\ used' = used \o SubSeq(read_buf, 1, n)

\* wait_for_response: the code; a refusal has a line to read.
DoWait ==
  /\ Doing("wait") /\ Enough
  /\ Uses(1)
  /\ CASE Zero(Head(read_buf)) -> todo' = Tail(todo) /\ UNCHANGED stage
       [] Head(read_buf)[1] \in {"1", "2"} -> todo' = <<[do |-> "message"]>> /\ UNCHANGED stage
       [] OTHER -> Fails
  /\ UNCHANGED <<size, received, file, sent>> /\ CallUnchanged

\* wait_for_response: Error::Failure, Error::Critical.
DoMessage ==
  /\ Doing("message") /\ Enough
  /\ Uses(Min(LineEnd))
  /\ todo' = <<>> /\ stage' = IF stage = "new" THEN "failed" ELSE "ready"
  /\ UNCHANGED <<size, received, file, sent>> /\ CallUnchanged

\* start_receiving: a C record, or UnexpectedResponse with the line left in the buffer.
DoLine ==
  /\ Doing("line") /\ Enough
  /\ IF Head(read_buf)[1] = "C"
     THEN /\ todo' = Received(Min(LineEnd)) /\ size' = Head(read_buf)[2]
          /\ UNCHANGED stage
     ELSE Fails /\ UNCHANGED size
  /\ UNCHANGED <<received, file, sent, used>> /\ UNCHANGED bufferVars /\ CallUnchanged

DoConsume ==
  /\ Doing("consume")
  /\ Uses(Head(todo).n)
  /\ todo' = Tail(todo)
  /\ UNCHANGED <<stage, size, received, file, sent>> /\ CallUnchanged

\* Mutant: the byte behind the file is handed over as well.
StrippedNot(data) == data

\* The last chunk loses its last byte.
Stripped(data) == SubSeq(data, 1, Len(data) - 1)

\* FileReceiver::receive: all there is; the last chunk ends with a zero and is acknowledged.
DoChunk ==
  /\ Doing("chunk") /\ Enough
  /\ Uses(Len(read_buf))
  /\ received' = received + Len(read_buf)
  /\ IF received' > size + 1 \/ (received' = size + 1 /\ ~Zero(Last(read_buf)))
     THEN Fails /\ UNCHANGED file
     ELSE /\ file' = file \o (IF received' = size + 1 THEN Stripped(read_buf) ELSE read_buf)
          /\ todo' = IF received' = size + 1 THEN Acknowledge ELSE <<>>
          /\ UNCHANGED stage
  /\ UNCHANGED <<size, sent>> /\ CallUnchanged

DoDone ==
  /\ Doing("done")
  /\ stage' = Head(todo).stage /\ todo' = Tail(todo)
  /\ UNCHANGED <<size, received, file, sent, used>> /\ UNCHANGED bufferVars /\ CallUnchanged

\* The future is dropped; the application may go on with the handle, unless the command
\* was not under way yet.
Cancel ==
  /\ todo # <<>> /\ cancels < MaxCancels
  /\ BufferCancel
  /\ todo' = <<>> /\ cancels' = cancels + 1
  /\ spoiled' = (spoiled \/ pos > 0)
  /\ stage' = IF stage = "new" THEN "failed" ELSE stage
  /\ UNCHANGED <<mode, size, received, file, calls, sent, used, server>>

-----------------------------------------------------------------------------
(* The scp process on the server (external).  Every record it reads is     *)
(* answered once.  It gives back the window it has used when it likes.     *)

ServerUnchanged == UNCHANGED scpVars

\* The answer to command number n.
Answers(n) ==
  {<<<<"0", n>>>>} \cup IF Refuses THEN {<<<<"1", n>>, Lf>>, <<<<"2", n>>, Lf>>} ELSE {}

Reads(next) == server' = [next EXCEPT !.got = Append(@, Head(wire)), !.credit = @ + 1]

\* A record of scp -t is complete, or its letter is read.
ServerLine ==
  /\ server.phase = "line" /\ TakeByte
  /\ LET byte == Head(wire) IN
       IF byte # Lf THEN Reads([server EXCEPT !.line = byte])
       ELSE \E answer \in Answers(server.count + 1) :
              Reads([server EXCEPT !.count = @ + 1, !.out = @ \o answer, !.size = server.line[2],
                       !.phase = CASE Head(answer)[1] = "2" -> "leaving"
                                   [] Head(answer)[1] = "0" /\ server.line[1] = "C" -> "data"
                                   [] OTHER -> "line",
                       !.files = IF Head(answer)[1] = "0" /\ server.line[1] = "C"
                                 THEN Append(@, <<>>) ELSE @])
  /\ ServerUnchanged

\* The bytes of a file, then a zero.
ServerData ==
  /\ server.phase = "data" /\ TakeByte
  /\ LET byte == Head(wire)
         n == Len(server.files)
     IN  IF Len(server.files[n]) < server.size
         THEN Reads([server EXCEPT !.files[n] = Append(@, byte)])
         ELSE Reads([server EXCEPT !.count = @ + 1, !.out = Append(@, <<"0", server.count + 1>>),
                       !.phase = "line"])
  /\ ServerUnchanged

\* scp -f: asked to start, asked for the data, told that all is well.
ServerSendsFile ==
  /\ server.phase \in {"start", "record", "last"} /\ TakeByte
  /\ CASE server.phase = "start" ->
            \/ Reads([server EXCEPT !.out = <<<<"C", server.size>>, Lf>>, !.phase = "record"])
            \/ Refuses /\ Reads([server EXCEPT !.out = <<<<"1", 0>>, Lf>>, !.phase = "leaving"])
       [] server.phase = "record" ->
            Reads([server EXCEPT !.phase = "last",
                     !.out = [i \in 1..server.size |-> <<"d", i>>] \o <<Nul>>])
       [] OTHER -> Reads([server EXCEPT !.phase = "leaving"])
  /\ ServerUnchanged

\* Its output arrives in pieces of any length.
ServerSpeaks ==
  /\ \E n \in 1..Len(server.out) :
       /\ Put([type |-> "stdout", data |-> SubSeq(server.out, 1, n)])
       /\ server' = [server EXCEPT !.out = Rest(@, n), !.said = @ \o SubSeq(server.out, 1, n)]
  /\ UNCHANGED window /\ ServerUnchanged

ServerGrants ==
  /\ server.credit > 0 /\ server.phase # "gone"
  /\ Put([type |-> "window"])
  /\ window' = window + server.credit
  /\ server' = [server EXCEPT !.credit = 0]
  /\ ServerUnchanged

ServerLeaves ==
  /\ server.phase = "leaving" /\ server.out = <<>>
  /\ inbox' = inbox \o <<[type |-> "exit"], [type |-> "eof"], [type |-> "close"]>>
  /\ UNCHANGED <<window, wire, write_buf, read_buf, pos, blocked>>
  /\ server' = [server EXCEPT !.phase = "gone"]
  /\ ServerUnchanged

-----------------------------------------------------------------------------

AppCalls ==
  \/ CallStartSending \/ CallRecord \/ CallStartSendingFile \/ CallFileSend \/ CallFinish
  \/ CallStartReceiving \/ CallReceive

Task ==
  \/ DoSend \/ DoSendFails \/ DoFlush \/ DoFlushHear \/ DoFill \/ DoWait \/ DoMessage \/ DoLine \/ DoConsume
  \/ DoChunk \/ DoDone

Server ==
  \/ ServerLine \/ ServerData \/ ServerSendsFile \/ ServerSpeaks \/ ServerGrants \/ ServerLeaves

Next == AppCalls \/ Task \/ Cancel \/ Server

Spec == Init /\ [][Next]_vars

\* The calls run, and the scp process does its part.
FairSpec == Spec /\ WF_vars(Task) /\ WF_vars(Server)

-----------------------------------------------------------------------------
(* Properties.                                                             *)

\* Every byte given to BufferChannel::send is in one place only, and in order: read by the
\* server, accepted, or in the write buffer behind flush's position.  (Once a flush is
\* dropped after a part was sent, it sends that part again.)  The same for every byte the
\* server sends, whether flush or fill was waiting when it came.
InOrder ==
  /\ ~spoiled => server.got \o wire \o Rest(write_buf, pos) = sent
  /\ used \o read_buf \o FlattenSeq([i \in DOMAIN inbox |->
                           IF inbox[i].type = "stdout" THEN inbox[i].data ELSE <<>>])
       = server.said

\* A received file is the server's, a sent one the application's: no byte more or less.
FilesIntact ==
  /\ stage = "finished" => file = [i \in 1..server.size |-> <<"d", i>>]
  /\ stage = "ready" /\ todo = <<>> /\ server.files # <<>> /\ cancels = 0 =>
       LET f == Last(server.files) IN f = [i \in 1..Len(f) |-> <<"d", i>>]

\* A call returns: flush hears of every window the server opens, and nobody waits for the
\* other.  (Not so once a call was dropped: what it should have sent may be missing.)
CallReturns == todo # <<>> ~> todo = <<>> \/ cancels > 0
=============================================================================
