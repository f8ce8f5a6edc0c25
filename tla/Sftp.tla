-------------------------------- MODULE Sftp --------------------------------
(***************************************************************************)
(* The SFTP client over a BufferChannel.  A call of sftp::Handle is the    *)
(* list of BufferChannel calls it makes; one application task makes the    *)
(* calls one after the other, and may drop one in the middle.              *)
(*                                                                         *)
(* A packet is two bytes: the first stands for its length, the second for  *)
(* the rest, so it can be cut in two wherever that matters.                *)
(***************************************************************************)
EXTENDS BufferChannel

CONSTANTS
  Window,       \* the server's initial window
  IdSpace,      \* request identifiers are counted modulo this, 2^32 in the code
  Extensions,   \* sets of extensions a server may announce
  Odd,          \* replies that do not fit, or cannot be parsed, which a server may send
  MaxCalls,     \* bound: calls of the application
  MaxCancels    \* bound: futures dropped in the middle

ASSUME SftpAssumption ==
  /\ Window \in Nat /\ IdSpace \in Nat \ {0} /\ MaxCalls \in Nat /\ MaxCancels \in Nat
  /\ Odd \subseteq {"ok", "unfit", "unparsable", "huge"}

VARIABLES
  todo,         \* what the call in progress has still to do
  stage,        \* "new", then "ready"; "failed" when the channel cannot be used
  request_id, extensions,   \* Handle
  cursor,       \* File::pos of the application's file
  calls, cancels,   \* calls made, calls dropped
  last,         \* History: what the last call returned, and the call whose reply decided
  known,        \* History: the file up to the cursor, as the application wrote or read it
  server        \* External: the sftp-server process

sftpVars == <<todo, stage, request_id, extensions, cursor, calls, cancels, last, known>>
vars == <<bufferVars, sftpVars, server>>

\* External: the process has read nothing and has a file of one byte.
Init ==
  /\ BufferInit(Window)
  /\ todo = <<>> /\ stage = "new" /\ request_id = 0 /\ extensions = {}
  /\ cursor = 0 /\ calls = 0 /\ cancels = 0 /\ last = [call |-> 0, result |-> "none", from |-> 0] /\ known = <<>>
  /\ \E exts \in Extensions :
       server = [exts |-> exts, phase |-> "serving", part |-> <<>>, out |-> <<>>,
                 credit |-> 0, content |-> <<0>>]

-----------------------------------------------------------------------------
(* The operations: what each takes for an answer, the extension it is part *)
(* of, and its effect on the file.  The answer is a status; or a value (a  *)
(* handle, a name, attributes, an extended reply), where a status is an    *)
(* error; or a list or data, where OK means an empty one; or a value and   *)
(* no status at all ("only").                                              *)

Op(reply, ext, effect) == [reply |-> reply, ext |-> ext, effect |-> effect]

posix_rename == Op("status", "posix-rename", "none")
statvfs == Op("value", "statvfs", "none")
fstatvfs == Op("value", "fstatvfs", "none")
hardlink == Op("status", "hardlink", "none")
fsync == Op("status", "fsync", "none")
lsetstat == Op("status", "lsetstat", "none")
limits == Op("only", "limits", "none")
expand_path == Op("value", "expand-path", "none")
copy_data == Op("status", "copy-data", "none")
home_directory == Op("value", "home-directory", "none")
users_groups_by_id == Op("value", "users-groups-by-id", "none")
symlink == Op("status", "none", "none")
readlink == Op("value", "none", "none")
rename == Op("status", "none", "none")
realpath == Op("value", "none", "none")
rmdir == Op("status", "none", "none")
mkdir == Op("status", "none", "none")
remove_file == Op("status", "none", "none")
close_file == Op("status", "none", "none")
open_file == Op("value", "none", "none")
read_file == Op("list", "none", "read")
write_file == Op("status", "none", "write")
open_directory == Op("value", "none", "none")
read_directory == Op("list", "none", "none")
set_status == Op("status", "none", "none")
status == Op("value", "none", "none")

Ops ==
  {posix_rename, statvfs, fstatvfs, hardlink, fsync, lsetstat, limits, expand_path, copy_data,
   home_directory, users_groups_by_id, symlink, readlink, rename, realpath, rmdir, mkdir,
   remove_file, close_file, open_file, read_file, write_file, open_directory, read_directory,
   set_status, status}

\* Handle::supported: what debug_assert! asks of the caller.
Supported(op) == op.ext = "none" \/ op.ext \in extensions

Statuses == {"ok", "eof", "failure"}

\* Status::to_result.
ToResult(code) == IF code = "ok" THEN "done" ELSE code

\* Status::to_error: OK is no answer where something is asked for.
ToError(code) == IF code = "ok" THEN "unexpected" ELSE code

\* What a call makes of the payload of its reply; "asked" is a payload of the kind it
\* asked for.
Outcome(reply, payload) ==
  CASE payload \in Statuses /\ reply \in {"status", "list"} -> ToResult(payload)
    [] payload \in Statuses /\ reply = "value" -> ToError(payload)
    [] payload = "asked" /\ reply # "status" -> "done"
    [] OTHER -> "unexpected"

-----------------------------------------------------------------------------
(* The calls.                                                              *)

Version == [reply |-> "version", effect |-> "none"]

Send(packet) == [do |-> "send", bytes |-> packet]
Flush == [do |-> "flush"]
Receive(id, op) == [do |-> "head", id |-> id, op |-> op]

\* A request: its identifier, the operation, the offset, and the call, whose number is also
\* the byte that write_file writes.
RequestByte(part, id, call, op, at) ==
  [part |-> part, id |-> id, call |-> call, op |-> op, at |-> at]

Request(id, op) ==
  <<RequestByte(1, id, calls + 1, op, cursor), RequestByte(2, id, calls + 1, op, cursor)>>

Calls(list) ==
  /\ todo' = list /\ calls' = calls + 1
  /\ UNCHANGED <<stage, extensions, cursor, cancels, last, known, server>>
  /\ UNCHANGED bufferVars

\* Handle::handshake: INIT has no identifier.
CallHandshake ==
  /\ stage = "new" /\ todo = <<>>
  /\ Calls(<<Send(Request(0, Version)), Flush, Receive(0, Version)>>)
  /\ UNCHANGED request_id

\* next_request_id.
NextRequestId == (request_id + 1) % IdSpace

\* Every method of Handle: request, flush, the reply.  (The application is told not to use
\* an extension the server does not have.)
CallOp ==
  /\ stage = "ready" /\ todo = <<>> /\ calls < MaxCalls
  /\ request_id' = NextRequestId
  /\ \E op \in Ops :
       /\ Supported(op)
       /\ LET kind == [reply |-> op.reply, effect |-> op.effect] IN
            Calls(<<Send(Request(request_id', kind)), Flush, Receive(request_id', kind)>>)

\* File::backward: the application goes back in its file.
AppBackward ==
  /\ stage = "ready" /\ todo = <<>> /\ cursor > 0
  /\ cursor' = cursor - 1
  /\ known' = SubSeq(known, 1, cursor - 1)
  /\ UNCHANGED <<todo, stage, request_id, extensions, calls, cancels, last, server>>
  /\ UNCHANGED bufferVars

Doing(what) == todo # <<>> /\ Head(todo).do = what

CallUnchanged == UNCHANGED <<request_id, calls, cancels, server>>

\* The call returns; from is the call whose reply was used.
Returns(result, from) ==
  /\ todo' = <<>>
  /\ last' = [call |-> calls, result |-> result, from |-> from]

\* The channel is closed, or the session task does not know it any more.
Breaks ==
  /\ Returns("broken", 0) /\ stage' = "failed"
  /\ UNCHANGED <<extensions, cursor, known>> /\ CallUnchanged

Gone == server.phase = "gone"

DoSendFails ==
  /\ (Doing("send") \/ (Doing("flush") /\ ~blocked)) /\ Gone
  /\ BufferCancel
  /\ Breaks

DoSend ==
  /\ Doing("send") /\ ~Gone
  /\ BufferSend(Head(todo).bytes)
  /\ todo' = Tail(todo)
  /\ UNCHANGED <<stage, extensions, cursor, last, known>> /\ CallUnchanged

DoFlush ==
  /\ Doing("flush") /\ ~Gone
  /\ FlushTry
  /\ todo' = IF FlushCompletes THEN Tail(todo) ELSE todo
  /\ UNCHANGED <<stage, extensions, cursor, last, known>> /\ CallUnchanged

DoFlushHear ==
  /\ Doing("flush")
  /\ FlushHear
  /\ IF FlushHearFails THEN Breaks
     ELSE UNCHANGED <<todo, stage, extensions, cursor, last, known>> /\ CallUnchanged

\* Mutant: the length is counted twice.
NeedsMore == IF Doing("head") THEN 1 ELSE 3

\* fill_exact(4), then fill_exact(len + 4).
Needs == IF Doing("head") THEN 1 ELSE 2

DoFill ==
  /\ Doing("head") \/ Doing("body")
  /\ Len(read_buf) < Needs
  /\ FillOnce
  /\ IF FillFails THEN Breaks
     ELSE UNCHANGED <<todo, stage, extensions, cursor, last, known>> /\ CallUnchanged

\* The length of the packet: more than MAX_PACKET_SIZE is an error, nothing is consumed.
DoHead ==
  /\ Doing("head") /\ Len(read_buf) >= Needs
  /\ IF Head(read_buf).payload = "huge"
     THEN /\ Returns("unexpected", Head(read_buf).call)
          /\ stage' = IF stage = "new" THEN "failed" ELSE stage
     ELSE /\ todo' = <<[Head(todo) EXCEPT !.do = "body"]>>
          /\ UNCHANGED <<stage, last>>
  /\ UNCHANGED <<extensions, cursor, known>> /\ UNCHANGED bufferVars /\ CallUnchanged

\* Handle::handshake: anything but VERSION is an error, and the channel is dropped.
DoVersion ==
  /\ Doing("body") /\ Head(todo).op = Version /\ Len(read_buf) >= Needs
  /\ IF Head(read_buf).payload = "version"
     THEN /\ Consume(2)
          /\ extensions' = Head(read_buf).exts
          /\ Returns("done", Head(read_buf).call) /\ stage' = "ready"
     ELSE /\ Returns("unexpected", Head(read_buf).call) /\ stage' = "failed"
          /\ UNCHANGED extensions /\ UNCHANGED bufferVars
  /\ UNCHANGED <<cursor, known>> /\ CallUnchanged

\* Mutant: a reply is the call's whoever's it is.
IsOursAny(msg) == TRUE

\* receive_msg: msg.id == request_id.
IsOurs(msg) == msg.id = Head(todo).id

\* Mutant: the cursor moves before the status is looked at.
ForwardsBlindly(effect, result) == effect = "write" \/ (effect = "read" /\ result = "done")

\* File::forward.
Forwards(effect, result) == effect \in {"read", "write"} /\ result = "done"

\* receive_msg and the method's match: a reply that cannot be parsed stays in the buffer.
DoBody ==
  /\ Doing("body") /\ Head(todo).op # Version /\ Len(read_buf) >= Needs
  /\ LET msg == Head(read_buf)
         op == Head(todo).op
         result == Outcome(op.reply, msg.payload)
         data == IF op.effect = "write" THEN <<calls>> ELSE msg.data
     IN  IF msg.payload = "unparsable"
         THEN /\ Returns("unparsable", msg.call)
              /\ UNCHANGED <<cursor, known>> /\ UNCHANGED bufferVars
         ELSE /\ Consume(2)
              /\ Returns(IF IsOurs(msg) THEN result ELSE "mismatch", msg.call)
              /\ IF IsOurs(msg) /\ Forwards(op.effect, result)
                 THEN /\ cursor' = cursor + Len(data)
                      /\ known' = known \o data
                 ELSE UNCHANGED <<cursor, known>>
  /\ UNCHANGED <<stage, extensions>> /\ CallUnchanged

\* The future is dropped: in the middle of the handshake the handle with it.
Cancel ==
  /\ todo # <<>> /\ cancels < MaxCancels
  /\ BufferCancel
  /\ todo' = <<>> /\ cancels' = cancels + 1
  /\ stage' = IF stage = "new" THEN "failed" ELSE stage
  /\ UNCHANGED <<request_id, extensions, cursor, calls, last, known, server>>

-----------------------------------------------------------------------------
(* The sftp-server process (external).  It answers in order, one reply to  *)
(* a request; a stream it cannot read makes it leave.                      *)

ServerUnchanged == UNCHANGED sftpVars

\* The payloads that answer a request.
Fitting(op) ==
  CASE op = Version -> {"version"}
    [] op.reply = "status" -> {"ok", "failure"}
    [] OTHER -> {"asked", "failure"}

\* A reply; read_file gets one byte.
ReplyByte(part, msg, payload) ==
  [part |-> part, id |-> msg.id, call |-> msg.call, payload |-> payload,
   data |-> IF msg.op.effect = "read" /\ payload = "asked"
            THEN <<server.content[msg.at + 1]>> ELSE <<>>,
   exts |-> IF msg.op = Version THEN server.exts ELSE {}]

ServerReply(msg, payload) == <<ReplyByte(1, msg, payload), ReplyByte(2, msg, payload)>>

ServerReads ==
  /\ server.phase = "serving" /\ TakeByte
  /\ LET byte == Head(wire) IN
       CASE server.part = <<>> /\ byte.part = 1 ->
              server' = [server EXCEPT !.part = <<byte>>, !.credit = @ + 1]
         [] server.part # <<>> /\ byte = [Head(server.part) EXCEPT !.part = 2] ->
              \E payload \in Fitting(byte.op) \cup Odd \cup
                   (IF byte.op.effect = "read" /\ byte.at >= Len(server.content) THEN {"eof"} ELSE {}) :
                /\ byte.op.effect = "read" /\ payload = "asked" => byte.at < Len(server.content)
                /\ server' = [server EXCEPT !.part = <<>>, !.credit = @ + 1,
                                !.out = @ \o ServerReply(byte, payload),
                                !.content = IF byte.op.effect = "write" /\ payload = "ok"
                                            THEN SubSeq(@, 1, byte.at) \o <<byte.call>>
                                                 \o SubSeq(@, byte.at + 2, Len(@))
                                            ELSE @]
         [] OTHER -> server' = [server EXCEPT !.phase = "leaving"]
  /\ ServerUnchanged

ServerSpeaks ==
  /\ \E n \in 1..Len(server.out) :
       /\ Put([type |-> "stdout", data |-> SubSeq(server.out, 1, n)])
       /\ server' = [server EXCEPT !.out = Rest(@, n)]
  /\ UNCHANGED window /\ ServerUnchanged

\* It gives back the window of what it has read.
ServerGrants ==
  /\ server.credit > 0 /\ server.phase = "serving"
  /\ Put([type |-> "window"])
  /\ window' = window + server.credit
  /\ server' = [server EXCEPT !.credit = 0]
  /\ ServerUnchanged

\* What it has written has gone out; the channel is closed.
ServerExits ==
  /\ server.out = <<>>
  /\ inbox' = inbox \o <<[type |-> "exit"], [type |-> "eof"], [type |-> "close"]>>
  /\ UNCHANGED <<window, wire, write_buf, read_buf, pos, blocked>>
  /\ server' = [server EXCEPT !.phase = "gone"]
  /\ ServerUnchanged

ServerLeaves == server.phase = "leaving" /\ ServerExits

\* Of its own accord, which it need never do.
ServerQuits == server.phase = "serving" /\ ServerExits

-----------------------------------------------------------------------------

Task ==
  \/ DoSend \/ DoSendFails \/ DoFlush \/ DoFlushHear \/ DoFill \/ DoHead \/ DoVersion \/ DoBody

Server == ServerReads \/ ServerSpeaks \/ ServerGrants \/ ServerLeaves

Next == CallHandshake \/ CallOp \/ AppBackward \/ Task \/ Cancel \/ Server \/ ServerQuits

Spec == Init /\ [][Next]_vars

\* A call runs, and the server answers or, once it leaves, closes the channel.
FairSpec == Spec /\ WF_vars(Task) /\ WF_vars(Server)

-----------------------------------------------------------------------------
(* Properties.                                                             *)

\* A call that succeeds, or reports what the server said, has been answered itself: the
\* replies to calls that were dropped are never taken for its own.  (MaxCalls is such that
\* no identifier is used again while the reply to its first use may be unread: 2^32 calls.)
AnswerIsOwn == last.result \in {"done", "eof", "failure"} => last.from = last.call

\* Up to the cursor the file on the server is what the application has written or read.
CursorRight ==
  /\ cursor = Len(known)
  /\ known = SubSeq(server.content, 1, cursor)

\* Every call returns, also after others were dropped and whatever was left unread.
CallReturns == todo # <<>> ~> todo = <<>>
=============================================================================
