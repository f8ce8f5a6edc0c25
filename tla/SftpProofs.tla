----------------------------- MODULE SftpProofs -----------------------------
(***************************************************************************)
(* For any window, extensions and odd replies, and however many calls are  *)
(* dropped: a call of sftp::Handle that succeeds was answered itself, and  *)
(* up to its cursor the file on the server is what the application knows.  *)
(* Both hold as long as no identifier is used twice (FewCalls).            *)
(*                                                                         *)
(* A dropped call leaves its request and its reply behind, and a dropped   *)
(* flush sends bytes again.  So the invariant is about all bytes there     *)
(* are: a request left behind touches nothing before the cursor, because   *)
(* the cursor moves on only with the reply to the call in progress, and    *)
(* when there is one no request is left.                                   *)
(***************************************************************************)
EXTENDS Sftp, SequenceTheorems, TLAPS

\* No identifier is used twice: 2^32 calls.
FewCalls == MaxCalls <= IdSpace

-----------------------------------------------------------------------------
(* The inductive invariant.                                                *)

Kinds ==
  {kind \in [reply : {"version", "status", "value", "list", "only"}, effect : {"none", "read", "write"}] :
     /\ kind.effect = "write" => kind.reply = "status"
     /\ kind.effect = "read" => kind.reply = "list"}

Requests == [part : {1, 2}, id : Nat, call : Nat, op : Kinds, at : Nat]

Payloads == {"version", "ok", "eof", "failure", "asked"} \cup Odd

Replies ==
  [part : {1, 2}, id : Nat, call : Nat, payload : Payloads, data : Seq(Nat),
   exts : Extensions \cup {{}}]

Messages ==
  [type : {"stdout"}, data : Seq(Replies)] \cup [type : {"window", "exit", "eof", "close"}]

TypeOK ==
  /\ window \in Nat /\ wire \in Seq(Requests) /\ inbox \in Seq(Messages)
  /\ write_buf \in Seq(Requests) /\ read_buf \in Seq(Replies)
  /\ pos \in 0..Len(write_buf) /\ blocked \in BOOLEAN
  /\ stage \in {"new", "ready", "failed"} /\ request_id \in Nat
  /\ cursor \in Nat /\ calls \in Nat /\ known \in Seq(Nat)
  /\ server \in [exts : Extensions, phase : {"serving", "leaving", "gone"},
                 part : Seq(Requests), out : Seq(Replies), credit : Nat, content : Seq(Nat)]

\* The operation of the call in progress, and the request it makes.
Asked == todo[Len(todo)].op

OwnBytes ==
  <<RequestByte(1, calls - 1, calls, Asked, cursor), RequestByte(2, calls - 1, calls, Asked, cursor)>>

\* The call in progress is at one of its steps; its identifier is its number less one.
AtStep ==
  LET receive == Receive(calls - 1, Asked) IN
  \/ todo = <<Send(OwnBytes), Flush, receive>>
  \/ todo = <<Flush, receive>>
  \/ todo = <<receive>>
  \/ todo = <<[receive EXCEPT !.do = "body"]>>

CallsInStep ==
  /\ todo # <<>> => calls > 0 /\ Asked \in Kinds /\ AtStep /\ (Asked = Version <=> stage = "new")
  /\ stage = "new" => request_id = 0 /\ calls = IF todo = <<>> THEN 0 ELSE 1
  /\ stage # "new" => calls > 0
  /\ calls > 0 => request_id = calls - 1
  /\ ~Doing("flush") => pos = 0

\* The bytes of requests that the server has not acted upon, and those of its replies that
\* the client has not consumed.
Pending == Range(write_buf) \cup Range(wire) \cup Range(server.part)

Said(msg) == IF msg.type = "stdout" THEN Range(msg.data) ELSE {}

Answers == Range(read_buf) \cup Range(server.out) \cup UNION {Said(msg) : msg \in Range(inbox)}

\* A request not acted upon yet is about the file from the cursor on; the last call's is the
\* one that the call in progress has made.
GoodRequest(b) ==
  /\ b.call > 0 /\ b.call <= calls /\ b.id = b.call - 1
  /\ b.at >= cursor /\ b.at <= Len(server.content)
  /\ b.call = calls /\ todo # <<>> => b.op = Asked /\ b.at = cursor /\ ~Doing("send")

\* No request is left.
Quiet == wire = <<>> /\ write_buf = <<>> /\ server.part = <<>>

\* What the reply says of the file is so.
Told(r) ==
  /\ Asked.effect = "write" /\ r.payload = "ok" =>
       cursor < Len(server.content) /\ server.content[cursor + 1] = calls
  /\ Asked.effect = "read" =>
       \/ r.data = <<>>
       \/ cursor < Len(server.content) /\ r.data = <<server.content[cursor + 1]>>

\* When the last call is answered no request is left, and its reply says what the file is
\* like.
GoodReply(r) ==
  /\ r.call > 0 /\ r.call <= calls /\ r.id = r.call - 1
  /\ r.call = calls => Quiet
  /\ r.call = calls /\ todo # <<>> => ~Doing("send") /\ Told(r)

PendingGood == \A b \in Pending : GoodRequest(b)

AnswersGood == \A r \in Answers : GoodReply(r)

\* The last byte of the last call's request comes last.
LastIsLast ==
  /\ \A i \in DOMAIN wire :
       wire[i].part = 2 /\ wire[i].call = calls => i = Len(wire) /\ write_buf = <<>>
  /\ \A i \in DOMAIN write_buf :
       write_buf[i].part = 2 /\ write_buf[i].call = calls => i = Len(write_buf)
  /\ \A b \in Range(server.part) : b.part = 1

\* CursorRight, byte by byte.
FileKnown ==
  /\ cursor = Len(known) /\ cursor <= Len(server.content)
  /\ \A i \in 1..cursor : known[i] = server.content[i]

SftpInv ==
  /\ TypeOK /\ CallsInStep
  /\ PendingGood /\ AnswersGood /\ LastIsLast /\ FileKnown /\ AnswerIsOwn

-----------------------------------------------------------------------------
(* Sequences, operations and steps.                                        *)

\* The elements of a part of a sequence are elements of it.
LEMMA PartOf ==
  ASSUME NEW S, NEW s \in Seq(S), NEW m \in Nat, m > 0, NEW n \in Nat, n <= Len(s)
  PROVE  /\ SubSeq(s, m, n) \in Seq(S) /\ Range(SubSeq(s, m, n)) \subseteq Range(s)
         /\ Len(SubSeq(s, m, n)) = IF m <= n THEN n - m + 1 ELSE 0
         /\ \A i \in 1..Len(SubSeq(s, m, n)) : SubSeq(s, m, n)[i] = s[m + i - 1]
<1>1. \A i \in m..n : i \in 1..Len(s)
  BY LenProperties
<1>2. \A i \in m..n : s[i] \in S
  BY <1>1, ElementOfSeq
<1> DEFINE t == SubSeq(s, m, n)
<1>3. /\ t \in Seq(S) /\ Len(t) = IF m <= n THEN n - m + 1 ELSE 0
      /\ \A i \in 1..n - m + 1 : t[i] = s[m + i - 1]
  BY <1>2, SubSeqProperties
<1> HIDE DEF t
<1>4. Len(t) \in Nat
  BY <1>3, LenProperties
<1>5. \A i \in 1..Len(t) : i \in 1..n - m + 1 /\ m + i - 1 \in 1..Len(s) /\ t[i] = s[m + i - 1]
  BY <1>3, <1>4, LenProperties
<1>6. DOMAIN t = 1..Len(t) /\ DOMAIN s = 1..Len(s)
  BY <1>3, LenProperties
<1>7. Range(t) \subseteq Range(s)
  BY <1>5, <1>6 DEF Range
<1> QED
  BY <1>3, <1>5, <1>7 DEF t

\* The first element, and the others.
LEMMA HeadAndTail ==
  ASSUME NEW S, NEW s \in Seq(S), s # <<>>
  PROVE  /\ Head(s) \in S /\ Head(s) \in Range(s) /\ Head(s) = s[1]
         /\ Tail(s) \in Seq(S) /\ Range(Tail(s)) \subseteq Range(s)
         /\ Len(s) > 0 /\ Len(Tail(s)) = Len(s) - 1
         /\ \A i \in 1..Len(Tail(s)) : Tail(s)[i] = s[i + 1]
<1> DEFINE t == Tail(s)
<1>1. /\ Head(s) \in S /\ t \in Seq(S) /\ Len(t) = Len(s) - 1
      /\ \A i \in 1..Len(t) : t[i] = s[i + 1]
  BY HeadTailProperties
<1>2. Len(s) \in Nat /\ Len(s) > 0 /\ DOMAIN s = 1..Len(s)
  BY EmptySeq, LenProperties
<1>3. Head(s) = s[1]
  OBVIOUS
<1> HIDE DEF t
<1>4. DOMAIN t = 1..Len(t)
  BY <1>1, LenProperties
<1>5. \A i \in 1..Len(t) : i + 1 \in 1..Len(s)
  BY <1>1, <1>2
<1>6. Range(t) \subseteq Range(s)
  BY <1>1, <1>2, <1>4, <1>5 DEF Range
<1>7. Head(s) \in Range(s)
  BY <1>2, <1>3 DEF Range
<1> QED
  BY <1>1, <1>2, <1>3, <1>6, <1>7 DEF t

\* The elements of a sequence, of an empty one, and of one or two elements.
LEMMA Elements ==
  /\ Range(<<>>) = {}
  /\ \A a : Range(<<a>>) = {a}
  /\ \A a, b : Range(<<a, b>>) = {a, b}
  /\ \A a, b, c : Range(<<a, b, c>>) = {a, b, c}
<1>1. Range(<<>>) = {}
  BY DEF Range
<1>2. ASSUME NEW a PROVE Range(<<a>>) = {a}
  BY DEF Range
<1>3. ASSUME NEW a, NEW b PROVE Range(<<a, b>>) = {a, b}
  <2>1. DOMAIN <<a, b>> = {1, 2}
    OBVIOUS
  <2> QED BY <2>1 DEF Range
<1>4. ASSUME NEW a, NEW b, NEW c PROVE Range(<<a, b, c>>) = {a, b, c}
  <2>1. DOMAIN <<a, b, c>> = {1, 2, 3}
    OBVIOUS
  <2> QED BY <2>1 DEF Range
<1> QED
  BY <1>1, <1>2, <1>3, <1>4

\* What Channel::send accepts.
LEMMA AcceptedFacts ==
  ASSUME NEW S, NEW data \in Seq(S), window \in Nat
  PROVE  Accepted(data) \in Nat /\ Accepted(data) <= Len(data) /\ Accepted(data) <= window
<1>1. Len(data) \in Nat
  BY LenProperties
<1>2. \E x \in {Len(data), window} : \A y \in {Len(data), window} : x <= y
  BY <1>1
<1>3. /\ Accepted(data) \in {Len(data), window}
      /\ \A y \in {Len(data), window} : Accepted(data) <= y
  BY <1>2 DEF Accepted, Min
<1> QED
  BY <1>1, <1>3

\* Every operation is of one of the Kinds, and none is the handshake.
LEMMA OpsKinds ==
  ASSUME NEW op \in Ops
  PROVE  [reply |-> op.reply, effect |-> op.effect] \in Kinds \ {Version}
<1>1. /\ op.reply \in {"status", "value", "list", "only"} /\ op.effect \in {"none", "read", "write"}
      /\ op.effect = "write" => op.reply = "status"
      /\ op.effect = "read" => op.reply = "list"
  BY DEF Ops, Op, posix_rename, statvfs, fstatvfs, hardlink, fsync, lsetstat, limits, expand_path,
         copy_data, home_directory, users_groups_by_id, symlink, readlink, rename, realpath, rmdir,
         mkdir, remove_file, close_file, open_file, read_file, write_file, open_directory,
         read_directory, set_status, status
<1> DEFINE kind == [reply |-> op.reply, effect |-> op.effect]
<1>2. kind.reply = op.reply /\ kind.effect = op.effect
  OBVIOUS
<1>3. kind # Version
  BY <1>1, <1>2 DEF Version
<1> QED
  BY <1>1, <1>2, <1>3 DEF Kinds

\* The handshake is of one of the Kinds too.
LEMMA VersionKind == Version \in Kinds /\ Version.effect = "none"
BY DEF Version, Kinds

\* What a call has to do when it is made.
LEMMA FullList ==
  ASSUME NEW l, NEW bytes, NEW id, NEW op, l = <<Send(bytes), Flush, Receive(id, op)>>
  PROVE  /\ l # <<>> /\ Head(l).do = "send" /\ Head(l).bytes = bytes
         /\ Tail(l) = <<Flush, Receive(id, op)>> /\ l[Len(l)].op = op
BY DEF Send, Flush, Receive

\* What the call in progress does next.
LEMMA NextStep ==
  ASSUME CallsInStep, todo # <<>>
  PROVE  /\ calls > 0 /\ Asked \in Kinds /\ (Asked = Version <=> stage = "new")
         /\ Head(todo).do \in {"send", "flush", "head", "body"}
         /\ Doing("send") => Head(todo).bytes = OwnBytes /\ Tail(todo) = <<Flush, Receive(calls - 1, Asked)>>
         /\ Doing("flush") => Tail(todo) = <<Receive(calls - 1, Asked)>>
         /\ Doing("head") => Head(todo) = Receive(calls - 1, Asked)
         /\ Doing("body") => Head(todo).id = calls - 1 /\ Head(todo).op = Asked
<1>1. calls > 0 /\ Asked \in Kinds /\ AtStep /\ (Asked = Version <=> stage = "new")
  BY DEF CallsInStep
<1> DEFINE receive == Receive(calls - 1, Asked)
<1>2. CASE todo = <<Send(OwnBytes), Flush, receive>>
  <2>1. Head(todo).do = "send" /\ Head(todo).bytes = OwnBytes /\ Tail(todo) = <<Flush, receive>>
    BY <1>2, FullList
  <2> QED BY <1>1, <2>1 DEF Doing
<1>3. CASE todo = <<Flush, receive>>
  <2>1. Head(todo).do = "flush" /\ Tail(todo) = <<receive>>
    BY <1>3 DEF Flush
  <2> QED BY <1>1, <2>1 DEF Doing
<1>4. CASE todo = <<receive>>
  <2>1. Head(todo).do = "head" /\ Head(todo) = receive
    BY <1>4 DEF Receive
  <2> QED BY <1>1, <2>1 DEF Doing
<1>5. CASE todo = <<[receive EXCEPT !.do = "body"]>>
  <2>1. Head(todo).do = "body" /\ Head(todo).id = calls - 1 /\ Head(todo).op = Asked
    BY <1>5 DEF Receive
  <2> QED BY <1>1, <2>1 DEF Doing
<1> QED
  BY <1>1, <1>2, <1>3, <1>4, <1>5 DEF AtStep

\* What there is to say of a list when it is made.
LEMMA NowAt ==
  ASSUME NEW op
  PROVE  /\ todo' = <<Send(<<RequestByte(1, calls' - 1, calls', op, cursor'),
                             RequestByte(2, calls' - 1, calls', op, cursor')>>),
                      Flush, Receive(calls' - 1, op)>> =>
              todo' # <<>> /\ Asked' = op /\ AtStep' /\ ~Doing("flush")'
         /\ todo' = <<Flush, Receive(calls' - 1, op)>> =>
              todo' # <<>> /\ Asked' = op /\ AtStep' /\ ~Doing("send")'
         /\ todo' = <<Receive(calls' - 1, op)>> =>
              todo' # <<>> /\ Asked' = op /\ AtStep' /\ ~Doing("send")' /\ ~Doing("flush")'
         /\ todo' = <<[Receive(calls' - 1, op) EXCEPT !.do = "body"]>> =>
              todo' # <<>> /\ Asked' = op /\ AtStep' /\ ~Doing("send")' /\ ~Doing("flush")'
<1> DEFINE bytes == <<RequestByte(1, calls' - 1, calls', op, cursor'),
                      RequestByte(2, calls' - 1, calls', op, cursor')>>
           receive == Receive(calls' - 1, op)
<1>1. ASSUME todo' = <<Send(bytes), Flush, receive>>
      PROVE  todo' # <<>> /\ Asked' = op /\ AtStep' /\ ~Doing("flush")'
  <2>1. todo' # <<>> /\ Head(todo').do = "send" /\ todo'[Len(todo')].op = op
    BY <1>1, FullList
  <2>2. Asked' = op
    BY <2>1 DEF Asked
  <2>3. OwnBytes' = bytes
    BY <2>2 DEF OwnBytes, RequestByte
  <2> QED
    BY <1>1, <2>1, <2>2, <2>3 DEF AtStep, Doing
<1>2. ASSUME todo' = <<Flush, receive>>
      PROVE  todo' # <<>> /\ Asked' = op /\ AtStep' /\ ~Doing("send")'
  <2>1. todo' # <<>> /\ Head(todo').do = "flush" /\ todo'[Len(todo')].op = op
    BY <1>2 DEF Flush, Receive
  <2> QED
    BY <1>2, <2>1 DEF AtStep, Doing, Asked
<1>3. ASSUME todo' = <<receive>>
      PROVE  todo' # <<>> /\ Asked' = op /\ AtStep' /\ ~Doing("send")' /\ ~Doing("flush")'
  <2>1. todo' # <<>> /\ Head(todo').do = "head" /\ todo'[Len(todo')].op = op
    BY <1>3 DEF Receive
  <2> QED
    BY <1>3, <2>1 DEF AtStep, Doing, Asked
<1>4. ASSUME todo' = <<[receive EXCEPT !.do = "body"]>>
      PROVE  todo' # <<>> /\ Asked' = op /\ AtStep' /\ ~Doing("send")' /\ ~Doing("flush")'
  <2>1. todo' # <<>> /\ Head(todo').do = "body" /\ todo'[Len(todo')].op = op
    BY <1>4 DEF Receive
  <2> QED
    BY <1>4, <2>1 DEF AtStep, Doing, Asked
<1> QED
  BY <1>1, <1>2, <1>3, <1>4

-----------------------------------------------------------------------------
(* What a step leaves as it is.                                            *)

\* The call goes on, or there is none any more.
Continues == todo' = <<>> \/ (todo # <<>> /\ Asked' = Asked /\ (Doing("send")' => Doing("send")))

\* Requests and replies stay good when neither the file nor the cursor moves.
LEMMA GoodKept ==
  ASSUME calls' = calls, cursor' = cursor, server'.content = server.content, Continues,
         Quiet => Quiet'
  PROVE  /\ \A b : GoodRequest(b) => GoodRequest(b)'
         /\ \A r : GoodReply(r) => GoodReply(r)'
<1>1. ASSUME NEW b, GoodRequest(b) PROVE GoodRequest(b)'
  BY <1>1 DEF GoodRequest, Continues
<1>2. ASSUME NEW r, GoodReply(r) PROVE GoodReply(r)'
  <2>1. r.call = calls /\ todo' # <<>> => ~Doing("send")' /\ Told(r)'
    BY <1>2 DEF GoodReply, Continues, Told
  <2> QED
    BY <1>2, <2>1 DEF GoodReply
<1> QED
  BY <1>1, <1>2

\* A call that is at no new step.
LEMMA SameStep ==
  ASSUME CallsInStep, UNCHANGED <<todo, calls, cursor, stage, request_id, pos>>
  PROVE  CallsInStep' /\ Continues
<1>1. Asked' = Asked /\ Doing("send")' = Doing("send") /\ Doing("flush")' = Doing("flush")
  BY DEF Asked, Doing
<1>2. AtStep' = AtStep
  BY <1>1 DEF AtStep, OwnBytes
<1> QED
  BY <1>1, <1>2 DEF CallsInStep, Continues

\* A call that ends.
LEMMA CallEnds ==
  ASSUME CallsInStep, todo # <<>>, todo' = <<>>, pos' = 0, UNCHANGED <<calls, request_id>>,
         stage' # "new"
  PROVE  CallsInStep' /\ Continues
<1>1. ~Doing("flush")'
  BY DEF Doing
<1>2. calls > 0 /\ request_id = calls - 1
  BY DEF CallsInStep
<1> QED
  BY <1>1, <1>2 DEF CallsInStep, Continues

\* A call that goes on.
LEMMA CallGoesOn ==
  ASSUME CallsInStep, todo # <<>>, UNCHANGED <<calls, request_id, stage>>,
         todo' # <<>>, Asked' = Asked, AtStep', ~Doing("send")', ~Doing("flush")' => pos' = 0
  PROVE  CallsInStep' /\ Continues
BY DEF CallsInStep, Continues

\* The file and what the application knows of it.
LEMMA FileKept ==
  ASSUME FileKnown, server'.content = server.content, UNCHANGED <<cursor, known>>
  PROVE  FileKnown'
BY DEF FileKnown

\* The requests under way.
LEMMA RequestsKept ==
  ASSUME UNCHANGED <<wire, write_buf>>, server'.part = server.part
  PROVE  Pending' = Pending /\ (Quiet => Quiet')
BY DEF Pending, Quiet

\* The last byte stays the last.
LEMMA LastKept ==
  ASSUME LastIsLast, UNCHANGED <<wire, write_buf, calls>>, server'.part = server.part
  PROVE  LastIsLast'
BY DEF LastIsLast

\* The replies under way.
LEMMA RepliesKept ==
  ASSUME UNCHANGED <<read_buf, inbox>>, server'.out = server.out
  PROVE  Answers' = Answers
BY DEF Answers

\* Good ones stay, and no others come.
LEMMA AllGood ==
  ASSUME PendingGood, AnswersGood, Pending' \subseteq Pending, Answers' \subseteq Answers,
         \A b : GoodRequest(b) => GoodRequest(b)',
         \A r : GoodReply(r) => GoodReply(r)'
  PROVE  PendingGood' /\ AnswersGood'
BY DEF PendingGood, AnswersGood

\* A message leaves the inbox; what it says goes to the read buffer.
LEMMA TakeMessage ==
  ASSUME inbox \in Seq(Messages), read_buf \in Seq(Replies), inbox # <<>>,
         read_buf' = Arrived, inbox' = Tail(inbox), server'.out = server.out
  PROVE  /\ inbox' \in Seq(Messages) /\ read_buf' \in Seq(Replies)
         /\ Answers' \subseteq Answers
<1> DEFINE msg == Head(inbox)
<1>1. /\ msg \in Messages /\ msg \in Range(inbox) /\ Tail(inbox) \in Seq(Messages)
      /\ Range(Tail(inbox)) \subseteq Range(inbox)
  BY HeadAndTail
<1>2. /\ read_buf' \in Seq(Replies)
      /\ Range(read_buf') \subseteq Range(read_buf) \cup Said(msg)
  <2>1. CASE msg.type = "stdout"
    <3>1. msg.data \in Seq(Replies) /\ Said(msg) = Range(msg.data)
      BY <1>1, <2>1 DEF Messages, Said
    <3>2. read_buf' = read_buf \o msg.data
      BY <2>1 DEF Arrived
    <3> QED
      BY <3>1, <3>2, ConcatProperties, RangeConcatenation
  <2>2. CASE msg.type # "stdout"
    BY <2>2 DEF Arrived
  <2> QED BY <2>1, <2>2
<1>3. Said(msg) \subseteq Answers
  BY <1>1 DEF Answers
<1>4. \A m \in Range(inbox') : Said(m) \subseteq Answers
  BY <1>1 DEF Answers
<1>5. \A m : Said(m)' = Said(m)
  BY DEF Said
<1>6. Answers' = Range(read_buf') \cup Range(server'.out) \cup UNION {Said(m) : m \in Range(inbox')}
  BY DEF Answers, Said
<1>7. Range(read_buf) \subseteq Answers /\ Range(server.out) \subseteq Answers
  BY DEF Answers
<1> QED
  BY <1>1, <1>2, <1>3, <1>4, <1>6, <1>7

\* All bytes under way have their types.
LEMMA BytesTyped == TypeOK => Pending \subseteq Requests /\ Answers \subseteq Replies
<1> SUFFICES ASSUME TypeOK PROVE Pending \subseteq Requests /\ Answers \subseteq Replies
  OBVIOUS
<1>1. Range(write_buf) \subseteq Requests /\ Range(wire) \subseteq Requests /\ Range(read_buf) \subseteq Replies
  BY RangeOfSeq DEF TypeOK
<1>2. server.part \in Seq(Requests) /\ server.out \in Seq(Replies)
  BY DEF TypeOK
<1>3. Range(server.part) \subseteq Requests /\ Range(server.out) \subseteq Replies
  BY <1>2, RangeOfSeq
<1>4. Range(inbox) \subseteq Messages
  BY RangeOfSeq DEF TypeOK
<1>5. ASSUME NEW msg \in Messages PROVE Said(msg) \subseteq Replies
  <2>1. CASE msg.type = "stdout"
    <3>1. msg.data \in Seq(Replies)
      BY <2>1 DEF Messages
    <3> QED BY <3>1, RangeOfSeq DEF Said
  <2> QED BY <2>1 DEF Said
<1> QED
  BY <1>1, <1>3, <1>4, <1>5 DEF Pending, Answers

-----------------------------------------------------------------------------
(* The invariant holds at the start, and every step keeps it.              *)

\* Nothing is under way at the start.
LEMMA InitInv == Init => SftpInv
<1> SUFFICES ASSUME Init PROVE SftpInv
  OBVIOUS
<1> USE DEF Init, BufferInit
<1>1. TypeOK
  <2>1. <<>> \in Seq(Requests) /\ <<>> \in Seq(Replies) /\ <<>> \in Seq(Messages) /\ <<>> \in Seq(Nat)
    OBVIOUS
  <2>2. PICK exts \in Extensions :
          server = [exts |-> exts, phase |-> "serving", part |-> <<>>, out |-> <<>>,
                    credit |-> 0, content |-> <<0>>]
    OBVIOUS
  <2>3. <<0>> \in Seq(Nat)
    OBVIOUS
  <2>4. server \in [exts : Extensions, phase : {"serving", "leaving", "gone"},
                    part : Seq(Requests), out : Seq(Replies), credit : Nat, content : Seq(Nat)]
    BY <2>1, <2>2, <2>3
  <2>5. pos \in 0..Len(write_buf)
    OBVIOUS
  <2> QED
    BY <2>1, <2>4, <2>5, SftpAssumption DEF TypeOK
<1>2. CallsInStep
  BY DEF CallsInStep, Doing
<1>3. Range(server.part) = {} /\ Range(server.out) = {} /\ Range(<<>>) = {}
  BY Elements
<1>4. Pending = {} /\ Answers = {}
  BY <1>3 DEF Pending, Answers
<1>5. LastIsLast
  BY <1>3 DEF LastIsLast
<1>6. FileKnown /\ AnswerIsOwn
  BY DEF FileKnown, AnswerIsOwn
<1> QED
  BY <1>1, <1>2, <1>4, <1>5, <1>6 DEF SftpInv, PendingGood, AnswersGood

\* A call is made: everything under way is older than it.
LEMMA CallStep ==
  ASSUME SftpInv, todo = <<>>, NEW op \in Kinds, op = Version <=> stage = "new",
         Calls(<<Send(Request(calls, op)), Flush, Receive(calls, op)>>),
         request_id' = calls
  PROVE  SftpInv'
<1> USE DEF SftpInv, Calls, bufferVars
<1>1. calls \in Nat /\ calls' = calls + 1 /\ calls' - 1 = calls /\ cursor' = cursor
  BY DEF TypeOK
<1>2. Request(calls, op) = <<RequestByte(1, calls' - 1, calls', op, cursor'),
                             RequestByte(2, calls' - 1, calls', op, cursor')>>
  BY <1>1 DEF Request
<1>3. todo' # <<>> /\ Asked' = op /\ AtStep' /\ ~Doing("flush")'
  BY <1>1, <1>2, NowAt
<1>4. TypeOK'
  BY <1>1 DEF TypeOK
<1>5. CallsInStep'
  <2>1. pos = 0
    BY DEF CallsInStep, Doing
  <2> QED
    BY <1>1, <1>3, <2>1 DEF CallsInStep
<1>6. Pending' = Pending /\ Answers' = Answers
  BY DEF Pending, Answers, Said
<1>7. ASSUME NEW b \in Requests, GoodRequest(b) PROVE GoodRequest(b)'
  BY <1>1, <1>7 DEF GoodRequest, Requests
<1>8. ASSUME NEW r \in Replies, GoodReply(r) PROVE GoodReply(r)'
  BY <1>1, <1>8 DEF GoodReply, Replies
<1>9. PendingGood' /\ AnswersGood'
  BY <1>6, <1>7, <1>8, BytesTyped DEF PendingGood, AnswersGood
<1>10. LastIsLast'
  <2>1. Pending \subseteq Requests /\ \A b \in Pending : b.call <= calls
    BY BytesTyped DEF PendingGood, GoodRequest
  <2>2. \A b \in Pending : b.call # calls'
    BY <1>1, <2>1 DEF Requests
  <2>3. \A i \in DOMAIN wire : wire[i] \in Pending
    BY DEF Pending, Range
  <2>4. \A i \in DOMAIN write_buf : write_buf[i] \in Pending
    BY DEF Pending, Range
  <2> QED
    BY <2>2, <2>3, <2>4 DEF LastIsLast
<1>11. FileKnown' /\ AnswerIsOwn'
  BY DEF FileKnown, AnswerIsOwn
<1> QED
  BY <1>4, <1>5, <1>9, <1>10, <1>11

\* Handle::handshake is the first call, with identifier 0.
LEMMA CallHandshakeStep ==
  ASSUME SftpInv, CallHandshake
  PROVE  SftpInv'
<1>1. calls = 0 /\ request_id = 0
  BY DEF SftpInv, CallsInStep, CallHandshake
<1> QED
  BY <1>1, VersionKind, CallStep DEF CallHandshake

\* Every other call takes the next identifier, which is new.
LEMMA CallOpStep ==
  ASSUME FewCalls, SftpInv, CallOp
  PROVE  SftpInv'
<1>1. calls \in Nat /\ calls > 0 /\ request_id = calls - 1 /\ calls < MaxCalls
  BY DEF SftpInv, TypeOK, CallsInStep, CallOp
<1>2. IdSpace \in Nat /\ calls < IdSpace
  BY <1>1, SftpAssumption DEF FewCalls
<1>3. request_id' = calls
  <2>1. calls % IdSpace = calls
    BY <1>1, <1>2
  <2> QED BY <1>1, <2>1 DEF CallOp, NextRequestId
<1>4. PICK op \in Ops :
        LET kind == [reply |-> op.reply, effect |-> op.effect] IN
          Calls(<<Send(Request(request_id', kind)), Flush, Receive(request_id', kind)>>)
  BY DEF CallOp
<1> DEFINE kind == [reply |-> op.reply, effect |-> op.effect]
<1>5. kind \in Kinds /\ kind # Version
  BY OpsKinds
<1>6. Calls(<<Send(Request(calls, kind)), Flush, Receive(calls, kind)>>)
  BY <1>3, <1>4
<1>7. stage # "new" /\ todo = <<>>
  BY DEF CallOp
<1> HIDE DEF kind
<1> QED
  BY <1>3, <1>5, <1>6, <1>7, CallStep

\* File::backward: less of the file is spoken of.
LEMMA AppBackwardStep ==
  ASSUME SftpInv, AppBackward
  PROVE  SftpInv'
<1> USE DEF SftpInv, AppBackward, bufferVars
<1>1. cursor \in Nat /\ cursor > 0 /\ cursor' = cursor - 1 /\ cursor' \in Nat
  BY DEF TypeOK
<1>2. known \in Seq(Nat) /\ Len(known) = cursor /\ cursor - 1 \in Nat /\ cursor - 1 <= Len(known)
  BY <1>1 DEF TypeOK, FileKnown
<1>3. /\ known' \in Seq(Nat) /\ Len(known') = cursor - 1
      /\ \A i \in 1..Len(known') : known'[i] = known[i]
  <2>1. /\ known' \in Seq(Nat) /\ Len(known') = IF 1 <= cursor - 1 THEN (cursor - 1) - 1 + 1 ELSE 0
        /\ \A i \in 1..Len(known') : known'[i] = known[1 + i - 1]
    BY <1>2, PartOf
  <2>2. Len(known') = cursor - 1
    BY <1>1, <2>1
  <2>3. \A i \in 1..Len(known') : 1 + i - 1 = i
    BY <1>1, <2>2
  <2> QED BY <2>1, <2>2, <2>3
<1>4. TypeOK'
  BY <1>1, <1>3 DEF TypeOK
<1>5. CallsInStep'
  BY DEF CallsInStep, Doing
<1>6. FileKnown'
  <2>1. server'.content = server.content /\ server.content \in Seq(Nat)
    BY DEF TypeOK
  <2> HIDE DEF AppBackward, SftpInv
  <2>2. \A i \in 1..cursor' : i \in 1..cursor /\ i \in 1..Len(known')
    BY <1>1, <1>3
  <2>3. Len(server.content) \in Nat
    BY <2>1, LenProperties
  <2> QED
    BY <1>1, <1>3, <2>1, <2>2, <2>3 DEF FileKnown, SftpInv
<1>7. Pending' = Pending /\ Answers' = Answers /\ (Quiet => Quiet') /\ LastIsLast'
  BY RequestsKept, RepliesKept, LastKept
<1>8. ASSUME NEW b \in Requests, GoodRequest(b) PROVE GoodRequest(b)'
  <2>1. b.at \in Nat
    BY DEF Requests
  <2> QED
    BY <1>1, <1>8, <2>1 DEF GoodRequest
<1>9. ASSUME NEW r, GoodReply(r) PROVE GoodReply(r)'
  BY <1>7, <1>9 DEF GoodReply
<1>10. PendingGood' /\ AnswersGood'
  BY <1>7, <1>8, <1>9, BytesTyped DEF PendingGood, AnswersGood
<1> QED
  BY <1>4, <1>5, <1>6, <1>7, <1>10 DEF AnswerIsOwn

\* A call is given up: nothing is lost, but flush begins again.
LEMMA GiveUp ==
  ASSUME SftpInv, todo # <<>>, todo' = <<>>, BufferCancel, stage' \in {"ready", "failed"},
         UNCHANGED <<calls, request_id, cursor, known, server>>, AnswerIsOwn'
  PROVE  SftpInv'
<1> USE DEF SftpInv, BufferCancel
<1>1. TypeOK'
  <2>1. Len(write_buf) \in Nat
    BY LenProperties DEF TypeOK
  <2>2. pos' \in 0..Len(write_buf')
    BY <2>1
  <2> QED
    BY <2>2 DEF TypeOK
<1>2. CallsInStep' /\ Continues
  BY CallEnds
<1>3. Pending' = Pending /\ Answers' = Answers /\ (Quiet => Quiet') /\ LastIsLast' /\ FileKnown'
  BY RequestsKept, RepliesKept, LastKept, FileKept
<1>4. PendingGood' /\ AnswersGood'
  BY <1>2, <1>3, GoodKept, AllGood
<1> QED
  BY <1>1, <1>2, <1>3, <1>4

\* The channel is gone, and the call with it.
LEMMA DoSendFailsStep ==
  ASSUME SftpInv, DoSendFails
  PROVE  SftpInv'
<1> USE DEF DoSendFails, Breaks, Returns, CallUnchanged, Doing
<1>1. AnswerIsOwn'
  BY DEF AnswerIsOwn
<1> QED
  BY <1>1, GiveUp

\* The future is dropped.
LEMMA CancelStep ==
  ASSUME SftpInv, Cancel
  PROVE  SftpInv'
<1> USE DEF Cancel
<1>1. AnswerIsOwn'
  BY DEF AnswerIsOwn, SftpInv
<1>2. stage' \in {"ready", "failed"}
  BY DEF SftpInv, TypeOK
<1> QED
  BY <1>1, <1>2, GiveUp

\* A message is taken while a call waits, and the call goes on waiting.
LEMMA HearStep ==
  ASSUME SftpInv, inbox # <<>>, read_buf' = Arrived, inbox' = Tail(inbox),
         UNCHANGED <<window, wire, write_buf, calls, request_id, cursor, known, server>>,
         pos' \in {0, pos}, blocked' \in BOOLEAN, stage' \in {"new", "ready", "failed"},
         CallsInStep', Continues, AnswerIsOwn'
  PROVE  SftpInv'
<1> USE DEF SftpInv
<1>1. inbox' \in Seq(Messages) /\ read_buf' \in Seq(Replies) /\ Answers' \subseteq Answers
  BY TakeMessage DEF TypeOK
<1>2. TypeOK'
  <2>1. Len(write_buf) \in Nat
    BY LenProperties DEF TypeOK
  <2>2. pos' \in 0..Len(write_buf')
    BY <2>1 DEF TypeOK
  <2> QED
    BY <1>1, <2>2 DEF TypeOK
<1>3. Pending' = Pending /\ (Quiet => Quiet') /\ LastIsLast' /\ FileKnown'
  BY RequestsKept, LastKept, FileKept
<1>4. PendingGood' /\ AnswersGood'
  BY <1>1, <1>3, GoodKept, AllGood
<1> QED
  BY <1>2, <1>3, <1>4

\* flush hears a message while it waits for the window.
LEMMA DoFlushHearStep ==
  ASSUME SftpInv, DoFlushHear
  PROVE  SftpInv'
<1> USE DEF DoFlushHear, FlushHear, Kept
<1>1. inbox # <<>> /\ blocked' \in BOOLEAN /\ todo # <<>>
  BY DEF Doing
<1>2. CASE FlushHearFails
  <2> USE <1>2 DEF Breaks, Returns, CallUnchanged
  <2>1. CallsInStep' /\ Continues
    BY <1>1, CallEnds DEF SftpInv
  <2>2. AnswerIsOwn'
    BY DEF AnswerIsOwn
  <2> QED
    BY <1>1, <2>1, <2>2, HearStep
<1>3. CASE ~FlushHearFails
  <2> USE <1>3 DEF CallUnchanged
  <2>1. CallsInStep' /\ Continues
    BY SameStep DEF SftpInv
  <2>2. AnswerIsOwn'
    BY DEF AnswerIsOwn, SftpInv
  <2>3. stage' \in {"new", "ready", "failed"}
    BY DEF SftpInv, TypeOK
  <2> QED
    BY <1>1, <2>1, <2>2, <2>3, HearStep
<1> QED
  BY <1>2, <1>3

\* fill_once takes a message.
LEMMA DoFillStep ==
  ASSUME SftpInv, DoFill
  PROVE  SftpInv'
<1> USE DEF DoFill, FillOnce
<1>1. inbox # <<>> /\ blocked' \in BOOLEAN /\ todo # <<>> /\ pos = 0
  BY DEF Doing, SftpInv, TypeOK, CallsInStep
<1>2. CASE FillFails
  <2> USE <1>2 DEF Breaks, Returns, CallUnchanged
  <2>1. CallsInStep' /\ Continues
    BY <1>1, CallEnds DEF SftpInv
  <2>2. AnswerIsOwn'
    BY DEF AnswerIsOwn
  <2> QED
    BY <1>1, <2>1, <2>2, HearStep
<1>3. CASE ~FillFails
  <2> USE <1>3 DEF CallUnchanged
  <2>1. CallsInStep' /\ Continues
    BY SameStep DEF SftpInv
  <2>2. AnswerIsOwn'
    BY DEF AnswerIsOwn, SftpInv
  <2>3. stage' \in {"new", "ready", "failed"}
    BY DEF SftpInv, TypeOK
  <2> QED
    BY <1>1, <2>1, <2>2, <2>3, HearStep
<1> QED
  BY <1>2, <1>3

\* What a call has read it forgets, and of the rest of the bytes there are none more.
LEMMA ConsumeFacts ==
  ASSUME TypeOK, Consume(2)
  PROVE  /\ read_buf' \in Seq(Replies)
         /\ server'.out = server.out => Answers' \subseteq Answers
<1>1. read_buf \in Seq(Replies) /\ Len(read_buf) \in Nat
  BY LenProperties DEF TypeOK
<1>2. read_buf' = SubSeq(read_buf, 3, Len(read_buf))
  BY DEF Consume, Rest
<1>3. read_buf' \in Seq(Replies) /\ Range(read_buf') \subseteq Range(read_buf)
  BY <1>1, <1>2, PartOf
<1>4. inbox' = inbox
  BY DEF Consume
<1>5. ASSUME server'.out = server.out PROVE Answers' \subseteq Answers
  BY <1>3, <1>4, <1>5 DEF Answers, Said
<1> QED
  BY <1>3, <1>5

\* A call returns, the file and the cursor where they are.
LEMMA ReturnStep ==
  ASSUME SftpInv, todo # <<>>, ~Doing("flush"), todo' = <<>>,
         UNCHANGED bufferVars \/ Consume(2), stage' \in {"ready", "failed"},
         UNCHANGED <<calls, request_id, cursor, known, server>>, AnswerIsOwn'
  PROVE  SftpInv'
<1> USE DEF SftpInv
<1>1. /\ UNCHANGED <<window, wire, inbox, write_buf, pos, blocked>>
      /\ read_buf' \in Seq(Replies) /\ Answers' \subseteq Answers
  <2>1. CASE UNCHANGED bufferVars
    BY <2>1, RepliesKept DEF bufferVars, TypeOK
  <2>2. CASE Consume(2)
    BY <2>2, ConsumeFacts DEF Consume
  <2> QED BY <2>1, <2>2
<1>2. TypeOK'
  BY <1>1 DEF TypeOK
<1>3. pos' = 0
  BY <1>1 DEF CallsInStep
<1>4. CallsInStep' /\ Continues
  BY <1>3, CallEnds
<1>5. Pending' = Pending /\ (Quiet => Quiet') /\ LastIsLast' /\ FileKnown'
  BY <1>1, RequestsKept, LastKept, FileKept
<1>6. PendingGood' /\ AnswersGood'
  BY <1>1, <1>4, <1>5, GoodKept, AllGood
<1> QED
  BY <1>2, <1>4, <1>5, <1>6

\* The reply at the head of the buffer.
LEMMA HeadReply ==
  ASSUME SftpInv, Len(read_buf) >= 1
  PROVE  Head(read_buf) \in Replies /\ GoodReply(Head(read_buf))
<1>1. read_buf \in Seq(Replies) /\ read_buf # <<>>
  BY DEF SftpInv, TypeOK
<1>2. Head(read_buf) \in Replies /\ Head(read_buf) \in Range(read_buf)
  BY <1>1, HeadAndTail
<1> QED
  BY <1>2 DEF SftpInv, AnswersGood, Answers

\* The length of the reply is read.
LEMMA DoHeadStep ==
  ASSUME SftpInv, DoHead
  PROVE  SftpInv'
<1> USE DEF DoHead, CallUnchanged
<1>1. todo # <<>> /\ ~Doing("flush") /\ ~Doing("send")
  BY DEF Doing
<1>2. CASE Head(read_buf).payload = "huge"
  <2> USE <1>2 DEF Returns
  <2>1. stage' \in {"ready", "failed"}
    BY DEF SftpInv, TypeOK
  <2>2. AnswerIsOwn'
    BY DEF AnswerIsOwn
  <2> QED
    BY <1>1, <2>1, <2>2, ReturnStep
<1>3. CASE Head(read_buf).payload # "huge"
  <2> USE <1>3
  <2>1. /\ todo' = <<[Head(todo) EXCEPT !.do = "body"]>>
        /\ UNCHANGED <<stage, last, calls, request_id, cursor, known, server>> /\ UNCHANGED bufferVars
    OBVIOUS
  <2>2. Head(todo) = Receive(calls - 1, Asked)
    BY <1>1, NextStep DEF SftpInv
  <2>3. PICK op : op = Asked
    OBVIOUS
  <2>4. todo' = <<[Receive(calls' - 1, op) EXCEPT !.do = "body"]>>
    BY <2>1, <2>2, <2>3
  <2>5. todo' # <<>> /\ Asked' = Asked /\ AtStep' /\ ~Doing("send")' /\ ~Doing("flush")'
    BY <2>3, <2>4, NowAt
  <2> HIDE DEF DoHead
  <2> USE DEF SftpInv
  <2>6. pos' = 0
    BY <1>1, <2>1 DEF CallsInStep, bufferVars
  <2>7. CallsInStep' /\ Continues
    BY <1>1, <2>1, <2>5, <2>6, CallGoesOn
  <2>8. TypeOK'
    BY <2>1 DEF TypeOK, bufferVars
  <2>9. /\ Pending' = Pending /\ (Quiet => Quiet') /\ LastIsLast' /\ FileKnown'
        /\ Answers' = Answers
    BY <2>1, RequestsKept, RepliesKept, LastKept, FileKept DEF bufferVars
  <2>10. PendingGood' /\ AnswersGood'
    BY <2>1, <2>7, <2>9, GoodKept, AllGood
  <2> QED
    BY <2>1, <2>7, <2>8, <2>9, <2>10 DEF AnswerIsOwn
<1> QED
  BY <1>2, <1>3

\* The handshake takes the only reply there can be.
LEMMA DoVersionStep ==
  ASSUME SftpInv, DoVersion
  PROVE  SftpInv'
<1> USE DEF DoVersion, CallUnchanged, Returns
<1>1. todo # <<>> /\ ~Doing("flush") /\ Doing("body") /\ ~Doing("head")
  BY DEF Doing
<1>2. Head(todo).op = Asked
  BY <1>1, NextStep DEF SftpInv
<1>3. stage = "new"
  BY <1>1, <1>2, NextStep DEF SftpInv
<1>4. calls = 1
  BY <1>1, <1>3 DEF SftpInv, CallsInStep
<1>5. Len(read_buf) >= 1
  BY <1>1, LenProperties DEF Needs, SftpInv, TypeOK
<1>6. Head(read_buf).call = 1
  BY <1>4, <1>5, HeadReply DEF GoodReply, Replies
<1>7. AnswerIsOwn'
  BY <1>4, <1>6 DEF AnswerIsOwn
<1>8. stage' \in {"ready", "failed"} /\ todo' = <<>>
  OBVIOUS
<1>9. UNCHANGED bufferVars \/ Consume(2)
  OBVIOUS
<1> QED
  BY <1>1, <1>7, <1>8, <1>9, ReturnStep

\* The results that say that the call was answered.
LEMMA Answered ==
  ASSUME NEW reply, NEW payload, Outcome(reply, payload) = "done"
  PROVE  \/ payload = "ok" /\ reply \in {"status", "list"}
         \/ payload = "asked" /\ reply # "status"
BY DEF Outcome, Statuses, ToResult, ToError

\* The cursor moves over what the reply to the call in progress stands for: no request is
\* left that could be about anything before it.
LEMMA ForwardStep ==
  ASSUME SftpInv, todo # <<>>, ~Doing("flush"), todo' = <<>>, Consume(2), AnswerIsOwn',
         UNCHANGED <<calls, request_id, stage, server>>, stage # "new",
         NEW data \in Seq(Nat), cursor' = cursor + Len(data), known' = known \o data,
         Quiet, Len(data) <= 1, cursor + Len(data) <= Len(server.content),
         Len(data) = 1 => data[1] = server.content[cursor + 1]
  PROVE  SftpInv'
<1> USE DEF SftpInv
<1>1. /\ UNCHANGED <<window, wire, inbox, write_buf, pos, blocked>>
      /\ read_buf' \in Seq(Replies) /\ Answers' \subseteq Answers
  BY ConsumeFacts DEF Consume
<1>2. cursor \in Nat /\ known \in Seq(Nat) /\ Len(data) \in Nat /\ Len(known) = cursor /\ cursor' \in Nat
  BY LenProperties DEF TypeOK, FileKnown
<1>3. /\ known' \in Seq(Nat) /\ Len(known') = Len(known) + Len(data)
      /\ \A i \in 1..Len(known) + Len(data) :
           known'[i] = IF i <= Len(known) THEN known[i] ELSE data[i - Len(known)]
  BY <1>2, ConcatProperties
<1>4. TypeOK'
  BY <1>1, <1>2, <1>3 DEF TypeOK
<1>5. pos' = 0
  BY <1>1 DEF CallsInStep
<1>6. CallsInStep'
  BY <1>5, CallEnds
<1>7. Quiet' /\ Pending' = {} /\ LastIsLast'
  <2>1. Quiet'
    BY <1>1 DEF Quiet
  <2> QED
    BY <2>1, Elements DEF Pending, Quiet, LastIsLast
<1>8. ASSUME NEW r, GoodReply(r) PROVE GoodReply(r)'
  BY <1>7, <1>8 DEF GoodReply
<1>9. PendingGood' /\ AnswersGood'
  BY <1>1, <1>7, <1>8 DEF PendingGood, AnswersGood
<1>10. FileKnown'
  <2>1. server'.content = server.content
    OBVIOUS
  <2>2. ASSUME NEW i \in 1..cursor' PROVE known'[i] = server.content[i]
    <3>1. CASE i <= cursor
      BY <1>2, <1>3, <2>2, <3>1 DEF FileKnown
    <3>2. CASE i > cursor
      <4>1. i = cursor + 1 /\ Len(data) = 1 /\ i - Len(known) = 1
        <5>1. \A x, c, n \in Nat : x <= c + n /\ x > c /\ n <= 1 => x = c + 1 /\ n = 1 /\ x - c = 1
          OBVIOUS
        <5>2. i \in Nat /\ i <= cursor + Len(data) /\ i > cursor
          BY <1>2, <3>2
        <5> QED
          BY <1>2, <5>1, <5>2
      <4>2. known'[i] = data[1]
        BY <1>2, <1>3, <2>2, <4>1
      <4> QED BY <4>1, <4>2
    <3>3. i \in Nat
      BY <1>2
    <3>4. \A x, c \in Nat : x <= c \/ x > c
      OBVIOUS
    <3>5. i <= cursor \/ i > cursor
      BY <1>2, <3>3, <3>4
    <3> QED BY <3>1, <3>2, <3>5, Zenon
  <2> QED
    BY <1>2, <1>3, <2>1, <2>2 DEF FileKnown
<1> QED
  BY <1>4, <1>6, <1>7, <1>9, <1>10

\* receive_msg: an identifier that matches is the call's own.
LEMMA DoBodyStep ==
  ASSUME SftpInv, DoBody
  PROVE  SftpInv'
<1> DEFINE msg == Head(read_buf)
           op == Head(todo).op
           result == Outcome(op.reply, msg.payload)
           data == IF op.effect = "write" THEN <<calls>> ELSE msg.data
<1>1. /\ todo # <<>> /\ ~Doing("flush") /\ Doing("body") /\ ~Doing("head") /\ ~Doing("send")
      /\ op # Version /\ Len(read_buf) >= Needs /\ UNCHANGED <<stage, calls, request_id, server>>
  BY DEF Doing, DoBody, CallUnchanged
<1>2. op = Asked /\ Head(todo).id = calls - 1 /\ Asked \in Kinds /\ stage # "new" /\ calls > 0
  BY <1>1, NextStep DEF SftpInv
<1>3. stage' \in {"ready", "failed"}
  BY <1>1, <1>2 DEF SftpInv, TypeOK
<1>4. Len(read_buf) >= 1
  BY <1>1, LenProperties DEF Needs, SftpInv, TypeOK
<1>5. msg \in Replies /\ GoodReply(msg) /\ calls \in Nat
  BY <1>4, HeadReply DEF SftpInv, TypeOK
<1>6. IsOurs(msg) => msg.call = calls
  BY <1>2, <1>5 DEF IsOurs, GoodReply, Replies
<1>7. CASE msg.payload = "unparsable"
  <2>1. /\ Returns("unparsable", msg.call) /\ UNCHANGED <<cursor, known>> /\ UNCHANGED bufferVars
    BY <1>7 DEF DoBody
  <2>2. AnswerIsOwn' /\ todo' = <<>>
    BY <2>1 DEF Returns, AnswerIsOwn
  <2> QED
    BY <1>1, <1>3, <2>1, <2>2, ReturnStep
<1>8. CASE msg.payload # "unparsable"
  <2>1. /\ Consume(2) /\ Returns(IF IsOurs(msg) THEN result ELSE "mismatch", msg.call)
        /\ IF IsOurs(msg) /\ Forwards(op.effect, result)
           THEN cursor' = cursor + Len(data) /\ known' = known \o data
           ELSE UNCHANGED <<cursor, known>>
    BY <1>8 DEF DoBody
  <2>2. AnswerIsOwn' /\ todo' = <<>>
    <3>1. todo' = <<>> /\ last'.call = calls /\ last'.from = msg.call
      BY <2>1 DEF Returns
    <3>2. ~IsOurs(msg) => last'.result = "mismatch"
      BY <2>1 DEF Returns
    <3> QED
      BY <1>6, <3>1, <3>2 DEF AnswerIsOwn
  <2>3. CASE ~(IsOurs(msg) /\ Forwards(op.effect, result))
    BY <1>1, <1>3, <2>1, <2>2, <2>3, ReturnStep
  <2>4. CASE IsOurs(msg) /\ Forwards(op.effect, result)
    <3>1. /\ msg.call = calls /\ Quiet /\ Told(msg) /\ result = "done"
          /\ Asked.effect \in {"read", "write"}
      BY <1>1, <1>2, <1>5, <1>6, <2>4 DEF GoodReply, Forwards
    <3>2. /\ Asked.effect = "write" => Asked.reply = "status"
          /\ Asked.effect = "read" => Asked.reply = "list"
      BY <1>2 DEF Kinds
    <3>3. cursor \in Nat /\ server.content \in Seq(Nat) /\ cursor <= Len(server.content)
      BY DEF SftpInv, TypeOK, FileKnown
    <3>4. CASE Asked.effect = "write"
      <4>1. msg.payload = "ok"
        BY <1>2, <3>1, <3>2, <3>4, Answered
      <4>2. cursor < Len(server.content) /\ server.content[cursor + 1] = calls
        BY <3>1, <3>4, <4>1 DEF Told
      <4>3. data = <<calls>>
        BY <1>2, <3>4
      <4>5. cursor' = cursor + Len(data) /\ known' = known \o data
        BY <2>1, <2>4
      <4> HIDE DEF data, msg, op, result
      <4>4. data \in Seq(Nat) /\ Len(data) = 1 /\ data[1] = calls
        <5>1. <<calls>> \in Seq(Nat) /\ Len(<<calls>>) = 1 /\ <<calls>>[1] = calls
          BY <1>5
        <5> QED BY <4>3, <5>1
      <4>6. cursor + 1 <= Len(server.content)
        BY <3>3, <4>2, LenProperties
      <4>7. cursor + Len(data) <= Len(server.content) /\ Len(data) <= 1
        BY <4>4, <4>6
      <4>8. data[1] = server.content[cursor + 1]
        BY <4>2, <4>4
      <4> QED
        BY <1>1, <1>2, <2>1, <2>2, <3>1, <4>4, <4>5, <4>7, <4>8, ForwardStep
    <3>5. CASE Asked.effect # "write"
      <4>1. Asked.effect = "read"
        BY <3>1, <3>5
      <4>2. data = msg.data /\ data \in Seq(Nat)
        BY <1>2, <1>5, <3>5 DEF Replies
      <4>3. \/ data = <<>>
            \/ cursor < Len(server.content) /\ data = <<server.content[cursor + 1]>>
        BY <3>1, <4>1, <4>2 DEF Told
      <4>5. cursor' = cursor + Len(data) /\ known' = known \o data
        BY <2>1, <2>4
      <4> HIDE DEF data, msg, op, result
      <4>4. /\ Len(data) <= 1 /\ cursor + Len(data) <= Len(server.content)
            /\ Len(data) = 1 => data[1] = server.content[cursor + 1]
        <5>1. CASE data = <<>>
          <6>1. Len(data) = 0
            BY <5>1
          <6> QED BY <3>3, <6>1, LenProperties
        <5>2. CASE cursor < Len(server.content) /\ data = <<server.content[cursor + 1]>>
          <6>1. Len(data) = 1 /\ data[1] = server.content[cursor + 1]
            BY <5>2
          <6>2. cursor + 1 <= Len(server.content)
            BY <3>3, <5>2, LenProperties
          <6> QED BY <6>1, <6>2
        <5> QED BY <4>3, <5>1, <5>2
      <4> QED
        BY <1>1, <1>2, <2>1, <2>2, <3>1, <4>2, <4>4, <4>5, ForwardStep
    <3> QED BY <3>4, <3>5
  <2> QED BY <2>3, <2>4
<1> QED
  BY <1>7, <1>8

\* What Channel::send accepts goes to the wire, after what is there.
LEMMA ChannelSendFacts ==
  ASSUME wire \in Seq(Requests), window \in Nat, NEW data \in Seq(Requests), ChannelSend(data),
         NEW n, n = Accepted(data)
  PROVE  /\ wire' \in Seq(Requests) /\ window' \in Nat
         /\ Range(wire') \subseteq Range(wire) \cup Range(data)
         /\ n \in Nat /\ n <= Len(data) /\ Len(wire') = Len(wire) + n
         /\ \A i \in 1..Len(wire') :
              \/ i \in 1..Len(wire) /\ wire'[i] = wire[i]
              \/ i - Len(wire) \in 1..n /\ wire'[i] = data[i - Len(wire)]
<1>1. n \in Nat /\ n <= Len(data) /\ n <= window
  BY AcceptedFacts
<1>2. Len(wire) \in Nat /\ Len(data) \in Nat
  BY LenProperties
<1> DEFINE part == SubSeq(data, 1, n)
<1>3. /\ part \in Seq(Requests) /\ Range(part) \subseteq Range(data)
      /\ Len(part) = IF 1 <= n THEN n - 1 + 1 ELSE 0
      /\ \A i \in 1..Len(part) : part[i] = data[1 + i - 1]
  BY <1>1, PartOf
<1>4. wire' = wire \o part /\ window' = window - n
  BY DEF ChannelSend
<1> HIDE DEF part
<1>5. Len(part) = n
  BY <1>1, <1>3
<1>6. /\ wire' \in Seq(Requests) /\ Len(wire') = Len(wire) + Len(part)
      /\ \A i \in 1..Len(wire) + Len(part) :
           wire'[i] = IF i <= Len(wire) THEN wire[i] ELSE part[i - Len(wire)]
  BY <1>3, <1>4, ConcatProperties
<1>7. Range(wire') \subseteq Range(wire) \cup Range(data)
  BY <1>3, <1>4, RangeConcatenation
<1>8. ASSUME NEW i \in 1..Len(wire')
      PROVE  \/ i \in 1..Len(wire) /\ wire'[i] = wire[i]
             \/ i - Len(wire) \in 1..n /\ wire'[i] = data[i - Len(wire)]
  <2>1. i \in 1..Len(wire) + n
    BY <1>5, <1>6
  <2>2. CASE i <= Len(wire)
    BY <1>2, <1>5, <1>6, <2>1, <2>2
  <2>3. CASE i > Len(wire)
    <3>1. i - Len(wire) \in 1..n /\ 1 + (i - Len(wire)) - 1 = i - Len(wire)
      BY <1>1, <1>2, <2>1, <2>3
    <3>2. wire'[i] = part[i - Len(wire)]
      BY <1>2, <1>5, <1>6, <2>1, <2>3
    <3> QED BY <1>3, <1>5, <3>1, <3>2
  <2> QED BY <1>2, <2>1, <2>2, <2>3
<1> QED
  BY <1>1, <1>4, <1>5, <1>6, <1>7, <1>8

\* What it does not accept.
LEMMA RestFacts ==
  ASSUME NEW data \in Seq(Requests), NEW n \in Nat, n <= Len(data)
  PROVE  /\ Rest(data, n) \in Seq(Requests) /\ Range(Rest(data, n)) \subseteq Range(data)
         /\ Len(Rest(data, n)) = Len(data) - n
         /\ \A i \in 1..Len(Rest(data, n)) : Rest(data, n)[i] = data[n + i]
         /\ n = Len(data) => Rest(data, n) = <<>>
<1>1. Len(data) \in Nat
  BY LenProperties
<1>2. /\ Rest(data, n) \in Seq(Requests) /\ Range(Rest(data, n)) \subseteq Range(data)
      /\ Len(Rest(data, n)) = IF n + 1 <= Len(data) THEN Len(data) - (n + 1) + 1 ELSE 0
      /\ \A i \in 1..Len(Rest(data, n)) : Rest(data, n)[i] = data[n + 1 + i - 1]
  BY <1>1, PartOf DEF Rest
<1>3. Len(Rest(data, n)) = Len(data) - n
  BY <1>1, <1>2
<1>4. \A i \in 1..Len(Rest(data, n)) : n + 1 + i - 1 = n + i
  BY <1>1, <1>3
<1>5. n = Len(data) => Rest(data, n) = <<>>
  BY <1>1, <1>2, <1>3, EmptySeq
<1> QED
  BY <1>2, <1>3, <1>4, <1>5

\* BufferChannel::send of the request: its last byte is the last of all.
LEMMA DoSendStep ==
  ASSUME SftpInv, DoSend
  PROVE  SftpInv'
<1> USE DEF SftpInv
<1>1. /\ Doing("send") /\ todo # <<>> /\ ~Doing("flush") /\ BufferSend(Head(todo).bytes)
      /\ todo' = Tail(todo)
      /\ UNCHANGED <<stage, cursor, last, known, request_id, calls, server>>
  BY DEF DoSend, CallUnchanged, Doing
<1>2. /\ calls > 0 /\ Asked \in Kinds /\ Head(todo).bytes = OwnBytes
      /\ todo' = <<Flush, Receive(calls - 1, Asked)>>
  BY <1>1, NextStep
<1>3. PICK op \in Kinds : op = Asked
  BY <1>2
<1>4. todo' # <<>> /\ Asked' = op /\ AtStep' /\ ~Doing("send")'
  BY <1>1, <1>2, <1>3, NowAt
<1>5. calls \in Nat /\ calls - 1 \in Nat /\ cursor \in Nat /\ pos = 0
  BY <1>1, <1>2 DEF TypeOK, CallsInStep
<1>6. CallsInStep' /\ Continues
  <2>1. pos' = 0
    BY <1>1, <1>5 DEF BufferSend
  <2> QED BY <1>1, <1>3, <1>4, <2>1, CallGoesOn
<1> DEFINE first == RequestByte(1, calls - 1, calls, op, cursor)
           second == RequestByte(2, calls - 1, calls, op, cursor)
<1>7. /\ first \in Requests /\ first.part = 1 /\ first.call = calls /\ first.id = calls - 1
      /\ first.op = op /\ first.at = cursor
      /\ second \in Requests /\ second.part = 2 /\ second.call = calls /\ second.id = calls - 1
      /\ second.op = op /\ second.at = cursor
  BY <1>5 DEF RequestByte, Requests
<1>8. OwnBytes = <<first, second>>
  BY <1>3 DEF OwnBytes
<1> HIDE DEF first, second
<1> DEFINE own == <<first, second>>
<1>9. own \in Seq(Requests) /\ Len(own) = 2 /\ own[1] = first /\ own[2] = second
  BY <1>7
<1>10. Range(own) = {first, second}
  BY Elements
<1> HIDE DEF own
<1> DEFINE q == write_buf \o own
<1>11. write_buf \in Seq(Requests) /\ wire \in Seq(Requests) /\ window \in Nat
  BY DEF TypeOK
<1>12. Len(write_buf) \in Nat /\ Len(wire) \in Nat
  BY <1>11, LenProperties
<1>13. /\ q \in Seq(Requests) /\ Len(q) = Len(write_buf) + 2
       /\ \A i \in 1..Len(write_buf) + 2 :
            q[i] = IF i <= Len(write_buf) THEN write_buf[i] ELSE own[i - Len(write_buf)]
  <2>1. /\ q \in Seq(Requests) /\ Len(q) = Len(write_buf) + Len(own)
        /\ \A i \in 1..Len(write_buf) + Len(own) :
             q[i] = IF i <= Len(write_buf) THEN write_buf[i] ELSE own[i - Len(write_buf)]
    BY <1>9, <1>11, ConcatProperties
  <2> HIDE DEF q
  <2> QED BY <1>9, <2>1
<1>14. Range(q) = Range(write_buf) \cup {first, second}
  BY <1>9, <1>10, <1>11, RangeConcatenation
<1>15. PICK n : n = Accepted(q)
  OBVIOUS
<1>16. /\ ChannelSend(q) /\ write_buf' = Rest(q, n)
       /\ UNCHANGED <<inbox, read_buf, pos, blocked>>
  BY <1>1, <1>2, <1>8, <1>15 DEF BufferSend, Queued, own
<1> HIDE DEF q
<1>17. /\ wire' \in Seq(Requests) /\ window' \in Nat
       /\ Range(wire') \subseteq Range(wire) \cup Range(q)
       /\ n \in Nat /\ n <= Len(q) /\ Len(wire') = Len(wire) + n
       /\ \A i \in 1..Len(wire') :
            \/ i \in 1..Len(wire) /\ wire'[i] = wire[i]
            \/ i - Len(wire) \in 1..n /\ wire'[i] = q[i - Len(wire)]
  BY <1>11, <1>13, <1>15, <1>16, ChannelSendFacts
<1>18. /\ write_buf' \in Seq(Requests) /\ Range(write_buf') \subseteq Range(q)
       /\ Len(write_buf') = Len(q) - n
       /\ \A i \in 1..Len(write_buf') : write_buf'[i] = q[n + i]
       /\ n = Len(q) => write_buf' = <<>>
  BY <1>13, <1>16, <1>17, RestFacts
<1>19. TypeOK'
  <2>1. Len(write_buf') \in Nat
    BY <1>18, LenProperties
  <2>2. pos' \in 0..Len(write_buf')
    BY <1>5, <1>16, <2>1
  <2> QED
    BY <1>1, <1>16, <1>17, <1>18, <2>2 DEF TypeOK
<1>20. Pending' \subseteq Pending \cup {first, second} /\ Answers' = Answers
  <2>1. Answers' = Answers
    BY <1>1, <1>16, RepliesKept
  <2>2. server'.part = server.part
    BY <1>1
  <2> QED BY <1>14, <1>17, <1>18, <2>1, <2>2 DEF Pending
<1>21. Pending \subseteq Requests /\ Answers \subseteq Replies
  BY BytesTyped
<1>22. \A b \in Pending : b.call # calls
  BY <1>1 DEF PendingGood, GoodRequest
<1>23. \A r \in Answers : r.call # calls
  BY <1>1 DEF AnswersGood, GoodReply
<1>24. PendingGood'
  <2>1. ASSUME NEW b \in Pending PROVE GoodRequest(b)'
    BY <1>1, <1>22 DEF PendingGood, GoodRequest
  <2>2. cursor <= Len(server.content)
    BY DEF FileKnown
  <2>3. ASSUME NEW b \in {first, second} PROVE GoodRequest(b)'
    BY <1>1, <1>2, <1>4, <1>5, <1>7, <2>2 DEF GoodRequest
  <2> QED BY <1>20, <2>1, <2>3 DEF PendingGood
<1>25. AnswersGood'
  BY <1>1, <1>20, <1>23 DEF AnswersGood, GoodReply
<1>26. \A i \in 1..Len(q) : q[i].part = 2 /\ q[i].call = calls => i = Len(q)
  <2>1. ASSUME NEW i \in 1..Len(q), q[i].part = 2, q[i].call = calls PROVE i = Len(q)
    <3>1. i \in 1..Len(write_buf) + 2
      BY <1>13
    <3>2. CASE i <= Len(write_buf)
      <4>1. q[i] = write_buf[i] /\ i \in DOMAIN write_buf
        BY <1>11, <1>12, <1>13, <3>1, <3>2, LenProperties
      <4>2. q[i] \in Pending
        BY <4>1 DEF Pending, Range
      <4> QED BY <1>22, <2>1, <4>2
    <3>3. CASE i = Len(write_buf) + 1
      <4>1. i - Len(write_buf) = 1 /\ ~(i <= Len(write_buf))
        BY <1>12, <3>3
      <4>2. q[i] = first
        BY <1>9, <1>13, <3>1, <4>1
      <4> QED BY <1>7, <2>1, <4>2
    <3>4. CASE i = Len(write_buf) + 2
      BY <1>13, <3>4
    <3> QED BY <1>12, <3>1, <3>2, <3>3, <3>4
  <2> QED BY <2>1
<1>27. LastIsLast'
  <2>1. DOMAIN wire' = 1..Len(wire') /\ DOMAIN write_buf' = 1..Len(write_buf') /\ Len(q) \in Nat
    BY <1>13, <1>17, <1>18, LenProperties
  <2>2. ASSUME NEW i \in 1..Len(wire'), wire'[i].part = 2, wire'[i].call = calls
        PROVE  i = Len(wire') /\ write_buf' = <<>>
    <3>1. CASE i \in 1..Len(wire) /\ wire'[i] = wire[i]
      <4>1. wire[i] \in Pending
        BY <1>11, <3>1, LenProperties DEF Pending, Range
      <4> QED BY <1>22, <2>2, <3>1, <4>1
    <3>2. CASE i - Len(wire) \in 1..n /\ wire'[i] = q[i - Len(wire)]
      <4>1. i - Len(wire) \in 1..Len(q)
        BY <1>17, <2>1, <3>2
      <4>2. i - Len(wire) = Len(q)
        BY <1>26, <2>2, <3>2, <4>1
      <4>3. n = Len(q) /\ i = Len(wire')
        BY <1>12, <1>17, <2>1, <3>2, <4>2
      <4> QED BY <1>18, <4>3
    <3> QED BY <1>17, <3>1, <3>2
  <2>3. ASSUME NEW i \in 1..Len(write_buf'), write_buf'[i].part = 2, write_buf'[i].call = calls
        PROVE  i = Len(write_buf')
    <3>1. n + i \in 1..Len(q) /\ write_buf'[i] = q[n + i]
      BY <1>17, <1>18, <2>1
    <3>2. n + i = Len(q)
      BY <1>26, <2>3, <3>1
    <3>3. n \in Nat /\ Len(q) \in Nat /\ i \in Int /\ Len(write_buf') = Len(q) - n
      BY <1>17, <1>18, <2>1
    <3>4. \A x, y \in Int : n + x = y => x = y - n
      BY <3>3
    <3> QED BY <3>2, <3>3, <3>4
  <2>4. \A b \in Range(server'.part) : b.part = 1
    BY <1>1 DEF LastIsLast
  <2> QED BY <1>1, <2>1, <2>2, <2>3, <2>4 DEF LastIsLast
<1>28. FileKnown' /\ AnswerIsOwn'
  BY <1>1, FileKept DEF AnswerIsOwn
<1> QED
  BY <1>6, <1>19, <1>24, <1>25, <1>27, <1>28

\* An attempt of flush: what it sends it has in its buffer, and the last byte ends it.
LEMMA DoFlushStep ==
  ASSUME SftpInv, DoFlush
  PROVE  SftpInv'
<1> USE DEF SftpInv
<1>1. /\ Doing("flush") /\ todo # <<>> /\ ~Doing("send") /\ ~blocked
      /\ ChannelSend(Rest(write_buf, pos))
      /\ UNCHANGED <<inbox, read_buf, stage, cursor, last, known, request_id, calls, server>>
  BY DEF DoFlush, FlushTry, CallUnchanged, Doing
<1>2. PICK n : n = Accepted(Rest(write_buf, pos))
  OBVIOUS
<1>3. /\ write_buf \in Seq(Requests) /\ wire \in Seq(Requests) /\ window \in Nat
      /\ pos \in Nat /\ pos <= Len(write_buf) /\ Len(write_buf) \in Nat /\ Len(wire) \in Nat
  <2>1. write_buf \in Seq(Requests) /\ wire \in Seq(Requests) /\ window \in Nat /\ pos \in 0..Len(write_buf)
    BY DEF TypeOK
  <2>2. Len(write_buf) \in Nat /\ Len(wire) \in Nat
    BY <2>1, LenProperties
  <2> QED BY <2>1, <2>2
<1> DEFINE q == Rest(write_buf, pos)
<1>4. /\ q \in Seq(Requests) /\ Range(q) \subseteq Range(write_buf)
      /\ Len(q) = Len(write_buf) - pos
      /\ \A i \in 1..Len(q) : q[i] = write_buf[pos + i]
  BY <1>3, RestFacts
<1> HIDE DEF q
<1>5. /\ wire' \in Seq(Requests) /\ window' \in Nat
      /\ Range(wire') \subseteq Range(wire) \cup Range(q)
      /\ n \in Nat /\ n <= Len(q) /\ Len(wire') = Len(wire) + n
      /\ \A i \in 1..Len(wire') :
           \/ i \in 1..Len(wire) /\ wire'[i] = wire[i]
           \/ i - Len(wire) \in 1..n /\ wire'[i] = q[i - Len(wire)]
  BY <1>1, <1>2, <1>3, <1>4, ChannelSendFacts DEF q
<1>6. /\ pos + n = Len(write_buf) => write_buf' = <<>> /\ pos' = 0 /\ blocked' = blocked /\ todo' = Tail(todo)
      /\ pos + n # Len(write_buf) =>
           write_buf' = write_buf /\ pos' = pos + n /\ blocked' = TRUE /\ todo' = todo
  BY <1>1, <1>2 DEF DoFlush, FlushTry, FlushCompletes
<1>7. /\ write_buf' \in Seq(Requests) /\ Range(write_buf') \subseteq Range(write_buf)
      /\ pos' \in 0..Len(write_buf') /\ blocked' \in BOOLEAN
  <2>1. CASE pos + n = Len(write_buf)
    <3>1. write_buf' = <<>> /\ pos' = 0 /\ blocked' = blocked
      BY <1>6, <2>1
    <3>2. Range(write_buf') = {} /\ Len(write_buf') = 0 /\ write_buf' \in Seq(Requests)
      BY <3>1, Elements
    <3> QED BY <3>1, <3>2 DEF TypeOK
  <2>2. CASE pos + n # Len(write_buf)
    <3>1. write_buf' = write_buf /\ pos' = pos + n /\ blocked' = TRUE
      BY <1>6, <2>2
    <3> QED BY <1>3, <1>4, <1>5, <3>1
  <2> QED BY <2>1, <2>2
<1>8. TypeOK'
  BY <1>1, <1>5, <1>7 DEF TypeOK
<1>9. CallsInStep' /\ Continues
  <2>1. CASE pos + n = Len(write_buf)
    <3>1. PICK op : op = Asked
      OBVIOUS
    <3>2. todo' = <<Receive(calls' - 1, op)>>
      BY <1>1, <1>6, <2>1, <3>1, NextStep
    <3>3. todo' # <<>> /\ Asked' = Asked /\ AtStep' /\ ~Doing("send")' /\ ~Doing("flush")' /\ pos' = 0
      BY <1>6, <2>1, <3>1, <3>2, NowAt
    <3> QED BY <1>1, <3>3, CallGoesOn
  <2>2. CASE pos + n # Len(write_buf)
    <3>1. todo' = todo
      BY <1>6, <2>2
    <3>2. Asked' = Asked /\ Doing("send")' = Doing("send") /\ Doing("flush")' = Doing("flush")
      BY <3>1 DEF Asked, Doing
    <3>3. AtStep' = AtStep
      BY <1>1, <3>1, <3>2 DEF AtStep, OwnBytes
    <3>4. AtStep'
      BY <1>1, <3>3 DEF CallsInStep
    <3> QED BY <1>1, <3>1, <3>2, <3>4, CallGoesOn
  <2> QED BY <2>1, <2>2
<1>10. Pending' \subseteq Pending /\ Answers' = Answers /\ server'.part = server.part
  <2>1. Answers' = Answers /\ server'.part = server.part
    BY <1>1, RepliesKept
  <2> QED BY <1>4, <1>5, <1>7, <2>1 DEF Pending
<1>11. write_buf = <<>> => wire' = wire /\ write_buf' = <<>>
  <2>1. ASSUME write_buf = <<>> PROVE wire' = wire /\ write_buf' = <<>>
    <3>1. Len(write_buf) = 0
      BY <2>1
    <3>2. pos = 0 /\ n = 0
      BY <1>3, <1>4, <1>5, <3>1
    <3>3. write_buf' = <<>>
      BY <1>6, <2>1, <3>1, <3>2
    <3>4. Len(wire') = Len(wire)
      BY <1>3, <1>5, <3>2
    <3>5. \A i \in 1..Len(wire') : wire'[i] = wire[i]
      BY <1>3, <1>5, <3>2
    <3> QED BY <1>3, <1>5, <3>3, <3>4, <3>5, SeqEqual
  <2> QED BY <2>1
<1>12. Quiet => Quiet'
  BY <1>10, <1>11 DEF Quiet
<1>13. PendingGood' /\ AnswersGood'
  BY <1>1, <1>9, <1>10, <1>12, GoodKept, AllGood
<1>14. FileKnown' /\ AnswerIsOwn'
  BY <1>1, FileKept DEF AnswerIsOwn
<1>15. LastIsLast'
  <2>1. /\ DOMAIN wire' = 1..Len(wire') /\ DOMAIN wire = 1..Len(wire)
        /\ DOMAIN write_buf = 1..Len(write_buf)
    BY <1>3, <1>5, LenProperties
  <2>2. ASSUME NEW i \in 1..Len(wire'), wire'[i].part = 2, wire'[i].call = calls
        PROVE  i = Len(wire') /\ write_buf' = <<>>
    <3>1. CASE i \in 1..Len(wire) /\ wire'[i] = wire[i]
      <4>1. i = Len(wire) /\ write_buf = <<>>
        BY <2>1, <2>2, <3>1 DEF LastIsLast
      <4> QED BY <1>11, <4>1
    <3>2. CASE i - Len(wire) \in 1..n /\ wire'[i] = q[i - Len(wire)]
      <4>1. PICK j \in 1..n : j = i - Len(wire)
        BY <3>2
      <4>2. j \in 1..Len(q) /\ pos + j \in 1..Len(write_buf)
        BY <1>3, <1>4, <1>5
      <4>3. wire'[i] = write_buf[pos + j]
        BY <1>4, <3>2, <4>1, <4>2
      <4>4. pos + j = Len(write_buf)
        BY <2>1, <2>2, <4>2, <4>3 DEF LastIsLast
      <4>5. j = n /\ pos + n = Len(write_buf)
        <5>1. \A p, x, y, l \in Nat : p + x = l /\ x <= y /\ y <= l - p => x = y /\ p + y = l
          OBVIOUS
        <5>2. j \in Nat /\ j <= n /\ n <= Len(write_buf) - pos /\ n \in Nat
          BY <1>4, <1>5
        <5> QED
          BY <1>3, <4>4, <5>1, <5>2
      <4>6. i = Len(wire')
        BY <1>3, <1>5, <4>1, <4>5
      <4> QED BY <1>6, <4>5, <4>6
    <3> QED BY <1>5, <3>1, <3>2
  <2>3. ASSUME NEW i \in DOMAIN write_buf', write_buf'[i].part = 2, write_buf'[i].call = calls
        PROVE  i = Len(write_buf')
    <3>1. CASE write_buf' = <<>>
      BY <2>3, <3>1
    <3>2. CASE write_buf' = write_buf
      BY <2>3, <3>2 DEF LastIsLast
    <3> QED BY <1>6, <3>1, <3>2
  <2>4. \A b \in Range(server'.part) : b.part = 1
    BY <1>10 DEF LastIsLast
  <2> QED BY <1>1, <2>1, <2>2, <2>3, <2>4 DEF LastIsLast
<1> QED
  BY <1>8, <1>9, <1>13, <1>14, <1>15

\* A record of the server's, field by field.
LEMMA ServerTyped ==
  ASSUME TypeOK
  PROVE  /\ server.exts \in Extensions /\ server.phase \in {"serving", "leaving", "gone"}
         /\ server.part \in Seq(Requests) /\ server.out \in Seq(Replies)
         /\ server.credit \in Nat /\ server.content \in Seq(Nat) /\ Len(server.content) \in Nat
<1>1. /\ server.exts \in Extensions /\ server.phase \in {"serving", "leaving", "gone"}
      /\ server.part \in Seq(Requests) /\ server.out \in Seq(Replies)
      /\ server.credit \in Nat /\ server.content \in Seq(Nat)
  BY DEF TypeOK
<1> QED
  BY <1>1, LenProperties

\* Messages that say what the server has had to say, or nothing.
LEMMA SpeakStep ==
  ASSUME SftpInv, NEW msgs \in Seq(Messages), inbox' = inbox \o msgs,
         UNCHANGED <<wire, write_buf, read_buf, pos, blocked>>, window' \in Nat, ServerUnchanged,
         server' \in [exts : Extensions, phase : {"serving", "leaving", "gone"},
                      part : Seq(Requests), out : Seq(Replies), credit : Nat, content : Seq(Nat)],
         server'.part = server.part, server'.content = server.content,
         Range(server'.out) \subseteq Range(server.out),
         \A msg \in Range(msgs) : Said(msg) \subseteq Range(server.out)
  PROVE  SftpInv'
<1> USE DEF SftpInv, ServerUnchanged, sftpVars
<1>1. inbox \in Seq(Messages)
  BY DEF TypeOK
<1>2. inbox' \in Seq(Messages) /\ Range(inbox') = Range(inbox) \cup Range(msgs)
  BY <1>1, ConcatProperties, RangeConcatenation
<1>3. TypeOK'
  BY <1>2 DEF TypeOK
<1>4. CallsInStep' /\ Continues
  BY SameStep
<1>5. Answers' \subseteq Answers
  <2>1. Answers' = Range(read_buf) \cup Range(server'.out) \cup UNION {Said(m) : m \in Range(inbox')}
    BY DEF Answers, Said
  <2>2. \A m \in Range(inbox') : Said(m) \subseteq Answers
    BY <1>2 DEF Answers
  <2> QED BY <2>1, <2>2 DEF Answers
<1>6. Pending' = Pending /\ (Quiet => Quiet') /\ LastIsLast' /\ FileKnown'
  BY RequestsKept, LastKept, FileKept
<1>7. PendingGood' /\ AnswersGood'
  BY <1>4, <1>5, <1>6, GoodKept, AllGood
<1> QED
  BY <1>3, <1>4, <1>6, <1>7 DEF AnswerIsOwn

\* The server sends some of what it has to say.
LEMMA ServerSpeaksStep ==
  ASSUME SftpInv, ServerSpeaks
  PROVE  SftpInv'
<1>1. PICK n \in 1..Len(server.out) :
        /\ Put([type |-> "stdout", data |-> SubSeq(server.out, 1, n)])
        /\ server' = [server EXCEPT !.out = Rest(@, n)]
  BY DEF ServerSpeaks
<1>2. server.out \in Seq(Replies) /\ inbox \in Seq(Messages) /\ window \in Nat /\ TypeOK
  BY ServerTyped DEF SftpInv, TypeOK
<1>3. Len(server.out) \in Nat
  BY <1>2, LenProperties
<1> DEFINE said == SubSeq(server.out, 1, n)
           left == SubSeq(server.out, n + 1, Len(server.out))
           msg == [type |-> "stdout", data |-> said]
<1>4. said \in Seq(Replies) /\ Range(said) \subseteq Range(server.out)
  BY <1>2, <1>3, PartOf
<1>5. left \in Seq(Replies) /\ Range(left) \subseteq Range(server.out)
  BY <1>2, <1>3, PartOf
<1>6. server' = [server EXCEPT !.out = left]
  BY <1>1 DEF Rest
<1> HIDE DEF said, left
<1>7. msg \in Messages /\ Said(msg) = Range(said)
  BY <1>4 DEF Messages, Said
<1>8. inbox' = Append(inbox, msg) /\ UNCHANGED <<wire, write_buf, read_buf, pos, blocked, window>>
  BY <1>1 DEF Put, ServerSpeaks, said
<1> HIDE DEF msg
<1>9. inbox' = inbox \o <<msg>> /\ <<msg>> \in Seq(Messages) /\ Range(<<msg>>) = {msg}
  BY <1>2, <1>7, <1>8, AppendIsConcat, Elements
<1>10. /\ server' \in [exts : Extensions, phase : {"serving", "leaving", "gone"},
                       part : Seq(Requests), out : Seq(Replies), credit : Nat, content : Seq(Nat)]
       /\ server'.part = server.part /\ server'.content = server.content /\ server'.out = left
  BY <1>2, <1>5, <1>6 DEF TypeOK
<1>11. ServerUnchanged /\ window' \in Nat
  BY <1>2, <1>8 DEF ServerSpeaks
<1>12. \A m \in Range(<<msg>>) : Said(m) \subseteq Range(server.out)
  BY <1>4, <1>7, <1>9
<1>13. Range(server'.out) \subseteq Range(server.out)
  BY <1>5, <1>10
<1> QED
  BY <1>8, <1>9, <1>10, <1>11, <1>12, <1>13, SpeakStep

\* The server gives window back.
LEMMA ServerGrantsStep ==
  ASSUME SftpInv, ServerGrants
  PROVE  SftpInv'
<1> DEFINE msg == [type |-> "window"]
<1>1. /\ inbox' = Append(inbox, msg) /\ UNCHANGED <<wire, write_buf, read_buf, pos, blocked>>
      /\ window' = window + server.credit /\ server' = [server EXCEPT !.credit = 0]
      /\ ServerUnchanged
  BY DEF ServerGrants, Put
<1>2. inbox \in Seq(Messages) /\ window \in Nat /\ server.credit \in Nat /\ TypeOK
  BY ServerTyped DEF SftpInv, TypeOK
<1>3. msg \in Messages /\ Said(msg) = {}
  BY DEF Messages, Said
<1> HIDE DEF msg
<1>4. inbox' = inbox \o <<msg>> /\ <<msg>> \in Seq(Messages) /\ Range(<<msg>>) = {msg}
  BY <1>1, <1>2, <1>3, AppendIsConcat, Elements
<1>5. /\ server' \in [exts : Extensions, phase : {"serving", "leaving", "gone"},
                      part : Seq(Requests), out : Seq(Replies), credit : Nat, content : Seq(Nat)]
      /\ server'.part = server.part /\ server'.content = server.content /\ server'.out = server.out
  BY <1>1, <1>2 DEF TypeOK
<1>6. window' \in Nat
  BY <1>1, <1>2
<1>7. /\ \A m \in Range(<<msg>>) : Said(m) \subseteq Range(server.out)
      /\ Range(server'.out) \subseteq Range(server.out)
  BY <1>3, <1>4, <1>5
<1> QED
  BY <1>1, <1>4, <1>5, <1>6, <1>7, SpeakStep

\* The server closes the channel.
LEMMA ServerExitsStep ==
  ASSUME SftpInv, ServerExits
  PROVE  SftpInv'
<1> DEFINE a == [type |-> "exit"]
           b == [type |-> "eof"]
           c == [type |-> "close"]
<1>1. /\ inbox' = inbox \o <<a, b, c>> /\ UNCHANGED <<window, wire, write_buf, read_buf, pos, blocked>>
      /\ server' = [server EXCEPT !.phase = "gone"] /\ ServerUnchanged
  BY DEF ServerExits
<1>2. inbox \in Seq(Messages) /\ window \in Nat /\ TypeOK
  BY DEF SftpInv, TypeOK
<1>3. a \in Messages /\ b \in Messages /\ c \in Messages /\ Said(a) = {} /\ Said(b) = {} /\ Said(c) = {}
  BY DEF Messages, Said
<1> HIDE DEF a, b, c
<1>4. <<a, b, c>> \in Seq(Messages) /\ Range(<<a, b, c>>) = {a, b, c}
  BY <1>3, Elements
<1>5. /\ server' \in [exts : Extensions, phase : {"serving", "leaving", "gone"},
                      part : Seq(Requests), out : Seq(Replies), credit : Nat, content : Seq(Nat)]
      /\ server'.part = server.part /\ server'.content = server.content /\ server'.out = server.out
  BY <1>1, <1>2 DEF TypeOK
<1>6. /\ \A m \in Range(<<a, b, c>>) : Said(m) \subseteq Range(server.out)
      /\ Range(server'.out) \subseteq Range(server.out)
  BY <1>3, <1>4, <1>5
<1> QED
  BY <1>1, <1>2, <1>4, <1>5, <1>6, SpeakStep

\* The file after a byte x is written.
Write(c, at, x) == SubSeq(c, 1, at) \o <<x>> \o SubSeq(c, at + 2, Len(c))

\* A byte is written at an offset that is not beyond the end.
LEMMA Written ==
  ASSUME NEW c \in Seq(Nat), NEW at \in Nat, at <= Len(c), NEW x \in Nat,
         NEW d, d = Write(c, at, x)
  PROVE  /\ d \in Seq(Nat) /\ Len(d) >= Len(c) /\ at < Len(d) /\ d[at + 1] = x
         /\ \A i \in 1..at : d[i] = c[i]
<1>1. Len(c) \in Nat
  BY LenProperties
<1> DEFINE a == SubSeq(c, 1, at)
           z == SubSeq(c, at + 2, Len(c))
           m == a \o <<x>>
<1>2. /\ a \in Seq(Nat) /\ Len(a) = IF 1 <= at THEN at - 1 + 1 ELSE 0
      /\ \A i \in 1..Len(a) : a[i] = c[1 + i - 1]
  BY PartOf
<1>3. z \in Seq(Nat) /\ Len(z) = IF at + 2 <= Len(c) THEN Len(c) - (at + 2) + 1 ELSE 0
  BY <1>1, PartOf
<1>4. d = m \o z
  BY DEF Write
<1> HIDE DEF a, z
<1>5. Len(a) = at /\ \A i \in 1..at : a[i] = c[i]
  <2>1. Len(a) = at
    BY <1>2
  <2>2. \A i \in 1..at : 1 + i - 1 = i
    OBVIOUS
  <2> QED BY <1>2, <2>1, <2>2
<1>6. <<x>> \in Seq(Nat) /\ Len(<<x>>) = 1 /\ <<x>>[1] = x
  OBVIOUS
<1>7. /\ m \in Seq(Nat) /\ Len(m) = Len(a) + Len(<<x>>)
      /\ \A i \in 1..Len(a) + Len(<<x>>) : m[i] = IF i <= Len(a) THEN a[i] ELSE <<x>>[i - Len(a)]
  BY <1>2, <1>6, ConcatProperties
<1> HIDE DEF m
<1>8. Len(m) = at + 1 /\ m[at + 1] = x /\ \A i \in 1..at : m[i] = c[i]
  <2>1. Len(m) = at + 1
    BY <1>5, <1>6, <1>7
  <2>2. m[at + 1] = x
    <3>1. at + 1 \in 1..Len(a) + Len(<<x>>) /\ ~(at + 1 <= Len(a)) /\ at + 1 - Len(a) = 1
      BY <1>5, <1>6
    <3> QED BY <1>6, <1>7, <3>1
  <2>3. ASSUME NEW i \in 1..at PROVE m[i] = c[i]
    <3>1. i \in 1..Len(a) + Len(<<x>>) /\ i <= Len(a)
      BY <1>5, <1>6
    <3> QED BY <1>5, <1>7, <3>1
  <2> QED BY <2>1, <2>2, <2>3
<1>9. /\ d \in Seq(Nat) /\ Len(d) = Len(m) + Len(z)
      /\ \A i \in 1..Len(m) + Len(z) : d[i] = IF i <= Len(m) THEN m[i] ELSE z[i - Len(m)]
  <2>1. m \in Seq(Nat) /\ z \in Seq(Nat)
    BY <1>3, <1>7
  <2>2. /\ m \o z \in Seq(Nat) /\ Len(m \o z) = Len(m) + Len(z)
        /\ \A i \in 1..Len(m) + Len(z) : (m \o z)[i] = IF i <= Len(m) THEN m[i] ELSE z[i - Len(m)]
    BY <2>1, ConcatProperties, Zenon
  <2> QED BY <1>4, <2>2, Zenon
<1>10. Len(z) \in Nat /\ Len(d) = at + 1 + Len(z)
  <2>1. Len(z) \in Nat
    BY <1>3, LenProperties
  <2>2. Len(d) = Len(m) + Len(z) /\ Len(m) = at + 1
    BY <1>8, <1>9
  <2> QED BY <2>1, <2>2, Zenon
<1>11. \A i \in 1..at + 1 : d[i] = m[i]
  <2>1. \A i \in 1..at + 1 : i \in 1..Len(m) + Len(z) /\ i <= Len(m)
    BY <1>8, <1>10
  <2> QED BY <1>9, <2>1
<1>12. Len(d) >= Len(c) /\ at < Len(d)
  <2>1. \A l, k, y \in Nat : k = (IF at + 2 <= l THEN l - (at + 2) + 1 ELSE 0) /\ y = at + 1 + k /\ at <= l
                             => y >= l /\ at < y
    OBVIOUS
  <2>2. Len(d) \in Nat
    BY <1>9, LenProperties
  <2>3. Len(z) = IF at + 2 <= Len(c) THEN Len(c) - (at + 2) + 1 ELSE 0
    BY <1>3
  <2> QED BY <1>1, <1>10, <2>1, <2>2, <2>3
<1>13. at + 1 \in 1..at + 1 /\ \A i \in 1..at : i \in 1..at + 1
  OBVIOUS
<1> QED
  BY <1>8, <1>9, <1>11, <1>12, <1>13

\* The server takes a byte; the last call cannot have been answered yet.
LEMMA TakeByteFacts ==
  ASSUME SftpInv, TakeByte
  PROVE  /\ Head(wire) \in Requests /\ Head(wire) \in Range(wire) /\ GoodRequest(Head(wire))
         /\ wire' \in Seq(Requests) /\ Range(wire') \subseteq Range(wire)
         /\ Head(wire).part = 2 /\ Head(wire).call = calls => wire' = <<>> /\ write_buf = <<>>
         /\ \A r \in Answers : r.call # calls
         /\ \A i \in DOMAIN wire' :
              wire'[i].part = 2 /\ wire'[i].call = calls => i = Len(wire') /\ write_buf = <<>>
<1> USE DEF SftpInv
<1>1. wire \in Seq(Requests) /\ wire # <<>> /\ wire' = Tail(wire)
  BY DEF TypeOK, TakeByte
<1>2. /\ Head(wire) \in Requests /\ Head(wire) \in Range(wire) /\ Head(wire) = wire[1]
      /\ Tail(wire) \in Seq(Requests) /\ Range(Tail(wire)) \subseteq Range(wire)
      /\ Len(wire) > 0 /\ Len(Tail(wire)) = Len(wire) - 1
      /\ \A i \in 1..Len(Tail(wire)) : Tail(wire)[i] = wire[i + 1]
  BY <1>1, HeadAndTail
<1>3. Len(wire) \in Nat /\ DOMAIN wire = 1..Len(wire) /\ DOMAIN wire' = 1..Len(wire')
  BY <1>1, <1>2, LenProperties
<1>4. GoodRequest(Head(wire))
  BY <1>2 DEF PendingGood, Pending
<1>5. ASSUME Head(wire).part = 2, Head(wire).call = calls PROVE wire' = <<>> /\ write_buf = <<>>
  <2>1. 1 \in DOMAIN wire
    BY <1>2, <1>3
  <2>2. 1 = Len(wire) /\ write_buf = <<>>
    BY <1>2, <1>5, <2>1 DEF LastIsLast
  <2>3. Len(wire') = 0
    BY <1>1, <1>2, <2>2
  <2> QED BY <1>1, <1>2, <2>2, <2>3, EmptySeq
<1>6. \A r \in Answers : r.call # calls
  BY <1>1 DEF AnswersGood, GoodReply, Quiet
<1>7. ASSUME NEW i \in DOMAIN wire', wire'[i].part = 2, wire'[i].call = calls
      PROVE  i = Len(wire') /\ write_buf = <<>>
  <2>1. i \in 1..Len(wire') /\ wire'[i] = wire[i + 1] /\ i + 1 \in DOMAIN wire
    BY <1>1, <1>2, <1>3, <1>7
  <2>2. i + 1 = Len(wire) /\ write_buf = <<>>
    BY <1>7, <2>1 DEF LastIsLast
  <2> QED BY <1>1, <1>2, <1>3, <2>1, <2>2
<1> QED
  BY <1>1, <1>2, <1>4, <1>5, <1>6, <1>7

\* The server reads a byte without answering: the first of a request, or one that makes it
\* leave.
LEMMA ReadOnStep ==
  ASSUME SftpInv, TakeByte, ServerUnchanged,
         server' \in [exts : Extensions, phase : {"serving", "leaving", "gone"},
                      part : Seq(Requests), out : Seq(Replies), credit : Nat, content : Seq(Nat)],
         server'.out = server.out, server'.content = server.content,
         \/ server'.part = server.part
         \/ server'.part = <<Head(wire)>> /\ Head(wire).part = 1
  PROVE  SftpInv'
<1> USE DEF SftpInv, ServerUnchanged, sftpVars
<1>1. /\ Head(wire) \in Requests /\ Head(wire) \in Range(wire) /\ wire # <<>>
      /\ wire' \in Seq(Requests) /\ Range(wire') \subseteq Range(wire)
      /\ \A i \in DOMAIN wire' :
           wire'[i].part = 2 /\ wire'[i].call = calls => i = Len(wire') /\ write_buf = <<>>
      /\ UNCHANGED <<window, inbox, write_buf, read_buf, pos, blocked>>
  BY TakeByteFacts DEF TakeByte
<1>2. TypeOK'
  BY <1>1 DEF TypeOK
<1>3. CallsInStep' /\ Continues
  BY <1>1, SameStep
<1>4. /\ Range(server'.part) \subseteq Range(server.part) \cup {Head(wire)}
      /\ \A b \in Range(server'.part) : b.part = 1
  <2>1. Range(<<Head(wire)>>) = {Head(wire)}
    BY Elements
  <2> QED BY <2>1 DEF LastIsLast
<1>5. Pending' \subseteq Pending
  BY <1>1, <1>4 DEF Pending
<1>6. Answers' = Answers /\ FileKnown'
  BY <1>1, RepliesKept, FileKept
<1>7. ~Quiet
  BY <1>1 DEF Quiet
<1>8. PendingGood' /\ AnswersGood'
  BY <1>3, <1>5, <1>6, <1>7, GoodKept, AllGood
<1>9. LastIsLast'
  BY <1>1, <1>4 DEF LastIsLast
<1> QED
  BY <1>2, <1>3, <1>6, <1>8, <1>9 DEF AnswerIsOwn

\* What the server makes of a request.
After(c, byte, payload) ==
  IF byte.op.effect = "write" /\ payload = "ok"
  THEN Write(c, byte.at, byte.call)
  ELSE c

\* The file is not touched before the cursor, and a write is where its request says.
LEMMA AfterFacts ==
  ASSUME NEW c \in Seq(Nat), NEW byte \in Requests, byte.at <= Len(c), NEW payload,
         NEW d, d = After(c, byte, payload)
  PROVE  /\ d \in Seq(Nat) /\ Len(d) >= Len(c) /\ \A i \in 1..byte.at : d[i] = c[i]
         /\ byte.op.effect = "write" /\ payload = "ok" =>
              byte.at < Len(d) /\ d[byte.at + 1] = byte.call
         /\ byte.op.effect = "read" => d = c
<1>1. byte.at \in Nat /\ byte.call \in Nat /\ Len(c) \in Nat
  BY LenProperties DEF Requests
<1>2. CASE byte.op.effect = "write" /\ payload = "ok"
  <2>1. d = Write(c, byte.at, byte.call)
    BY <1>2 DEF After
  <2>2. /\ d \in Seq(Nat) /\ Len(d) >= Len(c) /\ byte.at < Len(d) /\ d[byte.at + 1] = byte.call
        /\ \A i \in 1..byte.at : d[i] = c[i]
    BY <1>1, <2>1, Written
  <2> QED BY <1>2, <2>2, Zenon
<1>3. CASE ~(byte.op.effect = "write" /\ payload = "ok")
  BY <1>1, <1>3 DEF After
<1> QED
  BY <1>2, <1>3

\* The reply has the request's call and identifier, and data only of a read.
LEMMA ReplyFacts ==
  ASSUME SftpInv, NEW byte \in Requests, NEW payload \in Payloads, NEW part \in {1, 2},
         byte.op.effect = "read" /\ payload = "asked" => byte.at < Len(server.content),
         NEW r, r = ReplyByte(part, byte, payload)
  PROVE  /\ r \in Replies /\ r.id = byte.id /\ r.call = byte.call /\ r.payload = payload
         /\ \/ r.data = <<>>
            \/ /\ byte.at < Len(server.content)
               /\ r.data = <<server.content[byte.at + 1]>>
<1>1. /\ byte.at \in Nat /\ byte.call \in Nat /\ byte.id \in Nat
      /\ server.exts \in Extensions /\ server.content \in Seq(Nat) /\ Len(server.content) \in Nat
  BY ServerTyped DEF Requests, SftpInv
<1>2. /\ r.part = part /\ r.id = byte.id /\ r.call = byte.call /\ r.payload = payload
      /\ r.data = IF byte.op.effect = "read" /\ payload = "asked"
                  THEN <<server.content[byte.at + 1]>> ELSE <<>>
      /\ r.exts = IF byte.op = Version THEN server.exts ELSE {}
      /\ r = [part |-> r.part, id |-> r.id, call |-> r.call, payload |-> r.payload,
              data |-> r.data, exts |-> r.exts]
  BY DEF ReplyByte
<1>3. \/ r.data = <<>>
      \/ byte.at < Len(server.content) /\ r.data = <<server.content[byte.at + 1]>>
  BY <1>2
<1>4. r.data \in Seq(Nat)
  <2>1. CASE r.data = <<>>
    BY <2>1
  <2>2. CASE byte.at < Len(server.content) /\ r.data = <<server.content[byte.at + 1]>>
    <3>1. byte.at + 1 \in 1..Len(server.content)
      BY <1>1, <2>2
    <3>2. server.content[byte.at + 1] \in Nat
      BY <1>1, <3>1, ElementOfSeq
    <3> QED BY <2>2, <3>2
  <2> QED BY <1>3, <2>1, <2>2
<1>5. r.exts \in Extensions \cup {{}}
  BY <1>1, <1>2
<1>6. r \in Replies
  BY <1>1, <1>2, <1>4, <1>5 DEF Replies
<1> QED
  BY <1>2, <1>3, <1>6

\* The server has the whole request, does what it asks and answers.
LEMMA AnswerStep ==
  ASSUME SftpInv, TakeByte, ServerUnchanged, NEW byte, byte = Head(wire), byte.part = 2,
         NEW payload \in Payloads,
         byte.op.effect = "read" /\ payload = "asked" => byte.at < Len(server.content),
         server' = [server EXCEPT !.part = <<>>, !.credit = @ + 1,
                      !.out = @ \o ServerReply(byte, payload),
                      !.content = After(@, byte, payload)]
  PROVE  SftpInv'
<1> USE DEF SftpInv, ServerUnchanged, sftpVars
<1>1. /\ byte \in Requests /\ byte \in Range(wire) /\ GoodRequest(byte) /\ wire # <<>>
      /\ wire' \in Seq(Requests) /\ Range(wire') \subseteq Range(wire)
      /\ byte.call = calls => wire' = <<>> /\ write_buf = <<>>
      /\ \A r \in Answers : r.call # calls
      /\ \A i \in DOMAIN wire' :
           wire'[i].part = 2 /\ wire'[i].call = calls => i = Len(wire') /\ write_buf = <<>>
      /\ UNCHANGED <<window, inbox, write_buf, read_buf, pos, blocked>>
  BY TakeByteFacts DEF TakeByte
<1>2. /\ server.exts \in Extensions /\ server.phase \in {"serving", "leaving", "gone"}
      /\ server.out \in Seq(Replies) /\ server.credit \in Nat /\ server.content \in Seq(Nat)
      /\ Len(server.content) \in Nat
  BY ServerTyped
<1>3. /\ byte.at \in Nat /\ byte.call \in Nat /\ byte.at >= cursor /\ byte.at <= Len(server.content)
      /\ cursor \in Nat /\ calls \in Nat
  BY <1>1 DEF Requests, GoodRequest, TypeOK
<1>4. PICK r1 : r1 = ReplyByte(1, byte, payload)
  OBVIOUS
<1>5. PICK r2 : r2 = ReplyByte(2, byte, payload)
  OBVIOUS
<1>6. \A r \in {r1, r2} :
        /\ r \in Replies /\ r.id = byte.id /\ r.call = byte.call /\ r.payload = payload
        /\ \/ r.data = <<>>
           \/ byte.at < Len(server.content) /\ r.data = <<server.content[byte.at + 1]>>
  <2>1. /\ r1 \in Replies /\ r1.id = byte.id /\ r1.call = byte.call /\ r1.payload = payload
        /\ \/ r1.data = <<>>
           \/ byte.at < Len(server.content) /\ r1.data = <<server.content[byte.at + 1]>>
    BY <1>1, <1>4, ReplyFacts
  <2>2. /\ r2 \in Replies /\ r2.id = byte.id /\ r2.call = byte.call /\ r2.payload = payload
        /\ \/ r2.data = <<>>
           \/ byte.at < Len(server.content) /\ r2.data = <<server.content[byte.at + 1]>>
    BY <1>1, <1>5, ReplyFacts
  <2> QED BY <2>1, <2>2
<1>7. PICK d : d = After(server.content, byte, payload)
  OBVIOUS
<1>8. /\ d \in Seq(Nat) /\ Len(d) >= Len(server.content)
      /\ \A i \in 1..byte.at : d[i] = server.content[i]
      /\ byte.op.effect = "write" /\ payload = "ok" =>
           byte.at < Len(d) /\ d[byte.at + 1] = byte.call
      /\ byte.op.effect = "read" => d = server.content
  <2>1. PICK c \in Seq(Nat) : c = server.content
    BY <1>2
  <2>2. d = After(c, byte, payload) /\ byte.at <= Len(c)
    BY <1>3, <1>7, <2>1
  <2>3. /\ d \in Seq(Nat) /\ Len(d) >= Len(c) /\ \A i \in 1..byte.at : d[i] = c[i]
        /\ byte.op.effect = "write" /\ payload = "ok" =>
             byte.at < Len(d) /\ d[byte.at + 1] = byte.call
        /\ byte.op.effect = "read" => d = c
    BY <1>1, <2>2, AfterFacts
  <2> QED BY <2>1, <2>3, Zenon
<1>9. Len(d) \in Nat
  BY <1>8, LenProperties
<1>10. <<r1, r2>> \in Seq(Replies) /\ Range(<<r1, r2>>) = {r1, r2}
  BY <1>6, Elements
<1> DEFINE out == server.out \o <<r1, r2>>
<1>11. out \in Seq(Replies) /\ Range(out) = Range(server.out) \cup {r1, r2}
  <2>1. out \in Seq(Replies)
    BY <1>2, <1>10, ConcatProperties, Zenon
  <2>2. Range(out) = Range(server.out) \cup Range(<<r1, r2>>)
    <3>1. PICK o \in Seq(Replies) : o = server.out
      BY <1>2
    <3>2. PICK p \in Seq(Replies) : p = <<r1, r2>>
      BY <1>10
    <3>3. Range(o \o p) = Range(o) \cup Range(p)
      BY RangeConcatenation
    <3> QED BY <3>1, <3>2, <3>3, Zenon
  <2> QED BY <1>10, <2>1, <2>2, Zenon
<1>12. server' = [server EXCEPT !.part = <<>>, !.credit = @ + 1, !.out = out, !.content = d]
  BY <1>4, <1>5, <1>7 DEF ServerReply
<1> HIDE DEF out
<1>13. server'.part = <<>> /\ server'.out = out /\ server'.content = d
  BY <1>12 DEF TypeOK
<1>14. TypeOK'
  <2>1. <<>> \in Seq(Requests) /\ server.credit + 1 \in Nat
    BY <1>2
  <2>2. server' \in [exts : Extensions, phase : {"serving", "leaving", "gone"},
                     part : Seq(Requests), out : Seq(Replies), credit : Nat, content : Seq(Nat)]
    BY <1>8, <1>11, <1>12, <2>1 DEF TypeOK
  <2> QED BY <1>1, <2>2 DEF TypeOK
<1>15. CallsInStep' /\ Asked' = Asked /\ Doing("send")' = Doing("send")
  BY <1>1, SameStep DEF Asked, Doing
<1>16. /\ Pending' \subseteq Pending /\ Range(server'.part) = {}
       /\ Answers' \subseteq Answers \cup {r1, r2}
  <2>1. Range(server'.part) = {}
    BY <1>13, Elements
  <2>2. Answers' = Range(read_buf) \cup Range(server'.out) \cup UNION {Said(m) : m \in Range(inbox)}
    BY <1>1 DEF Answers, Said
  <2> QED BY <1>1, <1>11, <1>13, <2>1, <2>2 DEF Pending, Answers
<1>17. PendingGood'
  <2>1. ASSUME NEW b \in Pending PROVE GoodRequest(b)'
    <3>1. GoodRequest(b) /\ b.at \in Nat
      BY BytesTyped DEF PendingGood, Requests
    <3>2. b.at <= Len(server'.content)
      <4>1. b.at <= Len(server.content)
        BY <3>1 DEF GoodRequest
      <4>2. \A x, y, z \in Nat : x <= y /\ z >= y => x <= z
        OBVIOUS
      <4> QED BY <1>2, <1>8, <1>9, <1>13, <3>1, <4>1, <4>2
    <3> QED BY <1>15, <3>1, <3>2 DEF GoodRequest
  <2> QED BY <1>16, <2>1 DEF PendingGood
<1>18. AnswersGood'
  <2>1. ASSUME NEW r \in Answers PROVE GoodReply(r)'
    BY <1>1 DEF AnswersGood, GoodReply
  <2>2. ASSUME NEW r \in {r1, r2} PROVE GoodReply(r)'
    <3>1. /\ r.id = byte.id /\ r.call = byte.call /\ r.payload = payload
          /\ \/ r.data = <<>>
             \/ byte.at < Len(server.content) /\ r.data = <<server.content[byte.at + 1]>>
      BY <1>6
    <3>2. r.call > 0 /\ r.call <= calls /\ r.id = r.call - 1
      BY <1>1, <3>1 DEF GoodRequest
    <3>3. r.call = calls => Quiet'
      BY <1>1, <1>13, <3>1 DEF Quiet
    <3>4. ASSUME r.call = calls, todo' # <<>> PROVE ~Doing("send")' /\ Told(r)'
      <4>1. byte.op = Asked /\ byte.at = cursor /\ ~Doing("send")
        BY <1>1, <3>1, <3>4 DEF GoodRequest
      <4>2. Asked.effect = "write" /\ r.payload = "ok" => cursor < Len(d) /\ d[cursor + 1] = calls
        BY <1>8, <3>1, <3>4, <4>1
      <4>3. Asked.effect = "read" => r.data = <<>> \/ (cursor < Len(d) /\ r.data = <<d[cursor + 1]>>)
        BY <1>8, <3>1, <4>1
      <4> QED BY <1>13, <1>15, <4>1, <4>2, <4>3 DEF Told
    <3> QED BY <3>2, <3>3, <3>4 DEF GoodReply
  <2> QED BY <1>16, <2>1, <2>2 DEF AnswersGood
<1>19. LastIsLast'
  BY <1>1, <1>16 DEF LastIsLast
<1>20. FileKnown'
  <2>1. \A i \in 1..cursor : i \in 1..byte.at
    BY <1>3
  <2>2. \A i \in 1..cursor : known[i] = d[i]
    BY <1>8, <2>1 DEF FileKnown
  <2>3. cursor <= Len(d)
    <3>1. \A x, y, z \in Nat : x <= y /\ z >= y => x <= z
      OBVIOUS
    <3>2. cursor <= Len(server.content)
      BY DEF FileKnown
    <3> QED BY <1>2, <1>3, <1>8, <1>9, <3>1, <3>2
  <2> QED BY <1>13, <2>2, <2>3 DEF FileKnown
<1> QED
  BY <1>14, <1>15, <1>17, <1>18, <1>19, <1>20 DEF AnswerIsOwn

\* The server reads a byte: the first of a request, its last, or one it cannot use.
LEMMA ServerReadsStep ==
  ASSUME SftpInv, ServerReads
  PROVE  SftpInv'
<1>1. TakeByte /\ ServerUnchanged
  BY DEF ServerReads
<1>2. PICK byte : byte = Head(wire)
  OBVIOUS
<1>3. byte \in Requests /\ byte.op \in Kinds
  BY <1>1, <1>2, TakeByteFacts DEF Requests
<1>4. /\ server.exts \in Extensions /\ server.phase \in {"serving", "leaving", "gone"}
      /\ server.part \in Seq(Requests) /\ server.out \in Seq(Replies)
      /\ server.credit \in Nat /\ server.content \in Seq(Nat) /\ server.credit + 1 \in Nat
  BY ServerTyped DEF SftpInv
<1>5. CASE server.part = <<>> /\ byte.part = 1
  <2>1. server' = [server EXCEPT !.part = <<byte>>, !.credit = @ + 1]
    BY <1>2, <1>5 DEF ServerReads
  <2>2. <<byte>> \in Seq(Requests)
    BY <1>3
  <2>3. /\ server' \in [exts : Extensions, phase : {"serving", "leaving", "gone"},
                        part : Seq(Requests), out : Seq(Replies), credit : Nat, content : Seq(Nat)]
        /\ server'.out = server.out /\ server'.content = server.content /\ server'.part = <<byte>>
    BY <1>4, <2>1, <2>2 DEF SftpInv, TypeOK
  <2> QED
    BY <1>1, <1>2, <1>5, <2>3, ReadOnStep
<1>6. CASE server.part # <<>> /\ byte = [Head(server.part) EXCEPT !.part = 2]
  <2>1. PICK payload \in Fitting(byte.op) \cup Odd \cup
               (IF byte.op.effect = "read" /\ byte.at >= Len(server.content) THEN {"eof"} ELSE {}) :
          /\ byte.op.effect = "read" /\ payload = "asked" => byte.at < Len(server.content)
          /\ server' = [server EXCEPT !.part = <<>>, !.credit = @ + 1,
                          !.out = @ \o ServerReply(byte, payload),
                          !.content = IF byte.op.effect = "write" /\ payload = "ok"
                                      THEN SubSeq(@, 1, byte.at) \o <<byte.call>>
                                           \o SubSeq(@, byte.at + 2, Len(@))
                                      ELSE @]
    BY <1>2, <1>6 DEF ServerReads
  <2>2. Fitting(byte.op) \subseteq Payloads
    BY <1>3 DEF Fitting, Payloads
  <2>3. payload \in Payloads
    BY <2>1, <2>2 DEF Payloads
  <2>4. server' = [server EXCEPT !.part = <<>>, !.credit = @ + 1,
                     !.out = @ \o ServerReply(byte, payload),
                     !.content = After(@, byte, payload)]
    BY <2>1 DEF After, Write
  <2>5. byte.part = 2
    <3>1. Head(server.part) \in Requests
      BY <1>4, <1>6, HeadAndTail
    <3> QED BY <1>6, <3>1 DEF Requests
  <2> QED
    BY <1>1, <1>2, <2>1, <2>3, <2>4, <2>5, AnswerStep
<1>7. CASE ~(server.part = <<>> /\ byte.part = 1) /\ ~(server.part # <<>> /\ byte = [Head(server.part) EXCEPT !.part = 2])
  <2>1. server' = [server EXCEPT !.phase = "leaving"]
    BY <1>2, <1>7 DEF ServerReads
  <2>2. /\ server' \in [exts : Extensions, phase : {"serving", "leaving", "gone"},
                        part : Seq(Requests), out : Seq(Replies), credit : Nat, content : Seq(Nat)]
        /\ server'.out = server.out /\ server'.content = server.content /\ server'.part = server.part
    BY <1>4, <2>1 DEF SftpInv, TypeOK
  <2> QED
    BY <1>1, <2>2, ReadOnStep
<1> QED
  BY <1>5, <1>6, <1>7

-----------------------------------------------------------------------------
(* The theorems.                                                           *)

\* Nothing happens.
LEMMA StutterStep ==
  ASSUME SftpInv, UNCHANGED vars
  PROVE  SftpInv'
<1> USE DEF SftpInv, vars, sftpVars, bufferVars
<1>1. CallsInStep' /\ Continues
  BY SameStep
<1>2. /\ Pending' = Pending /\ (Quiet => Quiet') /\ LastIsLast' /\ FileKnown'
      /\ Answers' = Answers
  BY RequestsKept, RepliesKept, LastKept, FileKept
<1>3. PendingGood' /\ AnswersGood'
  BY <1>1, <1>2, GoodKept, AllGood
<1>4. TypeOK' /\ AnswerIsOwn'
  BY DEF TypeOK, AnswerIsOwn
<1> QED
  BY <1>1, <1>2, <1>3, <1>4

\* Every byte under way in either direction is one the calls and the server account for,
\* whatever calls are dropped, for any window, extensions and odd replies: requests not yet
\* acted upon are about the file from the cursor on, and the reply to the last call comes
\* when no request is left.
THEOREM SftpInvariant == FewCalls => (Spec => []SftpInv)
<1> SUFFICES ASSUME FewCalls PROVE Spec => []SftpInv
  OBVIOUS
<1>1. ASSUME SftpInv, [Next]_vars PROVE SftpInv'
  <2>1. CASE UNCHANGED vars
    BY <1>1, <2>1, StutterStep
  <2>2. CASE CallHandshake
    BY <1>1, <2>2, CallHandshakeStep
  <2>3. CASE CallOp
    BY <1>1, <2>3, CallOpStep
  <2>4. CASE AppBackward
    BY <1>1, <2>4, AppBackwardStep
  <2>5. CASE Task
    BY <1>1, <2>5, DoSendStep, DoSendFailsStep, DoFlushStep, DoFlushHearStep, DoFillStep,
       DoHeadStep, DoVersionStep, DoBodyStep DEF Task
  <2>6. CASE Cancel
    BY <1>1, <2>6, CancelStep
  <2>7. CASE Server \/ ServerQuits
    BY <1>1, <2>7, ServerReadsStep, ServerSpeaksStep, ServerGrantsStep, ServerExitsStep
       DEF Server, ServerQuits, ServerLeaves
  <2> QED
    BY <1>1, <2>1, <2>2, <2>3, <2>4, <2>5, <2>6, <2>7 DEF Next
<1> QED
  BY <1>1, InitInv, PTL DEF Spec

\* receive_msg takes no reply to a call that was dropped for the answer to a later one, as
\* long as no identifier of next_request_id is used twice.
THEOREM RepliesAreOwn == FewCalls => (Spec => []AnswerIsOwn)
<1>1. SftpInv => AnswerIsOwn
  BY DEF SftpInv
<1> QED
  BY <1>1, SftpInvariant, PTL

\* Up to File::pos the file on the server is what the application has written or read,
\* whatever reads and writes were dropped in the middle.
THEOREM CursorIsRight == FewCalls => (Spec => []CursorRight)
<1>1. SftpInv => CursorRight
  <2> SUFFICES ASSUME SftpInv PROVE CursorRight
    OBVIOUS
  <2>1. known \in Seq(Nat) /\ cursor \in Nat /\ cursor = Len(known)
    BY DEF SftpInv, TypeOK, FileKnown
  <2>2. PICK c \in Seq(Nat) : c = server.content
    BY ServerTyped DEF SftpInv
  <2>3. cursor <= Len(c) /\ \A i \in 1..cursor : known[i] = c[i]
    BY <2>2 DEF SftpInv, FileKnown
  <2> DEFINE s == SubSeq(c, 1, cursor)
  <2>4. /\ s \in Seq(Nat) /\ Len(s) = IF 1 <= cursor THEN cursor - 1 + 1 ELSE 0
        /\ \A i \in 1..Len(s) : s[i] = c[1 + i - 1]
    BY <2>1, <2>3, PartOf
  <2> HIDE DEF s
  <2>5. Len(s) = cursor /\ \A i \in 1..cursor : 1 + i - 1 = i
    BY <2>1, <2>4
  <2>6. \A i \in 1..Len(known) : known[i] = s[i]
    BY <2>1, <2>3, <2>4, <2>5
  <2>7. known = s
    BY <2>1, <2>4, <2>5, <2>6, SeqEqual
  <2> QED
    BY <2>1, <2>2, <2>7 DEF CursorRight, s
<1> QED
  BY <1>1, SftpInvariant, PTL
=============================================================================
