------------------------ MODULE AuthenticationProofs ------------------------
(***************************************************************************)
(* Authentication's safety properties for any calls, methods, signers and  *)
(* servers.  Answers carry no identifier, so AuthInv counts what is under  *)
(* way: at most one request or answer, it belongs to the call the session  *)
(* task waits for, and it is of a kind that wait knows.                    *)
(***************************************************************************)
EXTENDS Authentication, SequenceTheorems, WellFoundedInduction, TLAPS

Stages == {"service", "none", "password", "keyboard", "probe", "signed"}

Results ==
  {"none", "mismatch", "unsupported", "io", "ok", "unexpected service", "success", "failure",
   "change", "bad key", "invalid"}

Algorithms == ToSet(Signers) \cup {"none"}

CallRecord ==
  {r \in [state : {"new", "asked", "unwanted", "returned"}, op : Ops \cup {"none"},
           key : Keys \cup {"none"}, result : Results, from : Calls \cup {0}] :
     r.op # "publickey" => r.key = "none"}

RequestRecord ==
  [type : {"service", "request", "response"}, call : Calls, op : Ops \cup {"none"},
   key : Keys \cup {"none"}, alg : Algorithms, signed : BOOLEAN]

AnswerRecord ==
  [type : {"ext"}, to : {0}, algs : Supported] \cup [type : {"banner"}, to : {0}]
    \cup [type : {"accept"}, to : Calls, userauth : BOOLEAN]
    \cup [type : {"success", "failure", "60"}, to : Calls]

WaitRecord == [call : Calls, stage : Stages, key : Keys \cup {"none"}, alg : Algorithms]

ServerRecord ==
  [algs : Supported, announced : BOOLEAN, service : BOOLEAN, authed : BOOLEAN,
   busy : Calls \cup {0}, rounds : Nat, ignored : BOOLEAN, gone : BOOLEAN, bannered : BOOLEAN]

AuthTypeOK ==
  /\ call \in [Calls -> CallRecord]
  /\ queue \in Seq(Calls)
  /\ waiting \in WaitRecord \cup {Idle}
  /\ authenticated \in BOOLEAN /\ compat \in BOOLEAN /\ ended \in BOOLEAN
  /\ toServer \in Seq(RequestRecord) /\ toClient \in Seq(AnswerRecord)
  /\ server \in ServerRecord

\* What is no answer to a request.
Unasked == {"ext", "banner"}

Quiet(w) == \A i \in 1..Len(w) : w[i].type \in Unasked

\* At most one answer is under way, to call c, and of one of these types.
OneAnswer(w, c, types) ==
  /\ \A i, j \in 1..Len(w) : w[i].type \notin Unasked /\ w[j].type \notin Unasked => i = j
  /\ \A i \in 1..Len(w) : w[i].type \notin Unasked => w[i].to = c /\ w[i].type \in types

HasSuccess(w) == \E i \in 1..Len(w) : w[i].type = "success"

Announces(w, algs) == \A i \in 1..Len(w) : w[i].type = "ext" => w[i].algs = algs

\* The answers each wait knows.
Known(stage) ==
  CASE stage = "service" -> {"accept"}
    [] stage \in {"none", "signed"} -> {"success", "failure"}
    [] OTHER -> {"success", "failure", "60"}

\* The request under way is that of the wait.
Awaited(m) ==
  /\ m.call = waiting.call
  /\ m.type = "service" <=> waiting.stage = "service"
  /\ m.type = "response" => waiting.stage = "keyboard"
  /\ m.type = "request" =>
       waiting.stage = IF m.op # "publickey" THEN m.op ELSE IF m.signed THEN "signed" ELSE "probe"

OneUnderWay ==
  /\ OneAnswer(toClient, waiting.call, Known(waiting.stage))
  /\ ~server.gone =>
       toServer = <<>> \/ (Len(toServer) = 1 /\ Awaited(toServer[1]) /\ Quiet(toClient))
  /\ server.gone => Quiet(toClient) /\ ~server.service

\* A call that was not made yet has no result, and nobody works on it.
NewCalls ==
  \A c \in Calls : call[c].state = "new" =>
    call[c].from = 0 /\ waiting.call # c /\ \A i \in 1..Len(queue) : queue[i] # c

\* Each side's view of the user is the other's, but for a SUCCESS under way.
AuthStands ==
  /\ server.authed <=> (authenticated \/ HasSuccess(toClient))
  /\ server.authed => server.busy = 0

\* EXT_INFO is read before the answer that opens the service.
ExtRead ==
  /\ Announces(toClient, server.algs)
  /\ server.announced /\ algorithms # server.algs =>
       /\ toClient # <<>> /\ Head(toClient).type = "ext"
       /\ server.service => waiting.stage = "service"

\* What RsaFits says of one request.
RsaOk(m, srv, comp) ==
  LET common == ToSet(Signers) \cap Rsa \cap srv.algs
  IN  m.key = "ssh-rsa" /\ m.type = "request" /\ srv.service /\ srv.announced /\ ~comp
        /\ common # {} => m.alg \in common

\* A key that was offered will be used to sign with the same algorithm.
ProbeFits ==
  waiting.stage = "probe" =>
    call[waiting.call].op = "publickey" /\ RsaOk(SignedRequest, server, compat)

AuthInv ==
  /\ AuthTypeOK /\ OneUnderWay /\ NewCalls /\ AuthStands /\ ExtRead /\ ProbeFits
  /\ AnswerIsOwn /\ RsaFits

-----------------------------------------------------------------------------
(* Wires.                                                                  *)

\* What an answer is.
LEMMA AnswerFacts ==
  ASSUME NEW m \in AnswerRecord
  PROVE  /\ m.type \in {"ext", "banner", "accept", "success", "failure", "60"}
         /\ m.to \in Calls \cup {0}
         /\ m.type \notin Unasked => m.to \in Calls
         /\ m.type = "ext" => m.algs \in Supported
         /\ m.type = "accept" => m.userauth \in BOOLEAN
BY DEF AnswerRecord, Unasked

\* A message at the end of the wire.
LEMMA AnswerAppend ==
  ASSUME NEW w \in Seq(AnswerRecord), NEW m \in AnswerRecord
  PROVE  /\ Append(w, m) \in Seq(AnswerRecord) /\ Append(w, m) # <<>>
         /\ Len(Append(w, m)) = Len(w) + 1 /\ Len(w) \in Nat
         /\ Append(w, m)[Len(w) + 1] = m
         /\ \A i \in 1..Len(w) : Append(w, m)[i] = w[i]
         /\ w # <<>> => Head(Append(w, m)) = Head(w)
BY AppendProperties

\* The first message and the rest.
LEMMA AnswerTail ==
  ASSUME NEW w \in Seq(AnswerRecord), w # <<>>
  PROVE  /\ Tail(w) \in Seq(AnswerRecord) /\ Head(w) \in AnswerRecord
         /\ Head(w) = w[1] /\ 1 \in 1..Len(w)
         /\ Len(Tail(w)) = Len(w) - 1 /\ Len(w) \in Nat
         /\ \A i \in 1..Len(Tail(w)) : i + 1 \in 2..Len(w) /\ Tail(w)[i] = w[i+1]
         /\ \A i \in 2..Len(w) : i - 1 \in 1..Len(Tail(w)) /\ Tail(w)[i-1] = w[i]
OBVIOUS

\* A message the server sends unasked changes no answer.
LEMMA UnaskedSent ==
  ASSUME NEW w \in Seq(AnswerRecord), NEW m \in AnswerRecord, m.type \in Unasked
  PROVE  /\ Quiet(w) => Quiet(Append(w, m))
         /\ \A c, types : OneAnswer(w, c, types) => OneAnswer(Append(w, m), c, types)
         /\ HasSuccess(Append(w, m)) <=> HasSuccess(w)
<1>1. \A i \in 1..Len(Append(w, m)) :
         (i \in 1..Len(w) /\ Append(w, m)[i] = w[i]) \/ (Append(w, m)[i].type \in Unasked /\ Append(w, m)[i] = m)
  BY AnswerAppend
<1>2. \A i \in 1..Len(w) : i \in 1..Len(Append(w, m)) /\ Append(w, m)[i] = w[i]
  BY AnswerAppend
<1>3. Quiet(w) => Quiet(Append(w, m))
  BY <1>1 DEF Quiet
<1>4. ASSUME NEW c, NEW types, OneAnswer(w, c, types) PROVE OneAnswer(Append(w, m), c, types)
  BY <1>1, <1>4 DEF OneAnswer
<1>5. HasSuccess(Append(w, m)) <=> HasSuccess(w)
  BY <1>1, <1>2 DEF HasSuccess, Unasked
<1> QED BY <1>3, <1>4, <1>5

\* An answer on a quiet wire is the only one.
LEMMA AnswerSent ==
  ASSUME NEW w \in Seq(AnswerRecord), NEW m \in AnswerRecord, Quiet(w)
  PROVE  /\ \A types : m.type \in types => OneAnswer(Append(w, m), m.to, types)
         /\ HasSuccess(Append(w, m)) <=> m.type = "success"
<1>1. \A i \in 1..Len(Append(w, m)) :
         Append(w, m)[i].type \in Unasked \/ (i = Len(w) + 1 /\ Append(w, m)[i] = m)
  BY AnswerAppend DEF Quiet
<1>2. Len(w) + 1 \in 1..Len(Append(w, m)) /\ Append(w, m)[Len(w) + 1] = m
  BY AnswerAppend
<1>3. ASSUME NEW types, m.type \in types PROVE OneAnswer(Append(w, m), m.to, types)
  BY <1>1, <1>3 DEF OneAnswer
<1>4. HasSuccess(Append(w, m)) <=> m.type = "success"
  BY <1>1, <1>2 DEF HasSuccess, Unasked
<1> QED BY <1>3, <1>4

\* Reading a message: an answer was the only one.
LEMMA AnswerRead ==
  ASSUME NEW w \in Seq(AnswerRecord), w # <<>>, NEW c, NEW types, OneAnswer(w, c, types)
  PROVE  /\ OneAnswer(Tail(w), c, types)
         /\ Quiet(w) => Quiet(Tail(w)) /\ Head(w).type \in Unasked
         /\ Head(w).type \notin Unasked =>
              Quiet(Tail(w)) /\ Head(w).to = c /\ Head(w).type \in types
         /\ HasSuccess(w) <=> (HasSuccess(Tail(w)) \/ Head(w).type = "success")
<1>1. \A i \in 1..Len(Tail(w)) : i + 1 \in 1..Len(w) /\ i + 1 # 1 /\ Tail(w)[i] = w[i+1]
  BY AnswerTail
<1>2. OneAnswer(Tail(w), c, types)
  <2>1. ASSUME NEW i \in 1..Len(Tail(w)), NEW j \in 1..Len(Tail(w)),
               Tail(w)[i].type \notin Unasked, Tail(w)[j].type \notin Unasked
        PROVE  i = j
    <3>1. i + 1 = j + 1
      BY <1>1, <2>1 DEF OneAnswer
    <3> QED BY <3>1
  <2>2. \A i \in 1..Len(Tail(w)) : Tail(w)[i].type \notin Unasked => Tail(w)[i].to = c /\ Tail(w)[i].type \in types
    BY <1>1 DEF OneAnswer
  <2> QED BY <2>1, <2>2 DEF OneAnswer
<1>3. Quiet(w) => Quiet(Tail(w)) /\ Head(w).type \in Unasked
  BY <1>1, AnswerTail DEF Quiet
<1>4. ASSUME Head(w).type \notin Unasked
      PROVE  Quiet(Tail(w)) /\ Head(w).to = c /\ Head(w).type \in types
  BY <1>1, <1>4, AnswerTail DEF Quiet, OneAnswer
<1>5. HasSuccess(w) <=> (HasSuccess(Tail(w)) \/ Head(w).type = "success")
  <2>1. \A i \in 1..Len(w) : i = 1 \/ (i - 1 \in 1..Len(Tail(w)) /\ Tail(w)[i-1] = w[i])
    BY AnswerTail
  <2> QED BY <1>1, <2>1, AnswerTail DEF HasSuccess
<1> QED BY <1>2, <1>3, <1>4, <1>5

\* A quiet wire has no answer to anybody, and no SUCCESS.
LEMMA QuietWire ==
  ASSUME NEW w \in Seq(AnswerRecord), Quiet(w)
  PROVE  ~HasSuccess(w) /\ \A c, types : OneAnswer(w, c, types)
BY DEF Quiet, HasSuccess, OneAnswer, Unasked

\* What EXT_INFO announces, as messages come and go.
LEMMA ExtWire ==
  ASSUME NEW w \in Seq(AnswerRecord), NEW algs, Announces(w, algs)
  PROVE  /\ \A m \in AnswerRecord : (m.type = "ext" => m.algs = algs) => Announces(Append(w, m), algs)
         /\ w # <<>> => Announces(Tail(w), algs) /\ (Head(w).type = "ext" => Head(w).algs = algs)
<1>1. ASSUME NEW m \in AnswerRecord, m.type = "ext" => m.algs = algs
      PROVE  Announces(Append(w, m), algs)
  <2>1. \A i \in 1..Len(Append(w, m)) : (i \in 1..Len(w) /\ Append(w, m)[i] = w[i]) \/ Append(w, m)[i] = m
    BY AnswerAppend
  <2> QED BY <1>1, <2>1 DEF Announces
<1>2. ASSUME w # <<>> PROVE Announces(Tail(w), algs) /\ (Head(w).type = "ext" => Head(w).algs = algs)
  BY <1>2, AnswerTail DEF Announces
<1> QED BY <1>1, <1>2

-----------------------------------------------------------------------------
(* Signers.                                                                *)

\* The well-founded relation of the library is the order of numbers.
LEMMA Smaller ==
  ASSUME NEW m \in Nat, NEW n \in Nat
  PROVE  <<m, n>> \in OpToRel(<, Nat) <=> m < n
BY SMT DEF OpToRel

\* A set of natural numbers has a least one.
LEMMA LeastOf ==
  ASSUME NEW S \in SUBSET Nat, S # {}
  PROVE  Min(S) \in S /\ \A n \in S : Min(S) <= n
<1>1. \E x \in S : \A y \in S : ~(<<y, x>> \in OpToRel(<, Nat))
  BY NatLessThanWellFounded, WFMin, Zenon
<1>2. \E x \in S : \A y \in S : ~(y < x)
  <2>1. \A x, y \in S : <<y, x>> \in OpToRel(<, Nat) <=> y < x
    BY Smaller, Zenon
  <2> QED BY <1>1, <2>1, Zenon
<1>3. PICK x \in S : \A y \in S : x <= y
  BY <1>2
<1> QED BY <1>3 DEF Min

\* First finds a signer with one of the names if there is one.
LEMMA FirstFacts ==
  ASSUME NEW names
  PROVE  /\ First(names) \in 0..Len(Signers)
         /\ First(names) # 0 =>
              Signers[First(names)] \in ToSet(Signers) /\ Signers[First(names)] \in names
         /\ First(names) = 0 => ToSet(Signers) \cap names = {}
<1> DEFINE I == {i \in 1..Len(Signers) : Signers[i] \in names}
<1>1. First(names) = IF I # {} THEN Min(I) ELSE 0
  BY DEF First, SelectInSeq
<1>2. Len(Signers) \in Nat /\ DOMAIN Signers = 1..Len(Signers)
  BY AuthenticationAssumption
<1>3. I \in SUBSET Nat
  BY <1>2
<1>4. CASE I = {}
  <2>1. \A i \in 1..Len(Signers) : Signers[i] \notin names
    BY <1>4
  <2> QED BY <1>1, <1>2, <1>4, <2>1 DEF ToSet
<1>5. CASE I # {}
  <2>1. Min(I) \in I
    BY <1>3, <1>5, LeastOf
  <2>2. Min(I) \in 1..Len(Signers) /\ Signers[Min(I)] \in names
    BY <2>1
  <2>3. Signers[Min(I)] \in ToSet(Signers)
    BY <1>2, <2>2 DEF ToSet
  <2> QED BY <1>1, <1>2, <1>5, <2>2, <2>3
<1> QED BY <1>4, <1>5

\* The algorithm an RSA key is offered with is one the server announced, if the client has
\* any of these.
LEMMA SignerFacts ==
  ASSUME NEW type
  PROVE  /\ SignerFor(type) # 0 => Signers[SignerFor(type)] \in Algorithms
         /\ (SignerFor(type) # 0 /\ type = "ssh-rsa" /\ ~compat
              /\ ToSet(Signers) \cap Rsa \cap algorithms # {})
              => Signers[SignerFor(type)] \in ToSet(Signers) \cap Rsa \cap algorithms
<1>1. SignerFor(type) # 0 => Signers[SignerFor(type)] \in Algorithms
  BY FirstFacts DEF SignerFor, Algorithms
<1>2. ASSUME type = "ssh-rsa", ~compat, ToSet(Signers) \cap Rsa \cap algorithms # {}
      PROVE  Signers[SignerFor(type)] \in ToSet(Signers) \cap Rsa \cap algorithms
  <2>1. ServerAlgorithms = algorithms
    BY <1>2 DEF ServerAlgorithms
  <2>2. First(Rsa \cap algorithms) # 0
    BY <1>2, FirstFacts
  <2>3. SignerFor(type) = First(Rsa \cap algorithms)
    BY <1>2, <2>1, <2>2 DEF SignerFor
  <2>4. Signers[First(Rsa \cap algorithms)] \in ToSet(Signers) /\ Signers[First(Rsa \cap algorithms)] \in Rsa \cap algorithms
    BY <2>2, FirstFacts
  <2> QED BY <2>3, <2>4
<1> QED BY <1>1, <1>2

-----------------------------------------------------------------------------
(* Steps.                                                                  *)

\* A new session.
LEMMA InitAuth == Init => AuthInv
<1> SUFFICES ASSUME Init PROVE AuthInv
  OBVIOUS
<1> PICK algs \in Supported, announced \in BOOLEAN :
      /\ toClient = IF announced THEN <<ExtInfo(algs)>> ELSE <<>>
      /\ server = [algs |-> algs, announced |-> announced, service |-> FALSE, authed |-> FALSE,
                   busy |-> 0, rounds |-> 0, ignored |-> FALSE, gone |-> FALSE, bannered |-> FALSE]
  BY DEF Init
<1>1. ExtInfo(algs) \in AnswerRecord /\ ExtInfo(algs).type = "ext" /\ ExtInfo(algs).algs = algs
  BY DEF ExtInfo, AnswerRecord
<1>2. toClient \in Seq(AnswerRecord) /\ Quiet(toClient) /\ Announces(toClient, algs)
  BY <1>1 DEF Quiet, Announces, Unasked
<1>3. AuthTypeOK
  <2> DEFINE new == [state |-> "new", op |-> "none", key |-> "none", result |-> "none", from |-> 0]
  <2>3. new \in CallRecord
    BY DEF CallRecord, Results
  <2>1. call \in [Calls -> CallRecord]
    BY <2>3 DEF Init
  <2>2. server \in ServerRecord
    BY DEF ServerRecord
  <2>4. queue \in Seq(Calls) /\ toServer \in Seq(RequestRecord)
    BY DEF Init
  <2>5. authenticated \in BOOLEAN /\ compat \in BOOLEAN /\ ended \in BOOLEAN /\ waiting \in WaitRecord \cup {Idle}
    BY Zenon DEF Init
  <2> QED BY <1>2, <2>1, <2>2, <2>4, <2>5 DEF AuthTypeOK
<1>4. OneUnderWay
  BY <1>2, QuietWire DEF OneUnderWay, Init
<1>5. NewCalls /\ AnswerIsOwn /\ RsaFits
  BY AuthenticationAssumption DEF NewCalls, AnswerIsOwn, RsaFits, Init, Idle
<1>6. AuthStands
  BY <1>2, QuietWire DEF AuthStands, Init
<1>7. ExtRead
  <2>1. CASE announced
    BY <1>1, <1>2, <2>1 DEF ExtRead, Init
  <2>2. CASE ~announced
    BY <1>2, <2>2 DEF ExtRead, Init
  <2> QED BY <2>1, <2>2
<1>8. ProbeFits
  BY DEF ProbeFits, Init, Idle
<1> QED BY <1>3, <1>4, <1>5, <1>6, <1>7, <1>8 DEF AuthInv

\* RsaFits needs only the first request: once the service is open there is no other.
LEMMA RsaOne ==
  ASSUME NEW w \in Seq(RequestRecord), NEW srv, NEW comp,
         srv.service => w = <<>> \/ (Len(w) = 1 /\ RsaOk(w[1], srv, comp))
  PROVE  \A i \in DOMAIN w : RsaOk(w[i], srv, comp)
<1>1. ASSUME NEW i \in DOMAIN w PROVE RsaOk(w[i], srv, comp)
  <2>1. CASE srv.service
    <3>1. i = 1 /\ w # <<>>
      BY <2>1
    <3> QED BY <2>1, <3>1
  <2>2. CASE ~srv.service
    BY <2>2 DEF RsaOk
  <2> QED BY <2>1, <2>2
<1> QED BY <1>1

\* What the invariant says of the call that is waited for and of the queue.
LEMMA InvFacts ==
  ASSUME AuthInv
  PROVE  /\ 0 \notin Calls
         /\ waiting.call \in Calls \cup {0}
         /\ waiting.call = 0 <=> waiting = Idle
         /\ waiting # Idle => waiting \in WaitRecord
         /\ Len(queue) \in Nat
         /\ queue # <<>> => Head(queue) = queue[1] /\ Head(queue) \in Calls /\ Tail(queue) \in Seq(Calls)
                            /\ 1 \in 1..Len(queue)
         /\ \A i \in 1..Len(Tail(queue)) : queue # <<>> => i + 1 \in 1..Len(queue) /\ Tail(queue)[i] = queue[i+1]
         /\ waiting = Idle => Quiet(toClient)
         /\ waiting = Idle /\ ~server.gone => toServer = <<>>
         /\ ~Quiet(toClient) => ~server.gone /\ toServer = <<>>
<1>1. 0 \notin Calls
  BY AuthenticationAssumption
<1>2. /\ waiting.call \in Calls \cup {0}
      /\ waiting.call = 0 <=> waiting = Idle
      /\ waiting # Idle => waiting \in WaitRecord
  BY <1>1 DEF AuthInv, AuthTypeOK, WaitRecord, Idle
<1>3. /\ Len(queue) \in Nat
      /\ queue # <<>> => Head(queue) = queue[1] /\ Head(queue) \in Calls /\ Tail(queue) \in Seq(Calls)
                         /\ 1 \in 1..Len(queue)
      /\ \A i \in 1..Len(Tail(queue)) : queue # <<>> => i + 1 \in 1..Len(queue) /\ Tail(queue)[i] = queue[i+1]
  BY DEF AuthInv, AuthTypeOK
<1>4. waiting = Idle => Quiet(toClient)
  <2> SUFFICES ASSUME waiting = Idle, NEW i \in 1..Len(toClient), toClient[i].type \notin Unasked
               PROVE  FALSE
    BY DEF Quiet
  <2>1. toClient[i] \in AnswerRecord
    BY DEF AuthInv, AuthTypeOK
  <2>2. toClient[i].to \in Calls
    BY <2>1, AnswerFacts
  <2>3. toClient[i].to = 0
    BY <1>2 DEF AuthInv, OneUnderWay, OneAnswer
  <2> QED BY <1>1, <2>2, <2>3
<1>5. waiting = Idle /\ ~server.gone => toServer = <<>>
  <2> SUFFICES ASSUME waiting = Idle, ~server.gone, toServer # <<>>
               PROVE  FALSE
    OBVIOUS
  <2>1. toServer[1] \in RequestRecord /\ toServer[1].call = 0
    BY <1>2 DEF AuthInv, AuthTypeOK, OneUnderWay, Awaited
  <2> QED BY <1>1, <2>1 DEF RequestRecord
<1>6. ~Quiet(toClient) => ~server.gone /\ toServer = <<>>
  BY DEF AuthInv, OneUnderWay
<1> QED BY <1>1, <1>2, <1>3, <1>4, <1>5, <1>6

\* A call is told its result.
LEMMA ReturnedFacts ==
  ASSUME AuthInv, NEW c \in Calls, NEW result \in Results, NEW from \in Calls \cup {0}
  PROVE  /\ Returned(c, result, from) \in [Calls -> CallRecord]
         /\ Returned(c, result, from)[c].result = result
         /\ Returned(c, result, from)[c].from = from
         /\ Returned(c, result, from)[c].state = "new" <=> call[c].state = "new"
         /\ \A d \in Calls : d # c => Returned(c, result, from)[d] = call[d]
<1>1. call[c] \in CallRecord
  BY DEF AuthInv, AuthTypeOK
<1> DEFINE r == [call[c] EXCEPT !.state = IF @ = "asked" THEN "returned" ELSE @,
                                !.result = result, !.from = from]
<1>2. r \in CallRecord /\ r.result = result /\ r.from = from /\ (r.state = "new" <=> call[c].state = "new")
  BY <1>1 DEF CallRecord
<1>3. /\ DOMAIN Returned(c, result, from) = Calls
      /\ \A d \in Calls : Returned(c, result, from)[d] = IF d = c THEN r ELSE call[d]
  BY DEF Returned, AuthInv, AuthTypeOK
<1>4. Returned(c, result, from) = [d \in Calls |-> IF d = c THEN r ELSE call[d]]
  BY DEF Returned, AuthInv, AuthTypeOK
<1> HIDE DEF r
<1> QED BY <1>2, <1>3, <1>4 DEF AuthInv, AuthTypeOK

\* Results and the calls they belong to.
LEMMA OwnReturned ==
  ASSUME AuthInv, NEW c \in Calls, NEW result \in Results, call[c].state # "new",
         NEW from, from = IF result \in {"none", "mismatch", "unsupported", "io"} THEN 0 ELSE c,
         call' = Returned(c, result, from)
  PROVE  /\ call' \in [Calls -> CallRecord] /\ AnswerIsOwn'
         /\ \A d \in Calls : call'[d].state = "new" => d # c /\ call'[d] = call[d]
<1>1. from \in Calls \cup {0}
  OBVIOUS
<1>2. /\ call' \in [Calls -> CallRecord] /\ call'[c].result = result /\ call'[c].from = from
      /\ call'[c].state # "new" /\ \A d \in Calls : d # c => call'[d] = call[d]
  BY <1>1, ReturnedFacts
<1>3. \A d \in Calls : call[d].from = IF call[d].result \in {"none", "mismatch", "unsupported", "io"} THEN 0 ELSE d
  BY DEF AuthInv, AnswerIsOwn
<1> QED BY <1>2, <1>3 DEF AnswerIsOwn

\* Steps that touch neither wire, nor the wait, nor what is known of the server.
LEMMA WiresStand ==
  ASSUME AuthInv,
         UNCHANGED <<waiting, authenticated, algorithms, compat, toServer, toClient, server>>
  PROVE  OneUnderWay' /\ AuthStands' /\ ExtRead' /\ RsaFits'
BY DEF AuthInv, OneUnderWay, AuthStands, ExtRead, RsaFits, Awaited

\* The application calls and gives up.
LEMMA AppSteps ==
  ASSUME AuthInv, NEW c \in Calls, AppCall(c) \/ AppGivesUp(c)
  PROVE  AuthInv'
<1> USE DEF AuthInv
<1>1. OneUnderWay' /\ AuthStands' /\ ExtRead' /\ RsaFits'
  BY WiresStand, Zenon DEF AppCall, AppGivesUp
<1>2. call[c] \in CallRecord
  BY DEF AuthTypeOK
<1>3. CASE AppCall(c)
  <2>1. PICK op \in Ops, key \in Keys \cup {"none"} :
          /\ op # "publickey" => key = "none"
          /\ \/ /\ op = "publickey"
                /\ call' = [call EXCEPT ![c] = [@ EXCEPT !.state = "returned", !.op = op, !.result = "mismatch"]]
                /\ UNCHANGED queue
             \/ /\ call' = [call EXCEPT ![c] = [@ EXCEPT !.state = "asked", !.op = op, !.key = key]]
                /\ queue' = Append(queue, c)
    BY <1>3 DEF AppCall
  <2>2. call[c].state = "new"
    BY <1>3 DEF AppCall
  <2>3. /\ call' \in [Calls -> CallRecord] /\ call'[c].state # "new"
        /\ call'[c].from = 0 /\ call'[c].result \in {call[c].result, "mismatch"}
        /\ \A d \in Calls : d # c => call'[d] = call[d]
    <3>1. call[c].from = 0
      BY <2>2 DEF NewCalls
    <3> DEFINE r1 == [call[c] EXCEPT !.state = "returned", !.op = op, !.result = "mismatch"]
               r2 == [call[c] EXCEPT !.state = "asked", !.op = op, !.key = key]
    <3>2. op = "publickey" => r1 \in CallRecord /\ r1.state = "returned" /\ r1.result = "mismatch" /\ r1.from = 0
      BY <1>2, <2>2, <3>1 DEF CallRecord, Results
    <3>4. r2 \in CallRecord /\ r2.state = "asked" /\ r2.result = call[c].result /\ r2.from = 0
      BY <1>2, <2>1, <2>2, <3>1 DEF CallRecord, Results
    <3>3. (op = "publickey" /\ call' = [call EXCEPT ![c] = r1]) \/ call' = [call EXCEPT ![c] = r2]
      BY <2>1
    <3> HIDE DEF r1, r2
    <3> QED BY <3>2, <3>3, <3>4 DEF AuthTypeOK
  <2>4. queue' = queue \/ queue' = Append(queue, c)
    BY <2>1
  <2>5. queue' \in Seq(Calls) /\ \A i \in 1..Len(queue') : queue'[i] = c \/ (i \in 1..Len(queue) /\ queue'[i] = queue[i])
    <3>1. CASE queue' = queue
      BY <3>1 DEF AuthTypeOK
    <3>2. CASE queue' = Append(queue, c)
      <4>1. queue \in Seq(Calls)
        BY DEF AuthTypeOK
      <4> QED BY <3>2, <4>1, AppendProperties
    <3> QED BY <2>4, <3>1, <3>2
  <2>6. AuthTypeOK'
    BY <1>3, <2>3, <2>5 DEF AppCall, AuthTypeOK
  <2>7. NewCalls'
    <3>1. waiting' = waiting
      BY <1>3 DEF AppCall
    <3>2. ASSUME NEW d \in Calls, call'[d].state = "new" PROVE d # c /\ call'[d] = call[d]
      BY <2>3, <3>2
    <3> QED BY <2>5, <3>1, <3>2 DEF NewCalls
  <2>8. AnswerIsOwn'
    <3>1. call[c].result \in {"none", "mismatch", "unsupported", "io"}
      <4>1. call[c].from = 0 /\ c # 0
        BY <2>2, InvFacts DEF NewCalls
      <4> QED BY <4>1 DEF AnswerIsOwn
    <3>2. call'[c].result \in {"none", "mismatch", "unsupported", "io"}
      BY <2>3, <3>1
    <3> QED BY <2>3, <3>2 DEF AnswerIsOwn
  <2>9. ProbeFits'
    <3>1. waiting.stage = "probe" => waiting.call \in Calls /\ waiting.call # c
      BY <2>2, InvFacts DEF Idle, NewCalls
    <3>2. waiting.stage = "probe" => call'[waiting.call] = call[waiting.call]
      BY <2>3, <3>1
    <3> QED BY <1>3, <3>2 DEF AppCall, ProbeFits, SignedRequest, Request
  <2> QED BY <1>1, <2>6, <2>7, <2>8, <2>9
<1>4. CASE AppGivesUp(c)
  <2> DEFINE r == [call[c] EXCEPT !.state = "unwanted"]
  <2>1. /\ r \in CallRecord /\ r.state = "unwanted" /\ r.result = call[c].result
        /\ r.from = call[c].from /\ r.op = call[c].op /\ r.key = call[c].key
    BY <1>2 DEF CallRecord
  <2>2. call' = [call EXCEPT ![c] = r] /\ UNCHANGED <<queue, waiting, ended>>
    BY <1>4 DEF AppGivesUp
  <2> HIDE DEF r
  <2>3. /\ call' \in [Calls -> CallRecord] /\ call'[c] = r
        /\ \A d \in Calls : d # c => call'[d] = call[d]
    BY <2>1, <2>2 DEF AuthTypeOK
  <2>4. AuthTypeOK'
    BY <1>4, <2>2, <2>3 DEF AppGivesUp, AuthTypeOK
  <2>5. NewCalls' /\ AnswerIsOwn'
    BY <2>1, <2>2, <2>3 DEF NewCalls, AnswerIsOwn
  <2>6. ProbeFits'
    <3>1. waiting.stage = "probe" => waiting.call \in Calls
      BY InvFacts DEF Idle
    <3>2. waiting.stage = "probe" =>
            call'[waiting.call].op = call[waiting.call].op /\ call'[waiting.call].key = call[waiting.call].key
      BY <2>1, <2>3, <3>1
    <3> QED BY <1>4, <3>2 DEF AppGivesUp, ProbeFits, SignedRequest, Request
  <2> QED BY <1>1, <2>4, <2>5, <2>6
<1> QED BY <1>3, <1>4

\* A request that is sent.
LEMMA RequestFacts ==
  ASSUME AuthInv, NEW c \in Calls, NEW type \in {"service", "request", "response"},
         NEW alg \in Algorithms, NEW signed \in BOOLEAN
  PROVE  /\ Request(type, c, alg, signed) \in RequestRecord
         /\ Append(toServer, Request(type, c, alg, signed)) \in Seq(RequestRecord)
         /\ toServer = <<>> => /\ Len(Append(toServer, Request(type, c, alg, signed))) = 1
                               /\ Append(toServer, Request(type, c, alg, signed))[1]
                                    = Request(type, c, alg, signed)
<1>1. call[c] \in CallRecord /\ toServer \in Seq(RequestRecord)
  BY DEF AuthInv, AuthTypeOK
<1>2. Request(type, c, alg, signed) \in RequestRecord
  BY <1>1 DEF Request, RequestRecord, CallRecord
<1> QED BY <1>1, <1>2, AppendProperties

\* The session task, idle, takes a call and sends its first request.
LEMMA TakeStep ==
  ASSUME AuthInv, waiting = Idle, queue # <<>>,
         NEW type \in {"service", "request"}, NEW alg \in Algorithms, NEW stage \in Stages,
         toServer' = Append(toServer, Request(type, Head(queue), alg, FALSE)),
         waiting' = Wait(Head(queue), stage, alg),
         queue' = Tail(queue),
         UNCHANGED <<call, authenticated, algorithms, compat, ended, toClient, server>>,
         call[Head(queue)].state # "new",
         type = "service" <=> stage = "service",
         type = "request" => stage = IF call[Head(queue)].op = "publickey" THEN "probe" ELSE call[Head(queue)].op,
         RsaOk(Request(type, Head(queue), alg, FALSE), server, compat)
  PROVE  AuthInv'
<1> USE DEF AuthInv
<1>1. Head(queue) \in Calls /\ queue' \in Seq(Calls) /\ Quiet(toClient) /\ (~server.gone => toServer = <<>>)
  BY InvFacts
<1> PICK m \in RequestRecord : m = Request(type, Head(queue), alg, FALSE)
  BY <1>1, RequestFacts
<1>2. /\ toServer' \in Seq(RequestRecord)
      /\ toServer = <<>> => Len(toServer') = 1 /\ toServer'[1] = m
  BY <1>1, RequestFacts
<1>3. waiting' \in WaitRecord /\ waiting'.call = Head(queue) /\ waiting'.stage = stage
  BY <1>1 DEF Wait, WaitRecord, AuthTypeOK, CallRecord
<1>4. m.call = Head(queue) /\ m.type = type /\ m.op = call[Head(queue)].op /\ m.signed = FALSE
  BY DEF Request
<1>5. Awaited(m)'
  BY <1>3, <1>4 DEF Awaited
<1>8. AuthTypeOK'
  BY <1>1, <1>2, <1>3 DEF AuthTypeOK
<1>9. OneUnderWay'
  <2>1. OneAnswer(toClient, waiting'.call, Known(waiting'.stage)) /\ Quiet(toClient')
    BY <1>1, QuietWire DEF AuthTypeOK
  <2>2. ~server.gone => Len(toServer') = 1 /\ Awaited(toServer[1])'
    BY <1>1, <1>2, <1>5
  <2> QED BY <2>1, <2>2 DEF OneUnderWay
<1>10. NewCalls'
  BY <1>3, InvFacts DEF NewCalls
<1>11. AuthStands'
  BY DEF AuthStands
<1>12. ExtRead'
  <2>1. server.announced /\ algorithms # server.algs => ~server.service
    BY DEF ExtRead, Idle
  <2> QED BY <2>1 DEF ExtRead
<1>13. AnswerIsOwn'
  BY DEF AnswerIsOwn
<1>14. RsaFits'
  <2>1. server'.service => toServer = <<>>
    BY <1>1 DEF OneUnderWay
  <2>2. server'.service => Len(toServer') = 1 /\ RsaOk(toServer'[1], server', compat')
    BY <1>2, <2>1
  <2>3. \A i \in DOMAIN toServer' : RsaOk(toServer'[i], server', compat')
    BY <1>2, <2>2, RsaOne
  <2> QED BY <2>3 DEF RsaFits, RsaOk
<1>15. ProbeFits'
  <2> SUFFICES ASSUME stage = "probe"
               PROVE  call[Head(queue)].op = "publickey" /\ RsaOk(SignedRequest', server', compat')
    BY <1>3 DEF ProbeFits
  <2>1. call[Head(queue)].op = "publickey" /\ type = "request"
    BY <1>1, AuthenticationAssumption DEF AuthTypeOK, CallRecord
  <2>2. /\ SignedRequest'.type = "request" /\ SignedRequest'.key = m.key /\ SignedRequest'.alg = m.alg
        /\ m.type = "request"
    BY <2>1 DEF SignedRequest, Request, Wait
  <2> QED BY <2>1, <2>2 DEF RsaOk
<1> QED BY <1>8, <1>9, <1>10, <1>11, <1>12, <1>13, <1>14, <1>15

\* The wait goes on: the answer was read and the next request of the same call is sent.
LEMMA ContinueStep ==
  ASSUME AuthInv, toClient # <<>>, Head(toClient).type \notin Unasked, waiting # Idle,
         NEW type \in {"request", "response"}, NEW alg \in Algorithms, NEW signed \in BOOLEAN,
         NEW stage \in Stages \ {"service"},
         toServer' = Append(toServer, Request(type, waiting.call, alg, signed)),
         waiting' = [waiting EXCEPT !.stage = stage],
         toClient' = Tail(toClient),
         UNCHANGED <<call, queue, authenticated, algorithms, compat, ended, server>>,
         Head(toClient).type # "success",
         stage # "probe",
         type = "response" => stage = "keyboard",
         type = "request" => call[waiting.call].op = "publickey" /\ signed /\ stage = "signed",
         RsaOk(Request(type, waiting.call, alg, signed), server, compat)
  PROVE  AuthInv'
<1> USE DEF AuthInv
<1>1. /\ waiting.call \in Calls /\ waiting \in WaitRecord /\ ~server.gone /\ toServer = <<>>
      /\ Quiet(Tail(toClient)) /\ toClient \in Seq(AnswerRecord) /\ Tail(toClient) \in Seq(AnswerRecord)
  <2>1. toClient \in Seq(AnswerRecord) /\ OneAnswer(toClient, waiting.call, Known(waiting.stage))
    BY DEF AuthTypeOK, OneUnderWay
  <2>2. ~Quiet(toClient) /\ Quiet(Tail(toClient)) /\ Tail(toClient) \in Seq(AnswerRecord)
    BY <2>1, AnswerRead, AnswerTail
  <2> QED BY <2>1, <2>2, InvFacts
<1> PICK m \in RequestRecord : m = Request(type, waiting.call, alg, signed)
  BY <1>1, RequestFacts
<1>2. toServer' \in Seq(RequestRecord) /\ Len(toServer') = 1 /\ toServer'[1] = m
  BY <1>1, RequestFacts
<1>3. waiting' \in WaitRecord /\ waiting'.call = waiting.call /\ waiting'.stage = stage
  BY <1>1 DEF WaitRecord
<1>4. m.call = waiting.call /\ m.type = type /\ m.op = call[waiting.call].op /\ m.signed = signed
  BY DEF Request
<1>5. Awaited(m)'
  BY <1>3, <1>4 DEF Awaited
<1>6. AuthTypeOK'
  BY <1>1, <1>2, <1>3 DEF AuthTypeOK
<1>7. OneUnderWay'
  <2>1. OneAnswer(toClient', waiting'.call, Known(waiting'.stage)) /\ Quiet(toClient')
    BY <1>1, QuietWire
  <2> QED BY <1>1, <1>2, <1>5, <2>1 DEF OneUnderWay
<1>8. NewCalls' /\ AnswerIsOwn'
  BY <1>3 DEF NewCalls, AnswerIsOwn
<1>9. AuthStands'
  <2>1. OneAnswer(toClient, waiting.call, Known(waiting.stage))
    BY DEF OneUnderWay
  <2>2. HasSuccess(toClient) <=> HasSuccess(Tail(toClient))
    BY <1>1, <2>1, AnswerRead
  <2> QED BY <2>2 DEF AuthStands
<1>10. ExtRead'
  <2>1. Announces(toClient', server.algs)
    BY <1>1, ExtWire DEF ExtRead
  <2>2. Head(toClient).type # "ext"
    BY DEF Unasked
  <2> QED BY <2>1, <2>2 DEF ExtRead
<1>11. RsaFits'
  <2>1. \A i \in DOMAIN toServer' : RsaOk(toServer'[i], server', compat')
    BY <1>2, RsaOne
  <2> QED BY <2>1 DEF RsaFits, RsaOk
<1>12. ProbeFits'
  BY <1>3 DEF ProbeFits
<1> QED BY <1>6, <1>7, <1>8, <1>9, <1>10, <1>11, <1>12

\* The wait ends with the answer that was read.
LEMMA FinishStep ==
  ASSUME AuthInv, toClient # <<>>, Head(toClient).type \notin Unasked, waiting # Idle,
         NEW result \in Results \ {"none", "mismatch", "unsupported", "io"},
         Finish(result),
         toClient' = Tail(toClient),
         authenticated' \in BOOLEAN,
         authenticated' <=> (authenticated \/ Head(toClient).type = "success"),
         UNCHANGED <<queue, algorithms, compat, ended, toServer, server>>
  PROVE  AuthInv'
<1> USE DEF AuthInv
<1>1. /\ toClient \in Seq(AnswerRecord) /\ OneAnswer(toClient, waiting.call, Known(waiting.stage))
      /\ waiting.call \in Calls
  BY InvFacts DEF AuthTypeOK, OneUnderWay
<1>2. /\ Quiet(Tail(toClient)) /\ Head(toClient).to = waiting.call /\ ~Quiet(toClient)
      /\ HasSuccess(toClient) <=> (HasSuccess(Tail(toClient)) \/ Head(toClient).type = "success")
      /\ Tail(toClient) \in Seq(AnswerRecord)
  BY <1>1, AnswerRead, AnswerTail
<1>3. ~server.gone /\ toServer = <<>>
  BY <1>2, InvFacts
<1>4. call' = Returned(waiting.call, result, waiting.call) /\ waiting' = Idle
  BY <1>2 DEF Finish
<1>5. call[waiting.call].state # "new"
  BY <1>1 DEF NewCalls
<1>6. /\ call' \in [Calls -> CallRecord] /\ AnswerIsOwn'
      /\ \A d \in Calls : call'[d].state = "new" => d # waiting.call /\ call'[d] = call[d]
  <2>1. result \in Results /\ waiting.call = IF result \in {"none", "mismatch", "unsupported", "io"} THEN 0 ELSE waiting.call
    OBVIOUS
  <2> QED BY <1>1, <1>4, <1>5, <2>1, OwnReturned
<1>7. AuthTypeOK'
  BY <1>2, <1>4, <1>6 DEF AuthTypeOK
<1>8. OneUnderWay'
  <2>1. OneAnswer(toClient', waiting'.call, Known(waiting'.stage))
    BY <1>2, QuietWire
  <2> QED BY <1>3, <2>1 DEF OneUnderWay
<1>9. NewCalls'
  <2>1. waiting'.call = 0 /\ 0 \notin Calls
    BY <1>4, InvFacts DEF Idle
  <2> QED BY <1>6, <2>1 DEF NewCalls
<1>10. AuthStands'
  BY <1>2 DEF AuthStands, AuthTypeOK
<1>11. ExtRead'
  <2>1. Announces(toClient', server.algs)
    BY <1>1, ExtWire DEF ExtRead
  <2>2. Head(toClient).type # "ext"
    BY DEF Unasked
  <2> QED BY <2>1, <2>2 DEF ExtRead
<1>12. RsaFits'
  BY DEF RsaFits
<1>13. ProbeFits'
  BY <1>4 DEF ProbeFits, Idle
<1> QED BY <1>6, <1>7, <1>8, <1>9, <1>10, <1>11, <1>12, <1>13

\* A call that was taken is not a new one.
LEMMA TakenFacts ==
  ASSUME AuthInv, queue # <<>>
  PROVE  Head(queue) \in Calls /\ call[Head(queue)].state # "new" /\ call[Head(queue)] \in CallRecord
BY InvFacts DEF AuthInv, NewCalls, AuthTypeOK

\* The session task takes an event.
LEMMA TakeSteps ==
  ASSUME AuthInv, TakeService \/ TakeRequest \/ TakePublicKey
  PROVE  AuthInv'
<1>1. CASE TakeService
  <2> USE <1>1 DEF TakeService, Takes, TaskUnchanged, Taken
  <2>1. waiting = Idle /\ queue # <<>> /\ queue' = Tail(queue)
        /\ UNCHANGED <<call, authenticated, algorithms, compat, ended, toClient, server>>
    OBVIOUS
  <2>2. call[Head(queue)].state # "new"
    BY <2>1, TakenFacts
  <2>3. "none" \in Algorithms /\ "service" \in Stages
    BY DEF Algorithms, Stages
  <2>4. RsaOk(Request("service", Head(queue), "none", FALSE), server, compat)
    BY DEF RsaOk, Request
  <2>5. /\ toServer' = Append(toServer, Request("service", Head(queue), "none", FALSE))
        /\ waiting' = Wait(Head(queue), "service", "none")
    OBVIOUS
  <2> QED BY <2>1, <2>2, <2>3, <2>4, <2>5, TakeStep
<1>2. CASE TakeRequest
  <2>1. /\ waiting = Idle /\ queue # <<>> /\ queue' = Tail(queue)
        /\ UNCHANGED <<call, authenticated, algorithms, compat, ended, toClient, server>>
        /\ call[Head(queue)].op \in {"none", "password", "keyboard"}
        /\ toServer' = Append(toServer, Request("request", Head(queue), "none", FALSE))
        /\ waiting' = Wait(Head(queue), call[Head(queue)].op, "none")
    BY <1>2 DEF TakeRequest, Takes, TaskUnchanged, Taken
  <2> PICK stage \in Stages : stage = call[Head(queue)].op /\ stage \in {"none", "password", "keyboard"}
    BY <2>1 DEF Stages
  <2>2. call[Head(queue)].state # "new"
    BY <2>1, TakenFacts
  <2>3. "none" \in Algorithms
    BY DEF Algorithms
  <2>4. RsaOk(Request("request", Head(queue), "none", FALSE), server, compat)
    BY <2>1, TakenFacts DEF RsaOk, Request, CallRecord
  <2> QED BY <2>1, <2>2, <2>3, <2>4, TakeStep
<1>3. CASE TakePublicKey
  <2> DEFINE c == Head(queue)
             signer == SignerFor(call[c].key)
  <2>1. /\ waiting = Idle /\ queue # <<>> /\ queue' = Tail(queue)
        /\ UNCHANGED <<authenticated, algorithms, compat, ended, toClient, server>>
        /\ call[c].op = "publickey"
    BY <1>3 DEF TakePublicKey, Takes, TaskUnchanged, Taken
  <2>2. c \in Calls /\ call[c].state # "new" /\ call[c] \in CallRecord
    BY <2>1, TakenFacts
  <2>3. CASE signer = 0
    <3>1. call' = Returned(c, "unsupported", 0) /\ UNCHANGED <<waiting, toServer>>
      BY <1>3, <2>3 DEF TakePublicKey
    <3>2. OneUnderWay' /\ AuthStands' /\ ExtRead' /\ RsaFits'
      BY <2>1, <3>1, WiresStand
    <3>3. /\ call' \in [Calls -> CallRecord] /\ AnswerIsOwn'
          /\ \A d \in Calls : call'[d].state = "new" => d # c /\ call'[d] = call[d]
      <4>1. "unsupported" \in Results
        BY DEF Results
      <4> QED BY <2>2, <3>1, <4>1, OwnReturned
    <3>4. AuthTypeOK'
      BY <2>1, <3>1, <3>3, InvFacts DEF AuthInv, AuthTypeOK
    <3>5. NewCalls'
      BY <2>1, <3>1, <3>3, InvFacts DEF AuthInv, NewCalls
    <3>6. ProbeFits'
      BY <2>1, <3>1 DEF ProbeFits, Idle
    <3> QED BY <3>2, <3>3, <3>4, <3>5, <3>6 DEF AuthInv
  <2>4. CASE signer # 0
    <3> PICK alg \in Algorithms : alg = Signers[signer]
      BY <2>4, SignerFacts
    <3>1. /\ toServer' = Append(toServer, Request("request", c, alg, FALSE))
          /\ waiting' = Wait(c, "probe", alg)
          /\ call' = call
      BY <1>3, <2>4 DEF TakePublicKey
    <3>2. RsaOk(Request("request", c, alg, FALSE), server, compat)
      <4> SUFFICES ASSUME call[c].key = "ssh-rsa", server.service, server.announced, ~compat,
                          ToSet(Signers) \cap Rsa \cap server.algs # {}
                   PROVE  alg \in ToSet(Signers) \cap Rsa \cap server.algs
        BY DEF RsaOk, Request
      <4>1. algorithms = server.algs
        BY <2>1 DEF AuthInv, ExtRead, Idle
      <4> QED BY <2>4, <4>1, SignerFacts
    <3>3. "probe" \in Stages
      BY DEF Stages
    <3> QED BY <2>1, <2>2, <3>1, <3>2, <3>3, TakeStep
  <2> QED BY <2>3, <2>4
<1> QED BY <1>1, <1>2, <1>3

\* The session task reads an answer.
LEMMA HandleSteps ==
  ASSUME AuthInv,
         \/ HandleServiceAccept \/ HandleSuccess \/ HandleFailure \/ HandleChangeRequest
         \/ HandlePkOk \/ HandleInfoRequest
  PROVE  AuthInv'
<1>1. /\ toClient # <<>> /\ toClient' = Tail(toClient)
      /\ Head(toClient).type \in {"accept", "success", "failure", "60"}
      /\ UNCHANGED <<queue, algorithms, compat, ended, server>>
      /\ Head(toClient).type # "success" => authenticated' = authenticated
  BY DEF HandleServiceAccept, HandleSuccess, HandleFailure, HandleChangeRequest, HandlePkOk,
         HandleInfoRequest, Hears, TaskUnchanged
<1>2. Head(toClient).type \notin Unasked /\ authenticated \in BOOLEAN
  BY <1>1 DEF Unasked, AuthInv, AuthTypeOK
<1>3. waiting # Idle
  BY <1>1, <1>2, InvFacts, AnswerRead DEF AuthInv, AuthTypeOK, OneUnderWay
<1>4. ASSUME NEW result \in Results \ {"none", "mismatch", "unsupported", "io"},
             Finish(result), UNCHANGED toServer,
             authenticated' \in BOOLEAN,
             authenticated' <=> (authenticated \/ Head(toClient).type = "success")
      PROVE  AuthInv'
  BY <1>1, <1>2, <1>3, <1>4, FinishStep
<1> DEFINE Good == Results \ {"none", "mismatch", "unsupported", "io"}
<1>5. /\ "ok" \in Good /\ "unexpected service" \in Good /\ "success" \in Good /\ "failure" \in Good
      /\ "change" \in Good /\ "bad key" \in Good /\ "invalid" \in Good
  BY DEF Results
<1>12. ASSUME NEW result \in Good, Finish(result), toServer' = toServer, Head(toClient).type # "success"
       PROVE  AuthInv'
  <2>1. /\ authenticated' \in BOOLEAN
        /\ authenticated' <=> (authenticated \/ Head(toClient).type = "success")
    BY <1>1, <1>2, <1>12
  <2> QED BY <1>4, <1>12, <2>1
<1> HIDE DEF Good
<1>6. CASE HandleServiceAccept
  <2>1. PICK result \in Good : Finish(result)
    BY <1>5, <1>6 DEF HandleServiceAccept
  <2>2. toServer' = toServer /\ Head(toClient).type # "success"
    BY <1>6 DEF HandleServiceAccept, Hears
  <2> QED BY <1>12, <2>1, <2>2
<1>7. CASE HandleSuccess
  <2>1. Finish("success") /\ toServer' = toServer /\ authenticated' = TRUE /\ Head(toClient).type = "success"
    BY <1>7 DEF HandleSuccess, Hears, Noted
  <2> QED BY <1>4, <1>5, <2>1 DEF Good
<1>8. CASE HandleFailure
  <2>1. Finish("failure") /\ toServer' = toServer /\ Head(toClient).type # "success"
    BY <1>8 DEF HandleFailure, Hears
  <2> QED BY <1>5, <1>12, <2>1
<1>9. CASE HandleChangeRequest
  <2>1. Finish("change") /\ toServer' = toServer /\ Head(toClient).type # "success"
    BY <1>9 DEF HandleChangeRequest, Hears
  <2> QED BY <1>5, <1>12, <2>1
<1>10. CASE HandlePkOk
  <2>1. Head(toClient).type # "success" /\ waiting.stage = "probe"
    BY <1>10 DEF HandlePkOk, Hears
  <2>2. CASE Finish("bad key") /\ UNCHANGED toServer
    BY <1>5, <1>12, <2>1, <2>2
  <2>3. CASE /\ toServer' = Append(toServer, SignedRequest)
             /\ waiting' = [waiting EXCEPT !.stage = "signed"]
             /\ UNCHANGED call
    <3> PICK alg \in Algorithms : alg = waiting.alg
      BY <1>3, InvFacts DEF WaitRecord
    <3>1. call[waiting.call].op = "publickey" /\ RsaOk(Request("request", waiting.call, alg, TRUE), server, compat)
      BY <2>1 DEF AuthInv, ProbeFits, SignedRequest
    <3>2. toServer' = Append(toServer, Request("request", waiting.call, alg, TRUE))
      BY <2>3 DEF SignedRequest
    <3>3. "signed" \in Stages \ {"service"}
      BY DEF Stages
    <3> QED BY <1>1, <1>2, <1>3, <2>1, <2>3, <3>1, <3>2, <3>3, ContinueStep
  <2> QED BY <1>10, <2>2, <2>3 DEF HandlePkOk
<1>11. CASE HandleInfoRequest
  <2>1. Head(toClient).type # "success" /\ waiting.stage = "keyboard"
    BY <1>11 DEF HandleInfoRequest, Hears
  <2>2. CASE AbandonPrompts
    BY <1>5, <1>12, <2>1, <2>2 DEF AbandonPrompts
  <2>3. CASE /\ toServer' = Append(toServer, Request("response", waiting.call, "none", FALSE))
             /\ UNCHANGED <<call, waiting>>
    <3>1. waiting' = [waiting EXCEPT !.stage = "keyboard"]
      BY <1>3, <2>1, <2>3, InvFacts DEF WaitRecord
    <3>2. RsaOk(Request("response", waiting.call, "none", FALSE), server, compat)
      BY DEF RsaOk, Request
    <3>3. "keyboard" \in Stages \ {"service"} /\ "none" \in Algorithms
      BY DEF Stages, Algorithms
    <3> QED BY <1>1, <1>2, <1>3, <2>1, <2>3, <3>1, <3>2, <3>3, ContinueStep
  <2> QED BY <1>11, <2>2, <2>3 DEF HandleInfoRequest
<1> QED BY <1>6, <1>7, <1>8, <1>9, <1>10, <1>11

\* EXT_INFO and banners.
LEMMA OtherStep ==
  ASSUME AuthInv, HandleOther
  PROVE  AuthInv'
<1> USE DEF AuthInv
<1>1. /\ toClient # <<>> /\ Head(toClient).type \in Unasked /\ toClient' = Tail(toClient)
      /\ algorithms' = Learned(Head(toClient))
      /\ UNCHANGED <<call, queue, waiting, authenticated, compat, ended, toServer, server>>
  BY DEF HandleOther, Hears, TaskUnchanged, Unasked
<1>2. toClient \in Seq(AnswerRecord) /\ OneAnswer(toClient, waiting.call, Known(waiting.stage))
  BY DEF AuthTypeOK, OneUnderWay
<1>3. /\ OneAnswer(Tail(toClient), waiting.call, Known(waiting.stage))
      /\ Quiet(toClient) => Quiet(Tail(toClient))
      /\ HasSuccess(toClient) <=> (HasSuccess(Tail(toClient)) \/ Head(toClient).type = "success")
      /\ Tail(toClient) \in Seq(AnswerRecord)
      /\ Announces(Tail(toClient), server.algs)
      /\ Head(toClient).type = "ext" => Head(toClient).algs = server.algs
  BY <1>1, <1>2, AnswerRead, AnswerTail, ExtWire DEF ExtRead
<1>4. AuthTypeOK'
  BY <1>1, <1>3 DEF AuthTypeOK
<1>5. OneUnderWay'
  BY <1>1, <1>3 DEF OneUnderWay, Awaited
<1>6. NewCalls' /\ AnswerIsOwn' /\ ProbeFits' /\ RsaFits'
  BY <1>1 DEF NewCalls, AnswerIsOwn, ProbeFits, SignedRequest, Request, RsaFits
<1>7. AuthStands'
  BY <1>1, <1>3 DEF AuthStands, Unasked
<1>8. ExtRead'
  <2>1. Head(toClient).type = "ext" => algorithms' = server.algs
    BY <1>1, <1>3 DEF Learned
  <2>2. Head(toClient).type # "ext" => algorithms' = algorithms
    BY <1>1 DEF Learned
  <2> QED BY <1>1, <1>3, <2>1, <2>2 DEF ExtRead
<1> QED BY <1>4, <1>5, <1>6, <1>7, <1>8

\* The connection is gone.
LEMMA FailSteps ==
  ASSUME AuthInv, WaitFails \/ ExecFails
  PROVE  AuthInv'
<1> USE DEF AuthInv
<1>1. CASE WaitFails
  <2>1. /\ server.gone /\ toClient = <<>> /\ waiting # Idle /\ waiting' = Idle
        /\ call' = Returned(waiting.call, "io", 0)
        /\ UNCHANGED <<queue, authenticated, algorithms, compat, ended, toServer, toClient, server>>
    BY <1>1 DEF WaitFails, TaskUnchanged
  <2>2. waiting.call \in Calls /\ call[waiting.call].state # "new"
    BY <2>1, InvFacts DEF NewCalls
  <2>3. /\ call' \in [Calls -> CallRecord] /\ AnswerIsOwn'
        /\ \A d \in Calls : call'[d].state = "new" => d # waiting.call /\ call'[d] = call[d]
    <3>1. "io" \in Results
      BY DEF Results
    <3> QED BY <2>1, <2>2, <3>1, OwnReturned
  <2>4. AuthTypeOK'
    BY <2>1, <2>3 DEF AuthTypeOK
  <2>5. OneUnderWay'
    <3>1. Quiet(toClient) /\ ~server.service /\ toClient \in Seq(AnswerRecord)
      BY <2>1 DEF OneUnderWay, AuthTypeOK
    <3>2. OneAnswer(toClient', waiting'.call, Known(waiting'.stage))
      BY <2>1, <3>1, QuietWire
    <3> QED BY <2>1, <3>1, <3>2 DEF OneUnderWay
  <2>6. NewCalls'
    BY <2>1, <2>3, InvFacts DEF NewCalls, Idle
  <2>7. AuthStands' /\ RsaFits' /\ ProbeFits'
    BY <2>1 DEF AuthStands, RsaFits, ProbeFits, Idle
  <2>8. ExtRead'
    BY <2>1 DEF ExtRead
  <2> QED BY <2>3, <2>4, <2>5, <2>6, <2>7, <2>8
<1>2. CASE ExecFails
  <2>1. /\ waiting = Idle /\ queue' = <<>> /\ ended' = TRUE
        /\ call' = [c \in Calls |-> IF c \in ToSet(queue) THEN Returned(c, "io", 0)[c] ELSE call[c]]
        /\ UNCHANGED <<waiting, authenticated, algorithms, compat, toServer, toClient, server>>
    BY <1>2 DEF ExecFails, TaskUnchanged
  <2>2. OneUnderWay' /\ AuthStands' /\ ExtRead' /\ RsaFits'
    BY <2>1, WiresStand
  <2>3. "io" \in Results
    BY DEF Results
  <2>4. \A c \in Calls : /\ Returned(c, "io", 0)[c] \in CallRecord
                         /\ Returned(c, "io", 0)[c].result = "io" /\ Returned(c, "io", 0)[c].from = 0
                         /\ Returned(c, "io", 0)[c].state = "new" <=> call[c].state = "new"
    BY <2>3, ReturnedFacts
  <2>5. \A c \in Calls : call'[c] = call[c] \/ call'[c] = Returned(c, "io", 0)[c]
    BY <2>1
  <2>6. call' \in [Calls -> CallRecord]
    BY <2>1, <2>4 DEF AuthTypeOK
  <2>7. AuthTypeOK'
    BY <2>1, <2>6 DEF AuthTypeOK
  <2>8. AnswerIsOwn'
    BY <2>4, <2>5 DEF AnswerIsOwn
  <2>9. NewCalls'
    BY <2>1, <2>4, <2>5 DEF NewCalls
  <2>10. ProbeFits'
    BY <2>1 DEF ProbeFits, Idle
  <2> QED BY <2>2, <2>7, <2>8, <2>9, <2>10
<1> QED BY <1>1, <1>2

\* The server answers the request under way.  It may send something unasked before.
LEMMA ReplyStep ==
  ASSUME AuthInv, ~server.gone, toServer # <<>>,
         NEW w \in Seq(AnswerRecord), Quiet(w), Announces(w, server.algs),
         toClient # <<>> => w # <<>> /\ Head(w) = Head(toClient),
         NEW m \in AnswerRecord, m.type \in Known(waiting.stage) \ Unasked, m.to = Head(toServer).call,
         toClient' = Append(w, m), toServer' = Tail(toServer),
         UNCHANGED <<call, queue, waiting, authenticated, algorithms, compat, ended>>,
         server' \in ServerRecord, server'.algs = server.algs,
         server'.announced = server.announced, ~server'.gone,
         server'.service <=> (server.service \/ (server'.service /\ waiting.stage = "service")),
         server'.authed <=> (server.authed \/ m.type = "success"),
         server'.authed => server'.busy = 0
  PROVE  AuthInv'
<1> USE DEF AuthInv
<1>1. /\ toServer' = <<>> /\ Quiet(toClient) /\ Head(toServer).call = waiting.call
      /\ toClient \in Seq(AnswerRecord)
  BY DEF OneUnderWay, Awaited, AuthTypeOK
<1>2. /\ toClient' \in Seq(AnswerRecord) /\ toClient' # <<>>
      /\ w # <<>> => Head(toClient') = Head(w)
  BY AnswerAppend
<1>3. /\ OneAnswer(toClient', waiting.call, Known(waiting.stage))
      /\ HasSuccess(toClient') <=> m.type = "success"
  BY <1>1, AnswerSent
<1>4. AuthTypeOK'
  BY <1>1, <1>2 DEF AuthTypeOK
<1>5. OneUnderWay'
  BY <1>1, <1>3 DEF OneUnderWay
<1>6. NewCalls' /\ AnswerIsOwn'
  BY DEF NewCalls, AnswerIsOwn
<1>7. RsaFits'
  BY <1>1 DEF RsaFits
<1>8. AuthStands'
  <2>1. server.authed <=> authenticated
    BY <1>1, QuietWire DEF AuthStands
  <2> QED BY <1>3, <2>1 DEF AuthStands, AuthTypeOK
<1>9. ProbeFits'
  <2> SUFFICES ASSUME waiting.stage = "probe" PROVE RsaOk(SignedRequest, server', compat)
    BY DEF ProbeFits, SignedRequest, Request
  <2>1. server'.service <=> server.service
    OBVIOUS
  <2> QED BY <2>1 DEF ProbeFits, RsaOk
<1>10. ExtRead'
  <2>1. Announces(toClient', server'.algs)
    <3>1. m.type # "ext"
      BY DEF Unasked
    <3> QED BY <3>1, ExtWire
  <2>2. ASSUME server.announced, algorithms # server.algs
        PROVE  /\ toClient' # <<>> /\ Head(toClient').type = "ext"
               /\ server'.service => waiting.stage = "service"
    BY <1>2, <2>2 DEF ExtRead
  <2> QED BY <2>1, <2>2 DEF ExtRead
<1> QED BY <1>4, <1>5, <1>6, <1>7, <1>8, <1>9, <1>10

\* The server ends a method, or asks for more if it is one that may.
LEMMA VerdictStep ==
  ASSUME AuthInv, ~server.gone, toServer # <<>>, waiting.stage \in Stages \ {"service"},
         \/ ServerSucceeds \/ ServerFails
         \/ ServerPrompts /\ ~server.authed /\ waiting.stage \in {"password", "keyboard"},
         toServer' = Tail(toServer), ServerUnchanged
  PROVE  AuthInv'
<1> USE DEF ServerUnchanged
<1>1. /\ Quiet(toClient) /\ toClient \in Seq(AnswerRecord) /\ Announces(toClient, server.algs)
      /\ server \in ServerRecord /\ Head(toServer) \in RequestRecord
  BY DEF AuthInv, OneUnderWay, AuthTypeOK, ExtRead
<1>2. Head(toServer).call \in Calls
  BY <1>1 DEF RequestRecord
<1>3. \A type \in {"success", "failure", "60"} :
         Reply(type) \in AnswerRecord /\ Reply(type).type = type /\ Reply(type).to = Head(toServer).call
  BY <1>2 DEF Reply, AnswerRecord
<1>4. {"success", "failure"} \subseteq Known(waiting.stage) \ Unasked
  BY DEF Known, Stages, Unasked
<1>5. CASE ServerSucceeds
  <2>1. PICK ext \in {<<>>, <<ExtInfo(server.algs)>>} : toClient' = toClient \o ext \o <<Reply("success")>>
    BY <1>5 DEF ServerSucceeds
  <2>8. /\ ExtInfo(server.algs) \in AnswerRecord /\ ExtInfo(server.algs).type = "ext"
        /\ ExtInfo(server.algs).algs = server.algs
    BY <1>1 DEF ExtInfo, AnswerRecord, ServerRecord
  <2>2. PICK info \in AnswerRecord : info = ExtInfo(server.algs) /\ info.type = "ext" /\ info.algs = server.algs
    BY <2>8
  <2>9. ext \in Seq(AnswerRecord)
    <3>1. <<>> \in Seq(AnswerRecord) /\ <<ExtInfo(server.algs)>> \in Seq(AnswerRecord)
      BY <2>8
    <3> QED BY <2>1, <3>1, Zenon
  <2>10. toClient \o ext \in Seq(AnswerRecord)
    BY <1>1, <2>9, ConcatProperties
  <2>3. PICK w \in Seq(AnswerRecord) : w = toClient \o ext
    BY <2>10
  <2>4. Quiet(w) /\ Announces(w, server.algs) /\ (toClient # <<>> => w # <<>> /\ Head(w) = Head(toClient))
    <3>1. CASE ext = <<>>
      BY <1>1, <2>3, <3>1, ConcatEmptySeq
    <3>2. CASE ext = <<ExtInfo(server.algs)>>
      <4>1. w = Append(toClient, info)
        BY <1>1, <2>2, <2>3, <3>2, AppendIsConcat
      <4>2. info.type \in Unasked
        BY <2>2 DEF Unasked
      <4> QED BY <1>1, <2>2, <4>1, <4>2, UnaskedSent, ExtWire, AnswerAppend
    <3> QED BY <2>1, <3>1, <3>2
  <2>5. PICK m \in AnswerRecord : m = Reply("success") /\ m.type = "success" /\ m.to = Head(toServer).call
    BY <1>3
  <2>6. toClient' = Append(w, m)
    BY <2>1, <2>3, <2>5, AppendIsConcat
  <2>7. /\ server' \in ServerRecord /\ server'.algs = server.algs
        /\ server'.announced = server.announced /\ ~server'.gone
        /\ server'.service = server.service /\ server'.authed = TRUE /\ server'.busy = 0
    BY <1>1, <1>5 DEF ServerSucceeds, ServerRecord
  <2> QED BY <1>4, <2>4, <2>5, <2>6, <2>7, ReplyStep
<1>6. CASE ServerFails
  <2>1. PICK m \in AnswerRecord : m = Reply("failure") /\ m.type = "failure" /\ m.to = Head(toServer).call
    BY <1>3
  <2>2. toClient' = Append(toClient, m)
    BY <1>6, <2>1 DEF ServerFails
  <2>3. /\ server' \in ServerRecord /\ server'.algs = server.algs
        /\ server'.announced = server.announced /\ ~server'.gone
        /\ server'.service = server.service /\ server'.authed = server.authed /\ server'.busy = 0
    BY <1>1, <1>6 DEF ServerFails, ServerRecord
  <2> QED BY <1>1, <1>4, <2>1, <2>2, <2>3, ReplyStep
<1>7. CASE ServerPrompts /\ ~server.authed /\ waiting.stage \in {"password", "keyboard"}
  <2>1. PICK m \in AnswerRecord : m = Reply("60") /\ m.type = "60" /\ m.to = Head(toServer).call
    BY <1>3
  <2>2. toClient' = Append(toClient, m)
    BY <1>7, <2>1 DEF ServerPrompts
  <2>3. /\ server' \in ServerRecord /\ server'.algs = server.algs
        /\ server'.announced = server.announced /\ ~server'.gone
        /\ server'.service = server.service /\ server'.authed = server.authed
    <3>1. server.rounds \in Nat /\ server.rounds + 1 \in Nat
      BY <1>1 DEF ServerRecord
    <3>2. server' = [server EXCEPT !.busy = Head(toServer).call, !.rounds = server.rounds + 1]
      BY <1>7 DEF ServerPrompts
    <3> QED BY <1>1, <1>2, <3>1, <3>2 DEF ServerRecord
  <2>4. "60" \in Known(waiting.stage) \ Unasked
    BY <1>7 DEF Known, Unasked
  <2> QED BY <1>1, <1>7, <2>1, <2>2, <2>3, <2>4, ReplyStep
<1> QED BY <1>5, <1>6, <1>7

\* The server hears a request.
LEMMA ServerSteps ==
  ASSUME AuthInv, Server \/ ServerBanner
  PROVE  AuthInv'
<1>1. /\ toClient \in Seq(AnswerRecord) /\ Announces(toClient, server.algs) /\ server \in ServerRecord
      /\ OneAnswer(toClient, waiting.call, Known(waiting.stage))
  BY DEF AuthInv, OneUnderWay, AuthTypeOK, ExtRead
<1>2. ASSUME NEW type, Asked(type)
      PROVE  /\ ~server.gone /\ toServer # <<>> /\ Head(toServer) \in RequestRecord /\ Quiet(toClient)
             /\ Head(toServer).type = type /\ Head(toServer).call \in Calls
             /\ Awaited(Head(toServer)) /\ waiting.stage \in Stages
  <2>1. /\ ~server.gone /\ toServer # <<>> /\ Head(toServer) \in RequestRecord /\ Quiet(toClient)
        /\ Head(toServer).type = type /\ Awaited(Head(toServer))
    BY <1>2 DEF Asked, AuthInv, OneUnderWay, AuthTypeOK
  <2>2. Head(toServer).call \in Calls /\ waiting.call # 0
    BY <2>1, InvFacts DEF RequestRecord, Awaited
  <2> QED BY <2>1, <2>2, InvFacts DEF WaitRecord
<1>3. CASE ServerAccepts
  <2>1. PICK userauth \in BOOLEAN :
          /\ toClient' = Append(toClient, [type |-> "accept", to |-> Head(toServer).call, userauth |-> userauth])
          /\ server' = [server EXCEPT !.service = @ \/ userauth]
    BY <1>3 DEF ServerAccepts
  <2>2. Asked("service") /\ toServer' = Tail(toServer) /\ ServerUnchanged
    BY <1>3 DEF ServerAccepts
  <2>3. /\ ~server.gone /\ toServer # <<>> /\ Quiet(toClient) /\ Head(toServer).call \in Calls
        /\ waiting.stage = "service"
    BY <1>2, <2>2 DEF Awaited
  <2>11. [type |-> "accept", to |-> Head(toServer).call, userauth |-> userauth] \in AnswerRecord
    BY <2>3 DEF AnswerRecord
  <2>4. PICK m \in AnswerRecord :
          /\ m = [type |-> "accept", to |-> Head(toServer).call, userauth |-> userauth]
          /\ m.type = "accept" /\ m.to = Head(toServer).call
    BY <2>11
  <2>5. /\ server' \in ServerRecord /\ server'.algs = server.algs
        /\ server'.announced = server.announced /\ ~server'.gone
        /\ server'.service = (server.service \/ userauth)
        /\ server'.authed = server.authed /\ server'.busy = server.busy
    BY <1>1, <2>1, <2>3 DEF ServerRecord
  <2>6. m.type \in Known(waiting.stage) \ Unasked
    BY <2>3, <2>4 DEF Known, Unasked
  <2>7. server'.authed => server'.busy = 0
    BY <2>5 DEF AuthInv, AuthStands
  <2>8. toClient' = Append(toClient, m)
    BY <2>1, <2>4
  <2>9. UNCHANGED <<call, queue, waiting, authenticated, algorithms, compat, ended>>
    BY <2>2 DEF ServerUnchanged
  <2>10. server'.service <=> (server.service \/ (server'.service /\ waiting.stage = "service"))
    BY <2>1, <2>3, <2>5 DEF ServerRecord
  <2> QED BY <1>1, <2>2, <2>3, <2>4, <2>5, <2>6, <2>7, <2>8, <2>9, <2>10, ReplyStep
<1>4. CASE ServerDecides
  <2> DEFINE m == Head(toServer)
  <2>1. Asked("request") /\ toServer' = Tail(toServer) /\ ServerUnchanged /\ ~server.authed
    BY <1>4 DEF ServerDecides
  <2>2. /\ ~server.gone /\ toServer # <<>> /\ Quiet(toClient) /\ m.call \in Calls /\ m.type = "request"
        /\ Awaited(m) /\ waiting.stage \in Stages \ {"service"} /\ m \in RequestRecord
    BY <1>2, <2>1 DEF Awaited
  <2>3. CASE m.op = "publickey" /\ (~m.signed \/ m.alg \notin server.algs)
    <3>1. PICK type \in {"60", "failure"} :
            /\ toClient' = Append(toClient, Reply(type))
            /\ type = "60" => m.alg \in server.algs
            /\ server' = [server EXCEPT !.busy = 0]
      BY <1>4, <2>3 DEF ServerDecides
    <3>7. Reply(type) \in AnswerRecord /\ Reply(type).type = type /\ Reply(type).to = Head(toServer).call
      BY <2>2 DEF Reply, AnswerRecord
    <3>2. PICK a \in AnswerRecord : a = Reply(type) /\ a.type = type /\ a.to = Head(toServer).call
      BY <3>7
    <3>3. waiting.stage \in {"probe", "signed"} /\ (waiting.stage = "signed" => type = "failure")
      BY <2>2, <2>3, <3>1 DEF Awaited
    <3>4. type \in Known(waiting.stage) \ Unasked
      BY <3>3 DEF Known, Unasked
    <3>5. /\ server' \in ServerRecord /\ server'.algs = server.algs
          /\ server'.announced = server.announced /\ ~server'.gone
          /\ server'.service = server.service /\ server'.authed = server.authed /\ server'.busy = 0
      BY <1>1, <2>2, <3>1 DEF ServerRecord
    <3>6. UNCHANGED <<call, queue, waiting, authenticated, algorithms, compat, ended>>
      BY <2>1 DEF ServerUnchanged
    <3> QED BY <1>1, <2>1, <2>2, <3>1, <3>2, <3>4, <3>5, <3>6, ReplyStep
  <2>4. CASE ~(m.op = "publickey" /\ (~m.signed \/ m.alg \notin server.algs))
    <3>1. ServerSucceeds \/ ServerFails \/ (m.op \in {"password", "keyboard"} /\ ServerPrompts)
      BY <1>4, <2>4 DEF ServerDecides
    <3>2. m.op \in {"password", "keyboard"} => waiting.stage \in {"password", "keyboard"}
      <4>1. ASSUME m.op \in {"password", "keyboard"} PROVE waiting.stage = m.op
        BY <2>2, <4>1 DEF Awaited
      <4> QED BY <4>1
    <3> QED BY <2>1, <2>2, <3>1, <3>2, VerdictStep
  <2> QED BY <2>3, <2>4
<1>5. CASE ServerHearsResponse
  <2>1. /\ Asked("response") /\ toServer' = Tail(toServer) /\ ServerUnchanged
        /\ server.busy = Head(toServer).call
        /\ ServerSucceeds \/ ServerFails \/ ServerPrompts
    BY <1>5 DEF ServerHearsResponse
  <2>2. ~server.gone /\ toServer # <<>> /\ waiting.stage = "keyboard" /\ Head(toServer).call \in Calls
    BY <1>2, <2>1 DEF Awaited
  <2>3. ~server.authed
    BY <2>1, <2>2, InvFacts DEF AuthInv, AuthStands
  <2>4. waiting.stage \in Stages \ {"service"}
    BY <2>2 DEF Stages
  <2> QED BY <2>1, <2>2, <2>3, <2>4, VerdictStep
<1>6. CASE ServerIgnores
  <2>1. /\ Asked("request") /\ toServer' = Tail(toServer) /\ server' = [server EXCEPT !.ignored = TRUE]
        /\ UNCHANGED <<toClient, call, queue, waiting, authenticated, algorithms, compat, ended>>
    BY <1>6 DEF ServerIgnores, ServerUnchanged
  <2>2. toServer' = <<>> /\ ~server.gone
    BY <1>2, <2>1 DEF AuthInv, OneUnderWay
  <2>3. /\ server' \in ServerRecord /\ server'.algs = server.algs
        /\ server'.announced = server.announced /\ server'.gone = server.gone
        /\ server'.service = server.service /\ server'.authed = server.authed /\ server'.busy = server.busy
    BY <1>1, <2>1 DEF ServerRecord
  <2>9. toServer' \in Seq(RequestRecord)
    BY <2>2
  <2>4. AuthTypeOK'
    BY <2>1, <2>3, <2>9 DEF AuthInv, AuthTypeOK
  <2>5. OneUnderWay' /\ RsaFits'
    BY <2>1, <2>2, <2>3 DEF AuthInv, OneUnderWay, RsaFits
  <2>6. NewCalls' /\ AnswerIsOwn'
    BY <2>1 DEF AuthInv, NewCalls, AnswerIsOwn
  <2>7. AuthStands' /\ ExtRead'
    BY <2>1, <2>3 DEF AuthInv, AuthStands, ExtRead
  <2>8. ProbeFits'
    BY <2>1, <2>3 DEF AuthInv, ProbeFits, SignedRequest, Request, RsaOk
  <2> QED BY <2>4, <2>5, <2>6, <2>7, <2>8 DEF AuthInv
<1>7. CASE ServerDisconnects
  <2>1. /\ Asked("request") /\ ~server.service /\ server' = [server EXCEPT !.gone = TRUE]
        /\ UNCHANGED <<toServer, toClient, call, queue, waiting, authenticated, algorithms, compat, ended>>
    BY <1>7 DEF ServerDisconnects, ServerUnchanged
  <2>2. Quiet(toClient)
    BY <1>2, <2>1
  <2>3. /\ server' \in ServerRecord /\ server'.algs = server.algs
        /\ server'.announced = server.announced /\ server'.gone
        /\ server'.service = server.service /\ server'.authed = server.authed /\ server'.busy = server.busy
    BY <1>1, <2>1 DEF ServerRecord
  <2>4. AuthTypeOK'
    BY <2>1, <2>3 DEF AuthInv, AuthTypeOK
  <2>5. OneUnderWay' /\ RsaFits'
    BY <2>1, <2>2, <2>3 DEF AuthInv, OneUnderWay, RsaFits
  <2>6. NewCalls' /\ AnswerIsOwn'
    BY <2>1 DEF AuthInv, NewCalls, AnswerIsOwn
  <2>7. AuthStands' /\ ExtRead'
    BY <2>1, <2>3 DEF AuthInv, AuthStands, ExtRead
  <2>8. ProbeFits'
    BY <2>1, <2>3 DEF AuthInv, ProbeFits, SignedRequest, Request, RsaOk
  <2> QED BY <2>4, <2>5, <2>6, <2>7, <2>8 DEF AuthInv
<1>8. CASE ServerBanner
  <2>1. /\ ~server.gone /\ toClient' = Append(toClient, [type |-> "banner", to |-> 0])
        /\ server' = [server EXCEPT !.bannered = TRUE]
        /\ UNCHANGED <<toServer, call, queue, waiting, authenticated, algorithms, compat, ended>>
    BY <1>8 DEF ServerBanner, ServerUnchanged
  <2>10. [type |-> "banner", to |-> 0] \in AnswerRecord
    BY DEF AnswerRecord
  <2>2. PICK m \in AnswerRecord : m = [type |-> "banner", to |-> 0] /\ m.type = "banner"
    BY <2>10
  <2>3. /\ toClient' \in Seq(AnswerRecord) /\ toClient' # <<>>
        /\ toClient # <<>> => Head(toClient') = Head(toClient)
        /\ OneAnswer(toClient', waiting.call, Known(waiting.stage))
        /\ Quiet(toClient) => Quiet(toClient')
        /\ HasSuccess(toClient') <=> HasSuccess(toClient)
        /\ Announces(toClient', server.algs)
    BY <1>1, <2>1, <2>2, AnswerAppend, UnaskedSent, ExtWire DEF Unasked
  <2>4. /\ server' \in ServerRecord /\ server'.algs = server.algs
        /\ server'.announced = server.announced /\ server'.gone = server.gone
        /\ server'.service = server.service /\ server'.authed = server.authed /\ server'.busy = server.busy
    BY <1>1, <2>1 DEF ServerRecord
  <2>5. AuthTypeOK'
    BY <2>1, <2>3, <2>4 DEF AuthInv, AuthTypeOK
  <2>6. OneUnderWay' /\ RsaFits'
    BY <2>1, <2>3, <2>4 DEF AuthInv, OneUnderWay, RsaFits, Awaited
  <2>7. NewCalls' /\ AnswerIsOwn'
    BY <2>1 DEF AuthInv, NewCalls, AnswerIsOwn
  <2>8. AuthStands' /\ ExtRead'
    BY <2>1, <2>3, <2>4 DEF AuthInv, AuthStands, ExtRead
  <2>9. ProbeFits'
    BY <2>1, <2>4 DEF AuthInv, ProbeFits, SignedRequest, Request, RsaOk
  <2> QED BY <2>5, <2>6, <2>7, <2>8, <2>9 DEF AuthInv
<1> QED BY <1>3, <1>4, <1>5, <1>6, <1>7, <1>8 DEF Server

-----------------------------------------------------------------------------
(* Theorems.                                                               *)

\* One request or answer at a time, for the call that is waited for.
THEOREM AuthInvariant == Spec => []AuthInv
<1>1. Init => AuthInv
  BY InitAuth
<1>2. AuthInv /\ [Next]_vars => AuthInv'
  <2> SUFFICES ASSUME AuthInv, [Next]_vars PROVE AuthInv'
    OBVIOUS
  <2>1. CASE UNCHANGED vars
    <3>1. OneUnderWay' /\ AuthStands' /\ ExtRead' /\ RsaFits'
      BY <2>1, WiresStand DEF vars
    <3>2. AuthTypeOK'
      BY <2>1 DEF vars, AuthInv, AuthTypeOK
    <3>3. NewCalls' /\ AnswerIsOwn' /\ ProbeFits'
      BY <2>1 DEF vars, AuthInv, NewCalls, AnswerIsOwn, ProbeFits, SignedRequest, Request
    <3> QED BY <3>1, <3>2, <3>3 DEF AuthInv
  <2>2. CASE \E c \in Calls : AppCall(c) \/ AppGivesUp(c)
    BY <2>2, AppSteps
  <2>3. CASE Task
    BY <2>3, TakeSteps, HandleSteps, OtherStep, FailSteps DEF Task
  <2>4. CASE Server \/ ServerBanner
    BY <2>4, ServerSteps
  <2> QED BY <2>1, <2>2, <2>3, <2>4 DEF Next
<1> QED BY <1>1, <1>2, PTL DEF Spec

\* A call's result is the server's answer to that call and to no other.
THEOREM AnswersAreOwn == Spec => []AnswerIsOwn
<1>1. AuthInv => AnswerIsOwn
  BY DEF AuthInv
<1> QED BY <1>1, AuthInvariant, PTL

\* An RSA key is offered and used with an algorithm the server announced.
THEOREM RsaAlwaysFits == Spec => []RsaFits
<1>1. AuthInv => RsaFits
  BY DEF AuthInv
<1> QED BY <1>1, AuthInvariant, PTL

\* The client takes itself for authenticated only if the server does, and the two agree
\* when nothing is under way.
THEOREM AuthAlwaysAgrees == Spec => []AuthAgrees
<1>1. AuthInv => AuthAgrees
  <2> SUFFICES ASSUME AuthInv PROVE AuthAgrees
    OBVIOUS
  <2>1. authenticated \in BOOLEAN /\ server.authed \in BOOLEAN
    BY DEF AuthInv, AuthTypeOK, ServerRecord
  <2>2. toClient = <<>> => ~HasSuccess(toClient)
    BY DEF HasSuccess
  <2> QED BY <2>1, <2>2, Zenon DEF AuthInv, AuthStands, AuthAgrees
<1> QED BY <1>1, AuthInvariant, PTL

\* Message 60 has three meanings: every answer that reaches a wait is of a kind which that
\* wait reads, so none is taken for another's and none is left unread.
THEOREM AnswersAreUnderstood ==
  Spec => [](toClient # <<>> /\ Head(toClient).type \notin Unasked =>
               /\ waiting # Idle /\ Head(toClient).to = waiting.call
               /\ Head(toClient).type \in Known(waiting.stage))
<1>1. AuthInv => (toClient # <<>> /\ Head(toClient).type \notin Unasked =>
                    /\ waiting # Idle /\ Head(toClient).to = waiting.call
                    /\ Head(toClient).type \in Known(waiting.stage))
  <2> SUFFICES ASSUME AuthInv, toClient # <<>>, Head(toClient).type \notin Unasked
               PROVE  /\ waiting # Idle /\ Head(toClient).to = waiting.call
                      /\ Head(toClient).type \in Known(waiting.stage)
    OBVIOUS
  <2>1. toClient \in Seq(AnswerRecord) /\ OneAnswer(toClient, waiting.call, Known(waiting.stage))
    BY DEF AuthInv, AuthTypeOK, OneUnderWay
  <2>2. ~Quiet(toClient) /\ Head(toClient).to = waiting.call /\ Head(toClient).type \in Known(waiting.stage)
    BY <2>1, AnswerRead
  <2> QED BY <2>2, InvFacts
<1> QED BY <1>1, AuthInvariant, PTL
=============================================================================
