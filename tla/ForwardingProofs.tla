-------------------------- MODULE ForwardingProofs --------------------------
(***************************************************************************)
(* Forwarding's safety properties for any listeners, ports, connections    *)
(* and queue lengths.  ForwardInv follows the one global request that may  *)
(* be under way through its stages, and says at each how the server's      *)
(* bound ports differ from the Forward table.                              *)
(***************************************************************************)
EXTENDS Forwarding, SequenceTheorems, TLAPS

Addresses == Asked \cup Ports \cup {0}

EventRecord ==
  [op : {"listen"}, l : Listeners, addr : Asked, want : {TRUE}]
    \cup [op : {"cancel"}, l : Listeners \cup {0}, addr : Addresses, want : BOOLEAN]
    \cup [op : {"close"}, l : {0}, addr : Conns, want : {FALSE}]
    \cup [op : {"clean"}, l : {0}, addr : {0}, want : {FALSE}]

RequestRecord ==
  [type : {"tcpip-forward"}, l : Listeners, addr : Asked, want : {TRUE}]
    \cup [type : {"cancel"}, l : Listeners \cup {0}, addr : Addresses, want : BOOLEAN]

ReplyRecord == [type : {"success", "failure"}, addr : Ports \cup {0}, at : {0}, to : RequestRecord]

OpenRecord == [type : {"open"}, addr : Conns, at : Ports, to : {None}]

ListenerRecord ==
  [state : {"new", "asked", "unwanted", "open", "cancelling", "cancelled", "gone", "failed"},
   addr : Addresses, queue : Seq(Conns)]

WaitRecord ==
  [op : {"listen"}, l : Listeners, addr : Asked]
    \cup [op : {"cancel"}, l : Listeners \cup {0}, addr : Addresses]

Forwards(f) == f \in [DOMAIN f -> Listeners] /\ DOMAIN f \subseteq Ports

ForwardTypeOK ==
  /\ events \in Seq(EventRecord)
  /\ awaiting \in WaitRecord \cup {None}
  /\ cleaning \in SUBSET Ports
  /\ delivering \in [op : {"deliver"}, l : Listeners, addr : Conns] \cup {None}
  /\ Forwards(table) /\ Forwards(bound)
  /\ listener \in [Listeners -> ListenerRecord]
  /\ stream \in [Conns -> {"none", "queued", "held", "dropped", "closed"}]
  /\ session \in BOOLEAN /\ ended \in BOOLEAN
  /\ toServer \in Seq(RequestRecord) /\ toClient \in Seq(ReplyRecord \cup OpenRecord)
  /\ peer \in [Conns -> {"none", "opening", "confirm", "refuse", "close"}]

\* k waits for the reply to m.
Awaited(k, m) ==
  /\ k.l = m.l /\ k.addr = m.addr
  /\ k.op = (IF m.type = "cancel" THEN "cancel" ELSE "listen")

\* No reply is under way; one is, and it is r.
NoReply(w) == \A i \in 1..Len(w) : w[i].type = "open"
OneReply(w, r) == \E i \in 1..Len(w) : w[i] = r /\ \A j \in 1..Len(w) : w[j].type = "open" \/ j = i

\* Only the last request may ask for a reply.
NoneAsks(w) == \A i \in 1..Len(w) : ~w[i].want
LastAsks(w) == w # <<>> /\ w[Len(w)].want /\ \A i \in 1..Len(w) : w[i].want => i = Len(w)

\* A cancellation without reply has not reached the server.
Pending(w, a) == \E i \in 1..Len(w) : w[i].addr = a /\ ~w[i].want

\* The server listens where the table says, once it has heard these cancellations.
Level(w, t, b) ==
  \A a \in Ports :
    /\ Pending(w, a) => a \notin DOMAIN t
    /\ ~Pending(w, a) => /\ a \in DOMAIN b <=> a \in DOMAIN t
                         /\ a \in DOMAIN t => b[a] = t[a]

With(t, p, l) == [a \in DOMAIN t \cup {p} |-> IF a = p THEN l ELSE t[a]]
Without(t, p) == [a \in DOMAIN t \ {p} |-> t[a]]

\* What the reply r to k makes of the table t.
Outcome(t, k, r) ==
  IF r.type = "success" THEN IF k.op = "listen" THEN With(t, r.addr, k.l) ELSE Without(t, k.addr)
  ELSE t

\* No request names a port of its own choice.
ServerChooses == Asked \cap Ports = {}

Resting ==
  /\ awaiting = None /\ NoneAsks(toServer) /\ NoReply(toClient)
  /\ ServerChooses => Level(toServer, table, bound)

Requested ==
  /\ awaiting # None /\ LastAsks(toServer) /\ Awaited(awaiting, toServer[Len(toServer)]) /\ NoReply(toClient)
  /\ ServerChooses => Level(toServer, table, bound)

Replied ==
  /\ awaiting # None /\ toServer = <<>>
  /\ \E r \in ReplyRecord :
       /\ OneReply(toClient, r) /\ Awaited(awaiting, r.to)
       /\ ServerChooses =>
            /\ bound = Outcome(table, awaiting, r)
            /\ r.type = "success" /\ awaiting.op = "listen" => r.addr # 0

\* Where the one request that may be under way is.
Stage == Resting \/ Requested \/ Replied

\* The close of each connection without a Stream is under way, or was lost.
StreamsKept ==
  \A c \in Conns : peer[c] = "confirm" =>
    \/ stream[c] \in {"queued", "held"}
    \/ Event("close", 0, c, FALSE) \in ToSet(events) \cup lost

ForwardInv ==
  /\ ForwardTypeOK
  /\ Frontends => ~ended /\ Stage /\ StreamsKept

-----------------------------------------------------------------------------
(* Queues.                                                                 *)

\* The smaller of two numbers.
LEMMA MinPair ==
  ASSUME NEW a \in Nat, NEW b \in Nat
  PROVE  Min({a, b}) = IF a <= b THEN a ELSE b
BY DEF Min

\* What try_send is given is in the queue afterwards, or lost.
LEMMA TrySendFacts ==
  ASSUME NEW q \in Seq(EventRecord), NEW evs \in Seq(EventRecord), TrySend(q, evs)
  PROVE  /\ events' \in Seq(EventRecord)
         /\ ToSet(q) \cup ToSet(evs) \subseteq ToSet(events') \cup lost'
         /\ lost \subseteq lost'
<1> DEFINE all == q \o evs
           n == Min({Len(all), EventCap})
<1>1. /\ all \in Seq(EventRecord) /\ Len(all) = Len(q) + Len(evs) /\ Len(q) \in Nat /\ Len(evs) \in Nat
      /\ \A i \in 1..Len(q) : all[i] = q[i]
      /\ \A i \in 1..Len(evs) : all[Len(q) + i] = evs[i]
  BY ConcatProperties
<1>2. n \in 0..Len(all)
  <2>1. Len(all) \in Nat /\ EventCap \in Nat
    BY <1>1, ForwardingAssumption
  <2> HIDE DEF all
  <2>2. n = IF Len(all) <= EventCap THEN Len(all) ELSE EventCap
    BY <2>1, MinPair
  <2> HIDE DEF n
  <2> QED BY <2>1, <2>2
<1>3. events' = SubSeq(all, 1, n) /\ lost' = lost \cup ToSet(SubSeq(all, n + 1, Len(all)))
  BY DEF TrySend
<1> HIDE DEF all, n
<1>4. events' \in Seq(EventRecord) /\ Len(events') = n /\ \A i \in 1..n : events'[i] = all[i]
  BY <1>1, <1>2, <1>3, SubSeqProperties
<1>5. \A i \in 1..Len(all) : all[i] \in ToSet(events') \cup lost'
  <2> SUFFICES ASSUME NEW i \in 1..Len(all) PROVE all[i] \in ToSet(events') \cup lost'
    OBVIOUS
  <2>1. CASE i <= n
    <3>1. i \in DOMAIN events' /\ events'[i] = all[i]
      BY <1>1, <1>2, <1>4, <2>1
    <3> QED BY <3>1 DEF ToSet
  <2>2. CASE n < i
    <3> DEFINE rest == SubSeq(all, n + 1, Len(all))
    <3>1. Len(rest) = Len(all) - n /\ i - n \in 1..Len(rest) /\ rest[i - n] = all[i] /\ DOMAIN rest = 1..Len(rest)
      BY <1>1, <1>2, <2>2, SubSeqProperties
    <3> HIDE DEF rest
    <3>2. all[i] \in ToSet(rest)
      BY <3>1 DEF ToSet
    <3> QED BY <1>3, <3>2 DEF rest
  <2> QED BY <1>1, <1>2, <2>1, <2>2
<1>6. ASSUME NEW e \in ToSet(q) \cup ToSet(evs) PROVE \E i \in 1..Len(all) : e = all[i]
  <2>1. CASE e \in ToSet(q)
    <3>1. PICK i \in 1..Len(q) : e = q[i]
      BY <2>1 DEF ToSet
    <3> QED BY <1>1, <3>1
  <2>2. CASE e \in ToSet(evs)
    <3>1. PICK i \in 1..Len(evs) : e = evs[i]
      BY <2>2 DEF ToSet
    <3>2. Len(q) + i \in 1..Len(all)
      BY <1>1
    <3> QED BY <1>1, <3>1, <3>2
  <2> QED BY <2>1, <2>2
<1> QED BY <1>3, <1>4, <1>5, <1>6

\* The events of dropped Streams.
LEMMA CloseEventsFacts ==
  ASSUME NEW cs \in Seq(Conns)
  PROVE  /\ CloseEvents(cs) \in Seq(EventRecord)
         /\ \A c \in ToSet(cs) : Event("close", 0, c, FALSE) \in ToSet(CloseEvents(cs))
<1> DEFINE n == Len(cs)
           f == [i \in 1..n |-> Event("close", 0, cs[i], FALSE)]
<1>1. n \in Nat /\ DOMAIN cs = 1..n /\ \A i \in 1..n : cs[i] \in Conns
  OBVIOUS
<1>2. CloseEvents(cs) = f
  BY <1>1 DEF CloseEvents
<1> HIDE DEF n
<1>3. \A i \in 1..n : Event("close", 0, cs[i], FALSE) \in EventRecord
  BY <1>1 DEF Event, EventRecord
<1>4. f \in Seq(EventRecord)
  <2>1. f \in [1..n -> EventRecord]
    BY <1>3
  <2> HIDE DEF f
  <2> QED BY <1>1, <2>1, SeqDef
<1>5. ASSUME NEW c \in ToSet(cs) PROVE Event("close", 0, c, FALSE) \in ToSet(f)
  <2>1. PICK i \in 1..n : c = cs[i]
    BY <1>1, <1>5 DEF ToSet
  <2>2. i \in DOMAIN f /\ f[i] = Event("close", 0, c, FALSE)
    BY <2>1
  <2> HIDE DEF f
  <2> QED BY <2>2 DEF ToSet
<1> QED BY <1>2, <1>4, <1>5

\* The events of a dropped listener.
LEMMA DropEventsFacts ==
  ASSUME NEW a \in Addresses, NEW cs \in Seq(Conns)
  PROVE  /\ <<DropEvent(a)>> \o CloseEvents(cs) \in Seq(EventRecord)
         /\ ToSet(CloseEvents(cs)) \subseteq ToSet(<<DropEvent(a)>> \o CloseEvents(cs))
<1> DEFINE e == <<DropEvent(a)>>
           f == CloseEvents(cs)
           all == e \o f
<1>1. DropEvent(a) \in EventRecord
  BY DEF DropEvent, Event, EventRecord
<1>2. e \in Seq(EventRecord) /\ Len(e) = 1
  BY <1>1
<1>3. f \in Seq(EventRecord)
  BY CloseEventsFacts
<1> HIDE DEF e, f
<1>4. /\ all \in Seq(EventRecord) /\ Len(all) = Len(f) + 1 /\ Len(f) \in Nat /\ DOMAIN f = 1..Len(f)
      /\ \A i \in 1..Len(f) : all[i + 1] = f[i]
  <2>1. /\ all \in Seq(EventRecord) /\ Len(all) = Len(e) + Len(f)
        /\ \A i \in 1..Len(e) + Len(f) : all[i] = IF i <= Len(e) THEN e[i] ELSE f[i - Len(e)]
    BY <1>2, <1>3, ConcatProperties
  <2> HIDE DEF all
  <2>2. Len(f) \in Nat /\ DOMAIN f = 1..Len(f)
    BY <1>3
  <2> QED BY <1>2, <2>1, <2>2
<1> HIDE DEF all
<1>5. \A i \in DOMAIN f : i + 1 \in DOMAIN all /\ all[i + 1] = f[i]
  BY <1>4
<1>6. ToSet(f) \subseteq ToSet(all)
  BY <1>5 DEF ToSet
<1> QED BY <1>4, <1>6 DEF e, f, all

\* An event at the end of the queue, and one taken from its head.
LEMMA EventsFacts ==
  ASSUME NEW q \in Seq(EventRecord)
  PROVE  /\ \A e \in EventRecord : Append(q, e) \in Seq(EventRecord) /\ ToSet(q) \subseteq ToSet(Append(q, e))
         /\ q # <<>> => /\ Tail(q) \in Seq(EventRecord) /\ Head(q) \in EventRecord
                        /\ ToSet(q) \subseteq ToSet(Tail(q)) \cup {Head(q)}
<1>1. ASSUME NEW e \in EventRecord
      PROVE  Append(q, e) \in Seq(EventRecord) /\ ToSet(q) \subseteq ToSet(Append(q, e))
  <2>1. /\ Append(q, e) \in Seq(EventRecord) /\ Len(Append(q, e)) = Len(q) + 1
        /\ \A i \in 1..Len(q) : Append(q, e)[i] = q[i]
    BY AppendProperties
  <2>2. \A i \in DOMAIN q : i \in DOMAIN Append(q, e) /\ Append(q, e)[i] = q[i]
    BY <2>1
  <2> QED BY <2>1, <2>2 DEF ToSet
<1>2. ASSUME q # <<>>
      PROVE  /\ Tail(q) \in Seq(EventRecord) /\ Head(q) \in EventRecord
             /\ ToSet(q) \subseteq ToSet(Tail(q)) \cup {Head(q)}
  <2>1. Tail(q) \in Seq(EventRecord) /\ Head(q) \in EventRecord /\ Head(q) = q[1]
    BY <1>2
  <2>2. \A i \in DOMAIN q : i = 1 \/ (i - 1 \in DOMAIN Tail(q) /\ Tail(q)[i - 1] = q[i])
    BY <1>2
  <2> QED BY <2>1, <2>2 DEF ToSet
<1> QED BY <1>1, <1>2

-----------------------------------------------------------------------------
(* Wires.                                                                  *)

Answers == ReplyRecord \cup OpenRecord

\* What the server sent, as messages come and go.
LEMMA ReplyWire ==
  ASSUME NEW w \in Seq(Answers)
  PROVE  /\ \A m \in OpenRecord : /\ Append(w, m) \in Seq(Answers)
                                  /\ NoReply(w) => NoReply(Append(w, m))
                                  /\ \A r : OneReply(w, r) => OneReply(Append(w, m), r)
         /\ \A m \in ReplyRecord : /\ Append(w, m) \in Seq(Answers)
                                   /\ NoReply(w) => OneReply(Append(w, m), m)
         /\ w # <<>> => /\ Tail(w) \in Seq(Answers) /\ Head(w) \in Answers
                        /\ NoReply(w) => NoReply(Tail(w)) /\ Head(w) \in OpenRecord
                        /\ \A r \in ReplyRecord : OneReply(w, r) =>
                             IF Head(w).type = "open" THEN OneReply(Tail(w), r)
                             ELSE Head(w) = r /\ NoReply(Tail(w))
<1>1. \A m \in OpenRecord : m.type = "open" /\ m \in Answers
  BY DEF OpenRecord, Answers
<1>2. \A m \in ReplyRecord : m.type # "open" /\ m \in Answers
  BY DEF ReplyRecord, Answers
<1>3. \A m \in Answers : /\ Append(w, m) \in Seq(Answers) /\ Len(Append(w, m)) = Len(w) + 1 /\ Len(w) \in Nat
                         /\ Append(w, m)[Len(w) + 1] = m
                         /\ \A i \in 1..Len(w) : Append(w, m)[i] = w[i]
  BY AppendProperties
<1>4. ASSUME NEW m \in OpenRecord
      PROVE  /\ Append(w, m) \in Seq(Answers) /\ (NoReply(w) => NoReply(Append(w, m)))
             /\ \A r : OneReply(w, r) => OneReply(Append(w, m), r)
  <2>1. \A i \in 1..Len(Append(w, m)) :
           (i \in 1..Len(w) /\ Append(w, m)[i] = w[i]) \/ Append(w, m)[i].type = "open"
    BY <1>1, <1>3
  <2>2. \A i \in 1..Len(w) : i \in 1..Len(Append(w, m)) /\ Append(w, m)[i] = w[i]
    BY <1>1, <1>3
  <2>3. NoReply(w) => NoReply(Append(w, m))
    BY <2>1 DEF NoReply
  <2>4. ASSUME NEW r, OneReply(w, r) PROVE OneReply(Append(w, m), r)
    <3>1. PICK i \in 1..Len(w) : w[i] = r /\ \A j \in 1..Len(w) : w[j].type = "open" \/ j = i
      BY <2>4 DEF OneReply
    <3>2. i \in 1..Len(Append(w, m)) /\ Append(w, m)[i] = r
      BY <2>2, <3>1
    <3>3. \A j \in 1..Len(Append(w, m)) : Append(w, m)[j].type = "open" \/ j = i
      BY <2>1, <3>1
    <3> QED BY <3>2, <3>3 DEF OneReply
  <2> QED BY <1>1, <1>3, <2>3, <2>4
<1>5. ASSUME NEW m \in ReplyRecord
      PROVE  Append(w, m) \in Seq(Answers) /\ (NoReply(w) => OneReply(Append(w, m), m))
  <2>1. ASSUME NoReply(w)
        PROVE  /\ Len(w) + 1 \in 1..Len(Append(w, m)) /\ Append(w, m)[Len(w) + 1] = m
               /\ \A j \in 1..Len(Append(w, m)) : Append(w, m)[j].type = "open" \/ j = Len(w) + 1
    BY <1>2, <1>3, <2>1 DEF NoReply
  <2> QED BY <1>2, <1>3, <2>1 DEF OneReply
<1>6. ASSUME w # <<>>
      PROVE  /\ Tail(w) \in Seq(Answers) /\ Head(w) \in Answers
             /\ NoReply(w) => NoReply(Tail(w)) /\ Head(w) \in OpenRecord
             /\ \A r \in ReplyRecord : OneReply(w, r) =>
                  IF Head(w).type = "open" THEN OneReply(Tail(w), r)
                  ELSE Head(w) = r /\ NoReply(Tail(w))
  <2>1. /\ Tail(w) \in Seq(Answers) /\ Head(w) \in Answers /\ Head(w) = w[1] /\ 1 \in 1..Len(w)
        /\ Len(Tail(w)) = Len(w) - 1 /\ Len(w) \in Nat
        /\ \A i \in 1..Len(Tail(w)) : i + 1 \in 1..Len(w) /\ i + 1 # 1 /\ Tail(w)[i] = w[i + 1]
    BY <1>6
  <2>2. NoReply(w) => NoReply(Tail(w)) /\ Head(w) \in OpenRecord
    BY <1>2, <2>1 DEF NoReply, Answers
  <2>3. ASSUME NEW r \in ReplyRecord, OneReply(w, r)
        PROVE  IF Head(w).type = "open" THEN OneReply(Tail(w), r)
               ELSE Head(w) = r /\ NoReply(Tail(w))
    <3>1. PICK i \in 1..Len(w) : w[i] = r /\ \A j \in 1..Len(w) : w[j].type = "open" \/ j = i
      BY <2>3 DEF OneReply
    <3>2. CASE Head(w).type = "open"
      <4>1. i # 1
        BY <1>2, <2>1, <3>1, <3>2
      <4>2. i - 1 \in 1..Len(Tail(w)) /\ Tail(w)[i - 1] = r
        BY <1>6, <3>1, <4>1
      <4>3. \A j \in 1..Len(Tail(w)) : Tail(w)[j].type = "open" \/ j = i - 1
        <5> SUFFICES ASSUME NEW j \in 1..Len(Tail(w)), Tail(w)[j].type # "open" PROVE j = i - 1
          OBVIOUS
        <5>1. j + 1 = i
          BY <2>1, <3>1
        <5> QED BY <5>1
      <4> QED BY <3>2, <4>2, <4>3 DEF OneReply
    <3>3. CASE Head(w).type # "open"
      <4>1. i = 1
        BY <2>1, <3>1, <3>3
      <4>2. NoReply(Tail(w))
        BY <2>1, <3>1, <4>1 DEF NoReply
      <4> QED BY <2>1, <3>1, <3>3, <4>1, <4>2
    <3> QED BY <3>2, <3>3
  <2> QED BY <2>1, <2>2, <2>3
<1> QED BY <1>4, <1>5, <1>6

\* A request at the end of the wire.
LEMMA RequestSent ==
  ASSUME NEW w \in Seq(RequestRecord), NEW m \in RequestRecord
  PROVE  /\ Append(w, m) \in Seq(RequestRecord)
         /\ NoneAsks(w) /\ ~m.want => NoneAsks(Append(w, m))
         /\ NoneAsks(w) /\ m.want => LastAsks(Append(w, m)) /\ Append(w, m)[Len(Append(w, m))] = m
         /\ \A a : Pending(Append(w, m), a) <=> Pending(w, a) \/ (a = m.addr /\ ~m.want)
<1> DEFINE v == Append(w, m)
<1>1. /\ v \in Seq(RequestRecord) /\ Len(v) = Len(w) + 1 /\ Len(w) \in Nat
      /\ v[Len(w) + 1] = m /\ \A i \in 1..Len(w) : v[i] = w[i]
  BY AppendProperties
<1> HIDE DEF v
<1>2. /\ Len(v) \in 1..Len(v) /\ v[Len(v)] = m /\ v # <<>>
      /\ \A i \in 1..Len(w) : i \in 1..Len(v) /\ v[i] = w[i]
      /\ \A i \in 1..Len(v) : i = Len(v) \/ (i \in 1..Len(w) /\ v[i] = w[i])
  BY <1>1
<1>3. NoneAsks(w) /\ ~m.want => NoneAsks(v)
  BY <1>2 DEF NoneAsks
<1>4. NoneAsks(w) /\ m.want => LastAsks(v)
  BY <1>2 DEF NoneAsks, LastAsks
<1>5. \A a : Pending(v, a) <=> Pending(w, a) \/ (a = m.addr /\ ~m.want)
  BY <1>2 DEF Pending
<1> QED BY <1>1, <1>2, <1>3, <1>4, <1>5 DEF v

\* The server takes the first request.
LEMMA RequestTaken ==
  ASSUME NEW w \in Seq(RequestRecord), w # <<>>
  PROVE  /\ Tail(w) \in Seq(RequestRecord) /\ Head(w) \in RequestRecord
         /\ NoneAsks(w) => NoneAsks(Tail(w)) /\ ~Head(w).want
         /\ LastAsks(w) /\ ~Head(w).want => LastAsks(Tail(w)) /\ Tail(w)[Len(Tail(w))] = w[Len(w)]
         /\ LastAsks(w) /\ Head(w).want => /\ Tail(w) = <<>> /\ w[Len(w)] = Head(w)
                                           /\ \A a : ~Pending(w, a)
         /\ \A a : Pending(w, a) <=> Pending(Tail(w), a) \/ (a = Head(w).addr /\ ~Head(w).want)
<1> DEFINE h == Head(w)
           v == Tail(w)
<1>1. /\ v \in Seq(RequestRecord) /\ h \in RequestRecord /\ h = w[1] /\ 1 \in 1..Len(w)
      /\ Len(v) = Len(w) - 1 /\ Len(w) \in Nat /\ Len(w) > 0
      /\ \A i \in 1..Len(v) : v[i] = w[i + 1]
  OBVIOUS
<1> HIDE DEF h, v
<1>2. Len(w) = 1 => v = <<>>
  BY <1>1, EmptySeq
<1>3. /\ \A i \in 1..Len(v) : i + 1 \in 1..Len(w) /\ i + 1 # 1 /\ v[i] = w[i + 1]
      /\ \A i \in 1..Len(w) : i = 1 \/ (i - 1 \in 1..Len(v) /\ v[i - 1] = w[i])
  BY <1>1
<1>4. NoneAsks(w) => NoneAsks(v) /\ ~h.want
  BY <1>1, <1>3 DEF NoneAsks
<1>5. ASSUME LastAsks(w), ~h.want PROVE LastAsks(v) /\ v[Len(v)] = w[Len(w)]
  <2>1. Len(w) # 1 /\ w[Len(w)].want
    BY <1>1, <1>5 DEF LastAsks
  <2>2. Len(v) \in 1..Len(v) /\ v[Len(v)] = w[Len(w)] /\ v # <<>>
    BY <1>1, <2>1
  <2>3. \A i \in 1..Len(v) : v[i].want => i = Len(v)
    BY <1>1, <1>3, <1>5 DEF LastAsks
  <2> QED BY <2>1, <2>2, <2>3 DEF LastAsks
<1>6. ASSUME LastAsks(w), h.want PROVE v = <<>> /\ w[Len(w)] = h /\ \A a : ~Pending(w, a)
  <2>1. Len(w) = 1
    BY <1>1, <1>6 DEF LastAsks
  <2>2. \A a : ~Pending(w, a)
    BY <1>1, <1>6, <2>1 DEF Pending
  <2> QED BY <1>1, <1>2, <2>1, <2>2
<1>7. ASSUME NEW a PROVE Pending(w, a) <=> Pending(v, a) \/ (a = h.addr /\ ~h.want)
  <2>1. Pending(w, a) => Pending(v, a) \/ (a = h.addr /\ ~h.want)
    BY <1>1, <1>3 DEF Pending
  <2>2. Pending(v, a) => Pending(w, a)
    BY <1>3 DEF Pending
  <2>3. a = h.addr /\ ~h.want => Pending(w, a)
    BY <1>1 DEF Pending
  <2> QED BY <2>1, <2>2, <2>3
<1> QED BY <1>1, <1>4, <1>5, <1>6, <1>7 DEF h, v

\* Nothing is pending: the server listens where the table says.
LEMMA LevelEqual ==
  ASSUME NEW w, NEW t, NEW b, Forwards(t), Forwards(b), Level(w, t, b), \A a : ~Pending(w, a)
  PROVE  b = t
<1>1. DOMAIN b = DOMAIN t
  BY DEF Forwards, Level
<1>2. \A a \in DOMAIN b : b[a] = t[a]
  BY DEF Forwards, Level
<1> QED BY <1>1, <1>2 DEF Forwards

\* And where the two are the same, they agree with nothing pending.
LEMMA EqualLevel ==
  ASSUME NEW t
  PROVE  Level(<<>>, t, t)
<1>1. \A a : ~Pending(<<>>, a)
  BY DEF Pending
<1> QED BY <1>1 DEF Level

-----------------------------------------------------------------------------
(* Types.                                                                  *)

\* What a listener's answer and its silence leave of it.
LEMMA ListenerTypes ==
  ASSUME ForwardTypeOK, NEW l \in Listeners \cup {0}
  PROVE  /\ Answered(l) \in [Listeners -> ListenerRecord]
         /\ l \in Listeners /\ Silenced(l) =>
              /\ listener' \in [Listeners -> ListenerRecord]
              /\ stream' \in [Conns -> {"none", "queued", "held", "dropped", "closed"}]
<1>1. Answered(l) \in [Listeners -> ListenerRecord]
  BY DEF ForwardTypeOK, Answered, ListenerRecord
<1>2. ASSUME l \in Listeners, Silenced(l)
      PROVE  /\ listener' \in [Listeners -> ListenerRecord]
             /\ stream' \in [Conns -> {"none", "queued", "held", "dropped", "closed"}]
  <2>1. <<>> \in Seq(Conns)
    OBVIOUS
  <2>2. [listener[l] EXCEPT !.state = "gone", !.queue = <<>>] \in ListenerRecord
    BY <1>2, <2>1 DEF ForwardTypeOK, ListenerRecord
  <2>3. listener' = [listener EXCEPT ![l] = [listener[l] EXCEPT !.state = "gone", !.queue = <<>>]]
    BY <1>2 DEF Silenced, ForwardTypeOK
  <2>4. listener' \in [Listeners -> ListenerRecord]
    BY <2>2, <2>3 DEF ForwardTypeOK
  <2>5. stream' \in [Conns -> {"none", "queued", "held", "dropped", "closed"}]
    BY <1>2 DEF Silenced, ForwardTypeOK
  <2> QED BY <2>4, <2>5
<1> QED BY <1>1, <1>2

\* Every step of the application keeps the types.
LEMMA AppTypes ==
  ASSUME ForwardTypeOK, App
  PROVE  ForwardTypeOK'
<1> USE DEF ForwardTypeOK
<1> SUFFICES ASSUME AppUnchanged
             PROVE  /\ events' \in Seq(EventRecord)
                    /\ listener' \in [Listeners -> ListenerRecord]
                    /\ stream' \in [Conns -> {"none", "queued", "held", "dropped", "closed"}]
                    /\ session' \in BOOLEAN
  BY DEF App, AppUnchanged, AppListen, AppCancel, AppGivesUp, AppAccept, AppDropListener,
         AppCancelled, AppDropStream, AppClean, AppDropSession, Forwards
<1>0. \A l \in Listeners : listener[l] \in ListenerRecord /\ listener[l].queue \in Seq(Conns) /\ listener[l].addr \in Addresses
  BY DEF ListenerRecord
<1>1. ASSUME NEW l \in Listeners, NEW addr \in Asked, AppListen(l, addr)
      PROVE  events' \in Seq(EventRecord) /\ listener' \in [Listeners -> ListenerRecord]
  <2>1. Event("listen", l, addr, TRUE) \in EventRecord
    BY DEF Event, EventRecord
  <2>2. listener' \in [Listeners -> ListenerRecord]
    BY <1>1 DEF AppListen, ListenerRecord, Addresses
  <2> QED BY <1>1, <2>1, <2>2, EventsFacts DEF AppListen
<1>2. ASSUME NEW l \in Listeners, NEW want \in BOOLEAN, AppCancel(l, want)
      PROVE  events' \in Seq(EventRecord) /\ listener' \in [Listeners -> ListenerRecord]
  <2>1. Event("cancel", l, listener[l].addr, want) \in EventRecord
    BY <1>0 DEF Event, EventRecord
  <2>2. listener' \in [Listeners -> ListenerRecord]
    BY <1>2 DEF AppCancel, ListenerRecord
  <2> QED BY <1>2, <2>1, <2>2, EventsFacts DEF AppCancel
<1>3. ASSUME NEW l \in Listeners, AppGivesUp(l)
      PROVE  listener' \in [Listeners -> ListenerRecord]
  BY <1>3 DEF AppGivesUp, ListenerRecord
<1>4. ASSUME NEW l \in Listeners, AppAccept(l)
      PROVE  /\ listener' \in [Listeners -> ListenerRecord]
             /\ stream' \in [Conns -> {"none", "queued", "held", "dropped", "closed"}]
  <2>1. Head(listener[l].queue) \in Conns /\ Tail(listener[l].queue) \in Seq(Conns)
    BY <1>0, <1>4 DEF AppAccept
  <2> QED BY <1>4, <2>1 DEF AppAccept, ListenerRecord
<1>5. ASSUME NEW l \in Listeners, AppDropListener(l)
      PROVE  events' \in Seq(EventRecord)
  <2>1. DropEvents(l) \in Seq(EventRecord)
    BY <1>0, DropEventsFacts DEF DropEvents
  <2> QED BY <1>5, <2>1, TrySendFacts DEF AppDropListener
<1>6. ASSUME NEW l \in Listeners, AppCancelled(l)
      PROVE  events' \in Seq(EventRecord)
  <2>1. LeftBehind(l) \in Seq(EventRecord)
    BY <1>0, CloseEventsFacts DEF LeftBehind
  <2> QED BY <1>6, <2>1, TrySendFacts DEF AppCancelled
<1>7. ASSUME NEW c \in Conns, AppDropStream(c)
      PROVE  /\ events' \in Seq(EventRecord)
             /\ stream' \in [Conns -> {"none", "queued", "held", "dropped", "closed"}]
  <2>0. <<c>> \in Seq(Conns)
    OBVIOUS
  <2>1. CloseEvents(<<c>>) \in Seq(EventRecord)
    BY <2>0, CloseEventsFacts
  <2>2. events' \in Seq(EventRecord)
    BY <1>7, <2>1, TrySendFacts DEF AppDropStream
  <2> QED BY <1>7, <2>2 DEF AppDropStream
<1>8. ASSUME AppClean PROVE events' \in Seq(EventRecord)
  <2>1. Event("clean", 0, 0, FALSE) \in EventRecord
    BY DEF Event, EventRecord
  <2> QED BY <1>8, <2>1, EventsFacts DEF AppClean
<1>9. CASE \E l \in Listeners : \E addr \in Asked : AppListen(l, addr)
  BY <1>1, <1>9 DEF AppListen
<1>10. CASE \E l \in Listeners : \E want \in BOOLEAN : AppCancel(l, want)
  BY <1>2, <1>10 DEF AppCancel
<1>11. CASE \E l \in Listeners : AppGivesUp(l)
  BY <1>3, <1>11 DEF AppGivesUp
<1>12. CASE \E l \in Listeners : AppAccept(l)
  BY <1>4, <1>12 DEF AppAccept
<1>13. CASE \E l \in Listeners : AppDropListener(l)
  BY <1>5, <1>13, ListenerTypes DEF AppDropListener
<1>14. CASE \E l \in Listeners : AppCancelled(l)
  BY <1>6, <1>14, ListenerTypes DEF AppCancelled
<1>15. CASE \E c \in Conns : AppDropStream(c)
  BY <1>7, <1>15 DEF AppDropStream
<1>16. CASE AppClean
  BY <1>8, <1>16 DEF AppClean
<1>17. CASE AppDropSession
  BY <1>17 DEF AppDropSession
<1> QED BY <1>9, <1>10, <1>11, <1>12, <1>13, <1>14, <1>15, <1>16, <1>17 DEF App

\* Every step of the session task on an event keeps the types.
LEMMA TakeTypes ==
  ASSUME ForwardTypeOK,
         TakeListen \/ TakeCancel \/ TakeClose \/ TakeClean \/ CleanNext \/ ExecEnds
  PROVE  ForwardTypeOK'
<1> USE DEF ForwardTypeOK, TaskUnchanged
<1>0. 0 \in Addresses /\ Ports \subseteq Addresses /\ Asked \subseteq Addresses
  BY DEF Addresses
<1>1. events # <<>> => Head(events) \in EventRecord /\ Tail(events) \in Seq(EventRecord)
  BY EventsFacts
<1>2. CASE TakeListen
  <2>1. PICK e \in EventRecord : e = Head(events) /\ e.op = "listen"
    BY <1>1, <1>2 DEF TakeListen, Takes
  <2>2. e.l \in Listeners /\ e.addr \in Asked
    BY <2>1 DEF EventRecord
  <2>3. Message("tcpip-forward", e.l, e.addr, TRUE) \in RequestRecord
    BY <2>2 DEF Message, RequestRecord
  <2>4. Wait("listen", e.l, e.addr) \in WaitRecord
    BY <2>2 DEF Wait, WaitRecord
  <2>5. toServer' \in Seq(RequestRecord)
    BY <1>2, <2>1, <2>3, RequestSent DEF TakeListen
  <2>6. events' \in Seq(EventRecord) /\ awaiting' \in WaitRecord
    BY <1>1, <1>2, <2>1, <2>4 DEF TakeListen, Takes
  <2> QED BY <1>2, <2>5, <2>6 DEF TakeListen, Forwards
<1>3. CASE TakeCancel
  <2>1. PICK e \in EventRecord : e = Head(events) /\ e.op = "cancel"
    BY <1>1, <1>3 DEF TakeCancel, Takes
  <2>2. e.l \in Listeners \cup {0} /\ e.addr \in Addresses /\ e.want \in BOOLEAN
    BY <2>1 DEF EventRecord
  <2>3. CancelRequest(e) \in RequestRecord
    BY <2>2 DEF Message, RequestRecord, CancelRequest
  <2>4. Wait("cancel", e.l, e.addr) \in WaitRecord
    BY <2>2 DEF Wait, WaitRecord
  <2>5. toServer' \in Seq(RequestRecord)
    BY <1>3, <2>1, <2>3, RequestSent DEF TakeCancel
  <2>6. events' \in Seq(EventRecord) /\ awaiting' \in WaitRecord \cup {None}
    BY <1>1, <1>3, <2>1, <2>4 DEF TakeCancel, Takes
  <2>7. Forwards(table')
    BY <1>3, <2>1 DEF TakeCancel, Forwards, Removed
  <2>8. listener' \in [Listeners -> ListenerRecord]
    BY <1>3, <2>1, <2>2, ListenerTypes DEF TakeCancel
  <2> QED BY <1>3, <2>5, <2>6, <2>7, <2>8 DEF TakeCancel, Forwards
<1>4. CASE TakeClose
  <2>1. PICK e \in EventRecord : e = Head(events) /\ e.op = "close"
    BY <1>1, <1>4 DEF TakeClose, Takes
  <2>2. e.addr \in Conns
    BY <2>1 DEF EventRecord
  <2>3. events' \in Seq(EventRecord)
    BY <1>1, <1>4 DEF TakeClose, Takes
  <2> QED BY <1>4, <2>1, <2>2, <2>3 DEF TakeClose, Tells, Forwards
<1>5. CASE TakeClean
  <2>1. events' \in Seq(EventRecord)
    BY <1>1, <1>5 DEF TakeClean, Takes
  <2>2. cleaning' \in SUBSET Ports
    BY <1>5 DEF TakeClean, Deaf, Forwards
  <2>3. stream' \in [Conns -> {"none", "queued", "held", "dropped", "closed"}]
    BY <1>5 DEF TakeClean
  <2>4. peer' \in [Conns -> {"none", "opening", "confirm", "refuse", "close"}]
    BY <1>5 DEF TakeClean
  <2> QED BY <1>5, <2>1, <2>2, <2>3, <2>4 DEF TakeClean, Forwards
<1>6. CASE CleanNext
  <2>1. PICK a \in cleaning : /\ toServer' = Append(toServer, Message("cancel", 0, a, TRUE))
                              /\ awaiting' = Wait("cancel", 0, a)
                              /\ cleaning' = cleaning \ {a}
    BY <1>6 DEF CleanNext
  <2>2. Message("cancel", 0, a, TRUE) \in RequestRecord /\ Wait("cancel", 0, a) \in WaitRecord
    BY <1>0, <2>1 DEF Message, RequestRecord, Wait, WaitRecord
  <2>3. toServer' \in Seq(RequestRecord)
    BY <2>1, <2>2, RequestSent
  <2> QED BY <1>6, <2>1, <2>2, <2>3 DEF CleanNext, Forwards
<1>7. CASE ExecEnds
  BY <1>7 DEF ExecEnds, Forwards
<1> QED BY <1>2, <1>3, <1>4, <1>5, <1>6, <1>7

\* Every step of the session task on a message, or on a waiting connection, keeps them.
LEMMA HandleTypes ==
  ASSUME ForwardTypeOK,
         \/ HandleStrayReply \/ HandleListenReply \/ HandleCancelReply
         \/ HandleOpenRefused \/ HandleOpenOrphaned \/ HandleOpen \/ Deliver \/ DeliverFails
  PROVE  ForwardTypeOK'
<1> USE DEF ForwardTypeOK, TaskUnchanged
<1>1. toClient # <<>> => Tail(toClient) \in Seq(Answers) /\ Head(toClient) \in Answers
  BY ReplyWire DEF Answers
<1>2. CASE HandleStrayReply
  BY <1>1, <1>2 DEF HandleStrayReply, Hears, Forwards, Answers
<1>3. CASE HandleListenReply
  <2>1. PICK r \in Answers : r = Head(toClient) /\ r.type \in {"success", "failure"}
    BY <1>1, <1>3 DEF HandleListenReply, Hears
  <2>2. r.addr \in Ports \cup {0}
    BY <2>1 DEF Answers, ReplyRecord, OpenRecord
  <2>3. awaiting.l \in Listeners
    BY <1>3 DEF HandleListenReply, WaitRecord, None
  <2>4. DropEvent(r.addr) \in EventRecord /\ <<DropEvent(r.addr)>> \in Seq(EventRecord)
    BY <2>2 DEF DropEvent, Event, EventRecord, Addresses
  <2>5. toClient' \in Seq(Answers) /\ awaiting' = None
    BY <1>1, <1>3 DEF HandleListenReply, Hears
  <2>6. CASE Granted(r)
    <3>1. r.addr \in Ports
      BY <2>2, <2>6 DEF Granted
    <3>2. Forwards(table')
      BY <1>3, <2>1, <2>3, <2>6, <3>1 DEF HandleListenReply, Forwards
    <3>3. listener' \in [Listeners -> ListenerRecord]
      <4>1. /\ [listener[awaiting.l] EXCEPT !.state = "open", !.addr = r.addr] \in ListenerRecord
            /\ [listener[awaiting.l] EXCEPT !.state = "gone", !.addr = r.addr] \in ListenerRecord
        BY <2>3, <3>1 DEF ListenerRecord, Addresses
      <4> QED BY <1>3, <2>1, <2>3, <2>6, <4>1 DEF HandleListenReply
    <3>4. events' \in Seq(EventRecord)
      BY <1>3, <2>1, <2>4, <2>6, TrySendFacts DEF HandleListenReply
    <3> QED BY <1>3, <2>5, <3>2, <3>3, <3>4 DEF HandleListenReply, Forwards, Answers
  <2>7. CASE ~Granted(r)
    <3>1. UNCHANGED <<table, events>> /\ listener' = [listener EXCEPT ![awaiting.l].state = "failed"]
      BY <1>3, <2>1, <2>7 DEF HandleListenReply
    <3>2. listener' \in [Listeners -> ListenerRecord]
      BY <2>3, <3>1 DEF ListenerRecord
    <3> QED BY <1>3, <2>5, <3>1, <3>2 DEF HandleListenReply, Forwards, Answers
  <2> QED BY <2>6, <2>7
<1>4. CASE HandleCancelReply
  <2>1. awaiting.l \in Listeners \cup {0}
    BY <1>4 DEF HandleCancelReply, WaitRecord, None
  <2>2. listener' \in [Listeners -> ListenerRecord]
    BY <1>4, <2>1, ListenerTypes DEF HandleCancelReply
  <2>3. toClient' \in Seq(Answers)
    BY <1>1, <1>4 DEF HandleCancelReply, Hears
  <2>4. Forwards(table')
    BY <1>4 DEF HandleCancelReply, Forwards, Removed
  <2> QED BY <1>4, <2>2, <2>3, <2>4 DEF HandleCancelReply, Forwards, Answers
<1>5. ASSUME Hears({"open"})
      PROVE  /\ Head(toClient).addr \in Conns /\ Head(toClient).at \in Ports
             /\ Tail(toClient) \in Seq(Answers)
  <2>1. PICK m \in Answers : m = Head(toClient) /\ m.type = "open"
    BY <1>1, <1>5 DEF Hears
  <2>2. m.addr \in Conns /\ m.at \in Ports
    BY <2>1 DEF Answers, ReplyRecord, OpenRecord
  <2> QED BY <1>1, <1>5, <2>1, <2>2 DEF Hears
<1>6. CASE HandleOpenRefused
  <2>1. Hears({"open"}) /\ Tells(Head(toClient).addr, "refuse") /\ toClient' = Tail(toClient)
    BY <1>6 DEF HandleOpenRefused
  <2>2. peer' \in [Conns -> {"none", "opening", "confirm", "refuse", "close"}]
    BY <1>5, <2>1 DEF Tells
  <2> QED BY <1>5, <1>6, <2>1, <2>2 DEF HandleOpenRefused, Forwards, Answers
<1>7. CASE HandleOpenOrphaned
  <2>1. Hears({"open"}) /\ Tells(Head(toClient).addr, "confirm") /\ toClient' = Tail(toClient)
    BY <1>7 DEF HandleOpenOrphaned
  <2>2. peer' \in [Conns -> {"none", "opening", "confirm", "refuse", "close"}]
    BY <1>5, <2>1 DEF Tells
  <2>3. stream' \in [Conns -> {"none", "queued", "held", "dropped", "closed"}]
    BY <1>5, <1>7, <2>1 DEF HandleOpenOrphaned
  <2>4. listener' \in [Listeners -> ListenerRecord]
    <3>1. CASE awaiting.op = "listen"
      <4>1. awaiting.l \in Listeners /\ listener' = [listener EXCEPT ![awaiting.l].state = "failed"]
        BY <1>7, <3>1 DEF HandleOpenOrphaned, WaitRecord, None
      <4> QED BY <4>1 DEF ListenerRecord
    <3>2. CASE awaiting.op # "listen"
      <4>1. awaiting.l \in Listeners \cup {0} /\ listener' = Answered(awaiting.l)
        BY <1>7, <3>2 DEF HandleOpenOrphaned, WaitRecord, None
      <4> QED BY <4>1, ListenerTypes
    <3> QED BY <3>1, <3>2
  <2>5. ended' \in BOOLEAN /\ awaiting' = None /\ cleaning' = {}
    BY <1>7 DEF HandleOpenOrphaned
  <2> QED BY <1>5, <1>7, <2>1, <2>2, <2>3, <2>4, <2>5 DEF HandleOpenOrphaned, Forwards, Answers
<1>8. CASE HandleOpen
  <2>1. /\ Hears({"open"}) /\ Tells(Head(toClient).addr, "confirm") /\ toClient' = Tail(toClient)
        /\ Head(toClient).at \in DOMAIN table
    BY <1>8 DEF HandleOpen
  <2>2. peer' \in [Conns -> {"none", "opening", "confirm", "refuse", "close"}]
    BY <1>5, <2>1 DEF Tells
  <2>3. stream' \in [Conns -> {"none", "queued", "held", "dropped", "closed"}]
    BY <1>5, <1>8, <2>1 DEF HandleOpen
  <2>4. delivering' \in [op : {"deliver"}, l : Listeners, addr : Conns]
    BY <1>5, <1>8, <2>1 DEF HandleOpen, Wait, Forwards
  <2> QED BY <1>5, <1>8, <2>1, <2>2, <2>3, <2>4 DEF HandleOpen, Forwards, Answers
<1>9. delivering # None => delivering.l \in Listeners /\ delivering.addr \in Conns
  OBVIOUS
<1>10. CASE Deliver
  <2>1. delivering.l \in Listeners /\ delivering.addr \in Conns
    BY <1>9, <1>10 DEF Deliver
  <2>2. Append(listener[delivering.l].queue, delivering.addr) \in Seq(Conns)
    BY <2>1 DEF ListenerRecord
  <2>3. listener' \in [Listeners -> ListenerRecord]
    BY <1>10, <2>1, <2>2 DEF Deliver, ListenerRecord
  <2> QED BY <1>10, <2>3 DEF Deliver, Forwards
<1>11. CASE DeliverFails
  <2>1. delivering.addr \in Conns
    BY <1>9, <1>11 DEF DeliverFails
  <2>2. <<delivering.addr>> \in Seq(Conns)
    BY <2>1
  <2>3. events' \in Seq(EventRecord)
    BY <1>11, <2>2, CloseEventsFacts, TrySendFacts DEF DeliverFails
  <2> QED BY <1>11, <2>1, <2>3 DEF DeliverFails, Tells, Forwards
<1> QED BY <1>2, <1>3, <1>4, <1>6, <1>7, <1>8, <1>10, <1>11

\* Every step of the server keeps them.
LEMMA ServerTypes ==
  ASSUME ForwardTypeOK, Server \/ \E c \in Conns : ServerConnects(c)
  PROVE  ForwardTypeOK'
<1> USE DEF ForwardTypeOK, ServerUnchanged
<1>1. toServer # <<>> => Tail(toServer) \in Seq(RequestRecord) /\ Head(toServer) \in RequestRecord
  BY RequestTaken
<1>2. ASSUME NEW type \in {"success", "failure"}, NEW a \in Ports \cup {0}, toServer # <<>>
      PROVE  Append(toClient, Reply(type, a)) \in Seq(Answers)
  <2>1. Reply(type, a) \in ReplyRecord
    BY <1>1, <1>2 DEF Reply, ReplyRecord
  <2> QED BY <2>1, ReplyWire DEF Answers
<1>3. CASE ServerGrants
  <2>1. toServer # <<>> /\ toServer' = Tail(toServer) /\ Head(toServer).type = "tcpip-forward"
    BY <1>3 DEF ServerGrants, Asks
  <2>2. PICK p \in Ports \ DOMAIN bound :
          /\ bound' = [a \in DOMAIN bound \cup {p} |-> IF a = p THEN Head(toServer).l ELSE bound[a]]
          /\ toClient' = Append(toClient, Reply("success", IF Head(toServer).addr = 0 THEN p ELSE 0))
    BY <1>3 DEF ServerGrants
  <2>3. Head(toServer).l \in Listeners
    BY <1>1, <2>1 DEF RequestRecord
  <2>4. Forwards(bound')
    BY <2>2, <2>3 DEF Forwards
  <2>5. toClient' \in Seq(Answers)
    BY <1>2, <2>1, <2>2
  <2> QED BY <1>1, <1>3, <2>1, <2>4, <2>5 DEF ServerGrants, Forwards, Answers
<1>4. CASE ServerRefuses
  <2>1. toServer # <<>> /\ toServer' = Tail(toServer)
    BY <1>4 DEF ServerRefuses, Asks
  <2>2. toClient' \in Seq(Answers)
    BY <1>2, <1>4, <2>1 DEF ServerRefuses
  <2> QED BY <1>1, <1>4, <2>1, <2>2 DEF ServerRefuses, Forwards, Answers
<1>5. CASE ServerCancels
  <2>1. toServer # <<>> /\ toServer' = Tail(toServer)
    BY <1>5 DEF ServerCancels, Asks
  <2>2. toClient' \in Seq(Answers)
    BY <1>2, <1>5, <2>1 DEF ServerCancels, Answers
  <2>3. Forwards(bound')
    BY <1>5 DEF ServerCancels, Forwards
  <2> QED BY <1>1, <1>5, <2>1, <2>2, <2>3 DEF ServerCancels, Forwards, Answers
<1>6. CASE ServerSeesEnd
  <2>1. bound' = <<>>
    BY <1>6 DEF ServerSeesEnd
  <2>2. Forwards(<<>>)
    BY DEF Forwards
  <2> QED BY <1>6, <2>1, <2>2 DEF ServerSeesEnd, Forwards
<1>7. ASSUME NEW c \in Conns, ServerConnects(c) PROVE ForwardTypeOK'
  <2>1. PICK p \in DOMAIN bound :
          /\ toClient' = Append(toClient, [type |-> "open", addr |-> c, at |-> p, to |-> None])
          /\ peer' = [peer EXCEPT ![c] = "opening"]
    BY <1>7 DEF ServerConnects
  <2>2. [type |-> "open", addr |-> c, at |-> p, to |-> None] \in OpenRecord
    BY <2>1 DEF OpenRecord, Forwards
  <2>3. toClient' \in Seq(Answers)
    BY <2>1, <2>2, ReplyWire DEF Answers
  <2> QED BY <1>7, <2>1, <2>3 DEF ServerConnects, Forwards, Answers
<1> QED BY <1>3, <1>4, <1>5, <1>6, <1>7 DEF Server

-----------------------------------------------------------------------------
(* The senders of the event queue.                                         *)

\* An answer wakes nobody who is not there.
LEMMA AnsweredFacts ==
  ASSUME ForwardTypeOK, NEW k \in Listeners \cup {0}, NEW l \in Listeners
  PROVE  Answered(k)[l].state \in {"open", "cancelling", "cancelled"} => Hearing(l)
BY DEF ForwardTypeOK, ListenerRecord, Answered, Hearing

\* The last handle is gone for good: the session task's own sender is weak, and what it
\* would hand to the application it makes only when it can be upgraded.
LEMMA NoNewFrontend ==
  ASSUME ForwardTypeOK, Next, ~Frontends
  PROVE  ~Frontends'
<1> DEFINE There == {"open", "cancelling", "cancelled"}
           Kept == {"queued", "held"}
<1>1. /\ ~session /\ \A l \in Listeners : listener[l].state \notin There
      /\ \A c \in Conns : stream[c] \notin Kept
  BY DEF Frontends, Hearing
<1> SUFFICES /\ ~session'
             /\ \A l \in Listeners : listener'[l].state \notin There
             /\ \A c \in Conns : stream'[c] \notin Kept
  BY DEF Frontends, Hearing
<1> USE DEF ForwardTypeOK
<1>2. CASE Task
  <2> USE DEF TaskUnchanged
  <2>1. CASE UNCHANGED <<listener, stream, session>>
    BY <1>1, <2>1
  <2>2. CASE TakeCancel
    <3>1. PICK e \in EventRecord : e = Head(events) /\ e.op = "cancel"
      BY <2>2, EventsFacts DEF TakeCancel, Takes
    <3>2. e.l \in Listeners \cup {0}
      BY <3>1 DEF EventRecord
    <3>3. UNCHANGED <<stream, session>> /\ (listener' = listener \/ listener' = Answered(e.l))
      BY <2>2, <3>1 DEF TakeCancel
    <3> QED BY <1>1, <3>2, <3>3, AnsweredFacts DEF Hearing
  <2>3. CASE TakeClose
    BY <1>1, <2>3 DEF TakeClose
  <2>4. CASE TakeClean
    BY <1>1, <2>4 DEF TakeClean
  <2>5. CASE HandleListenReply
    <3>1. /\ UNCHANGED <<stream, session>> /\ listener' = [listener EXCEPT ![awaiting.l].state = "failed"]
      BY <2>5 DEF HandleListenReply, Granted
    <3>2. \A l \in Listeners : listener'[l].state = "failed" \/ listener'[l] = listener[l]
      BY <3>1 DEF ListenerRecord
    <3> QED BY <1>1, <3>1, <3>2
  <2>6. CASE HandleCancelReply
    <3>1. awaiting.l \in Listeners \cup {0}
      BY <2>6 DEF HandleCancelReply, WaitRecord, None
    <3> QED BY <1>1, <2>6, <3>1, AnsweredFacts DEF HandleCancelReply, Hearing
  <2>7. CASE HandleOpenOrphaned
    <3>1. session' = session /\ stream' = [stream EXCEPT ![Head(toClient).addr] = "dropped"]
      BY <2>7 DEF HandleOpenOrphaned
    <3>2. CASE awaiting.op = "listen"
      <4>1. listener' = [listener EXCEPT ![awaiting.l].state = "failed"]
        BY <2>7, <3>2 DEF HandleOpenOrphaned
      <4>2. \A l \in Listeners : listener'[l].state = "failed" \/ listener'[l] = listener[l]
        BY <4>1 DEF ListenerRecord
      <4> QED BY <1>1, <3>1, <4>2
    <3>3. CASE awaiting.op # "listen"
      <4>1. awaiting.l \in Listeners \cup {0} /\ listener' = Answered(awaiting.l)
        BY <2>7, <3>3 DEF HandleOpenOrphaned, WaitRecord, None
      <4> QED BY <1>1, <3>1, <4>1, AnsweredFacts DEF Hearing
    <3> QED BY <3>2, <3>3
  <2>8. CASE HandleOpen
    BY <2>8 DEF HandleOpen
  <2>9. CASE Deliver
    <3>1. delivering.l \in Listeners /\ Hearing(delivering.l)
      BY <2>9 DEF Deliver
    <3> QED BY <1>1, <3>1 DEF Hearing
  <2>10. CASE DeliverFails
    BY <1>1, <2>10 DEF DeliverFails
  <2>11. TakeListen \/ CleanNext \/ ExecEnds \/ HandleStrayReply \/ HandleOpenRefused
          => UNCHANGED <<listener, stream, session>>
    BY DEF TakeListen, CleanNext, ExecEnds, HandleStrayReply, HandleOpenRefused
  <2> QED BY <1>2, <2>1, <2>2, <2>3, <2>4, <2>5, <2>6, <2>7, <2>8, <2>9, <2>10, <2>11 DEF Task
<1>3. CASE App
  <2>1. CASE \E l \in Listeners : AppGivesUp(l)
    <3>1. PICK l \in Listeners : AppGivesUp(l)
      BY <2>1
    <3> QED BY <1>1, <3>1 DEF AppGivesUp, ListenerRecord
  <2>2. CASE \E c \in Conns : AppDropStream(c)
    BY <1>1, <2>2 DEF AppDropStream
  <2>3. ASSUME \E l \in Listeners :
                 \/ \E addr \in Asked : AppListen(l, addr)
                 \/ \E want \in BOOLEAN : AppCancel(l, want)
                 \/ AppAccept(l) \/ AppDropListener(l) \/ AppCancelled(l)
        PROVE  FALSE
    BY <1>1, <2>3 DEF AppListen, AppCancel, AppAccept, AppDropListener, AppCancelled
  <2>4. ~AppClean /\ ~AppDropSession
    BY <1>1 DEF AppClean, AppDropSession
  <2> QED BY <1>3, <2>1, <2>2, <2>3, <2>4 DEF App
<1>4. CASE Server \/ \E c \in Conns : ServerConnects(c)
  BY <1>1, <1>4 DEF Server, ServerGrants, ServerRefuses, ServerCancels, ServerSeesEnd, ServerConnects,
                    ServerUnchanged
<1> QED BY <1>2, <1>3, <1>4 DEF Next

-----------------------------------------------------------------------------
(* Streams.                                                                *)

\* A connection the server believes open keeps its Stream or its close.
LEMMA StreamsStep ==
  ASSUME ForwardTypeOK, Frontends, StreamsKept, Next
  PROVE  StreamsKept'
<1> DEFINE Kept == {"queued", "held"}
           Closing(c) == Event("close", 0, c, FALSE)
<1> USE DEF ForwardTypeOK
<1>1. ASSUME UNCHANGED <<peer, stream>>, ToSet(events) \cup lost \subseteq ToSet(events') \cup lost'
      PROVE  StreamsKept'
  BY <1>1 DEF StreamsKept
<1>2. ASSUME events # <<>>, events' = Tail(events), lost' = lost
      PROVE  /\ Head(events) \in EventRecord
             /\ ToSet(events) \cup lost \subseteq ToSet(events') \cup lost' \cup {Head(events)}
  BY <1>2, EventsFacts
<1>3. ASSUME NEW e \in EventRecord, events' = Append(events, e), lost' = lost
      PROVE  ToSet(events) \cup lost \subseteq ToSet(events') \cup lost'
  BY <1>3, EventsFacts
<1>4. ASSUME NEW l \in Listeners, Silenced(l), UNCHANGED peer, NEW evs \in Seq(EventRecord),
             TrySend(events, evs), ToSet(CloseEvents(listener[l].queue)) \subseteq ToSet(evs)
      PROVE  StreamsKept'
  <2>1. listener[l].queue \in Seq(Conns)
    BY DEF ListenerRecord
  <2>2. ToSet(events) \cup ToSet(evs) \cup lost \subseteq ToSet(events') \cup lost'
    BY <1>4, TrySendFacts
  <2>3. \A c \in ToSet(listener[l].queue) : Closing(c) \in ToSet(events') \cup lost'
    BY <1>4, <2>1, <2>2, CloseEventsFacts
  <2>4. \A c \in Conns : c \notin ToSet(listener[l].queue) => stream'[c] = stream[c]
    BY <1>4 DEF Silenced
  <2> QED BY <1>4, <2>2, <2>3, <2>4 DEF StreamsKept
<1>5. CASE Task
  <2> USE DEF TaskUnchanged
  <2>1. CASE TakeListen \/ TakeCancel
    <3>1. /\ events # <<>> /\ events' = Tail(events) /\ UNCHANGED <<lost, peer, stream>>
          /\ Head(events).op \in {"listen", "cancel"}
      BY <2>1 DEF TakeListen, TakeCancel, Takes
    <3>2. \A c : Closing(c) # Head(events)
      BY <3>1 DEF Event
    <3> QED BY <1>2, <3>1, <3>2 DEF StreamsKept
  <2>2. CASE TakeClose
    <3>1. PICK e \in EventRecord : e = Head(events) /\ e.op = "close"
      BY <2>2, EventsFacts DEF TakeClose, Takes
    <3>2. /\ events # <<>> /\ events' = Tail(events) /\ UNCHANGED lost
          /\ e.addr \in Conns
          /\ peer' = [peer EXCEPT ![e.addr] = "close"] /\ stream' = [stream EXCEPT ![e.addr] = "closed"]
      BY <2>2, <3>1 DEF TakeClose, Takes, Tells, EventRecord
    <3>3. \A c \in Conns : c # e.addr => Closing(c) # Head(events) /\ stream'[c] = stream[c] /\ peer'[c] = peer[c]
      BY <3>1, <3>2 DEF Event
    <3>4. peer'[e.addr] # "confirm"
      BY <3>2
    <3> QED BY <1>2, <3>2, <3>3, <3>4 DEF StreamsKept
  <2>3. CASE TakeClean
    <3>1. /\ events # <<>> /\ events' = Tail(events) /\ UNCHANGED lost
          /\ Head(events).op = "clean"
      BY <2>3 DEF TakeClean, Takes
    <3>2. \A c : Closing(c) # Head(events)
      BY <3>1 DEF Event
    <3>3. \A c \in Conns : peer'[c] = "confirm" => peer[c] = "confirm" /\ stream'[c] = stream[c]
      BY <2>3 DEF TakeClean
    <3> QED BY <1>2, <3>1, <3>2, <3>3 DEF StreamsKept
  <2>4. CASE CleanNext \/ ExecEnds \/ HandleStrayReply \/ HandleCancelReply \/ Deliver
    <3>1. UNCHANGED <<events, lost, peer, stream>>
      BY <2>4 DEF CleanNext, ExecEnds, HandleStrayReply, HandleCancelReply, Deliver
    <3> QED BY <1>1, <3>1
  <2>5. CASE HandleListenReply
    <3>1. PICK r \in Answers : r = Head(toClient) /\ r.type \in {"success", "failure"}
      BY <2>5, ReplyWire DEF HandleListenReply, Hears, Answers
    <3>2. DropEvent(r.addr) \in EventRecord /\ <<DropEvent(r.addr)>> \in Seq(EventRecord)
      BY <3>1 DEF Answers, ReplyRecord, OpenRecord, DropEvent, Event, EventRecord, Addresses
    <3>3. UNCHANGED <<peer, stream>> /\ (UNCHANGED <<events, lost>> \/ TrySend(events, <<DropEvent(r.addr)>>))
      BY <2>5, <3>1 DEF HandleListenReply
    <3> QED BY <1>1, <3>2, <3>3, TrySendFacts
  <2>6. CASE HandleOpenRefused
    <3>1. UNCHANGED <<events, lost, stream>> /\ peer' = [peer EXCEPT ![Head(toClient).addr] = "refuse"]
      BY <2>6 DEF HandleOpenRefused, Tells
    <3> QED BY <3>1 DEF StreamsKept
  <2>7. CASE HandleOpenOrphaned
    BY <2>7 DEF HandleOpenOrphaned
  <2>8. CASE HandleOpen
    <3>1. /\ UNCHANGED <<events, lost>> /\ peer' = [peer EXCEPT ![Head(toClient).addr] = "confirm"]
          /\ stream' = [stream EXCEPT ![Head(toClient).addr] = "queued"]
      BY <2>8 DEF HandleOpen, Tells
    <3> QED BY <3>1 DEF StreamsKept
  <2>9. CASE DeliverFails
    <3>1. <<delivering.addr>> \in Seq(Conns)
      BY <2>9 DEF DeliverFails
    <3>2. ToSet(events) \cup lost \subseteq ToSet(events') \cup lost'
      BY <2>9, <3>1, CloseEventsFacts, TrySendFacts DEF DeliverFails
    <3>3. /\ peer' = [peer EXCEPT ![delivering.addr] = "close"]
          /\ stream' = [stream EXCEPT ![delivering.addr] = "closed"]
      BY <2>9 DEF DeliverFails, Tells
    <3> QED BY <3>2, <3>3 DEF StreamsKept
  <2> QED BY <1>5, <2>1, <2>2, <2>3, <2>4, <2>5, <2>6, <2>7, <2>8, <2>9 DEF Task
<1>6. CASE App
  <2>1. App => UNCHANGED peer
    BY DEF App, AppUnchanged, AppListen, AppCancel, AppGivesUp, AppAccept, AppDropListener,
           AppCancelled, AppDropStream, AppClean, AppDropSession
  <2>2. ASSUME NEW l \in Listeners, NEW addr \in Asked, AppListen(l, addr) PROVE StreamsKept'
    <3>1. Event("listen", l, addr, TRUE) \in EventRecord
      BY DEF Event, EventRecord
    <3> QED BY <1>1, <1>3, <1>6, <2>1, <2>2, <3>1 DEF AppListen
  <2>3. ASSUME NEW l \in Listeners, NEW want \in BOOLEAN, AppCancel(l, want) PROVE StreamsKept'
    <3>1. Event("cancel", l, listener[l].addr, want) \in EventRecord
      BY DEF Event, EventRecord, ListenerRecord
    <3> QED BY <1>1, <1>3, <1>6, <2>1, <2>3, <3>1 DEF AppCancel
  <2>4. CASE (\E l \in Listeners : AppGivesUp(l)) \/ AppDropSession
    <3>1. UNCHANGED <<events, lost, stream>>
      BY <2>4 DEF AppGivesUp, AppDropSession
    <3> QED BY <1>1, <1>6, <2>1, <3>1
  <2>5. ASSUME NEW l \in Listeners, AppAccept(l) PROVE StreamsKept'
    <3>1. UNCHANGED <<events, lost>> /\ stream' = [stream EXCEPT ![Head(listener[l].queue)] = "held"]
      BY <2>5 DEF AppAccept
    <3> QED BY <1>6, <2>1, <3>1 DEF StreamsKept
  <2>6. ASSUME NEW l \in Listeners, AppDropListener(l) PROVE StreamsKept'
    <3>1. listener[l].addr \in Addresses /\ listener[l].queue \in Seq(Conns)
      BY DEF ListenerRecord
    <3>2. DropEvents(l) \in Seq(EventRecord) /\ ToSet(CloseEvents(listener[l].queue)) \subseteq ToSet(DropEvents(l))
      BY <3>1, DropEventsFacts DEF DropEvents
    <3> QED BY <1>4, <1>6, <2>1, <2>6, <3>2 DEF AppDropListener
  <2>7. ASSUME NEW l \in Listeners, AppCancelled(l) PROVE StreamsKept'
    <3>1. listener[l].queue \in Seq(Conns)
      BY DEF ListenerRecord
    <3>2. LeftBehind(l) \in Seq(EventRecord) /\ ToSet(CloseEvents(listener[l].queue)) \subseteq ToSet(LeftBehind(l))
      BY <3>1, CloseEventsFacts DEF LeftBehind
    <3> QED BY <1>4, <1>6, <2>1, <2>7, <3>2 DEF AppCancelled
  <2>8. ASSUME NEW c \in Conns, AppDropStream(c) PROVE StreamsKept'
    <3>1. <<c>> \in Seq(Conns) /\ c \in ToSet(<<c>>)
      BY DEF ToSet
    <3>2. CloseEvents(<<c>>) \in Seq(EventRecord) /\ Closing(c) \in ToSet(CloseEvents(<<c>>))
      BY <3>1, CloseEventsFacts
    <3>3. TrySend(events, CloseEvents(<<c>>)) /\ stream' = [stream EXCEPT ![c] = "dropped"]
      BY <2>8 DEF AppDropStream
    <3>4. ToSet(events) \cup lost \subseteq ToSet(events') \cup lost' /\ Closing(c) \in ToSet(events') \cup lost'
      BY <3>2, <3>3, TrySendFacts
    <3> QED BY <1>6, <2>1, <3>3, <3>4 DEF StreamsKept
  <2>9. CASE AppClean
    <3>1. Event("clean", 0, 0, FALSE) \in EventRecord
      BY DEF Event, EventRecord
    <3> QED BY <1>1, <1>3, <1>6, <2>1, <2>9, <3>1 DEF AppClean
  <2> QED BY <1>6, <2>2, <2>3, <2>4, <2>5, <2>6, <2>7, <2>8, <2>9 DEF App
<1>7. CASE Server
  <2>1. UNCHANGED <<events, lost, peer, stream>>
    BY <1>7 DEF Server, ServerGrants, ServerRefuses, ServerCancels, ServerSeesEnd, ServerUnchanged
  <2> QED BY <1>1, <2>1
<1>8. ASSUME NEW c \in Conns, ServerConnects(c) PROVE StreamsKept'
  <2>1. UNCHANGED <<events, lost, stream>> /\ peer' = [peer EXCEPT ![c] = "opening"]
    BY <1>8 DEF ServerConnects, ServerUnchanged
  <2> QED BY <2>1 DEF StreamsKept
<1> QED BY <1>5, <1>6, <1>7, <1>8 DEF Next

-----------------------------------------------------------------------------
(* The stages of a request.                                                *)

\* The server's opens come and go between the replies.
LEMMA StageKept ==
  ASSUME Stage, UNCHANGED <<awaiting, toServer, table, bound>>,
         NoReply(toClient) => NoReply(toClient'),
         \A r \in ReplyRecord : OneReply(toClient, r) => OneReply(toClient', r)
  PROVE  Stage'
<1>1. Resting => Resting'
  BY DEF Resting
<1>2. Requested => Requested'
  BY DEF Requested
<1>3. ASSUME Replied PROVE Replied'
  <2>1. PICK r \in ReplyRecord :
          /\ OneReply(toClient, r) /\ Awaited(awaiting, r.to)
          /\ ServerChooses =>
               /\ bound = Outcome(table, awaiting, r)
               /\ r.type = "success" /\ awaiting.op = "listen" => r.addr # 0
    BY <1>3 DEF Replied
  <2>2. OneReply(toClient', r) /\ Awaited(awaiting', r.to)
    BY <2>1
  <2>3. ServerChooses =>
          /\ bound' = Outcome(table', awaiting', r)
          /\ r.type = "success" /\ awaiting'.op = "listen" => r.addr # 0
    BY <2>1
  <2> QED BY <1>3, <2>2, <2>3 DEF Replied
<1> QED BY <1>1, <1>2, <1>3 DEF Stage

\* A request that asks for a reply is sent when none is under way.
LEMMA StageAsked ==
  ASSUME ForwardTypeOK, Resting, UNCHANGED <<toClient, table, bound>>,
         NEW m \in RequestRecord, m.want, toServer' = Append(toServer, m),
         awaiting' # None, Awaited(awaiting', m)
  PROVE  Stage'
<1>1. toServer \in Seq(RequestRecord) /\ NoneAsks(toServer) /\ NoReply(toClient)
  BY DEF ForwardTypeOK, Resting
<1>2. /\ LastAsks(toServer') /\ toServer'[Len(toServer')] = m
      /\ \A a : Pending(toServer', a) <=> Pending(toServer, a)
  BY <1>1, RequestSent
<1>3. ServerChooses => Level(toServer', table', bound')
  BY <1>2 DEF Resting, Level
<1> QED BY <1>1, <1>2, <1>3 DEF Stage, Requested

\* A cancellation that asks for none takes its entry with it.
LEMMA StageTold ==
  ASSUME ForwardTypeOK, Resting, UNCHANGED <<toClient, bound>>,
         NEW m \in RequestRecord, ~m.want, toServer' = Append(toServer, m),
         awaiting' = None, table' = Without(table, m.addr)
  PROVE  Stage'
<1>1. toServer \in Seq(RequestRecord) /\ NoneAsks(toServer) /\ NoReply(toClient)
  BY DEF ForwardTypeOK, Resting
<1>2. /\ NoneAsks(toServer')
      /\ \A a : Pending(toServer', a) <=> Pending(toServer, a) \/ a = m.addr
  BY <1>1, RequestSent
<1>3. ServerChooses => Level(toServer', table', bound')
  BY <1>2 DEF Resting, Level, Without
<1> QED BY <1>1, <1>2, <1>3 DEF Stage, Resting

\* What the server forgets with the cancellation the table had forgotten before.
LEMMA LevelForgot ==
  ASSUME NEW w, NEW v, NEW t, NEW b, NEW x, NEW d, Level(w, t, b), d = Without(b, x),
         \A a : Pending(w, a) <=> Pending(v, a) \/ a = x
  PROVE  Level(v, t, d)
<1>1. ASSUME NEW a \in Ports
      PROVE  /\ Pending(v, a) => a \notin DOMAIN t
             /\ ~Pending(v, a) => /\ a \in DOMAIN d <=> a \in DOMAIN t
                                  /\ a \in DOMAIN t => d[a] = t[a]
  <2>1. CASE a = x
    BY <2>1 DEF Level, Without
  <2>2. CASE a # x
    <3>1. (a \in DOMAIN d <=> a \in DOMAIN b) /\ (a \in DOMAIN b => d[a] = b[a])
      BY <2>2 DEF Without
    <3> QED BY <2>2, <3>1 DEF Level
  <2> QED BY <2>1, <2>2
<1> QED BY <1>1 DEF Level

\* The server takes a cancellation that asks for no reply.
LEMMA StageForgot ==
  ASSUME ForwardTypeOK, Stage, UNCHANGED <<awaiting, toClient, table>>,
         toServer # <<>>, ~Head(toServer).want, toServer' = Tail(toServer),
         bound' = Without(bound, Head(toServer).addr)
  PROVE  Stage'
<1>1. toServer \in Seq(RequestRecord) /\ ~Replied
  BY DEF ForwardTypeOK, Replied
<1>2. /\ NoneAsks(toServer) => NoneAsks(toServer')
      /\ LastAsks(toServer) => LastAsks(toServer') /\ toServer'[Len(toServer')] = toServer[Len(toServer)]
      /\ \A a : Pending(toServer, a) <=> Pending(toServer', a) \/ a = Head(toServer).addr
  BY <1>1, RequestTaken
<1>3. ASSUME Level(toServer, table, bound) PROVE Level(toServer', table', bound')
  <2>1. Level(toServer', table, bound')
    BY <1>2, <1>3, LevelForgot
  <2> QED BY <2>1
<1>4. Resting => Resting'
  BY <1>2, <1>3 DEF Resting
<1>5. Requested => Requested'
  BY <1>2, <1>3 DEF Requested
<1> QED BY <1>1, <1>4, <1>5 DEF Stage

\* The request the server answers is the last, and the one waited for; until then the
\* server listened where the table says.
LEMMA AnswerDue ==
  ASSUME ForwardTypeOK, Stage, toServer # <<>>, Head(toServer).want
  PROVE  /\ awaiting # None /\ Awaited(awaiting, Head(toServer)) /\ NoReply(toClient)
         /\ Tail(toServer) = <<>> /\ (ServerChooses => bound = table)
<1>1. toServer \in Seq(RequestRecord) /\ Forwards(table) /\ Forwards(bound)
  BY DEF ForwardTypeOK
<1>2. Requested
  BY <1>1, RequestTaken DEF Stage, Resting, Replied
<1>3. Tail(toServer) = <<>> /\ toServer[Len(toServer)] = Head(toServer) /\ \A a : ~Pending(toServer, a)
  BY <1>1, <1>2, RequestTaken DEF Requested
<1>4. ServerChooses => bound = table
  BY <1>1, <1>2, <1>3, LevelEqual DEF Requested
<1> QED BY <1>2, <1>3, <1>4 DEF Requested

\* The reply is on its way.
LEMMA StageAnswered ==
  ASSUME ForwardTypeOK, Stage, UNCHANGED <<awaiting, table>>, toServer # <<>>, Head(toServer).want,
         toServer' = Tail(toServer),
         NEW r \in ReplyRecord, r.to = Head(toServer), toClient' = Append(toClient, r),
         ServerChooses => /\ bound' = Outcome(table, awaiting, r)
                          /\ r.type = "success" /\ awaiting.op = "listen" => r.addr # 0
  PROVE  Stage'
<1>1. /\ awaiting # None /\ Awaited(awaiting, r.to) /\ NoReply(toClient) /\ toServer' = <<>>
  BY AnswerDue
<1>2. OneReply(toClient', r)
  BY <1>1, ReplyWire DEF ForwardTypeOK, Answers
<1>3. Awaited(awaiting', r.to) /\ awaiting' # None
  BY <1>1
<1>4. ServerChooses => /\ bound' = Outcome(table', awaiting', r)
                       /\ r.type = "success" /\ awaiting'.op = "listen" => r.addr # 0
  OBVIOUS
<1> QED BY <1>1, <1>2, <1>3, <1>4 DEF Stage, Replied

\* A reply that is read is the one to the request waited for.
LEMMA ReplyRead ==
  ASSUME ForwardTypeOK, Stage, Hears({"success", "failure"})
  PROVE  /\ awaiting # None /\ toServer = <<>> /\ Head(toClient) \in ReplyRecord
         /\ Tail(toClient) \in Seq(Answers) /\ NoReply(Tail(toClient))
         /\ Awaited(awaiting, Head(toClient).to)
         /\ ServerChooses =>
              /\ bound = Outcome(table, awaiting, Head(toClient))
              /\ Head(toClient).type = "success" /\ awaiting.op = "listen" => Head(toClient).addr # 0
<1>1. /\ toClient \in Seq(Answers) /\ toClient # <<>> /\ Head(toClient).type \in {"success", "failure"}
  BY DEF ForwardTypeOK, Answers, Hears
<1>2. ~NoReply(toClient)
  BY <1>1, ReplyWire DEF OpenRecord
<1>3. Replied
  BY <1>2 DEF Stage, Resting, Requested
<1>4. PICK r \in ReplyRecord :
          /\ OneReply(toClient, r) /\ Awaited(awaiting, r.to)
          /\ ServerChooses =>
               /\ bound = Outcome(table, awaiting, r)
               /\ r.type = "success" /\ awaiting.op = "listen" => r.addr # 0
  BY <1>3 DEF Replied
<1>5. Head(toClient) = r /\ NoReply(Tail(toClient)) /\ Tail(toClient) \in Seq(Answers)
  BY <1>1, <1>4, ReplyWire
<1> QED BY <1>3, <1>4, <1>5 DEF Replied

\* It ends the wait, and the table becomes what the server has.
LEMMA StageDone ==
  ASSUME ForwardTypeOK, Stage, Hears({"success", "failure"}),
         toClient' = Tail(toClient), awaiting' = None, UNCHANGED <<toServer, bound>>,
         ServerChooses => table' = Outcome(table, awaiting, Head(toClient))
  PROVE  Stage'
<1>1. /\ toServer' = <<>> /\ NoReply(toClient')
      /\ ServerChooses => bound' = table'
  BY ReplyRead
<1>2. ServerChooses => Level(toServer', table', bound')
  BY <1>1, EqualLevel
<1>3. NoneAsks(<<>>)
  BY DEF NoneAsks
<1> QED BY <1>1, <1>2, <1>3 DEF Stage, Resting

\* Every step of the session task keeps the stages, while somebody holds a handle.
LEMMA TaskStage ==
  ASSUME ForwardTypeOK, Frontends, Stage, Task
  PROVE  Stage'
<1> USE DEF TaskUnchanged
<1>1. ASSUME UNCHANGED <<awaiting, toServer, toClient, table, bound>> PROVE Stage'
  BY <1>1, StageKept
<1>2. awaiting = None => Resting
  BY DEF Stage, Requested, Replied
<1>3. CASE TakeListen
  <2>1. PICK e \in EventRecord : e = Head(events) /\ e.op = "listen"
    BY <1>3, EventsFacts DEF TakeListen, Takes, ForwardTypeOK
  <2>2. PICK m \in RequestRecord : m = Message("tcpip-forward", e.l, e.addr, TRUE)
    BY <2>1 DEF EventRecord, Message, RequestRecord
  <2>3. toServer' = Append(toServer, m) /\ awaiting' = Wait("listen", e.l, e.addr)
    BY <1>3, <2>1, <2>2 DEF TakeListen
  <2>4. m.want /\ awaiting' # None /\ Awaited(awaiting', m)
    BY <2>2, <2>3 DEF Message, Wait, None, Awaited
  <2>5. Resting /\ UNCHANGED <<toClient, table, bound>>
    BY <1>2, <1>3 DEF TakeListen, Takes, Idle
  <2> QED BY <2>3, <2>4, <2>5, StageAsked
<1>4. CASE TakeCancel
  <2>1. PICK e \in EventRecord : e = Head(events) /\ e.op = "cancel"
    BY <1>4, EventsFacts DEF TakeCancel, Takes, ForwardTypeOK
  <2>2. PICK m \in RequestRecord : m = CancelRequest(e)
    BY <2>1 DEF EventRecord, Message, CancelRequest, RequestRecord
  <2>3. m.addr = e.addr /\ m.want = e.want /\ m.l = e.l /\ m.type = "cancel"
    BY <2>2 DEF CancelRequest, Message
  <2>4. Resting /\ UNCHANGED <<toClient, bound>> /\ toServer' = Append(toServer, m)
    BY <1>2, <1>4, <2>1, <2>2 DEF TakeCancel, Takes, Idle
  <2>5. CASE m.want
    <3>1. awaiting' = Wait("cancel", e.l, e.addr) /\ table' = table
      BY <1>4, <2>1, <2>3, <2>5 DEF TakeCancel
    <3>2. awaiting' # None /\ Awaited(awaiting', m)
      BY <2>3, <3>1 DEF Wait, None, Awaited
    <3> QED BY <2>4, <2>5, <3>1, <3>2, StageAsked
  <2>6. CASE ~m.want
    <3>1. awaiting' = None /\ table' = Without(table, m.addr)
      BY <1>4, <2>1, <2>3, <2>6 DEF TakeCancel, Removed, Without
    <3> QED BY <2>4, <2>6, <3>1, StageTold
  <2> QED BY <2>5, <2>6
<1>5. CASE CleanNext
  <2>1. PICK a \in cleaning : /\ toServer' = Append(toServer, Message("cancel", 0, a, TRUE))
                              /\ awaiting' = Wait("cancel", 0, a)
    BY <1>5 DEF CleanNext
  <2>2. PICK m \in RequestRecord : m = Message("cancel", 0, a, TRUE)
    BY <2>1 DEF ForwardTypeOK, Message, RequestRecord, Addresses
  <2>3. m.want /\ awaiting' # None /\ Awaited(awaiting', m)
    BY <2>1, <2>2 DEF Message, Wait, None, Awaited
  <2>4. Resting /\ UNCHANGED <<toClient, table, bound>>
    BY <1>2, <1>5 DEF CleanNext
  <2> QED BY <2>1, <2>2, <2>3, <2>4, StageAsked
<1>6. CASE TakeClose \/ TakeClean \/ ExecEnds \/ Deliver \/ DeliverFails
  <2>1. UNCHANGED <<awaiting, toServer, toClient, table, bound>>
    BY <1>6 DEF TakeClose, TakeClean, ExecEnds, Deliver, DeliverFails
  <2> QED BY <1>1, <2>1
<1>7. CASE HandleStrayReply
  BY <1>7, ReplyRead DEF HandleStrayReply
<1>8. CASE HandleListenReply
  <2>1. /\ Hears({"success", "failure"}) /\ toClient' = Tail(toClient) /\ awaiting' = None
        /\ UNCHANGED <<toServer, bound>> /\ awaiting.op = "listen"
    BY <1>8 DEF HandleListenReply
  <2>2. PICK r \in ReplyRecord : r = Head(toClient)
    BY <2>1, ReplyRead
  <2>3. table' = IF Granted(r)
                 THEN [a \in DOMAIN table \cup {r.addr} |-> IF a = r.addr THEN awaiting.l ELSE table[a]]
                 ELSE table
    BY <1>8, <2>2 DEF HandleListenReply
  <2>4. ASSUME ServerChooses PROVE table' = Outcome(table, awaiting, r)
    <3>1. Granted(r) <=> r.type = "success"
      BY <2>1, <2>2, <2>4, ReplyRead DEF Granted
    <3> QED BY <2>1, <2>3, <3>1 DEF Outcome, With
  <2> QED BY <2>1, <2>2, <2>4, StageDone
<1>9. CASE HandleCancelReply
  <2>1. /\ Hears({"success", "failure"}) /\ toClient' = Tail(toClient) /\ awaiting' = None
        /\ UNCHANGED <<toServer, bound>> /\ awaiting.op = "cancel"
        /\ table' = IF Head(toClient).type = "success" THEN Removed(awaiting.addr) ELSE table
    BY <1>9 DEF HandleCancelReply
  <2>2. table' = Outcome(table, awaiting, Head(toClient))
    BY <2>1 DEF Outcome, Without, Removed
  <2> QED BY <2>1, <2>2, StageDone
<1>10. CASE HandleOpenRefused \/ HandleOpen
  <2>1. /\ toClient # <<>> /\ Head(toClient).type = "open" /\ toClient' = Tail(toClient)
        /\ UNCHANGED <<awaiting, toServer, table, bound>>
    BY <1>10 DEF HandleOpenRefused, HandleOpen, Hears
  <2>2. /\ NoReply(toClient) => NoReply(toClient')
        /\ \A r \in ReplyRecord : OneReply(toClient, r) => OneReply(toClient', r)
    BY <2>1, ReplyWire DEF ForwardTypeOK, Answers
  <2> QED BY <2>1, <2>2, StageKept
<1>11. CASE HandleOpenOrphaned
  BY <1>11 DEF HandleOpenOrphaned
<1> QED BY <1>3, <1>4, <1>5, <1>6, <1>7, <1>8, <1>9, <1>10, <1>11 DEF Task

\* Every step of the server keeps the stages.
LEMMA ServerStage ==
  ASSUME ForwardTypeOK, ~ended, Stage, Server \/ \E c \in Conns : ServerConnects(c)
  PROVE  Stage'
<1> USE DEF ServerUnchanged
<1>1. toServer # <<>> => Head(toServer) \in RequestRecord
  BY RequestTaken DEF ForwardTypeOK
<1>2. CASE ServerGrants
  <2>1. PICK m \in RequestRecord : m = Head(toServer) /\ m.type = "tcpip-forward" /\ toServer # <<>>
    BY <1>1, <1>2 DEF ServerGrants, Asks
  <2>2. m.want /\ m.addr \in Asked
    BY <2>1 DEF RequestRecord
  <2>3. PICK p \in Ports \ DOMAIN bound :
          /\ m.addr \in {0, p}
          /\ bound' = [a \in DOMAIN bound \cup {p} |-> IF a = p THEN m.l ELSE bound[a]]
          /\ toClient' = Append(toClient, Reply("success", IF m.addr = 0 THEN p ELSE 0))
    BY <1>2, <2>1 DEF ServerGrants
  <2>4. PICK r \in ReplyRecord : r = [type |-> "success", addr |-> IF m.addr = 0 THEN p ELSE 0, at |-> 0, to |-> m]
    <3>1. [type |-> "success", addr |-> IF m.addr = 0 THEN p ELSE 0, at |-> 0, to |-> m] \in ReplyRecord
      BY <2>3 DEF ReplyRecord
    <3> QED BY <3>1
  <2>5. toClient' = Append(toClient, r) /\ r.to = m /\ r.type = "success"
    BY <2>1, <2>3, <2>4 DEF Reply
  <2>6. ASSUME ServerChooses
        PROVE  bound' = Outcome(table, awaiting, r) /\ r.addr # 0
    <3>1. r.addr = p /\ p # 0
      BY <2>2, <2>3, <2>4, <2>6, ForwardingAssumption DEF ServerChooses
    <3>2. Awaited(awaiting, m) /\ bound = table
      BY <2>1, <2>2, <2>6, AnswerDue
    <3>3. awaiting.op = "listen" /\ awaiting.l = m.l
      BY <2>1, <3>2 DEF Awaited
    <3> QED BY <2>3, <2>5, <3>1, <3>2, <3>3 DEF Outcome, With
  <2>7. toServer' = Tail(toServer) /\ UNCHANGED <<awaiting, table>>
    BY <1>2 DEF ServerGrants
  <2> QED BY <2>1, <2>2, <2>5, <2>6, <2>7, StageAnswered
<1>3. CASE ServerRefuses
  <2>1. PICK m \in RequestRecord : m = Head(toServer) /\ m.type = "tcpip-forward" /\ toServer # <<>>
    BY <1>1, <1>3 DEF ServerRefuses, Asks
  <2>2. m.want
    BY <2>1 DEF RequestRecord
  <2>3. PICK r \in ReplyRecord : r = [type |-> "failure", addr |-> 0, at |-> 0, to |-> m]
    <3>1. [type |-> "failure", addr |-> 0, at |-> 0, to |-> m] \in ReplyRecord
      BY DEF ReplyRecord
    <3> QED BY <3>1
  <2>4. /\ toServer' = Tail(toServer) /\ UNCHANGED <<awaiting, table, bound>> /\ r.to = m /\ r.type = "failure"
        /\ toClient' = Append(toClient, r)
    BY <1>3, <2>1, <2>3 DEF ServerRefuses, Reply
  <2>5. ASSUME ServerChooses PROVE bound' = Outcome(table, awaiting, r)
    BY <2>1, <2>2, <2>4, <2>5, AnswerDue DEF Outcome
  <2> QED BY <2>1, <2>2, <2>4, <2>5, StageAnswered
<1>4. CASE ServerCancels
  <2>1. PICK m \in RequestRecord : m = Head(toServer) /\ m.type = "cancel" /\ toServer # <<>>
    BY <1>1, <1>4 DEF ServerCancels, Asks
  <2>2. /\ toServer' = Tail(toServer) /\ UNCHANGED <<awaiting, table>>
        /\ bound' = Without(bound, m.addr)
    BY <1>4, <2>1 DEF ServerCancels, Without
  <2>3. CASE ~m.want
    <3>1. UNCHANGED toClient
      BY <1>4, <2>1, <2>3 DEF ServerCancels
    <3> QED BY <2>1, <2>2, <2>3, <3>1, StageForgot
  <2>4. CASE m.want
    <3>1. PICK r \in ReplyRecord :
            r = [type |-> IF m.addr \in DOMAIN bound THEN "success" ELSE "failure", addr |-> 0, at |-> 0, to |-> m]
      <4>1. [type |-> IF m.addr \in DOMAIN bound THEN "success" ELSE "failure", addr |-> 0, at |-> 0, to |-> m]
              \in ReplyRecord
        BY DEF ReplyRecord
      <4> QED BY <4>1
    <3>2. toClient' = Append(toClient, r) /\ r.to = m
      BY <1>4, <2>1, <2>4, <3>1 DEF ServerCancels, Reply
    <3>3. Awaited(awaiting, m) /\ (ServerChooses => bound = table)
      BY <2>1, <2>4, AnswerDue
    <3>4. awaiting.op = "cancel" /\ awaiting.addr = m.addr
      BY <2>1, <3>3 DEF Awaited
    <3>5. m.addr \notin DOMAIN bound => bound' = bound
      BY <2>2 DEF Without, ForwardTypeOK, Forwards
    <3>6. ServerChooses => bound' = Outcome(table, awaiting, r)
      BY <2>2, <3>1, <3>3, <3>4, <3>5 DEF Outcome
    <3> QED BY <2>1, <2>2, <2>4, <3>2, <3>4, <3>6, StageAnswered
  <2> QED BY <2>3, <2>4
<1>5. CASE ServerSeesEnd
  BY <1>5 DEF ServerSeesEnd
<1>6. ASSUME NEW c \in Conns, ServerConnects(c) PROVE Stage'
  <2>1. PICK p \in DOMAIN bound :
          toClient' = Append(toClient, [type |-> "open", addr |-> c, at |-> p, to |-> None])
    BY <1>6 DEF ServerConnects
  <2>2. PICK m \in OpenRecord : m = [type |-> "open", addr |-> c, at |-> p, to |-> None]
    BY <2>1 DEF OpenRecord, ForwardTypeOK, Forwards
  <2>3. /\ NoReply(toClient) => NoReply(toClient')
        /\ \A r \in ReplyRecord : OneReply(toClient, r) => OneReply(toClient', r)
    BY <2>1, <2>2, ReplyWire DEF ForwardTypeOK, Answers
  <2>4. UNCHANGED <<awaiting, toServer, table, bound>>
    BY <1>6 DEF ServerConnects
  <2> QED BY <2>3, <2>4, StageKept
<1> QED BY <1>2, <1>3, <1>4, <1>5, <1>6 DEF Server

-----------------------------------------------------------------------------

\* Nothing is forwarded at first: SessionInner::new.
LEMMA InitForward == Init => ForwardInv
<1> SUFFICES ASSUME Init PROVE ForwardInv
  OBVIOUS
<1>1. ForwardTypeOK
  <2>1. listener \in [Listeners -> ListenerRecord]
    <3>1. [state |-> "new", addr |-> 0, queue |-> <<>>] \in ListenerRecord
      BY DEF ListenerRecord, Addresses
    <3> QED BY <3>1 DEF Init
  <2>2. Forwards(<<>>)
    BY DEF Forwards
  <2>3. events \in Seq(EventRecord) /\ toServer \in Seq(RequestRecord) /\ toClient \in Seq(ReplyRecord \cup OpenRecord)
    BY DEF Init
  <2>4. Forwards(table) /\ Forwards(bound)
    BY <2>2 DEF Init
  <2>5. /\ stream \in [Conns -> {"none", "queued", "held", "dropped", "closed"}]
        /\ peer \in [Conns -> {"none", "opening", "confirm", "refuse", "close"}]
    BY DEF Init
  <2>6. cleaning \in SUBSET Ports /\ session \in BOOLEAN /\ ended \in BOOLEAN
    BY DEF Init
  <2>7. awaiting = None /\ delivering = None
    BY DEF Init
  <2> QED BY <2>1, <2>3, <2>4, <2>5, <2>6, <2>7 DEF ForwardTypeOK
<1>2. Resting
  <2>1. NoneAsks(<<>>) /\ NoReply(<<>>)
    BY DEF NoneAsks, NoReply
  <2> QED BY <2>1, EqualLevel DEF Init, Resting
<1>3. StreamsKept
  BY DEF Init, StreamsKept
<1> QED BY <1>1, <1>2, <1>3 DEF Init, ForwardInv, Stage

\* Every step keeps the invariant.
LEMMA ForwardStep == ForwardInv /\ [Next]_vars => ForwardInv'
<1> SUFFICES ASSUME ForwardInv, [Next]_vars PROVE ForwardInv'
  OBVIOUS
<1>1. CASE UNCHANGED vars
  BY <1>1 DEF vars, ForwardInv, ForwardTypeOK, Forwards, Frontends, Hearing, Stage, Resting, Requested,
              Replied, StreamsKept
<1>2. CASE Next
  <2>1. ForwardTypeOK /\ (Frontends => ~ended /\ Stage /\ StreamsKept)
    BY DEF ForwardInv
  <2>2. ForwardTypeOK'
    BY <1>2, <2>1, AppTypes, TakeTypes, HandleTypes, ServerTypes DEF Next, Task
  <2>3. ASSUME Frontends' PROVE ~ended' /\ Stage' /\ StreamsKept'
    <3>1. Frontends /\ ~ended /\ Stage /\ StreamsKept
      BY <1>2, <2>1, <2>3, NoNewFrontend
    <3>2. ~ended'
      <4>1. CASE Task
        BY <3>1, <4>1 DEF Task, TakeListen, TakeCancel, TakeClose, TakeClean, CleanNext, ExecEnds,
             HandleStrayReply, HandleListenReply, HandleCancelReply, HandleOpenRefused,
             HandleOpenOrphaned, HandleOpen, Deliver, DeliverFails
      <4>2. CASE App
        BY <3>1, <4>2 DEF App, AppUnchanged, AppListen, AppCancel, AppGivesUp, AppAccept,
             AppDropListener, AppCancelled, AppDropStream, AppClean, AppDropSession
      <4>3. CASE Server \/ \E c \in Conns : ServerConnects(c)
        BY <3>1, <4>3 DEF Server, ServerGrants, ServerRefuses, ServerCancels, ServerSeesEnd,
             ServerConnects, ServerUnchanged
      <4> QED BY <1>2, <4>1, <4>2, <4>3 DEF Next
    <3>3. Stage'
      <4>1. CASE App
        <5>1. UNCHANGED <<awaiting, toServer, toClient, table, bound>>
          BY <4>1 DEF App, AppUnchanged, AppListen, AppCancel, AppGivesUp, AppAccept,
               AppDropListener, AppCancelled, AppDropStream, AppClean, AppDropSession
        <5> QED BY <3>1, <5>1, StageKept
      <4> QED BY <1>2, <2>1, <3>1, <4>1, TaskStage, ServerStage DEF Next
    <3> QED BY <1>2, <2>1, <3>1, <3>2, <3>3, StreamsStep
  <2> QED BY <2>2, <2>3 DEF ForwardInv
<1> QED BY <1>1, <1>2

\* ForwardInv holds always: at most one request with a reply is under way, the session
\* task waits for it, and the table follows the server's ports by what is in between.
THEOREM ForwardInvariant == Spec => []ForwardInv
<1>1. Init => ForwardInv
  BY InitForward
<1>2. ForwardInv /\ [Next]_vars => ForwardInv'
  BY ForwardStep
<1> QED BY <1>1, <1>2, PTL DEF Spec

\* As long as somebody holds a handle, every request and every reply under way is the one
\* the session task waits for (global_request_*, matched by order).
THEOREM RepliesAreOurs == Spec => []ReplyIsOurs
<1>1. ForwardInv => ReplyIsOurs
  <2> SUFFICES ASSUME ForwardInv, Frontends,
                      NEW m \in {toServer[i] : i \in {j \in DOMAIN toServer : toServer[j].want}}
                              \cup {toClient[i].to : i \in {j \in DOMAIN toClient : toClient[j].type # "open"}}
               PROVE  Awaited(awaiting, m)
    BY DEF ReplyIsOurs, Awaited
  <2>1. Stage /\ toServer \in Seq(RequestRecord) /\ toClient \in Seq(Answers)
    BY DEF ForwardInv, ForwardTypeOK, Answers
  <2>2. CASE m \in {toServer[i] : i \in {j \in DOMAIN toServer : toServer[j].want}}
    <3>1. PICK i \in 1..Len(toServer) : m = toServer[i] /\ toServer[i].want
      BY <2>1, <2>2
    <3>2. Requested
      BY <2>1, <3>1 DEF Stage, Resting, Replied, NoneAsks
    <3> QED BY <3>1, <3>2 DEF Requested, LastAsks
  <2>3. CASE m \in {toClient[i].to : i \in {j \in DOMAIN toClient : toClient[j].type # "open"}}
    <3>1. PICK i \in 1..Len(toClient) : m = toClient[i].to /\ toClient[i].type # "open"
      BY <2>1, <2>3
    <3>2. Replied
      BY <2>1, <3>1 DEF Stage, Resting, Requested, NoReply
    <3>3. PICK r \in ReplyRecord : OneReply(toClient, r) /\ Awaited(awaiting, r.to)
      BY <3>2 DEF Replied
    <3>4. toClient[i] = r
      BY <3>1, <3>3 DEF OneReply
    <3> QED BY <3>1, <3>3, <3>4
  <2> QED BY <2>2, <2>3
<1> QED BY <1>1, ForwardInvariant, PTL

\* If every listen_on_server leaves the port to the server, then whenever nothing is under
\* way the server listens exactly where the Forward table says, and every connection it
\* believes open has a Stream, or its close was lost to a full queue.  Without the
\* hypothesis it is false: the run forward_port shows how.
THEOREM ForwardsAlwaysAgree == ServerChooses => (Spec => []ForwardsAgree)
<1>1. ServerChooses /\ ForwardInv => ForwardsAgree
  <2> SUFFICES ASSUME ServerChooses, ForwardInv, Quiet, Frontends
               PROVE  /\ bound = table
                      /\ \A c \in Conns : peer[c] = "confirm" =>
                           stream[c] \in {"queued", "held"} \/ Event("close", 0, c, FALSE) \in lost
    BY DEF ForwardsAgree
  <2>1. Stage /\ StreamsKept /\ Forwards(table) /\ Forwards(bound)
    BY DEF ForwardInv, ForwardTypeOK
  <2>2. Level(<<>>, table, bound)
    BY <2>1 DEF Stage, Resting, Requested, Replied, Quiet
  <2>3. \A a : ~Pending(<<>>, a)
    BY DEF Pending
  <2>4. bound = table
    BY <2>1, <2>2, <2>3, LevelEqual
  <2>5. ToSet(events) = {}
    BY DEF Quiet, ToSet
  <2> QED BY <2>1, <2>4, <2>5 DEF StreamsKept
<1>2. ServerChooses => [](ServerChooses)
  <2>1. ServerChooses => ServerChooses'
    BY DEF ServerChooses
  <2> QED BY <2>1, PTL
<1> QED BY <1>1, <1>2, ForwardInvariant, PTL
=============================================================================
