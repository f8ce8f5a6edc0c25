------------------------- MODULE FlowControlProofs -------------------------
(***************************************************************************)
(* FlowControl's safety properties for every window, packet size, queue    *)
(* and bound.  The invariant FlowInv adds to the properties what makes     *)
(* them inductive: the messages in flight carry consecutive totals         *)
(* (Linked), so that the data in flight is the difference of the two       *)
(* sides' totals, and the outstanding request is accounted for.            *)
(***************************************************************************)
EXTENDS FlowControl, SequenceTheorems, TLAPS

\* A wire from a sender with totals s to a receiver with totals r.
Linked(q, r, s) ==
  /\ r.data <= s.data /\ r.adjust <= s.adjust
  /\ q = <<>> => r = s
  /\ q # <<>> => /\ q[1].total = Account(r, q[1].type, q[1].size)
                 /\ q[Len(q)].total = s
  /\ \A i \in 2..Len(q) : q[i].total = Account(q[i-1].total, q[i].type, q[i].size)
  /\ \A i \in 1..Len(q) : q[i].total.data <= s.data /\ q[i].total.adjust <= s.adjust

\* Both equations of WindowConservation, solved for the client's counters.
Books ==
  /\ clientUsed <= cliRecv.data - cliSent.adjust - ignored
  /\ pc # "failed" => clientUsed = cliRecv.data - cliSent.adjust - ignored
  /\ serverUsed = cliSent.data - cliRecv.adjust

Bounds ==
  /\ clientUsed >= 0 /\ ClientLeft >= 0 /\ ServerLeft >= 0
  /\ srvSent.data <= ClientWindow + ServerSlack + srvRecv.adjust
  /\ ServerSlack = 0 => pc # "failed"

Requests ==
  /\ pc = "send" => app = "served" /\ sent <= request
  /\ app = "served" => pc = "send"
  /\ cliSent.data = accepted + (IF pc = "send" THEN sent ELSE 0)
  /\ accepted + (IF app = "ready" THEN 0 ELSE request) <= asked

Chunks ==
  \A i \in 1..Len(toServer) : toServer[i].type = "data" =>
    toServer[i].size <= ServerPacket /\ toServer[i].size <= MaxPayload

FlowInv ==
  /\ TypeOK
  /\ Linked(toClient, cliRecv, srvSent)
  /\ Linked(toServer, srvRecv, cliSent)
  /\ Books /\ Bounds /\ Requests /\ Chunks

-----------------------------------------------------------------------------
(* Wires.                                                                  *)

\* Accounting for a message keeps totals in range and moves one of them.
LEMMA AccountType ==
  ASSUME NEW t \in Total, NEW type \in {"data", "adjust"}, NEW n \in Nat
  PROVE  /\ Account(t, type, n) \in Total
         /\ Wire(t, type, n) \in WireMsg
         /\ Account(t, type, n).data >= t.data
         /\ Account(t, type, n).adjust >= t.adjust
         /\ t.data \in Nat /\ t.adjust \in Nat
BY DEF Account, Wire, WireMsg, Total

\* A data message adds its size to the data total and nothing to the other.
LEMMA AccountData ==
  ASSUME NEW t \in Total, NEW n \in Nat
  PROVE  /\ Account(t, "data", n).data = t.data + n
         /\ Account(t, "data", n).adjust = t.adjust
BY DEF Account, Total

\* A WINDOW_ADJUST adds its size to the adjust total and nothing to the other.
LEMMA AccountAdjust ==
  ASSUME NEW t \in Total, NEW n \in Nat
  PROVE  /\ Account(t, "adjust", n).data = t.data
         /\ Account(t, "adjust", n).adjust = t.adjust + n
BY DEF Account, Total

\* The numbers of a state.
LEMMA Numbers ==
  ASSUME TypeOK
  PROVE  /\ cliSent.data \in Nat /\ cliSent.adjust \in Nat
         /\ cliRecv.data \in Nat /\ cliRecv.adjust \in Nat
         /\ srvSent.data \in Nat /\ srvSent.adjust \in Nat
         /\ srvRecv.data \in Nat /\ srvRecv.adjust \in Nat
         /\ clientUsed \in Int /\ serverUsed \in Int /\ ignored \in Nat
         /\ sent \in Nat /\ request \in Nat /\ asked \in Nat /\ accepted \in Nat
BY DEF TypeOK, Total

\* A message appended with the sender's new totals keeps the wire linked.
LEMMA LinkedAppend ==
  ASSUME NEW q \in Seq(WireMsg), NEW r \in Total, NEW s \in Total,
         NEW type \in {"data", "adjust"}, NEW n \in Nat,
         Linked(q, r, s)
  PROVE  /\ Append(q, Wire(s, type, n)) \in Seq(WireMsg)
         /\ Linked(Append(q, Wire(s, type, n)), r, Account(s, type, n))
<1> DEFINE m == Wire(s, type, n)
           p == Append(q, m)
           t == Account(s, type, n)
<1>1. /\ t \in Total /\ m \in WireMsg
      /\ t.data >= s.data /\ t.adjust >= s.adjust
      /\ m.total = t /\ m.type = type /\ m.size = n
  BY AccountType DEF Wire, Total
<1>2. /\ p \in Seq(WireMsg) /\ p # <<>> /\ Len(p) = Len(q) + 1
      /\ p[Len(p)] = m
      /\ \A i \in 1..Len(q) : p[i] = q[i]
  BY <1>1, AppendProperties
<1>3. \A i \in 1..Len(q) : q[i].total \in Total
  <2>1. \A i \in 1..Len(q) : q[i] \in WireMsg
    OBVIOUS
  <2> QED BY <2>1 DEF WireMsg
<1>4. r.data <= t.data /\ r.adjust <= t.adjust
  BY <1>1 DEF Linked, Total
<1>5. p[1].total = Account(r, p[1].type, p[1].size)
  <2>1. CASE q = <<>>
    BY <1>1, <1>2, <2>1 DEF Linked
  <2>2. CASE q # <<>>
    <3>1. 1 \in 1..Len(q)
      BY <2>2
    <3> QED
      BY <1>2, <2>2, <3>1 DEF Linked
  <2> QED BY <2>1, <2>2
<1>6. ASSUME NEW i \in 2..Len(p)
      PROVE  p[i].total = Account(p[i-1].total, p[i].type, p[i].size)
  <2>1. CASE i \in 2..Len(q)
    <3>1. i \in 1..Len(q) /\ i-1 \in 1..Len(q)
      BY <2>1
    <3> QED
      BY <1>2, <2>1, <3>1 DEF Linked
  <2>2. CASE i = Len(p)
    <3>1. Len(q) \in 1..Len(q) /\ i - 1 = Len(q) /\ q # <<>>
      BY <1>2, <1>6, <2>2
    <3> QED
      BY <1>1, <1>2, <2>2, <3>1 DEF Linked
  <2> QED BY <1>2, <1>6, <2>1, <2>2
<1>7. ASSUME NEW i \in 1..Len(p)
      PROVE  p[i].total.data <= t.data /\ p[i].total.adjust <= t.adjust
  <2>1. CASE i \in 1..Len(q)
    BY <1>1, <1>2, <1>3, <2>1 DEF Linked, Total
  <2>2. CASE i = Len(p)
    BY <1>1, <1>2, <2>2 DEF Total
  <2> QED BY <1>2, <1>7, <2>1, <2>2
<1> QED
  BY <1>1, <1>2, <1>4, <1>5, <1>6, <1>7 DEF Linked

\* Taking the first message off leaves the rest linked to its totals.
LEMMA LinkedTail ==
  ASSUME NEW q \in Seq(WireMsg), NEW r \in Total, NEW s \in Total,
         q # <<>>, Linked(q, r, s)
  PROVE  /\ Head(q) \in WireMsg
         /\ Tail(q) \in Seq(WireMsg)
         /\ Head(q).total = Account(r, Head(q).type, Head(q).size)
         /\ Head(q).total \in Total
         /\ Head(q).total.data <= s.data /\ Head(q).total.adjust <= s.adjust
         /\ Linked(Tail(q), Head(q).total, s)
<1> DEFINE p == Tail(q)
<1>1. /\ Head(q) = q[1] /\ 1 \in 1..Len(q) /\ Head(q) \in WireMsg
      /\ p \in Seq(WireMsg) /\ Len(p) = Len(q) - 1
      /\ \A i \in 1..Len(p) : p[i] = q[i+1] /\ i + 1 \in 2..Len(q)
  OBVIOUS
<1>2. /\ Head(q).total = Account(r, Head(q).type, Head(q).size)
      /\ Head(q).total \in Total
      /\ Head(q).total.data <= s.data /\ Head(q).total.adjust <= s.adjust
  BY <1>1 DEF Linked, WireMsg
<1>3. p = <<>> => Head(q).total = s
  <2>1. p = <<>> => Len(q) = 1
    BY <1>1
  <2> QED BY <1>1, <2>1 DEF Linked
<1>4. ASSUME p # <<>>
      PROVE  /\ p[1].total = Account(Head(q).total, p[1].type, p[1].size)
             /\ p[Len(p)].total = s
  <2>1. 1 \in 1..Len(p) /\ Len(p) \in 1..Len(p) /\ Len(p) + 1 = Len(q)
    BY <1>1, <1>4
  <2>2. p[1] = q[2] /\ p[Len(p)] = q[Len(q)] /\ 2 \in 2..Len(q)
    BY <1>1, <2>1
  <2> QED
    BY <1>1, <2>2 DEF Linked
<1>5. ASSUME NEW i \in 2..Len(p)
      PROVE  p[i].total = Account(p[i-1].total, p[i].type, p[i].size)
  <2>1. i \in 1..Len(p) /\ i - 1 \in 1..Len(p) /\ (i - 1) + 1 = i /\ (i + 1) - 1 = i
    OBVIOUS
  <2>2. p[i] = q[i+1] /\ p[i-1] = q[i] /\ i + 1 \in 2..Len(q)
    BY <1>1, <2>1
  <2> QED
    BY <2>1, <2>2 DEF Linked
<1>6. ASSUME NEW i \in 1..Len(p)
      PROVE  p[i].total.data <= s.data /\ p[i].total.adjust <= s.adjust
  <2>1. p[i] = q[i+1] /\ i + 1 \in 1..Len(q)
    BY <1>1
  <2> QED
    BY <2>1 DEF Linked
<1> QED
  BY <1>1, <1>2, <1>3, <1>4, <1>5, <1>6 DEF Linked

-----------------------------------------------------------------------------
(* The invariant.                                                          *)

\* A channel starts with empty wires and equal books.
LEMMA InitFlow == Init => FlowInv
BY FlowAssumption
   DEF Init, FlowInv, TypeOK, Linked, Books, Bounds, Requests, Chunks, Zero, Total,
       QueueMsg, WireMsg, ClientLeft, ServerLeft

\* The amount channel_send puts into a packet is within all four limits.
LEMMA ChunkBounds ==
  ASSUME TypeOK, ServerLeft >= 0, sent <= request
  PROVE  /\ ChunkSize \in Nat
         /\ ChunkSize <= request - sent /\ ChunkSize <= ServerLeft
         /\ ChunkSize <= ServerPacket /\ ChunkSize <= MaxPayload
BY FlowAssumption DEF ChunkSize, Lesser, ServerLeft, TypeOK

\* The data handler keeps the books: an accepted message moves from the wire
\* to clientUsed, an ignored one to ignored, and none can overflow the window.
LEMMA DataStep ==
  ASSUME FlowInv, HandleChannelData
  PROVE  FlowInv'
<1> DEFINE m == Head(toClient)
<1>1. /\ m \in WireMsg /\ toClient' \in Seq(WireMsg)
      /\ m.total = Account(cliRecv, m.type, m.size) /\ cliRecv' = m.total
      /\ cliRecv' \in Total
      /\ m.total.data <= srvSent.data /\ m.total.adjust <= srvSent.adjust
      /\ Linked(toClient', cliRecv', srvSent)
  BY LinkedTail DEF FlowInv, TypeOK, HandleChannelData
<1>2. m.size \in Nat /\ m.type = "data"
  BY <1>1 DEF WireMsg, HandleChannelData
<1>3. cliRecv'.data = cliRecv.data + m.size /\ cliRecv'.adjust = cliRecv.adjust
  BY <1>1, <1>2, AccountData DEF FlowInv, TypeOK
<1>4. UNCHANGED <<handle, toServer, cliSent, srvSent, srvRecv, sent, serverUsed>>
  BY DEF HandleChannelData, task
<1>5. /\ TypeOK /\ Books /\ Bounds /\ Requests /\ Chunks /\ pc = "select"
      /\ Linked(toServer, srvRecv, cliSent)
  BY DEF FlowInv, HandleChannelData
<1>6. \/ /\ m.size > ClientPacket /\ ignored' = ignored + m.size /\ UNCHANGED task
      \/ /\ m.size > ClientLeft /\ pc' = "failed"
         /\ UNCHANGED <<pending, clientUsed, ignored>>
      \/ /\ m.size <= ClientLeft /\ clientUsed' = clientUsed + m.size
         /\ pc' = "deliver" /\ pending' = [type |-> "data", size |-> m.size]
         /\ UNCHANGED ignored
  BY DEF HandleChannelData
<1>7. TypeOK'
  BY <1>1, <1>2, <1>4, <1>5, <1>6 DEF TypeOK, QueueMsg, task, handle
<1>8. Books'
  BY <1>2, <1>3, <1>4, <1>5, <1>6, Numbers DEF Books, task
<1>9. Bounds'
  <2>1. ASSUME ServerSlack = 0, m.size > ClientLeft PROVE FALSE
    <3>1. cliSent.adjust >= srvRecv.adjust
      BY <1>5 DEF Linked
    <3>2. clientUsed = cliRecv.data - cliSent.adjust - ignored
      BY <1>5 DEF Books
    <3>3. srvSent.data <= ClientWindow + srvRecv.adjust
      BY <1>5, <2>1, FlowAssumption DEF Bounds
    <3>4. cliRecv.data + m.size <= srvSent.data
      BY <1>1, <1>3
    <3> HIDE DEF m
    <3> QED
      BY <1>2, <1>5, <2>1, <3>1, <3>2, <3>3, <3>4, Numbers, FlowAssumption
      DEF ClientLeft
  <2> QED
    BY <1>2, <1>4, <1>5, <1>6, <2>1, FlowAssumption
    DEF Bounds, TypeOK, ClientLeft, ServerLeft, task
<1>10. Requests' /\ Chunks'
  BY <1>4, <1>5, <1>6 DEF Requests, Chunks, task, handle
<1> QED
  BY <1>1, <1>4, <1>5, <1>7, <1>8, <1>9, <1>10 DEF FlowInv

\* A WINDOW_ADJUST moves from the wire to the client's view of the window.
LEMMA AdjustStep ==
  ASSUME FlowInv, HandleChannelWindowAdjust
  PROVE  FlowInv'
<1> DEFINE m == Head(toClient)
<1>1. /\ m \in WireMsg /\ toClient' \in Seq(WireMsg)
      /\ m.total = Account(cliRecv, m.type, m.size) /\ cliRecv' = m.total
      /\ cliRecv' \in Total
      /\ Linked(toClient', cliRecv', srvSent)
  BY LinkedTail DEF FlowInv, TypeOK, HandleChannelWindowAdjust
<1>2. m.size \in Nat /\ m.type = "adjust"
  BY <1>1 DEF WireMsg, HandleChannelWindowAdjust
<1>3. cliRecv'.data = cliRecv.data /\ cliRecv'.adjust = cliRecv.adjust + m.size
  BY <1>1, <1>2, AccountAdjust DEF FlowInv, TypeOK
<1>4. /\ UNCHANGED <<sent, clientUsed, handle, toServer, cliSent, srvSent, srvRecv,
                     ignored>>
      /\ serverUsed' = serverUsed - m.size
      /\ pc = "select" /\ pc' = "deliver"
      /\ pending' = [type |-> "adjust", size |-> m.size]
  BY DEF HandleChannelWindowAdjust
<1>5. TypeOK'
  BY <1>1, <1>2, <1>4 DEF FlowInv, TypeOK, QueueMsg, handle
<1>6. Books' /\ Bounds'
  BY <1>2, <1>3, <1>4, Numbers, FlowAssumption
  DEF FlowInv, Books, Bounds, ClientLeft, ServerLeft
<1>7. Requests' /\ Chunks'
  BY <1>4 DEF FlowInv, Requests, Chunks, handle
<1> QED
  BY <1>1, <1>4, <1>5, <1>6, <1>7 DEF FlowInv

\* Delivering a message, with or without giving window back.
LEMMA DeliverStep ==
  ASSUME FlowInv, Deliver
  PROVE  FlowInv'
<1>1. /\ TypeOK /\ Books /\ Bounds /\ Requests /\ Chunks
      /\ Linked(toClient, cliRecv, srvSent) /\ Linked(toServer, srvRecv, cliSent)
  BY DEF FlowInv
<1>2. /\ UNCHANGED <<pending, sent, serverUsed, alive, app, request, asked, accepted,
                     toClient, cliRecv, srvSent, srvRecv, ignored>>
      /\ pc = "deliver" /\ pc' = "select"
  BY DEF Deliver
<1>3. queue' \in Seq(QueueMsg)
  BY <1>1 DEF Deliver, TypeOK
<1>4. CASE UNCHANGED <<toServer, cliSent, clientUsed>>
  <2>1. TypeOK'
    BY <1>1, <1>2, <1>3, <1>4 DEF TypeOK
  <2>2. Books' /\ Bounds' /\ Requests' /\ Chunks'
    BY <1>1, <1>2, <1>4 DEF Books, Bounds, Requests, Chunks, ClientLeft, ServerLeft
  <2> QED
    BY <1>1, <1>2, <1>4, <2>1, <2>2 DEF FlowInv
<1>5. CASE /\ toServer' = Append(toServer, Wire(cliSent, "adjust", clientUsed))
           /\ cliSent' = Account(cliSent, "adjust", clientUsed)
           /\ clientUsed' = clientUsed - clientUsed
  <2>1. clientUsed \in Nat /\ clientUsed' = 0
    BY <1>1, <1>5 DEF TypeOK, Bounds
  <2>2. /\ toServer' \in Seq(WireMsg) /\ cliSent' \in Total
        /\ Linked(toServer', srvRecv', cliSent')
    BY <1>1, <1>2, <1>5, <2>1, LinkedAppend, AccountType DEF TypeOK
  <2>3. cliSent'.data = cliSent.data /\ cliSent'.adjust = cliSent.adjust + clientUsed
    BY <1>1, <1>5, <2>1, AccountAdjust DEF TypeOK
  <2>4. TypeOK'
    BY <1>1, <1>2, <1>3, <2>1, <2>2 DEF TypeOK
  <2>5. Books' /\ Bounds' /\ Requests'
    BY <1>1, <1>2, <2>1, <2>3, Numbers, FlowAssumption
    DEF Books, Bounds, Requests, ClientLeft, ServerLeft
  <2>6. Chunks'
    <3>1. Wire(cliSent, "adjust", clientUsed) \in WireMsg
      BY <1>1, <2>1, AccountType DEF TypeOK
    <3>2. Wire(cliSent, "adjust", clientUsed).type = "adjust"
      BY DEF Wire
    <3> QED
      BY <1>1, <1>5, <3>1, <3>2, AppendProperties DEF Chunks, TypeOK
  <2> QED
    BY <1>1, <1>2, <2>2, <2>4, <2>5, <2>6 DEF FlowInv
<1> QED
  BY <1>4, <1>5 DEF Deliver, ReplenishWindow

\* One packet of channel_send.
LEMMA ChunkStep ==
  ASSUME FlowInv, ChannelSendChunk
  PROVE  FlowInv'
<1> DEFINE n == ChunkSize
<1>1. /\ TypeOK /\ Books /\ Bounds /\ Requests /\ Chunks
      /\ Linked(toClient, cliRecv, srvSent) /\ Linked(toServer, srvRecv, cliSent)
  BY DEF FlowInv
<1>2. /\ UNCHANGED <<pc, pending, clientUsed, handle, toClient, cliRecv, srvSent,
                     srvRecv, ignored>>
      /\ toServer' = Append(toServer, Wire(cliSent, "data", n))
      /\ cliSent' = Account(cliSent, "data", n)
      /\ serverUsed' = serverUsed + n /\ sent' = sent + n /\ pc = "send"
  BY DEF ChannelSendChunk
<1>3. /\ n \in Nat /\ n <= request - sent /\ n <= ServerLeft
      /\ n <= ServerPacket /\ n <= MaxPayload
  BY <1>1, <1>2, ChunkBounds DEF Bounds, Requests
<1> HIDE DEF n
<1>4. /\ toServer' \in Seq(WireMsg) /\ cliSent' \in Total
      /\ Linked(toServer', srvRecv', cliSent')
  BY <1>1, <1>2, <1>3, LinkedAppend, AccountType DEF TypeOK
<1>5. cliSent'.data = cliSent.data + n /\ cliSent'.adjust = cliSent.adjust
  BY <1>1, <1>2, <1>3, AccountData DEF TypeOK
<1>6. TypeOK'
  BY <1>1, <1>2, <1>3, <1>4 DEF TypeOK, handle
<1>7. Books' /\ Bounds' /\ Requests'
  <2>1. Books'
    <3>1. serverUsed' = cliSent'.data - cliRecv'.adjust
      <4>1. /\ serverUsed = cliSent.data - cliRecv.adjust
            /\ cliSent.data \in Nat /\ cliRecv.adjust \in Nat /\ n \in Nat
        BY <1>1, <1>3, Numbers DEF Books
      <4>2. serverUsed' = serverUsed + n /\ cliRecv' = cliRecv
        BY <1>2
      <4> QED BY <1>5, <4>1, <4>2
    <3>2. /\ clientUsed' <= cliRecv'.data - cliSent'.adjust - ignored'
          /\ pc' # "failed" => clientUsed' = cliRecv'.data - cliSent'.adjust - ignored'
      BY <1>1, <1>2, <1>5 DEF Books
    <3> QED BY <3>1, <3>2 DEF Books
  <2>2. Bounds'
    BY <1>1, <1>2, <1>3, Numbers, FlowAssumption DEF Bounds, ClientLeft, ServerLeft
  <2>3. Requests'
    <3>1. sent' <= request'
      BY <1>1, <1>2, <1>3, Numbers DEF handle
    <3>2. cliSent'.data = accepted' + sent'
      BY <1>1, <1>2, <1>3, <1>5, Numbers DEF Requests, handle
    <3> QED
      BY <1>1, <1>2, <3>1, <3>2 DEF Requests, handle
  <2> QED BY <2>1, <2>2, <2>3
<1>8. Chunks'
  <2>1. Wire(cliSent, "data", n) \in WireMsg /\ Wire(cliSent, "data", n).size = n
    BY <1>1, <1>3, AccountType DEF TypeOK, Wire
  <2>2. toServer \in Seq(WireMsg)
    BY <1>1 DEF TypeOK
  <2> QED
    BY <1>1, <1>2, <1>3, <2>1, <2>2, AppendProperties DEF Chunks
<1> QED
  BY <1>1, <1>2, <1>4, <1>6, <1>7, <1>8 DEF FlowInv

\* The server's own steps.
LEMMA ServerStep ==
  ASSUME FlowInv,
         \/ \E n \in 0..MaxDown : ServerSendData(n)
         \/ \E n \in 1..MaxGrant : ServerGrant(n)
         \/ ServerReceive
  PROVE  FlowInv'
<1>1. /\ TypeOK /\ Books /\ Bounds /\ Requests /\ Chunks
      /\ Linked(toClient, cliRecv, srvSent) /\ Linked(toServer, srvRecv, cliSent)
  BY DEF FlowInv
<1>2. ASSUME NEW n \in 0..MaxDown, ServerSendData(n) PROVE FlowInv'
  <2>1. /\ UNCHANGED <<task, handle, toServer, cliSent, cliRecv, srvRecv, ignored>>
        /\ toClient' = Append(toClient, Wire(srvSent, "data", n))
        /\ srvSent' = Account(srvSent, "data", n)
        /\ n <= ServerCredit + ServerSlack
        /\ n \in Nat
    BY <1>2, FlowAssumption DEF ServerSendData
  <2>2. /\ toClient' \in Seq(WireMsg) /\ srvSent' \in Total
        /\ Linked(toClient', cliRecv', srvSent')
    BY <1>1, <2>1, LinkedAppend, AccountType DEF TypeOK
  <2>3. srvSent'.data = srvSent.data + n
    BY <1>1, <2>1, AccountData DEF TypeOK
  <2>4. TypeOK'
    BY <1>1, <2>1, <2>2 DEF TypeOK, task, handle
  <2>5. Books' /\ Bounds' /\ Requests' /\ Chunks'
    <3>1. Books' /\ Requests' /\ Chunks'
      BY <1>1, <2>1 DEF Books, Requests, Chunks, task, handle
    <3>2. srvSent.data + n <= ClientWindow + ServerSlack + srvRecv.adjust
      <4>1. /\ srvSent.data \in Nat /\ srvRecv.adjust \in Nat /\ n \in Nat
            /\ ClientWindow \in Nat /\ ServerSlack \in Nat
        BY <1>1, <2>1, Numbers, FlowAssumption
      <4>2. n <= ClientWindow + srvRecv.adjust - srvSent.data + ServerSlack
        BY <2>1 DEF ServerCredit
      <4> QED BY <4>1, <4>2
    <3>3. Bounds'
      BY <1>1, <2>1, <2>3, <3>2 DEF Bounds, ClientLeft, ServerLeft, task
    <3> QED BY <3>1, <3>3
  <2> QED
    BY <1>1, <2>1, <2>2, <2>4, <2>5 DEF FlowInv, task, handle
<1>3. ASSUME NEW n \in 1..MaxGrant, ServerGrant(n) PROVE FlowInv'
  <2>1. /\ UNCHANGED <<task, handle, toServer, cliSent, cliRecv, srvRecv, ignored>>
        /\ toClient' = Append(toClient, Wire(srvSent, "adjust", n))
        /\ srvSent' = Account(srvSent, "adjust", n)
        /\ n \in Nat
    BY <1>3, FlowAssumption DEF ServerGrant
  <2>2. /\ toClient' \in Seq(WireMsg) /\ srvSent' \in Total
        /\ Linked(toClient', cliRecv', srvSent')
    BY <1>1, <2>1, LinkedAppend, AccountType DEF TypeOK
  <2>3. srvSent'.data = srvSent.data
    BY <1>1, <2>1, AccountAdjust DEF TypeOK
  <2>4. TypeOK'
    BY <1>1, <2>1, <2>2 DEF TypeOK, task, handle
  <2>5. Books' /\ Bounds' /\ Requests' /\ Chunks'
    BY <1>1, <2>1, <2>3
    DEF Books, Bounds, Requests, Chunks, ClientLeft, ServerLeft, task, handle
  <2> QED
    BY <1>1, <2>1, <2>2, <2>4, <2>5 DEF FlowInv, task, handle
<1>4. ASSUME ServerReceive PROVE FlowInv'
  <2>1. /\ UNCHANGED <<task, handle, toClient, cliSent, cliRecv, srvSent, ignored>>
        /\ toServer # <<>> /\ srvRecv' = Head(toServer).total
        /\ toServer' = Tail(toServer)
    BY <1>4 DEF ServerReceive
  <2>2. /\ toServer \in Seq(WireMsg) /\ srvRecv \in Total /\ cliSent \in Total
    BY <1>1 DEF TypeOK
  <2>3. /\ toServer' \in Seq(WireMsg) /\ srvRecv' \in Total
        /\ Linked(toServer', srvRecv', cliSent')
        /\ Head(toServer) \in WireMsg
        /\ srvRecv' = Account(srvRecv, Head(toServer).type, Head(toServer).size)
    BY <1>1, <2>1, <2>2, LinkedTail
  <2>4. srvRecv'.adjust >= srvRecv.adjust
    BY <2>2, <2>3, AccountType DEF WireMsg
  <2>5. TypeOK'
    BY <1>1, <2>1, <2>3 DEF TypeOK, task, handle
  <2>6. Books' /\ Bounds' /\ Requests'
    <3>1. srvRecv'.adjust \in Nat
      BY <2>3 DEF Total
    <3>2. Books' /\ Requests'
      BY <1>1, <2>1 DEF Books, Requests, task, handle
    <3>3. srvSent.data <= ClientWindow + ServerSlack + srvRecv.adjust
            => srvSent.data <= ClientWindow + ServerSlack + srvRecv'.adjust
      BY <1>1, <2>4, <3>1, Numbers, FlowAssumption
    <3>4. Bounds'
      BY <1>1, <2>1, <3>3 DEF Bounds, ClientLeft, ServerLeft, task
    <3> QED BY <3>2, <3>4
  <2>7. Chunks'
    BY <1>1, <2>1, <2>2, HeadTailProperties DEF Chunks
  <2> QED
    BY <1>1, <2>1, <2>3, <2>5, <2>6, <2>7 DEF FlowInv, task, handle
<1> QED
  BY <1>2, <1>3, <1>4

\* The steps that touch neither window nor wire.
LEMMA OtherStep ==
  ASSUME FlowInv,
         \/ ChannelSend \/ ChannelSendDone \/ AppReceive \/ AppDrop
         \/ \E n \in 1..MaxUp : AppSend(n)
         \/ UNCHANGED vars
  PROVE  FlowInv'
<1>1. /\ TypeOK /\ Books /\ Bounds /\ Requests /\ Chunks
      /\ Linked(toClient, cliRecv, srvSent) /\ Linked(toServer, srvRecv, cliSent)
  BY DEF FlowInv
<1>2. UNCHANGED <<pending, clientUsed, serverUsed, toClient, toServer, totals>>
  BY DEF ChannelSend, ChannelSendDone, AppReceive, AppDrop, AppSend, vars, task
<1>3. queue' \in Seq(QueueMsg)
  <2>1. queue \in Seq(QueueMsg)
    BY <1>1 DEF TypeOK
  <2>2. queue # <<>> => Tail(queue) \in Seq(QueueMsg)
    BY <2>1, HeadTailProperties
  <2>3. queue' \in {queue, <<>>} \/ (queue # <<>> /\ queue' = Tail(queue))
    BY DEF ChannelSend, ChannelSendDone, AppReceive, AppDrop, AppSend, vars, handle
  <2>4. <<>> \in Seq(QueueMsg)
    OBVIOUS
  <2> QED BY <2>1, <2>2, <2>3, <2>4, Zenon
<1>4. TypeOK'
  <2>1. /\ pc' \in {"select", "deliver", "send", "failed"} /\ alive' \in BOOLEAN
        /\ app' \in {"ready", "queued", "served"}
    BY <1>1 DEF ChannelSend, ChannelSendDone, AppReceive, AppDrop, AppSend, vars,
       task, handle, TypeOK
  <2>2. sent' \in Nat /\ accepted' \in Nat
    BY <1>1, Numbers DEF ChannelSend, ChannelSendDone, AppReceive, AppDrop, AppSend,
       vars, task, handle
  <2>3. request' \in Nat /\ asked' \in Nat
    BY <1>1, Numbers, FlowAssumption DEF ChannelSend, ChannelSendDone, AppReceive,
       AppDrop, AppSend, vars, handle
  <2> QED
    BY <1>1, <1>2, <1>3, <2>1, <2>2, <2>3 DEF TypeOK, totals
<1>5. Books' /\ Bounds' /\ Chunks'
  BY <1>1, <1>2 DEF ChannelSend, ChannelSendDone, AppReceive, AppDrop, AppSend, vars,
     task, handle, totals, Books, Bounds, Chunks, ClientLeft, ServerLeft
<1>6. Requests'
  BY <1>1, <1>2, Numbers DEF ChannelSend, ChannelSendDone, AppReceive, AppDrop,
     AppSend, vars, task, handle, totals, Requests
<1> QED
  BY <1>1, <1>2, <1>4, <1>5, <1>6 DEF FlowInv, totals

\* FlowInv is an inductive invariant of the specification.
THEOREM FlowInvariant == Spec => []FlowInv
<1>1. Init => FlowInv
  BY InitFlow
<1>2. FlowInv /\ [Next]_vars => FlowInv'
  BY DataStep, AdjustStep, DeliverStep, ChunkStep, ServerStep, OtherStep
  DEF Next, Backend
<1> QED
  BY <1>1, <1>2, PTL DEF Spec

-----------------------------------------------------------------------------
(* What the runs check on small instances, for every value of the constants. *)

\* Every reachable state has its type.
THEOREM TypeCorrect == Spec => []TypeOK
<1>1. FlowInv => TypeOK
  BY DEF FlowInv
<1> QED
  BY <1>1, FlowInvariant, PTL

\* The two sides' books agree at every moment, even with a server that
\* overdraws its credit.
THEOREM ConservationHolds == Spec => []WindowConservation
<1>1. FlowInv => WindowConservation
  BY Numbers, FlowAssumption
  DEF FlowInv, Books, WindowConservation, ClientLeft, ServerLeft, ServerCredit, ServerRoom
<1> QED
  BY <1>1, FlowInvariant, PTL

\* With a server that keeps to its credit, handle_channel_data never ends the
\* session with ChannelWindowOverflow.
THEOREM OverflowUnreachable ==
  ASSUME ServerSlack = 0
  PROVE  Spec => []NoWindowOverflow
<1>1. FlowInv => NoWindowOverflow
  BY DEF FlowInv, Bounds, NoWindowOverflow
<1> QED
  BY <1>1, FlowInvariant, PTL

\* The assertion in ChannelEndpoint::left never fires.
THEOREM LeftNeverPanics == Spec => []LeftAssertion
<1>1. FlowInv => LeftAssertion
  BY DEF FlowInv, Bounds, LeftAssertion
<1> QED
  BY <1>1, FlowInvariant, PTL

\* channel_send never overruns the server's window or packet size.
THEOREM OverrunUnreachable == Spec => []ServerNeverOverrun
<1>1. FlowInv => ServerNeverOverrun
  <2> SUFFICES ASSUME FlowInv, NEW i \in 1..Len(toServer), toServer[i].type = "data"
               PROVE  /\ toServer[i].total.data <= ServerWindow + cliRecv.adjust
                      /\ toServer[i].size <= ServerPacket
                      /\ toServer[i].size <= MaxPayload
    BY DEF ServerNeverOverrun
  <2>1. toServer[i].total.data \in Nat
    <3>1. toServer[i] \in WireMsg
      BY DEF FlowInv, TypeOK
    <3> QED
      BY <3>1 DEF WireMsg, Total
  <2>2. toServer[i].total.data <= cliSent.data
    BY DEF FlowInv, Linked
  <2>3. /\ cliSent.data \in Nat /\ cliRecv.adjust \in Nat /\ serverUsed \in Int
        /\ ServerWindow \in Nat
    BY Numbers, FlowAssumption DEF FlowInv
  <2>4. ServerWindow - serverUsed >= 0 /\ serverUsed = cliSent.data - cliRecv.adjust
    BY DEF FlowInv, Books, Bounds, ServerLeft
  <2>5. toServer[i].total.data <= ServerWindow + cliRecv.adjust
    BY <2>1, <2>2, <2>3, <2>4
  <2> QED
    BY <2>5 DEF FlowInv, Chunks
<1> QED
  BY <1>1, FlowInvariant, PTL

\* The count Channel::send reports is what went on the wire.
THEOREM AcceptedHolds == Spec => []AcceptedIsSent
<1>1. FlowInv => AcceptedIsSent
  BY Numbers DEF FlowInv, Requests, AcceptedIsSent
<1> QED
  BY <1>1, FlowInvariant, PTL

-----------------------------------------------------------------------------
(* Refinement of CreditWindow.                                             *)

\* Each step moves at most one of the four totals the mapping reads, upwards.
LEMMA OneTotalMoves ==
  ASSUME FlowInv, [Next]_vars
  PROVE  \/ /\ srvSent'.data >= srvSent.data
            /\ UNCHANGED <<cliRecv.data, cliSent.adjust, srvRecv.adjust>>
         \/ /\ cliRecv'.data >= cliRecv.data
            /\ UNCHANGED <<srvSent.data, cliSent.adjust, srvRecv.adjust>>
         \/ /\ cliSent'.adjust >= cliSent.adjust
            /\ UNCHANGED <<srvSent.data, cliRecv.data, srvRecv.adjust>>
         \/ /\ srvRecv'.adjust >= srvRecv.adjust
            /\ UNCHANGED <<srvSent.data, cliRecv.data, cliSent.adjust>>
<1>1. /\ cliSent \in Total /\ cliRecv \in Total /\ srvSent \in Total /\ srvRecv \in Total
      /\ toClient \in Seq(WireMsg) /\ toServer \in Seq(WireMsg)
      /\ Linked(toClient, cliRecv, srvSent) /\ Linked(toServer, srvRecv, cliSent)
      /\ clientUsed \in Int /\ clientUsed >= 0
      /\ cliSent.adjust \in Nat
  BY Numbers DEF FlowInv, TypeOK, Bounds
<1>2. CASE HandleChannelData \/ HandleChannelWindowAdjust
  <2>1. /\ toClient # <<>> /\ cliRecv' = Head(toClient).total
        /\ UNCHANGED <<cliSent, srvSent, srvRecv>>
    BY <1>2 DEF HandleChannelData, HandleChannelWindowAdjust
  <2>2. /\ Head(toClient) \in WireMsg
        /\ cliRecv' = Account(cliRecv, Head(toClient).type, Head(toClient).size)
    BY <1>1, <2>1, LinkedTail
  <2>3. cliRecv'.data >= cliRecv.data
    BY <1>1, <2>2, AccountType DEF WireMsg
  <2> QED BY <2>1, <2>3
<1>3. CASE Deliver
  <2>1. UNCHANGED <<cliRecv, srvSent, srvRecv>>
    BY <1>3 DEF Deliver
  <2>2. cliSent' = cliSent \/ cliSent' = Account(cliSent, "adjust", clientUsed)
    BY <1>3 DEF Deliver, ReplenishWindow
  <2>3. cliSent'.adjust >= cliSent.adjust
    BY <1>1, <2>2, AccountAdjust
  <2> QED BY <2>1, <2>3
<1>4. CASE ChannelSendChunk
  <2>1. /\ cliSent' = Account(cliSent, "data", ChunkSize)
        /\ UNCHANGED <<cliRecv, srvSent, srvRecv>>
    BY <1>4 DEF ChannelSendChunk
  <2>2. ChunkSize \in Nat
    BY <1>4, ChunkBounds DEF FlowInv, Bounds, Requests, ChannelSendChunk
  <2>3. cliSent'.adjust = cliSent.adjust
    BY <1>1, <2>1, <2>2, AccountData
  <2> QED BY <1>1, <2>1, <2>3
<1>5. ASSUME NEW n \in 0..MaxDown, ServerSendData(n)
      PROVE  /\ srvSent'.data >= srvSent.data
             /\ UNCHANGED <<cliRecv.data, cliSent.adjust, srvRecv.adjust>>
  <2>1. /\ srvSent' = Account(srvSent, "data", n) /\ n \in Nat
        /\ UNCHANGED <<cliRecv, cliSent, srvRecv>>
    BY <1>5, FlowAssumption DEF ServerSendData
  <2>2. srvSent'.data >= srvSent.data
    BY <1>1, <2>1, AccountType
  <2> QED BY <2>1, <2>2
<1>6. ASSUME NEW n \in 1..MaxGrant, ServerGrant(n)
      PROVE  /\ cliSent'.adjust >= cliSent.adjust
             /\ UNCHANGED <<srvSent.data, cliRecv.data, srvRecv.adjust>>
  <2>1. /\ srvSent' = Account(srvSent, "adjust", n) /\ n \in Nat
        /\ UNCHANGED <<cliRecv, cliSent, srvRecv>>
    BY <1>6, FlowAssumption DEF ServerGrant
  <2>2. srvSent'.data = srvSent.data
    BY <1>1, <2>1, AccountAdjust
  <2> QED BY <1>1, <2>1, <2>2
<1>7. CASE ServerReceive
  <2>1. /\ toServer # <<>> /\ srvRecv' = Head(toServer).total
        /\ UNCHANGED <<cliSent, srvSent, cliRecv>>
    BY <1>7 DEF ServerReceive
  <2>2. /\ Head(toServer) \in WireMsg
        /\ srvRecv' = Account(srvRecv, Head(toServer).type, Head(toServer).size)
    BY <1>1, <2>1, LinkedTail
  <2>3. srvRecv'.adjust >= srvRecv.adjust
    BY <1>1, <2>2, AccountType DEF WireMsg
  <2> QED BY <2>1, <2>3
<1>8. CASE \/ ChannelSend \/ ChannelSendDone \/ AppReceive \/ AppDrop
           \/ \E n \in 1..MaxUp : AppSend(n)
           \/ UNCHANGED vars
  <2>1. UNCHANGED totals
    BY <1>8 DEF ChannelSend, ChannelSendDone, AppReceive, AppDrop, AppSend, vars
  <2> QED BY <1>1, <2>1 DEF totals
<1> QED
  BY <1>2, <1>3, <1>4, <1>5, <1>6, <1>7, <1>8 DEF Next, Backend

\* The server-to-client direction implements the abstract credit window, also
\* with a server that overdraws its credit: the client never grants more than
\* has arrived.
THEOREM FlowImplementsCreditWindow == Spec => Implements
<1>1. Init => DownWindow!Init
  BY DEF Init, Zero, DownWindow!Init
<1>2. FlowInv /\ FlowInv' /\ [Next]_vars => [DownWindow!Next]_(DownWindow!vars)
  <2> SUFFICES ASSUME FlowInv, FlowInv', [Next]_vars
               PROVE  [DownWindow!Next]_(DownWindow!vars)
    OBVIOUS
  <2>1. /\ srvSent'.data \in Nat /\ cliRecv'.data \in Nat
        /\ cliSent'.adjust \in Nat /\ srvRecv'.adjust \in Nat
    BY DEF FlowInv, TypeOK, Total
  <2>2. /\ srvSent.data \in Nat /\ cliRecv.data \in Nat
        /\ cliSent.adjust \in Nat /\ srvRecv.adjust \in Nat
    BY DEF FlowInv, TypeOK, Total
  <2>3. srvSent'.data <= ClientWindow + ServerSlack + srvRecv'.adjust
    BY DEF FlowInv, Bounds
  <2>4. cliRecv'.data <= srvSent'.data /\ srvRecv'.adjust <= cliSent'.adjust
    BY DEF FlowInv, Linked
  <2>5. cliSent'.adjust <= cliRecv'.data
    <3>1. /\ clientUsed' <= cliRecv'.data - cliSent'.adjust - ignored'
          /\ clientUsed' >= 0 /\ clientUsed' \in Int /\ ignored' \in Nat
      BY DEF FlowInv, Books, Bounds, TypeOK
    <3> QED BY <2>1, <3>1
  <2>6. CASE /\ srvSent'.data >= srvSent.data
             /\ UNCHANGED <<cliRecv.data, cliSent.adjust, srvRecv.adjust>>
    BY <2>1, <2>2, <2>3, <2>6 DEF DownWindow!Next, DownWindow!Send, DownWindow!vars
  <2>7. CASE /\ cliRecv'.data >= cliRecv.data
             /\ UNCHANGED <<srvSent.data, cliSent.adjust, srvRecv.adjust>>
    BY <2>1, <2>2, <2>4, <2>7 DEF DownWindow!Next, DownWindow!Arrive, DownWindow!vars
  <2>8. CASE /\ cliSent'.adjust >= cliSent.adjust
             /\ UNCHANGED <<srvSent.data, cliRecv.data, srvRecv.adjust>>
    BY <2>1, <2>2, <2>5, <2>8 DEF DownWindow!Next, DownWindow!Grant, DownWindow!vars
  <2>9. CASE /\ srvRecv'.adjust >= srvRecv.adjust
             /\ UNCHANGED <<srvSent.data, cliRecv.data, cliSent.adjust>>
    BY <2>1, <2>2, <2>4, <2>9 DEF DownWindow!Next, DownWindow!Learn, DownWindow!vars
  <2> QED
    BY OneTotalMoves, <2>6, <2>7, <2>8, <2>9
<1> QED
  BY <1>1, <1>2, FlowInvariant, PTL DEF Spec, Implements, DownWindow!Spec
=============================================================================
