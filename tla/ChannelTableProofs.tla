------------------------- MODULE ChannelTableProofs -------------------------
(***************************************************************************)
(* ClientIdsUnique, NoneAstray, HandleBacked, CloseReported and            *)
(* TablesAgree of ChannelTable, for any number of channels, any server     *)
(* numbers, any capacity of the event queue and any number of messages.    *)
(*                                                                         *)
(* The first part is about the table alone: its entries are in the order   *)
(* of their client numbers, so the last one has the highest.  The second   *)
(* part collects everything the system holds about one channel in a record *)
(* (View) and says when such a record is in order (Life): a step concerns  *)
(* one channel, and the records of the others stay the same.               *)
(***************************************************************************)
EXTENDS ChannelTable, SequenceTheorems, TLAPS

-----------------------------------------------------------------------------
(* What the plans may combine.                                             *)

\* Either this side opens channels or it accepts the server's: an open that is
\* accepted while another waits for its confirmation is given the same number.
OneSideOpens ==
  \A p \in Plans : ~("open" \in p /\ ("listen" \in p \/ "deaf" \in p))

\* No clean(), which may close a channel whose Drop is still queued, and no CLOSE
\* of the server's that could end a request's wait.
NoSecondClose ==
  \A p \in Plans : "clean" \notin p /\ ~("request" \in p /\ "serverClose" \in p)

\* The server asks nothing of a channel that this side may have closed.
NothingAsked == \A p \in Plans : "serverAsk" \notin p

-----------------------------------------------------------------------------
(* Types, and the order of the table.                                      *)

Ids == ServerIds \cup {None}

Entries == [cid : Nat, sid : ServerIds, clientClosed : BOOLEAN, serverClosed : BOOLEAN,
            chan : Channels]

CleanEvent == [type |-> "clean", chan |-> None, cid |-> None, sid |-> None]

Events == [type : {"open", "eof", "request", "notice", "close"}, chan : Channels,
           cid : Nat, sid : Ids] \cup {CleanEvent}

ToServer == [type : {"open"}, id : Nat, chan : Channels]
            \cup [type : {"refuse", "eof", "request", "notice", "close", "failure"}, id : Ids,
                  chan : Channels]
            \cup [type : {"confirm"}, id : ServerIds, chan : Channels, cid : Nat]

ClientTypes == {"refuse", "data", "eof", "ask", "close", "success", "failure"}

ToClient == [type : ClientTypes, id : Nat, chan : Channels]
            \cup [type : {"open", "confirm"}, id : Nat, sid : ServerIds, chan : Channels]

HandleStates == {"none", "opening", "abandoned", "refused", "idle", "busy", "closing", "gone",
                 "lost"}

PeerStates == {"none", "asked", "open", "closing", "gone"}

Waits == [for : {"open", "reply"}, cid : Nat, chan : Channels]
         \cup [for : {"clean"}, cid : Nat, chan : {None}]
         \cup {Idle}

TypeOK ==
  /\ table \in Seq(Entries)
  /\ wait \in Waits
  /\ events \in Seq(Events)
  /\ handles \in [Channels -> [state : HandleStates, cid : Nat, sid : Ids]]
  /\ told \in [Channels -> SUBSET (ClientTypes \cup {"open", "confirm"})]
  /\ toServer \in Seq(ToServer)
  /\ toClient \in Seq(ToClient)
  /\ server \in [Channels -> [state : PeerStates, sid : Ids, cid : Nat]]
  /\ born \in 0..MaxChannels
  /\ plan \in Plans
  /\ cleans \in Nat /\ chats \in [Channels -> Nat]
  /\ astray \in BOOLEAN /\ unheard \in BOOLEAN

Sorted(t) == \A i, j \in 1..Len(t) : i < j => t[i].cid < t[j].cid

OrderInv ==
  /\ TypeOK
  /\ Sorted(table)
  /\ \A e \in Range(events) : e.type \in {"open", "clean"} => e.type \in plan
  /\ wait.for \in {"open", "clean"} => wait.for \in plan
  /\ wait.for = "open" => \A e \in Range(table) : e.cid < wait.cid
  /\ wait.for = "clean" => wait.cid \in Positions

-----------------------------------------------------------------------------
(* What is under way.                                                      *)

First == {"open", "confirm", "refuse"}

\* What opens a channel's exchange comes before, and CLOSE after, everything else
\* about the channel; only the answer to a late request may follow.
InTurn(s, late) ==
  \A i, j \in 1..Len(s) : (i < j /\ s[i].chan = s[j].chan) =>
    /\ s[j].type \notin First
    /\ s[i].type = "close" => s[j].type \in late

\* The server's number in a confirmation is not that of a channel closed later.
NumbersInTurn(s, peers) ==
  \A i, j \in 1..Len(s) :
    (i < j /\ s[i].type = "confirm" /\ s[j].type = "close" /\ s[i].chan # s[j].chan)
      => s[i].sid # peers[s[j].chan].sid

InUse(p) == p.state \in {"asked", "open", "closing"}

NumbersApart(peers) ==
  \A j, k \in Channels : InUse(peers[j]) /\ InUse(peers[k]) /\ peers[j].sid = peers[k].sid => j = k

-----------------------------------------------------------------------------
(* One channel.                                                            *)

On(s, k) == {m \in Range(s) : m.chan = k}

\* Everything there is about channel k.
View(k) ==
  [handle |-> handles[k], peer |-> server[k], told |-> told[k],
   events |-> On(events, k), in |-> On(toClient, k), out |-> On(toServer, k),
   entries |-> On(table, k), wait |-> IF wait.chan = k THEN wait ELSE Idle, plan |-> plan]

Some(S, t) == \E m \in S : m.type = t

Live(v) == \E e \in v.entries : ~e.serverClosed
Held(v) == \E e \in v.entries : ~e.clientClosed

Opening(v) == v.handle.state \in {"opening", "abandoned"}

EntryOk(v, e) ==
  /\ e.cid = v.handle.cid /\ e.sid = v.handle.sid /\ e.sid = v.peer.sid
  /\ v.peer.state # "none"
  /\ v.peer.state # "asked" => v.peer.cid = e.cid
  /\ v.peer.state = "asked" => Some(v.out, "confirm")
  /\ v.peer.state = "gone" => e.clientClosed
  /\ e.serverClosed => v.peer.state \in {"closing", "gone"} /\ ~e.clientClosed
  /\ v.peer.state \in {"closing", "gone"} => e.serverClosed \/ Some(v.in, "close")
  /\ v.handle.state \in {"idle", "busy", "closing", "gone", "lost"}
  /\ e.clientClosed => /\ v.handle.state = "gone"
                       /\ v.peer.state = "gone" \/ Some(v.out, "close")
  /\ v.handle.state = "gone" => e.clientClosed \/ Some(v.events, "close")
  /\ (e.serverClosed /\ v.handle.state \in {"idle", "busy", "closing"}) => "close" \in v.told

EventOk(v, e) ==
  /\ e.type = "open" => /\ Opening(v)
                        /\ v.peer.state = "none"
                        /\ v.wait.for # "open"
  /\ e.type # "open" => Held(v) /\ e.cid = v.handle.cid /\ e.sid = v.handle.sid
  /\ e.type = "close" => v.handle.state \in {"closing", "gone"}
  /\ e.type = "request" => "request" \in v.plan

OutOk(v, m) ==
  /\ m.type = "open" => /\ v.wait.for = "open" /\ m.id = v.wait.cid
                        /\ v.peer.state = "none"
  /\ m.type = "confirm" => /\ v.peer.state = "asked"
                           /\ v.entries # {} /\ m.cid = v.handle.cid
  /\ m.type = "refuse" => /\ v.peer.state = "asked"
                          /\ v.handle.state = "none"
                          /\ ~Some(v.in, "open")
  /\ m.type \in {"eof", "request", "notice", "close"} =>
       /\ InUse(v.peer)
       /\ m.id = v.peer.sid
       /\ v.peer.state = "asked" => Some(v.out, "confirm")
  /\ m.type = "close" => ~Held(v)
  /\ m.type = "failure" => "serverAsk" \in v.plan
  /\ m.type \notin First => v.handle.state # "none" /\ ~Opening(v)

InOk(v, m) ==
  /\ m.type = "open" => /\ v.peer.state = "asked" /\ v.peer.sid = m.sid
                        /\ v.handle.state = "none"
  /\ m.type \in {"confirm", "refuse"} => v.wait.for = "open"
  /\ m.type = "confirm" => /\ v.peer.state \in {"open", "closing"}
                           /\ v.peer.sid = m.sid /\ v.peer.cid = m.id
                           /\ m.id = v.wait.cid
                           /\ v.peer.state = "closing" => Some(v.in, "close")
  /\ m.type = "refuse" => v.peer.state = "none" /\ ~Some(v.out, "open")
  /\ m.type \notin First => /\ v.peer.state \in {"open", "closing", "gone"}
                            /\ v.peer.cid = m.id
                            /\ Live(v) \/ Some(v.in, "confirm")
  /\ m.type = "close" => v.peer.state \in {"closing", "gone"}
  /\ m.type = "ask" => "serverAsk" \in v.plan

WaitOk(v) ==
  /\ v.wait.for = "open" => /\ Opening(v)
                            /\ v.peer.state \in {"none", "open", "closing"}
                            /\ v.peer.state # "none" => Some(v.in, "confirm")
  /\ v.wait.for = "reply" => /\ Held(v) /\ v.handle.cid = v.wait.cid
                             /\ "request" \in v.plan

SidesOk(v) ==
  /\ v.handle.state \in {"idle", "busy"} => v.entries # {}
  /\ v.handle.state = "closing" => Some(v.events, "close")
  /\ v.peer.state = "open" => Live(v) \/ Some(v.in, "confirm")
  /\ v.peer.state = "closing" =>
       /\ "serverClose" \in v.plan
       /\ v.entries # {} \/ Some(v.in, "confirm") \/ Some(v.out, "close")

Life(v) ==
  /\ \A d, e \in v.entries : d = e
  /\ \A e \in v.entries : EntryOk(v, e)
  /\ \A e \in v.events : EventOk(v, e)
  /\ \A m \in v.out : OutOk(v, m)
  /\ \A m \in v.in : InOk(v, m)
  /\ WaitOk(v)
  /\ SidesOk(v)

LifeInv ==
  /\ \A k \in Channels : Life(View(k))
  /\ \A k \in Channels : k > born => handles[k] = NoOwner /\ server[k] = NoPeer
  /\ NumbersApart(server)
  /\ InTurn(events, {}) /\ InTurn(toClient, {}) /\ InTurn(toServer, {"failure"})
  /\ NumbersInTurn(toClient, server)
  /\ astray => "serverAsk" \in plan

\* The inductive invariant.
TableInv == OrderInv /\ (~unheard => LifeInv)

-----------------------------------------------------------------------------
(* Sequences.                                                              *)

\* Taking the first element off a sequence.
LEMMA Popped ==
  ASSUME NEW S, NEW s \in Seq(S), s # <<>>
  PROVE  /\ Head(s) \in S /\ Head(s) = s[1] /\ Head(s) \in Range(s)
         /\ Tail(s) \in Seq(S) /\ Len(s) \in Nat /\ Len(Tail(s)) = Len(s) - 1
         /\ \A i \in 1..Len(Tail(s)) : Tail(s)[i] = s[i + 1]
         /\ Range(s) = Range(Tail(s)) \cup {Head(s)}
<1> DEFINE t == Tail(s)
<1>1. /\ Head(s) \in S /\ t \in Seq(S) /\ Len(t) = Len(s) - 1
      /\ \A i \in 1..Len(t) : t[i] = s[i + 1]
  BY HeadTailProperties
<1>2. Len(s) \in Nat /\ Len(s) > 0 /\ DOMAIN s = 1..Len(s)
  BY EmptySeq, LenProperties
<1>3. Head(s) = s[1]
  OBVIOUS
<1> HIDE DEF t
<1>4. DOMAIN t = 1..Len(t)
  BY <1>1, LenProperties
<1>5. \A i \in 1..Len(t) : i + 1 \in 1..Len(s)
  BY <1>1, <1>2
<1>6. Range(t) \subseteq Range(s)
  BY <1>1, <1>2, <1>4, <1>5 DEF Range
<1>7. Head(s) \in Range(s)
  BY <1>2, <1>3 DEF Range
<1>8. ASSUME NEW x \in Range(s) PROVE x \in Range(t) \cup {Head(s)}
  <2>1. PICK i \in 1..Len(s) : x = s[i]
    BY <1>2 DEF Range
  <2>2. CASE i = 1
    BY <2>1, <2>2, <1>3
  <2>3. CASE i # 1
    <3>1. i - 1 \in 1..Len(t) /\ (i - 1) + 1 = i
      BY <2>3, <1>1, <1>2
    <3>2. t[i - 1] = x
      BY <3>1, <1>1, <2>1
    <3> QED BY <3>1, <3>2, <1>4 DEF Range
  <2> QED BY <2>2, <2>3
<1> QED
  BY <1>1, <1>2, <1>3, <1>6, <1>7, <1>8 DEF t

\* Putting an element at the end of a sequence.
LEMMA Pushed ==
  ASSUME NEW S, NEW s \in Seq(S), NEW m \in S
  PROVE  /\ Append(s, m) \in Seq(S) /\ Len(s) \in Nat /\ Len(Append(s, m)) = Len(s) + 1
         /\ \A i \in 1..Len(s) : Append(s, m)[i] = s[i]
         /\ Append(s, m)[Len(s) + 1] = m
         /\ Range(Append(s, m)) = Range(s) \cup {m}
<1> DEFINE t == Append(s, m)
<1>1. /\ t \in Seq(S) /\ Len(t) = Len(s) + 1
      /\ \A i \in 1..Len(s) : t[i] = s[i]
      /\ t[Len(s) + 1] = m
  BY AppendProperties
<1>2. Len(s) \in Nat /\ DOMAIN s = 1..Len(s)
  BY LenProperties
<1> HIDE DEF t
<1>3. DOMAIN t = 1..Len(t)
  BY <1>1, LenProperties
<1>4. Len(s) + 1 \in 1..Len(t) /\ 1..Len(s) \subseteq 1..Len(t)
  BY <1>1, <1>2
<1>5. \A i \in 1..Len(t) : i \in 1..Len(s) \/ i = Len(s) + 1
  BY <1>1, <1>2
<1>6. Range(t) \subseteq Range(s) \cup {m}
  BY <1>1, <1>2, <1>3, <1>5 DEF Range
<1>7. Range(s) \cup {m} \subseteq Range(t)
  BY <1>1, <1>2, <1>3, <1>4 DEF Range
<1> QED
  BY <1>1, <1>2, <1>6, <1>7 DEF t

\* Range is what the positions hold.
LEMMA Placed ==
  ASSUME NEW S, NEW s \in Seq(S)
  PROVE  /\ Range(s) \subseteq S /\ Len(s) \in Nat
         /\ \A i \in 1..Len(s) : s[i] \in Range(s)
         /\ \A m \in Range(s) : \E i \in 1..Len(s) : s[i] = m
<1>1. Len(s) \in Nat /\ DOMAIN s = 1..Len(s) /\ \A i \in 1..Len(s) : s[i] \in S
  BY LenProperties, ElementOfSeq
<1> QED
  BY <1>1 DEF Range

\* What is left about a channel when the first message has been taken.
LEMMA OnPopped ==
  ASSUME NEW S, NEW s \in Seq(S), s # <<>>, NEW k
  PROVE  /\ k # Head(s).chan => On(Tail(s), k) = On(s, k)
         /\ k = Head(s).chan => /\ Head(s) \in On(s, k)
                                /\ On(Tail(s), k) \subseteq On(s, k)
                                /\ On(s, k) \subseteq On(Tail(s), k) \cup {Head(s)}
  BY Popped DEF On

\* What there is about a channel when a message has been sent.
LEMMA OnPushed ==
  ASSUME NEW S, NEW s \in Seq(S), NEW m \in S, NEW k
  PROVE  On(Append(s, m), k) = IF k = m.chan THEN On(s, k) \cup {m} ELSE On(s, k)
  BY Pushed DEF On

\* The rest of a sequence in turn; what may still follow its first message.
LEMMA InTurnPopped ==
  ASSUME NEW S, NEW s \in Seq(S), s # <<>>, NEW late, InTurn(s, late)
  PROVE  /\ InTurn(Tail(s), late)
         /\ \A m \in On(Tail(s), Head(s).chan) :
              m.type \notin First /\ (Head(s).type = "close" => m.type \in late)
<1> DEFINE t == Tail(s)
<1>1. /\ Head(s) = s[1] /\ t \in Seq(S) /\ Len(s) \in Nat /\ Len(t) = Len(s) - 1
      /\ \A i \in 1..Len(t) : t[i] = s[i + 1]
  BY Popped
<1> HIDE DEF t
<1>2. \A i \in 1..Len(t) : i + 1 \in 1..Len(s) /\ 1 \in 1..Len(s) /\ 1 < i + 1
  BY <1>1
<1>3. InTurn(t, late)
  <2> SUFFICES ASSUME NEW i \in 1..Len(t), NEW j \in 1..Len(t), i < j, t[i].chan = t[j].chan
               PROVE  t[j].type \notin First /\ (t[i].type = "close" => t[j].type \in late)
    BY DEF InTurn
  <2>1. i + 1 < j + 1
    BY <1>1
  <2> QED BY <2>1, <1>1, <1>2 DEF InTurn
<1>4. ASSUME NEW m \in On(t, Head(s).chan)
      PROVE  m.type \notin First /\ (Head(s).type = "close" => m.type \in late)
  <2>1. PICK i \in 1..Len(t) : t[i] = m
    BY <1>1, Placed DEF On
  <2>2. s[1].chan = s[i + 1].chan /\ s[i + 1] = m
    BY <1>1, <2>1, <1>4 DEF On
  <2> QED BY <2>2, <1>1, <1>2 DEF InTurn
<1> QED
  BY <1>3, <1>4 DEF t

\* A message sent in turn.
LEMMA InTurnPushed ==
  ASSUME NEW S, NEW s \in Seq(S), NEW m \in S, NEW late, InTurn(s, late),
         m.type \in First => On(s, m.chan) = {},
         Some(On(s, m.chan), "close") => m.type \in late
  PROVE  InTurn(Append(s, m), late)
<1> DEFINE t == Append(s, m)
<1>1. /\ t \in Seq(S) /\ Len(s) \in Nat /\ Len(t) = Len(s) + 1
      /\ \A i \in 1..Len(s) : t[i] = s[i] /\ s[i] \in Range(s)
      /\ t[Len(s) + 1] = m
  BY Pushed, Placed
<1> HIDE DEF t
<1> SUFFICES ASSUME NEW i \in 1..Len(t), NEW j \in 1..Len(t), i < j, t[i].chan = t[j].chan
             PROVE  t[j].type \notin First /\ (t[i].type = "close" => t[j].type \in late)
  BY DEF InTurn, t
<1>2. i \in 1..Len(s)
  BY <1>1
<1>3. CASE j \in 1..Len(s)
  BY <1>1, <1>2, <1>3 DEF InTurn
<1>4. CASE j = Len(s) + 1
  <2>1. s[i] \in On(s, m.chan) /\ t[i] = s[i] /\ t[j] = m
    BY <1>1, <1>2, <1>4 DEF On
  <2> QED BY <2>1 DEF Some
<1> QED
  BY <1>1, <1>3, <1>4

\* The server's numbers in the rest of a sequence.
LEMMA NumbersPopped ==
  ASSUME NEW S, NEW s \in Seq(S), s # <<>>, NEW peers, NumbersInTurn(s, peers)
  PROVE  /\ NumbersInTurn(Tail(s), peers)
         /\ Head(s).type = "confirm" =>
              \A m \in Range(Tail(s)) :
                m.type = "close" /\ m.chan # Head(s).chan => Head(s).sid # peers[m.chan].sid
<1> DEFINE t == Tail(s)
<1>1. /\ Head(s) = s[1] /\ t \in Seq(S) /\ Len(s) \in Nat /\ Len(t) = Len(s) - 1
      /\ \A i \in 1..Len(t) : t[i] = s[i + 1]
  BY Popped
<1> HIDE DEF t
<1>2. \A i \in 1..Len(t) : i + 1 \in 1..Len(s) /\ 1 \in 1..Len(s) /\ 1 < i + 1
  BY <1>1
<1>3. NumbersInTurn(t, peers)
  <2> SUFFICES ASSUME NEW i \in 1..Len(t), NEW j \in 1..Len(t), i < j, t[i].type = "confirm",
                      t[j].type = "close", t[i].chan # t[j].chan
               PROVE  t[i].sid # peers[t[j].chan].sid
    BY DEF NumbersInTurn
  <2>1. i + 1 < j + 1
    BY <1>1
  <2> QED BY <2>1, <1>1, <1>2 DEF NumbersInTurn
<1>4. ASSUME Head(s).type = "confirm", NEW m \in Range(t), m.type = "close", m.chan # Head(s).chan
      PROVE  Head(s).sid # peers[m.chan].sid
  <2>1. PICK i \in 1..Len(t) : t[i] = m
    BY <1>1, Placed
  <2> QED BY <2>1, <1>1, <1>2, <1>4 DEF NumbersInTurn
<1> QED
  BY <1>3, <1>4 DEF t

\* A CLOSE is sent while no confirmation under way has its channel's number.
LEMMA NumbersPushed ==
  ASSUME NEW S, NEW s \in Seq(S), NEW m \in S, NEW peers, NumbersInTurn(s, peers),
         m.type = "close" =>
           \A c \in Range(s) : (c.type = "confirm" /\ c.chan # m.chan) => c.sid # peers[m.chan].sid
  PROVE  NumbersInTurn(Append(s, m), peers)
<1> DEFINE t == Append(s, m)
<1>1. /\ t \in Seq(S) /\ Len(s) \in Nat /\ Len(t) = Len(s) + 1
      /\ \A i \in 1..Len(s) : t[i] = s[i] /\ s[i] \in Range(s)
      /\ t[Len(s) + 1] = m
  BY Pushed, Placed
<1> HIDE DEF t
<1> SUFFICES ASSUME NEW i \in 1..Len(t), NEW j \in 1..Len(t), i < j, t[i].type = "confirm",
                    t[j].type = "close", t[i].chan # t[j].chan
             PROVE  t[i].sid # peers[t[j].chan].sid
  BY DEF NumbersInTurn, t
<1>2. i \in 1..Len(s)
  BY <1>1
<1>3. CASE j \in 1..Len(s)
  BY <1>1, <1>2, <1>3 DEF NumbersInTurn
<1>4. CASE j = Len(s) + 1
  BY <1>1, <1>2, <1>4
<1> QED
  BY <1>1, <1>3, <1>4

\* Only the numbers of channels that are spoken of matter.
LEMMA NumbersKept ==
  ASSUME NEW S, NEW s \in Seq(S), NEW peers, NEW others, NumbersInTurn(s, peers),
         \A m \in Range(s) : others[m.chan].sid = peers[m.chan].sid
  PROVE  NumbersInTurn(s, others)
  BY Placed DEF NumbersInTurn

-----------------------------------------------------------------------------
(* The table.                                                              *)

\* RemoveAt leaves the other entries, in their order.
LEMMA Removed ==
  ASSUME NEW S, NEW t \in Seq(S), NEW i \in 1..Len(t)
  PROVE  /\ RemoveAt(t, i) \in Seq(S) /\ Len(RemoveAt(t, i)) = Len(t) - 1
         /\ \A j \in 1..(Len(t) - 1) : RemoveAt(t, i)[j] = IF j < i THEN t[j] ELSE t[j + 1]
<1>1. Len(t) \in Nat /\ i \in Nat /\ \A j \in 1..Len(t) : t[j] \in S
  BY LenProperties, ElementOfSeq
<1>2. PICK a : a = SubSeq(t, 1, i - 1)
  OBVIOUS
<1>3. PICK b : b = SubSeq(t, i + 1, Len(t))
  OBVIOUS
<1>4. a \in Seq(S) /\ Len(a) = i - 1 /\ \A j \in 1..(i - 1) : a[j] = t[j]
  <2>1. \A j \in 1..(i - 1) : t[j] \in S
    BY <1>1
  <2>2. 1 \in Int /\ i - 1 \in Int /\ (i - 1) - 1 + 1 = i - 1
    BY <1>1
  <2>3. /\ a \in Seq(S) /\ Len(a) = IF 1 <= i - 1 THEN (i - 1) - 1 + 1 ELSE 0
        /\ \A j \in 1..((i - 1) - 1 + 1) : a[j] = t[1 + j - 1]
    BY <2>1, <2>2, <1>2, SubSeqProperties
  <2> QED BY <2>2, <2>3, <1>1
<1>5. b \in Seq(S) /\ Len(b) = Len(t) - i /\ \A j \in 1..(Len(t) - i) : b[j] = t[i + j]
  <2>1. \A j \in (i + 1)..Len(t) : t[j] \in S
    BY <1>1
  <2>2. i + 1 \in Int /\ Len(t) \in Int /\ Len(t) - (i + 1) + 1 = Len(t) - i
    BY <1>1
  <2>3. /\ b \in Seq(S) /\ Len(b) = IF i + 1 <= Len(t) THEN Len(t) - (i + 1) + 1 ELSE 0
        /\ \A j \in 1..(Len(t) - (i + 1) + 1) : b[j] = t[(i + 1) + j - 1]
    BY <2>1, <2>2, <1>3, SubSeqProperties
  <2>4. \A j \in 1..(Len(t) - i) : (i + 1) + j - 1 = i + j
    BY <1>1
  <2>5. Len(b) = Len(t) - i
    <3>1. \A n \in Nat : \A j \in 1..n : (IF j + 1 <= n THEN n - (j + 1) + 1 ELSE 0) = n - j
      OBVIOUS
    <3>2. (IF i + 1 <= Len(t) THEN Len(t) - (i + 1) + 1 ELSE 0) = Len(t) - i
      BY <3>1, <1>1
    <3> QED BY <2>3, <3>2
  <2>6. \A j \in 1..(Len(t) - i) : b[j] = t[i + j]
    <3> SUFFICES ASSUME NEW j \in 1..(Len(t) - i) PROVE b[j] = t[i + j]
      OBVIOUS
    <3>1. b[j] = t[(i + 1) + j - 1]
      BY <2>2, <2>3
    <3> QED BY <3>1, <2>4
  <2> QED BY <2>3, <2>5, <2>6
<1>6. RemoveAt(t, i) = a \o b
  BY <1>2, <1>3 DEF RemoveAt
<1>7. /\ a \o b \in Seq(S) /\ Len(a \o b) = Len(a) + Len(b)
      /\ \A j \in 1..(Len(a) + Len(b)) : (a \o b)[j] = IF j <= Len(a) THEN a[j] ELSE b[j - Len(a)]
  BY <1>4, <1>5, ConcatProperties
<1>8. ASSUME NEW j \in 1..(Len(t) - 1)
      PROVE  (a \o b)[j] = IF j < i THEN t[j] ELSE t[j + 1]
  <2>1. j \in 1..(Len(a) + Len(b))
    BY <1>1, <1>4, <1>5
  <2>2. CASE j < i
    <3>1. j <= Len(a) /\ j \in 1..(i - 1)
      BY <1>1, <1>4, <2>2
    <3> QED BY <2>1, <2>2, <3>1, <1>4, <1>7
  <2>3. CASE ~(j < i)
    <3>1. ~(j <= Len(a)) /\ j - Len(a) \in 1..(Len(t) - i) /\ i + (j - Len(a)) = j + 1
      BY <1>1, <1>4, <2>3
    <3> QED BY <2>1, <2>3, <3>1, <1>5, <1>7
  <2> QED BY <2>2, <2>3
<1>9. Len(a \o b) = Len(t) - 1
  BY <1>1, <1>4, <1>5, <1>7
<1> QED
  BY <1>6, <1>7, <1>8, <1>9

\* A table without one of its entries.
LEMMA SortedRemoved ==
  ASSUME NEW t \in Seq(Entries), Sorted(t), NEW i \in 1..Len(t)
  PROVE  /\ RemoveAt(t, i) \in Seq(Entries) /\ Sorted(RemoveAt(t, i))
         /\ Len(RemoveAt(t, i)) = Len(t) - 1
         /\ Range(RemoveAt(t, i)) = Range(t) \ {t[i]}
<1>1. PICK u : u = RemoveAt(t, i)
  OBVIOUS
<1>2. /\ u \in Seq(Entries) /\ Len(u) = Len(t) - 1
      /\ \A j \in 1..(Len(t) - 1) : u[j] = IF j < i THEN t[j] ELSE t[j + 1]
  BY <1>1, Removed
<1>3. Len(t) \in Nat /\ i \in Nat /\ \A j \in 1..Len(t) : t[j].cid \in Nat
  <2>1. Len(t) \in Nat /\ \A j \in 1..Len(t) : t[j] \in Entries
    BY LenProperties, ElementOfSeq
  <2> QED BY <2>1 DEF Entries
<1>4. PICK w : w = [j \in 1..Len(u) |-> IF j < i THEN j ELSE j + 1]
  OBVIOUS
<1>5. \A j \in 1..Len(u) : w[j] \in 1..Len(t) /\ w[j] # i /\ u[j] = t[w[j]]
  BY <1>2, <1>3, <1>4
<1>6. \A j, k \in 1..Len(u) : j < k => w[j] < w[k]
  BY <1>2, <1>3, <1>4
<1>7. Sorted(u)
  <2> SUFFICES ASSUME NEW j \in 1..Len(u), NEW k \in 1..Len(u), j < k PROVE u[j].cid < u[k].cid
    BY DEF Sorted
  <2>1. w[j] < w[k]
    BY <1>6
  <2> QED BY <2>1, <1>5 DEF Sorted
<1>8. \A j \in 1..Len(t) : j # i => t[j] # t[i]
  <2> SUFFICES ASSUME NEW j \in 1..Len(t), j # i, t[j] = t[i] PROVE FALSE
    OBVIOUS
  <2>1. j < i \/ i < j
    BY <1>3
  <2>2. t[j].cid < t[i].cid \/ t[i].cid < t[j].cid
    BY <2>1 DEF Sorted
  <2> QED BY <2>2, <1>3
<1>9. Range(u) \subseteq Range(t) \ {t[i]}
  <2> SUFFICES ASSUME NEW e \in Range(u) PROVE e \in Range(t) \ {t[i]}
    OBVIOUS
  <2>1. PICK j \in 1..Len(u) : u[j] = e
    BY <1>2, Placed
  <2> QED BY <2>1, <1>5, <1>8, Placed
<1>10. Range(t) \ {t[i]} \subseteq Range(u)
  <2> SUFFICES ASSUME NEW e \in Range(t), e # t[i] PROVE e \in Range(u)
    OBVIOUS
  <2>1. PICK j \in 1..Len(t) : t[j] = e
    BY Placed
  <2>2. j # i
    BY <2>1
  <2>3. CASE j < i
    <3>1. j \in 1..Len(u) /\ j \in 1..(Len(t) - 1)
      BY <1>2, <1>3, <2>3
    <3>2. u[j] = e
      BY <2>1, <2>3, <3>1, <1>2
    <3> QED BY <3>1, <3>2, <1>2, Placed
  <2>4. CASE j > i
    <3>1. j - 1 \in 1..Len(u) /\ j - 1 \in 1..(Len(t) - 1) /\ ~(j - 1 < i) /\ (j - 1) + 1 = j
      BY <1>2, <1>3, <2>4
    <3>2. u[j - 1] = e
      BY <2>1, <3>1, <1>2
    <3> QED BY <3>1, <3>2, <1>2, Placed
  <2> QED BY <2>2, <2>3, <2>4, <1>3
<1> QED
  BY <1>1, <1>2, <1>7, <1>9, <1>10

\* A table with one entry changed but for its number.
LEMMA SortedChanged ==
  ASSUME NEW t \in Seq(Entries), Sorted(t), NEW i \in 1..Len(t), NEW e \in Entries,
         e.cid = t[i].cid
  PROVE  /\ [t EXCEPT ![i] = e] \in Seq(Entries) /\ Sorted([t EXCEPT ![i] = e])
         /\ Len([t EXCEPT ![i] = e]) = Len(t)
         /\ Range([t EXCEPT ![i] = e]) = (Range(t) \ {t[i]}) \cup {e}
<1>1. PICK u : u = [t EXCEPT ![i] = e]
  OBVIOUS
<1>2. /\ u \in Seq(Entries) /\ Len(u) = Len(t)
      /\ \A j \in 1..Len(t) : u[j] = IF j = i THEN e ELSE t[j]
  BY <1>1, ExceptSeq
<1>3. Len(t) \in Nat /\ i \in Nat /\ \A j \in 1..Len(t) : t[j].cid \in Nat
  <2>1. Len(t) \in Nat /\ \A j \in 1..Len(t) : t[j] \in Entries
    BY LenProperties, ElementOfSeq
  <2> QED BY <2>1 DEF Entries
<1>4. Sorted(u)
  BY <1>2 DEF Sorted
<1>5. \A j \in 1..Len(t) : j # i => t[j] # t[i]
  <2> SUFFICES ASSUME NEW j \in 1..Len(t), j # i, t[j] = t[i] PROVE FALSE
    OBVIOUS
  <2>1. j < i \/ i < j
    BY <1>3
  <2>2. t[j].cid < t[i].cid \/ t[i].cid < t[j].cid
    BY <2>1 DEF Sorted
  <2> QED BY <2>2, <1>3
<1>6. Range(u) \subseteq (Range(t) \ {t[i]}) \cup {e}
  <2> SUFFICES ASSUME NEW d \in Range(u) PROVE d \in (Range(t) \ {t[i]}) \cup {e}
    OBVIOUS
  <2>1. PICK j \in 1..Len(u) : u[j] = d
    BY <1>2, Placed
  <2> QED BY <2>1, <1>2, <1>5, Placed
<1>7. (Range(t) \ {t[i]}) \cup {e} \subseteq Range(u)
  <2>1. e \in Range(u)
    BY <1>2, Placed
  <2>2. ASSUME NEW d \in Range(t), d # t[i] PROVE d \in Range(u)
    <3>1. PICK j \in 1..Len(t) : t[j] = d
      BY Placed
    <3> QED BY <3>1, <2>2, <1>2, Placed
  <2> QED BY <2>1, <2>2
<1> QED
  BY <1>1, <1>2, <1>4, <1>6, <1>7

\* A new entry with a higher number.
LEMMA SortedAdded ==
  ASSUME NEW t \in Seq(Entries), Sorted(t), NEW e \in Entries, \A d \in Range(t) : d.cid < e.cid
  PROVE  /\ Append(t, e) \in Seq(Entries) /\ Sorted(Append(t, e))
         /\ Range(Append(t, e)) = Range(t) \cup {e}
<1> DEFINE u == Append(t, e)
<1>1. /\ u \in Seq(Entries) /\ Len(t) \in Nat /\ Len(u) = Len(t) + 1
      /\ \A i \in 1..Len(t) : u[i] = t[i] /\ t[i] \in Range(t)
      /\ u[Len(t) + 1] = e
      /\ Range(u) = Range(t) \cup {e}
  BY Pushed, Placed
<1> HIDE DEF u
<1>2. ASSUME NEW i \in 1..Len(u), NEW j \in 1..Len(u), i < j PROVE u[i].cid < u[j].cid
  <2>1. i \in 1..Len(t) /\ (j \in 1..Len(t) \/ j = Len(t) + 1)
    BY <1>1, <1>2
  <2>2. CASE j \in 1..Len(t)
    BY <1>1, <1>2, <2>1, <2>2 DEF Sorted
  <2>3. CASE j = Len(t) + 1
    BY <1>1, <2>1, <2>3
  <2> QED BY <2>1, <2>2, <2>3
<1>3. Sorted(u)
  BY <1>2 DEF Sorted
<1> QED
  BY <1>1, <1>3 DEF u

\* next_channel_id is above every number in the table.
LEMMA NextIsNew ==
  ASSUME table \in Seq(Entries), Sorted(table)
  PROVE  NextChannelId \in Nat /\ \A e \in Range(table) : e.cid < NextChannelId
<1>1. Len(table) \in Nat /\ \A i \in Positions : table[i] \in Entries
  BY LenProperties, ElementOfSeq DEF Positions
<1>2. \A i \in Positions : table[i].cid \in Nat
  BY <1>1 DEF Entries
<1>3. CASE table = <<>>
  <2>1. Len(table) = 0
    BY <1>3, EmptySeq
  <2>2. \A e \in Range(table) : \E i \in 1..Len(table) : table[i] = e
    BY Placed
  <2>3. ~\E i \in 1..Len(table) : TRUE
    BY <2>1
  <2> QED BY <1>3, <2>2, <2>3 DEF NextChannelId
<1>4. CASE table # <<>>
  <2>1. Len(table) \in Positions /\ Positions = 1..Len(table)
    BY <1>1, <1>4, EmptySeq DEF Positions
  <2>2. PICK n : n = table[Len(table)].cid
    OBVIOUS
  <2>3. PICK S : S = {table[i].cid : i \in Positions}
    OBVIOUS
  <2>4. n \in S /\ n \in Nat /\ S \subseteq Nat
    BY <1>2, <2>1, <2>2, <2>3
  <2>5. \A c \in S : n >= c
    <3> SUFFICES ASSUME NEW i \in Positions PROVE n >= table[i].cid
      BY <2>3
    <3>1. i = Len(table) \/ i < Len(table)
      BY <1>1, <2>1
    <3> QED BY <3>1, <1>2, <2>1, <2>2 DEF Sorted
  <2>6. Max(S) \in S /\ \A c \in S : Max(S) >= c
    BY <2>4, <2>5 DEF Max
  <2>7. NextChannelId = Max(S) + 1
    BY <1>4, <2>3 DEF NextChannelId, HighestId
  <2>8. \A e \in Range(table) : e.cid \in S
    BY <2>1, <2>3, Placed
  <2>9. PICK h : h = Max(S)
    OBVIOUS
  <2>10. h \in Nat /\ \A c \in S : c \in Nat /\ h >= c
    BY <2>4, <2>6, <2>9
  <2>11. \A a, b \in Nat : a >= b => b < a + 1
    OBVIOUS
  <2> QED BY <2>7, <2>8, <2>9, <2>10, <2>11
<1> QED
  BY <1>3, <1>4

\* The first match for a number is the only one.
LEMMA Found ==
  ASSUME table \in Seq(Entries), Sorted(table)
  PROVE  /\ \A c : Matches(c) # {} => /\ Position(c) \in Positions
                                      /\ table[Position(c)] \in Range(table)
                                      /\ table[Position(c)].cid = c
         /\ \A e \in Range(table) : Matches(e.cid) # {} /\ table[Position(e.cid)] = e
<1>1. Len(table) \in Nat /\ Positions = 1..Len(table) /\ \A i \in Positions : table[i] \in Entries
  BY LenProperties, ElementOfSeq DEF Positions
<1>2. \A i \in Positions : table[i].cid \in Nat
  BY <1>1 DEF Entries
<1>3. \A i, j \in Positions : table[i].cid = table[j].cid => i = j
  <2> SUFFICES ASSUME NEW i \in Positions, NEW j \in Positions, table[i].cid = table[j].cid
               PROVE  i = j
    OBVIOUS
  <2>1. ~(i < j) /\ ~(j < i)
    BY <1>1, <1>2 DEF Sorted
  <2> QED BY <2>1, <1>1
<1>4. ASSUME NEW i \in Positions PROVE Position(table[i].cid) = i
  <2>1. PICK S : S = Matches(table[i].cid)
    OBVIOUS
  <2>2. S = {i}
    BY <1>3, <2>1 DEF Matches
  <2>3. i <= i
    BY <1>1
  <2>4. Min(S) \in S
    BY <2>2, <2>3 DEF Min
  <2> QED BY <2>1, <2>2, <2>4 DEF Position
<1>5. ASSUME NEW c, Matches(c) # {}
      PROVE  Position(c) \in Positions /\ table[Position(c)].cid = c
  <2>1. PICK i \in Positions : table[i].cid = c
    BY <1>5 DEF Matches
  <2> QED BY <2>1, <1>4
<1>6. ASSUME NEW e \in Range(table) PROVE Matches(e.cid) # {} /\ table[Position(e.cid)] = e
  <2>1. PICK i \in Positions : table[i] = e
    BY <1>1, Placed
  <2> QED BY <2>1, <1>4 DEF Matches
<1> QED
  BY <1>1, <1>5, <1>6, Placed

\* The table after CloseClientSide.
LEMMA ClientSideClosed ==
  ASSUME table \in Seq(Entries), Sorted(table), NEW i \in Positions
  PROVE  /\ CloseClientSide(i) \in Seq(Entries) /\ Sorted(CloseClientSide(i))
         /\ i - 1 <= Len(CloseClientSide(i)) /\ Len(CloseClientSide(i)) \in Nat
         /\ table[i] \in Entries
         /\ [table[i] EXCEPT !.clientClosed = TRUE] \in Entries
         /\ Range(CloseClientSide(i)) =
              (Range(table) \ {table[i]}) \cup
                (IF table[i].serverClosed THEN {} ELSE {[table[i] EXCEPT !.clientClosed = TRUE]})
<1>1. Len(table) \in Nat /\ i \in 1..Len(table) /\ table[i] \in Entries
  BY LenProperties, ElementOfSeq DEF Positions
<1>2. PICK e : e = [table[i] EXCEPT !.clientClosed = TRUE]
  OBVIOUS
<1>3. e \in Entries /\ e.cid = table[i].cid
  BY <1>1, <1>2 DEF Entries
<1>4. CASE table[i].serverClosed
  <2>1. CloseClientSide(i) = RemoveAt(table, i)
    BY <1>4 DEF CloseClientSide
  <2>2. PICK u : u = RemoveAt(table, i)
    OBVIOUS
  <2>3. /\ u \in Seq(Entries) /\ Sorted(u) /\ Len(u) = Len(table) - 1
        /\ Range(u) = Range(table) \ {table[i]}
    BY <1>1, <2>2, SortedRemoved
  <2>4. i - 1 <= Len(u) /\ Len(u) \in Nat
    BY <1>1, <2>3
  <2> QED BY <1>1, <1>2, <1>3, <1>4, <2>1, <2>2, <2>3, <2>4
<1>5. CASE ~table[i].serverClosed
  <2>1. CloseClientSide(i) = [table EXCEPT ![i] = e]
    BY <1>2, <1>5 DEF CloseClientSide
  <2>2. PICK u : u = [table EXCEPT ![i] = e]
    OBVIOUS
  <2>3. /\ u \in Seq(Entries) /\ Sorted(u) /\ Len(u) = Len(table)
        /\ Range(u) = (Range(table) \ {table[i]}) \cup {e}
    BY <1>1, <1>3, <2>2, SortedChanged
  <2>4. i - 1 <= Len(u) /\ Len(u) \in Nat
    BY <1>1, <2>3
  <2> QED BY <1>1, <1>2, <1>3, <1>5, <2>1, <2>2, <2>3, <2>4
<1> QED
  BY <1>4, <1>5

\* The table after CloseServerSide.
LEMMA ServerSideClosed ==
  ASSUME table \in Seq(Entries), Sorted(table), NEW i \in Positions
  PROVE  /\ CloseServerSide(i) \in Seq(Entries) /\ Sorted(CloseServerSide(i))
         /\ table[i] \in Entries
         /\ [table[i] EXCEPT !.serverClosed = TRUE] \in Entries
         /\ Range(CloseServerSide(i)) =
              (Range(table) \ {table[i]}) \cup
                (IF table[i].clientClosed THEN {} ELSE {[table[i] EXCEPT !.serverClosed = TRUE]})
<1>1. Len(table) \in Nat /\ i \in 1..Len(table) /\ table[i] \in Entries
  BY LenProperties, ElementOfSeq DEF Positions
<1>2. PICK e : e = [table[i] EXCEPT !.serverClosed = TRUE]
  OBVIOUS
<1>3. e \in Entries /\ e.cid = table[i].cid
  BY <1>1, <1>2 DEF Entries
<1>4. CASE table[i].clientClosed
  <2>1. CloseServerSide(i) = RemoveAt(table, i)
    BY <1>4 DEF CloseServerSide
  <2>2. PICK u : u = RemoveAt(table, i)
    OBVIOUS
  <2>3. u \in Seq(Entries) /\ Sorted(u) /\ Range(u) = Range(table) \ {table[i]}
    BY <1>1, <2>2, SortedRemoved
  <2> QED BY <1>1, <1>2, <1>3, <1>4, <2>1, <2>2, <2>3
<1>5. CASE ~table[i].clientClosed
  <2>1. CloseServerSide(i) = [table EXCEPT ![i] = e]
    BY <1>2, <1>5 DEF CloseServerSide
  <2>2. PICK u : u = [table EXCEPT ![i] = e]
    OBVIOUS
  <2>3. u \in Seq(Entries) /\ Sorted(u) /\ Range(u) = (Range(table) \ {table[i]}) \cup {e}
    BY <1>1, <1>3, <2>2, SortedChanged
  <2> QED BY <1>1, <1>2, <1>3, <1>5, <2>1, <2>2, <2>3
<1> QED
  BY <1>4, <1>5

-----------------------------------------------------------------------------
(* Every step keeps the types and the order of the table.                  *)

\* What the session task takes from the event queue.
LEMMA EventTaken ==
  ASSUME TypeOK, NEW type, Takes(type)
  PROVE  /\ Head(events) \in Events /\ Head(events).type = type /\ Head(events) \in Range(events)
         /\ events' \in Seq(Events) /\ Range(events') \subseteq Range(events)
         /\ wait = Idle /\ events # <<>> /\ events' = Tail(events)
         /\ type # "clean" => /\ Head(events).chan \in Channels
                              /\ Head(events).cid \in Nat /\ Head(events).sid \in Ids
<1>1. events \in Seq(Events) /\ events # <<>> /\ events' = Tail(events) /\ wait = Idle
      /\ Head(events).type = type
  BY DEF TypeOK, Takes
<1>2. /\ Head(events) \in Events /\ Head(events) \in Range(events)
      /\ events' \in Seq(Events) /\ Range(events') \subseteq Range(events)
  BY <1>1, Popped
<1>3. PICK e : e = Head(events)
  OBVIOUS
<1>4. type # "clean" => e.chan \in Channels /\ e.cid \in Nat /\ e.sid \in Ids
  BY <1>1, <1>2, <1>3 DEF Events, CleanEvent
<1> QED
  BY <1>1, <1>2, <1>3, <1>4

\* What a message from the server holds.
LEMMA ClientMessage ==
  ASSUME NEW m \in ToClient
  PROVE  /\ m.type \in ClientTypes \cup {"open", "confirm"} /\ m.id \in Nat /\ m.chan \in Channels
         /\ m.type \in {"open", "confirm"} => m.sid \in ServerIds
  BY DEF ToClient, ClientTypes

\* What a message to the server holds.
LEMMA ServerMessage ==
  ASSUME NEW m \in ToServer
  PROVE  /\ m.type \in {"open", "confirm", "refuse", "eof", "request", "notice", "close", "failure"}
         /\ m.chan \in Channels
         /\ m.type = "open" => m.id \in Nat
         /\ m.type = "confirm" => m.id \in ServerIds /\ m.cid \in Nat
         /\ m.type \notin {"open", "confirm"} => m.id \in Ids
  BY DEF ToServer

\* What the session task reads.
LEMMA MessageHeard ==
  ASSUME TypeOK, toClient # <<>>, toClient' = Tail(toClient)
  PROVE  /\ Head(toClient) \in ToClient /\ Head(toClient) \in Range(toClient)
         /\ toClient' \in Seq(ToClient) /\ Range(toClient') \subseteq Range(toClient)
         /\ Head(toClient).type \in ClientTypes \cup {"open", "confirm"}
         /\ Head(toClient).id \in Nat /\ Head(toClient).chan \in Channels
         /\ Head(toClient).type \in {"open", "confirm"} => Head(toClient).sid \in ServerIds
<1>1. toClient \in Seq(ToClient)
  BY DEF TypeOK
<1>2. /\ Head(toClient) \in ToClient /\ Head(toClient) \in Range(toClient)
      /\ toClient' \in Seq(ToClient) /\ Range(toClient') \subseteq Range(toClient)
  BY <1>1, Popped
<1> QED
  BY <1>2, ClientMessage

\* What the server reads.
LEMMA ServerReads ==
  ASSUME TypeOK, toServer # <<>>, toServer' = Tail(toServer)
  PROVE  /\ Head(toServer) \in ToServer /\ Head(toServer) \in Range(toServer)
         /\ toServer' \in Seq(ToServer) /\ Range(toServer') \subseteq Range(toServer)
         /\ Head(toServer).type \in {"open", "confirm", "refuse", "eof", "request", "notice",
                                     "close", "failure"}
         /\ Head(toServer).chan \in Channels
         /\ Head(toServer).type = "open" => Head(toServer).id \in Nat
         /\ Head(toServer).type = "confirm" =>
              Head(toServer).id \in ServerIds /\ Head(toServer).cid \in Nat
         /\ Head(toServer).type \notin {"open", "confirm"} => Head(toServer).id \in Ids
<1>1. toServer \in Seq(ToServer)
  BY DEF TypeOK
<1>2. /\ Head(toServer) \in ToServer /\ Head(toServer) \in Range(toServer)
      /\ toServer' \in Seq(ToServer) /\ Range(toServer') \subseteq Range(toServer)
  BY <1>1, Popped
<1> QED
  BY <1>2, ServerMessage

\* What is said keeps its type.
LEMMA Said ==
  ASSUME TypeOK
  PROVE  /\ \A m \in ToServer : Append(toServer, m) \in Seq(ToServer)
         /\ \A m \in ToClient : Append(toClient, m) \in Seq(ToClient)
         /\ \A e \in Events : Append(events, e) \in Seq(Events)
                              /\ Range(Append(events, e)) = Range(events) \cup {e}
  BY Pushed DEF TypeOK

\* The messages there are.
LEMMA Messages ==
  /\ \A c \in Nat, k \in Channels : Msg("open", c, k) \in ToServer
  /\ \A t \in {"refuse", "eof", "request", "notice", "close", "failure"}, s \in Ids, k \in Channels :
       Msg(t, s, k) \in ToServer
  /\ \A t \in ClientTypes, c \in Nat, k \in Channels : Msg(t, c, k) \in ToClient
  /\ \A t \in {"open", "confirm"}, c \in Nat, s \in ServerIds, k \in Channels :
       [type |-> t, id |-> c, sid |-> s, chan |-> k] \in ToClient
  /\ \A t \in {"open", "eof", "request", "notice", "close"}, k \in Channels, c \in Nat, s \in Ids :
       [type |-> t, chan |-> k, cid |-> c, sid |-> s] \in Events
  BY DEF Msg, ToServer, ToClient, Events

\* A step that leaves the table and the wait alone.
LEMMA OrderKept ==
  ASSUME OrderInv, TypeOK', UNCHANGED <<table, wait, plan>>,
         \A e \in Range(events') :
           e \in Range(events) \/ (e.type \in {"open", "clean"} => e.type \in plan)
  PROVE  OrderInv'
<1>1. (\A e \in Range(events) : e.type \in {"open", "clean"} => e.type \in plan)'
  BY DEF OrderInv
<1> QED
  BY <1>1 DEF OrderInv, Positions

\* The session task's event handlers.
LEMMA TakesOrder == OrderInv /\ SessionTakes => OrderInv'
<1> SUFFICES ASSUME OrderInv, SessionTakes PROVE OrderInv'
  OBVIOUS
<1>0. TypeOK /\ Sorted(table) /\ table \in Seq(Entries)
  BY DEF OrderInv, TypeOK
<1>1. CASE ChannelOpen
  <2>1. PICK c : c = NextChannelId
    OBVIOUS
  <2>2. c \in Nat /\ \A e \in Range(table) : e.cid < c
    BY <1>0, <2>1, NextIsNew
  <2>3. PICK e : e = Head(events)
    OBVIOUS
  <2>4. /\ e.chan \in Channels /\ e \in Range(events) /\ e.type = "open"
        /\ events' \in Seq(Events) /\ Range(events') \subseteq Range(events)
    BY <1>0, <1>1, <2>3, EventTaken DEF ChannelOpen
  <2>5. toServer' \in Seq(ToServer)
    BY <1>0, <1>1, <2>1, <2>2, <2>3, <2>4, Said, Messages DEF ChannelOpen, Say
  <2>6. /\ wait' = [for |-> "open", cid |-> c, chan |-> e.chan]
        /\ UNCHANGED <<table, handles, told, toClient, server, born, plan, cleans, unheard, chats,
                       astray>>
    BY <1>1, <2>1, <2>3 DEF ChannelOpen
  <2>7. wait' \in Waits
    BY <2>2, <2>4, <2>6 DEF Waits
  <2>8. TypeOK'
    BY <1>0, <2>4, <2>5, <2>6, <2>7 DEF TypeOK
  <2>9. "open" \in plan
    BY <2>4 DEF OrderInv
  <2> QED BY <2>2, <2>4, <2>6, <2>8, <2>9 DEF OrderInv
<1>2. CASE ChannelRequest
  <2>1. PICK e : e = Head(events)
    OBVIOUS
  <2>2. /\ e.chan \in Channels /\ e.cid \in Nat /\ e.sid \in Ids
        /\ events' \in Seq(Events) /\ Range(events') \subseteq Range(events)
    BY <1>0, <1>2, <2>1, EventTaken DEF ChannelRequest
  <2>3. toServer' \in Seq(ToServer)
    BY <1>0, <1>2, <2>1, <2>2, Said, Messages DEF ChannelRequest, Say
  <2>4. /\ wait' = [for |-> "reply", cid |-> e.cid, chan |-> e.chan]
        /\ UNCHANGED <<table, handles, told, toClient, server, born, plan, cleans, unheard, chats,
                       astray>>
    BY <1>2, <2>1 DEF ChannelRequest
  <2>5. wait' \in Waits
    BY <2>2, <2>4 DEF Waits
  <2>6. TypeOK'
    BY <1>0, <2>2, <2>3, <2>4, <2>5 DEF TypeOK
  <2> QED BY <2>2, <2>4, <2>6 DEF OrderInv
<1>3. CASE ChannelNotice
  <2>1. PICK e : e = Head(events)
    OBVIOUS
  <2>2. /\ e.chan \in Channels /\ e.cid \in Nat /\ e.sid \in Ids
        /\ events' \in Seq(Events) /\ Range(events') \subseteq Range(events)
    BY <1>0, <1>3, <2>1, EventTaken DEF ChannelNotice
  <2>3. toServer' \in Seq(ToServer)
    BY <1>0, <1>3, <2>1, <2>2, Said, Messages DEF ChannelNotice, Say
  <2>4. TypeOK'
    <3>1. PICK x : x = Answered(e.chan)
      OBVIOUS
    <3>2. x \in HandleStates
      BY <1>0, <2>2, <3>1 DEF TypeOK, Answered, HandleStates
    <3>3. /\ handles' = [handles EXCEPT ![e.chan].state = x]
          /\ UNCHANGED <<table, wait, told, toClient, server, born, plan, cleans, unheard, chats,
                         astray>>
      BY <1>3, <2>1, <3>1 DEF ChannelNotice
    <3> QED BY <1>0, <1>3, <2>1, <2>2, <2>3, <3>2, <3>3 DEF TypeOK
  <2> QED BY <1>3, <2>2, <2>4, OrderKept DEF ChannelNotice
<1>4. CASE ChannelEof
  <2>1. PICK e : e = Head(events)
    OBVIOUS
  <2>2. /\ e.chan \in Channels /\ e.cid \in Nat /\ e.sid \in Ids
        /\ events' \in Seq(Events) /\ Range(events') \subseteq Range(events)
    BY <1>0, <1>4, <2>1, EventTaken DEF ChannelEof
  <2>3. toServer' = toServer \/ toServer' = Append(toServer, Msg("eof", e.sid, e.chan))
    BY <1>4, <2>1 DEF ChannelEof
  <2>4. toServer' \in Seq(ToServer)
    BY <1>0, <2>2, <2>3, Said, Messages DEF TypeOK
  <2>5. TypeOK'
    <3>1. PICK x : x = Answered(e.chan)
      OBVIOUS
    <3>2. x \in HandleStates
      BY <1>0, <2>2, <3>1 DEF TypeOK, Answered, HandleStates
    <3>3. /\ handles' = [handles EXCEPT ![e.chan].state = x]
          /\ UNCHANGED <<table, wait, told, toClient, server, born, plan, cleans, unheard, chats,
                         astray>>
      BY <1>4, <2>1, <3>1 DEF ChannelEof
    <3> QED BY <1>0, <1>4, <2>1, <2>2, <2>4, <3>2, <3>3 DEF TypeOK
  <2> QED BY <1>4, <2>2, <2>5, OrderKept DEF ChannelEof
<1>5. CASE ChannelClose
  <2>1. PICK e : e = Head(events)
    OBVIOUS
  <2>2. /\ e.chan \in Channels /\ e.cid \in Nat /\ e.sid \in Ids /\ wait = Idle
        /\ events' \in Seq(Events) /\ Range(events') \subseteq Range(events)
    BY <1>0, <1>5, <2>1, EventTaken DEF ChannelClose
  <2>3. /\ handles' = [handles EXCEPT ![e.chan].state = "gone"]
        /\ UNCHANGED <<wait, told, toClient, server, born, plan, cleans, unheard, chats, astray>>
        /\ toServer' = toServer \/ toServer' = Append(toServer, Msg("close", e.sid, e.chan))
    BY <1>5, <2>1 DEF ChannelClose, Say
  <2>4. table' \in Seq(Entries) /\ Sorted(table')
    <3>1. CASE Matches(e.cid) # {}
      <4>1. Position(e.cid) \in Positions
        BY <1>0, <3>1, Found
      <4>2. table' = CloseClientSide(Position(e.cid))
        BY <1>5, <2>1, <3>1 DEF ChannelClose
      <4> QED BY <1>0, <4>1, <4>2, ClientSideClosed
    <3>2. CASE Matches(e.cid) = {}
      BY <1>0, <1>5, <2>1, <3>2 DEF ChannelClose
    <3> QED BY <3>1, <3>2
  <2>5. toServer' \in Seq(ToServer)
    BY <1>0, <2>2, <2>3, Said, Messages DEF TypeOK
  <2>6. TypeOK'
    BY <1>0, <2>2, <2>3, <2>4, <2>5 DEF TypeOK, HandleStates
  <2> QED BY <2>2, <2>3, <2>4, <2>6 DEF OrderInv, Idle
<1>6. CASE ChannelClean
  <2>1. /\ events' \in Seq(Events) /\ Range(events') \subseteq Range(events)
        /\ Head(events) \in Range(events) /\ Head(events).type = "clean"
    BY <1>0, <1>6, EventTaken DEF ChannelClean
  <2>2. "clean" \in plan
    BY <2>1 DEF OrderInv
  <2>3. Len(table) \in Nat
    BY <1>0, LenProperties
  <2>4. wait' = Cleaning(Len(table))
        /\ UNCHANGED <<table, handles, told, toServer, toClient, server, born, plan, cleans,
                       unheard, chats, astray>>
    BY <1>6 DEF ChannelClean
  <2>5. wait' \in Waits /\ wait'.for \in {"none", "clean"}
        /\ (wait'.for = "clean" => wait'.cid \in Positions)
    BY <2>3, <2>4 DEF Waits, Cleaning, Positions, Idle
  <2>6. TypeOK'
    BY <1>0, <2>1, <2>4, <2>5 DEF TypeOK
  <2> QED BY <2>1, <2>2, <2>4, <2>5, <2>6 DEF OrderInv, Positions
<1>7. CASE CleanEntry
  <2>1. PICK i : i = wait.cid
    OBVIOUS
  <2>2. wait.for = "clean" /\ i \in Positions /\ "clean" \in plan
    BY <1>7, <2>1 DEF CleanEntry, OrderInv
  <2>3. Len(table) \in Nat /\ Positions = 1..Len(table)
    BY <1>0, LenProperties DEF Positions
  <2>4. /\ wait' = Cleaning(i - 1)
        /\ UNCHANGED <<events, handles, told, toClient, server, born, plan, cleans, unheard, chats,
                       astray>>
        /\ \/ table' = table
           \/ table' = CloseClientSide(i)
        /\ \/ toServer' = toServer
           \/ toServer' = Append(toServer, Msg("close", table[i].sid, table[i].chan))
    BY <1>7, <2>1 DEF CleanEntry
  <2>5. table' \in Seq(Entries) /\ Sorted(table') /\ i - 1 <= Len(table') /\ Len(table') \in Nat
    <3>1. CASE table' = table
      BY <1>0, <2>2, <2>3, <3>1
    <3>2. CASE table' = CloseClientSide(i)
      BY <1>0, <2>2, <3>2, ClientSideClosed
    <3> QED BY <2>4, <3>1, <3>2
  <2>6. table[i] \in Entries
    BY <1>0, <2>2, ClientSideClosed
  <2>7. table[i].sid \in Ids /\ table[i].chan \in Channels
    BY <2>6 DEF Entries, Ids
  <2>8. toServer' \in Seq(ToServer)
    BY <1>0, <2>4, <2>7, Said, Messages DEF TypeOK
  <2>9. wait' \in Waits /\ wait'.for \in {"none", "clean"}
        /\ (wait'.for = "clean" => wait'.cid \in 1..Len(table'))
    BY <2>2, <2>3, <2>4, <2>5 DEF Waits, Cleaning, Idle
  <2>10. TypeOK'
    BY <1>0, <2>4, <2>5, <2>8, <2>9 DEF TypeOK
  <2> QED BY <2>2, <2>4, <2>5, <2>9, <2>10 DEF OrderInv, Positions
<1> QED
  BY <1>1, <1>2, <1>3, <1>4, <1>5, <1>6, <1>7 DEF SessionTakes

\* Channel::drop keeps the types.
LEMMA DroppedTyped ==
  ASSUME TypeOK, NEW k \in Channels, NEW c \in Nat, NEW s \in Ids, Dropped(k, c, s)
  PROVE  /\ events' \in Seq(Events)
         /\ handles' \in [Channels -> [state : HandleStates, cid : Nat, sid : Ids]]
         /\ \A e \in Range(events') : e \in Range(events) \/ e.type = "close"
<1>1. PICK e : e = [type |-> "close", chan |-> k, cid |-> c, sid |-> s]
  OBVIOUS
<1>2. e \in Events /\ e.type = "close"
  BY <1>1, Messages
<1>3. \/ events' = events
      \/ events' = Append(events, e)
  BY <1>1 DEF Dropped
<1>4. PICK x \in HandleStates : handles' = [handles EXCEPT ![k] = [state |-> x, cid |-> c, sid |-> s]]
  BY DEF Dropped, HandleStates
<1>5. handles \in [Channels -> [state : HandleStates, cid : Nat, sid : Ids]]
  BY DEF TypeOK
<1> QED
  BY <1>2, <1>3, <1>4, <1>5, Said DEF TypeOK

\* The ends of a wait.
LEMMA OpenedOrder == OrderInv /\ ChannelOpened => OrderInv'
<1> SUFFICES ASSUME OrderInv, ChannelOpened PROVE OrderInv'
  OBVIOUS
<1>0. TypeOK /\ Sorted(table) /\ table \in Seq(Entries)
  BY DEF OrderInv, TypeOK
<1>1. PICK m : m = Head(toClient)
  OBVIOUS
<1>2. PICK k : k = wait.chan
  OBVIOUS
<1>3. PICK c : c = wait.cid
  OBVIOUS
<1>4. wait.for = "open" /\ k \in Channels /\ c \in Nat /\ \A e \in Range(table) : e.cid < c
  BY <1>0, <1>2, <1>3 DEF ChannelOpened, OrderInv, TypeOK, Waits, Idle
<1>5. m.sid \in ServerIds /\ toClient' \in Seq(ToClient)
  BY <1>0, <1>1, MessageHeard DEF ChannelOpened, Hears
<1>6. /\ wait' = Idle
      /\ UNCHANGED <<told, toServer, server, born, plan, cleans, unheard, chats, astray>>
  BY DEF ChannelOpened
<1>7. wait' \in Waits /\ wait'.for = "none"
  BY <1>6 DEF Waits, Idle
<1>8. /\ events' \in Seq(Events)
      /\ handles' \in [Channels -> [state : HandleStates, cid : Nat, sid : Ids]]
      /\ \A e \in Range(events') : e \in Range(events) \/ e.type = "close"
      /\ table' \in Seq(Entries) /\ Sorted(table')
  <2>1. CASE m.id = wait.cid /\ ~AlreadyOpen(m.sid)
    <3>1. table' = Append(table, Entry(c, m.sid, k))
      BY <1>1, <1>2, <1>3, <2>1 DEF ChannelOpened
    <3>3. table' \in Seq(Entries) /\ Sorted(table')
      <4>1. PICK e : e = Entry(c, m.sid, k)
        OBVIOUS
      <4>2. e \in Entries /\ e.cid = c
        BY <1>4, <1>5, <4>1 DEF Entry, Entries
      <4> QED BY <1>0, <1>4, <3>1, <4>1, <4>2, SortedAdded
    <3>4. m.sid \in Ids
      BY <1>5 DEF Ids
    <3>5. CASE handles[k].state = "opening"
      <4>1. /\ handles' = [handles EXCEPT ![k] = [state |-> "idle", cid |-> c, sid |-> m.sid]]
            /\ events' = events
        BY <1>1, <1>2, <1>3, <2>1, <3>5 DEF ChannelOpened
      <4>2. "idle" \in HandleStates
        BY DEF HandleStates
      <4> QED BY <1>0, <1>4, <3>3, <3>4, <4>1, <4>2 DEF TypeOK
    <3>6. CASE handles[k].state # "opening"
      <4>1. Dropped(k, c, m.sid)
        BY <1>1, <1>2, <1>3, <2>1, <3>6 DEF ChannelOpened
      <4> QED BY <1>0, <1>4, <3>3, <3>4, <4>1, DroppedTyped
    <3> QED BY <3>5, <3>6
  <2>2. CASE ~(m.id = wait.cid /\ ~AlreadyOpen(m.sid))
    <3>1. handles' = [handles EXCEPT ![k].state = "refused"] /\ table' = table /\ events' = events
      BY <1>1, <1>2, <2>2 DEF ChannelOpened
    <3>2. "refused" \in HandleStates
      BY DEF HandleStates
    <3> QED BY <1>0, <1>4, <3>1, <3>2 DEF TypeOK
  <2> QED BY <2>1, <2>2
<1>9. TypeOK'
  BY <1>0, <1>5, <1>6, <1>7, <1>8 DEF TypeOK
<1> QED
  BY <1>6, <1>7, <1>8, <1>9 DEF OrderInv

\* The other ends of a wait.
LEMMA EndedOrder == OrderInv /\ (ChannelOpenFailed \/ ChannelReplied) => OrderInv'
<1> SUFFICES ASSUME OrderInv, ChannelOpenFailed \/ ChannelReplied PROVE OrderInv'
  OBVIOUS
<1>0. TypeOK
  BY DEF OrderInv
<1>1. PICK k : k = wait.chan
  OBVIOUS
<1>2. k \in Channels
  BY <1>0, <1>1 DEF ChannelOpenFailed, ChannelReplied, TypeOK, Waits, Idle
<1>3. toClient' \in Seq(ToClient)
  BY <1>0, MessageHeard DEF ChannelOpenFailed, ChannelReplied, Hears
<1>4. PICK x : x = IF ChannelOpenFailed THEN "refused" ELSE Answered(k)
  OBVIOUS
<1>5. x \in HandleStates
  BY <1>0, <1>2, <1>4 DEF Answered, HandleStates, TypeOK
<1>6. /\ handles' = [handles EXCEPT ![k].state = x] /\ wait' = Idle
      /\ UNCHANGED <<table, events, told, toServer, server, born, plan, cleans, unheard, chats,
                     astray>>
  BY <1>1, <1>4 DEF ChannelOpenFailed, ChannelReplied
<1>7. wait' \in Waits /\ wait'.for = "none"
  BY <1>6 DEF Waits, Idle
<1>8. TypeOK'
  BY <1>0, <1>2, <1>3, <1>5, <1>6, <1>7 DEF TypeOK
<1> QED
  BY <1>6, <1>7, <1>8 DEF OrderInv

\* Messages passed on to a handle, and requests refused.
LEMMA PassedOrder ==
  OrderInv /\ (HandleChannelData \/ HandleChannelEof \/ HandleUnknownRequest \/ HandleOpenRefused)
    => OrderInv'
<1> SUFFICES ASSUME OrderInv,
                    HandleChannelData \/ HandleChannelEof \/ HandleUnknownRequest
                      \/ HandleOpenRefused
             PROVE OrderInv'
  OBVIOUS
<1>0. TypeOK /\ Sorted(table) /\ table \in Seq(Entries)
  BY DEF OrderInv, TypeOK
<1>1. PICK m : m = Head(toClient)
  OBVIOUS
<1>2. /\ m.type \in ClientTypes \cup {"open", "confirm"} /\ m.chan \in Channels
      /\ m.type \in {"open", "confirm"} => m.sid \in ServerIds
      /\ toClient' \in Seq(ToClient)
  BY <1>0, <1>1, MessageHeard
     DEF HandleChannelData, HandleChannelEof, HandleUnknownRequest, HandleOpenRefused, PassOn, Hears
<1>3. /\ UNCHANGED <<table, wait, events, handles, server, born, plan, cleans, unheard, chats>>
  BY DEF HandleChannelData, HandleChannelEof, HandleUnknownRequest, HandleOpenRefused, PassOn
<1>4. told' \in [Channels -> SUBSET (ClientTypes \cup {"open", "confirm"})] /\ astray' \in BOOLEAN
  <2>1. CASE HandleUnknownRequest \/ HandleOpenRefused
    BY <1>0, <2>1 DEF HandleUnknownRequest, HandleOpenRefused, TypeOK
  <2>2. CASE ~(HandleUnknownRequest \/ HandleOpenRefused)
    <3>1. PICK k : k = table[Position(m.id)].chan
      OBVIOUS
    <3>2. \/ told' = told /\ astray' = astray
          \/ Matches(m.id) # {} /\ Give(k, m)
      BY <1>1, <2>2, <3>1 DEF HandleChannelData, HandleChannelEof, PassOn
    <3>3. Matches(m.id) # {} => k \in Channels
      <4> SUFFICES ASSUME Matches(m.id) # {} PROVE k \in Channels
        OBVIOUS
      <4>1. table[Position(m.id)] \in Entries
        BY <1>0, Found, Placed
      <4> QED BY <3>1, <4>1 DEF Entries
    <3>4. told \in [Channels -> SUBSET (ClientTypes \cup {"open", "confirm"})] /\ astray \in BOOLEAN
      BY <1>0 DEF TypeOK
    <3>5. \/ told' = told
          \/ k \in Channels /\ told' = [told EXCEPT ![k] = @ \cup {m.type}]
      BY <3>2, <3>3 DEF Give
    <3>6. told' \in [Channels -> SUBSET (ClientTypes \cup {"open", "confirm"})]
      BY <1>2, <3>4, <3>5
    <3>7. astray' \in BOOLEAN
      BY <3>2, <3>4 DEF Give
    <3> QED BY <3>6, <3>7
  <2> QED BY <2>1, <2>2
<1>5. toServer' \in Seq(ToServer)
  <2>1. CASE HandleChannelData \/ HandleChannelEof
    BY <1>0, <2>1 DEF HandleChannelData, HandleChannelEof, PassOn, TypeOK
  <2>2. CASE HandleOpenRefused
    <3>1. toServer' = Append(toServer, Msg("refuse", m.sid, m.chan)) /\ m.type = "open"
      BY <1>1, <2>2 DEF HandleOpenRefused, Say, Hears
    <3>2. m.sid \in Ids
      BY <1>2, <3>1 DEF Ids
    <3> QED BY <1>0, <1>2, <3>1, <3>2, Said, Messages
  <2>3. CASE HandleUnknownRequest
    <3>1. CASE Matches(m.id) = {}
      BY <1>0, <1>1, <2>3, <3>1 DEF HandleUnknownRequest, TypeOK
    <3>2. CASE Matches(m.id) # {}
      <4>1. PICK e : e = table[Position(m.id)]
        OBVIOUS
      <4>2. e \in Entries
        BY <1>0, <3>2, <4>1, Found, Placed
      <4>3. e.sid \in Ids /\ e.chan \in Channels
        BY <4>2 DEF Entries, Ids
      <4>4. toServer' = Append(toServer, Msg("failure", e.sid, e.chan))
        BY <1>1, <2>3, <3>2, <4>1 DEF HandleUnknownRequest
      <4> QED BY <1>0, <4>3, <4>4, Said, Messages
    <3> QED BY <3>1, <3>2
  <2> QED BY <2>1, <2>2, <2>3
<1>6. TypeOK'
  BY <1>0, <1>2, <1>3, <1>4, <1>5 DEF TypeOK
<1> QED
  BY <1>3, <1>6, OrderKept

\* handle_channel_close.
LEMMA CloseHeardOrder == OrderInv /\ HandleChannelClose => OrderInv'
<1> SUFFICES ASSUME OrderInv, HandleChannelClose PROVE OrderInv'
  OBVIOUS
<1>0. TypeOK /\ Sorted(table) /\ table \in Seq(Entries) /\ wait.for # "clean"
  BY DEF OrderInv, TypeOK, HandleChannelClose, Hears
<1>1. PICK m : m = Head(toClient)
  OBVIOUS
<1>2. /\ m.type \in ClientTypes \cup {"open", "confirm"} /\ toClient' \in Seq(ToClient)
  BY <1>0, <1>1, MessageHeard DEF HandleChannelClose, Hears
<1>3. UNCHANGED <<wait, events, handles, toServer, server, born, plan, cleans, unheard, chats>>
  BY DEF HandleChannelClose
<1>4. CASE Matches(m.id) = {}
  <2>1. UNCHANGED <<told, astray, table>>
    BY <1>1, <1>4 DEF HandleChannelClose
  <2>2. TypeOK'
    BY <1>0, <1>2, <1>3, <2>1 DEF TypeOK
  <2> QED BY <1>3, <2>1, <2>2, OrderKept
<1>5. CASE Matches(m.id) # {}
  <2>1. PICK i : i = Position(m.id)
    OBVIOUS
  <2>2. i \in Positions /\ table[i] \in Range(table)
    BY <1>0, <1>5, <2>1, Found
  <2>3. PICK e : e = [table[i] EXCEPT !.serverClosed = TRUE]
    OBVIOUS
  <2>4. /\ table' \in Seq(Entries) /\ Sorted(table') /\ table[i] \in Entries
        /\ Range(table') \subseteq Range(table) \cup {e}
    <3>1. table' = CloseServerSide(i)
      BY <1>1, <1>5, <2>1 DEF HandleChannelClose
    <3> QED BY <1>0, <2>2, <2>3, <3>1, ServerSideClosed
  <2>5. e.cid = table[i].cid /\ table[i].chan \in Channels
    BY <2>3, <2>4 DEF Entries
  <2>6. Give(table[i].chan, m)
    BY <1>1, <1>5, <2>1 DEF HandleChannelClose
  <2>7. told' \in [Channels -> SUBSET (ClientTypes \cup {"open", "confirm"})] /\ astray' \in BOOLEAN
    <3>1. \/ told' = told
          \/ told' = [told EXCEPT ![table[i].chan] = @ \cup {m.type}]
      BY <2>6 DEF Give
    <3>2. told \in [Channels -> SUBSET (ClientTypes \cup {"open", "confirm"})]
      BY <1>0 DEF TypeOK
    <3>3. told' \in [Channels -> SUBSET (ClientTypes \cup {"open", "confirm"})]
      BY <1>2, <2>5, <3>1, <3>2
    <3>4. astray' \in BOOLEAN
      BY <2>6 DEF Give
    <3> QED BY <3>3, <3>4
  <2>8. TypeOK'
    BY <1>0, <1>2, <1>3, <2>4, <2>7 DEF TypeOK
  <2>9. wait.for = "open" => \A d \in Range(table') : d.cid < wait.cid
    BY <2>2, <2>4, <2>5 DEF OrderInv
  <2> QED BY <1>0, <1>3, <2>4, <2>8, <2>9 DEF OrderInv
<1> QED
  BY <1>4, <1>5

\* A channel of the server's is given the next number, when no open waits.
LEMMA AcceptedOrder ==
  OneSideOpens /\ OrderInv /\ (HandleOpenAccepted \/ HandleOpenDeaf) => OrderInv'
<1> SUFFICES ASSUME OneSideOpens, OrderInv, HandleOpenAccepted \/ HandleOpenDeaf PROVE OrderInv'
  OBVIOUS
<1>0. TypeOK /\ Sorted(table) /\ table \in Seq(Entries) /\ plan \in Plans
  BY DEF OrderInv, TypeOK
<1>1. wait.for \notin {"open", "clean"}
  BY <1>0 DEF OrderInv, OneSideOpens, HandleOpenAccepted, HandleOpenDeaf, Hears
<1>2. PICK m : m = Head(toClient)
  OBVIOUS
<1>3. m.type = "open" /\ m.chan \in Channels /\ m.sid \in ServerIds /\ toClient' \in Seq(ToClient)
  BY <1>0, <1>2, MessageHeard DEF HandleOpenAccepted, HandleOpenDeaf, Hears
<1>4. PICK c : c = NextChannelId
  OBVIOUS
<1>5. c \in Nat /\ \A e \in Range(table) : e.cid < c
  BY <1>0, <1>4, NextIsNew
<1>6. m.sid \in Ids
  BY <1>3 DEF Ids
<1>7. PICK a : a = Accepted(m)
  OBVIOUS
<1>8. a \in ToServer
  BY <1>3, <1>4, <1>5, <1>7 DEF Accepted, ToServer
<1>9. CASE HandleOpenAccepted
  <2>1. PICK e : e = Entry(c, m.sid, m.chan)
    OBVIOUS
  <2>2. e \in Entries /\ e.cid = c
    BY <1>3, <1>5, <2>1 DEF Entry, Entries
  <2>3. /\ toServer' = Append(toServer, a)
        /\ table' = Append(table, e)
        /\ handles' = [handles EXCEPT ![m.chan] = [state |-> "idle", cid |-> c, sid |-> m.sid]]
        /\ UNCHANGED <<wait, events, told, server, born, plan, cleans, unheard, chats, astray>>
    BY <1>2, <1>4, <1>7, <1>9, <2>1 DEF HandleOpenAccepted, Say
  <2>4. table' \in Seq(Entries) /\ Sorted(table')
    BY <1>0, <1>5, <2>2, <2>3, SortedAdded
  <2>5. toServer' \in Seq(ToServer)
    BY <1>0, <1>8, <2>3, Said
  <2>6. "idle" \in HandleStates
    BY DEF HandleStates
  <2>7. TypeOK'
    BY <1>0, <1>3, <1>5, <1>6, <2>3, <2>4, <2>5, <2>6 DEF TypeOK
  <2> QED BY <1>1, <2>3, <2>4, <2>7 DEF OrderInv
<1>10. CASE HandleOpenDeaf
  <2>1. PICK e : e = [Entry(c, m.sid, m.chan) EXCEPT !.clientClosed = TRUE]
    OBVIOUS
  <2>2. e \in Entries /\ e.cid = c
    BY <1>3, <1>5, <2>1 DEF Entry, Entries
  <2>3. PICK b : b = Msg("close", m.sid, m.chan)
    OBVIOUS
  <2>4. b \in ToServer
    BY <1>3, <1>6, <2>3, Messages
  <2>5. /\ toServer' = toServer \o <<a, b>>
        /\ table' = Append(table, e)
        /\ Dropped(m.chan, c, m.sid)
        /\ unheard' = TRUE
        /\ UNCHANGED <<wait, told, server, born, plan, cleans, chats, astray>>
    BY <1>2, <1>4, <1>7, <1>10, <2>1, <2>3 DEF HandleOpenDeaf
  <2>6. table' \in Seq(Entries) /\ Sorted(table')
    BY <1>0, <1>5, <2>2, <2>5, SortedAdded
  <2>7. toServer' \in Seq(ToServer)
    <3>1. <<a, b>> \in Seq(ToServer)
      BY <1>8, <2>4
    <3>2. toServer \in Seq(ToServer)
      BY <1>0 DEF TypeOK
    <3> QED BY <2>5, <3>1, <3>2, ConcatProperties
  <2>8. /\ events' \in Seq(Events)
        /\ handles' \in [Channels -> [state : HandleStates, cid : Nat, sid : Ids]]
        /\ \A d \in Range(events') : d \in Range(events) \/ d.type = "close"
    BY <1>0, <1>3, <1>5, <1>6, <2>5, DroppedTyped
  <2>9. TypeOK'
    BY <1>0, <1>3, <2>5, <2>6, <2>7, <2>8 DEF TypeOK
  <2> QED BY <1>1, <2>5, <2>6, <2>8, <2>9 DEF OrderInv
<1> QED
  BY <1>9, <1>10

\* What the session task reads keeps the order.
LEMMA HearsOrder == OneSideOpens /\ OrderInv /\ SessionHears => OrderInv'
  BY OpenedOrder, EndedOrder, PassedOrder, CloseHeardOrder, AcceptedOrder DEF SessionHears

\* Asking a handle keeps the order.
LEMMA AskOrder ==
  ASSUME OrderInv, NEW k \in Channels, NEW type \in {"eof", "request", "notice", "close"},
         NEW x \in HandleStates, Ask(k, type, x), Chat(k) \/ UNCHANGED chats
  PROVE  OrderInv'
<1>0. TypeOK
  BY DEF OrderInv
<1>1. PICK e : e = Event(type, k)
  OBVIOUS
<1>2. e \in Events /\ e.type = type
  BY <1>0, <1>1, Messages DEF Event, TypeOK
<1>3. /\ events' = Append(events, e) /\ handles' = [handles EXCEPT ![k].state = x]
      /\ UNCHANGED <<table, wait, told, toServer, toClient, server, born, plan, cleans, unheard,
                     astray>>
  BY <1>1 DEF Ask
<1>4. events' \in Seq(Events) /\ Range(events') = Range(events) \cup {e}
  BY <1>0, <1>2, <1>3, Said
<1>5. chats' \in [Channels -> Nat]
  <2>1. chats \in [Channels -> Nat]
    BY <1>0 DEF TypeOK
  <2>2. CASE UNCHANGED chats
    BY <2>1, <2>2
  <2>3. CASE Chat(k)
    <3>1. chats' = [chats EXCEPT ![k] = chats[k] + 1] /\ chats[k] + 1 \in Nat
      BY <2>1, <2>3 DEF Chat
    <3> QED BY <2>1, <3>1
  <2> QED BY <2>2, <2>3
<1>6. TypeOK'
  BY <1>0, <1>3, <1>4, <1>5 DEF TypeOK
<1> QED
  BY <1>2, <1>3, <1>4, <1>6, OrderKept

\* What applications do keeps the order.
LEMMA AppOrder == OrderInv /\ Application => OrderInv'
<1> SUFFICES ASSUME OrderInv, Application PROVE OrderInv'
  OBVIOUS
<1>0. TypeOK
  BY DEF OrderInv
<1>1. CASE AppOpen
  <2>1. born + 1 \in Channels /\ born + 1 \in 0..MaxChannels
    BY <1>0, <1>1, TableAssumption DEF AppOpen, TypeOK, Channels
  <2>2. PICK e : e = Event("open", born + 1)
    OBVIOUS
  <2>3. e \in Events /\ e.type = "open"
    BY <1>0, <2>1, <2>2, Messages DEF Event, TypeOK
  <2>4. /\ events' = Append(events, e) /\ handles' = [handles EXCEPT ![born + 1].state = "opening"]
        /\ born' = born + 1 /\ "open" \in plan
        /\ UNCHANGED <<table, wait, told, toServer, toClient, server, plan, cleans, unheard, chats,
                       astray>>
    BY <1>1, <2>2 DEF AppOpen
  <2>5. events' \in Seq(Events) /\ Range(events') = Range(events) \cup {e}
    BY <1>0, <2>3, <2>4, Said
  <2>6. "opening" \in HandleStates
    BY DEF HandleStates
  <2>7. TypeOK'
    BY <1>0, <2>1, <2>4, <2>5, <2>6 DEF TypeOK
  <2> QED BY <2>3, <2>4, <2>5, <2>7, OrderKept
<1>2. CASE AppClean
  <2>1. CleanEvent \in Events
    BY DEF Events
  <2>2. /\ events' = Append(events, CleanEvent) /\ cleans' = cleans + 1 /\ "clean" \in plan
        /\ UNCHANGED <<plan, table, wait, handles, told, toServer, toClient, server, born, chats,
                       astray, unheard>>
    BY <1>2 DEF AppClean, CleanEvent
  <2>3. events' \in Seq(Events) /\ Range(events') = Range(events) \cup {CleanEvent}
    BY <1>0, <2>1, <2>2, Said
  <2>4. TypeOK'
    BY <1>0, <2>2, <2>3 DEF TypeOK
  <2>5. CleanEvent.type = "clean"
    BY DEF CleanEvent
  <2> QED BY <2>2, <2>3, <2>4, <2>5, OrderKept
<1>3. ASSUME NEW k \in Channels, AppEof(k) PROVE OrderInv'
  <2>1. "busy" \in HandleStates
    BY DEF HandleStates
  <2> QED BY <1>3, <2>1, AskOrder DEF AppEof
<1>4. ASSUME NEW k \in Channels, AppRequest(k) PROVE OrderInv'
  <2>1. "busy" \in HandleStates
    BY DEF HandleStates
  <2> QED BY <1>4, <2>1, AskOrder DEF AppRequest
<1>5. ASSUME NEW k \in Channels, AppClose(k) PROVE OrderInv'
  <2>1. "closing" \in HandleStates
    BY DEF HandleStates
  <2> QED BY <1>5, <2>1, AskOrder DEF AppClose
<1>6. ASSUME NEW k \in Channels, AppDrop(k) PROVE OrderInv'
  <2>1. UNCHANGED <<table, wait, told, toServer, toClient, server, born, plan, cleans, unheard,
                    chats, astray>>
    BY <1>6 DEF AppDrop
  <2>2. handles \in [Channels -> [state : HandleStates, cid : Nat, sid : Ids]]
    BY <1>0 DEF TypeOK
  <2>3. \/ events' = events /\ \E x \in HandleStates : handles' = [handles EXCEPT ![k].state = x]
        \/ Dropped(k, handles[k].cid, handles[k].sid)
    <3>1. CASE handles[k].state = "opening"
      BY <1>6, <3>1 DEF AppDrop, HandleStates
    <3>2. CASE handles[k].state = "closing"
      BY <1>6, <3>2 DEF AppDrop, HandleStates
    <3>3. CASE handles[k].state \notin {"opening", "closing"}
      BY <1>6, <3>3 DEF AppDrop
    <3> QED BY <3>1, <3>2, <3>3
  <2>4. /\ events' \in Seq(Events)
        /\ handles' \in [Channels -> [state : HandleStates, cid : Nat, sid : Ids]]
        /\ \A e \in Range(events') : e \in Range(events) \/ e.type = "close"
    <3>1. CASE Dropped(k, handles[k].cid, handles[k].sid)
      BY <1>0, <2>2, <3>1, DroppedTyped
    <3>2. CASE events' = events /\ \E x \in HandleStates : handles' = [handles EXCEPT ![k].state = x]
      BY <1>0, <2>2, <3>2 DEF TypeOK
    <3> QED BY <2>3, <3>1, <3>2
  <2>5. TypeOK'
    BY <1>0, <2>1, <2>4 DEF TypeOK
  <2> QED BY <2>1, <2>4, <2>5, OrderKept
<1> QED
  BY <1>1, <1>2, <1>3, <1>4, <1>5, <1>6 DEF Application

\* What the server says and does keeps the order: it touches neither the table
\* nor what this side waits for.
LEMMA ServerOrder ==
  ASSUME OrderInv, UNCHANGED ClientState, toServer' \in Seq(ToServer), toClient' \in Seq(ToClient),
         server' \in [Channels -> [state : PeerStates, sid : Ids, cid : Nat]],
         born' \in 0..MaxChannels, chats' \in [Channels -> Nat], astray' \in BOOLEAN
  PROVE  OrderInv'
<1>1. UNCHANGED <<table, wait, events, handles, told, plan, cleans, unheard>>
  BY DEF ClientState
<1>2. TypeOK'
  BY <1>1 DEF OrderInv, TypeOK
<1> QED
  BY <1>1, <1>2, OrderKept

\* The server answers.
LEMMA AnswersOrder == OrderInv /\ ServerAnswers => OrderInv'
<1> SUFFICES ASSUME OrderInv, ServerAnswers PROVE OrderInv'
  OBVIOUS
<1>0. /\ TypeOK /\ born \in 0..MaxChannels /\ chats \in [Channels -> Nat] /\ astray \in BOOLEAN
      /\ server \in [Channels -> [state : PeerStates, sid : Ids, cid : Nat]]
      /\ toClient \in Seq(ToClient)
  BY DEF OrderInv, TypeOK
<1>1. PICK m : m = Head(toServer)
  OBVIOUS
<1>2. /\ toServer' \in Seq(ToServer) /\ m.chan \in Channels
      /\ m.type = "open" => m.id \in Nat
      /\ m.type = "confirm" => m.cid \in Nat
  BY <1>0, <1>1, ServerReads DEF ServerAnswers, ServerAccepts, ServerRefuses, ServerConfirmed,
     ServerRefused, ServerHearsClose, ServerHearsOther, ServerHears
<1>3. {"open", "gone"} \subseteq PeerStates /\ ServerIds \subseteq Ids
  BY DEF PeerStates, Ids
<1>4. \A k \in Channels : server[k].cid \in Nat
  BY <1>0
<1>5. CASE ServerAccepts
  <2>1. PICK s \in ServerIds :
          /\ server' = [server EXCEPT ![m.chan] = [state |-> "open", sid |-> s, cid |-> m.id]]
          /\ toClient' = Append(toClient, [type |-> "confirm", id |-> m.id, sid |-> s,
                                           chan |-> m.chan])
    BY <1>1, <1>5 DEF ServerAccepts, Tell
  <2>2. m.id \in Nat /\ UNCHANGED <<ClientState, born, chats, astray>>
    BY <1>1, <1>2, <1>5 DEF ServerAccepts, ServerHears
  <2>3. toClient' \in Seq(ToClient)
    BY <1>0, <1>2, <2>1, <2>2, Said, Messages
  <2>4. server' \in [Channels -> [state : PeerStates, sid : Ids, cid : Nat]]
    BY <1>0, <1>2, <1>3, <2>1, <2>2
  <2> QED BY <1>0, <1>2, <2>2, <2>3, <2>4, ServerOrder
<1>6. CASE ServerRefuses
  <2>1. /\ toClient' = Append(toClient, Msg("refuse", m.id, m.chan)) /\ m.id \in Nat
        /\ UNCHANGED <<ClientState, server, born, chats, astray>>
    BY <1>1, <1>2, <1>6 DEF ServerRefuses, Tell, ServerHears
  <2>2. "refuse" \in ClientTypes
    BY DEF ClientTypes
  <2>3. toClient' \in Seq(ToClient)
    BY <1>0, <1>2, <2>1, <2>2, Said, Messages
  <2> QED BY <1>0, <1>2, <2>1, <2>3, ServerOrder
<1>7. CASE ServerConfirmed
  <2>1. /\ server' = [server EXCEPT ![m.chan].state = "open", ![m.chan].cid = m.cid]
        /\ m.cid \in Nat
        /\ UNCHANGED <<ClientState, toClient, born, chats, astray>>
    BY <1>1, <1>2, <1>7 DEF ServerConfirmed, ServerHears
  <2>2. server' \in [Channels -> [state : PeerStates, sid : Ids, cid : Nat]]
    BY <1>0, <1>2, <1>3, <2>1
  <2> QED BY <1>0, <1>2, <2>1, <2>2, ServerOrder
<1>8. CASE ServerRefused
  <2>1. /\ server' = [server EXCEPT ![m.chan].state = "gone"]
        /\ UNCHANGED <<ClientState, toClient, born, chats, astray>>
    BY <1>1, <1>8 DEF ServerRefused
  <2>2. server' \in [Channels -> [state : PeerStates, sid : Ids, cid : Nat]]
    BY <1>0, <1>2, <1>3, <2>1
  <2> QED BY <1>0, <1>2, <2>1, <2>2, ServerOrder
<1>9. CASE ServerHearsClose
  <2>1. /\ server' = [k \in Channels |-> IF k \in Using(m.id) THEN [server[k] EXCEPT !.state = "gone"]
                                         ELSE server[k]]
        /\ astray' \in BOOLEAN
        /\ UNCHANGED <<ClientState, born, chats>>
    BY <1>1, <1>9 DEF ServerHearsClose
  <2>2. \/ toClient' = toClient
        \/ \E k \in Channels : toClient' = Append(toClient, Msg("close", server[k].cid, k))
    BY <1>1, <1>9 DEF ServerHearsClose, Using, Tell
  <2>3. "close" \in ClientTypes
    BY DEF ClientTypes
  <2>4. toClient' \in Seq(ToClient)
    BY <1>0, <1>4, <2>2, <2>3, Said, Messages
  <2>5. server' \in [Channels -> [state : PeerStates, sid : Ids, cid : Nat]]
    BY <1>0, <1>3, <2>1
  <2> QED BY <1>0, <1>2, <2>1, <2>4, <2>5, ServerOrder
<1>10. CASE ServerHearsOther
  <2>1. astray' \in BOOLEAN /\ UNCHANGED <<ClientState, server, born, chats>>
    BY <1>10 DEF ServerHearsOther
  <2>2. \/ toClient' = toClient
        \/ \E k \in Channels, r \in {"success", "failure"} :
             toClient' = Append(toClient, Msg(r, server[k].cid, m.chan))
    BY <1>1, <1>10 DEF ServerHearsOther, Using, Tell
  <2>3. {"success", "failure"} \subseteq ClientTypes
    BY DEF ClientTypes
  <2>4. toClient' \in Seq(ToClient)
    BY <1>0, <1>2, <1>4, <2>2, <2>3, Said, Messages
  <2> QED BY <1>0, <1>2, <2>1, <2>4, ServerOrder
<1> QED
  BY <1>5, <1>6, <1>7, <1>8, <1>9, <1>10 DEF ServerAnswers

\* The server opens, closes and talks.
LEMMA SpeaksOrder ==
  OrderInv /\ (ServerOpens \/ \E k \in Channels : ServerCloses(k) \/ ServerTalks(k)) => OrderInv'
<1> SUFFICES ASSUME OrderInv,
                    ServerOpens \/ \E k \in Channels : ServerCloses(k) \/ ServerTalks(k)
             PROVE OrderInv'
  OBVIOUS
<1>0. /\ TypeOK /\ born \in 0..MaxChannels /\ chats \in [Channels -> Nat] /\ astray \in BOOLEAN
      /\ server \in [Channels -> [state : PeerStates, sid : Ids, cid : Nat]]
      /\ toClient \in Seq(ToClient) /\ toServer \in Seq(ToServer)
  BY DEF OrderInv, TypeOK
<1>1. {"asked", "closing"} \subseteq PeerStates /\ ServerIds \subseteq Ids /\ None \in Nat
      /\ {"data", "eof", "ask", "close"} \subseteq ClientTypes
  BY DEF PeerStates, Ids, ClientTypes, None
<1>2. CASE ServerOpens
  <2>1. born + 1 \in Channels /\ born + 1 \in 0..MaxChannels
    BY <1>0, <1>2, TableAssumption DEF ServerOpens, Channels
  <2>2. PICK s \in ServerIds :
          /\ server' = [server EXCEPT ![born + 1] = [state |-> "asked", sid |-> s, cid |-> None]]
          /\ toClient' = Append(toClient, [type |-> "open", id |-> None, sid |-> s,
                                           chan |-> born + 1])
    BY <1>2 DEF ServerOpens, Tell
  <2>3. born' = born + 1 /\ UNCHANGED <<ClientState, toServer, chats, astray>>
    BY <1>2 DEF ServerOpens
  <2>4. toClient' \in Seq(ToClient)
    BY <1>0, <1>1, <2>1, <2>2, Said, Messages
  <2>5. server' \in [Channels -> [state : PeerStates, sid : Ids, cid : Nat]]
    BY <1>0, <1>1, <2>1, <2>2
  <2> QED BY <1>0, <2>1, <2>3, <2>4, <2>5, ServerOrder
<1>3. ASSUME NEW k \in Channels, ServerCloses(k) PROVE OrderInv'
  <2>1. /\ server' = [server EXCEPT ![k].state = "closing"]
        /\ toClient' = Append(toClient, Msg("close", server[k].cid, k))
        /\ UNCHANGED <<ClientState, toServer, born, chats, astray>>
    BY <1>3 DEF ServerCloses, Tell
  <2>2. server[k].cid \in Nat
    BY <1>0
  <2>3. toClient' \in Seq(ToClient)
    BY <1>0, <1>1, <2>1, <2>2, Said, Messages
  <2>4. server' \in [Channels -> [state : PeerStates, sid : Ids, cid : Nat]]
    BY <1>0, <1>1, <2>1
  <2> QED BY <1>0, <2>1, <2>3, <2>4, ServerOrder
<1>4. ASSUME NEW k \in Channels, ServerTalks(k) PROVE OrderInv'
  <2>1. PICK t \in {"data", "eof", "ask"} : toClient' = Append(toClient, Msg(t, server[k].cid, k))
    BY <1>4 DEF ServerTalks, Tell
  <2>2. server[k].cid \in Nat
    BY <1>0
  <2>3. toClient' \in Seq(ToClient)
    BY <1>0, <1>1, <2>1, <2>2, Said, Messages
  <2>4. chats' = [chats EXCEPT ![k] = chats[k] + 1] /\ chats[k] + 1 \in Nat
        /\ UNCHANGED <<ClientState, server, toServer, born, astray>>
    BY <1>0, <1>4 DEF ServerTalks, Chat
  <2>5. chats' \in [Channels -> Nat]
    BY <1>0, <2>4
  <2> QED BY <1>0, <2>3, <2>4, <2>5, ServerOrder
<1> QED
  BY <1>2, <1>3, <1>4

\* The order holds at the start.
LEMMA OrderInit == Init => OrderInv
<1> SUFFICES ASSUME Init PROVE OrderInv
  OBVIOUS
<1>1. /\ table = <<>> /\ events = <<>> /\ toServer = <<>> /\ toClient = <<>> /\ wait = Idle
      /\ table \in Seq(Entries) /\ events \in Seq(Events) /\ toServer \in Seq(ToServer)
      /\ toClient \in Seq(ToClient)
  BY EmptySeq DEF Init
<1>2. "none" \in HandleStates /\ "none" \in PeerStates /\ None \in Ids /\ None \in Nat
  BY DEF HandleStates, PeerStates, Ids, None
<1>3. handles \in [Channels -> [state : HandleStates, cid : Nat, sid : Ids]]
  BY <1>2 DEF Init, NoOwner
<1>4. server \in [Channels -> [state : PeerStates, sid : Ids, cid : Nat]]
  BY <1>2 DEF Init, NoPeer
<1>5. wait \in Waits /\ wait.for = "none"
  BY <1>1 DEF Waits, Idle
<1>6. 0 \in 0..MaxChannels
  BY TableAssumption
<1>7. TypeOK
  BY <1>1, <1>3, <1>4, <1>5, <1>6 DEF Init, TypeOK
<1>8. Len(table) = 0 /\ Len(events) = 0
  BY <1>1, EmptySeq
<1>9. Range(events) = {}
  BY <1>1 DEF Range
<1> QED
  BY <1>5, <1>7, <1>8, <1>9 DEF OrderInv, Sorted

\* A step keeps the order.
LEMMA OrderStep == OneSideOpens /\ OrderInv /\ [Next]_vars => OrderInv'
<1> SUFFICES ASSUME OneSideOpens, OrderInv, [Next]_vars PROVE OrderInv'
  OBVIOUS
<1>1. CASE UNCHANGED vars
  BY <1>1 DEF vars, OrderInv, TypeOK, Positions
<1>2. CASE Next
  BY <1>2, TakesOrder, HearsOrder, AppOrder, AnswersOrder, SpeaksOrder DEF Next
<1> QED
  BY <1>1, <1>2

\* The types of all variables, for clients that open the channels themselves or
\* accept the server's.
THEOREM TypeCorrect == OneSideOpens => (Spec => []TypeOK)
<1> SUFFICES ASSUME OneSideOpens PROVE Spec => []TypeOK
  OBVIOUS
<1>1. OrderInv /\ [Next]_vars => OrderInv'
  BY OrderStep
<1>2. OrderInv => TypeOK
  BY DEF OrderInv
<1> QED
  BY <1>1, <1>2, OrderInit, PTL DEF Spec

\* Entries in the order of their numbers have different numbers.
LEMMA OrderedIds == OrderInv => ClientIdsUnique
<1> SUFFICES ASSUME OrderInv, NEW i \in Positions, NEW j \in Positions,
                    table[i].cid = table[j].cid
             PROVE  i = j
  BY DEF ClientIdsUnique
<1>1. table \in Seq(Entries) /\ Sorted(table)
  BY DEF OrderInv, TypeOK
<1>2. Len(table) \in Nat /\ Positions = 1..Len(table) /\ table[i] \in Entries
  BY <1>1, LenProperties, ElementOfSeq DEF Positions
<1>3. table[i].cid \in Nat
  BY <1>2 DEF Entries
<1>4. ~(i < j) /\ ~(j < i)
  BY <1>1, <1>2, <1>3 DEF Sorted
<1> QED
  BY <1>2, <1>4

\* Client numbers are unique: next_channel_id (one above the highest number in the
\* table) never gives out one that is in use, and neither Drop, close(), clean() nor
\* the server's CLOSE can bring the table out of order.
THEOREM ClientIdsAreUnique == OneSideOpens => (Spec => []ClientIdsUnique)
<1> SUFFICES ASSUME OneSideOpens PROVE Spec => []ClientIdsUnique
  OBVIOUS
<1>1. OrderInv /\ [Next]_vars => OrderInv'
  BY OrderStep
<1> QED
  BY <1>1, OrderedIds, OrderInit, PTL DEF Spec

-----------------------------------------------------------------------------
(* What may happen to a channel, in terms of its View.                     *)

Typed(v) ==
  /\ v.entries \subseteq Entries /\ v.events \subseteq Events
  /\ v.in \subseteq ToClient /\ v.out \subseteq ToServer
  /\ v.handle.state \in HandleStates /\ v.peer.state \in PeerStates

\* Nothing but its event is there of a channel that is about to be opened.
LEMMA Fresh ==
  ASSUME NEW v, Typed(v), Life(v), v.peer.state = "none", v.wait.for # "open",
         v.handle.state \in {"none", "opening", "abandoned"}
  PROVE  v.entries = {} /\ v.in = {} /\ v.out = {} /\ \A e \in v.events : e.type = "open"
<1>1. v.entries = {}
  BY DEF Life, EntryOk
<1>2. v.in = {}
  BY DEF Life, InOk, First
<1>3. v.out = {}
  <2> SUFFICES ASSUME NEW m \in v.out PROVE FALSE
    OBVIOUS
  <2>1. m.type \in {"open", "confirm", "refuse", "eof", "request", "notice", "close", "failure"}
    BY ServerMessage DEF Typed
  <2> QED BY <2>1 DEF Life, OutOk, InUse, Opening, First
<1>4. \A e \in v.events : e.type = "open"
  BY <1>1 DEF Life, EventOk, Held
<1> QED
  BY <1>1, <1>2, <1>3, <1>4

\* channel_open sends its message.
LEMMA LifeOpenTaken ==
  ASSUME NEW v, NEW w, Typed(v), Life(v), NEW c, NEW k,
         Some(v.events, "open"), v.wait.for = "none",
         w.events \subseteq v.events, ~Some(w.events, "open"),
         w.out = v.out \cup {Msg("open", c, k)},
         w.wait = [for |-> "open", cid |-> c, chan |-> k],
         w.handle = v.handle, w.peer = v.peer, w.told = v.told, w.in = v.in,
         w.entries = v.entries, w.plan = v.plan
  PROVE  Life(w) /\ v.out = {}
<1>1. Opening(v) /\ v.peer.state = "none"
  BY DEF Life, EventOk, Some
<1>2. v.entries = {} /\ v.in = {} /\ v.out = {} /\ \A e \in v.events : e.type = "open"
  BY <1>1, Fresh DEF Opening
<1>3. w.events = {} /\ w.entries = {} /\ w.in = {}
  BY <1>2 DEF Some
<1>4. \A m \in w.out : OutOk(w, m)
  BY <1>1, <1>2 DEF OutOk, Msg, First
<1>5. WaitOk(w)
  BY <1>1 DEF WaitOk, Opening
<1>6. SidesOk(w)
  BY <1>1 DEF SidesOk, Opening
<1> QED
  BY <1>2, <1>3, <1>4, <1>5, <1>6 DEF Life

\* An event other than an open is taken, its message sent: channel_request_*,
\* channel_eof.
LEMMA LifeEventTaken ==
  ASSUME NEW v, NEW w, Typed(v), Life(v), NEW e \in v.events, e.type \in {"eof", "request", "notice"},
         v.wait.for = "none", NEW c, c.type = e.type, c.id = e.sid,
         w.events \subseteq v.events, v.events \subseteq w.events \cup {e},
         w.out = v.out \cup {c},
         \/ e.type = "request" /\ w.wait.for = "reply" /\ w.wait.cid = e.cid
         \/ e.type # "request" /\ w.wait = v.wait,
         w.handle.cid = v.handle.cid, w.handle.sid = v.handle.sid,
         \/ w.handle.state = v.handle.state
         \/ v.handle.state = "busy" /\ w.handle.state = "idle",
         w.peer = v.peer, w.told = v.told, w.in = v.in,
         w.entries = v.entries, w.plan = v.plan
  PROVE  Life(w) /\ ~Some(v.out, "close")
<1>1. Held(v) /\ e.cid = v.handle.cid /\ e.sid = v.handle.sid
      /\ (e.type = "request" => "request" \in v.plan)
  BY DEF Life, EventOk
<1>2. PICK d \in v.entries : ~d.clientClosed /\ EntryOk(v, d)
  BY <1>1 DEF Life, Held
<1>3. InUse(v.peer) /\ v.handle.sid = v.peer.sid /\ (v.peer.state = "asked" => Some(v.out, "confirm"))
  BY <1>2 DEF EntryOk, InUse, Typed, PeerStates
<1>4. ~Some(v.out, "close")
  BY <1>1 DEF Life, OutOk, Some
<1>5. \A x : Some(v.out, x) => Some(w.out, x)
  BY DEF Some
<1>6. Some(v.events, "close") => Some(w.events, "close")
  BY DEF Some
<1>7. \A d1 \in w.entries : EntryOk(w, d1)
  BY <1>5, <1>6 DEF Life, EntryOk
<1>8. \A f \in w.events : EventOk(w, f)
  BY <1>2 DEF Life, EventOk, Held, Opening, EntryOk
<1>9. ASSUME NEW m \in w.out PROVE OutOk(w, m)
  <2>1. CASE m \in v.out
    BY <2>1, <1>2, <1>5 DEF Life, OutOk, Held, Opening, EntryOk, InUse
  <2>2. CASE m = c
    BY <2>2, <1>1, <1>2, <1>3, <1>5 DEF OutOk, EntryOk, Opening
  <2> QED BY <2>1, <2>2
<1>10. ASSUME NEW m \in w.in PROVE InOk(w, m)
  <2>1. InOk(v, m)
    BY DEF Life
  <2>2. m.type \notin First
    BY <1>2, <2>1 DEF InOk, EntryOk, First
  <2> QED BY <2>1, <2>2 DEF InOk, Live, First
<1>11. WaitOk(w)
  BY <1>1 DEF Life, WaitOk, Held
<1>12. SidesOk(w)
  BY <1>5, <1>6 DEF Life, SidesOk, Live
<1> QED
  BY <1>4, <1>7, <1>8, <1>9, <1>10, <1>11, <1>12 DEF Life

\* A channel with a handle has at most one entry; there is no open under way.
LEMMA Owned ==
  ASSUME NEW v, Typed(v), Life(v), NEW d \in v.entries
  PROVE  /\ v.entries = {d} /\ EntryOk(v, d) /\ v.wait.for # "open"
         /\ ~Some(v.events, "open") /\ ~Some(v.out, "open") /\ ~Some(v.out, "refuse")
         /\ \A m \in v.in : m.type \notin First
<1>1. v.entries = {d} /\ EntryOk(v, d)
  BY DEF Life
<1>2. v.wait.for # "open"
  BY <1>1 DEF Life, WaitOk, EntryOk, Opening
<1>3. ~Some(v.events, "open")
  BY <1>1 DEF Life, EventOk, EntryOk, Opening, Some
<1>4. ~Some(v.out, "open") /\ ~Some(v.out, "refuse")
  BY <1>1 DEF Life, OutOk, EntryOk, Some
<1>5. \A m \in v.in : m.type \notin First
  BY <1>1, <1>2 DEF Life, InOk, EntryOk, First
<1> QED
  BY <1>1, <1>2, <1>3, <1>4, <1>5

\* channel_close.
LEMMA LifeCloseTaken ==
  ASSUME NEW v, NEW w, Typed(v), Life(v), NEW e \in v.events, e.type = "close", NEW k,
         v.wait.for = "none", NEW d \in v.entries,
         w.events = {}, w.wait = v.wait,
         w.out = v.out \cup {Msg("close", e.sid, k)},
         w.entries = IF d.serverClosed THEN {} ELSE {[d EXCEPT !.clientClosed = TRUE]},
         w.handle.cid = v.handle.cid, w.handle.sid = v.handle.sid, w.handle.state = "gone",
         w.peer = v.peer, w.told = v.told, w.in = v.in, w.plan = v.plan
  PROVE  Life(w) /\ ~Some(v.out, "close")
<1>1. v.entries = {d} /\ EntryOk(v, d) /\ \A m \in v.in : m.type \notin First
  BY Owned
<1>2. ~d.clientClosed /\ e.sid = v.handle.sid
  BY <1>1 DEF Life, EventOk, Held
<1>3. d \in Entries
  BY DEF Typed
<1>4. PICK f : f = [d EXCEPT !.clientClosed = TRUE]
  OBVIOUS
<1>5. f.cid = d.cid /\ f.sid = d.sid /\ f.clientClosed /\ (f.serverClosed <=> d.serverClosed)
  BY <1>3, <1>4 DEF Entries
<1>6. w.entries = IF d.serverClosed THEN {} ELSE {f}
  BY <1>4
<1>7. ~Some(v.out, "close")
  BY <1>1, <1>2 DEF Life, OutOk, Some, Held
<1>8. Some(w.out, "close") /\ \A x : Some(v.out, x) => Some(w.out, x)
  <2>1. Msg("close", e.sid, k) \in w.out /\ Msg("close", e.sid, k).type = "close"
    BY DEF Msg
  <2> QED BY <2>1 DEF Some
<1>9. InUse(v.peer) /\ v.handle.sid = v.peer.sid
      /\ (v.peer.state = "asked" => Some(v.out, "confirm"))
      /\ (d.serverClosed => v.peer.state = "closing")
  BY <1>1, <1>2 DEF EntryOk, InUse, Typed, PeerStates
<1>10. ASSUME NEW g \in w.entries PROVE EntryOk(w, g)
  <2>1. ~d.serverClosed /\ g = f
    BY <1>6
  <2>2. g.cid = d.cid /\ g.sid = d.sid /\ g.clientClosed /\ ~g.serverClosed
    BY <1>5, <2>1
  <2>3. v.peer.state \in {"closing", "gone"} => Some(w.in, "close")
    BY <1>1, <2>1 DEF EntryOk
  <2>4. g.cid = w.handle.cid /\ g.sid = w.handle.sid /\ g.sid = w.peer.sid
        /\ (w.peer.state # "asked" => w.peer.cid = g.cid) /\ w.peer.state # "none"
    BY <1>1, <2>2 DEF EntryOk
  <2> QED BY <1>8, <1>9, <2>2, <2>3, <2>4 DEF EntryOk
<1>11. ASSUME NEW m \in w.out PROVE OutOk(w, m)
  <2>1. ~Held(w)
    BY <1>5, <1>6 DEF Held
  <2>2. CASE m \in v.out
    <3>1. OutOk(v, m) /\ m.type # "open" /\ m.type # "refuse"
      BY <2>2, Owned DEF Life, Some
    <3>2. v.peer.state = "asked" => w.entries # {}
      BY <1>6, <1>9
    <3> QED BY <3>1, <3>2, <2>1, <1>8 DEF OutOk, Opening
  <2>3. CASE m = Msg("close", e.sid, k)
    <3>1. m.type = "close" /\ m.id = e.sid
      BY <2>3 DEF Msg
    <3> QED BY <3>1, <2>1, <1>2, <1>8, <1>9 DEF OutOk, Opening
  <2> QED BY <2>2, <2>3
<1>12. ASSUME NEW m \in w.in PROVE InOk(w, m)
  <2>1. InOk(v, m) /\ m.type \notin First
    BY <1>1 DEF Life
  <2>2. ~Some(v.in, "confirm")
    BY <1>1 DEF Some, First
  <2>3. ~d.serverClosed
    BY <1>1, <2>1, <2>2 DEF InOk, Live
  <2>4. Live(w)
    BY <1>5, <1>6, <2>3 DEF Live
  <2> QED BY <2>1, <2>4 DEF InOk, First
<1>13. WaitOk(w)
  BY DEF WaitOk
<1>14. SidesOk(w)
  <2>1. d.serverClosed \/ Live(w)
    BY <1>5, <1>6 DEF Live
  <2> QED BY <2>1, <1>8, <1>9 DEF Life, SidesOk
<1> QED
  BY <1>6, <1>7, <1>10, <1>11, <1>12, <1>13, <1>14 DEF Life

\* The server's confirmation, once wait_for_opening_channel has accepted it.
LEMMA LifeOpened ==
  ASSUME NEW v, NEW w, Typed(v), Life(v), NEW m \in v.in, m.type = "confirm", NEW k,
         w.in \subseteq v.in, v.in \subseteq w.in \cup {m}, \A n \in w.in : n.type \notin First,
         w.wait.for = "none",
         w.entries = {Entry(v.wait.cid, m.sid, k)},
         w.handle.cid = v.wait.cid, w.handle.sid = m.sid,
         \/ w.handle.state \in {"idle", "lost"} /\ w.events = v.events
         \/ /\ w.handle.state = "gone"
            /\ w.events = v.events \cup {[type |-> "close", chan |-> k, cid |-> v.wait.cid,
                                          sid |-> m.sid]},
         w.out = v.out, w.peer = v.peer, w.told = v.told, w.plan = v.plan
  PROVE  Life(w) /\ v.events = {} /\ v.entries = {}
<1>1. /\ v.wait.for = "open" /\ m.id = v.wait.cid /\ v.peer.sid = m.sid /\ v.peer.cid = m.id
      /\ v.peer.state \in {"open", "closing"}
  BY DEF Life, InOk
<1>2. Opening(v)
  BY <1>1 DEF Life, WaitOk
<1>3. v.entries = {}
  BY <1>2, Owned DEF Life, EntryOk, Opening
<1>4. v.events = {}
  BY <1>1, <1>3 DEF Life, EventOk, Held
<1>5. v.out = {}
  <2> SUFFICES ASSUME NEW n \in v.out PROVE FALSE
    OBVIOUS
  <2>1. OutOk(v, n)
    BY DEF Life
  <2> QED BY <2>1, <1>1, <1>2 DEF OutOk, First
<1>6. PICK f : f = Entry(v.wait.cid, m.sid, k)
  OBVIOUS
<1>7. f.cid = v.wait.cid /\ f.sid = m.sid /\ ~f.clientClosed /\ ~f.serverClosed
  BY <1>6 DEF Entry
<1>8. w.entries = {f} /\ Live(w) /\ Held(w)
  BY <1>6, <1>7 DEF Live, Held
<1>9. Some(v.in, "close") => Some(w.in, "close")
  BY DEF Some
<1>10. PICK c : c = [type |-> "close", chan |-> k, cid |-> v.wait.cid, sid |-> m.sid]
  OBVIOUS
<1>11. c.type = "close" /\ c.cid = v.wait.cid /\ c.sid = m.sid
  BY <1>10
<1>12. \/ w.handle.state \in {"idle", "lost"} /\ w.events = {}
       \/ w.handle.state = "gone" /\ w.events = {c}
  BY <1>4, <1>10
<1>13. \A e \in w.events : EventOk(w, e)
  BY <1>8, <1>11, <1>12 DEF EventOk
<1>14. w.handle.state = "gone" => Some(w.events, "close")
  BY <1>11, <1>12 DEF Some
<1>15. v.peer.state = "closing" => Some(v.in, "close")
  BY DEF Life, InOk
<1>16. EntryOk(w, f)
  BY <1>1, <1>7, <1>9, <1>12, <1>14, <1>15 DEF EntryOk
<1>17. ASSUME NEW n \in w.in PROVE InOk(w, n)
  <2>1. InOk(v, n) /\ n.type \notin First
    BY DEF Life
  <2> QED BY <2>1, <1>8 DEF InOk, First
<1>18. WaitOk(w)
  BY DEF WaitOk
<1>19. SidesOk(w)
  BY <1>8, <1>12 DEF Life, SidesOk
<1> QED
  BY <1>3, <1>4, <1>5, <1>8, <1>13, <1>16, <1>17, <1>18, <1>19 DEF Life

\* The server's refusal of an open.
LEMMA LifeOpenFailed ==
  ASSUME NEW v, NEW w, Typed(v), Life(v), NEW m \in v.in, m.type = "refuse",
         w.in \subseteq v.in, \A n \in w.in : n.type \notin First,
         w.wait.for = "none", w.handle.state = "refused",
         w.entries = v.entries, w.events = v.events,
         w.out = v.out, w.peer = v.peer, w.told = v.told, w.plan = v.plan
  PROVE  Life(w)
<1>1. v.wait.for = "open" /\ v.peer.state = "none" /\ ~Some(v.out, "open")
  BY DEF Life, InOk
<1>2. Opening(v)
  BY <1>1 DEF Life, WaitOk
<1>3. v.entries = {}
  BY <1>1 DEF Life, EntryOk
<1>4. v.events = {}
  BY <1>1, <1>3 DEF Life, EventOk, Held
<1>5. v.out = {}
  <2> SUFFICES ASSUME NEW n \in v.out PROVE FALSE
    OBVIOUS
  <2>1. OutOk(v, n)
    BY DEF Life
  <2> QED BY <2>1, <1>1, <1>2 DEF OutOk, First, Some
<1>6. w.in = {}
  BY <1>1 DEF Life, InOk
<1>7. WaitOk(w) /\ SidesOk(w)
  BY <1>1 DEF WaitOk, SidesOk
<1> QED
  BY <1>3, <1>4, <1>5, <1>6, <1>7 DEF Life

\* A message that neither opens nor closes is read; its handle may be told.
LEMMA LifeRead ==
  ASSUME NEW v, NEW w, Typed(v), Life(v), NEW m, m.type \notin First, m.type # "close",
         w.in \subseteq v.in, v.in \subseteq w.in \cup {m}, v.told \subseteq w.told,
         w.wait = v.wait, w.handle = v.handle, w.entries = v.entries, w.events = v.events,
         w.out = v.out, w.peer = v.peer, w.plan = v.plan
  PROVE  Life(w)
<1>1. \A t \in {"open", "confirm", "refuse", "close"} : Some(v.in, t) <=> Some(w.in, t)
  BY DEF Some, First
<1>2. \A e \in w.entries : EntryOk(w, e)
  BY <1>1 DEF Life, EntryOk
<1>3. \A e \in w.events : EventOk(w, e)
  BY DEF Life, EventOk, Opening, Held
<1>4. \A n \in w.out : OutOk(w, n)
  BY <1>1 DEF Life, OutOk, Opening, Held
<1>5. \A n \in w.in : InOk(w, n)
  BY <1>1 DEF Life, InOk, Live
<1>6. WaitOk(w)
  BY <1>1 DEF Life, WaitOk, Opening, Held
<1>7. SidesOk(w)
  BY <1>1 DEF Life, SidesOk, Live
<1> QED
  BY <1>2, <1>3, <1>4, <1>5, <1>6, <1>7 DEF Life

\* The end of a wait for a reply.
LEMMA LifeReplied ==
  ASSUME NEW v, NEW w, Typed(v), Life(v), v.wait.for = "reply", w.wait.for = "none",
         w.handle.cid = v.handle.cid, w.handle.sid = v.handle.sid,
         \/ w.handle.state = v.handle.state
         \/ v.handle.state = "busy" /\ w.handle.state = "idle",
         w.in = v.in, w.told = v.told, w.entries = v.entries, w.events = v.events,
         w.out = v.out, w.peer = v.peer, w.plan = v.plan
  PROVE  Life(w)
<1>1. PICK d \in v.entries : TRUE
  BY DEF Life, WaitOk, Held
<1>2. /\ v.entries = {d} /\ EntryOk(v, d)
      /\ ~Some(v.events, "open") /\ ~Some(v.out, "open") /\ ~Some(v.out, "refuse")
      /\ \A m \in v.in : m.type \notin First
  BY <1>1, Owned
<1>3. EntryOk(w, d)
  BY <1>2 DEF EntryOk
<1>4. ASSUME NEW e \in w.events PROVE EventOk(w, e)
  <2>1. EventOk(v, e) /\ e.type # "open"
    BY <1>2 DEF Life, Some
  <2> QED BY <2>1 DEF EventOk, Held
<1>5. ASSUME NEW m \in w.out PROVE OutOk(w, m)
  <2>1. OutOk(v, m) /\ m.type # "open" /\ m.type # "refuse"
    BY <1>2 DEF Life, Some
  <2> QED BY <2>1 DEF OutOk, Held, Opening
<1>6. ASSUME NEW m \in w.in PROVE InOk(w, m)
  <2>1. InOk(v, m) /\ m.type \notin First
    BY <1>2 DEF Life
  <2> QED BY <2>1 DEF InOk, Live, First
<1>7. WaitOk(w)
  BY DEF WaitOk
<1>8. SidesOk(w)
  BY <1>2 DEF Life, SidesOk, Live
<1> QED
  BY <1>2, <1>3, <1>4, <1>5, <1>6, <1>7, <1>8 DEF Life

\* handle_channel_unknown_request answers on a channel that is in the table.
LEMMA LifeRefusal ==
  ASSUME NEW v, NEW w, Typed(v), Life(v), v.entries # {}, "serverAsk" \in v.plan, NEW s, NEW k,
         w.out = v.out \cup {Msg("failure", s, k)},
         w.wait = v.wait, w.handle = v.handle, w.in = v.in, w.told = v.told,
         w.entries = v.entries, w.events = v.events, w.peer = v.peer, w.plan = v.plan
  PROVE  Life(w)
<1>1. PICK d \in v.entries : EntryOk(v, d)
  BY DEF Life
<1>2. PICK f : f = Msg("failure", s, k)
  OBVIOUS
<1>3. f.type = "failure" /\ w.out = v.out \cup {f}
  BY <1>2 DEF Msg
<1>4. \A t : t # "failure" => (Some(v.out, t) <=> Some(w.out, t))
  BY <1>3 DEF Some
<1>5. \A e \in w.entries : EntryOk(w, e)
  BY <1>4 DEF Life, EntryOk
<1>6. \A e \in w.events : EventOk(w, e)
  BY DEF Life, EventOk, Opening, Held
<1>7. ASSUME NEW n \in w.out PROVE OutOk(w, n)
  <2>1. CASE n \in v.out
    BY <1>4, <2>1 DEF Life, OutOk, Opening, Held
  <2>2. CASE n = f
    BY <1>1, <1>3, <2>2 DEF OutOk, EntryOk, Opening, First
  <2> QED BY <1>3, <2>1, <2>2
<1>8. \A n \in w.in : InOk(w, n)
  BY <1>4 DEF Life, InOk, Live
<1>9. WaitOk(w)
  BY DEF Life, WaitOk, Opening, Held
<1>10. SidesOk(w)
  BY <1>4 DEF Life, SidesOk, Live
<1> QED
  BY <1>5, <1>6, <1>7, <1>8, <1>9, <1>10 DEF Life

\* A message that does not open a channel finds its entry, unless a confirmation
\* is still under way before it.
LEMMA Reached ==
  ASSUME NEW v, Typed(v), Life(v), NEW m \in v.in, m.type \notin First, ~Some(v.in, "confirm")
  PROVE  \E d \in v.entries : v.entries = {d} /\ d.cid = m.id /\ ~d.serverClosed
<1>1. InOk(v, m)
  BY DEF Life
<1>2. PICK d \in v.entries : ~d.serverClosed
  BY <1>1 DEF InOk, Live
<1>3. v.entries = {d} /\ EntryOk(v, d)
  BY Owned
<1>4. d.cid = m.id
  BY <1>1, <1>3 DEF InOk, EntryOk
<1> QED
  BY <1>2, <1>3, <1>4

\* handle_channel_close.
LEMMA LifeCloseHeard ==
  ASSUME NEW v, NEW w, Typed(v), Life(v), NEW m \in v.in, m.type = "close",
         NEW d \in v.entries, w.in = {},
         w.entries = IF d.clientClosed THEN {} ELSE {[d EXCEPT !.serverClosed = TRUE]},
         v.told \subseteq w.told,
         v.handle.state \in {"idle", "busy", "closing"} => "close" \in w.told,
         w.wait = v.wait, w.handle = v.handle, w.events = v.events,
         w.out = v.out, w.peer = v.peer, w.plan = v.plan
  PROVE  Life(w)
<1>1. /\ v.entries = {d} /\ EntryOk(v, d) /\ v.wait.for # "open"
      /\ ~Some(v.events, "open") /\ ~Some(v.out, "open") /\ ~Some(v.out, "refuse")
      /\ \A n \in v.in : n.type \notin First
  BY Owned
<1>2. d \in Entries
  BY DEF Typed
<1>3. PICK f : f = [d EXCEPT !.serverClosed = TRUE]
  OBVIOUS
<1>4. f.cid = d.cid /\ f.sid = d.sid /\ f.serverClosed /\ (f.clientClosed <=> d.clientClosed)
  BY <1>2, <1>3 DEF Entries
<1>5. w.entries = IF d.clientClosed THEN {} ELSE {f}
  BY <1>3
<1>6. v.peer.state \in {"closing", "gone"}
  BY DEF Life, InOk
<1>7. Held(v) <=> Held(w)
  BY <1>1, <1>4, <1>5 DEF Held
<1>8. ASSUME NEW g \in w.entries PROVE EntryOk(w, g)
  <2>1. ~d.clientClosed /\ g = f
    BY <1>5
  <2>2. g.cid = d.cid /\ g.sid = d.sid /\ ~g.clientClosed /\ g.serverClosed
    BY <1>4, <2>1
  <2> QED BY <1>1, <1>6, <2>1, <2>2 DEF EntryOk
<1>9. ASSUME NEW e \in w.events PROVE EventOk(w, e)
  BY <1>7 DEF Life, EventOk, Opening
<1>10. ASSUME NEW n \in w.out PROVE OutOk(w, n)
  <2>1. OutOk(v, n) /\ n.type # "confirm"
    BY <1>6 DEF Life, OutOk
  <2>2. n.type # "refuse"
    BY <1>1 DEF Some
  <2> QED BY <1>7, <2>1, <2>2 DEF OutOk, Opening
<1>11. WaitOk(w)
  BY <1>1, <1>7 DEF Life, WaitOk
<1>12. SidesOk(w)
  <2>1. d.clientClosed => v.handle.state = "gone" /\ (v.peer.state = "gone" \/ Some(v.out, "close"))
    BY <1>1 DEF EntryOk
  <2>2. ~d.clientClosed => w.entries # {}
    BY <1>5
  <2> QED BY <1>6, <2>1, <2>2 DEF Life, SidesOk
<1>13. \A g1, g2 \in w.entries : g1 = g2
  BY <1>5
<1> QED
  BY <1>8, <1>9, <1>10, <1>11, <1>12, <1>13 DEF Life

\* Nothing but the server's open is there of a channel it wants to open.
LEMMA Offered ==
  ASSUME NEW v, Typed(v), Life(v), NEW m \in v.in, m.type = "open"
  PROVE  /\ v.peer.state = "asked" /\ v.peer.sid = m.sid /\ v.handle.state = "none"
         /\ v.entries = {} /\ v.events = {} /\ v.out = {} /\ v.wait.for \notin {"open", "reply"}
         /\ \A n \in v.in : n.type = "open"
<1>1. v.peer.state = "asked" /\ v.peer.sid = m.sid /\ v.handle.state = "none"
  BY DEF Life, InOk
<1>2. v.entries = {}
  BY <1>1 DEF Life, EntryOk
<1>3. v.events = {}
  BY <1>1, <1>2 DEF Life, EventOk, Held, Opening
<1>4. v.out = {}
  <2> SUFFICES ASSUME NEW n \in v.out PROVE FALSE
    OBVIOUS
  <2>1. OutOk(v, n)
    BY DEF Life
  <2>2. Some(v.in, "open")
    BY DEF Some
  <2> QED BY <2>1, <2>2, <1>1, <1>2 DEF OutOk, First
<1>5. v.wait.for \notin {"open", "reply"}
  BY <1>1, <1>2 DEF Life, WaitOk, Opening, Held
<1>6. \A n \in v.in : n.type = "open"
  BY <1>1, <1>5 DEF Life, InOk, First
<1> QED
  BY <1>1, <1>2, <1>3, <1>4, <1>5, <1>6

\* The server's open is refused.
LEMMA LifeTurnedDown ==
  ASSUME NEW v, NEW w, Typed(v), Life(v), NEW m \in v.in, m.type = "open", NEW k,
         w.in \subseteq v.in, \A n \in w.in : n.type \notin First,
         w.out = v.out \cup {Msg("refuse", m.sid, k)},
         w.wait = v.wait, w.handle = v.handle, w.entries = v.entries, w.told = v.told,
         w.events = v.events, w.peer = v.peer, w.plan = v.plan
  PROVE  Life(w)
<1>1. /\ v.peer.state = "asked" /\ v.handle.state = "none"
      /\ v.entries = {} /\ v.events = {} /\ v.out = {} /\ v.wait.for \notin {"open", "reply"}
      /\ \A n \in v.in : n.type = "open"
  BY Offered
<1>2. w.in = {}
  BY <1>1 DEF First
<1>3. \A n \in w.out : OutOk(w, n)
  BY <1>1, <1>2 DEF OutOk, Msg, Some, First
<1>4. WaitOk(w) /\ SidesOk(w)
  BY <1>1 DEF WaitOk, SidesOk
<1> QED
  BY <1>1, <1>2, <1>3, <1>4 DEF Life

\* The server's open is accepted.
LEMMA LifeAccepted ==
  ASSUME NEW v, NEW w, Typed(v), Life(v), NEW m \in v.in, m.type = "open", NEW a, NEW d,
         w.in \subseteq v.in, \A n \in w.in : n.type \notin First,
         a.type = "confirm", w.out = v.out \cup {a},
         d.cid = a.cid, d.sid = m.sid, ~d.clientClosed, ~d.serverClosed,
         w.entries = v.entries \cup {d},
         w.handle.state = "idle", w.handle.cid = a.cid, w.handle.sid = m.sid,
         w.wait = v.wait, w.told = v.told,
         w.events = v.events, w.peer = v.peer, w.plan = v.plan
  PROVE  Life(w)
<1>1. /\ v.peer.state = "asked" /\ v.peer.sid = m.sid
      /\ v.entries = {} /\ v.events = {} /\ v.out = {} /\ v.wait.for \notin {"open", "reply"}
      /\ \A n \in v.in : n.type = "open"
  BY Offered
<1>2. w.in = {} /\ w.out = {a} /\ Some(w.out, "confirm")
  BY <1>1 DEF First, Some
<1>3. w.entries = {d}
  BY <1>1
<1>4. EntryOk(w, d)
  BY <1>1, <1>2 DEF EntryOk
<1>5. \A n \in w.out : OutOk(w, n)
  BY <1>1, <1>2, <1>3 DEF OutOk, First
<1>6. WaitOk(w) /\ SidesOk(w)
  BY <1>1, <1>3 DEF WaitOk, SidesOk
<1> QED
  BY <1>1, <1>2, <1>3, <1>4, <1>5, <1>6 DEF Life

\* Session::channel_open queues its event.
LEMMA LifeBorn ==
  ASSUME NEW v, NEW w, Typed(v), Life(v), v.handle = NoOwner, v.peer = NoPeer, NEW e,
         e.type = "open", w.events = v.events \cup {e}, w.handle.state = "opening",
         w.wait = v.wait, w.told = v.told, w.entries = v.entries, w.in = v.in, w.out = v.out,
         w.peer = v.peer, w.plan = v.plan
  PROVE  Life(w) /\ v.events = {}
<1>1. v.handle.state = "none" /\ v.peer.state = "none"
  BY DEF NoOwner, NoPeer
<1>2. v.wait.for # "open"
  BY <1>1 DEF Life, WaitOk, Opening
<1>3. v.entries = {} /\ v.in = {} /\ v.out = {} /\ \A f \in v.events : f.type = "open"
  BY <1>1, <1>2, Fresh
<1>4. v.events = {}
  BY <1>1, <1>3 DEF Life, EventOk, Opening
<1>5. v.wait.for # "reply"
  BY <1>3 DEF Life, WaitOk, Held
<1>6. EventOk(w, e)
  BY <1>1, <1>2 DEF EventOk, Opening
<1>7. WaitOk(w) /\ SidesOk(w)
  BY <1>1, <1>2, <1>5 DEF WaitOk, SidesOk
<1> QED
  BY <1>3, <1>4, <1>6, <1>7 DEF Life

\* A channel with a usable handle is in the table and was not closed from this side.
LEMMA Usable ==
  ASSUME NEW v, Typed(v), Life(v), v.handle.state \in {"idle", "busy"}
  PROVE  /\ Held(v) /\ ~Some(v.events, "close")
         /\ \E d \in v.entries : v.entries = {d} /\ EntryOk(v, d) /\ ~d.clientClosed
<1>1. PICK d \in v.entries : TRUE
  BY DEF Life, SidesOk
<1>2. v.entries = {d} /\ EntryOk(v, d)
  BY <1>1, Owned
<1>3. ~d.clientClosed
  BY <1>2 DEF EntryOk
<1>4. ~Some(v.events, "close")
  BY DEF Life, EventOk, Some
<1> QED
  BY <1>2, <1>3, <1>4 DEF Held

\* A handle's state changes and an event of its is queued, or none: a method is
\* called, or the handle is dropped.
LEMMA LifeHandle ==
  ASSUME NEW v, NEW w, Typed(v), Life(v), v.handle.state \in {"idle", "busy"}, NEW e,
         \/ /\ v.handle.state = "idle" /\ w.handle.state = "busy"
            /\ e.type \in {"eof", "request", "notice"} /\ (e.type = "request" => "request" \in v.plan)
            /\ w.events = v.events \cup {e}
         \/ /\ w.handle.state \in {"closing", "gone"} /\ e.type = "close"
            /\ w.events = v.events \cup {e}
         \/ w.handle.state = "lost" /\ w.events = v.events,
         e.cid = v.handle.cid, e.sid = v.handle.sid,
         w.handle.cid = v.handle.cid, w.handle.sid = v.handle.sid,
         w.wait = v.wait, w.told = v.told, w.entries = v.entries, w.in = v.in, w.out = v.out,
         w.peer = v.peer, w.plan = v.plan
  PROVE  Life(w) /\ ~Some(v.events, "close")
<1>1. PICK d \in v.entries : v.entries = {d} /\ EntryOk(v, d) /\ ~d.clientClosed
  BY Usable
<1>2. /\ v.wait.for # "open" /\ ~Some(v.events, "close")
      /\ ~Some(v.events, "open") /\ ~Some(v.out, "open") /\ ~Some(v.out, "refuse")
      /\ \A m \in v.in : m.type \notin First
  BY <1>1, Owned, Usable
<1>3. Held(w)
  BY <1>1 DEF Held
<1>4. w.handle.state \in {"closing", "gone"} => Some(w.events, "close")
  BY DEF Some
<1>5. EntryOk(w, d)
  BY <1>1, <1>4 DEF EntryOk
<1>6. ASSUME NEW f \in w.events PROVE EventOk(w, f)
  <2>1. CASE f \in v.events
    <3>1. EventOk(v, f) /\ f.type # "open" /\ f.type # "close"
      BY <1>2, <2>1 DEF Life, Some
    <3> QED BY <1>3, <3>1 DEF EventOk
  <2>2. CASE f = e /\ f \notin v.events
    BY <1>3, <2>2 DEF EventOk
  <2> QED BY <2>1, <2>2
<1>7. ASSUME NEW m \in w.out PROVE OutOk(w, m)
  <2>1. OutOk(v, m) /\ m.type # "open" /\ m.type # "refuse"
    BY <1>2 DEF Life, Some
  <2> QED BY <2>1 DEF OutOk, Held, Opening
<1>8. ASSUME NEW m \in w.in PROVE InOk(w, m)
  <2>1. InOk(v, m) /\ m.type \notin First
    BY <1>2 DEF Life
  <2> QED BY <2>1 DEF InOk, Live, First
<1>9. WaitOk(w)
  BY <1>2, <1>3 DEF Life, WaitOk
<1>10. SidesOk(w)
  BY <1>1, <1>4 DEF Life, SidesOk, Live
<1> QED
  BY <1>1, <1>2, <1>5, <1>6, <1>7, <1>8, <1>9, <1>10 DEF Life

\* An open is given up, or a handle dropped whose close() is queued.
LEMMA LifeGivenUp ==
  ASSUME NEW v, NEW w, Typed(v), Life(v),
         \/ v.handle.state = "opening" /\ w.handle.state = "abandoned"
         \/ v.handle.state = "closing" /\ w.handle.state = "gone",
         w.handle.cid = v.handle.cid, w.handle.sid = v.handle.sid,
         w.wait = v.wait, w.told = v.told, w.entries = v.entries, w.in = v.in, w.out = v.out,
         w.events = v.events, w.peer = v.peer, w.plan = v.plan
  PROVE  Life(w)
<1>1. Opening(v) <=> Opening(w)
  BY DEF Opening
<1>2. v.handle.state = "closing" => Some(v.events, "close")
  BY DEF Life, SidesOk
<1>3. \A e \in w.entries : EntryOk(w, e)
  BY <1>2 DEF Life, EntryOk
<1>4. \A e \in w.events : EventOk(w, e)
  BY <1>1 DEF Life, EventOk, Held
<1>5. \A m \in w.out : OutOk(w, m)
  BY <1>1 DEF Life, OutOk, Held
<1>6. \A m \in w.in : InOk(w, m)
  BY DEF Life, InOk, Live
<1>7. WaitOk(w)
  BY <1>1 DEF Life, WaitOk, Held
<1>8. SidesOk(w)
  BY DEF Life, SidesOk, Live
<1> QED
  BY <1>3, <1>4, <1>5, <1>6, <1>7, <1>8 DEF Life

\* Nothing but the open is there of a channel the client wants to open.
LEMMA Requested ==
  ASSUME NEW v, Typed(v), Life(v), NEW m \in v.out, m.type = "open"
  PROVE  /\ v.peer.state = "none" /\ v.wait.for = "open" /\ m.id = v.wait.cid /\ Opening(v)
         /\ v.entries = {} /\ v.events = {} /\ v.in = {}
         /\ \A n \in v.out : n.type = "open"
<1>1. v.peer.state = "none" /\ v.wait.for = "open" /\ m.id = v.wait.cid
  BY DEF Life, OutOk
<1>2. Opening(v)
  BY <1>1 DEF Life, WaitOk
<1>3. v.entries = {}
  BY <1>1 DEF Life, EntryOk
<1>4. v.events = {}
  BY <1>1, <1>3 DEF Life, EventOk, Held
<1>5. v.in = {}
  <2>1. Some(v.out, "open")
    BY DEF Some
  <2> QED BY <1>1, <2>1 DEF Life, InOk, First
<1>6. \A n \in v.out : n.type = "open"
  BY <1>1, <1>2 DEF Life, OutOk, First
<1> QED
  BY <1>1, <1>2, <1>3, <1>4, <1>5, <1>6

\* The server confirms an open.
LEMMA LifeConfirms ==
  ASSUME NEW v, NEW w, Typed(v), Life(v), NEW m \in v.out, m.type = "open", NEW s, NEW c,
         w.out \subseteq v.out, \A n \in w.out : n.type \notin First,
         w.peer = [state |-> "open", sid |-> s, cid |-> m.id],
         c.type = "confirm", c.id = m.id, c.sid = s, w.in = v.in \cup {c},
         w.wait = v.wait, w.told = v.told, w.entries = v.entries, w.handle = v.handle,
         w.events = v.events, w.plan = v.plan
  PROVE  Life(w) /\ v.in = {}
<1>1. /\ v.peer.state = "none" /\ v.wait.for = "open" /\ m.id = v.wait.cid /\ Opening(v)
      /\ v.entries = {} /\ v.events = {} /\ v.in = {}
      /\ \A n \in v.out : n.type = "open"
  BY Requested
<1>2. w.out = {} /\ w.in = {c} /\ Some(w.in, "confirm")
  BY <1>1 DEF First, Some
<1>3. InOk(w, c)
  BY <1>1 DEF InOk, First
<1>4. WaitOk(w) /\ SidesOk(w)
  BY <1>1, <1>2 DEF WaitOk, SidesOk, Opening
<1> QED
  BY <1>1, <1>2, <1>3, <1>4 DEF Life

\* The server refuses an open.
LEMMA LifeRefuses ==
  ASSUME NEW v, NEW w, Typed(v), Life(v), NEW m \in v.out, m.type = "open", NEW c,
         w.out \subseteq v.out, \A n \in w.out : n.type \notin First,
         c.type = "refuse", w.in = v.in \cup {c}, w.peer = v.peer,
         w.wait = v.wait, w.told = v.told, w.entries = v.entries, w.handle = v.handle,
         w.events = v.events, w.plan = v.plan
  PROVE  Life(w) /\ v.in = {}
<1>1. /\ v.peer.state = "none" /\ v.wait.for = "open" /\ m.id = v.wait.cid /\ Opening(v)
      /\ v.entries = {} /\ v.events = {} /\ v.in = {}
      /\ \A n \in v.out : n.type = "open"
  BY Requested
<1>2. w.out = {} /\ w.in = {c}
  BY <1>1 DEF First
<1>3. InOk(w, c)
  BY <1>1, <1>2 DEF InOk, First, Some
<1>4. WaitOk(w) /\ SidesOk(w)
  BY <1>1, <1>2 DEF WaitOk, SidesOk, Opening
<1> QED
  BY <1>1, <1>2, <1>3, <1>4 DEF Life

\* The server opens a channel.
LEMMA LifeAsks ==
  ASSUME NEW v, NEW w, Typed(v), Life(v), v.handle = NoOwner, v.peer = NoPeer, NEW c, NEW s, NEW n,
         w.peer = [state |-> "asked", sid |-> s, cid |-> n],
         c.type = "open", c.sid = s, w.in = v.in \cup {c}, w.out = v.out,
         w.wait = v.wait, w.told = v.told, w.entries = v.entries, w.handle = v.handle,
         w.events = v.events, w.plan = v.plan
  PROVE  Life(w) /\ v.in = {}
<1>1. v.handle.state = "none" /\ v.peer.state = "none"
  BY DEF NoOwner, NoPeer
<1>2. v.wait.for # "open"
  BY <1>1 DEF Life, WaitOk, Opening
<1>3. v.entries = {} /\ v.in = {} /\ v.out = {} /\ \A f \in v.events : f.type = "open"
  BY <1>1, <1>2, Fresh
<1>4. v.events = {}
  BY <1>1, <1>3 DEF Life, EventOk, Opening
<1>5. v.wait.for # "reply"
  BY <1>3 DEF Life, WaitOk, Held
<1>6. InOk(w, c)
  BY <1>1 DEF InOk, First
<1>7. WaitOk(w) /\ SidesOk(w)
  BY <1>1, <1>2, <1>5 DEF WaitOk, SidesOk
<1> QED
  BY <1>3, <1>4, <1>6, <1>7 DEF Life

\* The client's confirmation reaches the server.
LEMMA LifeConfirmed ==
  ASSUME NEW v, NEW w, Typed(v), Life(v), NEW m \in v.out, m.type = "confirm",
         w.out \subseteq v.out, v.out \subseteq w.out \cup {m}, \A n \in w.out : n.type \notin First,
         w.peer.state = "open", w.peer.sid = v.peer.sid, w.peer.cid = m.cid, w.in = v.in,
         w.wait = v.wait, w.told = v.told, w.entries = v.entries, w.handle = v.handle,
         w.events = v.events, w.plan = v.plan
  PROVE  Life(w)
<1>1. v.peer.state = "asked" /\ v.entries # {} /\ m.cid = v.handle.cid
  BY DEF Life, OutOk
<1>2. PICK d \in v.entries : TRUE
  BY <1>1
<1>3. /\ v.entries = {d} /\ EntryOk(v, d) /\ v.wait.for # "open"
      /\ ~Some(v.events, "open") /\ \A n \in v.in : n.type \notin First
  BY <1>2, Owned
<1>4. v.in = {}
  BY <1>1, <1>3 DEF Life, InOk
<1>5. ~d.serverClosed /\ d.cid = m.cid
  BY <1>1, <1>3 DEF EntryOk
<1>6. Some(v.out, "close") => Some(w.out, "close")
  BY DEF Some
<1>7. EntryOk(w, d)
  BY <1>1, <1>3, <1>5, <1>6 DEF EntryOk
<1>8. ASSUME NEW e \in w.events PROVE EventOk(w, e)
  <2>1. EventOk(v, e) /\ e.type # "open"
    BY <1>3 DEF Life, Some
  <2> QED BY <2>1 DEF EventOk, Held
<1>9. ASSUME NEW n \in w.out PROVE OutOk(w, n)
  <2>1. OutOk(v, n) /\ n.type \notin First
    BY DEF Life
  <2> QED BY <2>1 DEF OutOk, InUse, Held, Opening, First
<1>10. WaitOk(w)
  BY <1>3 DEF Life, WaitOk, Held
<1>11. SidesOk(w)
  BY <1>2, <1>3, <1>5 DEF Life, SidesOk, Live
<1> QED
  BY <1>3, <1>4, <1>7, <1>8, <1>9, <1>10, <1>11 DEF Life

\* The client's refusal reaches the server.
LEMMA LifeDenied ==
  ASSUME NEW v, NEW w, Typed(v), Life(v), NEW m \in v.out, m.type = "refuse",
         w.out \subseteq v.out, \A n \in w.out : n.type \notin First,
         w.peer.state = "gone", w.in = v.in,
         w.wait = v.wait, w.told = v.told, w.entries = v.entries, w.handle = v.handle,
         w.events = v.events, w.plan = v.plan
  PROVE  Life(w)
<1>1. v.peer.state = "asked" /\ v.handle.state = "none" /\ ~Some(v.in, "open")
  BY DEF Life, OutOk
<1>2. v.entries = {}
  BY <1>1 DEF Life, EntryOk
<1>3. v.events = {}
  BY <1>1, <1>2 DEF Life, EventOk, Held, Opening
<1>4. w.out = {}
  BY <1>1 DEF Life, OutOk
<1>5. v.wait.for \notin {"open", "reply"}
  BY <1>1, <1>2 DEF Life, WaitOk, Opening, Held
<1>6. v.in = {}
  BY <1>1, <1>5 DEF Life, InOk, First, Some
<1>7. WaitOk(w) /\ SidesOk(w)
  BY <1>1, <1>5 DEF WaitOk, SidesOk
<1> QED
  BY <1>2, <1>3, <1>4, <1>6, <1>7 DEF Life

\* The client's CLOSE reaches the server, which answers it unless it has closed
\* already.
LEMMA LifeCloseReceived ==
  ASSUME NEW v, NEW w, Typed(v), Life(v), NEW m \in v.out, m.type = "close", NEW c,
         w.out \subseteq v.out, \A n \in w.out : n.type = "failure",
         v.out \subseteq w.out \cup {m},
         w.peer.state = "gone", w.peer.sid = v.peer.sid, w.peer.cid = v.peer.cid,
         c.type = "close", c.id = v.peer.cid,
         w.in = IF v.peer.state = "open" THEN v.in \cup {c} ELSE v.in,
         w.wait = v.wait, w.told = v.told, w.entries = v.entries, w.handle = v.handle,
         w.events = v.events, w.plan = v.plan
  PROVE  Life(w) /\ v.peer.state \in {"open", "closing"} /\ m.id = v.peer.sid
         /\ ~Some(v.in, "confirm")
<1>1. /\ InUse(v.peer) /\ ~Held(v) /\ m.id = v.peer.sid
      /\ v.handle.state # "none" /\ ~Opening(v)
      /\ (v.peer.state = "asked" => Some(v.out, "confirm"))
  BY DEF Life, OutOk, First
<1>2. ~Some(v.out, "confirm")
  BY DEF Some
<1>3. v.peer.state \in {"open", "closing"}
  BY <1>1, <1>2 DEF InUse
<1>4. v.wait.for \notin {"open", "reply"}
  BY <1>1 DEF Life, WaitOk
<1>5. \A n \in v.in : n.type \notin First
  BY <1>3, <1>4 DEF Life, InOk, First
<1>6. v.events = {}
  BY <1>1 DEF Life, EventOk
<1>7. v.peer.state = "open" => Some(w.in, "close")
  BY DEF Some
<1>8. \A x : Some(v.in, x) => Some(w.in, x)
  BY DEF Some
<1>9. ~Some(v.in, "confirm")
  BY <1>5 DEF Some, First
<1>10. ASSUME NEW e \in w.entries PROVE EntryOk(w, e)
  <2>1. EntryOk(v, e) /\ e.clientClosed
    BY <1>1 DEF Life, Held
  <2> QED BY <1>3, <1>7, <1>8, <2>1 DEF EntryOk
<1>11. ASSUME NEW n \in w.out PROVE OutOk(w, n)
  <2>1. OutOk(v, n) /\ n.type = "failure"
    BY DEF Life
  <2> QED BY <2>1 DEF OutOk, Opening, First
<1>12. ASSUME NEW n \in w.in PROVE InOk(w, n)
  <2>1. CASE n \in v.in
    <3>1. InOk(v, n) /\ n.type \notin First
      BY <1>5, <2>1 DEF Life
    <3> QED BY <1>8, <3>1 DEF InOk, Live, First
  <2>2. CASE n = c /\ v.peer.state = "open"
    <3>1. Live(v)
      BY <1>9, <2>2 DEF Life, SidesOk
    <3> QED BY <2>2, <3>1 DEF InOk, Live, First
  <2> QED BY <2>1, <2>2
<1>13. WaitOk(w)
  BY <1>4 DEF WaitOk
<1>14. SidesOk(w)
  BY <1>6 DEF Life, SidesOk
<1> QED
  BY <1>1, <1>3, <1>6, <1>9, <1>10, <1>11, <1>12, <1>13, <1>14 DEF Life

\* The server reads a message that changes nothing.
LEMMA LifeReceived ==
  ASSUME NEW v, NEW w, Typed(v), Life(v), NEW m, m.type \in {"request", "notice", "eof", "failure"},
         w.out \subseteq v.out, v.out \subseteq w.out \cup {m}, w.in = v.in, w.peer = v.peer,
         w.wait = v.wait, w.told = v.told, w.entries = v.entries, w.handle = v.handle,
         w.events = v.events, w.plan = v.plan
  PROVE  Life(w)
<1>1. \A t \in {"open", "confirm", "close"} : Some(v.out, t) <=> Some(w.out, t)
  BY DEF Some
<1>2. \A e \in w.entries : EntryOk(w, e)
  BY <1>1 DEF Life, EntryOk
<1>3. \A e \in w.events : EventOk(w, e)
  BY DEF Life, EventOk, Opening, Held
<1>4. \A n \in w.out : OutOk(w, n)
  BY <1>1 DEF Life, OutOk, Opening, Held
<1>5. \A n \in w.in : InOk(w, n)
  BY <1>1 DEF Life, InOk, Live
<1>6. WaitOk(w)
  BY DEF Life, WaitOk, Opening, Held
<1>7. SidesOk(w)
  BY <1>1 DEF Life, SidesOk, Live
<1> QED
  BY <1>2, <1>3, <1>4, <1>5, <1>6, <1>7 DEF Life

\* The server says something about an open channel, or closes it.
LEMMA LifeTalks ==
  ASSUME NEW v, NEW w, Typed(v), Life(v), v.peer.state = "open", NEW c, c.id = v.peer.cid,
         \/ /\ c.type \in {"data", "eof", "ask", "success", "failure"}
            /\ c.type = "ask" => "serverAsk" \in v.plan
            /\ w.peer = v.peer
         \/ /\ c.type = "close" /\ "serverClose" \in v.plan
            /\ w.peer.state = "closing" /\ w.peer.sid = v.peer.sid /\ w.peer.cid = v.peer.cid,
         w.in = v.in \cup {c}, w.out = v.out,
         w.wait = v.wait, w.told = v.told, w.entries = v.entries, w.handle = v.handle,
         w.events = v.events, w.plan = v.plan
  PROVE  Life(w) /\ ~Some(v.in, "close")
<1>1. Live(v) \/ Some(v.in, "confirm")
  BY DEF Life, SidesOk
<1>2. ~Some(v.in, "close")
  BY DEF Life, InOk, Some
<1>3. \A t : Some(v.in, t) => Some(w.in, t)
  BY DEF Some
<1>4. \A t \in First : Some(w.in, t) => Some(v.in, t)
  BY DEF Some, First
<1>5. w.peer.state = "closing" => Some(w.in, "close")
  BY DEF Some
<1>6. w.peer.state \in {"open", "closing"} /\ w.peer.sid = v.peer.sid /\ w.peer.cid = v.peer.cid
  OBVIOUS
<1>7. ASSUME NEW e \in w.entries PROVE EntryOk(w, e)
  <2>1. EntryOk(v, e)
    BY DEF Life
  <2> QED BY <1>3, <1>5, <1>6, <2>1 DEF EntryOk
<1>8. ASSUME NEW e \in w.events PROVE EventOk(w, e)
  <2>1. EventOk(v, e)
    BY DEF Life
  <2> QED BY <2>1 DEF EventOk, Held, Opening
<1>9. ASSUME NEW n \in w.out PROVE OutOk(w, n)
  <2>1. OutOk(v, n)
    BY DEF Life
  <2> QED BY <1>6, <2>1 DEF OutOk, Held, Opening, InUse
<1>10. ASSUME NEW n \in w.in PROVE InOk(w, n)
  <2>1. CASE n \in v.in
    <3>1. InOk(v, n)
      BY <2>1 DEF Life
    <3> QED BY <1>3, <1>5, <1>6, <3>1 DEF InOk, Live
  <2>2. CASE n = c
    BY <1>1, <1>3, <1>6, <2>2 DEF InOk, Live, First
  <2> QED BY <2>1, <2>2
<1>11. WaitOk(w)
  BY <1>3, <1>6 DEF Life, WaitOk, Held, Opening
<1>12. SidesOk(w)
  <2>1. Live(v) => w.entries # {}
    BY DEF Live
  <2>2. Live(w) \/ Some(w.in, "confirm")
    BY <1>1, <1>3 DEF Live
  <2> QED BY <1>1, <1>3, <1>6, <2>1, <2>2 DEF Life, SidesOk
<1> QED
  BY <1>2, <1>7, <1>8, <1>9, <1>10, <1>11, <1>12 DEF Life

-----------------------------------------------------------------------------
(* Steps and Views.                                                        *)

\* What a View shows.
LEMMA Shown ==
  ASSUME NEW k, NEW v, v = View(k)
  PROVE  /\ v.handle = handles[k] /\ v.peer = server[k] /\ v.told = told[k]
         /\ v.events = On(events, k) /\ v.in = On(toClient, k) /\ v.out = On(toServer, k)
         /\ v.entries = On(table, k) /\ v.plan = plan
         /\ v.wait = IF wait.chan = k THEN wait ELSE Idle
  BY DEF View

\* What a View shows after a step.
LEMMA ShownNext ==
  ASSUME NEW k, NEW w, w = View(k)'
  PROVE  /\ w.handle = handles'[k] /\ w.peer = server'[k] /\ w.told = told'[k]
         /\ w.events = On(events', k) /\ w.in = On(toClient', k) /\ w.out = On(toServer', k)
         /\ w.entries = On(table', k) /\ w.plan = plan'
         /\ w.wait = IF wait'.chan = k THEN wait' ELSE Idle
  BY DEF View

\* A channel that a step does not concern.
LEMMA Unconcerned ==
  ASSUME NEW k, handles'[k] = handles[k], server'[k] = server[k], told'[k] = told[k],
         On(events', k) = On(events, k), On(toClient', k) = On(toClient, k),
         On(toServer', k) = On(toServer, k), On(table', k) = On(table, k), plan' = plan,
         (IF wait'.chan = k THEN wait' ELSE Idle) = (IF wait.chan = k THEN wait ELSE Idle)
  PROVE  View(k)' = View(k)
  BY DEF View

\* A View has types.
LEMMA ViewTyped ==
  ASSUME TypeOK, NEW k \in Channels
  PROVE  Typed(View(k))
<1>1. PICK v : v = View(k)
  OBVIOUS
<1>2. /\ Range(table) \subseteq Entries /\ Range(events) \subseteq Events
      /\ Range(toClient) \subseteq ToClient /\ Range(toServer) \subseteq ToServer
  BY Placed DEF TypeOK
<1>3. handles[k].state \in HandleStates /\ server[k].state \in PeerStates
  BY DEF TypeOK
<1>4. Typed(v)
  BY <1>1, <1>2, <1>3, Shown DEF Typed, On
<1> QED
  BY <1>1, <1>4

\* A step that concerns one channel.
LEMMA OneChannel ==
  ASSUME LifeInv, NEW k \in Channels, \A j \in Channels : j # k => View(j)' = View(j),
         Life(View(k)')
  PROVE  (\A j \in Channels : Life(View(j)))'
<1> SUFFICES ASSUME NEW j \in Channels PROVE Life(View(j))'
  OBVIOUS
<1>1. PICK w : w = View(j)'
  OBVIOUS
<1>2. Life(w)
  BY <1>1 DEF LifeInv
<1> QED
  BY <1>1, <1>2

\* The event queue when an event has been taken.
LEMMA TakenFrom ==
  ASSUME TypeOK, LifeInv, NEW type, type # "clean", Takes(type), NEW e, e = Head(events)
  PROVE  /\ e.chan \in Channels /\ e.type = type /\ e.cid \in Nat /\ e.sid \in Ids
         /\ e \in On(events, e.chan) /\ wait = Idle
         /\ \A j : j # e.chan => On(events', j) = On(events, j)
         /\ On(events', e.chan) \subseteq On(events, e.chan)
         /\ On(events, e.chan) \subseteq On(events', e.chan) \cup {e}
         /\ \A f \in On(events', e.chan) : f.type \notin First /\ type # "close"
         /\ InTurn(events', {})
<1>1. /\ e.chan \in Channels /\ e.type = type /\ e.cid \in Nat /\ e.sid \in Ids /\ wait = Idle
      /\ events # <<>> /\ events' = Tail(events)
  BY EventTaken
<1>2. events \in Seq(Events) /\ InTurn(events, {})
  BY DEF TypeOK, LifeInv
<1>3. /\ e \in On(events, e.chan)
      /\ \A j : j # e.chan => On(events', j) = On(events, j)
      /\ On(events', e.chan) \subseteq On(events, e.chan)
      /\ On(events, e.chan) \subseteq On(events', e.chan) \cup {e}
  BY <1>1, <1>2, OnPopped
<1>4. /\ InTurn(events', {})
      /\ \A f \in On(events', e.chan) : f.type \notin First /\ e.type # "close"
  <2>1. events # <<>> /\ events' = Tail(events)
    BY <1>1
  <2>2. /\ InTurn(Tail(events), {})
        /\ \A f \in On(Tail(events), Head(events).chan) :
             f.type \notin First /\ (Head(events).type = "close" => f.type \in {})
    BY <2>1, <1>2, InTurnPopped
  <2> QED BY <2>1, <2>2
<1> QED
  BY <1>1, <1>3, <1>4

\* The messages to the client when one has been read.
LEMMA HeardFrom ==
  ASSUME TypeOK, LifeInv, toClient # <<>>, toClient' = Tail(toClient), NEW m, m = Head(toClient)
  PROVE  /\ m \in ToClient /\ m.chan \in Channels /\ m \in On(toClient, m.chan)
         /\ \A j : j # m.chan => On(toClient', j) = On(toClient, j)
         /\ On(toClient', m.chan) \subseteq On(toClient, m.chan)
         /\ On(toClient, m.chan) \subseteq On(toClient', m.chan) \cup {m}
         /\ \A n \in On(toClient', m.chan) : n.type \notin First /\ m.type # "close"
         /\ InTurn(toClient', {}) /\ NumbersInTurn(toClient', server)
<1>1. toClient \in Seq(ToClient) /\ InTurn(toClient, {}) /\ NumbersInTurn(toClient, server)
  BY DEF TypeOK, LifeInv
<1>2. m \in ToClient
  BY <1>1, Popped
<1>3. /\ m \in On(toClient, m.chan)
      /\ \A j : j # m.chan => On(toClient', j) = On(toClient, j)
      /\ On(toClient', m.chan) \subseteq On(toClient, m.chan)
      /\ On(toClient, m.chan) \subseteq On(toClient', m.chan) \cup {m}
  BY <1>1, OnPopped
<1>4. /\ InTurn(toClient', {})
      /\ \A n \in On(toClient', m.chan) : n.type \notin First /\ m.type # "close"
  BY <1>1, InTurnPopped
<1>5. NumbersInTurn(toClient', server)
  BY <1>1, NumbersPopped
<1> QED
  BY <1>2, <1>3, <1>4, <1>5, ClientMessage

\* The messages to the server when one has been read.
LEMMA ReadFrom ==
  ASSUME TypeOK, LifeInv, toServer # <<>>, toServer' = Tail(toServer), NEW m, m = Head(toServer)
  PROVE  /\ m \in ToServer /\ m.chan \in Channels /\ m \in On(toServer, m.chan)
         /\ \A j : j # m.chan => On(toServer', j) = On(toServer, j)
         /\ On(toServer', m.chan) \subseteq On(toServer, m.chan)
         /\ On(toServer, m.chan) \subseteq On(toServer', m.chan) \cup {m}
         /\ \A n \in On(toServer', m.chan) :
              n.type \notin First /\ (m.type = "close" => n.type = "failure")
         /\ InTurn(toServer', {"failure"})
<1>1. toServer \in Seq(ToServer) /\ InTurn(toServer, {"failure"})
  BY DEF TypeOK, LifeInv
<1>2. m \in ToServer
  BY <1>1, Popped
<1>3. /\ m \in On(toServer, m.chan)
      /\ \A j : j # m.chan => On(toServer', j) = On(toServer, j)
      /\ On(toServer', m.chan) \subseteq On(toServer, m.chan)
      /\ On(toServer, m.chan) \subseteq On(toServer', m.chan) \cup {m}
  BY <1>1, OnPopped
<1>4. /\ InTurn(toServer', {"failure"})
      /\ \A n \in On(toServer', m.chan) :
           n.type \notin First /\ (m.type = "close" => n.type \in {"failure"})
  BY <1>1, InTurnPopped
<1> QED
  BY <1>2, <1>3, <1>4, ServerMessage

\* The messages to the server when one has been sent.
LEMMA SentTo ==
  ASSUME TypeOK, LifeInv, NEW m \in ToServer, toServer' = Append(toServer, m),
         m.type \in First => On(toServer, m.chan) = {},
         Some(On(toServer, m.chan), "close") => m.type = "failure"
  PROVE  /\ \A j : j # m.chan => On(toServer', j) = On(toServer, j)
         /\ On(toServer', m.chan) = On(toServer, m.chan) \cup {m}
         /\ InTurn(toServer', {"failure"})
<1>1. toServer \in Seq(ToServer) /\ InTurn(toServer, {"failure"})
  BY DEF TypeOK, LifeInv
<1>2. \A j : On(toServer', j) = IF j = m.chan THEN On(toServer, j) \cup {m} ELSE On(toServer, j)
  BY <1>1, OnPushed
<1>3. InTurn(toServer', {"failure"})
  BY <1>1, InTurnPushed
<1> QED
  BY <1>2, <1>3

\* The messages to the client when one has been sent.
LEMMA ToldTo ==
  ASSUME TypeOK, LifeInv, NEW m \in ToClient, toClient' = Append(toClient, m),
         m.type \in First => On(toClient, m.chan) = {},
         ~Some(On(toClient, m.chan), "close")
  PROVE  /\ \A j : j # m.chan => On(toClient', j) = On(toClient, j)
         /\ On(toClient', m.chan) = On(toClient, m.chan) \cup {m}
         /\ InTurn(toClient', {})
<1>1. toClient \in Seq(ToClient) /\ InTurn(toClient, {})
  BY DEF TypeOK, LifeInv
<1>2. \A j : On(toClient', j) = IF j = m.chan THEN On(toClient, j) \cup {m} ELSE On(toClient, j)
  BY <1>1, OnPushed
<1>3. InTurn(toClient', {})
  BY <1>1, InTurnPushed
<1> QED
  BY <1>2, <1>3

\* The event queue when an event has been queued.
LEMMA QueuedAt ==
  ASSUME TypeOK, LifeInv, NEW e \in Events, events' = Append(events, e),
         e.type \in First => On(events, e.chan) = {},
         ~Some(On(events, e.chan), "close")
  PROVE  /\ \A j : j # e.chan => On(events', j) = On(events, j)
         /\ On(events', e.chan) = On(events, e.chan) \cup {e}
         /\ InTurn(events', {})
<1>1. events \in Seq(Events) /\ InTurn(events, {})
  BY DEF TypeOK, LifeInv
<1>2. \A j : On(events', j) = IF j = e.chan THEN On(events, j) \cup {e} ELSE On(events, j)
  BY <1>1, OnPushed
<1>3. InTurn(events', {})
  BY <1>1, InTurnPushed
<1> QED
  BY <1>2, <1>3

-----------------------------------------------------------------------------
(* The actions, on the Views.                                              *)

\* The View of a channel is in order.
LEMMA Seen ==
  ASSUME TypeOK, LifeInv, NEW k \in Channels, NEW v, v = View(k)
  PROVE  /\ Typed(v) /\ Life(v)
         /\ v.handle = handles[k] /\ v.peer = server[k] /\ v.told = told[k]
         /\ v.events = On(events, k) /\ v.in = On(toClient, k) /\ v.out = On(toServer, k)
         /\ v.entries = On(table, k) /\ v.plan = plan
         /\ v.wait = IF wait.chan = k THEN wait ELSE Idle
<1>1. Life(View(k))
  BY DEF LifeInv
<1>2. Typed(View(k))
  BY ViewTyped
<1> QED
  BY <1>1, <1>2, Shown

\* What a step that concerns one channel has to keep.
LEMMA StepLife ==
  ASSUME LifeInv, NEW k \in Channels, plan' = plan,
         born' = born \/ (born \in Nat /\ born' = born + 1),
         \/ handles[k].state # "none" \/ server[k].state # "none"
         \/ handles'[k] = handles[k] /\ server'[k] = server[k]
         \/ k = born',
         \A j \in Channels : j # k =>
           /\ handles'[j] = handles[j] /\ server'[j] = server[j] /\ told'[j] = told[j]
           /\ On(events', j) = On(events, j) /\ On(toClient', j) = On(toClient, j)
           /\ On(toServer', j) = On(toServer, j) /\ On(table', j) = On(table, j),
         wait' = wait \/ (wait.chan \in {k, None} /\ wait'.chan \in {k, None}),
         Life(View(k)'),
         NumbersApart(server'), InTurn(events', {}), InTurn(toClient', {}),
         InTurn(toServer', {"failure"}), NumbersInTurn(toClient', server'),
         astray' => "serverAsk" \in plan
  PROVE  LifeInv'
<1>1. ASSUME NEW j \in Channels, j # k PROVE View(j)' = View(j)
  <2>1. j # None
    BY DEF Channels, None
  <2>2. (IF wait'.chan = j THEN wait' ELSE Idle) = (IF wait.chan = j THEN wait ELSE Idle)
    BY <1>1, <2>1
  <2> QED BY <1>1, <2>2, Unconcerned
<1>2. (\A j \in Channels : Life(View(j)))'
  BY <1>1, OneChannel
<1>3. ASSUME NEW j \in Channels, j > born' PROVE handles'[j] = NoOwner /\ server'[j] = NoPeer
  <2>1. j > born /\ j # born'
    BY <1>3 DEF Channels
  <2>2. handles[j] = NoOwner /\ server[j] = NoPeer
    BY <2>1 DEF LifeInv
  <2>3. handles[j].state = "none" /\ server[j].state = "none"
    BY <2>2 DEF NoOwner, NoPeer
  <2> QED BY <2>1, <2>2, <2>3
<1> QED
  BY <1>2, <1>3 DEF LifeInv

\* channel_open_*: the wait for the confirmation begins.
LEMMA OpenLife ==
  ASSUME OrderInv, LifeInv, ChannelOpen
  PROVE  LifeInv'
<1>1. PICK e : e = Head(events)
  OBVIOUS
<1>2. PICK c : c = NextChannelId
  OBVIOUS
<1>3. TypeOK /\ table \in Seq(Entries) /\ Sorted(table)
  BY DEF OrderInv, TypeOK
<1>4. c \in Nat
  BY <1>2, <1>3, NextIsNew
<1>5. /\ Takes("open") /\ toServer' = Append(toServer, Msg("open", c, e.chan))
      /\ wait' = [for |-> "open", cid |-> c, chan |-> e.chan]
      /\ UNCHANGED <<table, handles, told, toClient, server, born, plan, astray>>
  BY <1>1, <1>2 DEF ChannelOpen, Say
<1>6. /\ e.chan \in Channels /\ e.type = "open" /\ e \in On(events, e.chan) /\ wait = Idle
      /\ \A j : j # e.chan => On(events', j) = On(events, j)
      /\ On(events', e.chan) \subseteq On(events, e.chan)
      /\ \A f \in On(events', e.chan) : f.type \notin First
      /\ InTurn(events', {})
  BY <1>1, <1>3, <1>5, TakenFrom
<1>7. PICK k : k = e.chan
  OBVIOUS
<1>8. PICK v : v = View(k)
  OBVIOUS
<1>9. PICK w : w = View(k)'
  OBVIOUS
<1>10. PICK m : m = Msg("open", c, k)
  OBVIOUS
<1>11. m \in ToServer /\ m.chan = k /\ m.type = "open"
  BY <1>4, <1>6, <1>7, <1>10, Messages DEF Msg
<1>12. /\ Typed(v) /\ Life(v) /\ v.events = On(events, k) /\ v.out = On(toServer, k)
       /\ v.wait.for = "none"
  BY <1>3, <1>6, <1>7, <1>8, Seen DEF Idle
<1>13. v.out = {}
  <2>1. v.handle.state \in {"opening", "abandoned"} /\ v.peer.state = "none"
    BY <1>6, <1>7, <1>12 DEF Life, EventOk, Opening
  <2> QED BY <1>12, <2>1, Fresh
<1>14. /\ \A j : j # k => On(toServer', j) = On(toServer, j)
       /\ On(toServer', k) = On(toServer, k) \cup {m}
       /\ InTurn(toServer', {"failure"})
  <2>1. ~Some(On(toServer, k), "close")
    BY <1>12, <1>13 DEF Some
  <2> QED BY <1>3, <1>5, <1>7, <1>10, <1>11, <1>12, <1>13, <2>1, SentTo
<1>15. Life(w)
  <2>1. Some(v.events, "open") /\ ~Some(w.events, "open")
    BY <1>6, <1>7, <1>9, <1>12, ShownNext DEF Some, First
  <2>2. w.wait = [for |-> "open", cid |-> c, chan |-> k]
    BY <1>5, <1>7, <1>9, ShownNext
  <2>3. /\ w.events \subseteq v.events /\ w.out = v.out \cup {Msg("open", c, k)}
        /\ w.handle = v.handle /\ w.peer = v.peer /\ w.told = v.told /\ w.in = v.in
        /\ w.entries = v.entries /\ w.plan = v.plan
    BY <1>5, <1>6, <1>7, <1>8, <1>9, <1>10, <1>14, Shown, ShownNext
  <2> QED BY <1>12, <2>1, <2>2, <2>3, LifeOpenTaken
<1>16. wait.chan = None /\ wait'.chan = k /\ k \in Channels
  BY <1>5, <1>6, <1>7 DEF Idle
<1>17. /\ NumbersApart(server') /\ InTurn(toClient', {}) /\ NumbersInTurn(toClient', server')
       /\ astray' => "serverAsk" \in plan
  BY <1>5 DEF LifeInv
<1> QED
  BY <1>5, <1>6, <1>7, <1>9, <1>14, <1>15, <1>16, <1>17, StepLife

\* An event about a channel that has not been closed from this side.
LEMMA TakenLife ==
  ASSUME TypeOK, LifeInv, NEW t \in {"eof", "request", "notice"}, Takes(t),
         NEW e, e = Head(events), toServer' = Append(toServer, Msg(t, e.sid, e.chan)),
         wait' = IF t = "request" THEN [for |-> "reply", cid |-> e.cid, chan |-> e.chan] ELSE wait,
         \/ handles' = handles
         \/ handles' = [handles EXCEPT ![e.chan].state = Answered(e.chan)],
         UNCHANGED <<table, told, toClient, server, born, plan, astray>>
  PROVE  LifeInv'
<1>1. /\ e.chan \in Channels /\ e.type = t /\ e \in On(events, e.chan) /\ wait = Idle
      /\ e.cid \in Nat /\ e.sid \in Ids
      /\ \A j : j # e.chan => On(events', j) = On(events, j)
      /\ On(events', e.chan) \subseteq On(events, e.chan)
      /\ On(events, e.chan) \subseteq On(events', e.chan) \cup {e}
      /\ InTurn(events', {})
  BY TakenFrom
<1>2. PICK k : k = e.chan
  OBVIOUS
<1>3. PICK v : v = View(k)
  OBVIOUS
<1>4. PICK w : w = View(k)'
  OBVIOUS
<1>5. PICK m : m = Msg(t, e.sid, k)
  OBVIOUS
<1>6. m \in ToServer /\ m.chan = k /\ m.type = t
  BY <1>1, <1>2, <1>5, Messages DEF Msg
<1>7. /\ Typed(v) /\ Life(v) /\ v.events = On(events, k) /\ v.out = On(toServer, k)
      /\ v.handle = handles[k] /\ v.wait = Idle /\ v.wait.for = "none" /\ k \in Channels
  BY <1>1, <1>2, <1>3, Seen DEF Idle
<1>8. e \in v.events /\ EventOk(v, e) /\ Held(v)
  BY <1>1, <1>2, <1>7 DEF Life, EventOk
<1>9. ~Some(v.out, "close")
  BY <1>7, <1>8 DEF Life, OutOk, Some
<1>10. /\ \A j : j # k => On(toServer', j) = On(toServer, j)
       /\ On(toServer', k) = On(toServer, k) \cup {m}
       /\ InTurn(toServer', {"failure"})
  <2>1. m.type \notin First
    BY <1>6 DEF First
  <2> QED BY <1>2, <1>5, <1>6, <1>7, <1>9, <2>1, SentTo
<1>11. /\ handles' = handles \/ handles' = [handles EXCEPT ![k].state = Answered(k)]
       /\ \A j \in Channels : j # k => handles'[j] = handles[j]
       /\ handles'[k].cid = handles[k].cid /\ handles'[k].sid = handles[k].sid
       /\ \/ handles'[k].state = handles[k].state
          \/ handles[k].state = "busy" /\ handles'[k].state = "idle"
  <2>1. PICK x : x = Answered(k)
    OBVIOUS
  <2>2. x = handles[k].state \/ (handles[k].state = "busy" /\ x = "idle")
    BY <2>1 DEF Answered
  <2>3. handles' = handles \/ handles' = [handles EXCEPT ![k].state = x]
    BY <1>2, <2>1
  <2>4. handles \in [Channels -> [state : HandleStates, cid : Nat, sid : Ids]]
    BY DEF TypeOK
  <2> QED BY <1>7, <2>1, <2>2, <2>3, <2>4
<1>12. Life(w)
  <2>1. \/ e.type = "request" /\ w.wait.for = "reply" /\ w.wait.cid = e.cid
        \/ e.type # "request" /\ w.wait = v.wait
    <3>1. CASE t = "request"
      BY <1>1, <1>2, <1>4, <3>1, ShownNext
    <3>2. CASE t # "request"
      BY <1>1, <1>4, <1>7, <3>2, ShownNext
    <3> QED BY <3>1, <3>2
  <2>2. /\ w.events \subseteq v.events /\ v.events \subseteq w.events \cup {e}
        /\ w.out = v.out \cup {m}
        /\ w.handle = handles'[k] /\ w.peer = v.peer /\ w.told = v.told /\ w.in = v.in
        /\ w.entries = v.entries /\ w.plan = v.plan
    BY <1>1, <1>2, <1>3, <1>4, <1>5, <1>10, Shown, ShownNext
  <2>3. w.handle.cid = v.handle.cid /\ w.handle.sid = v.handle.sid
    BY <1>7, <1>11, <2>2
  <2>4. \/ w.handle.state = v.handle.state
        \/ v.handle.state = "busy" /\ w.handle.state = "idle"
    BY <1>7, <1>11, <2>2
  <2>5. /\ Typed(v) /\ Life(v) /\ e \in v.events /\ v.wait.for = "none"
        /\ e.type \in {"eof", "request", "notice"} /\ m.type = e.type /\ m.id = e.sid
    BY <1>1, <1>5, <1>6, <1>7, <1>8 DEF Msg
  <2> QED BY <2>1, <2>2, <2>3, <2>4, <2>5, LifeEventTaken
<1>13. wait' = wait \/ (wait.chan \in {k, None} /\ wait'.chan \in {k, None})
  BY <1>1, <1>2 DEF Idle
<1>14. /\ NumbersApart(server') /\ InTurn(toClient', {}) /\ NumbersInTurn(toClient', server')
       /\ astray' => "serverAsk" \in plan
  BY DEF LifeInv
<1>15. handles[k].state # "none"
  <2>1. PICK d \in v.entries : EntryOk(v, d)
    BY <1>7, <1>8 DEF Life, Held
  <2> QED BY <1>7, <2>1 DEF EntryOk
<1> QED
  BY <1>1, <1>2, <1>4, <1>7, <1>10, <1>11, <1>12, <1>13, <1>14, <1>15, StepLife

\* channel_request_* and channel_eof; an eof finds the channel's entry.
LEMMA RequestLife ==
  ASSUME OrderInv, LifeInv, ChannelRequest \/ ChannelNotice \/ ChannelEof
  PROVE  LifeInv'
<1>1. PICK e : e = Head(events)
  OBVIOUS
<1>2. TypeOK /\ table \in Seq(Entries) /\ Sorted(table)
  BY DEF OrderInv, TypeOK
<1>3. CASE ChannelRequest
  <2>1. /\ Takes("request") /\ toServer' = Append(toServer, Msg("request", e.sid, e.chan))
        /\ wait' = [for |-> "reply", cid |-> e.cid, chan |-> e.chan]
        /\ UNCHANGED <<table, handles, told, toClient, server, born, plan, astray>>
    BY <1>1, <1>3 DEF ChannelRequest, Say
  <2> QED BY <1>1, <1>2, <2>1, TakenLife
<1>4. CASE ChannelNotice
  <2>1. /\ Takes("notice") /\ toServer' = Append(toServer, Msg("notice", e.sid, e.chan))
        /\ handles' = [handles EXCEPT ![e.chan].state = Answered(e.chan)]
        /\ UNCHANGED <<table, wait, told, toClient, server, born, plan, astray>>
    BY <1>1, <1>4 DEF ChannelNotice, Say
  <2> QED BY <1>1, <1>2, <2>1, TakenLife
<1>5. CASE ChannelEof
  <2>1. /\ Takes("eof")
        /\ toServer' = IF Matches(e.cid) = {} THEN toServer
                       ELSE Append(toServer, Msg("eof", e.sid, e.chan))
        /\ handles' = [handles EXCEPT ![e.chan].state = Answered(e.chan)]
        /\ UNCHANGED <<table, wait, told, toClient, server, born, plan, astray>>
    BY <1>1, <1>5 DEF ChannelEof
  <2>2. e.chan \in Channels /\ e.type = "eof" /\ e \in On(events, e.chan)
    BY <1>1, <1>2, <2>1, TakenFrom
  <2>3. PICK v : v = View(e.chan)
    OBVIOUS
  <2>4. /\ Life(v) /\ v.events = On(events, e.chan) /\ v.entries = On(table, e.chan)
    BY <1>2, <2>2, <2>3, Seen
  <2>5. EventOk(v, e)
    BY <2>2, <2>4 DEF Life
  <2>6. PICK d \in v.entries : EntryOk(v, d)
    BY <2>2, <2>4, <2>5 DEF Life, EventOk, Held
  <2>7. d.cid = e.cid /\ d \in Range(table)
    BY <2>2, <2>4, <2>5, <2>6 DEF EventOk, EntryOk, On
  <2>8. Matches(e.cid) # {}
    BY <1>2, <2>7, Found
  <2> QED BY <1>1, <1>2, <2>1, <2>8, TakenLife
<1> QED
  BY <1>3, <1>4, <1>5

\* channel_close finds the channel's entry.
LEMMA CloseLife ==
  ASSUME OrderInv, LifeInv, ChannelClose
  PROVE  LifeInv'
<1>1. PICK e : e = Head(events)
  OBVIOUS
<1>2. TypeOK /\ table \in Seq(Entries) /\ Sorted(table)
  BY DEF OrderInv, TypeOK
<1>3. /\ Takes("close")
      /\ IF Matches(e.cid) # {}
         THEN /\ toServer' = Append(toServer, Msg("close", e.sid, e.chan))
              /\ table' = CloseClientSide(Position(e.cid))
         ELSE UNCHANGED <<toServer, table>>
      /\ handles' = [handles EXCEPT ![e.chan].state = "gone"]
      /\ UNCHANGED <<wait, told, toClient, server, born, plan, astray>>
  BY <1>1 DEF ChannelClose, Say
<1>4. /\ e.chan \in Channels /\ e.type = "close" /\ e \in On(events, e.chan) /\ wait = Idle
      /\ e.cid \in Nat /\ e.sid \in Ids
      /\ \A j : j # e.chan => On(events', j) = On(events, j)
      /\ \A f \in On(events', e.chan) : FALSE
      /\ InTurn(events', {})
  BY <1>1, <1>2, <1>3, TakenFrom
<1>5. PICK k : k = e.chan
  OBVIOUS
<1>6. PICK v : v = View(k)
  OBVIOUS
<1>7. PICK w : w = View(k)'
  OBVIOUS
<1>8. PICK m : m = Msg("close", e.sid, k)
  OBVIOUS
<1>9. m \in ToServer /\ m.chan = k /\ m.type = "close" /\ m.type \notin First
  BY <1>4, <1>5, <1>8, Messages DEF Msg, First
<1>10. /\ Typed(v) /\ Life(v) /\ v.events = On(events, k) /\ v.out = On(toServer, k)
       /\ v.entries = On(table, k) /\ v.handle = handles[k] /\ v.wait = Idle
       /\ v.wait.for = "none" /\ k \in Channels
  BY <1>2, <1>4, <1>5, <1>6, Seen DEF Idle
<1>11. e \in v.events /\ EventOk(v, e) /\ Held(v)
  BY <1>4, <1>5, <1>10 DEF Life, EventOk
<1>12. ~Some(v.out, "close")
  BY <1>10, <1>11 DEF Life, OutOk, Some
<1>13. PICK d \in v.entries : EntryOk(v, d)
  BY <1>10, <1>11 DEF Life, Held
<1>14. d.cid = e.cid /\ d \in Range(table) /\ d.chan = k
  BY <1>4, <1>10, <1>11, <1>13 DEF EventOk, EntryOk, On
<1>15. PICK i : i = Position(e.cid)
  OBVIOUS
<1>16. Matches(e.cid) # {} /\ i \in Positions /\ table[i] = d
  BY <1>2, <1>14, <1>15, Found
<1>17. On(table, k) = {d}
  BY <1>10, <1>13 DEF Life
<1>18. PICK f : f = IF d.serverClosed THEN {} ELSE {[d EXCEPT !.clientClosed = TRUE]}
  OBVIOUS
<1>19. Range(table') = (Range(table) \ {d}) \cup f /\ d \in Entries
  BY <1>2, <1>3, <1>15, <1>16, <1>18, ClientSideClosed
<1>20. \A x \in f : x.chan = k
  BY <1>14, <1>18, <1>19 DEF Entries
<1>21. On(table', k) = f /\ \A j : j # k => On(table', j) = On(table, j)
  <2>1. \A x : x \in Range(table') <=> (x \in Range(table) /\ x # d) \/ x \in f
    BY <1>19
  <2>2. \A x \in Range(table) : x.chan = k => x = d
    BY <1>17 DEF On
  <2>3. ASSUME NEW j, j # k PROVE On(table', j) = On(table, j)
    BY <1>14, <1>20, <2>1, <2>3 DEF On
  <2>4. On(table', k) = f
    BY <1>20, <2>1, <2>2 DEF On
  <2> QED BY <2>3, <2>4
<1>22. /\ \A j : j # k => On(toServer', j) = On(toServer, j)
       /\ On(toServer', k) = On(toServer, k) \cup {m}
       /\ InTurn(toServer', {"failure"})
  <2>1. toServer' = Append(toServer, m)
    BY <1>3, <1>5, <1>8, <1>16
  <2> QED BY <1>2, <1>9, <1>10, <1>12, <2>1, SentTo
<1>23. /\ \A j \in Channels : j # k => handles'[j] = handles[j]
       /\ handles'[k].cid = handles[k].cid /\ handles'[k].sid = handles[k].sid
       /\ handles'[k].state = "gone"
  <2>1. handles \in [Channels -> [state : HandleStates, cid : Nat, sid : Ids]]
    BY <1>2 DEF TypeOK
  <2>2. handles' = [handles EXCEPT ![k].state = "gone"]
    BY <1>3, <1>5
  <2> QED BY <1>10, <2>1, <2>2
<1>24. Life(w)
  <2>1. /\ w.events = {} /\ w.wait = v.wait /\ w.out = v.out \cup {Msg("close", e.sid, k)}
        /\ w.entries = f /\ w.handle = handles'[k] /\ w.peer = v.peer /\ w.told = v.told
        /\ w.in = v.in /\ w.plan = v.plan
    BY <1>3, <1>4, <1>5, <1>6, <1>7, <1>8, <1>21, <1>22, Shown, ShownNext
  <2>2. /\ w.handle.cid = v.handle.cid /\ w.handle.sid = v.handle.sid
        /\ w.handle.state = "gone"
    BY <1>10, <1>23, <2>1
  <2>3. w.entries = IF d.serverClosed THEN {} ELSE {[d EXCEPT !.clientClosed = TRUE]}
    BY <1>18, <2>1
  <2>4. Typed(v) /\ Life(v) /\ e \in v.events /\ e.type = "close" /\ v.wait.for = "none"
    BY <1>4, <1>10, <1>11
  <2> QED BY <1>13, <2>1, <2>2, <2>3, <2>4, LifeCloseTaken
<1>25. /\ NumbersApart(server') /\ InTurn(toClient', {}) /\ NumbersInTurn(toClient', server')
       /\ astray' => "serverAsk" \in plan
  BY <1>3 DEF LifeInv
<1>26. handles[k].state # "none"
  BY <1>10, <1>13 DEF EntryOk
<1>27. /\ \A j \in Channels : j # k =>
            /\ handles'[j] = handles[j] /\ server'[j] = server[j] /\ told'[j] = told[j]
            /\ On(events', j) = On(events, j) /\ On(toClient', j) = On(toClient, j)
            /\ On(toServer', j) = On(toServer, j) /\ On(table', j) = On(table, j)
       /\ born' = born /\ plan' = plan /\ wait' = wait
  BY <1>3, <1>4, <1>5, <1>21, <1>22, <1>23
<1> QED
  BY <1>4, <1>7, <1>10, <1>22, <1>24, <1>25, <1>26, <1>27, StepLife

\* The channel that a confirmation is about.
LEMMA Awaited ==
  ASSUME NEW v, Typed(v), Life(v), NEW m \in v.in, m.type = "confirm"
  PROVE  /\ v.wait.for = "open" /\ m.id = v.wait.cid /\ Opening(v) /\ v.entries = {}
         /\ v.events = {} /\ v.peer.state \in {"open", "closing"} /\ m.sid = v.peer.sid
<1>1. v.wait.for = "open" /\ m.id = v.wait.cid /\ v.peer.state \in {"open", "closing"} /\ m.sid = v.peer.sid
  BY DEF Life, InOk
<1>2. Opening(v)
  BY <1>1 DEF Life, WaitOk
<1>3. v.entries = {}
  BY <1>2 DEF Life, EntryOk, Opening
<1>4. \A e \in v.events : FALSE
  BY <1>1, <1>3 DEF Life, EventOk, Held
<1> QED
  BY <1>1, <1>2, <1>3, <1>4

\* A confirmation is for the open that waits, and its number is not in the table.
LEMMA ConfirmFits ==
  ASSUME TypeOK, LifeInv, toClient # <<>>, toClient' = Tail(toClient),
         NEW m, m = Head(toClient), m.type = "confirm"
  PROVE  m.chan = wait.chan /\ m.id = wait.cid /\ ~AlreadyOpen(m.sid)
<1>1. m \in ToClient /\ m.chan \in Channels /\ m \in On(toClient, m.chan)
  BY HeardFrom
<1>2. PICK k : k = m.chan
  OBVIOUS
<1>3. PICK v : v = View(k)
  OBVIOUS
<1>4. /\ Typed(v) /\ Life(v) /\ v.in = On(toClient, k) /\ v.entries = On(table, k)
      /\ v.peer = server[k] /\ v.wait = IF wait.chan = k THEN wait ELSE Idle
  BY <1>1, <1>2, <1>3, Seen
<1>5. /\ v.wait.for = "open" /\ m.id = v.wait.cid /\ v.entries = {}
      /\ v.peer.state \in {"open", "closing"} /\ m.sid = v.peer.sid
  BY <1>1, <1>2, <1>4, Awaited
<1>6. k = wait.chan /\ m.id = wait.cid
  BY <1>4, <1>5 DEF Idle
<1>7. ASSUME NEW i \in Positions, table[i].sid = m.sid PROVE FALSE
  <2>1. PICK d : d = table[i]
    OBVIOUS
  <2>2. d \in Range(table) /\ d \in Entries
    BY <2>1, Placed DEF TypeOK, Positions
  <2>3. d.chan \in Channels
    BY <2>2 DEF Entries
  <2>4. PICK j : j = d.chan
    OBVIOUS
  <2>5. PICK u : u = View(j)
    OBVIOUS
  <2>6. /\ Typed(u) /\ Life(u) /\ u.in = On(toClient, j) /\ u.entries = On(table, j)
        /\ u.peer = server[j]
    BY <2>3, <2>4, <2>5, Seen
  <2>7. d \in u.entries
    BY <2>2, <2>4, <2>6 DEF On
  <2>8. EntryOk(u, d)
    BY <2>6, <2>7 DEF Life
  <2>9. j # k
    BY <1>4, <1>5, <2>6, <2>7
  <2>10. ~InUse(server[j])
    <3>1. InUse(server[k]) /\ server[j].sid = server[k].sid /\ j \in Channels /\ k \in Channels
      BY <1>1, <1>2, <1>4, <1>5, <1>7, <2>1, <2>3, <2>4, <2>6, <2>8 DEF EntryOk, InUse
    <3> QED BY <2>9, <3>1 DEF LifeInv, NumbersApart
  <2>11. server[j].state = "gone"
    BY <2>6, <2>8, <2>10 DEF EntryOk, InUse, Typed, PeerStates
  <2>12. PICK c \in On(toClient, j) : c.type = "close"
    BY <2>6, <2>8, <2>11 DEF EntryOk, Some
  <2>13. c \in Range(toClient) /\ c.chan = j /\ c # m
    BY <1>2, <2>9, <2>12 DEF On
  <2>14. toClient \in Seq(ToClient) /\ NumbersInTurn(toClient, server)
    BY DEF TypeOK, LifeInv
  <2>15. c \in Range(Tail(toClient))
    BY <2>13, <2>14, Popped
  <2>16. m.sid # server[j].sid
    BY <1>2, <2>9, <2>12, <2>13, <2>14, <2>15, NumbersPopped
  <2> QED BY <1>7, <2>1, <2>6, <2>8, <2>16 DEF EntryOk
<1> QED
  BY <1>2, <1>6, <1>7 DEF AlreadyOpen

\* wait_for_opening_channel, confirmed: always for the channel that was asked for.
LEMMA OpenedLife ==
  ASSUME OrderInv, LifeInv, ChannelOpened
  PROVE  LifeInv'
<1>1. PICK m : m = Head(toClient)
  OBVIOUS
<1>2. TypeOK /\ table \in Seq(Entries) /\ Sorted(table)
  BY DEF OrderInv, TypeOK
<1>3. PICK k : k = wait.chan
  OBVIOUS
<1>4. PICK c : c = wait.cid
  OBVIOUS
<1>5. /\ wait.for = "open" /\ toClient # <<>> /\ toClient' = Tail(toClient) /\ m.type = "confirm"
      /\ wait' = Idle /\ UNCHANGED <<told, toServer, server, born, plan, astray>>
  BY <1>1 DEF ChannelOpened, Hears
<1>6. m.chan = k /\ m.id = c /\ ~AlreadyOpen(m.sid)
  BY <1>1, <1>2, <1>3, <1>4, <1>5, ConfirmFits
<1>7. /\ m \in ToClient /\ k \in Channels /\ m \in On(toClient, k)
      /\ \A j : j # k => On(toClient', j) = On(toClient, j)
      /\ On(toClient', k) \subseteq On(toClient, k)
      /\ On(toClient, k) \subseteq On(toClient', k) \cup {m}
      /\ \A n \in On(toClient', k) : n.type \notin First
      /\ InTurn(toClient', {}) /\ NumbersInTurn(toClient', server)
  BY <1>1, <1>2, <1>5, <1>6, HeardFrom
<1>8. c \in Nat /\ m.sid \in ServerIds
  BY <1>4, <1>5, <1>6, <1>7, ClientMessage
<1>9. PICK x \in {"idle", "lost", "gone"} :
        /\ handles' = [handles EXCEPT ![k] = [state |-> x, cid |-> c, sid |-> m.sid]]
        /\ x = "gone" =>
             events' = Append(events, [type |-> "close", chan |-> k, cid |-> c, sid |-> m.sid])
        /\ x # "gone" => events' = events
        /\ table' = Append(table, Entry(c, m.sid, k))
  <2>1. /\ table' = Append(table, Entry(c, m.sid, k))
        /\ IF handles[k].state = "opening"
           THEN /\ handles' = [handles EXCEPT ![k] = [state |-> "idle", cid |-> c, sid |-> m.sid]]
                /\ UNCHANGED events
           ELSE Dropped(k, c, m.sid)
    BY <1>1, <1>3, <1>4, <1>6 DEF ChannelOpened
  <2>2. CASE handles[k].state = "opening"
    BY <2>1, <2>2
  <2>3. CASE handles[k].state # "opening" /\ Len(events) < EventCap
    BY <2>1, <2>3 DEF Dropped
  <2>4. CASE handles[k].state # "opening" /\ ~(Len(events) < EventCap)
    BY <2>1, <2>4 DEF Dropped
  <2> QED BY <2>2, <2>3, <2>4
<1>10. PICK v : v = View(k)
  OBVIOUS
<1>11. PICK w : w = View(k)'
  OBVIOUS
<1>12. /\ Typed(v) /\ Life(v) /\ v.events = On(events, k) /\ v.in = On(toClient, k)
       /\ v.entries = On(table, k) /\ v.handle = handles[k] /\ v.wait = wait
  BY <1>2, <1>3, <1>7, <1>10, Seen
<1>13. Opening(v) /\ v.entries = {} /\ v.events = {}
  BY <1>5, <1>7, <1>12, Awaited
<1>14. PICK e : e = [type |-> "close", chan |-> k, cid |-> c, sid |-> m.sid]
  OBVIOUS
<1>15. e \in Events /\ e.chan = k /\ e.type = "close" /\ e.type \notin First
  BY <1>7, <1>8, <1>14, Messages DEF First, Ids
<1>16. /\ \A j : j # k => On(events', j) = On(events, j)
       /\ InTurn(events', {})
       /\ x # "gone" => On(events', k) = On(events, k)
       /\ x = "gone" => On(events', k) = On(events, k) \cup {e}
  <2>1. CASE x = "gone"
    <3>1. events' = Append(events, e)
      BY <1>9, <1>14, <2>1
    <3>2. ~Some(On(events, k), "close")
      BY <1>12, <1>13 DEF Some
    <3> QED BY <1>2, <1>15, <2>1, <3>1, <3>2, QueuedAt
  <2>2. CASE x # "gone"
    BY <1>9, <2>2 DEF LifeInv
  <2> QED BY <2>1, <2>2
<1>17. PICK d : d = Entry(c, m.sid, k)
  OBVIOUS
<1>18. d \in Entries /\ d.chan = k
  BY <1>7, <1>8, <1>17 DEF Entry, Entries
<1>19. On(table', k) = {d} /\ \A j : j # k => On(table', j) = On(table, j)
  <2>1. \A j : On(Append(table, d), j) = IF j = d.chan THEN On(table, j) \cup {d} ELSE On(table, j)
    BY <1>2, <1>18, OnPushed
  <2> QED BY <1>9, <1>12, <1>13, <1>17, <1>18, <2>1
<1>20. /\ \A j \in Channels : j # k => handles'[j] = handles[j]
       /\ handles'[k].cid = c /\ handles'[k].sid = m.sid /\ handles'[k].state = x
  <2>1. handles \in [Channels -> [state : HandleStates, cid : Nat, sid : Ids]]
    BY <1>2 DEF TypeOK
  <2> QED BY <1>7, <1>9, <2>1
<1>21. Life(w)
  <2>1. /\ w.in \subseteq v.in /\ v.in \subseteq w.in \cup {m} /\ \A n \in w.in : n.type \notin First
        /\ w.entries = {d} /\ w.handle = handles'[k] /\ w.events = On(events', k)
        /\ w.out = v.out /\ w.peer = v.peer /\ w.told = v.told /\ w.plan = v.plan
    BY <1>5, <1>7, <1>10, <1>11, <1>19, Shown, ShownNext
  <2>2. w.wait.for = "none"
    BY <1>5, <1>11, ShownNext DEF Idle
  <2>3. w.entries = {Entry(v.wait.cid, m.sid, k)} /\ w.handle.cid = v.wait.cid /\ w.handle.sid = m.sid
    BY <1>4, <1>12, <1>17, <1>20, <2>1
  <2>4. \/ w.handle.state \in {"idle", "lost"} /\ w.events = v.events
        \/ /\ w.handle.state = "gone"
           /\ w.events = v.events \cup {[type |-> "close", chan |-> k, cid |-> v.wait.cid,
                                         sid |-> m.sid]}
    <3>1. CASE x = "gone"
      BY <1>4, <1>12, <1>14, <1>16, <1>20, <2>1, <3>1
    <3>2. CASE x # "gone"
      BY <1>9, <1>12, <1>16, <1>20, <2>1, <3>2
    <3> QED BY <3>1, <3>2
  <2>5. Typed(v) /\ Life(v) /\ m \in v.in /\ m.type = "confirm"
    BY <1>5, <1>7, <1>12
  <2> QED BY <2>1, <2>2, <2>3, <2>4, <2>5, LifeOpened
<1>22. /\ NumbersApart(server') /\ InTurn(toServer', {"failure"})
       /\ NumbersInTurn(toClient', server') /\ (astray' => "serverAsk" \in plan)
  BY <1>5, <1>7 DEF LifeInv
<1>23. handles[k].state # "none"
  BY <1>12, <1>13 DEF Opening
<1>24. /\ \A j \in Channels : j # k =>
            /\ handles'[j] = handles[j] /\ server'[j] = server[j] /\ told'[j] = told[j]
            /\ On(events', j) = On(events, j) /\ On(toClient', j) = On(toClient, j)
            /\ On(toServer', j) = On(toServer, j) /\ On(table', j) = On(table, j)
       /\ born' = born /\ plan' = plan /\ wait.chan \in {k, None} /\ wait'.chan \in {k, None}
  BY <1>3, <1>5, <1>7, <1>16, <1>19, <1>20 DEF Idle
<1>25. InTurn(events', {}) /\ InTurn(toClient', {}) /\ k \in Channels /\ Life(View(k)')
  BY <1>7, <1>11, <1>16, <1>21
<1> QED
  BY <1>22, <1>23, <1>24, <1>25, StepLife

\* wait_for_opening_channel, refused.
LEMMA OpenFailedLife ==
  ASSUME OrderInv, LifeInv, ChannelOpenFailed
  PROVE  LifeInv'
<1>1. PICK m : m = Head(toClient)
  OBVIOUS
<1>2. TypeOK
  BY DEF OrderInv
<1>3. PICK k : k = m.chan
  OBVIOUS
<1>4. /\ toClient # <<>> /\ toClient' = Tail(toClient) /\ m.type = "refuse" /\ wait' = Idle
      /\ handles' = [handles EXCEPT ![wait.chan].state = "refused"]
      /\ UNCHANGED <<table, events, told, toServer, server, born, plan, astray>>
  BY <1>1 DEF ChannelOpenFailed, Hears
<1>5. /\ m \in ToClient /\ k \in Channels /\ m \in On(toClient, k)
      /\ \A j : j # k => On(toClient', j) = On(toClient, j)
      /\ On(toClient', k) \subseteq On(toClient, k)
      /\ \A n \in On(toClient', k) : n.type \notin First
      /\ InTurn(toClient', {}) /\ NumbersInTurn(toClient', server)
  BY <1>1, <1>2, <1>3, <1>4, HeardFrom
<1>6. PICK v : v = View(k)
  OBVIOUS
<1>7. PICK w : w = View(k)'
  OBVIOUS
<1>8. /\ Typed(v) /\ Life(v) /\ v.in = On(toClient, k) /\ v.handle = handles[k]
      /\ v.wait = IF wait.chan = k THEN wait ELSE Idle
  BY <1>2, <1>5, <1>6, Seen
<1>9. m \in v.in /\ v.wait.for = "open" /\ Opening(v)
  <2>1. m \in v.in /\ InOk(v, m)
    BY <1>5, <1>8 DEF Life
  <2> QED BY <1>4, <1>8, <2>1 DEF Life, InOk, WaitOk
<1>10. wait.chan = k
  BY <1>8, <1>9 DEF Idle
<1>11. /\ \A j \in Channels : j # k => handles'[j] = handles[j]
       /\ handles'[k].state = "refused"
  <2>1. handles \in [Channels -> [state : HandleStates, cid : Nat, sid : Ids]]
    BY <1>2 DEF TypeOK
  <2> QED BY <1>4, <1>5, <1>10, <2>1
<1>12. Life(w)
  <2>1. /\ w.in \subseteq v.in /\ \A n \in w.in : n.type \notin First
        /\ w.entries = v.entries /\ w.handle = handles'[k] /\ w.events = v.events
        /\ w.out = v.out /\ w.peer = v.peer /\ w.told = v.told /\ w.plan = v.plan
    BY <1>4, <1>5, <1>6, <1>7, Shown, ShownNext
  <2>2. w.wait.for = "none"
    BY <1>4, <1>7, ShownNext DEF Idle
  <2>3. w.handle.state = "refused"
    BY <1>11, <2>1
  <2> QED BY <1>4, <1>8, <1>9, <2>1, <2>2, <2>3, LifeOpenFailed
<1>13. /\ NumbersApart(server') /\ InTurn(toServer', {"failure"}) /\ InTurn(events', {})
       /\ NumbersInTurn(toClient', server') /\ (astray' => "serverAsk" \in plan)
  BY <1>4, <1>5 DEF LifeInv
<1>14. handles[k].state # "none"
  BY <1>8, <1>9 DEF Opening
<1>15. wait.chan \in {k, None} /\ wait'.chan \in {k, None}
  BY <1>4, <1>10 DEF Idle
<1> QED
  BY <1>4, <1>5, <1>7, <1>11, <1>12, <1>13, <1>14, <1>15, StepLife

\* A message that is not the first about its channel finds the channel's entry.
LEMMA HeadReaches ==
  ASSUME TypeOK, Sorted(table), LifeInv, toClient # <<>>, toClient' = Tail(toClient),
         NEW m, m = Head(toClient), m.type \notin First
  PROVE  \E d \in Range(table) :
           /\ On(table, m.chan) = {d} /\ d.cid = m.id /\ d.chan = m.chan /\ ~d.serverClosed
           /\ Matches(m.id) # {} /\ table[Position(m.id)] = d
<1>1. /\ m.chan \in Channels /\ m \in On(toClient, m.chan)
      /\ On(toClient, m.chan) \subseteq On(toClient', m.chan) \cup {m}
      /\ \A n \in On(toClient', m.chan) : n.type \notin First
  BY HeardFrom
<1>2. PICK v : v = View(m.chan)
  OBVIOUS
<1>3. Typed(v) /\ Life(v) /\ v.in = On(toClient, m.chan) /\ v.entries = On(table, m.chan)
  BY <1>1, <1>2, Seen
<1>4. m \in v.in /\ ~Some(v.in, "confirm")
  BY <1>1, <1>3 DEF Some, First
<1>5. PICK d \in v.entries : v.entries = {d} /\ d.cid = m.id /\ ~d.serverClosed
  BY <1>3, <1>4, Reached
<1>6. d \in Range(table) /\ d.chan = m.chan
  BY <1>3, <1>5 DEF On
<1>7. Matches(d.cid) # {} /\ table[Position(d.cid)] = d
  BY <1>6, Found DEF TypeOK
<1> QED
  BY <1>3, <1>5, <1>6, <1>7

\* A wait for a reply is never ended by a CLOSE.
LEMMA RepliedByReply ==
  ASSUME NoSecondClose, TypeOK, Sorted(table), LifeInv, toClient # <<>>, toClient' = Tail(toClient),
         NEW m, m = Head(toClient), wait.for = "reply", EndsWait(m)
  PROVE  m.type \in {"success", "failure"} /\ wait.chan \in Channels
<1>1. PICK k : k = wait.chan
  OBVIOUS
<1>2. k \in Channels
  BY <1>1 DEF TypeOK, Waits, Idle
<1>3. PICK v : v = View(k)
  OBVIOUS
<1>4. /\ Typed(v) /\ Life(v) /\ v.in = On(toClient, k) /\ v.entries = On(table, k)
      /\ v.peer = server[k] /\ v.wait = wait /\ v.plan = plan
  BY <1>1, <1>2, <1>3, Seen
<1>5. ASSUME m.type = "close", m.id = wait.cid PROVE FALSE
  <2>1. Held(v) /\ v.handle.cid = wait.cid /\ "request" \in plan
    BY <1>4 DEF Life, WaitOk
  <2>2. PICK f \in v.entries : ~f.clientClosed /\ EntryOk(v, f)
    BY <1>4, <2>1 DEF Life, Held
  <2>3. f.cid = m.id /\ f \in Range(table) /\ f.chan = k
    BY <1>4, <1>5, <2>1, <2>2 DEF EntryOk, On
  <2>4. table[Position(m.id)] = f
    BY <2>3, Found DEF TypeOK
  <2>5. PICK d \in Range(table) : d.chan = m.chan /\ table[Position(m.id)] = d
    BY <1>5, HeadReaches DEF First
  <2>6. m.chan = k
    BY <2>3, <2>4, <2>5
  <2>7. m \in v.in
    BY <1>4, <2>6, HeardFrom
  <2>8. v.peer.state \in {"closing", "gone"}
    BY <1>4, <1>5, <2>7 DEF Life, InOk
  <2>9. v.peer.state = "closing"
    BY <2>2, <2>8 DEF EntryOk
  <2>10. "serverClose" \in plan
    BY <1>4, <2>9 DEF Life, SidesOk
  <2> QED BY <2>1, <2>10 DEF NoSecondClose, TypeOK
<1> QED
  BY <1>1, <1>2, <1>5 DEF EndsWait

\* wait_for_channel_response: the reply is taken, the call returns.
LEMMA RepliedLife ==
  ASSUME NoSecondClose, OrderInv, LifeInv, ChannelReplied
  PROVE  LifeInv'
<1>1. PICK m : m = Head(toClient)
  OBVIOUS
<1>2. TypeOK /\ Sorted(table) /\ handles \in [Channels -> [state : HandleStates, cid : Nat, sid : Ids]]
  BY DEF OrderInv, TypeOK
<1>3. PICK k : k = wait.chan
  OBVIOUS
<1>4. PICK x : x = Answered(k)
  OBVIOUS
<1>5. /\ wait.for = "reply" /\ toClient # <<>> /\ EndsWait(m) /\ toClient' = Tail(toClient)
      /\ wait' = Idle /\ handles' = [handles EXCEPT ![k].state = x]
      /\ UNCHANGED <<table, events, told, toServer, server, born, plan, astray>>
  BY <1>1, <1>3, <1>4 DEF ChannelReplied
<1>6. m.type \in {"success", "failure"} /\ k \in Channels
  BY <1>1, <1>2, <1>3, <1>5, RepliedByReply
<1>7. /\ \A j : j # m.chan => On(toClient', j) = On(toClient, j)
      /\ On(toClient', m.chan) \subseteq On(toClient, m.chan)
      /\ On(toClient, m.chan) \subseteq On(toClient', m.chan) \cup {m}
      /\ InTurn(toClient', {}) /\ NumbersInTurn(toClient', server)
  BY <1>1, <1>2, <1>5, HeardFrom
<1>8. \A j : On(toClient', j) \subseteq On(toClient, j) /\ On(toClient, j) \subseteq On(toClient', j) \cup {m}
  BY <1>7
<1>9. m.type \notin First /\ m.type # "close"
  BY <1>6 DEF First
<1>10. /\ \A j \in Channels : j # k => handles'[j] = handles[j]
       /\ handles'[k].cid = handles[k].cid /\ handles'[k].sid = handles[k].sid
       /\ \/ handles'[k].state = handles[k].state
          \/ handles[k].state = "busy" /\ handles'[k].state = "idle"
  <2>1. x = handles[k].state \/ (handles[k].state = "busy" /\ x = "idle")
    BY <1>4 DEF Answered
  <2> QED BY <1>2, <1>5, <1>6, <2>1
<1>11. ASSUME NEW j \in Channels PROVE Life(View(j)')
  <2>1. PICK v : v = View(j)
    OBVIOUS
  <2>2. PICK w : w = View(j)'
    OBVIOUS
  <2>3. Typed(v) /\ Life(v) /\ v.handle = handles[j] /\ v.wait = IF wait.chan = j THEN wait ELSE Idle
    BY <1>2, <2>1, Seen
  <2>4. w.wait = Idle
    BY <1>5, <2>2, ShownNext
  <2>5. /\ w.in \subseteq v.in /\ v.in \subseteq w.in \cup {m}
        /\ w.handle = handles'[j] /\ w.told = v.told /\ w.entries = v.entries
        /\ w.events = v.events /\ w.out = v.out /\ w.peer = v.peer /\ w.plan = v.plan
    BY <1>5, <1>8, <2>1, <2>2, Shown, ShownNext
  <2>6. CASE j # k
    <3>1. w.wait = v.wait /\ w.handle = v.handle
      BY <1>3, <1>10, <2>3, <2>4, <2>5, <2>6
    <3> QED BY <1>9, <2>2, <2>3, <2>5, <3>1, LifeRead
  <2>7. CASE j = k
    <3>1. PICK u : u = [handle |-> v.handle, peer |-> v.peer, told |-> v.told,
                        events |-> v.events, in |-> w.in, out |-> v.out,
                        entries |-> v.entries, wait |-> v.wait, plan |-> v.plan]
      OBVIOUS
    <3>2. /\ u.handle = v.handle /\ u.peer = v.peer /\ u.told = v.told /\ u.events = v.events
          /\ u.in = w.in /\ u.out = v.out /\ u.entries = v.entries /\ u.wait = v.wait
          /\ u.plan = v.plan
      BY <3>1
    <3>3. Life(u)
      BY <1>9, <2>3, <2>5, <3>2, LifeRead
    <3>4. Typed(u)
      BY <2>3, <2>5, <3>2 DEF Typed
    <3>5. u.wait.for = "reply" /\ w.wait.for = "none"
      BY <1>3, <1>5, <2>3, <2>4, <2>7, <3>2 DEF Idle
    <3>6. /\ w.handle.cid = u.handle.cid /\ w.handle.sid = u.handle.sid
          /\ \/ w.handle.state = u.handle.state
             \/ u.handle.state = "busy" /\ w.handle.state = "idle"
      BY <1>10, <2>3, <2>5, <2>7, <3>2
    <3>7. /\ w.in = u.in /\ w.told = u.told /\ w.entries = u.entries /\ w.events = u.events
          /\ w.out = u.out /\ w.peer = u.peer /\ w.plan = u.plan
      BY <2>5, <3>2
    <3> QED BY <2>2, <3>3, <3>4, <3>5, <3>6, <3>7, LifeReplied
  <2> QED BY <2>6, <2>7
<1>12. (\A j \in Channels : Life(View(j)))'
  BY <1>11
<1>13. ASSUME NEW j \in Channels, j > born PROVE handles'[j] = NoOwner /\ server'[j] = NoPeer
  <2>1. handles[j] = NoOwner /\ server[j] = NoPeer
    BY <1>13 DEF LifeInv
  <2>2. PICK v : v = View(k)
    OBVIOUS
  <2>3. Life(v) /\ v.handle = handles[k] /\ v.wait = wait
    BY <1>2, <1>3, <1>6, <2>2, Seen
  <2>4. PICK d \in v.entries : EntryOk(v, d)
    BY <1>5, <2>3 DEF Life, WaitOk, Held
  <2>5. handles[k].state # "none"
    BY <2>3, <2>4 DEF EntryOk
  <2>6. j # k
    BY <2>1, <2>5 DEF NoOwner
  <2> QED BY <1>5, <1>10, <2>1, <2>6
<1>14. /\ NumbersApart(server') /\ InTurn(toServer', {"failure"}) /\ InTurn(events', {})
       /\ InTurn(toClient', {}) /\ NumbersInTurn(toClient', server')
       /\ astray' => "serverAsk" \in plan'
  BY <1>5, <1>7 DEF LifeInv
<1> QED
  BY <1>5, <1>12, <1>13, <1>14 DEF LifeInv

\* sender.send: the channel's handle is given the message if it is still there.
LEMMA Given ==
  ASSUME TypeOK, NEW k \in Channels, NEW m, m.chan = k, Give(k, m)
  PROVE  /\ \A j \in Channels : j # k => told'[j] = told[j]
         /\ told[k] \subseteq told'[k]
         /\ handles[k].state \in {"idle", "busy", "closing"} => m.type \in told'[k]
         /\ astray' => astray
<1>1. told \in [Channels -> SUBSET (ClientTypes \cup {"open", "confirm"})]
  BY DEF TypeOK
<1>2. told' = IF Alive(k) THEN [told EXCEPT ![k] = told[k] \cup {m.type}] ELSE told
  BY DEF Give
<1>3. astray' => astray
  BY Zenon DEF Give
<1>4. CASE Alive(k)
  <2>1. PICK x : x = told[k] \cup {m.type}
    OBVIOUS
  <2>2. told' = [told EXCEPT ![k] = x]
    BY <1>2, <1>4, <2>1
  <2>3. told'[k] = x /\ \A j \in Channels : j # k => told'[j] = told[j]
    BY <1>1, <2>2
  <2>4. told[k] \subseteq x /\ m.type \in x
    BY <2>1
  <2> QED BY <1>3, <2>3, <2>4
<1>5. CASE ~Alive(k)
  BY <1>2, <1>3, <1>5 DEF Alive
<1> QED
  BY <1>4, <1>5

\* handle_channel_data and handle_channel_eof.
LEMMA PassOnLife ==
  ASSUME OrderInv, LifeInv, NEW type \in {"data", "eof"}, PassOn(type)
  PROVE  LifeInv'
<1>1. PICK m : m = Head(toClient)
  OBVIOUS
<1>2. TypeOK /\ Sorted(table)
  BY DEF OrderInv
<1>3. PICK k : k = m.chan
  OBVIOUS
<1>4. /\ toClient # <<>> /\ toClient' = Tail(toClient) /\ m.type = type
      /\ IF Matches(m.id) # {} THEN Give(table[Position(m.id)].chan, m) ELSE UNCHANGED <<told, astray>>
      /\ UNCHANGED <<table, wait, events, handles, toServer, server, born, plan>>
  BY <1>1 DEF PassOn, Hears
<1>5. m.type \notin First /\ m.type # "close"
  BY <1>4 DEF First
<1>6. /\ k \in Channels
      /\ \A j : j # k => On(toClient', j) = On(toClient, j)
      /\ On(toClient', k) \subseteq On(toClient, k)
      /\ On(toClient, k) \subseteq On(toClient', k) \cup {m}
      /\ InTurn(toClient', {}) /\ NumbersInTurn(toClient', server)
  BY <1>1, <1>2, <1>3, <1>4, HeardFrom
<1>7. PICK d \in Range(table) : d.chan = k /\ Matches(m.id) # {} /\ table[Position(m.id)] = d
  BY <1>1, <1>2, <1>3, <1>4, <1>5, HeadReaches
<1>8. Give(k, m)
  BY <1>4, <1>7
<1>9. /\ \A j \in Channels : j # k => told'[j] = told[j]
      /\ told[k] \subseteq told'[k] /\ (astray' => astray)
  BY <1>2, <1>3, <1>6, <1>8, Given
<1>10. PICK v : v = View(k)
  OBVIOUS
<1>11. PICK w : w = View(k)'
  OBVIOUS
<1>12. Life(w)
  <2>1. Typed(v) /\ Life(v)
    BY <1>2, <1>6, <1>10, Seen
  <2>2. /\ w.in \subseteq v.in /\ v.in \subseteq w.in \cup {m} /\ v.told \subseteq w.told
        /\ w.wait = v.wait /\ w.handle = v.handle /\ w.entries = v.entries
        /\ w.events = v.events /\ w.out = v.out /\ w.peer = v.peer /\ w.plan = v.plan
    BY <1>4, <1>6, <1>9, <1>10, <1>11, Shown, ShownNext
  <2> QED BY <1>5, <2>1, <2>2, LifeRead
<1>13. /\ NumbersApart(server') /\ InTurn(toServer', {"failure"}) /\ InTurn(events', {})
       /\ InTurn(toClient', {}) /\ NumbersInTurn(toClient', server')
       /\ astray' => "serverAsk" \in plan
  BY <1>4, <1>6, <1>9 DEF LifeInv
<1>14. /\ k \in Channels /\ Life(View(k)') /\ born' = born /\ plan' = plan /\ wait' = wait
       /\ handles'[k] = handles[k] /\ server'[k] = server[k]
       /\ \A j \in Channels : j # k =>
            /\ handles'[j] = handles[j] /\ server'[j] = server[j] /\ told'[j] = told[j]
            /\ On(events', j) = On(events, j) /\ On(toClient', j) = On(toClient, j)
            /\ On(toServer', j) = On(toServer, j) /\ On(table', j) = On(table, j)
  BY <1>4, <1>6, <1>9, <1>11, <1>12
<1> QED
  BY <1>13, <1>14, StepLife

\* handle_channel_unknown_request: the refusal follows whatever was sent before.
LEMMA AskedLife ==
  ASSUME OrderInv, LifeInv, HandleUnknownRequest
  PROVE  LifeInv'
<1>1. PICK m : m = Head(toClient)
  OBVIOUS
<1>2. TypeOK /\ Sorted(table) /\ Range(table) \subseteq Entries
  BY Placed DEF OrderInv, TypeOK
<1>3. PICK k : k = m.chan
  OBVIOUS
<1>4. /\ toClient # <<>> /\ toClient' = Tail(toClient) /\ m.type = "ask"
      /\ toServer' = IF Matches(m.id) = {} THEN toServer
                     ELSE Append(toServer, Msg("failure", table[Position(m.id)].sid,
                                               table[Position(m.id)].chan))
      /\ UNCHANGED <<table, wait, events, handles, told, server, born, plan, astray>>
  BY <1>1 DEF HandleUnknownRequest, Hears
<1>5. m.type \notin First /\ m.type # "close"
  BY <1>4 DEF First
<1>6. /\ k \in Channels /\ m \in On(toClient, k)
      /\ \A j : j # k => On(toClient', j) = On(toClient, j)
      /\ On(toClient', k) \subseteq On(toClient, k)
      /\ On(toClient, k) \subseteq On(toClient', k) \cup {m}
      /\ InTurn(toClient', {}) /\ NumbersInTurn(toClient', server)
  BY <1>1, <1>2, <1>3, <1>4, HeardFrom
<1>7. PICK d \in Range(table) : /\ d.chan = k /\ Matches(m.id) # {} /\ table[Position(m.id)] = d
                                /\ On(table, k) = {d}
  BY <1>1, <1>2, <1>3, <1>4, <1>5, HeadReaches
<1>8. PICK c : c = Msg("failure", d.sid, k)
  OBVIOUS
<1>9. c \in ToServer /\ c.chan = k /\ c.type = "failure" /\ c.type \notin First
  <2>1. d.sid \in Ids
    BY <1>2, <1>7 DEF Entries, Ids
  <2> QED BY <1>6, <1>8, <2>1, Messages DEF Msg, First
<1>10. /\ \A j : j # k => On(toServer', j) = On(toServer, j)
       /\ On(toServer', k) = On(toServer, k) \cup {c}
       /\ InTurn(toServer', {"failure"})
  <2>1. toServer' = Append(toServer, c)
    BY <1>4, <1>7, <1>8
  <2> QED BY <1>2, <1>9, <2>1, SentTo
<1>11. PICK v : v = View(k)
  OBVIOUS
<1>12. PICK w : w = View(k)'
  OBVIOUS
<1>13. Life(w)
  <2>1. /\ Typed(v) /\ Life(v) /\ v.in = On(toClient, k) /\ v.entries = On(table, k)
    BY <1>2, <1>6, <1>11, Seen
  <2>2. /\ w.in \subseteq v.in /\ v.in \subseteq w.in \cup {m} /\ w.told = v.told
        /\ w.wait = v.wait /\ w.handle = v.handle /\ w.entries = v.entries
        /\ w.events = v.events /\ w.out = v.out \cup {Msg("failure", d.sid, k)}
        /\ w.peer = v.peer /\ w.plan = v.plan
    BY <1>4, <1>6, <1>8, <1>10, <1>11, <1>12, Shown, ShownNext
  <2>3. "serverAsk" \in v.plan
    BY <1>4, <1>6, <2>1 DEF Life, InOk
  <2>4. PICK u : u = [handle |-> v.handle, peer |-> v.peer, told |-> v.told,
                      events |-> v.events, in |-> w.in, out |-> v.out,
                      entries |-> v.entries, wait |-> v.wait, plan |-> v.plan]
    OBVIOUS
  <2>5. /\ u.handle = v.handle /\ u.peer = v.peer /\ u.told = v.told /\ u.events = v.events
        /\ u.in = w.in /\ u.out = v.out /\ u.entries = v.entries /\ u.wait = v.wait
        /\ u.plan = v.plan
    BY <2>4
  <2>6. Life(u)
    BY <1>5, <2>1, <2>2, <2>5, LifeRead
  <2>7. Typed(u)
    BY <2>1, <2>2, <2>5 DEF Typed
  <2>8. u.entries # {} /\ "serverAsk" \in u.plan
    BY <1>7, <2>1, <2>3, <2>5
  <2>9. /\ w.out = u.out \cup {Msg("failure", d.sid, k)} /\ w.wait = u.wait
        /\ w.handle = u.handle /\ w.in = u.in /\ w.told = u.told /\ w.entries = u.entries
        /\ w.events = u.events /\ w.peer = u.peer /\ w.plan = u.plan
    BY <2>2, <2>5
  <2> QED BY <2>6, <2>7, <2>8, <2>9, LifeRefusal
<1>14. /\ NumbersApart(server') /\ InTurn(toServer', {"failure"}) /\ InTurn(events', {})
       /\ InTurn(toClient', {}) /\ NumbersInTurn(toClient', server')
       /\ astray' => "serverAsk" \in plan
  BY <1>4, <1>6, <1>10 DEF LifeInv
<1>15. /\ k \in Channels /\ Life(View(k)') /\ born' = born /\ plan' = plan /\ wait' = wait
       /\ handles'[k] = handles[k] /\ server'[k] = server[k]
       /\ \A j \in Channels : j # k =>
            /\ handles'[j] = handles[j] /\ server'[j] = server[j] /\ told'[j] = told[j]
            /\ On(events', j) = On(events, j) /\ On(toClient', j) = On(toClient, j)
            /\ On(toServer', j) = On(toServer, j) /\ On(table', j) = On(table, j)
  BY <1>4, <1>6, <1>10, <1>12, <1>13
<1> QED
  BY <1>14, <1>15, StepLife

\* handle_channel_close.
LEMMA CloseHeardLife ==
  ASSUME OrderInv, LifeInv, HandleChannelClose
  PROVE  LifeInv'
<1>1. PICK m : m = Head(toClient)
  OBVIOUS
<1>2. TypeOK /\ table \in Seq(Entries) /\ Sorted(table)
  BY DEF OrderInv, TypeOK
<1>3. PICK k : k = m.chan
  OBVIOUS
<1>4. /\ toClient # <<>> /\ toClient' = Tail(toClient) /\ m.type = "close"
      /\ IF Matches(m.id) # {}
         THEN /\ Give(table[Position(m.id)].chan, m)
              /\ table' = CloseServerSide(Position(m.id))
         ELSE UNCHANGED <<told, astray, table>>
      /\ UNCHANGED <<wait, events, handles, toServer, server, born, plan>>
  BY <1>1 DEF HandleChannelClose, Hears
<1>5. m.type \notin First
  BY <1>4 DEF First
<1>6. /\ k \in Channels /\ m \in On(toClient, k)
      /\ \A j : j # k => On(toClient', j) = On(toClient, j)
      /\ \A n \in On(toClient', k) : FALSE
      /\ InTurn(toClient', {}) /\ NumbersInTurn(toClient', server)
  BY <1>1, <1>2, <1>3, <1>4, HeardFrom
<1>7. PICK d \in Range(table) : /\ d.chan = k /\ Matches(m.id) # {} /\ table[Position(m.id)] = d
                                /\ On(table, k) = {d}
  BY <1>1, <1>2, <1>3, <1>4, <1>5, HeadReaches
<1>8. Give(k, m) /\ table' = CloseServerSide(Position(m.id))
  BY <1>4, <1>7
<1>9. /\ \A j \in Channels : j # k => told'[j] = told[j]
      /\ told[k] \subseteq told'[k] /\ (astray' => astray)
      /\ handles[k].state \in {"idle", "busy", "closing"} => "close" \in told'[k]
  BY <1>2, <1>3, <1>4, <1>6, <1>8, Given
<1>10. PICK f : f = IF d.clientClosed THEN {} ELSE {[d EXCEPT !.serverClosed = TRUE]}
  OBVIOUS
<1>11. Range(table') = (Range(table) \ {d}) \cup f /\ d \in Entries
  <2>1. PICK i : i = Position(m.id)
    OBVIOUS
  <2>2. i \in Positions
    BY <1>2, <1>7, <2>1, Found
  <2> QED BY <1>2, <1>7, <1>8, <1>10, <2>1, <2>2, ServerSideClosed
<1>12. \A x \in f : x.chan = k
  BY <1>7, <1>10, <1>11 DEF Entries
<1>13. On(table', k) = f /\ \A j : j # k => On(table', j) = On(table, j)
  <2>1. \A x : x \in Range(table') <=> (x \in Range(table) /\ x # d) \/ x \in f
    BY <1>11
  <2>2. \A x \in Range(table) : x.chan = k => x = d
    BY <1>7 DEF On
  <2>3. ASSUME NEW j, j # k PROVE On(table', j) = On(table, j)
    BY <1>7, <1>12, <2>1, <2>3 DEF On
  <2>4. On(table', k) = f
    BY <1>12, <2>1, <2>2 DEF On
  <2> QED BY <2>3, <2>4
<1>14. PICK v : v = View(k)
  OBVIOUS
<1>15. PICK w : w = View(k)'
  OBVIOUS
<1>16. Life(w)
  <2>1. /\ Typed(v) /\ Life(v) /\ v.in = On(toClient, k) /\ v.entries = On(table, k)
        /\ v.handle = handles[k]
    BY <1>2, <1>6, <1>14, Seen
  <2>2. /\ w.in = {} /\ v.told \subseteq w.told /\ w.told = told'[k]
        /\ w.wait = v.wait /\ w.handle = v.handle /\ w.entries = f
        /\ w.events = v.events /\ w.out = v.out /\ w.peer = v.peer /\ w.plan = v.plan
    BY <1>4, <1>6, <1>9, <1>13, <1>14, <1>15, Shown, ShownNext
  <2>3. m \in v.in /\ d \in v.entries
    BY <1>6, <1>7, <2>1
  <2>4. v.handle.state \in {"idle", "busy", "closing"} => "close" \in w.told
    BY <1>9, <2>1, <2>2
  <2>5. w.entries = IF d.clientClosed THEN {} ELSE {[d EXCEPT !.serverClosed = TRUE]}
    BY <1>10, <2>2
  <2> QED BY <1>4, <2>1, <2>2, <2>3, <2>4, <2>5, LifeCloseHeard
<1>17. /\ NumbersApart(server') /\ InTurn(toServer', {"failure"}) /\ InTurn(events', {})
       /\ InTurn(toClient', {}) /\ NumbersInTurn(toClient', server')
       /\ astray' => "serverAsk" \in plan
  BY <1>4, <1>6, <1>9 DEF LifeInv
<1>18. /\ k \in Channels /\ Life(View(k)') /\ born' = born /\ plan' = plan /\ wait' = wait
       /\ handles'[k] = handles[k] /\ server'[k] = server[k]
       /\ \A j \in Channels : j # k =>
            /\ handles'[j] = handles[j] /\ server'[j] = server[j] /\ told'[j] = told[j]
            /\ On(events', j) = On(events, j) /\ On(toClient', j) = On(toClient, j)
            /\ On(toServer', j) = On(toServer, j) /\ On(table', j) = On(table, j)
  BY <1>4, <1>6, <1>9, <1>13, <1>15, <1>16
<1> QED
  BY <1>17, <1>18, StepLife

\* handle_channel_open_*, refused.
LEMMA TurnedDownLife ==
  ASSUME OrderInv, LifeInv, HandleOpenRefused
  PROVE  LifeInv'
<1>1. PICK m : m = Head(toClient)
  OBVIOUS
<1>2. TypeOK
  BY DEF OrderInv
<1>3. PICK k : k = m.chan
  OBVIOUS
<1>4. /\ toClient # <<>> /\ toClient' = Tail(toClient) /\ m.type = "open"
      /\ toServer' = Append(toServer, Msg("refuse", m.sid, k))
      /\ UNCHANGED <<table, wait, events, handles, told, server, born, plan, astray>>
  BY <1>1, <1>3 DEF HandleOpenRefused, Hears, Say
<1>5. /\ m \in ToClient /\ k \in Channels /\ m \in On(toClient, k)
      /\ \A j : j # k => On(toClient', j) = On(toClient, j)
      /\ On(toClient', k) \subseteq On(toClient, k)
      /\ \A n \in On(toClient', k) : n.type \notin First
      /\ InTurn(toClient', {}) /\ NumbersInTurn(toClient', server)
  BY <1>1, <1>2, <1>3, <1>4, HeardFrom
<1>6. PICK v : v = View(k)
  OBVIOUS
<1>7. PICK w : w = View(k)'
  OBVIOUS
<1>8. Typed(v) /\ Life(v) /\ v.in = On(toClient, k) /\ v.out = On(toServer, k) /\ m \in v.in
  BY <1>2, <1>5, <1>6, Seen
<1>9. v.out = {}
  BY <1>4, <1>8, Offered
<1>10. PICK c : c = Msg("refuse", m.sid, k)
  OBVIOUS
<1>11. c \in ToServer /\ c.chan = k
  <2>1. m.sid \in Ids
    BY <1>4, <1>5, ClientMessage DEF Ids
  <2> QED BY <1>5, <1>10, <2>1, Messages DEF Msg
<1>12. /\ \A j : j # k => On(toServer', j) = On(toServer, j)
       /\ On(toServer', k) = On(toServer, k) \cup {c}
       /\ InTurn(toServer', {"failure"})
  <2>1. ~Some(On(toServer, k), "close")
    BY <1>8, <1>9 DEF Some
  <2> QED BY <1>2, <1>4, <1>8, <1>9, <1>10, <1>11, <2>1, SentTo
<1>13. Life(w)
  <2>1. /\ w.in \subseteq v.in /\ \A n \in w.in : n.type \notin First
        /\ w.out = v.out \cup {Msg("refuse", m.sid, k)}
        /\ w.wait = v.wait /\ w.handle = v.handle /\ w.entries = v.entries
        /\ w.events = v.events /\ w.told = v.told /\ w.peer = v.peer /\ w.plan = v.plan
    BY <1>4, <1>5, <1>6, <1>7, <1>10, <1>12, Shown, ShownNext
  <2> QED BY <1>4, <1>8, <2>1, LifeTurnedDown
<1>14. /\ NumbersApart(server') /\ InTurn(toServer', {"failure"}) /\ InTurn(events', {})
       /\ InTurn(toClient', {}) /\ NumbersInTurn(toClient', server')
       /\ astray' => "serverAsk" \in plan
  BY <1>4, <1>5, <1>12 DEF LifeInv
<1>15. /\ k \in Channels /\ Life(View(k)') /\ born' = born /\ plan' = plan /\ wait' = wait
       /\ handles'[k] = handles[k] /\ server'[k] = server[k]
       /\ \A j \in Channels : j # k =>
            /\ handles'[j] = handles[j] /\ server'[j] = server[j] /\ told'[j] = told[j]
            /\ On(events', j) = On(events, j) /\ On(toClient', j) = On(toClient, j)
            /\ On(toServer', j) = On(toServer, j) /\ On(table', j) = On(table, j)
  BY <1>4, <1>5, <1>7, <1>12, <1>13
<1> QED
  BY <1>14, <1>15, StepLife

\* handle_channel_open_*, accepted.
LEMMA AcceptedLife ==
  ASSUME OrderInv, LifeInv, HandleOpenAccepted
  PROVE  LifeInv'
<1>1. PICK m : m = Head(toClient)
  OBVIOUS
<1>2. TypeOK /\ table \in Seq(Entries) /\ Sorted(table)
  BY DEF OrderInv, TypeOK
<1>3. PICK k : k = m.chan
  OBVIOUS
<1>4. PICK c : c = NextChannelId
  OBVIOUS
<1>5. PICK a : a = Accepted(m)
  OBVIOUS
<1>6. PICK d : d = Entry(c, m.sid, k)
  OBVIOUS
<1>7. /\ toClient # <<>> /\ toClient' = Tail(toClient) /\ m.type = "open"
      /\ toServer' = Append(toServer, a) /\ table' = Append(table, d)
      /\ handles' = [handles EXCEPT ![k] = [state |-> "idle", cid |-> c, sid |-> m.sid]]
      /\ UNCHANGED <<wait, events, told, server, born, plan, astray>>
  BY <1>1, <1>3, <1>4, <1>5, <1>6 DEF HandleOpenAccepted, Hears, Say
<1>8. /\ m \in ToClient /\ k \in Channels /\ m \in On(toClient, k)
      /\ \A j : j # k => On(toClient', j) = On(toClient, j)
      /\ On(toClient', k) \subseteq On(toClient, k)
      /\ \A n \in On(toClient', k) : n.type \notin First
      /\ InTurn(toClient', {}) /\ NumbersInTurn(toClient', server)
  BY <1>1, <1>2, <1>3, <1>7, HeardFrom
<1>9. c \in Nat /\ m.sid \in ServerIds
  BY <1>2, <1>4, <1>7, <1>8, ClientMessage, NextIsNew
<1>10. PICK v : v = View(k)
  OBVIOUS
<1>11. PICK w : w = View(k)'
  OBVIOUS
<1>12. /\ Typed(v) /\ Life(v) /\ v.in = On(toClient, k) /\ v.out = On(toServer, k) /\ m \in v.in
       /\ v.entries = On(table, k) /\ v.peer = server[k]
  BY <1>2, <1>8, <1>10, Seen
<1>13. v.out = {} /\ v.peer.state = "asked"
  BY <1>7, <1>12, Offered
<1>14. a \in ToServer /\ a.chan = k /\ a.type = "confirm" /\ a.cid = c
  BY <1>3, <1>4, <1>5, <1>8, <1>9 DEF Accepted, ToServer
<1>15. /\ \A j : j # k => On(toServer', j) = On(toServer, j)
       /\ On(toServer', k) = On(toServer, k) \cup {a}
       /\ InTurn(toServer', {"failure"})
  <2>1. ~Some(On(toServer, k), "close")
    BY <1>12, <1>13 DEF Some
  <2> QED BY <1>2, <1>7, <1>12, <1>13, <1>14, <2>1, SentTo
<1>16. d \in Entries /\ d.chan = k
  BY <1>6, <1>8, <1>9 DEF Entry, Entries
<1>17. On(table', k) = On(table, k) \cup {d} /\ \A j : j # k => On(table', j) = On(table, j)
  <2>1. \A j : On(Append(table, d), j) = IF j = d.chan THEN On(table, j) \cup {d} ELSE On(table, j)
    BY <1>2, <1>16, OnPushed
  <2> QED BY <1>7, <1>16, <2>1
<1>18. /\ \A j \in Channels : j # k => handles'[j] = handles[j]
       /\ handles'[k] = [state |-> "idle", cid |-> c, sid |-> m.sid]
  <2>1. handles \in [Channels -> [state : HandleStates, cid : Nat, sid : Ids]]
    BY <1>2 DEF TypeOK
  <2> QED BY <1>7, <1>8, <2>1
<1>19. Life(w)
  <2>1. /\ w.in \subseteq v.in /\ \A n \in w.in : n.type \notin First
        /\ w.out = v.out \cup {a} /\ w.wait = v.wait /\ w.handle = handles'[k]
        /\ w.entries = v.entries \cup {d}
        /\ w.events = v.events /\ w.told = v.told /\ w.peer = v.peer /\ w.plan = v.plan
    BY <1>7, <1>8, <1>10, <1>11, <1>15, <1>17, Shown, ShownNext
  <2>2. /\ w.handle.state = "idle" /\ w.handle.cid = a.cid /\ w.handle.sid = m.sid
        /\ d.cid = a.cid /\ d.sid = m.sid /\ ~d.clientClosed /\ ~d.serverClosed
    BY <1>6, <1>14, <1>18, <2>1 DEF Entry
  <2> QED BY <1>7, <1>12, <1>14, <2>1, <2>2, LifeAccepted
<1>20. /\ NumbersApart(server') /\ InTurn(toServer', {"failure"}) /\ InTurn(events', {})
       /\ InTurn(toClient', {}) /\ NumbersInTurn(toClient', server')
       /\ astray' => "serverAsk" \in plan
  BY <1>7, <1>8, <1>15 DEF LifeInv
<1>21. /\ k \in Channels /\ Life(View(k)') /\ born' = born /\ plan' = plan /\ wait' = wait
       /\ server[k].state # "none"
       /\ \A j \in Channels : j # k =>
            /\ handles'[j] = handles[j] /\ server'[j] = server[j] /\ told'[j] = told[j]
            /\ On(events', j) = On(events, j) /\ On(toClient', j) = On(toClient, j)
            /\ On(toServer', j) = On(toServer, j) /\ On(table', j) = On(table, j)
  BY <1>7, <1>8, <1>11, <1>12, <1>13, <1>15, <1>17, <1>18, <1>19
<1> QED
  BY <1>20, <1>21, StepLife

-----------------------------------------------------------------------------
(* Applications.                                                           *)

\* Session::channel_open.
LEMMA BornLife ==
  ASSUME OrderInv, LifeInv, AppOpen
  PROVE  LifeInv'
<1>1. TypeOK /\ born \in Nat
  BY TableAssumption DEF OrderInv, TypeOK
<1>2. PICK k : k = born + 1
  OBVIOUS
<1>3. PICK e : e = Event("open", k)
  OBVIOUS
<1>4. /\ born < MaxChannels /\ born' = born + 1 /\ handles' = [handles EXCEPT ![k].state = "opening"]
      /\ events' = Append(events, e)
      /\ UNCHANGED <<table, wait, told, toServer, toClient, server, plan, astray>>
  BY <1>2, <1>3 DEF AppOpen
<1>5. k \in Channels /\ k = born' /\ k > born
  BY <1>1, <1>2, <1>4, TableAssumption DEF Channels
<1>6. handles[k] = NoOwner /\ server[k] = NoPeer
  BY <1>5 DEF LifeInv
<1>7. PICK v : v = View(k)
  OBVIOUS
<1>8. PICK w : w = View(k)'
  OBVIOUS
<1>9. /\ Typed(v) /\ Life(v) /\ v.events = On(events, k) /\ v.handle = NoOwner /\ v.peer = NoPeer
  BY <1>1, <1>5, <1>6, <1>7, Seen
<1>10. /\ \A j \in Channels : j # k => handles'[j] = handles[j]
       /\ handles'[k].state = "opening" /\ handles[k].cid \in Nat /\ handles[k].sid \in Ids
  <2>1. handles \in [Channels -> [state : HandleStates, cid : Nat, sid : Ids]]
    BY <1>1 DEF TypeOK
  <2> QED BY <1>4, <1>5, <2>1
<1>11. e \in Events /\ e.chan = k /\ e.type = "open"
  BY <1>3, <1>5, <1>10, Messages DEF Event
<1>12. On(events, k) = {} /\ ~Some(On(events, k), "close")
  <2>1. v.wait.for # "open"
    <3>1. ~Opening(v)
      BY <1>9 DEF Opening, NoOwner
    <3> QED BY <1>9, <3>1 DEF Life, WaitOk
  <2>2. v.handle.state = "none" /\ v.peer.state = "none"
    BY <1>9 DEF NoOwner, NoPeer
  <2>3. \A f \in v.events : f.type = "open"
    BY <1>9, <2>1, <2>2, Fresh
  <2>4. \A f \in v.events : FALSE
    BY <1>9, <2>2, <2>3 DEF Life, EventOk, Opening
  <2> QED BY <1>9, <2>4 DEF Some
<1>13. /\ \A j : j # k => On(events', j) = On(events, j)
       /\ On(events', k) = On(events, k) \cup {e}
       /\ InTurn(events', {})
  BY <1>1, <1>4, <1>11, <1>12, QueuedAt
<1>14. Life(w)
  <2>1. /\ w.events = v.events \cup {e} /\ w.in = v.in /\ w.out = v.out /\ w.wait = v.wait
        /\ w.handle = handles'[k] /\ w.entries = v.entries
        /\ w.told = v.told /\ w.peer = v.peer /\ w.plan = v.plan
    BY <1>4, <1>7, <1>8, <1>13, Shown, ShownNext
  <2>2. w.handle.state = "opening"
    BY <1>10, <2>1
  <2> QED BY <1>9, <1>11, <2>1, <2>2, LifeBorn
<1>15. /\ NumbersApart(server') /\ InTurn(toServer', {"failure"}) /\ InTurn(events', {})
       /\ InTurn(toClient', {}) /\ NumbersInTurn(toClient', server')
       /\ astray' => "serverAsk" \in plan
  BY <1>4, <1>13 DEF LifeInv
<1>16. /\ k \in Channels /\ Life(View(k)') /\ born' = born + 1 /\ plan' = plan /\ wait' = wait
       /\ k = born' /\ born \in Nat
       /\ \A j \in Channels : j # k =>
            /\ handles'[j] = handles[j] /\ server'[j] = server[j] /\ told'[j] = told[j]
            /\ On(events', j) = On(events, j) /\ On(toClient', j) = On(toClient, j)
            /\ On(toServer', j) = On(toServer, j) /\ On(table', j) = On(table, j)
  BY <1>1, <1>4, <1>5, <1>8, <1>10, <1>13, <1>14
<1> QED
  BY <1>15, <1>16, StepLife

\* A handle's method queues its event, or its Drop meets a full queue.
LEMMA HandleLifeStep ==
  ASSUME TypeOK, LifeInv, NEW k \in Channels, handles[k].state \in {"idle", "busy"},
         NEW e \in Events, e.chan = k, e.cid = handles[k].cid, e.sid = handles[k].sid,
         \A j \in Channels : j # k => handles'[j] = handles[j],
         handles'[k].cid = handles[k].cid, handles'[k].sid = handles[k].sid,
         \/ /\ handles[k].state = "idle" /\ handles'[k].state = "busy"
            /\ e.type \in {"eof", "request", "notice"} /\ (e.type = "request" => "request" \in plan)
            /\ events' = Append(events, e)
         \/ /\ handles'[k].state \in {"closing", "gone"} /\ e.type = "close"
            /\ events' = Append(events, e)
         \/ /\ handles'[k].state = "lost" /\ e.type = "close"
            /\ events' = events,
         UNCHANGED <<table, wait, told, toServer, toClient, server, born, plan, astray>>
  PROVE  LifeInv'
<1>1. PICK v : v = View(k)
  OBVIOUS
<1>2. PICK w : w = View(k)'
  OBVIOUS
<1>3. /\ Typed(v) /\ Life(v) /\ v.events = On(events, k) /\ v.handle = handles[k] /\ v.plan = plan
  BY <1>1, Seen
<1>4. ~Some(On(events, k), "close")
  BY <1>3, Usable
<1>5. e.type \notin First
  BY DEF First
<1>6. /\ \A j : j # k => On(events', j) = On(events, j)
      /\ InTurn(events', {})
      /\ handles'[k].state = "lost" => On(events', k) = On(events, k)
      /\ handles'[k].state # "lost" => On(events', k) = On(events, k) \cup {e}
  <2>1. CASE handles'[k].state # "lost"
    <3>1. events' = Append(events, e)
      BY <2>1
    <3> QED BY <1>4, <1>5, <2>1, <3>1, QueuedAt
  <2>2. CASE handles'[k].state = "lost"
    BY <2>2 DEF LifeInv
  <2> QED BY <2>1, <2>2
<1>7. Life(w)
  <2>1. /\ w.events = On(events', k) /\ w.in = v.in /\ w.out = v.out /\ w.wait = v.wait
        /\ w.handle = handles'[k] /\ w.entries = v.entries
        /\ w.told = v.told /\ w.peer = v.peer /\ w.plan = v.plan
    BY <1>1, <1>2, Shown, ShownNext
  <2>2. /\ w.handle.state = handles'[k].state
        /\ w.handle.cid = v.handle.cid /\ w.handle.sid = v.handle.sid
        /\ e.cid = v.handle.cid /\ e.sid = v.handle.sid
    BY <1>3, <2>1
  <2>3. \/ /\ v.handle.state = "idle" /\ w.handle.state = "busy"
           /\ e.type \in {"eof", "request", "notice"} /\ (e.type = "request" => "request" \in v.plan)
           /\ w.events = v.events \cup {e}
        \/ /\ w.handle.state \in {"closing", "gone"} /\ e.type = "close"
           /\ w.events = v.events \cup {e}
        \/ w.handle.state = "lost" /\ w.events = v.events
    BY <1>3, <1>6, <2>1, <2>2
  <2>4. v.handle.state \in {"idle", "busy"}
    BY <1>3
  <2> QED BY <1>3, <2>1, <2>2, <2>3, <2>4, LifeHandle
<1>8. /\ NumbersApart(server') /\ InTurn(toServer', {"failure"}) /\ InTurn(events', {})
      /\ InTurn(toClient', {}) /\ NumbersInTurn(toClient', server')
      /\ astray' => "serverAsk" \in plan
  BY <1>6 DEF LifeInv
<1>9. /\ k \in Channels /\ Life(View(k)') /\ born' = born /\ plan' = plan /\ wait' = wait
      /\ handles[k].state # "none"
      /\ \A j \in Channels : j # k =>
           /\ handles'[j] = handles[j] /\ server'[j] = server[j] /\ told'[j] = told[j]
           /\ On(events', j) = On(events, j) /\ On(toClient', j) = On(toClient, j)
           /\ On(toServer', j) = On(toServer, j) /\ On(table', j) = On(table, j)
  BY <1>2, <1>6, <1>7
<1> QED
  BY <1>8, <1>9, StepLife

\* The handle that a method, or Drop, leaves behind.
LEMMA AskLife ==
  ASSUME OrderInv, LifeInv, NEW k \in Channels,
         NEW type \in {"eof", "request", "notice", "close"}, NEW x, Ask(k, type, x),
         type = "close" => x = "closing", type # "close" => x = "busy",
         type = "request" => "request" \in plan
  PROVE  LifeInv'
<1>1. TypeOK /\ handles \in [Channels -> [state : HandleStates, cid : Nat, sid : Ids]]
  BY DEF OrderInv, TypeOK
<1>2. PICK e : e = Event(type, k)
  OBVIOUS
<1>3. /\ handles[k].state = "idle" /\ events' = Append(events, e)
      /\ handles' = [handles EXCEPT ![k].state = x]
      /\ UNCHANGED <<table, wait, told, toServer, toClient, server, born, plan, astray>>
  BY <1>2 DEF Ask
<1>4. /\ \A j \in Channels : j # k => handles'[j] = handles[j]
      /\ handles'[k].cid = handles[k].cid /\ handles'[k].sid = handles[k].sid
      /\ handles'[k].state = x /\ handles[k].cid \in Nat /\ handles[k].sid \in Ids
  BY <1>1, <1>3
<1>5. /\ e \in Events /\ e.chan = k /\ e.type = type
      /\ e.cid = handles[k].cid /\ e.sid = handles[k].sid
  BY <1>2, <1>4, Messages DEF Event
<1> QED
  BY <1>1, <1>3, <1>4, <1>5, HandleLifeStep

\* Channel::drop.
LEMMA DropLife ==
  ASSUME OrderInv, LifeInv, NEW k \in Channels, AppDrop(k)
  PROVE  LifeInv'
<1>1. TypeOK /\ handles \in [Channels -> [state : HandleStates, cid : Nat, sid : Ids]]
  BY DEF OrderInv, TypeOK
<1>2. UNCHANGED <<table, wait, told, toServer, toClient, server, born, plan, astray>>
  BY DEF AppDrop
<1>3. CASE handles[k].state \in {"idle", "busy"}
  <2>1. PICK e : e = [type |-> "close", chan |-> k, cid |-> handles[k].cid, sid |-> handles[k].sid]
    OBVIOUS
  <2>2. handles[k].cid \in Nat /\ handles[k].sid \in Ids
    BY <1>1
  <2>3. /\ e \in Events /\ e.chan = k /\ e.type = "close"
        /\ e.cid = handles[k].cid /\ e.sid = handles[k].sid
    BY <2>1, <2>2, Messages
  <2>4. Dropped(k, handles[k].cid, handles[k].sid)
    BY <1>3 DEF AppDrop
  <2>5. PICK x \in {"gone", "lost"} :
          /\ handles' = [handles EXCEPT ![k] = [state |-> x, cid |-> handles[k].cid,
                                                sid |-> handles[k].sid]]
          /\ x = "gone" => events' = Append(events, e)
          /\ x = "lost" => events' = events
    <3>1. CASE Len(events) < EventCap
      BY <2>1, <2>4, <3>1 DEF Dropped
    <3>2. CASE ~(Len(events) < EventCap)
      BY <2>1, <2>4, <3>2 DEF Dropped
    <3> QED BY <3>1, <3>2
  <2>6. /\ \A j \in Channels : j # k => handles'[j] = handles[j]
        /\ handles'[k].cid = handles[k].cid /\ handles'[k].sid = handles[k].sid
        /\ handles'[k].state = x
    BY <1>1, <2>5
  <2> QED BY <1>1, <1>2, <1>3, <2>3, <2>5, <2>6, HandleLifeStep
<1>4. CASE handles[k].state \in {"opening", "closing"}
  <2>1. PICK x : /\ \/ handles[k].state = "opening" /\ x = "abandoned"
                    \/ handles[k].state = "closing" /\ x = "gone"
                 /\ handles' = [handles EXCEPT ![k].state = x] /\ events' = events
    <3>1. CASE handles[k].state = "opening"
      <4>1. handles' = [handles EXCEPT ![k].state = "abandoned"] /\ events' = events
        BY <3>1 DEF AppDrop
      <4> QED BY <3>1, <4>1
    <3>2. CASE handles[k].state = "closing"
      <4>1. handles' = [handles EXCEPT ![k].state = "gone"] /\ events' = events
        BY <3>2 DEF AppDrop
      <4> QED BY <3>2, <4>1
    <3> QED BY <1>4, <3>1, <3>2
  <2>2. /\ \A j \in Channels : j # k => handles'[j] = handles[j]
        /\ handles'[k].cid = handles[k].cid /\ handles'[k].sid = handles[k].sid
        /\ handles'[k].state = x
    BY <1>1, <2>1
  <2>3. PICK v : v = View(k)
    OBVIOUS
  <2>4. PICK w : w = View(k)'
    OBVIOUS
  <2>5. Typed(v) /\ Life(v) /\ v.handle = handles[k]
    BY <1>1, <2>3, Seen
  <2>6. Life(w)
    <3>1. /\ w.events = v.events /\ w.in = v.in /\ w.out = v.out /\ w.wait = v.wait
          /\ w.handle = handles'[k] /\ w.entries = v.entries
          /\ w.told = v.told /\ w.peer = v.peer /\ w.plan = v.plan
      BY <1>2, <2>1, <2>3, <2>4, Shown, ShownNext
    <3>2. /\ w.handle.cid = v.handle.cid /\ w.handle.sid = v.handle.sid
          /\ \/ v.handle.state = "opening" /\ w.handle.state = "abandoned"
             \/ v.handle.state = "closing" /\ w.handle.state = "gone"
      BY <2>1, <2>2, <2>5, <3>1
    <3> QED BY <2>5, <3>1, <3>2, LifeGivenUp
  <2>7. /\ NumbersApart(server') /\ InTurn(toServer', {"failure"}) /\ InTurn(events', {})
        /\ InTurn(toClient', {}) /\ NumbersInTurn(toClient', server')
        /\ astray' => "serverAsk" \in plan
    BY <1>2, <2>1 DEF LifeInv
  <2>8. /\ k \in Channels /\ Life(View(k)') /\ born' = born /\ plan' = plan /\ wait' = wait
        /\ handles[k].state # "none"
        /\ \A j \in Channels : j # k =>
             /\ handles'[j] = handles[j] /\ server'[j] = server[j] /\ told'[j] = told[j]
             /\ On(events', j) = On(events, j) /\ On(toClient', j) = On(toClient, j)
             /\ On(toServer', j) = On(toServer, j) /\ On(table', j) = On(table, j)
    BY <1>2, <1>4, <2>1, <2>2, <2>4, <2>6
  <2> QED BY <2>7, <2>8, StepLife
<1> QED
  BY <1>3, <1>4 DEF AppDrop

-----------------------------------------------------------------------------
(* The server.                                                             *)

\* No confirmation under way has the number of a channel that is closed after it.
LEMMA NumbersTold ==
  ASSUME TypeOK, LifeInv, NEW m \in ToClient, toClient' = Append(toClient, m),
         \A j \in Channels : j # m.chan => server'[j].sid = server[j].sid,
         server'[m.chan].sid = server[m.chan].sid \/ On(toClient, m.chan) = {},
         m.type = "close" => InUse(server[m.chan]) /\ server'[m.chan].sid = server[m.chan].sid
  PROVE  NumbersInTurn(toClient', server')
<1>1. /\ toClient \in Seq(ToClient) /\ Range(toClient) \subseteq ToClient
      /\ NumbersInTurn(toClient, server) /\ NumbersApart(server)
  BY Placed DEF TypeOK, LifeInv
<1>2. m.chan \in Channels
  BY ClientMessage
<1>3. \A n \in Range(toClient) : server'[n.chan].sid = server[n.chan].sid
  <2> SUFFICES ASSUME NEW n \in Range(toClient) PROVE server'[n.chan].sid = server[n.chan].sid
    OBVIOUS
  <2>1. n.chan \in Channels
    BY <1>1, ClientMessage
  <2>2. n \in On(toClient, n.chan)
    BY DEF On
  <2> QED BY <2>1, <2>2
<1>4. PICK peers : peers = server'
  OBVIOUS
<1>5. NumbersInTurn(toClient, peers)
  BY <1>1, <1>3, <1>4, NumbersKept
<1>6. ASSUME m.type = "close", NEW c \in Range(toClient), c.type = "confirm", c.chan # m.chan
      PROVE  c.sid # peers[m.chan].sid
  <2>1. PICK k : k = c.chan
    OBVIOUS
  <2>2. k \in Channels /\ c \in On(toClient, k)
    BY <1>1, <2>1, ClientMessage DEF On
  <2>3. PICK v : v = View(k)
    OBVIOUS
  <2>4. Typed(v) /\ Life(v) /\ v.in = On(toClient, k) /\ v.peer = server[k]
    BY <2>2, <2>3, Seen
  <2>5. v.peer.state \in {"open", "closing"} /\ c.sid = v.peer.sid
    BY <1>6, <2>2, <2>4, Awaited
  <2>6. InUse(server[k]) /\ c.sid = server[k].sid /\ k # m.chan
    BY <1>6, <2>1, <2>4, <2>5 DEF InUse
  <2> QED BY <1>1, <1>2, <1>4, <1>6, <2>2, <2>6 DEF NumbersApart
<1>7. NumbersInTurn(Append(toClient, m), peers)
  BY <1>1, <1>5, <1>6, NumbersPushed
<1> QED
  BY <1>4, <1>7

\* Numbers stay apart when no channel takes a number.
LEMMA ApartKept ==
  ASSUME NumbersApart(server),
         \A j \in Channels : /\ server'[j].sid = server[j].sid
                             /\ InUse(server'[j]) => InUse(server[j])
  PROVE  NumbersApart(server')
  BY DEF NumbersApart

\* Numbers stay apart when a channel takes a free one.
LEMMA ApartAdded ==
  ASSUME NumbersApart(server), NEW k \in Channels, NEW s, Using(s) = {}, server'[k].sid = s,
         \A j \in Channels : j # k => server'[j] = server[j]
  PROVE  NumbersApart(server')
<1>1. \A j \in Channels : InUse(server[j]) => server[j].sid # s
  BY DEF Using, InUse
<1> SUFFICES ASSUME NEW i \in Channels, NEW j \in Channels, InUse(server'[i]), InUse(server'[j]),
                    server'[i].sid = server'[j].sid
             PROVE  i = j
  BY DEF NumbersApart
<1>2. CASE i # k /\ j # k
  BY <1>2 DEF NumbersApart
<1>3. CASE i = k \/ j = k
  BY <1>1, <1>3
<1> QED
  BY <1>2, <1>3

\* The server accepts an open.
LEMMA AcceptsLife ==
  ASSUME OrderInv, LifeInv, ServerAccepts
  PROVE  LifeInv'
<1>1. PICK m : m = Head(toServer)
  OBVIOUS
<1>2. TypeOK
  BY DEF OrderInv
<1>3. PICK k : k = m.chan
  OBVIOUS
<1>4. /\ toServer # <<>> /\ m.type = "open" /\ toServer' = Tail(toServer)
      /\ UNCHANGED <<table, wait, events, handles, told, plan, born, astray>>
  BY <1>1 DEF ServerAccepts, ServerHears, ClientState
<1>5. PICK s \in ServerIds :
        /\ Using(s) = {}
        /\ server' = [server EXCEPT ![k] = [state |-> "open", sid |-> s, cid |-> m.id]]
        /\ toClient' = Append(toClient, [type |-> "confirm", id |-> m.id, sid |-> s, chan |-> k])
  BY <1>1, <1>3 DEF ServerAccepts, Tell
<1>6. /\ m \in ToServer /\ k \in Channels /\ m \in On(toServer, k)
      /\ \A j : j # k => On(toServer', j) = On(toServer, j)
      /\ On(toServer', k) \subseteq On(toServer, k)
      /\ \A n \in On(toServer', k) : n.type \notin First
      /\ InTurn(toServer', {"failure"})
  BY <1>1, <1>2, <1>3, <1>4, ReadFrom
<1>7. PICK c : c = [type |-> "confirm", id |-> m.id, sid |-> s, chan |-> k]
  OBVIOUS
<1>8. /\ c \in ToClient /\ c.chan = k /\ c.type = "confirm" /\ c.id = m.id /\ c.sid = s
  <2>1. m.id \in Nat
    BY <1>4, <1>6, ServerMessage
  <2> QED BY <1>6, <1>7, <2>1, Messages
<1>9. PICK v : v = View(k)
  OBVIOUS
<1>10. PICK w : w = View(k)'
  OBVIOUS
<1>11. Typed(v) /\ Life(v) /\ v.in = On(toClient, k) /\ v.out = On(toServer, k) /\ v.handle = handles[k]
  BY <1>2, <1>6, <1>9, Seen
<1>12. m \in v.out /\ v.in = {} /\ Opening(v)
  BY <1>4, <1>6, <1>11, Requested
<1>13. /\ \A j : j # k => On(toClient', j) = On(toClient, j)
       /\ On(toClient', k) = On(toClient, k) \cup {c}
       /\ InTurn(toClient', {})
  <2>1. ~Some(On(toClient, k), "close") /\ On(toClient, k) = {}
    BY <1>11, <1>12 DEF Some
  <2> QED BY <1>2, <1>5, <1>7, <1>8, <2>1, ToldTo
<1>14. /\ \A j \in Channels : j # k => server'[j] = server[j]
       /\ server'[k] = [state |-> "open", sid |-> s, cid |-> m.id]
  <2>1. server \in [Channels -> [state : PeerStates, sid : Ids, cid : Nat]]
    BY <1>2 DEF TypeOK
  <2> QED BY <1>5, <1>6, <2>1
<1>15. NumbersApart(server')
  <2>1. NumbersApart(server) /\ server'[k].sid = s
    BY <1>14 DEF LifeInv
  <2> QED BY <1>5, <1>6, <1>14, <2>1, ApartAdded
<1>16. NumbersInTurn(toClient', server')
  BY <1>2, <1>5, <1>7, <1>8, <1>11, <1>12, <1>14, NumbersTold
<1>17. Life(w)
  <2>1. /\ w.out \subseteq v.out /\ \A n \in w.out : n.type \notin First
        /\ w.in = v.in \cup {c} /\ w.peer = server'[k] /\ w.wait = v.wait
        /\ w.handle = v.handle /\ w.entries = v.entries
        /\ w.events = v.events /\ w.told = v.told /\ w.plan = v.plan
    BY <1>4, <1>6, <1>9, <1>10, <1>13, Shown, ShownNext
  <2>2. w.peer = [state |-> "open", sid |-> s, cid |-> m.id]
    BY <1>14, <2>1
  <2> QED BY <1>4, <1>8, <1>11, <1>12, <2>1, <2>2, LifeConfirms
<1>18. /\ NumbersApart(server') /\ InTurn(toServer', {"failure"}) /\ InTurn(events', {})
       /\ InTurn(toClient', {}) /\ NumbersInTurn(toClient', server')
       /\ astray' => "serverAsk" \in plan
  BY <1>4, <1>6, <1>13, <1>15, <1>16 DEF LifeInv
<1>19. /\ k \in Channels /\ Life(View(k)') /\ born' = born /\ plan' = plan /\ wait' = wait
       /\ handles[k].state # "none"
       /\ \A j \in Channels : j # k =>
            /\ handles'[j] = handles[j] /\ server'[j] = server[j] /\ told'[j] = told[j]
            /\ On(events', j) = On(events, j) /\ On(toClient', j) = On(toClient, j)
            /\ On(toServer', j) = On(toServer, j) /\ On(table', j) = On(table, j)
  BY <1>4, <1>6, <1>10, <1>11, <1>12, <1>13, <1>14, <1>17 DEF Opening
<1> QED
  BY <1>18, <1>19, StepLife

\* The server refuses an open.
LEMMA RefusesLife ==
  ASSUME OrderInv, LifeInv, ServerRefuses
  PROVE  LifeInv'
<1>1. PICK m : m = Head(toServer)
  OBVIOUS
<1>2. TypeOK
  BY DEF OrderInv
<1>3. PICK k : k = m.chan
  OBVIOUS
<1>4. PICK c : c = Msg("refuse", m.id, k)
  OBVIOUS
<1>5. /\ toServer # <<>> /\ m.type = "open" /\ toServer' = Tail(toServer)
      /\ toClient' = Append(toClient, c)
      /\ UNCHANGED <<table, wait, events, handles, told, plan, server, born, astray>>
  BY <1>1, <1>3, <1>4 DEF ServerRefuses, ServerHears, ClientState, Tell
<1>6. /\ m \in ToServer /\ k \in Channels /\ m \in On(toServer, k)
      /\ \A j : j # k => On(toServer', j) = On(toServer, j)
      /\ On(toServer', k) \subseteq On(toServer, k)
      /\ \A n \in On(toServer', k) : n.type \notin First
      /\ InTurn(toServer', {"failure"})
  BY <1>1, <1>2, <1>3, <1>5, ReadFrom
<1>7. /\ c \in ToClient /\ c.chan = k /\ c.type = "refuse"
  <2>1. m.id \in Nat
    BY <1>5, <1>6, ServerMessage
  <2> QED BY <1>4, <1>6, <2>1, Messages DEF Msg, ClientTypes
<1>8. PICK v : v = View(k)
  OBVIOUS
<1>9. PICK w : w = View(k)'
  OBVIOUS
<1>10. Typed(v) /\ Life(v) /\ v.in = On(toClient, k) /\ v.out = On(toServer, k) /\ v.handle = handles[k]
  BY <1>2, <1>6, <1>8, Seen
<1>11. m \in v.out /\ v.in = {} /\ Opening(v)
  BY <1>5, <1>6, <1>10, Requested
<1>12. /\ \A j : j # k => On(toClient', j) = On(toClient, j)
       /\ On(toClient', k) = On(toClient, k) \cup {c}
       /\ InTurn(toClient', {})
  <2>1. ~Some(On(toClient, k), "close") /\ On(toClient, k) = {}
    BY <1>10, <1>11 DEF Some
  <2> QED BY <1>2, <1>5, <1>7, <2>1, ToldTo
<1>13. NumbersInTurn(toClient', server')
  BY <1>2, <1>5, <1>7, NumbersTold
<1>14. Life(w)
  <2>1. /\ w.out \subseteq v.out /\ \A n \in w.out : n.type \notin First
        /\ w.in = v.in \cup {c} /\ w.peer = v.peer /\ w.wait = v.wait
        /\ w.handle = v.handle /\ w.entries = v.entries
        /\ w.events = v.events /\ w.told = v.told /\ w.plan = v.plan
    BY <1>5, <1>6, <1>8, <1>9, <1>12, Shown, ShownNext
  <2> QED BY <1>5, <1>7, <1>10, <1>11, <2>1, LifeRefuses
<1>15. /\ NumbersApart(server') /\ InTurn(toServer', {"failure"}) /\ InTurn(events', {})
       /\ InTurn(toClient', {}) /\ NumbersInTurn(toClient', server')
       /\ astray' => "serverAsk" \in plan
  BY <1>5, <1>6, <1>12, <1>13 DEF LifeInv
<1>16. /\ k \in Channels /\ Life(View(k)') /\ born' = born /\ plan' = plan /\ wait' = wait
       /\ handles[k].state # "none"
       /\ \A j \in Channels : j # k =>
            /\ handles'[j] = handles[j] /\ server'[j] = server[j] /\ told'[j] = told[j]
            /\ On(events', j) = On(events, j) /\ On(toClient', j) = On(toClient, j)
            /\ On(toServer', j) = On(toServer, j) /\ On(table', j) = On(table, j)
  BY <1>5, <1>6, <1>9, <1>10, <1>11, <1>12, <1>14 DEF Opening
<1> QED
  BY <1>15, <1>16, StepLife

\* The server opens a channel.
LEMMA OpensLife ==
  ASSUME OrderInv, LifeInv, ServerOpens
  PROVE  LifeInv'
<1>1. TypeOK /\ born \in Nat
  BY TableAssumption DEF OrderInv, TypeOK
<1>2. PICK k : k = born + 1
  OBVIOUS
<1>3. /\ born < MaxChannels /\ born' = born + 1
      /\ UNCHANGED <<table, wait, events, handles, told, plan, toServer, astray>>
  BY DEF ServerOpens, ClientState
<1>4. PICK s \in ServerIds :
        /\ Using(s) = {}
        /\ server' = [server EXCEPT ![k] = [state |-> "asked", sid |-> s, cid |-> None]]
        /\ toClient' = Append(toClient, [type |-> "open", id |-> None, sid |-> s, chan |-> k])
  BY <1>2 DEF ServerOpens, Tell
<1>5. k \in Channels /\ k = born' /\ k > born
  BY <1>1, <1>2, <1>3, TableAssumption DEF Channels
<1>6. handles[k] = NoOwner /\ server[k] = NoPeer
  BY <1>5 DEF LifeInv
<1>7. PICK c : c = [type |-> "open", id |-> None, sid |-> s, chan |-> k]
  OBVIOUS
<1>8. /\ c \in ToClient /\ c.chan = k /\ c.type = "open" /\ c.sid = s
  <2>1. None \in Nat
    BY DEF None
  <2> QED BY <1>5, <1>7, <2>1, Messages
<1>9. PICK v : v = View(k)
  OBVIOUS
<1>10. PICK w : w = View(k)'
  OBVIOUS
<1>11. /\ Typed(v) /\ Life(v) /\ v.in = On(toClient, k) /\ v.handle = NoOwner /\ v.peer = NoPeer
  BY <1>1, <1>5, <1>6, <1>9, Seen
<1>12. On(toClient, k) = {} /\ ~Some(On(toClient, k), "close")
  <2>1. v.wait.for # "open"
    <3>1. ~Opening(v)
      BY <1>11 DEF Opening, NoOwner
    <3> QED BY <1>11, <3>1 DEF Life, WaitOk
  <2>2. v.handle.state = "none" /\ v.peer.state = "none"
    BY <1>11 DEF NoOwner, NoPeer
  <2>3. v.in = {}
    BY <1>11, <2>1, <2>2, Fresh
  <2> QED BY <1>11, <2>3 DEF Some
<1>13. /\ \A j : j # k => On(toClient', j) = On(toClient, j)
       /\ On(toClient', k) = On(toClient, k) \cup {c}
       /\ InTurn(toClient', {})
  BY <1>1, <1>4, <1>7, <1>8, <1>12, ToldTo
<1>14. /\ \A j \in Channels : j # k => server'[j] = server[j]
       /\ server'[k] = [state |-> "asked", sid |-> s, cid |-> None]
  <2>1. server \in [Channels -> [state : PeerStates, sid : Ids, cid : Nat]]
    BY <1>1 DEF TypeOK
  <2> QED BY <1>4, <1>5, <2>1
<1>15. NumbersApart(server')
  <2>1. NumbersApart(server) /\ server'[k].sid = s
    BY <1>14 DEF LifeInv
  <2> QED BY <1>4, <1>5, <1>14, <2>1, ApartAdded
<1>16. NumbersInTurn(toClient', server')
  BY <1>1, <1>4, <1>7, <1>8, <1>12, <1>14, NumbersTold
<1>17. Life(w)
  <2>1. /\ w.out = v.out /\ w.in = v.in \cup {c} /\ w.peer = server'[k] /\ w.wait = v.wait
        /\ w.handle = v.handle /\ w.entries = v.entries
        /\ w.events = v.events /\ w.told = v.told /\ w.plan = v.plan
    BY <1>3, <1>9, <1>10, <1>13, Shown, ShownNext
  <2>2. w.peer = [state |-> "asked", sid |-> s, cid |-> None]
    BY <1>14, <2>1
  <2> QED BY <1>8, <1>11, <2>1, <2>2, LifeAsks
<1>18. /\ NumbersApart(server') /\ InTurn(toServer', {"failure"}) /\ InTurn(events', {})
       /\ InTurn(toClient', {}) /\ NumbersInTurn(toClient', server')
       /\ astray' => "serverAsk" \in plan
  BY <1>3, <1>13, <1>15, <1>16 DEF LifeInv
<1>19. /\ k \in Channels /\ Life(View(k)') /\ born' = born + 1 /\ plan' = plan /\ wait' = wait
       /\ k = born' /\ born \in Nat
       /\ \A j \in Channels : j # k =>
            /\ handles'[j] = handles[j] /\ server'[j] = server[j] /\ told'[j] = told[j]
            /\ On(events', j) = On(events, j) /\ On(toClient', j) = On(toClient, j)
            /\ On(toServer', j) = On(toServer, j) /\ On(table', j) = On(table, j)
  BY <1>1, <1>3, <1>5, <1>10, <1>13, <1>14, <1>17
<1> QED
  BY <1>18, <1>19, StepLife

\* The server hears that its open was accepted, or refused.
LEMMA AnsweredLife ==
  ASSUME OrderInv, LifeInv, ServerConfirmed \/ ServerRefused
  PROVE  LifeInv'
<1>1. PICK m : m = Head(toServer)
  OBVIOUS
<1>2. TypeOK /\ server \in [Channels -> [state : PeerStates, sid : Ids, cid : Nat]]
  BY DEF OrderInv, TypeOK
<1>3. PICK k : k = m.chan
  OBVIOUS
<1>4. /\ toServer # <<>> /\ toServer' = Tail(toServer) /\ m.type \in {"confirm", "refuse"}
      /\ UNCHANGED <<table, wait, events, handles, told, plan, toClient, born, astray>>
      /\ m.type = "confirm" => server' = [server EXCEPT ![k].state = "open", ![k].cid = m.cid]
      /\ m.type = "refuse" => server' = [server EXCEPT ![k].state = "gone"]
  <2>1. CASE ServerConfirmed
    BY <1>1, <1>3, <2>1 DEF ServerConfirmed, ServerHears, ClientState
  <2>2. CASE ServerRefused
    BY <1>1, <1>3, <2>2 DEF ServerRefused, ServerHears, ClientState
  <2> QED BY <2>1, <2>2
<1>5. /\ m \in ToServer /\ k \in Channels /\ m \in On(toServer, k)
      /\ \A j : j # k => On(toServer', j) = On(toServer, j)
      /\ On(toServer', k) \subseteq On(toServer, k)
      /\ On(toServer, k) \subseteq On(toServer', k) \cup {m}
      /\ \A n \in On(toServer', k) : n.type \notin First
      /\ InTurn(toServer', {"failure"})
  BY <1>1, <1>2, <1>3, <1>4, ReadFrom
<1>6. /\ \A j \in Channels : j # k => server'[j] = server[j]
      /\ server'[k].sid = server[k].sid
      /\ m.type = "confirm" => server'[k].state = "open" /\ server'[k].cid = m.cid
      /\ m.type = "refuse" => server'[k].state = "gone"
  <2>1. CASE m.type = "confirm"
    BY <1>2, <1>4, <1>5, <2>1
  <2>2. CASE m.type = "refuse"
    BY <1>2, <1>4, <1>5, <2>2
  <2> QED BY <1>4, <2>1, <2>2
<1>7. PICK v : v = View(k)
  OBVIOUS
<1>8. PICK w : w = View(k)'
  OBVIOUS
<1>9. /\ Typed(v) /\ Life(v) /\ v.out = On(toServer, k) /\ v.peer = server[k] /\ m \in v.out
  BY <1>2, <1>5, <1>7, Seen
<1>10. server[k].state = "asked"
  BY <1>4, <1>9 DEF Life, OutOk
<1>11. NumbersApart(server')
  <2>1. NumbersApart(server)
    BY DEF LifeInv
  <2>2. \A j \in Channels : /\ server'[j].sid = server[j].sid
                            /\ InUse(server'[j]) => InUse(server[j])
    BY <1>6, <1>10 DEF InUse
  <2> QED BY <2>1, <2>2, ApartKept
<1>12. NumbersInTurn(toClient', server')
  <2>1. /\ toClient \in Seq(ToClient) /\ Range(toClient) \subseteq ToClient
        /\ NumbersInTurn(toClient, server)
    BY <1>2, Placed DEF TypeOK, LifeInv
  <2>2. PICK peers : peers = server'
    OBVIOUS
  <2>3. \A n \in Range(toClient) : peers[n.chan].sid = server[n.chan].sid
    BY <1>6, <2>1, <2>2, ClientMessage
  <2>4. NumbersInTurn(toClient, peers)
    BY <2>1, <2>3, NumbersKept
  <2> QED BY <1>4, <2>2, <2>4
<1>13. Life(w)
  <2>1. /\ w.out \subseteq v.out /\ v.out \subseteq w.out \cup {m}
        /\ \A n \in w.out : n.type \notin First
        /\ w.in = v.in /\ w.peer = server'[k] /\ w.wait = v.wait
        /\ w.handle = v.handle /\ w.entries = v.entries
        /\ w.events = v.events /\ w.told = v.told /\ w.plan = v.plan
    BY <1>4, <1>5, <1>7, <1>8, Shown, ShownNext
  <2>2. CASE m.type = "confirm"
    <3>1. w.peer.state = "open" /\ w.peer.sid = v.peer.sid /\ w.peer.cid = m.cid
      BY <1>6, <1>9, <2>1, <2>2
    <3> QED BY <1>9, <2>1, <2>2, <3>1, LifeConfirmed
  <2>3. CASE m.type = "refuse"
    <3>1. w.peer.state = "gone"
      BY <1>6, <2>1, <2>3
    <3> QED BY <1>9, <2>1, <2>3, <3>1, LifeDenied
  <2> QED BY <1>4, <2>2, <2>3
<1>14. /\ NumbersApart(server') /\ InTurn(toServer', {"failure"}) /\ InTurn(events', {})
       /\ InTurn(toClient', {}) /\ NumbersInTurn(toClient', server')
       /\ astray' => "serverAsk" \in plan
  BY <1>4, <1>5, <1>11, <1>12 DEF LifeInv
<1>15. /\ k \in Channels /\ Life(View(k)') /\ born' = born /\ plan' = plan /\ wait' = wait
       /\ server[k].state # "none"
       /\ \A j \in Channels : j # k =>
            /\ handles'[j] = handles[j] /\ server'[j] = server[j] /\ told'[j] = told[j]
            /\ On(events', j) = On(events, j) /\ On(toClient', j) = On(toClient, j)
            /\ On(toServer', j) = On(toServer, j) /\ On(table', j) = On(table, j)
  BY <1>4, <1>5, <1>6, <1>8, <1>10, <1>13
<1> QED
  BY <1>14, <1>15, StepLife

\* The server says something about an open channel, or closes it.
LEMMA TalkLife ==
  ASSUME TypeOK, LifeInv, NEW k \in Channels, server[k].state = "open",
         NEW t \in {"data", "eof", "ask", "close"},
         toClient' = Append(toClient, Msg(t, server[k].cid, k)), t = "ask" => "serverAsk" \in plan,
         t = "close" => "serverClose" \in plan /\ server' = [server EXCEPT ![k].state = "closing"],
         t # "close" => server' = server,
         UNCHANGED <<table, wait, events, handles, told, plan, toServer, born, astray>>
  PROVE  LifeInv'
<1>1. PICK c : c = Msg(t, server[k].cid, k)
  OBVIOUS
<1>2. server \in [Channels -> [state : PeerStates, sid : Ids, cid : Nat]]
  BY DEF TypeOK
<1>3. c \in ToClient /\ c.chan = k /\ c.id = server[k].cid /\ c.type = t /\ c.type \notin First
  <2>1. server[k].cid \in Nat /\ t \in ClientTypes
    BY <1>2 DEF ClientTypes
  <2> QED BY <1>1, <2>1, Messages DEF Msg, First
<1>4. /\ \A j \in Channels : j # k => server'[j] = server[j]
      /\ server'[k].sid = server[k].sid /\ server'[k].cid = server[k].cid
      /\ t = "close" => server'[k].state = "closing"
      /\ t # "close" => server'[k] = server[k]
      /\ server'[k].state \in {"open", "closing"}
  BY <1>2
<1>5. PICK v : v = View(k)
  OBVIOUS
<1>6. PICK w : w = View(k)'
  OBVIOUS
<1>7. Typed(v) /\ Life(v) /\ v.in = On(toClient, k) /\ v.peer = server[k] /\ v.plan = plan
  BY <1>5, Seen
<1>8. ~Some(On(toClient, k), "close")
  BY <1>7 DEF Life, InOk, Some
<1>9. /\ \A j : j # k => On(toClient', j) = On(toClient, j)
      /\ On(toClient', k) = On(toClient, k) \cup {c}
      /\ InTurn(toClient', {})
  BY <1>1, <1>3, <1>8, ToldTo
<1>10. NumbersApart(server')
  <2>1. NumbersApart(server)
    BY DEF LifeInv
  <2>2. \A j \in Channels : /\ server'[j].sid = server[j].sid
                            /\ InUse(server'[j]) => InUse(server[j])
    BY <1>4 DEF InUse
  <2> QED BY <2>1, <2>2, ApartKept
<1>11. NumbersInTurn(toClient', server')
  <2>1. InUse(server[k])
    BY DEF InUse
  <2> QED BY <1>1, <1>3, <1>4, <2>1, NumbersTold
<1>12. Life(w)
  <2>1. /\ w.out = v.out /\ w.in = v.in \cup {c} /\ w.peer = server'[k] /\ w.wait = v.wait
        /\ w.handle = v.handle /\ w.entries = v.entries
        /\ w.events = v.events /\ w.told = v.told /\ w.plan = v.plan
    BY <1>5, <1>6, <1>9, Shown, ShownNext
  <2>2. \/ /\ c.type \in {"data", "eof", "ask", "success", "failure"}
           /\ c.type = "ask" => "serverAsk" \in v.plan
           /\ w.peer = v.peer
        \/ /\ c.type = "close" /\ "serverClose" \in v.plan
           /\ w.peer.state = "closing" /\ w.peer.sid = v.peer.sid /\ w.peer.cid = v.peer.cid
    BY <1>3, <1>4, <1>7, <2>1
  <2>3. v.peer.state = "open" /\ c.id = v.peer.cid
    BY <1>3, <1>7
  <2> QED BY <1>7, <2>1, <2>2, <2>3, LifeTalks
<1>13. /\ NumbersApart(server') /\ InTurn(toServer', {"failure"}) /\ InTurn(events', {})
       /\ InTurn(toClient', {}) /\ NumbersInTurn(toClient', server')
       /\ astray' => "serverAsk" \in plan
  BY <1>9, <1>10, <1>11 DEF LifeInv
<1>14. /\ k \in Channels /\ Life(View(k)') /\ born' = born /\ plan' = plan /\ wait' = wait
       /\ server[k].state # "none"
       /\ \A j \in Channels : j # k =>
            /\ handles'[j] = handles[j] /\ server'[j] = server[j] /\ told'[j] = told[j]
            /\ On(events', j) = On(events, j) /\ On(toClient', j) = On(toClient, j)
            /\ On(toServer', j) = On(toServer, j) /\ On(table', j) = On(table, j)
  BY <1>4, <1>6, <1>9, <1>12
<1> QED
  BY <1>13, <1>14, StepLife

\* ServerCloses and ServerTalks.
LEMMA SpeaksLife ==
  ASSUME OrderInv, LifeInv, NEW k \in Channels, ServerCloses(k) \/ ServerTalks(k)
  PROVE  LifeInv'
<1>1. TypeOK
  BY DEF OrderInv
<1>2. /\ server[k].state = "open"
      /\ UNCHANGED <<table, wait, events, handles, told, plan, toServer, born, astray>>
  BY DEF ServerCloses, ServerTalks, ClientState
<1>3. CASE ServerCloses(k)
  <2>1. /\ "serverClose" \in plan /\ server' = [server EXCEPT ![k].state = "closing"]
        /\ toClient' = Append(toClient, Msg("close", server[k].cid, k))
    BY <1>3 DEF ServerCloses, Tell
  <2> QED BY <1>1, <1>2, <2>1, TalkLife
<1>4. CASE ServerTalks(k)
  <2>1. PICK t \in (IF "serverData" \in plan THEN {"data", "eof"} ELSE {})
                     \cup (IF "serverAsk" \in plan THEN {"ask"} ELSE {}) :
          toClient' = Append(toClient, Msg(t, server[k].cid, k)) /\ server' = server
    BY <1>4 DEF ServerTalks, Tell
  <2>2. t \in {"data", "eof", "ask"} /\ (t = "ask" => "serverAsk" \in plan)
    OBVIOUS
  <2> QED BY <1>1, <1>2, <2>1, <2>2, TalkLife
<1> QED
  BY <1>3, <1>4

\* A message for a channel that is in use finds that channel.
LEMMA UsingIts ==
  ASSUME TypeOK, LifeInv, NEW k \in Channels, NEW m, m \in On(toServer, k),
         m.type \in {"eof", "request", "notice", "close"}
  PROVE  Using(m.id) = {k} /\ InUse(server[k])
<1>1. PICK v : v = View(k)
  OBVIOUS
<1>2. Life(v) /\ v.out = On(toServer, k) /\ v.peer = server[k]
  BY <1>1, Seen
<1>3. InUse(server[k]) /\ m.id = server[k].sid
  BY <1>2 DEF Life, OutOk
<1>4. k \in Using(m.id)
  BY <1>3 DEF Using, InUse
<1>5. \A j \in Using(m.id) : j = k
  BY <1>3 DEF LifeInv, NumbersApart, Using, InUse
<1> QED
  BY <1>3, <1>4, <1>5

\* The client's CLOSE reaches the server.
LEMMA CloseReceivedLife ==
  ASSUME OrderInv, LifeInv, ServerHearsClose
  PROVE  LifeInv'
<1>1. PICK m : m = Head(toServer)
  OBVIOUS
<1>2. TypeOK /\ server \in [Channels -> [state : PeerStates, sid : Ids, cid : Nat]]
  BY DEF OrderInv, TypeOK
<1>3. PICK k : k = m.chan
  OBVIOUS
<1>4. /\ toServer # <<>> /\ toServer' = Tail(toServer) /\ m.type = "close"
      /\ UNCHANGED <<table, wait, events, handles, told, plan, born>>
      /\ astray' = (astray \/ ~Reaches(m))
      /\ server' = [j \in Channels |-> IF j \in Using(m.id)
                                       THEN [server[j] EXCEPT !.state = "gone"] ELSE server[j]]
      /\ IF \E j \in Using(m.id) : server[j].state = "open"
         THEN \E j \in Using(m.id) : toClient' = Append(toClient, Msg("close", server[j].cid, j))
         ELSE UNCHANGED toClient
  BY <1>1 DEF ServerHearsClose, ServerHears, ClientState, Tell
<1>5. /\ m \in ToServer /\ k \in Channels /\ m \in On(toServer, k)
      /\ \A j : j # k => On(toServer', j) = On(toServer, j)
      /\ On(toServer', k) \subseteq On(toServer, k)
      /\ On(toServer, k) \subseteq On(toServer', k) \cup {m}
      /\ \A n \in On(toServer', k) : n.type = "failure"
      /\ InTurn(toServer', {"failure"})
  BY <1>1, <1>2, <1>3, <1>4, ReadFrom
<1>6. Using(m.id) = {k} /\ InUse(server[k])
  BY <1>2, <1>4, <1>5, UsingIts
<1>7. astray' => astray
  BY <1>3, <1>4, <1>6 DEF Reaches
<1>8. PICK c : c = Msg("close", server[k].cid, k)
  OBVIOUS
<1>9. c \in ToClient /\ c.chan = k /\ c.id = server[k].cid /\ c.type = "close" /\ c.type \notin First
  <2>1. server[k].cid \in Nat
    BY <1>2, <1>5
  <2> QED BY <1>5, <1>8, <2>1, Messages DEF Msg, First, ClientTypes
<1>10. /\ server[k].state = "open" => toClient' = Append(toClient, c)
       /\ server[k].state # "open" => toClient' = toClient
  BY <1>4, <1>6, <1>8
<1>11. /\ \A j \in Channels : j # k => server'[j] = server[j]
       /\ server'[k].state = "gone" /\ server'[k].sid = server[k].sid
       /\ server'[k].cid = server[k].cid
  BY <1>2, <1>4, <1>5, <1>6
<1>12. PICK v : v = View(k)
  OBVIOUS
<1>13. PICK w : w = View(k)'
  OBVIOUS
<1>14. /\ Typed(v) /\ Life(v) /\ v.in = On(toClient, k) /\ v.out = On(toServer, k)
       /\ v.peer = server[k]
  BY <1>2, <1>5, <1>12, Seen
<1>15. /\ \A j : j # k => On(toClient', j) = On(toClient, j)
       /\ On(toClient', k) = IF server[k].state = "open" THEN On(toClient, k) \cup {c}
                             ELSE On(toClient, k)
       /\ InTurn(toClient', {}) /\ NumbersInTurn(toClient', server')
  <2>1. CASE server[k].state = "open"
    <3>1. ~Some(On(toClient, k), "close")
      BY <1>14, <2>1 DEF Life, InOk, Some
    <3>2. /\ \A j : j # k => On(toClient', j) = On(toClient, j)
          /\ On(toClient', k) = On(toClient, k) \cup {c}
          /\ InTurn(toClient', {})
      BY <1>2, <1>9, <1>10, <2>1, <3>1, ToldTo
    <3>3. NumbersInTurn(toClient', server')
      BY <1>2, <1>6, <1>9, <1>10, <1>11, <2>1, NumbersTold
    <3> QED BY <2>1, <3>2, <3>3
  <2>2. CASE server[k].state # "open"
    <3>1. /\ toClient \in Seq(ToClient) /\ Range(toClient) \subseteq ToClient
          /\ NumbersInTurn(toClient, server) /\ InTurn(toClient, {})
      BY <1>2, Placed DEF TypeOK, LifeInv
    <3>2. PICK peers : peers = server'
      OBVIOUS
    <3>3. \A n \in Range(toClient) : peers[n.chan].sid = server[n.chan].sid
      BY <1>11, <3>1, <3>2, ClientMessage
    <3>4. NumbersInTurn(toClient, peers)
      BY <3>1, <3>3, NumbersKept
    <3> QED BY <1>10, <2>2, <3>1, <3>2, <3>4
  <2> QED BY <2>1, <2>2
<1>16. NumbersApart(server')
  <2>1. NumbersApart(server)
    BY DEF LifeInv
  <2>2. \A j \in Channels : /\ server'[j].sid = server[j].sid
                            /\ InUse(server'[j]) => InUse(server[j])
    BY <1>6, <1>11
  <2> QED BY <2>1, <2>2, ApartKept
<1>17. Life(w)
  <2>1. /\ w.out \subseteq v.out /\ v.out \subseteq w.out \cup {m}
        /\ \A n \in w.out : n.type = "failure"
        /\ w.in = On(toClient', k) /\ w.peer = server'[k] /\ w.wait = v.wait
        /\ w.handle = v.handle /\ w.entries = v.entries
        /\ w.events = v.events /\ w.told = v.told /\ w.plan = v.plan
    BY <1>4, <1>5, <1>12, <1>13, Shown, ShownNext
  <2>2. /\ w.peer.state = "gone" /\ w.peer.sid = v.peer.sid /\ w.peer.cid = v.peer.cid
        /\ c.id = v.peer.cid
    BY <1>9, <1>11, <1>14, <2>1
  <2>3. w.in = IF v.peer.state = "open" THEN v.in \cup {c} ELSE v.in
    BY <1>14, <1>15, <2>1
  <2>4. m \in v.out /\ m.type = "close" /\ c.type = "close"
    BY <1>4, <1>5, <1>9, <1>14
  <2> QED BY <1>14, <2>1, <2>2, <2>3, <2>4, LifeCloseReceived
<1>18. /\ NumbersApart(server') /\ InTurn(toServer', {"failure"}) /\ InTurn(events', {})
       /\ InTurn(toClient', {}) /\ NumbersInTurn(toClient', server')
       /\ astray' => "serverAsk" \in plan
  BY <1>4, <1>5, <1>7, <1>15, <1>16 DEF LifeInv
<1>19. /\ k \in Channels /\ Life(View(k)') /\ born' = born /\ plan' = plan /\ wait' = wait
       /\ server[k].state # "none"
       /\ \A j \in Channels : j # k =>
            /\ handles'[j] = handles[j] /\ server'[j] = server[j] /\ told'[j] = told[j]
            /\ On(events', j) = On(events, j) /\ On(toClient', j) = On(toClient, j)
            /\ On(toServer', j) = On(toServer, j) /\ On(table', j) = On(table, j)
  BY <1>4, <1>5, <1>6, <1>11, <1>13, <1>15, <1>17 DEF InUse
<1> QED
  BY <1>18, <1>19, StepLife

\* Any other message reaches the server; a request may be answered.
LEMMA ReceivedLife ==
  ASSUME OrderInv, LifeInv, ServerHearsOther
  PROVE  LifeInv'
<1>1. PICK m : m = Head(toServer)
  OBVIOUS
<1>2. TypeOK /\ server \in [Channels -> [state : PeerStates, sid : Ids, cid : Nat]]
  BY DEF OrderInv, TypeOK
<1>3. PICK k : k = m.chan
  OBVIOUS
<1>4. /\ toServer # <<>> /\ toServer' = Tail(toServer)
      /\ m.type \in {"request", "notice", "eof", "failure"}
      /\ UNCHANGED <<table, wait, events, handles, told, plan, server, born>>
      /\ astray' = (astray \/ ~Reaches(m))
      /\ IF m.type = "request" /\ \E j \in Using(m.id) : server[j].state = "open"
         THEN \E j \in Using(m.id), reply \in {"success", "failure"} :
                toClient' = Append(toClient, Msg(reply, server[j].cid, k))
         ELSE UNCHANGED toClient
  BY <1>1, <1>3 DEF ServerHearsOther, ServerHears, ClientState, Tell
<1>5. /\ m \in ToServer /\ k \in Channels /\ m \in On(toServer, k)
      /\ \A j : j # k => On(toServer', j) = On(toServer, j)
      /\ On(toServer', k) \subseteq On(toServer, k)
      /\ On(toServer, k) \subseteq On(toServer', k) \cup {m}
      /\ InTurn(toServer', {"failure"})
  BY <1>1, <1>2, <1>3, <1>4, ReadFrom
<1>6. PICK v : v = View(k)
  OBVIOUS
<1>7. PICK w : w = View(k)'
  OBVIOUS
<1>8. /\ Typed(v) /\ Life(v) /\ v.in = On(toClient, k) /\ v.out = On(toServer, k)
      /\ v.peer = server[k] /\ v.plan = plan /\ v.handle = handles[k]
  BY <1>2, <1>5, <1>6, Seen
<1>9. m.type # "failure" => Using(m.id) = {k} /\ InUse(server[k])
  BY <1>2, <1>4, <1>5, UsingIts
<1>10. astray' => "serverAsk" \in plan
  <2>1. CASE m.type = "failure"
    BY <1>5, <1>8, <2>1 DEF Life, OutOk
  <2>2. CASE m.type # "failure"
    <3>1. astray' => astray
      BY <1>3, <1>4, <1>9, <2>2 DEF Reaches
    <3> QED BY <3>1 DEF LifeInv
  <2> QED BY <2>1, <2>2
<1>11. handles[k].state # "none"
  BY <1>4, <1>5, <1>8 DEF Life, OutOk, First
<1>12. CASE toClient' = toClient
  <2>1. Life(w)
    <3>1. /\ w.out \subseteq v.out /\ v.out \subseteq w.out \cup {m}
          /\ w.in = v.in /\ w.peer = v.peer /\ w.wait = v.wait
          /\ w.handle = v.handle /\ w.entries = v.entries
          /\ w.events = v.events /\ w.told = v.told /\ w.plan = v.plan
      BY <1>4, <1>5, <1>6, <1>7, <1>12, Shown, ShownNext
    <3> QED BY <1>4, <1>8, <3>1, LifeReceived
  <2>2. /\ NumbersApart(server') /\ InTurn(toServer', {"failure"}) /\ InTurn(events', {})
        /\ InTurn(toClient', {}) /\ NumbersInTurn(toClient', server')
        /\ astray' => "serverAsk" \in plan
    BY <1>4, <1>5, <1>10, <1>12 DEF LifeInv
  <2>3. /\ k \in Channels /\ Life(View(k)') /\ born' = born /\ plan' = plan /\ wait' = wait
        /\ handles[k].state # "none"
        /\ \A j \in Channels : j # k =>
             /\ handles'[j] = handles[j] /\ server'[j] = server[j] /\ told'[j] = told[j]
             /\ On(events', j) = On(events, j) /\ On(toClient', j) = On(toClient, j)
             /\ On(toServer', j) = On(toServer, j) /\ On(table', j) = On(table, j)
    BY <1>4, <1>5, <1>7, <1>11, <1>12, <2>1
  <2> QED BY <2>2, <2>3, StepLife
<1>13. CASE m.type = "request" /\ server[k].state = "open" /\ toClient' # toClient
  <2>1. PICK reply \in {"success", "failure"} :
          toClient' = Append(toClient, Msg(reply, server[k].cid, k))
    BY <1>4, <1>9, <1>13
  <2>2. PICK c : c = Msg(reply, server[k].cid, k)
    OBVIOUS
  <2>3. c \in ToClient /\ c.chan = k /\ c.id = server[k].cid /\ c.type = reply /\ c.type \notin First
    <3>1. server[k].cid \in Nat /\ reply \in ClientTypes
      BY <1>2, <1>5 DEF ClientTypes
    <3> QED BY <1>5, <2>2, <3>1, Messages DEF Msg, First
  <2>4. ~Some(On(toClient, k), "close")
    BY <1>8, <1>13 DEF Life, InOk, Some
  <2>5. /\ \A j : j # k => On(toClient', j) = On(toClient, j)
        /\ On(toClient', k) = On(toClient, k) \cup {c}
        /\ InTurn(toClient', {})
    BY <1>2, <2>1, <2>2, <2>3, <2>4, ToldTo
  <2>6. NumbersInTurn(toClient', server')
    BY <1>2, <1>4, <2>1, <2>2, <2>3, NumbersTold
  <2>7. Life(w)
    <3>1. /\ w.out \subseteq v.out /\ v.out \subseteq w.out \cup {m}
          /\ w.in = v.in \cup {c} /\ w.peer = v.peer /\ w.wait = v.wait
          /\ w.handle = v.handle /\ w.entries = v.entries
          /\ w.events = v.events /\ w.told = v.told /\ w.plan = v.plan
      BY <1>4, <1>5, <1>6, <1>7, <2>5, Shown, ShownNext
    <3>2. PICK u : u = [handle |-> v.handle, peer |-> v.peer, told |-> v.told,
                        events |-> v.events, in |-> v.in, out |-> w.out,
                        entries |-> v.entries, wait |-> v.wait, plan |-> v.plan]
      OBVIOUS
    <3>3. /\ u.handle = v.handle /\ u.peer = v.peer /\ u.told = v.told /\ u.events = v.events
          /\ u.in = v.in /\ u.out = w.out /\ u.entries = v.entries /\ u.wait = v.wait
          /\ u.plan = v.plan
      BY <3>2
    <3>4. Life(u)
      BY <1>4, <1>8, <3>1, <3>3, LifeReceived
    <3>5. Typed(u)
      BY <1>8, <3>1, <3>3 DEF Typed
    <3>6. /\ u.peer.state = "open" /\ c.id = u.peer.cid /\ c.type \in {"success", "failure"}
      BY <1>8, <1>13, <2>3, <3>3
    <3>7. /\ w.in = u.in \cup {c} /\ w.out = u.out /\ w.peer = u.peer /\ w.wait = u.wait
          /\ w.told = u.told /\ w.entries = u.entries /\ w.handle = u.handle
          /\ w.events = u.events /\ w.plan = u.plan
      BY <3>1, <3>3
    <3> QED BY <3>4, <3>5, <3>6, <3>7, LifeTalks
  <2>8. /\ NumbersApart(server') /\ InTurn(toServer', {"failure"}) /\ InTurn(events', {})
        /\ InTurn(toClient', {}) /\ NumbersInTurn(toClient', server')
        /\ astray' => "serverAsk" \in plan
    BY <1>4, <1>5, <1>10, <2>5, <2>6 DEF LifeInv
  <2>9. /\ k \in Channels /\ Life(View(k)') /\ born' = born /\ plan' = plan /\ wait' = wait
        /\ handles[k].state # "none"
        /\ \A j \in Channels : j # k =>
             /\ handles'[j] = handles[j] /\ server'[j] = server[j] /\ told'[j] = told[j]
             /\ On(events', j) = On(events, j) /\ On(toClient', j) = On(toClient, j)
             /\ On(toServer', j) = On(toServer, j) /\ On(table', j) = On(table, j)
    BY <1>4, <1>5, <1>7, <1>11, <2>5, <2>7
  <2> QED BY <2>8, <2>9, StepLife
<1> QED
  BY <1>4, <1>9, <1>12, <1>13

-----------------------------------------------------------------------------
(* The invariant.                                                          *)

\* Before anything has happened.
LEMMA LifeInit == Init => LifeInv
<1> SUFFICES ASSUME Init PROVE LifeInv
  OBVIOUS
<1>1. /\ table = <<>> /\ events = <<>> /\ toServer = <<>> /\ toClient = <<>> /\ wait = Idle
      /\ handles = [k \in Channels |-> NoOwner] /\ server = [k \in Channels |-> NoPeer] /\ ~astray
  BY DEF Init
<1>2. \A k : /\ On(table, k) = {} /\ On(events, k) = {}
             /\ On(toServer, k) = {} /\ On(toClient, k) = {}
  BY <1>1 DEF On, Range
<1>3. ASSUME NEW k \in Channels PROVE Life(View(k))
  <2>1. PICK v : v = View(k)
    OBVIOUS
  <2>2. /\ v.entries = {} /\ v.events = {} /\ v.out = {} /\ v.in = {} /\ v.wait = Idle
        /\ v.handle = NoOwner /\ v.peer = NoPeer
    BY <1>1, <1>2, <2>1, Shown
  <2>3. v.wait.for = "none" /\ v.handle.state = "none" /\ v.peer.state = "none"
    BY <2>2 DEF Idle, NoOwner, NoPeer
  <2>4. WaitOk(v) /\ SidesOk(v)
    BY <2>2, <2>3 DEF WaitOk, SidesOk
  <2> QED BY <2>1, <2>2, <2>4 DEF Life
<1>4. NumbersApart(server)
  BY <1>1 DEF NumbersApart, InUse, NoPeer
<1>5. /\ InTurn(events, {}) /\ InTurn(toClient, {}) /\ InTurn(toServer, {"failure"})
      /\ NumbersInTurn(toClient, server)
  BY <1>1 DEF InTurn, NumbersInTurn
<1> QED
  BY <1>1, <1>3, <1>4, <1>5 DEF LifeInv

\* A session's step, but for one that meets a dropped listener.
LEMMA SessionLife ==
  ASSUME NoSecondClose, OrderInv, LifeInv, SessionTakes \/ SessionHears, ~unheard'
  PROVE  LifeInv'
<1>1. "clean" \notin plan
  BY DEF NoSecondClose, OrderInv, TypeOK
<1>2. ~ChannelClean
  <2> SUFFICES ASSUME ChannelClean PROVE FALSE
    OBVIOUS
  <2>1. Takes("clean")
    BY DEF ChannelClean
  <2>2. Head(events) \in Range(events) /\ Head(events).type = "clean"
    BY <2>1, EventTaken DEF OrderInv
  <2> QED BY <1>1, <2>2 DEF OrderInv
<1>3. ~CleanEntry
  BY <1>1 DEF CleanEntry, OrderInv
<1>4. ~HandleOpenDeaf
  BY DEF HandleOpenDeaf
<1>5. CASE SessionTakes
  BY <1>2, <1>3, <1>5, OpenLife, RequestLife, CloseLife DEF SessionTakes
<1>6. CASE SessionHears
  <2>1. CASE HandleChannelData \/ HandleChannelEof
    BY <2>1, PassOnLife DEF HandleChannelData, HandleChannelEof
  <2> QED BY <1>4, <1>6, <2>1, OpenedLife, OpenFailedLife, RepliedLife, AskedLife, CloseHeardLife,
             TurnedDownLife, AcceptedLife DEF SessionHears
<1> QED
  BY <1>5, <1>6

\* A step of the applications.
LEMMA ApplicationLife ==
  ASSUME NoSecondClose, OrderInv, LifeInv, Application
  PROVE  LifeInv'
<1>1. ~AppClean
  BY DEF NoSecondClose, OrderInv, TypeOK, AppClean
<1>2. ASSUME NEW k \in Channels, AppEof(k) PROVE LifeInv'
  <2>1. Ask(k, "eof", "busy")
    BY <1>2 DEF AppEof
  <2> QED BY <2>1, AskLife
<1>3. ASSUME NEW k \in Channels, AppRequest(k) PROVE LifeInv'
  <2>1. "request" \in plan /\ (Ask(k, "request", "busy") \/ Ask(k, "notice", "busy"))
    BY <1>3 DEF AppRequest
  <2> QED BY <2>1, AskLife
<1>4. ASSUME NEW k \in Channels, AppClose(k) PROVE LifeInv'
  <2>1. Ask(k, "close", "closing")
    BY <1>4 DEF AppClose
  <2> QED BY <2>1, AskLife
<1> QED
  BY <1>1, <1>2, <1>3, <1>4, BornLife, DropLife DEF Application

\* A step of the server.
LEMMA ServerLife ==
  ASSUME OrderInv, LifeInv,
         ServerAnswers \/ ServerOpens \/ \E k \in Channels : ServerCloses(k) \/ ServerTalks(k)
  PROVE  LifeInv'
  BY AcceptsLife, RefusesLife, AnsweredLife, CloseReceivedLife, ReceivedLife, OpensLife, SpeaksLife
  DEF ServerAnswers

\* A listener once dropped stays dropped.
LEMMA StaysUnheard == ASSUME [Next]_vars, unheard PROVE unheard'
<1>1. CASE SessionTakes
  BY <1>1 DEF SessionTakes, ChannelOpen, ChannelRequest, ChannelNotice, ChannelEof, ChannelClose,
              ChannelClean, CleanEntry
<1>2. CASE SessionHears
  BY <1>2 DEF SessionHears, ChannelOpened, ChannelOpenFailed, ChannelReplied, HandleChannelData,
              HandleChannelEof, PassOn, HandleUnknownRequest, HandleChannelClose,
              HandleOpenRefused, HandleOpenAccepted, HandleOpenDeaf
<1>3. CASE Application
  BY <1>3 DEF Application, AppOpen, AppClean, AppEof, AppRequest, AppClose, AppDrop, Ask
<1>4. CASE ServerAnswers
  BY <1>4 DEF ServerAnswers, ServerAccepts, ServerRefuses, ServerConfirmed, ServerRefused,
              ServerHearsClose, ServerHearsOther, ClientState
<1>5. CASE ServerOpens \/ \E k \in Channels : ServerCloses(k) \/ ServerTalks(k)
  BY <1>5 DEF ServerOpens, ServerCloses, ServerTalks, ClientState
<1>6. CASE UNCHANGED vars
  BY <1>6 DEF vars
<1> QED
  BY <1>1, <1>2, <1>3, <1>4, <1>5, <1>6 DEF Next

\* Every step keeps the invariant.
LEMMA TableStep == OneSideOpens /\ NoSecondClose /\ TableInv /\ [Next]_vars => TableInv'
<1> SUFFICES ASSUME OneSideOpens, NoSecondClose, TableInv, [Next]_vars PROVE TableInv'
  OBVIOUS
<1>1. OrderInv /\ OrderInv'
  BY OrderStep DEF TableInv
<1>2. ASSUME ~unheard' PROVE LifeInv'
  <2>1. LifeInv
    BY <1>2, StaysUnheard DEF TableInv
  <2>2. CASE UNCHANGED vars
    <3>1. /\ table' = table /\ wait' = wait /\ events' = events /\ handles' = handles
          /\ told' = told /\ toServer' = toServer /\ toClient' = toClient /\ server' = server
          /\ born' = born /\ plan' = plan /\ astray' = astray
      BY <2>2 DEF vars
    <3>2. ASSUME NEW k \in Channels PROVE Life(View(k)')
      <4>1. View(k)' = View(k)
        BY <3>1, Unconcerned
      <4> QED BY <2>1, <4>1 DEF LifeInv
    <3> QED BY <2>1, <3>1, <3>2 DEF LifeInv
  <2>3. CASE Next
    BY <1>1, <1>2, <2>1, <2>3, SessionLife, ApplicationLife, ServerLife DEF Next
  <2> QED BY <2>2, <2>3
<1> QED
  BY <1>1, <1>2 DEF TableInv

\* The table, the handles, the server and everything between them fit together as long
\* as no forwarded connection meets a dropped listener: backend.rs's channel handlers.
THEOREM TableInvariant == OneSideOpens /\ NoSecondClose => (Spec => []TableInv)
<1> SUFFICES ASSUME OneSideOpens /\ NoSecondClose PROVE Spec => []TableInv
  OBVIOUS
<1>1. Init => TableInv
  BY OrderInit, LifeInit DEF TableInv
<1>2. TableInv /\ [Next]_vars => TableInv'
  BY TableStep
<1> QED
  BY <1>1, <1>2, PTL DEF Spec

-----------------------------------------------------------------------------
(* What it gives.                                                          *)

\* The View of a channel, and the positions of its messages and entries.
LEMMA Looked ==
  ASSUME OrderInv, LifeInv, NEW k \in Channels, NEW v, v = View(k)
  PROVE  /\ Typed(v) /\ Life(v)
         /\ v.handle = handles[k] /\ v.peer = server[k] /\ v.told = told[k]
         /\ v.events = On(events, k) /\ v.in = On(toClient, k) /\ v.out = On(toServer, k)
         /\ \A d \in v.entries : \E i \in Positions : table[i] = d /\ d.chan = k
         /\ \A i \in Positions : table[i].chan = k => table[i] \in v.entries
         /\ \A m \in v.in : \E i \in 1..Len(toClient) : toClient[i] = m /\ m.chan = k
<1>1. TypeOK /\ table \in Seq(Entries) /\ toClient \in Seq(ToClient)
  BY DEF OrderInv, TypeOK
<1>2. /\ Typed(v) /\ Life(v)
      /\ v.handle = handles[k] /\ v.peer = server[k] /\ v.told = told[k]
      /\ v.events = On(events, k) /\ v.in = On(toClient, k) /\ v.out = On(toServer, k)
      /\ v.entries = On(table, k)
  BY <1>1, Seen
<1>3. /\ \A i \in Positions : table[i] \in Range(table)
      /\ \A d \in Range(table) : \E i \in Positions : table[i] = d
  BY <1>1, Placed DEF Positions
<1>4. \A m \in Range(toClient) : \E i \in 1..Len(toClient) : toClient[i] = m
  BY <1>1, Placed
<1> QED
  BY <1>2, <1>3, <1>4 DEF On

\* A Channel that can still be used has its entry: no interleaving of eof(), requests,
\* close(), Drop and the server's CLOSE removes or closes it under the handle.
THEOREM HandlesAreBacked == OneSideOpens /\ NoSecondClose => (Spec => []HandleBacked)
<1> SUFFICES ASSUME OneSideOpens /\ NoSecondClose PROVE Spec => []HandleBacked
  OBVIOUS
<1>1. TableInv => HandleBacked
  <2> SUFFICES ASSUME TableInv, ~unheard, NEW k \in Channels, handles[k].state \in {"idle", "busy"}
               PROVE  \E i \in Positions :
                        /\ table[i].chan = k
                        /\ table[i].cid = handles[k].cid /\ table[i].sid = handles[k].sid
                        /\ ~table[i].clientClosed
                        /\ \A j \in Positions : table[j].chan = k => j = i
    BY DEF HandleBacked
  <2>1. OrderInv /\ LifeInv /\ ClientIdsUnique
    BY OrderedIds DEF TableInv
  <2>2. PICK v : v = View(k)
    OBVIOUS
  <2>3. /\ Typed(v) /\ Life(v) /\ v.handle = handles[k]
        /\ \A d \in v.entries : \E i \in Positions : table[i] = d /\ d.chan = k
        /\ \A i \in Positions : table[i].chan = k => table[i] \in v.entries
    BY <2>1, <2>2, Looked
  <2>4. PICK d \in v.entries : v.entries = {d} /\ EntryOk(v, d) /\ ~d.clientClosed
    BY <2>3, Usable
  <2>5. PICK i \in Positions : table[i] = d /\ d.chan = k
    BY <2>3, <2>4
  <2>6. d.cid = handles[k].cid /\ d.sid = handles[k].sid
    BY <2>3, <2>4 DEF EntryOk
  <2>7. ASSUME NEW j \in Positions, table[j].chan = k PROVE j = i
    <3>1. table[j] = table[i]
      BY <2>3, <2>4, <2>5, <2>7
    <3> QED BY <2>1, <3>1 DEF ClientIdsUnique
  <2> QED BY <2>4, <2>5, <2>6, <2>7
<1> QED
  BY <1>1, TableInvariant, PTL

\* The server's CLOSE is reported to every handle that is still in use once it has been
\* read: handle_channel_close always finds the entry of the channel it is about.
THEOREM ClosesAreReported == OneSideOpens /\ NoSecondClose => (Spec => []CloseReported)
<1> SUFFICES ASSUME OneSideOpens /\ NoSecondClose PROVE Spec => []CloseReported
  OBVIOUS
<1>1. TableInv => CloseReported
  <2> SUFFICES ASSUME TableInv, ~unheard, NEW k \in Channels, handles[k].state \in {"idle", "busy"},
                      server[k].state \in {"closing", "gone"},
                      \A i \in 1..Len(toClient) : ~(toClient[i].type = "close" /\ toClient[i].chan = k)
               PROVE  "close" \in told[k]
    BY DEF CloseReported
  <2>1. OrderInv /\ LifeInv
    BY DEF TableInv
  <2>2. PICK v : v = View(k)
    OBVIOUS
  <2>3. /\ Typed(v) /\ Life(v) /\ v.handle = handles[k] /\ v.peer = server[k] /\ v.told = told[k]
        /\ \A m \in v.in : \E i \in 1..Len(toClient) : toClient[i] = m /\ m.chan = k
    BY <2>1, <2>2, Looked
  <2>4. ~Some(v.in, "close")
    BY <2>3 DEF Some
  <2>5. PICK d \in v.entries : EntryOk(v, d)
    BY <2>3, Usable
  <2> QED BY <2>3, <2>4, <2>5 DEF EntryOk
<1> QED
  BY <1>1, TableInvariant, PTL

\* When nothing is under way both sides hold the same channels, and every entry has a
\* handle or one whose Drop met a full event queue: channel_close, handle_channel_close
\* and Drop together forget a channel exactly when the other side does.
THEOREM TablesDoAgree == OneSideOpens /\ NoSecondClose => (Spec => []TablesAgree)
<1> SUFFICES ASSUME OneSideOpens /\ NoSecondClose PROVE Spec => []TablesAgree
  OBVIOUS
<1>1. TableInv => TablesAgree
  <2> SUFFICES ASSUME TableInv, Quiet, ~unheard
               PROVE  /\ {table[i].chan : i \in Positions}
                           = {k \in Channels : server[k].state \in {"open", "closing"}}
                      /\ \A i \in Positions :
                           Alive(table[i].chan) \/ handles[table[i].chan].state = "lost"
    BY DEF TablesAgree
  <2>1. OrderInv /\ LifeInv
    BY DEF TableInv
  <2>2. \A k, t : ~Some(On(events, k), t) /\ ~Some(On(toServer, k), t) /\ ~Some(On(toClient, k), t)
    BY DEF Quiet, Some, On, Range
  <2>3. ASSUME NEW i \in Positions
        PROVE  /\ table[i].chan \in Channels
               /\ server[table[i].chan].state \in {"open", "closing"}
               /\ handles[table[i].chan].state \in {"idle", "busy", "closing", "lost"}
    <3>1. table[i] \in Entries
      BY <2>1, ElementOfSeq DEF OrderInv, TypeOK, Positions
    <3>2. PICK k : k = table[i].chan
      OBVIOUS
    <3>3. k \in Channels
      BY <3>1, <3>2 DEF Entries
    <3>4. PICK v : v = View(k)
      OBVIOUS
    <3>5. /\ Typed(v) /\ Life(v) /\ v.handle = handles[k] /\ v.peer = server[k]
          /\ v.events = On(events, k) /\ v.in = On(toClient, k) /\ v.out = On(toServer, k)
          /\ table[i] \in v.entries
      BY <2>1, <3>2, <3>3, <3>4, Looked
    <3>6. PICK d : d = table[i]
      OBVIOUS
    <3>7. EntryOk(v, d)
      BY <3>5, <3>6 DEF Life
    <3>8. v.peer.state \in {"open", "closing"}
      BY <2>2, <3>5, <3>7 DEF EntryOk, Typed, PeerStates
    <3>9. v.handle.state \in {"idle", "busy", "closing", "lost"}
      BY <2>2, <3>5, <3>7, <3>8 DEF EntryOk
    <3> QED BY <3>2, <3>3, <3>5, <3>8, <3>9
  <2>4. ASSUME NEW k \in Channels, server[k].state \in {"open", "closing"}
        PROVE  \E i \in Positions : table[i].chan = k
    <3>1. PICK v : v = View(k)
      OBVIOUS
    <3>2. /\ Life(v) /\ v.peer = server[k] /\ v.in = On(toClient, k) /\ v.out = On(toServer, k)
          /\ \A d \in v.entries : \E i \in Positions : table[i] = d /\ d.chan = k
      BY <2>1, <3>1, Looked
    <3>3. v.entries # {}
      BY <2>2, <2>4, <3>2 DEF Life, SidesOk, Live
    <3> QED BY <3>2, <3>3
  <2>5. {table[i].chan : i \in Positions} = {k \in Channels : server[k].state \in {"open", "closing"}}
    BY <2>3, <2>4
  <2>6. ASSUME NEW i \in Positions
        PROVE  Alive(table[i].chan) \/ handles[table[i].chan].state = "lost"
    BY <2>3 DEF Alive
  <2> QED BY <2>5, <2>6
<1> QED
  BY <1>1, TableInvariant, PTL

\* No event and no message is taken for another channel, although both sides reuse
\* their numbers: close(), Drop and CLOSE cross without ever meeting a number's next owner.
THEOREM NothingGoesAstray ==
  OneSideOpens /\ NoSecondClose /\ NothingAsked => (Spec => []NoneAstray)
<1> SUFFICES ASSUME OneSideOpens /\ NoSecondClose /\ NothingAsked PROVE Spec => []NoneAstray
  OBVIOUS
<1>1. TableInv => NoneAstray
  <2> SUFFICES ASSUME TableInv, ~unheard PROVE ~astray
    BY DEF NoneAstray
  <2>1. plan \in Plans /\ (astray => "serverAsk" \in plan)
    BY DEF TableInv, OrderInv, TypeOK, LifeInv
  <2> QED BY <2>1 DEF NothingAsked
<1>2. OneSideOpens /\ NoSecondClose
  OBVIOUS
<1> QED
  BY <1>1, <1>2, TableInvariant, PTL

=============================================================================
