----------------------------- MODULE RekeyProofs -----------------------------
(***************************************************************************)
(* Rekey's safety properties for every number of calls, exchanges and      *)
(* pings.  The properties speak of the packet at the head of a wire; the   *)
(* invariant RekeyInv says what the whole wires hold: which packets of an  *)
(* exchange are under way at each stage of it, in which order, and under   *)
(* which keys each packet in flight was sealed.                            *)
(***************************************************************************)
EXTENDS Rekey, SequenceTheorems, TLAPS

\* The packets of an exchange, in either direction.
ExchangeTypes == {"kexinit", "gexrequest", "gexgroup", "kexdhinit", "kexreply", "newkeys"}

OtherTypes == {"request", "reply", "ping", "pong", "unimplemented"}

PacketRecord ==
  [type : (ExchangeTypes \cup OtherTypes) \ {"kexreply"}, keys : Nat]
    \cup [type : {"kexreply"}, keys : Nat, next : Nat]

RekeyTypeOK ==
  /\ pc \in Places
  /\ renegotiating \in BOOLEAN /\ deferred \in BOOLEAN /\ byEvent \in BOOLEAN
  /\ encrypt \in Nat /\ decrypt \in Nat
  /\ calls \in Seq({"request", "renegotiate"})
  /\ toServer \in Seq(PacketRecord) /\ toClient \in Seq(PacketRecord)
  /\ server \in {"none", "sent", "both", "newkeys"}
  /\ serverEncrypt \in Nat /\ serverDecrypt \in Nat
  /\ held \in Seq({"reply", "ping"})
  /\ refused \in BOOLEAN

\* The exchange packets under way on a wire.
Has(w, type) == \E i \in 1..Len(w) : w[i].type = type
Kinds(w) == {type \in ExchangeTypes : Has(w, type)}

\* Which exchange packet may be in flight in front of which other.
Precedes ==
  {<<"kexinit", "gexrequest">>, <<"kexinit", "kexdhinit">>, <<"newkeys", "kexinit">>,
   <<"kexreply", "newkeys">>}

Ordered(w) ==
  \A i, j \in 1..Len(w) :
    (i < j /\ w[i].type \in ExchangeTypes /\ w[j].type \in ExchangeTypes)
      => <<w[i].type, w[j].type>> \in Precedes

\* A wire between a receiver that decrypts with r and a sender that encrypts with s:
\* NEWKEYS is the last packet under the old keys.
Keyed(w, r, s) ==
  /\ s = IF Has(w, "newkeys") THEN r + 1 ELSE r
  /\ \A i \in 1..Len(w) :
       w[i].keys = IF \E j \in 1..(i-1) : w[j].type = "newkeys" THEN s ELSE r

\* A reply announces the keys that follow its own.
Announced(w) == \A i \in 1..Len(w) : w[i].type = "kexreply" => w[i].next = w[i].keys + 1

\* The stages of an exchange: where the server is and what is under way to it and from it.
At(phase, up, down) == server = phase /\ Kinds(toServer) = up /\ Kinds(toClient) = down

Idle == pc \in {"select", "reply"} /\ ~renegotiating /\ ~deferred

Stages ==
  \/ Idle /\ \/ At("none", {}, {})
             \/ At("newkeys", {"newkeys"}, {})
             \/ At("sent", {}, {"kexinit"})
  \/ pc = "reply" /\ renegotiating /\ deferred /\ At("sent", {}, {})
  \/ /\ pc \in {"kexinit", "group", "kexreply", "newkeys"} /\ renegotiating /\ ~deferred
     /\ \/ pc = "kexinit" /\ \/ At("none", {"kexinit"}, {})
                             \/ At("newkeys", {"newkeys", "kexinit"}, {})
                             \/ At("sent", {"kexinit"}, {"kexinit"})
                             \/ At("both", {}, {"kexinit"})
        \/ pc = "group" /\ \/ At("sent", {"kexinit", "gexrequest"}, {})
                           \/ At("both", {"gexrequest"}, {})
                           \/ At("both", {}, {"gexgroup"})
        \/ pc = "kexreply" /\ \/ At("sent", {"kexinit", "kexdhinit"}, {})
                              \/ At("both", {"kexdhinit"}, {})
                              \/ At("newkeys", {}, {"kexreply", "newkeys"})
        \/ pc = "newkeys" /\ \/ At("newkeys", {"newkeys"}, {"newkeys"})
                             \/ At("none", {}, {"newkeys"})
                             \/ At("sent", {}, {"newkeys", "kexinit"})

\* As long as every host key has been accepted.
InStep ==
  /\ Stages
  /\ Ordered(toServer) /\ Ordered(toClient)
  /\ Keyed(toServer, serverDecrypt, encrypt) /\ Keyed(toClient, decrypt, serverEncrypt)
  /\ encrypt = IF pc = "newkeys" THEN decrypt + 1 ELSE decrypt

\* After a host key was turned down the server waits for a NEWKEYS that never comes.
Stranded ==
  /\ server = "newkeys" /\ pc # "newkeys" /\ ~deferred
  /\ "newkeys" \notin Kinds(toServer)
  /\ "kexinit" \notin Kinds(toClient) /\ "kexreply" \notin Kinds(toClient)

RekeyInv ==
  /\ RekeyTypeOK
  /\ Announced(toClient)
  /\ OnlyTrustedKeys
  /\ refused => Stranded
  /\ ~refused => InStep

-----------------------------------------------------------------------------
(* Wires.                                                                  *)

\* What a packet record is.
LEMMA PacketFacts ==
  ASSUME NEW m \in PacketRecord
  PROVE  /\ m.type \in ExchangeTypes \cup OtherTypes /\ m.keys \in Nat
         /\ m.type = "kexreply" => m.next \in Nat
BY DEF PacketRecord, ExchangeTypes, OtherTypes

\* A packet at the end of a wire.
LEMMA AppendFacts ==
  ASSUME NEW w \in Seq(PacketRecord), NEW m \in PacketRecord
  PROVE  /\ Append(w, m) \in Seq(PacketRecord)
         /\ Len(Append(w, m)) = Len(w) + 1 /\ Len(w) \in Nat
         /\ Append(w, m)[Len(w) + 1] = m
         /\ \A i \in 1..Len(w) : Append(w, m)[i] = w[i]
BY AppendProperties

\* The exchange packets under way after one was sent.
LEMMA KindsAppend ==
  ASSUME NEW w \in Seq(PacketRecord), NEW m \in PacketRecord
  PROVE  /\ \A type : Has(Append(w, m), type) <=> (Has(w, type) \/ m.type = type)
         /\ m.type \in ExchangeTypes => Kinds(Append(w, m)) = Kinds(w) \cup {m.type}
         /\ m.type \notin ExchangeTypes => Kinds(Append(w, m)) = Kinds(w)
<1>1. ASSUME NEW type
      PROVE  Has(Append(w, m), type) <=> (Has(w, type) \/ m.type = type)
  <2>1. ASSUME Has(w, type) PROVE Has(Append(w, m), type)
    BY <2>1, AppendFacts DEF Has
  <2>2. ASSUME m.type = type PROVE Has(Append(w, m), type)
    <3>1. Len(w) + 1 \in 1..Len(Append(w, m))
      BY AppendFacts
    <3> QED BY <2>2, <3>1, AppendFacts DEF Has
  <2>3. ASSUME Has(Append(w, m), type), ~Has(w, type) PROVE m.type = type
    <3>1. PICK i \in 1..Len(Append(w, m)) : Append(w, m)[i].type = type
      BY <2>3 DEF Has
    <3>2. i \notin 1..Len(w)
      BY <2>3, <3>1, AppendFacts DEF Has
    <3>3. i = Len(w) + 1
      BY <3>2, AppendFacts
    <3> QED BY <3>1, <3>3, AppendFacts
  <2> QED BY <2>1, <2>2, <2>3
<1> QED BY <1>1 DEF Kinds

\* A wire stays ordered when what is under way may precede what is sent.
LEMMA OrderedAppend ==
  ASSUME NEW w \in Seq(PacketRecord), NEW m \in PacketRecord, Ordered(w),
         m.type \in ExchangeTypes => \A type \in Kinds(w) : <<type, m.type>> \in Precedes
  PROVE  Ordered(Append(w, m))
<1> SUFFICES ASSUME NEW i \in 1..Len(Append(w, m)), NEW j \in 1..Len(Append(w, m)), i < j,
                    Append(w, m)[i].type \in ExchangeTypes, Append(w, m)[j].type \in ExchangeTypes
             PROVE  <<Append(w, m)[i].type, Append(w, m)[j].type>> \in Precedes
  BY DEF Ordered
<1>1. i \in 1..Len(w) /\ Append(w, m)[i] = w[i]
  BY AppendFacts
<1>2. CASE j \in 1..Len(w)
  <2>1. Append(w, m)[j] = w[j]
    BY <1>2, AppendFacts
  <2> QED BY <1>1, <1>2, <2>1 DEF Ordered
<1>3. CASE j = Len(w) + 1
  <2>1. Append(w, m)[j] = m
    BY <1>3, AppendFacts
  <2>2. w[i].type \in Kinds(w)
    BY <1>1 DEF Kinds, Has
  <2> QED BY <1>1, <2>1, <2>2
<1>4. j \in 1..Len(w) \/ j = Len(w) + 1
  BY AppendFacts
<1> QED BY <1>2, <1>3, <1>4

\* Any packet but NEWKEYS leaves under the sender's keys.
LEMMA KeyedAppend ==
  ASSUME NEW w \in Seq(PacketRecord), NEW m \in PacketRecord, NEW r \in Nat, NEW s \in Nat,
         Keyed(w, r, s), m.type # "newkeys", m.keys = s
  PROVE  Keyed(Append(w, m), r, s)
<1>1. s = IF Has(Append(w, m), "newkeys") THEN r + 1 ELSE r
  BY KindsAppend DEF Keyed
<1>2. ASSUME NEW i \in 1..Len(Append(w, m))
      PROVE  Append(w, m)[i].keys =
               IF \E j \in 1..(i-1) : Append(w, m)[j].type = "newkeys" THEN s ELSE r
  <2>1. \A j \in 1..(i-1) : Append(w, m)[j] = w[j]
    BY AppendFacts
  <2>2. CASE i \in 1..Len(w)
    BY <2>1, <2>2, AppendFacts DEF Keyed
  <2>3. CASE i = Len(w) + 1
    <3>1. (\E j \in 1..(i-1) : Append(w, m)[j].type = "newkeys") <=> Has(w, "newkeys")
      BY <2>1, <2>3 DEF Has
    <3> QED BY <2>3, <3>1, AppendFacts DEF Keyed
  <2> QED BY <2>2, <2>3, AppendFacts
<1> QED BY <1>1, <1>2 DEF Keyed

\* NEWKEYS leaves under the old keys and moves the sender to the next.
LEMMA KeyedNewKeys ==
  ASSUME NEW w \in Seq(PacketRecord), NEW m \in PacketRecord, NEW r \in Nat, NEW s \in Nat,
         Keyed(w, r, s), ~Has(w, "newkeys"), m.type = "newkeys", m.keys = s
  PROVE  Keyed(Append(w, m), r, s + 1)
<1>1. s = r /\ Has(Append(w, m), "newkeys")
  BY KindsAppend DEF Keyed
<1>2. ASSUME NEW i \in 1..Len(Append(w, m))
      PROVE  /\ Append(w, m)[i].keys = r
             /\ ~\E j \in 1..(i-1) : Append(w, m)[j].type = "newkeys"
  <2>1. \A j \in 1..(i-1) : j \in 1..Len(w) /\ Append(w, m)[j] = w[j]
    BY AppendFacts
  <2>2. CASE i \in 1..Len(w)
    BY <1>1, <2>1, <2>2, AppendFacts DEF Keyed, Has
  <2>3. CASE i = Len(w) + 1
    BY <1>1, <2>1, <2>3, AppendFacts DEF Has
  <2> QED BY <2>2, <2>3, AppendFacts
<1> QED BY <1>1, <1>2 DEF Keyed

\* The first packet of a wire and the rest.
LEMMA TailFacts ==
  ASSUME NEW w \in Seq(PacketRecord), w # <<>>
  PROVE  /\ Tail(w) \in Seq(PacketRecord) /\ Head(w) \in PacketRecord
         /\ Head(w) = w[1] /\ 1 \in 1..Len(w)
         /\ Len(Tail(w)) = Len(w) - 1 /\ Len(w) \in Nat
         /\ \A i \in 1..Len(Tail(w)) : i + 1 \in 2..Len(w) /\ Tail(w)[i] = w[i+1]
         /\ \A i \in 2..Len(w) : i - 1 \in 1..Len(Tail(w)) /\ Tail(w)[i-1] = w[i]
OBVIOUS

\* What is under way after the first packet was read: it was the only one of its kind, and
\* precedes the others.
LEMMA KindsTail ==
  ASSUME NEW w \in Seq(PacketRecord), w # <<>>, Ordered(w)
  PROVE  /\ Head(w).type \in ExchangeTypes =>
              /\ Head(w).type \in Kinds(w)
              /\ Kinds(Tail(w)) = Kinds(w) \ {Head(w).type}
              /\ \A type \in Kinds(Tail(w)) : <<Head(w).type, type>> \in Precedes
         /\ Head(w).type \notin ExchangeTypes => Kinds(Tail(w)) = Kinds(w)
         /\ Ordered(Tail(w))
<1>1. ASSUME NEW type
      PROVE  Has(w, type) <=> (Has(Tail(w), type) \/ Head(w).type = type)
  <2>1. ASSUME Has(Tail(w), type) PROVE Has(w, type)
    BY <2>1, TailFacts DEF Has
  <2>2. ASSUME Head(w).type = type PROVE Has(w, type)
    BY <2>2, TailFacts DEF Has
  <2>3. ASSUME Has(w, type), Head(w).type # type PROVE Has(Tail(w), type)
    <3>1. PICK i \in 1..Len(w) : w[i].type = type
      BY <2>3 DEF Has
    <3>2. i \in 2..Len(w)
      BY <2>3, <3>1, TailFacts
    <3> QED BY <3>1, <3>2, TailFacts DEF Has
  <2> QED BY <2>1, <2>2, <2>3
<1>2. ASSUME Head(w).type \in ExchangeTypes, NEW type \in ExchangeTypes, Has(Tail(w), type)
      PROVE  <<Head(w).type, type>> \in Precedes
  <2>1. PICK i \in 1..Len(Tail(w)) : Tail(w)[i].type = type
    BY <1>2 DEF Has
  <2>2. w[i+1].type = type /\ i + 1 \in 1..Len(w) /\ 1 < i + 1
    BY <2>1, TailFacts
  <2> QED BY <1>2, <2>2, TailFacts DEF Ordered
<1>3. ASSUME Head(w).type \in ExchangeTypes PROVE ~Has(Tail(w), Head(w).type)
  <2>1. <<Head(w).type, Head(w).type>> \notin Precedes
    BY DEF Precedes
  <2> QED BY <1>2, <1>3, <2>1
<1>4. Ordered(Tail(w))
  <2> SUFFICES ASSUME NEW i \in 1..Len(Tail(w)), NEW j \in 1..Len(Tail(w)), i < j,
                      Tail(w)[i].type \in ExchangeTypes, Tail(w)[j].type \in ExchangeTypes
               PROVE  <<Tail(w)[i].type, Tail(w)[j].type>> \in Precedes
    BY DEF Ordered
  <2>1. /\ Tail(w)[i] = w[i+1] /\ Tail(w)[j] = w[j+1]
        /\ i + 1 \in 1..Len(w) /\ j + 1 \in 1..Len(w) /\ i + 1 < j + 1
    BY TailFacts
  <2> QED BY <2>1 DEF Ordered
<1> QED BY <1>1, <1>2, <1>3, <1>4 DEF Kinds

\* The receiver reads the first packet with its keys; NEWKEYS moves it to the sender's.
LEMMA KeyedTail ==
  ASSUME NEW w \in Seq(PacketRecord), w # <<>>, NEW r \in Nat, NEW s \in Nat,
         Keyed(w, r, s), Ordered(w)
  PROVE  /\ Head(w).keys = r
         /\ Head(w).type # "newkeys" => Keyed(Tail(w), r, s)
         /\ Head(w).type = "newkeys" => Keyed(Tail(w), r + 1, s)
<1>1. Head(w).keys = r
  BY TailFacts DEF Keyed
<1>2. ASSUME Head(w).type # "newkeys" PROVE Keyed(Tail(w), r, s)
  <2>1. Has(Tail(w), "newkeys") <=> Has(w, "newkeys")
    <3>1. ASSUME Has(w, "newkeys") PROVE Has(Tail(w), "newkeys")
      <4>1. PICK i \in 1..Len(w) : w[i].type = "newkeys"
        BY <3>1 DEF Has
      <4>2. i \in 2..Len(w)
        BY <1>2, <4>1, TailFacts
      <4> QED BY <4>1, <4>2, TailFacts DEF Has
    <3>2. ASSUME Has(Tail(w), "newkeys") PROVE Has(w, "newkeys")
      BY <3>2, TailFacts DEF Has
    <3> QED BY <3>1, <3>2
  <2>2. ASSUME NEW i \in 1..Len(Tail(w))
        PROVE  Tail(w)[i].keys =
                 IF \E j \in 1..(i-1) : Tail(w)[j].type = "newkeys" THEN s ELSE r
    <3>1. Tail(w)[i] = w[i+1] /\ i + 1 \in 1..Len(w)
      BY TailFacts
    <3>2. \A j \in 1..(i-1) : Tail(w)[j] = w[j+1] /\ j + 1 \in 2..i
      BY TailFacts
    <3>3. \A j \in 2..i : Tail(w)[j-1] = w[j] /\ j - 1 \in 1..(i-1)
      BY TailFacts
    <3>4. (\E j \in 1..(i-1) : Tail(w)[j].type = "newkeys")
            <=> (\E j \in 1..((i+1)-1) : w[j].type = "newkeys")
      <4>1. ASSUME NEW j \in 1..((i+1)-1), w[j].type = "newkeys"
            PROVE  \E k \in 1..(i-1) : Tail(w)[k].type = "newkeys"
        <5>1. j \in 2..i
          BY <1>2, <4>1, TailFacts
        <5> QED BY <3>3, <4>1, <5>1
      <4>2. ASSUME NEW j \in 1..(i-1), Tail(w)[j].type = "newkeys"
            PROVE  \E k \in 1..((i+1)-1) : w[k].type = "newkeys"
        BY <3>2, <4>2
      <4> QED BY <4>1, <4>2
    <3> QED BY <3>1, <3>4 DEF Keyed
  <2> QED BY <2>1, <2>2 DEF Keyed
<1>3. ASSUME Head(w).type = "newkeys" PROVE Keyed(Tail(w), r + 1, s)
  <2>1. Has(w, "newkeys") /\ s = r + 1
    BY <1>3, TailFacts DEF Has, Keyed
  <2>2. "newkeys" \in ExchangeTypes /\ <<"newkeys", "newkeys">> \notin Precedes
    BY DEF ExchangeTypes, Precedes
  <2>3. ~Has(Tail(w), "newkeys")
    BY <1>3, <2>2, KindsTail DEF Kinds
  <2>4. ASSUME NEW i \in 1..Len(Tail(w))
        PROVE  Tail(w)[i].keys = s /\ ~\E j \in 1..(i-1) : Tail(w)[j].type = "newkeys"
    <3>1. Tail(w)[i] = w[i+1] /\ i + 1 \in 1..Len(w) /\ 1 \in 1..((i+1)-1)
      BY TailFacts
    <3>2. w[i+1].keys = s
      BY <1>3, <3>1, TailFacts DEF Keyed
    <3>3. \A j \in 1..(i-1) : j \in 1..Len(Tail(w))
      OBVIOUS
    <3> QED BY <2>3, <3>1, <3>2, <3>3 DEF Has
  <2> QED BY <2>1, <2>3, <2>4 DEF Keyed
<1> QED BY <1>1, <1>2, <1>3

\* A packet that was read leaves nothing new behind.
LEMMA TailKeeps ==
  ASSUME NEW w \in Seq(PacketRecord), w # <<>>
  PROVE  /\ Kinds(Tail(w)) \subseteq Kinds(w)
         /\ Head(w).type \in ExchangeTypes => Head(w).type \in Kinds(w)
         /\ Announced(w) => Announced(Tail(w)) /\ (Head(w).type = "kexreply" => Head(w).next = Head(w).keys + 1)
<1>1. Kinds(Tail(w)) \subseteq Kinds(w)
  BY TailFacts DEF Kinds, Has
<1>2. Head(w).type \in ExchangeTypes => Head(w).type \in Kinds(w)
  BY TailFacts DEF Kinds, Has
<1>3. ASSUME Announced(w)
      PROVE  /\ Announced(Tail(w))
             /\ Head(w).type = "kexreply" => Head(w).next = Head(w).keys + 1
  <2>1. ASSUME NEW i \in 1..Len(Tail(w)), Tail(w)[i].type = "kexreply"
        PROVE  Tail(w)[i].next = Tail(w)[i].keys + 1
    <3>1. Tail(w)[i] = w[i+1] /\ i + 1 \in 1..Len(w)
      BY TailFacts
    <3> QED BY <1>3, <2>1, <3>1 DEF Announced
  <2> QED BY <1>3, <2>1, TailFacts DEF Announced
<1> QED BY <1>1, <1>2, <1>3

\* A packet that is no reply, or announces the next keys, may be sent.
LEMMA AnnouncedAppend ==
  ASSUME NEW w \in Seq(PacketRecord), NEW m \in PacketRecord, Announced(w),
         m.type = "kexreply" => m.next = m.keys + 1
  PROVE  Announced(Append(w, m))
<1> SUFFICES ASSUME NEW i \in 1..Len(Append(w, m)), Append(w, m)[i].type = "kexreply"
             PROVE  Append(w, m)[i].next = Append(w, m)[i].keys + 1
  BY DEF Announced
<1>1. CASE i \in 1..Len(w)
  BY <1>1, AppendFacts DEF Announced
<1>2. CASE i = Len(w) + 1
  BY <1>2, AppendFacts
<1> QED BY <1>1, <1>2, AppendFacts

-----------------------------------------------------------------------------
(* What the session task and the server put on the wires.                  *)

\* A packet without announcement.
LEMMA PlainPacket ==
  ASSUME NEW type \in (ExchangeTypes \cup OtherTypes) \ {"kexreply"}, NEW k \in Nat
  PROVE  /\ [type |-> type, keys |-> k] \in PacketRecord
         /\ [type |-> type, keys |-> k].type = type /\ [type |-> type, keys |-> k].keys = k
BY DEF PacketRecord

\* One packet, or two, behind what is under way.
LEMMA Behind ==
  ASSUME NEW w \in Seq(PacketRecord), NEW k \in Nat,
         NEW a \in (ExchangeTypes \cup OtherTypes) \ {"kexreply"},
         NEW b \in (ExchangeTypes \cup OtherTypes) \ {"kexreply"}
  PROVE  /\ w \o [i \in 1..Len(<<a>>) |-> [type |-> <<a>>[i], keys |-> k]]
              = Append(w, [type |-> a, keys |-> k])
         /\ w \o [i \in 1..Len(<<a, b>>) |-> [type |-> <<a, b>>[i], keys |-> k]]
              = Append(Append(w, [type |-> a, keys |-> k]), [type |-> b, keys |-> k])
<1> DEFINE p(t) == [type |-> t, keys |-> k]
<1>1. p(a) \in PacketRecord /\ p(b) \in PacketRecord
  BY PlainPacket
<1>2. [i \in 1..Len(<<a>>) |-> p(<<a>>[i])] = <<p(a)>>
  OBVIOUS
<1>3. [i \in 1..Len(<<a, b>>) |-> p(<<a, b>>[i])] = <<p(a), p(b)>>
  OBVIOUS
<1> HIDE DEF p
<1>4. w \o <<p(a)>> = Append(w, p(a))
  BY <1>1
<1>5. w \o <<p(a), p(b)>> = Append(Append(w, p(a)), p(b))
  BY <1>1
<1> QED BY <1>2, <1>3, <1>4, <1>5 DEF p

\* What the server held back goes out behind its NEWKEYS, under the new keys.
LEMMA HeldGoesOut ==
  ASSUME NEW w \in Seq(PacketRecord), NEW h \in Seq({"reply", "ping"}),
         NEW r \in Nat, NEW k \in Nat,
         Ordered(w), Keyed(w, r, k), Announced(w)
  PROVE  LET v == w \o [i \in 1..Len(h) |-> [type |-> h[i], keys |-> k]]
         IN  /\ v \in Seq(PacketRecord) /\ Kinds(v) = Kinds(w)
             /\ Ordered(v) /\ Keyed(v, r, k) /\ Announced(v)
<1> DEFINE o == [i \in 1..Len(h) |-> [type |-> h[i], keys |-> k]]
           v == w \o o
<1>1. ASSUME NEW i \in 1..Len(h)
      PROVE  /\ o[i] \in PacketRecord /\ o[i].type \notin ExchangeTypes
             /\ o[i].keys = k
  <2>1. h[i] \in {"reply", "ping"}
    OBVIOUS
  <2> QED BY <2>1 DEF PacketRecord, ExchangeTypes, OtherTypes
<1>2. o \in Seq(PacketRecord) /\ Len(o) = Len(h) /\ Len(h) \in Nat /\ Len(w) \in Nat
  BY <1>1
<1> HIDE DEF o
<1>3. /\ v \in Seq(PacketRecord) /\ Len(v) = Len(w) + Len(h)
      /\ \A i \in 1..Len(w) : v[i] = w[i]
      /\ \A i \in 1..Len(v) : i \notin 1..Len(w) => i - Len(w) \in 1..Len(h) /\ v[i] = o[i - Len(w)]
  <2>1. /\ v \in Seq(PacketRecord) /\ Len(v) = Len(w) + Len(o)
        /\ \A i \in 1..(Len(w) + Len(o)) : v[i] = IF i <= Len(w) THEN w[i] ELSE o[i - Len(w)]
    BY <1>2
  <2> QED BY <1>2, <2>1
<1> HIDE DEF v
<1>4. ASSUME NEW i \in 1..Len(v), i \notin 1..Len(w)
      PROVE  v[i].type \notin ExchangeTypes /\ v[i].keys = k
  BY <1>1, <1>3, <1>4
<1>5. ASSUME NEW type \in ExchangeTypes PROVE Has(v, type) <=> Has(w, type)
  <2>1. ASSUME Has(w, type) PROVE Has(v, type)
    BY <1>2, <1>3, <2>1 DEF Has
  <2>2. ASSUME Has(v, type) PROVE Has(w, type)
    BY <1>3, <1>4, <2>2 DEF Has
  <2> QED BY <2>1, <2>2
<1>6. Ordered(v)
  BY <1>3, <1>4 DEF Ordered
<1>7. "newkeys" \in ExchangeTypes /\ "kexreply" \in ExchangeTypes
  BY DEF ExchangeTypes
<1>8. Keyed(v, r, k)
  <2>1. k = IF Has(v, "newkeys") THEN r + 1 ELSE r
    BY <1>5, <1>7 DEF Keyed
  <2>2. ASSUME NEW i \in 1..Len(v)
        PROVE  v[i].keys = IF \E j \in 1..(i-1) : v[j].type = "newkeys" THEN k ELSE r
    <3>1. CASE i \in 1..Len(w)
      <4>1. \A j \in 1..(i-1) : v[j] = w[j]
        BY <1>3, <3>1
      <4> QED BY <1>3, <3>1, <4>1 DEF Keyed
    <3>2. CASE i \notin 1..Len(w)
      <4>1. \A j \in 1..Len(w) : j \in 1..(i-1) /\ v[j] = w[j]
        BY <1>2, <1>3, <3>2
      <4>2. Has(w, "newkeys") => \E j \in 1..(i-1) : v[j].type = "newkeys"
        BY <4>1 DEF Has
      <4> QED BY <1>4, <3>2, <4>2 DEF Keyed
    <3> QED BY <3>1, <3>2
  <2> QED BY <2>1, <2>2 DEF Keyed
<1>9. Announced(v)
  BY <1>3, <1>4, <1>7 DEF Announced
<1> QED BY <1>3, <1>5, <1>6, <1>8, <1>9 DEF Kinds, v, o

-----------------------------------------------------------------------------
(* The invariant holds at the start, and types are kept.                   *)

\* No exchange is under way, no message, and all keys are those of the handshake.
LEMMA InitRekey == Init => RekeyInv
<1> SUFFICES ASSUME Init PROVE RekeyInv
  OBVIOUS
<1>1. RekeyTypeOK
  <2>1. /\ calls \in Seq({"request", "renegotiate"}) /\ held \in Seq({"reply", "ping"})
        /\ toServer \in Seq(PacketRecord) /\ toClient \in Seq(PacketRecord)
    BY DEF Init
  <2> QED BY <2>1 DEF Init, RekeyTypeOK, Places
<1>2. Kinds(<<>>) = {} /\ Ordered(<<>>) /\ Announced(<<>>) /\ Keyed(<<>>, 0, 0)
  BY DEF Kinds, Ordered, Announced, Keyed, Has
<1>3. InStep
  BY <1>2 DEF Init, InStep, Stages, At, Idle
<1> QED
  BY <1>1, <1>2, <1>3 DEF Init, RekeyInv, OnlyTrustedKeys

\* The record of what the session task sends.
LEMMA PacketType ==
  ASSUME RekeyTypeOK, NEW type \in (ExchangeTypes \cup OtherTypes) \ {"kexreply"}
  PROVE  /\ Packet(type) \in PacketRecord
         /\ Packet(type).type = type /\ Packet(type).keys = encrypt
         /\ ServerPacket(type) \in PacketRecord
         /\ ServerPacket(type).type = type /\ ServerPacket(type).keys = serverEncrypt
BY PlainPacket DEF Packet, ServerPacket, RekeyTypeOK

\* One or two packets of the session task.
LEMMA SayOne ==
  ASSUME RekeyTypeOK, NEW a \in (ExchangeTypes \cup OtherTypes) \ {"kexreply"}, Say(<<a>>)
  PROVE  toServer' = Append(toServer, Packet(a)) /\ toServer' \in Seq(PacketRecord)
<1>1. toServer' = Append(toServer, Packet(a))
  BY Behind DEF Say, Packet, RekeyTypeOK
<1> QED BY <1>1, PacketType, AppendFacts DEF RekeyTypeOK

\* exchange() sends two packets: KEXINIT and the first of the key exchange.
LEMMA SayTwo ==
  ASSUME RekeyTypeOK, Exchange
  PROVE  \E next \in {"group", "kexreply"} :
           LET b == IF next = "group" THEN "gexrequest" ELSE "kexdhinit"
           IN  /\ pc' = next
               /\ toServer' = Append(Append(toServer, Packet("kexinit")), Packet(b))
               /\ toServer' \in Seq(PacketRecord)
<1>1. PICK next \in {"group", "kexreply"} :
        pc' = next /\ Say(<<"kexinit", FirstKexPacket[next]>>)
  BY DEF Exchange
<1> DEFINE b == IF next = "group" THEN "gexrequest" ELSE "kexdhinit"
<1>2. FirstKexPacket[next] = b
  BY DEF FirstKexPacket
<1>3. /\ "kexinit" \in (ExchangeTypes \cup OtherTypes) \ {"kexreply"}
      /\ b \in (ExchangeTypes \cup OtherTypes) \ {"kexreply"}
  BY DEF ExchangeTypes, OtherTypes
<1>4. Packet("kexinit") \in PacketRecord /\ Packet(b) \in PacketRecord
  BY <1>3, PacketType
<1> HIDE DEF b
<1>5. toServer' = Append(Append(toServer, Packet("kexinit")), Packet(b))
  BY <1>1, <1>2, <1>3, Behind DEF Say, Packet, RekeyTypeOK
<1>6. toServer' \in Seq(PacketRecord)
  BY <1>4, <1>5, AppendFacts DEF RekeyTypeOK
<1> QED BY <1>1, <1>5, <1>6 DEF b

\* ServerKexReply: the reply and NEWKEYS under the old keys, the rest under the new.
LEMMA ReplyGoesOut ==
  ASSUME RekeyTypeOK, ServerKexReply
  PROVE  LET reply == [type |-> "kexreply", keys |-> serverEncrypt, next |-> serverEncrypt + 1]
             two == Append(Append(toClient, reply), ServerPacket("newkeys"))
         IN  /\ reply \in PacketRecord /\ ServerPacket("newkeys") \in PacketRecord
             /\ two \in Seq(PacketRecord)
             /\ toClient' = two \o [i \in 1..Len(held) |->
                                     [type |-> held[i], keys |-> serverEncrypt + 1]]
             /\ toClient' \in Seq(PacketRecord)
<1> DEFINE reply == [type |-> "kexreply", keys |-> serverEncrypt, next |-> serverEncrypt + 1]
           two == Append(Append(toClient, reply), ServerPacket("newkeys"))
           o == [i \in 1..Len(held) |-> [type |-> held[i], keys |-> serverEncrypt + 1]]
<1>1. reply \in PacketRecord /\ ServerPacket("newkeys") \in PacketRecord
  BY PacketType DEF RekeyTypeOK, PacketRecord, ExchangeTypes
<1>2. o \in Seq(PacketRecord)
  <2>1. ASSUME NEW i \in 1..Len(held) PROVE o[i] \in PacketRecord
    <3>1. held[i] \in {"reply", "ping"}
      BY DEF RekeyTypeOK
    <3> QED BY <3>1 DEF PacketRecord, ExchangeTypes, OtherTypes, RekeyTypeOK
  <2> QED BY <2>1 DEF RekeyTypeOK
<1>3. toClient' = (toClient \o <<reply, ServerPacket("newkeys")>>) \o o
  BY DEF ServerKexReply
<1> HIDE DEF reply, o
<1>4. toClient \o <<reply, ServerPacket("newkeys")>> = two
  BY <1>1 DEF RekeyTypeOK
<1>5. two \in Seq(PacketRecord)
  BY <1>1, AppendFacts DEF RekeyTypeOK
<1> HIDE DEF two
<1>6. two \o o \in Seq(PacketRecord)
  BY <1>2, <1>5
<1> QED BY <1>1, <1>3, <1>4, <1>5, <1>6 DEF reply, two, o

\* Every step keeps the types.
LEMMA TypeStep ==
  ASSUME RekeyTypeOK, [Next]_vars
  PROVE  RekeyTypeOK'
<1> USE DEF Places, ServerState, ClientState
<1>1. /\ toClient # <<>> => Tail(toClient) \in Seq(PacketRecord) /\ Head(toClient) \in PacketRecord
      /\ toServer # <<>> => Tail(toServer) \in Seq(PacketRecord)
      /\ calls # <<>> => Tail(calls) \in Seq({"request", "renegotiate"})
  BY TailFacts DEF RekeyTypeOK
<1>2. \A type : Say(<<type>>) /\ type \in {"request", "kexinit", "kexdhinit", "gexrequest", "pong", "unimplemented"}
                  => toServer' \in Seq(PacketRecord)
  BY SayOne DEF ExchangeTypes, OtherTypes
<1>3. Exchange => toServer' \in Seq(PacketRecord) /\ pc' \in {"group", "kexreply"}
  BY SayTwo
<1>4. ASSUME NEW type \in {"kexinit", "gexgroup", "reply", "ping"}
      PROVE  Append(toClient, ServerPacket(type)) \in Seq(PacketRecord)
  BY PacketType, AppendFacts DEF RekeyTypeOK, ExchangeTypes, OtherTypes
<1>5. CASE TakeRequest
  BY <1>1, <1>2, <1>5 DEF TakeRequest, RekeyTypeOK
<1>6. CASE TakeRenegotiate
  BY <1>1, <1>2, <1>6 DEF TakeRenegotiate, RekeyTypeOK
<1>7. CASE HandleReply
  BY <1>1, <1>3, <1>7 DEF HandleReply, Hears, RekeyTypeOK
<1>8. CASE KexInitIdle
  BY <1>1, <1>3, <1>8 DEF KexInitIdle, Hears, RekeyTypeOK
<1>9. CASE KexInitBusy
  BY <1>1, <1>9 DEF KexInitBusy, Hears, RekeyTypeOK
<1>10. CASE KexInitAwaited
  BY <1>1, <1>2, <1>10 DEF KexInitAwaited, FirstKexPacket, Hears, RekeyTypeOK
<1>11. CASE HandleGroup
  BY <1>1, <1>2, <1>11 DEF HandleGroup, Hears, RekeyTypeOK
<1>12. CASE HandleKexReply
  <2>1. Append(toServer, NewKeysPacket) \in Seq(PacketRecord)
    BY PacketType, AppendFacts DEF NewKeysPacket, RekeyTypeOK, ExchangeTypes
  <2>2. encrypt' \in Nat
    BY <1>12 DEF HandleKexReply, Upgrade, RekeyTypeOK
  <2>3. PICK accepted \in BOOLEAN : Upgrade(accepted) /\ refused' = (refused \/ ~accepted)
    BY <1>12, RekeyAssumption DEF HandleKexReply
  <2>4. renegotiating' \in BOOLEAN /\ refused' \in BOOLEAN
    BY <2>3, Zenon DEF Upgrade, RekeyTypeOK
  <2>5. toServer' \in Seq(PacketRecord) /\ pc' \in Places
    BY <1>12, <2>1, <2>3 DEF Upgrade, RekeyTypeOK
  <2> QED BY <1>1, <1>12, <2>2, <2>4, <2>5 DEF HandleKexReply, Hears, RekeyTypeOK
<1>13. CASE HandleNewKeys
  <2>1. decrypt' \in Nat
    BY <1>13 DEF HandleNewKeys, RekeyTypeOK
  <2>2. renegotiating' \in BOOLEAN
    BY <1>13 DEF HandleNewKeys, Renegotiated
  <2> QED BY <1>1, <1>13, <2>1, <2>2 DEF HandleNewKeys, Hears, RekeyTypeOK
<1>14. CASE HandlePing
  BY <1>1, <1>2, <1>14 DEF HandlePing, Answer, Hears, RekeyTypeOK
<1>15. CASE HandleUnrecognized
  BY <1>1, <1>2, <1>15 DEF HandleUnrecognized, Hears, RekeyTypeOK
<1>16. CASE Garbage
  BY <1>1, <1>16 DEF Garbage, RekeyTypeOK
<1>17. CASE ServerKexInit
  BY <1>1, <1>4, <1>17 DEF ServerKexInit, ServerHears, RekeyTypeOK
<1>18. CASE ServerGroup
  BY <1>1, <1>4, <1>18 DEF ServerGroup, ServerHears, RekeyTypeOK
<1>19. CASE ServerKexReply
  <2>1. toClient' \in Seq(PacketRecord)
    BY <1>19, ReplyGoesOut
  <2>2. /\ toServer' \in Seq(PacketRecord)
        /\ server' = "newkeys" /\ serverEncrypt' = serverEncrypt + 1 /\ held' = <<>>
        /\ UNCHANGED <<ClientState, calls, serverDecrypt, done>>
    BY <1>1, <1>19 DEF ServerKexReply, ServerHears
  <2>3. held' \in Seq({"reply", "ping"})
    BY <2>2
  <2> QED BY <2>1, <2>2, <2>3 DEF RekeyTypeOK
<1>20. CASE ServerNewKeys
  BY <1>1, <1>20 DEF ServerNewKeys, ServerHears, RekeyTypeOK
<1>21. CASE ServerReplies
  <2>1. Append(held, "reply") \in Seq({"reply", "ping"})
    BY AppendProperties DEF RekeyTypeOK
  <2>2. toClient' \in Seq(PacketRecord) /\ held' \in Seq({"reply", "ping"})
    BY <1>4, <1>21, <2>1 DEF ServerReplies, Tell, RekeyTypeOK
  <2> QED BY <1>1, <1>21, <2>2 DEF ServerReplies, ServerHears, RekeyTypeOK
<1>22. CASE ServerIgnores
  BY <1>1, <1>22 DEF ServerIgnores, ServerHears, RekeyTypeOK
<1>23. CASE AppRequest \/ AppRenegotiate
  <2>1. PICK what \in {"request", "renegotiate"} : calls' = Append(calls, what)
    BY <1>23 DEF AppRequest, AppRenegotiate, Call
  <2>2. calls' \in Seq({"request", "renegotiate"})
    BY <2>1, AppendProperties DEF RekeyTypeOK
  <2> QED BY <1>23, <2>2 DEF AppRequest, AppRenegotiate, Call, RekeyTypeOK
<1>24. CASE ServerStarts
  BY <1>4, <1>24 DEF ServerStarts, RekeyTypeOK
<1>25. CASE ServerPings
  <2>1. toClient' \in Seq(PacketRecord) /\ UNCHANGED held
    BY <1>4, <1>25 DEF ServerPings, Tell, Blocked
  <2> QED BY <1>25, <2>1 DEF ServerPings, RekeyTypeOK
<1>26. CASE UNCHANGED vars
  BY <1>26 DEF vars, RekeyTypeOK
<1> QED
  BY <1>5, <1>6, <1>7, <1>8, <1>9, <1>10, <1>11, <1>12, <1>13, <1>14, <1>15, <1>16, <1>17,
     <1>18, <1>19, <1>20, <1>21, <1>22, <1>23, <1>24, <1>25, <1>26
  DEF Next, SessionTask, ServerTask

-----------------------------------------------------------------------------
(* After a host key was turned down: the client's keys never change again. *)

\* Once the notifier has refused, no step leads out of that state or to new keys.
LEMMA StrandedStep ==
  ASSUME RekeyInv, refused, [Next]_vars
  PROVE  refused' /\ Announced(toClient)' /\ OnlyTrustedKeys' /\ Stranded'
<1> USE DEF ServerState, ClientState
<1>1. RekeyTypeOK /\ Announced(toClient) /\ OnlyTrustedKeys /\ Stranded
  BY DEF RekeyInv
<1>2. \A type \in {"kexinit", "kexreply"} : ~Hears(type)
  BY <1>1, TailKeeps DEF Hears, Stranded, RekeyTypeOK, ExchangeTypes
<1>3. ~ServerHears("newkeys")
  BY <1>1, TailKeeps DEF ServerHears, Stranded, RekeyTypeOK, ExchangeTypes
<1>4. ~HandleKexReply /\ ~HandleNewKeys /\ ~KexInitIdle /\ ~KexInitBusy /\ ~KexInitAwaited
  BY <1>1, <1>2 DEF HandleKexReply, HandleNewKeys, KexInitIdle, KexInitBusy, KexInitAwaited, Stranded
<1>5. ~ServerStarts /\ ~ServerKexInit /\ ~ServerKexReply /\ ~ServerNewKeys
  BY <1>1, <1>3 DEF ServerStarts, ServerKexInit, ServerKexReply, ServerNewKeys, Stranded
<1>6. ASSUME NEW type \in {"request", "kexinit", "kexdhinit", "pong", "unimplemented"}, Say(<<type>>)
      PROVE  "newkeys" \notin Kinds(toServer')
  <2>1. type \in (ExchangeTypes \cup OtherTypes) \ {"kexreply"} /\ type # "newkeys"
    BY DEF ExchangeTypes, OtherTypes
  <2>2. toServer' = Append(toServer, Packet(type)) /\ Packet(type) \in PacketRecord
        /\ Packet(type).type = type
    BY <1>1, <1>6, <2>1, SayOne, PacketType
  <2> QED BY <1>1, <2>1, <2>2, KindsAppend DEF Stranded, RekeyTypeOK
<1>7. ASSUME NEW type \in {"gexgroup", "reply", "ping"}, toClient' = Append(toClient, ServerPacket(type))
      PROVE  /\ "kexinit" \notin Kinds(toClient') /\ "kexreply" \notin Kinds(toClient')
             /\ Announced(toClient')
  <2>1. type \in (ExchangeTypes \cup OtherTypes) \ {"kexreply"}
    BY DEF ExchangeTypes, OtherTypes
  <2>2. ServerPacket(type) \in PacketRecord /\ ServerPacket(type).type = type
    BY <1>1, <2>1, PacketType
  <2>3. Announced(toClient')
    BY <1>1, <1>7, <2>2, AnnouncedAppend DEF RekeyTypeOK
  <2> QED BY <1>1, <1>7, <2>2, <2>3, KindsAppend DEF Stranded, RekeyTypeOK
<1>8. ASSUME toServer # <<>>, toServer' = Tail(toServer)
      PROVE  "newkeys" \notin Kinds(toServer')
  BY <1>1, <1>8, TailKeeps DEF Stranded, RekeyTypeOK
<1>9. ASSUME toClient # <<>>, toClient' = Tail(toClient)
      PROVE  /\ "kexinit" \notin Kinds(toClient') /\ "kexreply" \notin Kinds(toClient')
             /\ Announced(toClient')
  BY <1>1, <1>9, TailKeeps DEF Stranded, RekeyTypeOK
<1>10. CASE TakeRequest
  BY <1>1, <1>6, <1>10 DEF TakeRequest, OnlyTrustedKeys, Stranded
<1>11. CASE TakeRenegotiate
  BY <1>1, <1>6, <1>11 DEF TakeRenegotiate, OnlyTrustedKeys, Stranded
<1>12. CASE HandleReply
  BY <1>1, <1>9, <1>12 DEF HandleReply, Hears, OnlyTrustedKeys, Stranded
<1>13. CASE HandleGroup
  BY <1>1, <1>6, <1>9, <1>13 DEF HandleGroup, Hears, OnlyTrustedKeys, Stranded
<1>14. CASE HandlePing
  BY <1>1, <1>6, <1>9, <1>14 DEF HandlePing, Answer, Hears, OnlyTrustedKeys, Stranded
<1>15. CASE HandleUnrecognized
  BY <1>1, <1>6, <1>9, <1>15 DEF HandleUnrecognized, Hears, OnlyTrustedKeys, Stranded
<1>16. CASE Garbage
  BY <1>1, <1>9, <1>16 DEF Garbage, OnlyTrustedKeys, Stranded
<1>17. CASE ServerGroup
  BY <1>1, <1>7, <1>8, <1>17 DEF ServerGroup, ServerHears, OnlyTrustedKeys, Stranded
<1>18. CASE ServerReplies
  BY <1>1, <1>7, <1>8, <1>18 DEF ServerReplies, ServerHears, Tell, Blocked, OnlyTrustedKeys, Stranded
<1>19. CASE ServerIgnores
  BY <1>1, <1>8, <1>19 DEF ServerIgnores, ServerHears, OnlyTrustedKeys, Stranded
<1>20. CASE AppRequest \/ AppRenegotiate
  <2>1. UNCHANGED <<ClientState, toServer, toClient, server>>
    BY <1>20 DEF AppRequest, AppRenegotiate, Call
  <2> QED BY <1>1, <2>1 DEF OnlyTrustedKeys, Stranded
<1>21. CASE ServerPings
  BY <1>1, <1>7, <1>21 DEF ServerPings, Tell, Blocked, OnlyTrustedKeys, Stranded
<1>22. CASE UNCHANGED vars
  BY <1>1, <1>22 DEF vars, OnlyTrustedKeys, Stranded, Announced, Kinds, Has
<1> QED
  BY <1>4, <1>5, <1>10, <1>11, <1>12, <1>13, <1>14, <1>15, <1>16, <1>17, <1>18, <1>19, <1>20,
     <1>21, <1>22
  DEF Next, SessionTask, ServerTask

-----------------------------------------------------------------------------
(* While every host key has been accepted: the effect of a step on a wire. *)

\* The session task reads a packet.
LEMMA HearStep ==
  ASSUME RekeyTypeOK, InStep, Announced(toClient), NEW type, Hears(type)
  PROVE  /\ Announced(toClient') /\ Ordered(toClient')
         /\ Keyed(toClient', IF type = "newkeys" THEN decrypt + 1 ELSE decrypt, serverEncrypt)
         /\ type \in ExchangeTypes =>
              /\ type \in Kinds(toClient) /\ Kinds(toClient') = Kinds(toClient) \ {type}
              /\ \A other \in Kinds(toClient') : <<type, other>> \in Precedes
         /\ type \notin ExchangeTypes => Kinds(toClient') = Kinds(toClient)
<1>1. /\ toClient \in Seq(PacketRecord) /\ toClient # <<>> /\ toClient' = Tail(toClient)
      /\ Head(toClient).type = type /\ Ordered(toClient) /\ Keyed(toClient, decrypt, serverEncrypt)
      /\ decrypt \in Nat /\ serverEncrypt \in Nat
  BY DEF Hears, RekeyTypeOK, InStep
<1> QED BY <1>1, KindsTail, KeyedTail, TailKeeps

\* The server reads a packet.
LEMMA ServerHearStep ==
  ASSUME RekeyTypeOK, InStep, NEW type, ServerHears(type)
  PROVE  /\ Ordered(toServer')
         /\ Keyed(toServer', IF type = "newkeys" THEN serverDecrypt + 1 ELSE serverDecrypt, encrypt)
         /\ type \in ExchangeTypes =>
              /\ type \in Kinds(toServer) /\ Kinds(toServer') = Kinds(toServer) \ {type}
              /\ \A other \in Kinds(toServer') : <<type, other>> \in Precedes
         /\ type \notin ExchangeTypes => Kinds(toServer') = Kinds(toServer)
<1>1. /\ toServer \in Seq(PacketRecord) /\ toServer # <<>> /\ toServer' = Tail(toServer)
      /\ Head(toServer).type = type /\ Ordered(toServer) /\ Keyed(toServer, serverDecrypt, encrypt)
      /\ serverDecrypt \in Nat /\ encrypt \in Nat
  BY DEF ServerHears, RekeyTypeOK, InStep
<1> QED BY <1>1, KindsTail, KeyedTail

\* The session task sends a packet.
LEMMA SayStep ==
  ASSUME RekeyTypeOK, InStep,
         NEW type \in (ExchangeTypes \cup OtherTypes) \ {"kexreply", "newkeys"}, Say(<<type>>),
         type \in ExchangeTypes => \A other \in Kinds(toServer) : <<other, type>> \in Precedes
  PROVE  /\ Ordered(toServer') /\ Keyed(toServer', serverDecrypt, encrypt)
         /\ type \in ExchangeTypes => Kinds(toServer') = Kinds(toServer) \cup {type}
         /\ type \notin ExchangeTypes => Kinds(toServer') = Kinds(toServer)
<1>1. /\ toServer' = Append(toServer, Packet(type)) /\ Packet(type) \in PacketRecord
      /\ Packet(type).type = type /\ Packet(type).keys = encrypt
  BY SayOne, PacketType
<1>2. /\ toServer \in Seq(PacketRecord) /\ Ordered(toServer) /\ Keyed(toServer, serverDecrypt, encrypt)
      /\ serverDecrypt \in Nat /\ encrypt \in Nat /\ type # "newkeys"
  BY DEF RekeyTypeOK, InStep
<1> HIDE DEF Packet
<1> QED BY <1>1, <1>2, KindsAppend, OrderedAppend, KeyedAppend

\* The session task enters an exchange the server has begun.
LEMMA ExchangeStep ==
  ASSUME RekeyTypeOK, InStep, Exchange, Kinds(toServer) = {}
  PROVE  /\ Ordered(toServer') /\ Keyed(toServer', serverDecrypt, encrypt)
         /\ \/ pc' = "group" /\ Kinds(toServer') = {"kexinit", "gexrequest"}
            \/ pc' = "kexreply" /\ Kinds(toServer') = {"kexinit", "kexdhinit"}
<1> DEFINE b(next) == IF next = "group" THEN "gexrequest" ELSE "kexdhinit"
           w == Append(toServer, Packet("kexinit"))
<1>1. PICK next \in {"group", "kexreply"} :
        pc' = next /\ toServer' = Append(w, Packet(b(next)))
  BY SayTwo
<1>2. /\ "kexinit" \in (ExchangeTypes \cup OtherTypes) \ {"kexreply", "newkeys"}
      /\ b(next) \in (ExchangeTypes \cup OtherTypes) \ {"kexreply", "newkeys"}
      /\ "kexinit" \in ExchangeTypes /\ b(next) \in ExchangeTypes
      /\ <<"kexinit", b(next)>> \in Precedes
  BY DEF ExchangeTypes, OtherTypes, Precedes
<1>3. /\ Packet("kexinit") \in PacketRecord /\ Packet("kexinit").type = "kexinit"
      /\ Packet("kexinit").keys = encrypt
      /\ Packet(b(next)) \in PacketRecord /\ Packet(b(next)).type = b(next)
      /\ Packet(b(next)).keys = encrypt
  BY <1>2, PacketType
<1>4. /\ toServer \in Seq(PacketRecord) /\ Ordered(toServer) /\ Keyed(toServer, serverDecrypt, encrypt)
      /\ serverDecrypt \in Nat /\ encrypt \in Nat
  BY DEF RekeyTypeOK, InStep
<1>5. /\ w \in Seq(PacketRecord) /\ Ordered(w) /\ Keyed(w, serverDecrypt, encrypt)
      /\ Kinds(w) = {"kexinit"}
  BY <1>2, <1>3, <1>4, AppendFacts, KindsAppend, OrderedAppend, KeyedAppend
<1> HIDE DEF w, b
<1>6. Kinds(toServer') = {"kexinit", b(next)}
  BY <1>1, <1>2, <1>3, <1>5, KindsAppend
<1>7. Ordered(toServer')
  BY <1>1, <1>2, <1>3, <1>5, OrderedAppend
<1>8. Keyed(toServer', serverDecrypt, encrypt)
  BY <1>1, <1>2, <1>3, <1>4, <1>5, KeyedAppend
<1> QED BY <1>1, <1>6, <1>7, <1>8 DEF b

\* The server sends a packet.
LEMMA TellStep ==
  ASSUME RekeyTypeOK, InStep, Announced(toClient),
         NEW type \in (ExchangeTypes \cup OtherTypes) \ {"kexreply", "newkeys"},
         toClient' = Append(toClient, ServerPacket(type)),
         type \in ExchangeTypes => \A other \in Kinds(toClient) : <<other, type>> \in Precedes
  PROVE  /\ Announced(toClient') /\ Ordered(toClient') /\ Keyed(toClient', decrypt, serverEncrypt)
         /\ type \in ExchangeTypes => Kinds(toClient') = Kinds(toClient) \cup {type}
         /\ type \notin ExchangeTypes => Kinds(toClient') = Kinds(toClient)
<1>1. /\ ServerPacket(type) \in PacketRecord
      /\ ServerPacket(type).type = type /\ ServerPacket(type).keys = serverEncrypt
  BY PacketType
<1>2. /\ toClient \in Seq(PacketRecord) /\ Ordered(toClient) /\ Keyed(toClient, decrypt, serverEncrypt)
      /\ serverEncrypt \in Nat /\ decrypt \in Nat /\ type # "newkeys" /\ type # "kexreply"
  BY DEF RekeyTypeOK, InStep
<1> HIDE DEF ServerPacket
<1> QED BY <1>1, <1>2, KindsAppend, OrderedAppend, KeyedAppend, AnnouncedAppend

-----------------------------------------------------------------------------
(* While every host key has been accepted: the steps.                      *)

\* A step that moves no packet of an exchange and does not change the stage.
LEMMA QuietStep ==
  ASSUME RekeyInv, ~refused,
         UNCHANGED <<renegotiating, deferred, encrypt, decrypt, server, serverEncrypt, serverDecrypt, refused>>,
         pc' = pc \/ (pc \in {"select", "reply"} /\ pc' \in {"select", "reply"} /\ Idle),
         OnlyTrustedKeys' <=> OnlyTrustedKeys,
         Announced(toClient'), Ordered(toClient'), Keyed(toClient', decrypt, serverEncrypt),
         Kinds(toClient') = Kinds(toClient),
         Ordered(toServer'), Keyed(toServer', serverDecrypt, encrypt),
         Kinds(toServer') = Kinds(toServer)
  PROVE  Announced(toClient)' /\ OnlyTrustedKeys' /\ ~refused' /\ InStep'
<1>1. RekeyTypeOK /\ InStep /\ OnlyTrustedKeys
  BY DEF RekeyInv
<1>2. Stages'
  <2>1. CASE pc' = pc
    BY <1>1, <2>1 DEF InStep, Stages, At, Idle
  <2>2. CASE pc \in {"select", "reply"} /\ pc' \in {"select", "reply"} /\ Idle
    BY <1>1, <2>2 DEF InStep, Stages, At, Idle
  <2> QED BY <2>1, <2>2
<1>3. encrypt' = IF pc' = "newkeys" THEN decrypt' + 1 ELSE decrypt'
  BY <1>1 DEF InStep, Idle
<1> QED BY <1>1, <1>2, <1>3 DEF InStep

\* Requests, their answers, pings and what answers them.
LEMMA ChatterStep ==
  ASSUME RekeyInv, ~refused,
         \/ TakeRequest \/ HandlePing \/ HandleUnrecognized \/ (HandleReply /\ ~deferred)
         \/ ServerReplies \/ ServerIgnores \/ ServerPings \/ AppRequest \/ AppRenegotiate
         \/ UNCHANGED vars
  PROVE  Announced(toClient)' /\ OnlyTrustedKeys' /\ ~refused' /\ InStep'
<1> USE DEF ServerState, ClientState
<1>1. /\ RekeyTypeOK /\ InStep /\ Announced(toClient) /\ Stages
      /\ Ordered(toClient) /\ Keyed(toClient, decrypt, serverEncrypt)
      /\ Ordered(toServer) /\ Keyed(toServer, serverDecrypt, encrypt)
  BY DEF RekeyInv, InStep
<1>2. \A type \in {"request", "pong", "unimplemented", "reply", "ping"} :
        /\ type \in (ExchangeTypes \cup OtherTypes) \ {"kexreply", "newkeys"}
        /\ type \notin ExchangeTypes /\ type # "newkeys"
  BY DEF ExchangeTypes, OtherTypes
<1>3. ASSUME NEW type \in {"request", "pong", "unimplemented"}, Say(<<type>>)
      PROVE  /\ Ordered(toServer') /\ Keyed(toServer', serverDecrypt, encrypt)
             /\ Kinds(toServer') = Kinds(toServer)
  BY <1>1, <1>2, <1>3, SayStep
<1>4. ASSUME NEW type \in {"request", "pong", "unimplemented"}, ServerHears(type)
      PROVE  /\ Ordered(toServer') /\ Keyed(toServer', serverDecrypt, encrypt)
             /\ Kinds(toServer') = Kinds(toServer)
  BY <1>1, <1>2, <1>4, ServerHearStep
<1>5. ASSUME NEW type \in {"reply", "ping"}, Hears(type)
      PROVE  /\ Announced(toClient') /\ Ordered(toClient') /\ Keyed(toClient', decrypt, serverEncrypt)
             /\ Kinds(toClient') = Kinds(toClient)
  BY <1>1, <1>2, <1>5, HearStep
<1>6. ASSUME NEW type \in {"reply", "ping"}, Tell(type)
      PROVE  /\ Announced(toClient') /\ Ordered(toClient') /\ Keyed(toClient', decrypt, serverEncrypt)
             /\ Kinds(toClient') = Kinds(toClient)
  <2>1. CASE toClient' = Append(toClient, ServerPacket(type))
    BY <1>1, <1>2, <2>1, TellStep
  <2>2. CASE UNCHANGED toClient
    BY <1>1, <2>2
  <2> QED BY <1>6, <2>1, <2>2 DEF Tell
<1>7. CASE TakeRequest
  <2>1. Idle
    BY <1>1, <1>7 DEF TakeRequest, Stages
  <2> QED BY <1>1, <1>3, <1>7, <2>1, QuietStep DEF TakeRequest, OnlyTrustedKeys
<1>8. CASE HandlePing
  BY <1>1, <1>3, <1>5, <1>8, QuietStep DEF HandlePing, Answer, OnlyTrustedKeys
<1>9. CASE HandleUnrecognized
  <2>1. Hears("reply") /\ Say(<<"unimplemented">>)
    <3>1. ~(renegotiating /\ pc # "kexinit" /\ Hears("kexinit"))
      <4> SUFFICES ASSUME renegotiating, pc # "kexinit", Hears("kexinit") PROVE FALSE
        OBVIOUS
      <4>1. /\ "kexinit" \in Kinds(toClient) /\ Kinds(toClient') = Kinds(toClient) \ {"kexinit"}
            /\ \A other \in Kinds(toClient') : <<"kexinit", other>> \in Precedes
        BY <1>1, HearStep DEF ExchangeTypes
      <4>2. Kinds(toClient) = {"newkeys", "kexinit"}
        BY <1>1, <4>1 DEF Stages, At, Idle
      <4> QED BY <4>1, <4>2 DEF Precedes
    <3>2. ~(pc # "group" /\ Hears("gexgroup"))
      <4> SUFFICES ASSUME pc # "group", Hears("gexgroup") PROVE FALSE
        OBVIOUS
      <4>1. "gexgroup" \in Kinds(toClient)
        BY <1>1, HearStep DEF ExchangeTypes
      <4> QED BY <1>1, <4>1 DEF Stages, At
    <3>3. ~(pc # "kexreply" /\ Hears("kexreply"))
      <4> SUFFICES ASSUME pc # "kexreply", Hears("kexreply") PROVE FALSE
        OBVIOUS
      <4>1. "kexreply" \in Kinds(toClient)
        BY <1>1, HearStep DEF ExchangeTypes
      <4> QED BY <1>1, <4>1 DEF Stages, At
    <3>4. ~(pc # "newkeys" /\ Hears("newkeys"))
      <4> SUFFICES ASSUME pc # "newkeys", Hears("newkeys") PROVE FALSE
        OBVIOUS
      <4>1. /\ "newkeys" \in Kinds(toClient) /\ Kinds(toClient') = Kinds(toClient) \ {"newkeys"}
            /\ \A other \in Kinds(toClient') : <<"newkeys", other>> \in Precedes
        BY <1>1, HearStep DEF ExchangeTypes
      <4>2. Kinds(toClient) = {"kexreply", "newkeys"}
        BY <1>1, <4>1 DEF Stages, At, Idle
      <4> QED BY <4>1, <4>2 DEF Precedes
    <3>5. DOMAIN AwaitedAt = {"reply", "gexgroup", "kexreply", "newkeys"}
          /\ AwaitedAt["gexgroup"] = "group" /\ AwaitedAt["kexreply"] = "kexreply"
          /\ AwaitedAt["newkeys"] = "newkeys"
      BY DEF AwaitedAt
    <3> QED BY <1>9, <3>1, <3>2, <3>3, <3>4, <3>5 DEF HandleUnrecognized
  <2> QED BY <1>1, <1>3, <1>5, <1>9, <2>1, QuietStep DEF HandleUnrecognized, OnlyTrustedKeys
<1>10. CASE HandleReply /\ ~deferred
  <2>1. Idle
    BY <1>1, <1>10 DEF HandleReply, Stages
  <2> QED BY <1>1, <1>5, <1>10, <2>1, QuietStep DEF HandleReply, OnlyTrustedKeys
<1>11. CASE ServerReplies
  BY <1>1, <1>4, <1>6, <1>11, QuietStep DEF ServerReplies, OnlyTrustedKeys
<1>12. CASE ServerIgnores
  BY <1>1, <1>4, <1>12, QuietStep DEF ServerIgnores, OnlyTrustedKeys
<1>13. CASE ServerPings
  BY <1>1, <1>6, <1>13, QuietStep DEF ServerPings, OnlyTrustedKeys
<1>14. CASE AppRequest \/ AppRenegotiate
  <2>1. UNCHANGED <<ClientState, toServer, toClient, server, serverEncrypt, serverDecrypt>>
    BY <1>14 DEF AppRequest, AppRenegotiate, Call
  <2> QED BY <1>1, <2>1, QuietStep DEF OnlyTrustedKeys
<1>15. CASE UNCHANGED vars
  BY <1>1, <1>15, QuietStep DEF vars, OnlyTrustedKeys
<1> QED
  BY <1>7, <1>8, <1>9, <1>10, <1>11, <1>12, <1>13, <1>14, <1>15

\* The session task's steps of an exchange, up to the reply.
LEMMA ClientExchangeStep ==
  ASSUME RekeyInv, ~refused,
         \/ TakeRenegotiate \/ KexInitIdle \/ KexInitBusy \/ KexInitAwaited \/ HandleGroup
         \/ (HandleReply /\ deferred)
  PROVE  Announced(toClient)' /\ OnlyTrustedKeys' /\ ~refused' /\ InStep'
<1> USE DEF ServerState
<1>1. /\ RekeyTypeOK /\ InStep /\ Announced(toClient) /\ Stages /\ OnlyTrustedKeys
      /\ Ordered(toClient) /\ Keyed(toClient, decrypt, serverEncrypt)
      /\ Ordered(toServer) /\ Keyed(toServer, serverDecrypt, encrypt)
      /\ encrypt = IF pc = "newkeys" THEN decrypt + 1 ELSE decrypt
  BY DEF RekeyInv, InStep
<1>2. /\ \A type \in {"kexinit", "gexrequest", "gexgroup", "kexdhinit"} :
           /\ type \in (ExchangeTypes \cup OtherTypes) \ {"kexreply", "newkeys"}
           /\ type \in ExchangeTypes /\ type # "newkeys"
      /\ "reply" \notin ExchangeTypes
  BY DEF ExchangeTypes, OtherTypes
<1>3. ASSUME Hears("kexinit")
      PROVE  /\ Announced(toClient') /\ Ordered(toClient') /\ Keyed(toClient', decrypt, serverEncrypt)
             /\ "kexinit" \in Kinds(toClient) /\ Kinds(toClient') = Kinds(toClient) \ {"kexinit"}
  BY <1>1, <1>2, <1>3, HearStep
<1>4. CASE TakeRenegotiate
  <2>1. Idle
    BY <1>1, <1>4 DEF TakeRenegotiate, Stages
  <2>2. \A other \in Kinds(toServer) : <<other, "kexinit">> \in Precedes
    BY <1>1, <2>1 DEF Stages, At, Idle, Precedes
  <2>3. /\ Ordered(toServer') /\ Keyed(toServer', serverDecrypt, encrypt)
        /\ Kinds(toServer') = Kinds(toServer) \cup {"kexinit"}
    BY <1>1, <1>2, <1>4, <2>2, SayStep DEF TakeRenegotiate
  <2>4. Stages'
    BY <1>1, <1>4, <2>1, <2>3 DEF TakeRenegotiate, Stages, At, Idle
  <2> QED BY <1>1, <1>4, <2>1, <2>3, <2>4 DEF TakeRenegotiate, InStep, OnlyTrustedKeys, Idle
<1>5. CASE KexInitIdle
  <2>1. server = "sent" /\ Kinds(toServer) = {} /\ Kinds(toClient') = {} /\ ~deferred
    BY <1>1, <1>3, <1>5 DEF KexInitIdle, Stages, At, Idle
  <2>2. /\ Ordered(toServer') /\ Keyed(toServer', serverDecrypt, encrypt)
        /\ \/ pc' = "group" /\ Kinds(toServer') = {"kexinit", "gexrequest"}
           \/ pc' = "kexreply" /\ Kinds(toServer') = {"kexinit", "kexdhinit"}
    BY <1>1, <1>5, <2>1, ExchangeStep DEF KexInitIdle
  <2>3. Stages'
    BY <1>5, <2>1, <2>2 DEF KexInitIdle, Stages, At
  <2> QED BY <1>1, <1>3, <1>5, <2>2, <2>3 DEF KexInitIdle, InStep, OnlyTrustedKeys
<1>6. CASE KexInitBusy
  <2>1. server = "sent" /\ Kinds(toServer) = {} /\ Kinds(toClient') = {}
    BY <1>1, <1>3, <1>6 DEF KexInitBusy, Stages, At, Idle
  <2>2. Stages'
    BY <1>6, <2>1 DEF KexInitBusy, Stages, At
  <2> QED BY <1>1, <1>3, <1>6, <2>2 DEF KexInitBusy, InStep, OnlyTrustedKeys
<1>7. CASE KexInitAwaited
  <2>1. /\ \/ server = "sent" /\ Kinds(toServer) = {"kexinit"}
           \/ server = "both" /\ Kinds(toServer) = {}
        /\ Kinds(toClient') = {} /\ ~deferred /\ renegotiating
    BY <1>1, <1>3, <1>7 DEF KexInitAwaited, Stages, At, Idle
  <2>2. PICK type \in {"gexrequest", "kexdhinit"} :
          Say(<<type>>) /\ pc' = IF type = "gexrequest" THEN "group" ELSE "kexreply"
    BY <1>7 DEF KexInitAwaited, FirstKexPacket
  <2>3. \A other \in Kinds(toServer) : <<other, type>> \in Precedes
    BY <2>1 DEF Precedes
  <2>4. /\ Ordered(toServer') /\ Keyed(toServer', serverDecrypt, encrypt)
        /\ Kinds(toServer') = Kinds(toServer) \cup {type}
    BY <1>1, <1>2, <2>2, <2>3, SayStep
  <2>5. Stages'
    BY <1>7, <2>1, <2>2, <2>4 DEF KexInitAwaited, Stages, At
  <2> QED BY <1>1, <1>3, <1>7, <2>2, <2>4, <2>5 DEF KexInitAwaited, InStep, OnlyTrustedKeys
<1>8. CASE HandleGroup
  <2>1. /\ Announced(toClient') /\ Ordered(toClient') /\ Keyed(toClient', decrypt, serverEncrypt)
        /\ "gexgroup" \in Kinds(toClient) /\ Kinds(toClient') = Kinds(toClient) \ {"gexgroup"}
    BY <1>1, <1>2, <1>8, HearStep DEF HandleGroup
  <2>2. server = "both" /\ Kinds(toServer) = {} /\ Kinds(toClient') = {} /\ ~deferred /\ renegotiating
    BY <1>1, <1>8, <2>1 DEF HandleGroup, Stages, At, Idle
  <2>3. /\ Ordered(toServer') /\ Keyed(toServer', serverDecrypt, encrypt)
        /\ Kinds(toServer') = {"kexdhinit"}
    BY <1>1, <1>2, <1>8, <2>2, SayStep DEF HandleGroup
  <2>4. Stages'
    BY <1>8, <2>2, <2>3 DEF HandleGroup, Stages, At
  <2> QED BY <1>1, <1>8, <2>1, <2>3, <2>4 DEF HandleGroup, InStep, OnlyTrustedKeys
<1>9. CASE HandleReply /\ deferred
  <2>1. /\ Announced(toClient') /\ Ordered(toClient') /\ Keyed(toClient', decrypt, serverEncrypt)
        /\ Kinds(toClient') = Kinds(toClient)
    BY <1>1, <1>2, <1>9, HearStep DEF HandleReply
  <2>2. server = "sent" /\ Kinds(toServer) = {} /\ Kinds(toClient') = {} /\ renegotiating
    BY <1>1, <1>9, <2>1 DEF HandleReply, Stages, At, Idle
  <2>3. /\ Ordered(toServer') /\ Keyed(toServer', serverDecrypt, encrypt)
        /\ \/ pc' = "group" /\ Kinds(toServer') = {"kexinit", "gexrequest"}
           \/ pc' = "kexreply" /\ Kinds(toServer') = {"kexinit", "kexdhinit"}
    BY <1>1, <1>9, <2>2, ExchangeStep DEF HandleReply
  <2>4. Stages'
    BY <1>9, <2>2, <2>3 DEF HandleReply, Stages, At
  <2> QED BY <1>1, <1>9, <2>1, <2>3, <2>4 DEF HandleReply, InStep, OnlyTrustedKeys
<1> QED BY <1>4, <1>5, <1>6, <1>7, <1>8, <1>9

\* The verdict on a host key, and the end of the exchange.
LEMMA ClientKeysStep ==
  ASSUME RekeyInv, ~refused, HandleKexReply \/ HandleNewKeys
  PROVE  /\ Announced(toClient)' /\ OnlyTrustedKeys'
         /\ refused' => Stranded'
         /\ ~refused' => InStep'
<1> USE DEF ServerState
<1>1. /\ RekeyTypeOK /\ InStep /\ Announced(toClient) /\ Stages /\ OnlyTrustedKeys
      /\ Ordered(toClient) /\ Keyed(toClient, decrypt, serverEncrypt)
      /\ Ordered(toServer) /\ Keyed(toServer, serverDecrypt, encrypt)
      /\ encrypt = IF pc = "newkeys" THEN decrypt + 1 ELSE decrypt
      /\ encrypt \in Nat /\ decrypt \in Nat /\ serverDecrypt \in Nat
      /\ toServer \in Seq(PacketRecord)
  BY DEF RekeyInv, InStep, RekeyTypeOK
<1>2. "kexreply" \in ExchangeTypes /\ "newkeys" \in ExchangeTypes
  BY DEF ExchangeTypes
<1>3. CASE HandleKexReply
  <2>1. /\ Announced(toClient') /\ Ordered(toClient') /\ Keyed(toClient', decrypt, serverEncrypt)
        /\ "kexreply" \in Kinds(toClient) /\ Kinds(toClient') = Kinds(toClient) \ {"kexreply"}
    BY <1>1, <1>2, <1>3, HearStep DEF HandleKexReply
  <2>2. /\ server = "newkeys" /\ Kinds(toServer) = {} /\ Kinds(toClient') = {"newkeys"}
        /\ ~deferred /\ renegotiating
    BY <1>1, <1>3, <2>1 DEF HandleKexReply, Stages, At, Idle
  <2>3. Head(toClient).next = encrypt + 1
    <3>1. Head(toClient).next = Head(toClient).keys + 1 /\ Head(toClient).keys = decrypt
      BY <1>1, <1>3, TailKeeps DEF HandleKexReply, Hears, RekeyTypeOK
    <3> QED BY <1>1, <1>3, <3>1 DEF HandleKexReply
  <2>4. PICK accepted \in BOOLEAN :
          /\ Upgrade(accepted)
          /\ trusted' = IF accepted THEN trusted \cup {Head(toClient).next} ELSE trusted
          /\ refused' = (refused \/ ~accepted)
    BY <1>3, RekeyAssumption DEF HandleKexReply
  <2>5. UNCHANGED <<server, deferred, decrypt, serverEncrypt, serverDecrypt>>
    BY <1>3 DEF HandleKexReply
  <2>6. CASE accepted
    <3>1. /\ toServer' = Append(toServer, Packet("newkeys")) /\ encrypt' = encrypt + 1
          /\ pc' = "newkeys" /\ UNCHANGED renegotiating
          /\ trusted' = trusted \cup {encrypt + 1}
      BY <2>3, <2>4, <2>6 DEF Upgrade, NewKeysPacket
    <3>2. ~refused'
      BY <2>4, <2>6
    <3>3. /\ Packet("newkeys") \in PacketRecord /\ Packet("newkeys").type = "newkeys"
          /\ Packet("newkeys").keys = encrypt
      BY <1>1, PacketType DEF ExchangeTypes
    <3>4. ~Has(toServer, "newkeys")
      BY <1>2, <2>2 DEF Kinds
    <3>5. Kinds(toServer') = {"newkeys"} /\ Ordered(toServer')
      BY <1>1, <1>2, <2>2, <3>1, <3>3, KindsAppend, OrderedAppend
    <3>6. Keyed(toServer', serverDecrypt, encrypt')
      BY <1>1, <3>1, <3>3, <3>4, KeyedNewKeys
    <3>7. Stages'
      BY <2>2, <2>5, <3>1, <3>5 DEF Stages, At
    <3>8. encrypt' = decrypt' + 1
      BY <1>1, <1>3, <2>5, <3>1 DEF HandleKexReply
    <3>9. OnlyTrustedKeys'
      BY <1>1, <2>5, <3>1 DEF OnlyTrustedKeys
    <3> QED BY <2>1, <2>5, <3>1, <3>2, <3>5, <3>6, <3>7, <3>8, <3>9 DEF InStep
  <2>7. CASE ~accepted
    <3>1. UNCHANGED <<toServer, encrypt, trusted>> /\ pc' \in {"select", "dead"} /\ refused'
      BY <2>4, <2>7 DEF Upgrade
    <3>2. Stranded'
      BY <2>2, <2>5, <3>1 DEF Stranded
    <3> QED BY <1>1, <2>1, <2>5, <3>1, <3>2 DEF OnlyTrustedKeys
  <2> QED BY <2>6, <2>7
<1>4. CASE HandleNewKeys
  <2>1. /\ Announced(toClient') /\ Ordered(toClient') /\ Keyed(toClient', decrypt + 1, serverEncrypt)
        /\ "newkeys" \in Kinds(toClient) /\ Kinds(toClient') = Kinds(toClient) \ {"newkeys"}
    BY <1>1, <1>2, <1>4, HearStep DEF HandleNewKeys
  <2>2. /\ \/ server = "newkeys" /\ Kinds(toServer) = {"newkeys"} /\ Kinds(toClient') = {}
           \/ server = "none" /\ Kinds(toServer) = {} /\ Kinds(toClient') = {}
           \/ server = "sent" /\ Kinds(toServer) = {} /\ Kinds(toClient') = {"kexinit"}
        /\ ~deferred
    BY <1>1, <1>4, <2>1 DEF HandleNewKeys, Stages, At, Idle
  <2>3. /\ decrypt' = decrypt + 1 /\ renegotiating' = FALSE /\ pc' = "select"
        /\ UNCHANGED <<deferred, encrypt, toServer, server, serverEncrypt, serverDecrypt, trusted, refused>>
    BY <1>4 DEF HandleNewKeys, Renegotiated
  <2>4. Stages'
    BY <2>2, <2>3 DEF Stages, At, Idle
  <2>5. encrypt' = decrypt'
    BY <1>1, <1>4, <2>3 DEF HandleNewKeys
  <2> QED BY <1>1, <2>1, <2>3, <2>4, <2>5 DEF InStep, OnlyTrustedKeys
<1> QED BY <1>3, <1>4

\* The server's steps of an exchange.
LEMMA ServerExchangeStep ==
  ASSUME RekeyInv, ~refused,
         ServerStarts \/ ServerKexInit \/ ServerGroup \/ ServerKexReply \/ ServerNewKeys
  PROVE  Announced(toClient)' /\ OnlyTrustedKeys' /\ ~refused' /\ InStep'
<1> USE DEF ClientState
<1>1. /\ RekeyTypeOK /\ InStep /\ Announced(toClient) /\ Stages /\ OnlyTrustedKeys
      /\ Ordered(toClient) /\ Keyed(toClient, decrypt, serverEncrypt)
      /\ Ordered(toServer) /\ Keyed(toServer, serverDecrypt, encrypt)
      /\ encrypt = IF pc = "newkeys" THEN decrypt + 1 ELSE decrypt
      /\ serverEncrypt \in Nat /\ decrypt \in Nat /\ toClient \in Seq(PacketRecord)
      /\ held \in Seq({"reply", "ping"})
  BY DEF RekeyInv, InStep, RekeyTypeOK
<1>2. \A type \in {"kexinit", "gexrequest", "gexgroup", "kexdhinit"} :
        /\ type \in (ExchangeTypes \cup OtherTypes) \ {"kexreply", "newkeys"}
        /\ type \in ExchangeTypes /\ type # "newkeys"
  BY DEF ExchangeTypes, OtherTypes
<1>3. /\ UNCHANGED <<pc, renegotiating, deferred, encrypt, decrypt, trusted, refused>>
      /\ OnlyTrustedKeys'
  BY <1>1 DEF ServerStarts, ServerKexInit, ServerGroup, ServerKexReply, ServerNewKeys, OnlyTrustedKeys
<1>4. CASE ServerStarts
  <2>1. /\ server = "none" /\ server' = "sent" /\ UNCHANGED <<toServer, serverEncrypt, serverDecrypt>>
        /\ toClient' = Append(toClient, ServerPacket("kexinit"))
    BY <1>4 DEF ServerStarts
  <2>2. \A other \in Kinds(toClient) : <<other, "kexinit">> \in Precedes
    BY <1>1, <2>1 DEF Stages, At, Precedes
  <2>3. /\ Announced(toClient') /\ Ordered(toClient') /\ Keyed(toClient', decrypt, serverEncrypt)
        /\ Kinds(toClient') = Kinds(toClient) \cup {"kexinit"}
    BY <1>1, <1>2, <2>1, <2>2, TellStep
  <2>4. Stages'
    BY <1>1, <1>3, <2>1, <2>3 DEF Stages, At, Idle
  <2> QED BY <1>1, <1>3, <2>1, <2>3, <2>4 DEF InStep
<1>5. CASE ServerKexInit
  <2>1. /\ server \in {"none", "sent"} /\ server' = "both" /\ UNCHANGED <<serverEncrypt, serverDecrypt>>
        /\ toClient' = IF server = "none" THEN Append(toClient, ServerPacket("kexinit")) ELSE toClient
    BY <1>5 DEF ServerKexInit
  <2>2. /\ Ordered(toServer') /\ Keyed(toServer', serverDecrypt, encrypt)
        /\ "kexinit" \in Kinds(toServer) /\ Kinds(toServer') = Kinds(toServer) \ {"kexinit"}
    BY <1>1, <1>2, <1>5, ServerHearStep DEF ServerKexInit
  <2>3. server = "none" => Kinds(toClient) = {}
    BY <1>1, <2>2 DEF Stages, At
  <2>4. /\ Announced(toClient') /\ Ordered(toClient') /\ Keyed(toClient', decrypt, serverEncrypt)
        /\ server = "none" => Kinds(toClient') = {"kexinit"}
        /\ server # "none" => Kinds(toClient') = Kinds(toClient)
    <3>1. CASE server = "none"
      BY <1>1, <1>2, <2>1, <2>3, <3>1, TellStep
    <3>2. CASE server # "none"
      BY <1>1, <2>1, <3>2
    <3> QED BY <3>1, <3>2
  <2>5. Stages'
    BY <1>1, <1>3, <2>1, <2>2, <2>4 DEF Stages, At, Idle
  <2> QED BY <1>1, <1>3, <2>1, <2>2, <2>4, <2>5 DEF InStep
<1>6. CASE ServerGroup
  <2>1. /\ UNCHANGED <<server, serverEncrypt, serverDecrypt>>
        /\ toClient' = Append(toClient, ServerPacket("gexgroup"))
    BY <1>6 DEF ServerGroup
  <2>2. /\ Ordered(toServer') /\ Keyed(toServer', serverDecrypt, encrypt)
        /\ "gexrequest" \in Kinds(toServer) /\ Kinds(toServer') = Kinds(toServer) \ {"gexrequest"}
        /\ \A other \in Kinds(toServer') : <<"gexrequest", other>> \in Precedes
    BY <1>1, <1>2, <1>6, ServerHearStep DEF ServerGroup
  <2>3. "kexinit" \notin Kinds(toServer')
    BY <2>2 DEF Precedes
  <2>4. server = "both" /\ pc = "group" /\ Kinds(toServer) = {"gexrequest"} /\ Kinds(toClient) = {}
    BY <1>1, <2>2, <2>3 DEF Stages, At
  <2>5. /\ Announced(toClient') /\ Ordered(toClient') /\ Keyed(toClient', decrypt, serverEncrypt)
        /\ Kinds(toClient') = {"gexgroup"}
    BY <1>1, <1>2, <2>1, <2>4, TellStep
  <2>6. Stages'
    BY <1>1, <1>3, <2>1, <2>2, <2>4, <2>5 DEF Stages, At, Idle
  <2> QED BY <1>1, <1>3, <2>1, <2>2, <2>5, <2>6 DEF InStep
<1>7. CASE ServerKexReply
  <2>1. server = "both" /\ server' = "newkeys" /\ serverEncrypt' = serverEncrypt + 1 /\ UNCHANGED serverDecrypt
    BY <1>7 DEF ServerKexReply
  <2>2. /\ Ordered(toServer') /\ Keyed(toServer', serverDecrypt, encrypt)
        /\ "kexdhinit" \in Kinds(toServer) /\ Kinds(toServer') = Kinds(toServer) \ {"kexdhinit"}
    BY <1>1, <1>2, <1>7, ServerHearStep DEF ServerKexReply
  <2>3. pc = "kexreply" /\ Kinds(toServer') = {} /\ Kinds(toClient) = {} /\ renegotiating /\ ~deferred
    BY <1>1, <2>1, <2>2 DEF Stages, At, Idle
  <2> DEFINE reply == [type |-> "kexreply", keys |-> serverEncrypt, next |-> serverEncrypt + 1]
             one == Append(toClient, reply)
             two == Append(one, ServerPacket("newkeys"))
  <2>4. /\ reply \in PacketRecord /\ ServerPacket("newkeys") \in PacketRecord
        /\ two \in Seq(PacketRecord)
        /\ toClient' = two \o [i \in 1..Len(held) |-> [type |-> held[i], keys |-> serverEncrypt + 1]]
    BY <1>1, <1>7, ReplyGoesOut
  <2>5. /\ reply.type = "kexreply" /\ reply.keys = serverEncrypt /\ reply.next = reply.keys + 1
        /\ ServerPacket("newkeys").type = "newkeys" /\ ServerPacket("newkeys").keys = serverEncrypt
        /\ "kexreply" \in ExchangeTypes /\ "newkeys" \in ExchangeTypes
        /\ <<"kexreply", "newkeys">> \in Precedes
    BY DEF ServerPacket, ExchangeTypes, Precedes
  <2> HIDE DEF reply
  <2>6. one \in Seq(PacketRecord) /\ Kinds(one) = {"kexreply"} /\ Ordered(one) /\ Announced(one)
    BY <1>1, <2>3, <2>4, <2>5, AppendFacts, KindsAppend, OrderedAppend, AnnouncedAppend
  <2>7. Keyed(one, decrypt, serverEncrypt)
    BY <1>1, <2>4, <2>5, KeyedAppend
  <2>8. ~Has(one, "newkeys")
    BY <2>5, <2>6 DEF Kinds
  <2> HIDE DEF one
  <2>9. Kinds(two) = {"kexreply", "newkeys"} /\ Ordered(two) /\ Announced(two)
    <3>1. Kinds(two) = {"kexreply", "newkeys"}
      BY <2>4, <2>5, <2>6, KindsAppend
    <3>2. Ordered(two)
      BY <2>4, <2>5, <2>6, OrderedAppend
    <3>3. Announced(two)
      BY <2>4, <2>5, <2>6, AnnouncedAppend
    <3> QED BY <3>1, <3>2, <3>3
  <2>10. Keyed(two, decrypt, serverEncrypt + 1)
    BY <1>1, <2>4, <2>5, <2>6, <2>7, <2>8, KeyedNewKeys
  <2> HIDE DEF two
  <2>11. /\ Kinds(toClient') = {"kexreply", "newkeys"} /\ Ordered(toClient')
         /\ Announced(toClient') /\ Keyed(toClient', decrypt, serverEncrypt + 1)
    <3>1. serverEncrypt + 1 \in Nat
      BY <1>1
    <3> QED BY <1>1, <2>4, <2>9, <2>10, <3>1, HeldGoesOut
  <2>12. Stages'
    BY <1>3, <2>1, <2>2, <2>3, <2>11 DEF Stages, At
  <2> QED BY <1>1, <1>3, <2>1, <2>2, <2>11, <2>12 DEF InStep
<1>8. CASE ServerNewKeys
  <2>1. /\ server = "newkeys" /\ server' = "none" /\ serverDecrypt' = serverDecrypt + 1
        /\ UNCHANGED <<toClient, serverEncrypt>>
    BY <1>8 DEF ServerNewKeys
  <2>2. /\ Ordered(toServer') /\ Keyed(toServer', serverDecrypt + 1, encrypt)
        /\ "newkeys" \in Kinds(toServer) /\ Kinds(toServer') = Kinds(toServer) \ {"newkeys"}
    BY <1>1, <1>8, ServerHearStep DEF ServerNewKeys, ExchangeTypes
  <2>3. Stages'
    BY <1>1, <1>3, <2>1, <2>2 DEF Stages, At, Idle
  <2> QED BY <1>1, <1>3, <2>1, <2>2, <2>3 DEF InStep
<1> QED BY <1>4, <1>5, <1>6, <1>7, <1>8

\* Every step keeps the invariant.  Garbage is no step of a session in step.
LEMMA RekeyStep ==
  ASSUME RekeyInv, [Next]_vars
  PROVE  RekeyInv'
<1>1. RekeyTypeOK'
  BY TypeStep DEF RekeyInv
<1>2. CASE refused
  BY <1>1, <1>2, StrandedStep DEF RekeyInv
<1>3. CASE ~refused
  <2>1. ~Garbage
    <3> SUFFICES ASSUME Garbage PROVE FALSE
      OBVIOUS
    <3>1. /\ toClient \in Seq(PacketRecord) /\ Ordered(toClient) /\ toClient # <<>>
          /\ Keyed(toClient, decrypt, serverEncrypt) /\ decrypt \in Nat /\ serverEncrypt \in Nat
      BY <1>3 DEF RekeyInv, InStep, RekeyTypeOK, Garbage
    <3> QED BY <3>1, KeyedTail DEF Garbage
  <2>2. CASE \/ TakeRequest \/ HandlePing \/ HandleUnrecognized \/ (HandleReply /\ ~deferred)
             \/ ServerReplies \/ ServerIgnores \/ ServerPings \/ AppRequest \/ AppRenegotiate
             \/ UNCHANGED vars
    BY <1>1, <1>3, <2>2, ChatterStep DEF RekeyInv
  <2>3. CASE \/ TakeRenegotiate \/ KexInitIdle \/ KexInitBusy \/ KexInitAwaited \/ HandleGroup
             \/ (HandleReply /\ deferred)
    BY <1>1, <1>3, <2>3, ClientExchangeStep DEF RekeyInv
  <2>4. CASE HandleKexReply \/ HandleNewKeys
    BY <1>1, <1>3, <2>4, ClientKeysStep DEF RekeyInv
  <2>5. CASE ServerStarts \/ ServerKexInit \/ ServerGroup \/ ServerKexReply \/ ServerNewKeys
    BY <1>1, <1>3, <2>5, ServerExchangeStep DEF RekeyInv
  <2> QED BY <2>1, <2>2, <2>3, <2>4, <2>5 DEF Next, SessionTask, ServerTask
<1> QED BY <1>2, <1>3

-----------------------------------------------------------------------------
(* The theorems.                                                           *)

\* In every reachable state the packets of an exchange that are under way fit the stage
\* both ends are in, and every packet in flight is sealed with the keys it will meet.
THEOREM RekeyInvariant == Spec => []RekeyInv
<1>1. Init => RekeyInv
  BY InitRekey
<1>2. RekeyInv /\ [Next]_vars => RekeyInv'
  BY RekeyStep
<1> QED BY <1>1, <1>2, PTL DEF Spec

\* upgrade_client and upgrade_server change keys at the same packet as the server does,
\* however often and by whomever exchanges are started.
THEOREM KeysAlwaysMatch == Spec => []KeysMatch
<1>1. RekeyInv => KeysMatch
  <2> SUFFICES ASSUME RekeyInv, ~refused PROVE KeysMatch
    BY DEF KeysMatch
  <2>1. /\ toClient \in Seq(PacketRecord) /\ toServer \in Seq(PacketRecord)
        /\ Ordered(toClient) /\ Keyed(toClient, decrypt, serverEncrypt)
        /\ Ordered(toServer) /\ Keyed(toServer, serverDecrypt, encrypt)
        /\ decrypt \in Nat /\ serverEncrypt \in Nat /\ serverDecrypt \in Nat /\ encrypt \in Nat
    BY DEF RekeyInv, RekeyTypeOK, InStep
  <2> QED BY <2>1, KeyedTail DEF KeysMatch
<1> QED BY <1>1, RekeyInvariant, PTL

\* handle_msg never answers a KEXINIT with SSH_MSG_UNIMPLEMENTED.
THEOREM KexInitAlwaysUsed == Spec => []KexInitUsed
<1>1. RekeyInv => KexInitUsed
  <2> SUFFICES ASSUME RekeyInv, toClient # <<>>, Head(toClient).type = "kexinit"
               PROVE  pc = "kexinit" \/ (pc \in {"select", "reply"} /\ ~renegotiating)
    BY DEF KexInitUsed
  <2>1. toClient \in Seq(PacketRecord) /\ "kexinit" \in ExchangeTypes
    BY DEF RekeyInv, RekeyTypeOK, ExchangeTypes
  <2>2. "kexinit" \in Kinds(toClient)
    BY <2>1, TailKeeps
  <2>3. ~refused /\ Stages /\ Ordered(toClient)
    BY <2>2 DEF RekeyInv, Stranded, InStep
  <2>4. \A other \in Kinds(toClient) \ {"kexinit"} : <<"kexinit", other>> \in Precedes
    BY <2>1, <2>3, KindsTail
  <2>5. "newkeys" \notin Kinds(toClient)
    BY <2>4 DEF Precedes
  <2> QED BY <2>2, <2>3, <2>5 DEF Stages, At, Idle
<1> QED BY <1>1, RekeyInvariant, PTL

\* Keys whose host key the application turned down are never used, also when a failed
\* renegotiate() leaves the session running.
THEOREM OnlyTrustedKeysUsed == Spec => []OnlyTrustedKeys
<1>1. RekeyInv => OnlyTrustedKeys
  BY DEF RekeyInv
<1> QED BY <1>1, RekeyInvariant, PTL
=============================================================================
