-------------------------- MODULE HandshakeProofs ---------------------------
(***************************************************************************)
(* Handshake's safety properties for any lists of algorithms, groups,      *)
(* banner lengths and noise.  HandshakeInv says what each side knows of    *)
(* the other by what it has read, what every message under way was made    *)
(* from, and in which order the server's messages are.                     *)
(***************************************************************************)
EXTENDS Handshake, SequenceTheorems, WellFoundedInduction, TLAPS

\* No server is taken for one that needs do_compat: with one that is, the two sides
\* negotiate from different lists (see the README).
NoPad == "OpenSSH_6.6" \notin Software

Noise == {IGNORE, UNKNOWN, DISCONNECT}

IsSeq(w) == w \in Seq(ToSet(w))

Phases == {"banner", "methods", "exchange", "group", "reply", "newkeys", "up", "failed"}

ServerShape ==
  /\ server \in [phase : {server.phase}, software : Software, offer : Offers, strict : BOOLEAN,
                 said : {server.said}, noise : {server.noise}, ours : {server.ours},
                 theirs : {server.theirs}, chosen : {server.chosen}, group : {server.group},
                 keys : {server.keys}]
  /\ server.phase \in {"banner", "methods", "kexinit", "exchange", "newkeys", "up", "gone"}

HandshakeTypeOK ==
  /\ config \in [strict : BOOLEAN, disable_compat : BOOLEAN, need : Needs]
  /\ phase \in Phases
  /\ version \in Software \cup {"any"}
  /\ ServerShape

-----------------------------------------------------------------------------
(* What each side knows of the other.                                      *)

\* A list with a marker of strictness behind the names.
Mark(list, marker, with) == list \o (IF with THEN <<marker>> ELSE <<>>)

\* What the server sends in its KEXINIT.
OfferOf(o, strict) == [o EXCEPT !.kex = Mark(@, StrictServer, strict)]
Offered == OfferOf(server.offer, server.strict)

\* What the server makes of the client's.
Chosen == [c \in Categories |-> Best(ours[c], server.offer[c])]

\* What the client sends in its own, unless do_compat takes a name out.
OursOf(strict) == [Preferred EXCEPT !.kex = Mark(@, StrictClient, strict)]
Ours == OursOf(config.strict)

\* The client has sent its KEXINIT; it has read the server's.
Sent == ours = Ours /\ version = server.software /\ phase # "banner"
Read == /\ theirs = Offered /\ server.ours = Offered /\ Sent
        /\ matched = Negotiate(Parsed(Offered)) /\ matched # None
        /\ phase \notin {"banner", "methods"}

\* The server has read the client's.
ServerRead == server.theirs = ours /\ server.chosen = Chosen /\ server.ours = Offered /\ Sent

\* The group both sides use, if the method has one.
SameGroup == Method.group => server.group = <<bits, prime>>

Grouped == {"group", "reply", "newkeys", "up", "failed"}
Replying == {"reply", "newkeys", "up", "failed"}

ServerKeys(hash) ==
  [receive |-> {Key(l, hash) : l \in {"A", "C", "E"}},
   send |-> {Key(l, hash) : l \in {"B", "D", "F"}}, session |-> hash]

HasGroup == /\ Read /\ ServerRead /\ Method.group /\ phase \in Grouped
            /\ \E p \in Primes : server.group = <<bits, p>>

\* The hash both sides come to.
TheHash == Hash(ServerKey)

HasKeys == /\ Read /\ ServerRead /\ SameGroup /\ phase \in Replying
           /\ server.keys = ServerKeys(TheHash)

ClientKnows ==
  /\ phase \notin {"banner", "failed"} => version = server.software /\ server.phase # "banner"
  /\ ours = None \/ Sent
  /\ (theirs = None /\ matched = None) \/ Read
  /\ phase \in {"exchange", "group", "reply", "newkeys", "up"} => Read
  /\ phase \in {"reply", "newkeys", "up"} => SameGroup
  /\ phase \in {"newkeys", "up"} => HasKeys /\ keys # None
  /\ keys = None \/ (HasKeys /\ keys = Initialized(server.keys.session))
  /\ error = "negotiation" => Negotiate(Parsed(Offered)) = None
  /\ error \notin {"signature", "strict"}

ServerKnows ==
  /\ server.phase \in {"banner", "methods"} => server.ours = None
  /\ server.phase \in {"kexinit", "exchange", "newkeys", "up"} => server.ours = Offered
  /\ (server.theirs = None /\ server.chosen = None) \/ ServerRead
  /\ server.phase \in {"banner", "methods", "kexinit"} => server.theirs = None
  /\ server.phase \in {"exchange", "newkeys", "up"} => ServerRead
  /\ server.phase = "exchange" => Chosen["kex"] # Nothing
  /\ server.phase \in {"banner", "methods", "kexinit"} => server.group = None
  /\ server.phase \in {"banner", "methods", "kexinit", "exchange"} => server.keys = None
  /\ server.group = None \/ HasGroup
  /\ server.keys = None \/ HasKeys

-----------------------------------------------------------------------------
(* What is under way.                                                      *)

\* A message to the server was made from what the client knows,
GoodRequest(m) ==
  \/ m.type = UNIMPLEMENTED
  \/ m.type = KEXINIT /\ m.body = ours /\ Sent
  \/ m.type = GEX_REQUEST /\ Read /\ Method.group /\ m.body = bits /\ phase \in Grouped
  \/ /\ m.type \in {30, 32} /\ Read /\ m.type = Method.request /\ m.body = GenerateKey
     /\ SameGroup /\ phase \in Replying
  \/ m.type = NEWKEYS /\ m.body

\* and one to the client from what the server knows.
GoodMessage(m) ==
  \/ m.type = TEXT
  \/ m.type = IDENTIFICATION /\ m.software = server.software /\ server.phase # "banner"
  \/ m.type \in Noise /\ ~(config.strict /\ server.strict) /\ server.phase # "banner"
  \/ m.type = KEXINIT /\ m.body = Offered /\ server.ours = Offered
  \/ m.type = GEX_GROUP /\ HasGroup /\ m.body = server.group[2]
  \/ /\ m.type \in {31, 33} /\ HasKeys /\ m.type = Method.response
     /\ m.body.hash = TheHash /\ m.body.public = ServerKey
  \/ m.type = NEWKEYS /\ HasKeys

Rank(type) ==
  CASE type = TEXT -> 0 [] type = IDENTIFICATION -> 1 [] type = KEXINIT -> 2
    [] type = 31 -> 3 [] type = 33 -> 4 [] type = NEWKEYS -> 5 [] OTHER -> 1

\* b may come after a.
Later(a, b) ==
  \/ b.type \in Noise
  \/ Rank(a.type) < Rank(b.type)
  \/ a.type = TEXT /\ b.type = TEXT

InOrder(w) == \A i, j \in 1..Len(w) : i < j => Later(w[i], w[j])

\* What the client has read does not come again.
Floor ==
  CASE phase = "methods" -> 2 [] phase \in {"exchange", "group"} -> 3
    [] phase = "reply" -> (IF Method.group THEN 4 ELSE 3) [] OTHER -> 0

Due(m) == m.type \in Noise \/ Rank(m.type) >= Floor

\* As long as the client reads lines, the identification is still to come.
Introduced ==
  phase = "banner" =>
    \/ server.phase \in {"banner", "gone"} /\ \A m \in ToSet(toClient) : m.type = TEXT
    \/ \E m \in ToSet(toClient) : m.type = IDENTIFICATION

\* A NEWKEYS comes after a message of the type.
Backed(w, type) ==
  \A i \in 1..Len(w) : w[i].type = NEWKEYS => \E j \in 1..Len(w) : j < i /\ w[j].type = type

Wires ==
  /\ IsSeq(toServer) /\ \A m \in ToSet(toServer) : GoodRequest(m)
  /\ IsSeq(toClient) /\ \A m \in ToSet(toClient) : GoodMessage(m) /\ Due(m)
  /\ InOrder(toClient)
  /\ phase = "reply" => Backed(toClient, Method.response)

HandshakeInv == HandshakeTypeOK /\ ClientKnows /\ ServerKnows /\ Wires /\ Introduced

-----------------------------------------------------------------------------
(* Lists of algorithms.                                                    *)

\* The well-founded relation of the library is the order of numbers.
LEMMA Smaller ==
  ASSUME NEW m \in Nat, NEW n \in Nat
  PROVE  <<m, n>> \in OpToRel(<, Nat) <=> m < n
BY SMT DEF OpToRel

\* A set of natural numbers has a least one.
LEMMA LeastOf ==
  ASSUME NEW S \in SUBSET Nat, S # {}
  PROVE  Min(S) \in S /\ \A n \in S : Min(S) <= n
<1>1. \E x \in S : \A y \in S : ~(<<y, x>> \in OpToRel(<, Nat))
  BY NatLessThanWellFounded, WFMin, Zenon
<1>2. \E x \in S : \A y \in S : ~(y < x)
  <2>1. \A x, y \in S : <<y, x>> \in OpToRel(<, Nat) <=> y < x
    BY Smaller, Zenon
  <2> QED BY <1>1, <2>1, Zenon
<1>3. PICK x \in S : \A y \in S : x <= y
  BY <1>2
<1> QED BY <1>3 DEF Min

\* The loop of Config::negotiate stops at the first of prefs that is offered.
LEMMA FirstCommonFacts ==
  ASSUME NEW prefs \in Seq(STRING), NEW offered
  PROVE  /\ FirstCommon(prefs, offered) \in 0..Len(prefs)
         /\ FirstCommon(prefs, offered) # 0 =>
              /\ prefs[FirstCommon(prefs, offered)] \in ToSet(offered)
              /\ \A j \in 1..(FirstCommon(prefs, offered) - 1) : prefs[j] \notin ToSet(offered)
         /\ FirstCommon(prefs, offered) = 0 => \A j \in 1..Len(prefs) : prefs[j] \notin ToSet(offered)
<1> DEFINE I == {i \in 1..Len(prefs) : prefs[i] \in ToSet(offered)}
<1>1. FirstCommon(prefs, offered) = IF I # {} THEN Min(I) ELSE 0
  BY DEF FirstCommon, SelectInSeq
<1>2. Len(prefs) \in Nat
  OBVIOUS
<1>3. I \in SUBSET Nat
  BY <1>2
<1>4. CASE I = {}
  <2>1. \A i \in 1..Len(prefs) : prefs[i] \notin ToSet(offered)
    BY <1>4
  <2> QED BY <1>1, <1>2, <1>4, <2>1
<1>5. CASE I # {}
  <2>1. Min(I) \in I /\ \A n \in I : Min(I) <= n
    BY <1>3, <1>5, LeastOf
  <2>2. Min(I) \in 1..Len(prefs) /\ prefs[Min(I)] \in ToSet(offered)
    BY <2>1
  <2>3. \A j \in 1..Len(prefs) : prefs[j] \in ToSet(offered) => Min(I) <= j
    BY <2>1
  <2> HIDE DEF I
  <2>4. \A j \in 1..(Min(I) - 1) : prefs[j] \notin ToSet(offered)
    BY <1>2, <2>2, <2>3
  <2> QED BY <1>1, <1>2, <1>5, <2>2, <2>4
<1> QED BY <1>4, <1>5

\* The server's rule picks the first of the client's list that it supports.
LEMMA BestFacts ==
  ASSUME NEW S, NEW list \in Seq(S), NEW supported
  PROVE  /\ (\A j \in 1..Len(list) : list[j] \notin ToSet(supported)) => Best(list, supported) = Nothing
         /\ \A k \in 1..Len(list) :
              list[k] \in ToSet(supported) /\ (\A j \in 1..(k - 1) : list[j] \notin ToSet(supported))
                => Best(list, supported) = list[k]
<1>0. Len(list) \in Nat /\ DOMAIN list = 1..Len(list)
  OBVIOUS
<1>1. ASSUME \A j \in 1..Len(list) : list[j] \notin ToSet(supported)
      PROVE  Best(list, supported) = Nothing
  <2>1. ~(\E a \in ToSet(list) : a \in ToSet(supported))
    BY <1>0, <1>1 DEF ToSet
  <2> QED BY <2>1 DEF Best
<1>2. ASSUME NEW k \in 1..Len(list), list[k] \in ToSet(supported),
             \A j \in 1..(k - 1) : list[j] \notin ToSet(supported)
      PROVE  Best(list, supported) = list[k]
  <2> DEFINE P(a) == \E i \in DOMAIN list :
                       list[i] = a /\ \A j \in 1..(i - 1) : list[j] \notin ToSet(supported)
  <2>1. list[k] \in ToSet(list)
    BY <1>0 DEF ToSet
  <2>2. list[k] \in ToSet(list) \cap ToSet(supported) /\ P(list[k])
    BY <1>0, <1>2, <2>1
  <2>3. ASSUME NEW a \in ToSet(list) \cap ToSet(supported), P(a) PROVE a = list[k]
    <3>1. PICK i \in 1..Len(list) : list[i] = a /\ \A j \in 1..(i - 1) : list[j] \notin ToSet(supported)
      BY <1>0, <2>3
    <3>2. ~(i < k) /\ ~(k < i)
      BY <1>0, <1>2, <2>3, <3>1
    <3> QED BY <1>0, <3>1, <3>2
  <2> HIDE DEF P
  <2>4. (CHOOSE a \in ToSet(list) \cap ToSet(supported) : P(a)) = list[k]
    BY <2>2, <2>3
  <2>5. \E a \in ToSet(list) : a \in ToSet(supported)
    BY <2>2
  <2> QED BY <2>4, <2>5 DEF Best, P
<1> QED BY <1>1, <1>2

\* Taking out a name leaves the others.
LEMMA RemoveFirstFacts ==
  ASSUME NEW S, NEW s \in Seq(S), NEW e, NEW a, a # e
  PROVE  a \in ToSet(RemoveFirst(s, e)) <=> a \in ToSet(s)
<1>0. Len(s) \in Nat /\ DOMAIN s = 1..Len(s)
  OBVIOUS
<1>1. CASE ~(\E i \in 1..Len(s) : s[i] = e)
  BY <1>1 DEF RemoveFirst
<1>2. CASE \E i \in 1..Len(s) : s[i] = e
  <2> DEFINE I == {i \in 1..Len(s) : s[i] = e}
             k == Min(I)
             u == SubSeq(s, 1, k - 1)
             v == SubSeq(s, k + 1, Len(s))
             r == u \o v
  <2>1. I \in SUBSET Nat /\ I # {}
    BY <1>0, <1>2
  <2>2. k \in 1..Len(s) /\ s[k] = e
    BY <2>1, LeastOf
  <2>3. RemoveFirst(s, e) = r
    BY <1>2, <2>1 DEF RemoveFirst, RemoveAt, SelectInSeq
  <2> HIDE DEF k
  <2>4. u \in Seq(S) /\ Len(u) = k - 1 /\ \A i \in 1..(k - 1) : u[i] = s[i]
    BY <1>0, <2>2, SubSeqProperties
  <2>5. v \in Seq(S) /\ Len(v) = Len(s) - k /\ \A i \in 1..(Len(s) - k) : v[i] = s[k + i]
    <3>1. k + 1 \in 1..(Len(s) + 1)
      BY <1>0, <2>2
    <3>2. /\ v \in Seq(S)
          /\ Len(v) = IF k + 1 <= Len(s) THEN Len(s) - (k + 1) + 1 ELSE 0
          /\ \A i \in 1..(Len(s) - (k + 1) + 1) : v[i] = s[k + 1 + i - 1]
      <4>1. \A i \in (k + 1)..Len(s) : s[i] \in S
        BY <1>0, <2>2
      <4> QED BY <1>0, <3>1, <4>1, SubSeqProperties
    <3> HIDE DEF v
    <3>3. Len(v) = Len(s) - k
      <4>1. \A n \in Nat : \A j \in 1..n : (IF j + 1 <= n THEN n - (j + 1) + 1 ELSE 0) = n - j
        OBVIOUS
      <4> QED BY <1>0, <2>2, <3>2, <4>1
    <3>4. ASSUME NEW i \in 1..(Len(s) - k) PROVE v[i] = s[k + i]
      <4>1. i \in 1..(Len(s) - (k + 1) + 1) /\ k + 1 + i - 1 = k + i
        BY <1>0, <2>2
      <4> QED BY <3>2, <4>1
    <3> QED BY <3>2, <3>3, <3>4
  <2> HIDE DEF u, v
  <2>6. /\ r \in Seq(S) /\ Len(r) = Len(u) + Len(v)
        /\ \A i \in 1..(Len(u) + Len(v)) : r[i] = IF i <= Len(u) THEN u[i] ELSE v[i - Len(u)]
    BY <2>4, <2>5, ConcatProperties
  <2> HIDE DEF r
  <2>7. Len(r) = Len(s) - 1 /\ DOMAIN r = 1..Len(r)
    BY <1>0, <2>2, <2>4, <2>5, <2>6
  <2>8. \A i \in 1..Len(r) : r[i] = IF i < k THEN s[i] ELSE s[i + 1]
    <3> SUFFICES ASSUME NEW i \in 1..Len(r) PROVE r[i] = IF i < k THEN s[i] ELSE s[i + 1]
      OBVIOUS
    <3>1. CASE i < k
      <4>1. r[i] = u[i]
        BY <1>0, <2>2, <2>4, <2>6, <3>1
      <4> QED BY <1>0, <2>2, <2>4, <3>1, <4>1
    <3>2. CASE i >= k
      <4>1. r[i] = v[i - (k - 1)]
        BY <1>0, <2>2, <2>4, <2>6, <3>2
      <4>2. i - (k - 1) \in 1..(Len(s) - k) /\ k + (i - (k - 1)) = i + 1
        BY <1>0, <2>2, <2>7, <3>2
      <4>3. v[i - (k - 1)] = s[k + (i - (k - 1))]
        BY <2>5, <4>2
      <4> QED BY <2>2, <3>2, <4>1, <4>2, <4>3
    <3> QED BY <2>2, <3>1, <3>2
  <2>9. a \in ToSet(r) => a \in ToSet(s)
    BY <1>0, <2>2, <2>7, <2>8 DEF ToSet
  <2>10. ASSUME a \in ToSet(s) PROVE a \in ToSet(r)
    <3>1. PICK i \in 1..Len(s) : a = s[i]
      BY <1>0, <2>10 DEF ToSet
    <3>2. i # k
      BY <2>2, <3>1
    <3>3. CASE i < k
      <4>1. i \in DOMAIN r /\ r[i] = a
        BY <1>0, <2>2, <2>7, <2>8, <3>1, <3>3
      <4> QED BY <4>1 DEF ToSet
    <3>4. CASE i > k
      <4>1. i - 1 \in DOMAIN r /\ r[i - 1] = a
        BY <1>0, <2>2, <2>7, <2>8, <3>1, <3>4
      <4> QED BY <4>1 DEF ToSet
    <3> QED BY <1>0, <2>2, <3>2, <3>3, <3>4
  <2> QED BY <2>3, <2>9, <2>10
<1> QED BY <1>1, <1>2

\* A marker adds itself to the names and moves none.
LEMMA Marked ==
  ASSUME NEW list \in Seq(STRING), NEW marker, NEW with \in BOOLEAN
  PROVE  /\ Mark(list, marker, with) \in Seq(STRING \cup {marker})
         /\ Len(Mark(list, marker, with)) >= Len(list)
         /\ \A i \in 1..Len(list) : Mark(list, marker, with)[i] = list[i]
         /\ \A a : a \in ToSet(Mark(list, marker, with))
                     <=> (a \in ToSet(list) \/ (with /\ a = marker))
<1> DEFINE T == STRING \cup {marker}
           tail == IF with THEN <<marker>> ELSE <<>>
           r == list \o tail
<1>1. list \in Seq(T) /\ Len(list) \in Nat /\ DOMAIN list = 1..Len(list)
  OBVIOUS
<1>2. /\ tail \in Seq(T) /\ Len(tail) = (IF with THEN 1 ELSE 0)
      /\ with => tail[1] = marker
  <2>1. <<marker>> \in Seq(T) /\ <<>> \in Seq(T)
    OBVIOUS
  <2> QED BY <2>1
<1> HIDE DEF T, tail
<1>3. /\ r \in Seq(T) /\ Len(r) = Len(list) + Len(tail)
      /\ \A i \in 1..(Len(list) + Len(tail)) :
           r[i] = IF i <= Len(list) THEN list[i] ELSE tail[i - Len(list)]
  BY <1>1, <1>2, ConcatProperties
<1> HIDE DEF r
<1>4. /\ Len(r) = Len(list) + (IF with THEN 1 ELSE 0) /\ DOMAIN r = 1..Len(r)
      /\ \A i \in 1..Len(list) : r[i] = list[i]
      /\ with => r[Len(list) + 1] = marker
  BY <1>1, <1>2, <1>3
<1>5. ASSUME NEW a PROVE a \in ToSet(r) <=> (a \in ToSet(list) \/ (with /\ a = marker))
  <2>1. ASSUME a \in ToSet(r) PROVE a \in ToSet(list) \/ (with /\ a = marker)
    <3>1. PICK i \in 1..Len(r) : a = r[i]
      BY <1>4, <2>1 DEF ToSet
    <3>2. CASE i \in 1..Len(list)
      BY <1>1, <1>4, <3>1, <3>2 DEF ToSet
    <3>3. CASE i \notin 1..Len(list)
      <4>1. with /\ i = Len(list) + 1
        BY <1>1, <1>4, <3>3
      <4> QED BY <1>4, <3>1, <4>1
    <3> QED BY <3>2, <3>3
  <2>2. ASSUME a \in ToSet(list) PROVE a \in ToSet(r)
    <3>1. PICK i \in 1..Len(list) : a = list[i]
      BY <1>1, <2>2 DEF ToSet
    <3>2. i \in DOMAIN r /\ a = r[i]
      BY <1>1, <1>4, <3>1
    <3> QED BY <3>2 DEF ToSet
  <2>3. ASSUME with, a = marker PROVE a \in ToSet(r)
    <3>1. Len(list) + 1 \in DOMAIN r /\ a = r[Len(list) + 1]
      BY <1>1, <1>4, <2>3
    <3> QED BY <3>1 DEF ToSet
  <2> QED BY <2>1, <2>2, <2>3
<1>6. Len(r) >= Len(list)
  BY <1>1, <1>4
<1> QED BY <1>3, <1>4, <1>5, <1>6, Zenon DEF r, tail, T, Mark

\* Of the client's names, those in the list it parses are those the server supports.
LEMMA ParsedSame ==
  ASSUME NEW o \in Offers, NEW strict \in BOOLEAN, NEW c \in Categories,
         NEW j \in 1..Len(Preferred[c])
  PROVE  Preferred[c][j] \in ToSet(Parsed(OfferOf(o, strict))[c]) <=> Preferred[c][j] \in ToSet(o[c])
<1>1. /\ o \in [Categories -> Seq(STRING)] /\ "kex" \in Categories
      /\ Preferred \in [Categories -> Seq(STRING)]
      /\ ToSet(Preferred["kex"]) \subseteq KexNames
  BY HandshakeAssumption
<1>2. CASE c # "kex"
  BY <1>1, <1>2 DEF Parsed, OfferOf
<1>3. CASE c = "kex"
  <2> DEFINE list == o["kex"]
             r == Mark(list, StrictServer, strict)
             a == Preferred[c][j]
  <2>1. list \in Seq(STRING)
    BY <1>1
  <2>2. a \in KexNames
    BY <1>1, <1>3 DEF ToSet
  <2>3. a # StrictServer
    BY <2>2 DEF KexNames, MlKem, Curve, Ecdh, Group14, GroupExchange, StrictServer
  <2>4. OfferOf(o, strict) = [o EXCEPT !["kex"] = r]
    BY DEF OfferOf
  <2>5. Parsed(OfferOf(o, strict))["kex"] = RemoveFirst(r, StrictServer)
    BY <1>1, <2>4 DEF Parsed
  <2>6. /\ r \in Seq(STRING \cup {StrictServer})
        /\ \A b : b \in ToSet(r) <=> (b \in ToSet(list) \/ (strict /\ b = StrictServer))
    <3> HIDE DEF a, list
    <3>1. r \in Seq(STRING \cup {StrictServer})
      BY <2>1, Marked, Zenon
    <3>2. \A b : b \in ToSet(r) <=> (b \in ToSet(list) \/ (strict /\ b = StrictServer))
      BY <2>1, Marked, Zenon
    <3> QED BY <3>1, <3>2
  <2> HIDE DEF r, a, list
  <2>7. a \in ToSet(RemoveFirst(r, StrictServer)) <=> a \in ToSet(r)
    BY <2>3, <2>6, RemoveFirstFacts
  <2>8. a \in ToSet(Parsed(OfferOf(o, strict))["kex"]) <=> a \in ToSet(list)
    BY <2>3, <2>5, <2>6, <2>7
  <2> QED BY <1>3, <2>8 DEF a, list
<1> QED BY <1>2, <1>3

\* The client's own list: its names, and perhaps a marker no server supports.
LEMMA OursFacts ==
  ASSUME NEW strict \in BOOLEAN, NEW c \in Categories
  PROVE  LET list == OursOf(strict)[c] IN
         /\ list \in Seq(STRING \cup {StrictClient}) /\ Len(list) >= Len(Preferred[c])
         /\ \A i \in 1..Len(Preferred[c]) : list[i] = Preferred[c][i]
<1>1. "kex" \in Categories /\ Preferred \in [Categories -> Seq(STRING)]
  BY HandshakeAssumption
<1>2. CASE c # "kex"
  <2>1. OursOf(strict)[c] = Preferred[c] /\ Preferred[c] \in Seq(STRING)
    BY <1>1, <1>2 DEF OursOf
  <2>2. Preferred[c] \in Seq(STRING \cup {StrictClient}) /\ Len(Preferred[c]) \in Nat
    BY <2>1
  <2> QED BY <1>2, <2>1, <2>2
<1>3. CASE c = "kex"
  <2> DEFINE r == Mark(Preferred["kex"], StrictClient, strict)
  <2>1. OursOf(strict)[c] = r /\ Preferred["kex"] \in Seq(STRING)
    BY <1>1, <1>3 DEF OursOf
  <2>2. /\ r \in Seq(STRING \cup {StrictClient}) /\ Len(r) >= Len(Preferred["kex"])
        /\ \A i \in 1..Len(Preferred["kex"]) : r[i] = Preferred["kex"][i]
    <3>1. r \in Seq(STRING \cup {StrictClient})
      BY <2>1, Marked, Zenon
    <3>2. Len(r) >= Len(Preferred["kex"])
      BY <2>1, Marked, Zenon
    <3>3. \A i \in 1..Len(Preferred["kex"]) : r[i] = Preferred["kex"][i]
      BY <2>1, Marked, Zenon
    <3> QED BY <3>1, <3>2, <3>3
  <2> HIDE DEF r
  <2> QED BY <1>3, <2>1, <2>2
<1> QED BY <1>2, <1>3

\* The names and the marker of the client's key exchange list.
LEMMA OursKex ==
  ASSUME NEW strict \in BOOLEAN, NEW a
  PROVE  a \in ToSet(OursOf(strict)["kex"])
           <=> (a \in ToSet(Preferred["kex"]) \/ (strict /\ a = StrictClient))
<1> DEFINE l == Preferred["kex"]
<1>1. l \in Seq(STRING) /\ OursOf(strict)["kex"] = Mark(l, StrictClient, strict)
  BY HandshakeAssumption DEF OursOf
<1> HIDE DEF l
<1>2. a \in ToSet(Mark(l, StrictClient, strict)) <=> (a \in ToSet(l) \/ (strict /\ a = StrictClient))
  BY <1>1, Marked, Zenon
<1> QED BY <1>1, <1>2 DEF l

\* The server's marker is in its list if it is strict.
LEMMA OfferKex ==
  ASSUME NEW o \in Offers, NEW strict \in BOOLEAN
  PROVE  StrictMarker(OfferOf(o, strict)["kex"]) <=> strict
<1> DEFINE l == o["kex"]
<1>1. /\ l \in Seq(STRING) /\ StrictServer \notin ToSet(l)
      /\ OfferOf(o, strict)["kex"] = Mark(l, StrictServer, strict)
  BY HandshakeAssumption DEF OfferOf
<1> HIDE DEF l
<1>2. StrictServer \in ToSet(Mark(l, StrictServer, strict))
        <=> (StrictServer \in ToSet(l) \/ (strict /\ StrictServer = StrictServer))
  BY <1>1, Marked, Zenon
<1> QED BY <1>1, <1>2 DEF StrictMarker

\* The client's preferences and the server's rule, from the lists each side has seen, come
\* to the same algorithms, or both find none.
LEMMA PickAgrees ==
  ASSUME NEW o \in Offers, NEW strict \in BOOLEAN, NEW with \in BOOLEAN
  PROVE  LET N == Negotiate(Parsed(OfferOf(o, strict))) IN
         /\ N # None => /\ N = [c \in Categories |-> Best(OursOf(with)[c], o[c])]
                        /\ N["kex"] \in KexNames
         /\ N = None => \E c \in Categories : Best(Preferred[c], o[c]) = Nothing
<1> DEFINE P == Parsed(OfferOf(o, strict))
           N == Negotiate(P)
           f(c) == FirstCommon(Preferred[c], P[c])
<1>1. "kex" \in Categories /\ Preferred \in [Categories -> Seq(STRING)]
      /\ ToSet(Preferred["kex"]) \subseteq KexNames
  BY HandshakeAssumption
<1>2. \A c \in Categories : \A j \in 1..Len(Preferred[c]) :
        Preferred[c][j] \in ToSet(P[c]) <=> Preferred[c][j] \in ToSet(o[c])
  BY ParsedSame
<1> HIDE DEF P
<1>3. ASSUME NEW c \in Categories
      PROVE  /\ f(c) \in 0..Len(Preferred[c])
             /\ f(c) # 0 => /\ Preferred[c][f(c)] \in ToSet(P[c])
                            /\ \A j \in 1..(f(c) - 1) : Preferred[c][j] \notin ToSet(P[c])
             /\ f(c) = 0 => \A j \in 1..Len(Preferred[c]) : Preferred[c][j] \notin ToSet(P[c])
  BY <1>1, FirstCommonFacts
<1>4. \A c \in Categories : Len(Preferred[c]) \in Nat
  BY <1>1
<1> HIDE DEF f
<1>5. ASSUME NEW c \in Categories, f(c) # 0
      PROVE  Best(OursOf(with)[c], o[c]) = Preferred[c][f(c)]
  <2> DEFINE list == OursOf(with)[c]
             k == f(c)
  <2>1. /\ list \in Seq(STRING \cup {StrictClient}) /\ Len(list) >= Len(Preferred[c])
        /\ \A i \in 1..Len(Preferred[c]) : list[i] = Preferred[c][i]
    BY OursFacts, Zenon
  <2>2. Len(list) \in Nat
    BY <2>1
  <2> HIDE DEF list
  <2>3. k \in 1..Len(Preferred[c])
    BY <1>3, <1>4, <1>5
  <2>4. Preferred[c][k] \in ToSet(o[c]) /\ \A j \in 1..(k - 1) : Preferred[c][j] \notin ToSet(o[c])
    <3>1. \A j \in 1..(k - 1) : j \in 1..Len(Preferred[c])
      BY <1>4, <2>3
    <3> QED BY <1>2, <1>3, <1>5, <2>3, <3>1
  <2> HIDE DEF k
  <2>5. k \in 1..Len(list) /\ list[k] = Preferred[c][k]
        /\ \A j \in 1..(k - 1) : list[j] = Preferred[c][j]
    BY <1>4, <2>1, <2>2, <2>3
  <2>6. list[k] \in ToSet(o[c]) /\ \A j \in 1..(k - 1) : list[j] \notin ToSet(o[c])
    BY <2>4, <2>5
  <2>7. Best(list, o[c]) = list[k]
    BY <2>1, <2>5, <2>6, BestFacts
  <2> QED BY <2>5, <2>7 DEF list, k
<1>6. ASSUME NEW c \in Categories, f(c) = 0
      PROVE  Best(Preferred[c], o[c]) = Nothing
  <2>1. \A j \in 1..Len(Preferred[c]) : Preferred[c][j] \notin ToSet(o[c])
    BY <1>2, <1>3, <1>6
  <2>2. Preferred[c] \in Seq(STRING)
    BY <1>1
  <2> QED BY <2>1, <2>2, BestFacts
<1>7. N = IF \E c \in Categories : f(c) = 0 THEN None ELSE [c \in Categories |-> Preferred[c][f(c)]]
  BY DEF Negotiate, f
<1>8. ASSUME NEW F, F = [c \in Categories |-> Preferred[c][f(c)]] PROVE F # None
  <2>1. DOMAIN F # {}
    BY <1>1, <1>8
  <2>2. DOMAIN None = {}
    BY DEF None
  <2> QED BY <2>1, <2>2
<1> HIDE DEF N
<1>9. CASE \E c \in Categories : f(c) = 0
  BY <1>6, <1>7, <1>9 DEF N, P
<1>10. CASE \A c \in Categories : f(c) # 0
  <2>1. N = [c \in Categories |-> Preferred[c][f(c)]]
    BY <1>7, <1>10
  <2>2. N # None
    BY <1>8, <2>1
  <2>3. N = [c \in Categories |-> Best(OursOf(with)[c], o[c])]
    BY <1>5, <1>10, <2>1
  <2>4. f("kex") \in 1..Len(Preferred["kex"])
    BY <1>1, <1>3, <1>4, <1>10
  <2>5. Preferred["kex"][f("kex")] \in ToSet(Preferred["kex"])
    BY <1>1, <2>4 DEF ToSet
  <2>6. N["kex"] \in KexNames
    BY <1>1, <2>1, <2>5
  <2> QED BY <2>2, <2>3, <2>6 DEF N, P
<1> QED BY <1>9, <1>10

\* The methods' message numbers.
LEMMA MethodFacts ==
  ASSUME NEW name \in KexNames
  PROVE  /\ KeyExchange(name).group \in BOOLEAN
         /\ KeyExchange(name).request = IF KeyExchange(name).group THEN 32 ELSE 30
         /\ KeyExchange(name).response = IF KeyExchange(name).group THEN 33 ELSE 31
BY DEF KexNames, KeyExchange, MlKem, Curve, Ecdh, Group14, GroupExchange, MlKem768X25519,
       Curve25519Impl, EllipticCurveDiffieHellmanImpl, StandardDiffieHellmanImpl,
       ExchangeDiffieHellmanImpl

\* What the server has chosen is a method it knows, if it has chosen any.
LEMMA ChosenKnown ==
  ASSUME NEW o \in Offers, NEW with \in BOOLEAN,
         Best(OursOf(with)["kex"], o["kex"]) # Nothing
  PROVE  Best(OursOf(with)["kex"], o["kex"]) \in KexNames
<1> DEFINE list == OursOf(with)["kex"]
           sup == o["kex"]
<1>1. /\ "kex" \in Categories /\ Preferred \in [Categories -> Seq(STRING)]
      /\ ToSet(Preferred["kex"]) \subseteq KexNames
      /\ {StrictClient, StrictServer} \cap ToSet(sup) = {}
  BY HandshakeAssumption
<1>2. list \in Seq(STRING \cup {StrictClient})
  BY <1>1, OursFacts, Zenon
<1>3. ASSUME NEW a, a \in ToSet(list) PROVE a \in ToSet(Preferred["kex"]) \/ a = StrictClient
  BY <1>3, OursKex
<1> DEFINE J == {j \in 1..Len(list) : list[j] \in ToSet(sup)}
<1> HIDE DEF list, sup
<1>4. Len(list) \in Nat /\ DOMAIN list = 1..Len(list)
  BY <1>2
<1>5. J # {} /\ J \in SUBSET Nat
  <2>1. ASSUME J = {} PROVE FALSE
    <3>1. \A j \in 1..Len(list) : list[j] \notin ToSet(sup)
      BY <2>1
    <3> QED BY <1>2, <3>1, BestFacts DEF list, sup
  <2> QED BY <1>4, <2>1
<1>6. Min(J) \in J /\ \A n \in J : Min(J) <= n
  BY <1>5, LeastOf
<1> DEFINE k == Min(J)
<1>7. k \in 1..Len(list) /\ list[k] \in ToSet(sup)
  BY <1>6
<1>8. \A j \in 1..Len(list) : list[j] \in ToSet(sup) => k <= j
  BY <1>6
<1> HIDE DEF k, J
<1>9. \A j \in 1..(k - 1) : list[j] \notin ToSet(sup)
  BY <1>4, <1>7, <1>8
<1>10. Best(list, sup) = list[k]
  BY <1>2, <1>7, <1>9, BestFacts
<1>11. list[k] \in ToSet(list)
  BY <1>4, <1>7 DEF ToSet
<1>12. list[k] \in KexNames
  BY <1>1, <1>3, <1>7, <1>11
<1> QED BY <1>10, <1>12 DEF list, sup

-----------------------------------------------------------------------------
(* Wires.                                                                  *)

\* The order of the server's messages.
LEMMA Ranks ==
  /\ Rank(TEXT) = 0 /\ Rank(IDENTIFICATION) = 1 /\ Rank(KEXINIT) = 2 /\ Rank(31) = 3
  /\ Rank(33) = 4 /\ Rank(NEWKEYS) = 5 /\ GEX_GROUP = 31
  /\ \A type \in Noise : Rank(type) = 1
  /\ {TEXT, IDENTIFICATION, KEXINIT, 31, 33, NEWKEYS} \cap Noise = {}
BY DEF Rank, TEXT, IDENTIFICATION, KEXINIT, NEWKEYS, GEX_GROUP, Noise, IGNORE, UNKNOWN, DISCONNECT

\* A message at the end of a wire.
LEMMA AppendWire ==
  ASSUME NEW w, IsSeq(w), NEW m
  PROVE  /\ IsSeq(Append(w, m)) /\ ToSet(Append(w, m)) = ToSet(w) \cup {m}
         /\ Len(w) \in Nat /\ Len(Append(w, m)) = Len(w) + 1
         /\ Append(w, m)[Len(w) + 1] = m
         /\ \A i \in 1..Len(w) : Append(w, m)[i] = w[i] /\ w[i] \in ToSet(w)
<1> DEFINE T == ToSet(w) \cup {m}
           a == Append(w, m)
<1>1. w \in Seq(T)
  BY DEF IsSeq
<1>2. /\ a \in Seq(T) /\ Len(w) \in Nat /\ Len(a) = Len(w) + 1
      /\ a[Len(w) + 1] = m /\ \A i \in 1..Len(w) : a[i] = w[i]
  BY <1>1, AppendProperties
<1>3. DOMAIN w = 1..Len(w) /\ DOMAIN a = 1..(Len(w) + 1)
  BY <1>1, <1>2
<1> HIDE DEF a
<1>4. \A i \in 1..Len(w) : w[i] \in ToSet(w)
  BY <1>3 DEF ToSet
<1>5. ToSet(a) = T
  <2>1. ASSUME NEW x \in ToSet(a) PROVE x \in T
    <3>1. PICK i \in 1..(Len(w) + 1) : x = a[i]
      BY <1>3 DEF ToSet
    <3>2. i \in 1..Len(w) \/ i = Len(w) + 1
      BY <1>2
    <3> QED BY <1>2, <1>4, <3>1, <3>2
  <2>2. ASSUME NEW x \in ToSet(w) PROVE x \in ToSet(a)
    <3>1. PICK i \in 1..Len(w) : x = w[i]
      BY <1>3 DEF ToSet
    <3>2. i \in DOMAIN a /\ x = a[i]
      BY <1>2, <1>3, <3>1
    <3> QED BY <3>2 DEF ToSet
  <2>3. m \in ToSet(a)
    <3>1. Len(w) + 1 \in DOMAIN a /\ m = a[Len(w) + 1]
      BY <1>2, <1>3
    <3> QED BY <3>1 DEF ToSet
  <2> QED BY <2>1, <2>2, <2>3
<1>6. IsSeq(a)
  BY <1>2, <1>5 DEF IsSeq
<1> QED BY <1>2, <1>4, <1>5, <1>6 DEF a

\* The first message of a wire, and the others.
LEMMA TailWire ==
  ASSUME NEW w, IsSeq(w), w # <<>>
  PROVE  /\ IsSeq(Tail(w)) /\ Head(w) \in ToSet(w) /\ ToSet(Tail(w)) \subseteq ToSet(w)
         /\ ToSet(w) = ToSet(Tail(w)) \cup {Head(w)}
         /\ Len(w) \in Nat /\ Len(w) > 0 /\ Len(Tail(w)) = Len(w) - 1 /\ Head(w) = w[1]
         /\ \A i \in 1..(Len(w) - 1) : Tail(w)[i] = w[i + 1]
<1> DEFINE T == ToSet(w)
           t == Tail(w)
<1>1. w \in Seq(T)
  BY DEF IsSeq
<1>2. Len(w) \in Nat /\ Len(w) > 0 /\ DOMAIN w = 1..Len(w) /\ Head(w) = w[1]
  BY <1>1
<1>3. t \in Seq(T) /\ Len(t) = Len(w) - 1 /\ \A i \in 1..(Len(w) - 1) : t[i] = w[i + 1]
  BY <1>1, <1>2, HeadTailProperties
<1>4. DOMAIN t = 1..(Len(w) - 1)
  BY <1>2, <1>3
<1> HIDE DEF t
<1>5. Head(w) \in T
  BY <1>2 DEF ToSet
<1>6. ASSUME NEW x \in ToSet(t) PROVE x \in T
  <2>1. PICK i \in 1..(Len(w) - 1) : x = t[i]
    BY <1>4 DEF ToSet
  <2>2. i + 1 \in DOMAIN w /\ x = w[i + 1]
    BY <1>2, <1>3, <2>1
  <2> QED BY <2>2 DEF ToSet
<1>7. ASSUME NEW x \in T PROVE x \in ToSet(t) \/ x = Head(w)
  <2>1. PICK i \in 1..Len(w) : x = w[i]
    BY <1>2 DEF ToSet
  <2>2. CASE i = 1
    BY <1>2, <2>1, <2>2
  <2>3. CASE i # 1
    <3>1. i - 1 \in DOMAIN t /\ (i - 1) + 1 = i /\ i - 1 \in 1..(Len(w) - 1)
      BY <1>2, <1>4, <2>3
    <3>2. t[i - 1] = x
      BY <1>3, <2>1, <3>1
    <3> QED BY <3>1, <3>2 DEF ToSet
  <2> QED BY <2>2, <2>3
<1>8. IsSeq(t)
  <2>1. t \in [1..Len(t) -> ToSet(t)]
    <3>1. t \in [1..Len(t) -> T] /\ DOMAIN t = 1..Len(t)
      BY <1>3
    <3>2. \A i \in 1..Len(t) : t[i] \in ToSet(t)
      BY <3>1 DEF ToSet
    <3> QED BY <3>1, <3>2
  <2>2. Len(t) \in Nat
    BY <1>2, <1>3
  <2> QED BY <2>1, <2>2, SeqDef DEF IsSeq
<1> QED BY <1>2, <1>3, <1>5, <1>6, <1>7, <1>8 DEF t

\* What is sent last stays in order if everything under way may come before it.
LEMMA AppendOrder ==
  ASSUME NEW w, IsSeq(w), NEW m, InOrder(w), \A x \in ToSet(w) : Later(x, m)
  PROVE  InOrder(Append(w, m))
<1> DEFINE a == Append(w, m)
<1>1. /\ Len(w) \in Nat /\ Len(a) = Len(w) + 1 /\ a[Len(w) + 1] = m
      /\ \A i \in 1..Len(w) : a[i] = w[i] /\ w[i] \in ToSet(w)
  BY AppendWire
<1> HIDE DEF a
<1>2. ASSUME NEW i \in 1..Len(a), NEW j \in 1..Len(a), i < j PROVE Later(a[i], a[j])
  <2>1. i \in 1..Len(w) /\ (j \in 1..Len(w) \/ j = Len(w) + 1)
    BY <1>1, <1>2
  <2>2. a[i] = w[i] /\ w[i] \in ToSet(w)
    BY <1>1, <2>1
  <2>3. CASE j \in 1..Len(w)
    <3>1. a[j] = w[j] /\ Later(w[i], w[j])
      BY <1>1, <1>2, <2>1, <2>3 DEF InOrder
    <3> QED BY <2>2, <3>1
  <2>4. CASE j = Len(w) + 1
    <3>1. a[j] = m
      BY <1>1, <2>4
    <3> QED BY <2>2, <3>1
  <2> QED BY <2>1, <2>3, <2>4
<1> QED BY <1>2 DEF InOrder, a

\* Without its first message a wire is in order, and all of it may come after that.
LEMMA TailOrder ==
  ASSUME NEW w, IsSeq(w), w # <<>>, InOrder(w)
  PROVE  InOrder(Tail(w)) /\ \A x \in ToSet(Tail(w)) : Later(Head(w), x)
<1> DEFINE t == Tail(w)
<1>1. /\ IsSeq(t) /\ Len(w) \in Nat /\ Len(w) > 0 /\ Len(t) = Len(w) - 1 /\ Head(w) = w[1]
      /\ \A i \in 1..(Len(w) - 1) : t[i] = w[i + 1]
  BY TailWire
<1> HIDE DEF t
<1>2. ASSUME NEW i \in 1..Len(t), NEW j \in 1..Len(t), i < j PROVE Later(t[i], t[j])
  <2>1. i + 1 \in 1..Len(w) /\ j + 1 \in 1..Len(w) /\ i + 1 < j + 1
    BY <1>1, <1>2
  <2>2. t[i] = w[i + 1] /\ t[j] = w[j + 1]
    BY <1>1
  <2> QED BY <2>1, <2>2 DEF InOrder
<1>3. ASSUME NEW x \in ToSet(t) PROVE Later(Head(w), x)
  <2>1. DOMAIN t = 1..Len(t)
    BY <1>1 DEF IsSeq
  <2>2. PICK i \in 1..Len(t) : x = t[i]
    BY <2>1 DEF ToSet
  <2>3. x = w[i + 1] /\ i + 1 \in 1..Len(w) /\ 1 \in 1..Len(w) /\ 1 < i + 1
    BY <1>1, <2>2
  <2> QED BY <1>1, <2>3 DEF InOrder
<1> QED BY <1>2, <1>3 DEF InOrder, t

\* What precedes a NEWKEYS still does when anything else is sent,
LEMMA AppendBacked ==
  ASSUME NEW w, IsSeq(w), NEW m, NEW type, Backed(w, type), m.type # NEWKEYS
  PROVE  Backed(Append(w, m), type)
<1> DEFINE a == Append(w, m)
<1>1. /\ Len(w) \in Nat /\ Len(a) = Len(w) + 1 /\ a[Len(w) + 1] = m
      /\ \A i \in 1..Len(w) : a[i] = w[i] /\ w[i] \in ToSet(w)
  BY AppendWire
<1> HIDE DEF a
<1>2. ASSUME NEW i \in 1..Len(a), a[i].type = NEWKEYS
      PROVE  \E j \in 1..Len(a) : j < i /\ a[j].type = type
  <2>1. i \in 1..Len(w) /\ a[i] = w[i]
    BY <1>1, <1>2
  <2>2. PICK j \in 1..Len(w) : j < i /\ w[j].type = type
    BY <1>2, <2>1 DEF Backed
  <2>3. j \in 1..Len(a) /\ a[j] = w[j]
    BY <1>1
  <2> QED BY <2>2, <2>3
<1> QED BY <1>2 DEF Backed, a

\* when the message itself is sent before it,
LEMMA PairBacked ==
  ASSUME NEW w, IsSeq(w), NEW m, NEW n, \A x \in ToSet(w) : x.type # NEWKEYS, m.type # NEWKEYS
  PROVE  Backed(Append(Append(w, m), n), m.type)
<1> DEFINE a == Append(w, m)
           b == Append(a, n)
<1>1. /\ IsSeq(a) /\ Len(w) \in Nat /\ Len(a) = Len(w) + 1 /\ a[Len(w) + 1] = m
      /\ \A i \in 1..Len(w) : a[i] = w[i] /\ w[i] \in ToSet(w)
  BY AppendWire
<1> HIDE DEF a
<1>2. /\ Len(b) = Len(a) + 1 /\ b[Len(a) + 1] = n /\ \A i \in 1..Len(a) : b[i] = a[i]
  BY <1>1, AppendWire
<1> HIDE DEF b
<1>3. ASSUME NEW i \in 1..Len(b), b[i].type = NEWKEYS
      PROVE  \E j \in 1..Len(b) : j < i /\ b[j].type = m.type
  <2>1. i \notin 1..Len(w)
    BY <1>1, <1>2, <1>3
  <2>2. i # Len(w) + 1
    BY <1>1, <1>2, <1>3
  <2>3. Len(w) + 1 \in 1..Len(b) /\ Len(w) + 1 < i /\ b[Len(w) + 1] = m
    BY <1>1, <1>2, <2>1, <2>2
  <2> QED BY <2>3
<1> QED BY <1>3 DEF Backed, b, a

\* and when another one is read.  A NEWKEYS is not the first.
LEMMA TailBacked ==
  ASSUME NEW w, IsSeq(w), w # <<>>, NEW type, Backed(w, type)
  PROVE  Head(w).type # NEWKEYS /\ (Head(w).type # type => Backed(Tail(w), type))
<1> DEFINE t == Tail(w)
<1>1. /\ Len(w) \in Nat /\ Len(w) > 0 /\ Len(t) = Len(w) - 1 /\ Head(w) = w[1]
      /\ \A i \in 1..(Len(w) - 1) : t[i] = w[i + 1]
  BY TailWire
<1> HIDE DEF t
<1>2. Head(w).type # NEWKEYS
  BY <1>1 DEF Backed
<1>3. ASSUME Head(w).type # type, NEW i \in 1..Len(t), t[i].type = NEWKEYS
      PROVE  \E j \in 1..Len(t) : j < i /\ t[j].type = type
  <2>1. i + 1 \in 1..Len(w) /\ w[i + 1].type = NEWKEYS
    BY <1>1, <1>3
  <2>2. PICK j \in 1..Len(w) : j < i + 1 /\ w[j].type = type
    BY <2>1 DEF Backed
  <2>3. j # 1
    BY <1>1, <1>3, <2>2
  <2>4. j - 1 \in 1..Len(t) /\ j - 1 < i /\ (j - 1) + 1 = j /\ j - 1 \in 1..(Len(w) - 1)
    BY <1>1, <2>2, <2>3
  <2>5. t[j - 1] = w[j]
    BY <1>1, <2>4
  <2> QED BY <2>2, <2>4, <2>5
<1> QED BY <1>2, <1>3 DEF Backed, t

-----------------------------------------------------------------------------
(* What a step leaves as it was.                                           *)

\* The offers are no empty tuples, and tell the two sides' keys from none.
LEMMA NotNone ==
  /\ \A b \in BOOLEAN : OursOf(b) # None
  /\ \A o \in Offers, b \in BOOLEAN : OfferOf(o, b) # None
  /\ \A h : ServerKeys(h) # None /\ Initialized(h) # None
  /\ \A x, y : <<x, y>> # None
<1>1. DOMAIN None = {}
  BY DEF None
<1>2. "kex" \in DOMAIN Preferred /\ \A o \in Offers : "kex" \in DOMAIN o
  BY HandshakeAssumption
<1>3. ASSUME NEW b \in BOOLEAN PROVE OursOf(b) # None
  <2>1. DOMAIN OursOf(b) = DOMAIN Preferred
    BY DEF OursOf
  <2> QED BY <1>1, <1>2, <2>1
<1>4. ASSUME NEW o \in Offers, NEW b \in BOOLEAN PROVE OfferOf(o, b) # None
  <2>1. DOMAIN OfferOf(o, b) = DOMAIN o
    BY DEF OfferOf
  <2> QED BY <1>1, <1>2, <2>1
<1>5. ASSUME NEW h PROVE ServerKeys(h) # None
  <2>1. "session" \in DOMAIN ServerKeys(h)
    BY DEF ServerKeys
  <2> QED BY <1>1, <2>1
<1>6. ASSUME NEW h PROVE Initialized(h) # None
  <2>1. "session" \in DOMAIN Initialized(h)
    BY DEF Initialized
  <2> QED BY <1>1, <2>1
<1>7. \A x, y : <<x, y>> # None
  BY DEF None
<1> QED BY <1>3, <1>4, <1>5, <1>6, <1>7

\* Without do_compat the client's offer is its configuration's.
LEMMA OfferIsOurs ==
  ASSUME NoPad, HandshakeTypeOK
  PROVE  ClientOffer = Ours
<1>1. version # "OpenSSH_6.6"
  BY DEF NoPad, HandshakeTypeOK
<1>2. ~Compat.curve25519_pad
  BY <1>1 DEF Compat
<1>3. DoCompat(FromConfig) = Preferred
  BY <1>2 DEF DoCompat, FromConfig
<1> QED BY <1>3 DEF ClientOffer, Build, Ours, OursOf, Mark

\* A negotiated method has its numbers, and the server's method is the client's.
LEMMA ReadFacts ==
  ASSUME HandshakeTypeOK, Read
  PROVE  /\ Method.group \in BOOLEAN
         /\ Method.request = IF Method.group THEN 32 ELSE 30
         /\ Method.response = IF Method.group THEN 33 ELSE 31
         /\ ServerRead => server.chosen = matched /\ ServerMethod = Method
<1>1. server.offer \in Offers /\ server.strict \in BOOLEAN /\ config.strict \in BOOLEAN
  BY DEF HandshakeTypeOK, ServerShape
<1>2. matched = Negotiate(Parsed(OfferOf(server.offer, server.strict))) /\ matched # None
  BY DEF Read, Offered
<1>3. /\ matched = [c \in Categories |-> Best(OursOf(config.strict)[c], server.offer[c])]
      /\ matched["kex"] \in KexNames
  BY <1>1, <1>2, PickAgrees
<1>4. matched.kex \in KexNames
  BY <1>3
<1>5. ServerRead => server.chosen = matched
  BY <1>3 DEF ServerRead, Chosen, Read, Sent, Ours
<1>6. ServerRead => ServerMethod = Method
  BY <1>5 DEF ServerMethod, Method
<1> QED BY <1>4, <1>5, <1>6, MethodFacts DEF Method

\* A step of the server that leaves alone what the invariant reads of it.
LEMMA ServerFrame ==
  ASSUME ServerUnchanged,
         UNCHANGED <<server.software, server.offer, server.strict, server.ours, server.theirs,
                     server.chosen, server.group, server.keys>>
  PROVE  /\ UNCHANGED <<Offered, Ours, Chosen, Method, GenerateKey, ServerKey, TheHash, Floor>>
         /\ UNCHANGED <<Sent, Read, ServerRead, SameGroup, HasGroup, HasKeys>>
<1>1. UNCHANGED <<Offered, Ours, Chosen, Method, Floor>>
  BY DEF ServerUnchanged, Offered, Ours, Chosen, Method, Floor
<1>2. UNCHANGED <<GenerateKey, ServerKey>>
  BY <1>1 DEF GenerateKey, ServerKey, ServerMethod
<1>3. UNCHANGED TheHash
  BY <1>1, <1>2 DEF ServerUnchanged, TheHash, Hash, Secret
<1>4. UNCHANGED <<Sent, SameGroup>>
  BY <1>1 DEF ServerUnchanged, Sent, SameGroup
<1>5. UNCHANGED <<Read, ServerRead>>
  BY <1>1, <1>4 DEF ServerUnchanged, Read, ServerRead
<1>6. UNCHANGED HasGroup
  BY <1>1, <1>5 DEF ServerUnchanged, HasGroup
<1>7. UNCHANGED HasKeys
  BY <1>1, <1>3, <1>4, <1>5 DEF ServerUnchanged, HasKeys
<1> QED BY <1>1, <1>2, <1>3, <1>4, <1>5, <1>6, <1>7

\* A step of the client that goes forward.
LEMMA ClientFrame ==
  ASSUME UNCHANGED <<config, server, version, ours, theirs, matched>>
  PROVE  /\ UNCHANGED <<Offered, Ours, Chosen, Method, GenerateKey, ServerKey>>
         /\ phase' # "banner" => (Sent => Sent') /\ (ServerRead => ServerRead')
         /\ phase' \notin {"banner", "methods"} => (Read => Read')
         /\ bits' = bits /\ phase' \in Grouped => (HasGroup => HasGroup')
         /\ bits' = bits /\ prime' = prime =>
              /\ (SameGroup => SameGroup') /\ TheHash' = TheHash
              /\ phase' \in Replying => (HasKeys => HasKeys')
<1>1. UNCHANGED <<Offered, Ours, Chosen, Method>>
  BY DEF Offered, Ours, Chosen, Method
<1>2. UNCHANGED <<GenerateKey, ServerKey>>
  BY <1>1 DEF GenerateKey, ServerKey, ServerMethod
<1>3. phase' # "banner" => (Sent => Sent') /\ (ServerRead => ServerRead')
  BY <1>1 DEF Sent, ServerRead
<1>4. phase' \notin {"banner", "methods"} => (Read => Read')
  BY <1>1, <1>3 DEF Read
<1>5. bits' = bits /\ phase' \in Grouped => (HasGroup => HasGroup')
  BY <1>1, <1>3, <1>4 DEF HasGroup, Grouped
<1>6. bits' = bits /\ prime' = prime => (SameGroup => SameGroup') /\ TheHash' = TheHash
  BY <1>1, <1>2 DEF SameGroup, TheHash, Hash, Secret
<1>7. bits' = bits /\ prime' = prime /\ phase' \in Replying => (HasKeys => HasKeys')
  BY <1>1, <1>3, <1>4, <1>6 DEF HasKeys, Replying
<1> QED BY <1>1, <1>2, <1>3, <1>4, <1>5, <1>6, <1>7

-----------------------------------------------------------------------------
(* The server's steps.                                                     *)

\* What a server that only changes its phase, in the order of the protocol, keeps.
ServerMovesOn ==
  \/ server'.phase = server.phase \/ server'.phase = "gone"
  \/ server.phase = "banner" /\ server'.phase = "methods"
  \/ server.phase = "newkeys" /\ server'.phase = "up"

\* Such a step keeps every claim of the invariant about what is known and under way.
LEMMA QuietServer ==
  ASSUME HandshakeInv, ServerUnchanged, ServerMovesOn,
         server' = [server EXCEPT !.phase = server'.phase, !.said = server'.said,
                                  !.noise = server'.noise]
  PROVE  /\ HandshakeTypeOK' /\ ClientKnows' /\ ServerKnows' /\ UNCHANGED <<Method, Floor>>
         /\ \A m : GoodRequest(m) => GoodRequest(m)'
         /\ \A m : GoodMessage(m) => GoodMessage(m)'
         /\ \A m : Due(m) => Due(m)'
<1>1. HandshakeTypeOK /\ ClientKnows /\ ServerKnows
  BY DEF HandshakeInv
<1>2. UNCHANGED <<server.software, server.offer, server.strict, server.ours, server.theirs,
                  server.chosen, server.group, server.keys>>
  BY <1>1 DEF HandshakeTypeOK, ServerShape
<1>3. /\ UNCHANGED <<Offered, Ours, Chosen, Method, GenerateKey, ServerKey, TheHash, Floor>>
      /\ UNCHANGED <<Sent, Read, ServerRead, SameGroup, HasGroup, HasKeys>>
  BY <1>2, ServerFrame
<1>4. HandshakeTypeOK'
  BY <1>1 DEF HandshakeTypeOK, ServerShape, ServerUnchanged, ServerMovesOn
<1>5. server.phase # "banner" => server'.phase # "banner"
  BY DEF ServerMovesOn
<1>6. ClientKnows'
  BY <1>1, <1>2, <1>3, <1>5 DEF ClientKnows, ServerUnchanged
<1>7. ServerKnows'
  BY <1>1, <1>2, <1>3 DEF ServerKnows, ServerMovesOn
<1>8. ASSUME NEW m PROVE GoodRequest(m) => GoodRequest(m)'
  BY <1>3 DEF GoodRequest, ServerUnchanged
<1>9. ASSUME NEW m PROVE GoodMessage(m) => GoodMessage(m)'
  BY <1>2, <1>3, <1>5 DEF GoodMessage, ServerUnchanged
<1>10. ASSUME NEW m PROVE Due(m) => Due(m)'
  BY <1>3 DEF Due
<1> QED BY <1>3, <1>4, <1>6, <1>7, <1>8, <1>9, <1>10

\* The wire to the server, after a message was put on it or taken off.
LEMMA ServerWire ==
  ASSUME Wires, \A m \in ToSet(toServer) : GoodRequest(m) => GoodRequest(m)',
         \/ toServer' = toServer
         \/ toServer # <<>> /\ toServer' = Tail(toServer)
         \/ \E m : toServer' = Append(toServer, m) /\ GoodRequest(m)'
  PROVE  (IsSeq(toServer) /\ \A m \in ToSet(toServer) : GoodRequest(m))'
<1>1. IsSeq(toServer) /\ \A m \in ToSet(toServer) : GoodRequest(m)'
  BY DEF Wires
<1>2. CASE toServer' = toServer
  BY <1>1, <1>2
<1>3. CASE toServer # <<>> /\ toServer' = Tail(toServer)
  <2>1. IsSeq(toServer') /\ ToSet(toServer') \subseteq ToSet(toServer)
    BY <1>1, <1>3, TailWire
  <2> QED BY <1>1, <2>1
<1>4. CASE \E m : toServer' = Append(toServer, m) /\ GoodRequest(m)'
  <2>1. PICK m : toServer' = Append(toServer, m) /\ GoodRequest(m)'
    BY <1>4
  <2>2. IsSeq(toServer') /\ ToSet(toServer') = ToSet(toServer) \cup {m}
    BY <1>1, <2>1, AppendWire
  <2> QED BY <1>1, <2>1, <2>2
<1> QED BY <1>2, <1>3, <1>4

\* The wire to the client, after the server has said something,
LEMMA ServerSays ==
  ASSUME Wires, NEW m, toClient' = Append(toClient, m),
         \A x \in ToSet(toClient) : GoodMessage(x) /\ Due(x) => GoodMessage(x)' /\ Due(x)',
         GoodMessage(m)', Due(m)', \A x \in ToSet(toClient) : Later(x, m)
  PROVE  /\ (IsSeq(toClient) /\ \A x \in ToSet(toClient) : GoodMessage(x) /\ Due(x))'
         /\ InOrder(toClient)'
<1>1. /\ IsSeq(toClient) /\ \A x \in ToSet(toClient) : GoodMessage(x)' /\ Due(x)'
      /\ InOrder(toClient)
  BY DEF Wires
<1>2. IsSeq(toClient') /\ ToSet(toClient') = ToSet(toClient) \cup {m}
  BY <1>1, AppendWire
<1>3. InOrder(toClient')
  BY <1>1, AppendOrder
<1>4. InOrder(toClient)' <=> InOrder(toClient')
  BY DEF InOrder, Later
<1> QED BY <1>1, <1>2, <1>3, <1>4

\* and after the client has read something.
LEMMA ClientReads ==
  ASSUME Wires, toClient # <<>>, toClient' = Tail(toClient),
         \A x \in ToSet(toClient) :
           Later(Head(toClient), x) /\ GoodMessage(x) /\ Due(x) => GoodMessage(x)' /\ Due(x)'
  PROVE  /\ (IsSeq(toClient) /\ \A x \in ToSet(toClient) : GoodMessage(x) /\ Due(x))'
         /\ InOrder(toClient)'
<1>1. IsSeq(toClient) /\ (\A x \in ToSet(toClient) : GoodMessage(x) /\ Due(x)) /\ InOrder(toClient)
  BY DEF Wires
<1>2. IsSeq(toClient') /\ ToSet(toClient') \subseteq ToSet(toClient)
  BY <1>1, TailWire
<1>3. InOrder(toClient') /\ \A x \in ToSet(toClient') : Later(Head(toClient), x)
  BY <1>1, TailOrder
<1>4. InOrder(toClient)' <=> InOrder(toClient')
  BY DEF InOrder, Later
<1> QED BY <1>1, <1>2, <1>3, <1>4

\* Before its KEXINIT nobody knows the server's offer.
LEMMA Unspoken ==
  ASSUME HandshakeInv, server.ours = None
  PROVE  /\ ~Read /\ ~ServerRead /\ ~HasGroup /\ ~HasKeys
         /\ \A m \in ToSet(toClient) : m.type \in {TEXT, IDENTIFICATION} \cup Noise
         /\ server.phase = "banner" => \A m \in ToSet(toClient) : m.type = TEXT
<1>1. Offered # None
  BY NotNone DEF HandshakeInv, HandshakeTypeOK, ServerShape, Offered
<1>2. ~Read /\ ~ServerRead /\ ~HasGroup /\ ~HasKeys
  BY <1>1 DEF Read, ServerRead, HasGroup, HasKeys
<1> QED BY <1>1, <1>2 DEF HandshakeInv, Wires, GoodMessage

\* A server that says something and otherwise only moves on.
LEMMA QuietSays ==
  ASSUME HandshakeInv, ServerUnchanged, ServerMovesOn,
         server' = [server EXCEPT !.phase = server'.phase, !.said = server'.said,
                                  !.noise = server'.noise],
         NEW m, toClient' = Append(toClient, m), toServer' = toServer,
         GoodMessage(m)', Due(m), \A x \in ToSet(toClient) : Later(x, m), m.type # NEWKEYS,
         \/ m.type = IDENTIFICATION
         \/ server.phase \notin {"banner", "gone"}
         \/ m.type = TEXT /\ server.phase = "banner" /\ server'.phase = "banner"
  PROVE  HandshakeInv'
<1>1. /\ HandshakeTypeOK' /\ ClientKnows' /\ ServerKnows' /\ UNCHANGED <<Method, Floor>>
      /\ \A x : GoodRequest(x) => GoodRequest(x)'
      /\ \A x : GoodMessage(x) => GoodMessage(x)'
      /\ \A x : Due(x) => Due(x)'
  BY QuietServer
<1>2. Wires /\ IsSeq(toClient) /\ phase' = phase /\ Introduced
  BY DEF HandshakeInv, Wires, ServerUnchanged
<1>3. (IsSeq(toServer) /\ \A x \in ToSet(toServer) : GoodRequest(x))'
  BY <1>1, <1>2, ServerWire
<1>4. /\ (IsSeq(toClient) /\ \A x \in ToSet(toClient) : GoodMessage(x) /\ Due(x))'
      /\ InOrder(toClient)'
  BY <1>1, <1>2, ServerSays
<1>5. (phase = "reply" => Backed(toClient, Method.response))'
  <2>1. phase = "reply" => Backed(toClient', Method.response)
    BY <1>2, AppendBacked DEF Wires
  <2> QED BY <1>1, <1>2, <2>1 DEF Backed
<1>6. Introduced'
  <2>1. ToSet(toClient') = ToSet(toClient) \cup {m}
    BY <1>2, AppendWire
  <2>2. TEXT # IDENTIFICATION
    BY DEF TEXT, IDENTIFICATION
  <2>3. CASE m.type = IDENTIFICATION
    BY <2>1, <2>3 DEF Introduced
  <2>4. CASE server.phase \notin {"banner", "gone"}
    BY <1>2, <2>1, <2>4 DEF Introduced
  <2>5. CASE m.type = TEXT /\ server.phase = "banner" /\ server'.phase = "banner"
    BY <1>2, <2>1, <2>5 DEF Introduced
  <2> QED BY <2>3, <2>4, <2>5
<1> QED BY <1>1, <1>3, <1>4, <1>5, <1>6 DEF HandshakeInv, Wires

\* A server that reads, or goes away.
LEMMA QuietHears ==
  ASSUME HandshakeInv, ServerUnchanged,
         server' = [server EXCEPT !.phase = server'.phase, !.said = server'.said,
                                  !.noise = server'.noise],
         \/ server'.phase \in {server.phase, "gone"}
         \/ server.phase = "newkeys" /\ server'.phase = "up",
         toClient' = toClient, toServer' = toServer \/ (toServer # <<>> /\ toServer' = Tail(toServer))
  PROVE  HandshakeInv'
<1>1. /\ HandshakeTypeOK' /\ ClientKnows' /\ ServerKnows' /\ UNCHANGED <<Method, Floor>>
      /\ \A x : GoodRequest(x) => GoodRequest(x)'
      /\ \A x : GoodMessage(x) => GoodMessage(x)'
      /\ \A x : Due(x) => Due(x)'
  BY QuietServer DEF ServerMovesOn
<1>2. Wires /\ phase' = phase /\ Introduced
  BY DEF HandshakeInv, ServerUnchanged
<1>3. (IsSeq(toServer) /\ \A x \in ToSet(toServer) : GoodRequest(x))'
  BY <1>1, <1>2, ServerWire
<1>4. /\ (IsSeq(toClient) /\ \A x \in ToSet(toClient) : GoodMessage(x) /\ Due(x))'
      /\ InOrder(toClient)'
  BY <1>1, <1>2 DEF Wires, InOrder, Later
<1>5. (phase = "reply" => Backed(toClient, Method.response))'
  BY <1>1, <1>2 DEF Wires, Backed
<1>6. Introduced'
  BY <1>2 DEF Introduced
<1> QED BY <1>1, <1>3, <1>4, <1>5, <1>6 DEF HandshakeInv, Wires

\* Lines of text before the identification.
LEMMA TalksStep == HandshakeInv /\ ServerTalks => HandshakeInv'
<1> SUFFICES ASSUME HandshakeInv, ServerTalks PROVE HandshakeInv'
  OBVIOUS
<1>1. PICK size \in LineSizes :
        /\ toClient' = Append(toClient, [type |-> TEXT, size |-> size])
        /\ server' = [server EXCEPT !.said = @ + size]
  BY DEF ServerTalks, Say
<1>2. /\ server.phase = "banner" /\ server'.phase = server.phase
      /\ server' = [server EXCEPT !.phase = server'.phase, !.said = server'.said,
                                  !.noise = server'.noise]
  BY <1>1 DEF ServerTalks, HandshakeInv, HandshakeTypeOK, ServerShape
<1>3. server.ours = None /\ phase \in {"banner", "failed"}
  BY <1>2 DEF HandshakeInv, ServerKnows, ClientKnows
<1>4. PICK m : m = [type |-> TEXT, size |-> size]
  OBVIOUS
<1>5. m.type = TEXT /\ toClient' = Append(toClient, m)
  BY <1>1, <1>4
<1>6. GoodMessage(m)' /\ Due(m) /\ m.type # NEWKEYS
  BY <1>3, <1>5 DEF GoodMessage, Due, Rank, Floor, TEXT, NEWKEYS
<1>7. \A x \in ToSet(toClient) : Later(x, m)
  BY <1>2, <1>3, <1>5, Unspoken DEF Later
<1> QED BY <1>2, <1>5, <1>6, <1>7, QuietSays DEF ServerTalks, ServerMovesOn

\* The identification.
LEMMA IdentifiesStep == HandshakeInv /\ ServerIdentifies => HandshakeInv'
<1> SUFFICES ASSUME HandshakeInv, ServerIdentifies PROVE HandshakeInv'
  OBVIOUS
<1>1. PICK m : m = [type |-> IDENTIFICATION, size |-> IdSize, software |-> server.software]
  OBVIOUS
<1>2. /\ server.phase = "banner" /\ server'.phase = "methods" /\ server'.software = server.software
      /\ server' = [server EXCEPT !.phase = server'.phase, !.said = server'.said,
                                  !.noise = server'.noise]
  BY DEF ServerIdentifies, HandshakeInv, HandshakeTypeOK, ServerShape
<1>3. server.ours = None /\ phase \in {"banner", "failed"}
  BY <1>2 DEF HandshakeInv, ServerKnows, ClientKnows
<1>4. m.type = IDENTIFICATION /\ m.software = server.software /\ toClient' = Append(toClient, m)
  BY <1>1 DEF ServerIdentifies, Say
<1>5. GoodMessage(m)' /\ Due(m) /\ m.type # NEWKEYS
  BY <1>2, <1>3, <1>4 DEF GoodMessage, Due, Rank, Floor, TEXT, IDENTIFICATION, NEWKEYS
<1>6. \A x \in ToSet(toClient) : Later(x, m)
  BY <1>2, <1>3, <1>4, Unspoken, Ranks DEF Later
<1> QED BY <1>2, <1>4, <1>5, <1>6, QuietSays DEF ServerIdentifies, ServerMovesOn

\* Messages mixed in: only if not both sides will be strict.
LEMMA NoiseStep == HandshakeInv /\ ServerNoise => HandshakeInv'
<1> SUFFICES ASSUME HandshakeInv, ServerNoise PROVE HandshakeInv'
  OBVIOUS
<1>1. PICK type \in {IGNORE, UNKNOWN, DISCONNECT} :
        /\ toClient' = Append(toClient, Message(type, 0))
        /\ server' = [server EXCEPT !.noise = @ + 1,
                                    !.phase = IF type = DISCONNECT THEN "gone" ELSE @]
  BY DEF ServerNoise, Say
<1>2. PICK m : m = Message(type, 0)
  OBVIOUS
<1>3. m.type \in Noise /\ toClient' = Append(toClient, m)
  BY <1>1, <1>2 DEF Message, Noise
<1>4. /\ server.phase \in {"methods", "kexinit", "exchange"}
      /\ server'.phase \in {server.phase, "gone"} /\ server'.strict = server.strict
      /\ server' = [server EXCEPT !.phase = server'.phase, !.said = server'.said,
                                  !.noise = server'.noise]
  BY <1>1 DEF ServerNoise, HandshakeInv, HandshakeTypeOK, ServerShape
<1>5. ~(config.strict /\ server.strict)
  <2>1. ASSUME config.strict, server.theirs # None PROVE StrictClient \in ToSet(server.theirs.kex)
    <3>1. server.theirs = OursOf(config.strict) /\ config.strict \in BOOLEAN
      BY <2>1 DEF HandshakeInv, HandshakeTypeOK, ServerKnows, ServerRead, Sent, Ours
    <3> QED BY <2>1, <3>1, OursKex
  <2> QED BY <2>1 DEF ServerNoise, ServerStrict
<1>6. GoodMessage(m)' /\ Due(m) /\ m.type # NEWKEYS /\ \A x \in ToSet(toClient) : Later(x, m)
  <2>1. config' = config
    BY DEF ServerNoise, ServerUnchanged
  <2> QED BY <1>3, <1>4, <1>5, <2>1 DEF GoodMessage, Due, Later, Noise, IGNORE, UNKNOWN, DISCONNECT, NEWKEYS
<1> QED BY <1>3, <1>4, <1>6, QuietSays DEF ServerNoise, ServerMovesOn

\* The server's last steps, and its end.
LEMMA QuietStep == HandshakeInv /\ (ServerNewKeys \/ ServerUnimplemented \/ ServerGone) => HandshakeInv'
<1> SUFFICES ASSUME HandshakeInv, ServerNewKeys \/ ServerUnimplemented \/ ServerGone
             PROVE  HandshakeInv'
  OBVIOUS
<1>1. CASE ServerNewKeys
  <2>1. /\ server.phase = "newkeys" /\ server'.phase = "up"
        /\ server' = [server EXCEPT !.phase = server'.phase, !.said = server'.said,
                                    !.noise = server'.noise]
    BY <1>1 DEF ServerNewKeys, HandshakeInv, HandshakeTypeOK, ServerShape
  <2> QED BY <1>1, <2>1, QuietHears DEF ServerNewKeys, Hears
<1>2. CASE ServerUnimplemented
  <2>1. /\ server'.phase = server.phase
        /\ server' = [server EXCEPT !.phase = server'.phase, !.said = server'.said,
                                    !.noise = server'.noise]
    BY <1>2 DEF ServerUnimplemented, HandshakeInv, HandshakeTypeOK, ServerShape
  <2> QED BY <1>2, <2>1, QuietHears DEF ServerUnimplemented, Hears
<1>3. CASE ServerGone
  <2>1. /\ server'.phase = "gone"
        /\ server' = [server EXCEPT !.phase = server'.phase, !.said = server'.said,
                                    !.noise = server'.noise]
    BY <1>3 DEF ServerGone, HandshakeInv, HandshakeTypeOK, ServerShape
  <2> QED BY <1>3, <2>1, QuietHears DEF ServerGone
<1> QED BY <1>1, <1>2, <1>3

\* The server's KEXINIT: nobody has seen its offer before.
LEMMA KexInitStep == HandshakeInv /\ ServerKexInit => HandshakeInv'
<1> SUFFICES ASSUME HandshakeInv, ServerKexInit PROVE HandshakeInv'
  OBVIOUS
<1>1. /\ HandshakeTypeOK /\ ClientKnows /\ ServerKnows /\ Wires /\ Introduced
      /\ server.phase = "methods" /\ ServerUnchanged /\ toServer' = toServer
  BY DEF HandshakeInv, ServerKexInit
<1>2. server' = [server EXCEPT !.phase = "kexinit", !.ours = Offered]
  BY DEF ServerKexInit, Offered, OfferOf, Mark
<1>3. PICK m : m = Message(KEXINIT, Offered)
  OBVIOUS
<1>4. m.type = KEXINIT /\ m.body = Offered /\ toClient' = Append(toClient, m)
  BY <1>3 DEF ServerKexInit, Say, Message, Offered, OfferOf, Mark
<1>5. /\ UNCHANGED <<server.software, server.offer, server.strict, server.theirs, server.chosen,
                     server.group, server.keys>>
      /\ server'.phase = "kexinit" /\ server'.ours = Offered
  BY <1>1, <1>2 DEF HandshakeTypeOK, ServerShape
<1>6. UNCHANGED <<Offered, Ours, Method, Floor>>
  BY <1>1, <1>5 DEF ServerUnchanged, Offered, Ours, Method, Floor
<1>7. UNCHANGED Sent
  BY <1>1, <1>5, <1>6 DEF ServerUnchanged, Sent
<1>8. server.ours = None
  BY <1>1 DEF ServerKnows
<1>9. /\ ~Read /\ ~ServerRead /\ ~HasGroup /\ ~HasKeys
      /\ \A x \in ToSet(toClient) : x.type \in {TEXT, IDENTIFICATION} \cup Noise
  BY <1>8, Unspoken
<1>10. HandshakeTypeOK'
  BY <1>1, <1>2 DEF HandshakeTypeOK, ServerShape, ServerUnchanged
<1>11. theirs = None /\ matched = None /\ phase \in {"banner", "methods", "failed"} /\ keys = None
  BY <1>1, <1>9 DEF ClientKnows, HandshakeTypeOK, Phases
<1>12. ClientKnows'
  BY <1>1, <1>5, <1>6, <1>7, <1>11 DEF ClientKnows, ServerUnchanged
<1>13. ServerKnows'
  BY <1>1, <1>5, <1>6, <1>9 DEF ServerKnows
<1>14. ASSUME NEW x PROVE GoodRequest(x) => GoodRequest(x)'
  BY <1>1, <1>7, <1>9 DEF GoodRequest, ServerUnchanged
<1>15. ASSUME NEW x PROVE GoodMessage(x) /\ Due(x) => GoodMessage(x)' /\ Due(x)'
  BY <1>1, <1>5, <1>6, <1>8, <1>9 DEF GoodMessage, Due, ServerUnchanged
<1>16. GoodMessage(m)' /\ Due(m)'
  <2>1. Floor <= 2
    BY <1>11 DEF Floor
  <2> QED BY <1>4, <1>5, <1>6, <2>1, Ranks DEF GoodMessage, Due
<1>17. \A x \in ToSet(toClient) : Later(x, m)
  BY <1>4, <1>9, Ranks DEF Later
<1>18. (IsSeq(toServer) /\ \A x \in ToSet(toServer) : GoodRequest(x))'
  BY <1>1, <1>14, ServerWire
<1>19. /\ (IsSeq(toClient) /\ \A x \in ToSet(toClient) : GoodMessage(x) /\ Due(x))'
       /\ InOrder(toClient)'
  BY <1>1, <1>4, <1>15, <1>16, <1>17, ServerSays
<1>20. Introduced'
  <2>1. ToSet(toClient') = ToSet(toClient) \cup {m}
    BY <1>1, <1>4, AppendWire DEF Wires
  <2> QED BY <1>1, <2>1 DEF Introduced, ServerUnchanged
<1>21. phase' # "reply"
  BY <1>1, <1>11 DEF ServerUnchanged
<1> QED BY <1>10, <1>12, <1>13, <1>18, <1>19, <1>20, <1>21 DEF HandshakeInv, Wires

\* The server chooses.
LEMMA NegotiatesStep == HandshakeInv /\ ServerNegotiates => HandshakeInv'
<1> SUFFICES ASSUME HandshakeInv, ServerNegotiates PROVE HandshakeInv'
  OBVIOUS
<1>1. /\ HandshakeTypeOK /\ ClientKnows /\ ServerKnows /\ Wires /\ Introduced
      /\ server.phase = "kexinit" /\ ServerUnchanged /\ toClient' = toClient
      /\ toServer # <<>> /\ Head(toServer).type = KEXINIT /\ toServer' = Tail(toServer)
  BY DEF HandshakeInv, ServerNegotiates, Hears
<1>2. Head(toServer).body = ours /\ Sent
  <2>1. GoodRequest(Head(toServer))
    BY <1>1, TailWire DEF Wires
  <2> QED BY <1>1, <2>1 DEF GoodRequest, KEXINIT, UNIMPLEMENTED, GEX_REQUEST, NEWKEYS
<1>3. PICK ph \in {"gone", "exchange"} :
        /\ server' = [server EXCEPT !.theirs = ours, !.chosen = Chosen, !.phase = ph]
        /\ ph = "exchange" => \A c \in Categories : Chosen[c] # Nothing
  BY <1>2 DEF ServerNegotiates, Chosen
<1>4. /\ UNCHANGED <<server.software, server.offer, server.strict, server.ours, server.group,
                     server.keys>>
      /\ server'.phase = ph /\ server'.theirs = ours /\ server'.chosen = Chosen
  BY <1>1, <1>3 DEF HandshakeTypeOK, ServerShape
<1>5. UNCHANGED <<Offered, Ours, Chosen, Method, GenerateKey, Floor>>
  <2>1. UNCHANGED <<Offered, Ours, Chosen, Method, Floor>>
    BY <1>1, <1>4 DEF ServerUnchanged, Offered, Ours, Chosen, Method, Floor
  <2> QED BY <2>1 DEF GenerateKey
<1>6. UNCHANGED <<Sent, Read, SameGroup>>
  <2>1. UNCHANGED <<Sent, SameGroup>>
    BY <1>1, <1>4, <1>5 DEF ServerUnchanged, Sent, SameGroup
  <2> QED BY <1>1, <1>4, <1>5, <2>1 DEF ServerUnchanged, Read
<1>7. ~ServerRead /\ ~HasGroup /\ ~HasKeys
  <2>1. server.theirs = None /\ Ours # None
    BY <1>1, NotNone DEF ServerKnows, HandshakeTypeOK, Ours
  <2> QED BY <1>2, <2>1 DEF ServerRead, HasGroup, HasKeys, Sent
<1>8. HandshakeTypeOK'
  BY <1>1, <1>3 DEF HandshakeTypeOK, ServerShape, ServerUnchanged
<1>9. ClientKnows'
  BY <1>1, <1>4, <1>5, <1>6, <1>7 DEF ClientKnows, ServerUnchanged
<1>10. ServerRead'
  BY <1>1, <1>2, <1>4, <1>5, <1>6 DEF ServerKnows, ServerRead, ServerUnchanged
<1>11. Chosen'["kex"] # Nothing \/ ph = "gone"
  BY <1>3, <1>5, HandshakeAssumption
<1>12. ServerKnows'
  BY <1>1, <1>4, <1>5, <1>7, <1>10, <1>11 DEF ServerKnows
<1>13. ASSUME NEW x PROVE GoodRequest(x) => GoodRequest(x)'
  BY <1>1, <1>5, <1>6 DEF GoodRequest, ServerUnchanged
<1>14. ASSUME NEW x PROVE GoodMessage(x) /\ Due(x) => GoodMessage(x)' /\ Due(x)'
  BY <1>1, <1>4, <1>5, <1>7 DEF GoodMessage, Due, ServerUnchanged
<1>15. (IsSeq(toServer) /\ \A x \in ToSet(toServer) : GoodRequest(x))'
  BY <1>1, <1>13, ServerWire
<1>16. /\ (IsSeq(toClient) /\ \A x \in ToSet(toClient) : GoodMessage(x) /\ Due(x))'
       /\ InOrder(toClient)'
  BY <1>1, <1>14 DEF Wires, InOrder, Later
<1>17. (phase = "reply" => Backed(toClient, Method.response))'
  BY <1>1, <1>5 DEF Wires, Backed, ServerUnchanged
<1>18. Introduced'
  BY <1>1 DEF Introduced, ServerUnchanged
<1> QED BY <1>8, <1>9, <1>12, <1>15, <1>16, <1>17, <1>18 DEF HandshakeInv, Wires

\* A server in its exchange has sent no reply: no keys are known.
LEMMA NoKeysYet ==
  ASSUME HandshakeInv, server.phase = "exchange"
  PROVE  /\ server.keys = None /\ ~HasKeys /\ keys = None /\ phase \notin {"newkeys", "up"}
         /\ \A m \in ToSet(toClient) : m.type # NEWKEYS /\ m.type # 33
         /\ \A m \in ToSet(toClient) : m.type = 31 => HasGroup
<1>1. server.keys = None /\ ~HasKeys
  BY NotNone DEF HandshakeInv, ServerKnows, HasKeys
<1>2. keys = None /\ phase \notin {"newkeys", "up"}
  BY <1>1 DEF HandshakeInv, ClientKnows
<1>3. ASSUME NEW m \in ToSet(toClient) PROVE m.type # NEWKEYS /\ m.type # 33 /\ (m.type = 31 => HasGroup)
  <2>1. GoodMessage(m)
    BY DEF HandshakeInv, Wires
  <2> QED BY <1>1, <2>1 DEF GoodMessage, TEXT, IDENTIFICATION, KEXINIT, GEX_GROUP, NEWKEYS,
                            Noise, IGNORE, UNKNOWN, DISCONNECT
<1> QED BY <1>1, <1>2, <1>3

\* The server's group.
LEMMA GroupStep == HandshakeInv /\ ServerGroup => HandshakeInv'
<1> SUFFICES ASSUME HandshakeInv, ServerGroup PROVE HandshakeInv'
  OBVIOUS
<1>1. /\ HandshakeTypeOK /\ ClientKnows /\ ServerKnows /\ Wires /\ Introduced
      /\ server.phase = "exchange" /\ server.group = None /\ ServerUnchanged
      /\ toServer # <<>> /\ Head(toServer).type = GEX_REQUEST /\ toServer' = Tail(toServer)
  BY DEF HandshakeInv, ServerGroup, Hears
<1>2. Head(toServer).body = bits /\ Read /\ Method.group /\ phase \in Grouped
  <2>1. GoodRequest(Head(toServer))
    BY <1>1, TailWire DEF Wires
  <2> QED BY <1>1, <2>1 DEF GoodRequest, KEXINIT, UNIMPLEMENTED, GEX_REQUEST, NEWKEYS
<1>3. PICK p \in Primes : /\ toClient' = Append(toClient, Message(GEX_GROUP, p))
                          /\ server' = [server EXCEPT !.group = <<bits, p>>]
  BY <1>2 DEF ServerGroup, Say
<1>4. PICK m : m = Message(GEX_GROUP, p)
  OBVIOUS
<1>5. m.type = 31 /\ m.body = p /\ toClient' = Append(toClient, m)
  BY <1>3, <1>4 DEF Message, GEX_GROUP
<1>6. /\ UNCHANGED <<server.software, server.offer, server.strict, server.ours, server.theirs,
                     server.chosen, server.keys, server.phase>>
      /\ server'.group = <<bits, p>>
  BY <1>1, <1>3 DEF HandshakeTypeOK, ServerShape
<1>7. UNCHANGED <<Offered, Ours, Chosen, Method, GenerateKey, Floor>>
  <2>1. UNCHANGED <<Offered, Ours, Chosen, Method, Floor>>
    BY <1>1, <1>6 DEF ServerUnchanged, Offered, Ours, Chosen, Method, Floor
  <2> QED BY <2>1 DEF GenerateKey
<1>8. UNCHANGED <<Sent, Read, ServerRead>>
  <2>1. UNCHANGED Sent
    BY <1>1, <1>6, <1>7 DEF ServerUnchanged, Sent
  <2> QED BY <1>1, <1>6, <1>7, <2>1 DEF ServerUnchanged, Read, ServerRead
<1>9. ~SameGroup /\ ~HasGroup /\ ~HasKeys
  BY <1>1, <1>2, NotNone DEF SameGroup, HasGroup, HasKeys
<1>10. /\ server.keys = None /\ keys = None /\ phase \in {"group", "failed"}
       /\ \A x \in ToSet(toClient) : x.type # NEWKEYS /\ x.type # 33 /\ x.type # 31
  BY <1>1, <1>2, <1>9, NoKeysYet DEF ClientKnows, Grouped
<1>11. HandshakeTypeOK'
  BY <1>1, <1>3 DEF HandshakeTypeOK, ServerShape, ServerUnchanged
<1>12. ClientKnows'
  BY <1>1, <1>6, <1>7, <1>8, <1>10 DEF ClientKnows, ServerUnchanged
<1>13. HasGroup'
  <2>1. phase' \in Grouped /\ bits' = bits
    BY <1>1, <1>2 DEF ServerUnchanged
  <2>2. ServerRead
    BY <1>1 DEF ServerKnows
  <2> QED BY <1>2, <1>6, <1>7, <1>8, <2>1, <2>2 DEF HasGroup, Grouped
<1>14. ServerKnows'
  BY <1>1, <1>6, <1>7, <1>8, <1>10, <1>13 DEF ServerKnows
<1>15. ASSUME NEW x PROVE GoodRequest(x) => GoodRequest(x)'
  BY <1>1, <1>7, <1>8, <1>9 DEF GoodRequest, ServerUnchanged
<1>16. ASSUME NEW x PROVE GoodMessage(x) /\ Due(x) => GoodMessage(x)' /\ Due(x)'
  BY <1>1, <1>6, <1>7, <1>9 DEF GoodMessage, Due, ServerUnchanged
<1>17. GoodMessage(m)' /\ Due(m)'
  <2>1. Floor <= 3
    BY <1>10 DEF Floor
  <2>2. m.type = GEX_GROUP /\ m.body = server'.group[2]
    BY <1>5, <1>6, Ranks
  <2> QED BY <1>5, <1>7, <1>13, <2>1, <2>2, Ranks DEF GoodMessage, Due
<1>18. \A x \in ToSet(toClient) : Later(x, m)
  <2>1. ASSUME NEW x \in ToSet(toClient)
        PROVE  x.type \in {TEXT, IDENTIFICATION, KEXINIT} \cup Noise
    BY <1>1, <1>9, <1>10, Ranks DEF Wires, GoodMessage
  <2> QED BY <1>5, <2>1, Ranks DEF Later
<1>19. (IsSeq(toServer) /\ \A x \in ToSet(toServer) : GoodRequest(x))'
  BY <1>1, <1>15, ServerWire
<1>20. /\ (IsSeq(toClient) /\ \A x \in ToSet(toClient) : GoodMessage(x) /\ Due(x))'
       /\ InOrder(toClient)'
  BY <1>1, <1>5, <1>16, <1>17, <1>18, ServerSays
<1>21. Introduced' /\ phase' # "reply"
  BY <1>1, <1>10 DEF Introduced, ServerUnchanged
<1> QED BY <1>11, <1>12, <1>14, <1>19, <1>20, <1>21 DEF HandshakeInv, Wires

\* The hash covers the same on both sides: the values, each other's offers and halves, and
\* the secret of every pair.
LEMMA HashesAgree ==
  ASSUME HandshakeTypeOK, Read, ServerRead, SameGroup, server.group = None \/ Method.group
  PROVE  ServerHash(GenerateKey) = TheHash
<1>1. ServerMethod = Method /\ Method.group \in BOOLEAN
  BY ReadFacts
<1>2. server.group = IF Method.group THEN <<bits, prime>> ELSE None
  BY <1>1 DEF SameGroup
<1>3. server.software = version /\ server.theirs = ours /\ server.ours = theirs
  BY DEF Read, ServerRead, Sent
<1> DEFINE P == Method.pairs
<1>4. GenerateKey = {<<"client", x>> : x \in P} /\ ServerKey = {<<"server", x>> : x \in P}
  BY <1>1 DEF GenerateKey, ServerKey
<1> HIDE DEF P
<1> DEFINE Both(x) == {<<"client", x>>, <<"server", x>>}
<1>5. Secret(ServerKey) = {Both(x) : x \in P}
  <2> DEFINE F(h) == {<<"client", h[2]>>, h}
  <2>1. \A x : F(<<"server", x>>) = Both(x)
    OBVIOUS
  <2>2. Secret(ServerKey) = {F(h) : h \in ServerKey}
    BY DEF Secret
  <2> HIDE DEF F, Both
  <2>3. {F(h) : h \in ServerKey} = {Both(x) : x \in P}
    BY <1>4, <2>1
  <2> QED BY <2>2, <2>3
<1>6. {{h, <<"server", h[2]>>} : h \in GenerateKey} = {Both(x) : x \in P}
  <2> DEFINE G(h) == {h, <<"server", h[2]>>}
  <2>1. \A x : G(<<"client", x>>) = Both(x)
    OBVIOUS
  <2>2. {{h, <<"server", h[2]>>} : h \in GenerateKey} = {G(h) : h \in GenerateKey}
    OBVIOUS
  <2> HIDE DEF G, Both
  <2>3. {G(h) : h \in GenerateKey} = {Both(x) : x \in P}
    BY <1>4, <2>1
  <2> QED BY <2>2, <2>3
<1> HIDE DEF Both
<1>7. ServerKey \cup GenerateKey = GenerateKey \cup ServerKey
  OBVIOUS
<1> QED BY <1>2, <1>3, <1>5, <1>6, <1>7 DEF ServerHash, TheHash, Hash

\* The server's reply and its NEWKEYS.
LEMMA RepliesStep == HandshakeInv /\ ServerReplies => HandshakeInv'
<1> SUFFICES ASSUME HandshakeInv, ServerReplies PROVE HandshakeInv'
  OBVIOUS
<1>1. /\ HandshakeTypeOK /\ ClientKnows /\ ServerKnows /\ Wires /\ Introduced
      /\ server.phase = "exchange" /\ ServerUnchanged
      /\ toServer # <<>> /\ Head(toServer).type = ServerMethod.request /\ toServer' = Tail(toServer)
  BY DEF HandshakeInv, ServerReplies, Hears
<1>2. ServerRead /\ ServerMethod.request \in {30, 32}
  <2>1. ServerRead /\ Chosen["kex"] # Nothing
    BY <1>1 DEF ServerKnows
  <2>2. /\ server.offer \in Offers /\ config.strict \in BOOLEAN /\ "kex" \in Categories
        /\ server.chosen.kex = Best(OursOf(config.strict)["kex"], server.offer["kex"])
    BY <1>1, <2>1, HandshakeAssumption
       DEF HandshakeTypeOK, ServerShape, ServerRead, Chosen, Sent, Ours
  <2>3. server.chosen.kex # Nothing
    BY <2>1 DEF ServerRead
  <2>4. server.chosen.kex \in KexNames
    BY <2>2, <2>3, ChosenKnown
  <2> QED BY <2>1, <2>4, MethodFacts DEF ServerMethod
<1>3. Head(toServer).body = GenerateKey /\ Read /\ SameGroup /\ phase \in Replying
  <2>1. GoodRequest(Head(toServer))
    BY <1>1, TailWire DEF Wires
  <2> QED BY <1>1, <1>2, <2>1 DEF GoodRequest, KEXINIT, UNIMPLEMENTED, GEX_REQUEST, NEWKEYS
<1>4. /\ Method.group \in BOOLEAN /\ Method.response = (IF Method.group THEN 33 ELSE 31)
      /\ ServerMethod = Method
  BY <1>1, <1>2, <1>3, ReadFacts
<1>5. ServerHash(GenerateKey) = TheHash
  <2>1. server.group = None \/ Method.group
    BY <1>1 DEF ServerKnows, HasGroup
  <2> QED BY <1>1, <1>2, <1>3, <2>1, HashesAgree
<1>6. PICK genuine \in BOOLEAN :
        toClient' = Append(Append(toClient, Message(Method.response,
                             [hash |-> TheHash, public |-> ServerKey, genuine |-> genuine])),
                           Message(NEWKEYS, 0))
  BY <1>3, <1>4, <1>5 DEF ServerReplies
<1>7. server' = [server EXCEPT !.phase = "newkeys", !.keys = ServerKeys(TheHash)]
  BY <1>3, <1>5 DEF ServerReplies, ServerKeys
<1>8. PICK m, n : /\ m = Message(Method.response,
                           [hash |-> TheHash, public |-> ServerKey, genuine |-> genuine])
                  /\ n = Message(NEWKEYS, 0)
  OBVIOUS
<1>9. /\ m.type = Method.response /\ m.body.hash = TheHash /\ m.body.public = ServerKey
      /\ n.type = NEWKEYS /\ toClient' = Append(Append(toClient, m), n)
  BY <1>6, <1>8 DEF Message
<1>10. /\ UNCHANGED <<server.software, server.offer, server.strict, server.ours, server.theirs,
                      server.chosen, server.group>>
       /\ server'.phase = "newkeys" /\ server'.keys = ServerKeys(TheHash)
  BY <1>1, <1>7 DEF HandshakeTypeOK, ServerShape
<1>11. UNCHANGED <<Offered, Ours, Chosen, Method, GenerateKey, ServerKey, TheHash, Floor>>
  <2>1. UNCHANGED <<Offered, Ours, Chosen, Method, Floor>>
    BY <1>1, <1>10 DEF ServerUnchanged, Offered, Ours, Chosen, Method, Floor
  <2>2. UNCHANGED <<GenerateKey, ServerKey>>
    BY <1>10, <2>1 DEF GenerateKey, ServerKey, ServerMethod
  <2>3. UNCHANGED TheHash
    BY <1>1, <2>1, <2>2 DEF ServerUnchanged, TheHash, Hash, Secret
  <2> QED BY <2>1, <2>2, <2>3
<1>12. UNCHANGED <<Sent, Read, ServerRead, SameGroup, HasGroup>>
  <2>1. UNCHANGED <<Sent, SameGroup>>
    BY <1>1, <1>10, <1>11 DEF ServerUnchanged, Sent, SameGroup
  <2>2. UNCHANGED <<Read, ServerRead>>
    BY <1>1, <1>10, <1>11, <2>1 DEF ServerUnchanged, Read, ServerRead
  <2> QED BY <1>1, <1>10, <1>11, <2>1, <2>2 DEF ServerUnchanged, HasGroup
<1>13. /\ ~HasKeys /\ keys = None /\ phase \in {"reply", "failed"}
       /\ \A x \in ToSet(toClient) : x.type # NEWKEYS /\ x.type # 33 /\ (x.type = 31 => HasGroup)
  BY <1>1, <1>3, NoKeysYet DEF Replying
<1>14. HasKeys'
  <2>1. phase' \in Replying
    BY <1>1, <1>3 DEF ServerUnchanged
  <2> QED BY <1>2, <1>3, <1>10, <1>11, <1>12, <2>1 DEF HasKeys, Replying
<1>15. HandshakeTypeOK'
  BY <1>1, <1>7 DEF HandshakeTypeOK, ServerShape, ServerUnchanged
<1>16. ClientKnows'
  BY <1>1, <1>10, <1>11, <1>12, <1>13 DEF ClientKnows, ServerUnchanged
<1>17. ServerKnows'
  BY <1>1, <1>10, <1>11, <1>12, <1>14 DEF ServerKnows
<1>18. ASSUME NEW x PROVE GoodRequest(x) => GoodRequest(x)'
  BY <1>1, <1>11, <1>12 DEF GoodRequest, ServerUnchanged
<1>19. ASSUME NEW x PROVE GoodMessage(x) /\ Due(x) => GoodMessage(x)' /\ Due(x)'
  BY <1>1, <1>10, <1>11, <1>12, <1>13 DEF GoodMessage, Due, ServerUnchanged
<1>20. GoodMessage(m)' /\ GoodMessage(n)' /\ Due(m)' /\ Due(n)'
  <2>1. Floor = IF phase = "reply" THEN (IF Method.group THEN 4 ELSE 3) ELSE 0
    BY <1>13 DEF Floor
  <2>2. Due(m)' /\ Due(n)'
    BY <1>4, <1>9, <1>11, <2>1, Ranks DEF Due
  <2> QED BY <1>4, <1>9, <1>11, <1>14, <2>2 DEF GoodMessage
<1>21. \A x \in ToSet(toClient) : Later(x, m) /\ Later(x, n)
  <2>1. ASSUME NEW x \in ToSet(toClient)
        PROVE  x.type \in {TEXT, IDENTIFICATION, KEXINIT} \cup Noise \/ (x.type = 31 /\ Method.group)
    <3>1. GoodMessage(x) /\ x.type # NEWKEYS /\ (x.type = 31 => HasGroup)
      BY <1>1, <1>13 DEF Wires
    <3> QED BY <1>13, <3>1, Ranks DEF GoodMessage, HasGroup
  <2> QED BY <1>4, <1>9, <2>1, Ranks DEF Later
<1>22. Later(m, n)
  BY <1>4, <1>9, Ranks DEF Later
<1>23. (IsSeq(toServer) /\ \A x \in ToSet(toServer) : GoodRequest(x))'
  BY <1>1, <1>18, ServerWire
<1> DEFINE w == Append(toClient, m)
<1>24. IsSeq(w) /\ ToSet(w) = ToSet(toClient) \cup {m} /\ InOrder(w)
  BY <1>1, <1>21, AppendWire, AppendOrder DEF Wires
<1> HIDE DEF w
<1>25. toClient' = Append(w, n)
  BY <1>9 DEF w
<1>26. IsSeq(toClient') /\ ToSet(toClient') = ToSet(w) \cup {n}
  BY <1>24, <1>25, AppendWire
<1>27. InOrder(toClient')
  <2>1. \A x \in ToSet(w) : Later(x, n)
    BY <1>21, <1>22, <1>24
  <2> QED BY <1>24, <1>25, <2>1, AppendOrder
<1>28. (\A x \in ToSet(toClient) : GoodMessage(x) /\ Due(x))'
  BY <1>1, <1>19, <1>20, <1>24, <1>26 DEF Wires
<1>29. Backed(toClient', Method.response)
  <2>1. m.type # NEWKEYS
    BY <1>4, <1>9 DEF NEWKEYS
  <2> QED BY <1>1, <1>9, <1>13, <2>1, PairBacked DEF Wires
<1>30. Wires'
  BY <1>11, <1>23, <1>26, <1>27, <1>28, <1>29 DEF Wires, InOrder, Later, Backed
<1>31. Introduced'
  BY <1>1, <1>13 DEF Introduced, ServerUnchanged
<1> QED BY <1>15, <1>16, <1>17, <1>30, <1>31 DEF HandshakeInv

-----------------------------------------------------------------------------
(* The client's steps.                                                     *)

\* All ranks are numbers.
LEMMA RankNat ==
  ASSUME NEW x, GoodMessage(x)
  PROVE  x.type \in Noise \/ Rank(x.type) \in 0..5
BY Ranks DEF GoodMessage

\* handshake() returns an error.
LEMMA FailStep ==
  ASSUME HandshakeInv, NEW why, Fail(why), ClientUnchanged, why \notin {"signature", "strict"},
         why = "negotiation" => Negotiate(Parsed(Offered)) = None,
         toClient' = toClient \/ (toClient # <<>> /\ toClient' = Tail(toClient))
  PROVE  HandshakeInv'
<1>1. /\ HandshakeTypeOK /\ ClientKnows /\ ServerKnows /\ Wires
      /\ UNCHANGED <<config, server, version, ours, theirs, matched, bits, prime, keys, toServer>>
      /\ phase' = "failed" /\ error' = why
  BY DEF HandshakeInv, Fail, ClientUnchanged
<1>2. /\ UNCHANGED <<Offered, Ours, Chosen, Method, GenerateKey, ServerKey, TheHash>>
      /\ (Sent => Sent') /\ (ServerRead => ServerRead') /\ (Read => Read')
      /\ (HasGroup => HasGroup') /\ (SameGroup => SameGroup') /\ (HasKeys => HasKeys')
  BY <1>1, ClientFrame DEF Grouped, Replying
<1>3. HandshakeTypeOK'
  BY <1>1 DEF HandshakeTypeOK, ServerShape, Phases
<1>4. ClientKnows'
  BY <1>1, <1>2 DEF ClientKnows
<1>5. ServerKnows'
  BY <1>1, <1>2 DEF ServerKnows
<1>6. ASSUME NEW x PROVE GoodRequest(x) => GoodRequest(x)'
  BY <1>1, <1>2 DEF GoodRequest, Grouped, Replying
<1>7. ASSUME NEW x, GoodMessage(x) PROVE GoodMessage(x)' /\ Due(x)'
  <2>1. GoodMessage(x)'
    BY <1>1, <1>2, <1>7 DEF GoodMessage
  <2>2. Floor' = 0
    BY <1>1 DEF Floor
  <2> QED BY <1>7, <2>1, <2>2, RankNat DEF Due
<1>8. (IsSeq(toServer) /\ \A x \in ToSet(toServer) : GoodRequest(x))'
  BY <1>1, <1>6, ServerWire
<1>9. /\ (IsSeq(toClient) /\ \A x \in ToSet(toClient) : GoodMessage(x) /\ Due(x))'
      /\ InOrder(toClient)'
  <2>1. CASE toClient' = toClient
    BY <1>1, <1>7, <2>1 DEF Wires, InOrder, Later
  <2>2. CASE toClient # <<>> /\ toClient' = Tail(toClient)
    BY <1>1, <1>7, <2>2, ClientReads
  <2> QED BY <2>1, <2>2
<1> QED BY <1>1, <1>3, <1>4, <1>5, <1>8, <1>9 DEF HandshakeInv, Wires, Introduced

\* The first line that is not text is the identification.
LEMMA FirstLine ==
  ASSUME HandshakeInv, phase = "banner", toClient # <<>>
  PROVE  \/ Head(toClient).type = TEXT
         \/ /\ Head(toClient).type = IDENTIFICATION
            /\ Head(toClient).software = server.software /\ server.phase # "banner"
<1>1. Wires /\ Introduced /\ IsSeq(toClient) /\ InOrder(toClient)
  BY DEF HandshakeInv, Wires
<1>2. /\ Head(toClient) \in ToSet(toClient) /\ ToSet(toClient) = ToSet(Tail(toClient)) \cup {Head(toClient)}
      /\ \A x \in ToSet(Tail(toClient)) : Later(Head(toClient), x)
  BY <1>1, TailWire, TailOrder
<1>3. GoodMessage(Head(toClient))
  BY <1>1, <1>2 DEF Wires
<1>4. CASE \A m \in ToSet(toClient) : m.type = TEXT
  BY <1>2, <1>4
<1>5. CASE \E m \in ToSet(toClient) : m.type = IDENTIFICATION
  <2>1. PICK m \in ToSet(toClient) : m.type = IDENTIFICATION
    BY <1>5
  <2>2. CASE m = Head(toClient)
    BY <1>3, <2>1, <2>2 DEF GoodMessage, IDENTIFICATION, TEXT, KEXINIT, GEX_GROUP, NEWKEYS, Noise,
                            IGNORE, UNKNOWN, DISCONNECT
  <2>3. CASE m \in ToSet(Tail(toClient))
    <3>1. Later(Head(toClient), m)
      BY <1>2, <2>3
    <3>2. ~(Rank(m.type) > 1) /\ m.type \notin Noise /\ m.type # TEXT /\ Rank(m.type) = 1
      BY <2>1, Ranks DEF TEXT, IDENTIFICATION
    <3>3. Rank(Head(toClient).type) < 1
      BY <3>1, <3>2 DEF Later
    <3>4. Head(toClient).type \notin Noise
      BY <3>3, Ranks
    <3> QED BY <1>3, <3>3, <3>4, Ranks DEF GoodMessage
  <2> QED BY <1>2, <2>1, <2>2, <2>3
<1> QED BY <1>1, <1>4, <1>5 DEF Introduced

\* Before the client's KEXINIT nothing is known of either offer.
LEMMA NothingSent ==
  ASSUME HandshakeInv, ours = None
  PROVE  /\ ~Sent /\ ~Read /\ ~ServerRead /\ ~HasGroup /\ ~HasKeys
         /\ theirs = None /\ matched = None /\ keys = None
         /\ server.theirs = None /\ server.chosen = None /\ server.group = None /\ server.keys = None
         /\ phase \in {"banner", "methods", "failed"} /\ server.phase \notin {"exchange", "newkeys", "up"}
<1>1. Ours # None
  BY NotNone DEF HandshakeInv, HandshakeTypeOK, Ours
<1>2. ~Sent /\ ~Read /\ ~ServerRead /\ ~HasGroup /\ ~HasKeys
  BY <1>1 DEF Sent, Read, ServerRead, HasGroup, HasKeys
<1> QED BY <1>2 DEF HandshakeInv, ClientKnows, ServerKnows, HandshakeTypeOK, Phases

\* banner_version_exchange reads a line.
LEMMA LineStep == HandshakeInv /\ ReadLine => HandshakeInv'
<1> SUFFICES ASSUME HandshakeInv, ReadLine PROVE HandshakeInv'
  OBVIOUS
<1>1. /\ HandshakeTypeOK /\ ClientKnows /\ ServerKnows /\ Wires /\ Introduced
      /\ phase = "banner" /\ toClient # <<>> /\ toClient' = Tail(toClient) /\ ClientUnchanged
  BY DEF HandshakeInv, ReadLine
<1> DEFINE line == Head(toClient)
<1>2. CASE ~LineFits(line.size)
  BY <1>1, <1>2, FailStep DEF ReadLine
<1>3. CASE LineFits(line.size)
  <2>1. /\ phase' = IF line.type = TEXT THEN "banner" ELSE "methods"
        /\ version' = IF line.type = TEXT THEN version ELSE line.software
        /\ UNCHANGED <<config, server, error, ours, theirs, matched, bits, prime, keys, toServer>>
    BY <1>3 DEF ReadLine, ClientUnchanged
  <2>2. \/ line.type = TEXT
        \/ /\ line.type = IDENTIFICATION /\ line.software = server.software
           /\ server.phase # "banner"
    BY <1>1, FirstLine
  <2> HIDE DEF line
  <2>3. TEXT # IDENTIFICATION
    BY DEF TEXT, IDENTIFICATION
  <2>4. ours = None
    BY <1>1 DEF ClientKnows, Sent
  <2>5. /\ ~Read /\ ~ServerRead /\ ~HasGroup /\ ~HasKeys
        /\ theirs = None /\ matched = None /\ keys = None
        /\ server.theirs = None /\ server.chosen = None /\ server.group = None /\ server.keys = None
        /\ server.phase \notin {"exchange", "newkeys", "up"} /\ ~Sent
    BY <2>4, NothingSent
  <2>6. UNCHANGED <<Offered, Ours, Chosen>>
    BY <2>1 DEF Offered, Ours, Chosen
  <2>7. HandshakeTypeOK'
    BY <1>1, <2>1, <2>2 DEF HandshakeTypeOK, ServerShape, Phases
  <2>8. ClientKnows'
    BY <1>1, <2>1, <2>2, <2>3, <2>4, <2>5, <2>6 DEF ClientKnows
  <2>9. ServerKnows'
    BY <1>1, <2>1, <2>5, <2>6 DEF ServerKnows
  <2>10. ASSUME NEW x PROVE GoodRequest(x) => GoodRequest(x)'
    BY <2>1, <2>5 DEF GoodRequest
  <2>11. ASSUME NEW x, Later(line, x), GoodMessage(x) PROVE GoodMessage(x)' /\ Due(x)'
    <3>1. GoodMessage(x)'
      BY <2>1, <2>5, <2>6, <2>11 DEF GoodMessage
    <3>2. CASE line.type = TEXT
      <4>1. Floor' = 0
        BY <2>1, <3>2 DEF Floor
      <4> QED BY <2>11, <3>1, <4>1, RankNat DEF Due
    <3>3. CASE line.type = IDENTIFICATION
      <4>1. Floor' = 2
        BY <2>1, <2>3, <3>3 DEF Floor
      <4>2. x.type \in Noise \/ Rank(x.type) > 1
        BY <2>3, <2>11, <3>3, Ranks DEF Later
      <4>3. x.type \in Noise \/ Rank(x.type) >= 2
        BY <2>11, <4>2, RankNat
      <4> QED BY <3>1, <4>1, <4>3 DEF Due
    <3> QED BY <2>2, <3>2, <3>3
  <2>12. (IsSeq(toServer) /\ \A x \in ToSet(toServer) : GoodRequest(x))'
    BY <1>1, <2>1, <2>10, ServerWire
  <2>13. /\ (IsSeq(toClient) /\ \A x \in ToSet(toClient) : GoodMessage(x) /\ Due(x))'
         /\ InOrder(toClient)'
    BY <1>1, <2>11, ClientReads DEF line
  <2>14. Introduced'
    <3> SUFFICES ASSUME line.type = TEXT PROVE Introduced'
      BY <2>1 DEF Introduced
    <3>1. ToSet(toClient) = ToSet(toClient') \cup {line}
      BY <1>1, TailWire DEF Wires, line
    <3> QED BY <1>1, <2>1, <2>3, <3>1 DEF Introduced
  <2> QED BY <2>1, <2>7, <2>8, <2>9, <2>12, <2>13, <2>14 DEF HandshakeInv, Wires
<1> QED BY <1>2, <1>3

\* negotiate_methods sends the client's KEXINIT.
LEMMA SendStep == NoPad /\ HandshakeInv /\ SendKexInit => HandshakeInv'
<1> SUFFICES ASSUME NoPad, HandshakeInv, SendKexInit PROVE HandshakeInv'
  OBVIOUS
<1>1. /\ HandshakeTypeOK /\ ClientKnows /\ ServerKnows /\ Wires /\ Introduced
      /\ phase = "methods" /\ ours = None
      /\ UNCHANGED <<config, server, phase, error, version, theirs, matched, bits, prime, keys, toClient>>
  BY DEF HandshakeInv, SendKexInit, ClientUnchanged
<1>2. ours' = Ours /\ toServer' = Append(toServer, Message(KEXINIT, Ours))
  BY <1>1, OfferIsOurs DEF SendKexInit
<1>3. /\ ~Sent /\ ~Read /\ ~ServerRead /\ ~HasGroup /\ ~HasKeys
      /\ theirs = None /\ matched = None /\ keys = None
      /\ server.theirs = None /\ server.chosen = None /\ server.group = None /\ server.keys = None
      /\ server.phase \notin {"exchange", "newkeys", "up"}
  BY <1>1, NothingSent
<1>4. UNCHANGED <<Offered, Ours, Method, Floor>>
  BY <1>1 DEF Offered, Ours, Method, Floor
<1>5. Sent'
  BY <1>1, <1>2, <1>4 DEF Sent, ClientKnows
<1>6. HandshakeTypeOK'
  BY <1>1 DEF HandshakeTypeOK, ServerShape
<1>7. ClientKnows'
  BY <1>1, <1>3, <1>4, <1>5 DEF ClientKnows
<1>8. ServerKnows'
  BY <1>1, <1>3, <1>4 DEF ServerKnows
<1>9. ASSUME NEW x PROVE GoodRequest(x) => GoodRequest(x)'
  BY <1>3 DEF GoodRequest
<1>10. ASSUME NEW x PROVE GoodMessage(x) /\ Due(x) => GoodMessage(x)' /\ Due(x)'
  BY <1>1, <1>3, <1>4 DEF GoodMessage, Due
<1>12. PICK m : m = Message(KEXINIT, Ours)
  OBVIOUS
<1>13. toServer' = Append(toServer, m) /\ GoodRequest(m)'
  BY <1>2, <1>4, <1>5, <1>12 DEF GoodRequest, Message
<1>14. (IsSeq(toServer) /\ \A x \in ToSet(toServer) : GoodRequest(x))'
  BY <1>1, <1>9, <1>13, ServerWire
<1>15. /\ (IsSeq(toClient) /\ \A x \in ToSet(toClient) : GoodMessage(x) /\ Due(x))'
       /\ InOrder(toClient)'
  BY <1>1, <1>10 DEF Wires, InOrder, Later
<1> QED BY <1>1, <1>6, <1>7, <1>8, <1>14, <1>15 DEF HandshakeInv, Wires, Introduced

\* The client negotiates.
LEMMA NegotiateStep == HandshakeInv /\ HandleKexInit => HandshakeInv'
<1> SUFFICES ASSUME HandshakeInv, HandleKexInit PROVE HandshakeInv'
  OBVIOUS
<1>1. /\ HandshakeTypeOK /\ ClientKnows /\ ServerKnows /\ Wires /\ Introduced
      /\ phase = "methods" /\ ours # None /\ toClient # <<>> /\ Head(toClient).type = KEXINIT
      /\ toClient' = Tail(toClient) /\ ClientUnchanged
  BY DEF HandshakeInv, HandleKexInit
<1>2. Head(toClient).body = Offered /\ server.ours = Offered
  <2>1. GoodMessage(Head(toClient))
    BY <1>1, TailWire DEF Wires
  <2> QED BY <1>1, <2>1 DEF GoodMessage, TEXT, IDENTIFICATION, KEXINIT, GEX_GROUP, NEWKEYS, Noise,
                            IGNORE, UNKNOWN, DISCONNECT
<1>3. CASE Negotiate(Parsed(Offered)) = None
  <2>1. Fail("negotiation")
    BY <1>2, <1>3 DEF HandleKexInit
  <2> QED BY <1>1, <1>3, <2>1, FailStep
<1>4. CASE Negotiate(Parsed(Offered)) # None
  <2>1. /\ theirs' = Offered /\ matched' = Negotiate(Parsed(Offered)) /\ phase' = "exchange"
        /\ UNCHANGED <<config, server, error, version, ours, bits, prime, keys, toServer>>
    BY <1>2, <1>4 DEF HandleKexInit, ClientUnchanged
  <2>2. ~Read /\ ~HasGroup /\ ~HasKeys
    BY <1>1 DEF Read, HasGroup, HasKeys
  <2>3. UNCHANGED <<Offered, Ours, Chosen>>
    BY <2>1 DEF Offered, Ours, Chosen
  <2>4. Sent /\ Sent' /\ (ServerRead => ServerRead')
    BY <1>1, <2>1, <2>3 DEF ClientKnows, Sent, ServerRead
  <2>5. Read'
    BY <1>2, <1>4, <2>1, <2>3, <2>4 DEF Read
  <2>6. HandshakeTypeOK'
    BY <1>1, <2>1 DEF HandshakeTypeOK, ServerShape, Phases
  <2>7. ClientKnows'
    BY <1>1, <2>1, <2>2, <2>3, <2>4, <2>5 DEF ClientKnows
  <2>8. ServerKnows'
    BY <1>1, <2>1, <2>2, <2>3, <2>4 DEF ServerKnows
  <2>9. ASSUME NEW x PROVE GoodRequest(x) => GoodRequest(x)'
    BY <2>1, <2>2, <2>4 DEF GoodRequest
  <2>10. ASSUME NEW x, Later(Head(toClient), x), GoodMessage(x) PROVE GoodMessage(x)' /\ Due(x)'
    <3>1. GoodMessage(x)'
      BY <2>1, <2>2, <2>3, <2>10 DEF GoodMessage
    <3>2. x.type \in Noise \/ Rank(x.type) > 2
      BY <1>1, <2>10, Ranks DEF Later, KEXINIT, TEXT
    <3>3. x.type \in Noise \/ Rank(x.type) >= 3
      BY <2>10, <3>2, RankNat
    <3>4. Floor' = 3
      BY <2>1 DEF Floor
    <3> QED BY <3>1, <3>3, <3>4 DEF Due
  <2>11. (IsSeq(toServer) /\ \A x \in ToSet(toServer) : GoodRequest(x))'
    BY <1>1, <2>1, <2>9, ServerWire
  <2>12. /\ (IsSeq(toClient) /\ \A x \in ToSet(toClient) : GoodMessage(x) /\ Due(x))'
         /\ InOrder(toClient)'
    BY <1>1, <2>10, ClientReads
  <2> QED BY <2>1, <2>6, <2>7, <2>8, <2>11, <2>12 DEF HandshakeInv, Wires, Introduced
<1> QED BY <1>3, <1>4

\* No NEWKEYS is under way without keys.
LEMMA NotBacked ==
  ASSUME HandshakeInv, ~HasKeys
  PROVE  /\ \A x \in ToSet(toClient) : x.type # NEWKEYS /\ x.type # 33
         /\ \A type : Backed(toClient, type)
<1>1. ASSUME NEW x \in ToSet(toClient) PROVE x.type # NEWKEYS /\ x.type # 33
  <2>1. GoodMessage(x)
    BY DEF HandshakeInv, Wires
  <2> QED BY <2>1 DEF GoodMessage, TEXT, IDENTIFICATION, KEXINIT, GEX_GROUP, NEWKEYS, Noise,
                      IGNORE, UNKNOWN, DISCONNECT
<1>2. \A i \in 1..Len(toClient) : toClient[i] \in ToSet(toClient)
  BY DEF HandshakeInv, Wires, IsSeq, ToSet
<1> QED BY <1>1, <1>2 DEF Backed

\* key_exchange asks for a group, or sends the client's value.
LEMMA StartStep == HandshakeInv /\ StartExchange => HandshakeInv'
<1> SUFFICES ASSUME HandshakeInv, StartExchange PROVE HandshakeInv'
  OBVIOUS
<1>1. /\ HandshakeTypeOK /\ ClientKnows /\ ServerKnows /\ Wires /\ Introduced /\ phase = "exchange"
      /\ UNCHANGED <<config, server, error, version, ours, theirs, matched, prime, keys, toClient>>
  BY DEF HandshakeInv, StartExchange, ClientUnchanged
<1>2. Read /\ ~HasGroup /\ ~HasKeys /\ keys = None
  BY <1>1 DEF ClientKnows, HasGroup, HasKeys, Grouped, Replying
<1>3. /\ Method.group \in BOOLEAN /\ Method.request = (IF Method.group THEN 32 ELSE 30)
  BY <1>1, <1>2, ReadFacts
<1>4. PICK m : /\ toServer' = Append(toServer, m)
               /\ \/ /\ Method.group /\ phase' = "group" /\ m.type = GEX_REQUEST /\ m.body = bits'
                  \/ /\ ~Method.group /\ phase' = "reply" /\ m.type = Method.request
                     /\ m.body = GenerateKey /\ bits' = bits
  <2>1. CASE Method.group
    <3>1. PICK m : m = Message(GEX_REQUEST, NumberOfBits(Recommended))
      OBVIOUS
    <3>2. /\ toServer' = Append(toServer, m) /\ phase' = "group" /\ bits' = NumberOfBits(Recommended)
          /\ m.type = GEX_REQUEST /\ m.body = NumberOfBits(Recommended)
      BY <2>1, <3>1 DEF StartExchange, Message
    <3> QED BY <2>1, <3>2
  <2>2. CASE ~Method.group
    <3>1. PICK m : m = Message(Method.request, GenerateKey)
      OBVIOUS
    <3>2. /\ toServer' = Append(toServer, m) /\ phase' = "reply" /\ bits' = bits
          /\ m.type = Method.request /\ m.body = GenerateKey
      BY <2>2, <3>1 DEF StartExchange, Message
    <3> QED BY <2>2, <3>2
  <2> QED BY <2>1, <2>2
<1>5. /\ UNCHANGED <<Offered, Ours, Chosen, Method, GenerateKey, ServerKey>>
      /\ (Sent => Sent') /\ (ServerRead => ServerRead') /\ Read'
  BY <1>1, <1>2, <1>4, ClientFrame
<1>6. phase' = "reply" => SameGroup'
  BY <1>4, <1>5 DEF SameGroup
<1>7. HandshakeTypeOK'
  BY <1>1, <1>4 DEF HandshakeTypeOK, ServerShape, Phases
<1>8. ClientKnows'
  BY <1>1, <1>2, <1>4, <1>5, <1>6 DEF ClientKnows
<1>9. ServerKnows'
  BY <1>1, <1>2, <1>5 DEF ServerKnows
<1>10. ASSUME NEW x PROVE GoodRequest(x) => GoodRequest(x)'
  BY <1>1, <1>5 DEF GoodRequest, Grouped, Replying
<1>11. GoodRequest(m)'
  BY <1>3, <1>4, <1>5, <1>6 DEF GoodRequest, Grouped, Replying
<1>12. ASSUME NEW x PROVE GoodMessage(x) /\ Due(x) => GoodMessage(x)' /\ Due(x)'
  <2>1. Floor' = Floor
    BY <1>1, <1>4, <1>5 DEF Floor
  <2> QED BY <1>1, <1>2, <1>5, <2>1 DEF GoodMessage, Due
<1>13. (IsSeq(toServer) /\ \A x \in ToSet(toServer) : GoodRequest(x))'
  BY <1>1, <1>4, <1>10, <1>11, ServerWire
<1>14. /\ (IsSeq(toClient) /\ \A x \in ToSet(toClient) : GoodMessage(x) /\ Due(x))'
       /\ InOrder(toClient)'
  BY <1>1, <1>12 DEF Wires, InOrder, Later
<1>15. Backed(toClient, Method.response)'
  BY <1>1, <1>2, NotBacked DEF Backed
<1> QED BY <1>4, <1>7, <1>8, <1>9, <1>13, <1>14, <1>15 DEF HandshakeInv, Wires, Introduced

\* The group both sides use from now on.
LEMMA HandleGroupStep == HandshakeInv /\ HandleGroup => HandshakeInv'
<1> SUFFICES ASSUME HandshakeInv, HandleGroup PROVE HandshakeInv'
  OBVIOUS
<1>1. /\ HandshakeTypeOK /\ ClientKnows /\ ServerKnows /\ Wires /\ Introduced /\ phase = "group"
      /\ toClient # <<>> /\ Head(toClient).type = GEX_GROUP
      /\ toClient' = Tail(toClient) /\ ClientUnchanged
  BY DEF HandshakeInv, HandleGroup
<1>2. CASE ~GroupAccepted(Head(toClient).body)
  BY <1>1, <1>2, FailStep DEF HandleGroup
<1>3. CASE GroupAccepted(Head(toClient).body)
  <2>1. Read /\ ~HasKeys /\ keys = None
    BY <1>1 DEF ClientKnows, HasKeys, Replying
  <2>2. HasGroup /\ Head(toClient).body = server.group[2]
    <3>1. GoodMessage(Head(toClient))
      BY <1>1, TailWire DEF Wires
    <3> QED BY <1>1, <2>1, <3>1 DEF GoodMessage, TEXT, IDENTIFICATION, KEXINIT, GEX_GROUP, NEWKEYS,
                                    Noise, IGNORE, UNKNOWN, DISCONNECT
  <2>3. /\ prime' = server.group[2] /\ phase' = "reply"
        /\ UNCHANGED <<config, server, error, version, ours, theirs, matched, bits, keys>>
    BY <1>3, <2>2 DEF HandleGroup, ClientUnchanged
  <2>4. PICK m : /\ toServer' = Append(toServer, m) /\ m.type = Method.request
                 /\ m.body = GenerateKey
    <3>1. PICK m : m = Message(Method.request, GenerateKey)
      OBVIOUS
    <3>2. m.type = Method.request /\ m.body = GenerateKey /\ toServer' = Append(toServer, m)
      BY <1>3, <3>1 DEF HandleGroup, Message
    <3> QED BY <3>2
  <2>5. /\ UNCHANGED <<Offered, Ours, Chosen, Method, GenerateKey, ServerKey>>
        /\ (Sent => Sent') /\ (ServerRead => ServerRead') /\ Read' /\ HasGroup'
    BY <2>1, <2>2, <2>3, ClientFrame DEF Grouped
  <2>6. SameGroup' /\ Method.group
    BY <2>2, <2>3, <2>5 DEF SameGroup, HasGroup
  <2>7. HandshakeTypeOK'
    BY <1>1, <2>3 DEF HandshakeTypeOK, ServerShape, Phases
  <2>8. ClientKnows'
    BY <1>1, <2>1, <2>3, <2>5, <2>6 DEF ClientKnows
  <2>9. ServerKnows'
    BY <1>1, <2>1, <2>3, <2>5 DEF ServerKnows
  <2>10. ASSUME NEW x PROVE GoodRequest(x) => GoodRequest(x)'
    BY <1>1, <2>3, <2>5 DEF GoodRequest, Grouped, Replying
  <2>11. GoodRequest(m)'
    <3>1. Method.request \in {30, 32}
      BY <1>1, <2>1, ReadFacts
    <3> QED BY <2>3, <2>4, <2>5, <2>6, <3>1 DEF GoodRequest, Replying
  <2>12. ASSUME NEW x, Later(Head(toClient), x), GoodMessage(x) PROVE GoodMessage(x)' /\ Due(x)'
    <3>1. GoodMessage(x)'
      BY <2>1, <2>3, <2>5, <2>12 DEF GoodMessage
    <3>2. x.type \in Noise \/ Rank(x.type) > 3
      BY <1>1, <2>12, Ranks DEF Later, GEX_GROUP, TEXT
    <3>3. x.type \in Noise \/ Rank(x.type) >= 4
      BY <2>12, <3>2, RankNat
    <3>4. Floor' = 4
      BY <2>3, <2>5, <2>6 DEF Floor
    <3> QED BY <3>1, <3>3, <3>4 DEF Due
  <2>13. (IsSeq(toServer) /\ \A x \in ToSet(toServer) : GoodRequest(x))'
    BY <1>1, <2>4, <2>10, <2>11, ServerWire
  <2>14. /\ (IsSeq(toClient) /\ \A x \in ToSet(toClient) : GoodMessage(x) /\ Due(x))'
         /\ InOrder(toClient)'
    BY <1>1, <2>12, ClientReads
  <2>15. Backed(toClient, Method.response)'
    <3>1. Backed(toClient, Method.response) /\ Head(toClient).type # Method.response
      <4>1. Method.response = 33
        BY <1>1, <2>1, <2>6, ReadFacts
      <4> QED BY <1>1, <2>1, <4>1, NotBacked DEF GEX_GROUP
    <3>2. Backed(toClient', Method.response)
      BY <1>1, <3>1, TailBacked DEF Wires
    <3> QED BY <2>5, <3>2 DEF Backed
  <2> QED BY <2>3, <2>7, <2>8, <2>9, <2>13, <2>14, <2>15 DEF HandshakeInv, Wires, Introduced
<1> QED BY <1>2, <1>3

\* The client's last steps, with the keys known on both sides: nothing of what is known
\* changes but the phase and the client's own keys.
LEMMA FinishStep ==
  ASSUME HandshakeInv, HasKeys, ClientUnchanged, toClient # <<>>, toClient' = Tail(toClient),
         UNCHANGED <<error, version, ours, theirs, matched, bits, prime>>,
         phase' \in {"newkeys", "up"}, keys' = Initialized(TheHash),
         \/ toServer' = toServer
         \/ \E m : toServer' = Append(toServer, m) /\ m.type = NEWKEYS /\ m.body
  PROVE  HandshakeInv'
<1>1. /\ HandshakeTypeOK /\ ClientKnows /\ ServerKnows /\ Wires
      /\ UNCHANGED <<config, server, error, version, ours, theirs, matched, bits, prime>>
  BY DEF HandshakeInv, ClientUnchanged
<1>2. /\ UNCHANGED <<Offered, Ours, Chosen, Method, GenerateKey, ServerKey, TheHash>>
      /\ (Sent => Sent') /\ (ServerRead => ServerRead') /\ (Read => Read')
      /\ (HasGroup => HasGroup') /\ (SameGroup => SameGroup') /\ HasKeys'
  BY <1>1, ClientFrame DEF Grouped, Replying
<1>3. keys' = Initialized(server'.keys.session) /\ keys' # None
  BY <1>1, NotNone DEF HasKeys, ServerKeys
<1>4. HandshakeTypeOK'
  BY <1>1 DEF HandshakeTypeOK, ServerShape, Phases
<1>5. ClientKnows'
  <2>1. Read' /\ Sent' /\ SameGroup' /\ version = server.software /\ server.phase # "banner"
    <3>1. server.ours = Offered /\ Offered # None /\ version = server.software
      BY <1>1, NotNone DEF HasKeys, Read, Sent, Offered, HandshakeTypeOK, ServerShape
    <3>2. Read' /\ Sent' /\ SameGroup'
      BY <1>2 DEF HasKeys, Read
    <3> QED BY <1>1, <3>1, <3>2 DEF ServerKnows
  <2> QED BY <1>1, <1>2, <1>3, <2>1 DEF ClientKnows
<1>6. ServerKnows'
  BY <1>1, <1>2 DEF ServerKnows
<1>7. ASSUME NEW x PROVE GoodRequest(x) => GoodRequest(x)'
  BY <1>1, <1>2 DEF GoodRequest, Grouped, Replying
<1>8. ASSUME NEW x, GoodMessage(x) PROVE GoodMessage(x)' /\ Due(x)'
  <2>1. GoodMessage(x)'
    BY <1>1, <1>2, <1>8 DEF GoodMessage
  <2>2. Floor' = 0
    BY DEF Floor
  <2> QED BY <1>8, <2>1, <2>2, RankNat DEF Due
<1>9. (IsSeq(toServer) /\ \A x \in ToSet(toServer) : GoodRequest(x))'
  <2>1. \A m : m.type = NEWKEYS /\ m.body => GoodRequest(m)'
    BY DEF GoodRequest
  <2> QED BY <1>1, <1>7, <2>1, ServerWire
<1>10. /\ (IsSeq(toClient) /\ \A x \in ToSet(toClient) : GoodMessage(x) /\ Due(x))'
       /\ InOrder(toClient)'
  BY <1>1, <1>8, ClientReads
<1> QED BY <1>4, <1>5, <1>6, <1>9, <1>10 DEF HandshakeInv, Wires, Introduced

\* The server's reply: its hash is the client's, so only the host key may be refused.
LEMMA ReplyStep == HandshakeInv /\ HandleReply => HandshakeInv'
<1> SUFFICES ASSUME HandshakeInv, HandleReply PROVE HandshakeInv'
  OBVIOUS
<1>1. /\ HandshakeTypeOK /\ ClientKnows /\ ServerKnows /\ Wires /\ phase = "reply"
      /\ toClient # <<>> /\ Head(toClient).type = Method.response
      /\ toClient' = Tail(toClient) /\ ClientUnchanged
  BY DEF HandshakeInv, HandleReply
<1>2. Read /\ SameGroup
  BY <1>1 DEF ClientKnows
<1>3. Method.group \in BOOLEAN /\ Method.response = IF Method.group THEN 33 ELSE 31
  BY <1>1, <1>2, ReadFacts
<1> DEFINE m == Head(toClient).body
<1>4. HasKeys /\ m.hash = TheHash /\ m.public = ServerKey
  <2>1. GoodMessage(Head(toClient))
    BY <1>1, TailWire DEF Wires
  <2> QED BY <1>1, <1>3, <2>1 DEF GoodMessage, HasGroup, TEXT, IDENTIFICATION, KEXINIT, GEX_GROUP,
                                  NEWKEYS, Noise, IGNORE, UNKNOWN, DISCONNECT
<1>5. m.hash = Hash(m.public) /\ Hash(m.public) = TheHash
  BY <1>4 DEF TheHash
<1>6. PICK accepted \in BOOLEAN :
        IF ~Trusted(m, accepted) THEN Fail("untrusted")
        ELSE /\ keys' = Initialized(TheHash)
             /\ toServer' = Append(toServer, Message(NEWKEYS, m.genuine /\ accepted))
             /\ phase' = "newkeys"
             /\ UNCHANGED <<error, count, version, ours, theirs, matched, bits, prime>>
  BY <1>5 DEF HandleReply
<1>7. CASE ~Trusted(m, accepted)
  <2>1. Fail("untrusted")
    BY <1>6, <1>7
  <2> QED BY <1>1, <2>1, FailStep
<1>8. CASE Trusted(m, accepted)
  <2>1. \E n : toServer' = Append(toServer, n) /\ n.type = NEWKEYS /\ n.body
    <3>1. PICK n : n = Message(NEWKEYS, m.genuine /\ accepted)
      OBVIOUS
    <3>2. n.type = NEWKEYS /\ n.body
      BY <1>8, <3>1 DEF Message, Trusted
    <3>3. toServer' = Append(toServer, n)
      BY <1>6, <1>8, <3>1
    <3> QED BY <3>2, <3>3
  <2>2. /\ keys' = Initialized(TheHash) /\ phase' = "newkeys"
        /\ UNCHANGED <<error, version, ours, theirs, matched, bits, prime>>
    BY <1>6, <1>8
  <2> HIDE DEF m
  <2> QED BY <1>1, <1>4, <2>1, <2>2, FinishStep
<1> QED BY <1>7, <1>8

\* The server's NEWKEYS.
LEMMA NewKeysStep == HandshakeInv /\ HandleNewKeys => HandshakeInv'
<1> SUFFICES ASSUME HandshakeInv, HandleNewKeys PROVE HandshakeInv'
  OBVIOUS
<1>1. HasKeys /\ keys = Initialized(TheHash)
  <2>1. HasKeys /\ phase = "newkeys"
    BY DEF HandshakeInv, ClientKnows, HandleNewKeys
  <2>2. keys # None
    BY <2>1 DEF HandshakeInv, ClientKnows
  <2> QED BY <2>1, <2>2 DEF HandshakeInv, ClientKnows, HasKeys, ServerKeys
<1> QED BY <1>1, FinishStep DEF HandleNewKeys

\* If both sides are strict, what the client reads is what it waits for.
LEMMA NeverTrips ==
  ASSUME HandshakeInv, phase # "newkeys", Awaited # 0, toClient # <<>>,
         Head(toClient).type # Awaited
  PROVE  ~Strict
<1> SUFFICES ASSUME Strict PROVE FALSE
  OBVIOUS
<1>1. HandshakeTypeOK /\ ClientKnows /\ ServerKnows /\ Wires
  BY DEF HandshakeInv
<1>2. Read /\ theirs = OfferOf(server.offer, server.strict)
  BY <1>1 DEF ClientKnows, Strict, Read, Offered
<1>3. config.strict /\ server.strict
  <2>1. server.offer \in Offers /\ server.strict \in BOOLEAN
    BY <1>1 DEF HandshakeTypeOK, ServerShape
  <2>2. StrictMarker(OfferOf(server.offer, server.strict)["kex"]) /\ config.strict
    BY <1>2 DEF Strict
  <2> QED BY <2>1, <2>2, OfferKex
<1>4. phase \in {"group", "reply"}
  BY <1>2 DEF Awaited, Read
<1> DEFINE m == Head(toClient)
<1>5. GoodMessage(m) /\ Due(m)
  BY <1>1, TailWire DEF Wires
<1>6. Method.group \in BOOLEAN /\ Method.response = IF Method.group THEN 33 ELSE 31
  BY <1>1, <1>2, ReadFacts
<1>7. Floor \in {3, 4} /\ (phase = "reply" => Floor = IF Method.group THEN 4 ELSE 3)
  BY <1>4, <1>6 DEF Floor
<1>8. m.type \in {31, 33, NEWKEYS} /\ m.type \notin Noise
  BY <1>3, <1>5, <1>7, Ranks DEF GoodMessage, Due
<1>9. CASE phase = "group"
  <2>1. m.type # 31
    BY <1>9, Ranks DEF Awaited
  <2>2. ~HasKeys
    BY <1>9 DEF HasKeys, Replying
  <2>3. m.type # NEWKEYS /\ m.type # 33
    BY <1>1, <2>2, NotBacked, TailWire DEF Wires
  <2> QED BY <1>8, <2>1, <2>3
<1>10. CASE phase = "reply"
  <2>1. m.type # Method.response
    BY <1>10 DEF Awaited
  <2>2. m.type # NEWKEYS
    BY <1>1, <1>10, TailBacked DEF Wires
  <2>3. m.type # 33
    BY <1>5, <1>6, <2>1 DEF GoodMessage, TEXT, IDENTIFICATION, KEXINIT, GEX_GROUP, NEWKEYS,
                            Noise, IGNORE, UNKNOWN, DISCONNECT
  <2>4. m.type # 31
    BY <1>5, <1>6, <1>7, <1>10, <2>1, Ranks DEF Due
  <2> QED BY <1>8, <2>2, <2>3, <2>4
<1> QED BY <1>4, <1>9, <1>10

\* handle_msg ignores what is not awaited.
LEMMA OtherStep == HandshakeInv /\ HandleOther => HandshakeInv'
<1> SUFFICES ASSUME HandshakeInv, HandleOther PROVE HandshakeInv'
  OBVIOUS
<1>1. /\ HandshakeTypeOK /\ ClientKnows /\ ServerKnows /\ Wires /\ Introduced
      /\ Awaited # 0 /\ toClient # <<>> /\ Head(toClient).type # Awaited
      /\ toClient' = Tail(toClient) /\ ClientUnchanged
  BY DEF HandshakeInv, HandleOther
<1>2. ~(phase # "newkeys" /\ Trips)
  BY <1>1, NeverTrips DEF Trips
<1>3. CASE Fail("disconnected")
  BY <1>1, <1>3, FailStep
<1>4. CASE ~Fail("disconnected")
  <2>1. /\ toServer' = toServer \/ toServer' = Append(toServer, Message(UNIMPLEMENTED, 0))
        /\ UNCHANGED <<config, server, phase, error, count, version, ours, theirs, matched, bits,
                       prime, keys>>
    BY <1>2, <1>4 DEF HandleOther, ClientUnchanged
  <2>2. /\ UNCHANGED <<Offered, Ours, Chosen, Method, GenerateKey, ServerKey, TheHash, Floor>>
        /\ UNCHANGED <<Sent, ServerRead, Read, SameGroup, HasGroup, HasKeys>>
    BY <2>1, ServerFrame DEF ServerUnchanged
  <2>3. HandshakeTypeOK' /\ ClientKnows' /\ ServerKnows'
    BY <1>1, <2>1, <2>2 DEF HandshakeTypeOK, ServerShape, ClientKnows, ServerKnows
  <2>4. ASSUME NEW x PROVE GoodRequest(x) => GoodRequest(x)'
    BY <2>1, <2>2 DEF GoodRequest
  <2>5. ASSUME NEW x PROVE GoodMessage(x) /\ Due(x) => GoodMessage(x)' /\ Due(x)'
    BY <2>1, <2>2 DEF GoodMessage, Due
  <2>6. (IsSeq(toServer) /\ \A x \in ToSet(toServer) : GoodRequest(x))'
    <3>1. PICK m : m = Message(UNIMPLEMENTED, 0)
      OBVIOUS
    <3>2. GoodRequest(m)'
      BY <3>1 DEF GoodRequest, Message
    <3>3. toServer' = toServer \/ \E n : toServer' = Append(toServer, n) /\ GoodRequest(n)'
      BY <2>1, <3>1, <3>2
    <3> QED BY <1>1, <2>4, <3>3, ServerWire
  <2>7. /\ (IsSeq(toClient) /\ \A x \in ToSet(toClient) : GoodMessage(x) /\ Due(x))'
        /\ InOrder(toClient)'
    BY <1>1, <2>5, ClientReads
  <2>8. (phase = "reply" => Backed(toClient, Method.response))'
    <3>1. phase = "reply" => Backed(toClient', Method.response)
      <4> SUFFICES ASSUME phase = "reply" PROVE Backed(toClient', Method.response)
        OBVIOUS
      <4>1. Head(toClient).type # Method.response
        BY <1>1 DEF Awaited
      <4> QED BY <1>1, <4>1, TailBacked DEF Wires
    <3> QED BY <2>1, <2>2, <3>1 DEF Backed
  <2>9. Introduced'
    BY <1>1, <2>1 DEF Introduced, Awaited
  <2> QED BY <2>3, <2>6, <2>7, <2>8, <2>9 DEF HandshakeInv, Wires
<1> QED BY <1>3, <1>4

\* The line is too long, or the connection closed.
LEMMA EndStep == HandshakeInv /\ (BannerFull \/ HangUp) => HandshakeInv'
<1>1. HandshakeInv /\ BannerFull => HandshakeInv'
  BY FailStep DEF BannerFull
<1>2. HandshakeInv /\ HangUp => HandshakeInv'
  BY FailStep DEF HangUp
<1> QED BY <1>1, <1>2

\* The invariant holds before anything was sent,
LEMMA HandshakeStarts == Init => HandshakeInv
<1> SUFFICES ASSUME Init PROVE HandshakeInv
  OBVIOUS
<1>1. /\ server.phase = "banner" /\ server.ours = None /\ server.theirs = None
      /\ server.chosen = None /\ server.group = None /\ server.keys = None
  BY DEF Init
<1>2. HandshakeTypeOK
  BY DEF Init, HandshakeTypeOK, ServerShape, Phases
<1>3. ToSet(toServer) = {} /\ ToSet(toClient) = {} /\ Len(toClient) = 0
  BY DEF Init, ToSet
<1>4. IsSeq(toServer) /\ IsSeq(toClient)
  BY DEF Init, IsSeq
<1>5. ClientKnows /\ ServerKnows
  BY <1>1 DEF Init, ClientKnows, ServerKnows
<1>6. Wires
  BY <1>3, <1>4 DEF Init, Wires, InOrder
<1>7. Introduced
  BY <1>1, <1>3 DEF Introduced
<1> QED BY <1>2, <1>5, <1>6, <1>7 DEF HandshakeInv

\* and every step keeps it.
LEMMA HandshakeStep == NoPad /\ HandshakeInv /\ [Next]_vars => HandshakeInv'
<1> SUFFICES ASSUME NoPad, HandshakeInv, [Next]_vars PROVE HandshakeInv'
  OBVIOUS
<1>1. CASE Client
  BY <1>1, LineStep, EndStep, SendStep, NegotiateStep, StartStep, HandleGroupStep, ReplyStep,
     NewKeysStep, OtherStep DEF Client
<1>2. CASE ServerMoves
  BY <1>2, IdentifiesStep, KexInitStep, NegotiatesStep, GroupStep, RepliesStep, QuietStep DEF ServerMoves
<1>3. CASE ServerTalks \/ ServerNoise \/ ServerGone
  BY <1>3, TalksStep, NoiseStep, QuietStep
<1>4. CASE UNCHANGED vars
  <2>1. ServerUnchanged /\ toClient' = toClient /\ toServer' = toServer /\ server' = server
    BY <1>4 DEF vars, ServerUnchanged
  <2>2. server' = [server EXCEPT !.phase = server'.phase, !.said = server'.said,
                                 !.noise = server'.noise]
    BY <2>1 DEF HandshakeInv, HandshakeTypeOK, ServerShape
  <2> QED BY <2>1, <2>2, QuietHears
<1> QED BY <1>1, <1>2, <1>3, <1>4 DEF Next

\* In every reachable state each side's knowledge of the other is what the other has sent,
\* and what is under way was made from it, in the order of the protocol.
THEOREM HandshakeInvariant == NoPad => (Spec => []HandshakeInv)
<1> SUFFICES ASSUME NoPad PROVE Spec => []HandshakeInv
  OBVIOUS
<1>1. HandshakeInv /\ [Next]_vars => HandshakeInv'
  BY HandshakeStep
<1> QED BY <1>1, HandshakeStarts, PTL DEF Spec

\* Config::negotiate and the server's rule come to the same algorithms or both to none,
\* Methods::parse and the server to the same strictness, and PlainStream::handle_msg never
\* accuses a server that keeps to strict key exchange.
THEOREM NegotiationAlwaysRight == NoPad => (Spec => []NegotiationRight)
<1> SUFFICES ASSUME NoPad PROVE Spec => []NegotiationRight
  OBVIOUS
<1>1. HandshakeInv => NegotiationRight
  <2> SUFFICES ASSUME HandshakeInv PROVE NegotiationRight
    OBVIOUS
  <2>1. HandshakeTypeOK /\ ClientKnows /\ ServerKnows
    BY DEF HandshakeInv
  <2>2. server.offer \in Offers /\ server.strict \in BOOLEAN /\ config.strict \in BOOLEAN
    BY <2>1 DEF HandshakeTypeOK, ServerShape
  <2>3. matched # None /\ server.chosen # None => matched = server.chosen
    BY <2>1, ReadFacts DEF ClientKnows, ServerKnows
  <2>4. error = "negotiation" => \E c \in Categories : Best(Preferred[c], server.offer[c]) = Nothing
    <3> SUFFICES ASSUME error = "negotiation"
                 PROVE  \E c \in Categories : Best(Preferred[c], server.offer[c]) = Nothing
      OBVIOUS
    <3>1. Negotiate(Parsed(OfferOf(server.offer, server.strict))) = None
      BY <2>1 DEF ClientKnows, Offered
    <3> QED BY <2>2, <3>1, PickAgrees
  <2>5. phase = "up" => (Strict = ServerStrict)
    <3> SUFFICES ASSUME phase = "up" PROVE Strict = ServerStrict
      OBVIOUS
    <3>1. Read /\ ServerRead
      BY <2>1 DEF ClientKnows, HasKeys
    <3>2. /\ theirs = OfferOf(server.offer, server.strict) /\ theirs # None
          /\ server.theirs = OursOf(config.strict) /\ server.theirs # None
      BY <2>2, <3>1, NotNone DEF Read, ServerRead, Sent, Offered, Ours
    <3>3. StrictMarker(theirs["kex"]) <=> server.strict
      BY <2>2, <3>2, OfferKex
    <3>4. StrictClient \in ToSet(server.theirs["kex"]) <=> config.strict
      <4>1. StrictClient \notin ToSet(Preferred["kex"])
        <5>1. StrictClient \notin KexNames
          BY DEF StrictClient, KexNames, MlKem, Curve, Ecdh, Group14, GroupExchange
        <5> QED BY <5>1, HandshakeAssumption
      <4>2. StrictClient \in ToSet(OursOf(config.strict)["kex"])
              <=> (StrictClient \in ToSet(Preferred["kex"]) \/ (config.strict /\ StrictClient = StrictClient))
        BY <2>2, OursKex
      <4> QED BY <3>2, <4>1, <4>2
    <3>5. Strict <=> (server.strict /\ config.strict)
      BY <3>2, <3>3 DEF Strict
    <3>6. ServerStrict <=> (server.strict /\ config.strict)
      BY <3>2, <3>4 DEF ServerStrict
    <3>7. Strict \in BOOLEAN /\ ServerStrict \in BOOLEAN
      BY <2>2, <3>2 DEF Strict, ServerStrict, StrictMarker
    <3> QED BY <3>5, <3>6, <3>7
  <2>6. error # "strict"
    BY <2>1 DEF ClientKnows
  <2> QED BY <2>3, <2>4, <2>5, <2>6 DEF NegotiationRight
<1> QED BY <1>1, HandshakeInvariant, PTL

\* compute_hash and compute_keys give both sides the same session identifier and crossed
\* keys, whatever the method and the group; no correct signature is refused, and no NEWKEYS
\* goes out without the signature verified and the host key accepted.
THEOREM KeysAlwaysAgree == NoPad => (Spec => []KeysAgree)
<1> SUFFICES ASSUME NoPad PROVE Spec => []KeysAgree
  OBVIOUS
<1>1. HandshakeInv => KeysAgree
  <2> SUFFICES ASSUME HandshakeInv PROVE KeysAgree
    OBVIOUS
  <2>1. ClientKnows /\ Wires
    BY DEF HandshakeInv
  <2>2. keys # None => /\ keys.send = server.keys.receive /\ keys.receive = server.keys.send
                       /\ keys.session = server.keys.session
    <3> SUFFICES ASSUME keys # None
                 PROVE  /\ keys.send = server.keys.receive /\ keys.receive = server.keys.send
                        /\ keys.session = server.keys.session
      OBVIOUS
    <3>1. keys = Initialized(server.keys.session) /\ server.keys = ServerKeys(TheHash)
      BY <2>1 DEF ClientKnows, HasKeys
    <3>2. server.keys.session = TheHash
      BY <3>1 DEF ServerKeys
    <3> QED BY <3>1, <3>2 DEF ServerKeys, Initialized
  <2>3. ASSUME NEW i \in DOMAIN toServer, toServer[i].type = NEWKEYS PROVE toServer[i].body
    <3>1. GoodRequest(toServer[i])
      BY <2>1 DEF Wires, ToSet
    <3> QED BY <2>3, <3>1 DEF GoodRequest, NEWKEYS, UNIMPLEMENTED, KEXINIT, GEX_REQUEST
  <2>4. error # "signature"
    BY <2>1 DEF ClientKnows
  <2> QED BY <2>2, <2>3, <2>4 DEF KeysAgree
<1> QED BY <1>1, HandshakeInvariant, PTL
=============================================================================
