-------------------------- MODULE TransportProofs --------------------------
(***************************************************************************)
(* For every set of suites, every sizes of packets and of reads, and every *)
(* modulus of the sequence numbers: a packet is opened in the state it was *)
(* sealed in, and no place of a cipher is used twice.                      *)
(*                                                                         *)
(* The packets on the way in one direction lead from the receiver's state  *)
(* to the sender's: the first was sealed in the state the receiver is in,  *)
(* each next one in the state the one before leaves behind, and the last   *)
(* leaves the state the sender is in.  That is Linked, for each direction, *)
(* and it is all that opening needs.  What makes it hard is that neither   *)
(* end is in such a state all the time: the sender's number is taken only  *)
(* when the packet has been flushed, and the receiver's cipher has moved   *)
(* in the middle of a packet, however often the reader was cancelled.      *)
(***************************************************************************)
EXTENDS Transport, TLAPS

-----------------------------------------------------------------------------
(* The ends of a direction, and the packets that lead from one to the      *)
(* other.  `l` is the Law: the suite, and what depends on nothing else.    *)

\* How far a packet moves the cipher.
Gain(keys, size) ==
  IF keys = 0 \/ suite.cipher = "chacha" THEN 0
  ELSE IF suite.cipher = "gcm" THEN 1
  ELSE 1 + size + Padding(keys, size) + (IF Framing(keys) = "mte" THEN 4 ELSE 0)

Law ==
  [suite |-> suite,
   gain |-> [x \in Nat \X Nat |-> Gain(x[1], x[2])],
   bytes |-> [x \in Nat \X Nat |-> WireLength(x[1], x[2])]]

\* What one end of a direction knows between two packets.
Places == [keys : Nat, at : Nat, zip : Nat, seq : 0..(SeqLimit - 1), auth : {0, 1}]

Zips(l, s) ==
  s.keys > 0 /\ (l.suite.zip = "zlib" \/ (l.suite.zip = "delayed" /\ s.auth = 1))

\* The packet was sealed, and compressed, in state s.
Sealed(l, p, s) ==
  /\ p.seal.keys = s.keys
  /\ s.keys = 0 => p.seal.at = 0
  /\ s.keys > 0 /\ l.suite.cipher = "chacha" => p.seal.at = s.seq
  /\ s.keys > 0 /\ l.suite.cipher # "chacha" => p.seal.at = s.at
  /\ p.seal.seq = IF s.keys > 0 /\ l.suite.cipher = "chain" THEN s.seq ELSE 0
  /\ p.zip = IF Zips(l, s) THEN s.zip + 1 ELSE 0
  /\ p.seq = s.seq

\* The number after n, without the modulus.
Following(n) == IF n + 1 = SeqLimit THEN 0 ELSE n + 1

\* The state a packet leaves behind.
Step(l, s, p) ==
  [keys |-> IF p.type = "newkeys" THEN s.keys + 1 ELSE s.keys,
   at   |-> IF p.type = "newkeys" \/ l.suite.cipher = "chacha" THEN 0
            ELSE s.at + l.gain[<<s.keys, p.size>>],
   zip  |-> IF p.type = "newkeys" THEN 0 ELSE IF Zips(l, s) THEN s.zip + 1 ELSE s.zip,
   seq  |-> IF p.type = "newkeys" /\ l.suite.strict THEN 0 ELSE Following(s.seq),
   auth |-> IF p.type = "success" THEN 1 ELSE s.auth]

\* State t comes n packets after state s: under the same keys the cipher has moved on,
\* and the number is n further, unless it has gone all the way round.
Later(l, s, t, n) ==
  /\ s.keys <= t.keys
  /\ s.keys = t.keys =>
       /\ s.keys > 0 /\ l.suite.cipher # "chacha" => s.at < t.at
       /\ n < SeqLimit =>
            t.seq = IF s.seq + n < SeqLimit THEN s.seq + n ELSE s.seq + n - SeqLimit

Chain(l, w, a, b, s) ==
  /\ s \in [1..(Len(w) + 1) -> Places]
  /\ s[1] = a /\ s[Len(w) + 1] = b
  /\ \A i \in 1..Len(w) : Sealed(l, w[i], s[i]) /\ s[i + 1] = Step(l, s[i], w[i])
  /\ \A i, j \in 1..(Len(w) + 1) : i < j => Later(l, s[i], s[j], j - i)

\* The packets w lead from state a to state b.
Linked(l, w, a, b) == \E s : Chain(l, w, a, b, s)

\* The packets w are n bytes; f says how many come before each.
Offsets(l, w, n, f) ==
  /\ f \in [1..(Len(w) + 1) -> Nat]
  /\ f[1] = 0 /\ f[Len(w) + 1] = n
  /\ \A i \in 1..Len(w) : f[i + 1] = f[i] + l.bytes[<<w[i].seal.keys, w[i].size>>]
  /\ \A i, j \in 1..(Len(w) + 1) : i <= j => f[i] <= f[j]

Measured(l, w, n) == \E f : Offsets(l, w, n, f)

-----------------------------------------------------------------------------
(* The inductive invariant.                                                *)

CipherStates == [keys : Nat, at : Nat, zip : Nat, aad : Nat]

Packets(types) ==
  [type : types, size : Nat, seal : [keys : Nat, at : Nat, seq : Nat], zip : Nat,
   seq : Nat, names : Int, meant : Nat]

ClientTypes == {"data", "newkeys", "unimplemented"}

ServerTypes == {"data", "odd", "newkeys", "success"}

Numbers == 0..(SeqLimit - 1)

TypeOK ==
  /\ suite \in Suites
  /\ toServer \in Seq(Packets(ClientTypes)) /\ toClient \in Seq(Packets(ServerTypes))
  /\ unsent \in Nat /\ incoming \in Nat /\ have \in Nat
  /\ reading \in {"off", "on", "peeked", "odd"}
  /\ state \in {"none", "ready", "length"}
  /\ failed \in {"no", "eof"}
  /\ authenticated \in BOOLEAN
  /\ client \in Numbers /\ server \in Numbers
  /\ encrypt \in CipherStates /\ decrypt \in CipherStates
  /\ peer \in [out : CipherStates, in : CipherStates, outSeq : Numbers, inSeq : Numbers,
               authenticated : BOOLEAN, failed : BOOLEAN]
  /\ hungUp \in BOOLEAN
  /\ odd \in Nat

Place(cs, at, seq, auth) ==
  [keys |-> cs.keys, at |-> IF suite.cipher = "chacha" THEN 0 ELSE at, zip |-> cs.zip,
   seq |-> seq, auth |-> auth]

Auth == IF authenticated THEN 1 ELSE 0

PeerAuth == IF peer.authenticated THEN 1 ELSE 0

\* The client's number is taken when the packet has been flushed.
Sender ==
  Place(encrypt, encrypt.at,
        IF unsent = 0 THEN client ELSE Numbered(client, toServer[Len(toServer)].type), Auth)

\* (The server knows of its SUCCESS before the client; nothing is on the way then.)
PeerReceiver == Place(peer.in, peer.in.at, peer.inSeq, Auth)

PeerSender == Place(peer.out, peer.out.at, peer.outSeq, PeerAuth)

\* The client's cipher is past the first block once MAC-then-encrypt knows the length.
Receiver ==
  Place(decrypt, IF state = "length" THEN Headless.at ELSE decrypt.at, server, Auth)

ToServerLinked == Linked(Law, toServer, PeerReceiver, Sender)

ToClientLinked == Linked(Law, toClient, Receiver, PeerSender)

\* The bytes of a packet that has not been read to the end are still there.
BytesCounted ==
  /\ Measured(Law, toClient, incoming)
  /\ have <= incoming
  /\ failed = "eof" => toClient = <<>> /\ hungUp

\* One exchange of keys at a time, begun by the client.
KeysInStep ==
  /\ decrypt.keys <= encrypt.keys /\ encrypt.keys <= decrypt.keys + 1
  /\ peer.out.keys <= encrypt.keys

\* Where the reader is, and what it has done to the cipher.
ReaderInStep ==
  /\ reading # "off" => unsent = 0
  /\ decrypt.keys = 0 => state = "none"
  /\ reading \in {"on", "peeked"} /\ decrypt.keys > 0 => state # "none"
  /\ state = "length" => Framing(decrypt.keys) \in {"aead", "mte"}
  /\ reading = "peeked" /\ Framing(decrypt.keys) \in {"aead", "mte"} => state = "length"
  /\ LengthKnown => toClient # <<>>
  /\ decrypt.aad = IF state = "length" /\ Framing(decrypt.keys) = "aead" THEN 1 ELSE 0
  /\ suite.cipher = "chacha" /\ state # "none" => decrypt.at = server

\* While SUCCESS is on the way nothing is sent to the server, and nothing before it is
\* answered.
SuccessAlone ==
  /\ peer.authenticated <=> authenticated \/ AwaitsSuccess
  /\ authenticated => ~AwaitsSuccess
  /\ peer.authenticated /\ ~authenticated => toServer = <<>> /\ reading # "odd"
  /\ \A i, j \in DOMAIN toClient :
       i < j /\ toClient[j].type = "success" => toClient[i].type \notin {"odd", "success"}
  /\ \A i \in DOMAIN toClient :
       toClient[i].type = "odd" /\ toClient[i].seal.keys > 0 => peer.authenticated

UnsentIsLast == unsent > 0 => toServer # <<>>

\* The packet that was not understood is the one read last.
OddIsLast ==
  reading = "odd" /\ encrypt.keys > 0 => decrypt.keys > 0 /\ odd = (server - 1) % SeqLimit

Inv ==
  /\ TypeOK
  /\ ToServerLinked /\ ToClientLinked /\ BytesCounted
  /\ KeysInStep /\ ReaderInStep /\ SuccessAlone /\ UnsentIsLast /\ OddIsLast
  /\ ~peer.failed
  /\ NamesRejected
-----------------------------------------------------------------------------
(* Arithmetic.                                                             *)

\* What is used of a Law: a packet moves the cipher, unless its place is the number, and
\* is longer than what is read of it first.
GoodLaw(l) ==
  \A k, n \in Nat :
    /\ l.gain[<<k, n>>] \in Nat
    /\ k > 0 /\ l.suite.cipher # "chacha" => l.gain[<<k, n>>] > 0
    /\ l.bytes[<<k, n>>] \in Nat
    /\ l.bytes[<<k, n>>] >= 4
    /\ k > 0 => l.bytes[<<k, n>>] >= 16

\* The padding is a number of bytes whatever the framing.
LEMMA PaddingNat ==
  ASSUME NEW k \in Nat, NEW n \in Nat
  PROVE  Padding(k, n) \in Nat
<1>1. BlockSize(k) \in {8, 16}
  BY DEF BlockSize
<1>2. Aligned(k, n) \in Nat
  BY DEF Aligned
<1>3. \A x \in Nat : x % 8 \in 0..7 /\ x % 16 \in 0..15
  BY SMT
<1> QED
  BY <1>1, <1>2, <1>3 DEF Padding, MinPadding

\* The sizes of this model are what a Law asks for.
LEMMA LawGood ==
  /\ GoodLaw(Law)
  /\ Law.suite = suite
  /\ \A k, n \in Nat : Law.gain[<<k, n>>] = Gain(k, n) /\ Law.bytes[<<k, n>>] = WireLength(k, n)
<1>1. Law.suite = suite
  BY DEF Law
<1>2. ASSUME NEW k \in Nat, NEW n \in Nat
      PROVE  Law.gain[<<k, n>>] = Gain(k, n) /\ Law.bytes[<<k, n>>] = WireLength(k, n)
  BY DEF Law
<1>3. ASSUME NEW k \in Nat, NEW n \in Nat
      PROVE  /\ Gain(k, n) \in Nat
             /\ k > 0 /\ suite.cipher # "chacha" => Gain(k, n) > 0
             /\ WireLength(k, n) \in Nat /\ WireLength(k, n) >= 4
             /\ k > 0 => WireLength(k, n) >= 16
  <2>1. Padding(k, n) \in Nat
    BY PaddingNat
  <2> QED
    BY <2>1 DEF Gain, WireLength, TagLength
<1> QED
  BY <1>1, <1>2, <1>3 DEF GoodLaw

\* The suite is negotiated once, and the Law depends on nothing else.
LEMMA LawFixed ==
  ASSUME suite' = suite
  PROVE  Law' = Law
<1>1. \A k, n : Framing(k)' = Framing(k)
  BY DEF Framing
<1>2. \A k, n : Padding(k, n)' = Padding(k, n)
  BY <1>1 DEF Padding, BlockSize, Aligned
<1>3. \A k, n : Gain(k, n)' = Gain(k, n)
  BY <1>1, <1>2 DEF Gain
<1>4. \A k, n : WireLength(k, n)' = WireLength(k, n)
  BY <1>2 DEF WireLength, TagLength
<1> QED
  BY <1>3, <1>4 DEF Law

\* wrapping_add(1), and what it takes back.
LEMMA AfterFacts ==
  ASSUME NEW n \in Numbers
  PROVE  /\ After(n) = Following(n) /\ Following(n) \in Numbers
         /\ (Following(n) - 1) % SeqLimit = n
<1>1. SeqLimit \in Nat /\ SeqLimit > 0 /\ n \in Nat /\ n < SeqLimit
  BY TransportAssumption DEF Numbers
<1>2. CASE n + 1 = SeqLimit
  <2>1. (n + 1) % SeqLimit = 0
    BY <1>1, <1>2
  <2>2. (0 - 1) % SeqLimit = SeqLimit - 1
    BY <1>1
  <2> QED
    BY <1>1, <1>2, <2>1, <2>2 DEF After, Following, Numbers
<1>3. CASE n + 1 # SeqLimit
  <2>1. (n + 1) % SeqLimit = n + 1
    BY <1>1, <1>3
  <2>2. n % SeqLimit = n /\ (n + 1) - 1 = n
    BY <1>1
  <2> QED
    BY <1>1, <1>3, <2>1, <2>2 DEF After, Following, Numbers
<1> QED
  BY <1>2, <1>3
-----------------------------------------------------------------------------
(* Packets that lead from one state to another.                            *)

\* A packet leaves a proper state behind, one packet later.
LEMMA StepPlace ==
  ASSUME NEW l, GoodLaw(l), NEW s \in Places, NEW p, p.size \in Nat
  PROVE  Step(l, s, p) \in Places /\ Later(l, s, Step(l, s, p), 1)
<1>1. s.seq \in Numbers /\ s.keys \in Nat /\ s.at \in Nat /\ s.zip \in Nat /\ s.auth \in {0, 1}
  BY DEF Places, Numbers
<1>2. Following(s.seq) \in Numbers /\ SeqLimit \in Nat
  BY <1>1, AfterFacts, TransportAssumption
<1>3. /\ l.gain[<<s.keys, p.size>>] \in Nat
      /\ s.keys > 0 /\ l.suite.cipher # "chacha" => l.gain[<<s.keys, p.size>>] > 0
  BY <1>1 DEF GoodLaw
<1>4. 0 \in Numbers
  BY TransportAssumption DEF Numbers
<1>5. Step(l, s, p) \in Places
  BY <1>1, <1>2, <1>3, <1>4 DEF Step, Places, Numbers
<1>6. Later(l, s, Step(l, s, p), 1)
  BY <1>1, <1>2, <1>3 DEF Later, Step, Numbers, Following
<1> QED
  BY <1>5, <1>6

\* One packet more.
LEMMA StepLater ==
  ASSUME NEW l, GoodLaw(l), NEW s \in Places, NEW t \in Places, NEW p, p.size \in Nat,
         NEW n \in Nat, n > 0, Later(l, s, t, n)
  PROVE  Later(l, s, Step(l, t, p), n + 1)
<1>1. /\ s.seq \in Numbers /\ s.keys \in Nat /\ s.at \in Nat
      /\ t.seq \in Numbers /\ t.keys \in Nat /\ t.at \in Nat
  BY DEF Places, Numbers
<1>2. SeqLimit \in Nat
  BY TransportAssumption
<1>3. /\ l.gain[<<t.keys, p.size>>] \in Nat
      /\ t.keys > 0 /\ l.suite.cipher # "chacha" => l.gain[<<t.keys, p.size>>] > 0
  BY <1>1 DEF GoodLaw
<1> DEFINE u == Step(l, t, p)
<1>4. /\ u.keys = IF p.type = "newkeys" THEN t.keys + 1 ELSE t.keys
      /\ u.at = IF p.type = "newkeys" \/ l.suite.cipher = "chacha" THEN 0
                ELSE t.at + l.gain[<<t.keys, p.size>>]
      /\ u.seq = IF p.type = "newkeys" /\ l.suite.strict THEN 0 ELSE Following(t.seq)
  BY DEF Step
<1> HIDE DEF u
<1>5. s.keys <= u.keys
  BY <1>1, <1>4 DEF Later
<1>6. ASSUME s.keys = u.keys
      PROVE  /\ s.keys > 0 /\ l.suite.cipher # "chacha" => s.at < u.at
             /\ n + 1 < SeqLimit =>
                  u.seq = IF s.seq + (n + 1) < SeqLimit THEN s.seq + (n + 1)
                          ELSE s.seq + (n + 1) - SeqLimit
  <2>1. p.type # "newkeys" /\ s.keys = t.keys
    BY <1>1, <1>4, <1>6 DEF Later
  <2>2. s.keys > 0 /\ l.suite.cipher # "chacha" => s.at < u.at
    BY <1>1, <1>3, <1>4, <2>1 DEF Later
  <2>3. u.seq = Following(t.seq)
    BY <1>4, <2>1
  <2>4. n + 1 < SeqLimit =>
          t.seq = IF s.seq + n < SeqLimit THEN s.seq + n ELSE s.seq + n - SeqLimit
    BY <1>2, <2>1 DEF Later
  <2> QED
    BY <1>1, <1>2, <2>2, <2>3, <2>4 DEF Following, Numbers
<1> QED
  BY <1>5, <1>6 DEF Later, u

\* The sender has sealed one packet more.
LEMMA AppendLinked ==
  ASSUME NEW l, GoodLaw(l), NEW M, NEW w \in Seq(M), NEW a, NEW b, Linked(l, w, a, b),
         NEW p, p.size \in Nat, Sealed(l, p, b)
  PROVE  Linked(l, Append(w, p), a, Step(l, b, p))
<1>1. PICK s : Chain(l, w, a, b, s)
  BY DEF Linked
<1> DEFINE n == Len(w)
           v == Append(w, p)
           c == Step(l, b, p)
           t == [i \in 1..(n + 2) |-> IF i = n + 2 THEN c ELSE s[i]]
<1>2. n \in Nat /\ Len(v) = n + 1 /\ v[n + 1] = p /\ \A i \in 1..n : v[i] = w[i]
  OBVIOUS
<1>3. /\ s \in [1..(n + 1) -> Places] /\ s[1] = a /\ s[n + 1] = b
      /\ \A i \in 1..n : Sealed(l, w[i], s[i]) /\ s[i + 1] = Step(l, s[i], w[i])
      /\ \A i, j \in 1..(n + 1) : i < j => Later(l, s[i], s[j], j - i)
  BY <1>1 DEF Chain
<1> HIDE DEF n, v
<1>4. b \in Places
  BY <1>2, <1>3
<1>5. c \in Places /\ Later(l, b, c, 1)
  BY <1>4, StepPlace
<1>6. ASSUME NEW i \in 1..(n + 1)
      PROVE  Later(l, s[i], c, (n + 2) - i)
  <2>1. CASE i = n + 1
    BY <1>2, <1>3, <1>5, <2>1
  <2>2. CASE i # n + 1
    <3>1. i \in Nat /\ i < n + 1 /\ (n + 1) - i \in Nat /\ (n + 1) - i > 0 /\ s[i] \in Places
      BY <1>2, <1>3, <2>2
    <3>2. Later(l, s[i], b, (n + 1) - i)
      BY <1>2, <1>3, <3>1
    <3>3. Later(l, s[i], c, ((n + 1) - i) + 1)
      BY <3>1, <3>2, <1>4, StepLater
    <3>4. ((n + 1) - i) + 1 = (n + 2) - i
      BY <1>2, <3>1
    <3> QED
      BY <3>3, <3>4
  <2> QED
    BY <2>1, <2>2
<1> HIDE DEF c
<1>7. t \in [1..((n + 1) + 1) -> Places] /\ t[1] = a /\ t[(n + 1) + 1] = c
  BY <1>2, <1>3, <1>5
<1>8. ASSUME NEW i \in 1..(n + 1)
      PROVE  Sealed(l, v[i], t[i]) /\ t[i + 1] = Step(l, t[i], v[i])
  <2>1. CASE i = n + 1
    <3>1. v[i] = p /\ t[i] = b /\ t[i + 1] = c
      BY <1>2, <1>3, <2>1
    <3> QED
      BY <3>1 DEF c
  <2>2. CASE i # n + 1
    <3>1. i \in 1..n /\ v[i] = w[i] /\ t[i] = s[i] /\ t[i + 1] = s[i + 1]
      BY <1>2, <2>2
    <3> QED
      BY <1>3, <3>1
  <2> QED
    BY <2>1, <2>2
<1>9. ASSUME NEW i \in 1..((n + 1) + 1), NEW j \in 1..((n + 1) + 1), i < j
      PROVE  Later(l, t[i], t[j], j - i)
  <2>1. CASE j = n + 2
    <3>1. i \in 1..(n + 1) /\ t[i] = s[i] /\ t[j] = c
      BY <1>2, <1>9, <2>1
    <3> QED
      BY <1>6, <3>1, <2>1
  <2>2. CASE j # n + 2
    <3>1. i \in 1..(n + 1) /\ j \in 1..(n + 1) /\ t[i] = s[i] /\ t[j] = s[j]
      BY <1>2, <1>9, <2>2
    <3> QED
      BY <1>3, <1>9, <3>1
  <2> QED
    BY <2>1, <2>2
<1> HIDE DEF t
<1>10. Chain(l, v, a, c, t)
  BY <1>2, <1>7, <1>8, <1>9 DEF Chain
<1> QED
  BY <1>10 DEF Linked, v, c

\* The first packet was sealed in the receiver's state, and opening it leaves a state the
\* others lead on from.
LEMMA TailLinked ==
  ASSUME NEW l, NEW M, NEW w \in Seq(M), w # <<>>, NEW a, NEW b, Linked(l, w, a, b)
  PROVE  /\ Sealed(l, Head(w), a)
         /\ Linked(l, Tail(w), Step(l, a, Head(w)), b)
<1>1. PICK s : Chain(l, w, a, b, s)
  BY DEF Linked
<1> DEFINE n == Len(w)
           v == Tail(w)
           t == [i \in 1..n |-> s[i + 1]]
<1>2. /\ n \in Nat /\ n >= 1 /\ Len(v) = n - 1 /\ Head(w) = w[1]
      /\ \A i \in 1..(n - 1) : v[i] = w[i + 1]
  OBVIOUS
<1>3. /\ s \in [1..(n + 1) -> Places] /\ s[1] = a /\ s[n + 1] = b
      /\ \A i \in 1..n : Sealed(l, w[i], s[i]) /\ s[i + 1] = Step(l, s[i], w[i])
      /\ \A i, j \in 1..(n + 1) : i < j => Later(l, s[i], s[j], j - i)
  BY <1>1 DEF Chain
<1> HIDE DEF n, v
<1>4. Sealed(l, Head(w), a) /\ s[2] = Step(l, a, Head(w))
  BY <1>2, <1>3
<1>5. t \in [1..((n - 1) + 1) -> Places] /\ t[1] = s[2] /\ t[(n - 1) + 1] = b
  BY <1>2, <1>3
<1>6. ASSUME NEW i \in 1..(n - 1)
      PROVE  Sealed(l, v[i], t[i]) /\ t[i + 1] = Step(l, t[i], v[i])
  <2>1. i + 1 \in 1..n /\ v[i] = w[i + 1] /\ t[i] = s[i + 1] /\ t[i + 1] = s[(i + 1) + 1]
    BY <1>2
  <2> QED
    BY <1>3, <2>1
<1>7. ASSUME NEW i \in 1..((n - 1) + 1), NEW j \in 1..((n - 1) + 1), i < j
      PROVE  Later(l, t[i], t[j], j - i)
  <2>1. /\ i + 1 \in 1..(n + 1) /\ j + 1 \in 1..(n + 1) /\ i + 1 < j + 1
        /\ t[i] = s[i + 1] /\ t[j] = s[j + 1] /\ (j + 1) - (i + 1) = j - i
    BY <1>2, <1>7
  <2>2. Later(l, s[i + 1], s[j + 1], (j + 1) - (i + 1))
    BY <1>3, <2>1
  <2> QED
    BY <2>1, <2>2
<1> HIDE DEF t
<1>8. Chain(l, v, s[2], b, t)
  BY <1>2, <1>5, <1>6, <1>7 DEF Chain
<1> QED
  BY <1>4, <1>8 DEF Linked, v

\* Nothing is on the way: both ends are in the same state.
LEMMA EmptyLinked ==
  ASSUME NEW l
  PROVE  /\ \A a \in Places : Linked(l, <<>>, a, a)
         /\ \A a, b : Linked(l, <<>>, a, b) => a = b /\ a \in Places
<1>1. Len(<<>>) = 0
  OBVIOUS
<1>2. ASSUME NEW a \in Places
      PROVE  Linked(l, <<>>, a, a)
  <2> DEFINE s == [i \in 1..1 |-> a]
  <2>1. s \in [1..(0 + 1) -> Places] /\ s[1] = a /\ s[0 + 1] = a
    OBVIOUS
  <2>2. \A i, j \in 1..(0 + 1) : ~(i < j)
    OBVIOUS
  <2>3. \A i \in 1..0 : FALSE
    OBVIOUS
  <2> HIDE DEF s
  <2>4. Chain(l, <<>>, a, a, s)
    BY <1>1, <2>1, <2>2, <2>3 DEF Chain
  <2> QED
    BY <2>4 DEF Linked
<1>3. ASSUME NEW a, NEW b, Linked(l, <<>>, a, b)
      PROVE  a = b /\ a \in Places
  BY <1>1, <1>3 DEF Linked, Chain
<1> QED
  BY <1>2, <1>3

\* The ends are proper states, and keys only get newer.
LEMMA LinkedEnds ==
  ASSUME NEW l, NEW M, NEW w \in Seq(M), NEW a, NEW b, Linked(l, w, a, b)
  PROVE  /\ a \in Places /\ b \in Places /\ a.keys <= b.keys
         /\ \A i \in 1..Len(w) : a.keys <= w[i].seal.keys
<1>1. PICK s : Chain(l, w, a, b, s)
  BY DEF Linked
<1> DEFINE n == Len(w)
<1>2. n \in Nat
  OBVIOUS
<1>3. /\ s \in [1..(n + 1) -> Places] /\ s[1] = a /\ s[n + 1] = b
      /\ \A i \in 1..n : Sealed(l, w[i], s[i])
      /\ \A i, j \in 1..(n + 1) : i < j => Later(l, s[i], s[j], j - i)
  BY <1>1 DEF Chain
<1> HIDE DEF n
<1>4. a \in Places /\ b \in Places
  BY <1>2, <1>3
<1>5. ASSUME NEW i \in 1..(n + 1)
      PROVE  a.keys <= s[i].keys
  <2>1. CASE i = 1
    BY <1>3, <1>4, <2>1 DEF Places
  <2>2. CASE i # 1
    BY <1>2, <1>3, <2>2 DEF Later
  <2> QED
    BY <2>1, <2>2
<1>6. \A i \in 1..n : w[i].seal.keys = s[i].keys /\ i \in 1..(n + 1)
  BY <1>2, <1>3 DEF Sealed
<1>7. n + 1 \in 1..(n + 1)
  BY <1>2
<1> QED
  BY <1>3, <1>4, <1>5, <1>6, <1>7 DEF n

\* The same of two packets, n apart.
LEMMA PairFresh ==
  ASSUME NEW l, NEW p, NEW q, NEW x \in Places, NEW y \in Places, NEW n \in Nat, n > 0,
         Sealed(l, p, x), Sealed(l, q, y), Later(l, x, y, n),
         p.seal.keys > 0, p.seal.keys = q.seal.keys, p.seal.at = q.seal.at
  PROVE  l.suite.cipher = "chacha" /\ n >= SeqLimit
<1>1. /\ x.keys \in Nat /\ x.keys > 0 /\ x.keys # 0 /\ y.keys = x.keys
      /\ x.at \in Nat /\ y.at \in Nat /\ x.seq \in Numbers
  BY DEF Sealed, Places, Numbers
<1>2. l.suite.cipher = "chacha"
  <2>1. SUFFICES ASSUME l.suite.cipher # "chacha" PROVE FALSE
    OBVIOUS
  <2>2. p.seal.at = x.at /\ q.seal.at = y.at
    BY <1>1, <2>1 DEF Sealed
  <2>3. x.at < y.at
    BY <1>1, <2>1 DEF Later
  <2>4. x.at = y.at
    BY <2>2, Zenon
  <2> QED
    BY <1>1, <2>3, <2>4
<1>3. x.seq = y.seq
  BY <1>1, <1>2 DEF Sealed
<1>4. ~(n < SeqLimit)
  BY <1>1, <1>3, TransportAssumption DEF Later, Numbers
<1> QED
  BY <1>2, <1>4, TransportAssumption

\* Of two packets sealed under the same keys at the same place, the number of the later
\* one has gone all the way round.
LEMMA LinkedFresh ==
  ASSUME NEW l, NEW M, NEW w \in Seq(M), NEW a, NEW b, Linked(l, w, a, b),
         NEW i \in 1..Len(w), NEW j \in 1..Len(w), i < j,
         w[i].seal.keys > 0, w[i].seal.keys = w[j].seal.keys, w[i].seal.at = w[j].seal.at
  PROVE  l.suite.cipher = "chacha" /\ j - i >= SeqLimit
<1>1. PICK s : Chain(l, w, a, b, s)
  BY DEF Linked
<1>2. i \in 1..(Len(w) + 1) /\ j \in 1..(Len(w) + 1) /\ j - i \in Nat /\ j - i > 0
  OBVIOUS
<1>3. /\ Sealed(l, w[i], s[i]) /\ Sealed(l, w[j], s[j]) /\ Later(l, s[i], s[j], j - i)
      /\ s[i] \in Places /\ s[j] \in Places
  BY <1>1, <1>2 DEF Chain
<1> QED
  BY <1>2, <1>3, PairFresh
-----------------------------------------------------------------------------
(* The bytes of the packets on the way.                                    *)

\* One packet more.
LEMMA AppendMeasured ==
  ASSUME NEW l, GoodLaw(l), NEW M, NEW w \in Seq(M), NEW n, Measured(l, w, n),
         NEW p, p.seal.keys \in Nat, p.size \in Nat
  PROVE  Measured(l, Append(w, p), n + l.bytes[<<p.seal.keys, p.size>>])
<1>1. PICK f : Offsets(l, w, n, f)
  BY DEF Measured
<1> DEFINE k == Len(w)
           v == Append(w, p)
           m == l.bytes[<<p.seal.keys, p.size>>]
           g == [i \in 1..(k + 2) |-> IF i = k + 2 THEN n + m ELSE f[i]]
<1>2. k \in Nat /\ Len(v) = k + 1 /\ v[k + 1] = p /\ \A i \in 1..k : v[i] = w[i]
  OBVIOUS
<1>3. /\ f \in [1..(k + 1) -> Nat] /\ f[1] = 0 /\ f[k + 1] = n
      /\ \A i \in 1..k : f[i + 1] = f[i] + l.bytes[<<w[i].seal.keys, w[i].size>>]
      /\ \A i, j \in 1..(k + 1) : i <= j => f[i] <= f[j]
  BY <1>1 DEF Offsets
<1>4. m \in Nat
  BY DEF GoodLaw
<1> HIDE DEF k, v, m
<1>5. n \in Nat
  BY <1>2, <1>3
<1>6. g \in [1..((k + 1) + 1) -> Nat] /\ g[1] = 0 /\ g[(k + 1) + 1] = n + m
  BY <1>2, <1>3, <1>4, <1>5
<1>7. ASSUME NEW i \in 1..(k + 1)
      PROVE  g[i + 1] = g[i] + l.bytes[<<v[i].seal.keys, v[i].size>>]
  <2>1. CASE i = k + 1
    <3>1. v[i] = p /\ g[i] = n /\ g[i + 1] = n + m
      BY <1>2, <1>3, <2>1
    <3> QED
      BY <3>1 DEF m
  <2>2. CASE i # k + 1
    <3>1. i \in 1..k /\ v[i] = w[i] /\ g[i] = f[i] /\ g[i + 1] = f[i + 1]
      BY <1>2, <2>2
    <3> QED
      BY <1>3, <3>1
  <2> QED
    BY <2>1, <2>2
<1>8. ASSUME NEW i \in 1..((k + 1) + 1), NEW j \in 1..((k + 1) + 1), i <= j
      PROVE  g[i] <= g[j]
  <2>1. CASE i = k + 2
    BY <1>2, <1>4, <1>5, <1>8, <2>1
  <2>2. CASE i # k + 2 /\ j = k + 2
    <3>1. i \in 1..(k + 1) /\ k + 1 \in 1..(k + 1) /\ i <= k + 1 /\ g[i] = f[i] /\ g[j] = n + m
      BY <1>2, <2>2
    <3>2. f[i] <= n /\ f[i] \in Nat
      BY <1>3, <3>1
    <3> QED
      BY <1>4, <1>5, <3>1, <3>2
  <2>3. CASE i # k + 2 /\ j # k + 2
    <3>1. i \in 1..(k + 1) /\ j \in 1..(k + 1) /\ g[i] = f[i] /\ g[j] = f[j]
      BY <1>2, <2>3
    <3> QED
      BY <1>3, <1>8, <3>1
  <2> QED
    BY <2>1, <2>2, <2>3
<1> HIDE DEF g
<1>9. Offsets(l, v, n + m, g)
  BY <1>2, <1>6, <1>7, <1>8 DEF Offsets
<1> QED
  BY <1>9 DEF Measured, v, m

\* The first packet is among them, and the rest are the others'.
LEMMA TailMeasured ==
  ASSUME NEW l, GoodLaw(l), NEW M, NEW w \in Seq(M), w # <<>>, NEW n, Measured(l, w, n),
         \A i \in 1..Len(w) : w[i].seal.keys \in Nat /\ w[i].size \in Nat
  PROVE  LET m == l.bytes[<<Head(w).seal.keys, Head(w).size>>]
         IN  m \in Nat /\ m <= n /\ n - m \in Nat /\ Measured(l, Tail(w), n - m)
<1>1. PICK f : Offsets(l, w, n, f)
  BY DEF Measured
<1> DEFINE k == Len(w)
           v == Tail(w)
           m == l.bytes[<<Head(w).seal.keys, Head(w).size>>]
           g == [i \in 1..k |-> f[i + 1] - m]
<1>2. /\ k \in Nat /\ k >= 1 /\ Len(v) = k - 1 /\ Head(w) = w[1]
      /\ \A i \in 1..(k - 1) : v[i] = w[i + 1]
  OBVIOUS
<1>3. /\ f \in [1..(k + 1) -> Nat] /\ f[1] = 0 /\ f[k + 1] = n
      /\ \A i \in 1..k : f[i + 1] = f[i] + l.bytes[<<w[i].seal.keys, w[i].size>>]
      /\ \A i, j \in 1..(k + 1) : i <= j => f[i] <= f[j]
  BY <1>1 DEF Offsets
<1>4. 1 + 1 = 2 /\ 1 \in 1..k /\ 2 \in 1..(k + 1) /\ k + 1 \in 1..(k + 1) /\ 2 <= k + 1
  BY <1>2
<1>5. \A i \in 1..k : l.bytes[<<w[i].seal.keys, w[i].size>>] \in Nat
  BY DEF GoodLaw
<1>6. m \in Nat
  BY <1>2, <1>4, <1>5
<1>7. m = f[2] /\ m \in Nat /\ m <= n /\ n \in Nat
  <2>1. f[1 + 1] = f[1] + m
    BY <1>2, <1>3, <1>4
  <2> HIDE DEF m, k
  <2> QED
    BY <1>3, <1>4, <1>6, <2>1
<1> HIDE DEF k, v
<1> HIDE DEF m
<1>8. \A i \in 1..k : i + 1 \in 1..(k + 1) /\ 2 <= i + 1 /\ f[i + 1] \in Nat /\ m <= f[i + 1]
  BY <1>2, <1>3, <1>4, <1>7
<1>9. g \in [1..((k - 1) + 1) -> Nat] /\ g[1] = 0 /\ g[(k - 1) + 1] = n - m
  BY <1>2, <1>3, <1>4, <1>7, <1>8
<1>10. ASSUME NEW i \in 1..(k - 1)
       PROVE  g[i + 1] = g[i] + l.bytes[<<v[i].seal.keys, v[i].size>>]
  <2> DEFINE b == l.bytes[<<w[i + 1].seal.keys, w[i + 1].size>>]
  <2>1. /\ i + 1 \in 1..k /\ i \in 1..k /\ v[i] = w[i + 1]
        /\ g[i] = f[i + 1] - m /\ g[i + 1] = f[(i + 1) + 1] - m
    BY <1>2
  <2>2. f[(i + 1) + 1] = f[i + 1] + b
    BY <1>3, <2>1
  <2>3. f[i + 1] \in Nat /\ b \in Nat /\ m \in Nat
    BY <1>5, <1>7, <1>8, <2>1
  <2>4. l.bytes[<<v[i].seal.keys, v[i].size>>] = b
    BY <2>1
  <2> HIDE DEF b, g
  <2>5. g[i + 1] = g[i] + b
    BY <2>1, <2>2, <2>3
  <2> QED
    BY <2>4, <2>5
<1>11. ASSUME NEW i \in 1..((k - 1) + 1), NEW j \in 1..((k - 1) + 1), i <= j
       PROVE  g[i] <= g[j]
  <2>1. /\ i \in 1..k /\ j \in 1..k /\ i + 1 <= j + 1
        /\ g[i] = f[i + 1] - m /\ g[j] = f[j + 1] - m
    BY <1>2, <1>11
  <2>2. f[i + 1] <= f[j + 1] /\ f[i + 1] \in Nat /\ f[j + 1] \in Nat
    BY <1>3, <1>8, <2>1
  <2> QED
    BY <1>7, <2>1, <2>2
<1> HIDE DEF g
<1>12. Offsets(l, v, n - m, g)
  BY <1>2, <1>9, <1>10, <1>11 DEF Offsets
<1>13. Measured(l, v, n - m) /\ n - m \in Nat
  BY <1>7, <1>12 DEF Measured
<1> QED
  BY <1>7, <1>13 DEF v, m

\* Nothing is on the way: no bytes.
LEMMA EmptyMeasured ==
  ASSUME NEW l
  PROVE  Measured(l, <<>>, 0) /\ \A n : Measured(l, <<>>, n) => n = 0
<1>1. Len(<<>>) = 0
  OBVIOUS
<1> DEFINE f == [i \in 1..1 |-> 0]
<1>2. f \in [1..(0 + 1) -> Nat] /\ f[1] = 0 /\ f[0 + 1] = 0
  OBVIOUS
<1>3. \A i, j \in 1..(0 + 1) : f[i] <= f[j]
  OBVIOUS
<1>4. \A i \in 1..0 : FALSE
  OBVIOUS
<1> HIDE DEF f
<1>5. Offsets(l, <<>>, 0, f)
  BY <1>1, <1>2, <1>3, <1>4 DEF Offsets
<1>6. \A n : Measured(l, <<>>, n) => n = 0
  BY <1>1 DEF Measured, Offsets
<1> QED
  BY <1>5, <1>6 DEF Measured
-----------------------------------------------------------------------------
(* What the model does to a packet, in the terms of Sealed and Step.       *)

\* Which framing goes with which cipher.
LEMMA FramingFacts ==
  ASSUME suite \in Suites, NEW k \in Nat
  PROVE  /\ Framing(k) = "plain" <=> k = 0
         /\ Framing(k) = "aead" <=> k > 0 /\ suite.cipher # "chain"
         /\ Framing(k) \in {"etm", "mte"} <=> k > 0 /\ suite.cipher = "chain"
         /\ Framing(k) \in {"plain", "aead", "etm", "mte"}
         /\ suite.cipher \in {"chacha", "gcm", "chain"}
         /\ suite.zip \in {"none", "zlib", "delayed"}
<1>1. suite.cipher \in {"chacha", "gcm", "chain"} /\ suite.zip \in {"none", "zlib", "delayed"}
  BY TransportAssumption DEF Ciphers
<1> QED
  BY <1>1 DEF Framing

\* Seal is Sealed.
LEMMA SealedIn ==
  ASSUME suite \in Suites, NEW cs \in CipherStates, NEW seq \in Numbers, NEW a \in {0, 1},
         NEW p, p.seal = Seal(cs, seq), p.seq = seq,
         p.zip = IF Zips(Law, Place(cs, cs.at, seq, a)) THEN cs.zip + 1 ELSE 0
  PROVE  Sealed(Law, p, Place(cs, cs.at, seq, a))
<1> DEFINE s == Place(cs, cs.at, seq, a)
<1>1. /\ s.keys = cs.keys /\ s.zip = cs.zip /\ s.seq = seq
      /\ s.at = IF suite.cipher = "chacha" THEN 0 ELSE cs.at
  BY DEF Place
<1>2. cs.keys \in Nat
  BY DEF CipherStates
<1>3. /\ p.seal.keys = cs.keys
      /\ p.seal.at = IF cs.keys = 0 THEN 0 ELSE Nonce(cs, seq)
      /\ p.seal.seq = MacNumber(cs, seq)
  BY DEF Seal
<1>4. MacNumber(cs, seq) = IF cs.keys > 0 /\ suite.cipher = "chain" THEN seq ELSE 0
  BY <1>2, FramingFacts DEF MacNumber
<1>5. Law.suite = suite
  BY LawGood
<1> HIDE DEF s
<1>6. /\ s.keys = 0 => p.seal.at = 0
      /\ s.keys > 0 /\ suite.cipher = "chacha" => p.seal.at = s.seq
      /\ s.keys > 0 /\ suite.cipher # "chacha" => p.seal.at = s.at
  BY <1>1, <1>2, <1>3 DEF Nonce
<1>7. p.seal.seq = IF s.keys > 0 /\ suite.cipher = "chain" THEN s.seq ELSE 0
  BY <1>1, <1>3, <1>4
<1>8. p.zip = IF Zips(Law, s) THEN s.zip + 1 ELSE 0
  BY <1>1 DEF s
<1>9. Sealed(Law, p, s)
  BY <1>1, <1>3, <1>5, <1>6, <1>7, <1>8 DEF Sealed
<1> QED
  BY <1>9 DEF s

\* Moved is a Gain.
LEMMA MovedGain ==
  ASSUME suite \in Suites, NEW cs \in CipherStates, NEW n \in Nat
  PROVE  /\ Moved(cs, n) = cs.at + Gain(cs.keys, n)
         /\ Moved(cs, n) \in Nat
         /\ cs.keys = 0 \/ suite.cipher = "chacha" => Moved(cs, n) = cs.at
<1>1. cs.keys \in Nat /\ cs.at \in Nat /\ Padding(cs.keys, n) \in Nat
  BY PaddingNat DEF CipherStates
<1> QED
  BY <1>1 DEF Moved, Gain

\* Numbered is the modulus that Step is without.
LEMMA NumberedFacts ==
  ASSUME NEW n \in Numbers, NEW type
  PROVE  /\ Numbered(n, type) = IF type = "newkeys" /\ suite.strict THEN 0 ELSE Following(n)
         /\ Numbered(n, type) \in Numbers
<1>1. After(n) = Following(n) /\ Following(n) \in Numbers
  BY AfterFacts
<1>2. 0 \in Numbers
  BY TransportAssumption DEF Numbers
<1> QED
  BY <1>1, <1>2 DEF Numbered

\* A cipher state that has moved, or is new, is what Step says.
LEMMA StepsTo ==
  ASSUME suite \in Suites, NEW cs \in CipherStates, NEW seq \in Numbers, NEW a \in {0, 1},
         NEW p, p.size \in Nat, NEW c,
         c.keys = IF p.type = "newkeys" THEN cs.keys + 1 ELSE cs.keys,
         c.at = IF p.type = "newkeys" THEN 0 ELSE Moved(cs, p.size),
         c.zip = IF p.type = "newkeys" THEN 0
                 ELSE IF Zips(Law, Place(cs, cs.at, seq, a)) THEN cs.zip + 1 ELSE cs.zip
  PROVE  Step(Law, Place(cs, cs.at, seq, a), p)
           = Place(c, c.at, Numbered(seq, p.type), IF p.type = "success" THEN 1 ELSE a)
<1> DEFINE s == Place(cs, cs.at, seq, a)
<1>1. /\ s.keys = cs.keys /\ s.zip = cs.zip /\ s.seq = seq /\ s.auth = a
      /\ s.at = IF suite.cipher = "chacha" THEN 0 ELSE cs.at
  BY DEF Place
<1>2. cs.keys \in Nat /\ cs.at \in Nat
  BY DEF CipherStates
<1>3. Law.suite = suite /\ Law.gain[<<cs.keys, p.size>>] = Gain(cs.keys, p.size)
  BY <1>2, LawGood
<1>4. Moved(cs, p.size) = cs.at + Gain(cs.keys, p.size)
  BY MovedGain
<1>5. Numbered(seq, p.type) = IF p.type = "newkeys" /\ suite.strict THEN 0 ELSE Following(seq)
  BY NumberedFacts
<1> HIDE DEF s
<1> DEFINE t == Step(Law, s, p)
<1>6. t.keys = c.keys
  BY <1>1 DEF Step
<1>7. t.at = IF suite.cipher = "chacha" THEN 0 ELSE c.at
  BY <1>1, <1>2, <1>3, <1>4 DEF Step
<1>8. t.zip = c.zip
  BY <1>1 DEF Step, s
<1>9. t.seq = Numbered(seq, p.type)
  BY <1>1, <1>3, <1>5 DEF Step
<1>10. t.auth = IF p.type = "success" THEN 1 ELSE a
  BY <1>1 DEF Step
<1>11. t = [keys |-> t.keys, at |-> t.at, zip |-> t.zip, seq |-> t.seq, auth |-> t.auth]
  BY DEF Step
<1> HIDE DEF t
<1>12. t = Place(c, c.at, Numbered(seq, p.type), IF p.type = "success" THEN 1 ELSE a)
  BY <1>6, <1>7, <1>8, <1>9, <1>10, <1>11 DEF Place
<1> QED
  BY <1>12 DEF t, s

\* Both sides compress the same packets, once both know of the authentication.
LEMMA ZipsFacts ==
  ASSUME TypeOK, NEW cs \in CipherStates, NEW at, NEW seq
  PROVE  /\ Compresses(cs, authenticated) <=> Zips(Law, Place(cs, at, seq, Auth))
         /\ ServerZip(cs).place = IF Zips(Law, Place(cs, at, seq, PeerAuth)) THEN cs.zip + 1 ELSE 0
         /\ ServerZip(cs).next = IF Zips(Law, Place(cs, at, seq, PeerAuth)) THEN cs.zip + 1 ELSE cs.zip
         /\ Auth \in {0, 1} /\ PeerAuth \in {0, 1}
<1>1. cs.keys \in Nat /\ Law.suite = suite /\ suite.zip \in {"none", "zlib", "delayed"}
  BY LawGood, FramingFacts DEF TypeOK, CipherStates
<1>2. ASSUME NEW a
      PROVE  Zips(Law, Place(cs, at, seq, a)) <=>
               cs.keys > 0 /\ (suite.zip = "zlib" \/ (suite.zip = "delayed" /\ a = 1))
  BY <1>1 DEF Zips, Place
<1>3. Compresses(cs, authenticated) <=> Zips(Law, Place(cs, at, seq, Auth))
  BY <1>1, <1>2 DEF Compresses, Auth
<1>4. Zips(Law, Place(cs, at, seq, PeerAuth)) <=>
        ~ (\/ cs.keys = 0 \/ suite.zip = "none"
           \/ suite.zip = "delayed" /\ ~peer.authenticated)
  BY <1>1, <1>2 DEF PeerAuth
<1>5. /\ ServerZip(cs).place = IF Zips(Law, Place(cs, at, seq, PeerAuth)) THEN cs.zip + 1 ELSE 0
      /\ ServerZip(cs).next = IF Zips(Law, Place(cs, at, seq, PeerAuth)) THEN cs.zip + 1 ELSE cs.zip
  <2>1. CASE Zips(Law, Place(cs, at, seq, PeerAuth))
    BY <1>4, <2>1 DEF ServerZip
  <2>2. CASE ~Zips(Law, Place(cs, at, seq, PeerAuth))
    BY <1>4, <2>2 DEF ServerZip
  <2> QED
    BY <2>1, <2>2
<1> QED
  BY <1>3, <1>5 DEF Auth, PeerAuth
-----------------------------------------------------------------------------
(* What an action leaves alone.                                            *)

\* The client's packets, when neither end of their direction moves.
LEMMA ToServerKept ==
  ASSUME ToServerLinked,
         UNCHANGED <<suite, toServer, unsent, client, encrypt, authenticated, peer>>
  PROVE  ToServerLinked'
<1>1. Law' = Law
  BY LawFixed
<1>2. PeerReceiver' = PeerReceiver /\ Sender' = Sender
  BY DEF PeerReceiver, Sender, Place, Auth, Numbered, After
<1> QED
  BY <1>1, <1>2 DEF ToServerLinked

\* The server's packets, when neither end of their direction moves.
LEMMA ToClientKept ==
  ASSUME ToClientLinked, UNCHANGED <<suite, toClient, peer>>, Receiver' = Receiver
  PROVE  ToClientLinked'
<1>1. Law' = Law
  BY LawFixed
<1>2. PeerSender' = PeerSender
  BY DEF PeerSender, Place, PeerAuth
<1> QED
  BY <1>1, <1>2 DEF ToClientLinked

\* The client's end of it.
LEMMA ReceiverKept ==
  ASSUME UNCHANGED <<suite, decrypt, state, server, authenticated>>
  PROVE  Receiver' = Receiver
BY DEF Receiver, Place, Headless, HeaderLength, Framing, BlockSize, Auth

\* The bytes on the way.
LEMMA MeasuredKept ==
  ASSUME Measured(Law, toClient, incoming), UNCHANGED <<suite, toClient, incoming>>
  PROVE  Measured(Law, toClient, incoming)'
<1>1. Law' = Law
  BY LawFixed
<1> QED
  BY <1>1

\* Who knows of the authentication.
LEMMA SuccessKept ==
  ASSUME SuccessAlone, UNCHANGED <<toClient, toServer, peer, authenticated>>,
         reading' # "odd" \/ reading' = reading
  PROVE  SuccessAlone'
<1>1. AwaitsSuccess' <=> AwaitsSuccess
  BY DEF AwaitsSuccess
<1> QED
  BY <1>1 DEF SuccessAlone

\* What the packets on the way name.
LEMMA NamesKept ==
  ASSUME NamesRejected, UNCHANGED toServer
  PROVE  NamesRejected'
BY DEF NamesRejected

\* Min of two numbers.
LEMMA MinFacts ==
  ASSUME NEW a \in Nat, NEW b \in Nat
  PROVE  Min({a, b}) \in {a, b} /\ Min({a, b}) <= a /\ Min({a, b}) <= b
<1>1. \E x \in {a, b} : \A y \in {a, b} : x <= y
  <2>1. CASE a <= b
    BY <2>1
  <2>2. CASE b <= a
    BY <2>2
  <2> QED
    BY <2>1, <2>2
<1>2. Min({a, b}) = CHOOSE x \in {a, b} : \A y \in {a, b} : x <= y
  BY DEF Min
<1> QED
  BY <1>1, <1>2

\* What is read next of the packet on the way is some of its bytes.
LEMMA WantedFacts ==
  ASSUME Inv, toClient # <<>>
  PROVE  /\ Head(toClient) \in Packets(ServerTypes)
         /\ Head(toClient).seal.keys = decrypt.keys
         /\ LET m == WireLength(Head(toClient).seal.keys, Head(toClient).size)
            IN  /\ m \in Nat /\ m <= incoming /\ HeaderLength <= m
                /\ LengthKnown => Wanted = m
                /\ Wanted \in Nat /\ Wanted <= incoming
<1> DEFINE p == Head(toClient)
           m == WireLength(p.seal.keys, p.size)
<1>1. p \in Packets(ServerTypes) /\ toClient \in Seq(Packets(ServerTypes))
  BY DEF Inv, TypeOK
<1>2. p.seal.keys \in Nat /\ p.size \in Nat
  BY <1>1 DEF Packets
<1>3. Sealed(Law, p, Receiver)
  BY <1>1, TailLinked DEF Inv, ToClientLinked
<1>4. p.seal.keys = decrypt.keys
  BY <1>3 DEF Sealed, Receiver, Place
<1>5. Law.bytes[<<p.seal.keys, p.size>>] = m /\ GoodLaw(Law)
  BY <1>2, LawGood
<1>6. m \in Nat /\ m >= 4 /\ (p.seal.keys > 0 => m >= 16)
  BY <1>2, <1>5 DEF GoodLaw
<1>7. \A i \in 1..Len(toClient) : toClient[i].seal.keys \in Nat /\ toClient[i].size \in Nat
  <2>1. \A i \in 1..Len(toClient) : toClient[i] \in Packets(ServerTypes)
    BY <1>1
  <2>2. \A q \in Packets(ServerTypes) : q.seal.keys \in Nat /\ q.size \in Nat
    BY DEF Packets
  <2> QED
    BY <2>1, <2>2
<1>8. m <= incoming
  BY <1>1, <1>5, <1>7, TailMeasured DEF Inv, BytesCounted
<1> HIDE DEF m
<1>9. HeaderLength <= m /\ HeaderLength \in Nat
  BY <1>2, <1>4, <1>6, FramingFacts DEF HeaderLength, BlockSize, Inv, TypeOK
<1>10. Wanted = IF LengthKnown THEN m ELSE HeaderLength
  BY DEF Wanted, m
<1>11. incoming \in Nat
  BY DEF Inv, TypeOK
<1>12. Wanted \in Nat /\ Wanted <= incoming
  BY <1>6, <1>8, <1>9, <1>10, <1>11
<1> QED
  BY <1>1, <1>4, <1>6, <1>8, <1>9, <1>10, <1>12 DEF m

-----------------------------------------------------------------------------
(* One lemma per action.                                                   *)

\* A new connection: nothing is on the way, and all four ends are in the first state.
LEMMA InitInv == Init => Inv
<1> SUFFICES ASSUME Init PROVE Inv
  OBVIOUS
<1>1. 0 \in Numbers
  BY TransportAssumption DEF Numbers
<1>2. TypeOK
  <2>1. toServer \in Seq(Packets(ClientTypes)) /\ toClient \in Seq(Packets(ServerTypes))
    BY DEF Init
  <2>2. Fresh(0) \in CipherStates
    BY DEF Fresh, CipherStates
  <2> QED
    BY <1>1, <2>1, <2>2 DEF Init, TypeOK
<1>3. PeerReceiver \in Places /\ Sender = PeerReceiver
  BY <1>1 DEF Init, PeerReceiver, Sender, Place, Fresh, Auth, Places, Numbers
<1>4. Receiver \in Places /\ PeerSender = Receiver
  BY <1>1 DEF Init, PeerSender, Receiver, Place, Fresh, Auth, PeerAuth, Places, Numbers
<1>5. ToServerLinked /\ ToClientLinked
  BY <1>3, <1>4, EmptyLinked DEF Init, ToServerLinked, ToClientLinked
<1>6. BytesCounted
  BY EmptyMeasured DEF Init, BytesCounted
<1>7. KeysInStep /\ ReaderInStep /\ UnsentIsLast /\ OddIsLast /\ ~peer.failed
  BY DEF Init, Fresh, KeysInStep, ReaderInStep, UnsentIsLast, OddIsLast, Framing, LengthKnown
<1>8. SuccessAlone /\ NamesRejected
  BY DEF Init, SuccessAlone, AwaitsSuccess, NamesRejected
<1> QED
  BY <1>2, <1>5, <1>6, <1>7, <1>8 DEF Inv

\* The server closes the connection.
LEMMA HangsUpStep ==
  ASSUME Inv, ServerHangsUp
  PROVE  Inv'
<1> USE DEF ServerHangsUp
<1>1. TypeOK' /\ ~peer'.failed
  BY DEF Inv, TypeOK
<1>2. ToServerLinked'
  BY ToServerKept DEF Inv
<1>3. ToClientLinked'
  BY ToClientKept, ReceiverKept DEF Inv
<1>4. BytesCounted'
  BY MeasuredKept DEF Inv, BytesCounted
<1>5. KeysInStep' /\ ReaderInStep' /\ UnsentIsLast' /\ OddIsLast'
  BY DEF Inv, KeysInStep, ReaderInStep, UnsentIsLast, OddIsLast, Framing, LengthKnown
<1>6. SuccessAlone' /\ NamesRejected'
  BY SuccessKept, NamesKept DEF Inv
<1> QED
  BY <1>1, <1>2, <1>3, <1>4, <1>5, <1>6 DEF Inv

\* A read is dropped while it waits: what it did to the cipher stays, and so does `state`.
LEMMA CancelStep ==
  ASSUME Inv, Cancel
  PROVE  Inv'
<1> USE DEF Cancel
<1>1. TypeOK' /\ ~peer'.failed
  BY DEF Inv, TypeOK
<1>2. ToServerLinked'
  BY ToServerKept DEF Inv
<1>3. ToClientLinked'
  BY ToClientKept, ReceiverKept DEF Inv
<1>4. BytesCounted'
  BY MeasuredKept DEF Inv, BytesCounted
<1>5. KeysInStep' /\ ReaderInStep' /\ UnsentIsLast' /\ OddIsLast'
  BY DEF Inv, KeysInStep, ReaderInStep, UnsentIsLast, OddIsLast, Framing, LengthKnown
<1>6. SuccessAlone' /\ NamesRejected'
  BY SuccessKept, NamesKept DEF Inv
<1> QED
  BY <1>1, <1>2, <1>3, <1>4, <1>5, <1>6 DEF Inv

\* Bytes arrive.
LEMMA ReadStep ==
  ASSUME Inv, InternalRead
  PROVE  Inv'
<1> USE DEF InternalRead
<1>1. have' \in Nat /\ have' <= incoming
  <2>1. PICK n \in ReadSizes : have' = Min({have + n, incoming})
    OBVIOUS
  <2>2. have + n \in Nat /\ incoming \in Nat
    BY TransportAssumption DEF Inv, TypeOK
  <2> QED
    BY <2>1, <2>2, MinFacts
<1>2. TypeOK' /\ ~peer'.failed
  BY <1>1 DEF Inv, TypeOK
<1>3. ToServerLinked'
  BY ToServerKept DEF Inv
<1>4. ToClientLinked'
  BY ToClientKept, ReceiverKept DEF Inv
<1>5. BytesCounted'
  BY <1>1, MeasuredKept DEF Inv, BytesCounted
<1>6. KeysInStep' /\ ReaderInStep' /\ UnsentIsLast' /\ OddIsLast'
  BY DEF Inv, KeysInStep, ReaderInStep, UnsentIsLast, OddIsLast, Framing, LengthKnown
<1>7. SuccessAlone' /\ NamesRejected'
  BY SuccessKept, NamesKept DEF Inv
<1> QED
  BY <1>2, <1>3, <1>4, <1>5, <1>6, <1>7 DEF Inv

\* The stream ends: no packet is cut short, for the server writes whole ones.
LEMMA EndOfFileStep ==
  ASSUME Inv, EndOfFile
  PROVE  Inv'
<1> USE DEF EndOfFile
<1>1. toClient = <<>>
  <2>1. SUFFICES ASSUME toClient # <<>> PROVE FALSE
    OBVIOUS
  <2>2. Wanted \in Nat /\ Wanted <= incoming
    BY <2>1, WantedFacts
  <2> QED
    BY <2>2 DEF Inv, TypeOK
<1>2. TypeOK' /\ ~peer'.failed
  BY DEF Inv, TypeOK
<1>3. ToServerLinked'
  BY ToServerKept DEF Inv
<1>4. ToClientLinked'
  BY ToClientKept, ReceiverKept DEF Inv
<1>5. BytesCounted'
  BY <1>1, MeasuredKept DEF Inv, BytesCounted
<1>6. KeysInStep' /\ ReaderInStep' /\ UnsentIsLast' /\ OddIsLast'
  BY DEF Inv, KeysInStep, ReaderInStep, UnsentIsLast, OddIsLast, Framing, LengthKnown
<1>7. SuccessAlone' /\ NamesRejected'
  BY SuccessKept, NamesKept DEF Inv
<1> QED
  BY <1>2, <1>3, <1>4, <1>5, <1>6, <1>7 DEF Inv

\* Bytes leave; with the last one the packet's number is taken, as Sender has it already.
LEMMA FlushStep ==
  ASSUME Inv, Flush
  PROVE  Inv'
<1> USE DEF Flush
<1>1. PICK n \in ReadSizes :
        /\ unsent' = unsent - Min({n, unsent})
        /\ client' = IF unsent - Min({n, unsent}) = 0
                     THEN Numbered(client, toServer[Len(toServer)].type) ELSE client
  OBVIOUS
<1>2. unsent' \in Nat
  <2>1. n \in Nat /\ unsent \in Nat
    BY TransportAssumption DEF Inv, TypeOK
  <2> QED
    BY <1>1, <2>1, MinFacts
<1>3. client' = IF unsent' = 0 THEN Numbered(client, toServer[Len(toServer)].type) ELSE client
  BY <1>1
<1>4. client \in Numbers
  BY DEF Inv, TypeOK
<1>5. client' \in Numbers
  BY <1>3, <1>4, NumberedFacts
<1>6. TypeOK' /\ ~peer'.failed
  BY <1>2, <1>5 DEF Inv, TypeOK
<1>7. ToServerLinked'
  <2>1. Law' = Law
    BY LawFixed
  <2>2. PeerReceiver' = PeerReceiver
    BY DEF PeerReceiver, Place, Auth
  <2>3. \A k, type : Numbered(k, type)' = Numbered(k, type)
    BY DEF Numbered, After
  <2>4. (IF unsent = 0 THEN client ELSE Numbered(client, toServer[Len(toServer)].type))'
          = IF unsent = 0 THEN client ELSE Numbered(client, toServer[Len(toServer)].type)
    <3>1. unsent # 0
      BY DEF Inv, TypeOK
    <3>2. CASE unsent' = 0
      BY <1>3, <3>1, <3>2
    <3>3. CASE unsent' # 0
      BY <1>3, <3>1, <3>3 DEF Numbered, After
    <3> QED
      BY <3>2, <3>3
  <2>5. Sender' = Sender
    BY <2>4 DEF Sender, Place, Auth
  <2> QED
    BY <2>1, <2>2, <2>5 DEF Inv, ToServerLinked
<1>8. ToClientLinked'
  BY ToClientKept, ReceiverKept DEF Inv
<1>9. BytesCounted'
  BY MeasuredKept DEF Inv, BytesCounted
<1>10. KeysInStep' /\ ReaderInStep' /\ UnsentIsLast' /\ OddIsLast'
  BY <1>2 DEF Inv, TypeOK, KeysInStep, ReaderInStep, UnsentIsLast, OddIsLast, Framing, LengthKnown
<1>11. SuccessAlone' /\ NamesRejected'
  BY SuccessKept, NamesKept DEF Inv
<1> QED
  BY <1>6, <1>7, <1>8, <1>9, <1>10, <1>11 DEF Inv

\* The first poll of a read tells the cipher the number, and only the first.
LEMMA PollStep ==
  ASSUME Inv, Poll
  PROVE  Inv'
<1> USE DEF Poll, Ready
<1>1. /\ decrypt \in CipherStates /\ server \in Nat /\ state \in {"none", "ready", "length"}
      /\ suite \in Suites
  BY DEF Inv, TypeOK, Numbers
<1>2. decrypt.at \in Nat /\ decrypt.keys \in Nat /\ decrypt.zip \in Nat /\ decrypt.aad \in Nat
  BY <1>1 DEF CipherStates
<1>3. Nonce(decrypt, server) \in Nat
  BY <1>1, <1>2 DEF Nonce
<1>4. decrypt' \in CipherStates
  BY <1>1, <1>2, <1>3 DEF CipherStates
<1>5. decrypt'.keys = decrypt.keys /\ decrypt'.zip = decrypt.zip /\ decrypt'.aad = decrypt.aad
  BY <1>1 DEF CipherStates
<1>6. state' \in {"none", "ready", "length"} /\ (state' = "length" <=> state = "length")
  BY <1>1
<1>7. suite.cipher # "chacha" \/ state = "length" => decrypt'.at = decrypt.at
  BY <1>1 DEF Nonce, CipherStates
<1>8. suite.cipher = "chacha" /\ state' # "none" => decrypt'.at = server
  <2>1. CASE state = "none"
    BY <1>1, <2>1 DEF Nonce, CipherStates
  <2>2. CASE state # "none"
    BY <1>1, <2>2 DEF Inv, ReaderInStep
  <2> QED
    BY <2>1, <2>2
<1>9. TypeOK' /\ ~peer'.failed
  BY <1>4, <1>6 DEF Inv, TypeOK
<1>10. ToServerLinked'
  BY ToServerKept DEF Inv
<1>11. ToClientLinked'
  <2>1. Framing(decrypt.keys)' = Framing(decrypt.keys) /\ HeaderLength' = HeaderLength
    BY <1>5 DEF Framing, HeaderLength, BlockSize
  <2>2. suite.cipher # "chacha" =>
          (IF state = "length" THEN Headless.at ELSE decrypt.at)'
            = IF state = "length" THEN Headless.at ELSE decrypt.at
    BY <1>1, <1>4, <1>6, <1>7, <2>1 DEF Headless, CipherStates
  <2>3. Receiver' = Receiver
    BY <1>5, <2>2 DEF Receiver, Place, Auth
  <2> QED
    BY <2>3, ToClientKept DEF Inv
<1>12. BytesCounted'
  BY MeasuredKept DEF Inv, BytesCounted
<1>13. KeysInStep' /\ UnsentIsLast' /\ OddIsLast'
  BY <1>5 DEF Inv, KeysInStep, UnsentIsLast, OddIsLast
<1>14. ReaderInStep'
  <2>1. Framing(decrypt.keys)' = Framing(decrypt.keys)
    BY <1>5 DEF Framing
  <2>2. LengthKnown' => LengthKnown
    BY <1>6 DEF LengthKnown
  <2> QED
    BY <1>1, <1>2, <1>5, <1>6, <1>8, <2>1, <2>2 DEF Inv, ReaderInStep
<1>15. SuccessAlone' /\ NamesRejected'
  BY SuccessKept, NamesKept DEF Inv
<1> QED
  BY <1>9, <1>10, <1>11, <1>12, <1>13, <1>14, <1>15 DEF Inv

\* The length is fed to the cipher once, and what MAC-then-encrypt has decrypted for it is
\* accounted for.
LEMMA PeekStep ==
  ASSUME Inv, PeekLength
  PROVE  Inv'
<1> USE DEF PeekLength
<1>1. decrypt \in CipherStates /\ state \in {"none", "ready", "length"} /\ suite \in Suites
  BY DEF Inv, TypeOK
<1>2. decrypt.at \in Nat /\ decrypt.keys \in Nat /\ decrypt.zip \in Nat /\ decrypt.aad \in Nat
  BY <1>1 DEF CipherStates
<1>3. HeaderLength \in Nat /\ HeaderLength > 0
  BY DEF HeaderLength, BlockSize
<1>4. Framing(decrypt.keys) \in {"plain", "aead", "etm", "mte"}
  BY <1>1, <1>2, FramingFacts
<1>5. /\ decrypt' \in CipherStates
      /\ decrypt'.keys = decrypt.keys /\ decrypt'.zip = decrypt.zip
      /\ decrypt'.at = IF Framing(decrypt.keys) = "mte" THEN decrypt.at + HeaderLength
                       ELSE decrypt.at
      /\ decrypt'.aad = IF Framing(decrypt.keys) = "aead" THEN decrypt.aad + 1
                        ELSE decrypt.aad
  <2>1. CASE Framing(decrypt.keys) = "aead"
    BY <1>1, <1>2, <1>3, <2>1 DEF CipherStates
  <2>2. CASE Framing(decrypt.keys) = "mte"
    BY <1>1, <1>2, <1>3, <2>2 DEF CipherStates
  <2>3. CASE Framing(decrypt.keys) \in {"plain", "etm"}
    BY <1>1, <1>2, <1>3, <2>3 DEF CipherStates
  <2> QED
    BY <1>4, <2>1, <2>2, <2>3
<1>6. state' \in {"none", "ready", "length"}
  BY <1>1
<1>7. toClient # <<>>
  <2>1. SUFFICES ASSUME toClient = <<>> PROVE FALSE
    OBVIOUS
  <2>2. incoming = 0
    BY <2>1, EmptyMeasured DEF Inv, BytesCounted
  <2> QED
    BY <1>3, <2>2 DEF Inv, TypeOK, BytesCounted
<1>8. Framing(decrypt.keys)' = Framing(decrypt.keys) /\ HeaderLength' = HeaderLength
  BY <1>5 DEF Framing, HeaderLength, BlockSize
<1>9. TypeOK' /\ ~peer'.failed
  BY <1>5, <1>6 DEF Inv, TypeOK
<1>10. ToServerLinked'
  BY ToServerKept DEF Inv
<1>11. ToClientLinked'
  <2>1. (IF state = "length" THEN Headless.at ELSE decrypt.at)' = decrypt.at
    <3>1. CASE Framing(decrypt.keys) = "mte"
      <4>1. state' = "length" /\ decrypt'.at = decrypt.at + HeaderLength
        BY <1>5, <3>1
      <4>2. Headless' = [decrypt' EXCEPT !.at = @ - HeaderLength]
        BY <1>8, <3>1 DEF Headless
      <4>3. Headless'.at = decrypt'.at - HeaderLength
        BY <1>5, <4>2 DEF CipherStates
      <4> QED
        BY <1>2, <1>3, <4>1, <4>3
    <3>2. CASE Framing(decrypt.keys) # "mte"
      <4>1. Headless' = decrypt' /\ decrypt'.at = decrypt.at
        BY <1>5, <1>8, <3>2 DEF Headless
      <4> QED
        BY <4>1
    <3> QED
      BY <3>1, <3>2
  <2>2. (IF state = "length" THEN Headless.at ELSE decrypt.at) = decrypt.at
    OBVIOUS
  <2>3. Receiver' = Receiver
    BY <1>5, <2>1, <2>2 DEF Receiver, Place, Auth
  <2> QED
    BY <2>3, ToClientKept DEF Inv
<1>12. BytesCounted'
  BY MeasuredKept DEF Inv, BytesCounted
<1>13. KeysInStep' /\ UnsentIsLast' /\ OddIsLast'
  BY <1>5 DEF Inv, KeysInStep, UnsentIsLast, OddIsLast
<1>14. ReaderInStep'
  <2>1. /\ unsent' = 0
        /\ decrypt'.keys = 0 => state' = "none"
        /\ decrypt'.keys > 0 => state' # "none"
    BY <1>1, <1>2, <1>5, FramingFacts DEF Inv, ReaderInStep
  <2>2. state' = "length" <=> Framing(decrypt.keys) \in {"aead", "mte"}
    OBVIOUS
  <2>3. decrypt'.aad = IF state' = "length" /\ Framing(decrypt.keys) = "aead" THEN 1 ELSE 0
    BY <1>5, <2>2 DEF Inv, ReaderInStep
  <2>4. suite.cipher = "chacha" /\ state' # "none" => decrypt'.at = server
    BY <1>1, <1>2, <1>5, <2>1, FramingFacts DEF Inv, ReaderInStep
  <2> QED
    BY <1>7, <1>8, <2>1, <2>2, <2>3, <2>4 DEF ReaderInStep
<1>15. SuccessAlone' /\ NamesRejected'
  BY SuccessKept, NamesKept DEF Inv
<1> QED
  BY <1>9, <1>10, <1>11, <1>12, <1>13, <1>14, <1>15 DEF Inv

\* The client seals a packet.
LEMMA PutFacts ==
  ASSUME Inv, NEW type \in ClientTypes, NEW size \in Nat, NEW names \in Int,
         Put(type, size, names), unsent = 0,
         UNCHANGED <<suite, client, authenticated, peer, odd>>,
         type = "unimplemented" /\ encrypt.keys > 0 => names = odd
  PROVE  /\ toServer' \in Seq(Packets(ClientTypes)) /\ toServer' # <<>>
         /\ unsent' \in Nat /\ encrypt' \in CipherStates
         /\ encrypt'.keys = IF type = "newkeys" THEN encrypt.keys + 1 ELSE encrypt.keys
         /\ ToServerLinked' /\ NamesRejected'
<1> DEFINE p == [Packet(encrypt, client, authenticated, type, size) EXCEPT
                   !.names = names, !.meant = odd]
           cs == encrypt
<1>1. /\ toServer' = Append(toServer, p)
      /\ unsent' = WireLength(encrypt.keys, size)
      /\ encrypt' = IF type = "newkeys" THEN UpgradeClient(encrypt)
                    ELSE Advanced(encrypt, authenticated, size)
  BY DEF Put
<1>2. /\ suite \in Suites /\ cs \in CipherStates /\ client \in Numbers /\ odd \in Nat
      /\ toServer \in Seq(Packets(ClientTypes)) /\ TypeOK
  BY DEF Inv, TypeOK
<1>3. cs.keys \in Nat /\ cs.at \in Nat /\ cs.zip \in Nat /\ cs.aad \in Nat /\ client \in Nat
  BY <1>2 DEF CipherStates, Numbers
<1>4. /\ p.type = type /\ p.size = size /\ p.seal = Seal(cs, client) /\ p.seq = client
      /\ p.zip = ZipPlace(cs, authenticated) /\ p.names = names /\ p.meant = odd
  BY DEF Packet
<1>5. Seal(cs, client) \in [keys : Nat, at : Nat, seq : Nat] /\ Seal(cs, client).keys = cs.keys
  BY <1>3 DEF Seal, Nonce, MacNumber
<1>6. ZipPlace(cs, authenticated) = IF Compresses(cs, authenticated) THEN cs.zip + 1 ELSE 0
  BY DEF ZipPlace
<1>7. ZipPlace(cs, authenticated) \in Nat
  BY <1>3, <1>6
<1>8. p \in Packets(ClientTypes)
  BY <1>2, <1>3, <1>5, <1>7 DEF Packet, Packets
<1> HIDE DEF p
<1>9. toServer' \in Seq(Packets(ClientTypes)) /\ toServer' # <<>> /\ Len(toServer') # 0
      /\ toServer'[Len(toServer')] = p
  BY <1>1, <1>2, <1>8
<1>10. unsent' \in Nat /\ unsent' # 0
  <2>1. GoodLaw(Law) /\ Law.bytes[<<cs.keys, size>>] = unsent'
    BY <1>1, <1>3, LawGood
  <2> QED
    BY <1>3, <2>1 DEF GoodLaw
<1>11. Moved(cs, size) \in Nat
  BY <1>2, MovedGain
<1>12. /\ encrypt' \in CipherStates
       /\ encrypt'.keys = IF type = "newkeys" THEN cs.keys + 1 ELSE cs.keys
       /\ encrypt'.at = IF type = "newkeys" THEN 0 ELSE Moved(cs, size)
       /\ encrypt'.zip = IF type = "newkeys" THEN 0
                         ELSE IF Compresses(cs, authenticated) THEN cs.zip + 1 ELSE cs.zip
  <2>1. CASE type = "newkeys"
    BY <1>1, <1>3, <2>1 DEF UpgradeClient, Fresh, CipherStates
  <2>2. CASE type # "newkeys"
    <3>1. encrypt' = [cs EXCEPT !.at = Moved(cs, size), !.zip = Zipped(cs, authenticated), !.aad = 0]
      BY <1>1, <2>2 DEF Advanced
    <3>2. Zipped(cs, authenticated) \in Nat
      BY <1>3 DEF Zipped
    <3>3. /\ encrypt' \in CipherStates /\ encrypt'.keys = cs.keys
          /\ encrypt'.at = Moved(cs, size) /\ encrypt'.zip = Zipped(cs, authenticated)
      BY <1>2, <1>11, <3>1, <3>2 DEF CipherStates
    <3> QED
      BY <2>2, <3>3 DEF Zipped
  <2> QED
    BY <2>1, <2>2
<1>13. ToServerLinked'
  <2> DEFINE s == Place(cs, cs.at, client, Auth)
  <2>1. Sender = s
    BY DEF Sender
  <2>2. (Compresses(cs, authenticated) <=> Zips(Law, s)) /\ Auth \in {0, 1}
    BY <1>2, ZipsFacts
  <2>3. p.zip = IF Zips(Law, s) THEN cs.zip + 1 ELSE 0
    BY <1>4, <1>6, <2>2
  <2>4. encrypt'.zip = IF p.type = "newkeys" THEN 0
                       ELSE IF Zips(Law, s) THEN cs.zip + 1 ELSE cs.zip
    BY <1>4, <1>12, <2>2
  <2>5. Sealed(Law, p, s)
    BY <1>2, <1>4, <2>2, <2>3, SealedIn
  <2>6. Step(Law, s, p) = Place(encrypt', encrypt'.at, Numbered(client, p.type),
                                IF p.type = "success" THEN 1 ELSE Auth)
    BY <1>2, <1>4, <1>12, <2>2, <2>4, StepsTo
  <2>7. p.type # "success"
    BY <1>4 DEF ClientTypes
  <2>8. Sender' = Step(Law, s, p)
    <3>1. (IF unsent = 0 THEN client ELSE Numbered(client, toServer[Len(toServer)].type))'
            = Numbered(client, p.type)
      BY <1>9, <1>10 DEF Numbered, After
    <3> QED
      BY <2>6, <2>7, <3>1 DEF Sender, Place, Auth
  <2>9. Law' = Law /\ PeerReceiver' = PeerReceiver
    BY LawFixed DEF PeerReceiver, Place, Auth
  <2>10. Linked(Law, toServer, PeerReceiver, s) /\ GoodLaw(Law)
    BY <2>1, LawGood DEF Inv, ToServerLinked
  <2>11. p.size \in Nat
    BY <1>4
  <2> HIDE DEF s
  <2>12. Linked(Law, Append(toServer, p), PeerReceiver, Step(Law, s, p))
    BY <1>2, <2>5, <2>10, <2>11, AppendLinked
  <2> QED
    BY <1>1, <2>8, <2>9, <2>12 DEF ToServerLinked
<1>14. NamesRejected'
  <2>1. ASSUME NEW i \in DOMAIN toServer',
               toServer'[i].type = "unimplemented", toServer'[i].seal.keys > 0
        PROVE  toServer'[i].names = toServer'[i].meant
    <3>1. CASE i \in DOMAIN toServer
      <4>1. toServer'[i] = toServer[i]
        BY <1>1, <1>2, <3>1
      <4> QED
        BY <2>1, <3>1, <4>1 DEF Inv, NamesRejected
    <3>2. CASE i \notin DOMAIN toServer
      <4>1. toServer'[i] = p
        BY <1>1, <1>2, <2>1, <3>2
      <4> QED
        BY <1>4, <1>5, <2>1, <4>1
    <3> QED
      BY <3>1, <3>2
  <2> QED
    BY <2>1 DEF NamesRejected
<1> QED
  BY <1>9, <1>10, <1>12, <1>13, <1>14

\* A payload of the client.
LEMMA SendStep ==
  ASSUME Inv, SendPayload
  PROVE  Inv'
<1> USE DEF SendPayload, Ready
<1>1. PICK type \in {"data", "newkeys"} :
        /\ type = "newkeys" => encrypt.keys = decrypt.keys /\ encrypt.keys < MaxKeys
        /\ Put(type, Size[type], 0)
  OBVIOUS
<1>2. type \in ClientTypes /\ Size[type] \in Nat /\ 0 \in Int /\ type # "unimplemented"
  BY <1>1, TransportAssumption DEF ClientTypes
<1>3. /\ toServer' \in Seq(Packets(ClientTypes)) /\ toServer' # <<>>
      /\ unsent' \in Nat /\ encrypt' \in CipherStates
      /\ encrypt'.keys = IF type = "newkeys" THEN encrypt.keys + 1 ELSE encrypt.keys
      /\ ToServerLinked' /\ NamesRejected'
  BY <1>1, <1>2, PutFacts
<1>4. encrypt.keys \in Nat /\ decrypt.keys \in Nat /\ peer.out.keys \in Nat
  BY DEF Inv, TypeOK, CipherStates
<1>5. TypeOK' /\ ~peer'.failed
  BY <1>3 DEF Inv, TypeOK
<1>6. ToClientLinked'
  BY ToClientKept, ReceiverKept DEF Inv
<1>7. BytesCounted'
  BY MeasuredKept DEF Inv, BytesCounted
<1>8. KeysInStep' /\ UnsentIsLast' /\ OddIsLast'
  BY <1>1, <1>3, <1>4 DEF Inv, KeysInStep, UnsentIsLast, OddIsLast
<1>9. ReaderInStep'
  BY DEF Inv, ReaderInStep, Framing, LengthKnown
<1>10. SuccessAlone'
  <2>1. AwaitsSuccess' <=> AwaitsSuccess
    BY DEF AwaitsSuccess
  <2> QED
    BY <2>1 DEF Inv, SuccessAlone
<1> QED
  BY <1>3, <1>5, <1>6, <1>7, <1>8, <1>9, <1>10 DEF Inv

\* SSH_MSG_UNIMPLEMENTED.
LEMMA UnimplementedStep ==
  ASSUME Inv, SendUnimplemented
  PROVE  Inv'
<1> USE DEF SendUnimplemented
<1> DEFINE type == "unimplemented"
<1>1. Put(type, Size[type], Rejected) /\ unsent = 0
  BY DEF Inv, ReaderInStep
<1>2. type \in ClientTypes /\ Size[type] \in Nat
  BY TransportAssumption DEF ClientTypes
<1>3. Rejected \in Int
  <2>1. server \in Int /\ SeqLimit \in Nat \ {0}
    BY TransportAssumption DEF Inv, TypeOK, Numbers
  <2> QED
    BY <2>1 DEF Rejected
<1>4. encrypt.keys > 0 => Rejected = odd
  <2>1. decrypt.keys \in Nat
    BY DEF Inv, TypeOK, CipherStates
  <2> QED
    BY <2>1 DEF Inv, OddIsLast, Rejected
<1>5. /\ toServer' \in Seq(Packets(ClientTypes)) /\ toServer' # <<>>
      /\ unsent' \in Nat /\ encrypt' \in CipherStates
      /\ encrypt'.keys = encrypt.keys
      /\ ToServerLinked' /\ NamesRejected'
  <2>1. PICK names : names = Rejected
    OBVIOUS
  <2>2. Put(type, Size[type], names)
    BY <1>1, <2>1
  <2>3. names \in Int /\ (type = "unimplemented" /\ encrypt.keys > 0 => names = odd)
    BY <1>3, <1>4, <2>1
  <2>4. UNCHANGED <<suite, client, authenticated, peer, odd>>
    OBVIOUS
  <2> QED
    BY <1>1, <1>2, <2>2, <2>3, <2>4, PutFacts
<1>6. TypeOK' /\ ~peer'.failed
  BY <1>5 DEF Inv, TypeOK
<1>7. ToClientLinked'
  BY ToClientKept, ReceiverKept DEF Inv
<1>8. BytesCounted'
  BY MeasuredKept DEF Inv, BytesCounted
<1>9. KeysInStep' /\ UnsentIsLast' /\ OddIsLast'
  BY <1>5 DEF Inv, KeysInStep, UnsentIsLast, OddIsLast
<1>10. ReaderInStep'
  BY DEF Inv, ReaderInStep, Framing, LengthKnown
<1>11. SuccessAlone'
  <2>1. AwaitsSuccess' <=> AwaitsSuccess
    BY DEF AwaitsSuccess
  <2> QED
    BY <2>1 DEF Inv, SuccessAlone
<1> QED
  BY <1>5, <1>6, <1>7, <1>8, <1>9, <1>10, <1>11 DEF Inv

\* The last of a sequence is the last of its tail.
LEMMA LastOfTail ==
  ASSUME NEW M, NEW w \in Seq(M), w # <<>>, Len(w) # 1
  PROVE  Tail(w) # <<>> /\ Tail(w)[Len(Tail(w))] = w[Len(w)]
<1>1. Len(w) \in Nat /\ Len(w) >= 2 /\ Len(Tail(w)) = Len(w) - 1
  <2>1. Len(w) \in Nat /\ Len(w) # 0 /\ Len(Tail(w)) = Len(w) - 1
    OBVIOUS
  <2> QED
    BY <2>1
<1>2. \A i \in 1..(Len(w) - 1) : Tail(w)[i] = w[i + 1]
  OBVIOUS
<1>3. Len(w) - 1 \in 1..(Len(w) - 1) /\ (Len(w) - 1) + 1 = Len(w)
  BY <1>1
<1>4. Tail(w) # <<>>
  BY <1>1
<1> QED
  BY <1>1, <1>2, <1>3, <1>4

\* The server opens a packet: it was sealed in the state the server is in.
LEMMA ServerReadsStep ==
  ASSUME Inv, ServerReads
  PROVE  Inv'
<1> USE DEF ServerReads
<1> DEFINE p == Head(toServer)
           cs == peer.in
           c == IF p.type = "newkeys" THEN Fresh(cs.keys + 1) ELSE ServerMoved(cs, p.size)
           bad == \/ p.seal # Seal(peer.in, peer.inSeq)
                  \/ p.zip # ServerZip(peer.in).place
<1>1. /\ toServer # <<>> /\ toServer' = Tail(toServer) /\ (Len(toServer) = 1 => unsent = 0)
      /\ peer' = [peer EXCEPT !.in = c, !.inSeq = ServerNumbered(@, p.type), !.failed = bad]
  OBVIOUS
<1>2. /\ suite \in Suites /\ cs \in CipherStates /\ peer.inSeq \in Numbers /\ TypeOK
      /\ toServer \in Seq(Packets(ClientTypes)) /\ p \in Packets(ClientTypes)
      /\ toServer' \in Seq(Packets(ClientTypes))
  BY <1>1 DEF Inv, TypeOK
<1>3. /\ cs.keys \in Nat /\ cs.at \in Nat /\ cs.zip \in Nat /\ cs.aad \in Nat
      /\ p.size \in Nat /\ p.type \in ClientTypes
  BY <1>2 DEF CipherStates, Packets
<1>4. Auth = PeerAuth
  BY <1>1 DEF Inv, SuccessAlone, Auth, PeerAuth
<1> DEFINE s == Place(cs, cs.at, peer.inSeq, Auth)
<1>5. /\ ServerZip(cs).place = IF Zips(Law, s) THEN cs.zip + 1 ELSE 0
      /\ ServerZip(cs).next = IF Zips(Law, s) THEN cs.zip + 1 ELSE cs.zip
      /\ Auth \in {0, 1}
  BY <1>2, <1>4, ZipsFacts
<1>6. s = PeerReceiver
  BY DEF PeerReceiver
<1>7. Sealed(Law, p, s) /\ Linked(Law, Tail(toServer), Step(Law, s, p), Sender)
  BY <1>1, <1>2, <1>6, TailLinked DEF Inv, ToServerLinked
<1>8. ~bad
  <2>1. p.zip = ServerZip(cs).place
    BY <1>3, <1>5, <1>7 DEF Sealed, Place
  <2>2. p.seal = Seal(cs, peer.inSeq)
    <3> DEFINE q == [type |-> "data", seal |-> Seal(cs, peer.inSeq), seq |-> peer.inSeq,
                     zip |-> ServerZip(cs).place]
    <3>1. q.seal = Seal(cs, peer.inSeq) /\ q.seq = peer.inSeq /\ q.zip = ServerZip(cs).place
      OBVIOUS
    <3> HIDE DEF q, s
    <3>2. Sealed(Law, q, s)
      BY <1>2, <1>5, <3>1, SealedIn DEF s
    <3>3. s.keys \in Nat
      BY <1>3 DEF s, Place
    <3>4. p.seal.keys = q.seal.keys /\ p.seal.at = q.seal.at /\ p.seal.seq = q.seal.seq
      BY <1>7, <3>2, <3>3 DEF Sealed
    <3>5. /\ p.seal = [keys |-> p.seal.keys, at |-> p.seal.at, seq |-> p.seal.seq]
          /\ q.seal = [keys |-> q.seal.keys, at |-> q.seal.at, seq |-> q.seal.seq]
      BY <1>2, <3>1 DEF Packets, Seal
    <3> QED
      BY <3>1, <3>4, <3>5
  <2> QED
    BY <2>1, <2>2
<1>9. /\ c \in CipherStates
      /\ c.keys = IF p.type = "newkeys" THEN cs.keys + 1 ELSE cs.keys
      /\ c.at = IF p.type = "newkeys" THEN 0 ELSE Moved(cs, p.size)
      /\ c.zip = IF p.type = "newkeys" THEN 0
                 ELSE IF Zips(Law, s) THEN cs.zip + 1 ELSE cs.zip
  <2>1. CASE p.type = "newkeys"
    BY <1>3, <2>1 DEF Fresh, CipherStates
  <2>2. CASE p.type # "newkeys"
    <3>1. Moved(cs, p.size) \in Nat
      BY <1>2, <1>3, MovedGain
    <3>2. c = [cs EXCEPT !.at = Moved(cs, p.size), !.zip = ServerZip(cs).next]
      BY <2>2 DEF ServerMoved
    <3>3. ServerZip(cs).next \in Nat
      BY <1>3, <1>5
    <3> HIDE DEF c, s
    <3>4. /\ c \in CipherStates /\ c.keys = cs.keys /\ c.at = Moved(cs, p.size)
          /\ c.zip = ServerZip(cs).next
      BY <1>2, <3>1, <3>2, <3>3 DEF CipherStates
    <3> QED
      BY <1>5, <2>2, <3>4
  <2> QED
    BY <2>1, <2>2
<1>10. /\ ServerNumbered(peer.inSeq, p.type) = Numbered(peer.inSeq, p.type)
       /\ Numbered(peer.inSeq, p.type) \in Numbers
  BY <1>2, NumberedFacts DEF ServerNumbered, Numbered
<1> HIDE DEF c, bad, p, s
<1>11. /\ peer'.in = c /\ peer'.inSeq = Numbered(peer.inSeq, p.type) /\ ~peer'.failed
       /\ peer'.out = peer.out /\ peer'.outSeq = peer.outSeq
       /\ peer'.authenticated = peer.authenticated
       /\ peer' \in [out : CipherStates, in : CipherStates, outSeq : Numbers,
                     inSeq : Numbers, authenticated : BOOLEAN, failed : BOOLEAN]
  <2>1. bad = FALSE
    BY <1>8 DEF bad
  <2> HIDE DEF ServerReads
  <2>2. peer' = [peer EXCEPT !.in = c, !.inSeq = Numbered(peer.inSeq, p.type), !.failed = FALSE]
    BY <1>1, <1>10, <2>1
  <2>3. peer \in [out : CipherStates, in : CipherStates, outSeq : Numbers,
                  inSeq : Numbers, authenticated : BOOLEAN, failed : BOOLEAN]
    BY <1>2 DEF TypeOK
  <2> QED
    BY <1>9, <1>10, <2>2, <2>3
<1>12. TypeOK' /\ ~peer'.failed
  BY <1>2, <1>11 DEF TypeOK
<1>13. ToServerLinked'
  <2>1. Law' = Law
    BY LawFixed
  <2>2. p.type # "success"
    BY <1>3 DEF ClientTypes
  <2>3. Step(Law, s, p) = Place(c, c.at, Numbered(peer.inSeq, p.type), Auth)
    BY <1>2, <1>3, <1>5, <1>9, <2>2, StepsTo DEF s
  <2>4. PeerReceiver' = Step(Law, s, p)
    BY <1>11, <2>3 DEF PeerReceiver, Place, Auth
  <2>5. Sender' = Sender
    <3>1. unsent # 0 => toServer'[Len(toServer')] = toServer[Len(toServer)]
      BY <1>1, <1>2, LastOfTail
    <3> QED
      BY <3>1 DEF Sender, Place, Auth, Numbered, After
  <2> QED
    BY <1>1, <1>7, <2>1, <2>4, <2>5 DEF ToServerLinked
<1>14. ToClientLinked'
  <2>1. Law' = Law /\ Receiver' = Receiver
    BY LawFixed, ReceiverKept
  <2>2. PeerSender' = PeerSender
    BY <1>11 DEF PeerSender, Place, PeerAuth
  <2> QED
    BY <2>1, <2>2 DEF Inv, ToClientLinked
<1>15. BytesCounted'
  BY MeasuredKept DEF Inv, BytesCounted
<1>16. KeysInStep' /\ OddIsLast'
  BY <1>11 DEF Inv, KeysInStep, OddIsLast
<1>17. UnsentIsLast'
  BY <1>1, <1>2, LastOfTail DEF UnsentIsLast, TypeOK
<1>18. ReaderInStep'
  BY DEF Inv, ReaderInStep, Framing, LengthKnown
<1>19. SuccessAlone'
  <2>1. AwaitsSuccess' <=> AwaitsSuccess
    BY DEF AwaitsSuccess
  <2> QED
    BY <1>1, <1>11, <2>1 DEF Inv, SuccessAlone
<1>20. NamesRejected'
  <2>1. \A i \in DOMAIN toServer' : i + 1 \in DOMAIN toServer /\ toServer'[i] = toServer[i + 1]
    BY <1>1, <1>2
  <2> QED
    BY <2>1 DEF Inv, NamesRejected
<1> QED
  BY <1>12, <1>13, <1>14, <1>15, <1>16, <1>17, <1>18, <1>19, <1>20 DEF Inv

\* The server seals a packet.
LEMMA ServerSendsStep ==
  ASSUME Inv, ServerSends
  PROVE  Inv'
<1> USE DEF ServerSends
<1> DEFINE cs == peer.out
<1>1. PICK type \in ServerTypes :
        /\ type = "newkeys" => peer.out.keys < encrypt.keys
        /\ type = "odd" => IF peer.out.keys = 0 THEN ~suite.strict ELSE peer.authenticated
        /\ type = "success" =>
             /\ ~peer.authenticated /\ peer.out.keys > 0 /\ decrypt.keys > 0
             /\ toServer = <<>> /\ unsent = 0 /\ reading # "odd"
        /\ toClient' = Append(toClient,
             [Packet(cs, peer.outSeq, FALSE, type, Size[type]) EXCEPT !.zip = ServerZip(cs).place])
        /\ incoming' = incoming + WireLength(cs.keys, Size[type])
        /\ peer' = [peer EXCEPT
             !.out = IF type = "newkeys" THEN Fresh(@.keys + 1) ELSE ServerMoved(@, Size[type]),
             !.outSeq = ServerNumbered(@, type),
             !.authenticated = @ \/ type = "success"]
  BY DEF ServerTypes
<1> DEFINE size == Size[type]
           p == [Packet(cs, peer.outSeq, FALSE, type, size) EXCEPT !.zip = ServerZip(cs).place]
           c == IF type = "newkeys" THEN Fresh(cs.keys + 1) ELSE ServerMoved(cs, size)
           s == Place(cs, cs.at, peer.outSeq, PeerAuth)
<1>2. /\ suite \in Suites /\ cs \in CipherStates /\ peer.outSeq \in Numbers /\ TypeOK
      /\ toClient \in Seq(Packets(ServerTypes)) /\ incoming \in Nat /\ have \in Nat
  BY DEF Inv, TypeOK
<1>3. /\ cs.keys \in Nat /\ cs.at \in Nat /\ cs.zip \in Nat /\ cs.aad \in Nat /\ peer.outSeq \in Nat
      /\ size \in Nat
  <2>1. Size[type] \in Nat
    <3> HIDE DEF ServerSends
    <3> QED
      BY TransportAssumption DEF ServerTypes
  <2> QED
    BY <1>2, <2>1 DEF CipherStates, Numbers
<1>4. /\ ServerZip(cs).place = IF Zips(Law, s) THEN cs.zip + 1 ELSE 0
      /\ ServerZip(cs).next = IF Zips(Law, s) THEN cs.zip + 1 ELSE cs.zip
      /\ PeerAuth \in {0, 1}
  BY <1>2, ZipsFacts
<1>5. /\ p.type = type /\ p.size = size /\ p.seal = Seal(cs, peer.outSeq)
      /\ p.seq = peer.outSeq /\ p.zip = ServerZip(cs).place /\ p.names = 0 /\ p.meant = 0
  BY DEF Packet
<1>6. /\ Seal(cs, peer.outSeq) \in [keys : Nat, at : Nat, seq : Nat]
      /\ Seal(cs, peer.outSeq).keys = cs.keys
  BY <1>3 DEF Seal, Nonce, MacNumber
<1>7. ServerZip(cs).place \in Nat /\ ServerZip(cs).next \in Nat
  BY <1>3, <1>4
<1>8. p \in Packets(ServerTypes)
  BY <1>3, <1>6, <1>7 DEF Packet, Packets
<1>9. /\ c \in CipherStates
      /\ c.keys = IF type = "newkeys" THEN cs.keys + 1 ELSE cs.keys
      /\ c.at = IF type = "newkeys" THEN 0 ELSE Moved(cs, size)
      /\ c.zip = IF type = "newkeys" THEN 0
                 ELSE IF Zips(Law, s) THEN cs.zip + 1 ELSE cs.zip
  <2>1. CASE type = "newkeys"
    BY <1>3, <2>1 DEF Fresh, CipherStates
  <2>2. CASE type # "newkeys"
    <3>1. Moved(cs, size) \in Nat
      BY <1>2, <1>3, MovedGain
    <3>2. c = [cs EXCEPT !.at = Moved(cs, size), !.zip = ServerZip(cs).next]
      BY <2>2 DEF ServerMoved
    <3> HIDE DEF c, s, size
    <3>3. /\ c \in CipherStates /\ c.keys = cs.keys /\ c.at = Moved(cs, size)
          /\ c.zip = ServerZip(cs).next
      BY <1>2, <1>7, <3>1, <3>2 DEF CipherStates
    <3> QED
      BY <1>4, <2>2, <3>3
  <2> QED
    BY <2>1, <2>2
<1>10. /\ ServerNumbered(peer.outSeq, type) = Numbered(peer.outSeq, type)
       /\ Numbered(peer.outSeq, type) \in Numbers
  BY <1>2, NumberedFacts DEF ServerNumbered, Numbered
<1>11. /\ toClient' = Append(toClient, p)
       /\ incoming' = incoming + WireLength(cs.keys, size)
       /\ peer' = [peer EXCEPT !.out = c, !.outSeq = Numbered(peer.outSeq, type),
                               !.authenticated = peer.authenticated \/ type = "success"]
  BY <1>1, <1>10
<1> HIDE DEF ServerSends, c, p, s, size
<1>12. /\ peer'.out = c /\ peer'.outSeq = Numbered(peer.outSeq, type)
       /\ peer'.in = peer.in /\ peer'.inSeq = peer.inSeq /\ ~peer'.failed
       /\ peer'.authenticated <=> peer.authenticated \/ type = "success"
       /\ peer' \in [out : CipherStates, in : CipherStates, outSeq : Numbers,
                     inSeq : Numbers, authenticated : BOOLEAN, failed : BOOLEAN]
  <2>1. peer \in [out : CipherStates, in : CipherStates, outSeq : Numbers,
                  inSeq : Numbers, authenticated : BOOLEAN, failed : BOOLEAN]
    BY <1>2 DEF TypeOK
  <2>2. PICK a \in BOOLEAN : a = (peer.authenticated \/ type = "success")
    OBVIOUS
  <2>3. peer' = [peer EXCEPT !.out = c, !.outSeq = Numbered(peer.outSeq, type),
                             !.authenticated = a]
    BY <1>11, <2>2
  <2>4. ~peer.failed
    BY DEF Inv
  <2>5. peer'.authenticated = a
    BY <2>1, <2>3
  <2>6. peer'.authenticated <=> peer.authenticated \/ type = "success"
    BY <2>2, <2>5
  <2>7. /\ peer'.out = c /\ peer'.outSeq = Numbered(peer.outSeq, type)
        /\ peer'.in = peer.in /\ peer'.inSeq = peer.inSeq /\ peer'.failed = peer.failed
        /\ peer' \in [out : CipherStates, in : CipherStates, outSeq : Numbers,
                      inSeq : Numbers, authenticated : BOOLEAN, failed : BOOLEAN]
    BY <1>9, <1>10, <2>1, <2>3
  <2> QED
    BY <2>4, <2>6, <2>7
<1>13. UNCHANGED <<suite, toServer, unsent, have, reading, state, failed, authenticated,
                   client, server, encrypt, decrypt, hungUp, odd>> /\ ~hungUp
  BY DEF ServerSends
<1>14. /\ toClient' \in Seq(Packets(ServerTypes)) /\ toClient' # <<>>
       /\ DOMAIN toClient' = 1..(Len(toClient) + 1) /\ DOMAIN toClient = 1..Len(toClient)
       /\ Len(toClient) \in Nat
       /\ \A i \in DOMAIN toClient : toClient'[i] = toClient[i]
       /\ toClient'[Len(toClient) + 1] = p
  BY <1>2, <1>8, <1>11
<1>15. /\ GoodLaw(Law) /\ Law.bytes[<<p.seal.keys, p.size>>] = WireLength(cs.keys, size)
       /\ WireLength(cs.keys, size) \in Nat /\ incoming' \in Nat
  BY <1>2, <1>3, <1>5, <1>6, <1>11, LawGood DEF GoodLaw
<1>16. TypeOK' /\ ~peer'.failed
  BY <1>2, <1>12, <1>13, <1>14, <1>15 DEF TypeOK
<1>17. ToServerLinked'
  <2>1. Law' = Law
    BY <1>13, LawFixed
  <2>2. PeerReceiver' = PeerReceiver
    BY <1>12, <1>13 DEF PeerReceiver, Place, Auth
  <2>3. Sender' = Sender
    BY <1>13 DEF Sender, Place, Auth, Numbered, After
  <2> QED
    BY <1>13, <2>1, <2>2, <2>3 DEF Inv, ToServerLinked
<1>18. ToClientLinked'
  <2>1. Law' = Law /\ Receiver' = Receiver
    BY <1>13, LawFixed, ReceiverKept
  <2>2. Sealed(Law, p, s)
    BY <1>2, <1>4, <1>5, SealedIn DEF s
  <2>3. Step(Law, s, p) = Place(c, c.at, Numbered(peer.outSeq, type),
                                IF type = "success" THEN 1 ELSE PeerAuth)
    BY <1>2, <1>3, <1>4, <1>5, <1>9, StepsTo DEF s
  <2>4. PeerSender' = Step(Law, s, p)
    BY <1>12, <1>13, <2>3 DEF PeerSender, Place, PeerAuth
  <2>5. Linked(Law, toClient, Receiver, s)
    BY DEF Inv, ToClientLinked, PeerSender, s
  <2>6. Linked(Law, Append(toClient, p), Receiver, Step(Law, s, p))
    BY <1>2, <1>3, <1>5, <1>15, <2>2, <2>5, AppendLinked
  <2> QED
    BY <1>11, <2>1, <2>4, <2>6 DEF ToClientLinked
<1>19. BytesCounted'
  <2>1. Law' = Law
    BY <1>13, LawFixed
  <2>2. Measured(Law, Append(toClient, p), incoming + Law.bytes[<<p.seal.keys, p.size>>])
    BY <1>2, <1>3, <1>5, <1>6, <1>15, AppendMeasured DEF Inv, BytesCounted
  <2>3. Measured(Law, toClient, incoming)'
    BY <1>11, <1>15, <2>1, <2>2
  <2>4. have' <= incoming' /\ failed' # "eof"
    BY <1>2, <1>11, <1>13, <1>15 DEF Inv, BytesCounted
  <2> QED
    BY <2>3, <2>4 DEF BytesCounted
<1>20. KeysInStep' /\ UnsentIsLast' /\ OddIsLast'
  <2>1. encrypt.keys \in Nat
    BY <1>2 DEF TypeOK, CipherStates
  <2> QED
    BY <1>1, <1>3, <1>9, <1>12, <1>13, <2>1 DEF Inv, KeysInStep, UnsentIsLast, OddIsLast
<1>21. ReaderInStep'
  BY <1>13, <1>14 DEF Inv, ReaderInStep, Framing, LengthKnown
<1>22. SuccessAlone'
  <2>1. AwaitsSuccess' <=> AwaitsSuccess \/ type = "success"
    <3>1. \A i : i \in DOMAIN toClient' <=> i \in DOMAIN toClient \/ i = Len(toClient) + 1
      BY <1>14
    <3> QED
      BY <1>5, <1>14, <3>1 DEF AwaitsSuccess
  <2>2. \A i \in DOMAIN toClient : type = "success" => toClient[i].type \notin {"odd", "success"}
    <3>1. ASSUME NEW i \in DOMAIN toClient, type = "success", toClient[i].type = "odd"
          PROVE  FALSE
      <4>1. Receiver.keys <= toClient[i].seal.keys
        BY <1>2, <1>14, LinkedEnds DEF Inv, ToClientLinked
      <4>2. Receiver.keys = decrypt.keys /\ decrypt.keys \in Nat /\ decrypt.keys > 0
        BY <1>1, <1>2, <3>1 DEF Receiver, Place, TypeOK, CipherStates
      <4>3. toClient[i].seal.keys \in Nat
        <5>1. toClient[i] \in Packets(ServerTypes)
          BY <1>2, <1>14
        <5> QED
          BY <5>1 DEF Packets
      <4>4. toClient[i].seal.keys > 0
        BY <4>1, <4>2, <4>3
      <4> QED
        BY <1>1, <3>1, <4>4 DEF Inv, SuccessAlone
    <3>2. ASSUME NEW i \in DOMAIN toClient, type = "success", toClient[i].type = "success"
          PROVE  FALSE
      BY <1>1, <3>2 DEF Inv, SuccessAlone, AwaitsSuccess
    <3> QED
      BY <3>1, <3>2
  <2>3. ASSUME NEW i \in DOMAIN toClient', NEW j \in DOMAIN toClient',
               i < j, toClient'[j].type = "success"
        PROVE  toClient'[i].type \notin {"odd", "success"}
    <3>1. i \in DOMAIN toClient /\ toClient'[i] = toClient[i]
      BY <1>14, <2>3
    <3>2. CASE j \in DOMAIN toClient
      BY <1>14, <2>3, <3>1, <3>2 DEF Inv, SuccessAlone
    <3>3. CASE j \notin DOMAIN toClient
      <4>1. j = Len(toClient) + 1
        BY <1>14, <2>3, <3>3
      <4> QED
        BY <1>5, <1>14, <2>2, <2>3, <3>1, <4>1
    <3> QED
      BY <3>2, <3>3
  <2>4. ASSUME NEW i \in DOMAIN toClient',
               toClient'[i].type = "odd", toClient'[i].seal.keys > 0
        PROVE  peer'.authenticated
    <3>1. CASE i \in DOMAIN toClient
      BY <1>12, <1>14, <2>4, <3>1 DEF Inv, SuccessAlone
    <3>2. CASE i \notin DOMAIN toClient
      <4>1. toClient'[i] = p
        BY <1>14, <2>4, <3>2
      <4>2. type = "odd" /\ cs.keys > 0
        BY <1>5, <1>6, <2>4, <4>1
      <4> QED
        BY <1>1, <1>3, <1>12, <4>2
    <3> QED
      BY <3>1, <3>2
  <2>5. /\ peer'.authenticated <=> authenticated' \/ AwaitsSuccess'
        /\ authenticated' => ~AwaitsSuccess'
    BY <1>1, <1>12, <1>13, <2>1 DEF Inv, SuccessAlone
  <2>6. peer'.authenticated /\ ~authenticated' => toServer' = <<>> /\ reading' # "odd"
    BY <1>1, <1>12, <1>13 DEF Inv, SuccessAlone
  <2> QED
    BY <2>3, <2>4, <2>5, <2>6 DEF SuccessAlone
<1>23. NamesRejected'
  BY <1>13, NamesKept DEF Inv
<1> QED
  BY <1>16, <1>17, <1>18, <1>19, <1>20, <1>21, <1>22, <1>23 DEF Inv

\* A complete packet is opened: it always can be.
LEMMA OpenStep ==
  ASSUME Inv, Open
  PROVE  Inv'
<1> DEFINE p == Head(toClient)
           h == Headless
           s == Place(h, h.at, server, Auth)
<1>1. /\ reading \in {"on", "peeked"} /\ LengthKnown /\ have >= Wanted
      /\ UNCHANGED <<suite, toServer, unsent, client, encrypt, peer, hungUp, sent>>
  BY DEF Open
<1>2. toClient # <<>> /\ unsent = 0
  BY <1>1 DEF Inv, ReaderInStep
<1>3. /\ TypeOK /\ suite \in Suites /\ decrypt \in CipherStates /\ server \in Numbers
      /\ toClient \in Seq(Packets(ServerTypes)) /\ p \in Packets(ServerTypes)
      /\ incoming \in Nat /\ have \in Nat
  BY <1>2, WantedFacts DEF Inv, TypeOK
<1>4. /\ decrypt.keys \in Nat /\ decrypt.at \in Nat /\ decrypt.zip \in Nat /\ decrypt.aad \in Nat
      /\ p.size \in Nat /\ p.seal.keys \in Nat /\ p.type \in ServerTypes
  BY <1>3 DEF CipherStates, Packets
<1>5. decrypt.keys > 0 /\ Framing(decrypt.keys) \in {"aead", "mte"} => state = "length"
  BY <1>1 DEF Inv, ReaderInStep, LengthKnown
<1>6. HeaderLength \in Nat
  BY DEF HeaderLength, BlockSize
<1>7. /\ h.keys = decrypt.keys /\ h.zip = decrypt.zip /\ h.aad = decrypt.aad
      /\ Framing(decrypt.keys) # "mte" => h = decrypt
      /\ h = [keys |-> h.keys, at |-> h.at, zip |-> h.zip, aad |-> h.aad]
  BY <1>3 DEF Headless, CipherStates
<1>8. Receiver = s
  <2>1. (IF state = "length" THEN Headless.at ELSE decrypt.at) = h.at
    BY <1>3, <1>4, <1>5, <1>7, FramingFacts
  <2> QED
    BY <1>7, <2>1 DEF Receiver, Place
<1>9. Sealed(Law, p, s) /\ Linked(Law, Tail(toClient), Step(Law, s, p), PeerSender)
  BY <1>2, <1>3, <1>8, TailLinked DEF Inv, ToClientLinked
<1>10. s \in Places
  BY <1>3, <1>8, LinkedEnds DEF Inv, ToClientLinked
<1>11. h \in CipherStates
  <2>1. CASE suite.cipher = "chacha"
    BY <1>3, <1>4, <1>7, <2>1, FramingFacts
  <2>2. CASE suite.cipher # "chacha"
    <3>1. h.at \in Nat
      BY <1>10, <2>2 DEF Place, Places
    <3> HIDE DEF h
    <3> QED
      BY <1>4, <1>7, <3>1 DEF CipherStates
  <2> QED
    BY <2>1, <2>2
<1> HIDE DEF h
<1>12. /\ s.keys = decrypt.keys /\ s.zip = decrypt.zip /\ s.seq = server
       /\ s.at = IF suite.cipher = "chacha" THEN 0 ELSE h.at
  BY <1>7 DEF Place
<1>13. Law.suite = suite /\ Auth \in {0, 1}
  BY LawGood DEF Auth
<1>14. Compresses(decrypt, authenticated) <=> Zips(Law, s)
  <2>1. s = Place(decrypt, h.at, server, Auth)
    BY <1>7 DEF Place
  <2> QED
    BY <1>3, <2>1, ZipsFacts
<1> HIDE DEF s
<1>15. Opens(p)
  <2>1. p.seal.keys = decrypt.keys
    BY <1>9, <1>12 DEF Sealed
  <2>2. decrypt.keys > 0 => p.seal.at = h.at
    <3>1. CASE suite.cipher = "chacha"
      <4>1. decrypt.keys > 0 => p.seal.at = server
        BY <1>9, <1>12, <1>13, <3>1 DEF Sealed
      <4>2. decrypt.keys > 0 => decrypt.at = server
        BY <1>1, <3>1 DEF Inv, ReaderInStep
      <4>3. h = decrypt
        BY <1>3, <1>4, <1>7, <3>1, FramingFacts
      <4> QED
        BY <4>1, <4>2, <4>3
    <3>2. CASE suite.cipher # "chacha"
      BY <1>9, <1>12, <1>13, <3>2 DEF Sealed
    <3> QED
      BY <3>1, <3>2
  <2>3. p.seal.seq = MacNumber(decrypt, server)
    <3>1. MacNumber(decrypt, server)
            = IF decrypt.keys > 0 /\ suite.cipher = "chain" THEN server ELSE 0
      BY <1>3, <1>4, FramingFacts DEF MacNumber
    <3> QED
      BY <1>9, <1>12, <1>13, <3>1 DEF Sealed
  <2>4. Framing(decrypt.keys) = "aead" => decrypt.aad = 1
    BY <1>3, <1>4, <1>5, FramingFacts DEF Inv, ReaderInStep
  <2> QED
    BY <2>1, <2>2, <2>3, <2>4 DEF Opens, h
<1>16. p.zip = ZipPlace(decrypt, authenticated)
  BY <1>9, <1>12, <1>14 DEF Sealed, ZipPlace
<1>17. /\ toClient' = Tail(toClient)
       /\ incoming' = incoming - Wanted /\ have' = have - Wanted
       /\ state' = "none"
       /\ server' = Numbered(server, p.type)
       /\ authenticated' = (authenticated \/ p.type = "success")
       /\ decrypt' = IF p.type = "newkeys" THEN Fresh(decrypt.keys + 1)
                     ELSE Advanced(h, authenticated, p.size)
       /\ reading' = IF p.type = "odd" /\ ~Upgrading THEN "odd" ELSE "off"
       /\ odd' = IF p.type = "odd" THEN p.seq ELSE odd
       /\ failed' = failed
  BY <1>15, <1>16 DEF Open, h
<1> HIDE DEF p
<1>18. /\ decrypt' \in CipherStates /\ decrypt'.aad = 0
       /\ decrypt'.keys = IF p.type = "newkeys" THEN h.keys + 1 ELSE h.keys
       /\ decrypt'.at = IF p.type = "newkeys" THEN 0 ELSE Moved(h, p.size)
       /\ decrypt'.zip = IF p.type = "newkeys" THEN 0
                         ELSE IF Zips(Law, s) THEN h.zip + 1 ELSE h.zip
  <2>1. CASE p.type = "newkeys"
    BY <1>4, <1>7, <1>17, <2>1 DEF Fresh, CipherStates
  <2>2. CASE p.type # "newkeys"
    <3>1. Moved(h, p.size) \in Nat
      BY <1>3, <1>4, <1>11, MovedGain
    <3>2. Compresses(h, authenticated) <=> Zips(Law, s)
      BY <1>7, <1>14 DEF Compresses
    <3>3. Zipped(h, authenticated) = IF Zips(Law, s) THEN h.zip + 1 ELSE h.zip
      BY <3>2 DEF Zipped
    <3>4. Zipped(h, authenticated) \in Nat
      BY <1>4, <1>7, <3>3
    <3>5. decrypt' = [h EXCEPT !.at = Moved(h, p.size), !.zip = Zipped(h, authenticated), !.aad = 0]
      BY <1>17, <2>2 DEF Advanced
    <3>6. /\ decrypt' \in CipherStates /\ decrypt'.aad = 0 /\ decrypt'.keys = h.keys
          /\ decrypt'.at = Moved(h, p.size) /\ decrypt'.zip = Zipped(h, authenticated)
      BY <1>11, <3>1, <3>4, <3>5 DEF CipherStates
    <3> QED
      BY <2>2, <3>3, <3>6
  <2> QED
    BY <2>1, <2>2
<1>19. server' \in Numbers /\ odd' \in Nat
  <2>1. p.seq \in Nat
    BY <1>3 DEF Packets
  <2> QED
    BY <1>3, <1>17, <2>1, NumberedFacts DEF TypeOK
<1>20. /\ Wanted \in Nat /\ Wanted <= incoming
       /\ Wanted = Law.bytes[<<p.seal.keys, p.size>>] /\ GoodLaw(Law)
  BY <1>1, <1>2, <1>4, WantedFacts, LawGood DEF p
<1>21. /\ toClient' \in Seq(Packets(ServerTypes)) /\ Len(toClient) \in Nat
       /\ DOMAIN toClient = 1..Len(toClient) /\ DOMAIN toClient' = 1..(Len(toClient) - 1)
       /\ \A i \in DOMAIN toClient' : i + 1 \in DOMAIN toClient /\ toClient'[i] = toClient[i + 1]
       /\ 1 \in DOMAIN toClient /\ toClient[1] = p
  BY <1>2, <1>3, <1>17 DEF p
<1>22. /\ TypeOK' /\ ~peer'.failed
  <2>1. incoming' \in Nat /\ have' \in Nat
    BY <1>1, <1>3, <1>17, <1>20
  <2>2. authenticated' \in BOOLEAN
    BY <1>17
  <2> QED
    BY <1>1, <1>3, <1>17, <1>18, <1>19, <1>21, <2>1, <2>2 DEF Inv, TypeOK
<1>23. Law' = Law
  BY <1>1, LawFixed
<1>24. Auth' = IF p.type = "success" THEN 1 ELSE Auth
  BY <1>17 DEF Auth
<1>25. Receiver' = Step(Law, s, p)
  <2>1. Step(Law, s, p) = Place(decrypt', decrypt'.at, Numbered(server, p.type),
                                IF p.type = "success" THEN 1 ELSE Auth)
    BY <1>3, <1>4, <1>11, <1>13, <1>18, StepsTo DEF s
  <2>2. Receiver' = [keys |-> decrypt'.keys,
                     at |-> IF suite.cipher = "chacha" THEN 0 ELSE decrypt'.at,
                     zip |-> decrypt'.zip, seq |-> server', auth |-> Auth']
    BY <1>1, <1>17 DEF Receiver, Place
  <2> QED
    BY <1>17, <1>24, <2>1, <2>2 DEF Place
<1>26. ToClientLinked'
  <2>1. PeerSender' = PeerSender
    BY <1>1 DEF PeerSender, Place, PeerAuth
  <2> QED
    BY <1>9, <1>17, <1>23, <1>25, <2>1 DEF ToClientLinked
<1>27. BytesCounted'
  <2>1. \A i \in 1..Len(toClient) : toClient[i].seal.keys \in Nat /\ toClient[i].size \in Nat
    <3>1. \A i \in 1..Len(toClient) : toClient[i] \in Packets(ServerTypes)
      BY <1>3
    <3>2. \A q \in Packets(ServerTypes) : q.seal.keys \in Nat /\ q.size \in Nat
      BY DEF Packets
    <3> QED
      BY <3>1, <3>2
  <2>2. Measured(Law, Tail(toClient), incoming - Wanted)
    BY <1>2, <1>3, <1>20, <2>1, TailMeasured DEF Inv, BytesCounted, p
  <2>3. Measured(Law, toClient, incoming)'
    BY <1>17, <1>23, <2>2
  <2>4. have' <= incoming'
    BY <1>3, <1>17, <1>20 DEF Inv, BytesCounted
  <2>5. failed' = "eof" => FALSE
    BY <1>2, <1>17 DEF Inv, BytesCounted
  <2> QED
    BY <2>3, <2>4, <2>5 DEF BytesCounted
<1>28. KeysInStep'
  <2>1. Receiver'.keys <= PeerSender.keys
    BY <1>9, <1>21, <1>17, <1>25, LinkedEnds
  <2>2. Receiver'.keys = decrypt'.keys /\ PeerSender.keys = peer.out.keys
    BY DEF Receiver, PeerSender, Place
  <2>3. encrypt.keys \in Nat /\ peer.out.keys \in Nat /\ decrypt'.keys \in Nat
    BY <1>3, <1>18 DEF TypeOK, CipherStates
  <2> QED
    BY <1>1, <1>4, <1>7, <1>18, <2>1, <2>2, <2>3 DEF Inv, KeysInStep
<1>29. ReaderInStep' /\ UnsentIsLast'
  <2>1. reading' \in {"off", "odd"} /\ unsent' = 0
    BY <1>1, <1>2, <1>17
  <2> QED
    BY <1>17, <1>18, <2>1 DEF ReaderInStep, LengthKnown, UnsentIsLast
<1>30. OddIsLast'
  <2>1. ASSUME reading' = "odd", encrypt'.keys > 0
        PROVE  decrypt'.keys > 0 /\ odd' = (server' - 1) % SeqLimit
    <3>1. p.type = "odd" /\ ~Upgrading
      BY <1>17, <2>1
    <3>2. encrypt.keys \in Nat /\ encrypt.keys > 0
      BY <1>1, <1>3, <2>1 DEF TypeOK, CipherStates
    <3>3. decrypt'.keys > 0
      BY <1>4, <1>7, <1>18, <3>1, <3>2 DEF Upgrading, Inv, KeysInStep
    <3>4. odd' = server
      BY <1>9, <1>12, <1>17, <3>1 DEF Sealed
    <3>5. server' = Following(server)
      BY <1>3, <1>17, <3>1, NumberedFacts
    <3> QED
      BY <1>3, <3>3, <3>4, <3>5, AfterFacts
  <2> QED
    BY <2>1 DEF OddIsLast
<1>31. SuccessAlone'
  <2>1. AwaitsSuccess <=> p.type = "success" \/ AwaitsSuccess'
    <3>1. ASSUME AwaitsSuccess PROVE p.type = "success" \/ AwaitsSuccess'
      <4>1. PICK i \in DOMAIN toClient : toClient[i].type = "success"
        BY <3>1 DEF AwaitsSuccess
      <4>2. CASE i = 1
        BY <1>21, <4>1, <4>2
      <4>3. CASE i # 1
        <5>1. i - 1 \in DOMAIN toClient' /\ (i - 1) + 1 = i
          BY <1>21, <4>1, <4>3
        <5> QED
          BY <1>21, <4>1, <5>1 DEF AwaitsSuccess
      <4> QED
        BY <4>2, <4>3
    <3>2. ASSUME p.type = "success" \/ AwaitsSuccess' PROVE AwaitsSuccess
      BY <1>21, <3>2 DEF AwaitsSuccess
    <3> QED
      BY <3>1, <3>2
  <2>2. ASSUME p.type \in {"odd", "success"} PROVE ~AwaitsSuccess'
    <3>1. ASSUME NEW i \in DOMAIN toClient', toClient'[i].type = "success" PROVE FALSE
      <4>1. i + 1 \in DOMAIN toClient /\ 1 < i + 1 /\ toClient[i + 1].type = "success"
        BY <1>21, <3>1
      <4> QED
        BY <1>21, <2>2, <4>1 DEF Inv, SuccessAlone
    <3> QED
      BY <3>1 DEF AwaitsSuccess
  <2>3. /\ peer'.authenticated <=> authenticated' \/ AwaitsSuccess'
        /\ authenticated' => ~AwaitsSuccess'
    BY <1>1, <1>17, <2>1, <2>2 DEF Inv, SuccessAlone
  <2>4. ASSUME peer'.authenticated, ~authenticated'
        PROVE  toServer' = <<>> /\ reading' # "odd"
    <3>1. toServer' = <<>>
      BY <1>1, <1>17, <2>4 DEF Inv, SuccessAlone
    <3>2. AwaitsSuccess'
      BY <2>3, <2>4
    <3> QED
      BY <1>17, <2>2, <3>1, <3>2
  <2>5. ASSUME NEW i \in DOMAIN toClient', NEW j \in DOMAIN toClient',
               i < j, toClient'[j].type = "success"
        PROVE  toClient'[i].type \notin {"odd", "success"}
    <3>1. /\ i + 1 \in DOMAIN toClient /\ j + 1 \in DOMAIN toClient /\ i + 1 < j + 1
          /\ toClient'[i] = toClient[i + 1] /\ toClient'[j] = toClient[j + 1]
      BY <1>21, <2>5
    <3> QED
      BY <2>5, <3>1 DEF Inv, SuccessAlone
  <2>6. ASSUME NEW i \in DOMAIN toClient',
               toClient'[i].type = "odd", toClient'[i].seal.keys > 0
        PROVE  peer'.authenticated
    BY <1>1, <1>21, <2>6 DEF Inv, SuccessAlone
  <2> QED
    BY <2>3, <2>4, <2>5, <2>6 DEF SuccessAlone
<1>32. ToServerLinked'
  <2>1. CASE Auth' = Auth
    <3>1. PeerReceiver' = PeerReceiver /\ Sender' = Sender
      BY <1>1, <2>1 DEF PeerReceiver, Sender, Place, Numbered, After
    <3> QED
      BY <1>1, <1>23, <3>1 DEF Inv, ToServerLinked
  <2>2. CASE Auth' # Auth
    <3>1. p.type = "success" /\ ~authenticated
      BY <1>24, <2>2 DEF Auth
    <3>2. toServer = <<>>
      BY <1>21, <3>1 DEF Inv, SuccessAlone, AwaitsSuccess
    <3>3. PeerReceiver = Sender /\ PeerReceiver \in Places
      BY <3>2, EmptyLinked DEF Inv, ToServerLinked
    <3>4. PeerReceiver' = [PeerReceiver EXCEPT !.auth = Auth']
      BY <1>1 DEF PeerReceiver, Place
    <3>5. Sender' = [Sender EXCEPT !.auth = Auth']
      BY <1>1, <1>2 DEF Sender, Place
    <3>6. Auth' \in {0, 1}
      BY <1>13, <1>24
    <3>7. PeerReceiver' = Sender' /\ PeerReceiver' \in Places
      BY <3>3, <3>4, <3>5, <3>6 DEF Places
    <3> QED
      BY <1>1, <3>2, <3>7, EmptyLinked DEF ToServerLinked
  <2> QED
    BY <2>1, <2>2
<1>33. NamesRejected'
  BY <1>1, NamesKept DEF Inv
<1> QED
  BY <1>22, <1>26, <1>27, <1>28, <1>29, <1>30, <1>31, <1>32, <1>33 DEF Inv

-----------------------------------------------------------------------------
(* The theorems.                                                           *)

\* Nothing that the invariant speaks of changes.
LEMMA StutterStep ==
  ASSUME Inv, UNCHANGED vars
  PROVE  Inv'
<1> USE DEF vars
<1>1. TypeOK' /\ ~peer'.failed
  BY DEF Inv, TypeOK
<1>2. ToServerLinked'
  BY ToServerKept DEF Inv
<1>3. ToClientLinked'
  BY ToClientKept, ReceiverKept DEF Inv
<1>4. BytesCounted'
  BY MeasuredKept DEF Inv, BytesCounted
<1>5. KeysInStep' /\ ReaderInStep' /\ UnsentIsLast' /\ OddIsLast'
  BY DEF Inv, KeysInStep, ReaderInStep, UnsentIsLast, OddIsLast, Framing, LengthKnown
<1>6. SuccessAlone' /\ NamesRejected'
  BY SuccessKept, NamesKept DEF Inv
<1> QED
  BY <1>1, <1>2, <1>3, <1>4, <1>5, <1>6 DEF Inv

\* The inductive invariant: in each direction the packets on the way lead from the
\* receiver's state to the sender's, through cancelled reads, half-flushed packets, new keys
\* and the authentication.
THEOREM TransportInvariant == Spec => []Inv
<1>1. Init => Inv
  BY InitInv
<1>2. Inv /\ [Next]_vars => Inv'
  BY HangsUpStep, CancelStep, ReadStep, EndOfFileStep, FlushStep, PollStep, PeekStep, SendStep,
     UnimplementedStep, ServerReadsStep, ServerSendsStep, OpenStep, StutterStep
  DEF Next, Receive
<1> QED
  BY <1>1, <1>2, PTL DEF Spec

\* recv_packet opens every packet of the server, and fails only at the end of the stream,
\* after the last; the server opens every packet of the client.
THEOREM PacketsAlwaysOpen == Spec => []AlwaysOpens
<1>1. Inv => AlwaysOpens
  BY DEF Inv, TypeOK, BytesCounted, AlwaysOpens
<1> QED
  BY <1>1, TransportInvariant, PTL

\* send_payload never seals two packets under the same keys at the same place of the
\* cipher, unless 2^32 packets lie between them and the place is the sequence number.
THEOREM NoncesAreFresh == Spec => []NonceFresh
<1>1. Inv => NonceFresh
  <2>1. ASSUME Inv PROVE NonceFresh
    <3>1. toServer \in Seq(Packets(ClientTypes)) /\ DOMAIN toServer = 1..Len(toServer)
      BY <2>1 DEF Inv, TypeOK
    <3>2. ASSUME NEW i \in DOMAIN toServer, NEW j \in DOMAIN toServer, i < j,
                 toServer[i].seal.keys > 0, toServer[i].seal.keys = toServer[j].seal.keys,
                 toServer[i].seal.at = toServer[j].seal.at
          PROVE  suite.cipher = "chacha" /\ j - i >= SeqLimit
      <4>1. Linked(Law, toServer, PeerReceiver, Sender) /\ Law.suite = suite
        BY <2>1, LawGood DEF Inv, ToServerLinked
      <4> QED
        BY <3>1, <3>2, <4>1, LinkedFresh
    <3> QED
      BY <3>2 DEF NonceFresh
  <2> QED
    BY <2>1
<1> QED
  BY <1>1, TransportInvariant, PTL

\* handle_msg names the packet it did not understand.
THEOREM RejectedIsNamed == Spec => []NamesRejected
<1>1. Inv => NamesRejected
  BY DEF Inv
<1> QED
  BY <1>1, TransportInvariant, PTL
=============================================================================
