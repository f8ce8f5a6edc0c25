----------------------------- MODULE Handshake ------------------------------
(***************************************************************************)
(* Session::handshake: identification strings, KEXINIT and negotiation,    *)
(* the optional group exchange, the key exchange with the host key's       *)
(* verification, and NEWKEYS.  One task runs it, so the only concurrency   *)
(* is with the server, which may mix other messages in.                    *)
(*                                                                         *)
(* Cryptography is symbolic: a hash is the record of what it covers, a key *)
(* is a letter and a hash, a signature is genuine or not.  Packets and     *)
(* their sequence numbers are in Transport.                                *)
(***************************************************************************)
EXTENDS Integers, SequencesExt

CONSTANTS
  Preferred,    \* Config: the client's algorithms in each category, best first
  Offers,       \* what a server may offer, in the same categories
  Software,     \* the servers' identifications
  BannerMax,    \* MAX: bytes read up to the end of the identification
  LineSizes,    \* lengths of the lines a server sends before it
  Needs,        \* key bits the ciphers of a connection need
  Primes,       \* sizes of the groups the server has
  MaxNoise      \* bound: messages the server mixes in

VARIABLES
  config,       \* the switches of Config, and what its ciphers need
  phase,        \* where handshake() is
  error,        \* why it failed
  count,        \* bytes of the banner so far
  version,      \* server_version: the software it names
  ours,         \* client_kex_msg, None before
  theirs,       \* server_kex_msg, None before
  matched,      \* matched_methods, None before
  bits,         \* number_of_bits of the group exchange
  prime,        \* size of the group
  keys,         \* the keys of both directions, session_id; None before
  toServer, toClient,
  server        \* External: the server's side of all this

vars == <<config, phase, error, count, version, ours, theirs, matched, bits, prime, keys,
          toServer, toClient, server>>

None == <<>>

\* No algorithm's name.
Nothing == ""

Categories == DOMAIN Preferred

Curve == "curve25519-sha256@libssh.org"
Ecdh == "ecdh-sha2-nistp256"
Group14 == "diffie-hellman-group14-sha256"
GroupExchange == "diffie-hellman-group-exchange-sha256"
MlKem == "mlkem768x25519-sha256"
StrictClient == "kex-strict-c-v00@openssh.com"
StrictServer == "kex-strict-s-v00@openssh.com"

\* The methods of new_kex_by_name, one of each kind.
KexNames == {MlKem, Curve, Ecdh, Group14, GroupExchange}

\* The lists hold names of algorithms; a strictness marker is none.
ASSUME HandshakeAssumption ==
  /\ "kex" \in Categories /\ Preferred \in [Categories -> Seq(STRING)]
  /\ ToSet(Preferred["kex"]) \subseteq KexNames
  /\ \A o \in Offers :
       /\ o \in [Categories -> Seq(STRING)]
       /\ {StrictClient, StrictServer} \cap ToSet(o["kex"]) = {}
  /\ Software \subseteq {"any", "OpenSSH_6.6", "Cisco-1."}
  /\ BannerMax \in Nat /\ MaxNoise \in Nat
  /\ LineSizes \subseteq Nat /\ Needs \subseteq Nat /\ Primes \subseteq Nat

\* Message numbers, and two more for lines of text and the identification.  The key
\* exchange methods share some of theirs.
TEXT == 1001
IDENTIFICATION == 1002
DISCONNECT == 1
IGNORE == 2
UNIMPLEMENTED == 3
KEXINIT == 20
NEWKEYS == 21
GEX_GROUP == 31
GEX_REQUEST == 34
UNKNOWN == 200

\* The key exchange methods: the numbers of their two messages, the key pairs each side
\* makes, and whether the group is negotiated first.
MlKem768X25519 == [request |-> 30, response |-> 31, pairs |-> {"mlkem768", "x25519"}, group |-> FALSE]
Curve25519Impl == [request |-> 30, response |-> 31, pairs |-> {"x25519"}, group |-> FALSE]
EllipticCurveDiffieHellmanImpl == [request |-> 30, response |-> 31, pairs |-> {"ec"}, group |-> FALSE]
StandardDiffieHellmanImpl == [request |-> 30, response |-> 31, pairs |-> {"dh"}, group |-> FALSE]
ExchangeDiffieHellmanImpl == [request |-> 32, response |-> 33, pairs |-> {"dh"}, group |-> TRUE]

KeyExchange(name) ==
  CASE name = MlKem -> MlKem768X25519
    [] name = Curve -> Curve25519Impl
    [] name = Ecdh -> EllipticCurveDiffieHellmanImpl
    [] name = Group14 -> StandardDiffieHellmanImpl
    [] name = GroupExchange -> ExchangeDiffieHellmanImpl

\* ExchangeDiffieHellmanImpl::sha256.
MinBits == 2048
DefaultBits == 4096
MaxBits == 8192

\* Handshaker::new.
Init ==
  /\ config \in [strict : BOOLEAN, disable_compat : BOOLEAN, need : Needs]
  /\ phase = "banner" /\ error = "none" /\ count = 0 /\ version = "any"
  /\ ours = None /\ theirs = None /\ matched = None
  /\ bits = DefaultBits /\ prime = 0 /\ keys = None
  /\ toServer = <<>> /\ toClient = <<>>
  /\ server \in [phase : {"banner"}, software : Software, offer : Offers, strict : BOOLEAN,
                 said : {0}, noise : {0}, ours : {None}, theirs : {None}, chosen : {None},
                 group : {None}, keys : {None}]

-----------------------------------------------------------------------------
(* The client.                                                             *)

ClientUnchanged == UNCHANGED <<config, server>>

\* `?`: the error ends handshake().
Fail(why) ==
  /\ phase' = "failed" /\ error' = why
  /\ UNCHANGED <<count, version, ours, theirs, matched, bits, prime, keys, toServer>>

\* read_line_crlf(MAX - count).
LineFits(size) == count < BannerMax /\ BannerMax - count >= 2 /\ size <= BannerMax - count

\* banner_version_exchange reads a line.  The identification ends it.
ReadLine ==
  /\ phase = "banner" /\ toClient # <<>>
  /\ LET line == Head(toClient) IN
       IF ~LineFits(line.size) THEN Fail("banner")
       ELSE /\ count' = count + line.size
            /\ phase' = IF line.type = TEXT THEN "banner" ELSE "methods"
            /\ version' = IF line.type = TEXT THEN version ELSE line.software
            /\ UNCHANGED <<error, ours, theirs, matched, bits, prime, keys, toServer>>
  /\ toClient' = Tail(toClient)
  /\ ClientUnchanged

\* read_line_crlf: no room for a line ending.
BannerFull ==
  /\ phase = "banner" /\ BannerMax - count < 2
  /\ Fail("banner")
  /\ UNCHANGED toClient /\ ClientUnchanged

\* CompatOptions::parse, as far as the handshake uses it, unless it is switched off.
Compat ==
  [curve25519_pad |-> ~config.disable_compat /\ version = "OpenSSH_6.6",
   limited_dh_ex |-> ~config.disable_compat /\ version = "Cisco-1."]

\* do_compat.
DoCompat(methods) ==
  IF Compat.curve25519_pad
  THEN [methods EXCEPT !.kex = RemoveFirst(@, Curve)] ELSE methods

\* Methods::build puts the marker behind the algorithms.
Build(methods) ==
  [methods EXCEPT !.kex = @ \o (IF config.strict THEN <<StrictClient>> ELSE <<>>)]

\* Methods::from_config.
FromConfig == Preferred

ClientOffer == Build(DoCompat(FromConfig))

Message(type, body) == [type |-> type, body |-> body]

\* negotiate_methods: our KEXINIT goes first.
SendKexInit ==
  /\ phase = "methods" /\ ours = None
  /\ ours' = ClientOffer
  /\ toServer' = Append(toServer, Message(KEXINIT, ClientOffer))
  /\ UNCHANGED <<phase, error, count, version, theirs, matched, bits, prime, keys, toClient>>
  /\ ClientUnchanged

\* Mutant: the loop goes on to the last.
FirstCommonLast(prefs, offered) == SelectLastInSeq(prefs, LAMBDA a : a \in ToSet(offered))

\* Which of prefs is the first the server offers, or 0.
FirstCommon(prefs, offered) == SelectInSeq(prefs, LAMBDA a : a \in ToSet(offered))

\* Config::negotiate, None when a category has nothing in common.  The preferences are
\* the configured ones, not those that were sent.
Negotiate(offer) ==
  IF \E c \in Categories : FirstCommon(Preferred[c], offer[c]) = 0 THEN None
  ELSE [c \in Categories |-> Preferred[c][FirstCommon(Preferred[c], offer[c])]]

\* Methods::parse finds the server's marker, and takes it out of the list.
StrictMarker(list) == StrictServer \in ToSet(list)

Parsed(offer) == [offer EXCEPT !.kex = RemoveFirst(@, StrictServer)]

\* Both sides have switched strict key exchange on.
Strict == theirs # None /\ StrictMarker(theirs.kex) /\ config.strict

\* The server's KEXINIT.
HandleKexInit ==
  /\ phase = "methods" /\ ours # None /\ toClient # <<>> /\ Head(toClient).type = KEXINIT
  /\ LET offer == Head(toClient).body
         chosen == Negotiate(Parsed(offer))
     IN  IF chosen = None THEN Fail("negotiation")
         ELSE /\ theirs' = offer /\ matched' = chosen /\ phase' = "exchange"
              /\ UNCHANGED <<error, count, version, ours, bits, prime, keys, toServer>>
  /\ toClient' = Tail(toClient)
  /\ ClientUnchanged

\* The group a cipher's needs ask for, limited for a server with a limit of its own.
Recommended ==
  LET n == CASE config.need <= 112 -> 2048
             [] config.need > 112 /\ config.need <= 128 -> 3072
             [] config.need > 128 /\ config.need <= 192 -> 7680
             [] OTHER -> 8192
  IN  IF Compat.limited_dh_ex /\ n > 4096 THEN 4096 ELSE n

\* set_recommended_number_of_bits ignores what is out of range.
NumberOfBits(n) == IF n >= MinBits /\ n <= MaxBits THEN n ELSE DefaultBits

Method == KeyExchange(matched.kex)

\* generate_key: the public halves of the client's pairs.
GenerateKey == {<<"client", pair>> : pair \in Method.pairs}

\* compute_secret_key: one secret of each pair of halves.
Secret(public) == {{<<"client", h[2]>>, h} : h \in public}

\* key_exchange starts: with the group, if the method has none of its own.
StartExchange ==
  /\ phase = "exchange"
  /\ IF Method.group
     THEN /\ bits' = NumberOfBits(Recommended)
          /\ toServer' = Append(toServer, Message(GEX_REQUEST, NumberOfBits(Recommended)))
          /\ phase' = "group"
     ELSE /\ toServer' = Append(toServer, Message(Method.request, GenerateKey))
          /\ phase' = "reply" /\ UNCHANGED bits
  /\ UNCHANGED <<error, count, version, ours, theirs, matched, prime, keys, toClient>>
  /\ ClientUnchanged

\* Exchange::initialize.
GroupAccepted(p) == p >= MinBits /\ p <= MaxBits

HandleGroup ==
  /\ phase = "group" /\ toClient # <<>> /\ Head(toClient).type = GEX_GROUP
  /\ IF ~GroupAccepted(Head(toClient).body) THEN Fail("prime")
     ELSE /\ prime' = Head(toClient).body
          /\ toServer' = Append(toServer, Message(Method.request, GenerateKey))
          /\ phase' = "reply"
          /\ UNCHANGED <<error, count, version, ours, theirs, matched, bits, keys>>
  /\ toClient' = Tail(toClient)
  /\ ClientUnchanged

\* compute_hash: the group counts only where the method has negotiated one.
Hash(public) ==
  [version |-> version, client |-> ours, server |-> theirs,
   group |-> IF Method.group THEN <<bits, prime>> ELSE None,
   halves |-> GenerateKey \cup public, secret |-> Secret(public)]

\* compute_keys, with the session identifier of a first exchange.
Key(letter, hash) == <<letter, hash>>

\* Mutant: the letters of the directions are swapped.
InitializedSwapped(hash) ==
  [send |-> {Key(l, hash) : l \in {"B", "D", "F"}},
   receive |-> {Key(l, hash) : l \in {"A", "C", "E"}}, session |-> hash]

\* MatchedMethods::initialize: initial vector, key and MAC key of each direction.
Initialized(hash) ==
  [send |-> {Key(l, hash) : l \in {"A", "C", "E"}},
   receive |-> {Key(l, hash) : l \in {"B", "D", "F"}}, session |-> hash]

\* The signature is good and the notifier accepts the host key.
Trusted(m, accepted) == m.genuine /\ accepted

\* The server's reply: verify, ask the notifier, derive the keys, send NEWKEYS.
HandleReply ==
  /\ phase = "reply" /\ toClient # <<>> /\ Head(toClient).type = Method.response
  /\ LET m == Head(toClient).body
         hash == Hash(m.public)
     IN  \E accepted \in BOOLEAN :
         IF m.hash # hash THEN Fail("signature")
         ELSE IF ~Trusted(m, accepted) THEN Fail("untrusted")
         ELSE /\ keys' = Initialized(hash)
              /\ toServer' = Append(toServer, Message(NEWKEYS, m.genuine /\ accepted))
              /\ phase' = "newkeys"
              /\ UNCHANGED <<error, count, version, ours, theirs, matched, bits, prime>>
  /\ toClient' = Tail(toClient)
  /\ ClientUnchanged

HandleNewKeys ==
  /\ phase = "newkeys" /\ toClient # <<>> /\ Head(toClient).type = NEWKEYS
  /\ phase' = "up"
  /\ toClient' = Tail(toClient)
  /\ UNCHANGED <<error, count, version, ours, theirs, matched, bits, prime, keys, toServer>>
  /\ ClientUnchanged

\* The message each phase waits for.
Awaited ==
  CASE phase = "methods" -> KEXINIT [] phase = "group" -> GEX_GROUP
    [] phase = "reply" -> Method.response [] phase = "newkeys" -> NEWKEYS [] OTHER -> 0

\* handle_msg refuses everything once both sides are strict.
Trips == Strict

\* PlainStream::handle_msg: whatever else arrives.  After our NEWKEYS it is ignored.
HandleOther ==
  /\ Awaited # 0 /\ ours # None /\ toClient # <<>>
  /\ LET type == Head(toClient).type IN
       /\ type # Awaited
       /\ IF phase # "newkeys" /\ Trips THEN Fail("strict")
          ELSE IF phase # "newkeys" /\ type = DISCONNECT THEN Fail("disconnected")
          ELSE /\ toServer' = IF phase # "newkeys" /\ type = UNKNOWN
                              THEN Append(toServer, Message(UNIMPLEMENTED, 0)) ELSE toServer
               /\ UNCHANGED <<phase, error, count, version, ours, theirs, matched, bits, prime, keys>>
  /\ toClient' = Tail(toClient)
  /\ ClientUnchanged

\* Mutant: a read of no bytes is tried again.
HangUpAgain ==
  /\ phase \notin {"up", "failed"} /\ server.phase = "gone" /\ toClient = <<>>
  /\ UNCHANGED vars

\* internal_read: the connection is closed under a read.
HangUp ==
  /\ phase \notin {"up", "failed"} /\ server.phase = "gone" /\ toClient = <<>>
  /\ Fail("io")
  /\ UNCHANGED toClient /\ ClientUnchanged

-----------------------------------------------------------------------------
(* The server (external): it keeps to the protocol, has its own limits,    *)
(* and may give up at any time.                                            *)

ServerUnchanged == UNCHANGED <<config, phase, error, count, version, ours, theirs, matched, bits,
                               prime, keys>>

Say(m) == toClient' = Append(toClient, m)

IdSize == 8

ServerTalks ==
  /\ server.phase = "banner"
  /\ \E size \in LineSizes :
       /\ server.said + size <= BannerMax + 2
       /\ Say([type |-> TEXT, size |-> size])
       /\ server' = [server EXCEPT !.said = @ + size]
  /\ UNCHANGED toServer /\ ServerUnchanged

ServerIdentifies ==
  /\ server.phase = "banner"
  /\ Say([type |-> IDENTIFICATION, size |-> IdSize, software |-> server.software])
  /\ server' = [server EXCEPT !.phase = "methods", !.said = @ + IdSize]
  /\ UNCHANGED toServer /\ ServerUnchanged

\* Its KEXINIT does not wait for the client's.
ServerKexInit ==
  /\ server.phase = "methods"
  /\ LET offer == [server.offer EXCEPT !.kex = @ \o (IF server.strict THEN <<StrictServer>> ELSE <<>>)]
     IN  /\ Say(Message(KEXINIT, offer))
         /\ server' = [server EXCEPT !.phase = "kexinit", !.ours = offer]
  /\ UNCHANGED toServer /\ ServerUnchanged

\* The rule of the protocol: the client's first algorithm that the server supports too.
Best(offered, supported) ==
  IF \E a \in ToSet(offered) : a \in ToSet(supported)
  THEN CHOOSE a \in ToSet(offered) \cap ToSet(supported) :
         \E i \in DOMAIN offered :
           offered[i] = a /\ \A j \in 1..(i - 1) : offered[j] \notin ToSet(supported)
  ELSE Nothing

Hears(type) == toServer # <<>> /\ Head(toServer).type = type

ServerNegotiates ==
  /\ server.phase = "kexinit" /\ Hears(KEXINIT)
  /\ LET chosen == [c \in Categories |-> Best(Head(toServer).body[c], server.offer[c])] IN
       server' = [server EXCEPT !.theirs = Head(toServer).body, !.chosen = chosen,
                    !.phase = IF \E c \in Categories : chosen[c] = Nothing THEN "gone" ELSE "exchange"]
  /\ toServer' = Tail(toServer)
  /\ UNCHANGED toClient /\ ServerUnchanged

ServerGroup ==
  /\ server.phase = "exchange" /\ Hears(GEX_REQUEST) /\ server.group = None
  /\ \E p \in Primes :
       /\ Say(Message(GEX_GROUP, p))
       /\ server' = [server EXCEPT !.group = <<Head(toServer).body, p>>]
  /\ toServer' = Tail(toServer)
  /\ ServerUnchanged

ServerMethod == KeyExchange(server.chosen.kex)

ServerKey == {<<"server", pair>> : pair \in ServerMethod.pairs}

ServerHash(public) ==
  [version |-> server.software, client |-> server.theirs, server |-> server.ours,
   group |-> server.group, halves |-> ServerKey \cup public,
   secret |-> {{h, <<"server", h[2]>>} : h \in public}]

\* The client's value: reply and NEWKEYS.
ServerReplies ==
  /\ server.phase = "exchange" /\ Hears(ServerMethod.request)
  /\ LET hash == ServerHash(Head(toServer).body) IN
       /\ \E genuine \in BOOLEAN :
            toClient' =
              Append(Append(toClient, Message(ServerMethod.response,
                                              [hash |-> hash, public |-> ServerKey, genuine |-> genuine])),
                     Message(NEWKEYS, 0))
       /\ server' = [server EXCEPT !.phase = "newkeys",
                       !.keys = [receive |-> {Key(l, hash) : l \in {"A", "C", "E"}},
                                 send |-> {Key(l, hash) : l \in {"B", "D", "F"}}, session |-> hash]]
  /\ toServer' = Tail(toServer)
  /\ ServerUnchanged

ServerNewKeys ==
  /\ server.phase = "newkeys" /\ Hears(NEWKEYS)
  /\ server' = [server EXCEPT !.phase = "up"]
  /\ toServer' = Tail(toServer)
  /\ UNCHANGED toClient /\ ServerUnchanged

ServerUnimplemented ==
  /\ Hears(UNIMPLEMENTED)
  /\ toServer' = Tail(toServer)
  /\ UNCHANGED <<toClient, server>> /\ ServerUnchanged

\* Strict for the server: it has offered it and the client has.
ServerStrict == server.strict /\ server.theirs # None /\ StrictClient \in ToSet(server.theirs.kex)

\* Other messages, before its NEWKEYS, of a server that may not turn out strict.
ServerNoise ==
  /\ server.phase \in {"methods", "kexinit", "exchange"} /\ server.noise < MaxNoise
  /\ ~server.strict \/ (server.theirs # None /\ ~ServerStrict)
  /\ \E type \in {IGNORE, UNKNOWN, DISCONNECT} :
       /\ Say(Message(type, 0))
       /\ server' = [server EXCEPT !.noise = @ + 1, !.phase = IF type = DISCONNECT THEN "gone" ELSE @]
  /\ UNCHANGED toServer /\ ServerUnchanged

ServerGone ==
  /\ server.phase \notin {"up", "gone"} /\ phase # "up"
  /\ server' = [server EXCEPT !.phase = "gone"]
  /\ UNCHANGED <<toServer, toClient>> /\ ServerUnchanged

-----------------------------------------------------------------------------

Client ==
  \/ ReadLine \/ BannerFull \/ SendKexInit \/ HandleKexInit \/ StartExchange \/ HandleGroup
  \/ HandleReply \/ HandleNewKeys \/ HandleOther \/ HangUp

ServerMoves ==
  \/ ServerIdentifies \/ ServerKexInit \/ ServerNegotiates \/ ServerGroup \/ ServerReplies
  \/ ServerNewKeys \/ ServerUnimplemented

Next == Client \/ ServerMoves \/ ServerTalks \/ ServerNoise \/ ServerGone

Spec == Init /\ [][Next]_vars

\* The client's task runs, and the server does its part.
Fairness == WF_vars(Client) /\ WF_vars(ServerMoves)

FairSpec == Spec /\ Fairness

-----------------------------------------------------------------------------
(* Properties.                                                             *)

\* The two sides negotiate apart, each from the lists it has seen, and must come to the
\* same: the client to the server's choice, and to a failure where the server finds none.
\* Both restart their sequence numbers at NEWKEYS, or neither does, and a server that
\* sends nothing out of turn when both are strict is never accused of it.
NegotiationRight ==
  /\ matched # None /\ server.chosen # None => matched = server.chosen
  /\ error = "negotiation" => \E c \in Categories : Best(Preferred[c], server.offer[c]) = Nothing
  /\ phase = "up" => (Strict = ServerStrict)
  /\ error # "strict"

\* What one side encrypts with the other decrypts with, both know the session by one
\* identifier, and a signature over the server's own view of the exchange is never refused.
\* No NEWKEYS goes out under a bad signature or a host key the notifier refuses.
KeysAgree ==
  /\ keys # None => /\ keys.send = server.keys.receive /\ keys.receive = server.keys.send
                    /\ keys.session = server.keys.session
  /\ error # "signature"
  /\ \A i \in DOMAIN toServer : toServer[i].type = NEWKEYS => toServer[i].body

\* handshake() returns, whatever the server mixes in, also when it goes away.
HandshakeEnds == <>(phase \in {"up", "failed"})
=============================================================================
