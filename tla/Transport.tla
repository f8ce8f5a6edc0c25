----------------------------- MODULE Transport -----------------------------
(***************************************************************************)
(* The packet layer: PlainStream and CipherStream on a BufferStream, with  *)
(* the ciphers, MACs and compressors as the stateful things they are.      *)
(*                                                                         *)
(* What a cipher, a MAC or a compressor does to bytes is left out; what it *)
(* keeps between packets is the model: chacha20-poly1305 takes the         *)
(* sequence number as its nonce, AES-GCM counts its invocations, CTR and   *)
(* CBC go on where the last packet ended, every MAC covers the sequence    *)
(* number, and a zlib stream continues from packet to packet.  A packet    *)
(* carries the state it was sealed with; it opens only in the same state.  *)
(*                                                                         *)
(* Sizes are bytes.  The connection fragments the stream at will, and the  *)
(* reader is a branch of select! that any event may cancel while it waits. *)
(* Errors raised before anything is written (PayloadTooLong) change no     *)
(* state and are left out.                                                 *)
(***************************************************************************)
EXTENDS Integers, Sequences, FiniteSetsExt

CONSTANTS
  Suites,       \* what may be negotiated: cipher, MAC, compression, strict KEX
  Size,         \* per type of packet: its payload, after compression
  ReadSizes,    \* how much one read or write of the socket moves
  SeqLimit,     \* sequence numbers: 2^32
  MaxPackets,   \* bound: packets of the server
  MaxPayloads,  \* bound: payloads the client sends of its own
  MaxKeys       \* bound: key exchanges, the first included

Ciphers == {"chacha", "gcm", "chain"}

ASSUME TransportAssumption ==
  /\ Suites \subseteq [cipher : Ciphers, etm : BOOLEAN, strict : BOOLEAN,
                       zip : {"none", "zlib", "delayed"}]
  /\ Size \in [{"data", "newkeys", "odd", "success", "unimplemented"} -> Nat \ {0}]
  /\ ReadSizes \subseteq Nat \ {0}
  /\ SeqLimit \in Nat \ {0} /\ MaxPackets \in Nat /\ MaxPayloads \in Nat /\ MaxKeys \in Nat

VARIABLES
  suite,           \* the negotiated algorithms
  toServer, toClient,   \* packets on the way
  unsent,          \* w_buf: bytes of the last packet in toServer not written yet
  incoming,        \* bytes of toClient, the ones of r_buf included
  have,            \* r_buf: bytes of toClient that are read and not consumed
  reading,         \* the recv_packet future: "off", "on", "peeked" (knows the length)
  state,           \* CipherStream.state: "none", "ready", "length" (Ready, length: Some)
  failed,          \* why recv_packet failed, or "no"
  authenticated,   \* CipherStream.authenticated
  client, server,  \* NormalEndpoint.sequence_number of the two directions
  encrypt,         \* sealing client to server: keys, cipher position, zip position
  decrypt,         \* opening server to client: the same, and the length's turns as AAD
  peer,            \* External: the server's side of both directions
  hungUp,          \* External: the server has closed the connection
  sent,            \* packets so far, per direction
  odd              \* History: the number of the last packet handle_msg did not know

vars == <<suite, toServer, toClient, unsent, incoming, have, reading, state, failed,
          authenticated, client, server, encrypt, decrypt, peer, hungUp, sent, odd>>

\* The number after n, wrapping_add(1).
After(n) == (n + 1) % SeqLimit

\* Algorithms of a new epoch: MatchedMethods.initialize'd, nothing processed.
Fresh(keys) == [keys |-> keys, at |-> 0, zip |-> 0, aad |-> 0]

Init ==
  /\ suite \in Suites
  /\ toServer = <<>> /\ toClient = <<>>
  /\ unsent = 0 /\ incoming = 0 /\ have = 0
  /\ reading = "off" /\ state = "none" /\ failed = "no"
  /\ authenticated = FALSE
  /\ client = 0 /\ server = 0
  /\ encrypt = Fresh(0) /\ decrypt = Fresh(0)
  /\ peer = [out |-> Fresh(0), in |-> Fresh(0), outSeq |-> 0, inSeq |-> 0,
             authenticated |-> FALSE, failed |-> FALSE]
  /\ hungUp = FALSE
  /\ sent = [server |-> 0, client |-> 0]
  /\ odd = 0

-----------------------------------------------------------------------------
(* Framing.                                                                *)

\* PlainStream before the first NEWKEYS; then one of CipherStream's three
\* framings: is_galois_counter_mode(), encrypt_then_mac(), neither.
Framing(keys) ==
  IF keys = 0 THEN "plain"
  ELSE IF suite.cipher \in {"chacha", "gcm"} THEN "aead"
  ELSE IF suite.etm THEN "etm" ELSE "mte"

\* block_size() of the ciphers (3des-cbc's is 8 and differs in nothing else).
BlockSize(keys) == IF keys = 0 \/ suite.cipher = "chacha" THEN 8 ELSE 16

\* tag_len(), mac_len(): from 8 to 64 bytes, which only moves the end of a packet.
TagLength(keys) == IF keys = 0 THEN 0 ELSE 16

\* The length field counts for the alignment only if it is encrypted with the rest.
Aligned(keys, size) == (IF Framing(keys) \in {"plain", "mte"} THEN 5 ELSE 1) + size

MinPadding == 4

\* padding_len of send_payload.
Padding(keys, size) ==
  LET p == BlockSize(keys) - (Aligned(keys, size) % BlockSize(keys))
  IN  IF p < MinPadding THEN p + BlockSize(keys) ELSE p

\* Bytes on the wire: length, padding length, payload, padding, tag.
WireLength(keys, size) == 4 + 1 + size + Padding(keys, size) + TagLength(keys)

-----------------------------------------------------------------------------
(* Ciphers, MACs and compression: `cs` is a Fresh(..) record in use.       *)

\* update_sequence_number: the nonce of chacha20-poly1305; nothing to the others.
Nonce(cs, seq) == IF suite.cipher = "chacha" THEN seq ELSE cs.at

\* What a MAC covers besides the packet: HMAC starts with the number, UMAC has it as
\* its nonce; both begin anew with every packet.
MacNumber(cs, seq) == IF Framing(cs.keys) \in {"etm", "mte"} THEN seq ELSE 0

\* What a packet is sealed with.
Seal(cs, seq) ==
  [keys |-> cs.keys,
   at   |-> IF cs.keys = 0 THEN 0 ELSE Nonce(cs, seq),
   seq  |-> MacNumber(cs, seq)]

\* Mutant: AES-GCM starts every packet with the IV of the key exchange.
MovedNot(cs, size) ==
  IF cs.keys = 0 \/ suite.cipher # "chain" THEN cs.at
  ELSE cs.at + 1 + size + Padding(cs.keys, size)
         + (IF Framing(cs.keys) = "mte" THEN 4 ELSE 0)

\* The cipher after a packet: AES-GCM's reset() increments the invocation counter;
\* CTR and CBC have moved by what was encrypted.
Moved(cs, size) ==
  IF cs.keys = 0 \/ suite.cipher = "chacha" THEN cs.at
  ELSE IF suite.cipher = "gcm" THEN cs.at + 1
  ELSE cs.at + 1 + size + Padding(cs.keys, size)
         + (IF Framing(cs.keys) = "mte" THEN 4 ELSE 0)

\* self.authenticated || compress_in_authentication(), of an algorithm that
\* compresses; PlainStream never does.
Compresses(cs, auth) ==
  cs.keys > 0 /\ (suite.zip = "zlib" \/ (auth /\ suite.zip = "delayed"))

\* The compressor's place in its stream for the next packet; 0: not compressed.
ZipPlace(cs, auth) == IF Compresses(cs, auth) THEN cs.zip + 1 ELSE 0

Zipped(cs, auth) == IF Compresses(cs, auth) THEN cs.zip + 1 ELSE cs.zip

Packet(cs, seq, auth, type, size) ==
  [type |-> type, size |-> size, seal |-> Seal(cs, seq), zip |-> ZipPlace(cs, auth),
   seq |-> seq, names |-> 0, meant |-> 0]

Advanced(cs, auth, size) ==
  [cs EXCEPT !.at = Moved(cs, size), !.zip = Zipped(cs, auth), !.aad = 0]

\* Strict key exchange: the direction's number starts again after its NEWKEYS.
Numbered(seq, type) == IF type = "newkeys" /\ suite.strict THEN 0 ELSE After(seq)

-----------------------------------------------------------------------------
(* send_payload.  The session task does nothing else until it returns.     *)

Ready == unsent = 0 /\ failed = "no"

\* While the client waits for the answer to its authentication request it sends
\* nothing of its own.
AwaitsSuccess == \E i \in DOMAIN toClient : toClient[i].type = "success"

\* Between its NEWKEYS and the server's, the handshake sends nothing: the stream
\* is upgraded as a whole.
Upgrading == encrypt.keys = 1 /\ decrypt.keys = 0

\* upgrade_client: cipher, encoder and MAC are all new.
UpgradeClient(cs) == Fresh(cs.keys + 1)

\* The packet is sealed and put into w_buf; NEWKEYS is followed by upgrade_client
\* or, at the first exchange, by PlainStream::upgrade.
Put(type, size, names) ==
  LET p == Packet(encrypt, client, authenticated, type, size) IN
    /\ toServer' = Append(toServer, [p EXCEPT !.names = names, !.meant = odd])
    /\ unsent' = WireLength(encrypt.keys, size)
    /\ encrypt' = IF type = "newkeys" THEN UpgradeClient(encrypt)
                  ELSE Advanced(encrypt, authenticated, size)

SendPayload ==
  /\ Ready /\ reading = "off" /\ ~Upgrading /\ ~AwaitsSuccess
  /\ sent.client < MaxPayloads
  /\ \E type \in {"data", "newkeys"} :
       /\ type = "newkeys" => encrypt.keys = decrypt.keys /\ encrypt.keys < MaxKeys
       /\ Put(type, Size[type], 0)
  /\ sent' = [sent EXCEPT !.client = @ + 1]
  /\ UNCHANGED <<suite, toClient, incoming, have, reading, state, failed, authenticated,
                 client, server, decrypt, peer, hungUp, odd>>

\* flush: writes until w_buf is empty; only then the number is taken.
Flush ==
  /\ unsent > 0
  /\ \E n \in ReadSizes :
       LET left == unsent - Min({n, unsent}) IN
         /\ unsent' = left
         /\ client' = IF left = 0 THEN Numbered(client, toServer[Len(toServer)].type)
                      ELSE client
  /\ UNCHANGED <<suite, toServer, toClient, incoming, have, reading, state, failed,
                 authenticated, server, encrypt, decrypt, peer, hungUp, sent, odd>>

-----------------------------------------------------------------------------
(* recv_packet.                                                            *)

LengthKnown == reading = "peeked" \/ state = "length"

\* fill(4), or the first block if the length is encrypted with the rest.
HeaderLength == IF Framing(decrypt.keys) = "mte" THEN BlockSize(decrypt.keys) ELSE 4

Wanted ==
  IF LengthKnown THEN WireLength(Head(toClient).seal.keys, Head(toClient).size)
  ELSE HeaderLength

\* Mutant: a read that has begun is not taken up again.
PollOnce ==
  /\ Ready /\ reading = "off" /\ state = "none"
  /\ reading' = "on"
  /\ state' = IF decrypt.keys > 0 THEN "ready" ELSE state
  /\ decrypt' = IF decrypt.keys > 0
                THEN [decrypt EXCEPT !.at = Nonce(decrypt, server)] ELSE decrypt
  /\ UNCHANGED <<suite, toServer, toClient, unsent, incoming, have, failed, authenticated,
                 client, server, encrypt, peer, hungUp, sent, odd>>

\* The future is polled.  State::None: the cipher is told the number, and with it
\* chacha20-poly1305 starts a new MAC.
Poll ==
  /\ Ready /\ reading = "off"
  /\ reading' = "on"
  /\ state' = IF decrypt.keys > 0 /\ state = "none" THEN "ready" ELSE state
  /\ decrypt' = IF decrypt.keys > 0 /\ state = "none"
                THEN [decrypt EXCEPT !.at = Nonce(decrypt, server)] ELSE decrypt
  /\ UNCHANGED <<suite, toServer, toClient, unsent, incoming, have, failed, authenticated,
                 client, server, encrypt, peer, hungUp, sent, odd>>

\* internal_read: some bytes, at most what there is.
InternalRead ==
  /\ reading \in {"on", "peeked"} /\ have < Wanted /\ have < incoming
  /\ \E n \in ReadSizes : have' = Min({have + n, incoming})
  /\ UNCHANGED <<suite, toServer, toClient, unsent, incoming, reading, state, failed,
                 authenticated, client, server, encrypt, decrypt, peer, hungUp, sent,
                 odd>>

\* internal_read: nothing more will come.
EndOfFile ==
  /\ reading \in {"on", "peeked"} /\ have < Wanted
  /\ hungUp /\ have = incoming
  /\ failed' = "eof" /\ reading' = "off"
  /\ UNCHANGED <<suite, toServer, toClient, unsent, incoming, have, state, authenticated,
                 client, server, encrypt, decrypt, peer, hungUp, sent, odd>>

\* The length becomes known.  AEAD: it is fed as associated data; MAC-then-encrypt:
\* the first block is decrypted; both are kept in `state` so that it happens once.
\* Otherwise it is only peeked at, again after a cancellation.
PeekLength ==
  /\ reading = "on" /\ state # "length" /\ have >= HeaderLength
  /\ reading' = "peeked"
  /\ state' = IF Framing(decrypt.keys) \in {"aead", "mte"} THEN "length" ELSE state
  /\ decrypt' = CASE Framing(decrypt.keys) = "aead" -> [decrypt EXCEPT !.aad = @ + 1]
                  [] Framing(decrypt.keys) = "mte" -> [decrypt EXCEPT !.at = @ + HeaderLength]
                  [] OTHER -> decrypt
  /\ UNCHANGED <<suite, toServer, toClient, unsent, incoming, have, failed, authenticated,
                 client, server, encrypt, peer, hungUp, sent, odd>>

\* An event wins exec's select! while fill waits: the future is dropped.
Cancel ==
  /\ reading \in {"on", "peeked"} /\ have < Wanted
  /\ reading' = "off"
  /\ UNCHANGED <<suite, toServer, toClient, unsent, incoming, have, state, failed,
                 authenticated, client, server, encrypt, decrypt, peer, hungUp, sent,
                 odd>>

\* Mutant: the first block is taken for decrypted in every framing but AEAD.
HeadlessAny ==
  IF Framing(decrypt.keys) \in {"mte", "etm"} THEN [decrypt EXCEPT !.at = @ - HeaderLength]
  ELSE decrypt

\* The decrypting cipher as it was before the first block, which MAC-then-encrypt
\* decrypts ahead of the rest.
Headless ==
  IF Framing(decrypt.keys) = "mte" THEN [decrypt EXCEPT !.at = @ - HeaderLength]
  ELSE decrypt

\* The packet's tag is what the receiver computes: the same keys, the same place of
\* the cipher, the same number, and the length authenticated once.
Opens(p) ==
  /\ p.seal.keys = decrypt.keys
  /\ decrypt.keys > 0 => p.seal.at = Headless.at
  /\ p.seal.seq = MacNumber(decrypt, server)
  /\ Framing(decrypt.keys) = "aead" => decrypt.aad = 1

\* The packet is complete: it is verified, decrypted, decompressed and consumed, the
\* state forgotten, the number taken.  NEWKEYS is followed by upgrade_server (by
\* PlainStream::upgrade), USERAUTH_SUCCESS by `authenticated`.
Open ==
  /\ reading \in {"on", "peeked"} /\ LengthKnown /\ have >= Wanted
  /\ LET p == Head(toClient) IN
       IF ~Opens(p) \/ p.zip # ZipPlace(decrypt, authenticated)
       THEN /\ failed' = IF Opens(p) THEN "zip" ELSE "mac"
            /\ reading' = "off"
            /\ UNCHANGED <<toClient, incoming, have, state, authenticated, server,
                           decrypt, odd>>
       ELSE /\ toClient' = Tail(toClient)
            /\ incoming' = incoming - Wanted
            /\ have' = have - Wanted
            /\ state' = "none"
            /\ server' = Numbered(server, p.type)
            /\ authenticated' = (authenticated \/ p.type = "success")
            /\ decrypt' = IF p.type = "newkeys" THEN Fresh(decrypt.keys + 1)
                          ELSE Advanced(Headless, authenticated, p.size)
            /\ reading' = IF p.type = "odd" /\ ~Upgrading THEN "odd" ELSE "off"
            /\ odd' = IF p.type = "odd" THEN p.seq ELSE odd
            /\ UNCHANGED failed
  /\ UNCHANGED <<suite, toServer, unsent, client, encrypt, peer, hungUp, sent>>

\* Mutant: the number of the packet to come.
RejectedNext == server

\* The number handle_msg names in SSH_MSG_UNIMPLEMENTED: the session's is that of the
\* packet read last, the handshake's that of the packet to come.
Rejected == IF decrypt.keys = 0 THEN server ELSE (server - 1) % SeqLimit

\* handle_msg does not know the message: SSH_MSG_UNIMPLEMENTED.
SendUnimplemented ==
  /\ reading = "odd"
  /\ reading' = "off"
  /\ Put("unimplemented", Size["unimplemented"], Rejected)
  /\ UNCHANGED <<suite, toClient, incoming, have, state, failed, authenticated, client,
                 server, decrypt, peer, hungUp, sent, odd>>

-----------------------------------------------------------------------------
(* The server (external) seals and opens by the same rules.  The client    *)
(* reads its NEWKEYS only after it has sent its own.                       *)

ServerNumbered(seq, type) ==
  IF type = "newkeys" /\ suite.strict THEN 0 ELSE After(seq)

ServerZip(cs) ==
  IF \/ cs.keys = 0 \/ suite.zip = "none"
     \/ suite.zip = "delayed" /\ ~peer.authenticated
  THEN [place |-> 0, next |-> cs.zip] ELSE [place |-> cs.zip + 1, next |-> cs.zip + 1]

ServerMoved(cs, size) == [cs EXCEPT !.at = Moved(cs, size), !.zip = ServerZip(cs).next]

ServerSends ==
  /\ ~hungUp /\ sent.server < MaxPackets
  /\ \E type \in {"data", "odd", "newkeys", "success"} :
       /\ type = "newkeys" => peer.out.keys < encrypt.keys
       /\ type = "odd" =>
            IF peer.out.keys = 0 THEN ~suite.strict ELSE peer.authenticated
       /\ type = "success" =>
            /\ ~peer.authenticated /\ peer.out.keys > 0 /\ decrypt.keys > 0
            /\ toServer = <<>> /\ unsent = 0 /\ reading # "odd"
       /\ toClient' = Append(toClient,
            [Packet(peer.out, peer.outSeq, FALSE, type, Size[type]) EXCEPT !.zip = ServerZip(peer.out).place])
       /\ incoming' = incoming + WireLength(peer.out.keys, Size[type])
       /\ peer' = [peer EXCEPT
            !.out = IF type = "newkeys" THEN Fresh(@.keys + 1)
                    ELSE ServerMoved(@, Size[type]),
            !.outSeq = ServerNumbered(@, type),
            !.authenticated = @ \/ type = "success"]
  /\ sent' = [sent EXCEPT !.server = @ + 1]
  /\ UNCHANGED <<suite, toServer, unsent, have, reading, state, failed, authenticated,
                 client, server, encrypt, decrypt, hungUp, odd>>

ServerReads ==
  /\ toServer # <<>> /\ ~peer.failed
  /\ Len(toServer) = 1 => unsent = 0
  /\ LET p == Head(toServer) IN
       peer' = [peer EXCEPT
         !.in = IF p.type = "newkeys" THEN Fresh(@.keys + 1)
                ELSE ServerMoved(@, p.size),
         !.inSeq = ServerNumbered(@, p.type),
         !.failed = \/ p.seal # Seal(peer.in, peer.inSeq)
                    \/ p.zip # ServerZip(peer.in).place]
  /\ toServer' = Tail(toServer)
  /\ UNCHANGED <<suite, toClient, unsent, incoming, have, reading, state, failed,
                 authenticated, client, server, encrypt, decrypt, hungUp, sent, odd>>

ServerHangsUp ==
  /\ ~hungUp /\ hungUp' = TRUE
  /\ UNCHANGED <<suite, toServer, toClient, unsent, incoming, have, reading, state,
                 failed, authenticated, client, server, encrypt, decrypt, peer, sent,
                 odd>>

-----------------------------------------------------------------------------

Receive == Poll \/ InternalRead \/ EndOfFile \/ PeekLength \/ Open \/ SendUnimplemented

Next ==
  \/ Receive \/ Cancel
  \/ SendPayload \/ Flush
  \/ ServerSends \/ ServerReads \/ ServerHangsUp

Spec == Init /\ [][Next]_vars

\* exec polls recv_packet again after every event, and bytes that have arrived are
\* read whenever it is polled: select! can cancel a read only if there are none.
Fairness ==
  /\ WF_vars(Flush) /\ WF_vars(Poll) /\ WF_vars(SendUnimplemented)
  /\ SF_vars(InternalRead) /\ WF_vars(PeekLength) /\ WF_vars(Open)

FairSpec == Spec /\ Fairness

-----------------------------------------------------------------------------
(* Properties.                                                             *)

\* Whatever is cancelled, however the bytes arrive, whatever is renegotiated: a
\* packet of the server is always opened with the keys, nonce, number and compression
\* stream it was sealed with.  recv_packet fails with nothing but the end of file, and with
\* that only after every packet.  The same for the client's packets, which the server reads.
AlwaysOpens ==
  /\ failed \in {"no", "eof"}
  /\ failed = "eof" => toClient = <<>>
  /\ ~peer.failed

\* A nonce (chacha20-poly1305) or a place of the cipher (the others) is used twice under
\* the same keys only when the sequence number has gone all the way round.
NonceFresh ==
  \A i, j \in DOMAIN toServer :
    LET p == toServer[i]
        q == toServer[j]
    IN  (i < j /\ p.seal.keys > 0 /\ p.seal.keys = q.seal.keys /\ p.seal.at = q.seal.at)
          => suite.cipher = "chacha" /\ j - i >= SeqLimit

\* SSH_MSG_UNIMPLEMENTED of a session names the packet that was not understood, also
\* next to wrapping and restarting numbers.
NamesRejected ==
  \A i \in DOMAIN toServer :
    toServer[i].type = "unimplemented" /\ toServer[i].seal.keys > 0
      => toServer[i].names = toServer[i].meant

\* Every packet of the server is delivered, however often recv_packet is cancelled.
Delivered == []<>(toClient = <<>>)
=============================================================================
