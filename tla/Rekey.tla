-------------------------------- MODULE Rekey --------------------------------
(***************************************************************************)
(* Key re-exchange on a live session: the session task (exec, handle_msg,  *)
(* match_msg and RekeyExchange), the event queue that feeds it, the two    *)
(* FIFO directions of the connection and a server that rekeys too.         *)
(*                                                                         *)
(* Keys are numbered by exchange: a message carries the number of the keys *)
(* it was encrypted with, and each end knows with which it encrypts and    *)
(* decrypts.  A PING stands for every message handle_msg answers at once   *)
(* (keep-alives, unknown requests, channel data that moves the window); a  *)
(* request stands for every event whose handler waits in match_msg.        *)
(***************************************************************************)
EXTENDS Integers, Sequences

CONSTANTS
  MaxRequests,   \* bound: calls that wait for an answer
  MaxCalls,      \* bound: Session::renegotiate calls
  MaxExchanges,  \* bound: exchanges the server starts
  MaxPings,      \* bound: pings the server sends
  Verdicts       \* what verify_server_host_key may answer

ASSUME RekeyAssumption ==
  /\ MaxRequests \in Nat /\ MaxCalls \in Nat /\ MaxExchanges \in Nat /\ MaxPings \in Nat
  /\ Verdicts \subseteq BOOLEAN /\ TRUE \in Verdicts

VARIABLES
  pc,            \* where the session task is, see Places
  renegotiating, \* SessionInner.renegotiating
  deferred,      \* SessionInner.renegotiate_msg is Some
  byEvent,       \* the exchange under way was started by Event::Renegotiate
  encrypt,       \* the keys the client encrypts with
  decrypt,       \* the keys the client decrypts with
  calls,         \* the event queue
  toServer, toClient,
  server,        \* the server's exchange: "none", "sent", "both", "newkeys"
  serverEncrypt, serverDecrypt,
  held,          \* what the server may not send before its NEWKEYS
  done,          \* how often each bounded thing has happened
  trusted,       \* History: the keys whose host key the application accepted
  refused        \* History: the application has turned a host key down

vars == <<pc, renegotiating, deferred, byEvent, encrypt, decrypt, calls, toServer,
          toClient, server, serverEncrypt, serverDecrypt, held, done, trusted, refused>>

\* exec's select!; match_msg of a request; the four receive loops of
\* RekeyExchange (KEXINIT, group, reply, NEWKEYS); after exec has returned.
Places == {"select", "reply", "kexinit", "group", "kexreply", "newkeys", "dead"}

\* From its KEXINIT to its NEWKEYS the client is in an exchange.
Exchanging == pc \in {"kexinit", "group", "kexreply"}

Init ==
  /\ pc = "select" /\ renegotiating = FALSE /\ deferred = FALSE /\ byEvent = FALSE
  /\ encrypt = 0 /\ decrypt = 0
  /\ calls = <<>> /\ toServer = <<>> /\ toClient = <<>>
  /\ server = "none" /\ serverEncrypt = 0 /\ serverDecrypt = 0 /\ held = <<>>
  /\ done = [request |-> 0, renegotiate |-> 0, exchange |-> 0, ping |-> 0]
  /\ trusted = {0} /\ refused = FALSE

-----------------------------------------------------------------------------
(* The session task.                                                       *)

\* A packet is sealed with the keys of the moment.
Packet(type) == [type |-> type, keys |-> encrypt]

Say(types) ==
  toServer' = toServer \o [i \in 1..Len(types) |-> Packet(types[i])]

\* recv_packet, and what arrives is readable.
Hears(type) ==
  /\ pc # "dead"
  /\ toClient # <<>>
  /\ Head(toClient).keys = decrypt
  /\ Head(toClient).type = type
  /\ toClient' = Tail(toClient)

ServerState == <<server, serverEncrypt, serverDecrypt, held, done>>

\* recv_packet fails on a packet it cannot decrypt, and exec ends with it.
Garbage ==
  /\ pc # "dead"
  /\ toClient # <<>>
  /\ Head(toClient).keys # decrypt
  /\ pc' = "dead"
  /\ toClient' = Tail(toClient)
  /\ UNCHANGED <<renegotiating, deferred, byEvent, encrypt, decrypt, calls, toServer,
                 ServerState, trusted, refused>>

\* key_exchange's first packet: DH group exchange asks for a group first.
FirstKexPacket == [group |-> "gexrequest", kexreply |-> "kexdhinit"]

\* RekeyExchange::exec when the server's KEXINIT is at hand: the client's KEXINIT
\* and the first packet of the method both sides' lists agree on.
Exchange ==
  \E next \in {"group", "kexreply"} :
    /\ pc' = next
    /\ Say(<<"kexinit", FirstKexPacket[next]>>)

\* An event whose handler sends a request and waits in match_msg.
TakeRequest ==
  /\ pc = "select"
  /\ calls # <<>> /\ Head(calls) = "request"
  /\ calls' = Tail(calls)
  /\ Say(<<"request">>)
  /\ pc' = "reply"
  /\ UNCHANGED <<renegotiating, deferred, byEvent, encrypt, decrypt, toClient,
                 ServerState, trusted, refused>>

\* Mutant: the exchange goes on without the server's KEXINIT.
TakeRenegotiateEager ==
  /\ pc = "select"
  /\ calls # <<>> /\ Head(calls) = "renegotiate"
  /\ calls' = Tail(calls)
  /\ renegotiating' = TRUE
  /\ byEvent' = TRUE
  /\ Exchange
  /\ UNCHANGED <<deferred, encrypt, decrypt, toClient, ServerState, trusted, refused>>

\* Event::Renegotiate: RekeyExchange without the server's KEXINIT.
TakeRenegotiate ==
  /\ pc = "select"
  /\ calls # <<>> /\ Head(calls) = "renegotiate"
  /\ calls' = Tail(calls)
  /\ Say(<<"kexinit">>)
  /\ renegotiating' = TRUE
  /\ byEvent' = TRUE
  /\ pc' = "kexinit"
  /\ UNCHANGED <<deferred, encrypt, decrypt, toClient, ServerState, trusted, refused>>

\* The answer match_msg waits for.  Back in exec, a deferred KEXINIT is handled
\* before the next select!.
HandleReply ==
  /\ pc = "reply"
  /\ Hears("reply")
  /\ IF deferred
     THEN deferred' = FALSE /\ byEvent' = FALSE /\ Exchange
     ELSE pc' = "select" /\ UNCHANGED <<deferred, byEvent, toServer>>
  /\ UNCHANGED <<renegotiating, encrypt, decrypt, calls, ServerState, trusted, refused>>

\* SSH_MSG_KEXINIT in exec's select! (idle): exchanged at once.
KexInitIdle ==
  /\ pc = "select"
  /\ ~renegotiating
  /\ Hears("kexinit")
  /\ renegotiating' = TRUE
  /\ byEvent' = FALSE
  /\ Exchange
  /\ UNCHANGED <<deferred, encrypt, decrypt, calls, ServerState, trusted, refused>>

\* SSH_MSG_KEXINIT while a handler waits (not idle): kept for exec.
KexInitBusy ==
  /\ pc = "reply"
  /\ ~renegotiating
  /\ Hears("kexinit")
  /\ renegotiating' = TRUE
  /\ deferred' = TRUE
  /\ UNCHANGED <<pc, byEvent, encrypt, decrypt, calls, toServer, ServerState, trusted,
                 refused>>

\* negotiate_methods' loop: the KEXINIT it waits for.
KexInitAwaited ==
  /\ pc = "kexinit"
  /\ Hears("kexinit")
  /\ \E next \in {"group", "kexreply"} :
       /\ pc' = next
       /\ Say(<<FirstKexPacket[next]>>)
  /\ UNCHANGED <<renegotiating, deferred, byEvent, encrypt, decrypt, calls, ServerState,
                 trusted, refused>>

\* Mutant: the group arrives and the exchange is not continued with it.
HandleGroupSilent ==
  /\ pc = "group"
  /\ Hears("gexgroup")
  /\ pc' = "kexreply"
  /\ UNCHANGED <<renegotiating, deferred, byEvent, encrypt, decrypt, calls, toServer,
                 ServerState, trusted, refused>>

\* key_exchange's first loop.
HandleGroup ==
  /\ pc = "group"
  /\ Hears("gexgroup")
  /\ Say(<<"kexdhinit">>)
  /\ pc' = "kexreply"
  /\ UNCHANGED <<renegotiating, deferred, byEvent, encrypt, decrypt, calls, ServerState,
                 trusted, refused>>

\* Mutant: NEWKEYS leaves under the new keys.
NewKeysPacketLate == [type |-> "newkeys", keys |-> encrypt + 1]

\* NEWKEYS itself is the last packet under the old keys.
NewKeysPacket == Packet("newkeys")

\* Mutant: the new keys are used whatever the application says about the host key.
UpgradeUnverified(accepted) ==
  /\ toServer' = Append(toServer, NewKeysPacket)
  /\ encrypt' = encrypt + 1
  /\ pc' = "newkeys"
  /\ UNCHANGED renegotiating

\* The application's verdict: NEWKEYS and upgrade_client, or an error.  The error
\* ends exec, unless Event::Renegotiate hands it to its caller and exec goes on.
Upgrade(accepted) ==
  IF accepted
  THEN /\ toServer' = Append(toServer, NewKeysPacket)
       /\ encrypt' = encrypt + 1
       /\ pc' = "newkeys"
       /\ UNCHANGED renegotiating
  ELSE /\ UNCHANGED <<toServer, encrypt>>
       /\ pc' = IF byEvent THEN "select" ELSE "dead"
       /\ renegotiating' = ~byEvent

\* key_exchange's second loop.
HandleKexReply ==
  /\ pc = "kexreply"
  /\ Hears("kexreply")
  /\ \E accepted \in Verdicts :
       /\ Upgrade(accepted)
       /\ trusted' = IF accepted THEN trusted \cup {Head(toClient).next} ELSE trusted
       /\ refused' = (refused \/ ~accepted)
  /\ UNCHANGED <<deferred, byEvent, decrypt, calls, ServerState>>

\* Both places that end an exchange reset the flag.
Renegotiated == renegotiating' = FALSE

\* key_exchange's last loop: upgrade_server.
HandleNewKeys ==
  /\ pc = "newkeys"
  /\ Hears("newkeys")
  /\ decrypt' = decrypt + 1
  /\ Renegotiated
  /\ pc' = "select"
  /\ UNCHANGED <<deferred, byEvent, encrypt, calls, toServer, ServerState, trusted,
                 refused>>

\* send_pong, wherever handle_msg was called from.
Answer == Say(<<"pong">>)

HandlePing ==
  /\ Hears("ping")
  /\ Answer
  /\ UNCHANGED <<pc, renegotiating, deferred, byEvent, encrypt, decrypt, calls,
                 ServerState, trusted, refused>>

\* The packets only one place waits for.
AwaitedAt == [reply |-> "reply", gexgroup |-> "group", kexreply |-> "kexreply",
              newkeys |-> "newkeys"]

\* Anywhere else handle_msg does not know them, nor a KEXINIT while
\* `renegotiating`: SSH_MSG_UNIMPLEMENTED.
HandleUnrecognized ==
  /\ \/ \E type \in DOMAIN AwaitedAt : pc # AwaitedAt[type] /\ Hears(type)
     \/ renegotiating /\ pc # "kexinit" /\ Hears("kexinit")
  /\ Say(<<"unimplemented">>)
  /\ UNCHANGED <<pc, renegotiating, deferred, byEvent, encrypt, decrypt, calls,
                 ServerState, trusted, refused>>

-----------------------------------------------------------------------------
(* Applications.                                                           *)

ClientState == <<pc, renegotiating, deferred, byEvent, encrypt, decrypt, trusted, refused>>

Bounded(what, bound) == done[what] < bound /\ done' = [done EXCEPT ![what] = @ + 1]

Call(what, bound) ==
  /\ Bounded(what, bound)
  /\ calls' = Append(calls, what)
  /\ UNCHANGED <<ClientState, toServer, toClient, server, serverEncrypt, serverDecrypt,
                 held>>

AppRequest     == Call("request", MaxRequests)
AppRenegotiate == Call("renegotiate", MaxCalls)

-----------------------------------------------------------------------------
(* The server (external), by RFC 4253: between its KEXINIT and its NEWKEYS *)
(* it sends nothing but the exchange, and keeps everything else.           *)

Blocked == server \in {"sent", "both"}

ServerPacket(type) == [type |-> type, keys |-> serverEncrypt]

Tell(type) ==
  IF Blocked THEN held' = Append(held, type) /\ UNCHANGED toClient
  ELSE toClient' = Append(toClient, ServerPacket(type)) /\ UNCHANGED held

ServerHears(type) ==
  /\ toServer # <<>>
  /\ Head(toServer).keys = serverDecrypt
  /\ Head(toServer).type = type
  /\ toServer' = Tail(toServer)

ServerStarts ==
  /\ server = "none"
  /\ Bounded("exchange", MaxExchanges)
  /\ server' = "sent"
  /\ toClient' = Append(toClient, ServerPacket("kexinit"))
  /\ UNCHANGED <<ClientState, calls, toServer, serverEncrypt, serverDecrypt, held>>

ServerKexInit ==
  /\ server \in {"none", "sent"}
  /\ ServerHears("kexinit")
  /\ server' = "both"
  /\ toClient' = IF server = "none" THEN Append(toClient, ServerPacket("kexinit"))
                 ELSE toClient
  /\ UNCHANGED <<ClientState, calls, serverEncrypt, serverDecrypt, held, done>>

ServerGroup ==
  /\ ServerHears("gexrequest")
  /\ toClient' = Append(toClient, ServerPacket("gexgroup"))
  /\ UNCHANGED <<ClientState, calls, server, serverEncrypt, serverDecrypt, held, done>>

\* The reply, NEWKEYS, and under the new keys all that was held back.
ServerKexReply ==
  /\ server = "both"
  /\ ServerHears("kexdhinit")
  /\ server' = "newkeys"
  /\ serverEncrypt' = serverEncrypt + 1
  /\ toClient' = toClient
       \o <<[type |-> "kexreply", keys |-> serverEncrypt, next |-> serverEncrypt + 1],
            ServerPacket("newkeys")>>
       \o [i \in 1..Len(held) |-> [type |-> held[i], keys |-> serverEncrypt + 1]]
  /\ held' = <<>>
  /\ UNCHANGED <<ClientState, calls, serverDecrypt, done>>

ServerNewKeys ==
  /\ server = "newkeys"
  /\ ServerHears("newkeys")
  /\ serverDecrypt' = serverDecrypt + 1
  /\ server' = "none"
  /\ UNCHANGED <<ClientState, calls, toClient, serverEncrypt, held, done>>

ServerReplies ==
  /\ ServerHears("request")
  /\ Tell("reply")
  /\ UNCHANGED <<ClientState, calls, server, serverEncrypt, serverDecrypt, done>>

ServerIgnores ==
  /\ \E type \in {"pong", "unimplemented"} : ServerHears(type)
  /\ UNCHANGED <<ClientState, calls, toClient, server, serverEncrypt, serverDecrypt,
                 held, done>>

\* Only while it may send: a held ping would just come later.
ServerPings ==
  /\ ~Blocked
  /\ Bounded("ping", MaxPings)
  /\ Tell("ping")
  /\ UNCHANGED <<ClientState, calls, toServer, server, serverEncrypt, serverDecrypt>>

-----------------------------------------------------------------------------

SessionTask ==
  \/ TakeRequest \/ TakeRenegotiate \/ HandleReply \/ KexInitIdle \/ KexInitBusy
  \/ KexInitAwaited \/ HandleGroup \/ HandleKexReply \/ HandleNewKeys \/ HandlePing
  \/ HandleUnrecognized \/ Garbage

ServerTask ==
  \/ ServerKexInit \/ ServerGroup \/ ServerKexReply \/ ServerNewKeys \/ ServerReplies
  \/ ServerIgnores

Next ==
  \/ SessionTask
  \/ ServerTask
  \/ AppRequest \/ AppRenegotiate
  \/ ServerStarts \/ ServerPings

Spec == Init /\ [][Next]_vars

\* The session task and the server's process what they have; nobody has to call,
\* ping or start an exchange.
Fairness == WF_vars(SessionTask) /\ WF_vars(ServerTask)

FairSpec == Spec /\ Fairness

-----------------------------------------------------------------------------
(* Properties.                                                             *)

\* The two ends change keys at the same packet of each direction, whoever starts
\* the exchange and even if both do at once: no packet arrives under keys its
\* receiver does not use yet or any more.  (A host key turned down is the
\* exception: the server has changed keys by then and the client does not.)
KeysMatch ==
  ~refused =>
    /\ toClient # <<>> => Head(toClient).keys = decrypt
    /\ toServer # <<>> => Head(toServer).keys = serverDecrypt

\* A KEXINIT always finds its exchange: it starts one, is awaited by one, or is
\* kept; handle_msg never answers it with SSH_MSG_UNIMPLEMENTED.
KexInitUsed ==
  (toClient # <<>> /\ Head(toClient).type = "kexinit")
    => pc = "kexinit" \/ (pc \in {"select", "reply"} /\ ~renegotiating)

\* The client never uses keys of an exchange whose host key the application
\* turned down, although a rejected renegotiate() leaves the session running.
OnlyTrustedKeys == encrypt \in trusted /\ decrypt \in trusted

\* An exchange that either side has begun is finished, unless the application
\* turns the host key down or the KEXINIT arrived while a call was waiting.
RekeyCompletes ==
  (renegotiating \/ server # "none")
    ~> ((~renegotiating /\ server = "none") \/ refused \/ deferred)

\* handle_msg's message on a KEXINIT that arrives while a handler waits: it is
\* handled later.
DeferredIsHandled == deferred ~> ~deferred
=============================================================================
