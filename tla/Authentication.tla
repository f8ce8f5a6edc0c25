--------------------------- MODULE Authentication ---------------------------
(***************************************************************************)
(* User authentication: the calls of Session, which any task may make at   *)
(* any time and give up, the session task that serves them one after the   *)
(* other, and the server.                                                  *)
(*                                                                         *)
(* Answers carry no identifier, and one message number has three meanings: *)
(* "the key will do", "change your password" and "answer these prompts",   *)
(* by the method that is under way.  Signatures are symbolic.              *)
(***************************************************************************)
EXTENDS Integers, SequencesExt

CONSTANTS
  Calls,        \* calls of the application, made in this order
  Ops,          \* what they are
  Signers,      \* Config::signer, in order
  Keys,         \* types of the application's keys; "mismatched": two files that do not fit
  Supported,    \* signature algorithms of a server
  MaxRounds     \* bound: prompts of a server

ASSUME AuthenticationAssumption ==
  /\ Calls \subseteq Nat \ {0}
  /\ Ops \subseteq {"service", "none", "password", "publickey", "keyboard"}
  /\ Signers \in Seq(STRING)
  /\ MaxRounds \in Nat

VARIABLES
  call,            \* the application's side of each call
  queue,           \* events the session task has not taken
  waiting,         \* what the session task waits for, Idle if nothing
  authenticated,   \* socket.authenticated
  algorithms,      \* server_algorithms
  compat,          \* specify_server_sign_algorithm, and compatibility is not switched off
  ended,           \* exec has returned
  toServer, toClient,
  server           \* External: the server

vars == <<call, queue, waiting, authenticated, algorithms, compat, ended, toServer, toClient, server>>

Idle == [call |-> 0, stage |-> "none", key |-> "none", alg |-> "none"]

ExtInfo(algs) == [type |-> "ext", to |-> 0, algs |-> algs]

\* create: a new session.  EXT_INFO is the first thing a server sends, if it does.
Init ==
  /\ call = [c \in Calls |-> [state |-> "new", op |-> "none", key |-> "none", result |-> "none", from |-> 0]]
  /\ queue = <<>> /\ waiting = Idle
  /\ authenticated = FALSE /\ algorithms = {} /\ compat \in BOOLEAN /\ ended = FALSE
  /\ toServer = <<>>
  /\ \E algs \in Supported, announced \in BOOLEAN :
       /\ toClient = IF announced THEN <<ExtInfo(algs)>> ELSE <<>>
       /\ server = [algs |-> algs, announced |-> announced, service |-> FALSE, authed |-> FALSE,
                    busy |-> 0, rounds |-> 0, ignored |-> FALSE, gone |-> FALSE, bannered |-> FALSE]

-----------------------------------------------------------------------------
(* The application.                                                        *)

\* Session::request_authentication, authenticate_*.  Files that do not belong together
\* are refused before anything is sent.
AppCall(c) ==
  /\ call[c].state = "new" /\ \A d \in Calls : d < c => call[d].state # "new"
  /\ ~ended
  /\ \E op \in Ops : \E key \in IF op = "publickey" THEN Keys ELSE {"none"} :
       IF key = "mismatched"
       THEN /\ call' = [call EXCEPT ![c] = [@ EXCEPT !.state = "returned", !.op = op, !.result = "mismatch"]]
            /\ UNCHANGED queue
       ELSE /\ call' = [call EXCEPT ![c] = [@ EXCEPT !.state = "asked", !.op = op, !.key = key]]
            /\ queue' = Append(queue, c)
  /\ UNCHANGED <<waiting, authenticated, algorithms, compat, ended, toServer, toClient, server>>

\* The future is dropped; the session task does not notice.
AppGivesUp(c) ==
  /\ call[c].state = "asked"
  /\ call' = [call EXCEPT ![c].state = "unwanted"]
  /\ UNCHANGED <<queue, waiting, authenticated, algorithms, compat, ended, toServer, toClient, server>>

-----------------------------------------------------------------------------
(* The session task.                                                       *)

TaskUnchanged == UNCHANGED <<compat, server>>

\* back.send_tracing(result).
Returned(c, result, from) ==
  [call EXCEPT ![c].state = IF @ = "asked" THEN "returned" ELSE @,
               ![c].result = result, ![c].from = from]

Takes(ops) == ~ended /\ waiting = Idle /\ queue # <<>> /\ call[Head(queue)].op \in ops

\* receiver.recv().
Taken == Tail(queue)

Request(type, c, alg, signed) ==
  [type |-> type, call |-> c, op |-> call[c].op, key |-> call[c].key, alg |-> alg, signed |-> signed]

Wait(c, stage, alg) == [call |-> c, stage |-> stage, key |-> call[c].key, alg |-> alg]

\* request_authentication: SERVICE_REQUEST.
TakeService ==
  /\ Takes({"service"})
  /\ toServer' = Append(toServer, Request("service", Head(queue), "none", FALSE))
  /\ waiting' = Wait(Head(queue), "service", "none")
  /\ queue' = Taken
  /\ UNCHANGED <<call, authenticated, algorithms, ended, toClient>> /\ TaskUnchanged

\* authenticate_none, authenticate_password, authenticate_keyboard_interactive.
TakeRequest ==
  /\ Takes({"none", "password", "keyboard"})
  /\ toServer' = Append(toServer, Request("request", Head(queue), "none", FALSE))
  /\ waiting' = Wait(Head(queue), call[Head(queue)].op, "none")
  /\ queue' = Taken
  /\ UNCHANGED <<call, authenticated, algorithms, ended, toClient>> /\ TaskUnchanged

Rsa == {"rsa-sha2-512", "rsa-sha2-256", "ssh-rsa"}

\* What the server is taken to support.
ServerAlgorithms == IF compat THEN {"rsa-sha2-256", "rsa-sha2-512"} ELSE algorithms

\* The first of Config::signer that has one of these names, 0 if none has.
First(names) == SelectInSeq(Signers, LAMBDA s : s \in names)

\* The signer for a type of key: an RSA key can sign in three ways.
SignerFor(type) ==
  CASE type # "ssh-rsa" -> First({type})
    [] type = "ssh-rsa" /\ First(Rsa \cap ServerAlgorithms) # 0 -> First(Rsa \cap ServerAlgorithms)
    [] OTHER -> First({"rsa-sha2-512"})

\* authenticate_public_key: asks whether the key would do.
TakePublicKey ==
  /\ Takes({"publickey"})
  /\ LET c == Head(queue)
         signer == SignerFor(call[c].key)
     IN  IF signer = 0
         THEN /\ call' = Returned(c, "unsupported", 0)
              /\ UNCHANGED <<waiting, toServer>>
         ELSE /\ toServer' = Append(toServer, Request("request", c, Signers[signer], FALSE))
              /\ waiting' = Wait(c, "probe", Signers[signer])
              /\ UNCHANGED call
  /\ queue' = Taken
  /\ UNCHANGED <<authenticated, algorithms, ended, toClient>> /\ TaskUnchanged

Hears(types) == ~ended /\ toClient # <<>> /\ Head(toClient).type \in types

\* The wait of a call is over.
Finish(result) ==
  /\ call' = Returned(waiting.call, result, Head(toClient).to)
  /\ waiting' = Idle

HandleServiceAccept ==
  /\ Hears({"accept"}) /\ waiting.stage = "service"
  /\ Finish(IF Head(toClient).userauth THEN "ok" ELSE "unexpected service")
  /\ toClient' = Tail(toClient)
  /\ UNCHANGED <<queue, authenticated, algorithms, ended, toServer>> /\ TaskUnchanged

\* Mutant: the prompts' loop does not note it.
NotedExceptPrompts == authenticated \/ waiting.stage # "keyboard"

\* USERAUTH_SUCCESS: socket.authenticated = true.
Noted == TRUE

HandleSuccess ==
  /\ Hears({"success"}) /\ waiting.stage \in {"none", "password", "probe", "signed", "keyboard"}
  /\ waiting.call # 0
  /\ authenticated' = Noted
  /\ Finish("success")
  /\ toClient' = Tail(toClient)
  /\ UNCHANGED <<queue, algorithms, ended, toServer>> /\ TaskUnchanged

\* Mutant: the wait for the verdict on a signature knows success only.
EndsWithFailureNot(stage) == stage \in {"none", "password", "probe", "keyboard"}

EndsWithFailure(stage) == stage \in {"none", "password", "probe", "signed", "keyboard"}

HandleFailure ==
  /\ Hears({"failure"}) /\ waiting.call # 0 /\ EndsWithFailure(waiting.stage)
  /\ Finish("failure")
  /\ toClient' = Tail(toClient)
  /\ UNCHANGED <<queue, authenticated, algorithms, ended, toServer>> /\ TaskUnchanged

\* USERAUTH_PASSWD_CHANGEREQ.
HandleChangeRequest ==
  /\ Hears({"60"}) /\ waiting.stage = "password"
  /\ Finish("change")
  /\ toClient' = Tail(toClient)
  /\ UNCHANGED <<queue, authenticated, algorithms, ended, toServer>> /\ TaskUnchanged

SignedRequest == Request("request", waiting.call, waiting.alg, TRUE)

\* USERAUTH_PK_OK: sign, unless the private key cannot be used.
HandlePkOk ==
  /\ Hears({"60"}) /\ waiting.stage = "probe"
  /\ \/ /\ toServer' = Append(toServer, SignedRequest)
        /\ waiting' = [waiting EXCEPT !.stage = "signed"]
        /\ UNCHANGED call
     \/ /\ Finish("bad key")
        /\ UNCHANGED toServer
  /\ toClient' = Tail(toClient)
  /\ UNCHANGED <<queue, authenticated, algorithms, ended>> /\ TaskUnchanged

\* Mutant: an empty answer is sent before giving up.
AbandonPromptsPolite ==
  /\ toServer' = Append(toServer, Request("response", waiting.call, "none", FALSE))
  /\ Finish("invalid")

\* The callback fails, or answers too few prompts: the call returns, the server is not told.
AbandonPrompts ==
  /\ Finish("invalid")
  /\ UNCHANGED toServer

\* USERAUTH_INFO_REQUEST: the application's callback answers the prompts.
HandleInfoRequest ==
  /\ Hears({"60"}) /\ waiting.stage = "keyboard"
  /\ \/ /\ toServer' = Append(toServer, Request("response", waiting.call, "none", FALSE))
        /\ UNCHANGED <<call, waiting>>
     \/ AbandonPrompts
  /\ toClient' = Tail(toClient)
  /\ UNCHANGED <<queue, authenticated, algorithms, ended>> /\ TaskUnchanged

\* Mutant: only exec looks at EXT_INFO, the waits drop it.
LearnedIdle(m) == IF m.type = "ext" /\ waiting = Idle THEN m.algs ELSE algorithms

\* EXT_INFO names the server's algorithms.
Learned(m) == IF m.type = "ext" THEN m.algs ELSE algorithms

\* handle_msg, in exec and inside every wait: EXT_INFO, USERAUTH_BANNER.
HandleOther ==
  /\ Hears({"ext", "banner"})
  /\ algorithms' = Learned(Head(toClient))
  /\ toClient' = Tail(toClient)
  /\ UNCHANGED <<call, queue, waiting, authenticated, ended, toServer>> /\ TaskUnchanged

\* The connection is gone: the call that waits is told, then exec ends, and with it the
\* events in the queue.
WaitFails ==
  /\ ~ended /\ server.gone /\ toClient = <<>> /\ waiting # Idle
  /\ call' = Returned(waiting.call, "io", 0)
  /\ waiting' = Idle
  /\ UNCHANGED <<queue, authenticated, algorithms, ended, toServer, toClient>> /\ TaskUnchanged

ExecFails ==
  /\ ~ended /\ server.gone /\ toClient = <<>> /\ waiting = Idle
  /\ ended' = TRUE
  /\ call' = [c \in Calls |-> IF c \in ToSet(queue) THEN Returned(c, "io", 0)[c] ELSE call[c]]
  /\ queue' = <<>>
  /\ UNCHANGED <<waiting, authenticated, algorithms, toServer, toClient>> /\ TaskUnchanged

-----------------------------------------------------------------------------
(* The server (external).  A request aborts the method under way, whose    *)
(* answer is then not sent; after its SUCCESS it ignores requests; before  *)
(* the service was asked for it disconnects.                               *)

ServerUnchanged == UNCHANGED <<call, queue, waiting, authenticated, algorithms, compat, ended>>

Asked(type) == ~server.gone /\ toServer # <<>> /\ Head(toServer).type = type

Reply(type) == [type |-> type, to |-> Head(toServer).call]

ServerAccepts ==
  /\ Asked("service")
  /\ \E userauth \in BOOLEAN :
       /\ toClient' = Append(toClient, [type |-> "accept", to |-> Head(toServer).call, userauth |-> userauth])
       /\ server' = [server EXCEPT !.service = @ \/ userauth]
  /\ toServer' = Tail(toServer)
  /\ ServerUnchanged

\* A second EXT_INFO may come before SUCCESS.
ServerSucceeds ==
  /\ \E ext \in {<<>>, <<ExtInfo(server.algs)>>} :
       toClient' = toClient \o ext \o <<Reply("success")>>
  /\ server' = [server EXCEPT !.authed = TRUE, !.busy = 0]

ServerFails ==
  /\ toClient' = Append(toClient, Reply("failure"))
  /\ server' = [server EXCEPT !.busy = 0]

ServerPrompts ==
  /\ server.rounds < MaxRounds
  /\ toClient' = Append(toClient, Reply("60"))
  /\ server' = [server EXCEPT !.busy = Head(toServer).call, !.rounds = @ + 1]

ServerDecides ==
  /\ Asked("request") /\ server.service /\ ~server.authed
  /\ LET m == Head(toServer) IN
       IF m.op = "publickey" /\ (~m.signed \/ m.alg \notin server.algs)
       THEN /\ toClient' = Append(toClient, Reply(IF m.alg \in server.algs THEN "60" ELSE "failure"))
            /\ server' = [server EXCEPT !.busy = 0]
       ELSE \/ ServerSucceeds \/ ServerFails
            \/ m.op \in {"password", "keyboard"} /\ ServerPrompts
  /\ toServer' = Tail(toServer)
  /\ ServerUnchanged

ServerHearsResponse ==
  /\ Asked("response") /\ server.busy = Head(toServer).call
  /\ ServerSucceeds \/ ServerFails \/ ServerPrompts
  /\ toServer' = Tail(toServer)
  /\ ServerUnchanged

ServerIgnores ==
  /\ Asked("request") /\ server.authed
  /\ server' = [server EXCEPT !.ignored = TRUE]
  /\ toServer' = Tail(toServer)
  /\ UNCHANGED toClient /\ ServerUnchanged

ServerDisconnects ==
  /\ Asked("request") /\ ~server.service
  /\ server' = [server EXCEPT !.gone = TRUE]
  /\ UNCHANGED <<toServer, toClient>> /\ ServerUnchanged

ServerBanner ==
  /\ ~server.gone /\ server.service /\ ~server.authed /\ ~server.bannered
  /\ toClient' = Append(toClient, [type |-> "banner", to |-> 0])
  /\ server' = [server EXCEPT !.bannered = TRUE]
  /\ UNCHANGED toServer /\ ServerUnchanged

-----------------------------------------------------------------------------

Task ==
  \/ TakeService \/ TakeRequest \/ TakePublicKey
  \/ HandleServiceAccept \/ HandleSuccess \/ HandleFailure \/ HandleChangeRequest \/ HandlePkOk
  \/ HandleInfoRequest \/ HandleOther \/ WaitFails \/ ExecFails

Server == ServerAccepts \/ ServerDecides \/ ServerHearsResponse \/ ServerIgnores \/ ServerDisconnects

Next ==
  \/ \E c \in Calls : AppCall(c) \/ AppGivesUp(c)
  \/ Task \/ Server \/ ServerBanner

Spec == Init /\ [][Next]_vars

\* The session task runs, its callbacks return, and the server answers.
FairSpec == Spec /\ WF_vars(Task) /\ WF_vars(Server)

-----------------------------------------------------------------------------
(* Properties.                                                             *)

\* A call's result is the server's answer to that call, never to an earlier one that
\* ended early or was given up, although answers do not say what they answer.
AnswerIsOwn ==
  \A c \in Calls :
    call[c].from = IF call[c].result \in {"none", "mismatch", "unsupported", "io"} THEN 0 ELSE c

\* EXT_INFO comes before the service is accepted, so an RSA key is offered with an
\* algorithm the server announced, whenever the client has one of them, and whether exec
\* or a wait has read it.
RsaFits ==
  \A i \in DOMAIN toServer :
    LET m == toServer[i]
        common == ToSet(Signers) \cap Rsa \cap server.algs
    IN  m.key = "ssh-rsa" /\ m.type = "request" /\ server.service /\ server.announced /\ ~compat
          /\ common # {} => m.alg \in common

\* Both sides agree that the user is authenticated, which starts delayed compression: the
\* client never before the server, and at the latest when nothing is under way.
AuthAgrees ==
  /\ authenticated => server.authed
  /\ toServer = <<>> /\ toClient = <<>> => authenticated = server.authed

\* Every call returns, with an answer or an error, unless the server already regards the
\* user as authenticated and ignores requests.
CallsReturn ==
  \A c \in Calls : (call[c].state = "asked") ~> (call[c].state # "asked" \/ server.ignored)
=============================================================================
