----------------------------- MODULE Forwarding -----------------------------
(***************************************************************************)
(* Remote forwarding: Session::listen_on_server, the Listener it returns,  *)
(* the session task's Forward table, and the forwarded connections.        *)
(*                                                                         *)
(* The application's calls and drops become events in a bounded queue, the *)
(* session task handles one event or one message at a time and, while it   *)
(* waits for a reply to a global request, handles messages inside the      *)
(* wait.  Replies carry no identifier: they are matched by order.  A       *)
(* forwarded connection goes into its listener's bounded queue, and the    *)
(* session task waits when that is full.                                   *)
(*                                                                         *)
(* What happens to a channel after it was handed over is in ChannelTable;  *)
(* here a channel's number is never reused and the server closes none.     *)
(***************************************************************************)
EXTENDS Integers, SequencesExt

CONSTANTS
  Listeners,    \* calls of listen_on_server
  Ports,        \* ports the server can bind
  Local,        \* stands for the path of listen_on_server_local
  Asked,        \* what an application asks for: 0 leaves the choice to the server
  Conns,        \* connections to the forwarded ports
  EventCap,     \* DEFAULT_CHANNEL_CAPACITY of the event queue
  ListenCap,    \* DEFAULT_CHANNEL_CAPACITY of a listener's queue
  MaxCleans     \* bound: calls of clean

ASSUME ForwardingAssumption ==
  /\ Ports \subseteq Nat \ {0} /\ Local \in Nat \ (Ports \cup {0})
  /\ Asked \subseteq Ports \cup {0, Local}
  /\ EventCap \in Nat \ {0} /\ ListenCap \in Nat \ {0} /\ MaxCleans \in Nat

VARIABLES
  events,       \* the event queue, with the global requests and closes it holds
  awaiting,     \* the global request whose reply the session task waits for, or None
  cleaning,     \* forward_tcp_clean: addresses it still has to cancel
  delivering,   \* the connection that waits for room in its listener's queue, or None
  table,        \* Forward: address -> the listener whose sender it holds
  listener,     \* the application's side of each listener
  stream,       \* where each connection's Stream is
  session,      \* the application still holds a Session
  ended,        \* exec has returned
  toServer, toClient,
  bound,        \* External: where the server listens, and whose request that was
  peer,         \* External: the server's view of each connection
  cleans,       \* calls of clean so far
  lost          \* History: drops that found the event queue full

vars == <<events, awaiting, cleaning, delivering, table, listener, stream, session, ended,
          toServer, toClient, bound, peer, cleans, lost>>

None == [op |-> "none", l |-> 0, addr |-> 0]

Event(op, l, addr, want) == [op |-> op, l |-> l, addr |-> addr, want |-> want]

\* Init: SessionInner::new, nothing forwarded.
Init ==
  /\ events = <<>> /\ awaiting = None /\ cleaning = {} /\ delivering = None
  /\ table = <<>>
  /\ listener = [l \in Listeners |-> [state |-> "new", addr |-> 0, queue |-> <<>>]]
  /\ stream = [c \in Conns |-> "none"]
  /\ session = TRUE /\ ended = FALSE
  /\ toServer = <<>> /\ toClient = <<>>
  /\ bound = <<>> /\ peer = [c \in Conns |-> "none"]
  /\ cleans = 0 /\ lost = {}

-----------------------------------------------------------------------------
(* Queues and handles.                                                     *)

Room == Len(events) < EventCap

\* try_send of each in turn onto q: what does not fit is dropped.
TrySend(q, evs) ==
  LET all == q \o evs
      n == Min({Len(all), EventCap})
  IN  /\ events' = SubSeq(all, 1, n)
      /\ lost' = lost \cup ToSet(SubSeq(all, n + 1, Len(all)))

\* The receiver of l's queue exists: sender.is_closed() is false.
Hearing(l) == listener[l].state \in {"open", "cancelling", "cancelled"}

\* The senders of the event queue: Sessions (a call in progress borrows one), Listeners
\* and Streams.  The session task's own is weak.
Frontends ==
  \/ session
  \/ \E l \in Listeners : Hearing(l)
  \/ \E c \in Conns : stream[c] \in {"queued", "held"}

\* Channel::drop of each connection in a sequence.
CloseEvents(cs) == [i \in DOMAIN cs |-> Event("close", 0, cs[i], FALSE)]

\* The listener's fields are dropped: the queue and the Streams in it.
Silenced(l) ==
  /\ listener' = [listener EXCEPT ![l] = [@ EXCEPT !.state = "gone", !.queue = <<>>]]
  /\ stream' = [c \in Conns |->
                  IF c \in ToSet(listener[l].queue) THEN "dropped" ELSE stream[c]]

\* do_drop: want_reply is false.
DropEvent(addr) == Event("cancel", 0, addr, FALSE)

\* Mutant: a listener that is dropped tells nobody.
DropEventsNone(l) == CloseEvents(listener[l].queue)

\* Listener::drop comes before its fields.
DropEvents(l) == <<DropEvent(listener[l].addr)>> \o CloseEvents(listener[l].queue)

\* Drop of a listener that cancel() has consumed: only the Streams in its queue.
LeftBehind(l) == CloseEvents(listener[l].queue)

-----------------------------------------------------------------------------
(* The application.                                                        *)

AppUnchanged == UNCHANGED <<awaiting, cleaning, delivering, table, ended, toServer, toClient,
                            bound, peer>>

\* Session::listen_on_server, listen_on_server_local.
AppListen(l, addr) ==
  /\ session /\ ~ended /\ Room /\ listener[l].state = "new"
  /\ events' = Append(events, Event("listen", l, addr, TRUE))
  /\ listener' = [listener EXCEPT ![l] = [@ EXCEPT !.state = "asked", !.addr = addr]]
  /\ AppUnchanged /\ UNCHANGED <<stream, session, cleans, lost>>

\* The future of listen_on_server is dropped.
AppGivesUp(l) ==
  /\ listener[l].state = "asked"
  /\ listener' = [listener EXCEPT ![l].state = "unwanted"]
  /\ AppUnchanged /\ UNCHANGED <<events, stream, session, cleans, lost>>

\* Listener::accept.
AppAccept(l) ==
  /\ listener[l].state = "open" /\ listener[l].queue # <<>>
  /\ stream' = [stream EXCEPT ![Head(listener[l].queue)] = "held"]
  /\ listener' = [listener EXCEPT ![l].queue = Tail(@)]
  /\ AppUnchanged /\ UNCHANGED <<events, session, cleans, lost>>

AppDropListener(l) ==
  /\ listener[l].state = "open"
  /\ TrySend(events, DropEvents(l))
  /\ Silenced(l)
  /\ AppUnchanged /\ UNCHANGED <<session, cleans>>

\* Listener::cancel: the future owns the listener until it returns.
AppCancel(l, want) ==
  /\ listener[l].state = "open" /\ Room /\ ~ended
  /\ events' = Append(events, Event("cancel", l, listener[l].addr, want))
  /\ listener' = [listener EXCEPT ![l].state = "cancelling"]
  /\ AppUnchanged /\ UNCHANGED <<stream, session, cleans, lost>>

\* cancel returns, or its future is dropped; `cancelled` keeps Drop from asking again.
AppCancelled(l) ==
  /\ listener[l].state \in {"cancelling", "cancelled"}
  /\ TrySend(events, LeftBehind(l))
  /\ Silenced(l)
  /\ AppUnchanged /\ UNCHANGED <<session, cleans>>

\* A Stream is dropped.
AppDropStream(c) ==
  /\ stream[c] = "held"
  /\ TrySend(events, CloseEvents(<<c>>))
  /\ stream' = [stream EXCEPT ![c] = "dropped"]
  /\ AppUnchanged /\ UNCHANGED <<listener, session, cleans>>

\* Session::clean.
AppClean ==
  /\ session /\ ~ended /\ Room /\ cleans < MaxCleans
  /\ events' = Append(events, Event("clean", 0, 0, FALSE))
  /\ cleans' = cleans + 1
  /\ AppUnchanged /\ UNCHANGED <<listener, stream, session, lost>>

AppDropSession ==
  /\ session /\ \A l \in Listeners : listener[l].state # "asked"
  /\ session' = FALSE
  /\ AppUnchanged /\ UNCHANGED <<events, listener, stream, cleans, lost>>

-----------------------------------------------------------------------------
(* The session task takes an event.                                        *)

Message(type, l, addr, want) == [type |-> type, l |-> l, addr |-> addr, want |-> want]

Wait(op, l, addr) == [op |-> op, l |-> l, addr |-> addr]

\* CHANNEL_OPEN_CONFIRMATION, _FAILURE or CHANNEL_CLOSE: nothing else depends on when the
\* server hears it, so it does at once.
Tells(c, what) == peer' = [peer EXCEPT ![c] = what]

\* exec waits for an event or a message, not inside a handler.
Idle == ~ended /\ awaiting = None /\ delivering = None /\ cleaning = {}

Takes(op) == Idle /\ events # <<>> /\ Head(events).op = op

TaskUnchanged == UNCHANGED <<session, bound, cleans>>

\* global_request_tcp_ip_forward, and global_request_stream_local_forward, whose
\* request has the same name.
TakeListen ==
  /\ Takes("listen")
  /\ LET e == Head(events) IN
       /\ toServer' = Append(toServer, Message("tcpip-forward", e.l, e.addr, TRUE))
       /\ awaiting' = Wait("listen", e.l, e.addr)
  /\ events' = Tail(events)
  /\ UNCHANGED <<cleaning, delivering, table, listener, stream, ended, toClient, lost>>
  /\ UNCHANGED peer /\ TaskUnchanged

\* Mutant: the entry stays.
RemovedNot(addr) == table

\* Forward::remove_tcp, remove_local.
Removed(addr) == [a \in DOMAIN table \ {addr} |-> table[a]]

\* Mutant: nobody is told.
AnsweredNot(l) == listener

\* The answer to the future of Listener::cancel.
Answered(l) ==
  IF l # 0 /\ listener[l].state = "cancelling"
  THEN [listener EXCEPT ![l].state = "cancelled"] ELSE listener

\* Mutant: the request always asks for a reply.
CancelRequestAsks(e) == Message("cancel", e.l, e.addr, TRUE)

CancelRequest(e) == Message("cancel", e.l, e.addr, e.want)

\* global_request_cancel_tcp_ip_forward, global_request_cancel_stream_local_forward.
TakeCancel ==
  /\ Takes("cancel")
  /\ LET e == Head(events) IN
       /\ toServer' = Append(toServer, CancelRequest(e))
       /\ awaiting' = IF e.want THEN Wait("cancel", e.l, e.addr) ELSE None
       /\ table' = IF e.want THEN table ELSE Removed(e.addr)
       /\ listener' = IF e.want THEN listener ELSE Answered(e.l)
  /\ events' = Tail(events)
  /\ UNCHANGED <<cleaning, delivering, stream, ended, toClient, lost>>
  /\ UNCHANGED peer /\ TaskUnchanged

\* channel_close; again if the channel was closed before, which is ChannelTable's matter.
TakeClose ==
  /\ Takes("close")
  /\ LET c == Head(events).addr IN
       /\ Tells(c, "close")
       /\ stream' = [stream EXCEPT ![c] = "closed"]
  /\ events' = Tail(events)
  /\ UNCHANGED <<awaiting, cleaning, delivering, table, listener, ended, toServer, toClient, lost>>
  /\ TaskUnchanged

\* forward_tcp_clean, forward_local_clean: the entries whose listener was dropped.
Deaf == {a \in DOMAIN table : ~Hearing(table[a])}

\* clean: the channels nobody holds are closed, then the deaf forwards cancelled.
TakeClean ==
  /\ Takes("clean")
  /\ LET forgotten == {c \in Conns : stream[c] = "dropped"} IN
       /\ peer' = [c \in Conns |-> IF c \in forgotten THEN "close" ELSE peer[c]]
       /\ stream' = [c \in Conns |-> IF c \in forgotten THEN "closed" ELSE stream[c]]
  /\ cleaning' = Deaf
  /\ events' = Tail(events)
  /\ UNCHANGED <<awaiting, delivering, table, listener, ended, toServer, toClient, lost>>
  /\ TaskUnchanged

CleanNext ==
  /\ ~ended /\ awaiting = None /\ delivering = None
  /\ \E a \in cleaning :
       /\ toServer' = Append(toServer, Message("cancel", 0, a, TRUE))
       /\ awaiting' = Wait("cancel", 0, a)
       /\ cleaning' = cleaning \ {a}
  /\ UNCHANGED <<events, delivering, table, listener, stream, ended, toClient, lost>>
  /\ UNCHANGED peer /\ TaskUnchanged

\* Mutant: exec waits for its forwards to be cancelled.
ExecEndsClean ==
  /\ Idle /\ events = <<>> /\ ~Frontends /\ table = <<>>
  /\ ended' = TRUE
  /\ UNCHANGED <<events, awaiting, cleaning, delivering, table, listener, stream, toServer,
                 toClient, lost>>
  /\ UNCHANGED peer /\ TaskUnchanged

\* receiver.recv() returns None: exec ends.
ExecEnds ==
  /\ Idle /\ events = <<>> /\ ~Frontends
  /\ ended' = TRUE
  /\ UNCHANGED <<events, awaiting, cleaning, delivering, table, listener, stream, toServer,
                 toClient, lost>>
  /\ UNCHANGED peer /\ TaskUnchanged

-----------------------------------------------------------------------------
(* The session task reads a message: in exec, or inside a wait.            *)

Hears(types) ==
  /\ ~ended /\ delivering = None /\ (awaiting = None => cleaning = {})
  /\ toClient # <<>> /\ Head(toClient).type \in types

\* A REQUEST_SUCCESS or REQUEST_FAILURE nobody waits for is ignored.
HandleStrayReply ==
  /\ Hears({"success", "failure"}) /\ awaiting = None
  /\ toClient' = Tail(toClient)
  /\ UNCHANGED <<events, awaiting, cleaning, delivering, table, listener, stream, ended,
                 toServer, lost>>
  /\ UNCHANGED peer /\ TaskUnchanged

\* The port is read from every success, also of a request that named one: then there
\* is none to read, and the call fails.
Granted(r) == r.type = "success" /\ r.addr # 0 /\ Frontends

\* listen_on_server is answered.  An answer whose future is gone is dropped on the spot.
HandleListenReply ==
  /\ Hears({"success", "failure"}) /\ awaiting.op = "listen"
  /\ LET r == Head(toClient)
         l == awaiting.l
     IN  IF Granted(r)
         THEN /\ table' = [a \in DOMAIN table \cup {r.addr} |-> IF a = r.addr THEN l ELSE table[a]]
              /\ IF listener[l].state = "asked"
                 THEN /\ listener' = [listener EXCEPT ![l] = [@ EXCEPT !.state = "open", !.addr = r.addr]]
                      /\ UNCHANGED <<events, lost>>
                 ELSE /\ listener' = [listener EXCEPT ![l] = [@ EXCEPT !.state = "gone", !.addr = r.addr]]
                      /\ TrySend(events, <<DropEvent(r.addr)>>)
         ELSE /\ listener' = [listener EXCEPT ![l].state = "failed"]
              /\ UNCHANGED <<table, events, lost>>
  /\ toClient' = Tail(toClient)
  /\ awaiting' = None
  /\ UNCHANGED <<cleaning, delivering, stream, ended, toServer>>
  /\ UNCHANGED peer /\ TaskUnchanged

\* A cancellation is answered; a failure ends clean().
HandleCancelReply ==
  /\ Hears({"success", "failure"}) /\ awaiting.op = "cancel"
  /\ LET r == Head(toClient) IN
       /\ table' = IF r.type = "success" THEN Removed(awaiting.addr) ELSE table
       /\ cleaning' = IF r.type = "success" THEN cleaning ELSE {}
  /\ listener' = Answered(awaiting.l)
  /\ toClient' = Tail(toClient)
  /\ awaiting' = None
  /\ UNCHANGED <<events, delivering, stream, ended, toServer, lost>>
  /\ UNCHANGED peer /\ TaskUnchanged

\* handle_channel_open_forwarded_tcp_ip, ..._stream_local: no such listener.
HandleOpenRefused ==
  /\ Hears({"open"}) /\ Head(toClient).at \notin DOMAIN table
  /\ Tells(Head(toClient).addr, "refuse")
  /\ toClient' = Tail(toClient)
  /\ UNCHANGED <<events, awaiting, cleaning, delivering, table, listener, stream, ended, toServer,
                 lost>>
  /\ TaskUnchanged

\* upgrade_frontend fails: exec ends with the error, or the wait does.
HandleOpenOrphaned ==
  /\ Hears({"open"}) /\ Head(toClient).at \in DOMAIN table /\ ~Frontends
  /\ Tells(Head(toClient).addr, "confirm")
  /\ toClient' = Tail(toClient)
  /\ ended' = (awaiting = None)
  /\ awaiting' = None /\ cleaning' = {}
  /\ listener' = IF awaiting.op = "listen"
                 THEN [listener EXCEPT ![awaiting.l].state = "failed"] ELSE Answered(awaiting.l)
  /\ stream' = [stream EXCEPT ![Head(toClient).addr] = "dropped"]
  /\ UNCHANGED <<events, delivering, table, toServer, lost>>
  /\ TaskUnchanged

\* The connection is confirmed and its Stream made; sending it is a step of its own.
HandleOpen ==
  /\ Hears({"open"}) /\ Head(toClient).at \in DOMAIN table /\ Frontends
  /\ LET m == Head(toClient) IN
       /\ Tells(m.addr, "confirm")
       /\ stream' = [stream EXCEPT ![m.addr] = "queued"]
       /\ delivering' = Wait("deliver", table[m.at], m.addr)
  /\ toClient' = Tail(toClient)
  /\ UNCHANGED <<events, awaiting, cleaning, table, listener, ended, toServer, lost>>
  /\ TaskUnchanged

Full(l) == Len(listener[l].queue) >= ListenCap

\* listener.sender.send(..).await finds room.
Deliver ==
  /\ delivering # None /\ Hearing(delivering.l) /\ ~Full(delivering.l)
  /\ listener' = [listener EXCEPT ![delivering.l].queue = Append(@, delivering.addr)]
  /\ delivering' = None
  /\ UNCHANGED <<events, awaiting, cleaning, table, stream, ended, toServer, toClient, lost>>
  /\ UNCHANGED peer /\ TaskUnchanged

\* It fails, at once or after waiting: the Stream in the error is dropped, which queues
\* a close, and the channel closed.
DeliverFails ==
  /\ delivering # None /\ ~Hearing(delivering.l)
  /\ TrySend(events, CloseEvents(<<delivering.addr>>))
  /\ Tells(delivering.addr, "close")
  /\ stream' = [stream EXCEPT ![delivering.addr] = "closed"]
  /\ delivering' = None
  /\ UNCHANGED <<awaiting, cleaning, table, listener, ended, toServer, toClient>>
  /\ TaskUnchanged

-----------------------------------------------------------------------------
(* The server (external).  A success names a port only if it was asked to  *)
(* choose one; a forward of a path under the name of a TCP forward is      *)
(* malformed and refused.                                                  *)

ServerUnchanged == UNCHANGED <<events, awaiting, cleaning, delivering, table, listener, stream,
                               session, ended, cleans, lost>>

Asks(type) == toServer # <<>> /\ Head(toServer).type = type

Reply(type, addr) ==
  [type |-> type, addr |-> addr, at |-> 0, to |-> Head(toServer)]

ServerGrants ==
  /\ Asks("tcpip-forward") /\ Head(toServer).addr # Local
  /\ \E p \in Ports \ DOMAIN bound :
       /\ Head(toServer).addr \in {0, p}
       /\ bound' = [a \in DOMAIN bound \cup {p} |-> IF a = p THEN Head(toServer).l ELSE bound[a]]
       /\ toClient' = Append(toClient, Reply("success", IF Head(toServer).addr = 0 THEN p ELSE 0))
  /\ toServer' = Tail(toServer)
  /\ UNCHANGED peer /\ ServerUnchanged

ServerRefuses ==
  /\ Asks("tcpip-forward")
  /\ toClient' = Append(toClient, Reply("failure", 0))
  /\ toServer' = Tail(toServer)
  /\ UNCHANGED <<bound, peer>> /\ ServerUnchanged

ServerCancels ==
  /\ Asks("cancel")
  /\ LET m == Head(toServer) IN
       /\ bound' = [a \in DOMAIN bound \ {m.addr} |-> bound[a]]
       /\ toClient' = IF ~m.want THEN toClient
                      ELSE Append(toClient, Reply(IF m.addr \in DOMAIN bound THEN "success" ELSE "failure", 0))
  /\ toServer' = Tail(toServer)
  /\ UNCHANGED peer /\ ServerUnchanged

ServerConnects(c) ==
  /\ ~ended /\ peer[c] = "none"
  /\ \E p \in DOMAIN bound :
       /\ toClient' = Append(toClient, [type |-> "open", addr |-> c, at |-> p, to |-> None])
       /\ peer' = [peer EXCEPT ![c] = "opening"]
  /\ UNCHANGED <<toServer, bound>> /\ ServerUnchanged

\* The connection is closed: nothing is forwarded any more.
ServerSeesEnd ==
  /\ ended /\ toServer = <<>> /\ bound # <<>>
  /\ bound' = <<>>
  /\ UNCHANGED <<toServer, toClient, peer>> /\ ServerUnchanged

-----------------------------------------------------------------------------

Task ==
  \/ TakeListen \/ TakeCancel \/ TakeClose \/ TakeClean \/ CleanNext \/ ExecEnds
  \/ HandleStrayReply \/ HandleListenReply \/ HandleCancelReply
  \/ HandleOpenRefused \/ HandleOpenOrphaned \/ HandleOpen \/ Deliver \/ DeliverFails

App ==
  \/ \E l \in Listeners :
       \/ \E addr \in Asked : AppListen(l, addr)
       \/ \E want \in BOOLEAN : AppCancel(l, want)
       \/ AppGivesUp(l) \/ AppAccept(l) \/ AppDropListener(l) \/ AppCancelled(l)
  \/ \E c \in Conns : AppDropStream(c)
  \/ AppClean \/ AppDropSession

Server == ServerGrants \/ ServerRefuses \/ ServerCancels \/ ServerSeesEnd

Next == Task \/ App \/ Server \/ \E c \in Conns : ServerConnects(c)

Spec == Init /\ [][Next]_vars

\* The task runs, the server answers, and cancel() that was answered returns.  Nobody
\* has to accept or to drop anything.
Fairness ==
  /\ WF_vars(Task) /\ WF_vars(Server)
  /\ \A l \in Listeners : WF_vars(listener[l].state = "cancelled" /\ AppCancelled(l))

FairSpec == Spec /\ Fairness

-----------------------------------------------------------------------------
(* Properties.                                                             *)

\* Replies have no identifier.  Order suffices because at most one request with a reply
\* is ever under way, and it is the one the session task waits for; what a Listener's
\* drop sends must not ask for one.
ReplyIsOurs ==
  LET asked == {toServer[i] : i \in {j \in DOMAIN toServer : toServer[j].want}}
      answered == {toClient[i].to : i \in {j \in DOMAIN toClient : toClient[j].type # "open"}}
  IN  Frontends =>
        \A m \in asked \cup answered :
          /\ awaiting.l = m.l /\ awaiting.addr = m.addr
          /\ awaiting.op = (IF m.type = "cancel" THEN "cancel" ELSE "listen")

\* Nothing under way, nothing lost: the server listens exactly where the table says,
\* and a connection it believes open has a Stream behind it.
Quiet == /\ events = <<>> /\ awaiting = None /\ delivering = None /\ cleaning = {}
         /\ toServer = <<>> /\ toClient = <<>>

ForwardsAgree ==
  Quiet /\ Frontends =>
    /\ bound = table
    /\ \A c \in Conns : peer[c] = "confirm" =>
         stream[c] \in {"queued", "held"} \/ Event("close", 0, c, FALSE) \in lost

\* The task is held up by a connection only as long as the listener has a full queue and
\* somebody holds it.
HeldUp == delivering # None /\ Hearing(delivering.l) /\ Full(delivering.l)

\* A forward nobody listens to does not last: after a drop, a cancel() or an abandoned
\* listen_on_server the server stops listening, unless the event found the queue full, or
\* a listener that is never accepted from holds the session task up for ever.
Unheard(a) == a \in DOMAIN bound /\ \A l \in Listeners : listener[l].addr = a =>
                listener[l].state \in {"gone", "cancelled"}

ForwardEnds ==
  \/ <>[]HeldUp
  \/ \A a \in Ports : Unheard(a) ~> (~Unheard(a) \/ DropEvent(a) \in lost)

\* cancel() is answered, unless a full queue holds the session task up for ever.
CancelReturns ==
  \/ <>[]HeldUp
  \/ \A l \in Listeners :
       (listener[l].state = "cancelling") ~> (listener[l].state # "cancelling")

\* When the last handle is dropped the session ends, after the events still queued.
SessionEnds == ~Frontends ~> ended
=============================================================================
