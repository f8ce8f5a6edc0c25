---------------------------- MODULE ChannelTable ----------------------------
(***************************************************************************)
(* The life of channels: SessionInner.channels, the bounded event queue    *)
(* between the Channel handles and the session task, the two FIFO          *)
(* directions of the connection, and a server that numbers, closes and     *)
(* reuses its channels as RFC 4254 allows.                                 *)
(*                                                                         *)
(* Every channel that is ever opened has an incarnation number 1, 2, ...,  *)
(* which no code sees: messages, events and table entries carry it so that *)
(* the properties can say which channel something was meant for.  Windows  *)
(* are the subject of FlowControl; the eof flags are written by the code   *)
(* and never read, so they are left out.                                   *)
(***************************************************************************)
EXTENDS Integers, Sequences, SequencesExt

CONSTANTS
  ServerIds,    \* the numbers the server gives its channels
  MaxChannels,  \* bound: incarnations
  EventCap,     \* DEFAULT_CHANNEL_CAPACITY (256) of the session's event queue
  MaxCleans,    \* bound: Session::clean calls
  MaxChats,     \* bound: data, eof and requests per channel, both directions
  Plans         \* what applications and server do: one of these sets

ASSUME TableAssumption ==
  /\ ServerIds # {} /\ 0 \notin ServerIds
  /\ MaxChannels \in Nat \ {0} /\ EventCap \in Nat \ {0}
  /\ MaxCleans \in Nat /\ MaxChats \in Nat
  /\ \A p \in Plans : p \subseteq {"open", "eof", "request", "clean", "drop", "listen", "deaf",
                                  "forward", "serverClose", "serverData", "serverAsk"}

Channels == 1..MaxChannels

VARIABLES
  table,     \* SessionInner.channels, in order
  wait,      \* what the session task is waiting for inside an event handler
  events,    \* the event queue
  handles,   \* per channel: the application's Channel
  told,      \* per channel: the kinds of Message its handle was given
  toServer, toClient,
  server,    \* per channel: the server's side
  born,      \* how many channels there have been
  plan,      \* what this behaviour's applications and server do, of Plans
  cleans,    \* how many clean() calls there have been
  chats,     \* per channel: data, eof and requests so far
  astray,    \* History: a message reached another channel than the intended one
  unheard    \* History: a forwarded connection has met a dropped listener

vars == <<table, wait, events, handles, told, toServer, toClient, server, born,
          plan, cleans, unheard, chats, astray>>

\* No number: an id not yet known.
None == 0

Idle    == [for |-> "none", cid |-> None, chan |-> None]
NoPeer  == [state |-> "none", sid |-> None, cid |-> None]
NoOwner == [state |-> "none", cid |-> None, sid |-> None]

Init ==
  /\ table = <<>>
  /\ wait = Idle
  /\ events = <<>>
  /\ handles = [k \in Channels |-> NoOwner]
  /\ told = [k \in Channels |-> {}]
  /\ toServer = <<>> /\ toClient = <<>>
  /\ server = [k \in Channels |-> NoPeer]
  /\ born = 0 /\ cleans = 0 /\ plan \in Plans
  /\ chats = [k \in Channels |-> 0]
  /\ astray = FALSE /\ unheard = FALSE

-----------------------------------------------------------------------------
(* The table.                                                              *)

Positions == 1..Len(table)

\* self.channels.iter().position(|v| v.client.id == c): the first match.
Matches(c) == {i \in Positions : table[i].cid = c}
Position(c) == Min(Matches(c))

HighestId == Max({table[i].cid : i \in Positions})

\* Mutant: the length of the table as the next number.
NextChannelIdByLength == Len(table) + 1

\* next_channel_id: one above the highest number in the table.
NextChannelId == IF table = <<>> THEN 1 ELSE HighestId + 1

Entry(cid, sid, k) ==
  [cid |-> cid, sid |-> sid, clientClosed |-> FALSE, serverClosed |-> FALSE, chan |-> k]

\* Mutant: forgotten as soon as the client has closed.
CloseClientSideEager(i) == RemoveAt(table, i)

\* The entry at i once the client has closed; it leaves the table when both have.
CloseClientSide(i) ==
  IF table[i].serverClosed THEN RemoveAt(table, i)
  ELSE [table EXCEPT ![i].clientClosed = TRUE]

\* Mutant: the server's CLOSE is noted but the entry never removed.
CloseServerSideKeep(i) == [table EXCEPT ![i].serverClosed = TRUE]

\* Mutant: the server's CLOSE removes the entry under a live handle.
CloseServerSideEager(i) == RemoveAt(table, i)

\* The entry at i once the server has closed.
CloseServerSide(i) ==
  IF table[i].clientClosed THEN RemoveAt(table, i)
  ELSE [table EXCEPT ![i].serverClosed = TRUE]

Msg(type, id, k) == [type |-> type, id |-> id, chan |-> k]

Say(m) == toServer' = Append(toServer, m)

\* Whether the receiving half of k's handle still exists.
Alive(k) == handles[k].state \in {"idle", "busy", "closing"}

\* sender.send(..).await of a handler: nobody gets it when the handle is gone.
Give(k, m) ==
  /\ told' = IF Alive(k) THEN [told EXCEPT ![k] = @ \cup {m.type}] ELSE told
  /\ astray' = (astray \/ k # m.chan)

\* The session task reads the next message: never in the middle of channel_clean.
Hears(type) ==
  /\ wait.for # "clean"
  /\ toClient # <<>>
  /\ Head(toClient).type = type
  /\ toClient' = Tail(toClient)

\* The session task is in exec's select! and takes the next event.
Takes(type) ==
  /\ wait = Idle
  /\ events # <<>>
  /\ Head(events).type = type
  /\ events' = Tail(events)

Event(type, k) == [type |-> type, chan |-> k, cid |-> handles[k].cid, sid |-> handles[k].sid]

\* A call has its answer: a handle that still waits for it goes on.
Answered(k) == IF handles[k].state = "busy" THEN "idle" ELSE handles[k].state

\* Channel::drop: ChannelClose by try_send, lost when the event queue is full.
Dropped(k, cid, sid) ==
  IF Len(events) < EventCap
  THEN /\ events' = Append(events, [type |-> "close", chan |-> k, cid |-> cid, sid |-> sid])
       /\ handles' = [handles EXCEPT ![k] = [state |-> "gone", cid |-> cid, sid |-> sid]]
  ELSE /\ events' = events
       /\ handles' = [handles EXCEPT ![k] = [state |-> "lost", cid |-> cid, sid |-> sid]]

-----------------------------------------------------------------------------
(* Event handlers.                                                         *)

\* channel_open_session and the direct-tcpip / direct-streamlocal variants up
\* to the wait: the number is chosen but the table does not hold it yet.
ChannelOpen ==
  /\ Takes("open")
  /\ Say(Msg("open", NextChannelId, Head(events).chan))
  /\ wait' = [for |-> "open", cid |-> NextChannelId, chan |-> Head(events).chan]
  /\ UNCHANGED <<table, handles, told, toClient, server, born, plan, cleans, unheard, chats, astray>>

\* wait_for_opening_channel's last check: the server's number is in the table.
AlreadyOpen(sid) == \E i \in Positions : table[i].sid = sid

\* wait_for_opening_channel, confirmed.  The call fails when the server's number
\* is already in the table.  If the caller has gone away the new Channel comes
\* back from the reply's oneshot and is dropped by the session task.
ChannelOpened ==
  /\ wait.for = "open"
  /\ Hears("confirm")
  /\ LET m == Head(toClient)
         k == wait.chan
     IN  IF m.id = wait.cid /\ ~AlreadyOpen(m.sid)
         THEN /\ table' = Append(table, Entry(wait.cid, m.sid, k))
              /\ IF handles[k].state = "opening"
                 THEN /\ handles' = [handles EXCEPT
                           ![k] = [state |-> "idle", cid |-> wait.cid, sid |-> m.sid]]
                      /\ UNCHANGED events
                 ELSE Dropped(k, wait.cid, m.sid)
         ELSE /\ handles' = [handles EXCEPT ![k].state = "refused"]
              /\ UNCHANGED <<table, events>>
  /\ wait' = Idle
  /\ UNCHANGED <<told, toServer, server, born, plan, cleans, unheard, chats, astray>>

\* wait_for_opening_channel, refused by the server.
ChannelOpenFailed ==
  /\ wait.for = "open"
  /\ Hears("refuse")
  /\ wait' = Idle
  /\ handles' = [handles EXCEPT ![wait.chan].state = "refused"]
  /\ UNCHANGED <<table, events, told, toServer, server, born, plan, cleans, unheard, chats, astray>>

\* channel_request_*: sent without looking at the table; without want_reply
\* ("notice") the call returns at once.
ChannelRequest ==
  /\ Takes("request")
  /\ Say(Msg("request", Head(events).sid, Head(events).chan))
  /\ wait' = [for |-> "reply", cid |-> Head(events).cid, chan |-> Head(events).chan]
  /\ UNCHANGED <<table, handles, told, toClient, server, born, plan, cleans, unheard, chats, astray>>

ChannelNotice ==
  /\ Takes("notice")
  /\ Say(Msg("notice", Head(events).sid, Head(events).chan))
  /\ handles' = [handles EXCEPT ![Head(events).chan].state = Answered(Head(events).chan)]
  /\ UNCHANGED <<table, wait, told, toClient, server, born, plan, cleans, unheard, chats, astray>>

\* Mutant: CHANNEL_FAILURE does not end the wait.
EndsWaitSuccessOnly(m) == m.type = "success" \/ (m.type = "close" /\ m.id = wait.cid)

\* wait_for_channel_response: a reply, or a CLOSE for this channel, ends the
\* wait; the CLOSE goes no further.
EndsWait(m) == m.type \in {"success", "failure"} \/ (m.type = "close" /\ m.id = wait.cid)

ChannelReplied ==
  /\ wait.for = "reply"
  /\ toClient # <<>>
  /\ EndsWait(Head(toClient))
  /\ toClient' = Tail(toClient)
  /\ wait' = Idle
  /\ handles' = [handles EXCEPT ![wait.chan].state = Answered(wait.chan)]
  /\ UNCHANGED <<table, events, told, toServer, server, born, plan, cleans, unheard, chats, astray>>

\* channel_eof: found by the client's number, sent to the handle's server number.
ChannelEof ==
  /\ Takes("eof")
  /\ LET e == Head(events) IN
       /\ toServer' = IF Matches(e.cid) = {} THEN toServer
                      ELSE Append(toServer, Msg("eof", e.sid, e.chan))
       /\ handles' = [handles EXCEPT ![e.chan].state = Answered(e.chan)]
  /\ UNCHANGED <<table, wait, told, toClient, server, born, plan, cleans, unheard, chats, astray>>

\* channel_close, for close() and for Drop.
ChannelClose ==
  /\ Takes("close")
  /\ LET e == Head(events) IN
       /\ IF Matches(e.cid) # {}
          THEN /\ Say(Msg("close", e.sid, e.chan))
               /\ table' = CloseClientSide(Position(e.cid))
          ELSE UNCHANGED <<toServer, table>>
       /\ handles' = [handles EXCEPT ![e.chan].state = "gone"]
  /\ UNCHANGED <<wait, told, toClient, server, born, plan, cleans, unheard, chats, astray>>

Cleaning(i) == IF i = 0 THEN Idle ELSE [for |-> "clean", cid |-> i, chan |-> None]

\* channel_clean: goes through the table from the last entry to the first.
ChannelClean ==
  /\ Takes("clean")
  /\ wait' = Cleaning(Len(table))
  /\ UNCHANGED <<table, handles, told, toServer, toClient, server, born, plan, cleans, unheard,
                 chats, astray>>

\* Mutant: only the channels the server has closed already are closed.
ForgottenHalf(i) == ~Alive(table[i].chan) /\ table[i].serverClosed

\* sender.is_closed(): the handle is gone.
Forgotten(i) == ~Alive(table[i].chan)

\* One turn of channel_clean's loop, which may wait for the socket: an entry whose
\* handle is gone is closed unless it has been, and removed when both sides have.
CleanEntry ==
  /\ wait.for = "clean"
  /\ LET i == wait.cid IN
       /\ IF Forgotten(i)
          THEN /\ toServer' = IF table[i].clientClosed THEN toServer
                             ELSE Append(toServer, Msg("close", table[i].sid, table[i].chan))
               /\ table' = CloseClientSide(i)
          ELSE UNCHANGED <<toServer, table>>
       /\ wait' = Cleaning(i - 1)
  /\ UNCHANGED <<events, handles, told, toClient, server, born, plan, cleans, unheard, chats,
                 astray>>

-----------------------------------------------------------------------------
(* handle_msg: in exec's select! and, for messages a wait does not match,  *)
(* inside match_msg.                                                       *)

\* Finds the channel by the client's number and passes the message on.
PassOn(type) ==
  /\ Hears(type)
  /\ LET m == Head(toClient) IN
       IF Matches(m.id) # {} THEN Give(table[Position(m.id)].chan, m)
                             ELSE UNCHANGED <<told, astray>>
  /\ UNCHANGED <<table, wait, events, handles, toServer, server, born, plan, cleans, unheard,
                 chats>>

\* handle_channel_data (its window: FlowControl), and in the same way
\* _exit_status, _exit_signal and _flow_control, which answer nothing.
HandleChannelData == PassOn("data")

\* handle_channel_eof.
HandleChannelEof == PassOn("eof")

\* handle_channel_unknown_request with want_reply: refused on the wire while the
\* table has the channel, closed from this side or not.
HandleUnknownRequest ==
  /\ Hears("ask")
  /\ LET m == Head(toClient) IN
       toServer' = IF Matches(m.id) = {} THEN toServer
                   ELSE Append(toServer, Msg("failure", table[Position(m.id)].sid,
                                             table[Position(m.id)].chan))
  /\ UNCHANGED <<table, wait, events, handles, told, server, born, plan, cleans, unheard,
                 chats, astray>>

\* Mutant: no Message::Close for the handle.
HandleChannelCloseSilent ==
  /\ Hears("close")
  /\ ~(wait.for = "reply" /\ EndsWait(Head(toClient)))
  /\ LET m == Head(toClient) IN
       table' = IF Matches(m.id) # {} THEN CloseServerSide(Position(m.id)) ELSE table
  /\ UNCHANGED <<wait, events, handles, told, toServer, server, born, plan, cleans, unheard,
                 chats, astray>>

\* handle_channel_close.
HandleChannelClose ==
  /\ Hears("close")
  /\ ~(wait.for = "reply" /\ EndsWait(Head(toClient)))
  /\ LET m == Head(toClient) IN
       IF Matches(m.id) # {}
       THEN /\ Give(table[Position(m.id)].chan, m)
            /\ table' = CloseServerSide(Position(m.id))
       ELSE UNCHANGED <<told, astray, table>>
  /\ UNCHANGED <<wait, events, handles, toServer, server, born, plan, cleans, unheard, chats>>

\* handle_channel_open_forwarded_*, _agent_connect, _x11 and _unknown: nobody
\* listens, or the notifier declines, or (agent, x11) the server's number is
\* already in the table.
HandleOpenRefused ==
  /\ Hears("open")
  /\ Say(Msg("refuse", Head(toClient).sid, Head(toClient).chan))
  /\ UNCHANGED <<table, wait, events, handles, told, server, born, plan, cleans, unheard,
                 chats, astray>>

Accepted(m) == [type |-> "confirm", id |-> m.sid, chan |-> m.chan, cid |-> NextChannelId]

\* The same handlers, accepting; the Stream reaches the listener or notifier.
HandleOpenAccepted ==
  /\ "listen" \in plan
  /\ Hears("open")
  /\ LET m == Head(toClient) IN
       /\ Say(Accepted(m))
       /\ table' = Append(table, Entry(NextChannelId, m.sid, m.chan))
       /\ handles' = [handles EXCEPT
                        ![m.chan] = [state |-> "idle", cid |-> NextChannelId, sid |-> m.sid]]
  /\ UNCHANGED <<wait, events, told, server, born, plan, cleans, unheard, chats,
                 astray>>

\* The same handlers when the listener has just been dropped: the Stream comes
\* back in the send error, its Drop queues a ChannelClose, and the handler calls
\* channel_close itself.
HandleOpenDeaf ==
  /\ "deaf" \in plan
  /\ Hears("open")
  /\ LET m == Head(toClient) IN
       /\ toServer' = toServer \o <<Accepted(m), Msg("close", m.sid, m.chan)>>
       /\ table' = Append(table, [Entry(NextChannelId, m.sid, m.chan)
                                    EXCEPT !.clientClosed = TRUE])
       /\ Dropped(m.chan, NextChannelId, m.sid)
  /\ unheard' = TRUE
  /\ UNCHANGED <<wait, told, server, born, plan, cleans, chats, astray>>

-----------------------------------------------------------------------------
(* Applications.                                                           *)

\* A handle's method queues its event and waits for the answer.
Ask(k, type, state) ==
  /\ handles[k].state = "idle"
  /\ Len(events) < EventCap
  /\ events' = Append(events, Event(type, k))
  /\ handles' = [handles EXCEPT ![k].state = state]
  /\ UNCHANGED <<table, wait, told, toServer, toClient, server, born, plan, cleans, unheard, astray>>

\* Session::channel_open and its forwarding variants.
AppOpen ==
  /\ "open" \in plan
  /\ born < MaxChannels
  /\ Len(events) < EventCap
  /\ born' = born + 1
  /\ handles' = [handles EXCEPT ![born + 1].state = "opening"]
  /\ events' = Append(events, Event("open", born + 1))
  /\ UNCHANGED <<table, wait, told, toServer, toClient, server, plan, cleans, unheard, chats, astray>>

Chat(k) == chats[k] < MaxChats /\ chats' = [chats EXCEPT ![k] = @ + 1]

AppEof(k) == "eof" \in plan /\ Chat(k) /\ Ask(k, "eof", "busy")

AppRequest(k) ==
  /\ "request" \in plan
  /\ Chat(k)
  /\ \E type \in {"request", "notice"} : Ask(k, type, "busy")

AppClose(k) == Ask(k, "close", "closing") /\ UNCHANGED chats

\* The application drops the Channel, or the task that holds it is cancelled in
\* the middle of a call: Channel::drop.  After close() has queued its event
\* `closed` is set and Drop does nothing; an open has no Channel to drop yet.
AppDrop(k) ==
  /\ "drop" \in plan
  /\ handles[k].state \in {"idle", "busy", "closing", "opening"}
  /\ CASE handles[k].state = "opening" ->
            handles' = [handles EXCEPT ![k].state = "abandoned"] /\ UNCHANGED events
       [] handles[k].state = "closing" ->
            handles' = [handles EXCEPT ![k].state = "gone"] /\ UNCHANGED events
       [] OTHER -> Dropped(k, handles[k].cid, handles[k].sid)
  /\ UNCHANGED <<table, wait, told, toServer, toClient, server, born, plan, cleans, unheard,
                 chats, astray>>

\* Session::clean(channel = true, ..).
AppClean ==
  /\ "clean" \in plan
  /\ cleans < MaxCleans
  /\ Len(events) < EventCap
  /\ cleans' = cleans + 1
  /\ events' = Append(events, [type |-> "clean", chan |-> None, cid |-> None, sid |-> None])
  /\ UNCHANGED <<plan, table, wait, handles, told, toServer, toClient, server, born, chats,
                 astray, unheard>>

-----------------------------------------------------------------------------
(* The server (external).  Its channel is "asked" (it sent an OPEN), "open",  *)
(* "closing" (it sent CLOSE and waits for the client's) or "gone"; a number   *)
(* is free again once its channel is gone.                                    *)

Using(sid) == {k \in Channels : server[k].sid = sid
                                /\ server[k].state \in {"asked", "open", "closing"}}

Tell(m) == toClient' = Append(toClient, m)

ClientState == <<table, wait, events, handles, told, plan, cleans, unheard>>

ServerHears(type) ==
  /\ toServer # <<>>
  /\ Head(toServer).type = type
  /\ toServer' = Tail(toServer)

ServerAccepts ==
  /\ ServerHears("open")
  /\ LET m == Head(toServer) IN
       \E sid \in ServerIds :
         /\ Using(sid) = {}
         /\ server' = [server EXCEPT
                         ![m.chan] = [state |-> "open", sid |-> sid, cid |-> m.id]]
         /\ Tell([type |-> "confirm", id |-> m.id, sid |-> sid, chan |-> m.chan])
  /\ UNCHANGED <<ClientState, born, chats, astray>>

ServerRefuses ==
  /\ ServerHears("open")
  /\ Tell(Msg("refuse", Head(toServer).id, Head(toServer).chan))
  /\ UNCHANGED <<ClientState, server, born, chats, astray>>

\* A forwarded connection, an agent or an X11 client.
ServerOpens ==
  /\ "forward" \in plan
  /\ born < MaxChannels
  /\ \E sid \in ServerIds :
       /\ Using(sid) = {}
       /\ server' = [server EXCEPT
                       ![born + 1] = [state |-> "asked", sid |-> sid, cid |-> None]]
       /\ Tell([type |-> "open", id |-> None, sid |-> sid, chan |-> born + 1])
  /\ born' = born + 1
  /\ UNCHANGED <<ClientState, toServer, chats, astray>>

ServerConfirmed ==
  /\ ServerHears("confirm")
  /\ server' = [server EXCEPT ![Head(toServer).chan].state = "open",
                              ![Head(toServer).chan].cid = Head(toServer).cid]
  /\ UNCHANGED <<ClientState, toClient, born, chats, astray>>

ServerRefused ==
  /\ ServerHears("refuse")
  /\ server' = [server EXCEPT ![Head(toServer).chan].state = "gone"]
  /\ UNCHANGED <<ClientState, toClient, born, chats, astray>>

\* Whether a message finds the channel it was meant for: not when its number is
\* free by now or belongs to another channel.
Reaches(m) == Using(m.id) = {m.chan}

ServerHearsClose ==
  /\ ServerHears("close")
  /\ LET m == Head(toServer) IN
       /\ astray' = (astray \/ ~Reaches(m))
       /\ server' = [k \in Channels |-> IF k \in Using(m.id)
                                        THEN [server[k] EXCEPT !.state = "gone"]
                                        ELSE server[k]]
       /\ IF \E k \in Using(m.id) : server[k].state = "open"
          THEN \E k \in Using(m.id) : Tell(Msg("close", server[k].cid, k))
          ELSE UNCHANGED toClient
  /\ UNCHANGED <<ClientState, born, chats>>

\* A request is answered while the channel is open; once the server has sent its
\* CLOSE it says nothing more about the channel.
ServerHearsOther ==
  /\ \E type \in {"request", "notice", "eof", "failure"} : ServerHears(type)
  /\ LET m == Head(toServer) IN
       /\ astray' = (astray \/ ~Reaches(m))
       /\ IF m.type = "request" /\ \E k \in Using(m.id) : server[k].state = "open"
          THEN \E k \in Using(m.id), reply \in {"success", "failure"} :
                 Tell(Msg(reply, server[k].cid, m.chan))
          ELSE UNCHANGED toClient
  /\ UNCHANGED <<ClientState, server, born, chats>>

ServerCloses(k) ==
  /\ "serverClose" \in plan
  /\ server[k].state = "open"
  /\ server' = [server EXCEPT ![k].state = "closing"]
  /\ Tell(Msg("close", server[k].cid, k))
  /\ UNCHANGED <<ClientState, toServer, born, chats, astray>>

ServerTalks(k) ==
  /\ server[k].state = "open"
  /\ Chat(k)
  /\ \E type \in (IF "serverData" \in plan THEN {"data", "eof"} ELSE {})
                   \cup (IF "serverAsk" \in plan THEN {"ask"} ELSE {}) :
       Tell(Msg(type, server[k].cid, k))
  /\ UNCHANGED <<ClientState, server, toServer, born, astray>>

-----------------------------------------------------------------------------

\* The session task: the two branches of exec's select!, and its waits.
SessionTakes ==
  ChannelOpen \/ ChannelRequest \/ ChannelNotice \/ ChannelEof \/ ChannelClose
    \/ ChannelClean \/ CleanEntry

SessionHears ==
  ChannelOpened \/ ChannelOpenFailed \/ ChannelReplied \/ HandleChannelData
    \/ HandleChannelEof \/ HandleUnknownRequest \/ HandleChannelClose \/ HandleOpenRefused
    \/ HandleOpenAccepted \/ HandleOpenDeaf

Application ==
  \/ AppOpen
  \/ AppClean
  \/ \E k \in Channels : AppEof(k) \/ AppRequest(k) \/ AppClose(k) \/ AppDrop(k)

ServerAnswers ==
  ServerAccepts \/ ServerRefuses \/ ServerConfirmed \/ ServerRefused \/ ServerHearsClose
    \/ ServerHearsOther

Next ==
  \/ SessionTakes
  \/ SessionHears
  \/ Application
  \/ ServerAnswers
  \/ ServerOpens
  \/ \E k \in Channels : ServerCloses(k) \/ ServerTalks(k)

Spec == Init /\ [][Next]_vars

\* select! picks among its ready branches at random, so neither starves; the
\* server reads what it is sent.  Applications owe nothing.
Fairness ==
  /\ WF_vars(SessionTakes)
  /\ WF_vars(SessionHears)
  /\ WF_vars(ServerAnswers)

FairSpec == Spec /\ Fairness

-----------------------------------------------------------------------------
(* Properties.                                                             *)

\* A client number names one channel: next_channel_id never gives out a number
\* that handle_channel_*'s first match would resolve to another channel.
ClientIdsUnique ==
  \A i, j \in Positions : table[i].cid = table[j].cid => i = j

\* Every message and every event ends up with the channel it was meant for,
\* although both sides reuse their numbers and Drop and CLOSE cross on the wire.
\* Not claimed once a forwarded connection has met a dropped listener: the
\* second ChannelClose of such a channel may hit the number's next owner.
NoneAstray == ~unheard => ~astray

\* A handle that can still be used is backed by one entry that has its identity
\* pair and was not closed from this side (with the same exception).
HandleBacked ==
  ~unheard => \A k \in Channels : handles[k].state \in {"idle", "busy"} =>
    \E i \in Positions :
      /\ table[i].chan = k
      /\ table[i].cid = handles[k].cid /\ table[i].sid = handles[k].sid
      /\ ~table[i].clientClosed
      /\ \A j \in Positions : table[j].chan = k => j = i

\* Once handle_channel_close has read the server's CLOSE, a handle that still
\* exists has been given Message::Close (with the same exception).
CloseReported ==
  ~unheard => \A k \in Channels :
    (/\ handles[k].state \in {"idle", "busy"}
     /\ server[k].state \in {"closing", "gone"}
     /\ \A i \in 1..Len(toClient) : ~(toClient[i].type = "close" /\ toClient[i].chan = k))
    => "close" \in told[k]

Quiet == wait = Idle /\ events = <<>> /\ toServer = <<>> /\ toClient = <<>>

\* When nothing is in flight, both sides hold the same channels; what the table
\* still holds has a handle, or one whose Drop met a full event queue (with the
\* same exception).
TablesAgree ==
  (Quiet /\ ~unheard) =>
    /\ {table[i].chan : i \in Positions}
         = {k \in Channels : server[k].state \in {"open", "closing"}}
    /\ \A i \in Positions : Alive(table[i].chan) \/ handles[table[i].chan].state = "lost"

Reclaimable(k) == \A i \in Positions : table[i].chan # k

\* clean() reclaims the channels whose Drop was lost.
CleanReclaims ==
  \A k \in Channels :
    (handles[k].state = "lost" /\ \E i \in 1..Len(events) : events[i].type = "clean")
      ~> (Reclaimable(k) /\ server[k].state = "gone")

\* A call on a handle returns: eof(), a request with want_reply, or close().
CallsReturn ==
  \A k \in Channels : handles[k].state \in {"busy", "closing"}
                        ~> handles[k].state \notin {"busy", "closing"}
=============================================================================
