----------------------------- MODULE FlowControl -----------------------------
(***************************************************************************)
(* Flow control of one open channel: the session task                      *)
(* (session/backend.rs), the application's Channel handle                  *)
(* (session/channel.rs), the two FIFO directions of the connection, and a  *)
(* server that keeps RFC 4254's window rules.                              *)
(*                                                                         *)
(* Bytes are counted, not represented.  Closing is the subject of          *)
(* ChannelTable; here the handle may be dropped, which is what the         *)
(* "receiver is gone" paths of the handlers are about.                     *)
(***************************************************************************)
EXTENDS Integers, Sequences

CONSTANTS
  ClientWindow,   \* initial_window_size the client announced
  ClientPacket,   \* maximum_packet_size the client announced
  ServerWindow,   \* initial_window_size the server announced
  ServerPacket,   \* maximum_packet_size the server announced
  ServerPayload,  \* largest CHANNEL_DATA payload the server really uses
  ServerSlack,    \* bytes by which the server exceeds its credit (0: it never does)
  MaxPayload,     \* MAX_PACKET_PAYLOAD_LENGTH - 9
  MinWindow,      \* the low-water mark of handle_channel_data (1024)
  QueueCap,       \* DEFAULT_CHANNEL_CAPACITY (256) of the handle's queue
  WireCap,        \* bound: messages in flight per direction
  MaxDown,        \* bound: bytes the server ever sends
  MaxUp,          \* bound: bytes the application ever asks to send
  MaxGrant        \* bound: bytes the server ever adds to its window

ASSUME FlowAssumption ==
  /\ ClientWindow \in Nat /\ ClientPacket \in Nat
  /\ ServerWindow \in Nat /\ ServerPacket \in Nat
  /\ ServerPayload \in Nat /\ ServerSlack \in Nat /\ MaxPayload \in Nat \ {0}
  /\ MinWindow \in Nat /\ QueueCap \in Nat \ {0} /\ WireCap \in Nat \ {0}
  /\ MaxDown \in Nat /\ MaxUp \in Nat /\ MaxGrant \in Nat

VARIABLES
  pc,          \* where the session task is: "select", "deliver", "send", "failed"
  pending,     \* the queue message it is delivering while pc = "deliver"
  sent,        \* channel_send's local `sent`
  clientUsed,  \* channel.client.used_window_size
  serverUsed,  \* channel.server.used_window_size
  queue,       \* the handle's mpsc queue
  alive,       \* the handle's receiver exists
  app,         \* "ready", "queued" (send() in the event queue), "served"
  request,     \* data.len() of the outstanding Channel::send
  toClient,    \* server-to-client messages in flight
  toServer,    \* client-to-server messages in flight
  \* History: running totals [data, adjust] of what each side has put on the
  \* wire and taken off it.  The server's credit is a function of them.
  cliSent, cliRecv, srvSent, srvRecv,
  ignored,     \* History: bytes discarded as larger than maximum_packet_size
  asked,       \* History: bytes the application has asked to send
  accepted     \* History: bytes Channel::send has reported as accepted

task   == <<pc, pending, sent, clientUsed, serverUsed>>
handle == <<queue, alive, app, request, asked, accepted>>
totals == <<cliSent, cliRecv, srvSent, srvRecv, ignored>>
vars   == <<task, handle, toClient, toServer, totals>>

Total == [data : Nat, adjust : Nat]
Zero  == [data |-> 0, adjust |-> 0]

\* A wire message carries the sender's totals once it has been sent, so that
\* what is in flight is a difference of totals.
WireMsg  == [type : {"data", "adjust"}, size : Nat, total : Total]
QueueMsg == [type : {"data", "adjust"}, size : Nat]

Account(t, type, n) ==
  IF type = "data" THEN [t EXCEPT !.data = @ + n] ELSE [t EXCEPT !.adjust = @ + n]

Wire(t, type, n) == [type |-> type, size |-> n, total |-> Account(t, type, n)]

Lesser(a, b) == IF a <= b THEN a ELSE b

\* ChannelEndpoint::left of either endpoint.  The assertion in left() is that
\* neither difference is negative.
ClientLeft == ClientWindow - clientUsed
ServerLeft == ServerWindow - serverUsed

Init ==
  /\ pc = "select" /\ pending = [type |-> "data", size |-> 0] /\ sent = 0
  /\ clientUsed = 0 /\ serverUsed = 0
  /\ queue = <<>> /\ alive = TRUE /\ app = "ready" /\ request = 0
  /\ toClient = <<>> /\ toServer = <<>>
  /\ cliSent = Zero /\ cliRecv = Zero /\ srvSent = Zero /\ srvRecv = Zero
  /\ ignored = 0 /\ asked = 0 /\ accepted = 0

-----------------------------------------------------------------------------
(* Deviations of the code that the properties below must notice; no        *)
(* specification uses them.                                                *)

\* forgets to subtract what it gave back
ReplenishNoReset ==
  IF pending.type = "data" /\ ClientLeft < MinWindow
  THEN /\ Len(toServer) < WireCap
       /\ toServer' = Append(toServer, Wire(cliSent, "adjust", clientUsed))
       /\ cliSent' = Account(cliSent, "adjust", clientUsed)
       /\ UNCHANGED clientUsed
  ELSE UNCHANGED <<toServer, cliSent, clientUsed>>

\* gives back one byte more than was used
ReplenishAhead ==
  IF pending.type = "data" /\ ClientLeft < MinWindow
  THEN /\ Len(toServer) < WireCap
       /\ toServer' = Append(toServer, Wire(cliSent, "adjust", clientUsed + 1))
       /\ cliSent' = Account(cliSent, "adjust", clientUsed + 1)
       /\ clientUsed' = -1
  ELSE UNCHANGED <<toServer, cliSent, clientUsed>>

\* compares with the low-water mark the wrong way round
ReplenishInverted ==
  IF pending.type = "data" /\ ClientLeft > MinWindow
  THEN /\ Len(toServer) < WireCap
       /\ toServer' = Append(toServer, Wire(cliSent, "adjust", clientUsed))
       /\ cliSent' = Account(cliSent, "adjust", clientUsed)
       /\ clientUsed' = 0
  ELSE UNCHANGED <<toServer, cliSent, clientUsed>>

\* packets limited by the packet sizes only
ChunkSizeNoWindow == Lesser(Lesser(request - sent, MaxPayload), ServerPacket)

\* packets limited by the window only
ChunkSizeNoPacket == Lesser(Lesser(request - sent, MaxPayload), ServerLeft)

\* reports the whole request as accepted
ChannelSendClaimsAll ==
  /\ pc = "send"
  /\ sent = request \/ ServerLeft = 0
  /\ pc' = "select"
  /\ app' = "ready"
  /\ accepted' = accepted + request
  /\ UNCHANGED <<pending, sent, clientUsed, serverUsed, queue, alive, request, asked,
                 toClient, toServer, totals>>

\* waits for the window inside the session task
ChannelSendWaits ==
  /\ pc = "send"
  /\ sent = request
  /\ pc' = "select"
  /\ app' = "ready"
  /\ accepted' = accepted + sent
  /\ UNCHANGED <<pending, sent, clientUsed, serverUsed, queue, alive, request, asked,
                 toClient, toServer, totals>>

-----------------------------------------------------------------------------
(* The session task: one message or one event at a time (exec's select!).  *)

\* handle_channel_data up to the point where it awaits the handle's queue.
HandleChannelData ==
  /\ pc = "select"
  /\ toClient # <<>>
  /\ Head(toClient).type = "data"
  /\ LET n == Head(toClient).size IN
       \/ /\ n > ClientPacket                        \* "Data too long, ignore"
          /\ ignored' = ignored + n
          /\ UNCHANGED task
       \/ /\ n <= ClientPacket
          /\ n > ClientLeft                          \* ChannelWindowOverflow
          /\ pc' = "failed"
          /\ UNCHANGED <<pending, sent, clientUsed, serverUsed, ignored>>
       \/ /\ n <= ClientPacket
          /\ n <= ClientLeft
          /\ clientUsed' = clientUsed + n
          /\ pc' = "deliver"
          /\ pending' = [type |-> "data", size |-> n]
          /\ UNCHANGED <<sent, serverUsed, ignored>>
  /\ cliRecv' = Head(toClient).total
  /\ toClient' = Tail(toClient)
  /\ UNCHANGED <<handle, toServer, cliSent, srvSent, srvRecv>>

\* handle_channel_window_adjust up to the same point.
HandleChannelWindowAdjust ==
  /\ pc = "select"
  /\ toClient # <<>>
  /\ Head(toClient).type = "adjust"
  /\ serverUsed' = serverUsed - Head(toClient).size
  /\ pc' = "deliver"
  /\ pending' = [type |-> "adjust", size |-> Head(toClient).size]
  /\ cliRecv' = Head(toClient).total
  /\ toClient' = Tail(toClient)
  /\ UNCHANGED <<sent, clientUsed, handle, toServer, cliSent, srvSent, srvRecv,
                 ignored>>

\* handle_channel_data after its message is queued: below the low-water mark
\* the whole used window is given back.  The size fits u32, because
\* 0 <= clientUsed <= ClientWindow (see WindowConservation).
ReplenishWindow ==
  IF pending.type = "data" /\ ClientLeft < MinWindow
  THEN /\ Len(toServer) < WireCap
       /\ toServer' = Append(toServer, Wire(cliSent, "adjust", clientUsed))
       /\ cliSent' = Account(cliSent, "adjust", clientUsed)
       /\ clientUsed' = clientUsed - clientUsed
  ELSE UNCHANGED <<toServer, cliSent, clientUsed>>

\* channel.sender.send(msg).await: blocks the whole session while the queue is
\* full; a send that fails because the receiver is gone skips the replenishing.
Deliver ==
  /\ pc = "deliver"
  /\ \/ /\ ~alive
        /\ UNCHANGED <<queue, toServer, cliSent, clientUsed>>
     \/ /\ alive
        /\ Len(queue) < QueueCap
        /\ queue' = Append(queue, pending)
        /\ ReplenishWindow
  /\ pc' = "select"
  /\ UNCHANGED <<pending, sent, serverUsed, alive, app, request, asked, accepted,
                 toClient, cliRecv, srvSent, srvRecv, ignored>>

\* Event::ChannelSendData taken from the event queue.
ChannelSend ==
  /\ pc = "select"
  /\ app = "queued"
  /\ pc' = "send"
  /\ sent' = 0
  /\ app' = "served"
  /\ UNCHANGED <<pending, clientUsed, serverUsed, queue, alive, request, asked,
                 accepted, toClient, toServer, totals>>

\* The size of channel_send's next packet.
ChunkSize ==
  Lesser(Lesser(request - sent, MaxPayload), Lesser(ServerPacket, ServerLeft))

\* One turn of channel_send's loop.
ChannelSendChunk ==
  /\ pc = "send"
  /\ sent # request
  /\ ServerLeft # 0
  /\ Len(toServer) < WireCap
  /\ toServer' = Append(toServer, Wire(cliSent, "data", ChunkSize))
  /\ cliSent' = Account(cliSent, "data", ChunkSize)
  /\ serverUsed' = serverUsed + ChunkSize
  /\ sent' = sent + ChunkSize
  /\ UNCHANGED <<pc, pending, clientUsed, handle, toClient, cliRecv, srvSent, srvRecv,
                 ignored>>

\* The loop ends and the result goes back through the oneshot.
ChannelSendDone ==
  /\ pc = "send"
  /\ sent = request \/ ServerLeft = 0
  /\ pc' = "select"
  /\ app' = "ready"
  /\ accepted' = accepted + sent
  /\ UNCHANGED <<pending, sent, clientUsed, serverUsed, queue, alive, request, asked,
                 toClient, toServer, totals>>

-----------------------------------------------------------------------------
(* The application's task, which owns the Channel.                         *)

\* Channel::send: the caller waits for the oneshot.
AppSend(n) ==
  /\ alive
  /\ app = "ready"
  /\ asked + n <= MaxUp
  /\ app' = "queued"
  /\ request' = n
  /\ asked' = asked + n
  /\ UNCHANGED <<task, queue, alive, accepted, toClient, toServer, totals>>

\* Channel::receive / try_receive take &mut self: never during a send.
AppReceive ==
  /\ alive
  /\ app = "ready"
  /\ queue # <<>>
  /\ queue' = Tail(queue)
  /\ UNCHANGED <<task, alive, app, request, asked, accepted, toClient, toServer,
                 totals>>

\* The Channel is dropped, and its receiver with it.
AppDrop ==
  /\ alive
  /\ app = "ready"
  /\ alive' = FALSE
  /\ queue' = <<>>
  /\ UNCHANGED <<task, app, request, asked, accepted, toClient, toServer, totals>>

-----------------------------------------------------------------------------
(* The server (external): with ServerSlack = 0 it spends only credit it    *)
(* has been given.                                                         *)

\* What the server may still send.
ServerCredit == ClientWindow + srvRecv.adjust - srvSent.data

\* What the server has room for.
ServerRoom == ServerWindow + srvSent.adjust - srvRecv.data

ServerSendData(n) ==
  /\ n <= ServerPayload /\ n <= ServerCredit + ServerSlack
  /\ srvSent.data + n <= MaxDown
  /\ Len(toClient) < WireCap
  /\ toClient' = Append(toClient, Wire(srvSent, "data", n))
  /\ srvSent' = Account(srvSent, "data", n)
  /\ UNCHANGED <<task, handle, toServer, cliSent, cliRecv, srvRecv, ignored>>

ServerGrant(n) ==
  /\ srvSent.adjust + n <= MaxGrant
  /\ Len(toClient) < WireCap
  /\ toClient' = Append(toClient, Wire(srvSent, "adjust", n))
  /\ srvSent' = Account(srvSent, "adjust", n)
  /\ UNCHANGED <<task, handle, toServer, cliSent, cliRecv, srvRecv, ignored>>

ServerReceive ==
  /\ toServer # <<>>
  /\ srvRecv' = Head(toServer).total
  /\ toServer' = Tail(toServer)
  /\ UNCHANGED <<task, handle, toClient, cliSent, cliRecv, srvSent, ignored>>

-----------------------------------------------------------------------------

Backend == \/ HandleChannelData \/ HandleChannelWindowAdjust \/ Deliver
           \/ ChannelSend \/ ChannelSendChunk \/ ChannelSendDone

Next ==
  \/ Backend
  \/ \E n \in 1..MaxUp : AppSend(n)
  \/ AppReceive
  \/ AppDrop
  \/ \E n \in 0..MaxDown : ServerSendData(n)
  \/ \E n \in 1..MaxGrant : ServerGrant(n)
  \/ ServerReceive

Spec == Init /\ [][Next]_vars

\* The session task and the server's reader run whenever they can; the
\* application keeps receiving.  Nobody has to send.
Fairness == WF_vars(Backend) /\ WF_vars(AppReceive) /\ WF_vars(ServerReceive)

FairSpec == Spec /\ Fairness

-----------------------------------------------------------------------------
(* Properties.                                                             *)

\* The books, queues and requests of handle_channel_data and channel_send hold
\* values of their kinds: in particular no byte total ever goes below zero.
TypeOK ==
  /\ pc \in {"select", "deliver", "send", "failed"}
  /\ pending \in QueueMsg
  /\ sent \in Nat
  /\ clientUsed \in Int /\ serverUsed \in Int
  /\ queue \in Seq(QueueMsg)
  /\ alive \in BOOLEAN
  /\ app \in {"ready", "queued", "served"}
  /\ request \in Nat /\ asked \in Nat /\ accepted \in Nat
  /\ toClient \in Seq(WireMsg) /\ toServer \in Seq(WireMsg)
  /\ cliSent \in Total /\ cliRecv \in Total
  /\ srvSent \in Total /\ srvRecv \in Total
  /\ ignored \in Nat

\* Nothing is lost between the two sides' books.  What the client believes is
\* left of its own window is the server's credit plus the data still flying
\* towards the client plus the adjustments still flying towards the server
\* (plus what was thrown away as oversized); and the same in the other
\* direction.  handle_channel_data, channel_send and
\* handle_channel_window_adjust each update one side of one equation.
WindowConservation ==
  /\ pc # "failed" =>
       ClientLeft = ServerCredit + (srvSent.data - cliRecv.data)
                      + (cliSent.adjust - srvRecv.adjust) + ignored
  /\ ServerRoom = ServerLeft + (cliSent.data - srvRecv.data)
                    + (srvSent.adjust - cliRecv.adjust)

\* A server that keeps the rules is never accused of overflowing the window:
\* the session-ending ChannelWindowOverflow of handle_channel_data is
\* unreachable.
NoWindowOverflow == pc # "failed"

\* The assertion of ChannelEndpoint::left holds whenever it is evaluated.
LeftAssertion == ClientLeft >= 0 /\ ServerLeft >= 0

\* channel_send never sends a packet the server has no room for, nor one above
\* the server's maximum packet size, however grants and data cross.
ServerNeverOverrun ==
  \A i \in 1..Len(toServer) :
    toServer[i].type = "data" =>
      /\ toServer[i].total.data <= ServerWindow + cliRecv.adjust
      /\ toServer[i].size <= ServerPacket
      /\ toServer[i].size <= MaxPayload

\* What Channel::send reports as accepted is exactly what went on the wire,
\* and never more than was asked for.
AcceptedIsSent ==
  /\ cliSent.data = accepted + (IF pc = "send" THEN sent ELSE 0)
  /\ accepted <= asked

\* The credit window with what the server's slack adds to it.
DownWindow == INSTANCE CreditWindow WITH
  Window  <- ClientWindow + ServerSlack,   sent  <- srvSent.data,
  arrived <- cliRecv.data, granted <- cliSent.adjust, known <- srvRecv.adjust

\* The server-to-client direction implements the credit window: whatever a
\* server sends, handle_channel_data and channel_send return credit only for
\* bytes that have arrived, and nothing arrives that was not sent.
Implements == DownWindow!Spec

\* The application waits for a send() while its queue is full.
Stalled == app # "ready" /\ Len(queue) = QueueCap

\* As long as the application keeps receiving, a server that has used up its
\* credit gets new credit: handle_channel_data always replenishes in time.  One
\* that has overdrawn it may instead have ended the session, and one that exceeds
\* maximum_packet_size loses the credit for what is ignored.
CreditReturns ==
  (ServerCredit <= 0)
    ~> (ServerCredit > 0 \/ ~alive \/ Stalled \/ pc = "failed" \/ ignored > 0)

\* Channel::send returns, with a partial count if the window is exhausted,
\* unless the application has let the handle's queue fill up: then the session
\* task blocks in delivery, and only the caller could make room.
SendReturnsUnlessFull ==
  (app = "queued") ~> (app = "ready" \/ Stalled \/ pc = "failed")
=============================================================================
