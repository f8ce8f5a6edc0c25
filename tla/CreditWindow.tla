---------------------------- MODULE CreditWindow ----------------------------
(***************************************************************************)
(* What window-based flow control promises, for one direction of one SSH   *)
(* channel: the sender never has more bytes outstanding than the receiver  *)
(* has granted, nothing arrives that was not sent, and the receiver only   *)
(* grants back bytes that have arrived.  FlowControl implements this       *)
(* specification in the server-to-client direction.                        *)
(***************************************************************************)
EXTENDS Naturals

CONSTANT Window      \* the initial window the receiver announced

VARIABLES
  sent,      \* bytes the sender has put on the wire
  arrived,   \* bytes the receiver has accepted, or discarded as oversized
  granted,   \* bytes the receiver has given back by WINDOW_ADJUST
  known      \* the part of granted the sender has already been told

vars == <<sent, arrived, granted, known>>

Init == sent = 0 /\ arrived = 0 /\ granted = 0 /\ known = 0

\* The sender spends credit it knows about.
Send == /\ sent' \in Nat
        /\ sent' > sent
        /\ sent' <= Window + known
        /\ UNCHANGED <<arrived, granted, known>>

\* Bytes arrive, in order and once.
Arrive == /\ arrived' \in Nat
          /\ arrived' > arrived
          /\ arrived' <= sent
          /\ UNCHANGED <<sent, granted, known>>

\* The receiver returns credit for bytes that have arrived.
Grant == /\ granted' \in Nat
         /\ granted' > granted
         /\ granted' <= arrived
         /\ UNCHANGED <<sent, arrived, known>>

\* A WINDOW_ADJUST reaches the sender.
Learn == /\ known' \in Nat
         /\ known' > known
         /\ known' <= granted
         /\ UNCHANGED <<sent, arrived, granted>>

Next == Send \/ Arrive \/ Grant \/ Learn

Spec == Init /\ [][Next]_vars
=============================================================================
