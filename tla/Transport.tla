----------------------------- MODULE Transport -----------------------------
(***************************************************************************)
(* One SocketTransport and its socket, driven as its owners drive it: they *)
(* send, hold and release at any moment; Node drains, and the socket may   *)
(* die under it at any moment.                                             *)
(***************************************************************************)
EXTENDS SocketTransport

CONSTANT MaxFrames   \* bound: frames enciphered in a behaviour

ASSUME FramesAssumption == MaxFrames \in Nat

VARIABLES
  link,
  accepted   \* history: what was handed over while the transport was open

vars == <<link, accepted>>

Init ==
  /\ \E startPaused \in BOOLEAN : link = NewLink(startPaused)
  /\ accepted = << >>

Send(x) ==
  /\ link.ciphered < MaxFrames
  /\ link' \in Sent(link, x)
  /\ accepted' = IF Gone(link) THEN accepted ELSE Append(accepted, x)

Pause ==
  /\ link' = Paused(link)
  /\ UNCHANGED accepted

Resume ==
  /\ link' \in Resumed(link)
  /\ UNCHANGED accepted

Close ==
  /\ link' = Closed(link)
  /\ UNCHANGED accepted

\* Node has let go of everything it was given and says so.
Drain ==
  /\ link.owes /\ ~link.destroyed
  /\ link' \in Drained(link)
  /\ UNCHANGED accepted

\* The peer goes away, or the connection fails: the socket is destroyed first,
\* and its 'close' event follows.
SocketDies ==
  /\ ~link.destroyed
  /\ link' = [link EXCEPT !.destroyed = TRUE]
  /\ UNCHANGED accepted

SocketClose ==
  /\ link.destroyed
  /\ link' = Ended(link)
  /\ UNCHANGED accepted

Next ==
  \/ \E x \in Load : Send(x)
  \/ Pause \/ Resume \/ Close
  \/ Drain \/ SocketDies \/ SocketClose

Spec == Init /\ [][Next]_vars

\* A peer that is still there takes what it was sent, sooner or later.  Nobody
\* is obliged to send, hold, release or close.
FairSpec == Spec /\ WF_vars(Drain)

-----------------------------------------------------------------------------
(* Properties.                                                             *)

TypeOK ==
  /\ link \in Link
  /\ accepted \in Seq(Load)

\* The n-th frame on the wire was enciphered with the n-th stretch of the
\* keystream: the peer, which deciphers in the order it reads, is in step.
InStep == \A n \in DOMAIN link.wire : link.wire[n].pos = n

\* Held, never dropped (Transport.ts:30): while the transport is open, what it
\* was handed is on the wire or waiting behind it, in the order of sending.
NeverDropped ==
  ~Gone(link) =>
    Conveyed(link) = [n \in 1..Len(accepted) |-> [pos |-> n, load |-> accepted[n]]]

\* What is counted as pending is what waits: the count neither leaks across a
\* hold and a flush nor forgets a frame, so the bound is on the real queue.
PendingTrue == link.pending = Len(link.queue)

\* No lost wakeup: whenever something waits with the gate open, a drain that
\* will flush it is still to come.
Armed == ~Gone(link) /\ link.gateOpen /\ link.queue # << >> => link.owes

\* The transport implements the channel its interface promises: nothing leaves
\* out of order, during a hold or after a cut, and what is free to leave does.
Channel == INSTANCE HeldChannel WITH
  accepted <- accepted,
  delivered <- [n \in DOMAIN link.wire |-> link.wire[n].load],
  held <- ~link.gateOpen,
  cut <- Gone(link)
IsChannel == Channel!FairSpec
=============================================================================
