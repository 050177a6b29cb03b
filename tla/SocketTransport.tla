-------------------------- MODULE SocketTransport --------------------------
(***************************************************************************)
(* A SocketTransport with the cipher of the PeerLink that feeds it         *)
(* (apps/runtime/src/proxy/Transport.ts, PeerLink.ts), and the Node socket *)
(* below it as far as the transport can tell: whether write() asked for a  *)
(* drain, whether that drain still has to come, and what it was given.     *)
(* One call of the transport is one operator.  A write is answered as Node *)
(* likes, so a call that writes has a set of results.                      *)
(*                                                                         *)
(* A frame counts one unit against MaxPending, whatever its length.        *)
(***************************************************************************)
EXTENDS Integers, Sequences

CONSTANTS
  Load,        \* what a frame can carry
  MaxPending   \* how many frames may wait before the peer is given up on

ASSUME PendingAssumption == MaxPending \in Nat

\* A frame, enciphered with the keystream from position pos on.
Frame == [pos : Nat, load : Load]

Link == [ciphered : Nat,             \* frames PeerLink has enciphered
         gateOpen : BOOLEAN, backpressured : BOOLEAN, closed : BOOLEAN,
         queue : Seq(Frame), pending : 0..MaxPending,
         destroyed : BOOLEAN,        \* the socket is gone
         owes : BOOLEAN,             \* Node has yet to emit 'drain'
         wire : Seq(Frame)]          \* the frames the socket was given

NewLink(startPaused) ==
  [ciphered |-> 0, gateOpen |-> ~startPaused, backpressured |-> FALSE,
   closed |-> FALSE, queue |-> << >>, pending |-> 0, destroyed |-> FALSE,
   owes |-> FALSE, wire |-> << >>]

\* Everything handed over and not discarded: on the wire, or waiting behind it.
Conveyed(L) == L.wire \o L.queue

\* get closed
Gone(L) == L.closed \/ L.destroyed

Closed(L) == IF L.closed THEN L
             ELSE [L EXCEPT !.closed = TRUE, !.queue = << >>, !.pending = 0, !.destroyed = TRUE]

\* Broken variant: nothing is too many.
BoundlessEnqueued(L, f) == [L EXCEPT !.queue = Append(@, f), !.pending = @ + 1]

\* #enqueue: the frame that is one too many closes the transport.
Enqueued(L, f) ==
  LET M == [L EXCEPT !.queue = Append(@, f), !.pending = @ + 1]
  IN  IF M.pending > MaxPending THEN Closed(M) ELSE M

\* socket.write of the frames fs, in order: more is whether Node wants more
\* after the last of them.  A drain once owed stays owed until it comes.
Wrote(L, fs, more) ==
  [L EXCEPT !.wire = @ \o fs, !.backpressured = ~more, !.owes = @ \/ ~more]

\* Broken variant: a closed gate drops what it holds back.
DroppingAccepted(L, f) ==
  IF Gone(L) \/ ~L.gateOpen THEN {L}
  ELSE IF L.backpressured \/ L.queue # << >> THEN {Enqueued(L, f)}
  ELSE {Wrote(L, <<f>>, more) : more \in BOOLEAN}

\* send of a frame already enciphered.
Accepted(L, f) ==
  IF Gone(L) THEN {L}
  ELSE IF ~L.gateOpen \/ L.backpressured \/ L.queue # << >> THEN {Enqueued(L, f)}
  ELSE {Wrote(L, <<f>>, more) : more \in BOOLEAN}

\* PeerLink.sendOwned: the cipher moves on whatever becomes of the frame.
Sent(L, x) ==
  Accepted([L EXCEPT !.ciphered = @ + 1], [pos |-> L.ciphered + 1, load |-> x])

\* Broken variants: the count is not lowered; the array is emptied although
\* the flush stopped short of its end.
UncountedFlushedTo(L, n, more) ==
  [L EXCEPT !.wire = @ \o SubSeq(L.queue, 1, n),
            !.queue = SubSeq(L.queue, n + 1, Len(L.queue)),
            !.backpressured = ~more,
            !.owes = @ \/ ~more]
EmptyingFlushedTo(L, n, more) ==
  [L EXCEPT !.wire = @ \o SubSeq(L.queue, 1, n),
            !.queue = << >>,
            !.pending = 0,
            !.backpressured = ~more,
            !.owes = @ \/ ~more]

\* The first n frames of the queue leave; Node asks for a pause at the last
\* of them, or the queue is empty.
FlushedTo(L, n, more) ==
  [L EXCEPT !.wire = @ \o SubSeq(L.queue, 1, n),
            !.queue = SubSeq(L.queue, n + 1, Len(L.queue)),
            !.pending = @ - n,
            !.backpressured = ~more,
            !.owes = @ \/ ~more]

\* Broken variant: a drain flushes a held link too.
UngatedFlushed(L) ==
  IF Gone(L) \/ L.queue = << >> THEN {[L EXCEPT !.backpressured = FALSE]}
  ELSE {FlushedTo(L, n, FALSE) : n \in 1..Len(L.queue)} \cup {FlushedTo(L, Len(L.queue), TRUE)}

\* #flush
Flushed(L) ==
  IF ~L.gateOpen \/ Gone(L) \/ L.queue = << >> THEN {[L EXCEPT !.backpressured = FALSE]}
  ELSE {FlushedTo(L, n, FALSE) : n \in 1..Len(L.queue)} \cup {FlushedTo(L, Len(L.queue), TRUE)}

Paused(L) == [L EXCEPT !.gateOpen = FALSE]

\* Broken variant: the next send or drain is left to move what waits.
UnflushedResumed(L) == {[L EXCEPT !.gateOpen = TRUE]}

Resumed(L) == IF L.gateOpen THEN {L} ELSE Flushed([L EXCEPT !.gateOpen = TRUE])

\* socket 'drain'
Drained(L) == Flushed([L EXCEPT !.owes = FALSE])

\* socket 'close'
Ended(L) == [L EXCEPT !.closed = TRUE, !.queue = << >>, !.pending = 0]
=============================================================================
