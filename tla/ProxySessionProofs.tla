------------------------- MODULE ProxySessionProofs -------------------------
(***************************************************************************)
(* Proofs about one session, for any bound on what is heard, injected,     *)
(* held and left waiting: neither keystream is ever broken, both links end *)
(* together and the owner hears once, a hold and the end stop both wires,  *)
(* and the order on the wire is the order of the handlers.                 *)
(***************************************************************************)
EXTENDS ProxySession, SequenceTheorems, TLAPS

-----------------------------------------------------------------------------
(* What each call of a transport keeps, told by all it was handed.         *)

\* Every frame sits at its own place of the keystream, and while the link is
\* open none is missing.
Whole(L) ==
  /\ L \in Link /\ L.pending = Len(L.queue)
  /\ \A i \in DOMAIN Conveyed(L) : Conveyed(L)[i].pos = i
  /\ ~Gone(L) => Len(Conveyed(L)) = L.ciphered

\* A gate that is shut, or a link that is gone, puts nothing on the wire.
Held(L) == ~L.gateOpen \/ Gone(L)
Stays(L, M) ==
  /\ M.gateOpen = L.gateOpen
  /\ Gone(L) => Gone(M)
  /\ Held(L) => M.wire = L.wire

\* Two halves of what a link carries.
LEMMA Joined ==
  ASSUME NEW w \in Seq(Frame), NEW q \in Seq(Frame)
  PROVE  /\ w \o q \in Seq(Frame) /\ Len(w \o q) = Len(w) + Len(q)
         /\ \A i \in 1..Len(w) : i \in 1..Len(w \o q) /\ (w \o q)[i] = w[i]
         /\ w \o << >> = w
OBVIOUS

\* Where the halves meet may move.
LEMMA Parted ==
  ASSUME NEW w \in Seq(Frame), NEW q \in Seq(Frame), NEW n \in 1..Len(q)
  PROVE  LET w2 == w \o SubSeq(q, 1, n)
             q2 == SubSeq(q, n + 1, Len(q))
         IN  /\ w2 \in Seq(Frame) /\ q2 \in Seq(Frame) /\ Len(q2) = Len(q) - n
             /\ w2 \o q2 = w \o q
<1> DEFINE head == SubSeq(q, 1, n)
<1> DEFINE tail == SubSeq(q, n + 1, Len(q))
<1>1. head \in Seq(Frame) /\ tail \in Seq(Frame) /\ Len(tail) = Len(q) - n
  OBVIOUS
<1>2. head \o tail = SubSeq(q, 1, Len(q))
  <2>1. 1 \in 1..Len(q) + 1 /\ n \in 1 - 1..Len(q) /\ Len(q) \in n..Len(q)
    OBVIOUS
  <2> QED BY <2>1, ConcatAdjacentSubSeq
<1>3. head \o tail = q
  BY <1>2, SubSeqFull
<1> HIDE DEF head, tail
<1>4. (w \o head) \o tail = w \o (head \o tail)
  BY <1>1, ConcatAssociative
<1>5. w \o head \in Seq(Frame)
  BY <1>1
<1> QED BY <1>1, <1>3, <1>4, <1>5 DEF head, tail

LEMMA WholeParts ==
  ASSUME NEW L, Whole(L)
  PROVE  /\ L \in Link /\ L.wire \in Seq(Frame) /\ L.queue \in Seq(Frame)
         /\ Conveyed(L) \in Seq(Frame) /\ Len(Conveyed(L)) = Len(L.wire) + Len(L.queue)
         /\ L.pending = Len(L.queue) /\ L.pending \in 0..MaxPending
         /\ \A i \in 1..Len(Conveyed(L)) : Conveyed(L)[i].pos = i
         /\ \A i \in 1..Len(L.wire) : i \in 1..Len(Conveyed(L)) /\ L.wire[i] = Conveyed(L)[i]
<1>1. /\ L \in Link /\ L.wire \in Seq(Frame) /\ L.queue \in Seq(Frame)
      /\ L.pending = Len(L.queue) /\ L.pending \in 0..MaxPending
  BY DEF Whole, Link
<1>2. /\ Conveyed(L) \in Seq(Frame) /\ Len(Conveyed(L)) = Len(L.wire) + Len(L.queue)
      /\ \A i \in 1..Len(L.wire) : i \in 1..Len(Conveyed(L)) /\ L.wire[i] = Conveyed(L)[i]
  BY <1>1, Joined DEF Conveyed
<1>3. DOMAIN Conveyed(L) = 1..Len(Conveyed(L))
  BY <1>2
<1> QED BY <1>1, <1>2, <1>3 DEF Whole

\* A link that loses its queue, as both ends of a transport make it: what is
\* left is a beginning of what it carried.
LEMMA EmptiedWhole ==
  ASSUME NEW L, Whole(L), NEW M \in Link,
         M.wire = L.wire, M.queue = << >>, M.pending = 0, Gone(M)
  PROVE  Whole(M) /\ Conveyed(M) = L.wire
<1>1. /\ L.wire \in Seq(Frame) /\ Conveyed(L) \in Seq(Frame)
      /\ Len(Conveyed(L)) = Len(L.wire) + Len(L.queue) /\ L.queue \in Seq(Frame)
      /\ \A i \in 1..Len(Conveyed(L)) : Conveyed(L)[i].pos = i
      /\ \A i \in 1..Len(L.wire) : i \in 1..Len(Conveyed(L)) /\ L.wire[i] = Conveyed(L)[i]
  BY WholeParts
<1>2. Conveyed(M) = L.wire
  <2>1. << >> \in Seq(Frame)
    OBVIOUS
  <2> QED BY <1>1, <2>1, Joined DEF Conveyed
<1>3. \A i \in 1..Len(L.wire) : L.wire[i].pos = i
  <2> SUFFICES ASSUME NEW i \in 1..Len(L.wire) PROVE L.wire[i].pos = i
    OBVIOUS
  <2>1. i \in 1..Len(Conveyed(L)) /\ L.wire[i] = Conveyed(L)[i]
    BY <1>1
  <2>2. Conveyed(L)[i].pos = i
    BY <1>1, <2>1
  <2> QED BY <2>1, <2>2
<1>4. DOMAIN L.wire = 1..Len(L.wire) /\ Len(<< >>) = 0
  BY <1>1
<1> QED BY <1>2, <1>3, <1>4 DEF Whole

\* close and the socket's 'close' event.
LEMMA EndedWhole ==
  ASSUME NEW L, Whole(L), NEW M \in {Closed(L), Ended(L)}
  PROVE  Whole(M) /\ Gone(M) /\ M.closed /\ Stays(L, M) /\ Conveyed(M) \in {Conveyed(L), L.wire}
<1>0. L \in Link
  BY WholeParts
<1>1. CASE M = Closed(L) /\ L.closed
  <2>1. M = L
    BY <1>1 DEF Closed
  <2> QED BY <1>1, <2>1 DEF Stays, Gone
<1>2. CASE M = Ended(L) \/ ~L.closed
  <2>1. << >> \in Seq(Frame) /\ 0 \in 0..MaxPending
    BY PendingAssumption
  <2>2. /\ M \in Link /\ M.wire = L.wire /\ M.queue = << >> /\ M.pending = 0
        /\ M.closed /\ M.gateOpen = L.gateOpen
    <3>1. CASE M = Ended(L)
      BY <1>0, <2>1, <3>1 DEF Ended, Link
    <3>2. CASE M = Closed(L) /\ ~L.closed
      BY <1>0, <2>1, <3>2 DEF Closed, Link
    <3> QED BY <1>2, <3>1, <3>2
  <2>3. Gone(M)
    BY <2>2 DEF Gone
  <2>4. Whole(M) /\ Conveyed(M) = L.wire
    BY <2>2, <2>3, EmptiedWhole
  <2> QED BY <2>2, <2>3, <2>4 DEF Stays
<1> QED BY <1>1, <1>2

\* A flag that says nothing of frames.
LEMMA FlaggedWhole ==
  ASSUME NEW L, Whole(L), NEW M \in Link,
         M.wire = L.wire, M.queue = L.queue, M.pending = L.pending,
         M.ciphered = L.ciphered \/ Gone(M), Gone(L) => Gone(M)
  PROVE  Whole(M) /\ Conveyed(M) = Conveyed(L)
<1>1. Conveyed(M) = Conveyed(L)
  BY DEF Conveyed
<1> QED BY <1>1 DEF Whole

\* #flush moves frames from the queue to the wire, and that is all.
LEMMA FlushedWhole ==
  ASSUME NEW L, Whole(L), NEW M \in Flushed(L)
  PROVE  Whole(M) /\ Gone(M) = Gone(L) /\ Stays(L, M) /\ Conveyed(M) = Conveyed(L)
<1>0. /\ L \in Link /\ L.wire \in Seq(Frame) /\ L.queue \in Seq(Frame)
      /\ L.pending = Len(L.queue) /\ L.pending \in 0..MaxPending
  BY WholeParts
<1>1. CASE Held(L) \/ L.queue = << >>
  <2>1. M = [L EXCEPT !.backpressured = FALSE]
    BY <1>1 DEF Flushed, Held
  <2>2. /\ M \in Link /\ M.wire = L.wire /\ M.queue = L.queue /\ M.pending = L.pending
        /\ M.ciphered = L.ciphered /\ M.gateOpen = L.gateOpen
        /\ M.closed = L.closed /\ M.destroyed = L.destroyed
    BY <1>0, <2>1 DEF Link
  <2>3. Gone(M) = Gone(L)
    BY <2>2 DEF Gone
  <2>4. Whole(M) /\ Conveyed(M) = Conveyed(L)
    BY <2>2, <2>3, FlaggedWhole
  <2> QED BY <2>2, <2>3, <2>4 DEF Stays
<1>2. CASE ~Held(L) /\ L.queue # << >>
  <2>1. Len(L.queue) \in 1..Len(L.queue)
    BY <1>0, <1>2
  <2>2. PICK n \in 1..Len(L.queue), more \in BOOLEAN : M = FlushedTo(L, n, more)
    BY <1>2, <2>1 DEF Flushed, Held
  <2>3. /\ M.wire = L.wire \o SubSeq(L.queue, 1, n)
        /\ M.queue = SubSeq(L.queue, n + 1, Len(L.queue))
        /\ M.pending = L.pending - n /\ M.ciphered = L.ciphered /\ M.gateOpen = L.gateOpen
        /\ M.closed = L.closed /\ M.destroyed = L.destroyed
    BY <1>0, <2>2 DEF FlushedTo, Link
  <2> DEFINE w2 == L.wire \o SubSeq(L.queue, 1, n)
  <2> DEFINE q2 == SubSeq(L.queue, n + 1, Len(L.queue))
  <2>4. /\ w2 \in Seq(Frame) /\ q2 \in Seq(Frame) /\ Len(q2) = Len(L.queue) - n
        /\ w2 \o q2 = L.wire \o L.queue
    BY <1>0, Parted
  <2>5. /\ M.wire \in Seq(Frame) /\ M.queue \in Seq(Frame) /\ Len(M.queue) = Len(L.queue) - n
        /\ M.wire \o M.queue = L.wire \o L.queue
    BY <2>3, <2>4
  <2>6. Conveyed(M) = Conveyed(L)
    BY <2>5 DEF Conveyed
  <2>7. M.pending = Len(M.queue) /\ M.pending \in 0..MaxPending
    BY <1>0, <2>3, <2>5, PendingAssumption
  <2>8. M \in Link
    BY <1>0, <2>2, <2>5, <2>7 DEF FlushedTo, Link
  <2>9. Gone(M) = Gone(L)
    BY <2>3 DEF Gone
  <2>10. Whole(M)
    BY <2>3, <2>6, <2>7, <2>8, <2>9 DEF Whole
  <2> QED BY <1>2, <2>3, <2>6, <2>9, <2>10 DEF Stays
<1> QED BY <1>1, <1>2

\* Hold and release, a drain, and a socket that dies.
LEMMA PausedWhole ==
  ASSUME NEW L, Whole(L)
  PROVE  /\ Whole(Paused(L)) /\ Gone(Paused(L)) = Gone(L) /\ ~Paused(L).gateOpen
         /\ Paused(L).wire = L.wire /\ Conveyed(Paused(L)) = Conveyed(L)
<1> DEFINE M == Paused(L)
<1>1. L \in Link
  BY WholeParts
<1>2. /\ M \in Link /\ M.wire = L.wire /\ M.queue = L.queue /\ M.pending = L.pending
      /\ M.ciphered = L.ciphered /\ ~M.gateOpen
      /\ M.closed = L.closed /\ M.destroyed = L.destroyed
  BY <1>1 DEF Paused, Link
<1> HIDE DEF M
<1>3. Gone(M) = Gone(L)
  BY <1>2 DEF Gone
<1>4. Whole(M) /\ Conveyed(M) = Conveyed(L)
  BY <1>2, <1>3, FlaggedWhole
<1> QED BY <1>2, <1>3, <1>4 DEF M

LEMMA ResumedWhole ==
  ASSUME NEW L, Whole(L), NEW M \in Resumed(L)
  PROVE  /\ Whole(M) /\ Gone(M) = Gone(L) /\ Conveyed(M) = Conveyed(L)
         /\ Gone(L) => M.wire = L.wire
<1>1. CASE L.gateOpen
  BY <1>1 DEF Resumed
<1>2. CASE ~L.gateOpen
  <2> DEFINE O == [L EXCEPT !.gateOpen = TRUE]
  <2>1. L \in Link
    BY WholeParts
  <2>2. /\ O \in Link /\ O.wire = L.wire /\ O.queue = L.queue /\ O.pending = L.pending
        /\ O.ciphered = L.ciphered /\ O.closed = L.closed /\ O.destroyed = L.destroyed
    BY <2>1 DEF Link
  <2>3. M \in Flushed(O)
    BY <1>2 DEF Resumed
  <2> HIDE DEF O
  <2>4. Gone(O) = Gone(L)
    BY <2>2 DEF Gone
  <2>5. Whole(O) /\ Conveyed(O) = Conveyed(L)
    BY <2>2, <2>4, FlaggedWhole
  <2>6. Whole(M) /\ Gone(M) = Gone(O) /\ Stays(O, M) /\ Conveyed(M) = Conveyed(O)
    BY <2>3, <2>5, FlushedWhole
  <2> QED BY <2>2, <2>4, <2>5, <2>6 DEF Stays, Held
<1> QED BY <1>1, <1>2

LEMMA DrainedWhole ==
  ASSUME NEW L, Whole(L), NEW M \in Drained(L)
  PROVE  Whole(M) /\ Gone(M) = Gone(L) /\ Stays(L, M) /\ Conveyed(M) = Conveyed(L)
<1> DEFINE O == [L EXCEPT !.owes = FALSE]
<1>1. L \in Link
  BY WholeParts
<1>2. /\ O \in Link /\ O.wire = L.wire /\ O.queue = L.queue /\ O.pending = L.pending
      /\ O.ciphered = L.ciphered /\ O.gateOpen = L.gateOpen
      /\ O.closed = L.closed /\ O.destroyed = L.destroyed
  BY <1>1 DEF Link
<1>3. M \in Flushed(O)
  BY DEF Drained
<1> HIDE DEF O
<1>4. Gone(O) = Gone(L)
  BY <1>2 DEF Gone
<1>5. Whole(O) /\ Conveyed(O) = Conveyed(L)
  BY <1>2, <1>4, FlaggedWhole
<1>6. Whole(M) /\ Gone(M) = Gone(O) /\ Stays(O, M) /\ Conveyed(M) = Conveyed(O)
  BY <1>3, <1>5, FlushedWhole
<1> QED BY <1>2, <1>4, <1>5, <1>6 DEF Stays, Held

LEMMA DiedWhole ==
  ASSUME NEW L, Whole(L), NEW M, M = [L EXCEPT !.destroyed = TRUE]
  PROVE  Whole(M) /\ Gone(M) /\ Stays(L, M) /\ Conveyed(M) = Conveyed(L)
<1>1. L \in Link
  BY WholeParts
<1>2. /\ M \in Link /\ M.wire = L.wire /\ M.queue = L.queue /\ M.pending = L.pending
      /\ M.gateOpen = L.gateOpen /\ M.destroyed
  BY <1>1 DEF Link
<1>3. Gone(M)
  BY <1>2 DEF Gone
<1> QED BY <1>2, <1>3, FlaggedWhole DEF Stays

\* One more frame, at the end of the queue or on the wire when nothing waits.
LEMMA Lengthened ==
  ASSUME NEW w \in Seq(Frame), NEW q \in Seq(Frame), NEW f \in Frame
  PROVE  /\ Append(q, f) \in Seq(Frame) /\ Len(Append(q, f)) = Len(q) + 1
         /\ w \o Append(q, f) = Append(w \o q, f)
         /\ w \o <<f>> \in Seq(Frame) /\ (w \o <<f>>) \o << >> = Append(w \o << >>, f)
<1>1. Append(q, f) \in Seq(Frame) /\ Len(Append(q, f)) = Len(q) + 1
  OBVIOUS
<1>2. w \o q \in Seq(Frame) /\ w \o << >> \in Seq(Frame) /\ <<f>> \in Seq(Frame)
  OBVIOUS
<1>3. w \o (q \o <<f>>) = (w \o q) \o <<f>>
  BY <1>2, ConcatAssociative
<1>4. Append(q, f) = q \o <<f>> /\ Append(w \o q, f) = (w \o q) \o <<f>>
  BY <1>2, AppendIsConcat
<1>5. Append(w \o << >>, f) = (w \o << >>) \o <<f>> /\ w \o << >> = w
  BY <1>2, AppendIsConcat, ConcatEmptySeq
<1>6. w \o <<f>> \in Seq(Frame) /\ (w \o <<f>>) \o << >> = w \o <<f>>
  <2>1. w \o <<f>> \in Seq(Frame)
    BY <1>2
  <2> QED BY <2>1, ConcatEmptySeq
<1> QED BY <1>1, <1>3, <1>4, <1>5, <1>6

\* The next place of the keystream.
LEMMA NextPlace ==
  ASSUME NEW c \in Seq(Frame), \A i \in 1..Len(c) : c[i].pos = i,
         NEW f \in Frame, f.pos = Len(c) + 1
  PROVE  /\ Append(c, f) \in Seq(Frame) /\ Len(Append(c, f)) = Len(c) + 1
         /\ \A i \in DOMAIN Append(c, f) : Append(c, f)[i].pos = i
<1> DEFINE c2 == Append(c, f)
<1>1. /\ c2 \in Seq(Frame) /\ Len(c2) = Len(c) + 1 /\ c2[Len(c) + 1] = f
      /\ \A i \in 1..Len(c) : c2[i] = c[i]
  OBVIOUS
<1> HIDE DEF c2
<1>2. DOMAIN c2 = 1..Len(c) + 1
  BY <1>1
<1>3. ASSUME NEW i \in 1..Len(c) + 1 PROVE c2[i].pos = i
  <2>1. CASE i \in 1..Len(c)
    BY <1>1, <2>1
  <2>2. CASE i = Len(c) + 1
    BY <1>1, <2>2
  <2> QED BY <2>1, <2>2
<1> QED BY <1>1, <1>2, <1>3 DEF c2

\* PeerLink.sendOwned: the frame waits, leaves, is discarded, or is the one too
\* many.
SentFrame(L, x) == [pos |-> L.ciphered + 1, load |-> x]

LEMMA SentWhole ==
  ASSUME NEW L, Whole(L), NEW x \in Load, NEW M \in Sent(L, x)
  PROVE  /\ Whole(M) /\ Stays(L, M)
         /\ Conveyed(M) \in {Conveyed(L), L.wire, Append(Conveyed(L), SentFrame(L, x))}
<1> DEFINE f == SentFrame(L, x)
<1> DEFINE N == [L EXCEPT !.ciphered = @ + 1]
<1>1. /\ L \in Link /\ L.wire \in Seq(Frame) /\ L.queue \in Seq(Frame)
      /\ Conveyed(L) \in Seq(Frame) /\ L.pending = Len(L.queue) /\ L.pending \in 0..MaxPending
      /\ \A i \in 1..Len(Conveyed(L)) : Conveyed(L)[i].pos = i
  BY WholeParts
<1>2. /\ N \in Link /\ N.wire = L.wire /\ N.queue = L.queue /\ N.pending = L.pending
      /\ N.ciphered = L.ciphered + 1
  BY <1>1 DEF Link
<1>3. /\ N.gateOpen = L.gateOpen /\ N.backpressured = L.backpressured
      /\ N.owes = L.owes /\ N.closed = L.closed /\ N.destroyed = L.destroyed
  BY <1>1 DEF Link
<1>4. Gone(N) = Gone(L) /\ f \in Frame /\ f.pos = L.ciphered + 1
  BY <1>1, <1>3 DEF Gone, Frame, Link, SentFrame
<1>5. M \in Accepted(N, f)
  BY DEF Sent, SentFrame
<1> HIDE DEF N, f
<1>6. CASE Gone(L)
  <2>1. M = N
    BY <1>4, <1>5, <1>6 DEF Accepted
  <2> QED BY <1>2, <1>3, <1>4, <1>6, <2>1, FlaggedWhole DEF Stays
<1>7. CASE ~Gone(L)
  <2>1. Len(Conveyed(L)) = L.ciphered
    BY <1>7 DEF Whole
  <2> DEFINE c2 == Append(Conveyed(L), f)
  <2>2. c2 \in Seq(Frame) /\ Len(c2) = L.ciphered + 1 /\ \A i \in DOMAIN c2 : c2[i].pos = i
    BY <1>1, <1>4, <2>1, NextPlace
  <2> HIDE DEF c2
  <2>3. CASE ~N.gateOpen \/ N.backpressured \/ N.queue # << >>
    <3> DEFINE E == [N EXCEPT !.queue = Append(@, f), !.pending = @ + 1]
    <3>1. M = Enqueued(N, f)
      BY <1>4, <1>5, <1>7, <2>3 DEF Accepted
    <3>2. /\ E.queue = Append(L.queue, f) /\ E.pending = L.pending + 1
          /\ E.wire = L.wire /\ E.ciphered = L.ciphered + 1
      BY <1>2 DEF Link
    <3>3. /\ E.gateOpen = L.gateOpen /\ E.closed = L.closed /\ E.destroyed = L.destroyed
      BY <1>2, <1>3 DEF Link
    <3>4. M = IF E.pending > MaxPending THEN Closed(E) ELSE E
      BY <3>1 DEF Enqueued
    <3>5. CASE E.pending > MaxPending
      <4>1. M = [E EXCEPT !.closed = TRUE, !.queue = << >>, !.pending = 0, !.destroyed = TRUE]
        BY <1>7, <3>3, <3>4, <3>5 DEF Closed, Gone
      <4>2. 0 \in 0..MaxPending /\ << >> \in Seq(Frame)
        BY PendingAssumption
      <4>3. /\ M \in Link /\ M.wire = L.wire /\ M.queue = << >> /\ M.pending = 0
            /\ M.gateOpen = L.gateOpen /\ M.closed
        BY <1>2, <1>3, <4>1, <4>2 DEF Link
      <4>4. Gone(M)
        BY <4>3 DEF Gone
      <4> QED BY <4>3, <4>4, EmptiedWhole DEF Stays
    <3>6. CASE ~(E.pending > MaxPending)
      <4>1. M = E
        BY <3>4, <3>6
      <4>2. L.pending + 1 \in 0..MaxPending
        BY <1>1, <3>2, <3>6, PendingAssumption
      <4>3. /\ Append(L.queue, f) \in Seq(Frame) /\ Len(Append(L.queue, f)) = Len(L.queue) + 1
            /\ L.wire \o Append(L.queue, f) = Append(L.wire \o L.queue, f)
        BY <1>1, <1>4, Lengthened
      <4>4. M \in Link
        BY <1>2, <4>1, <4>2, <4>3 DEF Link
      <4>5. Conveyed(M) = c2
        BY <3>2, <4>1, <4>3 DEF Conveyed, c2
      <4>6. Gone(M) = Gone(L)
        BY <3>3, <4>1 DEF Gone
      <4>7. M.pending = Len(M.queue)
        BY <1>1, <3>2, <4>1, <4>3
      <4>8. Whole(M)
        BY <2>2, <3>2, <4>1, <4>4, <4>5, <4>7 DEF Whole
      <4> QED BY <3>2, <3>3, <4>1, <4>5, <4>6, <4>8 DEF Stays, c2, f
    <3> QED BY <3>5, <3>6
  <2>4. CASE N.gateOpen /\ ~N.backpressured /\ N.queue = << >>
    <3>1. PICK more \in BOOLEAN : M = Wrote(N, <<f>>, more)
      BY <1>4, <1>5, <1>7, <2>4 DEF Accepted
    <3>2. /\ M.wire = L.wire \o <<f>> /\ M.queue = << >> /\ M.pending = L.pending
          /\ M.ciphered = L.ciphered + 1
      BY <1>2, <2>4, <3>1 DEF Wrote, Link
    <3>3. /\ M.gateOpen = L.gateOpen /\ M.closed = L.closed /\ M.destroyed = L.destroyed
      BY <1>2, <1>3, <3>1 DEF Wrote, Link
    <3>4. L.queue = << >>
      BY <1>2, <2>4
    <3>5. /\ L.wire \o <<f>> \in Seq(Frame)
          /\ (L.wire \o <<f>>) \o << >> = Append(L.wire \o << >>, f)
      BY <1>1, <1>4, Lengthened
    <3>6. M \in Link
      BY <1>2, <3>1, <3>2, <3>5 DEF Wrote, Link
    <3>7. Conveyed(M) = c2
      BY <3>2, <3>4, <3>5 DEF Conveyed, c2
    <3>8. Gone(M) = Gone(L) /\ ~Held(L)
      BY <1>3, <1>7, <2>4, <3>3 DEF Gone, Held
    <3>9. Whole(M)
      BY <1>1, <2>2, <3>2, <3>4, <3>6, <3>7 DEF Whole
    <3> QED BY <3>3, <3>7, <3>8, <3>9 DEF Stays, c2, f
  <2> QED BY <2>3, <2>4
<1> QED BY <1>6, <1>7

-----------------------------------------------------------------------------
(* The order towards one side.  Towards the server everything counts,      *)
(* towards the client what the server said.                                *)

Counts(d, x) == d = "server" \/ x.from = "server"

\* What counts is in order, and none of it is beyond k.
Sorted(d, c, k) ==
  /\ \A i \in DOMAIN c : c[i].load \in Carriable /\ (Counts(d, c[i].load) => Step(c[i].load) <= k)
  /\ \A i, j \in DOMAIN c :
       i < j /\ Counts(d, c[i].load) /\ Counts(d, c[j].load) /\ c[j].load.from # "stage" =>
         Step(c[i].load) <= Step(c[j].load)

\* x may follow what is not beyond k, and is not beyond k2.
Fits(d, x, k, k2) ==
  /\ x \in Carriable /\ k <= k2
  /\ Counts(d, x) => Step(x) <= k2 /\ (x.from = "stage" \/ k <= Step(x))

LEMMA StepIsNat == \A x \in Carriable : Step(x) \in Int
BY SessionAssumption DEF Carriable, Step

LEMMA SortedShorter ==
  ASSUME NEW d, NEW c \in Seq(Frame), NEW w \in Seq(Frame), NEW k, Sorted(d, c, k),
         \A i \in 1..Len(w) : i \in 1..Len(c) /\ w[i] = c[i]
  PROVE  Sorted(d, w, k)
<1>1. DOMAIN w = 1..Len(w) /\ DOMAIN c = 1..Len(c)
  OBVIOUS
<1> QED BY <1>1 DEF Sorted

LEMMA SortedWider ==
  ASSUME NEW d, NEW c \in Seq(Frame), NEW k \in Int, NEW k2 \in Int, k <= k2, Sorted(d, c, k)
  PROVE  Sorted(d, c, k2)
<1>1. ASSUME NEW i \in DOMAIN c, Counts(d, c[i].load) PROVE Step(c[i].load) <= k2
  <2>1. Step(c[i].load) \in Int /\ Step(c[i].load) <= k
    BY <1>1, StepIsNat DEF Sorted
  <2> QED BY <2>1
<1> QED BY <1>1 DEF Sorted

LEMMA SortedLonger ==
  ASSUME NEW d, NEW c \in Seq(Frame), NEW f \in Frame, NEW k \in Int, NEW k2 \in Int,
         Sorted(d, c, k), Fits(d, f.load, k, k2)
  PROVE  Sorted(d, Append(c, f), k2)
<1> DEFINE c2 == Append(c, f)
<1>1. /\ c2 \in Seq(Frame) /\ Len(c2) = Len(c) + 1 /\ c2[Len(c) + 1] = f
      /\ \A i \in 1..Len(c) : c2[i] = c[i]
  OBVIOUS
<1> HIDE DEF c2
<1>2. DOMAIN c2 = 1..Len(c) + 1 /\ DOMAIN c = 1..Len(c) /\ Len(c) \in Nat
  BY <1>1
<1>3. Sorted(d, c, k2)
  BY SortedWider DEF Fits
<1>4. ASSUME NEW i \in DOMAIN c2
      PROVE  c2[i].load \in Carriable /\ (Counts(d, c2[i].load) => Step(c2[i].load) <= k2)
  <2>1. CASE i \in DOMAIN c
    BY <1>1, <1>2, <1>3, <2>1 DEF Sorted
  <2>2. CASE i = Len(c) + 1
    BY <1>1, <2>2 DEF Fits
  <2> QED BY <1>2, <2>1, <2>2
<1>5. ASSUME NEW i \in DOMAIN c2, NEW j \in DOMAIN c2, i < j,
             Counts(d, c2[i].load), Counts(d, c2[j].load), c2[j].load.from # "stage"
      PROVE  Step(c2[i].load) <= Step(c2[j].load)
  <2>1. i \in DOMAIN c /\ c2[i] = c[i]
    BY <1>1, <1>2, <1>5
  <2>2. CASE j \in DOMAIN c
    BY <1>1, <1>2, <1>5, <2>1, <2>2 DEF Sorted
  <2>3. CASE j = Len(c) + 1
    <3>1. c2[j] = f /\ k <= Step(f.load) /\ f.load \in Carriable
      BY <1>1, <1>5, <2>3 DEF Fits
    <3>2. Step(c[i].load) <= k /\ c[i].load \in Carriable
      BY <1>5, <2>1 DEF Sorted
    <3>3. Step(c[i].load) \in Int /\ Step(f.load) \in Int
      BY <3>1, <3>2, StepIsNat
    <3> QED BY <2>1, <3>1, <3>2, <3>3
  <2> QED BY <1>2, <2>2, <2>3
<1> QED BY <1>4, <1>5 DEF Sorted, c2

-----------------------------------------------------------------------------
(* A session as one value.                                                 *)

\* K bounds what counts towards each side.
Fine(S, K) ==
  /\ S \in State
  /\ \A d \in Side : Whole(S.link[d]) /\ Sorted(d, Conveyed(S.link[d]), K[d])
  /\ ~S.opened => S.link["server"] = NewLink(TRUE)
  /\ IF S.closed THEN S.told = 1 /\ \A d \in Side : (d = "server" => S.opened) => Gone(S.link[d])
     ELSE S.told = 0

Steady(S, T) ==
  /\ T.opened = S.opened
  /\ \A d \in Side : Stays(S.link[d], T.link[d])

LEMMA SteadyTwice ==
  ASSUME NEW S, NEW T, NEW U, Steady(S, T), Steady(T, U)
  PROVE  Steady(S, U)
BY DEF Steady, Stays, Held

LEMMA SteadySame == \A S : Steady(S, S)
BY DEF Steady, Stays

\* close(reason)
LEMMA ShutFine ==
  ASSUME NEW S, NEW K, Fine(S, K), NEW reason \in Why, NEW T, T = Shut(S, reason)
  PROVE  Fine(T, K) /\ Steady(S, T) /\ T.closed
<1>1. CASE S.closed
  BY <1>1, SteadySame DEF Shut
<1>2. CASE ~S.closed
  <2> DEFINE Left(d) == IF d = "server" /\ ~S.opened THEN S.link[d] ELSE Closed(S.link[d])
  <2>1. ASSUME NEW d \in Side
        PROVE  /\ Whole(Left(d)) /\ Stays(S.link[d], Left(d)) /\ Left(d) \in Link
               /\ Sorted(d, Conveyed(Left(d)), K[d])
               /\ (d = "server" => S.opened) => Gone(Left(d))
    <3> DEFINE L == S.link[d]
    <3>1. Whole(L) /\ Sorted(d, Conveyed(L), K[d])
      BY DEF Fine
    <3>2. CASE d = "server" /\ ~S.opened
      BY <3>1, <3>2 DEF Stays, Whole
    <3>3. CASE ~(d = "server" /\ ~S.opened)
      <4>1. /\ Whole(Left(d)) /\ Gone(Left(d)) /\ Stays(L, Left(d))
            /\ Conveyed(Left(d)) \in {Conveyed(L), L.wire}
        BY <3>1, <3>3, EndedWhole
      <4>2. Sorted(d, L.wire, K[d])
        BY <3>1, WholeParts, SortedShorter
      <4> QED BY <3>1, <4>1, <4>2 DEF Whole
    <3> QED BY <3>2, <3>3
  <2>2. S \in State /\ S.told = 0 /\ (~S.opened => S.link["server"] = NewLink(TRUE))
    BY <1>2 DEF Fine
  <2> DEFINE links == [d \in Side |-> Left(d)]
  <2>3. T = [S EXCEPT !.closed = TRUE, !.told = @ + 1, !.why = reason, !.link = links]
    BY <1>2 DEF Shut
  <2>4. \A d \in Side : Left(d) \in Link
    BY <2>1
  <2>5. ~S.opened => Left("server") = S.link["server"]
    OBVIOUS
  <2> HIDE DEF Left
  <2>6. T \in State /\ T.closed /\ T.told = 1 /\ T.opened = S.opened /\ \A d \in Side : T.link[d] = Left(d)
    <3>1. links \in [Side -> Link] /\ \A d \in Side : links[d] = Left(d)
      BY <2>4
    <3> HIDE DEF links
    <3>2. T.closed /\ T.told = 1 /\ T.opened = S.opened /\ T.link = links /\ T.why = reason
      BY <2>2, <2>3 DEF State
    <3>3. S.told + 1 = 1 /\ 1 \in Nat /\ reason \in Why /\ TRUE \in BOOLEAN
      BY <2>2
    <3>4. T \in State
      <4>1. T = [S EXCEPT !.closed = TRUE, !.told = 1, !.why = reason, !.link = links]
        BY <2>3, <3>3
      <4> QED BY <2>2, <3>1, <3>3, <4>1 DEF State
    <3> QED BY <3>1, <3>2, <3>4
  <2>7. "server" \in Side
    BY DEF Side
  <2>8. Fine(T, K)
    BY <2>1, <2>2, <2>5, <2>6, <2>7 DEF Fine
  <2> QED BY <2>1, <2>6, <2>8 DEF Steady
<1> QED BY <1>1, <1>2

\* Nothing, or one frame towards side d.
LEMMA PutFine ==
  ASSUME NEW S, NEW K \in [Side -> Nat], Fine(S, K),
         NEW d \in Side, d = "client" \/ S.opened, NEW x, NEW k \in Nat, Fits(d, x, K[d], k),
         NEW T \in Put(S, d, x), NEW K2, K2 = [K EXCEPT ![d] = k]
  PROVE  Fine(T, K2) /\ Steady(S, T)
<1> DEFINE L == S.link[d]
<1>1. PICK M \in Sent(L, x) :
        T = IF M.closed /\ ~L.closed THEN Shut([S EXCEPT !.link[d] = M], "overflow")
            ELSE [S EXCEPT !.link[d] = M]
  BY DEF Put
<1> DEFINE Q == [S EXCEPT !.link[d] = M]
<1>2. Whole(L) /\ Sorted(d, Conveyed(L), K[d]) /\ S \in State /\ x \in Load /\ K[d] \in Nat
  BY SessionAssumption DEF Fine, Fits
<1>3. /\ Whole(M) /\ Stays(L, M)
      /\ Conveyed(M) \in {Conveyed(L), L.wire, Append(Conveyed(L), SentFrame(L, x))}
  BY <1>2, SentWhole
<1>4. Sorted(d, Conveyed(M), k)
  <2>1. /\ Conveyed(L) \in Seq(Frame) /\ L.wire \in Seq(Frame)
        /\ \A i \in 1..Len(L.wire) : i \in 1..Len(Conveyed(L)) /\ L.wire[i] = Conveyed(L)[i]
    BY <1>2, WholeParts
  <2>2. K[d] <= k /\ K[d] \in Int /\ k \in Int
    BY <1>2 DEF Fits
  <2>3. Sorted(d, Conveyed(L), k)
    BY <1>2, <2>1, <2>2, SortedWider
  <2>4. Sorted(d, L.wire, k)
    BY <2>1, <2>3, SortedShorter
  <2>5. SentFrame(L, x) \in Frame /\ SentFrame(L, x).load = x
    BY <1>2 DEF SentFrame, Frame, Whole, Link
  <2>6. Sorted(d, Append(Conveyed(L), SentFrame(L, x)), k)
    BY <1>2, <2>1, <2>2, <2>5, SortedLonger
  <2> QED BY <1>3, <2>3, <2>4, <2>6
<1>5. /\ Q \in State /\ Q.link[d] = M /\ \A e \in Side \ {d} : Q.link[e] = S.link[e]
      /\ Q.opened = S.opened /\ Q.closed = S.closed /\ Q.told = S.told
  <2>1. M \in Link
    BY <1>3 DEF Whole
  <2> QED BY <1>2, <2>1 DEF State
<1>6. K2[d] = k /\ \A e \in Side \ {d} : K2[e] = K[e]
  OBVIOUS
<1> HIDE DEF Q
<1>7. Fine(Q, K2)
  <2>1. \A e \in Side : Whole(Q.link[e]) /\ Sorted(e, Conveyed(Q.link[e]), K2[e])
    BY <1>3, <1>4, <1>5, <1>6 DEF Fine
  <2>2. ~Q.opened => Q.link["server"] = NewLink(TRUE)
    BY <1>5 DEF Fine, Side
  <2>3. Gone(L) => Gone(M)
    BY <1>3 DEF Stays
  <2>4. IF Q.closed THEN Q.told = 1 /\ \A e \in Side : (e = "server" => Q.opened) => Gone(Q.link[e])
        ELSE Q.told = 0
    BY <1>5, <2>3 DEF Fine
  <2> QED BY <1>5, <2>1, <2>2, <2>4 DEF Fine
<1>8. Steady(S, Q)
  BY <1>3, <1>5 DEF Steady, Stays
<1>9. CASE T = Q
  BY <1>7, <1>8, <1>9
<1>10. CASE T = Shut(Q, "overflow")
  <2>1. "overflow" \in Why
    BY DEF Why
  <2>2. Fine(T, K2) /\ Steady(Q, T)
    BY <1>7, <1>10, <2>1, ShutFine
  <2> QED BY <1>8, <2>2, SteadyTwice
<1> QED BY <1>1, <1>9, <1>10 DEF Q

LEMMA FineWider ==
  ASSUME NEW S, NEW K \in [Side -> Nat], NEW K2 \in [Side -> Nat],
         \A d \in Side : K[d] <= K2[d], Fine(S, K)
  PROVE  Fine(S, K2)
<1>1. ASSUME NEW d \in Side PROVE Sorted(d, Conveyed(S.link[d]), K2[d])
  <2>1. Whole(S.link[d]) /\ Sorted(d, Conveyed(S.link[d]), K[d])
    BY DEF Fine
  <2>2. Conveyed(S.link[d]) \in Seq(Frame)
    BY <2>1, WholeParts
  <2>3. K[d] \in Int /\ K2[d] \in Int /\ K[d] <= K2[d]
    OBVIOUS
  <2> QED BY <2>1, <2>2, <2>3, SortedWider
<1> QED BY <1>1 DEF Fine

\* #inject
LEMMA InjectFine ==
  ASSUME NEW S, NEW K \in [Side -> Nat], NEW K2 \in [Side -> Nat],
         \A e \in Side : K[e] <= K2[e], Fine(S, K),
         NEW d \in Side, NEW x, Fits(d, x, K[d], K2[d]), NEW T \in Inject(S, d, x) \cup {S}
  PROVE  Fine(T, K2) /\ Steady(S, T)
<1>1. CASE T = S
  BY <1>1, FineWider, SteadySame
<1>2. CASE T \in Put(S, d, x) /\ (d = "client" \/ S.opened)
  <2> DEFINE K1 == [K EXCEPT ![d] = K2[d]]
  <2>1. K1 \in [Side -> Nat] /\ \A e \in Side : K1[e] <= K2[e]
    OBVIOUS
  <2>2. K2[d] \in Nat
    OBVIOUS
  <2>3. Fine(T, K1) /\ Steady(S, T)
    BY <1>2, <2>2, PutFine
  <2> HIDE DEF K1
  <2> QED BY <2>1, <2>3, FineWider
<1>3. T = S \/ (T \in Put(S, d, x) /\ (d = "client" \/ S.opened))
  BY DEF Inject, Side
<1> QED BY <1>1, <1>2, <1>3

\* #forward
LEMMA ForwardedFine ==
  ASSUME NEW S, NEW K \in [Side -> Nat], NEW K2 \in [Side -> Nat],
         \A e \in Side : K[e] <= K2[e], Fine(S, K),
         NEW d \in Side, d = "client" \/ S.opened, NEW x, Fits(d, x, K[d], K2[d]),
         NEW verdict \in Verdict, NEW T \in Forwarded(S, d, x, verdict)
  PROVE  Fine(T, K2) /\ Steady(S, T)
<1>1. Fine(S, K2)
  BY FineWider
<1>2. CASE verdict = "drop"
  BY <1>1, <1>2, SteadySame DEF Forwarded
<1>3. CASE verdict = "unencodable"
  <2>1. T = Shut(S, "encoder") /\ "encoder" \in Why
    BY <1>3 DEF Forwarded, Why
  <2> QED BY <1>1, <2>1, ShutFine
<1>4. CASE verdict = "forward"
  <2> DEFINE K1 == [K EXCEPT ![d] = K2[d]]
  <2>1. K1 \in [Side -> Nat] /\ \A e \in Side : K1[e] <= K2[e]
    OBVIOUS
  <2>2. T \in Put(S, d, x) /\ K2[d] \in Nat
    BY <1>4 DEF Forwarded
  <2>3. Fine(T, K1) /\ Steady(S, T)
    BY <2>2, PutFine
  <2> HIDE DEF K1
  <2> QED BY <2>1, <2>3, FineWider
<1> QED BY <1>2, <1>3, <1>4 DEF Verdict

\* What the stages and the outbound queue send around the client's n-th packet,
\* and the packet itself, each in its place.
LEMMA Places ==
  ASSUME NEW n \in 0..MaxHeard
  PROVE  /\ \A who \in {"client", "server", "stage", "behind"} : Carried(who, n) \in Carriable
         /\ Step(Carried("stage", n)) = 3 * n - 2 /\ Step(Carried("client", n)) = 3 * n - 1
         /\ Step(Carried("behind", n)) = 3 * n /\ Step(Carried("server", n)) = n
BY SessionAssumption DEF Carriable, Carried, Step

LEMMA StagedFine ==
  ASSUME NEW S, NEW K \in [Side -> Nat], NEW K2 \in [Side -> Nat],
         \A e \in Side : K[e] <= K2[e], Fine(S, K),
         NEW n \in 0..MaxHeard, 3 * n - 2 <= K2["server"], NEW T \in Staged(S, n)
  PROVE  Fine(T, K2) /\ Steady(S, T)
<1>1. PICK d \in Side : T \in Inject(S, d, Carried("stage", n)) \cup {S}
  BY DEF Staged, Side
<1>2. Fits(d, Carried("stage", n), K[d], K2[d])
  <2>1. Carried("stage", n) \in Carriable /\ Step(Carried("stage", n)) = 3 * n - 2
    BY Places
  <2>2. Carried("stage", n).from = "stage" /\ K[d] <= K2[d]
    BY DEF Carried
  <2> QED BY <2>1, <2>2 DEF Fits, Counts, Side
<1> QED BY <1>1, <1>2, InjectFine

\* #handleFrame of the client's n-th.
LEMMA HandledFine ==
  ASSUME NEW S, NEW K \in [Side -> Nat], Fine(S, K), S.opened,
         NEW n \in 1..MaxHeard, K["server"] <= 3 * n - 3, NEW verdict \in Verdict,
         NEW T \in Handled(S, n, verdict), NEW K2, K2 = [K EXCEPT !["server"] = 3 * n]
  PROVE  Fine(T, K2) /\ Steady(S, T)
<1> DEFINE K0 == [K EXCEPT !["server"] = 3 * n - 2]
<1> DEFINE K1 == [K EXCEPT !["server"] = 3 * n - 1]
<1>0. /\ {"server", "client"} = Side /\ n \in 0..MaxHeard /\ n \in Nat /\ n >= 1
      /\ K["server"] \in Nat /\ K["client"] \in Nat
  BY SessionAssumption DEF Side
<1>1. /\ K0 \in [Side -> Nat] /\ K0["server"] = 3 * n - 2
      /\ K1 \in [Side -> Nat] /\ K1["server"] = 3 * n - 1
      /\ K2 \in [Side -> Nat] /\ K2["server"] = 3 * n
  BY <1>0
<1>2. \A e \in Side : K[e] <= K0[e] /\ K0[e] <= K1[e] /\ K1[e] <= K2[e]
  BY <1>0
<1> HIDE DEF K0, K1
<1>3. PICK P \in Staged(S, n) :
        \E Q \in Forwarded(P, "server", Carried("client", n), verdict) :
          T \in IF verdict = "unencodable" THEN {Q} ELSE Passed(Q, n)
  BY DEF Handled
<1>4. PICK Q \in Forwarded(P, "server", Carried("client", n), verdict) :
          T \in IF verdict = "unencodable" THEN {Q} ELSE Passed(Q, n)
  BY <1>3
<1>5. Fine(P, K0) /\ Steady(S, P)
  <2>1. 3 * n - 2 <= K0["server"]
    BY <1>0, <1>1
  <2> QED BY <1>0, <1>1, <1>2, <2>1, StagedFine
<1>6. Fine(Q, K1) /\ Steady(P, Q)
  <2>1. P.opened /\ "server" \in Side
    BY <1>0, <1>5 DEF Steady
  <2>2. Fits("server", Carried("client", n), K0["server"], K1["server"])
    BY <1>0, <1>1, Places DEF Fits
  <2> QED BY <1>1, <1>2, <1>4, <1>5, <2>1, <2>2, ForwardedFine
<1>7. Fine(T, K2) /\ Steady(Q, T)
  <2>1. Fits("server", Carried("behind", n), K1["server"], K2["server"])
    BY <1>0, <1>1, Places DEF Fits
  <2>2. T \in Inject(Q, "server", Carried("behind", n)) \cup {Q} /\ "server" \in Side
    BY <1>0, <1>4 DEF Passed
  <2> QED BY <1>1, <1>2, <1>6, <2>1, <2>2, InjectFine
<1> QED BY <1>5, <1>6, <1>7, SteadyTwice

-----------------------------------------------------------------------------
(* The inductive invariant.  What counts towards the server is bounded by  *)
(* the last packet of the client, which bounds what is sent behind it; a   *)
(* hold is whole only once the connect listener has nothing left to open.  *)

Bounds == [d \in Side |-> IF d = "server" THEN 3 * heard["client"] ELSE heard["server"]]

IInv ==
  /\ Fine(Now, Bounds)
  /\ connected \in BOOLEAN /\ (connected => opened)
  /\ heard \in [Side -> 0..MaxHeard]
  /\ injected \in 0..MaxInjected /\ holds \in 0..MaxHolds
  /\ hold \in {"none", "early", "whole"}
  /\ hold = "whole" => connected /\ \A d \in Side : ~link[d].gateOpen

\* What a step may not do to a wire.
Quiet == closed \/ (hold = "whole" /\ hold' = "whole") => Still

LEMMA InitFine == Init => IInv
<1> SUFFICES ASSUME Init PROVE IInv
  OBVIOUS
<1>1. ASSUME NEW p \in BOOLEAN
      PROVE  Whole(NewLink(p)) /\ Conveyed(NewLink(p)) = << >> /\ ~Gone(NewLink(p))
  <2>1. << >> \in Seq(Frame) /\ Len(<< >>) = 0 /\ << >> \o << >> = << >> /\ 0 \in 0..MaxPending
    BY PendingAssumption
  <2>2. NewLink(p) \in Link
    BY <2>1 DEF NewLink, Link
  <2>3. NewLink(p).wire = << >> /\ NewLink(p).queue = << >> /\ NewLink(p).pending = 0 /\ NewLink(p).ciphered = 0
    BY DEF NewLink
  <2>4. ~Gone(NewLink(p))
    BY DEF NewLink, Gone
  <2> QED BY <2>1, <2>2, <2>3, <2>4 DEF Whole, Conveyed
<1>2. \A d \in Side : Now.link[d] = NewLink(d = "server") /\ (d = "server") \in BOOLEAN
  BY DEF Init, Now
<1>3. \A d \in Side : \A k : Sorted(d, << >>, k)
  BY DEF Sorted
<1>4. /\ Now.opened = FALSE /\ Now.closed = FALSE /\ Now.told = 0
      /\ Now.link["server"] = NewLink(TRUE)
  BY <1>2 DEF Init, Now, Side
<1>5. Now \in State
  <2>1. link = [d \in Side |-> NewLink(d = "server")]
    BY DEF Init
  <2>2. \A d \in Side : NewLink(d = "server") \in Link
    BY <1>1, <1>2 DEF Whole
  <2>3. link \in [Side -> Link]
    BY <2>1, <2>2
  <2>4. "live" \in Why
    BY DEF Why
  <2> QED BY <2>3, <2>4 DEF Init, Now, State
<1>6. Fine(Now, Bounds)
  BY <1>1, <1>2, <1>3, <1>4, <1>5 DEF Fine
<1>7. 0 \in 0..MaxHeard /\ 0 \in 0..MaxInjected /\ 0 \in 0..MaxHolds
  BY SessionAssumption
<1> QED BY <1>6, <1>7 DEF IInv, Init

\* Whatever is shut or gone for the session is so for its links.
LEMMA HeldThen ==
  ASSUME IInv, closed \/ hold = "whole"
  PROVE  \A d \in Side : Held(link[d])
<1> SUFFICES ASSUME NEW d \in Side PROVE Held(link[d])
  OBVIOUS
<1>1. CASE hold = "whole"
  BY <1>1 DEF IInv, Held
<1>2. CASE closed /\ (d = "server" => opened)
  BY <1>2 DEF IInv, Fine, Now, Held
<1>3. CASE d = "server" /\ ~opened
  <2>1. ~Now.opened => Now.link["server"] = NewLink(TRUE)
    BY DEF IInv, Fine
  <2>2. link[d] = NewLink(TRUE)
    BY <1>3, <2>1 DEF Now
  <2>3. ~NewLink(TRUE).gateOpen
    BY DEF NewLink
  <2> QED BY <2>2, <2>3 DEF Held
<1> QED BY <1>1, <1>2, <1>3

LEMMA BoundsRange ==
  ASSUME IInv
  PROVE  /\ Bounds \in [Side -> Nat] /\ {"server", "client"} = Side
         /\ Bounds["server"] = 3 * heard["client"] /\ Bounds["client"] = heard["server"]
         /\ heard["client"] \in 0..MaxHeard /\ heard["server"] \in 0..MaxHeard
         /\ MaxHeard \in Nat
BY SessionAssumption DEF IInv, Bounds, Side

\* A frame that arrives is one more of its side.
LEMMA Heard ==
  ASSUME IInv, NEW d \in Side, Arrives(d)
  PROVE  /\ ~closed /\ heard' \in [Side -> 0..MaxHeard] /\ heard[d] + 1 \in 1..MaxHeard
         /\ heard'[d] = heard[d] + 1
         /\ Bounds' \in [Side -> Nat] /\ \A e \in Side : Bounds[e] <= Bounds'[e]
         /\ d = "client" => Bounds' = [Bounds EXCEPT !["server"] = 3 * (heard["client"] + 1)]
         /\ d = "server" => Bounds' = [Bounds EXCEPT !["client"] = heard["server"] + 1]
<1>1. /\ ~closed /\ heard[d] < MaxHeard /\ heard' = [heard EXCEPT ![d] = @ + 1]
      /\ heard \in [Side -> 0..MaxHeard] /\ MaxHeard \in Nat
  BY SessionAssumption DEF Arrives, IInv
<1>2. heard' \in [Side -> 0..MaxHeard] /\ heard[d] + 1 \in 1..MaxHeard /\ heard'[d] = heard[d] + 1
  BY <1>1
<1>3. \A e \in Side \ {d} : heard'[e] = heard[e]
  BY <1>1
<1>4. /\ Bounds \in [Side -> Nat] /\ Bounds' \in [Side -> Nat]
      /\ Bounds["server"] = 3 * heard["client"] /\ Bounds["client"] = heard["server"]
      /\ Bounds'["server"] = 3 * heard'["client"] /\ Bounds'["client"] = heard'["server"]
  BY <1>1, <1>2 DEF Bounds, Side
<1>5. {"server", "client"} = Side /\ heard["client"] \in Nat /\ heard["server"] \in Nat
  BY <1>1 DEF Side
<1>6. \A e \in Side : Bounds[e] <= Bounds'[e]
  BY <1>2, <1>3, <1>4, <1>5
<1>7. d = "client" => Bounds' = [Bounds EXCEPT !["server"] = 3 * (heard["client"] + 1)]
  BY <1>2, <1>3, <1>4, <1>5
<1>8. d = "server" => Bounds' = [Bounds EXCEPT !["client"] = heard["server"] + 1]
  BY <1>2, <1>3, <1>4, <1>5
<1> QED BY <1>1, <1>2, <1>4, <1>6, <1>7, <1>8

\* A step that is told as a session's value.
LEMMA ValueStep ==
  ASSUME IInv, NEW T, Becomes(T), Fine(T, Bounds'), opened => T.opened,
         \A d \in Side : Stays(link[d], T.link[d]),
         heard' \in [Side -> 0..MaxHeard], injected' \in 0..MaxInjected,
         UNCHANGED <<connected, holds, hold>>
  PROVE  IInv' /\ Quiet
<1>1. Now' = T
  <2>1. T \in State
    BY DEF Fine
  <2>2. T = [link |-> T.link, opened |-> T.opened, closed |-> T.closed, told |-> T.told, why |-> T.why]
    BY <2>1 DEF State
  <2> QED BY <2>2 DEF Now, Becomes
<1>2. Fine(Now', Bounds')
  BY <1>1
<1>3. link' = T.link /\ opened' = T.opened
  BY DEF Becomes
<1>4. \A d \in Side : link'[d].gateOpen = link[d].gateOpen
  BY <1>3 DEF Stays
<1>5. IInv'
  BY <1>2, <1>3, <1>4 DEF IInv
<1>6. Quiet
  BY <1>3, HeldThen DEF Quiet, Still, Stays
<1> QED BY <1>5, <1>6

LEMMA RefuseStep == ASSUME IInv, Refuse PROVE IInv' /\ Quiet
<1> DEFINE T == Shut(Now, "no target")
<1>1. /\ Arrives("client") /\ Becomes(T) /\ "no target" \in Why /\ "client" \in Side
      /\ UNCHANGED <<connected, injected, holds, hold>>
  BY DEF Refuse, Why, Side
<1>2. Fine(T, Bounds) /\ Steady(Now, T)
  BY <1>1, ShutFine DEF IInv
<1> HIDE DEF T
<1>3. heard' \in [Side -> 0..MaxHeard] /\ Bounds' \in [Side -> Nat] /\ \A e \in Side : Bounds[e] <= Bounds'[e]
  BY <1>1, Heard
<1>4. Fine(T, Bounds')
  BY <1>2, <1>3, BoundsRange, FineWider
<1>5. T.opened = opened /\ \A d \in Side : Stays(link[d], T.link[d])
  BY <1>2 DEF Steady, Now
<1>6. injected' \in 0..MaxInjected
  BY <1>1 DEF IInv
<1> QED BY <1>1, <1>3, <1>4, <1>5, <1>6, ValueStep

LEMMA ClientFrameStep == ASSUME IInv, ClientFrame PROVE IInv' /\ Quiet
<1> DEFINE O == [Now EXCEPT !.opened = TRUE]
<1> DEFINE n == heard["client"] + 1
<1>0. PICK verdict \in Verdict : \E T \in Handled(O, n, verdict) : Becomes(T)
  BY DEF ClientFrame
<1>1. PICK T \in Handled(O, n, verdict) : Becomes(T)
  BY <1>0
<1>2. /\ Arrives("client") /\ "client" \in Side
      /\ UNCHANGED <<connected, injected, holds, hold>>
  BY DEF ClientFrame, Side
<1>3. /\ heard' \in [Side -> 0..MaxHeard] /\ n \in 1..MaxHeard /\ ~closed
      /\ Bounds' = [Bounds EXCEPT !["server"] = 3 * n]
  BY <1>2, Heard
<1>4. Fine(O, Bounds) /\ O.opened /\ O.link = link
  <2>1. /\ O \in State /\ O.opened /\ O.link = Now.link /\ O.closed = Now.closed /\ O.told = Now.told
        /\ Now.link = link /\ Now.closed = closed
    BY DEF IInv, Fine, State, Now
  <2> HIDE DEF O
  <2> QED BY <1>3, <2>1 DEF IInv, Fine
<1>5. Bounds \in [Side -> Nat] /\ Bounds["server"] <= 3 * n - 3
  BY BoundsRange
<1> HIDE DEF O, n
<1>6. Fine(T, Bounds') /\ Steady(O, T)
  BY <1>1, <1>3, <1>4, <1>5, HandledFine
<1>7. T.opened /\ \A d \in Side : Stays(link[d], T.link[d])
  BY <1>4, <1>6 DEF Steady
<1>8. injected' \in 0..MaxInjected
  BY <1>2 DEF IInv
<1> QED BY <1>1, <1>2, <1>3, <1>6, <1>7, <1>8, ValueStep

LEMMA ServerFrameStep == ASSUME IInv, ServerFrame PROVE IInv' /\ Quiet
<1> DEFINE m == heard["server"] + 1
<1>0. PICK verdict \in Verdict, P \in Staged(Now, heard["client"]) :
        \E T \in Forwarded(P, "client", Carried("server", m), verdict) : Becomes(T)
  BY DEF ServerFrame
<1>1. PICK T \in Forwarded(P, "client", Carried("server", m), verdict) : Becomes(T)
  BY <1>0
<1>2. /\ Arrives("server") /\ "server" \in Side /\ "client" \in Side
      /\ UNCHANGED <<connected, injected, holds, hold>>
  BY DEF ServerFrame, Side
<1>3. /\ heard' \in [Side -> 0..MaxHeard] /\ m \in 1..MaxHeard
      /\ Bounds' \in [Side -> Nat] /\ \A e \in Side : Bounds[e] <= Bounds'[e]
      /\ Bounds' = [Bounds EXCEPT !["client"] = m]
  BY <1>2, Heard
<1>4. /\ Bounds \in [Side -> Nat] /\ heard["client"] \in 0..MaxHeard
      /\ 3 * heard["client"] - 2 <= Bounds["server"] /\ Bounds["client"] = m - 1
  BY BoundsRange
<1>5. Fine(P, Bounds) /\ Steady(Now, P)
  <2>1. Fine(Now, Bounds) /\ \A e \in Side : Bounds[e] <= Bounds[e]
    BY <1>4 DEF IInv
  <2> QED BY <1>1, <1>4, <2>1, StagedFine
<1>6. Fine(T, Bounds') /\ Steady(P, T)
  <2>1. Bounds'["client"] = m /\ m \in 0..MaxHeard /\ m \in Nat
    BY <1>2, <1>3, <1>4, BoundsRange
  <2>2. Carried("server", m) \in Carriable /\ Step(Carried("server", m)) = m
    BY <2>1, Places
  <2>3. Fits("client", Carried("server", m), Bounds["client"], Bounds'["client"])
    BY <1>4, <2>1, <2>2 DEF Fits
  <2> QED BY <1>1, <1>2, <1>3, <1>4, <1>5, <2>3, ForwardedFine
<1>7. Steady(Now, T)
  BY <1>5, <1>6, SteadyTwice
<1>8. T.opened = opened /\ \A d \in Side : Stays(link[d], T.link[d])
  BY <1>7 DEF Steady, Now
<1>9. injected' \in 0..MaxInjected
  BY <1>2 DEF IInv
<1> QED BY <1>1, <1>2, <1>3, <1>6, <1>8, <1>9, ValueStep

LEMMA InjectStep == ASSUME IInv, NEW d \in Side, InjectFromOutside(d) PROVE IInv' /\ Quiet
<1> DEFINE x == Carried("stage", heard["client"])
<1>1. PICK T \in Inject(Now, d, x) : Becomes(T)
  BY DEF InjectFromOutside
<1>2. /\ injected < MaxInjected /\ injected' = injected + 1
      /\ UNCHANGED <<connected, heard, holds, hold>>
  BY DEF InjectFromOutside
<1>3. /\ Bounds \in [Side -> Nat] /\ heard["client"] \in 0..MaxHeard
      /\ Bounds["server"] = 3 * heard["client"] /\ {"server", "client"} = Side
  BY BoundsRange
<1>4. Fits(d, x, Bounds[d], Bounds[d])
  <2>1. x \in Carriable /\ Step(x) = 3 * heard["client"] - 2 /\ x.from = "stage"
    BY <1>3, Places DEF Carried
  <2>2. Bounds[d] \in Nat /\ (d = "server" => Step(x) <= Bounds[d])
    BY <1>3, <2>1
  <2> QED BY <2>1, <2>2 DEF Fits, Counts
<1> HIDE DEF x
<1>5. Fine(T, Bounds) /\ Steady(Now, T)
  <2>1. Fine(Now, Bounds) /\ \A e \in Side : Bounds[e] <= Bounds[e]
    BY <1>3 DEF IInv
  <2> QED BY <1>1, <1>3, <1>4, <2>1, InjectFine
<1>6. T.opened = opened /\ \A e \in Side : Stays(link[e], T.link[e])
  BY <1>5 DEF Steady, Now
<1>7. Bounds' = Bounds /\ heard' \in [Side -> 0..MaxHeard] /\ injected' \in 0..MaxInjected
  BY <1>2, SessionAssumption DEF Bounds, IInv
<1> QED BY <1>1, <1>2, <1>5, <1>6, <1>7, ValueStep

\* A step of the links alone.
LEMMA LinksFine ==
  ASSUME NEW S, NEW K, Fine(S, K), NEW links,
         links \in [Side -> Link], ~S.opened => links["server"] = S.link["server"],
         \A d \in Side : /\ Whole(links[d]) /\ (Gone(S.link[d]) => Gone(links[d]))
                         /\ Conveyed(links[d]) \in {Conveyed(S.link[d]), S.link[d].wire},
         NEW T, T = [S EXCEPT !.link = links]
  PROVE  Fine(T, K) /\ T.link = links /\ T.opened = S.opened
<1>1. S \in State
  BY DEF Fine
<1>2. /\ T \in State /\ T.link = links /\ T.opened = S.opened /\ T.closed = S.closed
      /\ T.told = S.told
  BY <1>1 DEF State
<1>3. ASSUME NEW d \in Side PROVE Sorted(d, Conveyed(links[d]), K[d])
  <2>1. Whole(S.link[d]) /\ Sorted(d, Conveyed(S.link[d]), K[d])
    BY DEF Fine
  <2>2. Sorted(d, S.link[d].wire, K[d])
    BY <2>1, WholeParts, SortedShorter
  <2> QED BY <2>1, <2>2
<1> QED BY <1>2, <1>3 DEF Fine

\* A step of the links that the session itself has no part in.
LEMMA LinksStep ==
  ASSUME IInv, link' \in [Side -> Link], ~opened => link'["server"] = link["server"],
         \A d \in Side : /\ Whole(link'[d]) /\ (Gone(link[d]) => Gone(link'[d]))
                         /\ Conveyed(link'[d]) \in {Conveyed(link[d]), link[d].wire},
         UNCHANGED <<opened, closed, told, why, heard, injected>>
  PROVE  Fine(Now', Bounds')
<1>1. Now \in State /\ Fine(Now, Bounds)
  BY DEF IInv, Fine
<1>2. Now' = [Now EXCEPT !.link = link'] /\ Now.link = link /\ Now.opened = opened
  BY DEF Now
<1>3. Bounds' = Bounds
  BY DEF Bounds
<1> HIDE DEF Now
<1> QED BY <1>1, <1>2, <1>3, LinksFine

\* What the invariant says of each link.
LEMMA Links ==
  ASSUME IInv
  PROVE  /\ link \in [Side -> Link] /\ \A d \in Side : Whole(link[d])
         /\ ~opened => ~link["server"].destroyed /\ ~link["server"].owes
<1>1. link \in [Side -> Link] /\ \A d \in Side : Whole(link[d])
  BY DEF IInv, Fine, State, Now
<1>2. ~opened => link["server"] = NewLink(TRUE)
  BY DEF IInv, Fine, Now
<1>3. ~NewLink(TRUE).destroyed /\ ~NewLink(TRUE).owes
  BY DEF NewLink
<1> QED BY <1>1, <1>2, <1>3

\* One link steps with its gate as it was.
LEMMA OneLinkStep ==
  ASSUME IInv, NEW d \in Side, d = "server" => opened, NEW M,
         Whole(M), Stays(link[d], M), Conveyed(M) \in {Conveyed(link[d]), link[d].wire},
         link' = [link EXCEPT ![d] = M],
         UNCHANGED <<opened, closed, told, why, connected, heard, injected, holds, hold>>
  PROVE  IInv' /\ Quiet
<1>1. link \in [Side -> Link] /\ M \in Link /\ \A e \in Side : Whole(link[e])
  BY Links DEF Whole
<1>2. link' \in [Side -> Link] /\ link'[d] = M /\ \A e \in Side \ {d} : link'[e] = link[e]
  BY <1>1
<1>3. ~opened => link'["server"] = link["server"]
  BY <1>2 DEF Side
<1>4. \A e \in Side : Stays(link[e], link'[e])
  BY <1>2 DEF Stays
<1>5. \A e \in Side : /\ Whole(link'[e]) /\ (Gone(link[e]) => Gone(link'[e]))
                      /\ Conveyed(link'[e]) \in {Conveyed(link[e]), link[e].wire}
  BY <1>1, <1>2 DEF Stays
<1>6. Fine(Now', Bounds')
  BY <1>2, <1>3, <1>5, LinksStep
<1>7. IInv'
  BY <1>4, <1>6 DEF IInv, Stays
<1>8. Quiet
  BY <1>4, HeldThen DEF Quiet, Still, Stays
<1> QED BY <1>7, <1>8

\* The connect listener: it finds no hold that is whole.
LEMMA ConnectedStep == ASSUME IInv, Connected PROVE IInv' /\ Quiet
<1>1. PICK M \in Resumed(link["server"]) : link' = [link EXCEPT !["server"] = M]
  BY DEF Connected
<1>2. /\ opened /\ ~connected /\ connected' = TRUE /\ hold # "whole"
      /\ UNCHANGED <<opened, closed, told, why, heard, injected, holds, hold>>
  BY DEF Connected, IInv
<1>3. /\ link \in [Side -> Link] /\ \A e \in Side : Whole(link[e])
      /\ Side = {"server", "client"}
  BY Links DEF Side
<1>4. /\ Whole(M) /\ Gone(M) = Gone(link["server"]) /\ Conveyed(M) = Conveyed(link["server"])
      /\ Gone(link["server"]) => M.wire = link["server"].wire
  BY <1>1, <1>3, ResumedWhole
<1>5. M \in Link
  BY <1>4 DEF Whole
<1>6. link' \in [Side -> Link] /\ link'["server"] = M /\ link'["client"] = link["client"]
  BY <1>1, <1>3, <1>5
<1>7. \A e \in Side : /\ Whole(link'[e]) /\ (Gone(link[e]) => Gone(link'[e]))
                      /\ Conveyed(link'[e]) \in {Conveyed(link[e]), link[e].wire}
  BY <1>3, <1>4, <1>6
<1>8. Fine(Now', Bounds')
  BY <1>2, <1>6, <1>7, LinksStep
<1>9. IInv'
  BY <1>2, <1>8 DEF IInv
<1>10. closed => Gone(link["server"])
  BY <1>2, <1>3 DEF IInv, Fine, Now
<1> QED BY <1>2, <1>3, <1>4, <1>6, <1>9, <1>10 DEF Quiet, Still

LEMMA HoldStep == ASSUME IInv, Hold PROVE IInv' /\ Quiet
<1>1. /\ ~closed /\ holds < MaxHolds /\ holds' = holds + 1
      /\ link' = [d \in Side |-> IF d = "server" /\ ~opened THEN link[d] ELSE Paused(link[d])]
      /\ hold' = IF connected THEN "whole" ELSE "early"
      /\ UNCHANGED <<opened, closed, told, why, connected, heard, injected>>
  BY DEF Hold
<1>2. link \in [Side -> Link] /\ \A d \in Side : Whole(link[d])
  BY Links
<1>3. ASSUME NEW d \in Side
      PROVE  /\ Whole(link'[d]) /\ Gone(link'[d]) = Gone(link[d])
             /\ Conveyed(link'[d]) = Conveyed(link[d]) /\ link'[d].wire = link[d].wire
             /\ (d = "server" => opened) => ~link'[d].gateOpen
  <2>1. CASE d = "server" /\ ~opened
    BY <1>1, <1>2, <2>1
  <2>2. CASE ~(d = "server" /\ ~opened)
    <3>1. link'[d] = Paused(link[d])
      BY <1>1, <2>2
    <3> QED BY <1>2, <3>1, PausedWhole
  <2> QED BY <2>1, <2>2
<1>4. link' \in [Side -> Link] /\ (~opened => link'["server"] = link["server"])
  <2>1. \A d \in Side : link'[d] \in Link
    BY <1>3 DEF Whole
  <2> QED BY <1>1, <2>1 DEF Side
<1>5. Fine(Now', Bounds')
  BY <1>1, <1>3, <1>4, LinksStep
<1>6. holds' \in 0..MaxHolds
  BY <1>1, SessionAssumption DEF IInv
<1>7. IInv'
  BY <1>1, <1>3, <1>5, <1>6 DEF IInv
<1> QED BY <1>3, <1>7 DEF Quiet, Still

LEMMA ReleaseStep == ASSUME IInv, Release PROVE IInv' /\ Quiet
<1>1. /\ ~closed /\ holds < MaxHolds /\ holds' = holds + 1 /\ hold' = "none"
      /\ UNCHANGED <<opened, closed, told, why, connected, heard, injected>>
  BY DEF Release
<1>2. PICK up \in (IF opened THEN Resumed(link["server"]) ELSE {link["server"]}),
           down \in Resumed(link["client"]) :
        link' = [d \in Side |-> IF d = "server" THEN up ELSE down]
  BY DEF Release
<1>3. /\ link \in [Side -> Link] /\ \A d \in Side : Whole(link[d])
      /\ Side = {"server", "client"}
  BY Links DEF Side
<1>4. /\ Whole(up) /\ Gone(up) = Gone(link["server"]) /\ Conveyed(up) = Conveyed(link["server"])
      /\ ~opened => up = link["server"]
  BY <1>2, <1>3, ResumedWhole
<1>5. Whole(down) /\ Gone(down) = Gone(link["client"]) /\ Conveyed(down) = Conveyed(link["client"])
  BY <1>2, <1>3, ResumedWhole
<1>6. link' \in [Side -> Link] /\ link'["server"] = up /\ link'["client"] = down
  BY <1>2, <1>3, <1>4, <1>5 DEF Whole
<1>7. \A d \in Side : /\ Whole(link'[d]) /\ (Gone(link[d]) => Gone(link'[d]))
                      /\ Conveyed(link'[d]) \in {Conveyed(link[d]), link[d].wire}
  BY <1>3, <1>4, <1>5, <1>6
<1>8. Fine(Now', Bounds')
  BY <1>1, <1>4, <1>6, <1>7, LinksStep
<1>9. holds' \in 0..MaxHolds
  BY <1>1, SessionAssumption DEF IInv
<1>10. IInv'
  BY <1>1, <1>8, <1>9 DEF IInv
<1> QED BY <1>1, <1>10 DEF Quiet

\* A session that shuts, from where it is or from where a socket left it.
LEMMA ShutStep ==
  ASSUME IInv, NEW S, Fine(S, Bounds), S.opened = opened, \A d \in Side : Stays(link[d], S.link[d]),
         NEW reason \in Why, Becomes(Shut(S, reason)),
         UNCHANGED <<connected, heard, injected, holds, hold>>
  PROVE  IInv' /\ Quiet
<1> DEFINE T == Shut(S, reason)
<1>1. Fine(T, Bounds) /\ Steady(S, T) /\ Becomes(T)
  BY ShutFine
<1> HIDE DEF T
<1>2. T.opened = opened /\ \A d \in Side : Stays(link[d], T.link[d])
  BY <1>1 DEF Steady, Stays, Held
<1>3. Bounds' = Bounds /\ heard' \in [Side -> 0..MaxHeard] /\ injected' \in 0..MaxInjected
  BY DEF Bounds, IInv
<1> QED BY <1>1, <1>2, <1>3, ValueStep

LEMMA SocketStep ==
  ASSUME IInv, NEW d \in Side, Drain(d) \/ SocketDies(d) \/ SocketError(d) \/ SocketClose(d)
  PROVE  IInv' /\ Quiet
<1>1. /\ link \in [Side -> Link] /\ \A e \in Side : Whole(link[e])
      /\ ~opened => ~link["server"].destroyed /\ ~link["server"].owes
  BY Links
<1>2. Fine(Now, Bounds) /\ Now.opened = opened /\ Now.link = link /\ "peer" \in Why
  BY DEF IInv, Now, Why
<1>3. CASE Drain(d)
  <2>1. PICK M \in Drained(link[d]) : link' = [link EXCEPT ![d] = M]
    BY <1>3 DEF Drain
  <2>2. /\ UNCHANGED <<opened, closed, told, why, connected, heard, injected, holds, hold>>
        /\ d = "server" => opened
    BY <1>1, <1>3 DEF Drain
  <2>3. Whole(M) /\ Stays(link[d], M) /\ Conveyed(M) = Conveyed(link[d])
    BY <1>1, <2>1, DrainedWhole
  <2> QED BY <2>1, <2>2, <2>3, OneLinkStep
<1>4. CASE SocketDies(d)
  <2> DEFINE M == [link[d] EXCEPT !.destroyed = TRUE]
  <2>1. /\ UNCHANGED <<opened, closed, told, why, connected, heard, injected, holds, hold>>
        /\ d = "server" => opened
        /\ link' = [link EXCEPT ![d] = M]
    BY <1>4 DEF SocketDies
  <2>2. Whole(M) /\ Stays(link[d], M) /\ Conveyed(M) = Conveyed(link[d])
    BY <1>1, DiedWhole
  <2> HIDE DEF M
  <2> QED BY <2>1, <2>2, OneLinkStep
<1>5. CASE SocketError(d)
  <2>1. /\ Becomes(Shut(Now, "peer"))
        /\ UNCHANGED <<connected, heard, injected, holds, hold>>
    BY <1>5 DEF SocketError
  <2>2. \A e \in Side : Stays(link[e], link[e])
    BY DEF Stays
  <2> QED BY <1>2, <2>1, <2>2, ShutStep
<1>6. CASE SocketClose(d)
  <2> DEFINE M == Ended(link[d])
  <2> DEFINE links == [link EXCEPT ![d] = M]
  <2> DEFINE S == [Now EXCEPT !.link = links]
  <2>1. /\ Becomes(Shut(S, "peer"))
        /\ UNCHANGED <<connected, heard, injected, holds, hold>>
    <3>1. [Now EXCEPT !.link[d] = Ended(@)] = S
      BY <1>2 DEF Now
    <3> QED BY <1>6, <3>1 DEF SocketClose
  <2>2. d = "server" => opened
    BY <1>1, <1>6 DEF SocketClose
  <2>3. Whole(M) /\ Stays(link[d], M) /\ Conveyed(M) \in {Conveyed(link[d]), link[d].wire}
    BY <1>1, EndedWhole
  <2> HIDE DEF M
  <2>4. links \in [Side -> Link] /\ links[d] = M /\ \A e \in Side \ {d} : links[e] = link[e]
    BY <1>1, <2>3 DEF Whole
  <2>5. ~opened => links["server"] = link["server"]
    BY <2>2, <2>4 DEF Side
  <2>6. \A e \in Side : Stays(link[e], links[e])
    BY <2>3, <2>4 DEF Stays
  <2>7. \A e \in Side : /\ Whole(links[e]) /\ (Gone(link[e]) => Gone(links[e]))
                        /\ Conveyed(links[e]) \in {Conveyed(link[e]), link[e].wire}
    BY <1>1, <2>3, <2>4 DEF Stays
  <2> HIDE DEF links
  <2>8. Fine(S, Bounds) /\ S.link = links /\ S.opened = opened
    BY <1>2, <2>4, <2>5, <2>7, LinksFine
  <2> HIDE DEF S
  <2> QED BY <1>2, <2>1, <2>6, <2>8, ShutStep
<1> QED BY <1>3, <1>4, <1>5, <1>6

LEMMA ShutdownStep == ASSUME IInv, Shutdown PROVE IInv' /\ Quiet
<1>1. /\ Becomes(Shut(Now, "shutdown"))
      /\ UNCHANGED <<connected, heard, injected, holds, hold>>
  BY DEF Shutdown
<1>2. Fine(Now, Bounds) /\ Now.opened = opened /\ Now.link = link /\ "shutdown" \in Why
  BY DEF IInv, Now, Why
<1>3. \A e \in Side : Stays(link[e], link[e])
  BY DEF Stays
<1> QED BY <1>1, <1>2, <1>3, ShutStep

LEMMA StepFine == ASSUME IInv, [Next]_vars PROVE IInv' /\ Quiet
<1>1. CASE UNCHANGED vars
  <2>1. Now' = Now /\ Bounds' = Bounds
    BY <1>1 DEF vars, Now, Bounds
  <2> QED BY <1>1, <2>1 DEF vars, IInv, Quiet, Still
<1>2. CASE \E d \in Side : InjectFromOutside(d)
  BY <1>2, InjectStep
<1>3. CASE \E d \in Side : Drain(d) \/ SocketDies(d) \/ SocketError(d) \/ SocketClose(d)
  BY <1>3, SocketStep
<1> QED BY <1>1, <1>2, <1>3, RefuseStep, ClientFrameStep, ServerFrameStep, ConnectedStep, HoldStep,
           ReleaseStep, ShutdownStep DEF Next

LEMMA Invariance == Spec => []IInv
BY InitFine, StepFine, PTL DEF Spec

-----------------------------------------------------------------------------
(* What the runs check, for every bound.                                   *)

\* ProxySession.close and PeerLink, PacketPipeline and #inject between them: at
\* every moment of a session neither keystream has lost its place, though frames
\* are dropped, rewritten, injected, held or fail to encode, and one end takes
\* both links down and is told once.
THEOREM SessionWholeOrOver == Spec => []WholeOrOver
<1>1. IInv => WholeOrOver
  <2> SUFFICES ASSUME IInv PROVE WholeOrOver
    OBVIOUS
  <2>1. /\ Now.link = link /\ Now.opened = opened /\ Now.closed = closed /\ Now.told = told
        /\ Fine(Now, Bounds)
    BY DEF Now, IInv
  <2>2. TypeOK
    BY DEF IInv, Fine, TypeOK
  <2>3. Unbroken
    BY <2>1 DEF Fine, Whole, Unbroken, Carries
  <2>4. EndsTogether
    BY <2>1 DEF Fine, EndsTogether
  <2> QED BY <2>2, <2>3, <2>4 DEF WholeOrOver
<1> QED BY <1>1, Invariance, PTL

\* ProxySession.#handleFrame and #forward: what reaches either wire is in the
\* order of the packets that were handled, a stage's own packets ahead of the
\* one it was handling and the outbound queue's straight behind it.
THEOREM SessionInOrder == Spec => []InOrder
<1>1. IInv => InOrder
  <2> SUFFICES ASSUME IInv PROVE InOrder
    OBVIOUS
  <2>1. \A d \in Side : Sorted(d, Carries(d), Bounds[d])
    BY DEF IInv, Fine, Now, Carries
  <2>2. \A i, j \in DOMAIN Carries("server") :
           i < j /\ Carries("server")[j].load.from # "stage" =>
             Step(Carries("server")[i].load) <= Step(Carries("server")[j].load)
    BY <2>1 DEF Sorted, Counts, Side
  <2>3. ASSUME NEW i \in DOMAIN Carries("client"), NEW j \in DOMAIN Carries("client"), i < j,
               Carries("client")[i].load.from = "server", Carries("client")[j].load.from = "server"
        PROVE  Carries("client")[i].load.n <= Carries("client")[j].load.n
    <3>1. Step(Carries("client")[i].load) <= Step(Carries("client")[j].load)
      BY <2>1, <2>3 DEF Sorted, Counts, Side
    <3> QED BY <2>3, <3>1 DEF Step
  <2> QED BY <2>2, <2>3 DEF InOrder
<1> QED BY <1>1, Invariance, PTL

\* ProxySession.holdTraffic and close: from a hold of a connected session to its
\* release, and from the end of a session on, nothing whatever is written to
\* either socket.
THEOREM SessionStillWhenHeld == Spec => StillWhenHeld
<1>1. IInv /\ [Next]_vars => [hold = "whole" /\ hold' = "whole" => Still]_vars
  BY StepFine DEF Quiet
<1>2. IInv /\ [Next]_vars => [closed => Still]_vars
  BY StepFine DEF Quiet
<1>3. Spec => HoldsStill
  BY <1>1, Invariance, PTL DEF Spec, HoldsStill
<1>4. Spec => EndsStill
  BY <1>2, Invariance, PTL DEF Spec, EndsStill
<1> QED BY <1>3, <1>4 DEF StillWhenHeld
=============================================================================
