-------------------------- MODULE TransportProofs --------------------------
(***************************************************************************)
(* Proofs about one transport, for any bound on what may wait and on what  *)
(* is sent: nothing is dropped or reordered while it is open, the peer's   *)
(* keystream stays in step, no wakeup is lost, and the transport           *)
(* implements HeldChannel.                                                 *)
(***************************************************************************)
EXTENDS Transport, SequenceTheorems, TLAPS

-----------------------------------------------------------------------------
(* The inductive invariant.  Owed is what Armed needs to be inductive: a   *)
(* frame enqueued under backpressure relies on the drain that asked for it. *)

\* The n-th frame handed over, as it is enciphered.
NthFrame(acc, n) == [pos |-> n, load |-> acc[n]]

\* The wire w carries a beginning of what was handed over.
Begun(w, acc) ==
  /\ Len(w) <= Len(acc)
  /\ \A n \in 1..Len(w) : w[n] = NthFrame(acc, n)

\* The queue q carries the rest of it.
Rest(w, q, acc) ==
  /\ Len(w) + Len(q) = Len(acc)
  /\ \A n \in 1..Len(q) : q[n] = NthFrame(acc, Len(w) + n)

Sound(L, acc) ==
  /\ L \in Link
  /\ acc \in Seq(Load)
  /\ L.pending = Len(L.queue)
  /\ Begun(L.wire, acc)
  /\ ~Gone(L) => L.ciphered = Len(acc) /\ Rest(L.wire, L.queue, acc)

Owed(L) == ~Gone(L) /\ L.backpressured => L.owes
Waking(L) == ~Gone(L) /\ L.gateOpen /\ L.queue # << >> => L.owes
Driven(L) == Owed(L) /\ Waking(L)

IInv == Sound(link, accepted) /\ Driven(link)

-----------------------------------------------------------------------------
(* What each call of the transport keeps.                                  *)

\* close: an open link loses its queue, and only that.
LEMMA ClosedSound ==
  ASSUME NEW L, NEW acc, Sound(L, acc)
  PROVE  Sound(Closed(L), acc) /\ Gone(Closed(L))
<1> USE PendingAssumption DEF Link
<1>0. L \in Link /\ 0 \in 0..MaxPending /\ << >> \in Seq(Frame) /\ Len(<< >>) = 0
  BY DEF Sound
<1>1. Closed(L) \in Link
  <2>1. CASE L.closed
    BY <1>0, <2>1 DEF Closed
  <2>2. CASE ~L.closed
    BY <1>0, <2>2 DEF Closed
  <2> QED BY <2>1, <2>2
<1>2. Closed(L).pending = Len(Closed(L).queue)
  BY <1>0 DEF Closed, Sound
<1>3. Gone(Closed(L))
  BY DEF Closed, Sound, Gone
<1>4. Closed(L).wire = L.wire
  BY DEF Closed, Sound
<1> QED BY <1>1, <1>2, <1>3, <1>4 DEF Sound

\* Moving the first n of the queue to the end of the wire keeps both halves.
LEMMA Moved ==
  ASSUME NEW w \in Seq(Frame), NEW q \in Seq(Frame), NEW acc \in Seq(Load),
         Begun(w, acc), Rest(w, q, acc), NEW n \in 1..Len(q)
  PROVE  LET w2 == w \o SubSeq(q, 1, n)
             q2 == SubSeq(q, n + 1, Len(q))
         IN  /\ w2 \in Seq(Frame) /\ Len(w2) = Len(w) + n
             /\ q2 \in Seq(Frame) /\ Len(q2) = Len(q) - n
             /\ Begun(w2, acc) /\ Rest(w2, q2, acc)
             /\ q2 = << >> <=> n = Len(q)
<1> DEFINE gone == SubSeq(q, 1, n)
<1> DEFINE w2 == w \o gone
<1> DEFINE q2 == SubSeq(q, n + 1, Len(q))
<1>1. gone \in Seq(Frame) /\ Len(gone) = n /\ \A i \in 1..n : gone[i] = q[i]
  OBVIOUS
<1>2. /\ q2 \in Seq(Frame) /\ Len(q2) = Len(q) - n
      /\ \A i \in 1..(Len(q) - n) : q2[i] = q[n + i]
  OBVIOUS
<1> HIDE DEF gone, q2
<1>3. w2 \in Seq(Frame) /\ Len(w2) = Len(w) + n
  BY <1>1
<1>4. \A i \in 1..Len(w) : w2[i] = w[i]
  BY <1>1
<1>5. \A i \in 1..n : w2[Len(w) + i] = gone[i]
  BY <1>1
<1> HIDE DEF w2
<1>6. Begun(w2, acc)
  <2>1. Len(w2) <= Len(acc)
    BY <1>3 DEF Rest
  <2>2. ASSUME NEW i \in 1..Len(w2) PROVE w2[i] = NthFrame(acc, i)
    <3>1. CASE i <= Len(w)
      BY <1>4, <3>1 DEF Begun
    <3>2. CASE i > Len(w)
      <4>1. i - Len(w) \in 1..n /\ i = Len(w) + (i - Len(w))
        BY <1>3, <3>2
      <4>2. w2[i] = q[i - Len(w)]
        BY <1>1, <1>5, <4>1
      <4>3. q[i - Len(w)] = NthFrame(acc, Len(w) + (i - Len(w)))
        BY <4>1 DEF Rest
      <4> QED BY <4>1, <4>2, <4>3
    <3> QED BY <3>1, <3>2
  <2> QED BY <2>1, <2>2 DEF Begun
<1>7. Rest(w2, q2, acc)
  <2>1. Len(w2) + Len(q2) = Len(acc)
    <3>1. Len(w2) = Len(w) + n /\ Len(q2) = Len(q) - n
      BY <1>2, <1>3
    <3>2. Len(w) + Len(q) = Len(acc)
      BY DEF Rest
    <3>3. Len(w) \in Nat /\ Len(q) \in Nat
      OBVIOUS
    <3> QED BY <3>1, <3>2, <3>3
  <2>2. ASSUME NEW i \in 1..Len(q2) PROVE q2[i] = NthFrame(acc, Len(w2) + i)
    <3>1. q2[i] = q[n + i] /\ n + i \in 1..Len(q)
      BY <1>2
    <3>2. Len(w) + (n + i) = Len(w2) + i
      BY <1>2, <1>3
    <3>3. q[n + i] = NthFrame(acc, Len(w) + (n + i))
      BY <3>1 DEF Rest
    <3> QED BY <3>1, <3>2, <3>3
  <2> QED BY <2>1, <2>2 DEF Rest
<1>8. q2 = << >> <=> n = Len(q)
  BY <1>2
<1> QED BY <1>2, <1>3, <1>6, <1>7, <1>8 DEF w2, q2, gone

\* One flush moves a beginning of the queue to the end of the wire.
LEMMA FlushedToSound ==
  ASSUME NEW L, NEW acc, Sound(L, acc), ~Gone(L),
         NEW n \in 1..Len(L.queue), NEW more \in BOOLEAN,
         NEW M, M = FlushedTo(L, n, more)
  PROVE  /\ Sound(M, acc)
         /\ Len(M.wire) = Len(L.wire) + n
         /\ M.gateOpen = L.gateOpen
         /\ M.owes = (L.owes \/ ~more) /\ M.backpressured = ~more
         /\ M.queue = << >> <=> n = Len(L.queue)
         /\ Gone(M) = Gone(L)
<1>1. /\ L \in Link /\ L.queue \in Seq(Frame) /\ L.wire \in Seq(Frame)
      /\ acc \in Seq(Load) /\ L.pending = Len(L.queue) /\ L.ciphered = Len(acc)
      /\ Begun(L.wire, acc) /\ Rest(L.wire, L.queue, acc)
  BY DEF Sound, Link
<1>2. /\ M.wire = L.wire \o SubSeq(L.queue, 1, n)
      /\ M.queue = SubSeq(L.queue, n + 1, Len(L.queue))
      /\ M.pending = L.pending - n /\ M.ciphered = L.ciphered
  BY <1>1 DEF FlushedTo, Link
<1>3. /\ M.gateOpen = L.gateOpen /\ M.closed = L.closed /\ M.destroyed = L.destroyed
      /\ M.owes = (L.owes \/ ~more) /\ M.backpressured = ~more
  BY <1>1 DEF FlushedTo, Link
<1>4. /\ M.wire \in Seq(Frame) /\ Len(M.wire) = Len(L.wire) + n
      /\ M.queue \in Seq(Frame) /\ Len(M.queue) = Len(L.queue) - n
      /\ Begun(M.wire, acc) /\ Rest(M.wire, M.queue, acc)
      /\ M.queue = << >> <=> n = Len(L.queue)
  BY <1>1, <1>2, Moved
<1>5. M \in Link
  <2>1. L.pending \in 0..MaxPending /\ n \in 1..L.pending
    BY <1>1 DEF Link
  <2>2. M.pending \in 0..MaxPending
    BY <1>2, <2>1, PendingAssumption
  <2>3. DOMAIN M = DOMAIN L /\ M = [x \in DOMAIN L |-> M[x]]
    BY <1>1 DEF FlushedTo, Link
  <2> QED BY <1>1, <1>4, <2>2 DEF FlushedTo, Link
<1>6. Gone(M) = Gone(L)
  BY <1>3 DEF Gone
<1>7. Sound(M, acc)
  BY <1>1, <1>2, <1>4, <1>5 DEF Sound
<1> QED BY <1>3, <1>4, <1>6, <1>7

\* #flush, from the gate, a drain or a release: sound, and driven afterwards
\* whatever the link was owed before.
LEMMA FlushedSound ==
  ASSUME NEW L, NEW acc, Sound(L, acc), NEW M \in Flushed(L)
  PROVE  /\ Sound(M, acc) /\ Driven(M)
         /\ M.gateOpen = L.gateOpen /\ Gone(M) = Gone(L)
         /\ Len(M.wire) >= Len(L.wire)
         /\ ~L.gateOpen \/ Gone(L) => M.wire = L.wire
<1>1. L \in Link /\ L.wire \in Seq(Frame) /\ L.queue \in Seq(Frame)
  BY DEF Sound, Link
<1>2. CASE ~L.gateOpen \/ Gone(L) \/ L.queue = << >>
  <2>1. M = [L EXCEPT !.backpressured = FALSE]
    BY <1>2 DEF Flushed
  <2>2. /\ M \in Link /\ M.wire = L.wire /\ M.queue = L.queue /\ M.pending = L.pending
        /\ M.ciphered = L.ciphered
    BY <1>1, <2>1 DEF Link
  <2>3. M.gateOpen = L.gateOpen /\ M.backpressured = FALSE /\ Gone(M) = Gone(L)
    BY <1>1, <2>1 DEF Link, Gone
  <2>4. Sound(M, acc)
    BY <2>2, <2>3 DEF Sound
  <2>5. Driven(M)
    BY <1>2, <2>2, <2>3 DEF Driven, Owed, Waking
  <2> QED BY <1>1, <2>2, <2>3, <2>4, <2>5
<1>3. CASE L.gateOpen /\ ~Gone(L) /\ L.queue # << >>
  <2>1. \E n \in 1..Len(L.queue), more \in BOOLEAN :
          M = FlushedTo(L, n, more) /\ (more => n = Len(L.queue))
    <3>1. Len(L.queue) \in 1..Len(L.queue)
      BY <1>1, <1>3
    <3> QED BY <1>3, <3>1 DEF Flushed
  <2>2. PICK n \in 1..Len(L.queue), more \in BOOLEAN :
          M = FlushedTo(L, n, more) /\ (more => n = Len(L.queue))
    BY <2>1
  <2>3. ~Gone(L) /\ M = FlushedTo(L, n, more)
    BY <1>3, <2>2
  <2>4. /\ Sound(M, acc) /\ Len(M.wire) = Len(L.wire) + n
        /\ M.gateOpen = L.gateOpen /\ Gone(M) = Gone(L)
    BY <2>3, FlushedToSound
  <2>5. M.owes = (L.owes \/ ~more) /\ M.backpressured = ~more
    BY <2>3, FlushedToSound
  <2>6. M.queue = << >> <=> n = Len(L.queue)
    BY <2>3, FlushedToSound
  <2>7. Driven(M)
    BY <2>2, <2>5, <2>6 DEF Driven, Owed, Waking
  <2> QED BY <1>1, <1>3, <2>2, <2>4, <2>7
<1> QED BY <1>2, <1>3

\* One more frame handed over: it goes to the end of the queue, or straight to
\* the wire when nothing waits.
LEMMA Grown ==
  ASSUME NEW w \in Seq(Frame), NEW q \in Seq(Frame), NEW acc \in Seq(Load),
         Begun(w, acc), NEW x \in Load, NEW f, f = [pos |-> Len(acc) + 1, load |-> x]
  PROVE  /\ Append(acc, x) \in Seq(Load) /\ Len(Append(acc, x)) = Len(acc) + 1
         /\ Begun(w, Append(acc, x))
         /\ Rest(w, q, acc) => Rest(w, Append(q, f), Append(acc, x))
         /\ Rest(w, << >>, acc) =>
              Begun(w \o <<f>>, Append(acc, x)) /\ Rest(w \o <<f>>, << >>, Append(acc, x))
<1> DEFINE acc2 == Append(acc, x)
<1>1. /\ acc2 \in Seq(Load) /\ Len(acc2) = Len(acc) + 1
      /\ acc2[Len(acc) + 1] = x /\ \A i \in 1..Len(acc) : acc2[i] = acc[i]
  OBVIOUS
<1> HIDE DEF acc2
<1>2. f \in Frame
  BY DEF Frame
<1>3. \A i \in 1..Len(acc) : NthFrame(acc2, i) = NthFrame(acc, i)
  BY <1>1 DEF NthFrame
<1>4. NthFrame(acc2, Len(acc) + 1) = f
  BY <1>1 DEF NthFrame
<1>5. Begun(w, acc2)
  BY <1>1, <1>3 DEF Begun
<1>6. ASSUME Rest(w, q, acc) PROVE Rest(w, Append(q, f), acc2)
  <2> DEFINE q2 == Append(q, f)
  <2>1. /\ q2 \in Seq(Frame) /\ Len(q2) = Len(q) + 1 /\ q2[Len(q) + 1] = f
        /\ \A i \in 1..Len(q) : q2[i] = q[i]
    BY <1>2
  <2> HIDE DEF q2
  <2>2. Len(w) + Len(q) = Len(acc) /\ Len(w) \in Nat /\ Len(q) \in Nat
    BY <1>6 DEF Rest
  <2>3. Len(w) + Len(q2) = Len(acc2)
    <3>1. Len(q2) = Len(q) + 1 /\ Len(acc2) = Len(acc) + 1
      BY <1>1, <2>1
    <3> QED BY <2>2, <3>1
  <2>4. ASSUME NEW i \in 1..Len(q2) PROVE q2[i] = NthFrame(acc2, Len(w) + i)
    <3>1. CASE i \in 1..Len(q)
      <4>1. Len(w) + i \in 1..Len(acc)
        BY <2>2, <3>1
      <4>2. q[i] = NthFrame(acc, Len(w) + i)
        BY <1>6, <3>1 DEF Rest
      <4> QED BY <1>3, <2>1, <3>1, <4>1, <4>2
    <3>2. CASE i = Len(q) + 1
      <4>1. Len(w) + i = Len(acc) + 1
        BY <2>2, <3>2
      <4> QED BY <1>4, <2>1, <3>2, <4>1
    <3> QED BY <2>1, <2>2, <3>1, <3>2
  <2> QED BY <2>3, <2>4 DEF Rest, q2
<1>7. ASSUME Rest(w, << >>, acc)
      PROVE  Begun(w \o <<f>>, acc2) /\ Rest(w \o <<f>>, << >>, acc2)
  <2> DEFINE w2 == w \o <<f>>
  <2>1. Len(w) = Len(acc)
    BY <1>7 DEF Rest
  <2>2. /\ w2 \in Seq(Frame) /\ Len(w2) = Len(w) + 1 /\ w2[Len(w) + 1] = f
        /\ \A i \in 1..Len(w) : w2[i] = w[i]
    BY <1>2
  <2> HIDE DEF w2
  <2>3. ASSUME NEW i \in 1..Len(w2) PROVE w2[i] = NthFrame(acc2, i)
    <3>1. CASE i \in 1..Len(w)
      BY <1>3, <2>1, <2>2, <3>1 DEF Begun
    <3>2. CASE i = Len(w) + 1
      BY <1>4, <2>1, <2>2, <3>2
    <3> QED BY <2>2, <3>1, <3>2
  <2>4. Begun(w2, acc2)
    BY <1>1, <2>1, <2>2, <2>3 DEF Begun
  <2>5. Rest(w2, << >>, acc2)
    BY <1>1, <2>1, <2>2 DEF Rest
  <2> QED BY <2>4, <2>5 DEF w2
<1> QED BY <1>1, <1>5, <1>6, <1>7 DEF acc2

\* What one send does to the channel's state: nothing on a link that is gone;
\* otherwise the frame waits, leaves at once, or is the one too many.
SentAs(L, M, x) ==
  /\ M.gateOpen = L.gateOpen
  /\ \/ Gone(L) /\ Gone(M) /\ M.wire = L.wire
     \/ ~Gone(L) /\ M.wire = L.wire
     \/ /\ ~Gone(L) /\ ~Gone(M) /\ L.gateOpen /\ L.queue = << >> /\ M.queue = << >>
        /\ M.wire = L.wire \o <<[pos |-> L.ciphered + 1, load |-> x]>>

LEMMA SentSound ==
  ASSUME NEW L, NEW acc, Sound(L, acc), Driven(L), NEW x \in Load, NEW M \in Sent(L, x),
         NEW acc2, acc2 = IF Gone(L) THEN acc ELSE Append(acc, x)
  PROVE  Sound(M, acc2) /\ Driven(M) /\ SentAs(L, M, x)
<1> DEFINE f == [pos |-> L.ciphered + 1, load |-> x]
<1> DEFINE N == [L EXCEPT !.ciphered = @ + 1]
<1>1. /\ L \in Link /\ L.queue \in Seq(Frame) /\ L.wire \in Seq(Frame)
      /\ acc \in Seq(Load) /\ L.pending = Len(L.queue) /\ Begun(L.wire, acc)
      /\ L.pending \in 0..MaxPending
  BY DEF Sound, Link
<1>2. /\ N \in Link /\ N.wire = L.wire /\ N.queue = L.queue /\ N.pending = L.pending
      /\ N.ciphered = L.ciphered + 1
  BY <1>1 DEF Link
<1>3. /\ N.gateOpen = L.gateOpen /\ N.backpressured = L.backpressured
      /\ N.owes = L.owes /\ N.closed = L.closed /\ N.destroyed = L.destroyed
  BY <1>1 DEF Link
<1>4. Gone(N) = Gone(L)
  BY <1>3 DEF Gone
<1>5. M \in Accepted(N, f)
  BY DEF Sent
<1> HIDE DEF N, f
<1>6. CASE Gone(L)
  <2>1. M = N
    BY <1>4, <1>5, <1>6 DEF Accepted
  <2>2. Sound(M, acc2)
    BY <1>1, <1>2, <1>4, <1>6, <2>1 DEF Sound
  <2> QED BY <1>2, <1>3, <1>4, <1>6, <2>1, <2>2 DEF Driven, Owed, Waking, SentAs
<1>7. CASE ~Gone(L)
  <2>1. /\ L.ciphered = Len(acc) /\ Rest(L.wire, L.queue, acc)
        /\ acc2 = Append(acc, x) /\ f = [pos |-> Len(acc) + 1, load |-> x] /\ f \in Frame
    BY <1>1, <1>7 DEF Sound, f, Frame
  <2>2. /\ acc2 \in Seq(Load) /\ Len(acc2) = Len(acc) + 1 /\ Begun(L.wire, acc2)
        /\ Rest(L.wire, Append(L.queue, f), acc2)
    BY <1>1, <2>1, Grown
  <2>3. CASE ~N.gateOpen \/ N.backpressured \/ N.queue # << >>
    <3> DEFINE E == [N EXCEPT !.queue = Append(@, f), !.pending = @ + 1]
    <3>1. M = Enqueued(N, f)
      BY <1>4, <1>5, <1>7, <2>3 DEF Accepted
    <3>2. /\ E.queue = Append(L.queue, f) /\ E.pending = L.pending + 1
          /\ E.wire = L.wire /\ E.ciphered = L.ciphered + 1
      BY <1>2 DEF Link
    <3>3. /\ E.gateOpen = L.gateOpen /\ E.backpressured = L.backpressured
          /\ E.owes = L.owes /\ E.closed = L.closed /\ E.destroyed = L.destroyed
      BY <1>2, <1>3 DEF Link
    <3>4. M = IF E.pending > MaxPending THEN Closed(E) ELSE E
      BY <3>1 DEF Enqueued
    <3>5. Append(L.queue, f) \in Seq(Frame) /\ Len(Append(L.queue, f)) = Len(L.queue) + 1
      BY <1>1, <2>1
    <3>6. CASE E.pending > MaxPending
      <4>1. M = [E EXCEPT !.closed = TRUE, !.queue = << >>, !.pending = 0, !.destroyed = TRUE]
        BY <1>7, <3>3, <3>4, <3>6 DEF Closed, Gone
      <4>2. 0 \in 0..MaxPending /\ << >> \in Seq(Frame) /\ Len(<< >>) = 0
        BY PendingAssumption
      <4>3. M \in Link /\ M.wire = L.wire /\ M.pending = Len(M.queue)
        BY <1>2, <4>1, <4>2 DEF Link
      <4>4. Gone(M) /\ M.gateOpen = L.gateOpen
        BY <1>2, <1>3, <4>1 DEF Link, Gone
      <4> QED BY <1>7, <2>2, <4>3, <4>4 DEF Sound, Driven, Owed, Waking, SentAs
    <3>7. CASE ~(E.pending > MaxPending)
      <4>1. M = E
        BY <3>4, <3>7
      <4>2. L.pending + 1 \in 0..MaxPending
        BY <1>1, <3>2, <3>7, PendingAssumption
      <4>3. M \in Link
        BY <1>2, <2>1, <3>5, <4>1, <4>2 DEF Link
      <4>4. Sound(M, acc2)
        BY <1>1, <2>1, <2>2, <3>2, <3>5, <4>1, <4>3 DEF Sound
      <4>5. Gone(M) = Gone(L)
        BY <3>3, <4>1 DEF Gone
      <4>6. Driven(M)
        BY <1>2, <1>3, <1>7, <2>3, <3>3, <4>1, <4>5 DEF Driven, Owed, Waking
      <4>7. SentAs(L, M, x)
        BY <1>7, <3>2, <3>3, <4>1 DEF SentAs
      <4> QED BY <4>4, <4>6, <4>7
    <3> QED BY <3>6, <3>7
  <2>4. CASE N.gateOpen /\ ~N.backpressured /\ N.queue = << >>
    <3>1. PICK more \in BOOLEAN : M = Wrote(N, <<f>>, more)
      BY <1>4, <1>5, <1>7, <2>4 DEF Accepted
    <3>2. /\ M.wire = L.wire \o <<f>> /\ M.queue = << >> /\ M.pending = L.pending
          /\ M.ciphered = L.ciphered + 1
      BY <1>2, <2>4, <3>1 DEF Wrote, Link
    <3>3. /\ M.gateOpen = L.gateOpen /\ M.closed = L.closed /\ M.destroyed = L.destroyed
          /\ M.backpressured = ~more /\ M.owes = (L.owes \/ ~more)
      BY <1>2, <1>3, <3>1 DEF Wrote, Link
    <3>4. L.queue = << >>
      BY <1>2, <2>4
    <3>5. Begun(M.wire, acc2) /\ Rest(M.wire, << >>, acc2)
      BY <1>1, <2>1, <3>2, <3>4, Grown
    <3>6. M.wire \in Seq(Frame)
      BY <1>1, <2>1, <3>2
    <3>7. M \in Link
      BY <1>2, <3>1, <3>6 DEF Wrote, Link
    <3>8. Gone(M) = Gone(L)
      BY <3>3 DEF Gone
    <3>9. Sound(M, acc2)
      BY <1>1, <2>1, <2>2, <3>2, <3>4, <3>5, <3>7 DEF Sound
    <3>10. Driven(M)
      BY <3>2, <3>3 DEF Driven, Owed, Waking
    <3>11. SentAs(L, M, x)
      BY <1>2, <1>3, <1>7, <2>4, <3>2, <3>3, <3>4, <3>8 DEF SentAs, f
    <3> QED BY <3>9, <3>10, <3>11
  <2> QED BY <2>3, <2>4
<1> QED BY <1>6, <1>7

-----------------------------------------------------------------------------
(* The invariant is inductive.                                             *)

LEMMA InitSound == Init => IInv
<1> SUFFICES ASSUME Init PROVE IInv
  OBVIOUS
<1>1. PICK startPaused \in BOOLEAN : link = NewLink(startPaused)
  BY DEF Init
<1>2. << >> \in Seq(Frame) /\ << >> \in Seq(Load) /\ Len(<< >>) = 0 /\ 0 \in 0..MaxPending
  BY PendingAssumption
<1>3. link \in Link /\ accepted = << >>
  BY <1>1, <1>2 DEF NewLink, Link, Init
<1>4. link.wire = << >> /\ link.queue = << >> /\ link.pending = 0 /\ link.ciphered = 0
  BY <1>1 DEF NewLink
<1>5. ~link.backpressured
  BY <1>1 DEF NewLink
<1>6. Begun(<< >>, << >>) /\ Rest(<< >>, << >>, << >>)
  BY <1>2 DEF Begun, Rest
<1> QED BY <1>2, <1>3, <1>4, <1>5, <1>6 DEF IInv, Sound, Driven, Owed, Waking

\* Everything that is not a send, a release or a drain leaves the wire alone.
LEMMA QuietSound ==
  ASSUME IInv, Pause \/ Close \/ SocketDies \/ SocketClose
  PROVE  /\ IInv' /\ link'.wire = link.wire /\ accepted' = accepted
         /\ Gone(link) => Gone(link')
         /\ Pause => ~link'.gateOpen /\ Gone(link') = Gone(link)
         /\ ~Pause => link'.gateOpen = link.gateOpen /\ Gone(link')
<1>1. /\ link \in Link /\ Sound(link, accepted) /\ Driven(link) /\ accepted' = accepted
      /\ link.pending = Len(link.queue)
  BY DEF IInv, Sound, Pause, Close, SocketDies, SocketClose
<1>2. CASE Pause
  <2>1. link' = [link EXCEPT !.gateOpen = FALSE]
    BY <1>2 DEF Pause, Paused
  <2>2. /\ link' \in Link /\ link'.wire = link.wire /\ link'.queue = link.queue
        /\ link'.pending = link.pending /\ link'.ciphered = link.ciphered
    BY <1>1, <2>1 DEF Link
  <2>3. /\ ~link'.gateOpen /\ link'.backpressured = link.backpressured
        /\ link'.owes = link.owes /\ Gone(link') = Gone(link)
    BY <1>1, <2>1 DEF Link, Gone
  <2>4. Sound(link', accepted')
    BY <1>1, <2>2, <2>3 DEF Sound
  <2> QED BY <1>1, <1>2, <2>2, <2>3, <2>4 DEF IInv, Driven, Owed, Waking
<1>3. CASE ~Pause
  <2>1. CASE Close
    <3>1. Sound(link', accepted') /\ Gone(link')
      BY <1>1, <2>1, ClosedSound DEF Close
    <3>2. link'.wire = link.wire /\ link'.gateOpen = link.gateOpen
      BY <1>1, <2>1 DEF Close, Closed, Link
    <3> QED BY <1>1, <1>3, <3>1, <3>2 DEF IInv, Driven, Owed, Waking
  <2>2. CASE SocketDies
    <3>1. link' = [link EXCEPT !.destroyed = TRUE]
      BY <2>2 DEF SocketDies
    <3>2. /\ link' \in Link /\ link'.wire = link.wire /\ link'.queue = link.queue
          /\ link'.pending = link.pending
      BY <1>1, <3>1 DEF Link
    <3>3. link'.gateOpen = link.gateOpen /\ Gone(link')
      BY <1>1, <3>1 DEF Link, Gone
    <3> QED BY <1>1, <1>3, <3>2, <3>3 DEF IInv, Sound, Driven, Owed, Waking
  <2>3. CASE SocketClose
    <3>1. link' = [link EXCEPT !.closed = TRUE, !.queue = << >>, !.pending = 0]
      BY <2>3 DEF SocketClose, Ended
    <3>2. 0 \in 0..MaxPending /\ << >> \in Seq(Frame) /\ Len(<< >>) = 0
      BY PendingAssumption
    <3>3. link' \in Link /\ link'.wire = link.wire /\ link'.pending = Len(link'.queue)
      BY <1>1, <3>1, <3>2 DEF Link
    <3>4. link'.gateOpen = link.gateOpen /\ Gone(link')
      BY <1>1, <3>1 DEF Link, Gone
    <3> QED BY <1>1, <1>3, <3>3, <3>4 DEF IInv, Sound, Driven, Owed, Waking
  <2> QED BY <1>3, <2>1, <2>2, <2>3
<1> QED BY <1>2, <1>3

\* A release or a drain is a flush of a link that differs in a flag.
LEMMA FlushSound ==
  ASSUME IInv, Resume \/ Drain
  PROVE  /\ IInv' /\ accepted' = accepted /\ Gone(link') = Gone(link)
         /\ Len(link'.wire) >= Len(link.wire)
         /\ Gone(link) => link'.wire = link.wire
         /\ \/ link'.gateOpen
            \/ ~link.gateOpen /\ ~link'.gateOpen /\ link'.wire = link.wire
<1>1. link \in Link /\ Sound(link, accepted) /\ Driven(link) /\ link.wire \in Seq(Frame)
  BY DEF IInv, Sound, Link
<1>2. CASE Resume
  <2>1. CASE link.gateOpen
    <3>1. link' = link /\ accepted' = accepted
      BY <1>2, <2>1 DEF Resume, Resumed
    <3>2. \A w \in Seq(Frame) : Len(w) >= Len(w)
      OBVIOUS
    <3>3. Len(link'.wire) >= Len(link.wire)
      BY <1>1, <3>1, <3>2
    <3> QED BY <1>1, <2>1, <3>1, <3>3 DEF IInv
  <2>2. CASE ~link.gateOpen
    <3> DEFINE L == [link EXCEPT !.gateOpen = TRUE]
    <3>1. link' \in Flushed(L) /\ accepted' = accepted
      BY <1>2, <2>2 DEF Resume, Resumed
    <3>2. /\ L \in Link /\ L.wire = link.wire /\ L.queue = link.queue /\ L.pending = link.pending
          /\ L.ciphered = link.ciphered
      BY <1>1 DEF Link
    <3>3. L.gateOpen /\ Gone(L) = Gone(link)
      BY <1>1 DEF Link, Gone
    <3> HIDE DEF L
    <3>4. Sound(L, accepted)
      BY <1>1, <3>2, <3>3 DEF Sound
    <3>5. /\ Sound(link', accepted) /\ Driven(link')
          /\ link'.gateOpen = L.gateOpen /\ Gone(link') = Gone(L)
          /\ Len(link'.wire) >= Len(L.wire)
          /\ ~L.gateOpen \/ Gone(L) => link'.wire = L.wire
      BY <3>1, <3>4, FlushedSound
    <3> QED BY <2>2, <3>1, <3>2, <3>3, <3>5 DEF IInv
  <2> QED BY <2>1, <2>2
<1>3. CASE Drain
  <2> DEFINE L == [link EXCEPT !.owes = FALSE]
  <2>1. link' \in Flushed(L) /\ accepted' = accepted
    BY <1>3 DEF Drain, Drained
  <2>2. /\ L \in Link /\ L.wire = link.wire /\ L.queue = link.queue /\ L.pending = link.pending
        /\ L.ciphered = link.ciphered
    BY <1>1 DEF Link
  <2>3. L.gateOpen = link.gateOpen /\ Gone(L) = Gone(link)
    BY <1>1 DEF Link, Gone
  <2> HIDE DEF L
  <2>4. Sound(L, accepted)
    BY <1>1, <2>2, <2>3 DEF Sound
  <2>5. /\ Sound(link', accepted) /\ Driven(link')
        /\ link'.gateOpen = L.gateOpen /\ Gone(link') = Gone(L)
        /\ Len(link'.wire) >= Len(L.wire)
        /\ ~L.gateOpen \/ Gone(L) => link'.wire = L.wire
    BY <2>1, <2>4, FlushedSound
  <2> QED BY <2>1, <2>2, <2>3, <2>5 DEF IInv
<1> QED BY <1>2, <1>3

LEMMA SendSound ==
  ASSUME IInv, NEW x \in Load, Send(x)
  PROVE  IInv' /\ SentAs(link, link', x)
BY SentSound DEF IInv, Send

LEMMA StepSound == IInv /\ [Next]_vars => IInv'
<1> SUFFICES ASSUME IInv, [Next]_vars PROVE IInv'
  OBVIOUS
<1>1. CASE \E x \in Load : Send(x)
  BY <1>1, SendSound
<1>2. CASE Pause \/ Close \/ SocketDies \/ SocketClose
  BY <1>2, QuietSound
<1>3. CASE Resume \/ Drain
  BY <1>3, FlushSound
<1>4. CASE UNCHANGED vars
  BY <1>4 DEF vars, IInv
<1> QED BY <1>1, <1>2, <1>3, <1>4 DEF Next

LEMMA Invariance == Spec => []IInv
BY InitSound, StepSound, PTL DEF Spec

-----------------------------------------------------------------------------
(* What a reader of the transport may rely on.                             *)

\* Every variable keeps its type; in particular no more than MaxPending ever
\* waits, because #enqueue closes the transport instead (Transport.ts:175-188).
THEOREM TypeCorrect == Spec => []TypeOK
<1>1. IInv => TypeOK
  BY DEF IInv, Sound, TypeOK
<1> QED BY <1>1, Invariance, PTL

\* What is on the wire is in step with the keystream, for good
\* (PeerLink.sendOwned, Transport.send, #flush).
THEOREM StaysInStep == Spec => []InStep
<1>1. IInv => InStep
  <2> SUFFICES ASSUME IInv, NEW n \in DOMAIN link.wire PROVE link.wire[n].pos = n
    BY DEF InStep
  <2>1. link.wire \in Seq(Frame) /\ Begun(link.wire, accepted)
    BY DEF IInv, Sound, Link
  <2>2. \A w \in Seq(Frame) : Begun(w, accepted) => \A i \in DOMAIN w : w[i].pos = i
    <3> SUFFICES ASSUME NEW w \in Seq(Frame), Begun(w, accepted), NEW i \in 1..Len(w)
                 PROVE  w[i].pos = i
      OBVIOUS
    <3>1. w[i] = NthFrame(accepted, i)
      BY DEF Begun
    <3> QED BY <3>1 DEF NthFrame
  <2> QED BY <2>1, <2>2
<1> QED BY <1>1, Invariance, PTL

\* Held, never dropped (Transport.ts:26-40): an open transport has everything it
\* was handed on the wire or waiting behind it, in order.
THEOREM HoldsWithoutDropping == Spec => []NeverDropped
<1>1. IInv => NeverDropped
  <2> SUFFICES ASSUME IInv, ~Gone(link)
               PROVE  Conveyed(link) = [n \in 1..Len(accepted) |-> NthFrame(accepted, n)]
    BY DEF NeverDropped, NthFrame
  <2>1. /\ link.wire \in Seq(Frame) /\ link.queue \in Seq(Frame) /\ accepted \in Seq(Load)
        /\ Begun(link.wire, accepted) /\ Rest(link.wire, link.queue, accepted)
    BY DEF IInv, Sound, Link
  <2>2. \A w, q \in Seq(Frame) : Rest(w, q, accepted) /\ Begun(w, accepted) =>
          w \o q = [n \in 1..Len(accepted) |-> NthFrame(accepted, n)]
    <3> SUFFICES ASSUME NEW w \in Seq(Frame), NEW q \in Seq(Frame),
                        Rest(w, q, accepted), Begun(w, accepted)
                 PROVE  w \o q = [n \in 1..Len(accepted) |-> NthFrame(accepted, n)]
      OBVIOUS
    <3> DEFINE t == [n \in 1..Len(accepted) |-> NthFrame(accepted, n)]
    <3>1. Len(w) + Len(q) = Len(accepted) /\ Len(w) \in Nat /\ Len(q) \in Nat
      BY DEF Rest
    <3>2. /\ w \o q \in Seq(Frame) /\ Len(w \o q) = Len(accepted)
          /\ \A n \in 1..Len(accepted) : (w \o q)[n] = IF n <= Len(w) THEN w[n] ELSE q[n - Len(w)]
      BY <3>1, ConcatProperties
    <3>3. t \in Seq(Frame) /\ Len(t) = Len(accepted)
      <4>1. \A n \in 1..Len(accepted) : NthFrame(accepted, n) \in Frame
        BY <2>1 DEF NthFrame, Frame
      <4> QED BY <2>1, <4>1
    <3>4. ASSUME NEW n \in 1..Len(accepted) PROVE (w \o q)[n] = t[n]
      <4>1. CASE n <= Len(w)
        BY <3>2, <4>1 DEF Begun
      <4>2. CASE ~(n <= Len(w))
        <5>1. n - Len(w) \in 1..Len(q) /\ n = Len(w) + (n - Len(w))
          BY <3>1, <4>2
        <5>2. q[n - Len(w)] = NthFrame(accepted, Len(w) + (n - Len(w)))
          BY <5>1 DEF Rest
        <5> QED BY <3>2, <4>2, <5>1, <5>2
      <4> QED BY <4>1, <4>2
    <3> HIDE DEF t
    <3>5. w \o q = t
      BY <3>2, <3>3, <3>4, SeqEqual
    <3> QED BY <3>5 DEF t
  <2> QED BY <2>1, <2>2 DEF Conveyed
<1> QED BY <1>1, Invariance, PTL

\* The count of what waits is the queue's (#pending against #queue).
THEOREM CountsPending == Spec => []PendingTrue
<1>1. IInv => PendingTrue
  BY DEF IInv, Sound, PendingTrue
<1> QED BY <1>1, Invariance, PTL

\* No lost wakeup: what waits behind an open gate has a drain coming.  This is
\* what the liveness of the transport rests on (#flush and the drain listener).
THEOREM NoLostWakeup == Spec => []Armed
<1>1. IInv => Armed
  BY DEF IInv, Driven, Waking, Armed
<1> QED BY <1>1, Invariance, PTL

-----------------------------------------------------------------------------
(* The transport implements the channel.                                   *)

Loads(w) == [n \in DOMAIN w |-> w[n].load]

\* Begun, in the channel's words: what was delivered begins what was accepted.
LEMMA BegunDelivered ==
  ASSUME NEW w \in Seq(Frame), NEW acc \in Seq(Load), Begun(w, acc)
  PROVE  /\ Loads(w) = SubSeq(acc, 1, Len(w)) /\ Loads(w) \in Seq(Load)
         /\ Len(Loads(w)) = Len(w) /\ Len(w) <= Len(acc)
<1>1. /\ Len(w) \in Nat /\ Len(acc) \in Nat /\ Len(w) <= Len(acc) /\ DOMAIN w = 1..Len(w)
      /\ \A n \in 1..Len(w) : w[n].load = acc[n] /\ acc[n] \in Load
  <2>1. Len(w) \in Nat /\ Len(acc) \in Nat /\ DOMAIN w = 1..Len(w)
    OBVIOUS
  <2>2. Len(w) <= Len(acc)
    BY DEF Begun
  <2>3. ASSUME NEW n \in 1..Len(w) PROVE w[n].load = acc[n] /\ acc[n] \in Load
    <3>1. w[n] = NthFrame(acc, n)
      BY DEF Begun
    <3>2. n \in 1..Len(acc)
      BY <2>1, <2>2
    <3> QED BY <3>1, <3>2 DEF NthFrame
  <2> QED BY <2>1, <2>2, <2>3
<1>2. Loads(w) = [n \in 1..Len(w) |-> acc[n]]
  BY <1>1 DEF Loads
<1>3. SubSeq(acc, 1, Len(w)) = [n \in 1..Len(w) |-> acc[n]]
  BY <1>1
<1>4. Loads(w) \in Seq(Load) /\ Len(Loads(w)) = Len(w)
  BY <1>1, <1>2
<1> QED BY <1>1, <1>2, <1>3, <1>4

\* A longer wire is a later beginning.
LEMMA LaterBeginning ==
  ASSUME NEW w \in Seq(Frame), NEW w2 \in Seq(Frame), NEW acc \in Seq(Load),
         Begun(w, acc), Begun(w2, acc), Len(w2) >= Len(w)
  PROVE  Loads(w2) \in {SubSeq(acc, 1, n) : n \in Len(Loads(w))..Len(acc)}
<1>1. Loads(w2) = SubSeq(acc, 1, Len(w2)) /\ Len(w2) <= Len(acc) /\ Len(Loads(w)) = Len(w)
  BY BegunDelivered
<1>2. Len(w2) \in Len(Loads(w))..Len(acc)
  BY <1>1
<1> QED BY <1>1, <1>2

\* Every step of the transport is a step of the channel its interface
\* describes (Transport.ts:13-43), or none.
THEOREM ImplementsChannel == Spec => Channel!Spec
<1>1. Init => Channel!Init
  <2> SUFFICES ASSUME Init PROVE Channel!Init
    OBVIOUS
  <2>1. PICK startPaused \in BOOLEAN : link = NewLink(startPaused)
    BY DEF Init
  <2>2. link.wire = << >> /\ ~Gone(link) /\ link.gateOpen = ~startPaused
    BY <2>1 DEF NewLink, Gone
  <2>3. [n \in DOMAIN link.wire |-> link.wire[n].load] = << >>
    BY <2>2
  <2> QED BY <2>2, <2>3 DEF Channel!Init, Init
<1>2. IInv /\ IInv' /\ [Next]_vars => [Channel!Next]_Channel!vars
  <2> SUFFICES ASSUME IInv, IInv', [Next]_vars PROVE [Channel!Next]_Channel!vars
    OBVIOUS
  <2>1. /\ link.wire \in Seq(Frame) /\ link.queue \in Seq(Frame) /\ accepted \in Seq(Load)
        /\ Begun(link.wire, accepted)
        /\ link'.wire \in Seq(Frame) /\ accepted' \in Seq(Load) /\ Begun(link'.wire, accepted')
        /\ link.gateOpen \in BOOLEAN /\ link'.gateOpen \in BOOLEAN
        /\ Gone(link) \in BOOLEAN /\ Gone(link') \in BOOLEAN
    BY DEF IInv, Sound, Link, Gone
  <2>2. ASSUME NEW x \in Load, Send(x) PROVE [Channel!Next]_Channel!vars
    <3>1. SentAs(link, link', x)
      BY <2>2, SendSound
    <3>2. accepted' = IF Gone(link) THEN accepted ELSE Append(accepted, x)
      BY <2>2 DEF Send
    <3>3. CASE Gone(link)
      BY <3>1, <3>2, <3>3 DEF SentAs, Channel!vars
    <3>4. CASE ~Gone(link) /\ link'.wire = link.wire
      <4>1. accepted' = Append(accepted, x) /\ link'.gateOpen = link.gateOpen
        BY <3>1, <3>2, <3>4 DEF SentAs
      <4>2. Channel!Accept(x)
        BY <2>1, <3>4, <4>1 DEF Channel!Accept
      <4> QED BY <4>2 DEF Channel!Next
    <3>5. CASE /\ ~Gone(link) /\ ~Gone(link') /\ link.gateOpen /\ link.queue = << >>
               /\ link'.wire = link.wire \o <<[pos |-> link.ciphered + 1, load |-> x]>>
      <4>1. Rest(link.wire, << >>, accepted) /\ link.ciphered = Len(accepted)
        BY <3>5 DEF IInv, Sound
      <4>2. Loads(link.wire) = accepted /\ Loads(link'.wire) = accepted'
        <5>1. \A w \in Seq(Frame), acc \in Seq(Load) :
                Begun(w, acc) /\ Len(w) = Len(acc) => Loads(w) = acc
          BY BegunDelivered
        <5>2. \A w \in Seq(Frame) : Rest(w, << >>, accepted) => Len(w) = Len(accepted)
          BY <2>1 DEF Rest
        <5>3. \A w \in Seq(Frame), f \in Frame : Len(w) = Len(accepted) =>
                Len(w \o <<f>>) = Len(Append(accepted, x))
          BY <2>1
        <5>4. [pos |-> link.ciphered + 1, load |-> x] \in Frame
          BY <2>1, <4>1 DEF Frame
        <5> QED BY <2>1, <3>2, <3>5, <4>1, <5>1, <5>2, <5>3, <5>4
      <4>3. accepted' = Append(accepted, x) /\ link'.gateOpen = link.gateOpen
        BY <3>1, <3>2, <3>5 DEF SentAs
      <4>4. Channel!Accept(x)
        BY <2>1, <3>5, <4>2, <4>3 DEF Channel!Accept, Loads
      <4> QED BY <4>4 DEF Channel!Next
    <3> QED BY <3>1, <3>3, <3>4, <3>5 DEF SentAs
  <2>3. CASE Pause
    BY <2>3, QuietSound DEF Channel!Next, Channel!Hold
  <2>4. CASE (Close \/ SocketDies \/ SocketClose) /\ ~Pause
    BY <2>4, QuietSound DEF Channel!Next, Channel!Cut
  <2>5. CASE Resume \/ Drain
    <3>1. /\ accepted' = accepted /\ Gone(link') = Gone(link) /\ Len(link'.wire) >= Len(link.wire)
          /\ Gone(link) => link'.wire = link.wire
          /\ \/ link'.gateOpen
             \/ ~link.gateOpen /\ ~link'.gateOpen /\ link'.wire = link.wire
      BY <2>5, FlushSound
    <3>2. CASE link'.gateOpen
      <4>1. Loads(link'.wire) \in {SubSeq(accepted, 1, n) : n \in Len(Loads(link.wire))..Len(accepted)}
        BY <2>1, <3>1, LaterBeginning
      <4> QED BY <3>1, <3>2, <4>1 DEF Loads, Channel!Next, Channel!Release, Channel!Beginnings
    <3>3. CASE ~link.gateOpen /\ ~link'.gateOpen /\ link'.wire = link.wire
      BY <2>1, <3>1, <3>3 DEF Channel!vars
    <3> QED BY <3>1, <3>2, <3>3
  <2>6. CASE UNCHANGED vars
    BY <2>6 DEF vars, Channel!vars, Gone
  <2> QED BY <2>2, <2>3, <2>4, <2>5, <2>6 DEF Next
<1> QED BY <1>1, <1>2, Invariance, PTL DEF Spec, Channel!Spec
=============================================================================
