-------------------------- MODULE NativeLinkProofs --------------------------
(***************************************************************************)
(* Proofs about the link between the runtime and its native module, for    *)
(* any number of pipe instances, features, runs, losses and any length of  *)
(* the counter: the two ends never see a gap, never trust a secret of      *)
(* another run, never accuse each other, and the module ends with what the *)
(* plugins asked for last.                                                 *)
(***************************************************************************)
EXTENDS NativeLink, FiniteSetTheorems, SequenceTheorems, TLAPS

-----------------------------------------------------------------------------
(* Numbers: what comes i-th after n, around the end of the counter.        *)

LEMMA Multiple == ASSUME NEW M \in Nat \ {0}, NEW d \in Int, d >= 1 PROVE M * d \in Int /\ M * d >= M
<1>1. \A x \in Int, y \in Int : x >= 0 /\ y >= 0 => x * y >= 0
  OBVIOUS
<1>2. M * (d - 1) >= 0 /\ M * d = M * (d - 1) + M
  BY <1>1
<1> QED BY <1>2

LEMMA Remainder ==
  ASSUME NEW M \in Nat \ {0}, NEW q \in Int, NEW r \in 0..M-1, NEW p \in Int, NEW s \in 0..M-1,
         M * q + r = M * p + s
  PROVE  r = s
<1>1. M * (q - p) = s - r /\ M * (p - q) = r - s
  OBVIOUS
<1>2. CASE q - p >= 1
  BY <1>1, <1>2, Multiple
<1>3. CASE p - q >= 1
  BY <1>1, <1>3, Multiple
<1>4. CASE q = p
  BY <1>1, <1>4
<1> QED BY <1>2, <1>3, <1>4

LEMMA Divided == ASSUME NEW M \in Nat \ {0}, NEW a \in Nat
  PROVE a \div M \in Int /\ a % M \in 0..M-1 /\ a = M * (a \div M) + (a % M)
OBVIOUS

LEMMA Succeeded == ASSUME NEW M \in Nat \ {0}, NEW a \in Nat PROVE (a+1) % M = IF a % M = M-1 THEN 0 ELSE (a % M) + 1
<1> DEFINE q == a \div M
<1> DEFINE r == a % M
<1> DEFINE p == (a + 1) \div M
<1> DEFINE s == (a + 1) % M
<1>1. q \in Int /\ r \in 0..M-1 /\ a = M * q + r
  BY Divided
<1>2. p \in Int /\ s \in 0..M-1 /\ a + 1 = M * p + s
  BY Divided
<1> HIDE DEF q, r, p, s
<1>3. CASE r = M - 1
  <2>1. M * (q + 1) + 0 = M * p + s
    BY <1>1, <1>2, <1>3
  <2>2. s = 0
    BY <1>1, <1>2, <2>1, Remainder
  <2> QED BY <1>3, <2>2 DEF r, s
<1>4. CASE r # M - 1
  <2>1. M * q + (r + 1) = M * p + s /\ r + 1 \in 0..M-1
    BY <1>1, <1>2, <1>4
  <2>2. s = r + 1
    BY <1>1, <1>2, <2>1, Remainder
  <2> QED BY <1>4, <2>2 DEF r, s
<1> QED BY <1>3, <1>4

LEMMA SeqAfterOne == ASSUME NEW n \in 0..MaxSeq PROVE SeqAfter(n, 1) = NextSeq(n) /\ SeqAfter(n, 0) = n
<1>1. MaxSeq \in Nat \ {0}
  BY NativeAssumption
<1>2. n + 1 - 1 = n /\ (n # MaxSeq => n % MaxSeq = n) /\ MaxSeq % MaxSeq = 0
  BY <1>1
<1> QED BY <1>1, <1>2 DEF SeqAfter, NextSeq

LEMMA SeqAfterNext ==
  ASSUME NEW n \in 0..MaxSeq, NEW i \in Nat
  PROVE  /\ SeqAfter(n, i) \in 0..MaxSeq
         /\ SeqAfter(n, i + 1) \in 1..MaxSeq
         /\ SeqAfter(n, i + 1) = NextSeq(SeqAfter(n, i))
<1>1. MaxSeq \in Nat \ {0}
  BY NativeAssumption
<1>2. CASE i = 0
  <2>1. SeqAfter(n, i + 1) = NextSeq(n) /\ SeqAfter(n, i) = n
    BY <1>2, SeqAfterOne
  <2> QED BY <1>1, <2>1 DEF NextSeq
<1>3. CASE i # 0
  <2> DEFINE a == n + i - 1
  <2>1. a \in Nat /\ n + (i + 1) - 1 = a + 1 /\ i + 1 # 0
    BY <1>1, <1>3
  <2>2. a % MaxSeq \in 0..MaxSeq - 1
    BY <1>1, <2>1
  <2>3. (a + 1) % MaxSeq = IF a % MaxSeq = MaxSeq - 1 THEN 0 ELSE (a % MaxSeq) + 1
    BY <1>1, <2>1, Succeeded
  <2>4. SeqAfter(n, i) = (a % MaxSeq) + 1 /\ SeqAfter(n, i + 1) = ((a + 1) % MaxSeq) + 1
    BY <1>3, <2>1 DEF SeqAfter
  <2> HIDE DEF a
  <2> QED BY <1>1, <2>2, <2>3, <2>4 DEF NextSeq
<1> QED BY <1>2, <1>3
-----------------------------------------------------------------------------
(* What is on a pipe, and the numbers it brings a counter through.         *)

About == Nat \cup (Nat \X (Nat \cup {Unset})) \cup (Key \X Nat) \cup {Unset}
Message == [kind : ToRuntime \cup ToModule, seq : 1..MaxSeq, about : About]

\* Each frame of q is the next after the one before it, the first after number n.
Chain(q, n) == \A i \in DOMAIN q : q[i].seq = NextSeq(IF i = 1 THEN n ELSE q[i - 1].seq)
UpTo(q, n) == IF q = << >> THEN n ELSE q[Len(q)].seq

LEMMA ChainBrings ==
  ASSUME NEW q, NEW n, Chain(q, n)
  PROVE  Bring(q, n, UpTo(q, n))
BY DEF Chain, UpTo, Bring

LEMMA UpToNumber ==
  ASSUME NEW q \in Seq(Message), NEW n \in 0..MaxSeq
  PROVE  UpTo(q, n) \in 0..MaxSeq
<1>1. q # << >> => Len(q) \in DOMAIN q /\ q[Len(q)] \in Message
  OBVIOUS
<1> QED BY <1>1 DEF UpTo, Message

\* The first frame is read.
LEMMA ChainRead ==
  ASSUME NEW q \in Seq(Message), NEW n, Chain(q, n), q # << >>
  PROVE  /\ q[1] \in Message /\ q[1].seq = NextSeq(n)
         /\ Tail(q) \in Seq(Message) /\ Len(Tail(q)) = Len(q) - 1
         /\ \A i \in DOMAIN Tail(q) : Tail(q)[i] = q[i + 1] /\ i + 1 \in DOMAIN q
         /\ Chain(Tail(q), q[1].seq)
         /\ UpTo(Tail(q), q[1].seq) = UpTo(q, n)
<1> DEFINE r == Tail(q)
<1>1. /\ r \in Seq(Message) /\ Len(r) = Len(q) - 1 /\ Len(q) \in Nat \ {0}
      /\ DOMAIN r = 1..Len(r) /\ DOMAIN q = 1..Len(q)
      /\ \A i \in 1..Len(r) : r[i] = q[i + 1]
  OBVIOUS
<1> HIDE DEF r
<1>2. q[1] \in Message /\ q[1].seq = NextSeq(n)
  BY <1>1 DEF Chain
<1>3. Chain(r, q[1].seq)
  <2> SUFFICES ASSUME NEW i \in DOMAIN r
               PROVE  r[i].seq = NextSeq(IF i = 1 THEN q[1].seq ELSE r[i - 1].seq)
    BY DEF Chain
  <2>1. i + 1 \in DOMAIN q /\ r[i] = q[i + 1] /\ i + 1 # 1 /\ (i + 1) - 1 = i
    BY <1>1
  <2>2. q[i + 1].seq = NextSeq(q[i].seq)
    BY <2>1 DEF Chain
  <2>3. i # 1 => r[i - 1] = q[i]
    BY <1>1
  <2> QED BY <2>1, <2>2, <2>3
<1>4. UpTo(r, q[1].seq) = UpTo(q, n)
  BY <1>1 DEF UpTo
<1> QED BY <1>1, <1>2, <1>3, <1>4 DEF r

\* Frames numbered from where q ends are put behind it.
LEMMA ChainExtended ==
  ASSUME NEW q \in Seq(Message), NEW n \in 0..MaxSeq, Chain(q, n),
         NEW w \in Seq(Message), \A i \in DOMAIN w : w[i].seq = SeqAfter(UpTo(q, n), i)
  PROVE  /\ q \o w \in Seq(Message)
         /\ Chain(q \o w, n)
         /\ UpTo(q \o w, n) = SeqAfter(UpTo(q, n), Len(w))
<1> DEFINE c == q \o w
<1> DEFINE u == UpTo(q, n)
<1>1. /\ c \in Seq(Message) /\ Len(c) = Len(q) + Len(w) /\ Len(q) \in Nat /\ Len(w) \in Nat
      /\ DOMAIN c = 1..Len(c) /\ DOMAIN q = 1..Len(q) /\ DOMAIN w = 1..Len(w)
      /\ \A i \in 1..Len(q) : c[i] = q[i]
      /\ \A i \in 1..Len(w) : c[Len(q) + i] = w[i]
  OBVIOUS
<1>2. u \in 0..MaxSeq /\ SeqAfter(u, 0) = u
  BY UpToNumber, SeqAfterOne
<1>3. Len(q) # 0 => u = q[Len(q)].seq
  BY <1>1 DEF UpTo
<1>4. Len(q) = 0 => u = n
  BY <1>1 DEF UpTo
<1>5. \A i \in 1..Len(w) : w[i].seq = SeqAfter(u, i)
  BY <1>1
<1> HIDE DEF c, u
<1>6. ASSUME NEW i \in DOMAIN c
      PROVE  c[i].seq = NextSeq(IF i = 1 THEN n ELSE c[i - 1].seq)
  <2>1. CASE i \in 1..Len(q)
    <3>1. c[i] = q[i] /\ (i # 1 => c[i - 1] = q[i - 1])
      BY <1>1, <2>1
    <3> QED BY <1>1, <2>1, <3>1 DEF Chain
  <2>2. CASE i = Len(q) + 1
    <3>1. 1 \in 1..Len(w) /\ c[i] = w[1] /\ w[1].seq = SeqAfter(u, 1)
      BY <1>1, <1>5, <2>2
    <3>2. SeqAfter(u, 1) = NextSeq(u)
      BY <1>2, SeqAfterOne
    <3>3. (IF i = 1 THEN n ELSE c[i - 1].seq) = u
      <4>1. CASE Len(q) = 0
        BY <1>4, <2>2, <4>1
      <4>2. CASE Len(q) # 0
        BY <1>1, <1>3, <2>2, <4>2
      <4> QED BY <4>1, <4>2
    <3> QED BY <3>1, <3>2, <3>3
  <2>3. CASE i \in Len(q) + 2 .. Len(c)
    <3> DEFINE j == i - Len(q) - 1
    <3>1. j \in Nat /\ j \in 1..Len(w) /\ j + 1 \in 1..Len(w)
      BY <1>1, <2>3
    <3>2. c[i] = w[j + 1] /\ c[i - 1] = w[j] /\ i # 1
      <4>1. i = Len(q) + (j + 1) /\ i - 1 = Len(q) + j
        BY <1>1, <2>3
      <4> QED BY <1>1, <2>3, <3>1, <4>1
    <3> HIDE DEF j
    <3>3. w[j + 1].seq = SeqAfter(u, j + 1) /\ w[j].seq = SeqAfter(u, j)
      BY <1>5, <3>1
    <3> QED BY <1>2, <3>1, <3>2, <3>3, SeqAfterNext
  <2> QED BY <1>1, <2>1, <2>2, <2>3
<1>7. UpTo(c, n) = SeqAfter(u, Len(w))
  <2>1. CASE Len(w) = 0
    <3>1. w = << >> /\ c = q
      BY <1>1, <2>1 DEF c
    <3> QED BY <1>2, <2>1, <3>1 DEF u
  <2>2. CASE Len(w) # 0
    <3>1. c # << >> /\ c[Len(c)] = w[Len(w)] /\ Len(w) \in 1..Len(w)
      BY <1>1, <2>2
    <3> QED BY <1>5, <3>1 DEF UpTo
  <2> QED BY <2>1, <2>2
<1> QED BY <1>1, <1>6, <1>7 DEF Chain, c, u

-----------------------------------------------------------------------------
(* What the module is left with once it has read what is on its way.       *)

LEMMA SettledRead ==
  ASSUME NEW q \in Seq(Message), q # << >>, NEW k, NEW old, NEW new, Settled(q, k, old, new)
  PROVE  Settled(Tail(q), k, IF q[1].kind = "set" /\ q[1].about[1] = k THEN q[1].about[2] ELSE old, new)
<1> DEFINE r == Tail(q)
<1>1. /\ Len(r) = Len(q) - 1 /\ Len(q) \in Nat \ {0}
      /\ DOMAIN r = 1..Len(r) /\ DOMAIN q = 1..Len(q)
      /\ \A i \in 1..Len(r) : r[i] = q[i + 1]
  OBVIOUS
<1> HIDE DEF r
<1>2. \A i \in Int : i \in Sets(r, k) <=> i >= 1 /\ i + 1 \in Sets(q, k)
  BY <1>1 DEF Sets
<1>3. Sets(q, k) \subseteq Int /\ \A i \in Sets(q, k) : i >= 1
  BY <1>1 DEF Sets
<1>4. CASE Sets(q, k) = {}
  <2>1. Sets(r, k) = {} /\ 1 \notin Sets(q, k)
    BY <1>1, <1>2, <1>4 DEF Sets
  <2> QED BY <1>1, <1>4, <2>1 DEF Settled, Sets, r
<1>5. CASE Sets(q, k) # {}
  <2>1. PICK i \in Sets(q, k) : q[i].about[2] = new /\ \A j \in Sets(q, k) : j <= i
    BY <1>5 DEF Settled
  <2>2. CASE i = 1
    <3>1. Sets(r, k) = {}
      <4> SUFFICES ASSUME NEW j \in Sets(r, k) PROVE FALSE
        OBVIOUS
      <4>1. j \in Int
        BY <1>1 DEF Sets
      <4>2. j >= 1 /\ j + 1 \in Sets(q, k)
        BY <1>2, <4>1
      <4>3. j + 1 <= 1
        BY <2>1, <2>2, <4>2
      <4> QED BY <4>1, <4>2, <4>3
    <3>2. q[1].kind = "set" /\ q[1].about[1] = k
      BY <2>1, <2>2 DEF Sets
    <3> QED BY <2>1, <2>2, <3>1, <3>2 DEF Settled, r
  <2>3. CASE i # 1
    <3>1. i - 1 \in Sets(r, k) /\ r[i - 1].about[2] = new
      <4>1. i - 1 \in 1..Len(r) /\ (i - 1) + 1 = i
        BY <1>1, <1>3, <2>1, <2>3 DEF Sets
      <4> QED BY <1>1, <1>2, <2>1, <4>1
    <3>2. \A j \in Sets(r, k) : j <= i - 1
      <4>1. \A j \in Sets(r, k) : j \in Int /\ j + 1 \in Sets(q, k)
        BY <1>1, <1>2 DEF Sets
      <4> QED BY <1>3, <2>1, <4>1
    <3> QED BY <3>1, <3>2 DEF Settled, r
  <2> QED BY <2>2, <2>3
<1> QED BY <1>4, <1>5

LEMMA SettledExtended ==
  ASSUME NEW q \in Seq(Message), NEW w \in Seq(Message), NEW k, NEW old, NEW new,
         IF Sets(w, k) = {} THEN Settled(q, k, old, new) ELSE Settled(w, k, old, new)
  PROVE  Settled(q \o w, k, old, new)
<1> DEFINE c == q \o w
<1>1. /\ Len(c) = Len(q) + Len(w) /\ Len(q) \in Nat /\ Len(w) \in Nat
      /\ DOMAIN c = 1..Len(c) /\ DOMAIN q = 1..Len(q) /\ DOMAIN w = 1..Len(w)
      /\ \A i \in 1..Len(q) : c[i] = q[i]
      /\ \A i \in 1..Len(w) : c[Len(q) + i] = w[i]
  OBVIOUS
<1> HIDE DEF c
<1>2. \A i \in 1..Len(q) : i \in Sets(c, k) <=> i \in Sets(q, k)
  BY <1>1 DEF Sets
<1>3. \A i \in 1..Len(w) : Len(q) + i \in Sets(c, k) <=> i \in Sets(w, k)
  BY <1>1 DEF Sets
<1>4. /\ Sets(c, k) \subseteq 1..Len(c) /\ Sets(q, k) \subseteq 1..Len(q) /\ Sets(w, k) \subseteq 1..Len(w)
      /\ \A i \in Sets(c, k) : i \in Int /\ (i \in 1..Len(q) \/ (i - Len(q) \in 1..Len(w) /\ i = Len(q) + (i - Len(q))))
  BY <1>1 DEF Sets
<1>5. CASE Sets(w, k) = {}
  <2>1. Sets(c, k) = Sets(q, k)
    BY <1>1, <1>2, <1>3, <1>4, <1>5
  <2>2. \A i \in Sets(q, k) : c[i] = q[i]
    BY <1>1, <1>4
  <2> QED BY <1>5, <2>1, <2>2 DEF Settled, c
<1>6. CASE Sets(w, k) # {}
  <2>1. PICK i \in Sets(w, k) : w[i].about[2] = new /\ \A j \in Sets(w, k) : j <= i
    BY <1>6 DEF Settled
  <2>2. Len(q) + i \in Sets(c, k) /\ c[Len(q) + i].about[2] = new
    BY <1>1, <1>3, <1>4, <2>1
  <2>3. ASSUME NEW j \in Sets(c, k) PROVE j <= Len(q) + i
    <3>1. CASE j \in 1..Len(q)
      BY <1>1, <1>4, <2>1, <3>1
    <3>2. CASE j - Len(q) \in 1..Len(w) /\ j = Len(q) + (j - Len(q))
      <4>1. j - Len(q) \in Sets(w, k)
        BY <1>3, <2>3, <3>2
      <4>2. j - Len(q) <= i /\ i \in Int /\ j \in Int
        BY <1>4, <2>1, <2>3, <4>1
      <4> QED BY <1>1, <4>2
    <3> QED BY <1>4, <2>3, <3>1, <3>2
  <2> QED BY <2>2, <2>3 DEF Settled, c
<1> QED BY <1>5, <1>6

\* Asked names each feature that was set, once.
LEMMA AskedAll ==
  /\ Asked \in Seq(Key) /\ \A i \in DOMAIN Asked : features[Asked[i]] # Unset
  /\ \A k \in Key : features[k] # Unset => \E i \in DOMAIN Asked : Asked[i] = k
  /\ \A i, j \in DOMAIN Asked : Asked[i] = Asked[j] => i = j
<1> DEFINE K == {k \in Key : features[k] # Unset}
<1> DEFINE n == Cardinality(K)
<1>1. IsFiniteSet(K) /\ n \in Nat
  <2>1. IsFiniteSet(Key) /\ K \in SUBSET Key
    BY NativeAssumption
  <2>2. IsFiniteSet(K)
    BY <2>1, FS_Subset
  <2> QED BY <2>2, FS_CardinalityType
<1> HIDE DEF K
<1>2. \E f \in [1..n -> K] : IsInjective(f)
  <2>1. ExistsBijection(1..n, K)
    BY <1>1, FS_CardinalityType
  <2> QED BY <2>1 DEF ExistsBijection, Bijection, Injection
<1>3. Asked \in [1..n -> K] /\ IsInjective(Asked)
  BY <1>2 DEF Asked, SetToSeq, K
<1>4. Asked \in Surjection(1..n, K)
  <2>1. Asked \in Injection(1..n, K)
    BY <1>3 DEF Injection
  <2>2. Cardinality(1..n) = n
    BY <1>1, FS_Interval
  <2> QED BY <1>1, <2>1, <2>2, FS_Injection
<1>5. Asked \in Seq(K) /\ DOMAIN Asked = 1..n
  BY <1>1, <1>3
<1> QED BY <1>3, <1>4, <1>5 DEF Surjection, IsInjective, K

-----------------------------------------------------------------------------
(* The inductive invariant: what each end keeps, and the conversation over *)
(* an instance of the pipe, as far as it has come.                         *)

Pipe == [server : {"free", "queued", "open", "destroyed", "closed"}, client : BOOLEAN,
         toRuntime : Seq(Message), toModule : Seq(Message)]
Wanted == [Key -> (1..MaxSets) \cup {Unset}]

Types ==
  /\ up \in {"down", "starting", "up"} /\ run \in 0..MaxRuns
  /\ link \in Link /\ module \in Module /\ pipe \in [Slot -> Pipe]
  /\ features \in Wanted /\ applied \in Wanted
  /\ heard \in {"here", "gone"} /\ keyFile \in (1..MaxRuns) \cup {Unset}
  /\ sets \in 0..MaxSets /\ beats \in 0..MaxBeats

Open(t) == pipe[t].server = "open"
With(t) == module.slot = t
Hello == Frame("hello", 1, 0)

Ends ==
  /\ link.transport # Unset => pipe[link.transport].server \in {"open", "destroyed"}
  /\ link.transport = Unset => ~link.challenged /\ ~link.authenticated
  /\ ~(link.challenged /\ link.authenticated)
  /\ module.state = "disconnected" <=> module.slot = Unset
  /\ module.slot = Unset => module.last = 0

Instance(t) ==
  /\ Open(t) => link.transport = t
  /\ up # "up" => pipe[t].server \in {"free", "closed"}
  /\ pipe[t].server \notin {"queued", "open"} => pipe[t].toRuntime = << >>
  /\ pipe[t].server = "free" => pipe[t] = NoPipe
  /\ pipe[t].client <=> With(t)

\* What the frames on it are about.
Worded(q) ==
  \A i \in DOMAIN q : /\ q[i].kind \in ToModule
                      /\ q[i].kind = "ping" => q[i].about \in Nat
                      /\ q[i].kind = "set" => q[i].about \in Key \X (1..MaxSets)
Content(t) ==
  /\ \A i \in DOMAIN pipe[t].toRuntime : pipe[t].toRuntime[i].kind \in ToRuntime
  /\ Worded(pipe[t].toModule)

\* It waits to be accepted.
Queued(t) ==
  pipe[t].server = "queued" =>
    /\ pipe[t].toRuntime = <<Hello>> /\ pipe[t].toModule = << >>
    /\ With(t) => module.state = "authenticating" /\ module.sent = 1 /\ module.last = 0

\* What the module reads, from a runtime that may be gone.
Reads(t) ==
  With(t) =>
    /\ Chain(pipe[t].toModule, module.last)
    /\ module.state = "authenticating" =>
         /\ module.last = 0 /\ Len(pipe[t].toModule) <= 1
         /\ \A i \in DOMAIN pipe[t].toModule : pipe[t].toModule[i].kind = "challenge"
    /\ module.state = "ready" =>
         \A i \in DOMAIN pipe[t].toModule : pipe[t].toModule[i].kind \in {"set", "ping"}

\* What the runtime reads, from a module that may be gone.
Hears(t) ==
  Open(t) =>
    /\ Chain(pipe[t].toRuntime, link.last)
    /\ ~link.challenged /\ ~link.authenticated =>
         link.last = 0 /\ link.sent = 0 /\ pipe[t].toRuntime = <<Hello>>
    /\ link.challenged =>
         \A i \in DOMAIN pipe[t].toRuntime :
           LET f == pipe[t].toRuntime[i]
           IN  IF i = 1 THEN f.kind = "authResult" /\ f.about = run ELSE f.kind = "event"
    /\ link.authenticated =>
         \A i \in DOMAIN pipe[t].toRuntime : pipe[t].toRuntime[i].kind \in {"pong", "event"}

\* Both of them, while they talk.
Talk(t) ==
  Open(t) /\ With(t) =>
    /\ module.sent = UpTo(pipe[t].toRuntime, link.last)
    /\ link.sent = UpTo(pipe[t].toModule, module.last)
    /\ ~link.challenged /\ ~link.authenticated =>
         module.state = "authenticating" /\ pipe[t].toModule = << >>
    /\ link.challenged =>
         IF module.state = "authenticating"
         THEN pipe[t].toRuntime = << >> /\ pipe[t].toModule = <<Frame("challenge", 1, run)>>
         ELSE pipe[t].toRuntime # << >> /\ pipe[t].toModule = << >>
    /\ link.authenticated => module.state = "ready"
    /\ module.state = "ready" => module.secret = run
    /\ link.authenticated =>
         \A k \in Key : features[k] # Unset => Settled(pipe[t].toModule, k, applied[k], features[k])

Each(t) == Instance(t) /\ Content(t) /\ Queued(t) /\ Reads(t) /\ Hears(t) /\ Talk(t)

IInv == Types /\ Ends /\ NobodyAccused /\ \A t \in Slot : Each(t)

LEMMA Bounded ==
  /\ MaxSeq \in Nat \ {0} /\ MaxMisses \in Nat \ {0} /\ MaxRuns \in Nat
  /\ MaxSets \in Nat /\ MaxBeats \in Nat
BY NativeAssumption

LEMMA Untouched ==
  ASSUME NEW u \in Slot, Each(u), pipe'[u] = pipe[u],
         up' = up \/ up' = "up" \/ pipe[u].server \in {"free", "closed"},
         ~Open(u) \/ (link' = link /\ run' = run /\ features' = features),
         (~With(u) /\ ~With(u)') \/ (module' = module /\ applied' = applied)
  PROVE  Each(u)'
<1>1. Instance(u)'
  BY DEF Each, Instance, Open, With
<1>2. Content(u)'
  BY DEF Each, Content
<1>3. Queued(u)'
  BY DEF Each, Queued, With
<1>4. Reads(u)'
  BY DEF Each, Reads, With
<1>5. Hears(u)'
  BY DEF Each, Hears, Open
<1>6. Talk(u)'
  BY DEF Each, Talk, Open, With
<1> QED BY <1>1, <1>2, <1>3, <1>4, <1>5, <1>6 DEF Each

\* The runtime's end of it is closed, or about to be.
Shuts(u) ==
  /\ pipe[u].server # "free" /\ pipe'[u].server \in {"destroyed", "closed"}
  /\ pipe'[u].toRuntime = << >>
  /\ pipe'[u].client = pipe[u].client /\ pipe'[u].toModule = pipe[u].toModule

LEMMA ShutEach ==
  ASSUME NEW u \in Slot, Each(u), Shuts(u), up' = "up" \/ pipe'[u].server = "closed",
         module' = module
  PROVE  Each(u)'
<1>1. Instance(u)'
  BY DEF Each, Instance, Shuts, Open, With
<1>2. Content(u)'
  BY DEF Each, Content, Shuts
<1>3. Queued(u)' /\ Hears(u)' /\ Talk(u)'
  BY DEF Shuts, Queued, Hears, Talk, Open
<1>4. Reads(u)'
  BY DEF Each, Reads, With, Shuts
<1> QED BY <1>1, <1>2, <1>3, <1>4 DEF Each

\* Nothing has been proved to a link, nor asked of it.
Unproved(L) == ~L.challenged /\ ~L.authenticated

\* disconnect(reason), of a link that has a transport and of one that has none.
LEMMA DestroyedIs ==
  ASSUME NEW p \in Pipe
  PROVE  /\ Destroyed(p) \in Pipe /\ Destroyed(p).toRuntime = << >>
         /\ Destroyed(p).client = p.client /\ Destroyed(p).toModule = p.toModule
         /\ Destroyed(p).server = IF p.server = "open" THEN "destroyed" ELSE p.server
<1>1. << >> \in Seq(Message)
  OBVIOUS
<1> QED BY <1>1 DEF Destroyed, Pipe

Broken(P, t) == [P EXCEPT ![t] = Destroyed(P[t])]

LEMMA DisconnectedIs ==
  ASSUME NEW S, S.link \in Link, S.heard \in {"here", "gone"}, NEW reason
  PROVE  LET D == Disconnected(S, reason)
             t == S.link.transport
         IN  /\ D.link \in Link /\ D.link.transport = Unset /\ D.heard \in {"here", "gone"}
             /\ t = Unset => D = S
             /\ t # Unset => /\ Unproved(D.link)
                            /\ D.why = reason
                            /\ D.pipe = Broken(S.pipe, t)
<1> DEFINE D == Disconnected(S, reason)
<1> DEFINE L == S.link
<1> DEFINE h == S.heard
<1> DEFINE P == S.pipe
<1> DEFINE M == [L EXCEPT !.transport = Unset, !.challenged = FALSE, !.authenticated = FALSE, !.pong = 0]
<1>2. /\ M \in Link /\ M.transport = Unset /\ Unproved(M)
  <2>1. 0 \in 0..MaxBeats /\ FALSE \in BOOLEAN
    BY Bounded
  <2> QED BY <2>1 DEF Link, Unproved
<1> HIDE DEF M
<1>3. CASE L.transport = Unset
  BY <1>3 DEF Disconnected
<1>4. CASE L.transport # Unset
  <2> DEFINE H == IF L.authenticated THEN "gone" ELSE h
  <2> DEFINE Q == [P EXCEPT ![L.transport] = Destroyed(P[L.transport])]
  <2>1. D = [link |-> M, heard |-> H, why |-> reason, pipe |-> Q]
    BY <1>4 DEF Disconnected, M
  <2>2. H \in {"here", "gone"}
    OBVIOUS
  <2> HIDE DEF H, Q, D
  <2>3. D.link = M /\ D.why = reason /\ D.heard = H /\ D.pipe = Q
    BY <2>1
  <2> QED BY <1>2, <1>4, <2>2, <2>3 DEF Q, D, Broken
<1> QED BY <1>3, <1>4

\* #send, of one message after another.
Numbered(kind, n, abouts) == [i \in DOMAIN abouts |-> Frame(kind, SeqAfter(n, i), abouts[i])]

LEMMA NumberedIs ==
  ASSUME NEW kind \in ToRuntime \cup ToModule, NEW n \in 0..MaxSeq, NEW abouts \in Seq(About)
  PROVE  LET v == Numbered(kind, n, abouts)
         IN  /\ v \in Seq(Message) /\ Len(v) = Len(abouts) /\ DOMAIN v = DOMAIN abouts
             /\ SeqAfter(n, Len(v)) \in 0..MaxSeq
             /\ \A i \in DOMAIN v : v[i] = Frame(kind, SeqAfter(n, i), abouts[i])
<1> DEFINE v == Numbered(kind, n, abouts)
<1>1. DOMAIN abouts = 1..Len(abouts) /\ Len(abouts) \in Nat /\ \A i \in 1..Len(abouts) : abouts[i] \in About
  OBVIOUS
<1>2. \A i \in 1..Len(abouts) : SeqAfter(n, i) \in 1..MaxSeq
  <2> SUFFICES ASSUME NEW i \in 1..Len(abouts) PROVE SeqAfter(n, i) \in 1..MaxSeq
    OBVIOUS
  <2>1. i - 1 \in Nat /\ (i - 1) + 1 = i
    BY <1>1
  <2> QED BY <2>1, SeqAfterNext
<1>3. /\ \A i \in 1..Len(abouts) : v[i] = Frame(kind, SeqAfter(n, i), abouts[i])
      /\ v = [i \in 1..Len(abouts) |-> v[i]]
  BY <1>1 DEF Numbered
<1> HIDE DEF v
<1>4. \A i \in 1..Len(abouts) : v[i] \in Message
  BY <1>1, <1>2, <1>3 DEF Frame, Message
<1>5. v \in Seq(Message) /\ Len(v) = Len(abouts) /\ DOMAIN v = DOMAIN abouts
  BY <1>1, <1>3, <1>4
<1>6. SeqAfter(n, Len(v)) \in 0..MaxSeq
  BY <1>1, <1>5, SeqAfterNext
<1> QED BY <1>1, <1>3, <1>5, <1>6 DEF v

Counted(L, n) == [L EXCEPT !.sent = SeqAfter(L.sent, n)]
Longer(p, v) == [p EXCEPT !.toModule = p.toModule \o v]
Filled(P, t, v) == [P EXCEPT ![t] = Longer(P[t], v)]

LEMMA SentAllIs ==
  ASSUME NEW S, S.link \in Link, S.pipe \in [Slot -> Pipe],
         NEW kind \in ToModule, NEW abouts \in Seq(About)
  PROVE  LET N == SentAll(S, kind, abouts)
             v == Numbered(kind, S.link.sent, abouts)
             t == S.link.transport
         IN  IF t = Unset \/ S.pipe[t].server # "open" \/ (~S.link.authenticated /\ kind # "challenge")
             THEN N = S
             ELSE /\ N.link = Counted(S.link, Len(v)) /\ N.pipe = Filled(S.pipe, t, v)
                  /\ N.heard = S.heard /\ N.why = S.why
                  /\ N.link \in Link /\ N.pipe \in [Slot -> Pipe]
<1> DEFINE N == SentAll(S, kind, abouts)
<1> DEFINE L == S.link
<1> DEFINE P == S.pipe
<1> DEFINE t == L.transport
<1> DEFINE v == Numbered(kind, L.sent, abouts)
<1> DEFINE M == [L EXCEPT !.sent = SeqAfter(L.sent, Len(v))]
<1> DEFINE R == [P[t] EXCEPT !.toModule = P[t].toModule \o v]
<1> DEFINE Q == [P EXCEPT ![t] = R]
<1>2. CASE t = Unset \/ P[t].server # "open" \/ (~L.authenticated /\ kind # "challenge")
  BY <1>2 DEF SentAll
<1>3. CASE ~(t = Unset \/ P[t].server # "open" \/ (~L.authenticated /\ kind # "challenge"))
  <2>1. L.sent \in 0..MaxSeq /\ t \in Slot /\ P[t] \in Pipe
    BY <1>3 DEF Link
  <2>2. v \in Seq(Message) /\ Len(v) = Len(abouts) /\ SeqAfter(L.sent, Len(v)) \in 0..MaxSeq
    BY <2>1, NumberedIs
  <2> DEFINE M2 == [L EXCEPT !.sent = SeqAfter(L.sent, Len(abouts))]
  <2> DEFINE Q2 == [P EXCEPT ![t].toModule = P[t].toModule \o v]
  <2>3. N = [link |-> M2, heard |-> S.heard, why |-> S.why, pipe |-> Q2]
    BY <1>3 DEF SentAll, Numbered
  <2>9. M2 = M /\ Q2 = Q
    BY <2>2
  <2> HIDE DEF M2, Q2, N
  <2>4. N.link = M2 /\ N.heard = S.heard /\ N.why = S.why /\ N.pipe = Q2
    BY <2>3
  <2>5. P[t].toModule \o v \in Seq(Message)
    BY <2>1, <2>2 DEF Pipe
  <2>6. M \in Link
    BY <2>2 DEF Link
  <2>7. R \in Pipe
    BY <2>1, <2>5 DEF Pipe
  <2> HIDE DEF M, R
  <2>8. Q \in [Slot -> Pipe]
    BY <2>1, <2>7
  <2> QED BY <1>3, <2>4, <2>6, <2>8, <2>9 DEF M, R, N, Counted, Filled, Longer
<1> QED BY <1>2, <1>3

-----------------------------------------------------------------------------
(* The runtime.                                                            *)

LEMMA InitHolds == Init => IInv
<1> SUFFICES ASSUME Init PROVE IInv
  OBVIOUS
<1>1. << >> \in Seq(Message) /\ Unset \notin Slot /\ 0 \in 0..MaxSeq /\ 0 \in 0..MaxBeats
      /\ 0 \in 0..MaxMisses /\ 0 \in 0..MaxRuns /\ 0 \in 0..MaxSets
  BY NativeAssumption
<1>2. NoLink \in Link /\ Away \in Module
  BY <1>1 DEF NoLink, Link, Away, Module
<1>3. NoPipe \in Pipe
  BY <1>1 DEF NoPipe, Pipe
<1>4. Types
  BY <1>1, <1>2, <1>3 DEF Init, Types, Wanted
<1>5. Ends /\ NobodyAccused
  BY DEF Init, Ends, NobodyAccused, NoLink, Away
<1>6. ASSUME NEW t \in Slot PROVE Each(t)
  <2>1. pipe[t] = NoPipe /\ module.slot # t /\ up = "down"
    BY <1>1 DEF Init, Away
  <2>2. Instance(t)
    BY <2>1 DEF Instance, Open, With, NoPipe
  <2> QED BY <2>1, <2>2 DEF Each, Content, Worded, Queued, Reads, Hears, Talk, Open, With, NoPipe
<1> QED BY <1>4, <1>5, <1>6 DEF IInv

\* What neither end ever says of the other.
Accused == {"protocol error", "unexpected hello", "data before authentication", "authentication failed"}
Blamed == {"gap", "out of turn"}

\* Every end the runtime makes of a connection: its link has no transport, and
\* each instance is either as it was, and not open, or shut.
LEMMA RuntimeEnds ==
  ASSUME IInv, Types', link'.transport = Unset, Unproved(link'),
         why' \notin Accused, module' = module, whyModule' = whyModule,
         \A u \in Slot : \/ pipe'[u] = pipe[u] /\ ~Open(u)
                            /\ (up' = "up" \/ up' = up \/ pipe[u].server \in {"free", "closed"})
                         \/ Shuts(u) /\ (up' = "up" \/ pipe'[u].server = "closed"),
         applied' = applied
  PROVE  IInv'
<1>1. Ends' /\ NobodyAccused'
  BY DEF IInv, Ends, NobodyAccused, Accused, Unproved
<1>2. ASSUME NEW u \in Slot PROVE Each(u)'
  <2>1. Each(u)
    BY DEF IInv
  <2>2. CASE pipe'[u] = pipe[u] /\ ~Open(u) /\ (up' = "up" \/ up' = up \/ pipe[u].server \in {"free", "closed"})
    BY <2>1, <2>2, Untouched
  <2>3. CASE Shuts(u) /\ (up' = "up" \/ pipe'[u].server = "closed")
    BY <2>1, <2>3, ShutEach
  <2> QED BY <2>2, <2>3
<1> QED BY <1>1, <1>2 DEF IInv

\* Nothing of the conversation is touched.
LEMMA NothingSaid ==
  ASSUME IInv, Types', link' = link, why' = why, pipe' = pipe, module' = module, whyModule' = whyModule,
         run' = run, features' = features, applied' = applied, up' = up \/ up' = "up"
  PROVE  IInv'
<1>1. Ends' /\ NobodyAccused'
  BY DEF IInv, Ends, NobodyAccused
<1>2. \A u \in Slot : Each(u)'
  BY Untouched DEF IInv
<1> QED BY <1>1, <1>2 DEF IInv

LEMMA StartStep == ASSUME IInv, Start PROVE IInv'
<1>1. Types
  BY DEF IInv
<1>2. NoLink \in Link /\ NoLink.transport = Unset /\ Unproved(NoLink)
  BY Bounded DEF NoLink, Link, Unproved
<1>3. run' \in 1..MaxRuns
  BY <1>1, Bounded DEF Start, Types
<1>4. Types'
  <2>1. link' \in Link /\ module' \in Module /\ pipe' \in [Slot -> Pipe]
    BY <1>1, <1>2 DEF Start, Types, moduleVars
  <2>2. features' \in Wanted /\ applied' \in Wanted
    BY <1>1 DEF Start, Types, moduleVars, Wanted
  <2>3. up' \in {"down", "starting", "up"} /\ run' \in 0..MaxRuns /\ heard' \in {"here", "gone"}
        /\ keyFile' \in (1..MaxRuns) \cup {Unset} /\ sets' \in 0..MaxSets /\ beats' \in 0..MaxBeats
    BY <1>1, <1>3, Bounded DEF Start, Types, counters
  <2> QED BY <2>1, <2>2, <2>3 DEF Types
<1>5. \A u \in Slot : pipe'[u] = pipe[u] /\ ~Open(u) /\ pipe[u].server \in {"free", "closed"}
  BY DEF Start, IInv, Each, Instance, Open
<1> QED BY <1>2, <1>4, <1>5, RuntimeEnds DEF Start, moduleVars, Accused

LEMMA ListenStep == ASSUME IInv, Listen PROVE IInv'
<1>1. Types'
  BY DEF IInv, Listen, Types, moduleVars, counters
<1> QED BY <1>1, NothingSaid DEF Listen, moduleVars

LEMMA HangupShuts ==
  ASSUME IInv, pipe' = Hangup
  PROVE  /\ pipe' \in [Slot -> Pipe]
         /\ \A u \in Slot : \/ pipe'[u] = pipe[u] /\ ~Open(u) /\ pipe[u].server \in {"free", "closed"}
                            \/ Shuts(u) /\ pipe'[u].server = "closed"
<1>1. << >> \in Seq(Message) /\ pipe \in [Slot -> Pipe]
  BY DEF IInv, Types
<1>2. \A u \in Slot : [pipe[u] EXCEPT !.server = "closed", !.toRuntime = << >>] \in Pipe
  BY <1>1 DEF Pipe
<1>3. \A u \in Slot : pipe'[u] = IF pipe[u].server = "free" THEN pipe[u]
                                 ELSE [pipe[u] EXCEPT !.server = "closed", !.toRuntime = << >>]
  BY DEF Hangup
<1>4. pipe' \in [Slot -> Pipe]
  BY <1>1, <1>2 DEF Hangup
<1>5. ASSUME NEW u \in Slot, pipe[u].server # "free"
      PROVE  Shuts(u) /\ pipe'[u].server = "closed"
  <2>1. pipe[u] \in Pipe /\ pipe'[u] = [pipe[u] EXCEPT !.server = "closed", !.toRuntime = << >>]
    BY <1>1, <1>3, <1>5
  <2> QED BY <1>5, <2>1 DEF Shuts, Pipe
<1> QED BY <1>3, <1>4, <1>5 DEF Open

LEMMA StopStep == ASSUME IInv, Stop PROVE IInv'
<1>1. Types /\ Ends
  BY DEF IInv
<1> DEFINE D == Disconnected(Now, "runtime shutting down")
<1>2. link' = D.link /\ heard' = D.heard /\ why' = D.why
  BY DEF Stop
<1>3. /\ D.link \in Link /\ D.link.transport = Unset /\ D.heard \in {"here", "gone"}
      /\ Now.link.transport = Unset => D = Now
      /\ Now.link.transport # Unset =>
           Unproved(D.link) /\ D.why = "runtime shutting down"
  <2>1. Now.link \in Link /\ Now.heard \in {"here", "gone"}
    BY <1>1 DEF Types, Now
  <2> QED BY <2>1, DisconnectedIs
<1> HIDE DEF D
<1>4. Unproved(link') /\ why' \notin Accused
  <2>1. Now.link = link /\ Now.why = why /\ why \notin Accused /\ "runtime shutting down" \notin Accused
    BY DEF Now, IInv, NobodyAccused, Accused
  <2>2. CASE link.transport = Unset
    <3>1. link.challenged \in BOOLEAN /\ link.authenticated \in BOOLEAN
      BY <1>1 DEF Types, Link
    <3>2. Unproved(link)
      BY <1>1, <2>2, <3>1 DEF Ends, Unproved
    <3> QED BY <1>2, <1>3, <2>1, <2>2, <3>2
  <2>3. CASE link.transport # Unset
    BY <1>2, <1>3, <2>1, <2>3
  <2> QED BY <2>2, <2>3
<1>5. Types'
  <2>1. pipe' \in [Slot -> Pipe]
    BY HangupShuts DEF Stop
  <2> QED BY <1>1, <1>2, <1>3, <2>1 DEF Stop, Types, moduleVars, counters
<1>6. \A u \in Slot : \/ pipe'[u] = pipe[u] /\ ~Open(u) /\ pipe[u].server \in {"free", "closed"}
                      \/ Shuts(u) /\ pipe'[u].server = "closed"
  BY HangupShuts DEF Stop
<1> QED BY <1>2, <1>3, <1>4, <1>5, <1>6, RuntimeEnds DEF Stop, moduleVars

LEMMA CrashStep == ASSUME IInv, Crash PROVE IInv'
<1>1. Types
  BY DEF IInv
<1>2. NoLink \in Link /\ NoLink.transport = Unset /\ Unproved(NoLink)
  BY Bounded DEF NoLink, Link, Unproved
<1>3. Types'
  <2>1. pipe' \in [Slot -> Pipe]
    BY HangupShuts DEF Crash
  <2> QED BY <1>1, <1>2, <2>1 DEF Crash, Types, moduleVars, counters
<1>4. \A u \in Slot : \/ pipe'[u] = pipe[u] /\ ~Open(u) /\ pipe[u].server \in {"free", "closed"}
                      \/ Shuts(u) /\ pipe'[u].server = "closed"
  BY HangupShuts DEF Crash
<1> QED BY <1>2, <1>3, <1>4, RuntimeEnds DEF Crash, moduleVars, Accused

LEMMA BrokenIs ==
  ASSUME NEW P \in [Slot -> Pipe], NEW t \in Slot
  PROVE  /\ Broken(P, t) \in [Slot -> Pipe] /\ Broken(P, t)[t] = Destroyed(P[t])
         /\ \A u \in Slot \ {t} : Broken(P, t)[u] = P[u]
<1>1. Destroyed(P[t]) \in Pipe
  BY DestroyedIs
<1> QED BY <1>1 DEF Broken

LEMMA FilledIs ==
  ASSUME NEW P \in [Slot -> Pipe], NEW t \in Slot, NEW v
  PROVE  Filled(P, t, v)[t] = Longer(P[t], v) /\ \A u \in Slot \ {t} : Filled(P, t, v)[u] = P[u]
BY DEF Filled

\* The other instances are not open, so what becomes of the link is nothing to them.
LEMMA Others ==
  ASSUME IInv, NEW t, link.transport = t \/ link.transport = Unset, NEW u \in Slot, u # t, pipe'[u] = pipe[u], up' = up,
         module' = module, applied' = applied
  PROVE  Each(u)'
<1>1. Each(u) /\ Unset \notin Slot
  BY NativeAssumption DEF IInv
<1>2. ~Open(u)
  BY <1>1 DEF Each, Instance
<1> QED BY <1>1, <1>2, Untouched

LEMMA AcceptStep == ASSUME IInv, NEW t \in Slot, Accept(t) PROVE IInv'
<1>1. Types /\ Ends /\ Each(t) /\ pipe[t] \in Pipe /\ pipe[t].server = "queued"
  BY DEF IInv, Accept, Types
<1>2. /\ up' = up /\ up = "up" /\ run' = run /\ features' = features /\ keyFile' = keyFile
      /\ module' = module /\ applied' = applied /\ whyModule' = whyModule /\ sets' = sets /\ beats' = beats
  BY DEF Accept, moduleVars
<1>3. CASE link.transport # Unset /\ pipe[link.transport].server = "open"
  <2> DEFINE X == [pipe[t] EXCEPT !.server = "closed", !.toRuntime = << >>]
  <2>1. pipe' = [pipe EXCEPT ![t] = X] /\ link' = link /\ heard' = heard /\ why' = why
    BY <1>1, <1>3 DEF Accept, Types
  <2>2. /\ X \in Pipe /\ X.server = "closed" /\ X.toRuntime = << >>
        /\ X.client = pipe[t].client /\ X.toModule = pipe[t].toModule
    <3>1. << >> \in Seq(Message)
      OBVIOUS
    <3> QED BY <1>1, <3>1 DEF Pipe
  <2> HIDE DEF X
  <2>3. pipe' \in [Slot -> Pipe] /\ pipe'[t] = X /\ \A u \in Slot \ {t} : pipe'[u] = pipe[u]
    BY <1>1, <2>1, <2>2 DEF Types
  <2>4. Types'
    BY <1>1, <1>2, <2>1, <2>3 DEF Types
  <2>5. Ends' /\ NobodyAccused'
    BY <1>1, <1>2, <1>3, <2>1, <2>3 DEF IInv, Types, Link, Ends, NobodyAccused
  <2>6. ASSUME NEW u \in Slot PROVE Each(u)'
    <3>1. CASE u = t
      BY <1>1, <1>2, <2>2, <2>3, <3>1, ShutEach DEF Shuts
    <3>2. CASE u # t
      BY <1>2, <2>1, <2>3, <3>2, Untouched DEF IInv
    <3> QED BY <3>1, <3>2
  <2> QED BY <2>4, <2>5, <2>6 DEF IInv
<1>4. CASE ~(link.transport # Unset /\ pipe[link.transport].server = "open")
  <2> DEFINE L == [NoLink EXCEPT !.transport = t]
  <2> DEFINE X == [pipe[t] EXCEPT !.server = "open"]
  <2> DEFINE P == [pipe EXCEPT ![t] = X]
  <2>1. Becomes(Adopted(Now, t))
    BY <1>4 DEF Accept
  <2>2. Adopted(Now, t) = [link |-> L, heard |-> heard, why |-> why, pipe |-> P]
    <3>1. Now.heard = heard /\ Now.why = why /\ Now.pipe = pipe
      BY DEF Now
    <3> QED BY <1>1, <3>1 DEF Adopted, Types
  <2>3. /\ L \in Link /\ L.transport = t /\ ~L.challenged /\ ~L.authenticated /\ L.last = 0 /\ L.sent = 0
    <3>1. /\ NoLink \in Link /\ NoLink.challenged = FALSE /\ NoLink.authenticated = FALSE
          /\ NoLink.last = 0 /\ NoLink.sent = 0
      BY Bounded DEF NoLink, Link
    <3> QED BY <3>1 DEF Link
  <2>4. /\ X \in Pipe /\ X.server = "open" /\ X.client = pipe[t].client
        /\ X.toRuntime = pipe[t].toRuntime /\ X.toModule = pipe[t].toModule
    BY <1>1 DEF Pipe
  <2> HIDE DEF L, X
  <2>5. P \in [Slot -> Pipe] /\ P[t] = X /\ \A u \in Slot \ {t} : P[u] = pipe[u]
    BY <1>1, <2>4 DEF Types
  <2> HIDE DEF P
  <2>6. link' = L /\ pipe' = P /\ heard' = heard /\ why' = why
    BY <2>1, <2>2 DEF Becomes
  <2>7. Types'
    BY <1>1, <1>2, <2>3, <2>5, <2>6 DEF Types
  <2>8. Ends' /\ NobodyAccused'
    BY <1>1, <1>2, <2>3, <2>4, <2>5, <2>6 DEF IInv, Ends, NobodyAccused
  <2>9. ASSUME NEW u \in Slot, u # t PROVE Each(u)'
    <3>1. Each(u) /\ ~Open(u)
      <4>1. Each(u) /\ Unset \notin Slot
        BY NativeAssumption DEF IInv
      <4> QED BY <1>4, <4>1 DEF Each, Instance, Open
    <3> QED BY <1>2, <2>5, <2>6, <2>9, <3>1, Untouched
  <2>10. Each(t)'
    <3>1. /\ pipe'[t] = X /\ X.toRuntime = <<Hello>> /\ X.toModule = << >>
          /\ With(t) => module.state = "authenticating" /\ module.sent = 1 /\ module.last = 0
      BY <1>1, <2>4, <2>5, <2>6 DEF Each, Queued
    <3>2. Instance(t)'
      BY <1>1, <1>2, <2>3, <2>4, <2>6, <3>1 DEF Each, Instance, Open, With
    <3>3. Content(t)' /\ Queued(t)'
      BY <1>1, <2>4, <3>1 DEF Each, Content, Queued
    <3>4. Reads(t)'
      BY <1>1, <1>2, <2>4, <3>1 DEF Each, Reads, With
    <3>5. Chain(<<Hello>>, 0) /\ UpTo(<<Hello>>, 0) = 1 /\ UpTo(<< >>, 0) = 0
      BY Bounded DEF Chain, UpTo, Hello, Frame, NextSeq
    <3>6. Hears(t)'
      BY <2>3, <2>6, <3>1, <3>5 DEF Hears
    <3>7. Talk(t)'
      BY <1>2, <2>3, <2>6, <3>1, <3>5 DEF Talk, With
    <3> QED BY <3>2, <3>3, <3>4, <3>6, <3>7 DEF Each
  <2> QED BY <2>7, <2>8, <2>9, <2>10 DEF IInv
<1> QED BY <1>3, <1>4

LEMMA PeerEndsStep == ASSUME IInv, NEW t \in Slot, PeerEnds(t) PROVE IInv'
<1>1. Types /\ Ends /\ Each(t) /\ pipe[t] \in Pipe /\ pipe[t].server = "open" /\ link.transport = t
  BY DEF IInv, PeerEnds, Types, Each, Instance, Open
<1>2. /\ up' = up /\ run' = run /\ features' = features /\ keyFile' = keyFile /\ link' = link
      /\ heard' = heard /\ why' = why
      /\ module' = module /\ applied' = applied /\ whyModule' = whyModule /\ sets' = sets /\ beats' = beats
  BY DEF PeerEnds, moduleVars, runtimeVars, counters
<1>3. pipe' = Broken(pipe, t)
  BY DEF PeerEnds, Broken
<1>4. /\ pipe' \in [Slot -> Pipe] /\ \A u \in Slot \ {t} : pipe'[u] = pipe[u]
      /\ pipe'[t].server = "destroyed" /\ Shuts(t)
  BY <1>1, <1>3, BrokenIs, DestroyedIs DEF Types, Shuts
<1>5. Types'
  BY <1>1, <1>2, <1>4 DEF Types
<1>6. Ends' /\ NobodyAccused'
  BY <1>1, <1>2, <1>4 DEF IInv, Ends, NobodyAccused
<1>7. ASSUME NEW u \in Slot PROVE Each(u)'
  <2>1. CASE u = t
    <3>1. up = "up"
      BY <1>1 DEF Each, Instance
    <3> QED BY <1>1, <1>2, <1>4, <2>1, <3>1, ShutEach
  <2>2. CASE u # t
    BY <1>2, <1>4, <2>2, Untouched DEF IInv
  <2> QED BY <2>1, <2>2
<1> QED BY <1>5, <1>6, <1>7 DEF IInv

LEMMA CloseEventStep == ASSUME IInv, NEW t \in Slot, CloseEvent(t) PROVE IInv'
<1> DEFINE X == [pipe[t] EXCEPT !.server = "closed"]
<1> DEFINE P == [pipe EXCEPT ![t] = X]
<1> DEFINE S == [link |-> link, heard |-> heard, why |-> why, pipe |-> P]
<1> DEFINE D == Disconnected(S, "peer closed")
<1>1. Types /\ Ends /\ Each(t) /\ pipe[t] \in Pipe /\ pipe[t].server = "destroyed" /\ up = "up"
  BY DEF IInv, CloseEvent, Types, Each, Instance
<1>2. /\ up' = up /\ run' = run /\ features' = features /\ keyFile' = keyFile
      /\ module' = module /\ applied' = applied /\ whyModule' = whyModule /\ sets' = sets /\ beats' = beats
  BY DEF CloseEvent, moduleVars, counters
<1>3. Becomes(D)
  <2>1. [Now EXCEPT !.pipe[t].server = "closed"] = S
    BY <1>1 DEF Now, Types
  <2> QED BY <2>1 DEF CloseEvent
<1>4. /\ X \in Pipe /\ X.server = "closed" /\ X.toRuntime = << >>
      /\ X.client = pipe[t].client /\ X.toModule = pipe[t].toModule
  BY <1>1 DEF Pipe, Each, Instance
<1> HIDE DEF X
<1>5. P \in [Slot -> Pipe] /\ P[t] = X /\ \A u \in Slot \ {t} : P[u] = pipe[u]
  BY <1>1, <1>4 DEF Types
<1> HIDE DEF P
<1>6. S.link = link /\ S.heard = heard /\ S.why = why /\ S.pipe = P
  OBVIOUS
<1> HIDE DEF S
<1>7. /\ D.link \in Link /\ D.link.transport = Unset /\ D.heard \in {"here", "gone"}
      /\ S.link.transport = Unset => D = S
      /\ S.link.transport # Unset => Unproved(D.link) /\ D.why = "peer closed" /\ D.pipe = Broken(S.pipe, S.link.transport)
  BY <1>1, <1>6, DisconnectedIs DEF Types
<1> HIDE DEF D
<1>8. link' = D.link /\ heard' = D.heard /\ why' = D.why /\ pipe' = D.pipe
  BY <1>3 DEF Becomes
<1>9. /\ pipe' \in [Slot -> Pipe] /\ Unproved(link') /\ why' \notin Accused
      /\ \A u \in Slot : Shuts(u) \/ (pipe'[u] = pipe[u] /\ ~Open(u))
  <2>1. /\ P[t].server = "closed" /\ P[t].toRuntime = << >> /\ pipe[t].server # "free"
        /\ P[t].client = pipe[t].client /\ P[t].toModule = pipe[t].toModule
    BY <1>1, <1>4, <1>5
  <2>2. \A u \in Slot \ {t} : Open(u) => link.transport = u
    BY DEF IInv, Each, Instance
  <2>3. CASE link.transport = Unset
    <3>1. pipe' = P /\ link' = link /\ why' = why
      BY <1>6, <1>7, <1>8, <2>3
    <3>2. Unproved(link)
      BY <1>1, <2>3 DEF Ends, Unproved
    <3>3. Unset \notin Slot
      BY NativeAssumption
    <3>4. \A u \in Slot \ {t} : ~Open(u)
      BY <2>2, <2>3, <3>3
    <3>5. Shuts(t)
      BY <2>1, <3>1 DEF Shuts
    <3> QED BY <1>5, <3>1, <3>2, <3>4, <3>5 DEF IInv, NobodyAccused, Accused
  <2>4. CASE link.transport # Unset
    <3> DEFINE c == link.transport
    <3>1. c \in Slot /\ pipe[c].server \in {"open", "destroyed"}
      BY <1>1, <2>4 DEF Types, Link, Ends
    <3>2. pipe' = Broken(P, c) /\ Unproved(link') /\ why' = "peer closed"
      BY <1>6, <1>7, <1>8, <2>4
    <3> HIDE DEF c
    <3>3. /\ pipe' \in [Slot -> Pipe] /\ pipe'[c] = Destroyed(P[c])
          /\ \A u \in Slot \ {c} : pipe'[u] = P[u]
      BY <1>5, <3>1, <3>2, BrokenIs
    <3>4. P[c] \in Pipe /\ P[t] \in Pipe
      BY <1>5, <3>1
    <3>5. Shuts(t)
      BY <2>1, <3>3, <3>4, DestroyedIs DEF Shuts
    <3>6. c # t => Shuts(c)
      BY <1>5, <3>1, <3>3, <3>4, DestroyedIs DEF Shuts
    <3>7. \A u \in Slot \ {t, c} : pipe'[u] = pipe[u] /\ ~Open(u)
      BY <1>5, <2>2, <3>3 DEF c
    <3> QED BY <3>1, <3>2, <3>3, <3>5, <3>6, <3>7 DEF Accused
  <2> QED BY <2>3, <2>4
<1>10. Types'
  BY <1>1, <1>2, <1>7, <1>8, <1>9 DEF Types
<1> QED BY <1>1, <1>2, <1>7, <1>8, <1>9, <1>10, RuntimeEnds

\* What is put behind the frames on a pipe.
LEMMA Either ==
  ASSUME NEW q \in Seq(Message), NEW v \in Seq(Message)
  PROVE  /\ q \o v \in Seq(Message)
         /\ \A i \in DOMAIN (q \o v) : \/ i \in DOMAIN q /\ (q \o v)[i] = q[i]
                                       \/ \E j \in DOMAIN v : (q \o v)[i] = v[j]
<1> DEFINE c == q \o v
<1>1. /\ Len(c) = Len(q) + Len(v) /\ Len(q) \in Nat /\ Len(v) \in Nat
      /\ DOMAIN c = 1..Len(c) /\ DOMAIN q = 1..Len(q) /\ DOMAIN v = 1..Len(v)
      /\ \A i \in 1..Len(q) : c[i] = q[i]
      /\ \A i \in 1..Len(v) : c[Len(q) + i] = v[i]
  OBVIOUS
<1>2. c \in Seq(Message)
  OBVIOUS
<1> HIDE DEF c
<1>3. ASSUME NEW i \in 1..Len(c), i \notin 1..Len(q) PROVE \E j \in 1..Len(v) : c[i] = v[j]
  <2>1. i - Len(q) \in 1..Len(v) /\ i = Len(q) + (i - Len(q))
    BY <1>1, <1>3
  <2> QED BY <1>1, <2>1
<1> QED BY <1>1, <1>2, <1>3 DEF c

LEMMA WordedExtended ==
  ASSUME NEW q \in Seq(Message), NEW v \in Seq(Message), Worded(q), Worded(v)
  PROVE  Worded(q \o v)
<1> DEFINE c == q \o v
<1>1. \A i \in DOMAIN c : (i \in DOMAIN q /\ c[i] = q[i]) \/ \E j \in DOMAIN v : c[i] = v[j]
  BY Either
<1> HIDE DEF c
<1>2. Worded(c)
  BY <1>1 DEF Worded
<1> QED BY <1>2 DEF c

\* What every frame the runtime says to a proved module has in common.
LEMMA RuntimeSays ==
  ASSUME IInv, Types', NEW t \in Slot, Open(t), link.authenticated, NEW v \in Seq(Message),
         \A i \in DOMAIN v : /\ v[i].seq = SeqAfter(link.sent, i) /\ v[i].kind \in {"set", "ping"}
                             /\ v[i].kind = "set" => v[i].about \in Key \X (1..MaxSets)
                             /\ v[i].kind = "ping" => v[i].about \in Nat,
         pipe' = Filled(pipe, t, v),
         link'.transport = t, link'.sent = SeqAfter(link.sent, Len(v)), link'.last = link.last,
         link'.challenged = link.challenged, link'.authenticated = link.authenticated,
         up' = up, run' = run, why' = why, module' = module, applied' = applied, whyModule' = whyModule,
         \A k \in Key : features'[k] # Unset =>
           IF Sets(v, k) = {} THEN features'[k] = features[k] ELSE Settled(v, k, applied[k], features'[k])
  PROVE  IInv'
<1>1. Types /\ Ends /\ Each(t) /\ link.transport = t
  BY DEF IInv, Each, Instance
<1>2. /\ pipe'[t].toModule = pipe[t].toModule \o v /\ pipe'[t].toRuntime = pipe[t].toRuntime
      /\ pipe'[t].server = pipe[t].server /\ pipe'[t].client = pipe[t].client
      /\ \A u \in Slot \ {t} : pipe'[u] = pipe[u]
  <2>1. pipe \in [Slot -> Pipe]
    BY <1>1 DEF Types
  <2>2. pipe'[t] = Longer(pipe[t], v) /\ \A u \in Slot \ {t} : pipe'[u] = pipe[u]
    BY <2>1, FilledIs
  <2>3. pipe[t] \in Pipe
    BY <2>1
  <2> DEFINE w == pipe[t].toModule \o v
  <2>4. Longer(pipe[t], v) = [pipe[t] EXCEPT !.toModule = w]
    BY DEF Longer
  <2> HIDE DEF w
  <2>5. /\ Longer(pipe[t], v).toModule = w /\ Longer(pipe[t], v).toRuntime = pipe[t].toRuntime
        /\ Longer(pipe[t], v).server = pipe[t].server /\ Longer(pipe[t], v).client = pipe[t].client
    BY <2>3, <2>4 DEF Pipe
  <2> HIDE DEF w
  <2> QED BY <2>2, <2>5 DEF w
<1>3. Ends' /\ NobodyAccused'
  BY <1>1, <1>2 DEF IInv, Ends, NobodyAccused, Open
<1>4. \A u \in Slot \ {t} : Each(u)'
  BY <1>1, <1>2, Others
<1> DEFINE q == pipe[t].toModule
<1> DEFINE c == q \o v
<1>5. /\ q \in Seq(Message) /\ c \in Seq(Message)
      /\ \A i \in DOMAIN c : \/ i \in DOMAIN q /\ c[i] = q[i]
                             \/ \E j \in DOMAIN v : c[i] = v[j]
  <2>1. q \in Seq(Message)
    BY <1>1 DEF Types, Pipe
  <2> HIDE DEF q
  <2> QED BY <2>1, Either
<1>6. Instance(t)' /\ Queued(t)'
  BY <1>1, <1>2 DEF Each, Instance, Queued, Open, With
<1>7. Content(t)'
  <2>1. Worded(v)
    BY DEF ToModule, Worded
  <2>2. Worded(q)
    BY <1>1 DEF Each, Content
  <2> HIDE DEF q
  <2>3. Worded(c)
    BY <1>5, <2>1, <2>2, WordedExtended
  <2> HIDE DEF c
  <2>4. pipe'[t].toModule = c /\ pipe'[t].toRuntime = pipe[t].toRuntime
    BY <1>2 DEF c, q
  <2> QED BY <1>1, <2>3, <2>4 DEF Each, Content
<1>8. Hears(t)'
  BY <1>1, <1>2 DEF Each, Hears, Open, Ends
<1>9. CASE ~With(t)
  <2>1. Reads(t)' /\ Talk(t)'
    BY <1>9 DEF Reads, Talk, With
  <2> QED BY <1>3, <1>4, <1>6, <1>7, <1>8, <2>1 DEF IInv, Each
<1>10. CASE With(t)
  <2>1. /\ module.state = "ready" /\ link.sent = UpTo(q, module.last) /\ Chain(q, module.last)
        /\ \A i \in DOMAIN q : q[i].kind \in {"set", "ping"}
        /\ module.sent = UpTo(pipe[t].toRuntime, link.last) /\ module.secret = run /\ ~link.challenged
        /\ \A k \in Key : features[k] # Unset => Settled(q, k, applied[k], features[k])
    BY <1>1, <1>10 DEF Each, Talk, Reads, Ends
  <2>2. module.last \in 0..MaxSeq
    BY <1>1 DEF Types, Module
  <2> HIDE DEF q
  <2>3. Chain(c, module.last) /\ UpTo(c, module.last) = SeqAfter(link.sent, Len(v))
    BY <1>5, <2>1, <2>2, ChainExtended
  <2>4. \A i \in DOMAIN c : c[i].kind \in {"set", "ping"}
    BY <1>5, <2>1
  <2>5. ASSUME NEW k \in Key, features'[k] # Unset
        PROVE  Settled(c, k, applied[k], features'[k])
    <3>1. IF Sets(v, k) = {} THEN Settled(q, k, applied[k], features'[k]) ELSE Settled(v, k, applied[k], features'[k])
      BY <2>1, <2>5
    <3> QED BY <1>5, <3>1, SettledExtended
  <2> HIDE DEF c
  <2>6. pipe'[t].toModule = c /\ pipe'[t].toRuntime = pipe[t].toRuntime
    BY <1>2 DEF c, q
  <2>7. Reads(t)'
    BY <2>1, <2>3, <2>4, <2>6 DEF Reads
  <2>8. Talk(t)'
    BY <2>1, <2>3, <2>5, <2>6 DEF Talk
  <2> QED BY <1>3, <1>4, <1>6, <1>7, <1>8, <2>7, <2>8 DEF IInv, Each
<1> QED BY <1>9, <1>10

LEMMA SetFeatureStep == ASSUME IInv, NEW k \in Key, SetFeature(k) PROVE IInv'
<1> DEFINE n == sets'
<1> DEFINE N == Sent(Now, "set", <<k, n>>)
<1>1. Types /\ Ends /\ NobodyAccused /\ \A u \in Slot : Each(u)
  BY DEF IInv
<1>2. /\ up' = up /\ run' = run /\ keyFile' = keyFile /\ module' = module /\ applied' = applied
      /\ whyModule' = whyModule /\ beats' = beats /\ n \in 1..MaxSets /\ n \in Nat
      /\ features' = [features EXCEPT ![k] = n] /\ features' \in Wanted
  BY <1>1, Bounded DEF SetFeature, moduleVars, Types, Wanted
<1>3. link' = N.link /\ heard' = N.heard /\ why' = N.why /\ pipe' = N.pipe
  BY DEF SetFeature, Becomes
<1>4. Now.link = link /\ Now.heard = heard /\ Now.why = why /\ Now.pipe = pipe
  BY DEF Now
<1> DEFINE one == <<<<k, n>>>>
<1>5. N = SentAll(Now, "set", one) /\ "set" \in ToModule
  BY DEF Sent, ToModule
<1>6. one \in Seq(About) /\ Len(one) = 1 /\ one[1] = <<k, n>> /\ DOMAIN one = {1}
  BY <1>2 DEF About
<1> HIDE DEF n, one
<1> DEFINE v == Numbered("set", Now.link.sent, one)
<1>7. Now.link \in Link /\ Now.pipe \in [Slot -> Pipe] /\ Now.link.sent \in 0..MaxSeq
  BY <1>1, <1>4 DEF Types, Link
<1>8. IF Now.link.transport = Unset \/ Now.pipe[Now.link.transport].server # "open"
           \/ (~Now.link.authenticated /\ "set" # "challenge")
      THEN N = Now
      ELSE /\ N.link = Counted(Now.link, Len(v)) /\ N.pipe = Filled(Now.pipe, Now.link.transport, v)
           /\ N.heard = Now.heard /\ N.why = Now.why
           /\ N.link \in Link /\ N.pipe \in [Slot -> Pipe]
  BY <1>5, <1>6, <1>7, SentAllIs
<1> HIDE DEF N
<1>9. CASE link.transport = Unset \/ pipe[link.transport].server # "open" \/ ~link.authenticated
  <2>1. link' = link /\ heard' = heard /\ why' = why /\ pipe' = pipe
    BY <1>3, <1>4, <1>8, <1>9
  <2>2. Types'
    BY <1>1, <1>2, <2>1 DEF Types, n
  <2>3. Ends' /\ NobodyAccused'
    BY <1>1, <1>2, <2>1 DEF Ends, NobodyAccused
  <2>4. ASSUME NEW u \in Slot PROVE Each(u)'
    <3>1. Open(u) => ~link.authenticated
      <4>1. Open(u) => link.transport = u
        BY <1>1 DEF Each, Instance
      <4>2. Unset \notin Slot
        BY NativeAssumption
      <4> QED BY <1>9, <4>1, <4>2 DEF Open
    <3>2. Instance(u)' /\ Content(u)' /\ Queued(u)' /\ Reads(u)' /\ Hears(u)'
      BY <1>1, <1>2, <2>1 DEF Each, Instance, Content, Queued, Reads, Hears, Open, With
    <3>3. Talk(u)'
      BY <1>1, <1>2, <2>1, <3>1 DEF Each, Talk, Open, With
    <3> QED BY <3>2, <3>3 DEF Each
  <2> QED BY <2>2, <2>3, <2>4 DEF IInv
<1>10. CASE ~(link.transport = Unset \/ pipe[link.transport].server # "open" \/ ~link.authenticated)
  <2> DEFINE t == link.transport
  <2>1. t \in Slot /\ Open(t) /\ link.authenticated
    BY <1>1, <1>10 DEF Types, Link, Open
  <2>2. /\ link' = Counted(link, Len(v)) /\ pipe' = Filled(pipe, t, v) /\ heard' = heard /\ why' = why
        /\ link' \in Link /\ pipe' \in [Slot -> Pipe]
    BY <1>3, <1>4, <1>8, <1>10
  <2>3. /\ v \in Seq(Message) /\ Len(v) = 1 /\ DOMAIN v = {1}
        /\ v[1] = Frame("set", SeqAfter(link.sent, 1), <<k, n>>)
    BY <1>4, <1>5, <1>6, <1>7, NumberedIs
  <2> HIDE DEF v
  <2>4. /\ v[1].kind = "set" /\ v[1].seq = SeqAfter(link.sent, 1) /\ v[1].about = <<k, n>>
        /\ v[1].about \in Key \X (1..MaxSets) /\ v[1].about[1] = k /\ v[1].about[2] = n
    BY <1>2, <2>3 DEF Frame
  <2>5. /\ link'.transport = t /\ link'.sent = SeqAfter(link.sent, Len(v)) /\ link'.last = link.last
        /\ link'.challenged = link.challenged /\ link'.authenticated = link.authenticated
    BY <1>1, <2>2 DEF Counted, Types, Link
  <2>6. Types'
    BY <1>1, <1>2, <2>2 DEF Types, n
  <2>7. ASSUME NEW j \in Key, features'[j] # Unset
        PROVE  IF Sets(v, j) = {} THEN features'[j] = features[j] ELSE Settled(v, j, applied[j], features'[j])
    <3>1. CASE j = k
      <4>1. Sets(v, j) = {1} /\ features'[j] = n
        BY <1>1, <1>2, <2>3, <2>4, <3>1 DEF Sets, Types, Wanted
      <4> QED BY <2>4, <4>1 DEF Settled
    <3>2. CASE j # k
      <4>1. Sets(v, j) = {} /\ features'[j] = features[j]
        BY <1>1, <1>2, <2>3, <2>4, <3>2 DEF Sets, Types, Wanted
      <4> QED BY <4>1
    <3> QED BY <3>1, <3>2
  <2> HIDE DEF t
  <2> QED BY <1>2, <2>1, <2>2, <2>3, <2>4, <2>5, <2>6, <2>7, RuntimeSays
<1> QED BY <1>9, <1>10

\* The runtime lets go of the connection it has, whatever it has just read of it.
LEMMA LetGo ==
  ASSUME IInv, NEW t \in Slot, link.transport = t, NEW S, NEW reason, reason \notin Accused,
         S.link \in Link, S.link.transport = t, S.heard \in {"here", "gone"},
         S.pipe \in [Slot -> Pipe], S.pipe[t].server = pipe[t].server, S.pipe[t].client = pipe[t].client,
         S.pipe[t].toModule = pipe[t].toModule, \A u \in Slot \ {t} : S.pipe[u] = pipe[u],
         Becomes(Disconnected(S, reason)),
         up' = up, run' = run, features' = features, keyFile' = keyFile, module' = module,
         applied' = applied, whyModule' = whyModule, sets' = sets, beats' \in 0..MaxBeats
  PROVE  IInv'
<1> DEFINE D == Disconnected(S, reason)
<1>1. Types /\ Ends /\ Each(t) /\ pipe[t].server \in {"open", "destroyed"} /\ Unset \notin Slot
  BY NativeAssumption DEF IInv, Ends
<1>2. /\ D.link \in Link /\ D.link.transport = Unset /\ D.heard \in {"here", "gone"}
      /\ S.link.transport # Unset => Unproved(D.link) /\ D.why = reason /\ D.pipe = Broken(S.pipe, S.link.transport)
  BY DisconnectedIs
<1>3. link' = D.link /\ heard' = D.heard /\ why' = D.why /\ pipe' = D.pipe
  BY DEF Becomes
<1> HIDE DEF D
<1>4. pipe' = Broken(S.pipe, t) /\ Unproved(link') /\ why' = reason
  BY <1>1, <1>2, <1>3
<1>5. /\ pipe' \in [Slot -> Pipe] /\ pipe'[t] = Destroyed(S.pipe[t])
      /\ \A u \in Slot \ {t} : pipe'[u] = S.pipe[u]
  BY <1>4, BrokenIs
<1>6. Shuts(t)
  <2>1. S.pipe[t] \in Pipe
    OBVIOUS
  <2> QED BY <1>1, <1>5, <2>1, DestroyedIs DEF Shuts
<1>7. \A u \in Slot \ {t} : pipe'[u] = pipe[u] /\ ~Open(u)
  BY <1>1, <1>5 DEF IInv, Each, Instance
<1>8. up = "up"
  BY <1>1 DEF Each, Instance
<1>9. Types'
  BY <1>1, <1>2, <1>3, <1>5 DEF Types
<1> QED BY <1>2, <1>3, <1>4, <1>6, <1>7, <1>8, <1>9, RuntimeEnds

LEMMA BeatStep == ASSUME IInv, Beat PROVE IInv'
<1> DEFINE missed == link.misses + (IF link.pong # 0 THEN 1 ELSE 0)
<1> DEFINE n == beats'
<1> DEFINE t == link.transport
<1>1. Types /\ Ends /\ NobodyAccused /\ link \in Link /\ pipe \in [Slot -> Pipe] /\ heard \in {"here", "gone"}
  BY DEF IInv, Types
<1>2. /\ up' = up /\ run' = run /\ keyFile' = keyFile /\ module' = module /\ applied' = applied
      /\ whyModule' = whyModule /\ sets' = sets /\ features' = features
      /\ n \in 1..MaxBeats /\ n \in 0..MaxBeats /\ n \in Nat /\ link.authenticated
  <2>1. /\ up' = up /\ run' = run /\ keyFile' = keyFile /\ module' = module /\ applied' = applied
        /\ whyModule' = whyModule /\ sets' = sets /\ features' = features /\ link.authenticated
    BY DEF Beat, moduleVars
  <2>2. beats \in 0..MaxBeats /\ n = beats + 1 /\ beats < MaxBeats
    BY <1>1 DEF Beat, Types
  <2> HIDE DEF n
  <2> QED BY <2>1, <2>2, Bounded
<1>3. t \in Slot /\ Unset \notin Slot /\ \A u \in Slot \ {t} : Each(u) /\ ~Open(u)
  <2>1. t \in Slot
    BY <1>1, <1>2 DEF Ends, Link
  <2> QED BY <2>1, NativeAssumption DEF IInv, Each, Instance
<1>4. Now.link = link /\ Now.heard = heard /\ Now.why = why /\ Now.pipe = pipe
  BY DEF Now
<1>5. CASE link.pong # 0 /\ missed >= MaxMisses
  <2>1. Becomes(Disconnected(Now, "unanswered heartbeats"))
    BY <1>5 DEF Beat
  <2>2. "unanswered heartbeats" \notin Accused
    BY DEF Accused
  <2> HIDE DEF t
  <2> QED BY <1>1, <1>2, <1>3, <1>4, <2>1, <2>2, LetGo DEF t
<1>6. CASE ~(link.pong # 0 /\ missed >= MaxMisses)
  <2> DEFINE L == [link EXCEPT !.misses = missed, !.pong = n]
  <2> DEFINE S == [Now EXCEPT !.link.misses = missed, !.link.pong = n]
  <2> DEFINE one == <<n>>
  <2> DEFINE N == SentAll(S, "ping", one)
  <2>1. Becomes(N) /\ "ping" \in ToModule
    BY <1>6 DEF Beat, Sent, ToModule
  <2>2. missed \in 0..MaxMisses
    BY <1>1, <1>6, Bounded DEF Link
  <2> HIDE DEF n, missed
  <2>3. /\ L \in Link /\ L.transport = t /\ L.sent = link.sent /\ L.last = link.last
        /\ L.challenged = link.challenged /\ L.authenticated = link.authenticated
    BY <1>1, <1>2, <2>2 DEF Link
  <2>4. S.link = L /\ S.heard = heard /\ S.why = why /\ S.pipe = pipe
    BY <1>1, <1>4 DEF Now, Link
  <2>5. one \in Seq(About) /\ Len(one) = 1 /\ one[1] = n /\ DOMAIN one = {1}
    BY <1>2 DEF About
  <2> HIDE DEF one, S, L
  <2> DEFINE v == Numbered("ping", S.link.sent, one)
  <2>6. S.link \in Link /\ S.pipe \in [Slot -> Pipe] /\ S.link.sent \in 0..MaxSeq
    BY <1>1, <2>3, <2>4 DEF Link
  <2>7. IF S.link.transport = Unset \/ S.pipe[S.link.transport].server # "open"
             \/ (~S.link.authenticated /\ "ping" # "challenge")
        THEN N = S
        ELSE /\ N.link = Counted(S.link, Len(v)) /\ N.pipe = Filled(S.pipe, S.link.transport, v)
             /\ N.heard = S.heard /\ N.why = S.why
             /\ N.link \in Link /\ N.pipe \in [Slot -> Pipe]
    BY <2>1, <2>5, <2>6, SentAllIs
  <2>8. link' = N.link /\ heard' = N.heard /\ why' = N.why /\ pipe' = N.pipe
    BY <2>1 DEF Becomes
  <2> HIDE DEF N
  <2>9. CASE ~Open(t)
    <3>1. link' = L /\ heard' = heard /\ why' = why /\ pipe' = pipe
      BY <2>3, <2>4, <2>7, <2>8, <2>9 DEF Open
    <3>2. Types'
      BY <1>1, <1>2, <2>3, <3>1 DEF Types, n
    <3>3. Ends' /\ NobodyAccused'
      BY <1>1, <1>2, <2>3, <3>1 DEF Ends, NobodyAccused
    <3>4. \A u \in Slot : Each(u)'
      BY <1>2, <1>3, <2>9, <3>1, Untouched DEF IInv
    <3> QED BY <3>2, <3>3, <3>4 DEF IInv
  <2>10. CASE Open(t)
    <3>1. /\ link' = Counted(L, Len(v)) /\ pipe' = Filled(pipe, t, v) /\ heard' = heard /\ why' = why
          /\ link' \in Link /\ pipe' \in [Slot -> Pipe]
      <4>1. ~(t = Unset \/ pipe[t].server # "open" \/ ~L.authenticated)
        BY <1>2, <1>3, <2>3, <2>10 DEF Open
      <4> QED BY <2>3, <2>4, <2>7, <2>8, <4>1
    <3>2. /\ v \in Seq(Message) /\ Len(v) = 1 /\ DOMAIN v = {1}
          /\ v[1] = Frame("ping", SeqAfter(link.sent, 1), n)
      BY <2>1, <2>3, <2>4, <2>5, <2>6, NumberedIs
    <3> HIDE DEF v
    <3>3. v[1].kind = "ping" /\ v[1].seq = SeqAfter(link.sent, 1) /\ v[1].about = n
      BY <3>2 DEF Frame
    <3>4. /\ link'.transport = t /\ link'.sent = SeqAfter(link.sent, Len(v)) /\ link'.last = link.last
          /\ link'.challenged = link.challenged /\ link'.authenticated = link.authenticated
      BY <2>3, <3>1 DEF Counted, Link
    <3>5. Types'
      BY <1>1, <1>2, <3>1 DEF Types, n
    <3>6. \A k \in Key : Sets(v, k) = {}
      BY <3>2, <3>3 DEF Sets
    <3> HIDE DEF t
    <3> QED BY <1>2, <1>3, <2>10, <3>1, <3>2, <3>3, <3>4, <3>5, <3>6, RuntimeSays
  <2> QED BY <2>9, <2>10
<1> QED BY <1>5, <1>6

\* A frame is read.
ReadFrom(t) == [[Now EXCEPT !.pipe[t].toRuntime = Tail(@)] EXCEPT !.link.last = pipe[t].toRuntime[1].seq]

LEMMA ReadIs ==
  ASSUME IInv, NEW t \in Slot, Open(t), pipe[t].toRuntime # << >>
  PROVE  LET S == ReadFrom(t)
             q == pipe[t].toRuntime
         IN  /\ S.link = [link EXCEPT !.last = q[1].seq] /\ S.heard = heard /\ S.why = why
             /\ S.link \in Link /\ S.pipe \in [Slot -> Pipe]
             /\ S.pipe[t].toRuntime = Tail(q) /\ S.pipe[t].toModule = pipe[t].toModule
             /\ S.pipe[t].server = pipe[t].server /\ S.pipe[t].client = pipe[t].client
             /\ \A u \in Slot \ {t} : S.pipe[u] = pipe[u]
             /\ q \in Seq(Message) /\ Chain(q, link.last) /\ link.last \in 0..MaxSeq
<1> DEFINE q == pipe[t].toRuntime
<1> DEFINE x == q[1].seq
<1>1. link \in Link /\ pipe \in [Slot -> Pipe] /\ pipe[t] \in Pipe /\ q \in Seq(Message)
  BY DEF IInv, Types, Pipe
<1>2. Chain(q, link.last) /\ link.last \in 0..MaxSeq
  BY <1>1 DEF IInv, Each, Hears, Link
<1>3. x \in 0..MaxSeq /\ Tail(q) \in Seq(Message)
  <2>1. q[1] \in Message
    BY <1>1
  <2>2. q[1].seq \in 1..MaxSeq
    BY <2>1 DEF Message
  <2> QED BY <1>1, <2>2
<1> DEFINE r == Tail(q)
<1> DEFINE X == [pipe[t] EXCEPT !.toRuntime = r]
<1> DEFINE P == [pipe EXCEPT ![t] = X]
<1> DEFINE L == [link EXCEPT !.last = x]
<1>4. ReadFrom(t) = [link |-> L, heard |-> heard, why |-> why, pipe |-> P]
  <2>1. [Now EXCEPT !.pipe[t].toRuntime = Tail(@)] = [link |-> link, heard |-> heard, why |-> why, pipe |-> P]
    <3>1. Now.pipe = pipe
      BY DEF Now
    <3>2. [Now.pipe EXCEPT ![t].toRuntime = Tail(@)] = P
      BY <1>1, <3>1
    <3>3. [Now EXCEPT !.pipe[t].toRuntime = Tail(@)] = [Now EXCEPT !.pipe = [Now.pipe EXCEPT ![t].toRuntime = Tail(@)]]
      OBVIOUS
    <3>4. [Now EXCEPT !.pipe[t].toRuntime = Tail(@)] = [Now EXCEPT !.pipe = P]
      BY <3>2, <3>3
    <3> HIDE DEF P
    <3> QED BY <3>4 DEF Now
  <2> HIDE DEF P, x
  <2>2. [[link |-> link, heard |-> heard, why |-> why, pipe |-> P] EXCEPT !.link.last = x]
          = [link |-> L, heard |-> heard, why |-> why, pipe |-> P]
    OBVIOUS
  <2> QED BY <2>1, <2>2 DEF ReadFrom, x
<1> HIDE DEF r, x
<1>5. /\ X \in Pipe /\ X.toRuntime = r /\ X.toModule = pipe[t].toModule
      /\ X.server = pipe[t].server /\ X.client = pipe[t].client
  BY <1>1, <1>3 DEF Pipe, r
<1>6. L \in Link
  BY <1>1, <1>3 DEF Link
<1> HIDE DEF X
<1>7. P \in [Slot -> Pipe] /\ P[t] = X /\ \A u \in Slot \ {t} : P[u] = pipe[u]
  BY <1>1, <1>5
<1> HIDE DEF P, L
<1>8. ReadFrom(t).link = L /\ ReadFrom(t).heard = heard /\ ReadFrom(t).why = why /\ ReadFrom(t).pipe = P
  BY <1>4
<1> QED BY <1>1, <1>2, <1>5, <1>6, <1>7, <1>8 DEF L, r, x

LEMMA ReceiveIs ==
  ASSUME IInv, NEW t \in Slot, Receive(t)
  PROVE  /\ Open(t) /\ pipe[t].toRuntime # << >> /\ link.transport = t
         /\ Becomes(Dispatched(ReadFrom(t), pipe[t].toRuntime[1]))
         /\ up' = up /\ run' = run /\ features' = features /\ keyFile' = keyFile
         /\ module' = module /\ applied' = applied /\ whyModule' = whyModule /\ sets' = sets /\ beats' = beats
<1> DEFINE q == pipe[t].toRuntime
<1> DEFINE S == [Now EXCEPT !.pipe[t].toRuntime = Tail(@)]
<1>1. Open(t) /\ q # << >> /\ link.transport = t
  BY DEF Receive, Open, IInv, Each, Instance
<1>2. q \in Seq(Message) /\ Chain(q, link.last)
  BY <1>1, ReadIs
<1>3. Head(q) = q[1] /\ q[1].seq = NextSeq(link.last)
  BY <1>1, <1>2, ChainRead
<1>4. S.link.last = link.last
  BY DEF Now
<1>5. Becomes(Consumed(S, q[1]))
  BY <1>3 DEF Receive
<1> HIDE DEF S
<1>6. Becomes(Dispatched([S EXCEPT !.link.last = q[1].seq], q[1]))
  BY <1>3, <1>4, <1>5 DEF Consumed
<1> QED BY <1>1, <1>6 DEF ReadFrom, Receive, moduleVars, counters, S

\* What is left of the pipe, and its other instances, when the frame read is
\* answered with v, or with nothing.
LEMMA AnsweredIs ==
  ASSUME NEW P \in [Slot -> Pipe], NEW t \in Slot, NEW v
  PROVE  /\ Filled(P, t, v)[t].toModule = P[t].toModule \o v
         /\ Filled(P, t, v)[t].toRuntime = P[t].toRuntime
         /\ Filled(P, t, v)[t].server = P[t].server
         /\ Filled(P, t, v)[t].client = P[t].client
<1> DEFINE w == P[t].toModule \o v
<1>1. Longer(P[t], v) = [P[t] EXCEPT !.toModule = w]
  BY DEF Longer
<1> HIDE DEF w
<1>2. P[t] \in Pipe /\ Filled(P, t, v)[t] = Longer(P[t], v)
  BY FilledIs
<1> QED BY <1>1, <1>2 DEF Pipe, w

OnePhase(L) == ~(L.challenged /\ L.authenticated)

\* What is common to every frame read that leaves the connection open: w is what
\* the module has to read from then on.
LEMMA Heard ==
  ASSUME IInv, Types', NEW t \in Slot, Open(t), pipe[t].toRuntime # << >>, NEW w \in Seq(Message),
         pipe'[t].toRuntime = Tail(pipe[t].toRuntime), pipe'[t].toModule = w,
         pipe'[t].server = pipe[t].server, pipe'[t].client = pipe[t].client,
         \A u \in Slot \ {t} : pipe'[u] = pipe[u],
         link'.transport = t, link'.last = pipe[t].toRuntime[1].seq,
         OnePhase(link'), Worded(w),
         why' = why, up' = up, run' = run, module' = module, applied' = applied, whyModule' = whyModule
  PROVE  /\ Ends' /\ NobodyAccused' /\ \A u \in Slot \ {t} : Each(u)'
         /\ Instance(t)' /\ Content(t)' /\ Queued(t)'
         /\ Chain(pipe'[t].toRuntime, link'.last)
         /\ With(t) => module.sent = UpTo(pipe'[t].toRuntime, link'.last)
         /\ \A i \in DOMAIN pipe'[t].toRuntime : /\ pipe'[t].toRuntime[i] = pipe[t].toRuntime[i + 1]
                                                 /\ i + 1 \in DOMAIN pipe[t].toRuntime /\ i + 1 # 1
<1> DEFINE q == pipe[t].toRuntime
<1>1. Types /\ Ends /\ Each(t) /\ link.transport = t /\ Unset \notin Slot
  BY NativeAssumption DEF IInv, Each, Instance
<1>2. q \in Seq(Message) /\ Chain(q, link.last)
  <2>1. pipe[t] \in Pipe
    BY <1>1 DEF Types
  <2> QED BY <1>1, <2>1 DEF Pipe, Each, Hears
<1>3. /\ Chain(Tail(q), q[1].seq) /\ UpTo(Tail(q), q[1].seq) = UpTo(q, link.last)
      /\ \A i \in DOMAIN Tail(q) : Tail(q)[i] = q[i + 1] /\ i + 1 \in DOMAIN q
  BY <1>2, ChainRead
<1>4. \A i \in DOMAIN Tail(q) : i + 1 # 1
  BY <1>2
<1>5. Ends' /\ NobodyAccused'
  BY <1>1 DEF IInv, Ends, NobodyAccused, Open, OnePhase
<1>6. \A u \in Slot \ {t} : Each(u)'
  BY <1>1, Others
<1>7. Instance(t)' /\ Queued(t)'
  BY <1>1 DEF Each, Instance, Queued, Open, With
<1>8. Content(t)'
  <2>1. \A i \in DOMAIN q : q[i].kind \in ToRuntime
    BY <1>1 DEF Each, Content
  <2> HIDE DEF q
  <2>2. \A i \in DOMAIN Tail(q) : Tail(q)[i].kind \in ToRuntime
    BY <1>3, <2>1
  <2>3. pipe'[t].toRuntime = Tail(q)
    BY DEF q
  <2> QED BY <2>2, <2>3 DEF Content
<1>9. With(t) => module.sent = UpTo(q, link.last)
  BY <1>1 DEF Each, Talk
<1> QED BY <1>3, <1>4, <1>5, <1>6, <1>7, <1>8, <1>9

\* The module introduces itself, and is challenged.
LEMMA HelloStep ==
  ASSUME IInv, NEW t \in Slot, Receive(t), ~link.challenged, ~link.authenticated
  PROVE  IInv'
<1> DEFINE S == ReadFrom(t)
<1> DEFINE q == pipe[t].toRuntime
<1>1. Types /\ Each(t)
  BY DEF IInv
<1>2. /\ Open(t) /\ q # << >> /\ link.transport = t
      /\ Becomes(Dispatched(S, q[1]))
      /\ up' = up /\ run' = run /\ features' = features /\ keyFile' = keyFile
      /\ module' = module /\ applied' = applied /\ whyModule' = whyModule /\ sets' = sets /\ beats' = beats
  BY ReceiveIs
<1>3. /\ S.link = [link EXCEPT !.last = q[1].seq] /\ S.heard = heard /\ S.why = why
      /\ S.link \in Link /\ S.pipe \in [Slot -> Pipe]
      /\ S.pipe[t].toRuntime = Tail(q) /\ S.pipe[t].toModule = pipe[t].toModule
      /\ S.pipe[t].server = pipe[t].server /\ S.pipe[t].client = pipe[t].client
      /\ \A u \in Slot \ {t} : S.pipe[u] = pipe[u]
  BY <1>2, ReadIs
<1>4. q = <<Hello>> /\ link.last = 0 /\ link.sent = 0
  BY <1>1, <1>2 DEF Each, Hears
<1>5. q[1].kind = "hello" /\ q[1].seq = 1 /\ Tail(q) = << >>
  BY <1>4 DEF Hello, Frame
<1> DEFINE S2 == [S EXCEPT !.link.challenged = TRUE]
<1> DEFINE one == <<run>>
<1> DEFINE N == SentAll(S2, "challenge", one)
<1>6. /\ S.link.transport = t /\ S.link.authenticated = FALSE /\ S.link.sent = 0 /\ S.link.last = 1
      /\ S.link.challenged = FALSE
  BY <1>1, <1>2, <1>3, <1>4, <1>5 DEF Types, Link
<1>7. Becomes(N) /\ "challenge" \in ToModule
  <2>1. Dispatched(S, q[1]) = N
    BY <1>5, <1>6 DEF Dispatched, Sent
  <2> QED BY <1>2, <2>1 DEF ToModule
<1> DEFINE L == [S.link EXCEPT !.challenged = TRUE]
<1>8. S2.link = L /\ S2.pipe = S.pipe /\ S2.heard = S.heard /\ S2.why = S.why
  BY DEF ReadFrom, Now
<1> HIDE DEF S, S2
<1>9. /\ L \in Link /\ L.transport = t /\ L.authenticated = FALSE /\ L.sent = 0 /\ L.last = 1
      /\ L.challenged = TRUE
  BY <1>3, <1>6 DEF Link
<1> HIDE DEF L
<1>10. one \in Seq(About) /\ Len(one) = 1 /\ one[1] = run /\ DOMAIN one = {1}
  BY <1>1 DEF About, Types
<1> HIDE DEF one
<1> DEFINE v == Numbered("challenge", S2.link.sent, one)
<1>11. IF S2.link.transport = Unset \/ S2.pipe[S2.link.transport].server # "open"
             \/ (~S2.link.authenticated /\ "challenge" # "challenge")
       THEN N = S2
       ELSE /\ N.link = Counted(S2.link, Len(v)) /\ N.pipe = Filled(S2.pipe, S2.link.transport, v)
            /\ N.heard = S2.heard /\ N.why = S2.why
            /\ N.link \in Link /\ N.pipe \in [Slot -> Pipe]
  BY <1>3, <1>7, <1>8, <1>9, <1>10, SentAllIs
<1>12. /\ v \in Seq(Message) /\ Len(v) = 1 /\ DOMAIN v = {1}
       /\ v[1] = Frame("challenge", 1, run)
  <2>1. S2.link.sent \in 0..MaxSeq /\ S2.link.sent = 0 /\ 0 \in 0..MaxSeq
    BY <1>8, <1>9, Bounded
  <2>2. SeqAfter(0, 1) = 1
    BY <2>1, SeqAfterOne, Bounded DEF NextSeq
  <2> QED BY <1>7, <1>10, <2>1, <2>2, NumberedIs
<1> HIDE DEF N, v
<1>13. /\ link' = Counted(L, 1) /\ pipe' = Filled(S.pipe, t, v) /\ heard' = heard /\ why' = why
       /\ link' \in Link /\ pipe' \in [Slot -> Pipe]
  <2>1. ~(t = Unset \/ S.pipe[t].server # "open")
    BY <1>2, <1>3, NativeAssumption DEF Open
  <2> QED BY <1>3, <1>7, <1>8, <1>9, <1>11, <1>12, <2>1 DEF Becomes
<1>14. /\ link'.transport = t /\ link'.last = 1 /\ link'.challenged = TRUE /\ link'.authenticated = FALSE
       /\ link'.sent = 1
  <2>1. SeqAfter(0, 1) = 1 /\ 1 \in 0..MaxSeq
    BY SeqAfterOne, Bounded DEF NextSeq
  <2> QED BY <1>9, <1>13, <2>1 DEF Counted, Link
<1> DEFINE w == pipe[t].toModule \o v
<1>15. /\ pipe'[t].toModule = w /\ pipe'[t].toRuntime = Tail(q)
       /\ pipe'[t].server = pipe[t].server /\ pipe'[t].client = pipe[t].client
       /\ \A u \in Slot \ {t} : pipe'[u] = pipe[u]
  <2>1. /\ pipe'[t].toModule = S.pipe[t].toModule \o v /\ pipe'[t].toRuntime = S.pipe[t].toRuntime
        /\ pipe'[t].server = S.pipe[t].server /\ pipe'[t].client = S.pipe[t].client
    <3> DEFINE F == Filled(S.pipe, t, v)
    <3>1. /\ F[t].toModule = S.pipe[t].toModule \o v /\ F[t].toRuntime = S.pipe[t].toRuntime
          /\ F[t].server = S.pipe[t].server /\ F[t].client = S.pipe[t].client
      BY <1>3, AnsweredIs
    <3> HIDE DEF F
    <3>2. pipe' = F
      BY <1>13 DEF F
    <3> QED BY <3>1, <3>2
  <2>2. \A u \in Slot \ {t} : pipe'[u] = S.pipe[u]
    BY <1>3, <1>13, FilledIs
  <2> QED BY <1>3, <2>1, <2>2
<1>16. Types'
  BY <1>1, <1>2, <1>13 DEF Types
<1>17. w \in Seq(Message) /\ Worded(w)
  <2> DEFINE m == pipe[t].toModule
  <2>1. m \in Seq(Message) /\ Worded(m)
    BY <1>1 DEF Types, Pipe, Each, Content
  <2> HIDE DEF m
  <2>2. Worded(v)
    BY <1>7, <1>12 DEF Frame, Worded
  <2> QED BY <1>12, <2>1, <2>2, Either, WordedExtended DEF m
<1> HIDE DEF w
<1>18. /\ Ends' /\ NobodyAccused' /\ \A u \in Slot \ {t} : Each(u)'
       /\ Instance(t)' /\ Content(t)' /\ Queued(t)'
       /\ Chain(pipe'[t].toRuntime, link'.last)
       /\ With(t) => module.sent = UpTo(pipe'[t].toRuntime, link'.last)
  <2> HIDE DEF q
  <2>1. link'.last = q[1].seq /\ OnePhase(link')
    BY <1>5, <1>14 DEF OnePhase
  <2> QED BY <1>2, <1>13, <1>14, <1>15, <1>16, <1>17, <2>1, Heard DEF q
<1>19. Hears(t)'
  BY <1>5, <1>14, <1>15, <1>18 DEF Hears
<1>20. CASE ~With(t)
  <2>1. Reads(t)' /\ Talk(t)'
    BY <1>2, <1>20 DEF Reads, Talk, With
  <2> QED BY <1>16, <1>18, <1>19, <2>1 DEF IInv, Each
<1>21. CASE With(t)
  <2>1. module.state = "authenticating" /\ pipe[t].toModule = << >> /\ module.last = 0
    BY <1>1, <1>2, <1>21 DEF Each, Talk, Reads
  <2>2. w = v
    BY <1>12, <2>1 DEF w
  <2>3. Chain(w, 0) /\ UpTo(w, 0) = 1 /\ w = <<Frame("challenge", 1, run)>>
    <3>1. w = <<Frame("challenge", 1, run)>>
      BY <1>12, <2>2
    <3> QED BY <3>1, Bounded DEF Chain, UpTo, Frame, NextSeq
  <2>4. Reads(t)'
    BY <1>2, <1>15, <2>1, <2>3 DEF Reads, Frame
  <2>5. Talk(t)'
    BY <1>2, <1>5, <1>14, <1>15, <1>18, <1>21, <2>1, <2>3 DEF Talk, With
  <2> QED BY <1>16, <1>18, <1>19, <2>4, <2>5 DEF IInv, Each
<1> QED BY <1>20, <1>21

\* What a module that has proved itself is told: every feature as it was set last.
Replay == [i \in DOMAIN Asked |-> <<Asked[i], features[Asked[i]]>>]

LEMMA ReplayIs ==
  ASSUME features \in Wanted, NEW n \in 0..MaxSeq
  PROVE  LET v == Numbered("set", n, Replay)
         IN  /\ Replay \in Seq(About) /\ v \in Seq(Message) /\ Worded(v)
             /\ SeqAfter(n, Len(v)) \in 0..MaxSeq
             /\ \A i \in DOMAIN v : v[i].seq = SeqAfter(n, i) /\ v[i].kind = "set"
             /\ \A k \in Key : features[k] # Unset => \A old : Settled(v, k, old, features[k])
<1> DEFINE v == Numbered("set", n, Replay)
<1>1. /\ Asked \in Seq(Key) /\ \A i \in DOMAIN Asked : features[Asked[i]] # Unset
      /\ \A k \in Key : features[k] # Unset => \E i \in DOMAIN Asked : Asked[i] = k
      /\ \A i, j \in DOMAIN Asked : Asked[i] = Asked[j] => i = j
  BY AskedAll
<1>2. DOMAIN Asked = 1..Len(Asked) /\ Len(Asked) \in Nat /\ \A i \in DOMAIN Asked : Asked[i] \in Key
  BY <1>1
<1>3. /\ DOMAIN Replay = DOMAIN Asked /\ Len(Replay) = Len(Asked)
      /\ \A i \in DOMAIN Asked : Replay[i] = <<Asked[i], features[Asked[i]]>>
      /\ \A i \in DOMAIN Asked : Replay[i] \in Key \X (1..MaxSets)
  <2>1. \A k \in Key : features[k] # Unset => features[k] \in 1..MaxSets
    BY DEF Wanted
  <2>2. /\ DOMAIN Replay = DOMAIN Asked
        /\ \A i \in DOMAIN Asked : Replay[i] = <<Asked[i], features[Asked[i]]>>
    BY DEF Replay
  <2>3. Len(Replay) = Len(Asked)
    BY <1>2, <2>2
  <2>4. ASSUME NEW i \in DOMAIN Asked PROVE Replay[i] \in Key \X (1..MaxSets)
    <3>1. Asked[i] \in Key /\ features[Asked[i]] \in 1..MaxSets
      BY <1>1, <1>2, <2>1
    <3> QED BY <2>2, <3>1
  <2> QED BY <2>2, <2>3, <2>4
<1>4. Replay \in Seq(About)
  <2>1. \A x \in Key \X (1..MaxSets) : x \in About
    BY Bounded DEF About
  <2>2. Replay = [i \in 1..Len(Asked) |-> Replay[i]]
    BY <1>2 DEF Replay
  <2>3. \A i \in 1..Len(Asked) : Replay[i] \in About
    BY <1>2, <1>3, <2>1
  <2> HIDE DEF Replay
  <2> QED BY <1>2, <2>2, <2>3
<1>5. /\ v \in Seq(Message) /\ Len(v) = Len(Asked) /\ DOMAIN v = DOMAIN Asked
      /\ SeqAfter(n, Len(v)) \in 0..MaxSeq
      /\ \A i \in DOMAIN v : v[i] = Frame("set", SeqAfter(n, i), Replay[i])
  <2>1. "set" \in ToRuntime \cup ToModule
    BY DEF ToModule
  <2> QED BY <1>3, <1>4, <2>1, NumberedIs
<1> HIDE DEF v
<1>6. \A i \in DOMAIN v : /\ v[i].seq = SeqAfter(n, i) /\ v[i].kind = "set" /\ v[i].about = Replay[i]
                          /\ v[i].about[1] = Asked[i] /\ v[i].about[2] = features[Asked[i]]
                          /\ v[i].about \in Key \X (1..MaxSets)
  <2> SUFFICES ASSUME NEW i \in DOMAIN v
               PROVE  /\ v[i].seq = SeqAfter(n, i) /\ v[i].kind = "set" /\ v[i].about = Replay[i]
                      /\ v[i].about[1] = Asked[i] /\ v[i].about[2] = features[Asked[i]]
                      /\ v[i].about \in Key \X (1..MaxSets)
    OBVIOUS
  <2>1. v[i].seq = SeqAfter(n, i) /\ v[i].kind = "set" /\ v[i].about = Replay[i]
    BY <1>5 DEF Frame
  <2>2. Replay[i] = <<Asked[i], features[Asked[i]]>> /\ Replay[i] \in Key \X (1..MaxSets)
    BY <1>3, <1>5
  <2> QED BY <2>1, <2>2
<1>7. Worded(v)
  BY <1>6 DEF Worded, ToModule
<1>8. ASSUME NEW k \in Key, features[k] # Unset, NEW old PROVE Settled(v, k, old, features[k])
  <2>1. PICK i \in DOMAIN Asked : Asked[i] = k
    BY <1>1, <1>8
  <2>2. Sets(v, k) = {i}
    BY <1>1, <1>5, <1>6, <2>1 DEF Sets
  <2>3. v[i].about[2] = features[k] /\ i <= i
    BY <1>2, <1>5, <1>6, <2>1
  <2> QED BY <2>2, <2>3 DEF Settled
<1> QED BY <1>4, <1>5, <1>6, <1>7, <1>8 DEF v

\* The module answers the challenge, and is told what the plugins asked for.
LEMMA AuthResultStep ==
  ASSUME IInv, NEW t \in Slot, Receive(t), link.challenged
  PROVE  IInv'
<1> DEFINE S == ReadFrom(t)
<1> DEFINE q == pipe[t].toRuntime
<1>1. Types /\ Ends /\ Each(t) /\ features \in Wanted
  BY DEF IInv, Types
<1>2. /\ Open(t) /\ q # << >> /\ link.transport = t
      /\ Becomes(Dispatched(S, q[1]))
      /\ up' = up /\ run' = run /\ features' = features /\ keyFile' = keyFile
      /\ module' = module /\ applied' = applied /\ whyModule' = whyModule /\ sets' = sets /\ beats' = beats
  BY ReceiveIs
<1>3. /\ S.link = [link EXCEPT !.last = q[1].seq] /\ S.heard = heard /\ S.why = why
      /\ S.link \in Link /\ S.pipe \in [Slot -> Pipe]
      /\ S.pipe[t].toRuntime = Tail(q) /\ S.pipe[t].toModule = pipe[t].toModule
      /\ S.pipe[t].server = pipe[t].server /\ S.pipe[t].client = pipe[t].client
      /\ \A u \in Slot \ {t} : S.pipe[u] = pipe[u]
      /\ q \in Seq(Message) /\ Chain(q, link.last)
  BY <1>2, ReadIs
<1>4. /\ 1 \in DOMAIN q /\ q[1].kind = "authResult" /\ q[1].about = run /\ q[1].seq \in 0..MaxSeq
      /\ \A i \in DOMAIN q : i # 1 => q[i].kind = "event"
  <2>1. 1 \in DOMAIN q /\ q[1] \in Message
    BY <1>2, <1>3
  <2>2. q[1].seq \in 0..MaxSeq
    BY <2>1 DEF Message
  <2>3. \A i \in DOMAIN q : IF i = 1 THEN q[i].kind = "authResult" /\ q[i].about = run ELSE q[i].kind = "event"
    BY <1>1, <1>2 DEF Each, Hears
  <2> QED BY <2>1, <2>2, <2>3
<1> DEFINE x == q[1].seq
<1> DEFINE S2 == [S EXCEPT !.link.challenged = FALSE, !.link.authenticated = TRUE]
<1> DEFINE T == SentAll(S2, "set", Replay)
<1>5. /\ S.link.transport = t /\ S.link.sent = link.sent /\ S.link.last = x /\ S.link.challenged = TRUE
      /\ link.sent \in 0..MaxSeq
  BY <1>1, <1>2, <1>3, <1>4 DEF Types, Link
<1>6. link' = T.link /\ heard' = "here" /\ why' = T.why /\ pipe' = T.pipe
  <2>1. Dispatched(S, q[1]) = Proved(S)
    BY <1>4, <1>5 DEF Dispatched
  <2>2. Becomes(Proved(S))
    BY <1>2, <2>1
  <2>3. Proved(S) = [link |-> T.link, heard |-> "here", why |-> T.why, pipe |-> T.pipe]
    BY DEF Proved, Replayed, Replay
  <2> HIDE DEF T
  <2> QED BY <2>2, <2>3 DEF Becomes
<1> DEFINE L == [S.link EXCEPT !.challenged = FALSE, !.authenticated = TRUE]
<1>7. S2.link = L /\ S2.pipe = S.pipe /\ S2.heard = S.heard /\ S2.why = S.why
  BY DEF ReadFrom, Now
<1> HIDE DEF S, S2, x
<1>8. /\ L \in Link /\ L.transport = t /\ L.authenticated = TRUE /\ L.sent = link.sent /\ L.last = x
      /\ L.challenged = FALSE
  BY <1>3, <1>5 DEF Link
<1> HIDE DEF L
<1> DEFINE v == Numbered("set", link.sent, Replay)
<1>9. /\ Replay \in Seq(About) /\ v \in Seq(Message) /\ Worded(v)
      /\ SeqAfter(link.sent, Len(v)) \in 0..MaxSeq
      /\ \A i \in DOMAIN v : v[i].seq = SeqAfter(link.sent, i) /\ v[i].kind = "set"
      /\ \A k \in Key : features[k] # Unset => \A old : Settled(v, k, old, features[k])
  BY <1>1, <1>5, ReplayIs
<1>10. /\ T.link = Counted(L, Len(v)) /\ T.pipe = Filled(S.pipe, t, v)
       /\ T.heard = S.heard /\ T.why = S.why
       /\ T.link \in Link /\ T.pipe \in [Slot -> Pipe]
  <2>1. S2.link \in Link /\ S2.pipe \in [Slot -> Pipe] /\ "set" \in ToModule
    BY <1>3, <1>7, <1>8 DEF ToModule
  <2>2. ~(S2.link.transport = Unset \/ S2.pipe[S2.link.transport].server # "open"
             \/ (~S2.link.authenticated /\ "set" # "challenge"))
    BY <1>2, <1>3, <1>7, <1>8, NativeAssumption DEF Open
  <2> HIDE DEF v
  <2>3. /\ T.link = Counted(S2.link, Len(v)) /\ T.pipe = Filled(S2.pipe, S2.link.transport, v)
        /\ T.heard = S2.heard /\ T.why = S2.why
        /\ T.link \in Link /\ T.pipe \in [Slot -> Pipe]
    <3>1. v = Numbered("set", S2.link.sent, Replay)
      BY <1>7, <1>8 DEF v
    <3> QED BY <1>9, <2>1, <2>2, <3>1, SentAllIs
  <2> QED BY <1>7, <1>8, <2>3
<1> HIDE DEF T, v
<1>11. /\ link' = Counted(L, Len(v)) /\ pipe' = Filled(S.pipe, t, v) /\ why' = why
       /\ link' \in Link /\ pipe' \in [Slot -> Pipe]
  BY <1>3, <1>6, <1>10
<1>12. /\ link'.transport = t /\ link'.last = x /\ link'.challenged = FALSE /\ link'.authenticated = TRUE
       /\ link'.sent = SeqAfter(link.sent, Len(v))
  BY <1>8, <1>9, <1>11 DEF Counted, Link
<1> DEFINE w == pipe[t].toModule \o v
<1>13. /\ pipe'[t].toModule = w /\ pipe'[t].toRuntime = Tail(q)
       /\ pipe'[t].server = pipe[t].server /\ pipe'[t].client = pipe[t].client
       /\ \A u \in Slot \ {t} : pipe'[u] = pipe[u]
  <2> DEFINE F == Filled(S.pipe, t, v)
  <2>1. /\ F[t].toModule = S.pipe[t].toModule \o v /\ F[t].toRuntime = S.pipe[t].toRuntime
        /\ F[t].server = S.pipe[t].server /\ F[t].client = S.pipe[t].client
    BY <1>3, AnsweredIs
  <2>2. \A u \in Slot \ {t} : F[u] = S.pipe[u]
    BY <1>3, FilledIs
  <2> HIDE DEF F
  <2>3. pipe' = F
    BY <1>11 DEF F
  <2> QED BY <1>3, <2>1, <2>2, <2>3
<1>14. Types'
  BY <1>1, <1>2, <1>6, <1>11 DEF Types
<1>15. w \in Seq(Message) /\ Worded(w)
  <2> DEFINE m == pipe[t].toModule
  <2>1. m \in Seq(Message) /\ Worded(m)
    BY <1>1 DEF Types, Pipe, Each, Content
  <2> HIDE DEF m
  <2> QED BY <1>9, <2>1, Either, WordedExtended DEF m
<1> HIDE DEF w
<1>16. /\ Ends' /\ NobodyAccused' /\ \A u \in Slot \ {t} : Each(u)'
       /\ Instance(t)' /\ Content(t)' /\ Queued(t)'
       /\ Chain(pipe'[t].toRuntime, link'.last)
       /\ With(t) => module.sent = UpTo(pipe'[t].toRuntime, link'.last)
       /\ \A i \in DOMAIN pipe'[t].toRuntime : /\ pipe'[t].toRuntime[i] = q[i + 1]
                                               /\ i + 1 \in DOMAIN q /\ i + 1 # 1
  <2> HIDE DEF q
  <2>1. link'.last = q[1].seq /\ OnePhase(link')
    BY <1>12 DEF OnePhase, x
  <2> QED BY <1>2, <1>11, <1>12, <1>13, <1>14, <1>15, <2>1, Heard DEF q
<1>17. Hears(t)'
  <2> HIDE DEF q
  <2>1. \A i \in DOMAIN pipe'[t].toRuntime : pipe'[t].toRuntime[i].kind = "event"
    BY <1>4, <1>16
  <2> QED BY <1>12, <1>16, <2>1 DEF Hears
<1>18. CASE ~With(t)
  <2>1. Reads(t)' /\ Talk(t)'
    BY <1>2, <1>18 DEF Reads, Talk, With
  <2> QED BY <1>14, <1>16, <1>17, <2>1 DEF IInv, Each
<1>19. CASE With(t)
  <2>1. /\ module.state = "ready" /\ pipe[t].toModule = << >> /\ module.secret = run
        /\ link.sent = UpTo(<< >>, module.last) /\ module.last \in 0..MaxSeq
    <3>1. module.state \in {"disconnected", "authenticating", "ready"} /\ module.last \in 0..MaxSeq
      BY <1>1 DEF Types, Module
    <3>2. module.state # "disconnected"
      BY <1>1, <1>19, NativeAssumption DEF Ends, With
    <3> QED BY <1>1, <1>2, <1>19, <3>1, <3>2 DEF Each, Talk
  <2>2. w = v
    BY <1>9, <2>1 DEF w
  <2>3. Chain(w, module.last) /\ UpTo(w, module.last) = link'.sent
    <3>1. Chain(<< >>, module.last) /\ << >> \in Seq(Message)
      BY DEF Chain
    <3>2. Chain(<< >> \o v, module.last) /\ UpTo(<< >> \o v, module.last) = SeqAfter(link.sent, Len(v))
      <4> DEFINE e == << >>
      <4>1. Chain(e, module.last) /\ e \in Seq(Message) /\ link.sent = UpTo(e, module.last)
        BY <2>1, <3>1
      <4> HIDE DEF e
      <4>2. \A i \in DOMAIN v : v[i].seq = SeqAfter(UpTo(e, module.last), i)
        BY <1>9, <4>1
      <4>3. Chain(e \o v, module.last) /\ UpTo(e \o v, module.last) = SeqAfter(UpTo(e, module.last), Len(v))
        BY <1>9, <2>1, <4>1, <4>2, ChainExtended
      <4> QED BY <4>1, <4>3 DEF e
    <3>3. << >> \o v = w
      BY <2>1 DEF w
    <3> QED BY <1>12, <3>2, <3>3
  <2>4. Reads(t)'
    BY <1>2, <1>9, <1>13, <2>1, <2>2, <2>3 DEF Reads
  <2>5. Talk(t)'
    <3>1. \A k \in Key : features[k] # Unset => Settled(w, k, applied[k], features[k])
      BY <1>9, <2>2
    <3> QED BY <1>2, <1>12, <1>13, <1>16, <1>19, <2>1, <2>3, <3>1 DEF Talk
  <2> QED BY <1>14, <1>16, <1>17, <2>4, <2>5 DEF IInv, Each
<1> QED BY <1>18, <1>19

\* A frame of a module that has proved itself.
LEMMA ReadyStep ==
  ASSUME IInv, NEW t \in Slot, Receive(t), link.authenticated
  PROVE  IInv'
<1> DEFINE S == ReadFrom(t)
<1> DEFINE q == pipe[t].toRuntime
<1> DEFINE f == q[1]
<1> DEFINE A == [S EXCEPT !.link.pong = 0, !.link.misses = 0]
<1>1. Types /\ Ends /\ Each(t)
  BY DEF IInv
<1>2. /\ Open(t) /\ q # << >> /\ link.transport = t
      /\ Becomes(Dispatched(S, f))
      /\ up' = up /\ run' = run /\ features' = features /\ keyFile' = keyFile
      /\ module' = module /\ applied' = applied /\ whyModule' = whyModule /\ sets' = sets /\ beats' = beats
  BY ReceiveIs
<1>3. /\ S.link = [link EXCEPT !.last = q[1].seq] /\ S.heard = heard /\ S.why = why
      /\ S.link \in Link /\ S.pipe \in [Slot -> Pipe]
      /\ S.pipe[t].toRuntime = Tail(q) /\ S.pipe[t].toModule = pipe[t].toModule
      /\ S.pipe[t].server = pipe[t].server /\ S.pipe[t].client = pipe[t].client
      /\ \A u \in Slot \ {t} : S.pipe[u] = pipe[u]
      /\ q \in Seq(Message) /\ Chain(q, link.last)
  BY <1>2, ReadIs
<1>4. 1 \in DOMAIN q /\ f.seq \in 0..MaxSeq /\ \A i \in DOMAIN q : q[i].kind \in {"pong", "event"}
  <2>1. 1 \in DOMAIN q /\ f \in Message
    BY <1>2, <1>3
  <2>2. f.seq \in 0..MaxSeq
    BY <2>1 DEF Message
  <2> QED BY <1>1, <1>2, <2>1, <2>2 DEF Each, Hears
<1>5. /\ S.link.transport = t /\ S.link.sent = link.sent /\ S.link.last = f.seq
      /\ S.link.challenged = FALSE /\ S.link.authenticated = TRUE /\ link.challenged = FALSE
  BY <1>1, <1>2, <1>3, <1>4 DEF Types, Link, Ends
<1>6. /\ A.link \in Link /\ A.link.transport = t /\ A.link.sent = link.sent /\ A.link.last = f.seq
      /\ A.link.challenged = FALSE /\ A.link.authenticated = TRUE
      /\ A.heard = heard /\ A.why = why /\ A.pipe = S.pipe
  <2> DEFINE L == [S.link EXCEPT !.pong = 0, !.misses = 0]
  <2>1. A.link = L /\ A.pipe = S.pipe /\ A.heard = S.heard /\ A.why = S.why
    BY DEF ReadFrom, Now
  <2> HIDE DEF A, S
  <2>2. /\ L \in Link /\ L.transport = t /\ L.sent = link.sent /\ L.last = f.seq
        /\ L.challenged = FALSE /\ L.authenticated = TRUE
    <3>1. S.link \in Link /\ 0 \in 0..MaxBeats /\ 0 \in 0..MaxMisses
      BY <1>3, Bounded
    <3>2. L \in Link
      BY <3>1 DEF Link
    <3>3. /\ L.transport = S.link.transport /\ L.sent = S.link.sent /\ L.last = S.link.last
          /\ L.challenged = S.link.challenged /\ L.authenticated = S.link.authenticated
      BY <3>1 DEF Link
    <3> HIDE DEF L, f
    <3> QED BY <1>5, <3>2, <3>3
  <2> QED BY <1>3, <2>1, <2>2
<1>7. Becomes(S) \/ Becomes(A) \/ Becomes(Disconnected(S, "bad heartbeat response"))
  <2> HIDE DEF S, A
  <2>1. CASE f.kind = "event"
    <3>1. Dispatched(S, f) = S
      BY <1>5, <2>1 DEF Dispatched
    <3> QED BY <1>2, <3>1
  <2>2. CASE f.kind = "pong"
    <3>1. Dispatched(S, f) = Answered(S, f.about)
      BY <2>2 DEF Dispatched
    <3>2. Answered(S, f.about) \in {S, A, Disconnected(S, "bad heartbeat response")}
      BY DEF Answered, A
    <3> QED BY <1>2, <3>1, <3>2
  <2> QED BY <1>4, <2>1, <2>2
<1> HIDE DEF A, S
<1>8. CASE Becomes(Disconnected(S, "bad heartbeat response"))
  <2>1. "bad heartbeat response" \notin Accused /\ S.heard \in {"here", "gone"} /\ beats' \in 0..MaxBeats
    BY <1>1, <1>2, <1>3 DEF Accused, Types
  <2> HIDE DEF q
  <2> QED BY <1>2, <1>3, <1>5, <1>8, <2>1, LetGo
<1>9. CASE Becomes(S) \/ Becomes(A)
  <2> DEFINE w == pipe[t].toModule
  <2>1. /\ link' \in Link /\ link'.transport = t /\ link'.sent = link.sent /\ link'.last = f.seq
        /\ link'.challenged = FALSE /\ link'.authenticated = TRUE
        /\ heard' = heard /\ why' = why /\ pipe' = S.pipe
    BY <1>3, <1>5, <1>6, <1>9 DEF Becomes
  <2>2. Types'
    BY <1>1, <1>2, <1>3, <2>1 DEF Types
  <2>3. w \in Seq(Message) /\ Worded(w)
    BY <1>1 DEF Types, Pipe, Each, Content
  <2>4. /\ pipe'[t].toModule = w /\ pipe'[t].toRuntime = Tail(q)
        /\ pipe'[t].server = pipe[t].server /\ pipe'[t].client = pipe[t].client
        /\ \A u \in Slot \ {t} : pipe'[u] = pipe[u]
    BY <1>3, <2>1
  <2> HIDE DEF w
  <2>5. /\ Ends' /\ NobodyAccused' /\ \A u \in Slot \ {t} : Each(u)'
        /\ Instance(t)' /\ Content(t)' /\ Queued(t)'
        /\ Chain(pipe'[t].toRuntime, link'.last)
        /\ With(t) => module.sent = UpTo(pipe'[t].toRuntime, link'.last)
        /\ \A i \in DOMAIN pipe'[t].toRuntime : /\ pipe'[t].toRuntime[i] = q[i + 1]
                                                /\ i + 1 \in DOMAIN q /\ i + 1 # 1
    <3> HIDE DEF q
    <3>1. OnePhase(link')
      BY <2>1 DEF OnePhase
    <3> QED BY <1>2, <2>1, <2>2, <2>3, <2>4, <3>1, Heard DEF q
  <2>6. Hears(t)'
    <3> HIDE DEF q
    <3>1. \A i \in DOMAIN pipe'[t].toRuntime : pipe'[t].toRuntime[i].kind \in {"pong", "event"}
      BY <1>4, <2>5
    <3> QED BY <2>1, <2>5, <3>1 DEF Hears
  <2>7. Reads(t)'
    BY <1>1, <1>2, <2>4 DEF Each, Reads, With, w
  <2>8. Talk(t)'
    <3>1. With(t) => /\ link.sent = UpTo(w, module.last) /\ module.state = "ready" /\ module.secret = run
                     /\ \A k \in Key : features[k] # Unset => Settled(w, k, applied[k], features[k])
      BY <1>1, <1>2 DEF Each, Talk, w
    <3> QED BY <1>2, <2>1, <2>4, <2>5, <3>1 DEF Talk, With
  <2> QED BY <2>2, <2>5, <2>6, <2>7, <2>8 DEF IInv, Each
<1> QED BY <1>7, <1>8, <1>9

LEMMA ReceiveStep == ASSUME IInv, NEW t \in Slot, Receive(t) PROVE IInv'
BY HelloStep, AuthResultStep, ReadyStep

-----------------------------------------------------------------------------
(* The module.                                                             *)

LEMMA ReadKeyStep == ASSUME IInv, ReadKey PROVE IInv'
<1>1. Types /\ Ends /\ module.state = "disconnected" /\ module.slot = Unset /\ Unset \notin Slot
  BY NativeAssumption DEF IInv, ReadKey, Ends
<1>2. /\ up' = up /\ run' = run /\ features' = features /\ keyFile' = keyFile /\ link' = link
      /\ heard' = heard /\ why' = why /\ pipe' = pipe /\ applied' = applied /\ whyModule' = whyModule
      /\ sets' = sets /\ beats' = beats /\ module' = [module EXCEPT !.secret = keyFile]
  BY DEF ReadKey, runtimeVars, counters
<1>3. /\ module' \in Module /\ module'.state = module.state /\ module'.slot = module.slot
      /\ module'.last = module.last
  BY <1>1, <1>2 DEF Types, Module
<1>4. Types'
  BY <1>1, <1>2, <1>3 DEF Types
<1>5. Ends' /\ NobodyAccused'
  BY <1>1, <1>2, <1>3 DEF IInv, Ends, NobodyAccused
<1>6. \A u \in Slot : ~With(u) /\ ~With(u)'
  BY <1>1, <1>3 DEF With
<1>7. \A u \in Slot : Each(u)'
  BY <1>2, <1>6, Untouched DEF IInv
<1> QED BY <1>4, <1>5, <1>7 DEF IInv

LEMMA Joining == ASSUME IInv, module.state # "disconnected" PROVE \E t \in Slot : With(t)
<1>1. module.slot \in Slot
  BY DEF IInv, Types, Ends, Module
<1> QED BY <1>1 DEF With

\* What the module's leaving does, whatever it leaves for.
LEMMA LeftStep ==
  ASSUME IInv, NEW t \in Slot, With(t),
         module' = Away, whyModule' \notin Blamed,
         pipe' = [pipe EXCEPT ![t].client = FALSE, ![t].toModule = << >>],
         applied' \in Wanted, sets' = sets, beats' \in 0..MaxBeats,
         up' = up, run' = run, features' = features, keyFile' = keyFile, link' = link,
         heard' = heard, why' = why
  PROVE  IInv'
<1> DEFINE X == [pipe[t] EXCEPT !.client = FALSE, !.toModule = << >>]
<1>1. Types /\ Ends /\ Unset \notin Slot /\ pipe[t] \in Pipe /\ Each(t)
  BY NativeAssumption DEF IInv, Types
<1>2. /\ up' = up /\ run' = run /\ features' = features /\ keyFile' = keyFile /\ link' = link
      /\ heard' = heard /\ why' = why
  OBVIOUS
<1>3. pipe' = [pipe EXCEPT ![t] = X]
  BY <1>1 DEF Types
<1>4. /\ X \in Pipe /\ X.client = FALSE /\ X.toModule = << >>
      /\ X.toRuntime = pipe[t].toRuntime /\ X.server = pipe[t].server
  <2>1. << >> \in Seq(Message)
    OBVIOUS
  <2> QED BY <1>1, <2>1 DEF Pipe
<1> HIDE DEF X
<1>5. pipe' \in [Slot -> Pipe] /\ pipe'[t] = X /\ \A u \in Slot \ {t} : pipe'[u] = pipe[u]
  BY <1>1, <1>3, <1>4 DEF Types
<1>6. Away \in Module /\ Away.state = "disconnected" /\ Away.slot = Unset /\ Away.last = 0
  BY Bounded DEF Away, Module
<1>7. Types'
  BY <1>1, <1>2, <1>3, <1>5, <1>6 DEF Types
<1>8. Ends' /\ NobodyAccused'
  <2>1. link.transport # Unset => pipe'[link.transport].server = pipe[link.transport].server
    BY <1>1, <1>4, <1>5 DEF Types, Link
  <2> QED BY <1>1, <1>2, <1>3, <1>6, <2>1 DEF IInv, Ends, NobodyAccused, Blamed
<1>9. \A u \in Slot : module'.slot # u
  BY <1>1, <1>6
<1>10. ASSUME NEW u \in Slot, u # t PROVE Each(u)'
  BY <1>2, <1>5, <1>9, <1>10, Untouched DEF IInv, With
<1>11. Each(t)'
  <2>1. pipe[t].server # "free"
    BY <1>1 DEF Each, Instance, With, NoPipe
  <2>2. Instance(t)'
    BY <1>1, <1>2, <1>4, <1>5, <1>9, <2>1 DEF Each, Instance, Open, With
  <2>3. Content(t)' /\ Queued(t)'
    BY <1>1, <1>4, <1>5, <1>9 DEF Each, Content, Worded, Queued, With
  <2>4. Reads(t)' /\ Talk(t)'
    BY <1>9 DEF Reads, Talk, With
  <2>5. Hears(t)'
    BY <1>1, <1>2, <1>4, <1>5 DEF Each, Hears, Open
  <2> QED BY <2>2, <2>3, <2>4, <2>5 DEF Each
<1> QED BY <1>7, <1>8, <1>10, <1>11 DEF IInv

LEMMA PipeBrokenStep == ASSUME IInv, PipeBroken PROVE IInv'
<1>1. applied' \in Wanted /\ sets' = sets /\ beats' \in 0..MaxBeats
  BY DEF IInv, Types, PipeBroken, counters
<1>2. /\ module' = Away /\ whyModule' \notin Blamed
      /\ pipe' = [pipe EXCEPT ![module.slot].client = FALSE, ![module.slot].toModule = << >>]
      /\ up' = up /\ run' = run /\ features' = features /\ keyFile' = keyFile /\ link' = link
      /\ heard' = heard /\ why' = why
  BY DEF PipeBroken, Left, runtimeVars, Blamed
<1>3. PICK t \in Slot : With(t)
  BY Joining DEF PipeBroken
<1>4. pipe' = [pipe EXCEPT ![t].client = FALSE, ![t].toModule = << >>]
  BY <1>2, <1>3 DEF With
<1> QED BY <1>1, <1>2, <1>3, <1>4, LeftStep

LEMMA DropStep == ASSUME IInv, Drop PROVE IInv'
<1>1. applied' \in Wanted /\ sets' = sets /\ beats' \in 0..MaxBeats
  BY DEF IInv, Types, Drop, Wanted
<1>2. /\ module' = Away /\ whyModule' \notin Blamed
      /\ pipe' = [pipe EXCEPT ![module.slot].client = FALSE, ![module.slot].toModule = << >>]
      /\ up' = up /\ run' = run /\ features' = features /\ keyFile' = keyFile /\ link' = link
      /\ heard' = heard /\ why' = why
  BY DEF Drop, Left, runtimeVars, Blamed
<1>3. PICK t \in Slot : With(t)
  BY Joining DEF Drop
<1>4. pipe' = [pipe EXCEPT ![t].client = FALSE, ![t].toModule = << >>]
  BY <1>2, <1>3 DEF With
<1> QED BY <1>1, <1>2, <1>3, <1>4, LeftStep

LEMMA FreedStep == ASSUME IInv, NEW t \in Slot, Freed(t) PROVE IInv'
<1>1. Types /\ Ends /\ Each(t) /\ pipe[t].server = "closed" /\ ~pipe[t].client
  BY DEF IInv, Freed
<1>2. /\ up' = up /\ run' = run /\ features' = features /\ keyFile' = keyFile /\ link' = link
      /\ heard' = heard /\ why' = why /\ module' = module /\ applied' = applied /\ whyModule' = whyModule
      /\ sets' = sets /\ beats' = beats /\ pipe' = [pipe EXCEPT ![t] = NoPipe]
  BY DEF Freed, runtimeVars, moduleVars, counters
<1>3. NoPipe \in Pipe
  <2>1. << >> \in Seq(Message)
    OBVIOUS
  <2> QED BY <2>1 DEF NoPipe, Pipe
<1>4. pipe' \in [Slot -> Pipe] /\ pipe'[t] = NoPipe /\ \A u \in Slot \ {t} : pipe'[u] = pipe[u]
  BY <1>1, <1>2, <1>3 DEF Types
<1>5. Types'
  BY <1>1, <1>2, <1>4 DEF Types
<1>6. Ends' /\ NobodyAccused'
  <2>1. link.transport # Unset => link.transport \in Slot \ {t}
    BY <1>1 DEF Ends, Types, Link
  <2> QED BY <1>1, <1>2, <1>4, <2>1 DEF IInv, Ends, NobodyAccused
<1>7. ASSUME NEW u \in Slot, u # t PROVE Each(u)'
  BY <1>2, <1>4, <1>7, Untouched DEF IInv
<1>8. Each(t)'
  BY <1>1, <1>2, <1>4 DEF Each, Instance, Content, Worded, Queued, Reads, Hears, Talk, Open, With, NoPipe
<1> QED BY <1>5, <1>6, <1>7, <1>8 DEF IInv

\* The module opens an instance, or finds none to open.
LEMMA ConnectStep == ASSUME IInv, Connect PROVE IInv'
<1>1. /\ Types /\ Ends /\ module.state = "disconnected" /\ module.slot = Unset /\ module.last = 0
      /\ Unset \notin Slot
  BY NativeAssumption DEF IInv, Connect, Ends
<1>2. /\ up' = up /\ run' = run /\ features' = features /\ keyFile' = keyFile /\ link' = link
      /\ heard' = heard /\ why' = why /\ applied' = applied /\ whyModule' = whyModule
      /\ sets' = sets /\ beats' = beats
  BY DEF Connect, runtimeVars, counters
<1>3. CASE up = "up"
  <2>1. PICK t \in Slot :
          /\ pipe[t] = NoPipe
          /\ pipe' = [pipe EXCEPT ![t].server = "queued", ![t].client = TRUE,
                                  ![t].toRuntime = <<Frame("hello", 1, 0)>>]
          /\ module' = [module EXCEPT !.state = "authenticating", !.slot = t, !.sent = 1]
    BY <1>3 DEF Connect
  <2> DEFINE X == [pipe[t] EXCEPT !.server = "queued", !.client = TRUE, !.toRuntime = <<Hello>>]
  <2>2. pipe' = [pipe EXCEPT ![t] = X]
    BY <1>1, <2>1 DEF Types, Hello
  <2>3. <<Hello>> \in Seq(Message)
    <3>1. Hello \in Message
      BY Bounded DEF Hello, Frame, Message, ToRuntime, About
    <3> QED BY <3>1
  <2>4. /\ X \in Pipe /\ X.server = "queued" /\ X.client = TRUE /\ X.toRuntime = <<Hello>>
        /\ X.toModule = << >>
    <3>1. pipe[t] \in Pipe /\ pipe[t].toModule = << >>
      BY <1>1, <2>1 DEF Types, NoPipe
    <3> QED BY <2>3, <3>1 DEF Pipe
  <2> HIDE DEF X
  <2>5. pipe' \in [Slot -> Pipe] /\ pipe'[t] = X /\ \A u \in Slot \ {t} : pipe'[u] = pipe[u]
    BY <1>1, <2>2, <2>4 DEF Types
  <2>6. /\ module' \in Module /\ module'.state = "authenticating" /\ module'.slot = t
        /\ module'.sent = 1 /\ module'.last = 0
    <3>1. module \in Module /\ 1 \in 0..MaxSeq
      BY <1>1, Bounded DEF Types
    <3> QED BY <1>1, <2>1, <3>1 DEF Module
  <2>7. Types'
    BY <1>1, <1>2, <2>5, <2>6 DEF Types
  <2>8. Ends' /\ NobodyAccused'
    <3>1. link.transport # Unset => link.transport \in Slot \ {t}
      BY <1>1, <2>1 DEF Ends, Types, Link, NoPipe
    <3> QED BY <1>1, <1>2, <2>5, <2>6, <3>1 DEF IInv, Ends, NobodyAccused
  <2>9. ASSUME NEW u \in Slot, u # t PROVE Each(u)'
    <3>1. ~With(u) /\ ~With(u)'
      BY <1>1, <2>6, <2>9 DEF With
    <3> QED BY <1>2, <2>5, <2>9, <3>1, Untouched DEF IInv
  <2>10. Each(t)'
    <3>1. Instance(t)' /\ Queued(t)'
      BY <1>2, <1>3, <2>4, <2>5, <2>6 DEF Instance, Queued, Open, With
    <3>2. Content(t)'
      BY <2>4, <2>5 DEF Content, Worded, Hello, Frame, ToRuntime
    <3>3. Reads(t)'
      BY <2>4, <2>5, <2>6 DEF Reads, Chain
    <3>4. Hears(t)' /\ Talk(t)'
      BY <2>4, <2>5 DEF Hears, Talk, Open
    <3> QED BY <3>1, <3>2, <3>3, <3>4 DEF Each
  <2> QED BY <2>7, <2>8, <2>9, <2>10 DEF IInv
<1>4. CASE up # "up"
  <2>1. module' = Away /\ pipe' = pipe
    BY <1>4 DEF Connect
  <2>2. /\ module' \in Module /\ module'.state = "disconnected" /\ module'.slot = Unset
        /\ module'.last = 0
    BY <2>1, Bounded DEF Away, Module
  <2>3. Types'
    BY <1>1, <1>2, <2>1, <2>2 DEF Types
  <2>4. Ends' /\ NobodyAccused'
    BY <1>1, <1>2, <2>1, <2>2 DEF IInv, Ends, NobodyAccused
  <2>5. \A u \in Slot : Each(u)'
    <3> SUFFICES ASSUME NEW u \in Slot PROVE Each(u)'
      OBVIOUS
    <3>1. ~With(u) /\ ~With(u)'
      BY <1>1, <2>2 DEF With
    <3> QED BY <1>2, <2>1, <3>1, Untouched DEF IInv
  <2> QED BY <2>3, <2>4, <2>5 DEF IInv
<1> QED BY <1>3, <1>4

\* What is common to everything a connected module says: w, if it is still heard.
LEMMA Spoken ==
  ASSUME IInv, Types', NEW t \in Slot, With(t), pipe[t].server # "queued", NEW w \in Seq(Message),
         \A i \in DOMAIN w : w[i].kind \in ToRuntime /\ w[i].seq = SeqAfter(module.sent, i),
         pipe'[t].toRuntime = IF Open(t) THEN pipe[t].toRuntime \o w ELSE pipe[t].toRuntime,
         Worded(pipe'[t].toModule),
         pipe'[t].server = pipe[t].server, pipe'[t].client = pipe[t].client,
         \A u \in Slot \ {t} : pipe'[u] = pipe[u],
         module'.slot = t, module'.state = "ready", module'.sent = SeqAfter(module.sent, Len(w)),
         up' = up, run' = run, features' = features, link' = link, why' = why, whyModule' = whyModule
  PROVE  /\ Ends' /\ NobodyAccused' /\ \A u \in Slot \ {t} : Each(u)'
         /\ Instance(t)' /\ Content(t)' /\ Queued(t)'
         /\ Open(t) =>
              /\ Chain(pipe'[t].toRuntime, link'.last)
              /\ module'.sent = UpTo(pipe'[t].toRuntime, link'.last)
              /\ pipe'[t].toRuntime = pipe[t].toRuntime \o w
<1> DEFINE q == pipe[t].toRuntime
<1> DEFINE c == q \o w
<1>1. Types /\ Ends /\ Each(t) /\ Unset \notin Slot
  BY NativeAssumption DEF IInv
<1>2. q \in Seq(Message) /\ link.last \in 0..MaxSeq
  BY <1>1 DEF Types, Pipe, Link
<1>3. Ends' /\ NobodyAccused'
  <2>1. link.transport # Unset => pipe'[link.transport].server = pipe[link.transport].server
    BY <1>1 DEF Types, Link
  <2> QED BY <1>1, <2>1 DEF IInv, Ends, NobodyAccused
<1>4. ASSUME NEW u \in Slot, u # t PROVE Each(u)'
  <2>1. ~With(u) /\ ~With(u)'
    BY <1>4 DEF With
  <2> QED BY <1>4, <2>1, Untouched DEF IInv
<1>5. pipe[t].server # "free"
  BY <1>1 DEF Each, Instance, With, NoPipe
<1>6. Instance(t)' /\ Queued(t)'
  BY <1>1, <1>5 DEF Each, Instance, Queued, Open, With
<1>7. Content(t)'
  <2>1. \A i \in DOMAIN q : q[i].kind \in ToRuntime
    BY <1>1 DEF Each, Content
  <2> HIDE DEF q
  <2>2. \A i \in DOMAIN c : (i \in DOMAIN q /\ c[i] = q[i]) \/ \E j \in DOMAIN w : c[i] = w[j]
    BY <1>2, Either
  <2> HIDE DEF c
  <2>3. \A i \in DOMAIN c : c[i].kind \in ToRuntime
    BY <2>1, <2>2
  <2>4. pipe'[t].toRuntime = c \/ pipe'[t].toRuntime = q
    BY DEF c, q
  <2> QED BY <2>1, <2>3, <2>4 DEF Content
<1>8. ASSUME Open(t) PROVE /\ Chain(pipe'[t].toRuntime, link'.last)
                           /\ module'.sent = UpTo(pipe'[t].toRuntime, link'.last)
                           /\ pipe'[t].toRuntime = q \o w
  <2>1. Chain(q, link.last) /\ module.sent = UpTo(q, link.last)
    BY <1>1, <1>8 DEF Each, Hears, Talk
  <2> HIDE DEF q
  <2>2. \A i \in DOMAIN w : w[i].seq = SeqAfter(UpTo(q, link.last), i)
    BY <2>1
  <2>3. Chain(c, link.last) /\ UpTo(c, link.last) = SeqAfter(UpTo(q, link.last), Len(w))
    BY <1>2, <2>1, <2>2, ChainExtended
  <2> HIDE DEF c
  <2>4. pipe'[t].toRuntime = c
    BY <1>8 DEF c, q
  <2> QED BY <2>1, <2>3, <2>4 DEF c
<1> QED BY <1>3, <1>4, <1>6, <1>7, <1>8

\* One frame more.
LEMMA Appended ==
  ASSUME NEW q \in Seq(Message), NEW e \in Message
  PROVE  /\ Append(q, e) = q \o <<e>> /\ q \o <<e>> \in Seq(Message) /\ q \o <<e>> # << >>
         /\ \A i \in DOMAIN (q \o <<e>>) : \/ i \in DOMAIN q /\ (q \o <<e>>)[i] = q[i]
                                           \/ (i # 1 \/ q = << >>) /\ (q \o <<e>>)[i] = e
<1> DEFINE c == Append(q, e)
<1>1. /\ c \in Seq(Message) /\ Len(c) = Len(q) + 1 /\ Len(q) \in Nat
      /\ DOMAIN c = 1..Len(c) /\ DOMAIN q = 1..Len(q)
      /\ \A i \in 1..Len(q) : c[i] = q[i]
      /\ c[Len(q) + 1] = e
  OBVIOUS
<1>2. c = q \o <<e>>
  OBVIOUS
<1> HIDE DEF c
<1>3. \A i \in DOMAIN c : \/ i \in DOMAIN q /\ c[i] = q[i]
                          \/ (i # 1 \/ q = << >>) /\ c[i] = e
  <2>1. Len(q) = 0 => q = << >>
    OBVIOUS
  <2> QED BY <1>1, <2>1
<1>4. c # << >>
  BY <1>1
<1> QED BY <1>1, <1>2, <1>3, <1>4 DEF c

LEMMA SendEventStep == ASSUME IInv, SendEvent PROVE IInv'
<1>1. PICK t \in Slot : With(t)
  BY Joining DEF SendEvent
<1>2. /\ Types /\ Ends /\ Each(t) /\ module.slot = t /\ module.state = "ready" /\ pipe[t] \in Pipe
      /\ module.sent \in 0..MaxSeq /\ module.last \in 0..MaxSeq
  BY <1>1 DEF IInv, Types, With, SendEvent, Module
<1>3. /\ up' = up /\ run' = run /\ features' = features /\ keyFile' = keyFile /\ link' = link
      /\ heard' = heard /\ why' = why /\ applied' = applied /\ whyModule' = whyModule
      /\ sets' = sets /\ beats' = beats
  BY DEF SendEvent, runtimeVars
<1> DEFINE n == NextSeq(module.sent)
<1> DEFINE e == Frame("event", n, 0)
<1> DEFINE w == <<e>>
<1> DEFINE q == pipe[t].toRuntime
<1> DEFINE r == IF Open(t) THEN q \o w ELSE q
<1> DEFINE X == [pipe[t] EXCEPT !.toRuntime = r]
<1>4. SeqAfter(module.sent, 1) = n /\ n \in 1..MaxSeq
  BY <1>2, SeqAfterOne, Bounded DEF NextSeq
<1>5. e \in Message /\ e.kind = "event" /\ e.seq = n
  BY <1>4 DEF Frame, Message, ToRuntime, About
<1>6. w \in Seq(Message) /\ Len(w) = 1 /\ DOMAIN w = {1} /\ w[1] = e
  BY <1>5
<1>7. q \in Seq(Message) /\ r \in Seq(Message) /\ Append(q, e) = q \o w
  <2>1. q \in Seq(Message)
    BY <1>2 DEF Pipe
  <2> HIDE DEF q, e
  <2>2. Append(q, e) = q \o w /\ q \o w \in Seq(Message)
    BY <1>5, <2>1, Appended
  <2> QED BY <2>1, <2>2
<1>8. pipe' = [pipe EXCEPT ![t] = X] /\ module' = [module EXCEPT !.sent = n]
  <2>1. pipe' = [pipe EXCEPT ![t].toRuntime = IF pipe[t].server = "open" THEN Append(q, e) ELSE q]
    BY <1>2 DEF SendEvent
  <2>2. r = IF pipe[t].server = "open" THEN Append(q, e) ELSE q
    BY <1>7 DEF Open
  <2> HIDE DEF r, e, w
  <2>3. pipe' = [pipe EXCEPT ![t].toRuntime = r]
    BY <2>1, <2>2
  <2>4. module' = [module EXCEPT !.sent = n]
    BY DEF SendEvent
  <2> QED BY <1>2, <2>3, <2>4 DEF Types
<1> HIDE DEF n, e, w, r
<1>9. /\ X \in Pipe /\ X.toRuntime = r /\ X.toModule = pipe[t].toModule
      /\ X.server = pipe[t].server /\ X.client = pipe[t].client
  BY <1>2, <1>7 DEF Pipe
<1> HIDE DEF X
<1>10. /\ pipe' \in [Slot -> Pipe] /\ pipe'[t] = X /\ \A u \in Slot \ {t} : pipe'[u] = pipe[u]
  BY <1>2, <1>8, <1>9 DEF Types
<1>11. /\ module' \in Module /\ module'.state = "ready" /\ module'.slot = t /\ module'.sent = n
       /\ module'.last = module.last /\ module'.secret = module.secret
  <2>1. module \in Module /\ n \in 0..MaxSeq
    BY <1>2, <1>4 DEF Types
  <2> QED BY <1>2, <1>8, <2>1 DEF Module
<1>12. Types'
  BY <1>2, <1>3, <1>10, <1>11 DEF Types
<1>13. pipe[t].server # "queued"
  BY <1>2 DEF Each, Queued, With
<1>14. /\ Ends' /\ NobodyAccused' /\ \A u \in Slot \ {t} : Each(u)'
       /\ Instance(t)' /\ Content(t)' /\ Queued(t)'
       /\ Open(t) =>
            /\ Chain(pipe'[t].toRuntime, link'.last)
            /\ module'.sent = UpTo(pipe'[t].toRuntime, link'.last)
            /\ pipe'[t].toRuntime = q \o w
  <2>1. Worded(pipe'[t].toModule)
    BY <1>2, <1>9, <1>10 DEF Each, Content
  <2>2. /\ \A i \in DOMAIN w : w[i].kind \in ToRuntime /\ w[i].seq = SeqAfter(module.sent, i)
        /\ module'.sent = SeqAfter(module.sent, Len(w))
    BY <1>4, <1>5, <1>6, <1>11 DEF ToRuntime
  <2>3. pipe'[t].toRuntime = IF Open(t) THEN q \o w ELSE q
    BY <1>9, <1>10 DEF r
  <2> QED BY <1>1, <1>3, <1>6, <1>9, <1>10, <1>11, <1>12, <1>13, <2>1, <2>2, <2>3, Spoken
<1>15. Reads(t)'
  BY <1>2, <1>9, <1>10, <1>11 DEF Each, Reads, With
<1>16. CASE ~Open(t)
  <2>1. Hears(t)' /\ Talk(t)'
    BY <1>9, <1>10, <1>16 DEF Hears, Talk, Open
  <2> QED BY <1>12, <1>14, <1>15, <2>1 DEF IInv, Each
<1>17. CASE Open(t)
  <2> DEFINE c == q \o w
  <2>1. /\ \A i \in DOMAIN c : \/ i \in DOMAIN q /\ c[i] = q[i]
                               \/ (i # 1 \/ q = << >>) /\ c[i] = e
        /\ c # << >>
    BY <1>5, <1>7, Appended DEF w
  <2>2. /\ ~(~link.challenged /\ ~link.authenticated)
        /\ link.challenged => q # << >> /\ pipe[t].toModule = << >>
        /\ link.challenged =>
             \A i \in DOMAIN q : IF i = 1 THEN q[i].kind = "authResult" /\ q[i].about = run ELSE q[i].kind = "event"
        /\ link.authenticated => \A i \in DOMAIN q : q[i].kind \in {"pong", "event"}
    BY <1>2, <1>17 DEF Each, Talk, Hears, With
  <2> HIDE DEF c, q
  <2>3. pipe'[t].toRuntime = c /\ Chain(c, link.last) /\ module'.sent = UpTo(c, link.last)
    BY <1>3, <1>14, <1>17 DEF c
  <2>4. link.challenged =>
          \A i \in DOMAIN c : IF i = 1 THEN c[i].kind = "authResult" /\ c[i].about = run ELSE c[i].kind = "event"
    BY <1>5, <2>1, <2>2
  <2>5. link.authenticated => \A i \in DOMAIN c : c[i].kind \in {"pong", "event"}
    BY <1>5, <2>1, <2>2
  <2>6. Hears(t)'
    BY <1>3, <2>2, <2>3, <2>4, <2>5 DEF Hears
  <2>7. Talk(t)'
    BY <1>2, <1>3, <1>9, <1>10, <1>11, <1>17, <2>1, <2>2, <2>3 DEF Each, Talk, With
  <2> QED BY <1>12, <1>14, <1>15, <2>6, <2>7 DEF IInv, Each
<1> QED BY <1>16, <1>17

\* The frame the module reads next is the one it expects.
LEMMA NextFrame ==
  ASSUME IInv, NEW t \in Slot, With(t), pipe[t].toModule # << >>
  PROVE  LET q == pipe[t].toModule
         IN  /\ q \in Seq(Message) /\ q[1] \in Message /\ Head(q) = q[1] /\ 1 \in DOMAIN q
             /\ module.last \in 0..MaxSeq /\ Chain(q, module.last) /\ q[1].seq = NextSeq(module.last)
             /\ q[1].seq \in 0..MaxSeq
             /\ Tail(q) \in Seq(Message) /\ Len(Tail(q)) = Len(q) - 1
             /\ \A i \in DOMAIN Tail(q) : Tail(q)[i] = q[i + 1] /\ i + 1 \in DOMAIN q
             /\ Chain(Tail(q), q[1].seq) /\ UpTo(Tail(q), q[1].seq) = UpTo(q, module.last)
             /\ Worded(q) /\ Worded(Tail(q))
             /\ pipe[t].server \notin {"free", "queued"}
             /\ module.state \in {"authenticating", "ready"}
             /\ Open(t) => link.challenged \/ link.authenticated
<1> DEFINE q == pipe[t].toModule
<1>1. Types /\ Ends /\ Each(t) /\ pipe[t] \in Pipe /\ module \in Module /\ Unset \notin Slot
  BY NativeAssumption DEF IInv, Types
<1>2. q \in Seq(Message) /\ q # << >> /\ Chain(q, module.last) /\ Worded(q) /\ module.last \in 0..MaxSeq
  BY <1>1 DEF Pipe, Each, Reads, Content, Module
<1>3. /\ pipe[t].server \notin {"free", "queued"} /\ module.state \in {"authenticating", "ready"}
      /\ Open(t) => link.challenged \/ link.authenticated
  BY <1>1, <1>2 DEF Each, Instance, Queued, Talk, Module, Ends, With, NoPipe
<1> HIDE DEF q
<1>4. /\ q[1] \in Message /\ q[1].seq = NextSeq(module.last)
      /\ Tail(q) \in Seq(Message) /\ Len(Tail(q)) = Len(q) - 1
      /\ \A i \in DOMAIN Tail(q) : Tail(q)[i] = q[i + 1] /\ i + 1 \in DOMAIN q
      /\ Chain(Tail(q), q[1].seq) /\ UpTo(Tail(q), q[1].seq) = UpTo(q, module.last)
  BY <1>2, ChainRead
<1>5. Head(q) = q[1] /\ 1 \in DOMAIN q
  BY <1>2
<1>6. q[1].seq \in 0..MaxSeq
  <2>1. q[1].seq \in 1..MaxSeq
    BY <1>4 DEF Message
  <2> QED BY <2>1, Bounded
<1>7. Worded(Tail(q))
  BY <1>2, <1>4 DEF Worded
<1> QED BY <1>2, <1>3, <1>4, <1>5, <1>6, <1>7 DEF q

\* It reads one and answers it, ready from then on.
LEMMA SaidBack ==
  ASSUME IInv, NEW t \in Slot, With(t), pipe[t].toModule # << >>,
         NEW kind \in ToRuntime, NEW about \in About,
         NEW m \in Module, m.slot = t, m.state = "ready", m.sent = module.sent,
         Say(m, kind, about), up' = up, run' = run, features' = features, keyFile' = keyFile, link' = link,
         heard' = heard, why' = why, applied' = applied, sets' = sets, beats' = beats
  PROVE  LET e == Frame(kind, NextSeq(module.sent), about)
         IN  /\ e \in Message /\ e.kind = kind /\ e.about = about /\ Types'
             /\ module'.state = "ready" /\ module'.slot = t
             /\ module'.last = m.last /\ module'.secret = m.secret
             /\ pipe'[t].toModule = Tail(pipe[t].toModule) /\ pipe'[t].server = pipe[t].server
             /\ Ends' /\ NobodyAccused' /\ \A u \in Slot \ {t} : Each(u)'
             /\ Instance(t)' /\ Content(t)' /\ Queued(t)'
             /\ Open(t) =>
                  /\ Chain(pipe'[t].toRuntime, link'.last)
                  /\ module'.sent = UpTo(pipe'[t].toRuntime, link'.last)
                  /\ pipe'[t].toRuntime = pipe[t].toRuntime \o <<e>>
<1> DEFINE n == NextSeq(module.sent)
<1> DEFINE e == Frame(kind, n, about)
<1> DEFINE w == <<e>>
<1> DEFINE q == pipe[t].toRuntime
<1> DEFINE r == IF Open(t) THEN q \o w ELSE q
<1> DEFINE d == Tail(pipe[t].toModule)
<1> DEFINE X == [pipe[t] EXCEPT !.toModule = d, !.toRuntime = r]
<1>1. /\ Types /\ pipe[t] \in Pipe /\ module.sent \in 0..MaxSeq
      /\ d \in Seq(Message) /\ Worded(d) /\ pipe[t].server \notin {"free", "queued"}
  BY NextFrame DEF IInv, Types, Module
<1>2. SeqAfter(module.sent, 1) = n /\ n \in 1..MaxSeq
  BY <1>1, SeqAfterOne, Bounded DEF NextSeq
<1>3. e \in Message /\ e.kind = kind /\ e.seq = n /\ e.about = about
  BY <1>2 DEF Frame, Message
<1>4. w \in Seq(Message) /\ Len(w) = 1 /\ DOMAIN w = {1} /\ w[1] = e
  BY <1>3
<1>5. q \in Seq(Message) /\ r \in Seq(Message) /\ Append(q, e) = q \o w
  <2>1. q \in Seq(Message)
    BY <1>1 DEF Pipe
  <2> HIDE DEF q, e
  <2>2. Append(q, e) = q \o w /\ q \o w \in Seq(Message)
    BY <1>3, <2>1, Appended
  <2> QED BY <2>1, <2>2
<1>6. pipe' = [pipe EXCEPT ![t] = X]
  <2>1. r = IF pipe[t].server \in {"queued", "open"} THEN Append(q, e) ELSE q
    BY <1>1, <1>5 DEF Open
  <2> HIDE DEF r, w
  <2>2. pipe' = [pipe EXCEPT ![t].toModule = d,
                             ![t].toRuntime = IF pipe[t].server \in {"queued", "open"}
                                              THEN Append(@, e) ELSE @]
    BY DEF Say
  <2> HIDE DEF e, n, d
  <2>3. pipe' = [pipe EXCEPT ![t] = [pipe[t] EXCEPT !.toModule = d,
                                     !.toRuntime = IF pipe[t].server \in {"queued", "open"}
                                                   THEN Append(q, e) ELSE q]]
    BY <1>1, <2>2 DEF Types, Pipe
  <2> QED BY <2>1, <2>3
<1> HIDE DEF n, e, w, r, d
<1>7. /\ X \in Pipe /\ X.toRuntime = r /\ X.toModule = d
      /\ X.server = pipe[t].server /\ X.client = pipe[t].client
  BY <1>1, <1>5 DEF Pipe
<1> HIDE DEF X
<1>8. /\ pipe' \in [Slot -> Pipe] /\ pipe'[t] = X /\ \A u \in Slot \ {t} : pipe'[u] = pipe[u]
  <2>1. pipe \in [Slot -> Pipe] /\ X \in Pipe
    BY <1>1, <1>7 DEF Types
  <2> QED BY <1>6, <2>1
<1>9. /\ module' \in Module /\ module'.state = "ready" /\ module'.slot = t /\ module'.sent = n
      /\ module'.last = m.last /\ module'.secret = m.secret
  <2>1. n \in 0..MaxSeq /\ module' = [m EXCEPT !.sent = n]
    BY <1>2 DEF n, Say
  <2> QED BY <2>1 DEF Module
<1>10. Types'
  BY <1>1, <1>8, <1>9 DEF Types
<1>11. /\ Ends' /\ NobodyAccused' /\ \A u \in Slot \ {t} : Each(u)'
       /\ Instance(t)' /\ Content(t)' /\ Queued(t)'
       /\ Open(t) =>
            /\ Chain(pipe'[t].toRuntime, link'.last)
            /\ module'.sent = UpTo(pipe'[t].toRuntime, link'.last)
            /\ pipe'[t].toRuntime = q \o w
  <2>1. Worded(pipe'[t].toModule) /\ whyModule' = whyModule
    BY <1>1, <1>7, <1>8 DEF Say
  <2>2. /\ \A i \in DOMAIN w : w[i].kind \in ToRuntime /\ w[i].seq = SeqAfter(module.sent, i)
        /\ module'.sent = SeqAfter(module.sent, Len(w))
    BY <1>2, <1>3, <1>4, <1>9
  <2>3. pipe'[t].toRuntime = IF Open(t) THEN q \o w ELSE q
    BY <1>7, <1>8 DEF r
  <2> QED BY <1>1, <1>4, <1>7, <1>8, <1>9, <1>10, <2>1, <2>2, <2>3, Spoken
<1> QED BY <1>3, <1>7, <1>8, <1>9, <1>10, <1>11 DEF d, w, e, n

\* The runtime's challenge, from the runtime that wrote the key.
LEMMA ChallengeStep ==
  ASSUME IInv, NEW t \in Slot, With(t), pipe[t].toModule # << >>,
         module.state = "authenticating", pipe[t].toModule[1].about = module.secret,
         NEW m \in Module, m.slot = t, m.state = "ready", m.sent = module.sent,
         m.last = pipe[t].toModule[1].seq, m.secret = module.secret,
         Say(m, "authResult", module.secret), up' = up, run' = run, features' = features, keyFile' = keyFile, link' = link,
         heard' = heard, why' = why, applied' = applied, sets' = sets, beats' = beats
  PROVE  IInv'
<1> DEFINE q == pipe[t].toModule
<1> DEFINE e == Frame("authResult", NextSeq(module.sent), module.secret)
<1>1. Types /\ Ends /\ Each(t) /\ module \in Module
  BY DEF IInv, Types
<1>2. /\ q \in Seq(Message) /\ Chain(q, module.last) /\ q[1].seq \in 0..MaxSeq
      /\ Tail(q) \in Seq(Message) /\ Len(Tail(q)) = Len(q) - 1
      /\ Chain(Tail(q), q[1].seq) /\ UpTo(Tail(q), q[1].seq) = UpTo(q, module.last)
      /\ Open(t) => link.challenged \/ link.authenticated
  BY NextFrame
<1>3. Len(q) <= 1 /\ Tail(q) = << >>
  <2>1. Len(q) <= 1
    BY <1>1 DEF Each, Reads
  <2> HIDE DEF q
  <2> QED BY <1>2, <2>1
<1>5. "authResult" \in ToRuntime /\ module.secret \in About
  BY <1>1 DEF ToRuntime, Module, About
<1>6. /\ e \in Message /\ e.kind = "authResult" /\ e.about = module.secret /\ Types'
      /\ module'.state = "ready" /\ module'.slot = t
      /\ module'.last = q[1].seq /\ module'.secret = module.secret
      /\ pipe'[t].toModule = Tail(q) /\ pipe'[t].server = pipe[t].server
      /\ Ends' /\ NobodyAccused' /\ \A u \in Slot \ {t} : Each(u)'
      /\ Instance(t)' /\ Content(t)' /\ Queued(t)'
      /\ Open(t) =>
           /\ Chain(pipe'[t].toRuntime, link'.last)
           /\ module'.sent = UpTo(pipe'[t].toRuntime, link'.last)
           /\ pipe'[t].toRuntime = pipe[t].toRuntime \o <<e>>
  <2>2. /\ e \in Message /\ e.kind = "authResult" /\ e.about = module.secret /\ Types'
        /\ module'.state = "ready" /\ module'.slot = t
        /\ module'.last = m.last /\ module'.secret = m.secret
        /\ pipe'[t].toModule = Tail(pipe[t].toModule) /\ pipe'[t].server = pipe[t].server
        /\ Ends' /\ NobodyAccused' /\ \A u \in Slot \ {t} : Each(u)'
        /\ Instance(t)' /\ Content(t)' /\ Queued(t)'
        /\ Open(t) =>
             /\ Chain(pipe'[t].toRuntime, link'.last)
             /\ module'.sent = UpTo(pipe'[t].toRuntime, link'.last)
             /\ pipe'[t].toRuntime = pipe[t].toRuntime \o <<e>>
    BY <1>5, SaidBack
  <2> HIDE DEF e
  <2> QED BY <2>2
<1> HIDE DEF e, q
<1>7. Reads(t)'
  BY <1>2, <1>3, <1>6 DEF Reads
<1>8. CASE ~Open(t)
  <2>1. Hears(t)' /\ Talk(t)'
    BY <1>6, <1>8 DEF Hears, Talk, Open
  <2> QED BY <1>6, <1>7, <2>1 DEF IInv, Each
<1>9. CASE Open(t)
  <2>1. /\ ~link.authenticated /\ link.challenged /\ pipe[t].toRuntime = << >> /\ q = <<Frame("challenge", 1, run)>>
        /\ link.sent = UpTo(q, module.last)
    BY <1>1, <1>2, <1>9 DEF Each, Talk, q
  <2>2. module.secret = run
    BY <2>1 DEF q, Frame
  <2>3. pipe'[t].toRuntime = <<e>>
    BY <1>6, <1>9, <2>1
  <2>4. Hears(t)'
    BY <1>6, <1>9, <2>1, <2>2, <2>3 DEF Hears
  <2>5. Talk(t)'
    BY <1>2, <1>3, <1>6, <1>9, <2>1, <2>2, <2>3 DEF Talk
  <2> QED BY <1>6, <1>7, <2>4, <2>5 DEF IInv, Each
<1> QED BY <1>8, <1>9

\* The feature the first frame of q sets, as set, and the others as they were.
Obeyed(q) == [k \in Key |-> IF q[1].kind = "set" /\ q[1].about[1] = k THEN q[1].about[2] ELSE applied[k]]

\* What a module that has proved itself has in front of it when it has read a frame.
LEMMA ReadOn ==
  ASSUME IInv, NEW t \in Slot, With(t), pipe[t].toModule # << >>, module.state = "ready",
         module'.slot = t, module'.state = "ready", module'.last = pipe[t].toModule[1].seq,
         module'.secret = module.secret,
         pipe'[t].toModule = Tail(pipe[t].toModule), pipe'[t].server = pipe[t].server,
         link' = link, run' = run, features' = features,
         applied' = Obeyed(pipe[t].toModule),
         Open(t) => module'.sent = UpTo(pipe'[t].toRuntime, link'.last)
  PROVE  Reads(t)' /\ Talk(t)' /\ (Open(t) => link.authenticated /\ ~link.challenged)
<1> DEFINE q == pipe[t].toModule
<1>1. Types /\ Ends /\ Each(t)
  BY DEF IInv
<1>2. /\ q \in Seq(Message) /\ q # << >>
      /\ \A i \in DOMAIN Tail(q) : Tail(q)[i] = q[i + 1] /\ i + 1 \in DOMAIN q
      /\ Chain(Tail(q), q[1].seq) /\ UpTo(Tail(q), q[1].seq) = UpTo(q, module.last)
      /\ Open(t) => link.challenged \/ link.authenticated
  BY NextFrame
<1>3. Open(t) => link.authenticated /\ ~link.challenged
  BY <1>1, <1>2 DEF Each, Talk, Ends
<1>4. \A i \in DOMAIN q : q[i].kind \in {"set", "ping"}
  BY <1>1 DEF Each, Reads
<1>5. ASSUME Open(t), NEW k \in Key, features[k] # Unset
      PROVE  Settled(Tail(q), k, applied'[k], features[k])
  <2>1. Settled(q, k, applied[k], features[k])
    BY <1>1, <1>3, <1>5 DEF Each, Talk
  <2>2. applied'[k] = IF q[1].kind = "set" /\ q[1].about[1] = k THEN q[1].about[2] ELSE applied[k]
    BY DEF Obeyed
  <2> HIDE DEF q
  <2> QED BY <1>2, <2>1, <2>2, SettledRead
<1>6. Open(t) => link.sent = UpTo(q, module.last) /\ module.secret = run
  BY <1>1 DEF Each, Talk
<1> HIDE DEF q
<1>7. pipe'[t].toModule = Tail(q) /\ module'.last = q[1].seq
  BY DEF q
<1>8. \A i \in DOMAIN Tail(q) : Tail(q)[i].kind \in {"set", "ping"}
  BY <1>2, <1>4
<1>9. Reads(t)'
  BY <1>2, <1>7, <1>8 DEF Reads
<1>10. CASE ~Open(t)
  <2>1. Talk(t)'
    BY <1>10 DEF Talk, Open
  <2> QED BY <1>9, <1>10, <2>1
<1>11. CASE Open(t)
  <2>1. \A k \in Key : features'[k] # Unset => Settled(Tail(q), k, applied'[k], features'[k])
    BY <1>5, <1>11
  <2>2. Talk(t)'
    BY <1>2, <1>3, <1>6, <1>7, <1>11, <2>1 DEF Talk
  <2> QED BY <1>3, <1>9, <2>2
<1> QED BY <1>10, <1>11

\* A heartbeat, and the proof it asks for.
LEMMA PingStep ==
  ASSUME IInv, NEW t \in Slot, With(t), pipe[t].toModule # << >>,
         module.state = "ready", pipe[t].toModule[1].kind = "ping",
         NEW m \in Module, m.slot = t, m.state = "ready", m.sent = module.sent,
         m.last = pipe[t].toModule[1].seq, m.secret = module.secret,
         Say(m, "pong", <<pipe[t].toModule[1].about, module.secret>>),
         up' = up, run' = run, features' = features, keyFile' = keyFile, link' = link,
         heard' = heard, why' = why, applied' = applied, sets' = sets, beats' = beats
  PROVE  IInv'
<1> DEFINE a == <<pipe[t].toModule[1].about, module.secret>>
<1> DEFINE e == Frame("pong", NextSeq(module.sent), a)
<1> DEFINE q == pipe[t].toRuntime
<1>1. Types /\ Ends /\ Each(t) /\ module \in Module
  BY DEF IInv, Types
<1>2. "pong" \in ToRuntime /\ a \in About
  <2>1. pipe[t].toModule[1].about \in Nat
    <3>1. Worded(pipe[t].toModule) /\ 1 \in DOMAIN pipe[t].toModule
      BY NextFrame
    <3> QED BY <3>1 DEF Worded
  <2>2. module.secret \in Nat \cup {Unset}
    BY <1>1 DEF Module
  <2> QED BY <2>1, <2>2 DEF ToRuntime, About
<1>3. /\ e \in Message /\ e.kind = "pong" /\ e.about = a /\ Types'
      /\ module'.state = "ready" /\ module'.slot = t
      /\ module'.last = m.last /\ module'.secret = m.secret
      /\ pipe'[t].toModule = Tail(pipe[t].toModule) /\ pipe'[t].server = pipe[t].server
      /\ Ends' /\ NobodyAccused' /\ \A u \in Slot \ {t} : Each(u)'
      /\ Instance(t)' /\ Content(t)' /\ Queued(t)'
      /\ Open(t) =>
           /\ Chain(pipe'[t].toRuntime, link'.last)
           /\ module'.sent = UpTo(pipe'[t].toRuntime, link'.last)
           /\ pipe'[t].toRuntime = q \o <<e>>
  <2> HIDE DEF a
  <2>1. Say(m, "pong", a)
    BY DEF a
  <2> QED BY <1>2, <2>1, SaidBack
<1> HIDE DEF e
<1>4. applied' = Obeyed(pipe[t].toModule)
  BY <1>1 DEF Types, Wanted, Obeyed
<1>5. Reads(t)' /\ Talk(t)' /\ (Open(t) => link.authenticated /\ ~link.challenged)
  BY <1>3, <1>4, ReadOn
<1>6. Hears(t)'
  <2>1. CASE ~Open(t)
    BY <1>3, <2>1 DEF Hears, Open
  <2>2. CASE Open(t)
    <3>1. q \in Seq(Message) /\ \A i \in DOMAIN q : q[i].kind \in {"pong", "event"}
      BY <1>1, <1>5, <2>2 DEF Types, Pipe, Each, Hears
    <3> HIDE DEF q
    <3>2. \A i \in DOMAIN (q \o <<e>>) : (q \o <<e>>)[i].kind \in {"pong", "event"}
      BY <1>3, <3>1, Appended
    <3> QED BY <1>3, <1>5, <2>2, <3>2 DEF Hears
  <2> QED BY <2>1, <2>2
<1> QED BY <1>3, <1>5, <1>6 DEF IInv, Each

\* A feature is set, in the module.
LEMMA ApplyStep ==
  ASSUME IInv, NEW t \in Slot, With(t), pipe[t].toModule # << >>,
         module.state = "ready", pipe[t].toModule[1].kind = "set",
         module' = [module EXCEPT !.last = pipe[t].toModule[1].seq],
         applied' = [applied EXCEPT ![pipe[t].toModule[1].about[1]] = pipe[t].toModule[1].about[2]],
         pipe' = [pipe EXCEPT ![t].toModule = Tail(@)],
         up' = up, run' = run, features' = features, keyFile' = keyFile, link' = link,
         heard' = heard, why' = why, whyModule' = whyModule, sets' = sets, beats' = beats
  PROVE  IInv'
<1> DEFINE q == pipe[t].toModule
<1> DEFINE f == q[1]
<1>1. Types /\ Ends /\ Each(t) /\ module \in Module /\ pipe[t] \in Pipe /\ module.sent \in 0..MaxSeq
  BY DEF IInv, Types, Module
<1>2. /\ Tail(q) \in Seq(Message) /\ Worded(Tail(q)) /\ q[1].seq \in 0..MaxSeq
      /\ f.about \in Key \X (1..MaxSets) /\ pipe[t].server \notin {"free", "queued"}
  <2>1. /\ Tail(q) \in Seq(Message) /\ Worded(Tail(q)) /\ q[1].seq \in 0..MaxSeq
        /\ Worded(q) /\ 1 \in DOMAIN q /\ pipe[t].server \notin {"free", "queued"}
    BY NextFrame
  <2> QED BY <2>1 DEF Worded
<1>3. /\ module' \in Module /\ module'.state = "ready" /\ module'.slot = t
      /\ module'.sent = module.sent /\ module'.last = q[1].seq /\ module'.secret = module.secret
  <2> DEFINE s == q[1].seq
  <2>1. s \in 0..MaxSeq /\ module' = [module EXCEPT !.last = s] /\ module.slot = t
    BY <1>2 DEF With
  <2> HIDE DEF s
  <2>2. /\ module' \in Module /\ module'.state = "ready" /\ module'.slot = t
        /\ module'.sent = module.sent /\ module'.last = s /\ module'.secret = module.secret
    BY <1>1, <2>1 DEF Module
  <2> QED BY <2>2 DEF s
<1>4. applied' = Obeyed(q) /\ applied' \in Wanted
  <2> DEFINE j == f.about[1]
  <2> DEFINE n == f.about[2]
  <2>1. j \in Key /\ n \in 1..MaxSets /\ f.kind = "set"
    BY <1>2
  <2>2. applied' = [applied EXCEPT ![j] = n]
    OBVIOUS
  <2>3. Obeyed(q) = [k \in Key |-> IF j = k THEN n ELSE applied[k]]
    BY DEF Obeyed
  <2> HIDE DEF j, n
  <2> QED BY <1>1, <2>1, <2>2, <2>3 DEF Types, Wanted
<1> DEFINE d == Tail(q)
<1> DEFINE X == [pipe[t] EXCEPT !.toModule = d]
<1>5. pipe' = [pipe EXCEPT ![t] = X]
  BY <1>1 DEF Types
<1>6. /\ X \in Pipe /\ X.toRuntime = pipe[t].toRuntime /\ X.toModule = d
      /\ X.server = pipe[t].server /\ X.client = pipe[t].client
  <2>1. d \in Seq(Message)
    BY <1>2
  <2> HIDE DEF d
  <2> QED BY <1>1, <2>1 DEF Pipe
<1> HIDE DEF X
<1>7. /\ pipe' \in [Slot -> Pipe] /\ pipe'[t] = X /\ \A u \in Slot \ {t} : pipe'[u] = pipe[u]
  <2>1. pipe \in [Slot -> Pipe]
    BY <1>1 DEF Types
  <2> QED BY <1>5, <1>6, <2>1
<1>8. Types'
  BY <1>1, <1>3, <1>4, <1>7 DEF Types
<1>9. /\ Ends' /\ NobodyAccused' /\ \A u \in Slot \ {t} : Each(u)'
      /\ Instance(t)' /\ Content(t)' /\ Queued(t)'
      /\ Open(t) =>
           /\ Chain(pipe'[t].toRuntime, link'.last)
           /\ module'.sent = UpTo(pipe'[t].toRuntime, link'.last)
           /\ pipe'[t].toRuntime = pipe[t].toRuntime \o << >>
  <2> DEFINE w == << >>
  <2> DEFINE r == pipe[t].toRuntime
  <2>1. w \in Seq(Message) /\ Len(w) = 0 /\ DOMAIN w = {}
    OBVIOUS
  <2>2. r \o w = r
    <3>1. r \in Seq(Message)
      BY <1>1 DEF Pipe
    <3> QED BY <3>1
  <2>3. SeqAfter(module.sent, Len(w)) = module.sent
    BY <1>1, <2>1, SeqAfterOne
  <2>4. Worded(pipe'[t].toModule) /\ pipe'[t].toRuntime = r
    BY <1>2, <1>6, <1>7
  <2> HIDE DEF w, r, q, d
  <2>5. pipe'[t].toRuntime = IF Open(t) THEN r \o w ELSE r
    BY <2>2, <2>4
  <2>6. /\ pipe'[t].server = pipe[t].server /\ pipe'[t].client = pipe[t].client
        /\ \A i \in DOMAIN w : w[i].kind \in ToRuntime /\ w[i].seq = SeqAfter(module.sent, i)
        /\ module'.sent = SeqAfter(module.sent, Len(w)) /\ pipe[t].server # "queued"
    BY <1>2, <1>3, <1>6, <1>7, <2>1, <2>3
  <2>7. /\ Ends' /\ NobodyAccused' /\ \A u \in Slot \ {t} : Each(u)'
        /\ Instance(t)' /\ Content(t)' /\ Queued(t)'
        /\ Open(t) =>
             /\ Chain(pipe'[t].toRuntime, link'.last)
             /\ module'.sent = UpTo(pipe'[t].toRuntime, link'.last)
             /\ pipe'[t].toRuntime = r \o w
    BY <1>3, <1>7, <1>8, <2>1, <2>4, <2>5, <2>6, Spoken DEF r
  <2> QED BY <2>7 DEF r, w
<1>10. Reads(t)' /\ Talk(t)' /\ (Open(t) => link.authenticated /\ ~link.challenged)
  BY <1>3, <1>4, <1>6, <1>7, <1>9, ReadOn
<1>11. Hears(t)'
  BY <1>1, <1>6, <1>7 DEF Each, Hears, Open
<1> QED BY <1>8, <1>9, <1>10, <1>11 DEF IInv, Each

LEMMA PollStep == ASSUME IInv, Poll PROVE IInv'
<1> DEFINE q == pipe[module.slot].toModule
<1> DEFINE f == Head(q)
<1> DEFINE m == [module EXCEPT !.last = f.seq]
<1>1. PICK t \in Slot : With(t)
  BY Joining DEF Poll
<1>2. /\ Types /\ Each(t) /\ module \in Module /\ module.slot = t /\ pipe[t].toModule # << >>
      /\ module.sent \in 0..MaxSeq
  BY <1>1 DEF IInv, Types, With, Poll, Module
<1>3. /\ up' = up /\ run' = run /\ features' = features /\ keyFile' = keyFile /\ link' = link
      /\ heard' = heard /\ why' = why /\ sets' = sets /\ beats' = beats
  BY DEF Poll, runtimeVars, counters
<1>4. /\ f = pipe[t].toModule[1] /\ f.seq = NextSeq(module.last) /\ f.seq \in 0..MaxSeq
      /\ module.state \in {"authenticating", "ready"} /\ 1 \in DOMAIN pipe[t].toModule
  BY <1>1, <1>2, NextFrame
<1>5. /\ module.state = "authenticating" => f.kind = "challenge"
      /\ module.state = "ready" => f.kind \in {"set", "ping"}
  BY <1>1, <1>2, <1>4 DEF Each, Reads
<1>6. /\ m \in Module /\ m.slot = t /\ m.sent = module.sent /\ m.last = f.seq /\ m.secret = module.secret
      /\ m.state = module.state
  <2> HIDE DEF f
  <2> QED BY <1>2, <1>4 DEF Module
<1>7. \/ /\ f.kind = "challenge" /\ m.state = "authenticating"
         /\ Challenge(m, f) /\ applied' = applied
      \/ /\ f.kind = "ping" /\ m.state = "ready"
         /\ Say(m, "pong", <<f.about, m.secret>>) /\ applied' = applied
      \/ /\ f.kind = "set" /\ m.state = "ready"
         /\ module' = m
         /\ applied' = [applied EXCEPT ![f.about[1]] = f.about[2]]
         /\ pipe' = [pipe EXCEPT ![m.slot].toModule = Tail(@)]
         /\ whyModule' = whyModule
  <2> HIDE DEF m
  <2>1. f.seq = NextSeq(module.last)
    BY <1>4
  <2>2. ~((f.kind = "challenge") # (m.state = "authenticating"))
    BY <1>4, <1>5, <1>6
  <2> HIDE DEF f
  <2> QED BY <2>1, <2>2 DEF Poll, m, f
<1> HIDE DEF m
<1>8. CASE f.kind = "challenge" /\ m.state = "authenticating" /\ Challenge(m, f) /\ applied' = applied
  <2>1. CASE f.about = m.secret
    <3> DEFINE r == [m EXCEPT !.state = "ready"]
    <3>1. Say(r, "authResult", m.secret)
      BY <1>8, <2>1 DEF Challenge
    <3>2. /\ r \in Module /\ r.slot = t /\ r.state = "ready" /\ r.sent = module.sent
          /\ r.last = f.seq /\ r.secret = module.secret
      <4> HIDE DEF f
      <4> QED BY <1>6 DEF Module
    <3> HIDE DEF r
    <3>3. Say(r, "authResult", module.secret)
      BY <1>6, <3>1
    <3> QED BY <1>1, <1>2, <1>3, <1>4, <1>6, <1>8, <2>1, <3>2, <3>3, ChallengeStep
  <2>2. CASE f.about # m.secret
    <3>1. /\ module' = Away /\ whyModule' \notin Blamed
          /\ pipe' = [pipe EXCEPT ![module.slot].client = FALSE, ![module.slot].toModule = << >>]
      BY <1>8, <2>2 DEF Challenge, Left, Blamed
    <3>2. applied' \in Wanted /\ beats' \in 0..MaxBeats
      BY <1>2, <1>3, <1>8 DEF Types
    <3> QED BY <1>1, <1>2, <1>3, <3>1, <3>2, LeftStep
  <2> QED BY <2>1, <2>2
<1>9. CASE /\ f.kind = "ping" /\ m.state = "ready"
           /\ Say(m, "pong", <<f.about, m.secret>>) /\ applied' = applied
  <2>1. Say(m, "pong", <<pipe[t].toModule[1].about, module.secret>>)
    <3>1. <<f.about, m.secret>> = <<pipe[t].toModule[1].about, module.secret>>
      BY <1>4, <1>6
    <3> HIDE DEF f
    <3> QED BY <1>9, <3>1
  <2>2. m.state = "ready" /\ module.state = "ready" /\ pipe[t].toModule[1].kind = "ping"
    BY <1>4, <1>6, <1>9
  <2>3. m.last = pipe[t].toModule[1].seq
    BY <1>4, <1>6
  <2> QED BY <1>1, <1>2, <1>3, <1>6, <1>9, <2>1, <2>2, <2>3, PingStep
<1>10. CASE /\ f.kind = "set" /\ m.state = "ready"
            /\ module' = m
            /\ applied' = [applied EXCEPT ![f.about[1]] = f.about[2]]
            /\ pipe' = [pipe EXCEPT ![m.slot].toModule = Tail(@)]
            /\ whyModule' = whyModule
  <2>1. /\ module' = [module EXCEPT !.last = pipe[t].toModule[1].seq]
        /\ applied' = [applied EXCEPT ![pipe[t].toModule[1].about[1]] = pipe[t].toModule[1].about[2]]
        /\ pipe' = [pipe EXCEPT ![t].toModule = Tail(@)]
    BY <1>4, <1>6, <1>10 DEF m
  <2>2. module.state = "ready" /\ pipe[t].toModule[1].kind = "set"
    BY <1>4, <1>6, <1>10
  <2> QED BY <1>1, <1>2, <1>3, <1>10, <2>1, <2>2, ApplyStep
<1> QED BY <1>7, <1>8, <1>9, <1>10

-----------------------------------------------------------------------------
(* The invariant holds of every behaviour.                                 *)

LEMMA StepHolds == IInv /\ [Next]_vars => IInv'
<1> SUFFICES ASSUME IInv, [Next]_vars PROVE IInv'
  OBVIOUS
<1>1. CASE Start
  BY <1>1, StartStep
<1>2. CASE Listen
  BY <1>2, ListenStep
<1>3. CASE Stop
  BY <1>3, StopStep
<1>4. CASE Crash
  BY <1>4, CrashStep
<1>5. CASE Beat
  BY <1>5, BeatStep
<1>6. ASSUME NEW t \in Slot, Accept(t) \/ Receive(t) \/ PeerEnds(t) \/ CloseEvent(t) \/ Freed(t)
      PROVE  IInv'
  BY <1>6, AcceptStep, ReceiveStep, PeerEndsStep, CloseEventStep, FreedStep
<1>7. ASSUME NEW k \in Key, SetFeature(k) PROVE IInv'
  BY <1>7, SetFeatureStep
<1>8. CASE ReadKey
  BY <1>8, ReadKeyStep
<1>9. CASE Connect
  BY <1>9, ConnectStep
<1>10. CASE Poll
  BY <1>10, PollStep
<1>11. CASE PipeBroken
  BY <1>11, PipeBrokenStep
<1>12. CASE SendEvent
  BY <1>12, SendEventStep
<1>13. CASE Drop
  BY <1>13, DropStep
<1>14. CASE UNCHANGED vars
  <2>1. Types'
    BY <1>14 DEF vars, runtimeVars, moduleVars, counters, IInv, Types
  <2> QED BY <1>14, <2>1, NothingSaid DEF vars, runtimeVars, moduleVars, counters
<1> QED BY <1>1, <1>2, <1>3, <1>4, <1>5, <1>6, <1>7, <1>8, <1>9, <1>10, <1>11, <1>12, <1>13, <1>14 DEF Next

LEMMA Invariance == Spec => []IInv
<1>1. Init => IInv
  BY InitHolds
<1>2. IInv /\ [Next]_vars => IInv'
  BY StepHolds
<1> QED BY <1>1, <1>2, PTL DEF Spec

\* Both ends, the key and the pipe between them stay what they are said to be:
\* only the kinds of message each end sends, numbered within the counter.
THEOREM LinkTypes == Spec => []TypeOK
<1>1. IInv => TypeOK
  <2> SUFFICES ASSUME IInv PROVE TypeOK
    OBVIOUS
  <2>1. Types
    BY DEF IInv
  <2>2. ASSUME NEW t \in Slot
        PROVE  /\ pipe[t].server \in {"free", "queued", "open", "destroyed", "closed"}
               /\ pipe[t].client \in BOOLEAN
               /\ \A f \in ToSet(pipe[t].toRuntime) : f.kind \in ToRuntime /\ f.seq \in 1..MaxSeq
               /\ \A f \in ToSet(pipe[t].toModule) : f.kind \in ToModule /\ f.seq \in 1..MaxSeq
    <3>1. pipe[t] \in Pipe /\ Content(t)
      BY <2>1 DEF Types, IInv, Each
    <3>2. pipe[t].toRuntime \in Seq(Message) /\ pipe[t].toModule \in Seq(Message)
      BY <3>1 DEF Pipe
    <3>3. \A i \in DOMAIN pipe[t].toRuntime : pipe[t].toRuntime[i] \in Message
      BY <3>2
    <3>4. \A i \in DOMAIN pipe[t].toModule : pipe[t].toModule[i] \in Message
      BY <3>2
    <3>5. \A f \in ToSet(pipe[t].toRuntime) : f.kind \in ToRuntime /\ f.seq \in 1..MaxSeq
      BY <3>1, <3>3 DEF ToSet, Content, Message
    <3>6. \A f \in ToSet(pipe[t].toModule) : f.kind \in ToModule /\ f.seq \in 1..MaxSeq
      BY <3>1, <3>4 DEF ToSet, Content, Worded, Message
    <3> QED BY <3>1, <3>5, <3>6 DEF Pipe
  <2> QED BY <2>1, <2>2 DEF TypeOK, Types, Wanted
<1> QED BY <1>1, Invariance, PTL

\* The two ends agree: on the numbers of what is between them, on the secret, on
\* the features once the module has proved itself, and neither ever accuses the
\* other, whatever starts, restarts, refusals and losses the link goes through.
THEOREM LinkNeverAtOdds == Spec => []NeverAtOdds
<1>1. IInv => NeverAtOdds
  <2> SUFFICES ASSUME IInv PROVE NeverAtOdds
    OBVIOUS
  <2>1. ASSUME NEW t \in Slot, Joined(t)
        PROVE  /\ Bring(pipe[t].toRuntime, link.last, module.sent)
               /\ Bring(pipe[t].toModule, module.last, link.sent)
    <3>1. /\ Chain(pipe[t].toRuntime, link.last) /\ module.sent = UpTo(pipe[t].toRuntime, link.last)
          /\ Chain(pipe[t].toModule, module.last) /\ link.sent = UpTo(pipe[t].toModule, module.last)
      BY <2>1 DEF IInv, Each, Hears, Reads, Talk, Joined, Open, With
    <3> QED BY <3>1, ChainBrings
  <2>2. InSequence
    BY <2>1 DEF InSequence
  <2>3. TrustIsMutual
    BY DEF IInv, Each, Talk, Joined, Open, With, TrustIsMutual
  <2>4. FeaturesReach
    BY DEF IInv, Each, Talk, Joined, Open, With, FeaturesReach
  <2> QED BY <2>2, <2>3, <2>4 DEF IInv, NeverAtOdds
<1> QED BY <1>1, Invariance, PTL
=============================================================================
