----------------------------- MODULE RuntimeProofs -----------------------------
(* The parts of the runtime's machinery, proved for any plugins, files, links, *)
(* lists, lanes and any number of steps: one inductive invariant to each part,  *)
(* and from them the invariants and the steps MCRuntime checks on small         *)
(* instances. Recursive functions are followed to their bound by the induction  *)
(* the first lemmas give.                                                      *)
EXTENDS MCRuntime, SequenceTheorems, WellFoundedInduction, TLAPS

(***************************************************************************)
(* Induction over the naturals, and recursion up to a bound.               *)
(***************************************************************************)
LEMMA LeastOne == ASSUME NEW T \in SUBSET Nat, T # {} PROVE \E n \in T : \A m \in T : n <= m
<1> DEFINE R == OpToRel(<, Nat)
<1>1. IsWellFoundedOn(R, Nat)
  BY NatLessThanWellFounded
<1>2. \A x, y \in Nat : <<y, x>> \in R <=> y < x
  BY DEF OpToRel
<1> HIDE DEF R
<1>3. PICK x \in T : \A y \in T : ~ (<<y, x>> \in R)
  BY <1>1, WFMin
<1>4. \A y \in T : x <= y
  <2> SUFFICES ASSUME NEW y \in T PROVE x <= y
    OBVIOUS
  <2>1. x \in Nat /\ y \in Nat
    OBVIOUS
  <2>2. ~(<<y, x>> \in R)
    BY <1>3
  <2>3. ~(y < x)
    BY <1>2, <2>1, <2>2
  <2> QED
    BY <2>1, <2>3
<1> QED
  BY <1>4

LEMMA Upwards == ASSUME NEW T \in SUBSET Nat, 0 \in T, \A n \in T : n + 1 \in T PROVE T = Nat
<1> SUFFICES ASSUME Nat \ T # {} PROVE FALSE
  OBVIOUS
<1> DEFINE Missing == Nat \ T
<1>1. PICK n \in Missing : \A m \in Missing : n <= m
  BY LeastOne
<1>2. n \in Nat /\ n # 0 /\ n - 1 \in Nat /\ n - 1 < n /\ (n - 1) + 1 = n
  OBVIOUS
<1>3. n - 1 \in T
  BY <1>1, <1>2
<1> QED
  BY <1>2, <1>3

\* A step that keeps to X can be taken over and over.
IsRun(f, X, x, N, G) == f \in [0 .. N -> X] /\ f[0] = x /\ \A n \in 1 .. N : f[n] = G[<<n, f[n - 1]>>]
LEMMA Recursion ==
  ASSUME NEW X, NEW x \in X, NEW N \in Nat, NEW G \in [(1 .. N) \X X -> X]
  PROVE \E f : IsRun(f, X, x, N, G)
<1> DEFINE Far(m, f) == f[0] = x /\ \A n \in 1 .. m : f[n] = G[<<n, f[n - 1]>>]
           T == {m \in Nat : m <= N => \E f \in [0 .. m -> X] : Far(m, f)}
<1>1. 0 \in T
  <2>1. [n \in 0 .. 0 |-> x] \in [0 .. 0 -> X] /\ Far(0, [n \in 0 .. 0 |-> x])
    OBVIOUS
  <2> QED
    BY <2>1
<1>2. ASSUME NEW m \in T PROVE m + 1 \in T
  <2> SUFFICES ASSUME m + 1 <= N PROVE \E f \in [0 .. (m + 1) -> X] : Far(m + 1, f)
    OBVIOUS
  <2>1. m \in Nat /\ m <= N /\ m + 1 \in 1 .. N
    OBVIOUS
  <2>2. PICK f \in [0 .. m -> X] : Far(m, f)
    BY <2>1
  <2> DEFINE y == G[<<m + 1, f[m]>>]
             g == [n \in 0 .. (m + 1) |-> IF n = m + 1 THEN y ELSE f[n]]
  <2>3. f[m] \in X /\ y \in X
    BY <2>1, <2>2
  <2> HIDE DEF y
  <2>4. g \in [0 .. (m + 1) -> X]
    BY <2>1, <2>2, <2>3
  <2>5. g[0] = x
    BY <2>1, <2>2
  <2>6. ASSUME NEW n \in 1 .. (m + 1) PROVE g[n] = G[<<n, g[n - 1]>>]
    <3>1. n - 1 \in 0 .. m /\ n - 1 # m + 1
      BY <2>1
    <3>2. g[n - 1] = f[n - 1]
      BY <2>1, <3>1
    <3>3. CASE n = m + 1
      <4>1. n - 1 = m /\ g[n] = y
        BY <2>1, <3>3
      <4> QED
        BY <3>2, <3>3, <4>1 DEF y
    <3>4. CASE n # m + 1
      <4>1. n \in 1 .. m /\ g[n] = f[n]
        BY <2>1, <3>4
      <4> QED
        BY <2>2, <3>2, <4>1
    <3> QED
      BY <3>3, <3>4
  <2> HIDE DEF g
  <2> QED
    BY <2>4, <2>5, <2>6
<1> HIDE DEF T
<1>3. T \in SUBSET Nat
  BY DEF T
<1>4. N \in T
  BY <1>1, <1>2, <1>3, Upwards
<1> QED
  BY <1>4 DEF T, IsRun

(***************************************************************************)
(* The preferences file, for any number of changes, kills and failures     *)
(* (PreferencesFile).                                                      *)
(***************************************************************************)

\* What is in the chain is newer than the file, in order, and not newer than memory,
\* than which only a marked change is newer; a temporary file ready to be renamed is
\* the document at the head of the chain.
Ordered ==
  /\ PrefTypeOK /\ file # Half
  /\ \A i, j \in 1..Len(writing) : i < j => writing[i] < writing[j]
  /\ \A i \in 1..Len(writing) : /\ file \in Document => file < writing[i]
                                /\ writing[i] <= memory
                                /\ dirty => writing[i] < memory
  /\ alive /\ file \in Document => file <= memory /\ (dirty => file < memory)
  /\ step = "rename" => writing # <<>> /\ temp = Head(writing)
  /\ ~alive => writing = <<>> /\ ~dirty

\* The newest change is marked, last in the chain, in the file, or lost to a failure;
\* a mark has its timer or close().
Covered ==
  /\ dirty => timer \/ closed
  /\ writing # <<>> /\ ~dirty => writing[Len(writing)] = memory
  /\ alive /\ writing = <<>> /\ ~dirty /\ ~owed /\ memory # 0 => file = memory

\* What the chain is when its first document has been written or given up.
LEMMA Shortened ==
  ASSUME NEW S, NEW s \in Seq(S), s # <<>>
  PROVE  /\ Tail(s) \in Seq(S) /\ Len(s) \in Nat \ {0} /\ Len(Tail(s)) = Len(s) - 1
         /\ Head(s) = s[1] /\ Head(s) \in S
         /\ \A i \in 1..Len(Tail(s)) : Tail(s)[i] = s[i + 1] /\ i + 1 \in 1..Len(s) /\ 1 < i + 1
  OBVIOUS

LEMMA Lengthened ==
  ASSUME NEW S, NEW s \in Seq(S), NEW x \in S
  PROVE  /\ Append(s, x) \in Seq(S) /\ Append(s, x) # <<>>
         /\ Len(s) \in Nat /\ Len(Append(s, x)) = Len(s) + 1
         /\ Append(s, x)[Len(s) + 1] = x
         /\ \A i \in 1..Len(s) : Append(s, x)[i] = s[i]
  OBVIOUS

LEMMA FlushOrders == Ordered /\ Flush /\ alive /\ UNCHANGED <<memory, step, alive, file, temp>> => Ordered'
<1> SUFFICES ASSUME Ordered, Flush, alive, UNCHANGED <<memory, step, alive, file, temp>>
             PROVE  Ordered'
  OBVIOUS
<1>0. /\ writing \in Seq(Document) /\ memory \in Document /\ Document \subseteq Nat
  BY PreferencesAssumption DEF Ordered, PrefTypeOK, Document
<1>1. CASE ~dirty
  BY <1>1 DEF Ordered, Flush, PrefTypeOK, Document, OnDisk
<1>2. CASE dirty
  <2>1. writing' = Append(writing, memory) /\ ~dirty'
    BY <1>2 DEF Flush
  <2>2. /\ writing' \in Seq(Document) /\ writing' # <<>>
        /\ Len(writing) \in Nat /\ Len(writing') = Len(writing) + 1
        /\ writing'[Len(writing) + 1] = memory
        /\ \A i \in 1..Len(writing) : writing'[i] = writing[i] /\ writing[i] \in Nat
    <3>1. \A i \in 1..Len(writing) : writing[i] \in Nat
      <4>1. \A i \in 1..Len(writing) : writing[i] \in Document
        BY <1>0
      <4> QED
        BY <1>0, <4>1
    <3>2. Append(writing, memory) \in Seq(Document)
      BY <1>0, Lengthened
    <3> QED
      BY <1>0, <2>1, <3>1, <3>2, Lengthened
  <2>3. \A i \in 1..Len(writing') : i \in 1..Len(writing) \/ i = Len(writing) + 1
    BY <2>2
  <2>4. \A i \in 1..Len(writing) : writing[i] < memory
    BY <1>2 DEF Ordered
  <2>5. \A i, j \in 1..Len(writing') : i < j => writing'[i] < writing'[j]
    BY <2>2, <2>3, <2>4 DEF Ordered
  <2>6. \A i \in 1..Len(writing') : (file \in Document => file < writing'[i]) /\ writing'[i] <= memory
    BY <1>0, <1>2, <2>2, <2>3, <2>4 DEF Ordered
  <2>7. step = "rename" => temp = Head(writing')
    <3> SUFFICES ASSUME step = "rename" PROVE temp = Head(writing')
      OBVIOUS
    <3>1. writing # <<>> /\ temp = Head(writing)
      BY DEF Ordered
    <3>2. Head(writing) = writing[1] /\ 1 \in 1..Len(writing)
      BY <1>0, <3>1, Shortened
    <3>3. Head(writing') = writing'[1]
      BY <2>2, Shortened
    <3> QED
      BY <2>2, <3>1, <3>2, <3>3
  <2> QED
    BY <2>1, <2>2, <2>5, <2>6, <2>7 DEF Ordered, PrefTypeOK, Document, OnDisk
<1> QED
  BY <1>1, <1>2

LEMMA FlushCovers == Ordered /\ Flush /\ alive /\ Covered /\ UNCHANGED <<memory, alive, file, owed>> => Covered'
<1> SUFFICES ASSUME Ordered, Flush, alive, Covered, UNCHANGED <<memory, alive, file, owed>>
             PROVE  Covered'
  OBVIOUS
<1>0. writing \in Seq(Document) /\ memory \in Document
  BY DEF Ordered, PrefTypeOK
<1>1. CASE ~dirty
  BY <1>1 DEF Covered, Flush
<1>2. CASE dirty
  <2>1. writing' = Append(writing, memory) /\ ~dirty'
    BY <1>2 DEF Flush
  <2>2. writing' # <<>> /\ writing'[Len(writing')] = memory
    BY <1>0, <2>1, Lengthened
  <2> QED
    BY <2>1, <2>2 DEF Covered
<1> QED
  BY <1>1, <1>2

LEMMA NextOrdered == Ordered /\ [PrefNext]_prefVars => Ordered'
<1> SUFFICES ASSUME Ordered, [PrefNext]_prefVars PROVE Ordered'
  OBVIOUS
<1>0. /\ PrefTypeOK /\ file # Half /\ writing \in Seq(Document) /\ Len(writing) \in Nat
      /\ memory \in Document /\ Document \subseteq Nat
      /\ \A i \in 1..Len(writing) : writing[i] \in Nat
  BY PreferencesAssumption DEF Ordered, PrefTypeOK, Document
<1>1. CASE Change
  <2>1. memory' = memory + 1 /\ memory' \in Document /\ dirty' /\ alive
        /\ UNCHANGED <<writing, step, alive, file, temp>>
    BY <1>0, <1>1, PreferencesAssumption DEF Change, Document
  <2>2. \A i \in 1..Len(writing) : writing[i] < memory' /\ writing[i] <= memory'
    BY <1>0, <2>1 DEF Ordered
  <2>3. file \in Document => file < memory' /\ file <= memory'
    BY <1>0, <2>1 DEF Ordered
  <2>4. \A i \in 1..Len(writing) : file \in Document => file < writing[i]
    BY DEF Ordered
  <2> QED
    BY <1>0, <2>1, <2>2, <2>3, <2>4 DEF Ordered, PrefTypeOK
<1>2. CASE Fire
  BY <1>2, FlushOrders DEF Fire
<1>3. CASE Close
  BY <1>3, FlushOrders DEF Close
<1>4. CASE WriteTemp
  <2>1. Head(writing) \in Document /\ writing # <<>>
    BY <1>0, <1>4, Shortened DEF WriteTemp
  <2> QED
    BY <1>0, <1>4, <2>1 DEF WriteTemp, Ordered, PrefTypeOK, OnDisk
<1>5. CASE Rename \/ WriteFails
  <2>1. /\ writing # <<>> /\ alive /\ writing' = Tail(writing) /\ step' = "begin"
        /\ UNCHANGED <<memory, dirty, alive>> /\ temp' \in OnDisk
    BY <1>0, <1>5 DEF Rename, WriteFails, PrefTypeOK, OnDisk
  <2>2. /\ writing' \in Seq(Document) /\ Len(writing') = Len(writing) - 1 /\ Len(writing) \in Nat \ {0}
        /\ Head(writing) = writing[1] /\ Head(writing) \in Document
        /\ \A i \in 1..Len(writing') : writing'[i] = writing[i + 1] /\ i + 1 \in 1..Len(writing) /\ 1 < i + 1
    BY <1>0, <2>1, Shortened
  <2>3. \A i, j \in 1..Len(writing') : i < j => writing'[i] < writing'[j]
    BY <2>2 DEF Ordered
  <2>4. file' = file \/ file' = writing[1]
    BY <1>5, <2>2 DEF Rename, WriteFails, Ordered
  <2>5. 1 \in 1..Len(writing)
    BY <2>2
  <2>6. file' # Half /\ file' \in OnDisk
    BY <1>0, <2>2, <2>4, PreferencesAssumption DEF PrefTypeOK, OnDisk
  <2>7. \A i \in 1..Len(writing') : /\ file' \in Document => file' < writing'[i]
                                    /\ writing'[i] <= memory
                                    /\ dirty => writing'[i] < memory
    BY <2>2, <2>4, <2>5 DEF Ordered
  <2>8. file' \in Document => file' <= memory /\ (dirty => file' < memory)
    BY <2>1, <2>4, <2>5 DEF Ordered
  <2> QED
    BY <1>0, <2>1, <2>2, <2>3, <2>6, <2>7, <2>8 DEF Ordered, PrefTypeOK
<1>6. CASE Kill
  <2>1. memory' \in Document /\ temp' \in OnDisk
    BY <1>0, <1>6, PreferencesAssumption DEF Kill, PrefTypeOK, Document, OnDisk
  <2> QED
    BY <1>0, <1>6, <2>1 DEF Kill, Ordered, PrefTypeOK
<1>7. CASE LoadFile
  <2>1. memory' \in Document /\ (file \in Document => memory' = file)
    BY <1>7, PreferencesAssumption DEF LoadFile, Document
  <2>2. writing = <<>> /\ ~dirty /\ UNCHANGED <<dirty, writing, step, file, temp>>
    BY <1>7 DEF LoadFile, Ordered
  <2> QED
    BY <1>0, <2>1, <2>2 DEF Ordered, PrefTypeOK
<1>8. CASE UNCHANGED prefVars
  BY <1>8 DEF prefVars, Ordered, PrefTypeOK
<1> QED
  BY <1>1, <1>2, <1>3, <1>4, <1>5, <1>6, <1>7, <1>8 DEF PrefNext

LEMMA NextCovered == Ordered /\ Covered /\ [PrefNext]_prefVars => Covered'
<1> SUFFICES ASSUME Ordered, Covered, [PrefNext]_prefVars PROVE Covered'
  OBVIOUS
<1>0. writing \in Seq(Document) /\ memory \in Document /\ Document \subseteq Nat
  BY PreferencesAssumption DEF Ordered, PrefTypeOK, Document
<1>1. CASE Change
  BY <1>1 DEF Change, Covered
<1>2. CASE Fire
  BY <1>2, FlushCovers DEF Fire
<1>3. CASE Close
  BY <1>3, FlushCovers DEF Close
<1>4. CASE WriteTemp
  BY <1>4 DEF WriteTemp, Covered
<1>5. CASE Rename \/ WriteFails
  <2>1. writing # <<>> /\ writing' = Tail(writing) /\ UNCHANGED <<memory, dirty, timer, closed, alive>>
    BY <1>5 DEF Rename, WriteFails
  <2>2. /\ Len(writing') = Len(writing) - 1 /\ Len(writing) \in Nat \ {0} /\ Head(writing) = writing[1]
        /\ \A i \in 1..Len(writing') : writing'[i] = writing[i + 1]
        /\ writing' \in Seq(Document)
    BY <1>0, <2>1, Shortened
  <2>3. ASSUME writing' # <<>>, ~dirty
        PROVE  writing'[Len(writing')] = memory
    <3>1. Len(writing') \in 1..Len(writing')
      BY <2>2, <2>3, Shortened
    <3> QED
      BY <2>1, <2>2, <2>3, <3>1 DEF Covered
  <2>4. ASSUME writing' = <<>>, ~dirty, ~owed'
        PROVE  file' = memory
    <3>1. Len(writing) = 1
      BY <2>2, <2>4
    <3>2. Rename
      BY <1>5, <2>4, <3>1 DEF WriteFails
    <3>3. file' = writing[1]
      BY <2>2, <3>2 DEF Rename, Ordered
    <3> QED
      BY <2>1, <2>4, <3>1, <3>3 DEF Covered
  <2> QED
    BY <2>1, <2>3, <2>4 DEF Covered
<1>6. CASE Kill
  BY <1>6 DEF Kill, Covered
<1>7. CASE LoadFile
  BY <1>7 DEF LoadFile, Covered, Ordered
<1>8. CASE UNCHANGED prefVars
  BY <1>8 DEF prefVars, Covered
<1> QED
  BY <1>1, <1>2, <1>3, <1>4, <1>5, <1>6, <1>7, <1>8 DEF PrefNext

LEMMA InitOrdered == PrefInit => Ordered /\ Covered
  BY PreferencesAssumption DEF PrefInit, Ordered, Covered, PrefTypeOK, Document, OnDisk

\* Wherever the process is killed and whichever call fails, the file is a whole one:
\* only a temporary file that was written to its end is renamed over it (#write).
THEOREM FileIsWhole == PrefInit /\ [][PrefNext]_prefVars => []NeverHalf
<1>1. Ordered => NeverHalf
  BY DEF Ordered, NeverHalf
<1> QED
  BY <1>1, InitOrdered, NextOrdered, PTL

LEMMA StepForward == ASSUME Ordered, PrefNext, file \in Document, file' # file PROVE file' \in Document /\ file' > file
<1>1. Rename
  BY DEF PrefNext, Change, Fire, Close, WriteTemp, WriteFails, Kill, LoadFile
<1>2. writing \in Seq(Document) /\ writing # <<>> /\ file' = Head(writing)
  BY <1>1 DEF Rename, Ordered, PrefTypeOK
<1>3. Head(writing) = writing[1] /\ Head(writing) \in Document /\ 1 \in 1..Len(writing)
  BY <1>2, Shortened
<1> QED
  BY <1>2, <1>3, PreferencesAssumption DEF Ordered, Document

\* However flushes, close(), failures and kills interleave, no write puts an older
\* document over a newer one: the chain runs in the order of the changes (#flush).
THEOREM FileGoesForward == PrefInit /\ [][PrefNext]_prefVars => NeverBack
<1>1. Ordered /\ [PrefNext]_prefVars =>
        [(file \in Document /\ file' # file) => (file' \in Document /\ file' > file)]_prefVars
  BY StepForward
<1> QED
  BY <1>1, InitOrdered, NextOrdered, PTL DEF NeverBack

\* Every change of a running process is in the file, at the end of the chain, or marked
\* with its timer or close() to come, unless a write failed with nothing behind it:
\* coalescing and clearing the mark early lose nothing by themselves (#schedule, #flush).
THEOREM ChangesAreCovered == PrefInit /\ [][PrefNext]_prefVars => []NothingForgotten
<1>1. Ordered /\ Covered => NothingForgotten
  BY DEF Ordered, Covered, NothingForgotten
<1> QED
  BY <1>1, InitOrdered, NextOrdered, NextCovered, PTL

(***************************************************************************)
(* The start and the stop of everything, for any clients (Lifecycle).      *)
(***************************************************************************)

Everything == {"preferences", "plugins", "watcher", "overlay", "hotkeys", "pipe"}
Awaited == Everything \ {"pipe"}

\* What the stages of start() have brought up by the time it has come to a stage.
Brought ==
  /\ startAt \notin {"files", "preferences", "failed"} => "preferences" \in up
  /\ startAt \in {"watch", "key", "pipe", "listen", "done"} => "plugins" \in up
  /\ startAt \in {"key", "pipe", "listen", "done"} => {"watcher", "overlay", "hotkeys"} \subseteq up

Starting == {"files", "preferences", "plugins", "watch", "key", "pipe", "listen", "done", "failed"}
Ending == {"not", "evidence", "close", "drain", "dispose", "preferences", "pipe", "key", "stopped"}

\* The listener is there once the start is done, and connections only with it.
Bound ==
  /\ client \in [Client -> Phase] /\ known = {c \in Client : client[c] = "session"}
  /\ listener \in {"none", "open", "closed"} /\ startAt \in Starting /\ stopAt \in Ending
  /\ listener # "none" <=> startAt = "done"
  /\ listener = "none" => Connected = {}
  /\ stopAt \in {"not", "evidence", "close"} => listener # "closed"

\* How far a run that was not stopped early has been taken down.
TakenDown ==
  /\ stopAt \in {"drain", "dispose", "preferences", "pipe", "key", "stopped"} => listener = "closed"
  /\ stopAt \in {"dispose", "preferences", "pipe", "key", "stopped"} => Connected = {}
  /\ stopAt \in {"evidence", "close", "drain", "dispose"} => Awaited \subseteq up
  /\ stopAt = "preferences" => up \subseteq {"preferences", "pipe"}
  /\ stopAt = "pipe" => up \subseteq {"pipe"}
  /\ stopAt \in {"key", "stopped"} => up = {}
  /\ stopAt = "stopped" => (key => "stop" \in warned)

\* The native side: its key is there before its pipe and until the pipe is closed, and
\* what of it is not there was left out by configuration or by a failure.
Native ==
  /\ key \in BOOLEAN /\ native \in {"off", "configured", "minted"}
  /\ startAt \in {"files", "preferences", "plugins", "watch", "key", "pipe"} => "pipe" \notin up
  /\ startAt = "pipe" /\ native = "minted" /\ stopAt = "not" => key
  /\ native = "minted" /\ ~early /\ "pipe" \in up => key
  /\ startAt \in {"listen", "done"} /\ stopAt = "not"
       => native = "off" \/ "start" \in warned \/ "pipe" \in up

Standing ==
  /\ Bound /\ up \subseteq Everything /\ Native
  /\ stopAt = "not" => Brought
  /\ ~early /\ stopAt # "not" => startAt = "done" /\ TakenDown

LEMMA Afterwards ==
  /\ After("files") = "preferences" /\ After("preferences") = "plugins"
  /\ After("plugins") = "watch" /\ After("watch") = "key"
<1>1. DOMAIN Stages = 1..5
  BY DEF Stages
<1>2. /\ Stages[1] = "files" /\ Stages[2] = "preferences" /\ Stages[3] = "plugins"
      /\ Stages[4] = "watch" /\ Stages[5] = "key"
  BY DEF Stages
<1>3. \A i \in 1..5 : i = 1 \/ i = 2 \/ i = 3 \/ i = 4 \/ i = 5
  OBVIOUS
<1>4. ASSUME NEW n \in 1..4
      PROVE  (CHOOSE i \in DOMAIN Stages : Stages[i] = Stages[n]) = n
  <2>1. \A i \in 1..5 : Stages[i] = Stages[n] => i = n
    BY <1>2, <1>3
  <2>2. n \in DOMAIN Stages
    BY <1>1
  <2> QED
    BY <1>1, <2>1, <2>2
<1>5. \A n \in 1..4 : After(Stages[n]) = Stages[n + 1]
  BY <1>4 DEF After
<1>6. /\ After(Stages[1]) = Stages[1 + 1] /\ After(Stages[2]) = Stages[2 + 1]
      /\ After(Stages[3]) = Stages[3 + 1] /\ After(Stages[4]) = Stages[4 + 1]
  BY <1>5
<1> QED
  BY <1>2, <1>6

\* A step of the start stands, whatever it brings up and however it goes on.
LEMMA OnwardStands ==
  ASSUME Standing, startAt # "done", startAt' \in Starting \ {"done"},
         UNCHANGED <<native, stopAt, listener, client, known, early>>,
         up' \subseteq Everything, stopAt = "not" => Brought', Native'
  PROVE  Standing'
<1>1. Bound'
  BY DEF Standing, Bound, Connected, Starting
<1>2. ~(~early /\ stopAt # "not")
  BY DEF Standing
<1> QED
  BY <1>1, <1>2 DEF Standing

LEMMA StartStands == Standing /\ StartStage => Standing'
<1> SUFFICES ASSUME Standing, StartStage PROVE Standing'
  OBVIOUS
<1>1. /\ startAt \in {"files", "preferences", "plugins", "watch"}
      /\ up' = up \cup Brings(startAt) /\ startAt' = After(startAt)
      /\ UNCHANGED <<native, key, stopAt, listener, client, known, early>>
  BY DEF StartStage
<1>2. startAt' \in {"preferences", "plugins", "watch", "key"}
  BY <1>1, Afterwards
<1>3. up' \subseteq Everything /\ ("pipe" \in up' => "pipe" \in up)
  BY <1>1 DEF Standing, Everything, Brings
<1>4. stopAt = "not" => Brought'
  BY <1>1, Afterwards DEF Standing, Brought, Brings
<1>5. Native'
  BY <1>1, <1>2, <1>3 DEF Standing, Native
<1> QED
  BY <1>1, <1>2, <1>3, <1>4, <1>5, OnwardStands DEF Starting

LEMMA NativeStands == Standing /\ (NoNative \/ PublishKey \/ ListenPipe \/ NativeFails) => Standing'
<1> SUFFICES ASSUME Standing, NoNative \/ PublishKey \/ ListenPipe \/ NativeFails PROVE Standing'
  OBVIOUS
<1>1. /\ startAt \in {"key", "pipe"} /\ startAt' \in {"pipe", "listen"}
      /\ up' \in {up, up \cup {"pipe"}}
      /\ UNCHANGED <<native, stopAt, listener, client, known, early>>
  BY DEF NoNative, PublishKey, ListenPipe, NativeFails
<1>2. up' \subseteq Everything
  BY <1>1 DEF Standing, Everything
<1>3. stopAt = "not" => Brought'
  BY <1>1 DEF Standing, Brought
<1>4. ~early => stopAt = "not"
  BY <1>1 DEF Standing
<1>5. Native
  BY DEF Standing
<1>6. Native'
  <2>1. CASE NoNative
    BY <1>5, <2>1 DEF NoNative, Native
  <2>2. CASE PublishKey
    BY <1>5, <2>2 DEF PublishKey, Native
  <2>3. CASE ListenPipe
    BY <1>4, <1>5, <2>3 DEF ListenPipe, Native
  <2>4. CASE NativeFails
    BY <1>5, <2>4 DEF NativeFails, Native
  <2> QED
    BY <2>1, <2>2, <2>3, <2>4
<1> QED
  BY <1>1, <1>2, <1>3, <1>6, OnwardStands DEF Starting

\* An end of connections makes none, and leaves the map the connections that are one.
LEMMA EndedStands ==
  ASSUME NEW cs, client \in [Client -> Phase], known = {c \in Client : client[c] = "session"},
         client' = [c \in Client |-> IF c \in cs THEN "gone" ELSE client[c]], known' = known \ cs
  PROVE  /\ client' \in [Client -> Phase] /\ known' = {c \in Client : client'[c] = "session"}
         /\ Connected' \subseteq Connected
  BY DEF Phase, Connected

\* While a run is being stopped no step but those of the stop matters to what is up,
\* and none makes a connection out of nothing once the listener is closed.
LEMMA ConnectionStands ==
  ASSUME Standing, UNCHANGED <<startAt, up, key, listener, native, warned>>,
         client' \in [Client -> Phase], known' = {c \in Client : client'[c] = "session"},
         Connected' \subseteq Connected \/ listener = "open",
         \/ UNCHANGED <<stopAt, early>>
         \/ \E error : AskStop(error)
  PROVE  Standing'
<1>1. CASE UNCHANGED <<stopAt, early>>
  <2>1. Bound'
    BY <1>1 DEF Standing, Bound
  <2>2. TakenDown => TakenDown'
    BY <1>1 DEF TakenDown
  <2>3. Brought => Brought'
    BY DEF Brought
  <2>4. Native'
    BY <1>1 DEF Standing, Native
  <2> QED
    BY <1>1, <2>1, <2>2, <2>3, <2>4 DEF Standing
<1>2. CASE \E error : AskStop(error)
  <2>1. CASE stopAt # "not"
    <3>1. stopAt' = stopAt /\ (~early' => ~early)
      BY <1>2, <2>1 DEF AskStop
    <3>2. Bound'
      BY <3>1 DEF Standing, Bound
    <3>3. TakenDown => TakenDown'
      BY <3>1 DEF TakenDown
    <3>4. Native'
      BY <3>1 DEF Standing, Native
    <3> QED
      BY <2>1, <3>1, <3>2, <3>3, <3>4 DEF Standing
  <2>2. CASE stopAt = "not"
    <3>1. stopAt' = "evidence" /\ (~early' => startAt = "done")
      BY <1>2, <2>2 DEF AskStop
    <3>2. Bound'
      BY <2>2, <3>1 DEF Standing, Bound, Ending
    <3>3. startAt = "done" => Awaited \subseteq up
      BY <2>2 DEF Standing, Brought, Everything, Awaited
    <3>4. startAt = "done" => TakenDown'
      BY <3>1, <3>3 DEF TakenDown
    <3>5. ~early' => ~early
      BY <1>2, <2>2 DEF AskStop
    <3>6. Native'
      BY <3>1, <3>5 DEF Standing, Native
    <3> QED
      BY <3>1, <3>2, <3>4, <3>6 DEF Standing
  <2> QED
    BY <2>1, <2>2
<1> QED
  BY <1>1, <1>2

LEMMA StopStands == Standing /\ StopStep => Standing'
<1> SUFFICES ASSUME Standing, StopStep PROVE Standing'
  OBVIOUS
<1>0. startAt' = startAt /\ early' = early /\ native' = native /\ stopAt # "not" /\ stopAt' # "not"
  BY DEF StopStep, StopEvidence, StopClose, StopDrained, StopDispose, StopPreferences, StopPipe, StopKey, RevokeFails
<1>n. Native'
  <2>1. /\ up' \subseteq up /\ key' \in BOOLEAN
        /\ key' = key \/ StopKey
    BY DEF StopStep, StopEvidence, StopClose, StopDrained, StopDispose, StopPreferences, StopPipe, StopKey,
           RevokeFails, Standing, Native
  <2>2. StopKey /\ ~early => "pipe" \notin up'
    BY DEF StopKey, Standing, TakenDown
  <2> QED
    BY <1>0, <2>1, <2>2 DEF Standing, Native
<1>1. CASE StopEvidence
  BY <1>n, <1>1 DEF StopEvidence, Standing, Ending, Bound, TakenDown, Connected
<1>2. CASE StopClose
  <2>1. /\ client' \in [Client -> Phase] /\ known' = {c \in Client : client'[c] = "session"}
        /\ Connected' \subseteq Connected
    BY <1>2, EndedStands DEF StopClose, Ended, Standing, Bound
  <2>2. Bound'
    BY <1>0, <1>2, <2>1 DEF StopClose, Standing, Bound, Ending
  <2>3. startAt = "done" /\ TakenDown => TakenDown'
    BY <1>2, <2>1 DEF StopClose, TakenDown, Standing, Bound
  <2> QED
    BY <1>0, <1>n, <1>2, <2>2, <2>3 DEF StopClose, Standing
<1>3. CASE StopDrained
  BY <1>n, <1>3 DEF StopDrained, Standing, Ending, Bound, TakenDown, Connected
<1>4. CASE StopDispose
  <2>1. Everything \ {"watcher", "overlay", "hotkeys", "plugins"} \subseteq {"preferences", "pipe"}
    BY DEF Everything
  <2> QED
    BY <1>0, <1>n, <1>4, <2>1 DEF StopDispose, Standing, Ending, Bound, TakenDown, Connected
<1>5. CASE StopPreferences \/ StopPipe \/ StopKey \/ RevokeFails
  BY <1>0, <1>n, <1>5
     DEF StopPreferences, StopPipe, StopKey, RevokeFails, Standing, Ending, Bound, TakenDown, Connected
<1> QED
  BY <1>1, <1>2, <1>3, <1>4, <1>5 DEF StopStep

LEMMA NextStands == Standing /\ [LifeNext]_lifeVars => Standing'
<1> SUFFICES ASSUME Standing, [LifeNext]_lifeVars PROVE Standing'
  OBVIOUS
<1>0. client \in [Client -> Phase] /\ known = {c \in Client : client[c] = "session"}
  BY DEF Standing, Bound
<1>1. CASE Listen
  <2>1. /\ startAt = "listen" /\ startAt' = "done" /\ listener' = "open"
        /\ UNCHANGED <<stopAt, up, client, known, early, key, native, warned>>
    BY <1>1 DEF Listen
  <2>2. Bound'
    BY <2>1 DEF Standing, Bound, Connected, Starting
  <2>3. ~(~early /\ stopAt # "not")
    BY <2>1 DEF Standing
  <2>4. stopAt = "not" => Brought'
    BY <2>1 DEF Standing, Brought
  <2>5. Native'
    BY <2>1 DEF Standing, Native
  <2> QED
    BY <2>1, <2>2, <2>3, <2>4, <2>5 DEF Standing
<1>2. CASE StartFails
  <2>1. /\ startAt \in {"plugins", "listen"} /\ startAt' = "failed"
        /\ UNCHANGED <<stopAt, up, listener, client, known, early, key, native, warned>>
    BY <1>2 DEF StartFails
  <2>2. Brought' /\ up' \subseteq Everything
    BY <2>1 DEF Brought, Standing
  <2>3. Native'
    BY <2>1 DEF Standing, Native
  <2> QED
    BY <2>1, <2>2, <2>3, OnwardStands DEF Starting
<1>3. ASSUME NEW c \in Client, Accept(c) \/ Probe(c) \/ Open(c)
      PROVE  Standing'
  <2>1. /\ client' \in [Client -> Phase] /\ known' = {d \in Client : client'[d] = "session"}
        /\ Connected' \subseteq Connected \/ listener = "open"
    BY <1>0, <1>3 DEF Accept, Probe, Open, Phase, Connected
  <2> QED
    BY <1>3, <2>1, ConnectionStands DEF Accept, Probe, Open
<1>4. ASSUME NEW c \in Client, HangUp(c) \/ SocketError(c)
      PROVE  Standing'
  <2>1. /\ client' \in [Client -> Phase] /\ known' = {d \in Client : client'[d] = "session"}
        /\ Connected' \subseteq Connected
    BY <1>0, <1>4, EndedStands DEF HangUp, SocketError, Ended
  <2>2. UNCHANGED <<startAt, up, key, listener, native, warned>>
    BY <1>4 DEF HangUp, SocketError
  <2>3. UNCHANGED <<stopAt, early>> \/ \E error : AskStop(error)
    BY <1>4 DEF HangUp, SocketError
  <2> QED
    BY <2>1, <2>2, <2>3, ConnectionStands
<1>5. CASE Signal
  <2>1. Connected' = Connected
    BY <1>5 DEF Signal, Connected
  <2> QED
    BY <1>0, <1>5, <2>1, ConnectionStands DEF Signal
<1>6. CASE UNCHANGED lifeVars
  <2>1. Connected' = Connected /\ UNCHANGED <<startAt, up, key, listener, native, warned, client, known, stopAt, early>>
    BY <1>6 DEF lifeVars, Connected
  <2> QED
    BY <1>0, <2>1, ConnectionStands
<1> QED
  BY <1>1, <1>2, <1>3, <1>4, <1>5, <1>6, StartStands, NativeStands, StopStands DEF LifeNext

LEMMA InitStands == LifeInit => Standing
  BY DEF LifeInit, Standing, Bound, Native, Brought, Connected, Phase, Starting, Ending, Everything

\* What stands says what a reader asks: who is let in finds what start() awaits, and who
\* is still there when the run is taken down goes before the plugins do.
LEMMA LifeMeans ==
  ASSUME Standing
  PROVE  /\ NothingBeforeReady /\ KeyBeforePipe /\ SessionsHavePlugins /\ StoppedIsStopped
<1>1. NothingBeforeReady /\ KeyBeforePipe
  BY DEF Standing, Bound, Brought, Native, NothingBeforeReady, KeyBeforePipe
<1>2. SessionsHavePlugins
  <2> SUFFICES ASSUME known # {}, ~early PROVE "plugins" \in up
    BY DEF SessionsHavePlugins
  <2>1. Connected # {} /\ startAt = "done"
    BY DEF Standing, Bound, Connected
  <2>2. CASE stopAt = "not"
    BY <2>1, <2>2 DEF Standing, Brought
  <2>3. CASE stopAt # "not"
    <3>1. TakenDown
      BY <2>3 DEF Standing
    <3>2. stopAt \in {"evidence", "close", "drain", "dispose"} => "plugins" \in up
      BY <3>1 DEF TakenDown, Everything, Awaited
    <3>3. stopAt \notin {"dispose", "preferences", "pipe", "key", "stopped"}
      BY <2>1, <3>1 DEF TakenDown
    <3> QED
      BY <2>3, <3>2, <3>3 DEF Standing, Bound, Ending
  <2> QED
    BY <2>2, <2>3
<1>3. StoppedIsStopped
  BY DEF Standing, TakenDown, StoppedIsStopped
<1> QED
  BY <1>1, <1>2, <1>3

\* For any number of clients, however they come, are probed, hang up and fail, and whether
\* the native side is there, fails or is switched off: while the run stands, whoever is
\* connected finds all that start() awaits, and a pipe that listens has its key on disk
\* (Application.start, Application.stop, ProxyServer).
THEOREM ReadyBeforeAnyone == LifeInit /\ [][LifeNext]_lifeVars => [](NothingBeforeReady /\ KeyBeforePipe)
<1>1. Standing => NothingBeforeReady /\ KeyBeforePipe
  BY LifeMeans
<1> QED
  BY <1>1, InitStands, NextStands, PTL

\* A session that is opened during a stop, even after close() has walked the map, ends
\* before the plugins do: the listener drains first (Application.stop, ProxyServer.close).
THEOREM PluginsOutliveSessions == LifeInit /\ [][LifeNext]_lifeVars => []SessionsHavePlugins
<1>1. Standing => SessionsHavePlugins
  BY LifeMeans
<1> QED
  BY <1>1, InitStands, NextStands, PTL

\* Signals, uncaught errors and late clients in any order: a run stopped after its start
\* leaves no listener, plugin, pipe or connection, and no key but one whose removal
\* failed (Application.stop).
THEOREM NothingLeftStanding == LifeInit /\ [][LifeNext]_lifeVars => []StoppedIsStopped
<1>1. Standing => StoppedIsStopped
  BY LifeMeans
<1> QED
  BY <1>1, InitStands, NextStands, PTL

(***************************************************************************)
(* One lane, and what is left to run in it (OutboundReentry).              *)
(***************************************************************************)
Requests == {[ask EXCEPT !.life = n] : ask \in OrAsks, n \in Int}
Plain == {"resolve", "expire", "dispatch", "trim", "may", "mayNot", "letGo"}
Jobs == [at : Plain] \cup [at : {"handler", "sent"}, id : Nat]
        \cup [at : {"supersede"}, id : Nat, left : Nat] \cup [at : {"drop"}, ids : Seq(Nat)]
Outcomes == {"superseded", "dropped", "confirmed", "unconfirmed", "expired", "refused", "sent"}
Told == Outcomes \cup {"open"}
Sends == [id : Nat, until : Int, since : Int]

\* The requests a job has in its hands: those it was called with and nobody else has.
HeldBy(job) == IF job.at \in {"supersede", "sent"} THEN {job.id} ELSE IF job.at = "drop" THEN ToSet(job.ids) ELSE {}
WorkHeld(w) == UNION {HeldBy(w[k]) : k \in DOMAIN w}
Once(w) == \A k \in DOMAIN w : w[k].at = "drop" => IsInjective(w[k].ids)
Apart(w) == \A j, k \in DOMAIN w : j # k => HeldBy(w[j]) \cap HeldBy(w[k]) = {}
Waits(w, at) == \E k \in DOMAIN w : w[k].at = at
OneSent(w) == \A j, k \in DOMAIN w : w[j].at = "sent" /\ w[k].at = "sent" => j = k
OnlyTells(w) == \A k \in DOMAIN w : w[k].at \in {"handler", "drop", "letGo"}

\* Of two submissions under way no two give one name, and what waits under the name of
\* one is where its loop has still to look.
Gives(w, req) == {req[w[k].id].key : k \in {k \in DOMAIN w : w[k].at = "supersede"}} \ {OrNone}
KeysApart(w, req) == \A j, k \in DOMAIN w :
  w[j].at = "supersede" /\ w[k].at = "supersede" /\ req[w[j].id].key = req[w[k].id].key /\ req[w[j].id].key # OrNone => j = k
Ahead(job, q, req) == job.at = "supersede" /\ req[job.id].key # OrNone =>
  \A i \in DOMAIN q : req[q[i]].key = req[job.id].key => i <= job.left
StillAhead(w, q, req) == \A k \in DOMAIN w : Ahead(w[k], q, req)

InFlight == IF orFlight = OrNone THEN {} ELSE {orFlight.id}
Untold == {id \in DOMAIN orReq : orTold[id] = "open"}

\* Everyone who has not been told their end is in one place, and once in it.
Somewhere ==
  /\ ToSet(orQueue) \cup InFlight \cup WorkHeld(orWork) = Untold
  /\ ToSet(orQueue) \cap InFlight = {} /\ ToSet(orQueue) \cap WorkHeld(orWork) = {} /\ InFlight \cap WorkHeld(orWork) = {}
  /\ IsInjective(orQueue) /\ Once(orWork) /\ Apart(orWork)
LaneTypes ==
  /\ orReq \in Seq(Requests) /\ orTold \in Seq(Told) /\ Len(orTold) = Len(orReq)
  /\ orQueue \in Seq(Nat) /\ orFlight \in Sends \cup {OrNone} /\ orWork \in Seq(Jobs)
  /\ orNow \in Int /\ orLast \in Int /\ orWire \in [at : Int, count : Nat]
  /\ orClosed \in BOOLEAN /\ orMay \in BOOLEAN /\ orPolite \in BOOLEAN
Bounded == /\ Len(orQueue) > OrMost => Waits(orWork, "trim")
           /\ orMay => Waits(orWork, "mayNot")
           /\ orClosed => orQueue = <<>> /\ OnlyTells(orWork) /\ (orFlight # OrNone => Waits(orWork, "letGo"))
Paced == /\ orWire.at <= orLast /\ orLast <= orNow
         /\ Waits(orWork, "sent") => orFlight = OrNone /\ orLast = orNow
         /\ OneSent(orWork)
NamesKept == orPolite => NamesApart /\ KeysApart(orWork, orReq) /\ StillAhead(orWork, orQueue, orReq)
ReentryInv == LaneTypes /\ Somewhere /\ Bounded /\ Paced /\ NamesKept
\* A list of jobs with one put in front of it.
LEMMA ThenIs ==
  ASSUME NEW r \in Seq(Jobs), NEW j \in Jobs
  PROVE /\ Then(j, r) \in Seq(Jobs) /\ Then(j, r) # <<>> /\ Head(Then(j, r)) = j /\ Tail(Then(j, r)) = r
        /\ DOMAIN Then(j, r) = {1} \cup {k + 1 : k \in DOMAIN r} /\ Then(j, r)[1] = j
        /\ \A k \in DOMAIN r : k # 0 /\ Then(j, r)[k + 1] = r[k]
<1>1. <<j>> \in Seq(Jobs) /\ Len(<<j>>) = 1 /\ <<j>>[1] = j
  OBVIOUS
<1>2. /\ Then(j, r) \in Seq(Jobs) /\ Len(Then(j, r)) = 1 + Len(r)
      /\ \A i \in 1 .. 1 + Len(r) : Then(j, r)[i] = IF i <= 1 THEN <<j>>[i] ELSE r[i - 1]
  BY <1>1, ConcatProperties DEF Then
<1>3. DOMAIN r = 1 .. Len(r) /\ Len(r) \in Nat /\ DOMAIN Then(j, r) = 1 .. 1 + Len(r)
  BY <1>2, LenProperties
<1>4. Then(j, r)[1] = j /\ \A k \in DOMAIN r : k # 0 /\ Then(j, r)[k + 1] = r[k]
  BY <1>1, <1>2, <1>3
<1>5. DOMAIN Then(j, r) = {1} \cup {k + 1 : k \in DOMAIN r}
  <2>1. ASSUME NEW i \in 1 .. 1 + Len(r) PROVE i = 1 \/ \E k \in DOMAIN r : i = k + 1
    <3>1. i = 1 \/ (i - 1 \in DOMAIN r /\ i = (i - 1) + 1)
      BY <1>3
    <3> QED
      BY <3>1
  <2>2. 1 \in 1 .. 1 + Len(r) /\ \A k \in DOMAIN r : k + 1 \in 1 .. 1 + Len(r)
    BY <1>3
  <2> QED
    BY <1>3, <2>1, <2>2
<1>6. Head(Then(j, r)) = j /\ Then(j, r) # <<>>
  BY <1>2, <1>3, <1>4
<1>7. Tail(Then(j, r)) = r
  <2>1. /\ Tail(Then(j, r)) \in Seq(Jobs) /\ Len(Tail(Then(j, r))) = Len(r)
        /\ \A i \in 1 .. Len(r) : Tail(Then(j, r))[i] = Then(j, r)[i + 1]
    BY <1>2, <1>3, <1>6, HeadTailProperties
  <2> QED
    BY <2>1, <1>3, <1>4, SeqEqual
<1> QED
  BY <1>2, <1>4, <1>5, <1>6, <1>7

LEMMA IsThen ==
  ASSUME NEW w \in Seq(Jobs), w # <<>>
  PROVE Head(w) \in Jobs /\ Tail(w) \in Seq(Jobs) /\ w = Then(Head(w), Tail(w))
<1>1. /\ Head(w) \in Jobs /\ Tail(w) \in Seq(Jobs) /\ Len(Tail(w)) = Len(w) - 1 /\ Head(w) = w[1]
      /\ \A i \in 1 .. Len(Tail(w)) : Tail(w)[i] = w[i + 1]
  BY HeadTailProperties
<1>2. Len(w) \in Nat /\ Len(w) # 0 /\ <<Head(w)>> \in Seq(Jobs) /\ Len(<<Head(w)>>) = 1 /\ <<Head(w)>>[1] = Head(w)
  BY <1>1, EmptySeq, LenProperties
<1>3. /\ Then(Head(w), Tail(w)) \in Seq(Jobs) /\ Len(Then(Head(w), Tail(w))) = Len(w)
      /\ \A i \in 1 .. Len(w) : Then(Head(w), Tail(w))[i] = w[i]
  BY <1>1, <1>2, ConcatProperties DEF Then
<1> QED
  BY <1>1, <1>3, SeqEqual

\* What is true of a list with a job in front, from what is true of the two.
LEMMA ThenHolds ==
  ASSUME NEW r \in Seq(Jobs), NEW j \in Jobs
  PROVE /\ WorkHeld(Then(j, r)) = HeldBy(j) \cup WorkHeld(r)
        /\ Once(Then(j, r)) <=> Once(r) /\ (j.at = "drop" => IsInjective(j.ids))
        /\ Apart(Then(j, r)) <=> Apart(r) /\ HeldBy(j) \cap WorkHeld(r) = {}
        /\ \A at : Waits(Then(j, r), at) <=> j.at = at \/ Waits(r, at)
        /\ OneSent(Then(j, r)) <=> OneSent(r) /\ ~(j.at = "sent" /\ Waits(r, "sent"))
        /\ OnlyTells(Then(j, r)) <=> OnlyTells(r) /\ j.at \in {"handler", "drop", "letGo"}
<1> DEFINE w == Then(j, r)
<1>1. DOMAIN w = {1} \cup {k + 1 : k \in DOMAIN r} /\ w[1] = j /\ \A k \in DOMAIN r : k # 0 /\ w[k + 1] = r[k]
  BY ThenIs
<1>2. DOMAIN r \subseteq Nat
  BY LenProperties
<1> HIDE DEF w
<1>3. WorkHeld(w) = HeldBy(j) \cup WorkHeld(r)
  BY <1>1 DEF WorkHeld
<1>4. Once(w) <=> Once(r) /\ (j.at = "drop" => IsInjective(j.ids))
  BY <1>1 DEF Once
<1>5. Apart(w) <=> Apart(r) /\ HeldBy(j) \cap WorkHeld(r) = {}
  <2>1. ASSUME Apart(w) PROVE Apart(r) /\ HeldBy(j) \cap WorkHeld(r) = {}
    <3>1. Apart(r)
      <4> SUFFICES ASSUME NEW a \in DOMAIN r, NEW b \in DOMAIN r, a # b PROVE HeldBy(r[a]) \cap HeldBy(r[b]) = {}
        BY DEF Apart
      <4>1. a + 1 \in DOMAIN w /\ b + 1 \in DOMAIN w /\ a + 1 # b + 1
        BY <1>1, <1>2
      <4>2. HeldBy(w[a + 1]) \cap HeldBy(w[b + 1]) = {}
        BY <2>1, <4>1 DEF Apart
      <4> QED
        BY <4>2, <1>1
    <3>2. ASSUME NEW b \in DOMAIN r PROVE HeldBy(j) \cap HeldBy(r[b]) = {}
      <4>1. 1 \in DOMAIN w /\ b + 1 \in DOMAIN w /\ 1 # b + 1
        BY <1>1, <1>2
      <4>2. HeldBy(w[1]) \cap HeldBy(w[b + 1]) = {}
        BY <2>1, <4>1 DEF Apart
      <4> QED
        BY <4>2, <1>1
    <3> QED
      BY <3>1, <3>2 DEF WorkHeld
  <2>2. ASSUME Apart(r), HeldBy(j) \cap WorkHeld(r) = {} PROVE Apart(w)
    <3>1. \A b \in DOMAIN r : HeldBy(j) \cap HeldBy(r[b]) = {}
      BY <2>2 DEF WorkHeld
    <3> QED
      BY <1>1, <2>2, <3>1 DEF Apart
  <2> QED
    BY <2>1, <2>2
<1>6. \A at : Waits(w, at) <=> j.at = at \/ Waits(r, at)
  BY <1>1 DEF Waits
<1>7. OneSent(w) <=> OneSent(r) /\ ~(j.at = "sent" /\ Waits(r, "sent"))
  <2>1. ASSUME OneSent(w) PROVE OneSent(r) /\ ~(j.at = "sent" /\ Waits(r, "sent"))
    <3>1. ASSUME NEW a \in DOMAIN r, NEW b \in DOMAIN r, r[a].at = "sent", r[b].at = "sent" PROVE a = b
      <4>1. a + 1 \in DOMAIN w /\ b + 1 \in DOMAIN w /\ w[a + 1].at = "sent" /\ w[b + 1].at = "sent"
        BY <1>1, <3>1
      <4>2. a + 1 = b + 1
        BY <2>1, <4>1 DEF OneSent
      <4> QED
        BY <4>2, <1>2
    <3>2. ASSUME NEW b \in DOMAIN r, r[b].at = "sent", j.at = "sent" PROVE FALSE
      <4>1. b + 1 \in DOMAIN w /\ 1 \in DOMAIN w /\ w[1].at = "sent" /\ w[b + 1].at = "sent" /\ 1 # b + 1
        BY <1>1, <1>2, <3>2
      <4> QED
        BY <2>1, <4>1 DEF OneSent
    <3> QED
      BY <3>1, <3>2 DEF OneSent, Waits
  <2>2. ASSUME OneSent(r), ~(j.at = "sent" /\ Waits(r, "sent")) PROVE OneSent(w)
    BY <1>1, <2>2 DEF OneSent, Waits
  <2> QED
    BY <2>1, <2>2
<1>8. OnlyTells(w) <=> OnlyTells(r) /\ j.at \in {"handler", "drop", "letGo"}
  BY <1>1 DEF OnlyTells
<1> QED
  BY <1>3, <1>4, <1>5, <1>6, <1>7, <1>8 DEF w

LEMMA ThenNames ==
  ASSUME NEW r \in Seq(Jobs), NEW j \in Jobs, NEW q, NEW req
  PROVE /\ KeysApart(Then(j, r), req) <=> KeysApart(r, req) /\ (j.at = "supersede" => req[j.id].key \notin Gives(r, req))
        /\ StillAhead(Then(j, r), q, req) <=> StillAhead(r, q, req) /\ Ahead(j, q, req)
<1> DEFINE w == Then(j, r)
<1>1. DOMAIN w = {1} \cup {k + 1 : k \in DOMAIN r} /\ w[1] = j /\ \A k \in DOMAIN r : k # 0 /\ w[k + 1] = r[k]
  BY ThenIs
<1>2. DOMAIN r \subseteq Nat
  BY LenProperties
<1> HIDE DEF w
<1>3. ASSUME KeysApart(w, req) PROVE KeysApart(r, req) /\ (j.at = "supersede" => req[j.id].key \notin Gives(r, req))
  <2>1. KeysApart(r, req)
    <3> SUFFICES ASSUME NEW a \in DOMAIN r, NEW b \in DOMAIN r, r[a].at = "supersede", r[b].at = "supersede",
                        req[r[a].id].key = req[r[b].id].key, req[r[a].id].key # OrNone
                 PROVE a = b
      BY DEF KeysApart
    <3>1. a + 1 \in DOMAIN w /\ b + 1 \in DOMAIN w /\ w[a + 1] = r[a] /\ w[b + 1] = r[b]
      BY <1>1
    <3>2. a + 1 = b + 1
      BY <1>3, <3>1 DEF KeysApart
    <3> QED
      BY <3>2, <1>2
  <2>2. ASSUME NEW b \in DOMAIN r, j.at = "supersede", r[b].at = "supersede", req[j.id].key = req[r[b].id].key,
               req[j.id].key # OrNone
        PROVE FALSE
    <3>1. 1 \in DOMAIN w /\ b + 1 \in DOMAIN w /\ w[1] = j /\ w[b + 1] = r[b] /\ 1 # b + 1
      BY <1>1, <1>2
    <3> QED
      BY <1>3, <2>2, <3>1 DEF KeysApart
  <2> QED
    BY <2>1, <2>2 DEF Gives
<1>4. ASSUME KeysApart(r, req), j.at = "supersede" => req[j.id].key \notin Gives(r, req) PROVE KeysApart(w, req)
  <2>1. ASSUME NEW b \in DOMAIN r, j.at = "supersede", r[b].at = "supersede", req[j.id].key = req[r[b].id].key
        PROVE req[j.id].key = OrNone
    BY <1>4, <2>1 DEF Gives
  <2> QED
    BY <1>1, <1>4, <2>1 DEF KeysApart
<1>5. StillAhead(w, q, req) <=> StillAhead(r, q, req) /\ Ahead(j, q, req)
  BY <1>1 DEF StillAhead
<1> QED
  BY <1>3, <1>4, <1>5 DEF w

\* A list that carries what another does: only calls and turns of the pump before it.
Carries(w, r, q, req) ==
  /\ w \in Seq(Jobs) /\ WorkHeld(w) = WorkHeld(r)
  /\ Once(w) <=> Once(r)
  /\ Apart(w) <=> Apart(r)
  /\ \A at \in {"trim", "mayNot", "sent", "letGo"} : Waits(w, at) <=> Waits(r, at)
  /\ OneSent(w) <=> OneSent(r)
  /\ KeysApart(w, req) <=> KeysApart(r, req)
  /\ StillAhead(w, q, req) <=> StillAhead(r, q, req)

LEMMA CarriesOn ==
  ASSUME NEW r \in Seq(Jobs), NEW w, NEW q, NEW req, Carries(w, r, q, req), NEW j \in Jobs,
         j.at \in {"handler", "resolve", "expire", "dispatch", "may"}
  PROVE Carries(Then(j, w), r, q, req)
<1>1. w \in Seq(Jobs)
  BY DEF Carries
<1>2. HeldBy(j) = {}
  BY DEF HeldBy
<1>3. Ahead(j, q, req)
  BY DEF Ahead
<1>4. /\ Then(j, w) \in Seq(Jobs) /\ WorkHeld(Then(j, w)) = WorkHeld(w)
      /\ Once(Then(j, w)) <=> Once(w)
      /\ Apart(Then(j, w)) <=> Apart(w)
      /\ \A at \in {"trim", "mayNot", "sent", "letGo"} : Waits(Then(j, w), at) <=> Waits(w, at)
      /\ OneSent(Then(j, w)) <=> OneSent(w)
  <2>1. HeldBy(j) \cup WorkHeld(w) = WorkHeld(w) /\ HeldBy(j) \cap WorkHeld(w) = {}
    BY <1>2
  <2>2. j.at # "drop" /\ j.at # "sent" /\ \A at \in {"trim", "mayNot", "sent", "letGo"} : j.at # at
    OBVIOUS
  <2> QED
    BY <1>1, <2>1, <2>2, ThenIs, ThenHolds
<1>5. (KeysApart(Then(j, w), req) <=> KeysApart(w, req)) /\ (StillAhead(Then(j, w), q, req) <=> StillAhead(w, q, req))
  BY <1>1, <1>3, ThenNames
<1> QED
  BY <1>4, <1>5 DEF Carries

LEMMA CallsCarry ==
  ASSUME NEW r \in Seq(Jobs), NEW q, NEW req, NEW id \in Nat
  PROVE Carries(Calls(id, r), r, q, req) /\ Calls(id, r) # <<>> /\ (OnlyTells(Calls(id, r)) <=> OnlyTells(r))
<1>1. [at |-> "handler", id |-> id] \in Jobs /\ [at |-> "handler", id |-> id].at = "handler"
  BY DEF Jobs
<1>2. Carries(r, r, q, req)
  BY DEF Carries
<1>3. Carries(Calls(id, r), r, q, req)
  BY <1>1, <1>2, CarriesOn DEF Calls
<1> QED
  BY <1>1, <1>3, ThenIs, ThenHolds DEF Calls

LEMMA PumpCarries ==
  ASSUME NEW r \in Seq(Jobs), NEW q, NEW req
  PROVE Carries(Pump(r), r, q, req) /\ Pump(r) # <<>>
<1>1. /\ [at |-> "resolve"] \in Jobs /\ [at |-> "expire"] \in Jobs /\ [at |-> "dispatch"] \in Jobs
      /\ [at |-> "resolve"].at = "resolve" /\ [at |-> "expire"].at = "expire" /\ [at |-> "dispatch"].at = "dispatch"
  BY DEF Jobs, Plain
<1>2. Carries(r, r, q, req)
  BY DEF Carries
<1>3. Carries(Then([at |-> "dispatch"], r), r, q, req)
  BY <1>1, <1>2, CarriesOn
<1>4. Carries(Then([at |-> "expire"], Then([at |-> "dispatch"], r)), r, q, req)
  BY <1>1, <1>3, CarriesOn
<1>5. Carries(Pump(r), r, q, req)
  BY <1>1, <1>4, CarriesOn DEF Pump
<1>6. Then([at |-> "expire"], Then([at |-> "dispatch"], r)) \in Seq(Jobs)
  BY <1>4 DEF Carries
<1> QED
  BY <1>1, <1>5, <1>6, ThenIs DEF Pump

\* A queue with one taken out of it, or put at its end.
LEMMA OneOut ==
  ASSUME NEW q \in Seq(Nat), IsInjective(q), NEW i \in DOMAIN q
  PROVE /\ RemoveAt(q, i) \in Seq(Nat) /\ Len(RemoveAt(q, i)) = Len(q) - 1 /\ Len(q) \in Nat /\ IsInjective(RemoveAt(q, i))
        /\ ToSet(RemoveAt(q, i)) = ToSet(q) \ {q[i]} /\ q[i] \in ToSet(q) /\ q[i] \in Nat /\ i \in Nat
        /\ \A k \in DOMAIN RemoveAt(q, i) : \E m \in DOMAIN q : k <= m /\ m # i /\ RemoveAt(q, i)[k] = q[m] /\ (m < i => k < i)
<1> DEFINE n == Len(q)
           o == RemoveAt(q, i)
<1>1. n \in Nat /\ DOMAIN q = 1 .. n /\ i \in 1 .. n /\ \A k \in 1 .. n : q[k] \in Nat
  BY LenProperties, ElementOfSeq
<1>2. /\ SubSeq(q, 1, i - 1) \in Seq(Nat) /\ Len(SubSeq(q, 1, i - 1)) = i - 1
      /\ \A k \in 1 .. i - 1 : SubSeq(q, 1, i - 1)[k] = q[k]
  <2>1. 1 \in Int /\ i - 1 \in Int /\ \A k \in 1 .. i - 1 : q[k] \in Nat
    BY <1>1
  <2> QED
    BY <1>1, <2>1, SubSeqProperties
<1>3. /\ SubSeq(q, i + 1, n) \in Seq(Nat) /\ Len(SubSeq(q, i + 1, n)) = n - i
      /\ \A k \in 1 .. n - i : SubSeq(q, i + 1, n)[k] = q[k + i]
  <2>1. i + 1 \in Int /\ n \in Int /\ \A k \in i + 1 .. n : q[k] \in Nat
    BY <1>1
  <2>2. /\ SubSeq(q, i + 1, n) \in Seq(Nat) /\ Len(SubSeq(q, i + 1, n)) = IF i + 1 <= n THEN n - (i + 1) + 1 ELSE 0
        /\ \A k \in 1 .. n - (i + 1) + 1 : SubSeq(q, i + 1, n)[k] = q[i + 1 + k - 1]
    BY <2>1, SubSeqProperties
  <2>3. (IF i + 1 <= n THEN n - (i + 1) + 1 ELSE 0) = n - i
    BY <1>1
  <2>4. ASSUME NEW k \in 1 .. n - i PROVE SubSeq(q, i + 1, n)[k] = q[k + i]
    <3>1. k \in 1 .. n - (i + 1) + 1 /\ i + 1 + k - 1 = k + i
      BY <1>1
    <3> QED
      BY <2>2, <3>1
  <2> QED
    BY <2>2, <2>3, <2>4
<1>4. /\ o \in Seq(Nat) /\ Len(o) = n - 1
      /\ \A k \in 1 .. n - 1 : o[k] = IF k < i THEN q[k] ELSE q[k + 1]
  <2> DEFINE a == SubSeq(q, 1, i - 1)
             b == SubSeq(q, i + 1, n)
  <2>1. o = a \o b
    BY DEF RemoveAt
  <2>2. a \in Seq(Nat) /\ b \in Seq(Nat) /\ Len(a) = i - 1 /\ Len(b) = n - i
    BY <1>2, <1>3
  <2>3. /\ \A k \in 1 .. i - 1 : a[k] = q[k]
        /\ \A k \in 1 .. n - i : b[k] = q[k + i]
    BY <1>2, <1>3
  <2> HIDE DEF a, b
  <2>4. /\ a \o b \in Seq(Nat) /\ Len(a \o b) = Len(a) + Len(b)
        /\ \A k \in 1 .. Len(a) + Len(b) : (a \o b)[k] = IF k <= Len(a) THEN a[k] ELSE b[k - Len(a)]
    BY <2>2, ConcatProperties
  <2>5. Len(a) + Len(b) = n - 1
    BY <1>1, <2>2
  <2>6. ASSUME NEW k \in 1 .. n - 1 PROVE o[k] = IF k < i THEN q[k] ELSE q[k + 1]
    <3>1. o[k] = IF k <= i - 1 THEN a[k] ELSE b[k - (i - 1)]
      BY <2>1, <2>2, <2>4, <2>5
    <3>2. CASE k < i
      BY <1>1, <2>3, <3>1, <3>2
    <3>3. CASE ~(k < i)
      <4>1. k - (i - 1) \in 1 .. n - i /\ k - (i - 1) + i = k + 1 /\ ~(k <= i - 1)
        BY <1>1, <3>3
      <4>2. o[k] = b[k - (i - 1)] /\ b[k - (i - 1)] = q[k - (i - 1) + i]
        BY <2>3, <3>1, <4>1
      <4> QED
        BY <4>1, <4>2, <3>3
    <3> QED
      BY <3>2, <3>3
  <2> QED
    BY <2>1, <2>4, <2>5, <2>6
<1>5. DOMAIN o = 1 .. n - 1
  BY <1>1, <1>4, LenProperties
<1> HIDE DEF n, o
<1>6. \A k \in DOMAIN o : \E m \in DOMAIN q : k <= m /\ m # i /\ o[k] = q[m] /\ (m < i => k < i)
  <2> SUFFICES ASSUME NEW k \in DOMAIN o PROVE \E m \in DOMAIN q : k <= m /\ m # i /\ o[k] = q[m] /\ (m < i => k < i)
    OBVIOUS
  <2>1. CASE k < i
    <3>1. k \in 1 .. n - 1 /\ k \in 1 .. n /\ k <= k /\ k # i
      BY <1>1, <1>5, <2>1
    <3>2. k \in DOMAIN q /\ o[k] = q[k]
      BY <1>1, <1>4, <2>1, <3>1
    <3> QED
      BY <2>1, <3>1, <3>2
  <2>2. CASE ~(k < i)
    <3>1. k + 1 \in DOMAIN q /\ k <= k + 1 /\ k + 1 # i /\ o[k] = q[k + 1] /\ ~(k + 1 < i)
      BY <1>1, <1>4, <1>5, <2>2
    <3> QED
      BY <3>1
  <2> QED
    BY <2>1, <2>2
<1>7. IsInjective(o)
  <2> SUFFICES ASSUME NEW a \in DOMAIN o, NEW b \in DOMAIN o, o[a] = o[b] PROVE a = b
    BY DEF IsInjective
  <2> DEFINE at(k) == IF k < i THEN k ELSE k + 1
  <2>1. ASSUME NEW k \in DOMAIN o PROVE k \in Int /\ at(k) \in DOMAIN q /\ o[k] = q[at(k)]
    <3>1. k \in 1 .. n - 1 /\ o[k] = IF k < i THEN q[k] ELSE q[k + 1]
      BY <1>4, <1>5
    <3> QED
      BY <1>1, <3>1
  <2>2. at(a) = at(b)
    BY <2>1 DEF IsInjective
  <2> QED
    BY <2>1, <2>2, <1>1
<1>8. ToSet(o) = ToSet(q) \ {q[i]}
  <2>1. ASSUME NEW k \in DOMAIN o PROVE o[k] \in ToSet(q) /\ o[k] # q[i]
    <3>1. PICK m \in DOMAIN q : m # i /\ o[k] = q[m]
      BY <1>6
    <3> QED
      BY <3>1 DEF ToSet, IsInjective
  <2>2. ASSUME NEW m \in DOMAIN q, m # i PROVE q[m] \in ToSet(o)
    <3>1. CASE m < i
      <4>1. m \in DOMAIN o /\ o[m] = q[m]
        BY <1>1, <1>4, <1>5, <3>1
      <4> QED
        BY <4>1 DEF ToSet
    <3>2. CASE ~(m < i)
      <4>1. PICK k \in 1 .. n - 1 : k + 1 = m /\ ~(k < i)
        <5>1. m \in 1 .. n /\ n \in Nat /\ i \in 1 .. n
          BY <1>1
        <5>2. m - 1 \in 1 .. n - 1 /\ (m - 1) + 1 = m /\ ~(m - 1 < i)
          BY <2>2, <3>2, <5>1
        <5> QED
          BY <5>2
      <4>2. k \in DOMAIN o /\ o[k] = q[k + 1]
        BY <1>4, <1>5, <4>1
      <4>3. o[k] = q[m]
        BY <4>1, <4>2
      <4> QED
        BY <4>2, <4>3 DEF ToSet
    <3> QED
      BY <3>1, <3>2
  <2> QED
    BY <2>1, <2>2 DEF ToSet
<1>9. q[i] \in ToSet(q)
  BY DEF ToSet
<1> QED
  BY <1>1, <1>4, <1>6, <1>7, <1>8, <1>9 DEF n, o

LEMMA OneMore ==
  ASSUME NEW q \in Seq(Nat), IsInjective(q), NEW x \in Nat, x \notin ToSet(q)
  PROVE /\ Append(q, x) \in Seq(Nat) /\ IsInjective(Append(q, x)) /\ ToSet(Append(q, x)) = ToSet(q) \cup {x}
        /\ Len(Append(q, x)) = Len(q) + 1 /\ Len(q) \in Nat
        /\ DOMAIN Append(q, x) = DOMAIN q \cup {Len(q) + 1} /\ Append(q, x)[Len(q) + 1] = x
        /\ \A k \in DOMAIN q : k <= Len(q) /\ Append(q, x)[k] = q[k]
<1>1. /\ Append(q, x) \in Seq(Nat) /\ Len(Append(q, x)) = Len(q) + 1
      /\ \A k \in 1 .. Len(q) : Append(q, x)[k] = q[k]
      /\ Append(q, x)[Len(q) + 1] = x
  BY AppendProperties
<1>2. Len(q) \in Nat /\ DOMAIN q = 1 .. Len(q) /\ DOMAIN Append(q, x) = 1 .. Len(q) + 1
  BY <1>1, LenProperties
<1>3. DOMAIN Append(q, x) = DOMAIN q \cup {Len(q) + 1}
  BY <1>2
<1>4. \A k \in DOMAIN q : k <= Len(q) /\ k # Len(q) + 1 /\ Append(q, x)[k] = q[k] /\ q[k] # x
  BY <1>1, <1>2 DEF ToSet
<1>5. IsInjective(Append(q, x))
  BY <1>1, <1>3, <1>4 DEF IsInjective
<1>6. ToSet(Append(q, x)) = ToSet(q) \cup {x}
  BY <1>1, <1>3, <1>4 DEF ToSet
<1> QED
  BY <1>1, <1>2, <1>3, <1>4, <1>5, <1>6

LEMMA FirstOut ==
  ASSUME NEW q \in Seq(Nat), IsInjective(q), q # <<>>
  PROVE /\ Tail(q) \in Seq(Nat) /\ IsInjective(Tail(q)) /\ Head(q) \in Nat
        /\ ToSet(q) = {Head(q)} \cup ToSet(Tail(q)) /\ Head(q) \notin ToSet(Tail(q))
<1>1. /\ Tail(q) \in Seq(Nat) /\ Len(Tail(q)) = Len(q) - 1 /\ Head(q) = q[1] /\ Head(q) \in Nat
      /\ \A k \in 1 .. Len(Tail(q)) : Tail(q)[k] = q[k + 1]
  BY HeadTailProperties
<1>2. Len(q) \in Nat /\ Len(q) # 0 /\ DOMAIN q = 1 .. Len(q) /\ DOMAIN Tail(q) = 1 .. Len(q) - 1
  BY <1>1, EmptySeq, LenProperties
<1>3. \A k \in DOMAIN Tail(q) : k + 1 \in DOMAIN q /\ k + 1 # 1 /\ Tail(q)[k] = q[k + 1]
  BY <1>1, <1>2
<1>4. IsInjective(Tail(q))
  <2> SUFFICES ASSUME NEW a \in DOMAIN Tail(q), NEW b \in DOMAIN Tail(q), Tail(q)[a] = Tail(q)[b] PROVE a = b
    BY DEF IsInjective
  <2>1. a + 1 = b + 1
    BY <1>3 DEF IsInjective
  <2> QED
    BY <2>1, <1>2
<1>5. 1 \in DOMAIN q /\ Head(q) \notin ToSet(Tail(q))
  BY <1>1, <1>2, <1>3 DEF ToSet, IsInjective
<1>6. ASSUME NEW m \in DOMAIN q, m # 1 PROVE q[m] \in ToSet(Tail(q))
  <2>1. m - 1 \in DOMAIN Tail(q) /\ Tail(q)[m - 1] = q[m]
    BY <1>1, <1>2, <1>6
  <2> QED
    BY <2>1 DEF ToSet
<1>7. ToSet(q) = {Head(q)} \cup ToSet(Tail(q))
  <2>1. Head(q) \in ToSet(q) /\ ToSet(Tail(q)) \subseteq ToSet(q)
    BY <1>1, <1>3, <1>5 DEF ToSet
  <2>2. ASSUME NEW m \in DOMAIN q PROVE q[m] \in {Head(q)} \cup ToSet(Tail(q))
    BY <1>1, <1>6
  <2>3. ToSet(q) \subseteq {Head(q)} \cup ToSet(Tail(q))
    BY <2>2 DEF ToSet
  <2> QED
    BY <2>1, <2>3
<1> QED
  BY <1>1, <1>4, <1>5, <1>7

LEMMA NoWork ==
  /\ <<>> \in Seq(Jobs) /\ WorkHeld(<<>>) = {} /\ Once(<<>>) /\ Apart(<<>>) /\ OneSent(<<>>) /\ OnlyTells(<<>>)
  /\ \A at : ~Waits(<<>>, at)
  /\ \A req : KeysApart(<<>>, req) /\ \A q : StillAhead(<<>>, q, req)
<1>1. <<>> \in Seq(Jobs) /\ DOMAIN <<>> = {}
  BY EmptySeq
<1> QED
  BY <1>1 DEF WorkHeld, Once, Apart, OneSent, OnlyTells, Waits, KeysApart, StillAhead

\* The list as its first job and the rest.
LEMMA Top ==
  ASSUME ReentryInv, orWork # <<>>
  PROVE /\ Head(orWork) \in Jobs /\ Rest \in Seq(Jobs) /\ orWork = Then(Head(orWork), Rest)
        /\ WorkHeld(orWork) = HeldBy(Head(orWork)) \cup WorkHeld(Rest) /\ HeldBy(Head(orWork)) \cap WorkHeld(Rest) = {}
        /\ Once(Rest) /\ Apart(Rest) /\ (Head(orWork).at = "drop" => IsInjective(Head(orWork).ids))
        /\ \A at : Waits(orWork, at) <=> Head(orWork).at = at \/ Waits(Rest, at)
        /\ OneSent(Rest) /\ ~(Head(orWork).at = "sent" /\ Waits(Rest, "sent"))
        /\ orClosed => OnlyTells(Rest) /\ Head(orWork).at \in {"handler", "drop", "letGo"}
        /\ orPolite => /\ KeysApart(Rest, orReq) /\ StillAhead(Rest, orQueue, orReq)
                       /\ Ahead(Head(orWork), orQueue, orReq)
                       /\ Head(orWork).at = "supersede" => orReq[Head(orWork).id].key \notin Gives(Rest, orReq)
<1>1. orWork \in Seq(Jobs) /\ Once(orWork) /\ Apart(orWork) /\ OneSent(orWork)
  BY DEF ReentryInv, LaneTypes, Somewhere, Paced
<1>2. Head(orWork) \in Jobs /\ Rest \in Seq(Jobs) /\ orWork = Then(Head(orWork), Rest)
  BY <1>1, IsThen DEF Rest
<1>3. orClosed => OnlyTells(orWork)
  BY DEF ReentryInv, Bounded
<1>4. orPolite => KeysApart(orWork, orReq) /\ StillAhead(orWork, orQueue, orReq)
  BY DEF ReentryInv, NamesKept
<1> DEFINE j == Head(orWork)
           r == Rest
<1>5. j \in Jobs /\ r \in Seq(Jobs) /\ orWork = Then(j, r)
  BY <1>2
<1> HIDE DEF j, r
<1>6. /\ WorkHeld(orWork) = HeldBy(j) \cup WorkHeld(r) /\ HeldBy(j) \cap WorkHeld(r) = {}
      /\ Once(r) /\ Apart(r) /\ (j.at = "drop" => IsInjective(j.ids))
      /\ \A at : Waits(orWork, at) <=> j.at = at \/ Waits(r, at)
      /\ OneSent(r) /\ ~(j.at = "sent" /\ Waits(r, "sent"))
      /\ orClosed => OnlyTells(r) /\ j.at \in {"handler", "drop", "letGo"}
  BY <1>1, <1>3, <1>5, ThenHolds
<1>7. orPolite => /\ KeysApart(r, orReq) /\ StillAhead(r, orQueue, orReq) /\ Ahead(j, orQueue, orReq)
                  /\ j.at = "supersede" => orReq[j.id].key \notin Gives(r, orReq)
  BY <1>4, <1>5, ThenNames
<1> QED
  BY <1>5, <1>6, <1>7 DEF j, r

\* What a job is by its name.
LEMMA JobIs ==
  ASSUME NEW j \in Jobs
  PROVE /\ j.at \in {"handler", "sent", "supersede"} => j.id \in Nat
        /\ j.at = "supersede" => j.left \in Nat /\ HeldBy(j) = {j.id}
        /\ j.at = "sent" => HeldBy(j) = {j.id}
        /\ j.at = "drop" => j.ids \in Seq(Nat) /\ HeldBy(j) = ToSet(j.ids)
        /\ j.at \notin {"sent", "supersede", "drop"} => HeldBy(j) = {}
BY DEF Jobs, Plain, HeldBy

\* #settle of someone who has not been told.
LEMMA Telling ==
  ASSUME LaneTypes, NEW id \in Untold, NEW outcome \in Outcomes, NEW rest \in Seq(Jobs),
         Settle(id, outcome, rest), orReq' = orReq
  PROVE /\ orTold' \in Seq(Told) /\ Len(orTold') = Len(orReq) /\ Untold' = Untold \ {id}
        /\ orWork' = Calls(id, rest) /\ id \in Nat
<1>a. outcome # "open"
  BY DEF Outcomes
<1>1. orTold \in Seq(Told) /\ Len(orTold) = Len(orReq) /\ orReq \in Seq(Requests) /\ outcome \in Told /\ outcome # "open"
  BY <1>a DEF LaneTypes, Told
<1>2. id \in DOMAIN orReq /\ orTold[id] = "open" /\ DOMAIN orReq = 1 .. Len(orReq) /\ DOMAIN orTold = DOMAIN orReq
  BY <1>1, LenProperties DEF Untold
<1>3. orTold' = [orTold EXCEPT ![id] = outcome] /\ orWork' = Calls(id, rest)
  BY <1>2 DEF Settle
<1>4. orTold' \in Seq(Told) /\ Len(orTold') = Len(orTold) /\ id \in Nat
  BY <1>1, <1>2, <1>3, ExceptSeq
<1>5. \A k \in DOMAIN orReq : orTold'[k] = IF k = id THEN outcome ELSE orTold[k]
  BY <1>2, <1>3
<1>6. Untold' = {k \in DOMAIN orReq : orTold'[k] = "open"}
  BY DEF Untold
<1>7. Untold' = Untold \ {id}
  BY <1>1, <1>5, <1>6 DEF Untold
<1> QED
  BY <1>1, <1>3, <1>4, <1>7

LEMMA AheadOut ==
  ASSUME NEW q \in Seq(Nat), IsInjective(q), NEW i \in DOMAIN q, NEW req, NEW job \in Jobs, Ahead(job, q, req)
  PROVE Ahead(job, RemoveAt(q, i), req)
<1> SUFFICES ASSUME job.at = "supersede", req[job.id].key # OrNone, NEW k \in DOMAIN RemoveAt(q, i),
                    req[RemoveAt(q, i)[k]].key = req[job.id].key
             PROVE k <= job.left
  BY DEF Ahead
<1>1. PICK m \in DOMAIN q : k <= m /\ RemoveAt(q, i)[k] = q[m]
  BY OneOut
<1>2. m <= job.left
  BY <1>1 DEF Ahead
<1>3. m \in Nat /\ k \in Nat /\ job.left \in Nat
  BY OneOut, LenProperties, JobIs
<1> QED
  BY <1>1, <1>2, <1>3

LEMMA StillAheadOut ==
  ASSUME NEW q \in Seq(Nat), IsInjective(q), NEW i \in DOMAIN q, NEW req, NEW w \in Seq(Jobs), StillAhead(w, q, req)
  PROVE StillAhead(w, RemoveAt(q, i), req)
<1> SUFFICES ASSUME NEW k \in DOMAIN w PROVE Ahead(w[k], RemoveAt(q, i), req)
  BY DEF StillAhead
<1>1. w[k] \in Jobs /\ Ahead(w[k], q, req)
  BY LenProperties, ElementOfSeq DEF StillAhead
<1> QED
  BY <1>1, AheadOut

\* A step that tells nobody and moves no request: who is where stays as it was.
LEMMA NobodyMoves ==
  ASSUME ReentryInv, NEW r \in Seq(Jobs), Carries(orWork', r, orQueue, orReq),
         orReq' = orReq, orTold' = orTold, orQueue' = orQueue, orFlight' = orFlight, orPolite' = orPolite,
         WorkHeld(r) = WorkHeld(orWork), Once(r), Apart(r),
         orPolite => KeysApart(r, orReq) /\ StillAhead(r, orQueue, orReq)
  PROVE Somewhere' /\ NamesKept'
<1>1. InFlight' = InFlight /\ Untold' = Untold
  BY DEF InFlight, Untold
<1>2. WorkHeld(orWork') = WorkHeld(orWork) /\ Once(orWork') /\ Apart(orWork')
  BY DEF Carries
<1>3. Somewhere'
  BY <1>1, <1>2 DEF ReentryInv, Somewhere
<1>4. orPolite => KeysApart(orWork', orReq) /\ StillAhead(orWork', orQueue, orReq)
  BY DEF Carries
<1>5. NamesKept'
  BY <1>4 DEF ReentryInv, NamesKept, NamesApart
<1> QED
  BY <1>3, <1>5

\* A step that takes one from where they were and tells them.
LEMMA OneIsTold ==
  ASSUME ReentryInv, NEW r \in Seq(Jobs), NEW id, Carries(orWork', r, orQueue', orReq),
         orReq' = orReq, orPolite' = orPolite, Untold' = Untold \ {id}, IsInjective(orQueue'),
         ToSet(orQueue') \subseteq ToSet(orQueue), InFlight' \subseteq InFlight, WorkHeld(r) \subseteq WorkHeld(orWork),
         ToSet(orQueue') \cup InFlight' \cup WorkHeld(r) = (ToSet(orQueue) \cup InFlight \cup WorkHeld(orWork)) \ {id},
         Once(r), Apart(r),
         orPolite => KeysApart(r, orReq) /\ StillAhead(r, orQueue', orReq)
  PROVE Somewhere' /\ NamesKept'
<1>1. WorkHeld(orWork') = WorkHeld(r) /\ Once(orWork') /\ Apart(orWork')
  BY DEF Carries
<1>2. Somewhere'
  BY <1>1 DEF ReentryInv, Somewhere
<1>3. orPolite => KeysApart(orWork', orReq) /\ StillAhead(orWork', orQueue', orReq)
  BY DEF Carries
<1>4. orPolite => NamesApart'
  BY DEF ReentryInv, NamesKept, NamesApart
<1>5. NamesKept'
  BY <1>3, <1>4 DEF NamesKept
<1> QED
  BY <1>2, <1>5

\* A job that is done with nothing in its hands.
LEMMA Returns ==
  ASSUME ReentryInv, orWork # <<>>, HeldBy(Head(orWork)) = {}, orWork' = Rest,
         orReq' = orReq, orTold' = orTold, orQueue' = orQueue, orFlight' = orFlight, orPolite' = orPolite
  PROVE Somewhere' /\ NamesKept'
<1>1. Carries(orWork', Rest, orQueue, orReq) /\ Rest \in Seq(Jobs)
  BY Top DEF Carries
<1>2. WorkHeld(Rest) = WorkHeld(orWork) /\ Once(Rest) /\ Apart(Rest)
      /\ (orPolite => KeysApart(Rest, orReq) /\ StillAhead(Rest, orQueue, orReq))
  BY Top
<1> QED
  BY <1>1, <1>2, NobodyMoves

\* What a step leaves alone but for the work.
OnlyWork == /\ orNow' = orNow /\ orClosed' = orClosed /\ orPolite' = orPolite /\ orReq' = orReq /\ orTold' = orTold
            /\ orQueue' = orQueue /\ orFlight' = orFlight /\ orLast' = orLast /\ orMay' = orMay /\ orWire' = orWire

LEMMA ReturnsKeeps ==
  ASSUME ReentryInv, orWork # <<>>, HeldBy(Head(orWork)) = {}, orWork' = Rest, OnlyWork,
         Head(orWork).at = "trim" => Len(orQueue) <= OrMost,
         Head(orWork).at = "letGo" => orFlight = OrNone,
         Head(orWork).at # "mayNot"
  PROVE ReentryInv'
<1>1. Somewhere' /\ NamesKept'
  BY Returns DEF OnlyWork
<1>2. LaneTypes'
  BY Top DEF ReentryInv, LaneTypes, OnlyWork
<1>3. \A at : Waits(orWork, at) /\ at # Head(orWork).at => Waits(orWork', at)
  BY Top
<1>4. Len(orQueue) \in Int /\ OrMost \in Int
  BY LenProperties, ReentryAssumption DEF ReentryInv, LaneTypes
<1>5. Bounded'
  BY <1>3, <1>4, Top DEF ReentryInv, Bounded, OnlyWork
<1>6. Paced'
  BY Top DEF ReentryInv, Paced, OnlyWork
<1> QED
  BY <1>1, <1>2, <1>5, <1>6 DEF ReentryInv

LEMMA HandledKeeps == ASSUME ReentryInv, OrHandled PROVE ReentryInv'
<1>1. orWork # <<>> /\ Head(orWork).at = "handler" /\ orWork' = Rest
  BY DEF OrHandled, Job
<1>2. OnlyWork
  BY DEF OrHandled, orAsked, orLane, OnlyWork
<1>3. HeldBy(Head(orWork)) = {}
  BY <1>1, Top, JobIs
<1> QED
  BY <1>1, <1>2, <1>3, ReturnsKeeps

\* One that waited is told: it left the queue, and the rest of the work goes on.
LEMMA TakenOutKeeps ==
  ASSUME ReentryInv, orWork # <<>>, NEW i \in DOMAIN orQueue, orQueue' = RemoveAt(orQueue, i),
         NEW outcome \in Outcomes, NEW r \in Seq(Jobs), Settle(orQueue[i], outcome, r),
         orNow' = orNow, orClosed' = orClosed, orPolite' = orPolite, orReq' = orReq, orFlight' = orFlight,
         orMay' = orMay, orWire' = orWire,
         orLast' = orLast \/ (orLast' = orNow /\ ~Waits(orWork, "sent")),
         WorkHeld(r) = WorkHeld(orWork), Once(r), Apart(r), OneSent(r),
         \A at \in {"trim", "mayNot", "sent", "letGo"} : Waits(r, at) <=> Waits(orWork, at),
         orPolite => KeysApart(r, orReq) /\ StillAhead(r, RemoveAt(orQueue, i), orReq)
  PROVE ReentryInv'
<1> DEFINE id == orQueue[i]
<1>1. /\ orQueue' \in Seq(Nat) /\ Len(orQueue') = Len(orQueue) - 1 /\ Len(orQueue) \in Nat /\ IsInjective(orQueue')
      /\ ToSet(orQueue') = ToSet(orQueue) \ {id} /\ id \in ToSet(orQueue) /\ id \in Nat
  BY OneOut DEF ReentryInv, LaneTypes, Somewhere
<1>2. id \in Untold
  BY <1>1 DEF ReentryInv, Somewhere
<1>3. /\ orTold' \in Seq(Told) /\ Len(orTold') = Len(orReq) /\ Untold' = Untold \ {id} /\ orWork' = Calls(id, r)
  BY <1>2, Telling DEF ReentryInv
<1>4. Carries(orWork', r, orQueue', orReq)
  BY <1>1, <1>3, CallsCarry
<1>5. InFlight' = InFlight
  BY DEF InFlight
<1>6. ToSet(orQueue') \cup InFlight' \cup WorkHeld(r) = (ToSet(orQueue) \cup InFlight \cup WorkHeld(orWork)) \ {id}
  BY <1>1, <1>5 DEF ReentryInv, Somewhere
<1>7. Somewhere' /\ NamesKept'
  BY <1>1, <1>3, <1>4, <1>5, <1>6, OneIsTold
<1>8. LaneTypes'
  BY <1>1, <1>3, <1>4 DEF ReentryInv, LaneTypes, Carries
<1>9. \A at \in {"trim", "mayNot", "sent", "letGo"} : Waits(orWork', at) <=> Waits(orWork, at)
  BY <1>4 DEF Carries
<1>10. orQueue # <<>>
  BY EmptySeq
<1>11. OrMost \in Int
  BY ReentryAssumption
<1>12. Bounded'
  BY <1>1, <1>9, <1>10, <1>11 DEF ReentryInv, Bounded
<1>13. OneSent(orWork')
  BY <1>4 DEF Carries
<1>14. Paced'
  BY <1>9, <1>13 DEF ReentryInv, Paced, LaneTypes
<1> QED
  BY <1>7, <1>8, <1>12, <1>14 DEF ReentryInv

LEMMA TrimKeeps == ASSUME ReentryInv, OrTrim PROVE ReentryInv'
<1>1. orWork # <<>> /\ Head(orWork).at = "trim" /\ HeldBy(Head(orWork)) = {}
  BY Top, JobIs DEF OrTrim, Job
<1>2. /\ orNow' = orNow /\ orClosed' = orClosed /\ orPolite' = orPolite /\ orReq' = orReq /\ orFlight' = orFlight
      /\ orLast' = orLast /\ orMay' = orMay /\ orWire' = orWire
  BY DEF OrTrim
<1>3. CASE Len(orQueue) > OrMost
  <2>1. PICK i \in DOMAIN orQueue : orQueue' = RemoveAt(orQueue, i) /\ Settle(orQueue[i], "dropped", orWork)
    BY <1>3 DEF OrTrim
  <2>2. /\ orWork \in Seq(Jobs) /\ Once(orWork) /\ Apart(orWork) /\ OneSent(orWork) /\ IsInjective(orQueue) /\ orQueue \in Seq(Nat)
        /\ orPolite => KeysApart(orWork, orReq) /\ StillAhead(orWork, orQueue, orReq)
    BY DEF ReentryInv, LaneTypes, Somewhere, Paced, NamesKept
  <2>3. orPolite => StillAhead(orWork, RemoveAt(orQueue, i), orReq)
    BY <2>2, StillAheadOut
  <2>4. "dropped" \in Outcomes
    BY DEF Outcomes
  <2> QED
    BY <1>1, <1>2, <2>1, <2>2, <2>3, <2>4, TakenOutKeeps
<1>4. CASE ~(Len(orQueue) > OrMost)
  <2>1. orWork' = Rest /\ orQueue' = orQueue /\ orTold' = orTold
    BY <1>4 DEF OrTrim
  <2>2. Len(orQueue) <= OrMost
    BY <1>4, LenProperties, ReentryAssumption DEF ReentryInv, LaneTypes
  <2> QED
    BY <1>1, <1>2, <2>1, <2>2, ReturnsKeeps DEF OnlyWork
<1> QED
  BY <1>3, <1>4

LEMMA ExpireKeeps == ASSUME ReentryInv, OrExpire PROVE ReentryInv'
<1>1. orWork # <<>> /\ Head(orWork).at = "expire" /\ HeldBy(Head(orWork)) = {}
  BY Top, JobIs DEF OrExpire, Job
<1>2. /\ orNow' = orNow /\ orClosed' = orClosed /\ orPolite' = orPolite /\ orReq' = orReq /\ orFlight' = orFlight
      /\ orLast' = orLast /\ orMay' = orMay /\ orWire' = orWire
  BY DEF OrExpire
<1> DEFINE over == {i \in DOMAIN orQueue : orNow >= orReq[orQueue[i]].life}
<1>3. CASE over # {}
  <2>1. PICK i \in DOMAIN orQueue : orQueue' = RemoveAt(orQueue, i) /\ Settle(orQueue[i], "expired", orWork)
    BY <1>3 DEF OrExpire
  <2>2. /\ orWork \in Seq(Jobs) /\ Once(orWork) /\ Apart(orWork) /\ OneSent(orWork) /\ IsInjective(orQueue) /\ orQueue \in Seq(Nat)
        /\ orPolite => KeysApart(orWork, orReq) /\ StillAhead(orWork, orQueue, orReq)
    BY DEF ReentryInv, LaneTypes, Somewhere, Paced, NamesKept
  <2>3. orPolite => StillAhead(orWork, RemoveAt(orQueue, i), orReq)
    BY <2>2, StillAheadOut
  <2>4. "expired" \in Outcomes
    BY DEF Outcomes
  <2> QED
    BY <1>1, <1>2, <2>1, <2>2, <2>3, <2>4, TakenOutKeeps
<1>4. CASE over = {}
  <2>1. orWork' = Rest /\ orQueue' = orQueue /\ orTold' = orTold
    BY <1>4 DEF OrExpire
  <2> QED
    BY <1>1, <1>2, <2>1, ReturnsKeeps DEF OnlyWork
<1> QED
  BY <1>3, <1>4

LEMMA SupersedeKeeps == ASSUME ReentryInv, OrSupersede PROVE ReentryInv'
<1> DEFINE j == Head(orWork)
           id == Ours
<1>1. orWork # <<>> /\ j.at = "supersede" /\ j \in Jobs /\ Rest \in Seq(Jobs) /\ id = j.id /\ id \in Nat /\ j.left \in Nat
      /\ HeldBy(j) = {id}
  BY Top, JobIs DEF OrSupersede, Job, Ours
<1>2. /\ orNow' = orNow /\ orClosed' = orClosed /\ orPolite' = orPolite /\ orReq' = orReq /\ orFlight' = orFlight
      /\ orLast' = orLast /\ orMay' = orMay /\ orWire' = orWire
  BY DEF OrSupersede
<1>3. orQueue \in Seq(Nat) /\ IsInjective(orQueue) /\ DOMAIN orQueue \subseteq Nat
  BY LenProperties DEF ReentryInv, LaneTypes, Somewhere
<1>4. id \in Untold /\ id \notin ToSet(orQueue) /\ id \notin InFlight /\ id \notin WorkHeld(Rest)
      /\ WorkHeld(orWork) = {id} \cup WorkHeld(Rest)
  BY <1>1, Top DEF ReentryInv, Somewhere
<1>5. ~orClosed /\ Once(Rest) /\ Apart(Rest) /\ OneSent(Rest)
      /\ \A at \in {"trim", "mayNot", "sent", "letGo"} : Waits(orWork, at) <=> Waits(Rest, at)
  BY <1>1, Top
<1>6. orPolite => /\ KeysApart(Rest, orReq) /\ StillAhead(Rest, orQueue, orReq) /\ Ahead(j, orQueue, orReq)
                  /\ orReq[id].key \notin Gives(Rest, orReq)
  BY <1>1, Top
<1> HIDE DEF j, id
<1>7. CASE Named # {}
  <2>1. PICK i \in Named : /\ \A k \in Named : k <= i
                           /\ orQueue' = RemoveAt(orQueue, i)
                           /\ Settle(orQueue[i], "superseded", Then([j EXCEPT !.left = i - 1], Rest))
    BY <1>7 DEF OrSupersede, j
  <2>2. i \in DOMAIN orQueue /\ i \in Nat /\ i # 0 /\ orReq[orQueue[i]].key = orReq[id].key /\ orReq[id].key # OrNone
    BY <1>3, <2>1, LenProperties DEF Named, id
  <2> DEFINE n == [j EXCEPT !.left = i - 1]
  <2>3. n \in Jobs /\ n.at = "supersede" /\ n.id = id /\ n.left = i - 1
    BY <1>1, <2>2 DEF Jobs, Plain
  <2> HIDE DEF n
  <2>4. HeldBy(n) = {id} /\ n.at # "drop" /\ n.at # "sent"
    BY <2>3, JobIs
  <2>5. Then(n, Rest) \in Seq(Jobs) /\ WorkHeld(Then(n, Rest)) = WorkHeld(orWork) /\ Once(Then(n, Rest)) /\ Apart(Then(n, Rest))
        /\ OneSent(Then(n, Rest))
    <3>1. /\ WorkHeld(Then(n, Rest)) = HeldBy(n) \cup WorkHeld(Rest)
          /\ Once(Then(n, Rest)) <=> Once(Rest) /\ (n.at = "drop" => IsInjective(n.ids))
          /\ Apart(Then(n, Rest)) <=> Apart(Rest) /\ HeldBy(n) \cap WorkHeld(Rest) = {}
          /\ OneSent(Then(n, Rest)) <=> OneSent(Rest) /\ ~(n.at = "sent" /\ Waits(Rest, "sent"))
      BY <1>1, <2>3, ThenHolds
    <3>2. HeldBy(n) \cap WorkHeld(Rest) = {} /\ HeldBy(n) \cup WorkHeld(Rest) = WorkHeld(orWork)
      BY <1>4, <2>4
    <3> QED
      BY <1>1, <1>5, <2>3, <2>4, <3>1, <3>2, ThenIs
  <2>6. \A at \in {"trim", "mayNot", "sent", "letGo"} : Waits(Then(n, Rest), at) <=> Waits(orWork, at)
    <3>1. \A at : Waits(Then(n, Rest), at) <=> n.at = at \/ Waits(Rest, at)
      BY <1>1, <2>3, ThenHolds
    <3> QED
      BY <1>5, <2>3, <3>1
  <2>7. orPolite => Ahead(n, RemoveAt(orQueue, i), orReq)
    <3> SUFFICES ASSUME orPolite, NEW k \in DOMAIN RemoveAt(orQueue, i),
                        orReq[RemoveAt(orQueue, i)[k]].key = orReq[id].key
                 PROVE k <= i - 1
      BY <2>3 DEF Ahead
    <3>1. PICK m \in DOMAIN orQueue : k <= m /\ m # i /\ RemoveAt(orQueue, i)[k] = orQueue[m] /\ (m < i => k < i)
      BY <1>3, <2>2, OneOut
    <3>2. m <= j.left
      BY <1>1, <1>6, <2>2, <3>1 DEF Ahead
    <3>3. m \in Named
      BY <2>2, <3>1, <3>2 DEF Named, j, id
    <3>4. m <= i /\ m \in Nat /\ k \in Nat
      BY <1>3, <2>1, <2>2, <3>3, OneOut, LenProperties
    <3> QED
      BY <2>2, <3>1, <3>4
  <2>8. orPolite => KeysApart(Then(n, Rest), orReq) /\ StillAhead(Then(n, Rest), RemoveAt(orQueue, i), orReq)
    <3>1. orPolite => StillAhead(Rest, RemoveAt(orQueue, i), orReq)
      BY <1>1, <1>3, <1>6, <2>2, StillAheadOut
    <3> QED
      BY <1>1, <1>6, <2>3, <2>7, <3>1, ThenNames
  <2>9. Settle(orQueue[i], "superseded", Then(n, Rest)) /\ "superseded" \in Outcomes
    BY <2>1 DEF n, Outcomes
  <2> QED
    BY <1>1, <1>2, <2>1, <2>2, <2>5, <2>6, <2>8, <2>9, TakenOutKeeps
<1>8. CASE Named = {}
  <2>1. orQueue' = Append(orQueue, id) /\ orWork' = Then([at |-> "trim"], Pump(Rest)) /\ orTold' = orTold
    BY <1>8 DEF OrSupersede, id
  <2>2. /\ orQueue' \in Seq(Nat) /\ IsInjective(orQueue') /\ ToSet(orQueue') = ToSet(orQueue) \cup {id}
        /\ DOMAIN orQueue' = DOMAIN orQueue \cup {Len(orQueue) + 1} /\ orQueue'[Len(orQueue) + 1] = id
        /\ \A k \in DOMAIN orQueue : orQueue'[k] = orQueue[k]
    BY <1>1, <1>3, <1>4, <2>1, OneMore
  <2>3. [at |-> "trim"] \in Jobs /\ HeldBy([at |-> "trim"]) = {} /\ [at |-> "trim"].at = "trim"
    BY DEF Jobs, Plain, HeldBy
  <2>4. Carries(Pump(Rest), Rest, orQueue', orReq)
    BY <1>1, PumpCarries
  <2>5. /\ Pump(Rest) \in Seq(Jobs) /\ WorkHeld(Pump(Rest)) = WorkHeld(Rest) /\ Once(Pump(Rest)) /\ Apart(Pump(Rest)) /\ OneSent(Pump(Rest))
        /\ \A at \in {"trim", "mayNot", "sent", "letGo"} : Waits(Pump(Rest), at) <=> Waits(Rest, at)
    BY <1>5, <2>4 DEF Carries
  <2>6. /\ orWork' \in Seq(Jobs) /\ WorkHeld(orWork') = WorkHeld(Rest) /\ Once(orWork') /\ Apart(orWork') /\ OneSent(orWork')
        /\ \A at : Waits(orWork', at) <=> "trim" = at \/ Waits(Pump(Rest), at)
    <3> DEFINE t == [at |-> "trim"]
    <3>1. t \in Jobs /\ HeldBy(t) = {} /\ t.at = "trim" /\ orWork' = Then(t, Pump(Rest))
      BY <2>1, <2>3
    <3> HIDE DEF t
    <3>2. /\ WorkHeld(orWork') = HeldBy(t) \cup WorkHeld(Pump(Rest))
          /\ Once(orWork') <=> Once(Pump(Rest)) /\ (t.at = "drop" => IsInjective(t.ids))
          /\ Apart(orWork') <=> Apart(Pump(Rest)) /\ HeldBy(t) \cap WorkHeld(Pump(Rest)) = {}
          /\ \A at : Waits(orWork', at) <=> t.at = at \/ Waits(Pump(Rest), at)
          /\ OneSent(orWork') <=> OneSent(Pump(Rest)) /\ ~(t.at = "sent" /\ Waits(Pump(Rest), "sent"))
      BY <2>5, <3>1, ThenHolds
    <3>3. orWork' \in Seq(Jobs)
      BY <2>5, <3>1, ThenIs
    <3>4. HeldBy(t) \cap WorkHeld(Pump(Rest)) = {} /\ HeldBy(t) \cup WorkHeld(Pump(Rest)) = WorkHeld(Rest) /\ t.at # "drop" /\ t.at # "sent"
      BY <2>5, <3>1
    <3> QED
      BY <2>5, <3>1, <3>2, <3>3, <3>4
  <2>7. InFlight' = InFlight /\ Untold' = Untold
    BY <1>2, <2>1 DEF InFlight, Untold
  <2>8. Somewhere'
    BY <1>4, <2>2, <2>6, <2>7 DEF ReentryInv, Somewhere
  <2>9. LaneTypes'
    BY <1>2, <2>1, <2>2, <2>6 DEF ReentryInv, LaneTypes
  <2>10. Bounded'
    BY <1>2, <1>5, <2>5, <2>6 DEF ReentryInv, Bounded
  <2>11. Paced'
    BY <1>2, <1>5, <2>5, <2>6 DEF ReentryInv, Paced
  <2>12. ASSUME orPolite, NEW i \in DOMAIN orQueue, orReq[orQueue[i]].key = orReq[id].key PROVE orReq[id].key = OrNone
    <3>1. ASSUME orReq[id].key # OrNone PROVE FALSE
      <4>1. i <= j.left
        BY <1>1, <1>6, <2>12, <3>1 DEF Ahead
      <4>2. i \in Named
        BY <2>12, <3>1, <4>1 DEF Named, j, id
      <4> QED
        BY <1>8, <4>2
    <3> QED
      BY <3>1
  <2>13. orPolite => NamesApart'
    <3> SUFFICES ASSUME orPolite, NEW a \in ToSet(orQueue'), NEW b \in ToSet(orQueue'),
                        orReq[a].key # OrNone, orReq[a].key = orReq[b].key
                 PROVE a = b
      BY <1>2 DEF NamesApart
    <3>1. ASSUME NEW c \in ToSet(orQueue), orReq[c].key = orReq[id].key PROVE orReq[id].key = OrNone
      BY <2>12, <3>1 DEF ToSet
    <3>2. a \in ToSet(orQueue) /\ b \in ToSet(orQueue) => a = b
      BY DEF ReentryInv, NamesKept, NamesApart
    <3> QED
      BY <2>2, <3>1, <3>2
  <2>14. orPolite => KeysApart(orWork', orReq) /\ StillAhead(orWork', orQueue', orReq)
    <3> SUFFICES ASSUME orPolite PROVE KeysApart(orWork', orReq) /\ StillAhead(orWork', orQueue', orReq)
      OBVIOUS
    <3>1. StillAhead(Rest, orQueue', orReq)
      <4> SUFFICES ASSUME NEW k \in DOMAIN Rest, Rest[k].at = "supersede", orReq[Rest[k].id].key # OrNone,
                          NEW i \in DOMAIN orQueue', orReq[orQueue'[i]].key = orReq[Rest[k].id].key
                   PROVE i <= Rest[k].left
        BY DEF StillAhead, Ahead
      <4>1. orReq[Rest[k].id].key \in Gives(Rest, orReq)
        BY DEF Gives
      <4>2. i \in DOMAIN orQueue /\ orQueue'[i] = orQueue[i]
        BY <1>6, <2>2, <4>1
      <4> QED
        BY <1>6, <4>2 DEF StillAhead, Ahead
    <3>2. Ahead([at |-> "trim"], orQueue', orReq)
      BY DEF Ahead
    <3>3. KeysApart(Pump(Rest), orReq) /\ StillAhead(Pump(Rest), orQueue', orReq)
      BY <1>6, <2>4, <3>1 DEF Carries
    <3> QED
      BY <2>1, <2>3, <2>5, <3>2, <3>3, ThenNames
  <2>15. NamesKept'
    BY <1>2, <2>13, <2>14 DEF NamesKept
  <2> QED
    BY <2>8, <2>9, <2>10, <2>11, <2>15 DEF ReentryInv
<1> QED
  BY <1>7, <1>8

\* A job put in front of what carries nobody it has.
LEMMA OnTop ==
  ASSUME NEW r \in Seq(Jobs), NEW j \in Jobs, HeldBy(j) \cap WorkHeld(r) = {}, Once(r), Apart(r), OneSent(r),
         j.at = "drop" => IsInjective(j.ids), j.at = "sent" => ~Waits(r, "sent")
  PROVE /\ Then(j, r) \in Seq(Jobs) /\ Then(j, r) # <<>> /\ WorkHeld(Then(j, r)) = HeldBy(j) \cup WorkHeld(r)
        /\ Once(Then(j, r)) /\ Apart(Then(j, r)) /\ OneSent(Then(j, r))
        /\ \A at : Waits(Then(j, r), at) <=> j.at = at \/ Waits(r, at)
<1>1. /\ WorkHeld(Then(j, r)) = HeldBy(j) \cup WorkHeld(r)
      /\ Once(Then(j, r)) <=> Once(r) /\ (j.at = "drop" => IsInjective(j.ids))
      /\ Apart(Then(j, r)) <=> Apart(r) /\ HeldBy(j) \cap WorkHeld(r) = {}
      /\ \A at : Waits(Then(j, r), at) <=> j.at = at \/ Waits(r, at)
      /\ OneSent(Then(j, r)) <=> OneSent(r) /\ ~(j.at = "sent" /\ Waits(r, "sent"))
  BY ThenHolds
<1> QED
  BY <1>1, ThenIs

LEMMA SameKeys ==
  ASSUME NEW r \in Seq(Jobs), NEW q, NEW req, NEW more,
         \A id \in WorkHeld(r) \cup ToSet(q) : more[id].key = req[id].key
  PROVE /\ KeysApart(r, more) <=> KeysApart(r, req)
        /\ Gives(r, more) = Gives(r, req)
        /\ StillAhead(r, q, more) <=> StillAhead(r, q, req)
<1>1. \A k \in DOMAIN r : r[k].at = "supersede" => more[r[k].id].key = req[r[k].id].key
  BY DEF WorkHeld, HeldBy
<1>2. \A i \in DOMAIN q : more[q[i]].key = req[q[i]].key
  BY DEF ToSet
<1>3. KeysApart(r, more) <=> KeysApart(r, req)
  BY <1>1 DEF KeysApart
<1>4. Gives(r, more) = Gives(r, req)
  BY <1>1 DEF Gives
<1>5. \A k \in DOMAIN r : Ahead(r[k], q, more) <=> Ahead(r[k], q, req)
  BY <1>1, <1>2 DEF Ahead
<1> QED
  BY <1>3, <1>4, <1>5 DEF StillAhead

LEMMA SubmitKeeps ==
  ASSUME ReentryInv, NEW ask \in OrAsks, NEW r \in Seq(Jobs), Submit(ask, r),
         WorkHeld(r) = WorkHeld(orWork), Once(r), Apart(r), OneSent(r),
         \A at \in {"trim", "mayNot", "sent", "letGo"} : Waits(r, at) <=> Waits(orWork, at),
         orClosed => OnlyTells(r),
         orPolite => KeysApart(r, orReq) /\ StillAhead(r, orQueue, orReq) /\ ask.key \notin Gives(r, orReq),
         orNow' = orNow, orClosed' = orClosed, orPolite' = orPolite, orQueue' = orQueue, orFlight' = orFlight,
         orLast' = orLast, orMay' = orMay, orWire' = orWire
  PROVE ReentryInv'
<1> DEFINE id == Len(orReq) + 1
           x == [ask EXCEPT !.life = orNow + ask.life]
<1>1. orReq \in Seq(Requests) /\ orTold \in Seq(Told) /\ Len(orTold) = Len(orReq) /\ orQueue \in Seq(Nat)
      /\ orNow \in Int /\ ask.life \in Int /\ orPolite \in BOOLEAN /\ orClosed \in BOOLEAN
  BY ReentryAssumption DEF ReentryInv, LaneTypes
<1>2. x \in Requests /\ x.key = ask.key
  <2>1. orNow + ask.life \in Int /\ "key" \in DOMAIN ask
    BY <1>1, ReentryAssumption
  <2> QED
    BY <2>1 DEF Requests
<1>3. orReq' = Append(orReq, x)
  BY DEF Submit
<1> HIDE DEF x
<1>4. /\ orReq' \in Seq(Requests) /\ Len(orReq') = id /\ Len(orReq) \in Nat /\ DOMAIN orReq = 1 .. Len(orReq)
      /\ DOMAIN orReq' = 1 .. id /\ orReq'[id] = x /\ \A k \in 1 .. Len(orReq) : orReq'[k] = orReq[k]
  BY <1>1, <1>2, <1>3, AppendProperties, LenProperties
<1>5. id \in Nat /\ id \notin DOMAIN orReq /\ id \notin Untold /\ Untold \subseteq DOMAIN orReq
  BY <1>4 DEF Untold
<1> HIDE DEF id
<1>6. \A k \in WorkHeld(r) \cup ToSet(orQueue) : orReq'[k].key = orReq[k].key
  BY <1>4, <1>5 DEF ReentryInv, Somewhere
<1>7. /\ KeysApart(r, orReq') <=> KeysApart(r, orReq)
      /\ Gives(r, orReq') = Gives(r, orReq)
      /\ StillAhead(r, orQueue, orReq') <=> StillAhead(r, orQueue, orReq)
  BY <1>6, SameKeys
<1>8. orPolite => NamesApart'
  <2> SUFFICES ASSUME orPolite, NEW a \in ToSet(orQueue), NEW b \in ToSet(orQueue),
                      orReq'[a].key # OrNone, orReq'[a].key = orReq'[b].key
               PROVE a = b
    BY DEF NamesApart
  <2> QED
    BY <1>6 DEF ReentryInv, NamesKept, NamesApart
<1>9. InFlight' = InFlight
  BY DEF InFlight
<1>10. ASSUME NEW end \in Told, orTold' = Append(orTold, end)
       PROVE /\ orTold' \in Seq(Told) /\ Len(orTold') = Len(orReq')
             /\ Untold' = Untold \cup (IF end = "open" THEN {id} ELSE {})
  <2>1. /\ orTold' \in Seq(Told) /\ Len(orTold') = id /\ orTold'[id] = end
        /\ \A k \in 1 .. Len(orReq) : orTold'[k] = orTold[k]
    BY <1>1, <1>10, AppendProperties DEF id
  <2>2. 1 .. id = 1 .. Len(orReq) \cup {id}
    BY <1>4 DEF id
  <2>3. Untold' = {k \in 1 .. id : orTold'[k] = "open"}
    BY <1>4 DEF Untold
  <2> QED
    BY <1>4, <2>1, <2>2, <2>3 DEF Untold
<1>11. CASE orClosed
  <2>1. orTold' = Append(orTold, "dropped") /\ orWork' = Calls(id, r)
    BY <1>11 DEF Submit, id
  <2>2. /\ orTold' \in Seq(Told) /\ Len(orTold') = Len(orReq') /\ Untold' = Untold
    <3>1. "dropped" \in Told /\ "dropped" # "open"
      BY DEF Told, Outcomes
    <3> QED
      BY <1>10, <2>1, <3>1
  <2>3. Carries(orWork', r, orQueue', orReq') /\ (OnlyTells(orWork') <=> OnlyTells(r))
    BY <1>5, <2>1, CallsCarry
  <2>4. Somewhere'
    BY <1>9, <2>2, <2>3 DEF ReentryInv, Somewhere, Carries
  <2>5. LaneTypes'
    BY <1>4, <2>2, <2>3 DEF ReentryInv, LaneTypes, Carries
  <2>6. \A at \in {"trim", "mayNot", "sent", "letGo"} : Waits(orWork', at) <=> Waits(orWork, at)
    BY <2>3 DEF Carries
  <2>7. Bounded'
    BY <2>3, <2>6 DEF ReentryInv, Bounded
  <2>8. Paced'
    BY <2>3, <2>6 DEF ReentryInv, Paced, Carries
  <2>9. NamesKept'
    BY <1>7, <1>8, <2>3 DEF NamesKept, Carries
  <2> QED
    BY <2>4, <2>5, <2>7, <2>8, <2>9 DEF ReentryInv
<1>12. CASE ~orClosed
  <2> DEFINE s == [at |-> "supersede", id |-> id, left |-> Len(orQueue)]
  <2>1. orTold' = Append(orTold, "open") /\ orWork' = Then(s, r)
    BY <1>12 DEF Submit, id
  <2>2. /\ orTold' \in Seq(Told) /\ Len(orTold') = Len(orReq') /\ Untold' = Untold \cup {id}
    <3>1. "open" \in Told
      BY DEF Told
    <3> QED
      BY <1>10, <2>1, <3>1
  <2>3. s \in Jobs /\ s.at = "supersede" /\ s.id = id /\ s.left = Len(orQueue) /\ HeldBy(s) = {id}
    BY <1>1, <1>5, LenProperties DEF Jobs, HeldBy
  <2> HIDE DEF s
  <2>4. HeldBy(s) \cap WorkHeld(r) = {} /\ id \notin ToSet(orQueue) /\ id \notin InFlight
    BY <1>5, <2>3 DEF ReentryInv, Somewhere
  <2>5. /\ orWork' \in Seq(Jobs) /\ WorkHeld(orWork') = {id} \cup WorkHeld(orWork)
        /\ Once(orWork') /\ Apart(orWork') /\ OneSent(orWork')
        /\ \A at : Waits(orWork', at) <=> s.at = at \/ Waits(r, at)
    BY <2>1, <2>3, <2>4, OnTop
  <2>6. Somewhere'
    BY <1>5, <1>9, <2>2, <2>4, <2>5 DEF ReentryInv, Somewhere
  <2>7. LaneTypes'
    BY <1>4, <2>2, <2>5 DEF ReentryInv, LaneTypes
  <2>8. \A at \in {"trim", "mayNot", "sent", "letGo"} : Waits(orWork', at) <=> Waits(orWork, at)
    BY <2>3, <2>5
  <2>9. Bounded'
    BY <1>12, <2>8 DEF ReentryInv, Bounded
  <2>10. Paced'
    BY <2>5, <2>8 DEF ReentryInv, Paced
  <2>11. Ahead(s, orQueue, orReq')
    BY <1>1, <2>3, LenProperties DEF Ahead
  <2>12. orPolite => orReq'[s.id].key \notin Gives(r, orReq')
    BY <1>2, <1>4, <1>7, <2>3
  <2>13. orPolite => KeysApart(orWork', orReq') /\ StillAhead(orWork', orQueue, orReq')
    BY <1>7, <2>1, <2>3, <2>11, <2>12, ThenNames
  <2>14. NamesKept'
    BY <1>8, <2>13 DEF NamesKept
  <2> QED
    BY <2>6, <2>7, <2>9, <2>10, <2>14 DEF ReentryInv
<1> QED
  BY <1>11, <1>12

LEMMA AskKeeps == ASSUME ReentryInv, NEW ask \in OrAsks, OrAsk(ask) PROVE ReentryInv'
<1>1. orWork = <<>> /\ Submit(ask, <<>>)
  BY DEF OrAsk
<1>2. /\ orNow' = orNow /\ orClosed' = orClosed /\ orPolite' = orPolite /\ orQueue' = orQueue /\ orFlight' = orFlight
      /\ orLast' = orLast /\ orMay' = orMay /\ orWire' = orWire
  BY DEF OrAsk, orLane
<1>3. Gives(<<>>, orReq) = {}
  BY EmptySeq DEF Gives
<1> QED
  BY <1>1, <1>2, <1>3, NoWork, SubmitKeeps

LEMMA AsksAgainKeeps == ASSUME ReentryInv, NEW ask \in OrAsks, OrAsksAgain(ask) PROVE ReentryInv'
<1>1. orWork # <<>> /\ Head(orWork).at = "handler" /\ Submit(ask, Rest) /\ (orPolite => ask.key \notin Gives(Rest, orReq))
  BY DEF OrAsksAgain, Job, Replacing, Gives
<1>2. /\ orNow' = orNow /\ orClosed' = orClosed /\ orPolite' = orPolite /\ orQueue' = orQueue /\ orFlight' = orFlight
      /\ orLast' = orLast /\ orMay' = orMay /\ orWire' = orWire
  BY DEF OrAsksAgain, orLane
<1>3. HeldBy(Head(orWork)) = {} /\ Rest \in Seq(Jobs)
  BY <1>1, Top, JobIs
<1>4. WorkHeld(Rest) = WorkHeld(orWork) /\ Once(Rest) /\ Apart(Rest) /\ OneSent(Rest) /\ (orClosed => OnlyTells(Rest))
      /\ (orPolite => KeysApart(Rest, orReq) /\ StillAhead(Rest, orQueue, orReq))
  BY <1>1, <1>3, Top
<1>5. \A at \in {"trim", "mayNot", "sent", "letGo"} : Waits(Rest, at) <=> Waits(orWork, at)
  BY <1>1, Top
<1> QED
  BY <1>1, <1>2, <1>3, <1>4, <1>5, SubmitKeeps

\* One that was in flight is told, and what is left is r.
LEMMA LandedKeeps ==
  ASSUME ReentryInv, orFlight # OrNone, orFlight' = OrNone, NEW outcome \in Outcomes, NEW r \in Seq(Jobs),
         Settle(orFlight.id, outcome, r),
         orNow' = orNow, orClosed' = orClosed, orPolite' = orPolite, orReq' = orReq, orQueue' = orQueue,
         orMay' = orMay, orWire' = orWire, orLast' = orLast,
         WorkHeld(r) = WorkHeld(orWork), Once(r), Apart(r), OneSent(r),
         \A at \in {"trim", "mayNot", "sent"} : Waits(r, at) <=> Waits(orWork, at),
         orClosed => OnlyTells(r),
         orPolite => KeysApart(r, orReq) /\ StillAhead(r, orQueue, orReq)
  PROVE ReentryInv'
<1> DEFINE id == orFlight.id
<1>1. InFlight = {id} /\ InFlight' = {}
  BY DEF InFlight
<1>2. id \in Untold /\ id \notin ToSet(orQueue) /\ id \notin WorkHeld(orWork)
  BY <1>1 DEF ReentryInv, Somewhere
<1>3. /\ orTold' \in Seq(Told) /\ Len(orTold') = Len(orReq) /\ Untold' = Untold \ {id} /\ orWork' = Calls(id, r) /\ id \in Nat
  BY <1>2, Telling DEF ReentryInv
<1>4. Carries(orWork', r, orQueue', orReq) /\ (OnlyTells(orWork') <=> OnlyTells(r))
  BY <1>3, CallsCarry
<1>5. ToSet(orQueue') \cup InFlight' \cup WorkHeld(r) = (ToSet(orQueue) \cup InFlight \cup WorkHeld(orWork)) \ {id}
  BY <1>1, <1>2
<1>6. IsInjective(orQueue')
  BY DEF ReentryInv, Somewhere
<1>7. Somewhere' /\ NamesKept'
  BY <1>1, <1>3, <1>4, <1>5, <1>6, OneIsTold
<1>8. LaneTypes'
  BY <1>3, <1>4 DEF ReentryInv, LaneTypes, Carries
<1>9. \A at \in {"trim", "mayNot", "sent"} : Waits(orWork', at) <=> Waits(orWork, at)
  BY <1>4 DEF Carries
<1>10. Bounded'
  BY <1>4, <1>9 DEF ReentryInv, Bounded
<1>11. Paced'
  BY <1>4, <1>9 DEF ReentryInv, Paced, Carries
<1> QED
  BY <1>7, <1>8, <1>10, <1>11 DEF ReentryInv

LEMMA ResolveKeeps == ASSUME ReentryInv, OrResolve PROVE ReentryInv'
<1>1. orWork # <<>> /\ Head(orWork).at = "resolve" /\ HeldBy(Head(orWork)) = {}
  BY Top, JobIs DEF OrResolve, Job
<1>2. /\ orNow' = orNow /\ orClosed' = orClosed /\ orPolite' = orPolite /\ orReq' = orReq /\ orQueue' = orQueue
      /\ orLast' = orLast /\ orMay' = orMay /\ orWire' = orWire
  BY DEF OrResolve
<1>3. /\ Rest \in Seq(Jobs) /\ WorkHeld(Rest) = WorkHeld(orWork) /\ Once(Rest) /\ Apart(Rest) /\ OneSent(Rest)
      /\ orClosed => OnlyTells(Rest)
      /\ orPolite => KeysApart(Rest, orReq) /\ StillAhead(Rest, orQueue, orReq)
  BY <1>1, Top
<1>4. \A at \in {"trim", "mayNot", "sent"} : Waits(Rest, at) <=> Waits(orWork, at)
  BY <1>1, Top
<1>5. "confirmed" \in Outcomes /\ "unconfirmed" \in Outcomes
  BY DEF Outcomes
<1>6. PICK confirmed \in BOOLEAN :
        IF orFlight # OrNone /\ (confirmed \/ orNow >= orFlight.until)
        THEN orFlight' = OrNone /\ Settle(orFlight.id, IF confirmed THEN "confirmed" ELSE "unconfirmed", Rest)
        ELSE orWork' = Rest /\ UNCHANGED <<orFlight, orTold>>
  BY DEF OrResolve
<1>7. CASE orFlight # OrNone /\ (confirmed \/ orNow >= orFlight.until)
  <2>1. PICK outcome \in Outcomes : orFlight' = OrNone /\ Settle(orFlight.id, outcome, Rest)
    BY <1>5, <1>6, <1>7
  <2> QED
    BY <1>2, <1>3, <1>4, <1>7, <2>1, LandedKeeps
<1>8. CASE ~(orFlight # OrNone /\ (confirmed \/ orNow >= orFlight.until))
  <2>1. orWork' = Rest /\ orFlight' = orFlight /\ orTold' = orTold
    BY <1>6, <1>8
  <2> QED
    BY <1>1, <1>2, <2>1, ReturnsKeeps DEF OnlyWork
<1> QED
  BY <1>7, <1>8

LEMMA DispatchKeeps == ASSUME ReentryInv, OrDispatch PROVE ReentryInv'
<1>1. orWork # <<>> /\ Head(orWork).at = "dispatch" /\ HeldBy(Head(orWork)) = {} /\ Head(orWork) \in Jobs
  BY Top, JobIs DEF OrDispatch, Job
<1>2. /\ orNow' = orNow /\ orClosed' = orClosed /\ orPolite' = orPolite /\ orReq' = orReq /\ orFlight' = orFlight /\ orMay' = orMay
  BY DEF OrDispatch
<1>3. /\ Rest \in Seq(Jobs) /\ WorkHeld(Rest) = WorkHeld(orWork) /\ Once(Rest) /\ Apart(Rest) /\ OneSent(Rest)
      /\ orPolite => KeysApart(Rest, orReq) /\ StillAhead(Rest, orQueue, orReq)
      /\ ~orClosed
  BY <1>1, Top
<1>4. \A at \in {"trim", "mayNot", "sent", "letGo"} : Waits(Rest, at) <=> Waits(orWork, at)
  BY <1>1, Top
<1>5. orQueue \in Seq(Nat) /\ IsInjective(orQueue) /\ orNow \in Int /\ orLast \in Int /\ orWire \in [at : Int, count : Nat]
      /\ orWire.at <= orLast /\ orLast <= orNow
  BY DEF ReentryInv, LaneTypes, Somewhere, Paced
<1>6. CASE ~Due
  <2>1. orWork' = Rest /\ orQueue' = orQueue /\ orLast' = orLast /\ orTold' = orTold /\ orWire' = orWire
    BY <1>6 DEF OrDispatch
  <2> QED
    BY <1>1, <1>2, <2>1, ReturnsKeeps DEF OnlyWork
<1>7. CASE Due
  <2>1. PICK i \in DOMAIN orQueue :
          /\ orQueue' = RemoveAt(orQueue, i) /\ orLast' = orNow
          /\ IF orReq[orQueue[i]].encodes
             THEN /\ orWire' = [at |-> orNow, count |-> orWire.count + 1] /\ orTold' = orTold
                  /\ orWork' = Calls(orQueue[i], Then([at |-> "sent", id |-> orQueue[i]], Rest))
             ELSE orWire' = orWire /\ Settle(orQueue[i], "dropped", Rest)
    BY <1>7 DEF OrDispatch
  <2>2. orFlight = OrNone /\ orNow - orLast >= OrSpacing /\ OrSpacing \in Int /\ OrSpacing > 0
    BY <1>7, ReentryAssumption DEF Due
  <2>3. ~Waits(orWork, "sent")
    BY <1>5, <2>2 DEF ReentryInv, Paced
  <2>4. orPolite => StillAhead(Rest, RemoveAt(orQueue, i), orReq)
    BY <1>3, <1>5, StillAheadOut
  <2>5. CASE ~orReq[orQueue[i]].encodes
    <3>1. orWire' = orWire /\ Settle(orQueue[i], "dropped", Rest) /\ "dropped" \in Outcomes
      BY <2>1, <2>5 DEF Outcomes
    <3> QED
      BY <1>1, <1>2, <1>3, <1>4, <2>1, <2>3, <2>4, <3>1, TakenOutKeeps
  <2>6. CASE orReq[orQueue[i]].encodes
    <3> DEFINE id == orQueue[i]
               s == [at |-> "sent", id |-> id]
    <3>1. /\ orQueue' \in Seq(Nat) /\ Len(orQueue') = Len(orQueue) - 1 /\ Len(orQueue) \in Nat /\ IsInjective(orQueue')
          /\ ToSet(orQueue') = ToSet(orQueue) \ {id} /\ id \in ToSet(orQueue) /\ id \in Nat
      BY <1>5, <2>1, OneOut
    <3>2. orWire' = [at |-> orNow, count |-> orWire.count + 1] /\ orTold' = orTold /\ orWork' = Calls(id, Then(s, Rest))
      BY <2>1, <2>6
    <3> HIDE DEF id
    <3>3. s \in Jobs /\ s.at = "sent" /\ HeldBy(s) = {id}
      BY <3>1 DEF Jobs, HeldBy
    <3>4. id \notin WorkHeld(Rest) /\ id \notin InFlight
      BY <1>3, <3>1 DEF ReentryInv, Somewhere
    <3> HIDE DEF s
    <3>5. /\ Then(s, Rest) \in Seq(Jobs) /\ WorkHeld(Then(s, Rest)) = {id} \cup WorkHeld(orWork)
          /\ Once(Then(s, Rest)) /\ Apart(Then(s, Rest)) /\ OneSent(Then(s, Rest))
          /\ \A at : Waits(Then(s, Rest), at) <=> s.at = at \/ Waits(Rest, at)
      <4>1. HeldBy(s) \cap WorkHeld(Rest) = {} /\ ~Waits(Rest, "sent") /\ s.at # "drop"
        BY <1>4, <2>3, <3>3, <3>4
      <4> QED
        BY <1>3, <3>3, <4>1, OnTop
    <3>6. Carries(orWork', Then(s, Rest), orQueue', orReq)
      BY <3>1, <3>2, <3>5, CallsCarry
    <3>7. /\ orWork' \in Seq(Jobs) /\ WorkHeld(orWork') = {id} \cup WorkHeld(orWork)
          /\ Once(orWork') /\ Apart(orWork') /\ OneSent(orWork')
          /\ \A at \in {"trim", "mayNot", "sent", "letGo"} : Waits(orWork', at) <=> s.at = at \/ Waits(Rest, at)
      BY <3>5, <3>6 DEF Carries
    <3>8. InFlight' = InFlight /\ Untold' = Untold
      BY <1>2, <3>2 DEF InFlight, Untold
    <3>9. Somewhere'
      BY <3>1, <3>4, <3>7, <3>8 DEF ReentryInv, Somewhere
    <3>10. orWire' \in [at : Int, count : Nat] /\ orWire'.at = orNow
      BY <1>5, <3>2
    <3>11. LaneTypes'
      BY <1>2, <2>1, <3>1, <3>2, <3>7, <3>10 DEF ReentryInv, LaneTypes
    <3>12. Bounded'
      <4>1. OrMost \in Int
        BY ReentryAssumption
      <4> QED
        BY <1>2, <1>3, <1>4, <3>1, <3>3, <3>7, <4>1 DEF ReentryInv, Bounded
    <3>13. Paced'
      BY <1>2, <1>5, <2>1, <2>2, <3>7, <3>10 DEF Paced
    <3>14. orPolite => KeysApart(orWork', orReq) /\ StillAhead(orWork', orQueue', orReq)
      <4>1. Ahead(s, orQueue', orReq) /\ s.at # "supersede"
        BY <3>3 DEF Ahead
      <4>2. orPolite => KeysApart(Then(s, Rest), orReq) /\ StillAhead(Then(s, Rest), orQueue', orReq)
        BY <1>3, <2>1, <2>4, <3>3, <4>1, ThenNames
      <4> QED
        BY <3>6, <4>2 DEF Carries
    <3>15. orPolite => NamesApart'
      BY <1>2, <3>1 DEF ReentryInv, NamesKept, NamesApart
    <3>16. NamesKept'
      BY <1>2, <3>14, <3>15 DEF NamesKept
    <3> QED
      BY <3>9, <3>11, <3>12, <3>13, <3>16 DEF ReentryInv
  <2> QED
    BY <2>5, <2>6
<1> QED
  BY <1>6, <1>7

LEMMA SentKeeps == ASSUME ReentryInv, OrSent PROVE ReentryInv'
<1> DEFINE id == Ours
<1>1. orWork # <<>> /\ Head(orWork).at = "sent" /\ HeldBy(Head(orWork)) = {id} /\ id \in Nat /\ Rest \in Seq(Jobs)
  BY Top, JobIs DEF OrSent, Job, Ours
<1>2. /\ orNow' = orNow /\ orClosed' = orClosed /\ orPolite' = orPolite /\ orReq' = orReq /\ orQueue' = orQueue
      /\ orLast' = orLast /\ orMay' = orMay /\ orWire' = orWire
  BY DEF OrSent
<1>3. /\ Once(Rest) /\ Apart(Rest) /\ OneSent(Rest) /\ ~Waits(Rest, "sent") /\ ~orClosed
      /\ WorkHeld(orWork) = {id} \cup WorkHeld(Rest) /\ id \notin WorkHeld(Rest)
      /\ orPolite => KeysApart(Rest, orReq) /\ StillAhead(Rest, orQueue, orReq)
  BY <1>1, Top
<1>4. \A at \in {"trim", "mayNot", "letGo"} : Waits(Rest, at) <=> Waits(orWork, at)
  BY <1>1, Top
<1>5. orFlight = OrNone /\ InFlight = {}
  BY <1>1, Top DEF ReentryInv, Paced, InFlight
<1>6. id \in Untold /\ id \notin ToSet(orQueue)
  BY <1>3 DEF ReentryInv, Somewhere
<1> HIDE DEF id
<1>7. CASE orReq[id].watched
  <2>1. orFlight' = [id |-> id, until |-> orNow + OrWindow, since |-> orNow] /\ orWork' = Rest /\ orTold' = orTold
    BY <1>7 DEF OrSent, id
  <2>2. orNow \in Int /\ orNow + OrWindow \in Int
    BY ReentryAssumption DEF ReentryInv, LaneTypes
  <2>3. orFlight' \in Sends /\ orFlight' # OrNone /\ orFlight'.id = id
    BY <1>1, <2>1, <2>2, ReentryAssumption DEF Sends
  <2>4. InFlight' = {id} /\ Untold' = Untold
    BY <1>2, <2>1, <2>3 DEF InFlight, Untold
  <2>5. Somewhere'
    BY <1>2, <1>3, <1>5, <1>6, <2>1, <2>4 DEF ReentryInv, Somewhere
  <2>6. LaneTypes'
    BY <1>1, <1>2, <2>1, <2>3 DEF ReentryInv, LaneTypes
  <2>7. Bounded'
    BY <1>2, <1>3, <1>4, <2>1 DEF ReentryInv, Bounded
  <2>8. Paced'
    BY <1>2, <1>3, <2>1 DEF ReentryInv, Paced
  <2>9. NamesKept'
    BY <1>2, <1>3, <2>1 DEF ReentryInv, NamesKept, NamesApart
  <2> QED
    BY <2>5, <2>6, <2>7, <2>8, <2>9 DEF ReentryInv
<1>8. CASE ~orReq[id].watched
  <2>1. orFlight' = orFlight /\ Settle(id, "sent", Rest) /\ "sent" \in Outcomes
    BY <1>8 DEF OrSent, id, Outcomes
  <2>2. /\ orTold' \in Seq(Told) /\ Len(orTold') = Len(orReq) /\ Untold' = Untold \ {id} /\ orWork' = Calls(id, Rest)
    BY <1>1, <1>2, <1>6, <2>1, Telling DEF ReentryInv
  <2>3. Carries(orWork', Rest, orQueue', orReq)
    BY <1>1, <2>2, CallsCarry
  <2>4. InFlight' = {} /\ IsInjective(orQueue')
    BY <1>2, <1>5, <2>1 DEF ReentryInv, Somewhere, InFlight
  <2>5. Somewhere' /\ NamesKept'
    BY <1>1, <1>2, <1>3, <1>5, <1>6, <2>2, <2>3, <2>4, OneIsTold
  <2>6. LaneTypes'
    BY <1>2, <2>1, <2>2, <2>3 DEF ReentryInv, LaneTypes, Carries
  <2>7. \A at \in {"trim", "mayNot", "letGo"} : Waits(orWork', at) <=> Waits(orWork, at)
    BY <1>4, <2>3 DEF Carries
  <2>8. Bounded'
    BY <1>2, <1>3, <2>7 DEF ReentryInv, Bounded
  <2>9. Paced'
    BY <1>2, <1>3, <2>3 DEF ReentryInv, Paced, Carries
  <2> QED
    BY <2>5, <2>6, <2>8, <2>9 DEF ReentryInv
<1> QED
  BY <1>7, <1>8

LEMMA DropsKeeps == ASSUME ReentryInv, OrDrops PROVE ReentryInv'
<1> DEFINE ids == Head(orWork).ids
           j == Head(orWork)
<1>1. orWork # <<>> /\ j.at = "drop" /\ ids \in Seq(Nat) /\ IsInjective(ids) /\ HeldBy(j) = ToSet(ids)
      /\ Rest \in Seq(Jobs)
  BY Top, JobIs DEF OrDrops, Job
<1>2. /\ orNow' = orNow /\ orClosed' = orClosed /\ orPolite' = orPolite /\ orReq' = orReq /\ orQueue' = orQueue
      /\ orFlight' = orFlight /\ orLast' = orLast /\ orMay' = orMay /\ orWire' = orWire
  BY DEF OrDrops, orLane
<1>3. CASE ids = <<>>
  <2>1. orWork' = Rest /\ orTold' = orTold /\ HeldBy(j) = {}
    BY <1>1, <1>3 DEF OrDrops, ToSet
  <2> QED
    BY <1>1, <1>2, <2>1, ReturnsKeeps DEF OnlyWork
<1>4. CASE ids # <<>>
  <2> DEFINE id == Head(ids)
             n == [at |-> "drop", ids |-> Tail(ids)]
             r == Then(n, Rest)
  <2>1. Settle(id, "dropped", r) /\ "dropped" \in Outcomes
    BY <1>4 DEF OrDrops, Outcomes
  <2>2. /\ Tail(ids) \in Seq(Nat) /\ IsInjective(Tail(ids)) /\ id \in Nat
        /\ ToSet(ids) = {id} \cup ToSet(Tail(ids)) /\ id \notin ToSet(Tail(ids))
    BY <1>1, <1>4, FirstOut
  <2>3. n \in Jobs /\ n.at = "drop" /\ n.ids = Tail(ids)
    BY <2>2 DEF Jobs
  <2>4. HeldBy(n) = ToSet(Tail(ids))
    BY <2>3, JobIs
  <2>5. /\ Once(Rest) /\ Apart(Rest) /\ OneSent(Rest) /\ (orClosed => OnlyTells(Rest))
        /\ WorkHeld(orWork) = ToSet(ids) \cup WorkHeld(Rest) /\ ToSet(ids) \cap WorkHeld(Rest) = {}
        /\ orPolite => KeysApart(Rest, orReq) /\ StillAhead(Rest, orQueue, orReq)
    BY <1>1, Top
  <2>6. \A at \in {"trim", "mayNot", "sent", "letGo"} : Waits(Rest, at) <=> Waits(orWork, at)
    BY <1>1, Top
  <2> HIDE DEF n, id, ids, j
  <2>7. /\ r \in Seq(Jobs) /\ WorkHeld(r) = ToSet(Tail(ids)) \cup WorkHeld(Rest) /\ Once(r) /\ Apart(r) /\ OneSent(r)
        /\ \A at : Waits(r, at) <=> n.at = at \/ Waits(Rest, at)
    <3>1. HeldBy(n) \cap WorkHeld(Rest) = {} /\ n.at # "sent" /\ (n.at = "drop" => IsInjective(n.ids))
      BY <2>2, <2>3, <2>4, <2>5
    <3> QED
      BY <1>1, <2>3, <2>4, <2>5, <3>1, OnTop
  <2>8. OnlyTells(r) <=> OnlyTells(Rest)
    BY <1>1, <2>3, ThenHolds
  <2>9. orPolite => KeysApart(r, orReq) /\ StillAhead(r, orQueue, orReq)
    <3>1. Ahead(n, orQueue, orReq) /\ n.at # "supersede"
      BY <2>3 DEF Ahead
    <3> QED
      BY <1>1, <2>3, <2>5, <3>1, ThenNames
  <2>10. \A at \in {"trim", "mayNot", "sent", "letGo"} : Waits(r, at) <=> Waits(orWork, at)
    BY <2>3, <2>6, <2>7
  <2> HIDE DEF r
  <2>11. id \in Untold /\ id \notin ToSet(orQueue) /\ id \notin InFlight /\ id \notin WorkHeld(r)
    BY <2>2, <2>5, <2>7 DEF ReentryInv, Somewhere
  <2>12. /\ orTold' \in Seq(Told) /\ Len(orTold') = Len(orReq) /\ Untold' = Untold \ {id} /\ orWork' = Calls(id, r)
    BY <1>2, <2>1, <2>7, <2>11, Telling DEF ReentryInv
  <2>13. Carries(orWork', r, orQueue', orReq) /\ (OnlyTells(orWork') <=> OnlyTells(r))
    BY <2>2, <2>7, <2>12, CallsCarry
  <2>14. InFlight' = InFlight /\ IsInjective(orQueue')
    BY <1>2 DEF ReentryInv, Somewhere, InFlight
  <2>15. WorkHeld(r) \subseteq WorkHeld(orWork) /\ WorkHeld(orWork) = {id} \cup WorkHeld(r)
    BY <2>2, <2>5, <2>7
  <2>16. ToSet(orQueue') \cup InFlight' \cup WorkHeld(r) = (ToSet(orQueue) \cup InFlight \cup WorkHeld(orWork)) \ {id}
    BY <1>2, <2>11, <2>14, <2>15
  <2>17. orPolite => KeysApart(r, orReq) /\ StillAhead(r, orQueue', orReq)
    BY <1>2, <2>9
  <2>18. ToSet(orQueue') \subseteq ToSet(orQueue) /\ InFlight' \subseteq InFlight
    BY <1>2, <2>14
  <2>19. Somewhere' /\ NamesKept'
    BY <1>2, <2>7, <2>12, <2>13, <2>14, <2>15, <2>16, <2>17, <2>18, OneIsTold
  <2>20. LaneTypes'
    BY <1>2, <2>12, <2>13 DEF ReentryInv, LaneTypes, Carries
  <2>21. \A at \in {"trim", "mayNot", "sent", "letGo"} : Waits(orWork', at) <=> Waits(orWork, at)
    BY <2>10, <2>13 DEF Carries
  <2>22. Bounded'
    BY <1>2, <2>5, <2>8, <2>13, <2>21 DEF ReentryInv, Bounded
  <2>23. Paced'
    BY <1>2, <2>7, <2>13, <2>21 DEF ReentryInv, Paced, Carries
  <2> QED
    BY <2>19, <2>20, <2>22, <2>23 DEF ReentryInv
<1> QED
  BY <1>3, <1>4

\* An entry point that leaves nothing in anyone's hands.
LEMMA EntersKeeps ==
  ASSUME ReentryInv, orWork = <<>>, ~orClosed, Carries(orWork', <<>>, orQueue, orReq),
         orNow' \in Int, orNow' >= orNow,
         orClosed' = orClosed, orPolite' = orPolite, orReq' = orReq, orTold' = orTold,
         orQueue' = orQueue, orFlight' = orFlight, orLast' = orLast, orMay' = orMay, orWire' = orWire
  PROVE ReentryInv'
<1>1. Somewhere' /\ NamesKept'
  BY NoWork, NobodyMoves
<1>2. LaneTypes'
  BY DEF ReentryInv, LaneTypes, Carries
<1>3. \A at \in {"trim", "mayNot", "sent", "letGo"} : ~Waits(orWork', at) /\ ~Waits(orWork, at)
  BY NoWork DEF Carries
<1>4. Bounded'
  BY <1>3 DEF ReentryInv, Bounded
<1>5. Paced'
  BY <1>3, NoWork DEF ReentryInv, LaneTypes, Paced, Carries
<1> QED
  BY <1>1, <1>2, <1>4, <1>5 DEF ReentryInv

LEMMA WakesKeeps == ASSUME ReentryInv, OrWakes PROVE ReentryInv'
<1>1. Carries(orWork', <<>>, orQueue, orReq)
  BY NoWork, PumpCarries DEF OrWakes
<1>2. orNow' \in Int /\ orNow' >= orNow
  BY DEF OrWakes, ReentryInv, LaneTypes
<1> QED
  BY <1>1, <1>2, EntersKeeps DEF OrWakes, orAsked, orLane

LEMMA FailsKeeps == ASSUME ReentryInv, OrFails PROVE ReentryInv'
<1>1. orWork = <<>> /\ ~orClosed
      /\ orNow' = orNow /\ orClosed' = orClosed /\ orPolite' = orPolite /\ orReq' = orReq /\ orQueue' = orQueue
      /\ orLast' = orLast /\ orMay' = orMay /\ orWire' = orWire
  BY DEF OrFails
<1>2. Carries(Pump(<<>>), <<>>, orQueue, orReq)
  BY NoWork, PumpCarries
<1>3. CASE orFlight # OrNone /\ orNow - orFlight.since <= OrBlame
  <2> DEFINE r == Pump(<<>>)
  <2>1. orFlight' = OrNone /\ Settle(orFlight.id, "refused", r) /\ "refused" \in Outcomes
    BY <1>3 DEF OrFails, Outcomes
  <2> HIDE DEF r
  <2>2. /\ r \in Seq(Jobs) /\ WorkHeld(r) = WorkHeld(orWork) /\ Once(r) /\ Apart(r) /\ OneSent(r)
        /\ \A at \in {"trim", "mayNot", "sent"} : Waits(r, at) <=> Waits(orWork, at)
        /\ orPolite => KeysApart(r, orReq) /\ StillAhead(r, orQueue, orReq)
    BY <1>1, <1>2, NoWork DEF Carries, r
  <2> QED
    BY <1>1, <1>3, <2>1, <2>2, LandedKeeps
<1>4. CASE ~(orFlight # OrNone /\ orNow - orFlight.since <= OrBlame)
  <2>1. orWork' = Pump(<<>>) /\ orFlight' = orFlight /\ orTold' = orTold
    BY <1>4 DEF OrFails
  <2>2. orNow' \in Int /\ orNow' >= orNow
    BY <1>1 DEF ReentryInv, LaneTypes
  <2> QED
    BY <1>1, <1>2, <2>1, <2>2, EntersKeeps
<1> QED
  BY <1>3, <1>4

\* All that waited was taken out, to be told one by one.
LEMMA EmptiedKeeps ==
  ASSUME ReentryInv, orWork = <<>>, ~orClosed, NEW m \in Jobs, m.at \in {"may", "letGo"}, orQueue' = <<>>,
         orWork' = Then([at |-> "drop", ids |-> orQueue], Then(m, <<>>)),
         orClosed' \in BOOLEAN, orClosed' => m.at = "letGo", orLast' = orLast \/ orLast' = orNow,
         orNow' = orNow, orPolite' = orPolite, orReq' = orReq, orTold' = orTold, orFlight' = orFlight,
         orMay' = orMay, orWire' = orWire
  PROVE ReentryInv'
<1> DEFINE n == [at |-> "drop", ids |-> orQueue]
           r == Then(m, <<>>)
<1>1. orQueue \in Seq(Nat) /\ IsInjective(orQueue)
  BY DEF ReentryInv, LaneTypes, Somewhere
<1>2. n \in Jobs /\ n.at = "drop" /\ n.ids = orQueue
  BY <1>1 DEF Jobs
<1>3. HeldBy(n) = ToSet(orQueue) /\ HeldBy(m) = {}
  BY <1>2, JobIs
<1> HIDE DEF n
<1>4. /\ r \in Seq(Jobs) /\ WorkHeld(r) = {} /\ Once(r) /\ Apart(r) /\ OneSent(r)
      /\ \A at : Waits(r, at) <=> m.at = at \/ Waits(<<>>, at)
  <2>1. HeldBy(m) \cap WorkHeld(<<>>) = {} /\ m.at # "drop" /\ m.at # "sent" /\ HeldBy(m) \cup WorkHeld(<<>>) = {}
    BY <1>3, NoWork
  <2> QED
    BY <2>1, NoWork, OnTop
<1>5. OnlyTells(r) <=> m.at = "letGo"
  BY NoWork, ThenHolds
<1>6. \A req : KeysApart(r, req) /\ \A q : StillAhead(r, q, req)
  <2> SUFFICES ASSUME NEW req, NEW q PROVE KeysApart(r, req) /\ StillAhead(r, q, req)
    OBVIOUS
  <2>1. Ahead(m, q, req) /\ m.at # "supersede"
    BY DEF Ahead
  <2> QED
    BY <2>1, NoWork, ThenNames
<1> HIDE DEF r
<1>7. /\ orWork' \in Seq(Jobs) /\ WorkHeld(orWork') = ToSet(orQueue) /\ Once(orWork') /\ Apart(orWork') /\ OneSent(orWork')
      /\ \A at : Waits(orWork', at) <=> n.at = at \/ Waits(r, at)
  <2>1. HeldBy(n) \cap WorkHeld(r) = {} /\ n.at # "sent" /\ (n.at = "drop" => IsInjective(n.ids)) /\ orWork' = Then(n, r)
    BY <1>1, <1>2, <1>4 DEF n, r
  <2>2. HeldBy(n) \cup WorkHeld(r) = ToSet(orQueue)
    BY <1>3, <1>4
  <2> QED
    BY <1>2, <1>4, <2>1, <2>2, OnTop
<1>8. OnlyTells(orWork') <=> m.at = "letGo"
  BY <1>2, <1>4, <1>5, ThenHolds DEF n, r
<1>9. KeysApart(orWork', orReq) /\ StillAhead(orWork', orQueue', orReq)
  <2>1. Ahead(n, orQueue', orReq) /\ n.at # "supersede" /\ orWork' = Then(n, r)
    BY <1>2 DEF Ahead, n, r
  <2> QED
    BY <1>2, <1>4, <1>6, <2>1, ThenNames
<1>10. InFlight' = InFlight /\ Untold' = Untold /\ ToSet(orQueue') = {} /\ orQueue' \in Seq(Nat) /\ Len(orQueue') = 0
       /\ IsInjective(orQueue')
  BY EmptySeq DEF InFlight, Untold, ToSet, IsInjective
<1>11. WorkHeld(orWork) = {}
  BY NoWork
<1>12. Somewhere'
  BY <1>7, <1>10, <1>11 DEF ReentryInv, Somewhere
<1>13. LaneTypes'
  BY <1>7, <1>10 DEF ReentryInv, LaneTypes
<1>14. ~orMay
  BY NoWork DEF ReentryInv, Bounded
<1>15. Bounded'
  BY <1>4, <1>7, <1>8, <1>10, <1>14, ReentryAssumption DEF Bounded
<1>16. ~Waits(orWork', "sent")
  BY <1>2, <1>4, <1>7, NoWork
<1>17. Paced'
  BY <1>7, <1>16 DEF ReentryInv, Paced, LaneTypes
<1>18. NamesKept'
  BY <1>9, <1>10 DEF NamesKept, NamesApart
<1> QED
  BY <1>12, <1>13, <1>15, <1>17, <1>18 DEF ReentryInv

LEMMA ClientPassesKeeps == ASSUME ReentryInv, NEW item \in BOOLEAN, OrClientPasses(item) PROVE ReentryInv'
<1>1. orWork = <<>> /\ ~orClosed
      /\ orNow' = orNow /\ orClosed' = orClosed /\ orPolite' = orPolite /\ orReq' = orReq /\ orTold' = orTold
      /\ orFlight' = orFlight /\ orMay' = orMay /\ orWire' = orWire
  BY DEF OrClientPasses, orAsked
<1>2. [at |-> "may"] \in Jobs /\ [at |-> "may"].at = "may"
  BY DEF Jobs, Plain
<1>3. CASE item
  <2>1. orQueue' = <<>> /\ orLast' = orNow /\ orWork' = Then([at |-> "drop", ids |-> orQueue], Then([at |-> "may"], <<>>))
    BY <1>3 DEF OrClientPasses
  <2>2. PICK m \in Jobs : m = [at |-> "may"]
    BY <1>2
  <2>3. m.at \in {"may", "letGo"} /\ orWork' = Then([at |-> "drop", ids |-> orQueue], Then(m, <<>>))
    BY <2>1, <2>2
  <2>4. orClosed' \in BOOLEAN /\ ~orClosed'
    BY <1>1 DEF ReentryInv, LaneTypes
  <2> QED
    BY <1>1, <2>1, <2>3, <2>4, EmptiedKeeps
<1>4. CASE ~item
  <2>1. orQueue' = orQueue /\ orLast' = orLast /\ orWork' = Then([at |-> "may"], <<>>)
    BY <1>4 DEF OrClientPasses
  <2>2. Carries(<<>>, <<>>, orQueue, orReq)
    BY NoWork DEF Carries
  <2>3. Carries(orWork', <<>>, orQueue, orReq)
    BY <1>2, <2>1, <2>2, NoWork, CarriesOn
  <2>4. orNow' \in Int /\ orNow' >= orNow
    BY <1>1 DEF ReentryInv, LaneTypes
  <2> QED
    BY <1>1, <2>1, <2>3, <2>4, EntersKeeps
<1> QED
  BY <1>3, <1>4

LEMMA ClearedKeeps ==
  ASSUME ReentryInv, orWork = <<>>, ~orClosed, Cleared, orClosed' \in BOOLEAN, orLast' = orLast,
         orNow' = orNow, orPolite' = orPolite, orReq' = orReq, orTold' = orTold, orFlight' = orFlight,
         orMay' = orMay, orWire' = orWire
  PROVE ReentryInv'
<1>1. [at |-> "letGo"] \in Jobs /\ [at |-> "letGo"].at = "letGo"
  BY DEF Jobs, Plain
<1>2. PICK m \in Jobs : m = [at |-> "letGo"]
  BY <1>1
<1>3. m.at \in {"may", "letGo"} /\ m.at = "letGo" /\ orQueue' = <<>>
      /\ orWork' = Then([at |-> "drop", ids |-> orQueue], Then(m, <<>>))
  BY <1>2 DEF Cleared
<1> QED
  BY <1>3, EmptiedKeeps

LEMMA MapInfoKeeps == ASSUME ReentryInv, OrMapInfo PROVE ReentryInv'
<1>1. orClosed' \in BOOLEAN
  BY DEF OrMapInfo, ReentryInv, LaneTypes
<1> QED
  BY <1>1, ClearedKeeps DEF OrMapInfo, orAsked

LEMMA DisposeKeeps == ASSUME ReentryInv, OrDispose PROVE ReentryInv'
  BY ClearedKeeps DEF OrDispose, orAsked

LEMMA LetsGoKeeps == ASSUME ReentryInv, OrLetsGo PROVE ReentryInv'
<1>1. orWork # <<>> /\ Head(orWork).at = "letGo" /\ HeldBy(Head(orWork)) = {}
  BY Top, JobIs DEF OrLetsGo, Job
<1>2. /\ orNow' = orNow /\ orClosed' = orClosed /\ orPolite' = orPolite /\ orReq' = orReq /\ orQueue' = orQueue
      /\ orLast' = orLast /\ orMay' = orMay /\ orWire' = orWire
  BY DEF OrLetsGo
<1>3. CASE orFlight = OrNone
  <2>1. orWork' = Rest /\ orFlight' = orFlight /\ orTold' = orTold
    BY <1>3 DEF OrLetsGo
  <2> QED
    BY <1>1, <1>2, <1>3, <2>1, ReturnsKeeps DEF OnlyWork
<1>4. CASE orFlight # OrNone
  <2>1. orFlight' = OrNone /\ Settle(orFlight.id, "unconfirmed", Rest) /\ "unconfirmed" \in Outcomes
    BY <1>4 DEF OrLetsGo, Outcomes
  <2>2. /\ Rest \in Seq(Jobs) /\ WorkHeld(Rest) = WorkHeld(orWork) /\ Once(Rest) /\ Apart(Rest) /\ OneSent(Rest)
        /\ orClosed => OnlyTells(Rest)
        /\ orPolite => KeysApart(Rest, orReq) /\ StillAhead(Rest, orQueue, orReq)
    BY <1>1, Top
  <2>3. \A at \in {"trim", "mayNot", "sent"} : Waits(Rest, at) <=> Waits(orWork, at)
    BY <1>1, Top
  <2> QED
    BY <1>2, <1>4, <2>1, <2>2, <2>3, LandedKeeps
<1> QED
  BY <1>3, <1>4

LEMMA MaysKeeps == ASSUME ReentryInv, OrMays PROVE ReentryInv'
<1> DEFINE n == [at |-> "mayNot"]
           r == Then(n, Rest)
<1>1. orWork # <<>> /\ Head(orWork).at = "may" /\ HeldBy(Head(orWork)) = {} /\ Rest \in Seq(Jobs)
  BY Top, JobIs DEF OrMays, Job
<1>2. /\ orNow' = orNow /\ orClosed' = orClosed /\ orPolite' = orPolite /\ orReq' = orReq /\ orTold' = orTold
      /\ orQueue' = orQueue /\ orFlight' = orFlight /\ orLast' = orLast /\ orMay' = TRUE /\ orWire' = orWire
      /\ orWork' = Pump(r)
  BY DEF OrMays, orAsked, orLane
<1>3. n \in Jobs /\ n.at = "mayNot" /\ HeldBy(n) = {} /\ Ahead(n, orQueue, orReq)
  BY DEF Jobs, Plain, HeldBy, Ahead
<1> HIDE DEF n
<1>4. /\ WorkHeld(Rest) = WorkHeld(orWork) /\ Once(Rest) /\ Apart(Rest) /\ OneSent(Rest) /\ ~orClosed
      /\ orPolite => KeysApart(Rest, orReq) /\ StillAhead(Rest, orQueue, orReq)
  BY <1>1, Top
<1>5. \A at \in {"trim", "mayNot", "sent", "letGo"} : Waits(Rest, at) <=> Waits(orWork, at)
  BY <1>1, Top
<1>6. /\ r \in Seq(Jobs) /\ WorkHeld(r) = WorkHeld(orWork) /\ Once(r) /\ Apart(r) /\ OneSent(r)
      /\ \A at : Waits(r, at) <=> n.at = at \/ Waits(Rest, at)
  <2>1. HeldBy(n) \cap WorkHeld(Rest) = {} /\ n.at # "drop" /\ n.at # "sent" /\ HeldBy(n) \cup WorkHeld(Rest) = WorkHeld(orWork)
    BY <1>3, <1>4
  <2> QED
    BY <1>1, <1>3, <1>4, <2>1, OnTop
<1>7. orPolite => KeysApart(r, orReq) /\ StillAhead(r, orQueue, orReq)
  BY <1>1, <1>3, <1>4, ThenNames
<1> HIDE DEF r
<1>8. Carries(orWork', r, orQueue, orReq)
  BY <1>2, <1>6, PumpCarries
<1>9. Somewhere' /\ NamesKept'
  BY <1>2, <1>6, <1>7, <1>8, NobodyMoves
<1>10. LaneTypes'
  BY <1>2, <1>8 DEF ReentryInv, LaneTypes, Carries
<1>11. \A at \in {"trim", "mayNot", "sent", "letGo"} : Waits(orWork', at) <=> "mayNot" = at \/ Waits(orWork, at)
  BY <1>3, <1>5, <1>6, <1>8 DEF Carries
<1>12. Bounded'
  BY <1>2, <1>4, <1>11 DEF ReentryInv, Bounded
<1>13. Paced'
  BY <1>2, <1>6, <1>8, <1>11 DEF ReentryInv, Paced, Carries
<1> QED
  BY <1>9, <1>10, <1>12, <1>13 DEF ReentryInv

LEMMA MayNotKeeps == ASSUME ReentryInv, OrMayNot PROVE ReentryInv'
<1>1. orWork # <<>> /\ Head(orWork).at = "mayNot" /\ HeldBy(Head(orWork)) = {} /\ Rest \in Seq(Jobs)
  BY Top, JobIs DEF OrMayNot, Job
<1>2. /\ orNow' = orNow /\ orClosed' = orClosed /\ orPolite' = orPolite /\ orReq' = orReq /\ orTold' = orTold
      /\ orQueue' = orQueue /\ orFlight' = orFlight /\ orLast' = orLast /\ orMay' = FALSE /\ orWire' = orWire
      /\ orWork' = Rest
  BY DEF OrMayNot, orAsked, orLane
<1>3. Somewhere' /\ NamesKept'
  BY <1>1, <1>2, Returns
<1>4. LaneTypes'
  BY <1>1, <1>2 DEF ReentryInv, LaneTypes
<1>5. \A at \in {"trim", "sent", "letGo"} : Waits(Rest, at) <=> Waits(orWork, at)
  BY <1>1, Top
<1>6. ~orClosed /\ OneSent(Rest)
  BY <1>1, Top
<1>7. Bounded'
  BY <1>2, <1>5, <1>6 DEF ReentryInv, Bounded
<1>8. Paced'
  BY <1>2, <1>5, <1>6 DEF ReentryInv, Paced
<1> QED
  BY <1>3, <1>4, <1>7, <1>8 DEF ReentryInv

LEMMA ReentryBegins == ASSUME ReentryInit PROVE ReentryInv
<1>1. <<>> \in Seq(Requests) /\ <<>> \in Seq(Told) /\ <<>> \in Seq(Nat) /\ <<>> \in Seq(Jobs) /\ DOMAIN <<>> = {} /\ Len(<<>>) = 0
  BY EmptySeq
<1>2. ToSet(<<>>) = {} /\ IsInjective(<<>>)
  BY <1>1 DEF ToSet, IsInjective
<1>3. OrSpacing \in Nat /\ OrMost \in Nat /\ OrSpacing > 0
  BY ReentryAssumption
<1>4. /\ orNow = OrSpacing /\ orClosed = FALSE /\ orPolite \in BOOLEAN /\ orReq = <<>> /\ orTold = <<>> /\ orQueue = <<>>
      /\ orFlight = OrNone /\ orLast = 0 /\ orMay = FALSE /\ orWork = <<>> /\ orWire = [at |-> 0, count |-> 0]
  BY DEF ReentryInit
<1>5. InFlight = {} /\ Untold = {}
  BY <1>1, <1>4 DEF InFlight, Untold
<1>6. Somewhere
  BY <1>2, <1>4, <1>5, NoWork DEF Somewhere
<1>7. orWire \in [at : Int, count : Nat] /\ orWire.at = 0
  BY <1>4
<1>8. LaneTypes
  <2>1. orFlight \in Sends \cup {OrNone} /\ orNow \in Int /\ orLast \in Int
    BY <1>3, <1>4
  <2>2. orReq \in Seq(Requests) /\ orTold \in Seq(Told) /\ Len(orTold) = Len(orReq) /\ orQueue \in Seq(Nat) /\ orWork \in Seq(Jobs)
    BY <1>1, <1>4
  <2> QED
    BY <1>4, <1>7, <2>1, <2>2 DEF LaneTypes
<1>9. Bounded
  BY <1>1, <1>3, <1>4 DEF Bounded
<1>10. Paced
  BY <1>3, <1>4, <1>7, NoWork DEF Paced
<1>11. NamesKept
  BY <1>2, <1>4, NoWork DEF NamesKept, NamesApart
<1> QED
  BY <1>6, <1>8, <1>9, <1>10, <1>11 DEF ReentryInv

LEMMA ReentryStep == ASSUME ReentryInv, [ReentryNext]_orVars PROVE ReentryInv'
<1>1. CASE UNCHANGED orVars
  <2>1. /\ orNow' = orNow /\ orClosed' = orClosed /\ orPolite' = orPolite /\ orReq' = orReq /\ orTold' = orTold
        /\ orQueue' = orQueue /\ orFlight' = orFlight /\ orLast' = orLast /\ orMay' = orMay /\ orWork' = orWork /\ orWire' = orWire
    BY <1>1 DEF orVars, orAsked, orLane
  <2>2. Somewhere'
    BY <2>1 DEF ReentryInv, Somewhere, InFlight, Untold
  <2>3. LaneTypes' /\ Bounded' /\ Paced' /\ NamesKept'
    BY <2>1 DEF ReentryInv, LaneTypes, Bounded, Paced, NamesKept, NamesApart
  <2> QED
    BY <2>2, <2>3 DEF ReentryInv
<1>2. ASSUME NEW ask \in OrAsks, OrAsk(ask) \/ OrAsksAgain(ask) PROVE ReentryInv'
  BY <1>2, AskKeeps, AsksAgainKeeps
<1>3. ASSUME NEW item \in BOOLEAN, OrClientPasses(item) PROVE ReentryInv'
  BY <1>3, ClientPassesKeeps
<1>4. ASSUME OrHandled \/ OrSupersede \/ OrTrim \/ OrResolve \/ OrExpire \/ OrDispatch \/ OrSent \/ OrDrops
             \/ OrMays \/ OrMayNot \/ OrFails \/ OrMapInfo \/ OrLetsGo \/ OrDispose \/ OrWakes
      PROVE ReentryInv'
  BY <1>4, HandledKeeps, SupersedeKeeps, TrimKeeps, ResolveKeeps, ExpireKeeps, DispatchKeeps, SentKeeps, DropsKeeps,
     MaysKeeps, MayNotKeeps, FailsKeeps, MapInfoKeeps, LetsGoKeeps, DisposeKeeps, WakesKeeps
<1> QED
  BY <1>1, <1>2, <1>3, <1>4 DEF ReentryNext

\* What a packet leaves after.
LEMMA LaneStep ==
  ASSUME ReentryInv, [ReentryNext]_orVars, orWire'.count # orWire.count
  PROVE orFlight = OrNone /\ (orWire.count > 0 => orNow - orWire.at >= OrSpacing)
<1>1. OrDispatch
  BY DEF ReentryNext, orVars, OrAsk, OrAsksAgain, OrClientPasses, OrHandled, OrSupersede, OrTrim, OrResolve, OrExpire,
         OrSent, OrDrops, OrMays, OrMayNot, OrFails, OrMapInfo, OrLetsGo, OrDispose, OrWakes
<1>2. Due
  BY <1>1 DEF OrDispatch
<1>3. orWire.at \in Int /\ orNow \in Int /\ orLast \in Int /\ OrSpacing \in Int /\ orWire.at <= orLast
  BY ReentryAssumption DEF ReentryInv, LaneTypes, Paced
<1> QED
  BY <1>2, <1>3 DEF Due

LEMMA ReentryMeans == ASSUME ReentryInv PROVE ReentryTypeOK /\ NobodyForgotten /\ NothingAfterClose /\ NamesApart
<1>1. /\ orTold \in Seq(Told) /\ orReq \in Seq(Requests) /\ Len(orTold) = Len(orReq) /\ orQueue \in Seq(Nat)
      /\ DOMAIN orTold = 1 .. Len(orTold) /\ DOMAIN orReq = 1 .. Len(orReq)
  BY LenProperties DEF ReentryInv, LaneTypes
<1>2. orWork = <<>> => WorkHeld(orWork) = {} /\ \A at : ~Waits(orWork, at)
  BY NoWork
<1>3. ReentryTypeOK
  <2>1. Len(orQueue) \in Int /\ OrMost \in Int
    BY <1>1, LenProperties, ReentryAssumption
  <2>2. ToSet(orQueue) \subseteq DOMAIN orReq
    BY DEF ReentryInv, Somewhere, Untold
  <2>3. orWork = <<>> => Len(orQueue) <= OrMost /\ ~orMay
    BY <1>2, <2>1 DEF ReentryInv, Bounded
  <2> QED
    BY <1>1, <2>2, <2>3 DEF ReentryInv, Somewhere, ReentryTypeOK
<1>4. NobodyForgotten
  <2> SUFFICES ASSUME orWork = <<>>, NEW id \in DOMAIN orReq
               PROVE (orTold[id] = "open") = (id \in ToSet(orQueue) \/ (orFlight # OrNone /\ orFlight.id = id))
    BY DEF NobodyForgotten
  <2>1. orTold[id] = "open" <=> id \in Untold
    BY DEF Untold
  <2>2. id \in Untold <=> id \in ToSet(orQueue) \/ id \in InFlight
    BY <1>2 DEF ReentryInv, Somewhere
  <2>3. id \in InFlight <=> orFlight # OrNone /\ orFlight.id = id
    BY DEF InFlight
  <2> QED
    BY <2>1, <2>2, <2>3
<1>5. NothingAfterClose
  BY <1>2 DEF ReentryInv, Bounded, NothingAfterClose
<1>6. NamesApart
  BY DEF ReentryInv, NamesKept, NamesApart
<1> QED
  BY <1>3, <1>4, <1>5, <1>6

\* The lane of this behaviour, where it is about one.
ReentryHeld == subject = "reentry" => ReentryInv

THEOREM ReentryInductive == Spec => []ReentryHeld
<1>1. Init => ReentryHeld
  BY ReentryBegins DEF Init, ReentryHeld
<1>2. ReentryHeld /\ [Next]_vars => ReentryHeld'
  <2> SUFFICES ASSUME ReentryHeld, [Next]_vars, subject' = "reentry" PROVE ReentryInv'
    BY DEF ReentryHeld
  <2>1. subject = "reentry" /\ [ReentryNext]_orVars
    BY DEF Next, Others, vars
  <2> QED
    BY <2>1, ReentryStep DEF ReentryHeld
<1> QED
  BY <1>1, <1>2, PTL DEF Spec

\* A lane whose handlers ask again in the middle of its loops forgets nobody, keeps
\* nothing once it is closed and has one request to a name (ServerActionQueue.ts).
THEOREM LosesNothing == Spec => []ReentryLosesNothing
<1>1. ReentryHeld => ReentryLosesNothing
  BY ReentryMeans DEF ReentryHeld, ReentryLosesNothing
<1> QED
  BY <1>1, ReentryInductive, PTL

\* Nothing leaves such a lane while something is unanswered, nor before the lane's floor
\* is over (ServerActionQueue.ts:565-586).
THEOREM KeepsPace == Spec => LaneKeepsPace
<1>1. ReentryHeld /\ [Next]_vars =>
        [orWire'.count # orWire.count => orFlight = OrNone /\ (orWire.count > 0 => orNow - orWire.at >= OrSpacing)]_orVars
  <2> SUFFICES ASSUME ReentryHeld, [Next]_vars, orVars' # orVars, orWire'.count # orWire.count
               PROVE orFlight = OrNone /\ (orWire.count > 0 => orNow - orWire.at >= OrSpacing)
    OBVIOUS
  <2>1. subject = "reentry" /\ [ReentryNext]_orVars
    BY DEF Next, Others, vars
  <2> QED
    BY <2>1, LaneStep DEF ReentryHeld
<1> QED
  BY <1>1, ReentryInductive, PTL DEF Spec, LaneKeepsPace

(***************************************************************************)
(* Plugins on disk and in the host (PluginLoader).                         *)
(***************************************************************************)
Fits == \A i \in Id : hosted[i] # Absent => Provides[hosted[i].file] = i
Watched == (pending # Absent => watching) /\ (watching /\ boot # Absent => boot = {})
Current(f) == hosted[Provides[f]] = IF disk[f] = Absent \/ f \in broken THEN Absent
                                    ELSE [file |-> f, version |-> disk[f]]

\* A file with an id of its own, whose last change was not lost: it runs what is on disk,
\* or is still to be loaded, once, from what is on disk now.
Tracked(f) ==
  /\ f \in boot \/ LoadsOf(f) # {} => hosted[Provides[f]] = Absent
  /\ f \in boot \/ pending = f => LoadsOf(f) = {}
  /\ \A r, t \in LoadsOf(f) : r = t
  /\ \A r \in LoadsOf(f) : r.at = "has" => disk[f] # Absent /\ r.version = disk[f] /\ f \notin broken
  /\ f \notin boot /\ LoadsOf(f) = {} /\ pending # f => Current(f)
Follows == boot # Absent => \A f \in File : Alone(f) /\ f \notin missed => Tracked(f)
LoaderInv == /\ LoaderTypeOK /\ edits \in 0 .. MaxEdits /\ watching \in BOOLEAN
             /\ OwnsWhatRuns /\ Fits /\ Watched /\ Follows

\* What a load begins with.
LEMMA BegunIs ==
  ASSUME LoaderTypeOK, Places # {}, NEW f \in File, NEW isFirst \in BOOLEAN
  PROVE /\ Begun(f, isFirst) \subseteq Under
        /\ \A r \in Begun(f, isFirst) : r.file = f /\ r.at = "reads" /\ r.version = Absent
        /\ \A r, t \in Begun(f, isFirst) : r = t
        /\ disk[f] = Absent => Begun(f, isFirst) = {}
<1>1. (CHOOSE n \in Places : TRUE) \in 1 .. MaxReloads
  BY DEF Places
<1> DEFINE n == CHOOSE n \in Places : TRUE
           r == [file |-> f, place |-> n, at |-> "reads", version |-> Absent, first |-> isFirst]
<1>2. r \in Under /\ r.file = f /\ r.at = "reads" /\ r.version = Absent
  BY <1>1 DEF Under
<1>3. Begun(f, isFirst) = IF disk[f] = Absent THEN {} ELSE {r}
  BY DEF Begun
<1> HIDE DEF r
<1> QED
  BY <1>2, <1>3

\* What an import makes of a load.
Imported(r) == [r EXCEPT !.at = "has", !.version = disk[r.file]]
LEMMA ImportedIs ==
  ASSUME LoaderTypeOK, NEW r \in reloads, disk[r.file] # Absent
  PROVE Imported(r) \in Under /\ Imported(r).file = r.file /\ Imported(r).at = "has" /\ Imported(r).version = disk[r.file]
<1>1. r \in Under /\ r.file \in File
  BY DEF LoaderTypeOK, Under
<1>2. disk[r.file] \in Nat
  BY <1>1, LoaderAssumption DEF LoaderTypeOK
<1> QED
  BY <1>1, <1>2 DEF Imported, Under

LEMMA LoaderBegins == ASSUME LoaderInit PROVE LoaderInv
<1>1. LoaderTypeOK /\ edits \in 0 .. MaxEdits /\ watching \in BOOLEAN
  <2>1. 0 \in 0 .. MaxEdits
    BY LoaderAssumption
  <2>2. disk \in [File -> 0 .. MaxEdits \cup {Absent}]
    BY <2>1 DEF LoaderInit
  <2>3. hosted \in [Id -> Code \cup {Absent}]
    BY DEF LoaderInit
  <2> QED
    BY <2>1, <2>2, <2>3 DEF LoaderInit, LoaderTypeOK
<1>2. OwnsWhatRuns /\ Fits /\ Watched
  BY LoaderAssumption DEF LoaderInit, OwnsWhatRuns, Fits, Watched
<1>3. Follows
  BY LoaderAssumption DEF LoaderInit, Follows, Tracked, LoadsOf, Current
<1> QED
  BY <1>1, <1>2, <1>3 DEF LoaderInv

LEMMA EditKeeps == ASSUME LoaderInv, NEW e \in File, Edit(e) \/ DeleteFile(e) PROVE LoaderInv'
<1>1. /\ hosted' = hosted /\ loaded' = loaded /\ reloads' = reloads /\ boot' = boot /\ watching' = watching
      /\ pending' = IF watching THEN e ELSE pending
      /\ missed' = Missed(e) /\ \A f \in File \ {e} : disk'[f] = disk[f] /\ (f \in broken' <=> f \in broken)
      /\ edits' \in 0 .. MaxEdits /\ disk' \in [File -> 0 .. MaxEdits \cup {Absent}] /\ broken' \subseteq File
  BY LoaderAssumption DEF Edit, DeleteFile, Schedule, LoaderInv, LoaderTypeOK
<1>2. LoaderTypeOK'
  BY <1>1 DEF LoaderInv, LoaderTypeOK, Missed
<1>3. OwnsWhatRuns' /\ Fits' /\ Watched'
  BY <1>1 DEF LoaderInv, OwnsWhatRuns, Fits, Watched
<1>4. Follows'
  <2> SUFFICES ASSUME boot # Absent, NEW f \in File, Alone(f), f \notin missed' PROVE Tracked(f)'
    BY <1>1 DEF Follows
  <2>1. LoadsOf(f)' = LoadsOf(f)
    BY <1>1 DEF LoadsOf
  <2>2. CASE f = e
    <3>1. watching /\ LoadsOf(f) = {}
      BY <1>1, <2>2 DEF Missed
    <3>2. pending' = f /\ boot = {}
      BY <1>1, <2>2, <3>1 DEF LoaderInv, Watched
    <3> QED
      BY <1>1, <2>1, <3>1, <3>2 DEF Tracked
  <2>3. CASE f # e
    <3>1. f \notin missed /\ Tracked(f)
      BY <1>1 DEF Missed, LoaderInv, Follows
    <3>2. pending' # f /\ pending # f
      BY <1>1, <2>3, LoaderAssumption DEF Missed, LoaderInv, Watched
    <3>3. Current(f)' <=> Current(f)
      BY <1>1, <2>3 DEF Current
    <3> QED
      BY <1>1, <2>1, <2>3, <3>1, <3>2, <3>3 DEF Tracked
  <2> QED
    BY <2>2, <2>3
<1> QED
  BY <1>1, <1>2, <1>3, <1>4 DEF LoaderInv

LEMMA ReloadFileKeeps == ASSUME LoaderInv, ReloadFile PROVE LoaderInv'
<1> DEFINE e == pending
           begun == Begun(e, FALSE)
<1>1. e \in File /\ Places # {} /\ e # Absent
  BY DEF ReloadFile, LoaderInv, LoaderTypeOK
<1>2. /\ hosted' = Unloaded(e) /\ loaded' = loaded \ {e} /\ pending' = Absent /\ reloads' = reloads \cup begun
      /\ missed' = (IF LoadsOf(e) = {} THEN missed \ {e} ELSE missed \cup {e})
      /\ disk' = disk /\ broken' = broken /\ boot' = boot /\ watching' = watching /\ edits' = edits
  BY DEF ReloadFile
<1>3. /\ begun \subseteq Under /\ (\A r \in begun : r.file = e /\ r.at = "reads" /\ r.version = Absent)
      /\ (\A r, t \in begun : r = t) /\ (disk[e] = Absent => begun = {})
  BY <1>1, BegunIs DEF LoaderInv
<1> HIDE DEF begun, e
<1>4. Provides[e] \in Id /\ hosted \in [Id -> Code \cup {Absent}] /\ Provides \in [File -> Id]
  BY <1>1, LoaderAssumption DEF LoaderInv, LoaderTypeOK
<1>5. hosted' \in [Id -> Code \cup {Absent}] /\ \A i \in Id : hosted'[i] = IF e \in loaded /\ i = Provides[e] THEN Absent ELSE hosted[i]
  BY <1>2, <1>4 DEF Unloaded
<1>6. LoaderTypeOK'
  BY <1>1, <1>2, <1>3, <1>5 DEF LoaderInv, LoaderTypeOK
<1>7. OwnsWhatRuns'
  <2> SUFFICES ASSUME NEW f \in File
               PROVE f \in loaded' <=> (hosted'[Provides[f]] # Absent /\ hosted'[Provides[f]].file = f)
    BY DEF OwnsWhatRuns
  <2>1. \A g \in File : g \in loaded <=> (hosted[Provides[g]] # Absent /\ hosted[Provides[g]].file = g)
    BY DEF LoaderInv, OwnsWhatRuns
  <2>2. Provides[f] \in Id
    BY <1>4
  <2> QED
    BY <1>1, <1>2, <1>5, <2>1, <2>2
<1>8. Fits' /\ Watched'
  BY <1>2, <1>5 DEF LoaderInv, Fits, Watched
<1>9. ASSUME NEW f \in File, Alone(f) PROVE f = e => hosted'[Provides[f]] = Absent
  <2> SUFFICES ASSUME f = e, hosted'[Provides[f]] # Absent PROVE FALSE
    OBVIOUS
  <2>1. e \notin loaded /\ hosted[Provides[e]] # Absent
    BY <1>4, <1>5, <1>9
  <2>2. hosted[Provides[e]].file \in File /\ Provides[hosted[Provides[e]].file] = Provides[e]
    BY <1>4, <2>1 DEF LoaderInv, Fits, Code
  <2>3. hosted[Provides[e]].file = e
    BY <1>9, <2>2 DEF Alone
  <2> QED
    BY <1>1, <2>1, <2>3 DEF LoaderInv, OwnsWhatRuns
<1>10. Follows'
  <2> SUFFICES ASSUME boot # Absent, NEW f \in File, Alone(f), f \notin missed' PROVE Tracked(f)'
    BY <1>2 DEF Follows
  <2>1. boot = {}
    BY <1>1, <1>2 DEF LoaderInv, Watched, e
  <2>2. CASE f = e
    <3>1. LoadsOf(f) = {}
      BY <1>2, <2>2
    <3>2. LoadsOf(f)' = begun
      BY <1>2, <1>3, <2>2, <3>1 DEF LoadsOf
    <3>3. hosted'[Provides[f]] = Absent
      BY <1>9, <2>2
    <3>4. begun = {} => Current(f)'
      BY <1>2, <2>2, <3>3 DEF Current, begun, Begun
    <3>5. pending' # f /\ f \notin boot'
      BY <1>2, <2>1, LoaderAssumption
    <3>6. \A r, t \in LoadsOf(f)' : r = t
      BY <1>3, <3>2
    <3>7. \A r \in LoadsOf(f)' : r.at # "has"
      BY <1>3, <3>2
    <3> QED
      BY <3>2, <3>3, <3>4, <3>5, <3>6, <3>7 DEF Tracked
  <2>3. CASE f # e
    <3>1. f \notin missed /\ Tracked(f)
      BY <1>2, <2>3 DEF LoaderInv, Follows
    <3>2. LoadsOf(f)' = LoadsOf(f)
      BY <1>2, <1>3, <2>3 DEF LoadsOf
    <3>3. hosted'[Provides[f]] = hosted[Provides[f]]
      <4>1. Provides[e] # Provides[f] /\ Provides[f] \in Id
        BY <1>1, <1>4, <2>3 DEF Alone
      <4> QED
        BY <1>5, <4>1
    <3>4. Current(f)' <=> Current(f)
      BY <1>2, <3>3 DEF Current
    <3>5. pending # f /\ pending' # f /\ f \notin boot' /\ f \notin boot
      BY <1>2, <2>1, <2>3, LoaderAssumption DEF e
    <3> QED
      BY <1>2, <3>1, <3>2, <3>3, <3>4, <3>5 DEF Tracked
  <2> QED
    BY <2>2, <2>3
<1> QED
  BY <1>2, <1>6, <1>7, <1>8, <1>10 DEF LoaderInv

LEMMA LoadNextKeeps == ASSUME LoaderInv, NEW e \in File, LoadNext(e) PROVE LoaderInv'
<1> DEFINE begun == Begun(e, TRUE)
<1>1. /\ boot # Absent /\ e \in boot /\ reloads = {} /\ boot' = boot \ {e} /\ reloads' = begun
      /\ disk' = disk /\ broken' = broken /\ hosted' = hosted /\ loaded' = loaded /\ pending' = pending
      /\ watching' = watching /\ edits' = edits /\ missed' = missed
  BY DEF LoadNext
<1>2. Places # {}
  BY <1>1, LoaderAssumption DEF Places
<1>3. /\ begun \subseteq Under /\ (\A r \in begun : r.file = e /\ r.at = "reads" /\ r.version = Absent)
      /\ (\A r, t \in begun : r = t) /\ (disk[e] = Absent => begun = {})
  BY <1>2, BegunIs DEF LoaderInv
<1>4. begun = {} => disk[e] = Absent
  BY DEF Begun
<1> HIDE DEF begun
<1>5. pending = Absent /\ watching = FALSE
  BY <1>1 DEF LoaderInv, Watched
<1>6. LoaderTypeOK'
  <2>1. boot \subseteq File
    BY <1>1 DEF LoaderInv, LoaderTypeOK
  <2>2. boot' \subseteq File
    BY <1>1, <2>1
  <2> QED
    BY <1>1, <1>3, <2>2 DEF LoaderInv, LoaderTypeOK
<1>7. OwnsWhatRuns' /\ Fits' /\ Watched'
  BY <1>1, <1>5 DEF LoaderInv, OwnsWhatRuns, Fits, Watched
<1>8. Follows'
  <2> SUFFICES ASSUME NEW f \in File, Alone(f), f \notin missed' PROVE Tracked(f)'
    BY <1>1 DEF Follows
  <2>1. f \notin missed /\ Tracked(f) /\ LoadsOf(f) = {}
    BY <1>1 DEF LoaderInv, Follows, LoadsOf
  <2>2. pending # f /\ pending' # f
    BY <1>1, <1>5, LoaderAssumption
  <2>3. Current(f)' <=> Current(f)
    BY <1>1 DEF Current
  <2>4. CASE f = e
    <3>1. LoadsOf(f)' = begun /\ f \notin boot'
      BY <1>1, <1>3, <2>4 DEF LoadsOf
    <3>2. hosted'[Provides[f]] = Absent
      BY <1>1, <2>1, <2>4 DEF Tracked
    <3>3. begun = {} => Current(f)'
      BY <1>1, <1>4, <2>4, <3>2 DEF Current
    <3>4. \A r, t \in LoadsOf(f)' : r = t
      BY <1>3, <3>1
    <3>5. \A r \in LoadsOf(f)' : r.at # "has"
      BY <1>3, <3>1
    <3> QED
      BY <2>2, <3>1, <3>2, <3>3, <3>4, <3>5 DEF Tracked
  <2>5. CASE f # e
    <3>1. LoadsOf(f)' = {} /\ (f \in boot' <=> f \in boot)
      BY <1>1, <1>3, <2>5 DEF LoadsOf
    <3> QED
      BY <1>1, <2>1, <2>2, <2>3, <3>1 DEF Tracked
  <2> QED
    BY <2>4, <2>5
<1> QED
  BY <1>1, <1>6, <1>7, <1>8 DEF LoaderInv

LEMMA ImportKeeps == ASSUME LoaderInv, NEW l \in reloads, Import(l) PROVE LoaderInv'
<1>1. /\ l.at = "reads"
      /\ disk' = disk /\ broken' = broken /\ hosted' = hosted /\ loaded' = loaded /\ pending' = pending
      /\ boot' = boot /\ watching' = watching /\ edits' = edits /\ missed' = missed
      /\ reloads' = (reloads \ {l}) \cup (IF disk[l.file] = Absent \/ l.file \in broken THEN {} ELSE {Imported(l)})
  BY DEF Import, Imported
<1>2. disk[l.file] # Absent =>
        Imported(l) \in Under /\ Imported(l).file = l.file /\ Imported(l).at = "has" /\ Imported(l).version = disk[l.file]
  BY ImportedIs DEF LoaderInv
<1>3. LoaderTypeOK'
  BY <1>1, <1>2 DEF LoaderInv, LoaderTypeOK
<1>4. OwnsWhatRuns' /\ Fits' /\ Watched'
  BY <1>1 DEF LoaderInv, OwnsWhatRuns, Fits, Watched
<1>5. Follows'
  <2> SUFFICES ASSUME boot # Absent, NEW f \in File, Alone(f), f \notin missed PROVE Tracked(f)'
    BY <1>1 DEF Follows
  <2>1. Tracked(f) /\ (Current(f)' <=> Current(f))
    BY <1>1 DEF LoaderInv, Follows, Current
  <2>2. CASE f # l.file
    <3>1. LoadsOf(f)' = LoadsOf(f)
      BY <1>1, <1>2, <2>2 DEF LoadsOf
    <3> QED
      BY <1>1, <2>1, <3>1 DEF Tracked
  <2>3. CASE f = l.file
    <3>1. LoadsOf(f) = {l}
      BY <2>1, <2>3 DEF LoadsOf, Tracked
    <3>2. hosted[Provides[f]] = Absent /\ f \notin boot /\ pending # f
      BY <2>1, <3>1 DEF Tracked
    <3>3. LoadsOf(f)' = IF disk[f] = Absent \/ f \in broken THEN {} ELSE {Imported(l)}
      BY <1>1, <1>2, <2>3, <3>1 DEF LoadsOf
    <3>4. CASE disk[f] = Absent \/ f \in broken
      <4>1. LoadsOf(f)' = {} /\ Current(f)'
        BY <1>1, <3>2, <3>3, <3>4 DEF Current
      <4> QED
        BY <1>1, <3>2, <4>1 DEF Tracked
    <3>5. CASE ~(disk[f] = Absent \/ f \in broken)
      <4>1. LoadsOf(f)' = {Imported(l)} /\ Imported(l).version = disk'[f]
        BY <1>1, <1>2, <2>3, <3>3, <3>5
      <4> QED
        BY <1>1, <3>2, <3>5, <4>1 DEF Tracked
    <3> QED
      BY <3>4, <3>5
  <2> QED
    BY <2>2, <2>3
<1> QED
  BY <1>1, <1>3, <1>4, <1>5 DEF LoaderInv

LEMMA FinishKeeps == ASSUME LoaderInv, NEW l \in reloads, Finish(l) PROVE LoaderInv'
<1> DEFINE e == l.file
           i == Provides[e]
           code == [file |-> e, version |-> l.version]
<1>1. /\ l.at = "has" /\ reloads' = reloads \ {l}
      /\ disk' = disk /\ broken' = broken /\ pending' = pending /\ watching' = watching /\ edits' = edits /\ missed' = missed
  BY DEF Finish
<1>2. l \in Under /\ e \in File /\ i \in Id /\ l.version \in Nat
  BY <1>1, LoaderAssumption DEF LoaderInv, LoaderTypeOK, Under
<1>3. code \in Code /\ code # Absent /\ code.file = e /\ code.version = l.version
  BY <1>2, LoaderAssumption DEF Code
<1>4. CASE hosted[i] = Absent
  <2>1. hosted' = [hosted EXCEPT ![i] = code] /\ loaded' = loaded \cup {e} /\ boot' = boot
    BY <1>4 DEF Finish
  <2> HIDE DEF code
  <2>2. hosted' \in [Id -> Code \cup {Absent}] /\ \A j \in Id : hosted'[j] = IF j = i THEN code ELSE hosted[j]
    BY <1>2, <1>3, <2>1 DEF LoaderInv, LoaderTypeOK
  <2> HIDE DEF i, e
  <2>3. LoaderTypeOK'
    BY <1>1, <1>2, <2>1, <2>2 DEF LoaderInv, LoaderTypeOK
  <2>4. OwnsWhatRuns'
    <3> SUFFICES ASSUME NEW f \in File
                 PROVE f \in loaded' <=> (hosted'[Provides[f]] # Absent /\ hosted'[Provides[f]].file = f)
      BY DEF OwnsWhatRuns
    <3>1. f \in loaded <=> (hosted[Provides[f]] # Absent /\ hosted[Provides[f]].file = f)
      BY DEF LoaderInv, OwnsWhatRuns
    <3>2. Provides[f] \in Id
      BY LoaderAssumption
    <3>3. CASE Provides[f] = i
      <4>1. hosted'[Provides[f]] = code /\ f \notin loaded
        BY <1>4, <2>2, <3>1, <3>2, <3>3
      <4> QED
        BY <1>3, <2>1, <4>1
    <3>4. CASE Provides[f] # i
      <4>1. hosted'[Provides[f]] = hosted[Provides[f]] /\ f # e
        BY <2>2, <3>2, <3>4 DEF i
      <4> QED
        BY <2>1, <3>1, <4>1
    <3> QED
      BY <3>3, <3>4
  <2>5. Fits' /\ Watched'
    BY <1>1, <1>3, <2>1, <2>2 DEF LoaderInv, Fits, Watched, i
  <2>6. Follows'
    <3> SUFFICES ASSUME boot # Absent, NEW f \in File, Alone(f), f \notin missed PROVE Tracked(f)'
      BY <1>1, <2>1 DEF Follows
    <3>1. Tracked(f)
      BY DEF LoaderInv, Follows
    <3>2. CASE f # e
      <4>1. LoadsOf(f)' = LoadsOf(f)
        BY <1>1, <3>2 DEF LoadsOf, e
      <4>2. Provides[f] \in Id /\ Provides[f] # i
        BY <1>2, <3>2, LoaderAssumption DEF Alone, i
      <4>3. hosted'[Provides[f]] = hosted[Provides[f]]
        BY <2>2, <4>2
      <4>4. Current(f)' <=> Current(f)
        BY <1>1, <4>3 DEF Current
      <4> QED
        BY <1>1, <2>1, <3>1, <4>1, <4>3, <4>4 DEF Tracked
    <3>3. CASE f = e
      <4>1. LoadsOf(f) = {l}
        BY <3>1, <3>3 DEF LoadsOf, Tracked, e
      <4>2. LoadsOf(f)' = {}
        BY <1>1, <4>1 DEF LoadsOf
      <4>3. disk[f] # Absent /\ l.version = disk[f] /\ f \notin broken
        BY <1>1, <3>1, <4>1 DEF Tracked
      <4>4. hosted'[Provides[f]] = [file |-> f, version |-> disk[f]]
        BY <1>2, <2>2, <3>3, <4>3 DEF i, code
      <4>5. Current(f)'
        BY <1>1, <4>3, <4>4 DEF Current
      <4>6. f \notin boot'
        BY <2>1, <3>1, <4>1 DEF Tracked
      <4> QED
        BY <4>2, <4>5, <4>6 DEF Tracked
    <3> QED
      BY <3>2, <3>3
  <2> QED
    BY <1>1, <2>3, <2>4, <2>5, <2>6 DEF LoaderInv
<1>5. CASE hosted[i] # Absent
  <2>1. hosted' = hosted /\ loaded' = loaded /\ boot' = IF l.first THEN Absent ELSE boot
    BY <1>5 DEF Finish
  <2> HIDE DEF i, e, code
  <2>2. LoaderTypeOK'
    BY <1>1, <2>1 DEF LoaderInv, LoaderTypeOK
  <2>3. OwnsWhatRuns' /\ Fits' /\ Watched'
    BY <1>1, <2>1 DEF LoaderInv, OwnsWhatRuns, Fits, Watched
  <2>4. Follows'
    <3> SUFFICES ASSUME boot' # Absent, NEW f \in File, Alone(f), f \notin missed PROVE Tracked(f)'
      BY <1>1 DEF Follows
    <3>1. Tracked(f) /\ boot' = boot
      BY <2>1 DEF LoaderInv, Follows
    <3>2. f # e
      <4> SUFFICES ASSUME f = e PROVE FALSE
        OBVIOUS
      <4>1. LoadsOf(f) # {}
        BY DEF LoadsOf, e
      <4> QED
        BY <1>5, <3>1, <4>1 DEF Tracked, i
    <3>3. LoadsOf(f)' = LoadsOf(f)
      BY <1>1, <3>2 DEF LoadsOf, e
    <3>4. Current(f)' <=> Current(f)
      BY <1>1, <2>1 DEF Current
    <3> QED
      BY <1>1, <2>1, <3>1, <3>3, <3>4 DEF Tracked
  <2> QED
    BY <1>1, <2>2, <2>3, <2>4 DEF LoaderInv
<1> QED
  BY <1>4, <1>5

LEMMA WatchKeeps == ASSUME LoaderInv, Watch \/ StopWatching PROVE LoaderInv'
<1>1. /\ disk' = disk /\ broken' = broken /\ hosted' = hosted /\ loaded' = loaded /\ reloads' = reloads /\ edits' = edits
      /\ watching' \in BOOLEAN /\ (boot' = Absent \/ (boot' = boot /\ boot = {} /\ pending' = pending /\ missed' = missed))
      /\ pending' \in File \cup {Absent} /\ missed' \subseteq File /\ (pending' # Absent => watching')
  <2>1. pending \in File \cup {Absent} /\ missed \subseteq File /\ (pending # Absent => watching)
    BY DEF LoaderInv, LoaderTypeOK, Watched
  <2>2. CASE Watch
    BY <2>1, <2>2 DEF Watch
  <2>3. CASE StopWatching
    BY <2>1, <2>3 DEF StopWatching
  <2> QED
    BY <2>2, <2>3
<1>2. LoaderTypeOK'
  BY <1>1 DEF LoaderInv, LoaderTypeOK
<1>3. OwnsWhatRuns' /\ Fits' /\ Watched'
  BY <1>1 DEF LoaderInv, OwnsWhatRuns, Fits, Watched
<1>4. Follows'
  <2> SUFFICES ASSUME boot' # Absent, NEW f \in File, Alone(f), f \notin missed' PROVE Tracked(f)'
    BY DEF Follows
  <2>1. boot' = boot /\ pending' = pending /\ missed' = missed
    BY <1>1
  <2>2. Tracked(f) /\ (Current(f)' <=> Current(f)) /\ LoadsOf(f)' = LoadsOf(f)
    BY <1>1, <2>1 DEF LoaderInv, Follows, Current, LoadsOf
  <2> QED
    BY <1>1, <2>1, <2>2 DEF Tracked
<1> QED
  BY <1>1, <1>2, <1>3, <1>4 DEF LoaderInv

LEMMA LoaderStep == ASSUME LoaderInv, [LoaderNext]_loaderVars PROVE LoaderInv'
<1>1. CASE UNCHANGED loaderVars
  <2>1. /\ disk' = disk /\ broken' = broken /\ hosted' = hosted /\ loaded' = loaded /\ reloads' = reloads /\ edits' = edits
        /\ watching' = watching /\ boot' = boot /\ pending' = pending /\ missed' = missed
    BY <1>1 DEF loaderVars
  <2>2. LoaderTypeOK' /\ OwnsWhatRuns' /\ Fits' /\ Watched'
    BY <2>1 DEF LoaderInv, LoaderTypeOK, OwnsWhatRuns, Fits, Watched
  <2>3. Follows'
    <3> SUFFICES ASSUME boot' # Absent, NEW f \in File, Alone(f), f \notin missed' PROVE Tracked(f)'
      BY DEF Follows
    <3>1. Tracked(f) /\ (Current(f)' <=> Current(f)) /\ LoadsOf(f)' = LoadsOf(f)
      BY <2>1 DEF LoaderInv, Follows, Current, LoadsOf
    <3> QED
      BY <2>1, <3>1 DEF Tracked
  <2> QED
    BY <2>1, <2>2, <2>3 DEF LoaderInv
<1>2. ASSUME NEW f \in File, Edit(f) \/ DeleteFile(f) \/ LoadNext(f) PROVE LoaderInv'
  BY <1>2, EditKeeps, LoadNextKeeps
<1>3. ASSUME NEW r \in reloads, Import(r) \/ Finish(r) PROVE LoaderInv'
  BY <1>3, ImportKeeps, FinishKeeps
<1>4. ASSUME ReloadFile \/ Watch \/ StopWatching PROVE LoaderInv'
  BY <1>4, ReloadFileKeeps, WatchKeeps
<1> QED
  BY <1>1, <1>2, <1>3, <1>4 DEF LoaderNext

LEMMA LoaderMeans == ASSUME LoaderInv PROVE LoaderTypeOK /\ OwnsWhatRuns /\ QuietIsCurrent
<1>1. QuietIsCurrent
  <2> SUFFICES ASSUME NEW f \in File, Alone(f), boot = {}, reloads = {}, pending = Absent, f \notin missed PROVE Current(f)
    BY DEF QuietIsCurrent, Current
  <2>1. Tracked(f) /\ LoadsOf(f) = {} /\ pending # f
    BY LoaderAssumption DEF LoaderInv, Follows, LoadsOf
  <2> QED
    BY <2>1 DEF Tracked
<1> QED
  BY <1>1 DEF LoaderInv

(***************************************************************************)
(* Plugins while they run (PluginRuntime).                                 *)
(***************************************************************************)

\* What an entry is in any order of loads, failures, keys and panel.
Sound(e) == /\ e \in Entry /\ (e.enabled <=> e.state = "enabled")
            /\ (e.state # "failed" => e.errors < MaxHandlerErrors) /\ (e.setupFailed => e.state = "failed")
IsHost(ps) == ps \in [Plugin -> Entry \cup {None}] /\ \A p \in Plugin : ps[p] # None => Sound(ps[p])

LEMMA Fresh ==
  /\ None \notin Entry /\ MaxHandlerErrors \in Nat /\ MaxHandlerErrors > 0 /\ 0 \in 0 .. MaxHandlerErrors
  /\ {"loaded", "enabled", "failed"} = State
  BY HostAssumption, RuntimeAssumption DEF State

LEMMA SetUpIs == ASSUME NEW p \in Plugin, store \in [Plugin -> {None, TRUE, FALSE}]
                 PROVE Sound(SetUp(p)) /\ SetUp(p).armed = FALSE /\ SetUp(p).setupFailed = FALSE
<1>1. StoredSwitch(p) \in BOOLEAN
  <2>1. store[p] \in {None, TRUE, FALSE}
    OBVIOUS
  <2>2. (p \in DefaultOn) \in BOOLEAN
    OBVIOUS
  <2>3. store[p] # None => store[p] \in BOOLEAN
    BY <2>1, Zenon
  <2> QED
    BY <2>2, <2>3, Zenon DEF StoredSwitch
<1> DEFINE on == StoredSwitch(p)
<1>2. SetUp(p) = [state |-> IF on THEN "enabled" ELSE "loaded", enabled |-> on, armed |-> FALSE, errors |-> 0, setupFailed |-> FALSE]
  BY DEF SetUp
<1> HIDE DEF on
<1>3. CASE on
  BY <1>1, <1>2, <1>3, Fresh DEF Sound, Entry, on
<1>4. CASE ~on
  BY <1>1, <1>2, <1>4, Fresh DEF Sound, Entry, on
<1> QED
  BY <1>3, <1>4

LEMMA BrokenIs == Sound(Broken) /\ Broken.armed = FALSE /\ Broken.setupFailed = TRUE
  BY Fresh DEF Broken, Sound, Entry

LEMMA MovedIs == ASSUME NEW e, Sound(e), NEW on \in BOOLEAN, on \/ e.enabled, ~e.setupFailed
                 PROVE Sound(Moved(e, on)) /\ Moved(e, on).enabled = on /\ Moved(e, on).armed = e.armed
                       /\ Moved(e, on).setupFailed = e.setupFailed
<1>1. e \in Entry
  BY DEF Sound
<1>2. e.errors \in 0 .. MaxHandlerErrors
  BY <1>1 DEF Entry
<1>3. Moved(e, on) \in Entry
  BY <1>1, <1>2, Fresh DEF Moved, Entry
<1>4. /\ Moved(e, on).enabled = on /\ Moved(e, on).armed = e.armed /\ Moved(e, on).setupFailed = e.setupFailed
      /\ Moved(e, on).state = (IF on THEN "enabled" ELSE "loaded") /\ Moved(e, on).errors = (IF on THEN 0 ELSE e.errors)
  BY <1>1 DEF Moved, Entry
<1>5. e.errors < MaxHandlerErrors \/ on
  BY DEF Sound
<1> QED
  BY <1>3, <1>4, <1>5, Fresh DEF Sound

LEMMA ThrewIs == ASSUME NEW e, Sound(e), e.state # "failed"
                 PROVE /\ Sound(Threw(e)) /\ Threw(e).armed = e.armed /\ Threw(e).setupFailed = e.setupFailed
                       /\ Threw(e).state # "failed" => Threw(e).enabled = e.enabled /\ Threw(e).state = e.state
<1>1. e \in Entry /\ e.errors < MaxHandlerErrors /\ ~e.setupFailed
  BY DEF Sound
<1>2. e.errors \in Nat /\ e.errors + 1 \in 0 .. MaxHandlerErrors
  BY <1>1, Fresh DEF Entry
<1>3. CASE e.errors + 1 < MaxHandlerErrors
  <2>1. Threw(e) = [e EXCEPT !.errors = e.errors + 1]
    BY <1>3 DEF Threw
  <2>2. Threw(e) \in Entry
    BY <1>1, <1>2, <2>1 DEF Entry
  <2>3. /\ Threw(e).enabled = e.enabled /\ Threw(e).armed = e.armed /\ Threw(e).setupFailed = e.setupFailed
        /\ Threw(e).state = e.state /\ Threw(e).errors = e.errors + 1
    BY <1>1, <2>1 DEF Entry
  <2> QED
    BY <1>3, <2>2, <2>3 DEF Sound
<1>4. CASE ~(e.errors + 1 < MaxHandlerErrors)
  <2>1. Threw(e) = [e EXCEPT !.errors = e.errors + 1, !.enabled = FALSE, !.state = "failed"]
    BY <1>4 DEF Threw
  <2>2. Threw(e) \in Entry
    BY <1>1, <1>2, <2>1, Fresh DEF Entry
  <2>3. /\ Threw(e).enabled = FALSE /\ Threw(e).armed = e.armed /\ Threw(e).setupFailed = e.setupFailed
        /\ Threw(e).state = "failed"
    BY <1>1, <2>1 DEF Entry
  <2> QED
    BY <2>2, <2>3 DEF Sound
<1> QED
  BY <1>3, <1>4

LEMMA ArmedIs == ASSUME NEW e, Sound(e), NEW on \in BOOLEAN
                 PROVE /\ Sound([e EXCEPT !.armed = on]) /\ [e EXCEPT !.armed = on].armed = on
                       /\ [e EXCEPT !.armed = on].enabled = e.enabled /\ [e EXCEPT !.armed = on].setupFailed = e.setupFailed
<1> DEFINE n == [e EXCEPT !.armed = on]
<1>1. e \in Entry
  BY DEF Sound
<1>2. n \in Entry
  BY <1>1 DEF Entry
<1>3. n.armed = on /\ n.enabled = e.enabled /\ n.setupFailed = e.setupFailed /\ n.state = e.state /\ n.errors = e.errors
  BY <1>1 DEF Entry
<1> HIDE DEF n
<1>4. Sound(n)
  BY <1>2, <1>3 DEF Sound
<1> QED
  BY <1>3, <1>4 DEF n

\* setActive: one entry moves, and not whether it can be moved.
LEMMA SetActiveIs ==
  ASSUME NEW ps, IsHost(ps), NEW p \in Plugin, NEW slot \in Slot, NEW on \in BOOLEAN
  PROVE /\ IsHost(SetActive(ps, p, slot, on))
        /\ \A q \in Plugin : /\ q # p => SetActive(ps, p, slot, on)[q] = ps[q]
                             /\ SetActive(ps, p, slot, on)[q] = None <=> ps[q] = None
                             /\ \A s \in Slot : Movable(SetActive(ps, p, slot, on), q, s) <=> Movable(ps, q, s)
        /\ Movable(ps, p, slot) => IsActive(SetActive(ps, p, slot, on), p, slot) = on
<1> DEFINE n == SetActive(ps, p, slot, on)
<1>1. CASE ~Movable(ps, p, slot)
  BY <1>1 DEF SetActive
<1>2. CASE Movable(ps, p, slot) /\ slot = Switch /\ ps[p].enabled = on
  <2>1. n = ps
    BY <1>2 DEF SetActive
  <2>2. IsActive(ps, p, slot) = on
    <3>1. Switch # Armed
      BY DEF Switch, Armed
    <3> QED
      BY <1>2, <3>1 DEF IsActive, Movable
  <2> QED
    BY <2>1, <2>2
<1>3. ASSUME NEW e, Sound(e), e.setupFailed = ps[p].setupFailed, n = [ps EXCEPT ![p] = e], Movable(ps, p, slot)
      PROVE /\ IsHost(n) /\ n[p] = e
            /\ \A q \in Plugin : /\ q # p => n[q] = ps[q]
                                 /\ n[q] = None <=> ps[q] = None
                                 /\ \A s \in Slot : Movable(n, q, s) <=> Movable(ps, q, s)
  <2>1. e # None /\ ps[p] # None /\ e \in Entry
    BY <1>3, Fresh DEF Movable, Sound
  <2>2. n[p] = e /\ \A q \in Plugin : q # p => n[q] = ps[q]
    BY <1>3 DEF IsHost
  <2>3. IsHost(n)
    BY <1>3, <2>1, <2>2 DEF IsHost
  <2> HIDE DEF n
  <2>4. \A q \in Plugin, s \in Slot : Movable(n, q, s) <=> Movable(ps, q, s)
    BY <1>3, <2>1, <2>2 DEF Movable
  <2> QED
    BY <2>1, <2>2, <2>3, <2>4
<1>4. Movable(ps, p, slot) => Sound(ps[p]) /\ ps[p] # None /\ ~ps[p].setupFailed /\ slot \in SlotsOf[p]
  BY DEF Movable, IsHost
<1>5. CASE Movable(ps, p, slot) /\ slot = Switch /\ ps[p].enabled # on
  <2> DEFINE e == Moved(ps[p], on)
  <2>1. n = [ps EXCEPT ![p] = e]
    BY <1>5 DEF SetActive
  <2>2. on \/ ps[p].enabled
    BY <1>4, <1>5 DEF Sound, Entry
  <2>3. Sound(e) /\ e.enabled = on /\ e.setupFailed = ps[p].setupFailed
    BY <1>4, <1>5, <2>2, MovedIs
  <2> HIDE DEF e, n
  <2>4. /\ IsHost(n) /\ n[p] = e
        /\ \A q \in Plugin : /\ q # p => n[q] = ps[q]
                             /\ n[q] = None <=> ps[q] = None
                             /\ \A s \in Slot : Movable(n, q, s) <=> Movable(ps, q, s)
    BY <1>3, <1>5, <2>1, <2>3
  <2>5. IsActive(n, p, slot) = on
    <3>1. Switch # Armed
      BY DEF Switch, Armed
    <3>2. n[p] # None
      BY <1>4, <1>5, <2>4
    <3>3. n[p].enabled = on
      BY <2>3, <2>4
    <3>4. IsActive(n, p, slot) <=> on
      BY <1>4, <1>5, <3>1, <3>2, <3>3 DEF IsActive
    <3>5. IsActive(n, p, slot) \in BOOLEAN
      BY <2>3, <2>4 DEF IsActive, Sound, Entry
    <3> QED
      BY <3>4, <3>5
  <2> QED
    BY <2>4, <2>5 DEF n
<1>6. CASE Movable(ps, p, slot) /\ slot # Switch
  <2> DEFINE b == IF on /\ ~ps[p].enabled THEN Moved(ps[p], TRUE) ELSE ps[p]
             e == [b EXCEPT !.armed = on]
  <2>1. n = [ps EXCEPT ![p] = e]
    BY <1>6 DEF SetActive
  <2>2. Sound(b) /\ b.setupFailed = ps[p].setupFailed /\ (on => b.enabled = TRUE)
    <3>1. CASE on /\ ~ps[p].enabled
      BY <1>4, <1>6, <3>1, MovedIs
    <3>2. CASE ~(on /\ ~ps[p].enabled)
      BY <1>4, <1>6, <3>2 DEF Sound, Entry
    <3> QED
      BY <3>1, <3>2
  <2> HIDE DEF b
  <2>3. Sound(e) /\ e.armed = on /\ e.enabled = b.enabled /\ e.setupFailed = ps[p].setupFailed
    BY <2>2, ArmedIs
  <2> HIDE DEF e, n
  <2>4. /\ IsHost(n) /\ n[p] = e
        /\ \A q \in Plugin : /\ q # p => n[q] = ps[q]
                             /\ n[q] = None <=> ps[q] = None
                             /\ \A s \in Slot : Movable(n, q, s) <=> Movable(ps, q, s)
    BY <1>3, <1>6, <2>1, <2>3
  <2>5. IsActive(n, p, slot) = on
    <3>1. slot = Armed
      BY <1>6 DEF Slot
    <3>2. n[p] # None
      BY <1>4, <1>6, <2>4
    <3>3. IsActive(n, p, slot) <=> on
      BY <1>4, <1>6, <2>2, <2>3, <2>4, <3>1, <3>2 DEF IsActive
    <3>4. IsActive(n, p, slot) \in BOOLEAN
      BY <2>3, <2>4 DEF IsActive, Sound, Entry
    <3> QED
      BY <3>3, <3>4
  <2> QED
    BY <2>4, <2>5 DEF n
<1> QED
  BY <1>1, <1>2, <1>5, <1>6

HostOK == IsHost(plugins) /\ store \in [Plugin -> {None, TRUE, FALSE}] /\ changed \in BOOLEAN
\* A hold nobody interfered with is the last of its plugin, of something that can be moved.
KeysOK == /\ HotkeysTypeOK /\ NoHoldOutlivesLink
          /\ \A k \in Key : held[k] # None /\ held[k].alone => held[k].last /\ Movable(plugins, k[1], k[2])
          /\ \A j, k \in Key : held[j] # None /\ held[k] # None /\ held[j].last /\ held[k].last /\ j[1] = k[1] => j = k
SessionAt == {"none", "open", "held"}
HoldOK == /\ since \in 0 .. MaxSeconds \cup {None} /\ slept \in BOOLEAN /\ session \in [Session -> SessionAt]
          /\ HoldFollowsSetting /\ BudgetWhileAwake
ShownOK == (linked => shown = published) /\ MirrorsHost
RunInv == HostOK /\ KeysOK /\ HoldOK /\ ShownOK

LEMMA OneEntry ==
  ASSUME HostOK, NEW p \in Plugin, NEW e, Sound(e) \/ e = None, plugins' = [plugins EXCEPT ![p] = e]
  PROVE IsHost(plugins') /\ plugins'[p] = e /\ \A q \in Plugin \ {p} : plugins'[q] = plugins[q]
<1>1. plugins \in [Plugin -> Entry \cup {None}] /\ \A q \in Plugin : plugins[q] # None => Sound(plugins[q])
  BY DEF HostOK, IsHost
<1>2. plugins'[p] = e /\ \A q \in Plugin \ {p} : plugins'[q] = plugins[q]
  BY <1>1
<1>3. e \in Entry \cup {None}
  BY DEF Sound
<1>4. plugins' \in [Plugin -> Entry \cup {None}]
  BY <1>1, <1>3
<1> QED
  BY <1>1, <1>2, <1>4 DEF IsHost

LEMMA DisturbedIs ==
  ASSUME held \in [Key -> Hold \cup {None}], NEW ps
  PROVE /\ Disturbed(held, ps) \in [Key -> Hold \cup {None}]
        /\ \A k \in Key : /\ Disturbed(held, ps)[k] = None <=> held[k] = None
                          /\ k[1] \notin ps => Disturbed(held, ps)[k] = held[k]
                          /\ held[k] # None => /\ Disturbed(held, ps)[k].last = held[k].last
                                               /\ Disturbed(held, ps)[k].wasOn = held[k].wasOn
                                               /\ k[1] \in ps => Disturbed(held, ps)[k].alone = FALSE
<1>1. None \notin Hold
  BY RuntimeAssumption
<1>2. ASSUME NEW k \in Key
      PROVE /\ Disturbed(held, ps)[k] = IF held[k] # None /\ k[1] \in ps THEN [held[k] EXCEPT !.alone = FALSE] ELSE held[k]
            /\ Disturbed(held, ps)[k] \in Hold \cup {None}
            /\ Disturbed(held, ps)[k] = None <=> held[k] = None
            /\ k[1] \notin ps => Disturbed(held, ps)[k] = held[k]
            /\ held[k] # None => /\ Disturbed(held, ps)[k].last = held[k].last
                                 /\ Disturbed(held, ps)[k].wasOn = held[k].wasOn
                                 /\ k[1] \in ps => Disturbed(held, ps)[k].alone = FALSE
  <2>1. Disturbed(held, ps)[k] = IF held[k] # None /\ k[1] \in ps THEN [held[k] EXCEPT !.alone = FALSE] ELSE held[k]
    BY DEF Disturbed
  <2>2. CASE held[k] # None /\ k[1] \in ps
    <3> DEFINE h == held[k]
               n == [h EXCEPT !.alone = FALSE]
    <3>1. h \in Hold
      BY <2>2
    <3> HIDE DEF h
    <3>2. n \in Hold /\ n.last = h.last /\ n.wasOn = h.wasOn /\ n.alone = FALSE
      BY <3>1 DEF Hold
    <3>3. Disturbed(held, ps)[k] = n
      BY <2>1, <2>2 DEF h
    <3> HIDE DEF n
    <3> QED
      BY <1>1, <2>1, <2>2, <3>2, <3>3 DEF h
  <2>3. CASE ~(held[k] # None /\ k[1] \in ps)
    BY <1>1, <2>1, <2>3
  <2> QED
    BY <2>2, <2>3
<1>3. Disturbed(held, ps) \in [Key -> Hold \cup {None}]
  <2>1. Disturbed(held, ps) = [k \in Key |-> Disturbed(held, ps)[k]]
    BY DEF Disturbed
  <2> QED
    BY <1>2, <2>1
<1> QED
  BY <1>2, <1>3

LEMMA KeyIs == ASSUME NEW k \in Key PROVE k[1] \in Plugin /\ k[2] \in Slot /\ k[2] \in SlotsOf[k[1]] /\ k = <<k[1], k[2]>>
<1>1. k \in Plugin \X Slot /\ k[2] \in SlotsOf[k[1]]
  BY DEF Key
<1> QED
  BY <1>1

\* One plugin was moved by somebody who is not a key.
LEMMA KeysDisturbed ==
  ASSUME HostOK, KeysOK, NEW p \in Plugin, held' = Disturbed(held, {p}), linked' = linked,
         \A q \in Plugin \ {p} : plugins'[q] = plugins[q]
  PROVE KeysOK'
<1>1. held \in [Key -> Hold \cup {None}] /\ linked \in BOOLEAN
  BY DEF KeysOK, HotkeysTypeOK
<1>2. /\ held' \in [Key -> Hold \cup {None}]
      /\ \A k \in Key : /\ held'[k] = None <=> held[k] = None
                        /\ k[1] # p => held'[k] = held[k]
                        /\ held[k] # None => /\ held'[k].last = held[k].last
                                             /\ k[1] = p => held'[k].alone = FALSE
  <2>1. \A x : x \in {p} <=> x = p
    OBVIOUS
  <2> QED
    BY <1>1, <2>1, DisturbedIs
<1>3. HotkeysTypeOK' /\ NoHoldOutlivesLink'
  BY <1>1, <1>2 DEF KeysOK, HotkeysTypeOK, NoHoldOutlivesLink
<1>4. ASSUME NEW k \in Key, held'[k] # None, held'[k].alone PROVE held'[k].last /\ Movable(plugins', k[1], k[2])
  <2>1. k[1] # p /\ held'[k] = held[k] /\ held[k] # None
    BY <1>2, <1>4
  <2>2. held[k].last /\ Movable(plugins, k[1], k[2])
    BY <1>4, <2>1 DEF KeysOK
  <2>3. plugins'[k[1]] = plugins[k[1]]
    BY <2>1, KeyIs
  <2> QED
    BY <2>1, <2>2, <2>3 DEF Movable
<1>5. \A j, k \in Key : held'[j] # None /\ held'[k] # None /\ held'[j].last /\ held'[k].last /\ j[1] = k[1] => j = k
  BY <1>2 DEF KeysOK
<1> QED
  BY <1>3, <1>4, <1>5 DEF KeysOK

\* What the keys hold stays as it is.
LEMMA KeysRest ==
  ASSUME KeysOK, held' = held, linked' = TRUE \/ linked' = linked,
         \A k \in Key : Movable(plugins, k[1], k[2]) => Movable(plugins', k[1], k[2])
  PROVE KeysOK'
<1>1. HotkeysTypeOK' /\ NoHoldOutlivesLink'
  BY DEF KeysOK, HotkeysTypeOK, NoHoldOutlivesLink
<1> QED
  BY <1>1 DEF KeysOK

\* The overlay is told nothing, and nothing it was told has changed unseen.
LEMMA ShownRest ==
  ASSUME ShownOK, linked' = linked, shown' = shown, published' = published, ~changed' => ~changed /\ View' = View
  PROVE ShownOK'
  BY DEF ShownOK, MirrorsHost

LEMMA ChangesShown ==
  ASSUME HostOK, ShownOK, NEW ps, Changes(ps), linked' = linked, shown' = shown, published' = published
  PROVE ShownOK' /\ changed' \in BOOLEAN
<1>1. ~changed' => ~changed /\ plugins' = plugins
  BY DEF Changes
<1>2. ~changed' => View' = View
  BY <1>1 DEF View
<1> QED
  BY <1>1, <1>2, ShownRest DEF Changes

LEMMA HoldRest ==
  ASSUME HoldOK, since' = since, slept' = slept, session' = session, ArmedIn(plugins') <=> ArmedIn(plugins)
  PROVE HoldOK'
  BY DEF HoldOK, HoldFollowsSetting, BudgetWhileAwake

LEMMA Sockets ==
  ASSUME session \in [Session -> SessionAt], NEW on \in BOOLEAN, HoldSocket(on)
  PROVE session' \in [Session -> SessionAt] /\ (~on => \A s \in Session : session'[s] # "held")
<1>1. \A s \in Session : session'[s] = IF session[s] = "none" THEN "none" ELSE IF on THEN "held" ELSE "open"
  BY DEF HoldSocket
<1>2. \A s \in Session : session'[s] \in SessionAt
  BY <1>1 DEF SessionAt
<1>3. session' = [s \in Session |-> session'[s]]
  BY DEF HoldSocket
<1>4. session' \in [Session -> SessionAt]
  BY <1>2, <1>3
<1> QED
  BY <1>1, <1>4

LEMMA Following ==
  ASSUME HoldOK, Follow PROVE HoldOK'
<1>1. session \in [Session -> SessionAt] /\ None \notin Nat /\ Budget \in Nat /\ Budget > 0 /\ MaxSeconds \in Nat /\ MaxSeconds > Budget
  BY RuntimeAssumption DEF HoldOK
<1>2. CASE ArmedIn(plugins') /\ since = None
  <2>1. since' = 0 /\ slept' = FALSE /\ HoldSocket(TRUE)
    BY <1>2 DEF Follow, Start
  <2>2. session' \in [Session -> SessionAt]
    BY <1>1, <2>1, Sockets
  <2>3. since' \in 0 .. MaxSeconds /\ since' # None /\ since' < Budget
    BY <1>1, <2>1
  <2> QED
    BY <1>2, <2>1, <2>2, <2>3 DEF HoldOK, HoldFollowsSetting, BudgetWhileAwake
<1>3. CASE ~ArmedIn(plugins') /\ since # None
  <2>1. since' = None /\ slept' = FALSE /\ HoldSocket(FALSE)
    BY <1>3 DEF Follow, Stop
  <2>2. session' \in [Session -> SessionAt] /\ \A s \in Session : session'[s] # "held"
    BY <1>1, <2>1, Sockets
  <2> QED
    BY <1>3, <2>1, <2>2 DEF HoldOK, HoldFollowsSetting, BudgetWhileAwake
<1>4. CASE ~(ArmedIn(plugins') /\ since = None) /\ ~(~ArmedIn(plugins') /\ since # None)
  <2>1. since' = since /\ slept' = slept /\ session' = session
    BY <1>4 DEF Follow, noclipVars
  <2> QED
    BY <1>4, <2>1 DEF HoldOK, HoldFollowsSetting, BudgetWhileAwake
<1> QED
  BY <1>2, <1>3, <1>4

LEMMA OneMoved ==
  ASSUME RunInv, NEW p \in Plugin, NEW e, Sound(e) \/ e = None, plugins' = [plugins EXCEPT ![p] = e],
         store' \in [Plugin -> {None, TRUE, FALSE}], changed' \in BOOLEAN, ~changed' => ~changed /\ View' = View,
         held' = Disturbed(held, {p}), linked' = linked, shown' = shown, published' = published, HoldOK'
  PROVE RunInv'
<1>1. HostOK /\ KeysOK /\ ShownOK
  BY DEF RunInv
<1>2. IsHost(plugins') /\ \A q \in Plugin \ {p} : plugins'[q] = plugins[q]
  BY <1>1, OneEntry
<1>3. HostOK'
  BY <1>2 DEF HostOK
<1>4. KeysOK'
  BY <1>1, <1>2, KeysDisturbed
<1>5. ShownOK'
  BY <1>1, ShownRest
<1> QED
  BY <1>3, <1>4, <1>5 DEF RunInv

LEMMA StoreTakes ==
  ASSUME HostOK, NEW p \in Plugin, NEW on \in BOOLEAN
  PROVE [store EXCEPT ![p] = on] \in [Plugin -> {None, TRUE, FALSE}]
<1>1. store \in [Plugin -> {None, TRUE, FALSE}]
  BY DEF HostOK
<1>2. on \in {None, TRUE, FALSE}
  BY Zenon
<1> QED
  BY <1>1, <1>2

LEMMA BootKeeps == ASSUME RunInv, NEW p \in Plugin, NEW b \in BOOLEAN, Boot(p, b) PROVE RunInv'
<1> DEFINE e == IF b THEN Broken ELSE SetUp(p)
<1>1. /\ plugins[p] = None /\ plugins' = [plugins EXCEPT ![p] = e] /\ changed' = TRUE /\ store' = store
      /\ held' = held /\ linked' = linked /\ since' = since /\ slept' = slept /\ session' = session
      /\ published' = published /\ shown' = shown
  BY DEF Boot, Load, hotkeyVars, noclipVars, overlayVars
<1>2. HostOK /\ KeysOK /\ HoldOK /\ ShownOK
  BY DEF RunInv
<1>3. Sound(e) /\ e.armed = FALSE
  BY <1>2, SetUpIs, BrokenIs DEF HostOK
<1> HIDE DEF e
<1>4. IsHost(plugins') /\ plugins'[p] = e /\ \A q \in Plugin \ {p} : plugins'[q] = plugins[q]
  BY <1>1, <1>2, <1>3, OneEntry
<1>5. HostOK'
  BY <1>1, <1>2, <1>4 DEF HostOK
<1>6. \A k \in Key : Movable(plugins, k[1], k[2]) => Movable(plugins', k[1], k[2])
  BY <1>1, <1>4, KeyIs DEF Movable
<1>7. KeysOK'
  BY <1>1, <1>2, <1>6, KeysRest
<1>8. ArmedIn(plugins') <=> ArmedIn(plugins)
  BY <1>1, <1>3, <1>4, RuntimeAssumption DEF ArmedIn
<1>9. HoldOK'
  BY <1>1, <1>2, <1>8, HoldRest
<1>10. ShownOK'
  BY <1>1, <1>2, ShownRest
<1> QED
  BY <1>5, <1>7, <1>9, <1>10 DEF RunInv

LEMMA PanelKeeps == ASSUME RunInv, NEW p \in Plugin, NEW on \in BOOLEAN, Panel(p, on) PROVE RunInv'
<1> DEFINE e == Moved(plugins[p], on)
           ps == [plugins EXCEPT ![p] = e]
<1>1. /\ plugins[p] # None /\ ~plugins[p].setupFailed /\ plugins[p].enabled # on /\ store' = [store EXCEPT ![p] = on]
      /\ held' = Disturbed(held, {p}) /\ linked' = linked /\ since' = since /\ slept' = slept /\ session' = session
      /\ published' = published /\ shown' = shown
  BY DEF Panel, SetEnabled, noclipVars, overlayVars
<1>2. HostOK /\ KeysOK /\ HoldOK /\ ShownOK
  BY DEF RunInv
<1>3. Changes(ps)
  <2>1. plugins \in [Plugin -> Entry \cup {None}]
    BY <1>2 DEF HostOK, IsHost
  <2>2. Changes([plugins EXCEPT ![p] = Moved(@, on)])
    BY DEF Panel, SetEnabled
  <2> QED
    BY <2>2
<1>4. Sound(plugins[p]) /\ (on \/ plugins[p].enabled)
  BY <1>1, <1>2 DEF HostOK, IsHost, Sound, Entry
<1>5. Sound(e) /\ e.armed = plugins[p].armed
  BY <1>1, <1>4, MovedIs
<1>6. plugins' = ps
  BY <1>3 DEF Changes
<1>7. ShownOK' /\ changed' \in BOOLEAN
  BY <1>1, <1>2, <1>3, ChangesShown
<1> HIDE DEF e
<1>8. IsHost(plugins') /\ plugins'[p] = e /\ \A q \in Plugin \ {p} : plugins'[q] = plugins[q]
  BY <1>2, <1>5, <1>6, OneEntry
<1>9. HostOK'
  BY <1>1, <1>2, <1>7, <1>8, StoreTakes DEF HostOK
<1>10. KeysOK'
  BY <1>1, <1>2, <1>8, KeysDisturbed
<1>11. ArmedIn(plugins') <=> ArmedIn(plugins)
  BY <1>1, <1>5, <1>8, Fresh, RuntimeAssumption DEF ArmedIn, Sound
<1>12. HoldOK'
  BY <1>1, <1>2, <1>11, HoldRest
<1> QED
  BY <1>7, <1>9, <1>10, <1>12 DEF RunInv

\* The control of the live setting, or the setting going off by itself.
LEMMA ArmedMoves ==
  ASSUME RunInv, NEW p \in Plugin, NEW on \in BOOLEAN, plugins[p] # None,
         Changes([plugins EXCEPT ![p].armed = on]), store' = store,
         held' = Disturbed(held, {p}), linked' = linked, shown' = shown, published' = published
  PROVE /\ HostOK' /\ KeysOK' /\ ShownOK' /\ plugins'[p] # None /\ plugins'[p].armed = on
        /\ \A q \in Plugin \ {p} : plugins'[q] = plugins[q]
<1> DEFINE e == [plugins[p] EXCEPT !.armed = on]
           ps == [plugins EXCEPT ![p] = e]
<1>1. HostOK /\ KeysOK /\ ShownOK
  BY DEF RunInv
<1>2. Changes(ps)
  OBVIOUS
<1>3. Sound(plugins[p])
  BY <1>1 DEF HostOK, IsHost
<1>4. Sound(e) /\ e.armed = on
  BY <1>3, ArmedIs
<1>5. plugins' = ps
  BY <1>2 DEF Changes
<1>6. ShownOK' /\ changed' \in BOOLEAN
  BY <1>1, <1>2, ChangesShown
<1> HIDE DEF e
<1>7. IsHost(plugins') /\ plugins'[p] = e /\ \A q \in Plugin \ {p} : plugins'[q] = plugins[q]
  BY <1>1, <1>4, <1>5, OneEntry
<1>8. HostOK'
  BY <1>1, <1>6, <1>7 DEF HostOK
<1>9. KeysOK'
  BY <1>1, <1>7, KeysDisturbed
<1> QED
  BY <1>4, <1>6, <1>7, <1>8, <1>9, Fresh DEF Sound

LEMMA ControlKeeps == ASSUME RunInv, NEW p \in Plugin, NEW on \in BOOLEAN, Control(p, on) PROVE RunInv'
<1>1. /\ plugins[p] # None /\ Changes([plugins EXCEPT ![p].armed = on]) /\ store' = store
      /\ held' = Disturbed(held, {p}) /\ linked' = linked /\ shown' = shown /\ published' = published /\ Follow
  BY DEF Control, SetArmed, overlayVars
<1>2. HostOK' /\ KeysOK' /\ ShownOK'
  BY <1>1, ArmedMoves
<1>3. HoldOK'
  BY <1>1, Following DEF RunInv
<1> QED
  BY <1>2, <1>3 DEF RunInv

LEMMA ReloadKeeps == ASSUME RunInv, NEW p \in Plugin, NEW b \in BOOLEAN, Reload(p, b) PROVE RunInv'
<1> DEFINE l == IF b THEN Broken ELSE SetUp(p)
           again == plugins[p].enabled /\ ~l.setupFailed /\ ~l.enabled
           e == IF again THEN Moved(l, TRUE) ELSE l
<1>1. /\ plugins' = [plugins EXCEPT ![p] = e] /\ store' = (IF again THEN [store EXCEPT ![p] = TRUE] ELSE store)
      /\ changed' = TRUE /\ held' = Disturbed(held, {p}) /\ linked' = linked
      /\ shown' = shown /\ published' = published /\ Follow
  BY DEF Reload, overlayVars
<1>2. HostOK /\ HoldOK
  BY DEF RunInv
<1>3. Sound(l)
  BY <1>2, SetUpIs, BrokenIs DEF HostOK
<1> HIDE DEF l
<1>4. Sound(e)
  BY <1>3, MovedIs
<1>5. store' \in [Plugin -> {None, TRUE, FALSE}]
  BY <1>1, <1>2, StoreTakes DEF HostOK
<1>6. HoldOK'
  BY <1>1, <1>2, Following
<1> HIDE DEF e
<1> QED
  BY <1>1, <1>4, <1>5, <1>6, OneMoved

LEMMA DeleteKeeps == ASSUME RunInv, NEW p \in Plugin, Delete(p) PROVE RunInv'
<1>1. /\ plugins' = [plugins EXCEPT ![p] = None] /\ store' = store
      /\ changed' = TRUE /\ held' = Disturbed(held, {p}) /\ linked' = linked
      /\ shown' = shown /\ published' = published /\ Follow
  BY DEF Delete, Unload, overlayVars
<1>2. HostOK /\ HoldOK
  BY DEF RunInv
<1>3. HoldOK'
  BY <1>1, <1>2, Following
<1>4. store' \in [Plugin -> {None, TRUE, FALSE}]
  BY <1>1, <1>2 DEF HostOK
<1> DEFINE e == None
<1>5. plugins' = [plugins EXCEPT ![p] = e] /\ (Sound(e) \/ e = None)
  BY <1>1
<1> HIDE DEF e
<1> QED
  BY <1>1, <1>3, <1>4, <1>5, OneMoved

LEMMA PacketKeeps == ASSUME RunInv, NEW p \in Handling, PacketThrows(p) PROVE RunInv'
<1> DEFINE e == Threw(plugins[p])
<1>1. HostOK /\ KeysOK /\ HoldOK /\ ShownOK /\ p \in Plugin
  BY HostAssumption DEF RunInv
<1>2. plugins[p] # None /\ plugins[p].state # "failed"
  BY DEF PacketThrows, Dispatch, Hears
<1>3. \A q \in Plugin : plugins'[q] = IF q = p THEN e ELSE plugins[q]
  BY <1>2 DEF PacketThrows, Dispatch
<1>4. plugins' = [plugins EXCEPT ![p] = e]
  <2>1. plugins' = [q \in Plugin |-> plugins'[q]]
    BY DEF PacketThrows, Dispatch
  <2>2. [plugins EXCEPT ![p] = e] = [q \in Plugin |-> IF q = p THEN e ELSE plugins[q]]
    BY <1>1 DEF HostOK, IsHost
  <2> HIDE DEF e
  <2> QED
    BY <1>3, <2>1, <2>2
<1>5. /\ changed' = (changed \/ plugins'[p].state = "failed") /\ store' = store
      /\ held' = (IF plugins'[p].state = "failed" THEN Disturbed(held, {p}) ELSE held) /\ linked' = linked
      /\ shown' = shown /\ published' = published /\ since' = since /\ slept' = slept /\ session' = session
  BY DEF PacketThrows, Dispatch, noclipVars, overlayVars
<1>6. Sound(plugins[p])
  BY <1>1, <1>2 DEF HostOK, IsHost
<1>7. /\ Sound(e) /\ e.armed = plugins[p].armed /\ e.setupFailed = plugins[p].setupFailed
      /\ e.state # "failed" => e.enabled = plugins[p].enabled /\ e.state = plugins[p].state
  BY <1>2, <1>6, ThrewIs
<1>8. p # Noclip
  BY RuntimeAssumption
<1> HIDE DEF e
<1>9. plugins'[p] = e /\ e # None
  BY <1>1, <1>3, <1>7, Fresh DEF Sound
<1>10. ArmedIn(plugins') <=> ArmedIn(plugins)
  BY <1>3, <1>8, RuntimeAssumption DEF ArmedIn
<1>11. HoldOK'
  BY <1>1, <1>5, <1>10, HoldRest
<1>12. CASE e.state = "failed"
  <2>1. held' = Disturbed(held, {p}) /\ changed' = TRUE
    BY <1>1, <1>5, <1>9, <1>12 DEF HostOK
  <2>2. store' \in [Plugin -> {None, TRUE, FALSE}]
    BY <1>1, <1>5 DEF HostOK
  <2> QED
    BY <1>1, <1>4, <1>5, <1>7, <1>11, <2>1, <2>2, OneMoved
<1>13. CASE e.state # "failed"
  <2>1. held' = held /\ changed' = changed
    BY <1>1, <1>5, <1>9, <1>13 DEF HostOK
  <2>2. IsHost(plugins')
    BY <1>1, <1>4, <1>7, OneEntry
  <2>3. HostOK'
    BY <1>1, <1>5, <2>1, <2>2 DEF HostOK
  <2>4. \A q \in Plugin, s \in Slot : Movable(plugins, q, s) => Movable(plugins', q, s)
    BY <1>2, <1>3, <1>7, <1>9 DEF Movable
  <2>5. KeysOK'
    <3>1. \A k \in Key : Movable(plugins, k[1], k[2]) => Movable(plugins', k[1], k[2])
      BY <2>4, KeyIs
    <3> QED
      BY <1>1, <1>5, <2>1, <3>1, KeysRest
  <2>6. View' = View
    <3> SUFFICES ASSUME NEW q \in Plugin
                 PROVE (IF plugins'[q] = None THEN None ELSE <<plugins'[q].enabled, plugins'[q].state, plugins'[q].armed>>)
                     = (IF plugins[q] = None THEN None ELSE <<plugins[q].enabled, plugins[q].state, plugins[q].armed>>)
      BY DEF View
    <3>1. CASE q = p
      BY <1>2, <1>7, <1>9, <1>13, <3>1
    <3>2. CASE q # p
      BY <1>3, <3>2
    <3> QED
      BY <3>1, <3>2
  <2>7. ShownOK'
    BY <1>1, <1>5, <2>1, <2>6, ShownRest
  <2> QED
    BY <1>11, <2>3, <2>5, <2>7 DEF RunInv
<1> QED
  BY <1>12, <1>13

\* Nothing moves but sessions.
LEMMA OnlySessions ==
  ASSUME RunInv, plugins' = plugins, store' = store, changed' = changed, held' = held, linked' = linked,
         shown' = shown, published' = published, HoldOK'
  PROVE RunInv'
<1>1. HostOK /\ KeysOK /\ ShownOK
  BY DEF RunInv
<1>2. HostOK'
  BY <1>1 DEF HostOK
<1>3. KeysOK'
  BY <1>1, KeysRest
<1>4. View' = View
  BY DEF View
<1>5. ShownOK'
  BY <1>1, <1>4, ShownRest
<1> QED
  BY <1>2, <1>3, <1>5 DEF RunInv

LEMMA ConnectKeeps == ASSUME RunInv, NEW s \in Session, Connect(s) PROVE RunInv'
<1>1. /\ plugins' = plugins /\ store' = store /\ changed' = changed /\ held' = held /\ linked' = linked
      /\ shown' = shown /\ published' = published /\ since' = since /\ slept' = slept
      /\ session' = [session EXCEPT ![s] = "open"]
  BY DEF Connect, hostVars, hotkeyVars, overlayVars
<1>2. HoldOK /\ session \in [Session -> SessionAt] /\ "open" \in SessionAt
  BY DEF RunInv, HoldOK, SessionAt
<1>3. session' \in [Session -> SessionAt] /\ \A t \in Session : session'[t] = "held" => session[t] = "held"
  BY <1>1, <1>2
<1>4. HoldOK'
  BY <1>1, <1>2, <1>3 DEF HoldOK, HoldFollowsSetting, BudgetWhileAwake
<1> QED
  BY <1>1, <1>4, OnlySessions

LEMMA DisconnectKeeps == ASSUME RunInv, NEW s \in Session, Disconnect(s) PROVE RunInv'
<1>1. HoldOK /\ session \in [Session -> SessionAt] /\ {"none", "open"} \subseteq SessionAt /\ Noclip \in Plugin
  BY RuntimeAssumption DEF RunInv, HoldOK, SessionAt
<1>2. store' = store /\ linked' = linked /\ shown' = shown /\ published' = published
  BY DEF Disconnect, overlayVars
<1>3. CASE since # None
  <2>1. /\ Changes([plugins EXCEPT ![Noclip].armed = FALSE]) /\ held' = Disturbed(held, {Noclip}) /\ since' = None /\ slept' = FALSE
        /\ session' = [t \in Session |-> IF t = s \/ session[t] = "none" THEN "none" ELSE "open"]
    BY <1>3 DEF Disconnect
  <2>2. plugins[Noclip] # None
    BY <1>1, <1>3 DEF HoldOK, HoldFollowsSetting, ArmedIn
  <2>3. HostOK' /\ KeysOK' /\ ShownOK' /\ plugins'[Noclip].armed = FALSE
    BY <1>1, <1>2, <2>1, <2>2, ArmedMoves
  <2>4. session' \in [Session -> SessionAt] /\ \A t \in Session : session'[t] # "held"
    BY <1>1, <2>1
  <2>5. HoldOK'
    BY <2>1, <2>3, <2>4 DEF HoldOK, HoldFollowsSetting, BudgetWhileAwake, ArmedIn
  <2> QED
    BY <2>3, <2>5 DEF RunInv
<1>4. CASE since = None
  <2>1. /\ session' = [session EXCEPT ![s] = "none"] /\ plugins' = plugins /\ changed' = changed /\ held' = held
        /\ since' = since /\ slept' = slept
    BY <1>4 DEF Disconnect
  <2>2. session' \in [Session -> SessionAt] /\ \A t \in Session : session'[t] = "held" => session[t] = "held"
    BY <1>1, <2>1
  <2>3. HoldOK'
    BY <1>1, <2>1, <2>2 DEF HoldOK, HoldFollowsSetting, BudgetWhileAwake
  <2> QED
    BY <1>2, <2>1, <2>3, OnlySessions
<1> QED
  BY <1>3, <1>4

LEMMA SecondKeeps == ASSUME RunInv, Second PROVE RunInv'
<1>1. /\ HoldOK /\ session \in [Session -> SessionAt] /\ Noclip \in Plugin /\ since # None
      /\ Budget \in Nat /\ Budget > 0 /\ MaxSeconds \in Nat /\ MaxSeconds > Budget /\ None \notin Nat
  BY RuntimeAssumption DEF RunInv, HoldOK, Second, SecondAt
<1>2. store' = store /\ linked' = linked /\ shown' = shown /\ published' = published
  BY DEF Second, SecondAt, overlayVars
<1>3. CASE Runs(plugins[Noclip]) /\ since + 1 >= Budget
  <2>1. /\ Changes([plugins EXCEPT ![Noclip].armed = FALSE]) /\ held' = Disturbed(held, {Noclip}) /\ since' = None /\ slept' = FALSE
        /\ HoldSocket(FALSE)
    BY <1>3 DEF Second, SecondAt, Stop
  <2>2. plugins[Noclip] # None
    BY <1>1 DEF HoldOK, HoldFollowsSetting, ArmedIn
  <2>3. HostOK' /\ KeysOK' /\ ShownOK' /\ plugins'[Noclip].armed = FALSE
    BY <1>1, <1>2, <2>1, <2>2, ArmedMoves
  <2>4. session' \in [Session -> SessionAt] /\ \A t \in Session : session'[t] # "held"
    BY <1>1, <2>1, Sockets
  <2>5. HoldOK'
    BY <2>1, <2>3, <2>4 DEF HoldOK, HoldFollowsSetting, BudgetWhileAwake, ArmedIn
  <2> QED
    BY <2>3, <2>5 DEF RunInv
<1>4. CASE ~(Runs(plugins[Noclip]) /\ since + 1 >= Budget)
  <2>1. /\ since' = (IF since < MaxSeconds THEN since + 1 ELSE since) /\ slept' = (slept \/ ~Runs(plugins[Noclip]))
        /\ session' = session /\ plugins' = plugins /\ changed' = changed /\ held' = held
    BY <1>4 DEF Second, SecondAt
  <2>2. since \in 0 .. MaxSeconds /\ slept \in BOOLEAN
    BY <1>1 DEF HoldOK
  <2>3. since' \in 0 .. MaxSeconds /\ since' # None /\ slept' \in BOOLEAN
    BY <1>1, <2>1, <2>2
  <2>4. ~slept' => since' < Budget
    <3> SUFFICES ASSUME ~slept' PROVE since' < Budget
      OBVIOUS
    <3>1. Runs(plugins[Noclip])
      BY <2>1
    <3> QED
      BY <1>1, <1>4, <2>1, <2>2, <3>1
  <2>5. HoldOK'
    BY <1>1, <2>1, <2>3, <2>4 DEF HoldOK, HoldFollowsSetting, BudgetWhileAwake, ArmedIn
  <2> QED
    BY <1>2, <2>1, <2>5, OnlySessions
<1> QED
  BY <1>3, <1>4

LEMMA PublishKeeps == ASSUME RunInv, Publish PROVE RunInv'
<1>1. HostOK /\ KeysOK /\ HoldOK /\ ShownOK
  BY DEF RunInv
<1>2. /\ changed' = FALSE /\ plugins' = plugins /\ store' = store /\ held' = held /\ linked' = linked
      /\ since' = since /\ slept' = slept /\ session' = session
      /\ IF linked /\ published # View THEN published' = View /\ shown' = View ELSE published' = published /\ shown' = shown
  BY DEF Publish, hotkeyVars, noclipVars, overlayVars
<1>3. HostOK'
  BY <1>1, <1>2 DEF HostOK
<1>4. KeysOK'
  BY <1>1, <1>2, KeysRest
<1>5. HoldOK'
  BY <1>1, <1>2, HoldRest
<1>6. View' = View
  BY <1>2 DEF View
<1>7. ShownOK'
  BY <1>1, <1>2, <1>6 DEF ShownOK, MirrorsHost
<1> QED
  BY <1>3, <1>4, <1>5, <1>7 DEF RunInv

LEMMA ModuleConnectsKeeps == ASSUME RunInv, ModuleConnects PROVE RunInv'
<1>1. HostOK /\ KeysOK /\ HoldOK /\ ShownOK
  BY DEF RunInv
<1>2. /\ changed' = TRUE /\ plugins' = plugins /\ store' = store /\ held' = held /\ linked' = TRUE
      /\ since' = since /\ slept' = slept /\ session' = session /\ published' = None /\ shown' = None
  BY DEF ModuleConnects, noclipVars
<1>3. HostOK'
  BY <1>1, <1>2 DEF HostOK
<1>4. KeysOK'
  BY <1>1, <1>2, KeysRest
<1>5. HoldOK'
  BY <1>1, <1>2, HoldRest
<1>6. ShownOK'
  BY <1>1, <1>2 DEF ShownOK, MirrorsHost
<1> QED
  BY <1>3, <1>4, <1>5, <1>6 DEF RunInv

\* A key moves a switch.
LEMMA KeyMoves ==
  ASSUME RunInv, NEW p \in Plugin, NEW slot \in Slot, NEW on \in BOOLEAN, Changes(SetActive(plugins, p, slot, on)),
         store' = store, linked' = linked, shown' = shown, published' = published, Follow
  PROVE /\ HostOK' /\ HoldOK' /\ ShownOK'
        /\ \A q \in Plugin \ {p} : plugins'[q] = plugins[q]
        /\ \A q \in Plugin, s \in Slot : Movable(plugins', q, s) <=> Movable(plugins, q, s)
        /\ Movable(plugins, p, slot) => IsActive(plugins', p, slot) = on
<1>1. HostOK /\ KeysOK /\ HoldOK /\ ShownOK /\ IsHost(plugins)
  BY DEF RunInv, HostOK
<1>2. plugins' = SetActive(plugins, p, slot, on)
  BY DEF Changes
<1> DEFINE n == SetActive(plugins, p, slot, on)
<1>3. /\ IsHost(n)
      /\ \A q \in Plugin : /\ q # p => n[q] = plugins[q]
                           /\ n[q] = None <=> plugins[q] = None
                           /\ \A s \in Slot : Movable(n, q, s) <=> Movable(plugins, q, s)
      /\ Movable(plugins, p, slot) => IsActive(n, p, slot) = on
  BY <1>1, SetActiveIs
<1>4. ShownOK' /\ changed' \in BOOLEAN
  BY <1>1, ChangesShown
<1> HIDE DEF n
<1>5. plugins' = n
  BY <1>2 DEF n
<1>6. HostOK'
  BY <1>1, <1>3, <1>4, <1>5 DEF HostOK
<1>7. HoldOK'
  BY <1>1, Following
<1> QED
  BY <1>3, <1>4, <1>5, <1>6, <1>7

LEMMA EarlierIs ==
  ASSUME NEW hs \in [Key -> Hold \cup {None}], NEW p \in Plugin
  PROVE /\ Earlier(hs, p) \in [Key -> Hold \cup {None}]
        /\ \A k \in Key : /\ Earlier(hs, p)[k] = None <=> hs[k] = None
                          /\ k[1] # p => Earlier(hs, p)[k] = hs[k]
                          /\ hs[k] # None => /\ Earlier(hs, p)[k].alone = hs[k].alone
                                             /\ k[1] = p => Earlier(hs, p)[k].last = FALSE
<1>1. None \notin Hold
  BY RuntimeAssumption
<1>2. ASSUME NEW k \in Key
      PROVE /\ Earlier(hs, p)[k] \in Hold \cup {None}
            /\ Earlier(hs, p)[k] = None <=> hs[k] = None
            /\ k[1] # p => Earlier(hs, p)[k] = hs[k]
            /\ hs[k] # None => /\ Earlier(hs, p)[k].alone = hs[k].alone
                               /\ k[1] = p => Earlier(hs, p)[k].last = FALSE
  <2>1. Earlier(hs, p)[k] = IF hs[k] # None /\ k[1] = p THEN [hs[k] EXCEPT !.last = FALSE] ELSE hs[k]
    BY DEF Earlier
  <2>2. CASE hs[k] # None /\ k[1] = p
    <3> DEFINE h == hs[k]
               n == [h EXCEPT !.last = FALSE]
    <3>1. h \in Hold
      BY <2>2
    <3> HIDE DEF h
    <3>2. n \in Hold /\ n.alone = h.alone /\ n.last = FALSE
      BY <3>1 DEF Hold
    <3>3. Earlier(hs, p)[k] = n
      BY <2>1, <2>2 DEF h
    <3> HIDE DEF n
    <3> QED
      BY <1>1, <2>1, <2>2, <3>2, <3>3 DEF h
  <2>3. CASE ~(hs[k] # None /\ k[1] = p)
    BY <1>1, <2>1, <2>3
  <2> QED
    BY <2>2, <2>3
<1>3. Earlier(hs, p) \in [Key -> Hold \cup {None}]
  <2>1. Earlier(hs, p) = [k \in Key |-> Earlier(hs, p)[k]]
    BY DEF Earlier
  <2> QED
    BY <1>2, <2>1
<1> QED
  BY <1>2, <1>3

LEMMA Pair == ASSUME NEW k \in Key, NEW p, NEW slot, k = <<p, slot>> PROVE p \in Plugin /\ slot \in Slot /\ k[1] = p /\ k[2] = slot
<1>1. k[1] = p /\ k[2] = slot
  BY Zenon
<1> QED
  BY <1>1, KeyIs

LEMMA ToggleKeeps == ASSUME RunInv, NEW k \in Key, NEW p \in Plugin, NEW slot \in Slot, Toggle(p, slot), Follow, shown' = shown, published' = published PROVE RunInv'
<1> DEFINE on == ~IsActive(plugins, p, slot)
<1>1. /\ Changes(SetActive(plugins, p, slot, on)) /\ held' = Disturbed(held, {p}) /\ store' = store /\ linked' = linked
  BY DEF Toggle
<1>2. on \in BOOLEAN
  OBVIOUS
<1> HIDE DEF on
<1>3. HostOK' /\ HoldOK' /\ ShownOK' /\ \A q \in Plugin \ {p} : plugins'[q] = plugins[q]
  BY <1>1, <1>2, KeyMoves
<1>4. KeysOK'
  BY <1>1, <1>3, KeysDisturbed DEF RunInv
<1> QED
  BY <1>3, <1>4 DEF RunInv

LEMMA ActiveIs == ASSUME NEW ps, IsHost(ps), NEW p \in Plugin, NEW slot PROVE IsActive(ps, p, slot) \in BOOLEAN
<1>1. ps[p] # None => ps[p].enabled \in BOOLEAN /\ ps[p].armed \in BOOLEAN
  BY DEF IsHost, Sound, Entry
<1> QED
  BY <1>1, Zenon DEF IsActive

LEMMA PressKeeps ==
  ASSUME RunInv, NEW p \in Plugin, NEW slot \in Slot, <<p, slot>> \in Key, Press(p, slot), Follow, shown' = shown, published' = published
  PROVE RunInv'
<1> DEFINE k == <<p, slot>>
           h == [wasOn |-> IsActive(plugins, p, slot), last |-> TRUE, alone |-> TRUE]
           hs == Disturbed(held, {p})
           rest == Earlier(hs, p)
<1>1. /\ linked /\ held[k] = None /\ Movable(plugins, p, slot)
      /\ held' = [rest EXCEPT ![k] = h] /\ Changes(SetActive(plugins, p, slot, TRUE))
      /\ store' = store /\ linked' = linked
  BY DEF Press
<1>2. /\ HostOK' /\ HoldOK' /\ ShownOK' /\ \A q \in Plugin \ {p} : plugins'[q] = plugins[q]
      /\ \A q \in Plugin, s \in Slot : Movable(plugins', q, s) <=> Movable(plugins, q, s)
  BY <1>1, KeyMoves
<1>3. KeysOK /\ held \in [Key -> Hold \cup {None}] /\ linked \in BOOLEAN
  BY DEF RunInv, KeysOK, HotkeysTypeOK
<1>4. h \in Hold /\ h.last = TRUE /\ h.alone = TRUE /\ h # None
  <2>1. IsActive(plugins, p, slot) \in BOOLEAN
    BY ActiveIs DEF RunInv, HostOK
  <2>2. h \in Hold
    BY <2>1, Zenon DEF Hold
  <2> QED
    BY <2>2, RuntimeAssumption
<1>5. k \in Key /\ k[1] = p /\ k[2] = slot
  OBVIOUS
<1>6. \A x : x \in {p} <=> x = p
  OBVIOUS
<1>7. /\ hs \in [Key -> Hold \cup {None}]
      /\ \A j \in Key : /\ hs[j] = None <=> held[j] = None
                        /\ j[1] # p => hs[j] = held[j]
                        /\ held[j] # None /\ j[1] = p => hs[j].alone = FALSE
  BY <1>3, <1>6, DisturbedIs
<1> HIDE DEF hs, k, h
<1>8. /\ rest \in [Key -> Hold \cup {None}]
      /\ \A j \in Key : /\ rest[j] = None <=> hs[j] = None
                        /\ j[1] # p => rest[j] = hs[j]
                        /\ hs[j] # None => /\ rest[j].alone = hs[j].alone
                                           /\ j[1] = p => rest[j].last = FALSE
  BY <1>7, EarlierIs
<1> HIDE DEF rest
<1>9. /\ rest \in [Key -> Hold \cup {None}]
      /\ \A j \in Key : /\ j[1] # p => rest[j] = held[j]
                        /\ rest[j] # None /\ j[1] = p => rest[j].alone = FALSE /\ rest[j].last = FALSE
  BY <1>7, <1>8
<1>10. held' \in [Key -> Hold \cup {None}] /\ held'[k] = h /\ \A j \in Key : j # k => held'[j] = rest[j]
  BY <1>1, <1>4, <1>5, <1>9
<1>11. ASSUME NEW j \in Key, held'[j] # None, held'[j].alone PROVE held'[j].last /\ Movable(plugins', j[1], j[2])
  <2>1. CASE j = k
    BY <1>1, <1>2, <1>4, <1>5, <1>10, <2>1
  <2>2. CASE j # k
    <3>1. held'[j] = rest[j] /\ j[1] # p /\ held'[j] = held[j]
      BY <1>9, <1>10, <1>11, <2>2
    <3>2. held[j].last /\ Movable(plugins, j[1], j[2])
      BY <1>3, <1>11, <3>1 DEF KeysOK
    <3> QED
      BY <1>2, <3>1, <3>2, KeyIs
  <2> QED
    BY <2>1, <2>2
<1>12. ASSUME NEW i \in Key, NEW j \in Key, held'[i] # None, held'[j] # None, held'[i].last, held'[j].last, i[1] = j[1] PROVE i = j
  <2>1. CASE i[1] = p
    BY <1>5, <1>9, <1>10, <1>12, <2>1
  <2>2. CASE i[1] # p
    <3>1. held'[i] = held[i] /\ held'[j] = held[j]
      BY <1>5, <1>9, <1>10, <1>12, <2>2
    <3> QED
      BY <1>3, <1>12, <3>1 DEF KeysOK
  <2> QED
    BY <2>1, <2>2
<1>13. KeysOK'
  BY <1>1, <1>3, <1>10, <1>11, <1>12 DEF KeysOK, HotkeysTypeOK, NoHoldOutlivesLink
<1> QED
  BY <1>2, <1>13 DEF RunInv

\* The end of a hold by its key; what was alone is where the hold found it.
LEMMA ReleaseKeeps ==
  ASSUME RunInv, NEW p \in Plugin, NEW slot \in Slot, <<p, slot>> \in Key, ReleaseKey(p, slot)
  PROVE /\ RunInv'
        /\ \A j \in Key : held[j] # None /\ held'[j] = None => j = <<p, slot>>
        /\ held[<<p, slot>>].alone => IsActive(plugins', p, slot) = held[<<p, slot>>].wasOn
<1> DEFINE k == <<p, slot>>
           hs == Disturbed(held, {p})
           on == held[k].wasOn
<1>1. /\ linked /\ held[k] # None /\ held' = [hs EXCEPT ![k] = None] /\ Changes(SetActive(plugins, p, slot, on))
      /\ store' = store /\ linked' = linked /\ shown' = shown /\ published' = published /\ Follow
  BY DEF ReleaseKey, Release, overlayVars
<1>2. KeysOK /\ held \in [Key -> Hold \cup {None}] /\ linked \in BOOLEAN
  BY DEF RunInv, KeysOK, HotkeysTypeOK
<1>3. k \in Key /\ k[1] = p /\ k[2] = slot
  OBVIOUS
<1>4. on \in BOOLEAN
  BY <1>1, <1>2 DEF Hold
<1>5. \A x : x \in {p} <=> x = p
  OBVIOUS
<1>6. /\ hs \in [Key -> Hold \cup {None}]
      /\ \A j \in Key : /\ hs[j] = None <=> held[j] = None
                        /\ j[1] # p => hs[j] = held[j]
                        /\ held[j] # None => /\ hs[j].last = held[j].last
                                             /\ j[1] = p => hs[j].alone = FALSE
  BY <1>2, <1>5, DisturbedIs
<1> HIDE DEF hs, on, k
<1>7. /\ HostOK' /\ HoldOK' /\ ShownOK' /\ \A q \in Plugin \ {p} : plugins'[q] = plugins[q]
      /\ \A q \in Plugin, s \in Slot : Movable(plugins', q, s) <=> Movable(plugins, q, s)
      /\ Movable(plugins, p, slot) => IsActive(plugins', p, slot) = on
  BY <1>1, <1>4, KeyMoves
<1>8. held' \in [Key -> Hold \cup {None}] /\ held'[k] = None /\ \A j \in Key : j # k => held'[j] = hs[j]
  BY <1>1, <1>3, <1>6
<1>9. ASSUME NEW j \in Key, held'[j] # None, held'[j].alone PROVE held'[j].last /\ Movable(plugins', j[1], j[2])
  <2>1. j # k /\ j[1] # p /\ held'[j] = held[j]
    BY <1>6, <1>8, <1>9
  <2>2. held[j].last /\ Movable(plugins, j[1], j[2])
    BY <1>2, <1>9, <2>1 DEF KeysOK
  <2> QED
    BY <1>7, <2>1, <2>2, KeyIs
<1>10. ASSUME NEW i \in Key, NEW j \in Key, held'[i] # None, held'[j] # None, held'[i].last, held'[j].last, i[1] = j[1] PROVE i = j
  <2>1. held[i] # None /\ held[j] # None /\ held[i].last /\ held[j].last
    BY <1>6, <1>8, <1>10
  <2> QED
    BY <1>2, <1>10, <2>1 DEF KeysOK
<1>11. KeysOK'
  BY <1>1, <1>2, <1>8, <1>9, <1>10 DEF KeysOK, HotkeysTypeOK, NoHoldOutlivesLink
<1>12. held[k].alone => IsActive(plugins', p, slot) = on
  BY <1>1, <1>2, <1>3, <1>7 DEF KeysOK
<1>13. \A j \in Key : held[j] # None /\ held'[j] = None => j = k
  BY <1>6, <1>8
<1> QED
  BY <1>7, <1>11, <1>12, <1>13 DEF RunInv, on, k

LEMMA PutBackIs ==
  ASSUME held \in [Key -> Hold \cup {None}], NEW ps, IsHost(ps), NEW keys \in SUBSET {k \in Key : held[k] # None}
  PROVE /\ IsHost(PutBackOf(ps, keys))
        /\ \A q \in Plugin : \A s \in Slot : Movable(PutBackOf(ps, keys), q, s) <=> Movable(ps, q, s)
        /\ \A k \in keys : Movable(ps, k[1], k[2]) /\ (\A j \in keys : j[1] = k[1] => j = k)
                             => IsActive(PutBackOf(ps, keys), k[1], k[2]) = held[k].wasOn
        /\ \A q \in Plugin : (\A k \in keys : k[1] # q) => PutBackOf(ps, keys)[q] = ps[q]
<1> DEFINE n == PutBackOf(ps, keys)
           Mine(q) == {k \in keys : k[1] = q}
           Its(q) == CHOOSE k \in Mine(q) : TRUE
<1>1. \A q \in Plugin : n[q] = IF Mine(q) = {} THEN ps[q] ELSE SetActive(ps, q, Its(q)[2], held[Its(q)].wasOn)[q]
  BY DEF PutBackOf
<1>2. n = [q \in Plugin |-> n[q]]
  BY DEF PutBackOf
<1>3. ASSUME NEW q \in Plugin, Mine(q) # {}
      PROVE /\ Its(q) \in keys /\ Its(q)[1] = q /\ Its(q)[2] \in Slot
            /\ held[Its(q)].wasOn \in BOOLEAN
  <2>1. Its(q) \in Mine(q)
    BY <1>3
  <2> DEFINE k == Its(q)
  <2>2. k \in keys /\ k[1] = q
    BY <2>1
  <2> HIDE DEF k
  <2>3. k \in Key /\ held[k] \in Hold
    BY <2>2
  <2>4. k[2] \in Slot /\ held[k].wasOn \in BOOLEAN
    BY <2>3, KeyIs DEF Hold
  <2> QED
    BY <2>2, <2>4 DEF k
<1> HIDE DEF n
<1>4. ASSUME NEW q \in Plugin
      PROVE /\ n[q] \in Entry \cup {None} /\ (n[q] # None => Sound(n[q]))
            /\ \A s \in Slot : Movable(n, q, s) <=> Movable(ps, q, s)
  <2>1. CASE Mine(q) = {}
    BY <1>1, <2>1 DEF IsHost, Movable
  <2>2. CASE Mine(q) # {}
    <3> DEFINE k == Its(q)
               m == SetActive(ps, q, k[2], held[k].wasOn)
    <3>1. k[2] \in Slot /\ held[k].wasOn \in BOOLEAN
      BY <1>3, <2>2
    <3>2. n[q] = m[q]
      BY <1>1, <2>2
    <3> HIDE DEF k
    <3>3. IsHost(m) /\ \A s \in Slot : Movable(m, q, s) <=> Movable(ps, q, s)
      BY <3>1, SetActiveIs
    <3> HIDE DEF m
    <3>4. m[q] \in Entry \cup {None} /\ (m[q] # None => Sound(m[q]))
      BY <3>3 DEF IsHost
    <3>5. \A s \in Slot : Movable(n, q, s) <=> Movable(m, q, s)
      BY <3>2 DEF Movable
    <3> QED
      BY <3>2, <3>3, <3>4, <3>5
  <2> QED
    BY <2>1, <2>2
<1>5. IsHost(n)
  <2>1. \A q \in Plugin : n[q] \in Entry \cup {None}
    BY <1>4
  <2>2. n \in [Plugin -> Entry \cup {None}]
    BY <1>2, <2>1
  <2> QED
    BY <1>4, <2>2 DEF IsHost
<1>6. ASSUME NEW k \in keys, Movable(ps, k[1], k[2]), \A j \in keys : j[1] = k[1] => j = k
      PROVE IsActive(n, k[1], k[2]) = held[k].wasOn
  <2> DEFINE q == k[1]
  <2>1. q \in Plugin /\ k[2] \in Slot
    BY KeyIs
  <2>2. Mine(q) # {}
    OBVIOUS
  <2>3. Its(q) = k
    BY <1>3, <1>6, <2>1, <2>2
  <2> DEFINE m == SetActive(ps, q, k[2], held[k].wasOn)
  <2>4. held[k].wasOn \in BOOLEAN
    BY <1>3, <2>1, <2>2, <2>3
  <2>5. n[q] = m[q]
    BY <1>1, <2>1, <2>2, <2>3
  <2> HIDE DEF q
  <2>6. IsActive(m, q, k[2]) = held[k].wasOn
    BY <1>6, <2>1, <2>4, SetActiveIs DEF q
  <2> HIDE DEF m
  <2>7. IsActive(n, q, k[2]) <=> IsActive(m, q, k[2])
    BY <2>5 DEF IsActive
  <2>8. IsActive(n, q, k[2]) \in BOOLEAN
    BY <1>5, <2>1, ActiveIs
  <2> QED
    BY <2>4, <2>6, <2>7, <2>8 DEF q
<1>7. \A q \in Plugin : (\A k \in keys : k[1] # q) => n[q] = ps[q]
  BY <1>1
<1> QED
  BY <1>4, <1>5, <1>6, <1>7 DEF n

\* The module goes: every hold ends, and what was alone is where its hold found it.
LEMMA ModuleGoesKeeps ==
  ASSUME RunInv, ModuleGoes
  PROVE RunInv' /\ \A k \in Key : held[k] # None /\ held[k].alone => IsActive(plugins', k[1], k[2]) = held[k].wasOn
<1> DEFINE live == {k \in Key : held[k] # None}
           a == {k \in live : ~held[k].last}
           z == {k \in live : held[k].last}
           mid == PutBackOf(plugins, a)
           end == PutBackOf(mid, z)
<1>1. HostOK /\ KeysOK /\ HoldOK /\ held \in [Key -> Hold \cup {None}] /\ IsHost(plugins)
  BY DEF RunInv, KeysOK, HotkeysTypeOK, HostOK
<1>2. /\ Changes(end) /\ held' = [k \in Key |-> None] /\ store' = store /\ linked' = FALSE /\ Follow
  BY DEF ModuleGoes, ReleaseAll, PutBack
<1>3. plugins' = end /\ changed' \in BOOLEAN
  BY <1>2 DEF Changes
<1>4. IsHost(mid) /\ \A q \in Plugin : \A s \in Slot : Movable(mid, q, s) <=> Movable(plugins, q, s)
  BY <1>1, PutBackIs
<1> HIDE DEF mid
<1>5. /\ IsHost(end)
      /\ \A k \in z : Movable(mid, k[1], k[2]) /\ (\A j \in z : j[1] = k[1] => j = k)
                        => IsActive(end, k[1], k[2]) = held[k].wasOn
  BY <1>1, <1>4, PutBackIs
<1> HIDE DEF end
<1>6. HostOK'
  BY <1>1, <1>2, <1>3, <1>5 DEF HostOK
<1>7. HoldOK'
  BY <1>1, <1>2, Following
<1>8. KeysOK'
  BY <1>2 DEF KeysOK, HotkeysTypeOK, NoHoldOutlivesLink
<1>9. ShownOK'
  BY <1>2 DEF ShownOK, MirrorsHost
<1>10. ASSUME NEW k \in Key, held[k] # None, held[k].alone PROVE IsActive(plugins', k[1], k[2]) = held[k].wasOn
  <2>1. held[k].last /\ Movable(plugins, k[1], k[2])
    BY <1>1, <1>10 DEF KeysOK
  <2>2. k \in z
    BY <1>10, <2>1
  <2>3. \A j \in z : j[1] = k[1] => j = k
    BY <1>1, <1>10, <2>1 DEF KeysOK
  <2>4. Movable(mid, k[1], k[2])
    BY <1>4, <2>1, KeyIs
  <2> QED
    BY <1>3, <1>5, <2>2, <2>3, <2>4
<1> QED
  BY <1>6, <1>7, <1>8, <1>9, <1>10 DEF RunInv

LEMMA RunBegins == ASSUME RuntimeInit PROVE RunInv
<1>1. /\ plugins = [p \in Plugin |-> None] /\ store = [p \in Plugin |-> None] /\ changed = FALSE
      /\ held = [k \in Key |-> None] /\ linked = FALSE /\ since = None /\ slept = FALSE
      /\ session = [s \in Session |-> "none"] /\ published = None /\ shown = None
  BY DEF RuntimeInit, HostInit, HotkeysInit
<1>2. HostOK
  BY <1>1 DEF HostOK, IsHost
<1>3. KeysOK
  BY <1>1 DEF KeysOK, HotkeysTypeOK, NoHoldOutlivesLink
<1>4. session \in [Session -> SessionAt] /\ \A s \in Session : session[s] # "held"
  BY <1>1 DEF SessionAt
<1>5. HoldOK
  BY <1>1, <1>4, RuntimeAssumption DEF HoldOK, HoldFollowsSetting, BudgetWhileAwake, ArmedIn
<1>6. ShownOK
  BY <1>1 DEF ShownOK, MirrorsHost
<1> QED
  BY <1>2, <1>3, <1>5, <1>6 DEF RunInv

LEMMA PressKeyKeeps == ASSUME RunInv, NEW k \in Key, PressKey(k[1], k[2]) PROVE RunInv'
<1> DEFINE p == k[1]
           slot == k[2]
<1>1. p \in Plugin /\ slot \in Slot /\ <<p, slot>> \in Key
  BY KeyIs
<1>2. (Toggle(p, slot) \/ Press(p, slot)) /\ Follow /\ shown' = shown /\ published' = published
  BY DEF PressKey, overlayVars
<1> HIDE DEF p, slot
<1> QED
  BY <1>1, <1>2, ToggleKeeps, PressKeeps

LEMMA RunStep == ASSUME RunInv, [RuntimeNext]_runtimeVars PROVE RunInv'
<1>1. ASSUME NEW p \in Plugin, NEW b \in BOOLEAN, Boot(p, b) \/ Panel(p, b) \/ Control(p, b) \/ Reload(p, b) PROVE RunInv'
  BY <1>1, BootKeeps, PanelKeeps, ControlKeeps, ReloadKeeps
<1>2. ASSUME NEW k \in Key, PressKey(k[1], k[2]) PROVE RunInv'
  BY <1>2, PressKeyKeeps
<1>3. ASSUME NEW k \in Key, ReleaseKey(k[1], k[2]) PROVE RunInv'
  <2> DEFINE p == k[1]
             slot == k[2]
  <2>1. p \in Plugin /\ slot \in Slot /\ <<p, slot>> \in Key
    BY KeyIs
  <2>2. ReleaseKey(p, slot)
    BY <1>3
  <2> HIDE DEF p, slot
  <2> QED
    BY <2>1, <2>2, ReleaseKeeps
<1>4. ASSUME NEW p \in Plugin, Delete(p) PROVE RunInv'
  BY <1>4, DeleteKeeps
<1>5. ASSUME NEW p \in Handling, PacketThrows(p) PROVE RunInv'
  BY <1>5, PacketKeeps
<1>6. ASSUME NEW s \in Session, Connect(s) \/ Disconnect(s) PROVE RunInv'
  BY <1>6, ConnectKeeps, DisconnectKeeps
<1>7. CASE Second \/ Publish \/ ModuleConnects \/ ModuleGoes
  BY <1>7, SecondKeeps, PublishKeeps, ModuleConnectsKeeps, ModuleGoesKeeps
<1>8. CASE UNCHANGED runtimeVars
  <2>1. /\ plugins' = plugins /\ store' = store /\ changed' = changed /\ held' = held /\ linked' = linked
        /\ shown' = shown /\ published' = published /\ since' = since /\ slept' = slept /\ session' = session
    BY <1>8 DEF runtimeVars, hostVars, hotkeyVars, noclipVars, overlayVars
  <2>2. HoldOK'
    BY <2>1, HoldRest DEF RunInv
  <2> QED
    BY <2>1, <2>2, OnlySessions
<1> QED
  BY <1>1, <1>2, <1>3, <1>4, <1>5, <1>6, <1>7, <1>8 DEF RuntimeNext

LEMMA RunMeans ==
  ASSUME RunInv
  PROVE /\ RuntimeTypeOK /\ FreshBudget /\ NeverHalfLive
        /\ NoHoldOutlivesLink /\ HoldFollowsSetting /\ BudgetWhileAwake /\ MirrorsHost
<1>1. HostOK /\ KeysOK /\ HoldOK /\ ShownOK
  BY DEF RunInv
<1>2. HostTypeOK
  BY <1>1 DEF HostOK, IsHost, HostTypeOK, Sound
<1>3. RuntimeTypeOK
  BY <1>1, <1>2 DEF RuntimeTypeOK, KeysOK, HoldOK, SessionAt
<1>4. FreshBudget /\ NeverHalfLive
  BY <1>1 DEF HostOK, IsHost, FreshBudget, NeverHalfLive, Sound
<1> QED
  BY <1>1, <1>3, <1>4 DEF KeysOK, HoldOK, ShownOK

\* A hold ends by its key or with the module; by nothing else.
LEMMA EndsOfHolds ==
  ASSUME RunInv, [RuntimeNext]_runtimeVars, NEW k \in Key, held[k] # None, held[k].alone, held'[k] = None
  PROVE IsActive(plugins', k[1], k[2]) = held[k].wasOn
<1>1. held \in [Key -> Hold \cup {None}]
  BY DEF RunInv, KeysOK, HotkeysTypeOK
<1>2. ASSUME NEW ps, held' = Disturbed(held, ps) PROVE FALSE
  BY <1>1, <1>2, DisturbedIs
<1>3. held' # held
  OBVIOUS
<1>4. ASSUME NEW p \in Plugin, NEW b \in BOOLEAN, Boot(p, b) \/ Panel(p, b) \/ Control(p, b) \/ Reload(p, b) PROVE FALSE
  BY <1>2, <1>3, <1>4 DEF Boot, hotkeyVars, Panel, Control, Reload
<1>5. ASSUME NEW j \in Key, PressKey(j[1], j[2]) PROVE FALSE
  <2> DEFINE p == j[1]
             slot == j[2]
             hs == Disturbed(held, {p})
  <2>1. p \in Plugin /\ slot \in Slot /\ j = <<p, slot>>
    BY KeyIs
  <2>2. Toggle(p, slot) \/ Press(p, slot)
    BY <1>5 DEF PressKey
  <2>3. ~Toggle(p, slot)
    BY <1>2 DEF Toggle
  <2>4. Press(p, slot)
    BY <2>2, <2>3
  <2> HIDE DEF p, slot
  <2>5. hs \in [Key -> Hold \cup {None}] /\ hs[k] # None
    BY <1>1, DisturbedIs
  <2> DEFINE rest == Earlier(hs, p)
             h == [wasOn |-> IsActive(plugins, p, slot), last |-> TRUE, alone |-> TRUE]
  <2>6. held' = [rest EXCEPT ![<<p, slot>>] = h] /\ held[<<p, slot>>] = None
    BY <2>4 DEF Press
  <2> HIDE DEF hs, h
  <2>7. rest \in [Key -> Hold \cup {None}] /\ rest[k] # None
    BY <2>1, <2>5, EarlierIs
  <2> HIDE DEF rest
  <2>8. k # <<p, slot>>
    BY <2>6
  <2>9. held'[k] = rest[k]
    BY <2>6, <2>7, <2>8
  <2> QED
    BY <2>7, <2>9
<1>6. ASSUME NEW j \in Key, ReleaseKey(j[1], j[2]) PROVE IsActive(plugins', k[1], k[2]) = held[k].wasOn
  <2> DEFINE p == j[1]
             slot == j[2]
  <2>1. p \in Plugin /\ slot \in Slot /\ <<p, slot>> \in Key
    BY KeyIs
  <2>2. ReleaseKey(p, slot)
    BY <1>6
  <2> HIDE DEF p, slot
  <2>3. /\ \A i \in Key : held[i] # None /\ held'[i] = None => i = <<p, slot>>
        /\ held[<<p, slot>>].alone => IsActive(plugins', p, slot) = held[<<p, slot>>].wasOn
    BY <2>1, <2>2, ReleaseKeeps
  <2>4. k = <<p, slot>> /\ k[1] = p /\ k[2] = slot
    BY <2>3
  <2> QED
    BY <2>3, <2>4
<1>7. ASSUME NEW p \in Plugin, Delete(p) PROVE FALSE
  BY <1>2, <1>7 DEF Delete
<1>8. ASSUME NEW p \in Handling, PacketThrows(p) PROVE FALSE
  BY <1>2, <1>3, <1>8 DEF PacketThrows
<1>9. ASSUME NEW s \in Session, Connect(s) \/ Disconnect(s) PROVE FALSE
  BY <1>2, <1>3, <1>9 DEF Connect, Disconnect, hotkeyVars
<1>10. CASE Second \/ Publish \/ ModuleConnects
  BY <1>2, <1>3, <1>10 DEF Second, SecondAt, Publish, ModuleConnects, hotkeyVars
<1>11. CASE ModuleGoes
  BY <1>11, ModuleGoesKeeps
<1>12. CASE UNCHANGED runtimeVars
  BY <1>3, <1>12 DEF runtimeVars, hotkeyVars
<1> QED
  BY <1>4, <1>5, <1>6, <1>7, <1>8, <1>9, <1>10, <1>11, <1>12 DEF RuntimeNext

(***************************************************************************)
(* The part this behaviour is about.                                       *)
(***************************************************************************)
LoaderHeld == subject = "loader" => LoaderInv
RunHeld    == subject = "plugins" => RunInv
LifeHeld   == subject = "life" => Standing

THEOREM LoaderInductive == Spec => []LoaderHeld
<1>1. Init => LoaderHeld
  BY LoaderBegins DEF Init, LoaderHeld
<1>2. LoaderHeld /\ [Next]_vars => LoaderHeld'
  <2> SUFFICES ASSUME LoaderHeld, [Next]_vars, subject' = "loader" PROVE LoaderInv'
    BY DEF LoaderHeld
  <2>1. subject = "loader" /\ [LoaderNext]_loaderVars
    BY DEF Next, Others, vars
  <2> QED
    BY <2>1, LoaderStep DEF LoaderHeld
<1> QED
  BY <1>1, <1>2, PTL DEF Spec

THEOREM RunInductive == Spec => []RunHeld
<1>1. Init => RunHeld
  BY RunBegins DEF Init, RunHeld
<1>2. RunHeld /\ [Next]_vars => RunHeld'
  <2> SUFFICES ASSUME RunHeld, [Next]_vars, subject' = "plugins" PROVE RunInv'
    BY DEF RunHeld
  <2>1. subject = "plugins" /\ [RuntimeNext]_runtimeVars
    BY DEF Next, Others, vars
  <2> QED
    BY <2>1, RunStep DEF RunHeld
<1> QED
  BY <1>1, <1>2, PTL DEF Spec

THEOREM LifeInductive == Spec => []LifeHeld
<1>1. Init => LifeHeld
  BY InitStands DEF Init, LifeHeld
<1>2. LifeHeld /\ [Next]_vars => LifeHeld'
  <2> SUFFICES ASSUME LifeHeld, [Next]_vars, subject' = "life" PROVE Standing'
    BY DEF LifeHeld
  <2>1. subject = "life" /\ [LifeNext]_lifeVars
    BY DEF Next, Others, vars
  <2> QED
    BY <2>1, NextStands DEF LifeHeld
<1> QED
  BY <1>1, <1>2, PTL DEF Spec

\* What runs is what the host says runs: over overlapping reloads, failing plugins, keys,
\* panel and links in any order, and through the start and stop of the run
\* (PluginLoader.ts, PluginHost.ts, Application.ts).
THEOREM RunsAsHosted == Spec => []PluginsRunAsHosted
<1>1. LoaderHeld /\ RunHeld /\ LifeHeld => PluginsRunAsHosted
  <2>1. LoaderHeld => (subject = "loader" => OwnsWhatRuns /\ QuietIsCurrent)
    BY LoaderMeans DEF LoaderHeld
  <2>2. RunHeld => (subject = "plugins" => FreshBudget /\ NeverHalfLive)
    BY RunMeans DEF RunHeld
  <2>3. LifeHeld => (subject = "life" => /\ NothingBeforeReady /\ KeyBeforePipe
                                        /\ SessionsHavePlugins /\ StoppedIsStopped)
    BY LifeMeans DEF LifeHeld
  <2> QED
    BY <2>1, <2>2, <2>3 DEF PluginsRunAsHosted
<1> QED
  BY <1>1, LoaderInductive, RunInductive, LifeInductive, PTL

\* A hold that nobody interfered with puts its switch back where it found it, whichever of
\* its key and the link ends it (PluginHotkeys.ts:60-63).
THEOREM HoldsPutBack == Spec => HoldPutsBack
<1>1. RunHeld /\ [Next]_vars =>
        [\A k \in Key:
           held[k] # None /\ held[k].alone /\ held'[k] = None /\ plugins[k[1]] # None
             => \/ plugins'[k[1]] = None
                \/ IsActive(plugins', k[1], k[2]) = held[k].wasOn]_<<hostVars, hotkeyVars>>
  <2> SUFFICES ASSUME RunHeld, [Next]_vars, <<hostVars, hotkeyVars>>' # <<hostVars, hotkeyVars>>,
                      NEW k \in Key, held[k] # None, held[k].alone, held'[k] = None
               PROVE IsActive(plugins', k[1], k[2]) = held[k].wasOn
    OBVIOUS
  <2>1. subject = "plugins" /\ [RuntimeNext]_runtimeVars
    BY DEF Next, Others, vars, runtimeVars
  <2>2. RunInv
    BY <2>1 DEF RunHeld
  <2> QED
    BY <2>1, <2>2, EndsOfHolds
<1> QED
  BY <1>1, RunInductive, PTL DEF Spec, HoldPutsBack

(***************************************************************************)
(* A plugin's settings (Settings).                                         *)
(***************************************************************************)
StNumbersOf == [StKeys -> StLeast .. StMost]
StSet == [label : StLabels, numbers : StNumbersOf, live : BOOLEAN, pick : StPicks]
StKept == [label : StLabels, numbers : StNumbersOf, pick : StPicks]
StShape == [values : StSet, store : SUBSET StKept, applying : BOOLEAN]

SettingsInv ==
  /\ stValues \in StSet /\ stStore \in SUBSET StKept /\ stFile \in StFiles /\ stOffer \in SUBSET StPicks /\ stMoved \in BOOLEAN
  /\ stLate \in StLates /\ SettingsTypeOK /\ LabelIsTrue /\ StoreIsCurrent

LEMMA StFacts ==
  /\ StPlain \in StPicks /\ StJunk \notin StPicks /\ {StLeast, StMost} \subseteq Int /\ StLeast <= StMost /\ Len(StNumbers) \in Nat
  /\ \A n \in 1 .. Len(StNumbers) : StNumbers[n] \in StKeys
  /\ \A k \in StKeys : \E n \in 1 .. Len(StNumbers) : StNumbers[n] = k
  /\ \A p \in DOMAIN StPresets : StPresets[p] \in StNumbersOf /\ p # "custom" /\ p \in StLabels /\ p # StJunk
  /\ StDefaultLabel \in DOMAIN StPresets /\ StJunk \notin StLabels /\ "custom" \in StLabels
<1>1. StNumbers \in Seq(StKeys) /\ Len(StNumbers) \in Nat /\ DOMAIN StNumbers = 1 .. Len(StNumbers)
  BY SettingsAssumption DEF StKeys
<1>2. \A n \in 1 .. Len(StNumbers) : StNumbers[n] \in StKeys
  BY <1>1
<1>3. \A k \in StKeys : \E n \in 1 .. Len(StNumbers) : StNumbers[n] = k
  <2>1. StKeys = ToSet(StNumbers)
    BY DEF StKeys
  <2>3. ToSet(StNumbers) = {StNumbers[i] : i \in DOMAIN StNumbers}
    BY DEF ToSet
  <2>2. DOMAIN StNumbers = 1 .. Len(StNumbers)
    BY <1>1
  <2> QED
    BY <2>1, <2>2, <2>3
<1>4. \A p \in DOMAIN StPresets : StPresets[p] \in StNumbersOf
  BY SettingsAssumption DEF StNumbersOf, StKeys
<1>5. \A p \in DOMAIN StPresets : p # "custom" /\ p \in StLabels /\ p # StJunk
  BY SettingsAssumption DEF StLabels
<1>6. StDefaultLabel \in DOMAIN StPresets
  BY SettingsAssumption DEF StDefaultLabel
<1>7. StJunk \notin StLabels /\ "custom" \in StLabels
  BY SettingsAssumption DEF StLabels
<1>8. StPlain \in StPicks /\ StJunk \notin StPicks /\ {StLeast, StMost} \subseteq Int /\ StLeast <= StMost
  BY SettingsAssumption
<1> QED
  BY <1>1, <1>2, <1>3, <1>4, <1>5, <1>6, <1>7, <1>8

LEMMA PersistedIs ==
  ASSUME NEW v \in StSet
  PROVE /\ Persisted(v) \in StKept /\ Persisted(v).label = v.label /\ Persisted(v).numbers = v.numbers /\ Persisted(v).pick = v.pick
  BY DEF Persisted, StSet, StKept

\* Two sets of values that are kept alike.
LEMMA KeptAlike ==
  ASSUME NEW v \in StSet, NEW w \in StSet, v.label = w.label, v.numbers = w.numbers, v.pick = w.pick
  PROVE Persisted(v) = Persisted(w)
  BY DEF Persisted

\* A store is either as it was or what is in force.
Fresher(s, t) == /\ t \in StShape /\ t.applying = s.applying
                 /\ \/ t = s
                    \/ t.store = {Persisted(t.values)}

LEMMA StoredIs ==
  ASSUME NEW s \in StShape, NEW v \in StSet
  PROVE /\ Fresher(s, Stored(s, v)) /\ Stored(s, v).values = v
        /\ v # s.values => Stored(s, v).store = {Persisted(v)}
<1>1. s.values \in StSet /\ s.store \in SUBSET StKept /\ s.applying \in BOOLEAN
  BY DEF StShape
<1>2. CASE v = s.values
  BY <1>2 DEF Stored, Fresher
<1>3. CASE v # s.values
  <2> DEFINE t == [s EXCEPT !.values = v, !.store = {Persisted(v)}]
  <2>1. Stored(s, v) = t
    BY <1>3 DEF Stored
  <2>2. {Persisted(v)} \in SUBSET StKept
    BY PersistedIs
  <2>3. t.values = v /\ t.store = {Persisted(v)} /\ t.applying = s.applying /\ t \in StShape
    BY <1>1, <2>2 DEF StShape
  <2> HIDE DEF t
  <2> QED
    BY <2>1, <2>3 DEF Fresher
<1> QED
  BY <1>2, <1>3

LEMMA FresherTwice ==
  ASSUME NEW s, NEW t, NEW u, Fresher(s, t), Fresher(t, u) PROVE Fresher(s, u)
  BY DEF Fresher

LEMMA SetField ==
  ASSUME NEW v \in StSet
  PROVE /\ \A l \in StLabels : LET w == [v EXCEPT !.label = l]
                               IN w \in StSet /\ w.label = l /\ w.numbers = v.numbers /\ w.live = v.live /\ w.pick = v.pick
        /\ \A p \in StPicks : LET w == [v EXCEPT !.pick = p]
                              IN w \in StSet /\ w.label = v.label /\ w.numbers = v.numbers /\ w.live = v.live /\ w.pick = p
        /\ \A n \in StNumbersOf : LET w == [v EXCEPT !.numbers = n]
                                  IN w \in StSet /\ w.label = v.label /\ w.numbers = n /\ w.live = v.live /\ w.pick = v.pick
  BY DEF StSet

\* Whatever moved a number, the label tells the truth afterwards.
LEMMA TuningChangedIs ==
  ASSUME NEW s \in StShape
  PROVE /\ Fresher(s, TuningChanged(s))
        /\ s.applying => TuningChanged(s) = s
        /\ ~s.applying => Matches(TuningChanged(s).values)
        /\ Matches(s.values) => TuningChanged(s) = s
        /\ TuningChanged(s).values.numbers = s.values.numbers /\ TuningChanged(s).values.live = s.values.live
        /\ TuningChanged(s).values.pick = s.values.pick
        /\ TuningChanged(s).values # s.values => TuningChanged(s).store = {Persisted(TuningChanged(s).values)}
<1>1. s.values \in StSet /\ s.applying \in BOOLEAN
  BY DEF StShape
<1>2. CASE s.applying \/ Matches(s.values)
  BY <1>2 DEF TuningChanged, Fresher
<1>3. CASE ~(s.applying \/ Matches(s.values))
  <2> DEFINE w == [s.values EXCEPT !.label = "custom"]
             t == Stored(s, w)
  <2>1. TuningChanged(s) = t
    BY <1>3 DEF TuningChanged
  <2>2. w \in StSet /\ w.label = "custom" /\ w.numbers = s.values.numbers /\ w.live = s.values.live /\ w.pick = s.values.pick
    BY <1>1, StFacts, SetField
  <2> HIDE DEF w
  <2>3. Fresher(s, t) /\ t.values = w /\ (w # s.values => t.store = {Persisted(w)})
    BY <2>2, StoredIs
  <2> HIDE DEF t
  <2>4. Matches(w)
    BY <2>2, StFacts DEF Matches
  <2> QED
    BY <1>3, <2>1, <2>2, <2>3, <2>4
<1> QED
  BY <1>2, <1>3

Raws == [is : {"number", "junk"}, v : Int]
LEMMA Coerced ==
  ASSUME NEW raw \in Raws, NEW else \in StLeast .. StMost PROVE CoerceNumber(raw, else) \in StLeast .. StMost
<1>1. raw.v \in Int
  BY DEF Raws
<1> QED
  BY <1>1, StFacts DEF CoerceNumber, StOr, StClamp

\* What a number was brought to, and what else it moved.
LEMMA SetNumberIs ==
  ASSUME NEW s \in StShape, NEW k \in StKeys, NEW raw \in Raws
  PROVE LET v == CoerceNumber(raw, s.values.numbers[k])
            t == SetNumber(s, k, raw)
        IN /\ Fresher(s, t) /\ t.values.pick = s.values.pick /\ t.values.live = s.values.live
           /\ t.values.numbers = [s.values.numbers EXCEPT ![k] = v]
           /\ s.applying => t.values.label = s.values.label
           /\ ~s.applying /\ Matches(s.values) => Matches(t.values)
<1> DEFINE old == s.values.numbers
           v == CoerceNumber(raw, old[k])
           n == [old EXCEPT ![k] = v]
           t == SetNumber(s, k, raw)
<1>1. s.values \in StSet /\ old \in StNumbersOf /\ s.applying \in BOOLEAN
  BY DEF StShape, StSet
<1>2. old[k] \in StLeast .. StMost
  BY <1>1 DEF StNumbersOf
<1>3. v \in StLeast .. StMost
  BY <1>2, Coerced
<1>4. t = IF v = old[k] THEN s ELSE TuningChanged(Stored(s, [s.values EXCEPT !.numbers[k] = v]))
  BY DEF SetNumber
<1> HIDE DEF v, t
<1>5. n \in StNumbersOf /\ (v = old[k] => n = old)
  BY <1>1, <1>3 DEF StNumbersOf
<1>6. CASE v = old[k]
  BY <1>1, <1>4, <1>5, <1>6 DEF Fresher, v, t
<1>7. CASE v # old[k]
  <2> DEFINE w == [s.values EXCEPT !.numbers = n]
             u == Stored(s, w)
  <2>1. [s.values EXCEPT !.numbers[k] = v] = w
    BY <1>1
  <2>2. w \in StSet /\ w.label = s.values.label /\ w.numbers = n /\ w.live = s.values.live /\ w.pick = s.values.pick
    BY <1>1, <1>5, SetField
  <2> HIDE DEF n
  <2>3. t = TuningChanged(u)
    BY <1>4, <1>7, <2>1
  <2> HIDE DEF w
  <2>4. Fresher(s, u) /\ u.values = w
    BY <2>2, StoredIs
  <2> HIDE DEF u
  <2>5. u \in StShape /\ u.applying = s.applying
    BY <2>4 DEF Fresher
  <2>6. /\ Fresher(u, t) /\ (u.applying => t = u) /\ (~u.applying => Matches(t.values))
        /\ t.values.numbers = u.values.numbers /\ t.values.live = u.values.live /\ t.values.pick = u.values.pick
    BY <2>3, <2>5, TuningChangedIs
  <2>7. Fresher(s, t)
    BY <2>4, <2>6, FresherTwice
  <2> QED
    BY <2>2, <2>4, <2>5, <2>6, <2>7 DEF n, v, t
<1> QED
  BY <1>6, <1>7

\* One number after the other: each step of the loop is a set of its own.
LEMMA WrittenFrom ==
  ASSUME NEW s \in StShape, s.values.label \in DOMAIN StPresets
  PROVE /\ Written(s) \in [0 .. Len(StNumbers) -> StShape] /\ Written(s)[0] = s
        /\ \A n \in 1 .. Len(StNumbers) :
             Written(s)[n] = SetNumber(Written(s)[n - 1], StNumbers[n],
                                       [is |-> "number", v |-> StPresets[s.values.label][StNumbers[n]]])
<1> DEFINE N == Len(StNumbers)
           Raw(n) == [is |-> "number", v |-> StPresets[s.values.label][StNumbers[n]]]
           Step(n, t) == SetNumber(t, StNumbers[n], Raw(n))
           G == [a \in (1 .. N) \X StShape |-> Step(a[1], a[2])]
           Body(f) == [n \in 0 .. N |-> IF n = 0 THEN s ELSE Step(n, f[n - 1])]
<1>1. N \in Nat
  BY StFacts
<1>2. ASSUME NEW n \in 1 .. N PROVE Raw(n) \in Raws /\ StNumbers[n] \in StKeys
  <2>1. StNumbers[n] \in StKeys /\ StPresets[s.values.label] \in StNumbersOf
    BY StFacts
  <2>2. StPresets[s.values.label][StNumbers[n]] \in Int
    BY <2>1, StFacts DEF StNumbersOf
  <2> QED
    BY <2>1, <2>2 DEF Raws
<1>3. ASSUME NEW n \in 1 .. N, NEW t \in StShape PROVE Step(n, t) \in StShape
  BY <1>2, SetNumberIs DEF Fresher
<1>4. Written(s) = CHOOSE f : f = Body(f)
  BY DEF Written
<1> HIDE DEF Step, N
<1>5. G \in [(1 .. N) \X StShape -> StShape]
  <2>1. \A a \in (1 .. N) \X StShape : Step(a[1], a[2]) \in StShape
    BY <1>3
  <2> QED
    BY <2>1
<1>6. \A n \in 1 .. N, t \in StShape : G[<<n, t>>] = Step(n, t)
  OBVIOUS
<1> HIDE DEF G
<1>20. PICK f : IsRun(f, StShape, s, N, G)
  BY <1>1, <1>5, Recursion
<1>7. f \in [0 .. N -> StShape] /\ f[0] = s /\ \A n \in 1 .. N : f[n] = G[<<n, f[n - 1]>>]
  BY <1>20 DEF IsRun
<1>8. \A n \in 1 .. N : f[n] = Step(n, f[n - 1])
  <2> SUFFICES ASSUME NEW n \in 1 .. N PROVE f[n] = Step(n, f[n - 1])
    OBVIOUS
  <2>1. n - 1 \in 0 .. N
    BY <1>1
  <2>2. f[n - 1] \in StShape
    BY <1>7, <2>1
  <2> QED
    BY <1>6, <1>7, <2>2
<1>9. f = Body(f)
  <2>1. \A n \in 0 .. N : f[n] = IF n = 0 THEN s ELSE Step(n, f[n - 1])
    BY <1>1, <1>7, <1>8
  <2>2. f = [n \in 0 .. N |-> f[n]]
    BY <1>7
  <2> QED
    BY <2>1, <2>2
<1>10. Written(s) = Body(Written(s))
  BY <1>4, <1>9
<1> DEFINE g == Written(s)
<1>11. g = Body(g)
  BY <1>10
<1> HIDE DEF g
<1>12. g[0] = s /\ \A n \in 1 .. N : g[n] = Step(n, g[n - 1])
  BY <1>1, <1>11
<1>13. g \in [0 .. N -> StShape]
  <2> DEFINE T == {n \in Nat : n <= N => g[n] \in StShape}
  <2>1. 0 \in T
    BY <1>12
  <2>2. ASSUME NEW n \in T PROVE n + 1 \in T
    <3> SUFFICES ASSUME n + 1 <= N PROVE g[n + 1] \in StShape
      OBVIOUS
    <3>1. n \in Nat /\ g[n] \in StShape /\ n + 1 \in 1 .. N /\ (n + 1) - 1 = n
      BY <1>1
    <3>2. g[n + 1] = Step(n + 1, g[(n + 1) - 1])
      BY <1>12, <3>1
    <3> QED
      BY <1>3, <3>1, <3>2
  <2> HIDE DEF T
  <2>3. T \in SUBSET Nat
    BY DEF T
  <2>4. T = Nat
    BY <2>1, <2>2, <2>3, Upwards
  <2>5. \A n \in 0 .. N : g[n] \in StShape
    BY <1>1, <2>4 DEF T
  <2>6. g = [n \in 0 .. N |-> g[n]]
    BY <1>11
  <2> QED
    BY <2>5, <2>6
<1> QED
  BY <1>12, <1>13 DEF g, Step, N

\* Its own writes do not make a preset Custom half way: at the end it is the preset.
LEMMA WrittenIs ==
  ASSUME NEW s \in StShape, s.applying, NEW p \in DOMAIN StPresets, s.values.label = p
  PROVE LET t == Written(s)[Len(StNumbers)]
        IN /\ t \in StShape /\ Fresher(s, t) /\ t.applying /\ t.values.label = p /\ t.values.numbers = StPresets[p]
           /\ t.values.pick = s.values.pick /\ t.values.live = s.values.live
<1> DEFINE N == Len(StNumbers)
           f == Written(s)
           own(n) == StNumbers[n]
           raw(n) == [is |-> "number", v |-> StPresets[p][own(n)]]
<1>1. /\ f \in [0 .. N -> StShape] /\ f[0] = s
      /\ \A n \in 1 .. N : f[n] = SetNumber(f[n - 1], own(n), raw(n))
  BY WrittenFrom
<1>2. /\ N \in Nat /\ (\A n \in 1 .. N : own(n) \in StKeys) /\ (\A k \in StKeys : \E n \in 1 .. N : own(n) = k)
      /\ StPresets[p] \in StNumbersOf
  BY StFacts
<1>3. ASSUME NEW n \in 1 .. N
      PROVE raw(n) \in Raws /\ \A else : CoerceNumber(raw(n), else) = StPresets[p][own(n)]
  <2>1. StPresets[p][own(n)] \in StLeast .. StMost
    BY <1>2 DEF StNumbersOf
  <2>2. StPresets[p][own(n)] \in Int /\ StPresets[p][own(n)] >= StLeast /\ StPresets[p][own(n)] <= StMost
    BY <2>1, StFacts
  <2>3. raw(n).is = "number" /\ raw(n).v = StPresets[p][own(n)] /\ raw(n) \in Raws
    BY <2>2 DEF Raws
  <2>4. StClamp(StPresets[p][own(n)]) = StPresets[p][own(n)]
    BY <2>2, StFacts DEF StClamp
  <2> QED
    BY <2>3, <2>4 DEF CoerceNumber, StOr
<1> HIDE DEF f, N, own, raw
<1> DEFINE Good(n) == /\ Fresher(s, f[n]) /\ f[n].applying /\ f[n].values.label = p
                      /\ f[n].values.pick = s.values.pick /\ f[n].values.live = s.values.live
                      /\ \A i \in 1 .. n : f[n].values.numbers[own(i)] = StPresets[p][own(i)]
           T == {n \in Nat : n <= N => Good(n)}
<1>4. 0 \in T
  <2>1. Fresher(s, f[0])
    BY <1>1 DEF Fresher
  <2>2. \A i \in 1 .. 0 : FALSE
    OBVIOUS
  <2>3. Good(0)
    BY <1>1, <2>1, <2>2
  <2> HIDE DEF Good
  <2> QED
    BY <2>3
<1>5. ASSUME NEW n \in T PROVE n + 1 \in T
  <2> SUFFICES ASSUME n + 1 <= N PROVE Good(n + 1)
    OBVIOUS
  <2> DEFINE m == n + 1
  <2>1. n \in Nat /\ m \in 1 .. N /\ m - 1 = n /\ n \in 0 .. N /\ Good(n)
    BY <1>2
  <2>2. f[n] \in StShape /\ f[m] = SetNumber(f[n], own(m), raw(m))
    BY <1>1, <2>1
  <2>3. own(m) \in StKeys /\ raw(m) \in Raws /\ CoerceNumber(raw(m), f[n].values.numbers[own(m)]) = StPresets[p][own(m)]
    BY <1>2, <1>3, <2>1
  <2>4. /\ Fresher(f[n], f[m]) /\ f[m].values.pick = f[n].values.pick /\ f[m].values.live = f[n].values.live
        /\ f[m].values.numbers = [f[n].values.numbers EXCEPT ![own(m)] = StPresets[p][own(m)]]
        /\ f[n].applying => f[m].values.label = f[n].values.label
    BY <2>2, <2>3, SetNumberIs
  <2>5. Fresher(s, f[m]) /\ f[m].applying
    BY <2>1, <2>4, FresherTwice DEF Fresher
  <2>6. f[n].values.numbers \in StNumbersOf
    BY <2>2 DEF StShape, StSet
  <2>7. \A i \in 1 .. m : f[m].values.numbers[own(i)] = StPresets[p][own(i)]
    <3> SUFFICES ASSUME NEW i \in 1 .. m PROVE f[m].values.numbers[own(i)] = StPresets[p][own(i)]
      OBVIOUS
    <3>1. i \in 1 .. N /\ (i = m \/ i \in 1 .. n)
      BY <1>2, <2>1
    <3>2. own(i) \in StKeys
      BY <1>2, <3>1
    <3>3. CASE own(i) = own(m)
      BY <2>3, <2>4, <2>6, <3>3 DEF StNumbersOf
    <3>4. CASE own(i) # own(m)
      <4>1. i \in 1 .. n
        BY <3>1, <3>4
      <4>2. f[m].values.numbers[own(i)] = f[n].values.numbers[own(i)]
        BY <2>3, <2>4, <2>6, <3>2, <3>4 DEF StNumbersOf
      <4> QED
        BY <2>1, <4>1, <4>2
    <3> QED
      BY <3>3, <3>4
  <2> QED
    BY <2>1, <2>4, <2>5, <2>7
<1> HIDE DEF T
<1>6. T \in SUBSET Nat
  BY DEF T
<1>7. N \in T
  BY <1>2, <1>4, <1>5, <1>6, Upwards
<1>8. Good(N)
  BY <1>2, <1>7 DEF T
<1>9. f[N] \in StShape
  BY <1>1, <1>2
<1>10. f[N].values.numbers = StPresets[p]
  <2>1. f[N].values.numbers \in StNumbersOf
    BY <1>9 DEF StShape, StSet
  <2>2. \A k \in StKeys : f[N].values.numbers[k] = StPresets[p][k]
    BY <1>2, <1>8
  <2> HIDE DEF Good
  <2> QED
    BY <1>2, <2>1, <2>2 DEF StNumbersOf
<1> QED
  BY <1>8, <1>9, <1>10 DEF f, N

LEMMA ApplyPresetIs ==
  ASSUME NEW s \in StShape, ~s.applying
  PROVE /\ Fresher(s, ApplyPreset(s)) /\ Matches(ApplyPreset(s).values)
        /\ ApplyPreset(s).values.label = s.values.label
        /\ ApplyPreset(s).values.pick = s.values.pick /\ ApplyPreset(s).values.live = s.values.live
<1>1. s.values \in StSet /\ s.values.label \in StLabels /\ s.applying = FALSE
  BY DEF StShape, StSet
<1>2. CASE s.values.label = "custom"
  BY <1>2, StFacts DEF ApplyPreset, Fresher, Matches
<1>3. CASE s.values.label # "custom"
  <2> DEFINE p == s.values.label
             u == [s EXCEPT !.applying = TRUE]
             w == Written(u)[Len(StNumbers)]
             t == [w EXCEPT !.applying = FALSE]
  <2>1. ApplyPreset(s) = t
    BY <1>3 DEF ApplyPreset
  <2>2. p \in DOMAIN StPresets
    BY <1>1, <1>3 DEF StLabels
  <2>3. u \in StShape /\ u.applying = TRUE /\ u.values = s.values /\ u.store = s.store
    BY DEF StShape
  <2> HIDE DEF u
  <2>4. /\ w \in StShape /\ Fresher(u, w) /\ w.applying /\ w.values.label = p /\ w.values.numbers = StPresets[p]
        /\ w.values.pick = u.values.pick /\ w.values.live = u.values.live
    BY <2>2, <2>3, WrittenIs
  <2> HIDE DEF w
  <2>5. t \in StShape /\ t.values = w.values /\ t.store = w.store /\ t.applying = FALSE
    BY <2>4 DEF StShape
  <2>6. w = u => t = s
    <3>1. [[s EXCEPT !.applying = TRUE] EXCEPT !.applying = FALSE] = s
      BY <1>1 DEF StShape
    <3> QED
      BY <3>1 DEF u
  <2> HIDE DEF t
  <2>7. Fresher(s, t)
    BY <1>1, <2>4, <2>5, <2>6 DEF Fresher
  <2>8. Matches(t.values)
    BY <2>4, <2>5 DEF Matches
  <2> QED
    BY <2>1, <2>3, <2>4, <2>5, <2>7, <2>8
<1> QED
  BY <1>2, <1>3

LEMMA SetLabelIs ==
  ASSUME NEW s \in StShape, ~s.applying, Matches(s.values), NEW raw \in StLabels \cup {StJunk}
  PROVE /\ Fresher(s, SetLabel(s, raw)) /\ Matches(SetLabel(s, raw).values)
        /\ SetLabel(s, raw).values.pick = s.values.pick /\ SetLabel(s, raw).values.live = s.values.live
        /\ raw \in StLabels => SetLabel(s, raw).values.label = raw
<1> DEFINE l == CoerceLabel(raw, s.values.label)
           w == [s.values EXCEPT !.label = l]
           u == Stored(s, w)
           t == ApplyPreset(u)
<1>1. s.values \in StSet /\ s.values.label \in StLabels
  BY DEF StShape, StSet
<1>2. l \in StLabels /\ (raw \in StLabels => l = raw)
  BY <1>1 DEF CoerceLabel, StOr
<1>3. SetLabel(s, raw) = IF l = s.values.label THEN s ELSE t
  BY DEF SetLabel
<1> HIDE DEF l
<1>4. CASE l = s.values.label
  BY <1>2, <1>3, <1>4 DEF Fresher
<1>5. CASE l # s.values.label
  <2>1. w \in StSet /\ w.label = l /\ w.numbers = s.values.numbers /\ w.live = s.values.live /\ w.pick = s.values.pick
    BY <1>1, <1>2, SetField
  <2> HIDE DEF w
  <2>2. Fresher(s, u) /\ u.values = w
    BY <2>1, StoredIs
  <2> HIDE DEF u
  <2>3. u \in StShape /\ ~u.applying
    BY <2>2 DEF Fresher
  <2>4. /\ Fresher(u, t) /\ Matches(t.values) /\ t.values.label = u.values.label
        /\ t.values.pick = u.values.pick /\ t.values.live = u.values.live
    BY <2>3, ApplyPresetIs
  <2> HIDE DEF t
  <2>5. Fresher(s, t)
    BY <2>2, <2>4, FresherTwice
  <2> QED
    BY <1>2, <1>3, <1>5, <2>1, <2>2, <2>4, <2>5
<1> QED
  BY <1>4, <1>5

LEMMA RawIsRaw == \A raw \in StRaw : raw \in Raws
<1>1. \A x \in (StLeast - 1) .. (StMost + 1) : x \in Int
  BY StFacts
<1> QED
  BY <1>1, StFacts DEF StRaw, Raws

\* A run begins with what the file says, as far as it can be believed.
LEMMA StartedIs ==
  ASSUME NEW f \in StFiles
  PROVE LET s == Started(Declared(f))
        IN /\ s.values \in StSet /\ s.store \in SUBSET StKept /\ Matches(s.values) /\ ~s.values.live
           /\ s.values.pick = DeclaredPick(f.pick)
           /\ s.values.numbers = [k \in StKeys |-> CoerceNumber(f.numbers[k], StDefaults.numbers[k])]
           /\ Matches([label |-> CoerceLabel(f.label, StDefaultLabel),
                       numbers |-> [k \in StKeys |-> CoerceNumber(f.numbers[k], StDefaults.numbers[k])]])
                => s.values.label = CoerceLabel(f.label, StDefaultLabel) /\ s.store = {}
<1> DEFINE d == Declared(f)
           n == [k \in StKeys |-> CoerceNumber(f.numbers[k], StDefaults.numbers[k])]
           l == CoerceLabel(f.label, StDefaultLabel)
           s0 == [values |-> d, store |-> {}, applying |-> FALSE]
           s == TuningChanged(s0)
<1>1. f.label \in StLabels \cup {StJunk} /\ f.numbers \in [StKeys -> StRaw] /\ f.pick \in StPicks
  BY DEF StFiles
<1>2. l \in StLabels
  BY StFacts DEF CoerceLabel, StOr
<1>3. StDefaults.numbers \in StNumbersOf
  BY StFacts DEF StDefaults
<1>4. n \in StNumbersOf
  <2>1. ASSUME NEW k \in StKeys PROVE CoerceNumber(f.numbers[k], StDefaults.numbers[k]) \in StLeast .. StMost
    <3>1. f.numbers[k] \in Raws /\ StDefaults.numbers[k] \in StLeast .. StMost
      BY <1>1, <1>3, RawIsRaw DEF StNumbersOf
    <3> QED
      BY <3>1, Coerced
  <2> QED
    BY <2>1 DEF StNumbersOf
<1>5. DeclaredPick(f.pick) \in StPicks
  BY <1>1, StFacts DEF DeclaredPick, CoercePick, StOr
<1>6. d = [label |-> l, numbers |-> n, live |-> FALSE, pick |-> DeclaredPick(f.pick)]
  BY DEF Declared, StDefaults
<1>7. Started(d) = s
  BY DEF Started
<1> HIDE DEF d, n, l
<1>8. d \in StSet /\ d.label = l /\ d.numbers = n /\ d.live = FALSE /\ d.pick = DeclaredPick(f.pick)
  BY <1>2, <1>4, <1>5, <1>6 DEF StSet
<1>9. s0 \in StShape /\ s0.values = d /\ s0.applying = FALSE /\ s0.store = {}
  BY <1>8 DEF StShape
<1> HIDE DEF s0
<1>10. /\ Fresher(s0, s) /\ Matches(s.values) /\ (Matches(s0.values) => s = s0)
       /\ s.values.numbers = s0.values.numbers /\ s.values.live = s0.values.live /\ s.values.pick = s0.values.pick
  BY <1>9, TuningChangedIs
<1> HIDE DEF s
<1>11. s.values \in StSet /\ s.store \in SUBSET StKept
  BY <1>10 DEF Fresher, StShape
<1>12. Matches([label |-> l, numbers |-> n]) <=> Matches(d)
  BY <1>8 DEF Matches
<1> QED
  BY <1>7, <1>8, <1>9, <1>10, <1>11, <1>12 DEF d, n, l

LEMMA RunStarts ==
  ASSUME NEW f \in StFiles
  PROVE LET s == Started(Declared(f))
        IN s.values.pick \in {StPlain} \/ (~StPictured /\ s.values.pick = f.pick)
<1>1. Started(Declared(f)).values.pick = DeclaredPick(f.pick)
  BY StartedIs
<1> QED
  BY <1>1 DEF DeclaredPick, CoercePick, StOr

LEMMA AsFileIs == ASSUME NEW kept \in StKept PROVE StAsFile(kept) \in StFiles
<1>1. kept.label \in StLabels /\ kept.numbers \in StNumbersOf /\ kept.pick \in StPicks
  BY DEF StKept
<1> DEFINE n == [k \in StKeys |-> [is |-> "number", v |-> kept.numbers[k]]]
<1>2. n \in [StKeys -> StRaw]
  <2>1. ASSUME NEW k \in StKeys PROVE [is |-> "number", v |-> kept.numbers[k]] \in StRaw
    <3>1. kept.numbers[k] \in StLeast .. StMost
      BY <1>1 DEF StNumbersOf
    <3>2. kept.numbers[k] \in (StLeast - 1) .. (StMost + 1)
      BY <3>1, StFacts
    <3> QED
      BY <3>2 DEF StRaw
  <2> QED
    BY <2>1
<1>3. StAsFile(kept) = [label |-> kept.label, numbers |-> n, pick |-> kept.pick, live |-> TRUE]
  BY DEF StAsFile
<1> HIDE DEF n
<1> QED
  BY <1>1, <1>2, <1>3 DEF StFiles

LEMMA DefaultsIn == StDefaults \in StSet /\ Persisted(StDefaults) \in StKept
<1>1. StDefaults \in StSet
  BY StFacts DEF StDefaults, StSet
<1> QED
  BY <1>1, PersistedIs

LEMMA LateStarts ==
  ASSUME NEW v, NEW kept \in StOnce
  PROVE /\ StartedLate(v, kept) \in StLates
        /\ Started(v).store = {} => (StartedLate(v, kept).is <=> TRUE \in kept)
<1>1. {} \in StOnce /\ TRUE \in BOOLEAN /\ FALSE \in BOOLEAN
  BY DEF StOnce
<1>2. ASSUME NEW b \in BOOLEAN, StartedLate(v, kept) = [is |-> b, store |-> {}, file |-> kept]
      PROVE StartedLate(v, kept) \in StLates /\ StartedLate(v, kept).is = b
  BY <1>1, <1>2 DEF StLates
<1>3. CASE Started(v).store # {}
  BY <1>1, <1>2, <1>3 DEF StartedLate
<1>4. CASE Started(v).store = {} /\ TRUE \in kept
  BY <1>1, <1>2, <1>4 DEF StartedLate
<1>5. CASE Started(v).store = {} /\ TRUE \notin kept
  <2>1. StartedLate(v, kept) = [is |-> FALSE, store |-> {}, file |-> kept]
    BY <1>5 DEF StartedLate
  <2>2. StartedLate(v, kept) \in StLates /\ StartedLate(v, kept).is = FALSE
    BY <1>1, <1>2, <2>1
  <2>3. (StartedLate(v, kept).is <=> TRUE \in kept)
    BY <1>5, <2>2, Zenon
  <2> QED
    BY <2>2, <2>3
<1> QED
  BY <1>3, <1>4, <1>5

\* Every write keeps the switch declared last.
LEMMA LateIs ==
  ASSUME stLate \in StLates, NEW s
  PROVE /\ LateKept(s) \in StLates /\ LateKept(s).is = stLate.is
        /\ s.values # stValues => LateKept(s).store = {LateKept(s).is}
        /\ s.values = stValues => LateKept(s) = stLate
<1>1. stLate.is \in BOOLEAN /\ {stLate.is} \in StOnce
  BY DEF StLates, StOnce
<1> QED
  BY <1>1 DEF LateKept, StLates

LEMMA SettingsBegin == ASSUME SettingsInit PROVE SettingsInv
<1>1. StAsFile(Persisted(StDefaults)) \in StFiles
  BY DefaultsIn, AsFileIs
<1>2. stFile \in StFiles
  BY <1>1 DEF SettingsInit
<1> DEFINE s == Started(Declared(stFile))
<1>3. stValues = s.values /\ stStore = s.store /\ stOffer = {StPlain} /\ stCame = stFile.pick /\ stMoved = FALSE
  BY DEF SettingsInit
<1>4. /\ s.values \in StSet /\ s.store \in SUBSET StKept /\ Matches(s.values)
      /\ (s.values.pick \in {StPlain} \/ (~StPictured /\ s.values.pick = stFile.pick))
  BY <1>2, StartedIs, RunStarts
<1> HIDE DEF s
<1>5. SettingsTypeOK
  BY <1>3, <1>4 DEF SettingsTypeOK, StSet, StNumbersOf
<1>6. stLate \in StLates
  <2>1. PICK kept \in StOnce : stLate = StartedLate(Declared(stFile), kept)
    BY DEF SettingsInit
  <2> QED
    BY <2>1, LateStarts
<1> QED
  BY <1>2, <1>3, <1>4, <1>5, <1>6, StFacts DEF SettingsInv, LabelIsTrue, StoreIsCurrent

LEMMA NowIs ==
  ASSUME SettingsInv PROVE StNow \in StShape /\ StNow.values = stValues /\ StNow.store = stStore /\ StNow.applying = FALSE
  BY DEF SettingsInv, StNow, StShape

\* A move of this run: the store is what is in force, if it was or anything changed.
LEMMA MoveKeeps ==
  ASSUME SettingsInv, NEW s, Fresher(StNow, s), StRun(s), stMoved' \in BOOLEAN, stMoved' => stMoved \/ s.values # stValues,
         stFile' = stFile, stLate' = LateKept(s), Matches(s.values), stOffer' \in SUBSET StPicks,
         s.values.pick \in stOffer' \/ (~StPictured /\ stOffer' = {StPlain} /\ s.values.pick = stCame')
  PROVE SettingsInv'
<1>1. s \in StShape /\ (s = StNow \/ s.store = {Persisted(s.values)})
  BY DEF Fresher
<1>2. stValues' = s.values /\ stStore' = s.store /\ stValues' \in StSet /\ stStore' \in SUBSET StKept
  BY <1>1 DEF StRun, StShape
<1>3. LabelIsTrue'
  BY <1>2 DEF LabelIsTrue, Matches
<1>7. stLate \in StLates /\ stLate' \in StLates
  BY LateIs DEF SettingsInv
<1>4. StoreIsCurrent'
  <2> SUFFICES ASSUME stMoved' PROVE stStore' = {Persisted(stValues')} /\ stLate'.store = {stLate'.is}
    BY DEF StoreIsCurrent, Persisted
  <2>0. stLate'.store = {stLate'.is}
    <3>1. CASE s.values = stValues
      <4>1. stMoved
        BY <3>1
      <4>2. stLate' = stLate /\ stLate.store = {stLate.is}
        BY <3>1, <4>1, <1>7, LateIs DEF SettingsInv, StoreIsCurrent
      <4> QED
        BY <4>2
    <3>2. CASE s.values # stValues
      BY <3>2, <1>7, LateIs
    <3> QED
      BY <3>1, <3>2
  <2>1. CASE s = StNow
    <3>1. stValues' = stValues /\ stStore' = stStore /\ stMoved
      BY <1>2, <2>1, NowIs
    <3>2. stStore' = {Persisted(stValues')}
      BY <3>1 DEF SettingsInv, StoreIsCurrent
    <3> QED
      BY <2>0, <3>2
  <2>2. CASE s.store = {Persisted(s.values)}
    BY <1>2, <2>2, <2>0
  <2> QED
    BY <1>1, <2>1, <2>2
<1>5. SettingsTypeOK'
  BY <1>2 DEF SettingsTypeOK, StSet, StNumbersOf
<1>6. stFile' \in StFiles
  BY DEF SettingsInv
<1> QED
  BY <1>2, <1>3, <1>4, <1>5, <1>6, <1>7 DEF SettingsInv

LEMMA NumberKeeps == ASSUME SettingsInv, NEW k \in StKeys, NEW raw \in StRaw, MoveNumber(k, raw) PROVE SettingsInv'
<1> DEFINE s == SetNumber(StNow, k, raw)
<1>1. Matches(stValues) /\ stOffer \in SUBSET StPicks /\ stMoved \in BOOLEAN /\ SettingsTypeOK
  BY DEF SettingsInv, LabelIsTrue
<1>2. Fresher(StNow, s) /\ s.values.pick = stValues.pick /\ Matches(s.values)
  <2>1. StNow \in StShape /\ StNow.values = stValues /\ StNow.applying = FALSE /\ Matches(StNow.values) /\ raw \in Raws
    BY <1>1, NowIs, RawIsRaw
  <2>2. Fresher(StNow, s) /\ s.values.pick = StNow.values.pick /\ (~StNow.applying /\ Matches(StNow.values) => Matches(s.values))
    BY <2>1, SetNumberIs
  <2> HIDE DEF s
  <2> QED
    BY <2>1, <2>2
<1>3. /\ StRun(s) /\ stMoved' = (stMoved \/ Persisted(s.values) # Persisted(stValues))
      /\ stOffer' = stOffer /\ stFile' = stFile /\ stCame' = stCame /\ stLate' = LateKept(s)
  BY DEF MoveNumber, StMove
<1> HIDE DEF s
<1> QED
  BY <1>1, <1>2, <1>3, MoveKeeps DEF SettingsTypeOK

LEMMA LabelKeeps ==
  ASSUME SettingsInv, NEW raw \in StLabels \cup {StJunk}, MoveLabel(raw)
  PROVE SettingsInv' /\ (raw \in StLabels => stValues'.label = raw /\ Matches(stValues'))
<1> DEFINE s == SetLabel(StNow, raw)
<1>1. Matches(stValues) /\ stOffer \in SUBSET StPicks /\ stMoved \in BOOLEAN /\ SettingsTypeOK
  BY DEF SettingsInv, LabelIsTrue
<1>2. Fresher(StNow, s) /\ s.values.pick = stValues.pick /\ Matches(s.values) /\ (raw \in StLabels => s.values.label = raw)
  <2>1. StNow \in StShape /\ StNow.values = stValues /\ ~StNow.applying /\ Matches(StNow.values)
    BY <1>1, NowIs
  <2>2. /\ Fresher(StNow, s) /\ s.values.pick = StNow.values.pick /\ Matches(s.values)
        /\ raw \in StLabels => s.values.label = raw
    BY <2>1, SetLabelIs
  <2> HIDE DEF s
  <2> QED
    BY <2>1, <2>2
<1>3. /\ StRun(s) /\ stMoved' = (stMoved \/ Persisted(s.values) # Persisted(stValues))
      /\ stOffer' = stOffer /\ stFile' = stFile /\ stCame' = stCame /\ stLate' = LateKept(s)
  BY DEF MoveLabel, StMove
<1> HIDE DEF s
<1>4. SettingsInv'
  BY <1>1, <1>2, <1>3, MoveKeeps DEF SettingsTypeOK
<1>5. stValues' = s.values
  BY <1>3 DEF StRun
<1> QED
  BY <1>2, <1>4, <1>5

LEMMA PickKeeps == ASSUME SettingsInv, NEW raw \in StPicks, MovePick(raw) PROVE SettingsInv'
<1> DEFINE p == CoercePick(raw, stOffer, stValues.pick)
           v == [stValues EXCEPT !.pick = p]
           s == Stored(StNow, v)
<1>1. Matches(stValues) /\ stOffer \in SUBSET StPicks /\ stMoved \in BOOLEAN /\ SettingsTypeOK /\ stValues \in StSet
  BY DEF SettingsInv, LabelIsTrue
<1>2. p \in StPicks /\ (p \in stOffer \/ p = stValues.pick)
  BY <1>1 DEF CoercePick, StOr, StSet
<1>3. /\ StRun(s) /\ stMoved' = (stMoved \/ Persisted(s.values) # Persisted(stValues))
      /\ stOffer' = stOffer /\ stFile' = stFile /\ stLate' = LateKept(s)
      /\ stCame' = IF stValues'.pick = stValues.pick THEN stCame ELSE StJunk
  BY <1>1 DEF MovePick, StMove, StSet
<1> HIDE DEF p
<1>4. v \in StSet /\ v.pick = p /\ v.label = stValues.label /\ v.numbers = stValues.numbers
  BY <1>1, <1>2, SetField
<1> HIDE DEF v
<1>5. Fresher(StNow, s) /\ s.values = v
  BY <1>4, NowIs, StoredIs
<1> HIDE DEF s
<1>6. Matches(s.values)
  BY <1>1, <1>4, <1>5 DEF Matches
<1>7. s.values.pick \in stOffer' \/ (~StPictured /\ stOffer' = {StPlain} /\ s.values.pick = stCame')
  <2>1. stValues' = v
    BY <1>3, <1>5 DEF StRun
  <2>2. CASE p \in stOffer
    BY <1>3, <1>4, <1>5, <2>2
  <2>3. CASE p = stValues.pick
    BY <1>1, <1>3, <1>4, <1>5, <2>1, <2>3 DEF SettingsTypeOK
  <2> QED
    BY <1>2, <2>2, <2>3
<1> QED
  BY <1>1, <1>3, <1>5, <1>6, <1>7, MoveKeeps

LEMMA OptionsKeep == ASSUME SettingsInv, NEW offer \in SUBSET StPicks, StPlain \in offer, SetOptions(offer) PROVE SettingsInv'
<1> DEFINE p == Offered(offer)
           v == [stValues EXCEPT !.pick = p]
           s == Stored(StNow, v)
<1>1. Matches(stValues) /\ stMoved \in BOOLEAN /\ stValues \in StSet
  BY DEF SettingsInv, LabelIsTrue
<1>2. p \in offer /\ p \in StPicks
  BY DEF Offered
<1>3. /\ StRun(s) /\ stMoved' = (stMoved \/ stValues'.pick # stValues.pick) /\ stOffer' = offer /\ stFile' = stFile
      /\ stLate' = LateKept(s)
  BY DEF SetOptions
<1> HIDE DEF p
<1>4. v \in StSet /\ v.pick = p /\ v.label = stValues.label /\ v.numbers = stValues.numbers
  BY <1>1, <1>2, SetField
<1> HIDE DEF v
<1>5. Fresher(StNow, s) /\ s.values = v
  BY <1>4, NowIs, StoredIs
<1> HIDE DEF s
<1>6. Matches(s.values)
  BY <1>1, <1>4, <1>5 DEF Matches
<1>7. stValues' = s.values
  BY <1>3 DEF StRun
<1>8. (stMoved' => stMoved \/ s.values # stValues) /\ stMoved' \in BOOLEAN
  BY <1>1, <1>3, <1>7
<1> QED
  BY <1>2, <1>3, <1>4, <1>5, <1>6, <1>8, MoveKeeps

LEMMA LiveKeeps == ASSUME SettingsInv, MoveLive PROVE SettingsInv'
<1>1. /\ stValues' = [stValues EXCEPT !.live = ~@] /\ stOffer' = stOffer /\ stStore' = stStore /\ stFile' = stFile
      /\ stLate' = stLate /\ stCame' = stCame /\ stMoved' = stMoved
  BY DEF MoveLive
<1>2. stValues \in StSet
  BY DEF SettingsInv
<1>3. /\ stValues' \in StSet /\ stValues'.label = stValues.label /\ stValues'.numbers = stValues.numbers
      /\ stValues'.pick = stValues.pick
  BY <1>1, <1>2 DEF StSet
<1>4. Persisted(stValues') = Persisted(stValues)
  BY <1>2, <1>3, KeptAlike
<1>5. SettingsTypeOK'
  BY <1>1, <1>3 DEF SettingsInv, SettingsTypeOK, StSet
<1>6. LabelIsTrue'
  BY <1>3 DEF SettingsInv, LabelIsTrue, Matches
<1>7. StoreIsCurrent'
  BY <1>1, <1>4 DEF SettingsInv, StoreIsCurrent
<1> QED
  BY <1>1, <1>3, <1>5, <1>6, <1>7 DEF SettingsInv

LEMMA LateKeeps == ASSUME SettingsInv, MoveLate PROVE SettingsInv'
<1>1. /\ stLate' = [stLate EXCEPT !.is = ~@, !.store = {~stLate.is}] /\ stStore' = {Persisted(stValues)} /\ stMoved' = TRUE
      /\ stValues' = stValues /\ stOffer' = stOffer /\ stFile' = stFile /\ stCame' = stCame
  BY DEF MoveLate
<1>2. stLate \in StLates /\ stValues \in StSet
  BY DEF SettingsInv
<1>3. stLate.is \in BOOLEAN /\ {~stLate.is} \in StOnce
  BY <1>2 DEF StLates, StOnce
<1>4. stLate' \in StLates /\ stLate'.store = {stLate'.is}
  BY <1>1, <1>2, <1>3 DEF StLates
<1>5. {Persisted(stValues)} \in SUBSET StKept
  BY <1>2, PersistedIs
<1>6. SettingsTypeOK' /\ LabelIsTrue'
  BY <1>1 DEF SettingsInv, SettingsTypeOK, LabelIsTrue, Matches
<1>7. StoreIsCurrent'
  BY <1>1, <1>4 DEF StoreIsCurrent, Persisted
<1> QED
  BY <1>1, <1>4, <1>5, <1>6, <1>7 DEF SettingsInv

LEMMA SaveKeeps == ASSUME SettingsInv, Save PROVE SettingsInv'
<1> DEFINE kept == CHOOSE k \in stStore : TRUE
<1>1. /\ stStore # {} /\ stFile' = StAsFile(kept) /\ stValues' = stValues /\ stOffer' = stOffer /\ stStore' = stStore
      /\ stCame' = stCame /\ stMoved' = stMoved /\ stLate' = [stLate EXCEPT !.file = stLate.store]
  BY DEF Save
<1>2. kept \in StKept
  BY <1>1 DEF SettingsInv
<1> HIDE DEF kept
<1>3. stFile' \in StFiles
  BY <1>1, <1>2, AsFileIs
<1>5. stLate' \in StLates /\ stLate'.store = stLate.store /\ stLate'.is = stLate.is
  BY <1>1 DEF SettingsInv, StLates
<1>4. SettingsTypeOK' /\ LabelIsTrue' /\ StoreIsCurrent'
  BY <1>1, <1>5 DEF SettingsInv, SettingsTypeOK, LabelIsTrue, StoreIsCurrent, Matches, Persisted
<1> QED
  BY <1>1, <1>3, <1>4, <1>5 DEF SettingsInv

\* The next run: what was saved is back, and no live switch is on.
LEMMA RestartIs ==
  ASSUME SettingsInv, StRestart
  PROVE /\ SettingsInv' /\ ~stValues'.live
        /\ \A numbers \in [StKeys -> StLeast .. StMost], label \in StLabels :
             stFile.label = label /\ (\A k \in StKeys : stFile.numbers[k] = [is |-> "number", v |-> numbers[k]])
               => /\ stValues'.numbers = numbers
                  /\ Matches([label |-> label, numbers |-> numbers])
                       => stValues'.label = label /\ (stLate'.is <=> TRUE \in stLate.file)
<1> DEFINE s == Started(Declared(stFile))
           n == [k \in StKeys |-> CoerceNumber(stFile.numbers[k], StDefaults.numbers[k])]
           l == CoerceLabel(stFile.label, StDefaultLabel)
<1>1. stFile \in StFiles
  BY DEF SettingsInv
<1>2. /\ stValues' = s.values /\ stStore' = s.store /\ stOffer' = {StPlain} /\ stCame' = stFile.pick /\ stMoved' = FALSE
      /\ stFile' = stFile /\ stLate' = StartedLate(Declared(stFile), stLate.file)
  BY DEF StRestart, StStart, StRun
<1>3. /\ s.values \in StSet /\ s.store \in SUBSET StKept /\ Matches(s.values) /\ ~s.values.live
      /\ s.values.numbers = n
      /\ Matches([label |-> l, numbers |-> n]) => s.values.label = l /\ s.store = {}
      /\ (s.values.pick \in {StPlain} \/ (~StPictured /\ s.values.pick = stFile.pick))
  BY <1>1, StartedIs, RunStarts
<1>7. stLate' \in StLates /\ (s.store = {} => (stLate'.is <=> TRUE \in stLate.file))
  <2>1. stLate.file \in StOnce
    BY DEF SettingsInv, StLates
  <2> QED
    BY <1>2, <2>1, LateStarts
<1> HIDE DEF s
<1>4. SettingsTypeOK'
  BY <1>2, <1>3 DEF SettingsTypeOK, StSet, StNumbersOf
<1>5. SettingsInv'
  BY <1>1, <1>2, <1>3, <1>4, <1>7, StFacts DEF SettingsInv, LabelIsTrue, StoreIsCurrent, Matches
<1>6. ASSUME NEW numbers \in [StKeys -> StLeast .. StMost], NEW label \in StLabels, stFile.label = label,
             \A k \in StKeys : stFile.numbers[k] = [is |-> "number", v |-> numbers[k]]
      PROVE n = numbers /\ l = label
  <2>1. l = label
    BY <1>6 DEF CoerceLabel, StOr
  <2>2. ASSUME NEW k \in StKeys PROVE n[k] = numbers[k]
    <3>1. numbers[k] \in Int /\ numbers[k] >= StLeast /\ numbers[k] <= StMost
      BY StFacts
    <3>2. n[k] = CoerceNumber([is |-> "number", v |-> numbers[k]], StDefaults.numbers[k])
      BY <1>6
    <3>3. StClamp(numbers[k]) = numbers[k]
      BY <3>1, StFacts DEF StClamp
    <3> QED
      BY <3>2, <3>3 DEF CoerceNumber, StOr
  <2> QED
    BY <2>1, <2>2
<1> HIDE DEF n, l
<1> QED
  BY <1>2, <1>3, <1>5, <1>6, <1>7

LEMMA SettingsStep == ASSUME SettingsInv, [SettingsNext]_stVars PROVE SettingsInv'
<1>1. ASSUME UNCHANGED stVars PROVE SettingsInv'
  <2>1. /\ stValues' = stValues /\ stOffer' = stOffer /\ stStore' = stStore /\ stFile' = stFile /\ stCame' = stCame /\ stMoved' = stMoved
        /\ stLate' = stLate
    BY <1>1 DEF stVars
  <2>2. SettingsTypeOK' /\ LabelIsTrue' /\ StoreIsCurrent'
    BY <2>1 DEF SettingsInv, SettingsTypeOK, LabelIsTrue, StoreIsCurrent, Matches, Persisted
  <2> QED
    BY <2>1, <2>2 DEF SettingsInv
<1> QED
  BY <1>1, NumberKeeps, LabelKeeps, PickKeeps, OptionsKeep, LiveKeeps, LateKeeps, SaveKeeps, RestartIs DEF SettingsNext

(***************************************************************************)
(* What is kept for the next start.                                        *)
(***************************************************************************)
SettingsHeld == subject = "settings" => SettingsInv
FileHeld     == subject = "preferences" => Ordered /\ Covered

THEOREM SettingsInductive == Spec => []SettingsHeld
<1>1. Init => SettingsHeld
  BY SettingsBegin DEF Init, SettingsHeld
<1>2. SettingsHeld /\ [Next]_vars => SettingsHeld'
  <2> SUFFICES ASSUME SettingsHeld, [Next]_vars, subject' = "settings" PROVE SettingsInv'
    BY DEF SettingsHeld
  <2>1. subject = "settings" /\ [SettingsNext]_stVars
    BY DEF Next, Others, vars
  <2> QED
    BY <2>1, SettingsStep DEF SettingsHeld
<1> QED
  BY <1>1, <1>2, PTL DEF Spec

THEOREM FileInductive == Spec => []FileHeld
<1>1. Init => FileHeld
  BY InitOrdered DEF Init, FileHeld
<1>2. FileHeld /\ [Next]_vars => FileHeld'
  <2> SUFFICES ASSUME FileHeld, [Next]_vars, subject' = "preferences" PROVE Ordered' /\ Covered'
    BY DEF FileHeld
  <2>1. subject = "preferences" /\ [PrefNext]_prefVars
    BY DEF Next, Others, vars
  <2> QED
    BY <2>1, NextOrdered, NextCovered DEF FileHeld
<1> QED
  BY <1>1, <1>2, PTL DEF Spec

\* What is kept for the next start is whole and is what was last chosen: a kill in the
\* middle of a write leaves a whole file and every change its write, the label tells the
\* truth of the numbers, and the store is what is in force (PreferencesFile.ts,
\* SettingsRegistry.ts, features/dodge/dodgeControls.ts).
THEOREM KeptTruly == Spec => []StoredIsTrue
<1>1. SettingsHeld /\ FileHeld => StoredIsTrue
  <2>1. FileHeld => (subject = "preferences" => NeverHalf /\ NothingForgotten)
    BY DEF FileHeld, Ordered, Covered, NeverHalf, NothingForgotten
  <2>2. SettingsHeld => (subject = "settings" => LabelIsTrue /\ StoreIsCurrent)
    BY DEF SettingsHeld, SettingsInv
  <2> QED
    BY <2>1, <2>2 DEF StoredIsTrue
<1> QED
  BY <1>1, SettingsInductive, FileInductive, PTL

\* Choosing a preset ends with that preset: its own writes do not make it Custom half way
\* (features/dodge/dodgeControls.ts, bindPreset).
THEOREM PresetsTake == Spec => PresetTakes
<1>1. SettingsHeld /\ [Next]_vars =>
        [\A p \in DOMAIN StPresets : MoveLabel(p) => stValues'.label = p /\ Matches(stValues')]_stVars
  <2> SUFFICES ASSUME SettingsHeld, [Next]_vars, stVars' # stVars, NEW p \in DOMAIN StPresets, MoveLabel(p)
               PROVE stValues'.label = p /\ Matches(stValues')
    OBVIOUS
  <2>1. subject = "settings"
    BY DEF Next, Others, vars
  <2>2. SettingsInv
    BY <2>1 DEF SettingsHeld
  <2>3. p \in StLabels
    BY StFacts
  <2> QED
    BY <2>2, <2>3, LabelKeeps
<1> QED
  BY <1>1, SettingsInductive, PTL DEF Spec, PresetTakes

\* A restart gives back the numbers and the label that were saved, and never a live
\* switch, however the run before ended (SettingsRegistry.ts:48-53); the switch declared
\* last too, where the saved label is true of the numbers.
THEOREM RestartsKeep == Spec => RestartKeeps
<1>1. SettingsHeld /\ [Next]_vars =>
        [StRestart => /\ ~stValues'.live
                      /\ \A numbers \in [StKeys -> StLeast..StMost], label \in StLabels :
                           stFile.label = label /\ (\A k \in StKeys : stFile.numbers[k] = [is |-> "number", v |-> numbers[k]])
                             => /\ stValues'.numbers = numbers
                                /\ Matches([label |-> label, numbers |-> numbers])
                                     => stValues'.label = label /\ (stLate'.is <=> TRUE \in stLate.file)]_stVars
  <2> SUFFICES ASSUME SettingsHeld, [Next]_vars, stVars' # stVars, StRestart
               PROVE /\ ~stValues'.live
                     /\ \A numbers \in [StKeys -> StLeast..StMost], label \in StLabels :
                          stFile.label = label /\ (\A k \in StKeys : stFile.numbers[k] = [is |-> "number", v |-> numbers[k]])
                            => /\ stValues'.numbers = numbers
                               /\ Matches([label |-> label, numbers |-> numbers])
                                    => stValues'.label = label /\ (stLate'.is <=> TRUE \in stLate.file)
    OBVIOUS
  <2>1. subject = "settings"
    BY DEF Next, Others, vars
  <2>2. SettingsInv
    BY <2>1 DEF SettingsHeld
  <2> QED
    BY <2>2, RestartIs
<1> QED
  BY <1>1, SettingsInductive, PTL DEF Spec, RestartKeeps

(***************************************************************************)
(* What the overlay shows (OverlayMirror).                                 *)
(***************************************************************************)
LEMMA OmFacts ==
  /\ OmBudget \in Nat \ {0} /\ OmLeast \in Int /\ OmMost \in Int /\ OmLeast <= OmMost
  /\ OmLists \subseteq Seq(Nat) /\ OmEdits \subseteq Int
  BY OverlayAssumption

\* The sums of a list, one cell after the other.
LEMMA SumsFrom ==
  ASSUME NEW w \in Seq(Nat)
  PROVE /\ Sums(w) \in [0 .. Len(w) -> Nat] /\ Sums(w)[0] = 0
        /\ \A n \in 1 .. Len(w) : Sums(w)[n] = Sums(w)[n - 1] + w[n]
<1> DEFINE N == Len(w)
           Step(n, t) == t + w[n]
           G == [a \in (1 .. N) \X Nat |-> Step(a[1], a[2])]
           Body(f) == [n \in 0 .. N |-> IF n = 0 THEN 0 ELSE Step(n, f[n - 1])]
<1>1. N \in Nat
  OBVIOUS
<1>2. ASSUME NEW n \in 1 .. N, NEW t \in Nat PROVE Step(n, t) \in Nat
  <2>1. w[n] \in Nat
    OBVIOUS
  <2> QED
    BY <2>1
<1>3. Sums(w) = CHOOSE f : f = Body(f)
  BY DEF Sums
<1>14. \A n \in 1 .. N, t \in Nat : Step(n, t) = t + w[n]
  OBVIOUS
<1> HIDE DEF Step, N
<1>4. G \in [(1 .. N) \X Nat -> Nat]
  <2>1. \A a \in (1 .. N) \X Nat : Step(a[1], a[2]) \in Nat
    BY <1>2
  <2> QED
    BY <2>1
<1>5. \A n \in 1 .. N, t \in Nat : G[<<n, t>>] = Step(n, t)
  OBVIOUS
<1> HIDE DEF G
<1>6. PICK f : IsRun(f, Nat, 0, N, G)
  BY <1>1, <1>4, Recursion
<1>7. f \in [0 .. N -> Nat] /\ f[0] = 0 /\ \A n \in 1 .. N : f[n] = G[<<n, f[n - 1]>>]
  BY <1>6 DEF IsRun
<1>8. \A n \in 1 .. N : f[n] = Step(n, f[n - 1])
  <2> SUFFICES ASSUME NEW n \in 1 .. N PROVE f[n] = Step(n, f[n - 1])
    OBVIOUS
  <2>1. n - 1 \in 0 .. N
    BY <1>1
  <2>2. f[n - 1] \in Nat
    BY <1>7, <2>1
  <2> QED
    BY <1>5, <1>7, <2>2
<1>9. f = Body(f)
  <2>1. \A n \in 0 .. N : f[n] = IF n = 0 THEN 0 ELSE Step(n, f[n - 1])
    BY <1>1, <1>7, <1>8
  <2>2. f = [n \in 0 .. N |-> f[n]]
    BY <1>7
  <2> QED
    BY <2>1, <2>2
<1>10. Sums(w) = Body(Sums(w))
  BY <1>3, <1>9
<1> DEFINE g == Sums(w)
<1>11. g = Body(g)
  BY <1>10
<1> HIDE DEF g
<1>12. g[0] = 0 /\ \A n \in 1 .. N : g[n] = Step(n, g[n - 1])
  BY <1>1, <1>11
<1>13. g \in [0 .. N -> Nat]
  <2> DEFINE T == {n \in Nat : n <= N => g[n] \in Nat}
  <2>1. 0 \in T
    BY <1>12
  <2>2. ASSUME NEW n \in T PROVE n + 1 \in T
    <3> SUFFICES ASSUME n + 1 <= N PROVE g[n + 1] \in Nat
      OBVIOUS
    <3>1. n \in Nat /\ g[n] \in Nat /\ n + 1 \in 1 .. N /\ (n + 1) - 1 = n
      BY <1>1
    <3>2. g[n + 1] = Step(n + 1, g[(n + 1) - 1])
      BY <1>12, <3>1
    <3> QED
      BY <1>2, <3>1, <3>2
  <2> HIDE DEF T
  <2>3. T \in SUBSET Nat
    BY DEF T
  <2>4. T = Nat
    BY <2>1, <2>2, <2>3, Upwards
  <2>5. \A n \in 0 .. N : g[n] \in Nat
    BY <1>1, <2>4 DEF T
  <2>6. g = [n \in 0 .. N |-> g[n]]
    BY <1>11
  <2> QED
    BY <2>5, <2>6
<1> QED
  <2>1. \A n \in 1 .. N : g[n] = g[n - 1] + w[n]
    <3> SUFFICES ASSUME NEW n \in 1 .. N PROVE g[n] = g[n - 1] + w[n]
      OBVIOUS
    <3>1. n - 1 \in 0 .. N
      BY <1>1
    <3> QED
      BY <1>12, <1>13, <1>14, <3>1
  <2> QED
    BY <1>12, <1>13, <2>1 DEF g, N

\* A cell more is its own length more, and the ';' before it.
LEMMA Longer ==
  ASSUME NEW w \in Seq(Nat), w # <<>>, NEW c \in Nat
  PROVE Length(Append(w, c)) = Length(w) + 1 + c /\ Length(w) \in Nat
<1> DEFINE v == Append(w, c)
           N == Len(w)
           T == {n \in Nat : n <= N => Sums(v)[n] = Sums(w)[n]}
<1>1. v \in Seq(Nat) /\ N \in Nat \ {0} /\ Len(v) = N + 1 /\ v[N + 1] = c /\ v # <<>> /\ \A n \in 1 .. N : v[n] = w[n]
  OBVIOUS
<1> HIDE DEF v
<1>2. /\ Sums(v) \in [0 .. (N + 1) -> Nat] /\ Sums(v)[0] = 0
      /\ \A n \in 1 .. (N + 1) : Sums(v)[n] = Sums(v)[n - 1] + v[n]
  BY <1>1, SumsFrom
<1>3. /\ Sums(w) \in [0 .. N -> Nat] /\ Sums(w)[0] = 0
      /\ \A n \in 1 .. N : Sums(w)[n] = Sums(w)[n - 1] + w[n]
  BY SumsFrom
<1>4. 0 \in T
  BY <1>2, <1>3
<1> HIDE DEF N
<1>5. ASSUME NEW n \in T PROVE n + 1 \in T
  <2> SUFFICES ASSUME n + 1 <= N PROVE Sums(v)[n + 1] = Sums(w)[n + 1]
    OBVIOUS
  <2>1. n \in Nat /\ n + 1 \in 1 .. N /\ n + 1 \in 1 .. (N + 1) /\ (n + 1) - 1 = n /\ Sums(v)[n] = Sums(w)[n]
    BY <1>1
  <2>2. Sums(v)[n + 1] = Sums(v)[n] + v[n + 1] /\ Sums(w)[n + 1] = Sums(w)[n] + w[n + 1]
    BY <1>2, <1>3, <2>1
  <2> QED
    BY <1>1, <2>1, <2>2
<1> HIDE DEF T
<1>6. T \in SUBSET Nat
  BY DEF T
<1>7. Sums(v)[N] = Sums(w)[N] /\ Sums(w)[N] \in Nat
  <2>1. N \in T
    BY <1>1, <1>4, <1>5, <1>6, Upwards
  <2> QED
    BY <1>1, <1>3, <2>1 DEF T
<1>8. Sums(v)[N + 1] = Sums(w)[N] + c
  <2>1. N + 1 \in 1 .. (N + 1) /\ (N + 1) - 1 = N
    BY <1>1
  <2> QED
    BY <1>1, <1>2, <1>7, <2>1
<1>9. Length(v) = Sums(v)[N + 1] + N
  BY <1>1 DEF Length
<1>10. Length(w) = Sums(w)[N] + (N - 1)
  BY DEF Length, N
<1>11. Length(v) = Length(w) + 1 + c /\ Length(w) \in Nat
  BY <1>1, <1>7, <1>8, <1>9, <1>10
<1> QED
  BY <1>11 DEF v

\* A list in chunks: what the chunks so far come to, after each of them.
Chunk == {w \in Seq(Nat) : w # <<>> /\ (Len(w) <= 1 \/ Length(w) <= OmBudget)}
Joins(j, chunks, first) ==
  /\ j \in [0 .. Len(chunks) -> Seq(Nat)] /\ j[0] = first
  /\ \A i \in 1 .. Len(chunks) : j[i] = j[i - 1] \o chunks[i]
Comes(chunks, first, whole) == \E j : Joins(j, chunks, first) /\ j[Len(chunks)] = whole
WithOne(chunks, c) == PutIn(chunks, c, Length(Latest(chunks)) + 1 + c <= OmBudget)

LEMMA OneCellMore ==
  ASSUME NEW a \in Seq(Nat), NEW b \in Seq(Nat), NEW c \in Nat PROVE Append(a \o b, c) = a \o Append(b, c)
  OBVIOUS

\* A cell goes at the end of the last chunk while it fits, and in a chunk of its own then.
LEMMA PutInIs ==
  ASSUME NEW chunks \in Seq(Chunk), NEW c \in Nat
  PROVE LET m == Len(chunks)
            more == WithOne(chunks, c)
        IN /\ more \in Seq(Chunk)
           /\ \/ m \in 1 .. m /\ Len(more) = m /\ more[m] = Append(chunks[m], c) /\ \A i \in 1 .. m : i # m => more[i] = chunks[i]
              \/ Len(more) = m + 1 /\ more[m + 1] = <<c>> /\ \A i \in 1 .. m : more[i] = chunks[i]
<1> DEFINE m == Len(chunks)
           fits == Length(Latest(chunks)) + 1 + c <= OmBudget
           more == WithOne(chunks, c)
<1>1. m \in Nat /\ (\A i \in 1 .. m : chunks[i] \in Chunk) /\ Chunk \subseteq Seq(Nat)
  BY DEF Chunk
<1>2. CASE chunks # <<>> /\ fits
  <2> DEFINE w == chunks[m]
             v == Append(w, c)
  <2>1. m \in 1 .. m /\ w \in Chunk /\ w \in Seq(Nat) /\ w # <<>> /\ Latest(chunks) = w
    BY <1>1, <1>2 DEF Latest, Chunk
  <2>2. more = [chunks EXCEPT ![m] = Append(@, c)]
    BY <1>2 DEF PutIn, WithOne
  <2>3. v \in Chunk
    <3>1. v \in Seq(Nat) /\ v # <<>>
      BY <2>1
    <3>2. Length(v) = Length(w) + 1 + c
      BY <2>1, Longer
    <3>3. Length(v) <= OmBudget
      BY <1>2, <2>1, <3>2
    <3> HIDE DEF v, w
    <3> QED
      BY <3>1, <3>3 DEF Chunk
  <2>4. more = [chunks EXCEPT ![m] = v]
    BY <2>1, <2>2
  <2> HIDE DEF v, more
  <2>5. more \in Seq(Chunk) /\ Len(more) = m /\ more[m] = v /\ \A i \in 1 .. m : i # m => more[i] = chunks[i]
    BY <1>1, <2>1, <2>3, <2>4
  <2> QED
    BY <2>1, <2>5 DEF more, v
<1>3. CASE ~(chunks # <<>> /\ fits)
  <2> DEFINE v == <<c>>
  <2>1. more = Append(chunks, v)
    BY <1>3 DEF PutIn, WithOne
  <2>2. v \in Chunk
    BY DEF Chunk
  <2> HIDE DEF v, more
  <2>3. more \in Seq(Chunk) /\ Len(more) = m + 1 /\ more[m + 1] = v /\ \A i \in 1 .. m : more[i] = chunks[i]
    BY <1>1, <2>1, <2>2
  <2> QED
    BY <2>3 DEF more, v
<1> QED
  BY <1>2, <1>3

\* Either way the chunks come to the list and the cell after it.
LEMMA PutInComes ==
  ASSUME NEW chunks \in Seq(Chunk), NEW whole \in Seq(Nat), Comes(chunks, <<>>, whole), NEW c \in Nat
  PROVE Comes(WithOne(chunks, c), <<>>, Append(whole, c))
<1> DEFINE m == Len(chunks)
           more == WithOne(chunks, c)
           longer == Append(whole, c)
<1>1. m \in Nat /\ (\A i \in 1 .. m : chunks[i] \in Seq(Nat)) /\ longer \in Seq(Nat) /\ whole \o <<c>> = longer
  BY DEF Chunk
<1>2. PICK j : Joins(j, chunks, <<>>) /\ j[m] = whole
  BY DEF Comes
<1>3. /\ j \in [0 .. m -> Seq(Nat)] /\ j[0] = <<>> /\ j[m] = whole
      /\ \A i \in 1 .. m : j[i] = j[i - 1] \o chunks[i]
  BY <1>2 DEF Joins
<1>4. \/ m \in 1 .. m /\ Len(more) = m /\ more[m] = Append(chunks[m], c) /\ \A i \in 1 .. m : i # m => more[i] = chunks[i]
      \/ Len(more) = m + 1 /\ more[m + 1] = <<c>> /\ \A i \in 1 .. m : more[i] = chunks[i]
  BY PutInIs
<1> HIDE DEF more
<1>5. CASE m \in 1 .. m /\ Len(more) = m /\ more[m] = Append(chunks[m], c) /\ \A i \in 1 .. m : i # m => more[i] = chunks[i]
  <2> DEFINE k == [j EXCEPT ![m] = longer]
  <2>1. longer = j[m - 1] \o more[m]
    <3>4. m - 1 \in 0 .. m
      BY <1>1, <1>5
    <3>1. m - 1 \in 0 .. m /\ j[m - 1] \in Seq(Nat) /\ whole = j[m - 1] \o chunks[m]
      BY <1>3, <1>5, <3>4
    <3>2. Append(j[m - 1] \o chunks[m], c) = j[m - 1] \o Append(chunks[m], c)
      BY <1>1, <1>5, <3>1, OneCellMore
    <3> QED
      BY <1>5, <3>1, <3>2
  <2> HIDE DEF longer
  <2>2. k \in [0 .. m -> Seq(Nat)] /\ k[0] = <<>> /\ k[m] = longer /\ \A i \in 0 .. m : i # m => k[i] = j[i]
    BY <1>1, <1>3, <1>5
  <2> HIDE DEF k
  <2>3. ASSUME NEW i \in 1 .. m PROVE k[i] = k[i - 1] \o more[i]
    <3>1. i - 1 \in 0 .. m /\ i - 1 # m /\ k[i - 1] = j[i - 1]
      BY <1>1, <2>2
    <3>2. CASE i = m
      BY <2>1, <2>2, <3>1, <3>2
    <3>3. CASE i # m
      <4>1. k[i] = j[i] /\ more[i] = chunks[i]
        BY <1>1, <1>5, <2>2, <3>3
      <4> QED
        BY <1>3, <3>1, <4>1
    <3> QED
      BY <3>2, <3>3
  <2>4. Joins(k, more, <<>>)
    BY <1>5, <2>2, <2>3 DEF Joins
  <2> QED
    BY <1>5, <2>2, <2>4 DEF Comes, more, longer
<1>6. CASE Len(more) = m + 1 /\ more[m + 1] = <<c>> /\ \A i \in 1 .. m : more[i] = chunks[i]
  <2> DEFINE k == [i \in 0 .. (m + 1) |-> IF i <= m THEN j[i] ELSE longer]
  <2> HIDE DEF longer
  <2>1. k \in [0 .. (m + 1) -> Seq(Nat)] /\ k[0] = <<>> /\ k[m + 1] = longer /\ \A i \in 0 .. m : k[i] = j[i]
    BY <1>1, <1>3
  <2> HIDE DEF k
  <2>2. ASSUME NEW i \in 1 .. (m + 1) PROVE k[i] = k[i - 1] \o more[i]
    <3>4. i - 1 \in 0 .. m
      BY <1>1
    <3>1. i - 1 \in 0 .. m /\ k[i - 1] = j[i - 1]
      BY <2>1, <3>4
    <3>2. CASE i = m + 1
      <4>1. i - 1 = m /\ k[i] = longer /\ more[i] = <<c>>
        BY <1>1, <1>6, <2>1, <3>2
      <4> QED
        BY <1>1, <1>3, <3>1, <4>1
    <3>3. CASE i # m + 1
      <4>1. i \in 1 .. m /\ i \in 0 .. m
        BY <1>1, <3>3
      <4> QED
        BY <1>3, <1>6, <2>1, <3>1, <4>1
    <3> QED
      BY <3>2, <3>3
  <2>3. Joins(k, more, <<>>)
    BY <1>6, <2>1, <2>2 DEF Joins
  <2> QED
    BY <1>6, <2>1, <2>3 DEF Comes, more, longer
<1> QED
  BY <1>4, <1>5, <1>6

LEMMA PackingFrom ==
  ASSUME NEW w \in Seq(Nat)
  PROVE /\ Packing(w) \in [0 .. Len(w) -> Seq(Chunk)] /\ Packing(w)[0] = <<>>
        /\ \A n \in 1 .. Len(w) : Packing(w)[n] = WithOne(Packing(w)[n - 1], w[n])
<1> DEFINE N == Len(w)
           X == Seq(Chunk)
           Step(n, t) == WithOne(t, w[n])
           G == [a \in (1 .. N) \X X |-> Step(a[1], a[2])]
           Body(f) == [n \in 0 .. N |-> IF n = 0 THEN <<>> ELSE Step(n, f[n - 1])]
<1>1. N \in Nat /\ <<>> \in X
  OBVIOUS
<1>2. ASSUME NEW n \in 1 .. N, NEW t \in X PROVE Step(n, t) \in X
  <2>1. w[n] \in Nat
    OBVIOUS
  <2> QED
    BY <2>1, PutInIs
<1>3. Packing(w) = CHOOSE f : f = Body(f)
  BY DEF Packing, WithOne
<1>14. \A n \in 1 .. N, t \in X : Step(n, t) = WithOne(t, w[n])
  OBVIOUS
<1> HIDE DEF Step, N, X
<1>4. G \in [(1 .. N) \X X -> X]
  <2>1. \A a \in (1 .. N) \X X : Step(a[1], a[2]) \in X
    BY <1>2
  <2> QED
    BY <2>1
<1>5. \A n \in 1 .. N, t \in X : G[<<n, t>>] = Step(n, t)
  OBVIOUS
<1> HIDE DEF G
<1>6. PICK f : IsRun(f, X, <<>>, N, G)
  BY <1>1, <1>4, Recursion
<1>7. f \in [0 .. N -> X] /\ f[0] = <<>> /\ \A n \in 1 .. N : f[n] = G[<<n, f[n - 1]>>]
  BY <1>6 DEF IsRun
<1>8. \A n \in 1 .. N : f[n] = Step(n, f[n - 1])
  <2> SUFFICES ASSUME NEW n \in 1 .. N PROVE f[n] = Step(n, f[n - 1])
    OBVIOUS
  <2>1. n - 1 \in 0 .. N
    BY <1>1
  <2>2. f[n - 1] \in X
    BY <1>7, <2>1
  <2> QED
    BY <1>5, <1>7, <2>2
<1>9. f = Body(f)
  <2>1. \A n \in 0 .. N : f[n] = IF n = 0 THEN <<>> ELSE Step(n, f[n - 1])
    BY <1>1, <1>7, <1>8
  <2>2. f = [n \in 0 .. N |-> f[n]]
    BY <1>7
  <2> QED
    BY <2>1, <2>2
<1>10. Packing(w) = Body(Packing(w))
  BY <1>3, <1>9
<1> DEFINE g == Packing(w)
<1>11. g = Body(g)
  BY <1>10
<1> HIDE DEF g
<1>12. g[0] = <<>> /\ \A n \in 1 .. N : g[n] = Step(n, g[n - 1])
  BY <1>1, <1>11
<1>13. g \in [0 .. N -> X]
  <2> DEFINE T == {n \in Nat : n <= N => g[n] \in X}
  <2>1. 0 \in T
    BY <1>1, <1>12
  <2>2. ASSUME NEW n \in T PROVE n + 1 \in T
    <3> SUFFICES ASSUME n + 1 <= N PROVE g[n + 1] \in X
      OBVIOUS
    <3>1. n \in Nat /\ g[n] \in X /\ n + 1 \in 1 .. N /\ (n + 1) - 1 = n
      BY <1>1
    <3>2. g[n + 1] = Step(n + 1, g[(n + 1) - 1])
      BY <1>12, <3>1
    <3> QED
      BY <1>2, <3>1, <3>2
  <2> HIDE DEF T
  <2>3. T \in SUBSET Nat
    BY DEF T
  <2>4. T = Nat
    BY <2>1, <2>2, <2>3, Upwards
  <2>5. \A n \in 0 .. N : g[n] \in X
    BY <1>1, <2>4 DEF T
  <2>6. g = [n \in 0 .. N |-> g[n]]
    BY <1>11
  <2> QED
    BY <2>5, <2>6
<1> QED
  <2>1. \A n \in 1 .. N : g[n] = WithOne(g[n - 1], w[n])
    <3> SUFFICES ASSUME NEW n \in 1 .. N PROVE g[n] = WithOne(g[n - 1], w[n])
      OBVIOUS
    <3>1. n - 1 \in 0 .. N
      BY <1>1
    <3>2. g[n - 1] \in X
      BY <1>13, <3>1
    <3> QED
      BY <1>12, <1>14, <3>2
  <2> QED
    BY <1>12, <1>13, <2>1 DEF g, N, X

\* The chunks of a list come to the list, every cell once and in order, and every one of
\* them fits.
LEMMA PackedIs ==
  ASSUME NEW w \in Seq(Nat) PROVE Packed(w) \in Seq(Chunk) /\ Comes(Packed(w), <<>>, w)
<1> DEFINE N == Len(w)
           g == Packing(w)
           upTo(n) == SubSeq(w, 1, n)
           T == {n \in Nat : n <= N => Comes(g[n], <<>>, upTo(n))}
<1>1. /\ g \in [0 .. N -> Seq(Chunk)] /\ g[0] = <<>>
      /\ \A n \in 1 .. N : g[n] = WithOne(g[n - 1], w[n])
  BY PackingFrom
<1>2. N \in Nat /\ upTo(0) = <<>> /\ upTo(N) = w
  OBVIOUS
<1>3. ASSUME NEW n \in Nat, n + 1 <= N PROVE upTo(n) \in Seq(Nat) /\ w[n + 1] \in Nat /\ upTo(n + 1) = Append(upTo(n), w[n + 1])
  <2>1. n + 1 \in 1 .. N /\ n + 1 \in 1 .. (n + 1) /\ n + 1 \in (n + 1) .. N /\ 1 \in 1 .. N /\ (n + 1) - 1 = n /\ 1 .. n \subseteq 1 .. N
    BY <1>2, <1>3
  <2>2. \A i \in 1 .. n : w[i] \in Nat
    BY <2>1
  <2>3. upTo(n) \in Seq(Nat)
    BY <2>2, SubSeqProperties
  <2>4. upTo(n + 1) = upTo(n) \o <<w[n + 1]>>
    BY <2>1, SubSeqRecursiveSecond
  <2>5. w[n + 1] \in Nat
    BY <2>1
  <2> QED
    BY <2>3, <2>4, <2>5
<1> HIDE DEF g, N, upTo
<1>4. 0 \in T
  <2> DEFINE j == [i \in 0 .. 0 |-> <<>>]
  <2>1. j \in [0 .. 0 -> Seq(Nat)] /\ j[0] = <<>>
    OBVIOUS
  <2> HIDE DEF j
  <2>2. Len(<<>>) = 0
    OBVIOUS
  <2>3. Joins(j, <<>>, <<>>)
    BY <2>1, <2>2 DEF Joins
  <2>4. Comes(<<>>, <<>>, <<>>)
    BY <2>1, <2>2, <2>3 DEF Comes
  <2> QED
    BY <1>1, <1>2, <2>4
<1>5. ASSUME NEW n \in T PROVE n + 1 \in T
  <2> SUFFICES ASSUME n + 1 <= N PROVE Comes(g[n + 1], <<>>, upTo(n + 1))
    OBVIOUS
  <2>1. n \in Nat /\ n + 1 \in 1 .. N /\ n \in 0 .. N /\ (n + 1) - 1 = n /\ Comes(g[n], <<>>, upTo(n))
    BY <1>2
  <2>2. g[n] \in Seq(Chunk) /\ g[n + 1] = WithOne(g[n], w[n + 1])
    BY <1>1, <2>1
  <2>3. upTo(n) \in Seq(Nat) /\ w[n + 1] \in Nat /\ upTo(n + 1) = Append(upTo(n), w[n + 1])
    BY <1>3, <2>1
  <2>4. Comes(WithOne(g[n], w[n + 1]), <<>>, Append(upTo(n), w[n + 1]))
    BY <2>1, <2>2, <2>3, PutInComes
  <2> QED
    BY <2>2, <2>3, <2>4
<1> HIDE DEF T
<1>6. T \in SUBSET Nat
  BY DEF T
<1>7. N \in T
  BY <1>2, <1>4, <1>5, <1>6, Upwards
<1>8. Comes(g[N], <<>>, w) /\ g[N] \in Seq(Chunk)
  BY <1>1, <1>2, <1>7 DEF T
<1> QED
  BY <1>8 DEF Packed, g, N

(***************************************************************************)
(* Descriptions under way.                                                 *)
(***************************************************************************)
Hosts == [on : BOOLEAN, value : OmLeast .. OmMost, options : OmLists]
Chunks(h) == IF Length(h.options) <= OmBudget THEN <<>> ELSE Packed(h.options)
FirstCells(h) == IF Length(h.options) <= OmBudget THEN h.options ELSE <<>>
OmRecords == UNION {{Described(h)[i] : i \in DOMAIN Described(h)} : h \in Hosts}
OmActions == {[kind |-> "toggle", to |-> on] : on \in BOOLEAN} \cup {[kind |-> "setting", to |-> n] : n \in Int}

\* The description of h from p on.
Block(w, p, h) ==
  /\ p + Len(Described(h)) - 1 <= Len(w)
  /\ \A i \in 1 .. Len(Described(h)) : w[p + i - 1] = Described(h)[i]

\* The staging after n records of a description, and what is still to come of it.
Building(h, n, j) ==
  IF n = 1 THEN Blank
  ELSE [there |-> TRUE, on |-> h.on, value |-> IF n = 2 THEN OmNone ELSE h.value, options |-> IF n = 2 THEN <<>> ELSE j[n - 3]]
Part(w, staging, h, n, j) ==
  /\ n \in 1 .. (Len(Described(h)) - 1) /\ Len(Described(h)) - n <= Len(w)
  /\ \A i \in (n + 1) .. Len(Described(h)) : w[i - n] = Described(h)[i]
  /\ Joins(j, Chunks(h), FirstCells(h)) /\ j[Len(Chunks(h))] = h.options
  /\ staging = Building(h, n, j)

Onscreen(h) == [there |-> TRUE, on |-> h.on, value |-> h.value, options |-> h.options]

\* What is in the pipe: whole descriptions, one after the other, behind what is left of
\* the one being built.
Described1 == \A p \in 1 .. Len(omDown) : omDown[p].kind = "begin" => \E h \in Hosts : Block(omDown, p, h)
OneByOne == \A p \in 1 .. (Len(omDown) - 1) : omDown[p].kind = "end" => omDown[p + 1].kind = "begin"
Outside == ~omSyncing => omStaging = Blank /\ (omDown # <<>> => omDown[1].kind = "begin")
Inside == omSyncing => \E h \in Hosts, n \in Nat : \E j : Part(omDown, omStaging, h, n, j)

OverlayInv ==
  /\ omHost \in Hosts /\ omDown \in Seq(OmRecords) /\ omUp \in Seq(OmActions) /\ omSyncing \in BOOLEAN
  /\ Described1 /\ OneByOne /\ Outside /\ Inside
  /\ omShown = Blank \/ \E h \in Hosts : omShown = Onscreen(h)
  /\ ~omLink => omDown = <<>> /\ omUp = <<>> /\ ~omSyncing /\ omShown = Blank

LEMMA HostIs ==
  ASSUME NEW h \in Hosts
  PROVE /\ h.on \in BOOLEAN /\ h.value \in OmLeast .. OmMost /\ h.options \in OmLists /\ h.options \in Seq(Nat)
        /\ h.value \in Int
        /\ Chunks(h) \in Seq(Chunk) /\ Comes(Chunks(h), FirstCells(h), h.options)
        /\ FirstCells(h) \in Seq(Nat) /\ (FirstCells(h) = <<>> \/ Length(FirstCells(h)) <= OmBudget)
<1>1. /\ h.on \in BOOLEAN /\ h.value \in OmLeast .. OmMost /\ h.options \in OmLists /\ h.options \in Seq(Nat)
      /\ h.value \in Int
  BY OmFacts DEF Hosts
<1>2. CASE Length(h.options) <= OmBudget
  <2> DEFINE j == [i \in 0 .. 0 |-> h.options]
  <2>1. Chunks(h) = <<>> /\ FirstCells(h) = h.options
    BY <1>2 DEF Chunks, FirstCells
  <2>2. j \in [0 .. 0 -> Seq(Nat)] /\ j[0] = h.options
    BY <1>1
  <2> HIDE DEF j
  <2>3. Len(<<>>) = 0
    OBVIOUS
  <2>4. Joins(j, <<>>, h.options)
    BY <2>2, <2>3 DEF Joins
  <2>5. Comes(<<>>, h.options, h.options)
    BY <2>2, <2>3, <2>4 DEF Comes
  <2> QED
    BY <1>1, <1>2, <2>1, <2>5
<1>3. CASE ~(Length(h.options) <= OmBudget)
  <2>1. Chunks(h) = Packed(h.options) /\ FirstCells(h) = <<>>
    BY <1>3 DEF Chunks, FirstCells
  <2>2. Packed(h.options) \in Seq(Chunk) /\ Comes(Packed(h.options), <<>>, h.options)
    BY <1>1, PackedIs
  <2> QED
    BY <1>1, <2>1, <2>2
<1> QED
  BY <1>2, <1>3

\* Four pieces put end to end.
LEMMA EndToEnd ==
  ASSUME NEW S, NEW a \in S, NEW b \in S, NEW c \in S, NEW d \in S, NEW m \in Nat, NEW o \in [1 .. m -> S]
  PROVE LET w == <<a, b>> \o (<<c>> \o o) \o <<d>>
        IN /\ w \in Seq(S) /\ Len(w) = m + 4 /\ w[1] = a /\ w[2] = b /\ w[3] = c /\ w[m + 4] = d
           /\ \A i \in 1 .. m : w[i + 3] = o[i]
<1>1. o \in Seq(S) /\ Len(o) = m
  BY IsASeq, LenProperties
<1>2. <<a, b>> \in Seq(S) /\ <<c>> \in Seq(S) /\ <<d>> \in Seq(S)
  OBVIOUS
<1> DEFINE u == <<c>> \o o
           v == <<a, b>> \o u
           w == v \o <<d>>
<1>3. u \in Seq(S) /\ Len(u) = m + 1 /\ u[1] = c /\ \A i \in 1 .. m : u[i + 1] = o[i]
  BY <1>1, <1>2, ConcatProperties
<1> HIDE DEF u
<1>4. v \in Seq(S) /\ Len(v) = m + 3 /\ v[1] = a /\ v[2] = b /\ \A i \in 1 .. (m + 1) : v[i + 2] = u[i]
  BY <1>2, <1>3, ConcatProperties
<1> HIDE DEF v
<1>5. w \in Seq(S) /\ Len(w) = m + 4 /\ w[m + 4] = d /\ \A i \in 1 .. (m + 3) : w[i] = v[i]
  BY <1>2, <1>4, ConcatProperties
<1> HIDE DEF w
<1>6. w[1] = a /\ w[2] = b /\ w[3] = c
  <2>1. 1 \in 1 .. (m + 3) /\ 2 \in 1 .. (m + 3) /\ 3 \in 1 .. (m + 3) /\ 1 \in 1 .. (m + 1) /\ 1 + 2 = 3
    OBVIOUS
  <2>2. v[3] = c
    BY <1>3, <1>4, <2>1
  <2> QED
    BY <1>4, <1>5, <2>1, <2>2
<1>7. ASSUME NEW i \in 1 .. m PROVE w[i + 3] = o[i]
  <2>1. i + 1 \in 1 .. (m + 1) /\ (i + 1) + 2 = i + 3 /\ i + 3 \in 1 .. (m + 3)
    OBVIOUS
  <2> QED
    BY <1>3, <1>4, <1>5, <2>1
<1> QED
  BY <1>5, <1>6, <1>7 DEF w, v, u

\* A description, record by record.
LEMMA DescribedIs ==
  ASSUME NEW h \in Hosts
  PROVE LET d == Described(h)
            c == Chunks(h)
            m == Len(c)
        IN /\ m \in Nat /\ Len(d) = m + 4 /\ d \in Seq(OmRecords)
           /\ d[1] = [kind |-> "begin"] /\ d[2] = [kind |-> "plugin", on |-> h.on]
           /\ d[3] = [kind |-> "setting", value |-> h.value, cells |-> FirstCells(h)]
           /\ d[m + 4] = [kind |-> "end"]
           /\ \A i \in 1 .. m : d[i + 3] = [kind |-> "options", index |-> i, count |-> m, cells |-> c[i]]
<1> DEFINE d == Described(h)
           c == Chunks(h)
           m == Len(c)
           r1 == [kind |-> "begin"]
           r2 == [kind |-> "plugin", on |-> h.on]
           r3 == [kind |-> "setting", value |-> h.value, cells |-> FirstCells(h)]
           r4 == [kind |-> "end"]
           o == [i \in 1 .. m |-> [kind |-> "options", index |-> i, count |-> m, cells |-> c[i]]]
           S == {r1, r2, r3, r4} \cup {o[i] : i \in 1 .. m}
<1>1. m \in Nat /\ DOMAIN c = 1 .. m
  BY HostIs
<1>2. d = <<r1, r2>> \o (<<r3>> \o o) \o <<r4>>
  <2>1. c = IF Length(h.options) <= OmBudget THEN <<>> ELSE Packed(h.options)
    BY DEF Chunks
  <2>2. SettingRecords(h) = <<r3>> \o [i \in DOMAIN c |-> [kind |-> "options", index |-> i, count |-> m, cells |-> c[i]]]
    BY DEF SettingRecords, Chunks, FirstCells
  <2>3. SettingRecords(h) = <<r3>> \o o
    BY <1>1, <2>2
  <2> QED
    BY <2>3 DEF Described
<1>3. r1 \in S /\ r2 \in S /\ r3 \in S /\ r4 \in S /\ o \in [1 .. m -> S]
  OBVIOUS
<1>4. \A i \in 1 .. m : o[i] = [kind |-> "options", index |-> i, count |-> m, cells |-> c[i]]
  OBVIOUS
<1> HIDE DEF r1, r2, r3, r4, o, S, c, m, d
<1>5. /\ d \in Seq(S) /\ Len(d) = m + 4 /\ d[1] = r1 /\ d[2] = r2 /\ d[3] = r3 /\ d[m + 4] = r4
      /\ \A i \in 1 .. m : d[i + 3] = o[i]
  <2> DEFINE w == <<r1, r2>> \o (<<r3>> \o o) \o <<r4>>
  <2>1. /\ w \in Seq(S) /\ Len(w) = m + 4 /\ w[1] = r1 /\ w[2] = r2 /\ w[3] = r3 /\ w[m + 4] = r4
        /\ \A i \in 1 .. m : w[i + 3] = o[i]
    BY <1>1, <1>3, EndToEnd
  <2>2. d = w
    BY <1>2
  <2> HIDE DEF w
  <2> QED
    BY <2>1, <2>2
<1>6. d \in Seq(OmRecords)
  <2>1. \A i \in 1 .. Len(d) : d[i] \in OmRecords
    BY <1>5 DEF OmRecords, d
  <2> QED
    BY <1>5, <2>1
<1>7. \A i \in 1 .. m : d[i + 3] = [kind |-> "options", index |-> i, count |-> m, cells |-> c[i]]
  BY <1>4, <1>5
<1> QED
  BY <1>1, <1>5, <1>6, <1>7 DEF r1, r2, r3, r4, d, c, m

\* Where a description's marks are, and what its records carry.
LEMMA MarksOf ==
  ASSUME NEW h \in Hosts, NEW i \in 1 .. Len(Described(h))
  PROVE LET d == Described(h)
        IN /\ Len(d) \in Nat /\ Len(d) >= 4
           /\ d[i].kind = "begin" <=> i = 1
           /\ d[i].kind = "end" <=> i = Len(d)
           /\ d[i].kind \in {"setting", "options"} => Len(d[i].cells) <= 1 \/ Length(d[i].cells) <= OmBudget
<1> DEFINE d == Described(h)
           c == Chunks(h)
           m == Len(c)
<1>1. /\ m \in Nat /\ Len(d) = m + 4
      /\ d[1] = [kind |-> "begin"] /\ d[2] = [kind |-> "plugin", on |-> h.on]
      /\ d[3] = [kind |-> "setting", value |-> h.value, cells |-> FirstCells(h)]
      /\ d[m + 4] = [kind |-> "end"]
      /\ \A k \in 1 .. m : d[k + 3] = [kind |-> "options", index |-> k, count |-> m, cells |-> c[k]]
  BY DescribedIs
<1>2. c \in Seq(Chunk) /\ FirstCells(h) \in Seq(Nat) /\ (FirstCells(h) = <<>> \/ Length(FirstCells(h)) <= OmBudget)
  BY HostIs
<1> HIDE DEF d, c, m
<1>3. i \in 1 .. (m + 4)
  BY <1>1 DEF d
<1>4. Len(d) \in Nat /\ Len(d) >= 4
  BY <1>1
<1>5. CASE i = 1
  BY <1>1, <1>4, <1>5 DEF d
<1>6. CASE i = 2
  BY <1>1, <1>4, <1>6 DEF d
<1>7. CASE i = 3
  <2>1. FirstCells(h) = <<>> => Len(FirstCells(h)) <= 1
    BY <1>2
  <2>2. d[i].kind = "setting" /\ d[i].cells = FirstCells(h)
    BY <1>1, <1>7
  <2> QED
    BY <1>1, <1>2, <1>4, <1>7, <2>1, <2>2 DEF d
<1>8. CASE i = m + 4
  BY <1>1, <1>4, <1>8 DEF d
<1>9. CASE i \in 4 .. (m + 3)
  <2> DEFINE k == i - 3
  <2>1. k \in 1 .. m /\ k + 3 = i
    BY <1>1, <1>9
  <2>2. d[i] = [kind |-> "options", index |-> k, count |-> m, cells |-> c[k]]
    BY <1>1, <2>1
  <2>3. d[i].kind = "options" /\ d[i].cells = c[k]
    BY <2>2
  <2>4. c[k] \in Chunk
    BY <1>2, <2>1 DEF m
  <2>5. i # 1 /\ i # Len(d)
    BY <1>1, <1>9
  <2>6. Len(c[k]) <= 1 \/ Length(c[k]) <= OmBudget
    BY <2>4 DEF Chunk
  <2> QED
    BY <1>4, <2>3, <2>5, <2>6 DEF d
<1>10. i = 1 \/ i = 2 \/ i = 3 \/ i = m + 4 \/ i \in 4 .. (m + 3)
  BY <1>1, <1>3
<1> QED
  BY <1>5, <1>6, <1>7, <1>8, <1>9, <1>10

\* A record of the pipe: what it marks, and that it fits.
LEMMA RecordIs ==
  ASSUME NEW r \in OmRecords
  PROVE r.kind \in {"setting", "options"} => Len(r.cells) <= 1 \/ Length(r.cells) <= OmBudget
<1>1. PICK h \in Hosts : r \in {Described(h)[i] : i \in DOMAIN Described(h)}
  BY DEF OmRecords
<1>2. PICK i \in DOMAIN Described(h) : r = Described(h)[i]
  BY <1>1
<1>3. DOMAIN Described(h) = 1 .. Len(Described(h))
  BY DescribedIs
<1> QED
  BY <1>2, <1>3, MarksOf

\* A block stays one when something is written behind it, and when the first record,
\* which is not its own, is read.
LEMMA BlockStays ==
  ASSUME NEW w \in Seq(OmRecords), NEW d \in Seq(OmRecords), NEW p \in 1 .. Len(w), NEW h \in Hosts, Block(w, p, h)
  PROVE Block(w \o d, p, h)
<1> DEFINE v == w \o d
           L == Len(Described(h))
<1>1. Len(w) \in Nat /\ Len(d) \in Nat /\ Len(v) = Len(w) + Len(d) /\ \A i \in 1 .. Len(w) : v[i] = w[i]
  BY ConcatProperties, LenProperties
<1>2. L \in Nat
  BY DescribedIs
<1>3. p + L - 1 <= Len(w) /\ \A i \in 1 .. L : w[p + i - 1] = Described(h)[i]
  BY DEF Block
<1> HIDE DEF v, L
<1>4. p + L - 1 <= Len(v)
  BY <1>1, <1>2, <1>3
<1>5. \A i \in 1 .. L : p + i - 1 \in 1 .. Len(w)
  BY <1>1, <1>2, <1>3
<1>6. \A i \in 1 .. L : v[p + i - 1] = Described(h)[i]
  BY <1>1, <1>3, <1>5
<1> QED
  BY <1>4, <1>6 DEF Block, v, L

LEMMA BlockBehind ==
  ASSUME NEW w \in Seq(OmRecords), NEW h \in Hosts
  PROVE Block(w \o Described(h), Len(w) + 1, h)
<1> DEFINE d == Described(h)
           v == w \o d
<1>1. d \in Seq(OmRecords)
  BY DescribedIs
<1> HIDE DEF d
<1>2. /\ Len(w) \in Nat /\ Len(d) \in Nat /\ Len(v) = Len(w) + Len(d)
      /\ \A i \in 1 .. Len(d) : v[(Len(w) + 1) + i - 1] = d[i]
  BY <1>1, ConcatProperties, LenProperties
<1> QED
  BY <1>2 DEF Block, d

LEMMA BlockShifts ==
  ASSUME NEW w \in Seq(OmRecords), w # <<>>, NEW p \in 1 .. (Len(w) - 1), NEW h \in Hosts, Block(w, p + 1, h)
  PROVE Block(Tail(w), p, h)
<1> DEFINE v == Tail(w)
           L == Len(Described(h))
<1>1. Len(w) \in Nat /\ Len(v) = Len(w) - 1 /\ \A i \in 1 .. Len(v) : v[i] = w[i + 1]
  BY HeadTailProperties, LenProperties
<1>2. L \in Nat
  BY DescribedIs
<1>3. (p + 1) + L - 1 <= Len(w) /\ \A i \in 1 .. L : w[(p + 1) + i - 1] = Described(h)[i]
  BY DEF Block
<1> HIDE DEF v, L
<1>4. p + L - 1 <= Len(v)
  BY <1>1, <1>2, <1>3
<1>5. \A i \in 1 .. L : p + i - 1 \in 1 .. Len(v) /\ (p + i - 1) + 1 = (p + 1) + i - 1
  BY <1>1, <1>2, <1>3
<1>6. \A i \in 1 .. L : v[p + i - 1] = Described(h)[i]
  BY <1>1, <1>3, <1>5
<1> QED
  BY <1>4, <1>6 DEF Block, v, L

\* What is left of the description being built, when something is written behind it.
LEMMA PartStays ==
  ASSUME NEW w \in Seq(OmRecords), NEW d \in Seq(OmRecords), NEW staging, NEW h \in Hosts, NEW n \in Nat, NEW j,
         Part(w, staging, h, n, j)
  PROVE Part(w \o d, staging, h, n, j)
<1> DEFINE v == w \o d
           L == Len(Described(h))
<1>1. Len(w) \in Nat /\ Len(d) \in Nat /\ Len(v) = Len(w) + Len(d) /\ \A i \in 1 .. Len(w) : v[i] = w[i]
  BY ConcatProperties, LenProperties
<1>2. L \in Nat
  BY DescribedIs
<1>3. n \in 1 .. (L - 1) /\ L - n <= Len(w) /\ \A i \in (n + 1) .. L : w[i - n] = Described(h)[i]
  BY DEF Part
<1> HIDE DEF v, L
<1>4. L - n <= Len(v)
  BY <1>1, <1>2, <1>3
<1>5. \A i \in (n + 1) .. L : i - n \in 1 .. Len(w)
  BY <1>1, <1>2, <1>3
<1>6. \A i \in (n + 1) .. L : v[i - n] = Described(h)[i]
  BY <1>1, <1>3, <1>5
<1> QED
  BY <1>3, <1>4, <1>6 DEF Part, v, L

\* The first record of a description.
LEMMA PartBegins ==
  ASSUME NEW w \in Seq(OmRecords), w # <<>>, NEW h \in Hosts, Block(w, 1, h)
  PROVE \E j : Part(Tail(w), Blank, h, 1, j)
<1> DEFINE v == Tail(w)
           L == Len(Described(h))
<1>1. Len(w) \in Nat /\ Len(v) = Len(w) - 1 /\ \A i \in 1 .. Len(v) : v[i] = w[i + 1]
  BY HeadTailProperties, LenProperties
<1>2. L \in Nat /\ L >= 4
  <2>1. Len(Chunks(h)) \in Nat /\ L = Len(Chunks(h)) + 4
    BY DescribedIs
  <2> HIDE DEF L
  <2> QED
    BY <2>1
<1>3. 1 + L - 1 <= Len(w) /\ \A i \in 1 .. L : w[1 + i - 1] = Described(h)[i]
  BY DEF Block
<1>7. PICK j : Joins(j, Chunks(h), FirstCells(h)) /\ j[Len(Chunks(h))] = h.options
  BY HostIs DEF Comes
<1> HIDE DEF v, L
<1>4. L - 1 <= Len(v) /\ 1 \in 1 .. (L - 1)
  BY <1>1, <1>2, <1>3
<1>5. \A i \in (1 + 1) .. L : i - 1 \in 1 .. Len(v) /\ (i - 1) + 1 = i /\ 1 + i - 1 = i /\ i \in 1 .. L
  BY <1>1, <1>2, <1>3
<1>6. \A i \in (1 + 1) .. L : v[i - 1] = Described(h)[i]
  BY <1>1, <1>3, <1>5
<1>8. Blank = Building(h, 1, j)
  BY DEF Building
<1> QED
  BY <1>4, <1>6, <1>7, <1>8 DEF Part, v, L

LEMMA StagedIs ==
  ASSUME NEW s, NEW r
  PROVE /\ r.kind = "plugin" => Staged(s, r) = [there |-> TRUE, on |-> r.on, value |-> OmNone, options |-> <<>>]
        /\ r.kind = "setting" => Staged(s, r) = [s EXCEPT !.value = r.value, !.options = r.cells]
        /\ r.kind = "options" => Staged(s, r) = [s EXCEPT !.options = @ \o r.cells]
  BY DEF Staged

\* The next one, up to the last.
LEMMA PartGoesOn ==
  ASSUME NEW w \in Seq(OmRecords), w # <<>>, NEW staging, NEW h \in Hosts, NEW n \in Nat, NEW j,
         Part(w, staging, h, n, j)
  PROVE /\ Head(w) = Described(h)[n + 1] /\ n + 1 \in 2 .. Len(Described(h))
        /\ n + 1 # Len(Described(h)) => Part(Tail(w), Staged(staging, Head(w)), h, n + 1, j)
        /\ n + 1 = Len(Described(h)) => staging = Onscreen(h)
<1> DEFINE d == Described(h)
           c == Chunks(h)
           m == Len(c)
           L == Len(d)
           v == Tail(w)
<1>1. Len(w) \in Nat /\ Len(v) = Len(w) - 1 /\ Head(w) = w[1] /\ \A i \in 1 .. Len(v) : v[i] = w[i + 1]
  BY HeadTailProperties, LenProperties
<1>2. /\ m \in Nat /\ L = m + 4
      /\ d[2] = [kind |-> "plugin", on |-> h.on]
      /\ d[3] = [kind |-> "setting", value |-> h.value, cells |-> FirstCells(h)]
      /\ \A i \in 1 .. m : d[i + 3] = [kind |-> "options", index |-> i, count |-> m, cells |-> c[i]]
  BY DescribedIs
<1>3. /\ n \in 1 .. (L - 1) /\ L - n <= Len(w) /\ \A i \in (n + 1) .. L : w[i - n] = d[i]
      /\ Joins(j, c, FirstCells(h)) /\ j[m] = h.options /\ staging = Building(h, n, j)
  BY DEF Part
<1>4. j[0] = FirstCells(h) /\ \A i \in 1 .. m : j[i] = j[i - 1] \o c[i]
  BY <1>3 DEF Joins
<1> HIDE DEF d, c, m, L, v
<1>5. n + 1 \in 2 .. L /\ n + 1 \in (n + 1) .. L /\ (n + 1) - n = 1
  BY <1>2, <1>3
<1>6. Head(w) = d[n + 1]
  BY <1>1, <1>3, <1>5
<1>7. ASSUME n + 1 # L PROVE Part(v, Staged(staging, Head(w)), h, n + 1, j)
  <2>1. n + 1 \in 1 .. (L - 1) /\ L - (n + 1) <= Len(v)
    BY <1>1, <1>2, <1>3, <1>7
  <2>2. \A i \in ((n + 1) + 1) .. L : i - (n + 1) \in 1 .. Len(v) /\ (i - (n + 1)) + 1 = i - n /\ i \in (n + 1) .. L
    BY <1>1, <1>2, <1>3
  <2>3. \A i \in ((n + 1) + 1) .. L : v[i - (n + 1)] = d[i]
    BY <1>1, <1>3, <2>2
  <2>4. Staged(staging, Head(w)) = Building(h, n + 1, j)
    <3>1. CASE n = 1
      <4>1. Head(w) = [kind |-> "plugin", on |-> h.on]
        BY <1>2, <1>6, <3>1
      <4>4. Head(w).kind = "plugin" /\ Head(w).on = h.on
        BY <4>1
      <4>2. Staged(staging, Head(w)) = [there |-> TRUE, on |-> h.on, value |-> OmNone, options |-> <<>>]
        BY <4>4, StagedIs
      <4>3. Building(h, 2, j) = [there |-> TRUE, on |-> h.on, value |-> OmNone, options |-> <<>>]
        BY DEF Building
      <4>5. n + 1 = 2
        BY <3>1
      <4> QED
        BY <4>2, <4>3, <4>5
    <3>2. CASE n = 2
      <4>1. Head(w) = [kind |-> "setting", value |-> h.value, cells |-> FirstCells(h)]
        BY <1>2, <1>6, <3>2
      <4>2. staging = [there |-> TRUE, on |-> h.on, value |-> OmNone, options |-> <<>>]
        BY <1>3, <3>2 DEF Building
      <4>6. Head(w).kind = "setting" /\ Head(w).value = h.value /\ Head(w).cells = FirstCells(h)
        BY <4>1
      <4>3. Staged(staging, Head(w)) = [staging EXCEPT !.value = h.value, !.options = FirstCells(h)]
        BY <4>6, StagedIs
      <4>4. Staged(staging, Head(w)) = [there |-> TRUE, on |-> h.on, value |-> h.value, options |-> FirstCells(h)]
        BY <4>2, <4>3
      <4>5. Building(h, 3, j) = [there |-> TRUE, on |-> h.on, value |-> h.value, options |-> j[0]]
        BY DEF Building
      <4>7. n + 1 = 3 /\ j[0] = FirstCells(h)
        BY <1>4, <3>2
      <4> QED
        BY <4>4, <4>5, <4>7
    <3>3. CASE n >= 3
      <4> DEFINE i == n - 2
      <4>1. i \in 1 .. m /\ i + 3 = n + 1 /\ i - 1 = n - 3 /\ (n + 1) - 3 = i /\ n \in Nat /\ n # 1 /\ n # 2 /\ n + 1 # 1 /\ n + 1 # 2
        BY <1>2, <2>1, <3>3
      <4>2. Head(w) = [kind |-> "options", index |-> i, count |-> m, cells |-> c[i]]
        BY <1>2, <1>6, <4>1
      <4>3. staging = [there |-> TRUE, on |-> h.on, value |-> h.value, options |-> j[i - 1]]
        BY <1>3, <4>1 DEF Building
      <4>4. Building(h, n + 1, j) = [there |-> TRUE, on |-> h.on, value |-> h.value, options |-> j[i]]
        BY <4>1 DEF Building
      <4> HIDE DEF i
      <4>7. Head(w).kind = "options" /\ Head(w).cells = c[i]
        BY <4>2
      <4>5. Staged(staging, Head(w)) = [staging EXCEPT !.options = @ \o c[i]]
        BY <4>7, StagedIs
      <4>6. Staged(staging, Head(w)) = [there |-> TRUE, on |-> h.on, value |-> h.value, options |-> j[i - 1] \o c[i]]
        BY <4>3, <4>5
      <4> QED
        BY <1>4, <4>1, <4>4, <4>6
    <3> QED
      BY <1>3, <3>1, <3>2, <3>3
  <2> QED
    BY <1>3, <2>1, <2>3, <2>4 DEF Part, d, c, m, L
<1>8. ASSUME n + 1 = L PROVE staging = Onscreen(h)
  <2>1. n - 3 = m /\ n # 1 /\ n # 2
    BY <1>2, <1>8
  <2> QED
    BY <1>3, <2>1 DEF Building, Onscreen
<1> QED
  BY <1>5, <1>6, <1>7, <1>8 DEF v, d, L

LEMMA OverlayBegins == OverlayInit => OverlayInv
<1> SUFFICES ASSUME OverlayInit PROVE OverlayInv
  OBVIOUS
<1>1. omHost \in Hosts
  <2>1. omHost \in [on : {FALSE}, value : {OmLeast}, options : OmLists]
    BY DEF OverlayInit
  <2>2. OmLeast \in OmLeast .. OmMost
    BY OmFacts
  <2> QED
    BY <2>1, <2>2 DEF Hosts
<1>2. omDown = <<>> /\ omUp = <<>> /\ omSyncing = FALSE /\ omStaging = Blank /\ omShown = Blank
  BY DEF OverlayInit
<1>3. Len(omDown) = 0 /\ omDown \in Seq(OmRecords) /\ omUp \in Seq(OmActions)
  BY <1>2
<1>4. Described1 /\ OneByOne /\ Outside /\ Inside
  BY <1>2, <1>3 DEF Described1, OneByOne, Outside, Inside
<1> QED
  BY <1>1, <1>2, <1>3, <1>4 DEF OverlayInv

\* Whatever leaves the pipe to the module and what it has read of it alone.
LEMMA PipeStays ==
  ASSUME OverlayInv, omHost' \in Hosts, omUp' \in Seq(OmActions), omDown' = omDown, omSyncing' = omSyncing,
         omStaging' = omStaging, omShown' = omShown, ~omLink' => ~omLink, ~omLink' => omUp' = <<>>
  PROVE OverlayInv'
<1>1. Described1' /\ OneByOne' /\ Outside' /\ Inside'
  BY DEF OverlayInv, Described1, OneByOne, Outside, Inside
<1> QED
  BY <1>1 DEF OverlayInv

LEMMA FlushKeepsPipe == ASSUME OverlayInv, OmFlush PROVE OverlayInv'
<1> DEFINE d == Described(omHost)
           w == omDown
           v == omDown'
<1>1. /\ omHost' = omHost /\ omUp' = omUp /\ omSyncing' = omSyncing /\ omStaging' = omStaging /\ omShown' = omShown
      /\ omLink' = omLink
  BY DEF OmFlush, omMirror
<1>2. omDown' = omDown \/ (omLink /\ omDown' = omDown \o d)
  BY DEF OmFlush
<1>3. CASE omDown' = omDown
  BY <1>1, <1>3, PipeStays DEF OverlayInv
<1>4. CASE omLink /\ omDown' = omDown \o d
  <2>1. omHost \in Hosts /\ w \in Seq(OmRecords)
    BY DEF OverlayInv
  <2>2. d \in Seq(OmRecords)
    BY <2>1, DescribedIs
  <2>3. Len(d) \in Nat /\ Len(d) >= 4 /\ \A i \in 1 .. Len(d) : (d[i].kind = "begin" <=> i = 1)
    <3>1. Len(Chunks(omHost)) \in Nat /\ Len(d) = Len(Chunks(omHost)) + 4
      BY <2>1, DescribedIs
    <3>2. Len(d) \in Nat /\ Len(d) >= 4
      BY <3>1
    <3> QED
      BY <2>1, <3>2, MarksOf
  <2>4. v = w \o d /\ v \in Seq(OmRecords)
    BY <1>4, <2>1, <2>2, ConcatProperties
  <2>5. Block(w \o d, Len(w) + 1, omHost)
    BY <2>1, BlockBehind
  <2> HIDE DEF d
  <2>6. /\ Len(w) \in Nat /\ Len(v) = Len(w) + Len(d)
        /\ (\A i \in 1 .. Len(w) : v[i] = w[i]) /\ \A i \in 1 .. Len(d) : v[Len(w) + i] = d[i]
    BY <2>1, <2>2, <2>4, ConcatProperties, LenProperties
  <2>7. ASSUME NEW p \in 1 .. Len(v), v[p].kind = "begin" PROVE \E h \in Hosts : Block(v, p, h)
    <3>1. CASE p \in 1 .. Len(w)
      <4>1. w[p].kind = "begin"
        BY <2>6, <2>7, <3>1
      <4>2. PICK h \in Hosts : Block(w, p, h)
        BY <3>1, <4>1 DEF OverlayInv, Described1
      <4> QED
        BY <2>1, <2>2, <2>4, <3>1, <4>2, BlockStays
    <3>2. CASE p \notin 1 .. Len(w)
      <4> DEFINE i == p - Len(w)
      <4>1. i \in 1 .. Len(d) /\ Len(w) + i = p
        BY <2>3, <2>6, <3>2
      <4>2. d[i].kind = "begin"
        BY <2>6, <2>7, <4>1
      <4>3. i = 1
        BY <2>3, <4>1, <4>2
      <4>4. p = Len(w) + 1
        BY <2>6, <4>1, <4>3
      <4> QED
        BY <2>1, <2>4, <2>5, <4>4
    <3> QED
      BY <3>1, <3>2
  <2>8. ASSUME NEW p \in 1 .. (Len(v) - 1), v[p].kind = "end" PROVE v[p + 1].kind = "begin"
    <3>1. CASE p \in 1 .. (Len(w) - 1)
      <4>1. p \in 1 .. Len(w) /\ p + 1 \in 1 .. Len(w)
        BY <2>6, <3>1
      <4>2. w[p].kind = "end" /\ v[p + 1] = w[p + 1]
        BY <2>6, <2>8, <4>1
      <4> QED
        BY <3>1, <4>2 DEF OverlayInv, OneByOne
    <3>2. CASE p = Len(w)
      <4>1. v[p + 1] = d[1] /\ 1 \in 1 .. Len(d)
        BY <2>3, <2>6, <3>2
      <4> QED
        BY <2>3, <4>1
    <3>3. CASE p \notin 1 .. Len(w)
      <4> DEFINE i == p - Len(w)
      <4>1. i \in 1 .. (Len(d) - 1) /\ i \in 1 .. Len(d) /\ Len(w) + i = p
        BY <2>3, <2>6, <3>3
      <4>2. d[i].kind = "end"
        BY <2>6, <2>8, <4>1
      <4>3. i = Len(d)
        BY <2>1, <4>1, <4>2, MarksOf DEF d
      <4> QED
        BY <2>3, <4>1, <4>3
    <3> QED
      BY <2>6, <3>1, <3>2, <3>3
  <2>9. ASSUME ~omSyncing PROVE omStaging = Blank /\ v[1].kind = "begin"
    <3>1. omStaging = Blank /\ (w # <<>> => w[1].kind = "begin")
      BY <2>9 DEF OverlayInv, Outside
    <3>2. CASE w = <<>>
      <4>1. v[1] = d[1] /\ 1 \in 1 .. Len(d)
        <5>1. Len(w) = 0 /\ 1 \in 1 .. Len(d) /\ 0 + 1 = 1
          BY <2>3, <3>2
        <5> QED
          BY <2>6, <5>1
      <4> QED
        BY <2>3, <3>1, <4>1
    <3>3. CASE w # <<>>
      <4>1. 1 \in 1 .. Len(w)
        BY <2>1, <3>3
      <4> QED
        BY <2>6, <3>1, <3>3, <4>1
    <3> QED
      BY <3>2, <3>3
  <2>10. ASSUME omSyncing PROVE \E h \in Hosts, n \in Nat : \E j : Part(v, omStaging, h, n, j)
    <3>1. PICK h \in Hosts, n \in Nat : \E j : Part(w, omStaging, h, n, j)
      BY <2>10 DEF OverlayInv, Inside
    <3>2. PICK j : Part(w, omStaging, h, n, j)
      BY <3>1
    <3>3. Part(v, omStaging, h, n, j)
      BY <2>1, <2>2, <2>4, <3>2, PartStays
    <3> QED
      BY <3>3
  <2>11. Described1' /\ OneByOne' /\ Outside' /\ Inside'
    BY <1>1, <2>7, <2>8, <2>9, <2>10 DEF Described1, OneByOne, Outside, Inside
  <2> QED
    BY <1>1, <1>4, <2>4, <2>11 DEF OverlayInv
<1> QED
  BY <1>2, <1>3, <1>4

LEMMA HandleKeepsPipe == ASSUME OverlayInv, OmHandle PROVE OverlayInv'
<1>1. omUp \in Seq(OmActions) /\ omUp # <<>> /\ omHost \in Hosts
  BY DEF OverlayInv, OmHandle
<1>2. Head(omUp) \in OmActions /\ Tail(omUp) \in Seq(OmActions)
  BY <1>1
<1>3. (Head(omUp).kind = "toggle" /\ Head(omUp).to \in BOOLEAN) \/ (Head(omUp).kind # "toggle" /\ Head(omUp).to \in Int)
  BY <1>2 DEF OmActions
<1>4. \A n \in Int : Clamped(n) \in OmLeast .. OmMost
  BY OmFacts DEF Clamped
<1>5. omHost' \in Hosts
  <2>1. omHost' = IF Head(omUp).kind = "toggle" THEN [omHost EXCEPT !.on = Head(omUp).to]
                  ELSE [omHost EXCEPT !.value = Clamped(Head(omUp).to)]
    BY DEF OmHandle
  <2>2. \A on \in BOOLEAN : [omHost EXCEPT !.on = on] \in Hosts
    BY <1>1 DEF Hosts
  <2>3. \A n \in OmLeast .. OmMost : [omHost EXCEPT !.value = n] \in Hosts
    BY <1>1 DEF Hosts
  <2> QED
    BY <1>3, <1>4, <2>1, <2>2, <2>3
<1>6. /\ omUp' = Tail(omUp) /\ omDown' = omDown /\ omSyncing' = omSyncing /\ omStaging' = omStaging /\ omShown' = omShown
      /\ omLink' = omLink
  BY DEF OmHandle, omMirror
<1>7. omLink
  BY <1>1 DEF OverlayInv
<1> QED
  BY <1>2, <1>5, <1>6, <1>7, PipeStays

LEMMA MoveKeepsPipe ==
  ASSUME OverlayInv, NEW on \in BOOLEAN, NEW options \in OmLists, OmHostMoves(on, options) PROVE OverlayInv'
<1>1. omHost \in Hosts /\ omHost' = [omHost EXCEPT !.on = on, !.options = options] /\ omUp \in Seq(OmActions)
  BY DEF OverlayInv, OmHostMoves
<1>2. omHost' \in Hosts
  BY <1>1 DEF Hosts
<1>3. /\ omUp' = omUp /\ omDown' = omDown /\ omSyncing' = omSyncing /\ omStaging' = omStaging /\ omShown' = omShown
      /\ omLink' = omLink
  BY DEF OmHostMoves, omMirror
<1> QED
  BY <1>1, <1>2, <1>3, PipeStays DEF OverlayInv

LEMMA LinkKeepsPipe == ASSUME OverlayInv, OmConnects \/ OmDrops PROVE OverlayInv'
<1>1. CASE OmConnects
  <2>1. /\ omHost' = omHost /\ omUp' = omUp /\ omDown' = omDown /\ omSyncing' = omSyncing /\ omStaging' = omStaging
        /\ omShown' = omShown /\ omLink' = TRUE
    BY <1>1 DEF OmConnects, omMirror
  <2> QED
    BY <2>1, PipeStays DEF OverlayInv
<1>2. CASE OmDrops
  <2>1. /\ omHost' = omHost /\ omUp' = <<>> /\ omDown' = <<>> /\ omSyncing' = FALSE /\ omStaging' = Blank
        /\ omShown' = Blank /\ omLink' = FALSE
    BY <1>2 DEF OmDrops, MirrorReset, omRuntime
  <2>2. Len(omDown') = 0 /\ omDown' \in Seq(OmRecords) /\ omUp' \in Seq(OmActions)
    BY <2>1
  <2>3. Described1' /\ OneByOne' /\ Outside' /\ Inside'
    BY <2>1, <2>2 DEF Described1, OneByOne, Outside, Inside
  <2> QED
    BY <2>1, <2>2, <2>3 DEF OverlayInv
<1> QED
  BY <1>1, <1>2

LEMMA EditKeepsPipe ==
  ASSUME OverlayInv,
         OmDraw \/ (\E to \in BOOLEAN : OmEditSent("toggle", to)) \/ (\E to \in OmEdits : OmEditSent("setting", to))
  PROVE OverlayInv'
<1>1. /\ omHost' = omHost /\ omDown' = omDown /\ omSyncing' = omSyncing /\ omStaging' = omStaging /\ omShown' = omShown
      /\ omLink' = omLink
  BY DEF OmDraw, OmEditSent, omMirror, omRuntime
<1>2. CASE OmDraw
  <2>1. omUp' = omUp
    BY <1>2 DEF OmDraw
  <2> QED
    BY <1>1, <2>1, PipeStays DEF OverlayInv
<1>3. ASSUME NEW a \in OmActions, omUp' = Append(omUp, a), omLink PROVE OverlayInv'
  <2>1. omUp' \in Seq(OmActions)
    BY <1>3 DEF OverlayInv
  <2> QED
    BY <1>1, <1>3, <2>1, PipeStays DEF OverlayInv
<1>4. ASSUME NEW to \in BOOLEAN, OmEditSent("toggle", to) PROVE OverlayInv'
  BY <1>3, <1>4 DEF OmEditSent, OmActions
<1>5. ASSUME NEW to \in OmEdits, OmEditSent("setting", to) PROVE OverlayInv'
  <2>1. to \in Int
    BY OmFacts
  <2> QED
    BY <1>3, <1>5, <2>1 DEF OmEditSent, OmActions
<1> QED
  BY <1>2, <1>4, <1>5

LEMMA ApplyKeepsPipe == ASSUME OverlayInv, OmApply PROVE OverlayInv'
<1> DEFINE w == omDown
           v == Tail(w)
           r == Head(w)
<1>1. w \in Seq(OmRecords) /\ w # <<>>
  BY DEF OverlayInv, OmApply
<1>2. /\ omHost' = omHost /\ omUp' = omUp /\ omLink' = omLink /\ omDown' = v
  BY DEF OmApply, omRuntime
<1>3. /\ v \in Seq(OmRecords) /\ Len(w) \in Nat /\ Len(w) >= 1 /\ Len(v) = Len(w) - 1 /\ r = w[1]
      /\ \A i \in 1 .. Len(v) : v[i] = w[i + 1]
  BY <1>1, HeadTailProperties, LenProperties
<1>4. omLink
  BY <1>1 DEF OverlayInv
<1>5. (\A p \in 1 .. Len(v) : v[p].kind = "begin" => \E h \in Hosts : Block(v, p, h))
      /\ \A p \in 1 .. (Len(v) - 1) : v[p].kind = "end" => v[p + 1].kind = "begin"
  <2>1. ASSUME NEW p \in 1 .. Len(v), v[p].kind = "begin" PROVE \E h \in Hosts : Block(v, p, h)
    <3>1. p + 1 \in 1 .. Len(w) /\ p \in 1 .. (Len(w) - 1)
      BY <1>3
    <3>2. w[p + 1].kind = "begin"
      BY <1>3, <2>1
    <3>3. PICK h \in Hosts : Block(w, p + 1, h)
      BY <3>1, <3>2 DEF OverlayInv, Described1
    <3> QED
      BY <1>1, <3>1, <3>3, BlockShifts
  <2>2. ASSUME NEW p \in 1 .. (Len(v) - 1), v[p].kind = "end" PROVE v[p + 1].kind = "begin"
    <3>1. p + 1 \in 1 .. (Len(w) - 1) /\ p \in 1 .. Len(v) /\ p + 1 \in 1 .. Len(v)
      BY <1>3
    <3>2. w[p + 1].kind = "end"
      BY <1>3, <2>2, <3>1
    <3>3. w[(p + 1) + 1].kind = "begin"
      BY <3>1, <3>2 DEF OverlayInv, OneByOne
    <3> QED
      BY <1>3, <3>1, <3>3
  <2> QED
    BY <2>1, <2>2
<1> HIDE DEF v, r, w
<1>6. Described1' /\ OneByOne'
  BY <1>2, <1>5 DEF Described1, OneByOne
<1>7. CASE r.kind = "begin" /\ omSyncing' = TRUE /\ omStaging' = Blank /\ omShown' = omShown
  <2>1. PICK h \in Hosts : Block(w, 1, h)
    BY <1>3, <1>7 DEF OverlayInv, Described1, w
  <2>2. PICK j : Part(v, Blank, h, 1, j)
    BY <1>1, <2>1, PartBegins DEF v
  <2>3. Inside' /\ Outside'
    BY <1>2, <1>7, <2>2 DEF Inside, Outside
  <2> QED
    BY <1>2, <1>3, <1>4, <1>6, <1>7, <2>3 DEF OverlayInv
<1>8. CASE r.kind # "begin" /\ omSyncing
  <2>1. PICK h \in Hosts, n \in Nat : \E j : Part(w, omStaging, h, n, j)
    BY <1>8 DEF OverlayInv, Inside, w
  <2>2. PICK j : Part(w, omStaging, h, n, j)
    BY <2>1
  <2> DEFINE d == Described(h)
             L == Len(d)
  <2>3. /\ r = d[n + 1] /\ n + 1 \in 2 .. L
        /\ n + 1 # L => Part(v, Staged(omStaging, r), h, n + 1, j)
        /\ n + 1 = L => omStaging = Onscreen(h)
    BY <1>1, <2>2, PartGoesOn DEF r, v
  <2>4. L \in Nat /\ (r.kind = "end" <=> n + 1 = L)
    <3>1. L \in Nat
      BY DescribedIs
    <3>2. n + 1 \in 1 .. L
      BY <2>3, <3>1
    <3> QED
      BY <2>3, <3>1, <3>2, MarksOf
  <2> HIDE DEF d, L
  <2>5. CASE r.kind = "end"
    <3>1. omSyncing' = FALSE /\ omShown' = omStaging /\ omStaging' = Blank
      BY <1>8, <2>5 DEF OmApply, r, w
    <3>2. omShown' = Onscreen(h)
      BY <2>3, <2>4, <2>5, <3>1
    <3>3. ASSUME v # <<>> PROVE v[1].kind = "begin"
      <4>1. Len(v) >= 1 /\ 1 \in 1 .. Len(v) /\ 1 \in 1 .. (Len(w) - 1)
        BY <1>3, <3>3
      <4>2. w[1].kind = "end"
        BY <1>3, <2>5
      <4>3. w[1 + 1].kind = "begin"
        BY <4>1, <4>2 DEF OverlayInv, OneByOne, w
      <4> QED
        BY <1>3, <4>1, <4>3
    <3>4. Outside' /\ Inside'
      BY <1>2, <3>1, <3>3 DEF Outside, Inside
    <3> QED
      BY <1>2, <1>3, <1>4, <1>6, <3>1, <3>2, <3>4 DEF OverlayInv
  <2>6. CASE r.kind # "end"
    <3>1. omSyncing' = omSyncing /\ omShown' = omShown /\ omStaging' = Staged(omStaging, r)
      BY <1>8, <2>6 DEF OmApply, r, w
    <3>2. Part(v, Staged(omStaging, r), h, n + 1, j)
      BY <2>3, <2>4, <2>6
    <3>3. Inside' /\ Outside'
      BY <1>2, <1>8, <3>1, <3>2 DEF Inside, Outside
    <3> QED
      BY <1>2, <1>3, <1>4, <1>6, <1>8, <3>1, <3>3 DEF OverlayInv
  <2> QED
    BY <2>5, <2>6
<1>9. \/ r.kind = "begin" /\ omSyncing' = TRUE /\ omStaging' = Blank /\ omShown' = omShown
      \/ r.kind # "begin" /\ omSyncing
  BY DEF OmApply, r, w
<1> QED
  BY <1>7, <1>8, <1>9

LEMMA OverlayStep == ASSUME OverlayInv, [OverlayNext]_omVars PROVE OverlayInv'
<1>1. ASSUME UNCHANGED omVars PROVE OverlayInv'
  <2>1. /\ omHost' = omHost /\ omUp' = omUp /\ omDown' = omDown /\ omSyncing' = omSyncing /\ omStaging' = omStaging
        /\ omShown' = omShown /\ omLink' = omLink
    BY <1>1 DEF omVars, omRuntime, omMirror
  <2> QED
    BY <2>1, PipeStays DEF OverlayInv
<1> QED
  BY <1>1, FlushKeepsPipe, HandleKeepsPipe, MoveKeepsPipe, LinkKeepsPipe, EditKeepsPipe, ApplyKeepsPipe DEF OverlayNext

LEMMA OverlayMeans == ASSUME OverlayInv PROVE OverlayTypeOK /\ WholeLists /\ ChunksFit
<1>1. omHost.on \in BOOLEAN /\ omHost.value \in OmLeast .. OmMost /\ omHost.options \in OmLists
  BY DEF OverlayInv, Hosts
<1>2. ~Blank.there
  BY DEF Blank
<1>3. OverlayTypeOK
  <2>1. omStaging.there => omSyncing
    BY <1>2 DEF OverlayInv, Outside
  <2> QED
    BY <1>1, <1>2, <2>1 DEF OverlayInv, OverlayTypeOK
<1>4. WholeLists
  <2>1. \A h \in Hosts : Onscreen(h).options \in OmLists /\ Onscreen(h).value \in OmLeast .. OmMost
    BY DEF Onscreen, Hosts
  <2> QED
    BY <1>2, <2>1 DEF OverlayInv, WholeLists
<1>5. ChunksFit
  <2> SUFFICES ASSUME NEW i \in DOMAIN omDown
               PROVE omDown[i].kind \in {"setting", "options"} => Len(omDown[i].cells) <= 1 \/ Length(omDown[i].cells) <= OmBudget
    BY DEF ChunksFit
  <2>1. omDown[i] \in OmRecords
    BY DEF OverlayInv
  <2> QED
    BY <2>1, RecordIs
<1> QED
  BY <1>3, <1>4, <1>5

(***************************************************************************)
(* What is shown, and what a step never undoes.                            *)
(***************************************************************************)
OverlayHeld == subject = "overlay" => OverlayInv

THEOREM OverlayInductive == Spec => []OverlayHeld
<1>1. Init => OverlayHeld
  BY OverlayBegins DEF Init, OverlayHeld
<1>2. OverlayHeld /\ [Next]_vars => OverlayHeld'
  <2> SUFFICES ASSUME OverlayHeld, [Next]_vars, subject' = "overlay" PROVE OverlayInv'
    BY DEF OverlayHeld
  <2>1. subject = "overlay" /\ [OverlayNext]_omVars
    BY DEF Next, Others, vars
  <2> QED
    BY <2>1, OverlayStep DEF OverlayHeld
<1> QED
  BY <1>1, <1>2, PTL DEF Spec

\* A switch does what is shown of it: over keys, panel, links and seconds in any order no
\* hold outlives what could end it; and what the overlay shows was described to it in one
\* piece, every list whole, over links dropped in the middle and descriptions one behind
\* the other (PluginHotkeys.ts, noclipPlugin.ts, OverlayControlPlane.ts).
THEOREM SwitchesShowTruly == Spec => []SwitchesAreTrue
<1>1. RunHeld /\ OverlayHeld => SwitchesAreTrue
  <2>1. RunHeld => (subject = "plugins" => NoHoldOutlivesLink /\ HoldFollowsSetting /\ BudgetWhileAwake /\ MirrorsHost)
    BY RunMeans DEF RunHeld
  <2>2. OverlayHeld => (subject = "overlay" => WholeLists /\ ChunksFit)
    BY OverlayMeans DEF OverlayHeld
  <2> QED
    BY <2>1, <2>2 DEF SwitchesAreTrue
<1> QED
  BY <1>1, RunInductive, OverlayInductive, PTL

(***************************************************************************)
(* What the rest of the type invariants and of the steps asks.             *)
(***************************************************************************)
\* Whoever has been heard of has gone, and nobody comes back.
Heard == unsniffed \subseteq Client /\ client \in [Client -> Phase] /\ \A c \in Client : c \in heard => client[c] = "gone"
HeardHeld == subject = "life" => Heard

LEMMA EndedHeard ==
  ASSUME Heard, NEW cs \in SUBSET Client, Ended(cs), unsniffed' \subseteq Client
  PROVE /\ Heard'
        /\ \A c \in Client : client[c] = "session" /\ client'[c] = "gone" => c \in heard' /\ c \notin heard
  BY DEF Heard, Ended, Phase

LEMMA StaysHeard ==
  ASSUME Heard, heard' = heard, unsniffed' = unsniffed, client' \in [Client -> Phase],
         \A c \in Client : client[c] = "gone" <=> client'[c] = "gone"
  PROVE /\ Heard'
        /\ \A c \in Client : client[c] = "session" /\ client'[c] = "gone" => c \in heard' /\ c \notin heard
  BY DEF Heard

LEMMA LifeHears ==
  ASSUME Heard, known = {c \in Client : client[c] = "session"}, [LifeNext]_lifeVars
  PROVE /\ Heard'
        /\ \A c \in Client : client[c] = "session" /\ client'[c] = "gone" => c \in heard' /\ c \notin heard
<1>1. client \in [Client -> Phase] /\ unsniffed \subseteq Client
  BY DEF Heard
<1>2. ASSUME client' = client, heard' = heard, unsniffed' = unsniffed
      PROVE /\ Heard'
            /\ \A c \in Client : client[c] = "session" /\ client'[c] = "gone" => c \in heard' /\ c \notin heard
  BY <1>1, <1>2, StaysHeard
<1>3. ASSUME NEW c \in Client, Accept(c) \/ Probe(c) \/ Open(c)
      PROVE /\ Heard'
            /\ \A d \in Client : client[d] = "session" /\ client'[d] = "gone" => d \in heard' /\ d \notin heard
  <2>1. /\ client[c] # "gone" /\ heard' = heard /\ unsniffed' = unsniffed
        /\ \E to \in {"sniffing", "policy", "session"} : client' = [client EXCEPT ![c] = to]
    BY <1>3 DEF Accept, Probe, Open
  <2>2. client' \in [Client -> Phase] /\ \A d \in Client : client[d] = "gone" <=> client'[d] = "gone"
    BY <1>1, <2>1 DEF Phase
  <2> QED
    BY <2>1, <2>2, StaysHeard
<1>4. ASSUME NEW c \in Client, HangUp(c) \/ SocketError(c)
      PROVE /\ Heard'
            /\ \A d \in Client : client[d] = "session" /\ client'[d] = "gone" => d \in heard' /\ d \notin heard
  <2>1. Ended({c}) /\ unsniffed' \subseteq Client
    BY <1>1, <1>4 DEF HangUp, SocketError
  <2> QED
    BY <2>1, EndedHeard
<1>5. ASSUME StopClose
      PROVE /\ Heard'
            /\ \A d \in Client : client[d] = "session" /\ client'[d] = "gone" => d \in heard' /\ d \notin heard
  <2>1. Ended(known) /\ unsniffed' \subseteq Client /\ known \in SUBSET Client
    BY <1>5 DEF StopClose
  <2> QED
    BY <2>1, EndedHeard
<1>6. \/ \E c \in Client : Accept(c) \/ Probe(c) \/ Open(c)
      \/ \E c \in Client : HangUp(c) \/ SocketError(c)
      \/ StopClose
      \/ client' = client /\ heard' = heard /\ unsniffed' = unsniffed
  BY DEF LifeNext, lifeVars, StartStage, Listen, StartFails, Signal, StopStep, StopEvidence, StopDrained, StopDispose,
         StopPreferences, StopPipe, StopKey, RevokeFails, NoNative, PublishKey, ListenPipe, NativeFails
<1> QED
  BY <1>2, <1>3, <1>4, <1>5, <1>6

THEOREM HeardInductive == Spec => []HeardHeld
<1>1. Init => HeardHeld
  BY DEF Init, HeardHeld, LifeInit, Heard, Phase
<1>2. HeardHeld /\ LifeHeld /\ [Next]_vars => HeardHeld'
  <2> SUFFICES ASSUME HeardHeld, LifeHeld, [Next]_vars, subject' = "life" PROVE Heard'
    BY DEF HeardHeld
  <2>1. subject = "life" /\ [LifeNext]_lifeVars
    BY DEF Next, Others, vars
  <2>2. Heard /\ known = {c \in Client : client[c] = "session"}
    BY <2>1 DEF HeardHeld, LifeHeld, Standing, Bound
  <2> QED
    BY <2>1, <2>2, LifeHears
<1> QED
  BY <1>1, <1>2, LifeInductive, PTL DEF Spec

\* The types of every part, and that the map of sessions holds those that are one.
THEOREM RuntimeTyped == Spec => []RuntimeTypes
<1>1. LoaderHeld /\ FileHeld /\ LifeHeld /\ HeardHeld /\ RunHeld /\ SettingsHeld /\ OverlayHeld /\ ReentryHeld => RuntimeTypes
  <2>1. LoaderHeld => (subject = "loader" => LoaderTypeOK)
    BY DEF LoaderHeld, LoaderInv
  <2>2. FileHeld => (subject = "preferences" => PrefTypeOK)
    BY DEF FileHeld, Ordered
  <2>3. LifeHeld /\ HeardHeld => (subject = "life" => LifeTypeOK)
    BY DEF LifeHeld, HeardHeld, Heard, Standing, Bound, LifeTypeOK
  <2>4. RunHeld => (subject = "plugins" => RuntimeTypeOK)
    BY RunMeans DEF RunHeld
  <2>5. SettingsHeld => (subject = "settings" => SettingsTypeOK)
    BY DEF SettingsHeld, SettingsInv
  <2>6. OverlayHeld => (subject = "overlay" => OverlayTypeOK)
    BY OverlayMeans DEF OverlayHeld
  <2>7. ReentryHeld => (subject = "reentry" => ReentryTypeOK)
    BY ReentryMeans DEF ReentryHeld
  <2> QED
    BY <2>1, <2>2, <2>3, <2>4, <2>5, <2>6, <2>7 DEF RuntimeTypes
<1> QED
  BY <1>1, LoaderInductive, FileInductive, LifeInductive, HeardInductive, RunInductive, SettingsInductive, OverlayInductive,
     ReentryInductive, PTL

\* A plugin is told the end of every session it was given, once, whoever ended it
\* (ProxyServer.ts, onClosed).
THEOREM EndsAreHeard == Spec => EverySessionEndHeard
<1>1. HeardHeld /\ LifeHeld /\ [Next]_vars =>
        [\A c \in Client: client[c] = "session" /\ client'[c] = "gone"
           => c \in heard' /\ c \notin heard]_lifeVars
  <2> SUFFICES ASSUME HeardHeld, LifeHeld, [Next]_vars, lifeVars' # lifeVars,
                      NEW c \in Client, client[c] = "session", client'[c] = "gone"
               PROVE c \in heard' /\ c \notin heard
    OBVIOUS
  <2>1. subject = "life" /\ [LifeNext]_lifeVars
    BY DEF Next, Others, vars
  <2>2. Heard /\ known = {d \in Client : client[d] = "session"}
    BY <2>1 DEF HeardHeld, LifeHeld, Standing, Bound
  <2> QED
    BY <2>1, <2>2, LifeHears
<1> QED
  BY <1>1, HeardInductive, LifeInductive, PTL DEF Spec, EverySessionEndHeard

THEOREM FileNeverBack == Spec => NeverBack
<1>1. FileHeld /\ [Next]_vars => [(file \in Document /\ file' # file) => (file' \in Document /\ file' > file)]_prefVars
  <2> SUFFICES ASSUME FileHeld, [Next]_vars, prefVars' # prefVars, file \in Document, file' # file
               PROVE  file' \in Document /\ file' > file
    OBVIOUS
  <2>1. subject = "preferences" /\ PrefNext /\ Ordered
    BY DEF Next, Others, vars, FileHeld
  <2> QED
    BY <2>1, StepForward
<1> QED
  BY <1>1, FileInductive, PTL DEF Spec, NeverBack

\* No step undoes what it may not: a newer file, a chosen preset, the choices of a run,
\* the switch under a hold, the ends of sessions and the pace of a lane.
THEOREM NeverUndone == Spec => NothingUndone
  BY FileNeverBack, EndsAreHeard, PresetsTake, RestartsKeep, HoldsPutBack, KeepsPace, PTL DEF NothingUndone
==============================================================================
