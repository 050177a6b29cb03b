----------------------------- MODULE NativeLink -----------------------------
(***************************************************************************)
(* The link between the runtime and the module it injects into the game:   *)
(* NativeLink.ts and NativePipeServer.ts at one end, ipc/Session.cpp and   *)
(* the reconnect loop of app/Engine.cpp at the other, a named pipe between *)
(* them, and the key file the module reads before it connects.             *)
(*                                                                         *)
(* Both ends are the ones in this repository: they differ in what secret   *)
(* they hold, never in what they would say.  A signature is the secret it  *)
(* was made with.  What the runtime queues in a turn of its event loop it  *)
(* writes before the turn is over, so a message sent is on the pipe; when  *)
(* an end goes away what the other has not read yet may be lost.           *)
(***************************************************************************)
EXTENDS Integers, Sequences, FiniteSets, SequencesExt

CONSTANTS
  Slot,        \* instances of the pipe: a small set of numbers
  Key,         \* the features
  Unset,       \* no value, no transport, no secret
  MaxSeq,      \* the last sequence number before the wrap to 1
  MaxMisses,   \* HEARTBEAT_MAX_MISSES
  MaxRuns,     \* bound: times the runtime is started
  MaxSets,     \* bound: calls of setFeature
  MaxBeats,    \* bound: heartbeats sent
  MaxEvents,   \* bound: hotkeys, actions, frames and targets the module sends
  MaxDrops,    \* bound: times the module lets go of its own accord
  MaxLate      \* bound: connections that arrive before an earlier one's 'close'

ASSUME NativeAssumption ==
  /\ IsFiniteSet(Key)
  /\ MaxSeq \in Nat \ {0} /\ MaxMisses \in Nat \ {0}
  /\ {MaxRuns, MaxSets, MaxBeats, MaxEvents, MaxDrops, MaxLate} \subseteq Nat
  /\ Unset \notin Slot \cup Nat

VARIABLES
  \* The runtime.
  up,        \* "down", "starting" (its key is published) or "up" (it listens)
  run,       \* which run of it this is; the secret of a run is its number
  link,      \* what NativeLink keeps of a connection
  features,  \* #features: what each was set to last
  heard,     \* what connected and disconnected listeners were told last
  why,       \* why the link ended last
  keyFile,   \* the secret at sessionKeyPath
  \* The pipe: what each end of an instance still has of it, and what is on it.
  pipe,
  \* The module.
  module, applied, whyModule,
  \* What the bounds count.
  sets, beats, events, drops, late

counters == <<sets, beats, events, drops, late>>
runtimeVars == <<up, run, link, features, heard, why, keyFile>>
moduleVars == <<module, applied, whyModule>>
vars == <<runtimeVars, pipe, moduleVars, counters>>

Link == [transport : Slot \cup {Unset}, challenged : BOOLEAN, authenticated : BOOLEAN,
         last : 0..MaxSeq,        \* SequenceGuard
         sent : 0..MaxSeq,        \* SequenceSource
         pong : 0..MaxBeats,      \* the ping whose answer is awaited, 0 for none
         misses : 0..MaxMisses]

Module == [state : {"disconnected", "authenticating", "ready"}, slot : Slot \cup {Unset},
           secret : (1..MaxRuns) \cup {Unset}, last : 0..MaxSeq, sent : 0..MaxSeq]

\* A frame: its kind, its number, and the secret, ping or setting it carries.
Frame(kind, seq, about) == [kind |-> kind, seq |-> seq, about |-> about]

\* server: "free", then "queued" until the connection event, "open", "destroyed"
\* until its 'close' event, "closed".  client: whether the module's end is open.
NoPipe == [server |-> "free", client |-> FALSE, toRuntime |-> << >>, toModule |-> << >>]

NoLink == [transport |-> Unset, challenged |-> FALSE, authenticated |-> FALSE,
           last |-> 0, sent |-> 0, pong |-> 0, misses |-> 0]

Away == [state |-> "disconnected", slot |-> Unset, secret |-> Unset, last |-> 0, sent |-> 0]

\* Broken variant: the counter simply grows.
UnwrappedSeq(n) == IF n > MaxSeq THEN 1 ELSE n + 1

NextSeq(n) == IF n >= MaxSeq THEN 1 ELSE n + 1

\* The number of the i-th frame after the n-th: nextSeq, i times.
SeqAfter(n, i) == IF i = 0 THEN n ELSE ((n + i - 1) % MaxSeq) + 1

-----------------------------------------------------------------------------
(* The runtime's end as one value: [link, heard, why, pipe].               *)

Now == [link |-> link, heard |-> heard, why |-> why, pipe |-> pipe]

Becomes(S) == link' = S.link /\ heard' = S.heard /\ why' = S.why /\ pipe' = S.pipe

Destroyed(p) == [p EXCEPT !.server = IF @ = "open" THEN "destroyed" ELSE @, !.toRuntime = << >>]

\* Broken variant: the transport is forgotten and left open.
LeavingDisconnected(S, reason) ==
  IF S.link.transport = Unset THEN S
  ELSE [S EXCEPT !.link = [NoLink EXCEPT !.last = S.link.last, !.sent = S.link.sent],
                 !.heard = IF S.link.authenticated THEN "gone" ELSE S.heard, !.why = reason]

\* disconnect(reason).  The sequence numbers are left where they were.
Disconnected(S, reason) ==
  IF S.link.transport = Unset THEN S
  ELSE [link |-> [S.link EXCEPT !.transport = Unset, !.challenged = FALSE,
                                !.authenticated = FALSE, !.pong = 0],
        heard |-> IF S.link.authenticated THEN "gone" ELSE S.heard,
        why |-> reason,
        pipe |-> [S.pipe EXCEPT ![S.link.transport] = Destroyed(@)]]

\* #send, of one message after another: nothing without a transport, and only
\* the challenge before the peer has proved itself.
SentAll(S, kind, abouts) ==
  LET t == S.link.transport
      frames == [i \in DOMAIN abouts |-> Frame(kind, SeqAfter(S.link.sent, i), abouts[i])]
  IN  IF t = Unset \/ S.pipe[t].server # "open" \/ (~S.link.authenticated /\ kind # "challenge")
      THEN S
      ELSE [link |-> [S.link EXCEPT !.sent = SeqAfter(@, Len(abouts))],
            heard |-> S.heard, why |-> S.why,
            pipe |-> [S.pipe EXCEPT ![t].toModule = @ \o frames]]

Sent(S, kind, about) == SentAll(S, kind, <<about>>)

\* What the module is told again once it has authenticated: every key set.
Asked == SetToSeq({k \in Key : features[k] # Unset})
Replayed(S) == SentAll(S, "set", [i \in DOMAIN Asked |-> <<Asked[i], features[Asked[i]]>>])

\* #onAuthResult, once the answer has been verified.
Proved(S) ==
  LET T == Replayed([S EXCEPT !.link.challenged = FALSE, !.link.authenticated = TRUE])
  IN  [link |-> T.link, heard |-> "here", why |-> T.why, pipe |-> T.pipe]

\* #onPong.  An answer to an earlier ping is a wrong answer.
Answered(S, about) ==
  IF S.link.pong = 0 THEN S
  ELSE IF about = <<S.link.pong, run>> THEN [S EXCEPT !.link.pong = 0, !.link.misses = 0]
  ELSE Disconnected(S, "bad heartbeat response")

\* #dispatch, of what this module can send.
Dispatched(S, f) ==
  CASE f.kind = "hello" ->
         IF S.link.authenticated THEN Disconnected(S, "unexpected hello")
         ELSE Sent([S EXCEPT !.link.challenged = TRUE], "challenge", run)
    [] f.kind = "authResult" ->
         IF S.link.challenged /\ f.about = run THEN Proved(S)
         ELSE Disconnected(S, "authentication failed")
    [] f.kind = "pong" -> Answered(S, f.about)
    [] f.kind = "event" ->
         IF S.link.authenticated THEN S ELSE Disconnected(S, "data before authentication")

\* #consume, of one frame.
Consumed(S, f) ==
  IF f.seq # NextSeq(S.link.last) THEN Disconnected(S, "protocol error")
  ELSE Dispatched([S EXCEPT !.link.last = f.seq], f)

\* Broken variant: the new connection goes on counting where the old one was.
RecountingAdopted(S, t) == [S EXCEPT !.link = [NoLink EXCEPT !.transport = t, !.sent = S.link.sent],
                                     !.pipe[t].server = "open"]

\* accept, of a transport there is room for.
Adopted(S, t) == [link |-> [NoLink EXCEPT !.transport = t], heard |-> S.heard, why |-> S.why,
                  pipe |-> [S.pipe EXCEPT ![t].server = "open"]]

-----------------------------------------------------------------------------
(* The runtime.                                                            *)

Init ==
  /\ up = "down" /\ run = 0
  /\ link = NoLink /\ heard = "gone" /\ why = "new"
  /\ features = [k \in Key |-> Unset]
  /\ keyFile = Unset
  /\ pipe = [t \in Slot |-> NoPipe]
  /\ module = Away /\ whyModule = "new"
  /\ applied = [k \in Key |-> Unset]
  /\ sets = 0 /\ beats = 0 /\ events = 0 /\ drops = 0 /\ late = 0

\* Application.start: the run's secret is published before the pipe listens.
Start ==
  /\ up = "down" /\ run < MaxRuns
  /\ up' = "starting" /\ run' = run + 1
  /\ link' = NoLink /\ heard' = "gone" /\ why' = "new"
  /\ features' = [k \in Key |-> Unset]
  /\ keyFile' = run'
  /\ UNCHANGED <<pipe, moduleVars, counters>>

Listen ==
  /\ up = "starting"
  /\ up' = "up"
  /\ UNCHANGED <<run, link, features, heard, why, keyFile, pipe, moduleVars, counters>>

Hangup == [t \in Slot |-> IF pipe[t].server = "free" THEN pipe[t]
                          ELSE [pipe[t] EXCEPT !.server = "closed", !.toRuntime = << >>]]

\* NativePipeServer.close at the end of Application.stop, and the key removed.
Stop ==
  /\ up = "up"
  /\ up' = "down"
  /\ LET S == Disconnected(Now, "runtime shutting down")
     IN link' = S.link /\ heard' = S.heard /\ why' = S.why
  /\ pipe' = Hangup
  /\ keyFile' = Unset
  /\ UNCHANGED <<run, features, moduleVars, counters>>

\* The process is killed; its key stays behind.
Crash ==
  /\ up # "down"
  /\ up' = "down"
  /\ link' = NoLink /\ heard' = "gone" /\ why' = "killed"
  /\ pipe' = Hangup
  /\ UNCHANGED <<run, features, keyFile, moduleVars, counters>>

\* The pipe server's connection event: accept.
Accept(t) ==
  /\ up = "up" /\ pipe[t].server = "queued"
  /\ IF link.transport # Unset /\ pipe[link.transport].server = "open"
     THEN /\ pipe' = [pipe EXCEPT ![t].server = "closed", ![t].toRuntime = << >>]
          /\ UNCHANGED <<link, heard, why>>
     ELSE Becomes(Adopted(Now, t))
  /\ LET ending == \E u \in Slot : pipe[u].server = "destroyed"
     IN (ending => late < MaxLate) /\ late' = late + (IF ending THEN 1 ELSE 0)
  /\ UNCHANGED <<up, run, features, keyFile, moduleVars, sets, beats, events, drops>>

\* A chunk of the peer's, one frame of it.
Receive(t) ==
  /\ pipe[t].server = "open" /\ pipe[t].toRuntime # << >>
  /\ Becomes(Consumed([Now EXCEPT !.pipe[t].toRuntime = Tail(@)], Head(pipe[t].toRuntime)))
  /\ UNCHANGED <<up, run, features, keyFile, moduleVars, counters>>

\* The peer's end is gone and all it wrote is read: Node destroys the socket.
PeerEnds(t) ==
  /\ pipe[t].server = "open" /\ ~pipe[t].client /\ pipe[t].toRuntime = << >>
  /\ pipe' = [pipe EXCEPT ![t] = Destroyed(@)]
  /\ UNCHANGED <<runtimeVars, moduleVars, counters>>

\* Later, 'error' or 'close' of a socket this link adopted.  The listener ends
\* whatever connection the link has by then.
CloseEvent(t) ==
  /\ pipe[t].server = "destroyed"
  /\ Becomes(Disconnected([Now EXCEPT !.pipe[t].server = "closed"], "peer closed"))
  /\ UNCHANGED <<up, run, features, keyFile, moduleVars, counters>>

\* setFeature, by a plugin, at any moment: plugins load before the pipe listens.  What it is set to is told apart from
\* everything before: the number of the call.
SetFeature(k) ==
  /\ up # "down" /\ sets < MaxSets
  /\ sets' = sets + 1
  /\ features' = [features EXCEPT ![k] = sets']
  /\ Becomes(Sent(Now, "set", <<k, sets'>>))
  /\ UNCHANGED <<up, run, keyFile, moduleVars, beats, events, drops, late>>

\* The interval of #startHeartbeat.
Beat ==
  /\ link.authenticated /\ beats < MaxBeats
  /\ beats' = beats + 1
  /\ LET missed == link.misses + (IF link.pong # 0 THEN 1 ELSE 0)
     IN IF link.pong # 0 /\ missed >= MaxMisses
        THEN Becomes(Disconnected(Now, "unanswered heartbeats"))
        ELSE Becomes(Sent([Now EXCEPT !.link.misses = missed, !.link.pong = beats'], "ping", beats'))
  /\ UNCHANGED <<up, run, features, keyFile, moduleVars, sets, events, drops, late>>

-----------------------------------------------------------------------------
(* The module.  Its loop (Engine::Turn) reads the key and connects when it *)
(* has no session, and reads the pipe when it has one.                     *)

\* ReadSessionKey.
ReadKey ==
  /\ module.state = "disconnected" /\ keyFile # Unset
  /\ module' = [module EXCEPT !.secret = keyFile]
  /\ UNCHANGED <<runtimeVars, pipe, applied, whyModule, counters>>

\* Session::Connect with the key just read.  No pipe to open: read it again.
Connect ==
  /\ module.state = "disconnected" /\ module.secret # Unset
  /\ IF up = "up"
     THEN \E t \in Slot :
            /\ pipe[t] = NoPipe
            /\ pipe' = [pipe EXCEPT ![t].server = "queued", ![t].client = TRUE,
                                    ![t].toRuntime = <<Frame("hello", 1, 0)>>]
            /\ module' = [module EXCEPT !.state = "authenticating", !.slot = t, !.sent = 1]
     ELSE module' = Away /\ UNCHANGED pipe
  /\ UNCHANGED <<runtimeVars, applied, whyModule, counters>>

\* Disconnect: everything about the peer is forgotten, what it asked for is not.
Left(reason) ==
  /\ module' = Away
  /\ whyModule' = reason
  /\ pipe' = [pipe EXCEPT ![module.slot].client = FALSE, ![module.slot].toModule = << >>]

\* Session::Send, behind what the module has just read.
Say(m, kind, about) ==
  /\ module' = [m EXCEPT !.sent = NextSeq(@)]
  /\ pipe' = [pipe EXCEPT ![m.slot].toModule = Tail(@),
                          ![m.slot].toRuntime = IF pipe[m.slot].server \in {"queued", "open"}
                            THEN Append(@, Frame(kind, NextSeq(m.sent), about)) ELSE @]
  /\ UNCHANGED whyModule

\* HandleAuthChallenge, of one in time.
Challenge(m, f) ==
  IF f.about = m.secret THEN Say([m EXCEPT !.state = "ready"], "authResult", m.secret)
  ELSE Left("unproved runtime")

\* Session::Poll, of one frame.
Poll ==
  /\ module.state # "disconnected" /\ pipe[module.slot].toModule # << >>
  /\ LET f == Head(pipe[module.slot].toModule)
         m == [module EXCEPT !.last = f.seq]
         expected == f.seq = NextSeq(module.last)
     IN \/ /\ ~expected
           /\ Left("gap") /\ UNCHANGED applied
        \/ /\ expected /\ f.kind = "challenge" /\ m.state = "authenticating"
           /\ Challenge(m, f) /\ UNCHANGED applied
        \/ /\ expected /\ f.kind = "ping" /\ m.state = "ready"
           /\ Say(m, "pong", <<f.about, m.secret>>) /\ UNCHANGED applied
        \/ /\ expected /\ f.kind = "set" /\ m.state = "ready"
           /\ module' = m
           /\ applied' = [applied EXCEPT ![f.about[1]] = f.about[2]]
           /\ pipe' = [pipe EXCEPT ![m.slot].toModule = Tail(@)]
           /\ UNCHANGED whyModule
        \/ /\ expected /\ (f.kind = "challenge") # (m.state = "authenticating")
           /\ Left("out of turn") /\ UNCHANGED applied
  /\ UNCHANGED <<runtimeVars, counters>>

\* Poll finds the pipe broken, with or without having read all of it.
PipeBroken ==
  /\ module.state # "disconnected" /\ pipe[module.slot].server \in {"destroyed", "closed"}
  /\ Left("lost")
  /\ UNCHANGED <<runtimeVars, applied, counters>>

\* A key pressed, an action of the overlay's, a frame of what the client sees.
SendEvent ==
  /\ module.state = "ready" /\ events < MaxEvents
  /\ events' = events + 1
  /\ module' = [module EXCEPT !.sent = NextSeq(@)]
  /\ pipe' = [pipe EXCEPT ![module.slot].toRuntime =
                IF pipe[module.slot].server = "open"
                THEN Append(@, Frame("event", NextSeq(module.sent), 0)) ELSE @]
  /\ UNCHANGED <<runtimeVars, applied, whyModule, sets, beats, drops, late>>

\* The pipe fails under the module, or the game is closed and started again.
Drop ==
  /\ module.state # "disconnected" /\ drops < MaxDrops
  /\ drops' = drops + 1
  /\ Left("lost")
  /\ \/ UNCHANGED applied
     \/ applied' = [k \in Key |-> Unset]
  /\ UNCHANGED <<runtimeVars, sets, beats, events, late>>

\* Both ends of an instance are closed: it can be opened again.
Freed(t) ==
  /\ pipe[t].server = "closed" /\ ~pipe[t].client
  /\ pipe' = [pipe EXCEPT ![t] = NoPipe]
  /\ UNCHANGED <<runtimeVars, moduleVars, counters>>

Next ==
  \/ Start \/ Listen \/ Stop \/ Crash \/ Beat
  \/ \E t \in Slot : Accept(t) \/ Receive(t) \/ PeerEnds(t) \/ CloseEvent(t) \/ Freed(t)
  \/ \E k \in Key : SetFeature(k)
  \/ ReadKey \/ Connect \/ Poll \/ PipeBroken \/ SendEvent \/ Drop

Spec == Init /\ [][Next]_vars

\* Both event loops run and the operating system delivers.  Nobody is obliged
\* to start the runtime, set a feature, beat or send anything.
FairSpec ==
  /\ Spec
  /\ WF_vars(Listen) /\ WF_vars(ReadKey) /\ WF_vars(Connect) /\ WF_vars(Poll) /\ WF_vars(PipeBroken)
  /\ \A t \in Slot : /\ WF_vars(Accept(t)) /\ WF_vars(Receive(t))
                     /\ WF_vars(PeerEnds(t)) /\ WF_vars(CloseEvent(t)) /\ WF_vars(Freed(t))

-----------------------------------------------------------------------------
(* Properties.                                                             *)

ToRuntime == {"hello", "authResult", "pong", "event"}
ToModule == {"challenge", "set", "ping"}

TypeOK ==
  /\ up \in {"down", "starting", "up"} /\ run \in 0..MaxRuns
  /\ link \in Link
  /\ {features, applied} \subseteq [Key -> (1..MaxSets) \cup {Unset}]
  /\ heard \in {"here", "gone"}
  /\ keyFile \in (1..MaxRuns) \cup {Unset}
  /\ module \in Module
  /\ \A t \in Slot :
       /\ pipe[t].server \in {"free", "queued", "open", "destroyed", "closed"}
       /\ pipe[t].client \in BOOLEAN
       /\ \A f \in ToSet(pipe[t].toRuntime) : f.kind \in ToRuntime /\ f.seq \in 1..MaxSeq
       /\ \A f \in ToSet(pipe[t].toModule) : f.kind \in ToModule /\ f.seq \in 1..MaxSeq

\* The two ends are talking over this instance.
Joined(t) == link.transport = t /\ pipe[t].server = "open" /\ module.slot = t

\* Frames q bring a counter that stood at n to m, one by one.
Bring(q, n, m) ==
  /\ \A i \in DOMAIN q : q[i].seq = NextSeq(IF i = 1 THEN n ELSE q[i - 1].seq)
  /\ m = IF q = << >> THEN n ELSE q[Len(q)].seq

\* Neither end ever sees a gap: what is on the pipe continues what was read, in
\* both directions, across refusals, reconnections and the wrap of the counter.
InSequence ==
  \A t \in Slot : Joined(t) =>
    /\ Bring(pipe[t].toRuntime, link.last, module.sent)
    /\ Bring(pipe[t].toModule, module.last, link.sent)

\* Whoever is trusted on either side holds the secret of this very run: no key
\* left behind by an earlier one opens anything.
TrustIsMutual ==
  \A t \in Slot : Joined(t) =>
    /\ module.state = "ready" => module.secret = run
    /\ link.authenticated => module.state = "ready"

\* "A plugin sets a key once and never has to watch the connection": once the
\* module has authenticated, what it has applied and what is on its way to it
\* amount to what the plugins asked for last, whenever they asked.
Sets(q, k) == {i \in DOMAIN q : q[i].kind = "set" /\ q[i].about[1] = k}
Settled(q, k, old, new) ==
  IF Sets(q, k) = {} THEN old = new
  ELSE \E i \in Sets(q, k) : q[i].about[2] = new /\ \A j \in Sets(q, k) : j <= i
FeaturesReach ==
  \A t \in Slot : Joined(t) /\ link.authenticated =>
    \A k \in Key : features[k] # Unset => Settled(pipe[t].toModule, k, applied[k], features[k])

\* Two ends of this repository never accuse each other of breaking the
\* protocol, whichever way starts, restarts, refusals and losses fall.
NobodyAccused ==
  /\ why \notin {"protocol error", "unexpected hello", "data before authentication",
                 "authentication failed"}
  /\ whyModule \notin {"gap", "out of turn"}

\* The two ends agree on the numbers, the secret and the features, and on nobody
\* having broken the protocol.
NeverAtOdds == InSequence /\ TrustIsMutual /\ FeaturesReach /\ NobodyAccused

\* Once the runtime stays up, the two find each other and the module does what
\* the plugins asked for, however often they lost each other before.
InTouch ==
  /\ \E t \in Slot : Joined(t)
  /\ link.authenticated
  /\ \A k \in Key : features[k] # Unset => applied[k] = features[k]
Reunited == <>[](up = "up") => <>[]InTouch

\* NativeLink.ts:54 says of onDisconnected "The module going away, however it
\* went".  A connection adopted between the end of the one before it and that
\* one's 'close' makes the listeners miss it.
DeparturesTold == link.transport = Unset => heard = "gone"
=============================================================================
