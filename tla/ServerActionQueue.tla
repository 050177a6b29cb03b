------------------------- MODULE ServerActionQueue -------------------------
(***************************************************************************)
(* One session's outbound queue: apps/runtime/src/outbound.                *)
(*                                                                         *)
(* Plugins submit paced packets; the queue puts each on the wire only      *)
(* straight behind a message of the game client, at most one per lane at a *)
(* time, spaced from what the lane carried before it, quiet after the      *)
(* server's FAILURE, and tells every caller once how its request ended.    *)
(*                                                                         *)
(* Every entry point of the queue is one action, the pump it ends with     *)
(* included: JavaScript runs an entry point to completion.  The handlers   *)
(* it calls back (onSent, onOutcome, confirm) are taken not to call the    *)
(* queue back.  A packet the lane table does not name is sent during       *)
(* submit and touches nothing of this.                                     *)
(***************************************************************************)
EXTENDS Integers, Sequences, FiniteSets

CONSTANTS
  Lane,               \* the sets of packets the server counts together
  ItemLane,           \* the lane of what moves or uses an item
  Kind,               \* the paced packet names of the lane table
  LaneOf,             \* [Kind -> Lane]
  Spacing,            \* [Kind -> Nat], the least time either side of a packet
  Rank,               \* [Lane -> Nat], the order the lanes are walked in
  Key,                \* the intents callers name
  None,               \* "undefined": no key, nothing in flight, no timer
  Asks,               \* what callers ask for: packets with their SendOptions
  MaxQueuedPerLane,
  FailureAttribution, \* how long a FAILURE is taken to be about what was sent
  FailureHold,        \* the hold of a first FAILURE; doubles
  MaxFailureHold,
  FailureCalm,        \* quiet time that breaks a streak of FAILUREs
  ConfirmPoll,
  WakeEpsilon,        \* do not rebuild a timer this close to the one set
  Never,              \* far enough in the past that nothing waits for it
  MaxRequests,        \* bound: requests submitted in a behaviour
  MaxPlayer,          \* bound: the player's own packets in one lane
  MaxFailures,        \* bound: FAILUREs
  MaxMaps,            \* bound: MAPINFOs
  LastSubmit,         \* bound: no request is submitted after this time
  MaxTime             \* bound: the clock stops here

ASSUME LaneAssumption ==
  /\ LaneOf \in [Kind -> Lane]
  /\ Spacing \in [Kind -> Nat]
  /\ Rank \in [Lane -> Nat]
  /\ \A l, m \in Lane : Rank[l] = Rank[m] => l = m
  /\ ItemLane \in Lane

\* A packet and its SendOptions.  options.confirm is `watched`, and `encodes`
\* says whether the packet can be built from the fields it was given.
Ask == [kind : Kind, priority : Nat, key : Key \cup {None}, expiresIn : Nat,
        watched : BOOLEAN, window : Nat \ {0}, encodes : BOOLEAN]

ASSUME AskAssumption == Asks \subseteq Ask

ASSUME TuningAssumption ==
  /\ MaxQueuedPerLane \in Nat \ {0}
  /\ {FailureAttribution, FailureHold, MaxFailureHold, FailureCalm} \subseteq Nat
  /\ {ConfirmPoll, WakeEpsilon} \subseteq Nat
  /\ Never \in Int /\ Never < 0
  /\ \A k \in Kind : Never + Spacing[k] <= 0

ASSUME BoundAssumption ==
  {MaxRequests, MaxPlayer, MaxFailures, MaxMaps, LastSubmit, MaxTime} \subseteq Nat

Id == 1..MaxRequests

ASSUME NoneAssumption == None \notin Id /\ None \notin Int /\ None \notin Key

VARIABLES
  now,           \* the wall clock
  closed,
  sequence,      \* how many requests have been submitted
  req,           \* what each asked for
  status,        \* "new", "open", or the outcome its caller was told
  lane,          \* the lanes' LaneState
  holdUntil, failureStreak, lastFailureAt,
  wakeAt,        \* when the timer is due, or None
  \* What an observer at the game server's end of the connection sees.
  wire,          \* [Lane -> sequence of the paced packets it was sent]
  flushing,      \* the client's last packet was a shot acknowledgement
  complaints,    \* its FAILUREs: when, and the hold each one asked for
  maps           \* how many times the map has changed

callerVars == <<sequence, req>>
failureVars == <<holdUntil, failureStreak, lastFailureAt>>
observerVars == <<flushing, complaints, maps>>
vars == <<now, closed, sequence, req, status, lane, holdUntil, failureStreak,
          lastFailureAt, wakeAt, wire, flushing, complaints, maps>>

-----------------------------------------------------------------------------
(* Vocabulary.                                                             *)

Max2(a, b) == IF a >= b THEN a ELSE b
Min2(a, b) == IF a <= b THEN a ELSE b

\* The outcomes of a request that reached the wire, and of one that did not.
SentOutcome == {"sent", "confirmed", "unconfirmed", "refused"}
UnsentOutcome == {"expired", "superseded", "dropped"}
Outcome == SentOutcome \cup UnsentOutcome

\* A QueuedAction, and where in the conversation it was asked for: behind how
\* many packets of its lane, and on which map.
Request == [kind : Kind, priority : Nat, key : Key \cup {None}, expiresAt : Int,
            watched : BOOLEAN, window : Nat \ {0}, encodes : BOOLEAN,
            behind : Nat, map : Nat]

LaneState == [queued : SUBSET Id, inFlight : Id \cup {None}, sentAt : Int,
              deadline : Int, lastSent : Int, spacing : Nat]

\* The entry points a packet could leave from.
Moment == {"message", "server", "timer", "plugin"}

\* A packet on the wire: `by` names whose it is; the rest says where in the
\* conversation it went out.
WireEvent == [by : Id \cup {None}, kind : Kind, at : Int, behind : Moment,
              flushing : BOOLEAN, complaints : Nat, map : Nat]

\* #next: the most wanted request of Q, the oldest among equals (as a set of
\* at most one).
MostWanted(Q, r) ==
  {i \in Q : \A j \in Q : \/ r[j].priority < r[i].priority
                          \/ r[j].priority = r[i].priority /\ i <= j}

\* #trim: the least wanted request of Q, the oldest among equals.
LeastWanted(Q, r) ==
  {i \in Q : \A j \in Q : \/ r[i].priority < r[j].priority
                          \/ r[j].priority = r[i].priority /\ i <= j}

-----------------------------------------------------------------------------
(* The pump.  It walks the lanes; what it does to one depends on that lane *)
(* alone.  s is a lane before the pump, r the requests, C the requests     *)
(* whose confirm() answers true, hold the end of the hold, and may is      *)
(* #mayDispatch: whether the client has just spoken.                       *)

Landed(s, C) == s.inFlight # None /\ s.inFlight \in C

Lapsed(s, C) == s.inFlight # None /\ s.inFlight \notin C /\ now >= s.deadline

Free(s, C) == s.inFlight = None \/ Landed(s, C) \/ Lapsed(s, C)

\* Broken variant: the deadline itself still counts as in time.
LateExpired(s, r) == {i \in s.queued : now > r[i].expiresAt}

Expired(s, r) == {i \in s.queued : now >= r[i].expiresAt}

\* Broken variants of Going: at any moment; spaced by the next packet alone; past
\* a packet in flight; through a hold.
AnyMomentGoing(s, r, C, hold, may) ==
  {n \in MostWanted(s.queued \ Expired(s, r), r) :
     Free(s, C) /\ now >= hold /\ now - s.lastSent >= Max2(s.spacing, Spacing[r[n].kind])}

OneSidedGoing(s, r, C, hold, may) ==
  {n \in MostWanted(s.queued \ Expired(s, r), r) :
     may /\ Free(s, C) /\ now >= hold /\ now - s.lastSent >= Spacing[r[n].kind]}

UnheldGoing(s, r, C, hold, may) ==
  {n \in MostWanted(s.queued \ Expired(s, r), r) :
     may /\ Free(s, C) /\ now - s.lastSent >= Max2(s.spacing, Spacing[r[n].kind])}

\* The request of lane s that goes out in this pump: none, or one.
Going(s, r, C, hold, may) ==
  {n \in MostWanted(s.queued \ Expired(s, r), r) :
     /\ may
     /\ Free(s, C)
     /\ now >= hold
     /\ now - s.lastSent >= Max2(s.spacing, Spacing[r[n].kind])}

\* #dispatch of request n, and what the pump leaves of a lane otherwise.
Dispatched(s, r, n) ==
  LET watch == r[n].watched /\ r[n].encodes
  IN [queued |-> s.queued \ (Expired(s, r) \cup {n}),
      inFlight |-> IF watch THEN n ELSE None,
      sentAt |-> IF watch THEN now ELSE s.sentAt,
      deadline |-> IF watch THEN now + r[n].window ELSE s.deadline,
      lastSent |-> now,
      spacing |-> Spacing[r[n].kind]]

\* Broken variant: nothing in flight written as a request number.
ZeroedRested(s, r, C) ==
  [s EXCEPT !.queued = @ \ Expired(s, r), !.inFlight = IF Free(s, C) THEN 0 ELSE @]

Rested(s, r, C) ==
  [s EXCEPT !.queued = @ \ Expired(s, r), !.inFlight = IF Free(s, C) THEN None ELSE @]

PumpedLane(s, r, C, hold, may) ==
  LET G == Going(s, r, C, hold, may)
  IN IF G = {} THEN Rested(s, r, C) ELSE Dispatched(s, r, CHOOSE n \in G : TRUE)

\* What the caller of request i of lane s has been told after the pump.
PumpedStatus(i, old, s, r, C, hold, may) ==
  CASE i = s.inFlight /\ Landed(s, C) -> "confirmed"
    [] i = s.inFlight /\ Lapsed(s, C) -> "unconfirmed"
    [] i \in Expired(s, r) -> "expired"
    [] i \in Going(s, r, C, hold, may) /\ ~r[i].encodes -> "dropped"
    [] i \in Going(s, r, C, hold, may) /\ r[i].encodes /\ ~r[i].watched -> "sent"
    [] OTHER -> old

\* What the pump adds to the wire W of the lane.
PumpedWire(W, s, r, C, hold, moment) ==
  LET G == Going(s, r, C, hold, moment = "message")
      n == CHOOSE i \in G : TRUE
  IN IF G # {} /\ r[n].encodes
     THEN Append(W, [by |-> n, kind |-> r[n].kind, at |-> now, behind |-> moment,
                     flushing |-> flushing', complaints |-> Len(complaints'), map |-> maps'])
     ELSE W

\* Broken variants: the timer is for what waits, not for what is in flight; a
\* timer already set is left alone however late it is.
QueuedWakeTimes(L, r) == UNION {{r[i].expiresAt : i \in L[l].queued} : l \in Lane}

\* #arrangeWake: poll what is in flight, and be there for every deadline.
WakeTimes(L, r) ==
  UNION {{Min2(L[l].deadline, now + ConfirmPoll) : i \in {L[l].inFlight} \ {None}}
           \cup {r[i].expiresAt : i \in L[l].queued} : l \in Lane}

Soonest(T) == {t \in T : \A u \in T : t <= u}

KeptRearm(L, r, armed) ==
  LET T == WakeTimes(L, r)
  IN \/ T = {} /\ wakeAt' = None
     \/ T # {} /\ \E t \in Soonest(T) : wakeAt' = IF armed # None THEN armed ELSE t

Rearm(L, r, armed) ==
  LET T == WakeTimes(L, r)
  IN \/ T = {} /\ wakeAt' = None
     \/ /\ T # {}
        /\ \E t \in Soonest(T) :
             wakeAt' = IF armed # None /\ armed <= t + WakeEpsilon THEN armed ELSE t

\* The requests whose confirm() the pump asks.
Watching(L) == {L[l].inFlight : l \in Lane} \ {None}

\* The pump, from lanes L, statuses S, wire W, hold, streak and timer as the
\* entry point left them.
Pump(L, r, S, W, hold, streak, failedAt, armed, moment) ==
  \E C \in SUBSET Watching(L) :
    LET may == moment = "message"
        calm == streak > 0 /\ now - failedAt > FailureCalm
    IN /\ lane' = [l \in Lane |-> PumpedLane(L[l], r, C, hold, may)]
       /\ status' = [i \in Id |->
            IF S[i] # "open" THEN S[i]
            ELSE PumpedStatus(i, S[i], L[LaneOf[r[i].kind]], r, C, hold, may)]
       /\ wire' = [l \in Lane |-> PumpedWire(W[l], L[l], r, C, hold, moment)]
       /\ failureStreak' = IF calm \/ C # {} THEN 0 ELSE streak
       /\ Rearm(lane', r, armed)
       /\ holdUntil' = hold
       /\ lastFailureAt' = failedAt

PumpOnly(L, r, S, W, armed, moment) ==
  Pump(L, r, S, W, holdUntil, failureStreak, lastFailureAt, armed, moment)

-----------------------------------------------------------------------------
(* The entry points.                                                       *)

Init ==
  /\ now = 0
  /\ closed = FALSE
  /\ sequence = 0
  /\ req = [i \in Id |-> None]
  /\ status = [i \in Id |-> "new"]
  /\ lane = [l \in Lane |-> [queued |-> {}, inFlight |-> None, sentAt |-> Never,
                             deadline |-> Never, lastSent |-> Never, spacing |-> 0]]
  /\ holdUntil = Never
  /\ failureStreak = 0
  /\ lastFailureAt = Never
  /\ wakeAt = None
  /\ wire = [l \in Lane |-> <<>>]
  /\ flushing = FALSE
  /\ complaints = <<>>
  /\ maps = 0

\* A paced packet asked for: replace an older request of the same intent in
\* the lane, queue this one, drop the least wanted beyond the lane's cap, pump.
Submit(ask) ==
  /\ ~closed
  /\ sequence < MaxRequests
  /\ now <= LastSubmit
  /\ LET n == sequence + 1
         l == LaneOf[ask.kind]
         r == [req EXCEPT ![n] =
                 [kind |-> ask.kind, priority |-> ask.priority, key |-> ask.key,
                  expiresAt |-> now + ask.expiresIn, watched |-> ask.watched,
                  window |-> ask.window, encodes |-> ask.encodes,
                  behind |-> Len(wire[l]), map |-> maps]]
         replaced == {i \in lane[l].queued : ask.key # None /\ req[i].key = ask.key}
         grown == (lane[l].queued \ replaced) \cup {n}
         excess == IF Cardinality(grown) > MaxQueuedPerLane THEN LeastWanted(grown, r) ELSE {}
         L == [lane EXCEPT ![l].queued = grown \ excess]
         S == [i \in Id |-> IF i \in replaced THEN "superseded"
                            ELSE IF i \in excess THEN "dropped"
                            ELSE IF i = n THEN "open" ELSE status[i]]
     IN /\ sequence' = n
        /\ req' = r
        /\ UNCHANGED <<now, closed, observerVars>>
        /\ PumpOnly(L, r, S, wire, wakeAt, "plugin")

\* After dispose a request is refused at once.
SubmitClosed ==
  /\ closed
  /\ sequence < MaxRequests
  /\ now <= LastSubmit
  /\ sequence' = sequence + 1
  /\ status' = [status EXCEPT ![sequence + 1] = "dropped"]
  /\ UNCHANGED <<now, closed, req, lane, failureVars, wakeAt, wire, observerVars>>

\* Charging a FAILURE: the lane whose packet in flight is the most recent of
\* those young enough to be what the server complains about.
Blamable == {l \in Lane : lane[l].inFlight # None /\ now - lane[l].sentAt <= FailureAttribution}

Blamed == {l \in Blamable : \A m \in Blamable : \/ lane[m].sentAt < lane[l].sentAt
                                                \/ /\ lane[m].sentAt = lane[l].sentAt
                                                   /\ Rank[l] <= Rank[m]}

\* observe(FAILURE).
Failure ==
  /\ ~closed
  /\ Len(complaints) < MaxFailures
  /\ LET streak == failureStreak + 1
         hold == Min2(FailureHold * 2^(streak - 1), MaxFailureHold)
         refused == {lane[l].inFlight : l \in Blamed}
         L == [l \in Lane |-> IF l \in Blamed THEN [lane[l] EXCEPT !.inFlight = None] ELSE lane[l]]
         S == [i \in Id |-> IF i \in refused THEN "refused" ELSE status[i]]
     IN /\ complaints' = Append(complaints, [at |-> now, hold |-> hold])
        /\ UNCHANGED <<now, closed, callerVars, flushing, maps>>
        /\ Pump(L, req, S, wire, Max2(holdUntil, now + hold), streak, now, wakeAt, "server")

\* Broken variants of Cleared: still watching what is in flight; calling it never
\* sent; telling the callers of everything ever sent.
WatchingCleared ==
  /\ lane' = [l \in Lane |-> [lane[l] EXCEPT !.queued = {}]]
  /\ status' = [i \in Id |-> IF \E l \in Lane : i \in lane[l].queued THEN "dropped"
                             ELSE IF i \in Watching(lane) THEN "unconfirmed" ELSE status[i]]

EverythingCleared ==
  /\ lane' = [l \in Lane |-> [lane[l] EXCEPT !.queued = {}, !.inFlight = None]]
  /\ status' = [i \in Id |->
       IF \E l \in Lane : i \in lane[l].queued THEN "dropped"
       ELSE IF \E l \in Lane : \E n \in DOMAIN wire[l] : wire[l][n].by = i THEN "unconfirmed"
       ELSE status[i]]

\* clear: give up on everything waiting and stop watching what is in flight.
Cleared ==
  /\ lane' = [l \in Lane |-> [lane[l] EXCEPT !.queued = {}, !.inFlight = None]]
  /\ status' = [i \in Id |-> IF \E l \in Lane : i \in lane[l].queued THEN "dropped"
                             ELSE IF i \in Watching(lane) THEN "unconfirmed" ELSE status[i]]

\* observe(MAPINFO).  No pump: the timer stays as it was.
MapInfo ==
  /\ ~closed
  /\ maps < MaxMaps
  /\ maps' = maps + 1
  /\ Cleared
  /\ UNCHANGED <<now, closed, callerVars, failureVars, wakeAt, wire, flushing, complaints>>

\* observe of any other server packet.
ServerPacket ==
  /\ ~closed
  /\ UNCHANGED <<now, closed, callerVars, observerVars>>
  /\ PumpOnly(lane, req, status, wire, wakeAt, "server")

\* #heardFromClient: a paced packet of the player's own was forwarded, and a
\* request to act on items was aimed at what it may have changed.
Stale(k) == IF LaneOf[k] = ItemLane THEN lane[ItemLane].queued ELSE {}

Heard(k) ==
  LET l == LaneOf[k]
  IN [lane EXCEPT ![l] = [lane[l] EXCEPT !.lastSent = now, !.spacing = Spacing[k],
                                         !.queued = lane[l].queued \ Stale(k)]]

\* clientPacketPassed: a paced packet of the player's own, forwarded.
PlayerPacket(k) ==
  LET mine(e) == e.by = None
      l == LaneOf[k]
      event == [by |-> None, kind |-> k, at |-> now, behind |-> "message",
                flushing |-> FALSE, complaints |-> Len(complaints), map |-> maps]
  IN /\ ~closed
     /\ Len(SelectSeq(wire[l], mine)) < MaxPlayer
     /\ flushing' = FALSE
     /\ UNCHANGED <<now, closed, callerVars, complaints, maps>>
     /\ PumpOnly(Heard(k), req, [i \in Id |-> IF i \in Stale(k) THEN "dropped" ELSE status[i]],
                 [wire EXCEPT ![l] = Append(@, event)], wakeAt, "message")

\* clientPacketPassed: a message the lane table does not name, or any message
\* a stage withheld; neither counts against a lane.
ClientMessage ==
  /\ ~closed
  /\ flushing' = FALSE
  /\ UNCHANGED <<now, closed, callerVars, complaints, maps>>
  /\ PumpOnly(lane, req, status, wire, wakeAt, "message")

\* clientPacketPassed(SHOOTACKCOUNTER): the message it precedes is still to come.
ShotAcknowledgement ==
  /\ ~closed
  /\ flushing' = TRUE
  /\ UNCHANGED <<now, closed, callerVars, status, lane, failureVars, wakeAt, wire, complaints, maps>>

\* The timer fires, some time at or after it is due.
Wake ==
  /\ ~closed
  /\ wakeAt # None /\ now >= wakeAt
  /\ UNCHANGED <<now, closed, callerVars, observerVars>>
  /\ PumpOnly(lane, req, status, wire, None, "timer")

\* dispose: closed first, then drained, and the timer cancelled.
Dispose ==
  /\ ~closed
  /\ closed' = TRUE
  /\ Cleared
  /\ wakeAt' = None
  /\ UNCHANGED <<now, callerVars, failureVars, wire, observerVars>>

Tick ==
  /\ now < MaxTime
  /\ now' = now + 1
  /\ UNCHANGED <<closed, callerVars, status, lane, failureVars, wakeAt, wire, observerVars>>

Next ==
  \/ \E ask \in Asks : Submit(ask)
  \/ SubmitClosed
  \/ Failure
  \/ MapInfo
  \/ ServerPacket
  \/ \E k \in Kind : PlayerPacket(k)
  \/ ClientMessage
  \/ ShotAcknowledgement
  \/ Wake
  \/ Dispose
  \/ Tick

Spec == Init /\ [][Next]_vars

\* Time passes and Node runs a timer that is due; nothing makes a plugin, the
\* game client or the server speak.
FairSpec == Spec /\ WF_vars(Tick) /\ WF_vars(Wake)

-----------------------------------------------------------------------------
(* Properties.  They are stated over what the server's end saw and what     *)
(* the callers were told, not over the queue's own bookkeeping.             *)

TypeOK ==
  /\ now \in Nat /\ closed \in BOOLEAN /\ sequence \in 0..MaxRequests
  /\ req \in [Id -> Request \cup {None}]
  /\ status \in [Id -> {"new", "open"} \cup Outcome]
  /\ lane \in [Lane -> LaneState]
  /\ holdUntil \in Int /\ failureStreak \in Nat /\ lastFailureAt \in Int
  /\ wakeAt \in Int \cup {None}
  /\ wire \in [Lane -> Seq(WireEvent)]
  /\ flushing \in BOOLEAN
  /\ complaints \in Seq([at : Int, hold : Nat])
  /\ maps \in Nat

Ours(e) == e.by # None

OnWire(i) == \E l \in Lane : \E n \in DOMAIN wire[l] : wire[l][n].by = i

\* Every request is where its caller thinks it is: an open one waits in its
\* own lane or is in flight there, and nowhere else; nothing settled lingers in
\* a lane (the queue's settled/splice bookkeeping, submit to dispose).
Accounted ==
  \A i \in Id :
    LET holds == {l \in Lane : i \in lane[l].queued} 
        flies == {l \in Lane : lane[l].inFlight = i}
    IN IF status[i] = "open"
       THEN /\ holds \cup flies = {LaneOf[req[i].kind]}
            /\ holds \cap flies = {}
       ELSE holds \cup flies = {}

\* wasSent() tells the truth: a caller is told one of the sent outcomes exactly
\* when the packet reached the wire, also when the map changed, the session
\* closed or the server complained while it was in flight.
OutcomeHonest ==
  \A i \in Id :
    /\ status[i] \in SentOutcome => OnWire(i)
    /\ status[i] \in UnsentOutcome => ~OnWire(i)
    /\ status[i] = "open" => (OnWire(i) <=> \E l \in Lane : lane[l].inFlight = i)

\* "Called exactly once, when the journey ends": no caller is told twice.
ToldOnce == [][\A i \in Id : status[i] \in Outcome => status'[i] = status[i]]_vars

\* A packet of ours keeps the longer of the two spacings from the packet before
\* it in its lane, whether that one was ours or the player's own.
SpacedFromLast ==
  \A l \in Lane : \A n \in DOMAIN wire[l] :
    n > 1 /\ Ours(wire[l][n]) =>
      wire[l][n].at - wire[l][n - 1].at
        >= Max2(Spacing[wire[l][n].kind], Spacing[wire[l][n - 1].kind])

\* While a watched packet is unanswered nothing else of ours is sent in its lane.
OneAtATime ==
  \A l \in Lane : \A m, n \in DOMAIN wire[l] :
    m < n /\ Ours(wire[l][m]) /\ Ours(wire[l][n]) => status[wire[l][m].by] # "open"

\* No item packet aimed before the player's own hands moved or used an item goes
\* out after they did (#heardFromClient drops what is waiting).
NoStaleItem ==
  \A n \in DOMAIN wire[ItemLane] :
    LET e == wire[ItemLane][n]
    IN Ours(e) => \A m \in (req[e.by].behind + 1)..(n - 1) : Ours(wire[ItemLane][m])

\* A request reaches the server on the map it was asked for, before its deadline.
StillWanted ==
  \A l \in Lane : \A n \in DOMAIN wire[l] :
    LET e == wire[l][n]
    IN Ours(e) => e.map = req[e.by].map /\ e.at < req[e.by].expiresAt

\* After a FAILURE every lane is quiet for the hold it asked for, in whatever
\* order complaints and packets came.
QuietAfterFailure ==
  \A l \in Lane : \A n \in DOMAIN wire[l] :
    LET e == wire[l][n]
    IN Ours(e) => \A c \in 1..e.complaints : e.at >= complaints[c].at + complaints[c].hold

\* A packet of ours directly follows a message of the client's, never a shot
\* acknowledgement whose message is still to come, nor a submission, a timer or
\* a server packet.
BehindAMessage ==
  \A l \in Lane : \A n \in DOMAIN wire[l] :
    LET e == wire[l][n] IN Ours(e) => e.behind = "message" /\ ~e.flushing

\* A lane never waits for more than its cap, nor twice for one intent.
BoundedAndDistinct ==
  \A l \in Lane :
    /\ Cardinality(lane[l].queued) <= MaxQueuedPerLane
    /\ \A i, j \in lane[l].queued : req[i].key = req[j].key /\ req[i].key # None => i = j

\* The timer never sleeps through a deadline: while anything waits or is in
\* flight it is set no later than the first of their deadlines (and the slack
\* it is allowed), so a quiet session still tells its callers.
WakeArmed ==
  \A l \in Lane :
    /\ \A i \in lane[l].queued : wakeAt # None /\ wakeAt <= req[i].expiresAt + WakeEpsilon
    /\ lane[l].inFlight # None => wakeAt # None /\ wakeAt <= lane[l].deadline + WakeEpsilon

\* Callers hear the truth, and every lane keeps its bounds, its turn, its items and
\* its timer, whatever the order of confirmations, complaints and map changes.
LanesAreSound == OutcomeHonest /\ OneAtATime /\ NoStaleItem /\ BoundedAndDistinct /\ WakeArmed

\* Every request is settled, with no help from the client or the server.
EverySettled == \A i \in Id : status[i] = "open" ~> status[i] \in Outcome
=============================================================================
