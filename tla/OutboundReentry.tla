--------------------------- MODULE OutboundReentry ---------------------------
(* One lane of the outbound queue (outbound/ServerActionQueue.ts), when what   *)
(* it calls back calls it: an onSent or onOutcome handler is a plugin's code   *)
(* and may submit again in the middle of whatever is telling it. Where         *)
(* ServerActionQueue takes an entry point for one step, here it is the work    *)
(* left to do, a step between two callbacks at a time.                         *)
EXTENDS Integers, SequencesExt

CONSTANTS OrAsks,     \* what may be asked for: key, priority, life, watched, encodes
          OrMost,     \* maxQueuedPerLane
          OrSpacing, OrWindow, \* the lane's floor, confirmWindowMs
          OrBlame, OrHold,     \* failureAttributionMs, failureHoldMs
          OrNone,
          OrMaxAsks, OrMaxTime \* bounds: requests, and the clock

ASSUME ReentryAssumption ==
  /\ {OrMost, OrSpacing, OrWindow} \subseteq Nat \ {0} /\ {OrBlame, OrHold, OrMaxAsks, OrMaxTime} \subseteq Nat
  /\ \A ask \in OrAsks : /\ DOMAIN ask = {"key", "priority", "life", "watched", "encodes"}
                        /\ ask.priority \in Int /\ ask.life \in Int /\ {ask.watched, ask.encodes} \subseteq BOOLEAN
  /\ OrNone \notin [id : Nat, until : Int, since : Int]

VARIABLES orNow, orClosed,
          orPolite, \* whether no handler asks under a name that is being replaced (ours)
          orReq,    \* the requests submitted, in order: each one's number is its sequence
          orTold,   \* per request: "open", or what its caller was told
          orQueue,  \* the lane's queued
          orFlight, \* the lane's inFlight and its deadline, or none
          orLast,   \* lastSentAtMs
          orHold,   \* #holdUntilMs
          orMay,    \* #mayDispatch
          orWork,   \* what is left to run, innermost first
          orWire    \* ours: when a packet last left, and how many did

orLane == <<orQueue, orFlight, orLast>>
orAsked == <<orReq, orTold>>
orVars == <<orNow, orClosed, orPolite, orAsked, orLane, orHold, orMay, orWork, orWire>>

ReentryInit ==
  /\ orNow = OrSpacing /\ orClosed = FALSE /\ orPolite \in BOOLEAN /\ orReq = <<>> /\ orTold = <<>> /\ orQueue = <<>>
  /\ orFlight = OrNone /\ orLast = 0 /\ orHold = 0 /\ orMay = FALSE /\ orWork = <<>>
  /\ orWire = [at |-> 0, count |-> 0]

Then(job, rest) == <<job>> \o rest
Rest == Tail(orWork)
Job(at) == orWork # <<>> /\ Head(orWork).at = at
Ours == Head(orWork).id
Pump(rest) == Then([at |-> "resolve"], Then([at |-> "expire"], Then([at |-> "dispatch"], rest)))
Calls(id, rest) == Then([at |-> "handler", id |-> id], rest)

\* #settle: the caller is told once, and its handler runs before anything else.
Settle(id, outcome, rest) ==
  IF orTold[id] = "open"
  THEN orTold' = [orTold EXCEPT ![id] = outcome] /\ orWork' = Calls(id, rest)
  ELSE UNCHANGED orTold /\ orWork' = rest

\* The order of the lane: the most wanted, then the oldest.
IsWorst(i) == \A j \in DOMAIN orQueue \ {i} :
  LET a == orQueue[i]  b == orQueue[j]
  IN orReq[a].priority < orReq[b].priority \/ (orReq[a].priority = orReq[b].priority /\ a < b)
IsBest(i) == \A j \in DOMAIN orQueue \ {i} :
  LET a == orQueue[i]  b == orQueue[j]
  IN orReq[a].priority > orReq[b].priority \/ (orReq[a].priority = orReq[b].priority /\ a < b)

(***************************************************************************)
(* submit, and what it leaves to do.                                       *)
(***************************************************************************)

\* submit, up to its first callback. #supersede has all that waits to look at.
Submit(ask, rest) ==
  LET id == Len(orReq) + 1
  IN /\ id <= OrMaxAsks
     /\ orReq' = Append(orReq, [ask EXCEPT !.life = orNow + ask.life])
     /\ IF orClosed
        THEN orTold' = Append(orTold, "dropped") /\ orWork' = Calls(id, rest)
        ELSE orTold' = Append(orTold, "open") /\ orWork' = Then([at |-> "supersede", id |-> id, left |-> Len(orQueue)], rest)

OrAsk(ask) == /\ orWork = <<>> /\ Submit(ask, <<>>)
              /\ UNCHANGED <<orNow, orClosed, orPolite, orLane, orHold, orMay, orWire>>

\* The names that submissions further out are about to give their request.
Replacing == {orReq[Rest[k].id].key : k \in {k \in DOMAIN Rest : Rest[k].at = "supersede"}} \ {OrNone}

\* A handler returns, or asks again.
OrHandled == /\ Job("handler") /\ orWork' = Rest
             /\ UNCHANGED <<orNow, orClosed, orPolite, orAsked, orLane, orHold, orMay, orWire>>
OrAsksAgain(ask) ==
  /\ Job("handler") /\ Submit(ask, Rest) /\ (orPolite => ask.key \notin Replacing)
  /\ UNCHANGED <<orNow, orClosed, orPolite, orLane, orHold, orMay, orWire>>

\* Broken variant: a name makes way only for what is wanted as much.
NamedByRank == LET key == orReq[Ours].key
               IN {i \in DOMAIN orQueue : /\ i <= Head(orWork).left /\ key # OrNone /\ orReq[orQueue[i]].key = key
                                          /\ orReq[orQueue[i]].priority <= orReq[Ours].priority}

\* Where those of the request's own name wait, of those there is still to look at.
Named == LET key == orReq[Ours].key
         IN {i \in DOMAIN orQueue : i <= Head(orWork).left /\ key # OrNone /\ orReq[orQueue[i]].key = key}

\* #supersede, from the newest down, one it replaces at a time; then the request is
\* queued, trimmed and pumped.
OrSupersede ==
  /\ Job("supersede")
  /\ IF Named = {}
     THEN /\ orQueue' = Append(orQueue, Ours) /\ orWork' = Then([at |-> "trim"], Pump(Rest))
          /\ UNCHANGED orTold
     ELSE \E i \in Named : /\ \A j \in Named : j <= i
                           /\ orQueue' = RemoveAt(orQueue, i)
                           /\ Settle(orQueue[i], "superseded", Then([Head(orWork) EXCEPT !.left = i - 1], Rest))
  /\ UNCHANGED <<orNow, orClosed, orPolite, orReq, orFlight, orLast, orHold, orMay, orWire>>

\* #trim.
OrTrim ==
  /\ Job("trim")
  /\ IF Len(orQueue) > OrMost
     THEN \E i \in DOMAIN orQueue : IsWorst(i) /\ orQueue' = RemoveAt(orQueue, i) /\ Settle(orQueue[i], "dropped", orWork)
     ELSE orWork' = Rest /\ UNCHANGED <<orQueue, orTold>>
  /\ UNCHANGED <<orNow, orClosed, orPolite, orReq, orFlight, orLast, orHold, orMay, orWire>>

(***************************************************************************)
(* pump, which returns at once on a closed queue: here the queue closes     *)
(* between two turns, and nothing that runs after it pumps.                 *)
(***************************************************************************)

\* #resolveInFlight.
OrResolve ==
  /\ Job("resolve")
  /\ \E confirmed \in BOOLEAN :
       IF orFlight # OrNone /\ (confirmed \/ orNow >= orFlight.until)
       THEN orFlight' = OrNone /\ Settle(orFlight.id, IF confirmed THEN "confirmed" ELSE "unconfirmed", Rest)
       ELSE orWork' = Rest /\ UNCHANGED <<orFlight, orTold>>
  /\ UNCHANGED <<orNow, orClosed, orPolite, orReq, orQueue, orLast, orHold, orMay, orWire>>

\* #dropExpired, from the newest down. A handler that asks pumps, so that nothing is
\* left behind to be past its time where the loop has been.
OrExpire ==
  /\ Job("expire")
  /\ LET over == {i \in DOMAIN orQueue : orNow >= orReq[orQueue[i]].life}
     IN IF over = {} THEN orWork' = Rest /\ UNCHANGED <<orQueue, orTold>>
        ELSE \E i \in over : /\ \A j \in over : j <= i
                             /\ orQueue' = RemoveAt(orQueue, i) /\ Settle(orQueue[i], "expired", orWork)
  /\ UNCHANGED <<orNow, orClosed, orPolite, orReq, orFlight, orLast, orHold, orMay, orWire>>

Due == /\ orMay /\ orFlight = OrNone /\ orNow >= orHold /\ orQueue # <<>> /\ orNow - orLast >= OrSpacing

\* #dispatch, as far as the report: the lane is counted as used before it.
OrDispatch ==
  /\ Job("dispatch")
  /\ IF ~Due THEN orWork' = Rest /\ UNCHANGED <<orQueue, orLast, orTold, orWire>>
     ELSE \E i \in DOMAIN orQueue :
            /\ IsBest(i) /\ orQueue' = RemoveAt(orQueue, i) /\ orLast' = orNow
            /\ LET id == orQueue[i]
               IN IF orReq[id].encodes
                  THEN /\ orWire' = [at |-> orNow, count |-> orWire.count + 1] /\ UNCHANGED orTold
                       /\ orWork' = Calls(id, Then([at |-> "sent", id |-> id], Rest))
                  ELSE UNCHANGED orWire /\ Settle(id, "dropped", Rest)
  /\ UNCHANGED <<orNow, orClosed, orPolite, orReq, orFlight, orHold, orMay>>

\* The rest of it: watched, or done with.
OrSent ==
  /\ Job("sent")
  /\ IF orReq[Ours].watched
     THEN /\ orFlight' = [id |-> Ours, until |-> orNow + OrWindow, since |-> orNow]
          /\ orWork' = Rest /\ UNCHANGED orTold
     ELSE UNCHANGED orFlight /\ Settle(Ours, "sent", Rest)
  /\ UNCHANGED <<orNow, orClosed, orPolite, orReq, orQueue, orLast, orHold, orMay, orWire>>

(***************************************************************************)
(* What happens to the queue.                                              *)
(***************************************************************************)

\* Those that were taken out together are told one by one.
OrDrops ==
  /\ Job("drop")
  /\ IF Head(orWork).ids = <<>> THEN orWork' = Rest /\ UNCHANGED orTold
     ELSE Settle(Head(Head(orWork).ids), "dropped", Then([at |-> "drop", ids |-> Tail(Head(orWork).ids)], Rest))
  /\ UNCHANGED <<orNow, orClosed, orPolite, orReq, orLane, orHold, orMay, orWire>>

\* clientPacketPassed: an item packet of the player's own is heard first.
OrClientPasses(item) ==
  /\ orWork = <<>> /\ ~orClosed
  /\ IF item
     THEN orQueue' = <<>> /\ orLast' = orNow /\ orWork' = Then([at |-> "drop", ids |-> orQueue], Then([at |-> "may"], <<>>))
     ELSE UNCHANGED <<orQueue, orLast>> /\ orWork' = Then([at |-> "may"], <<>>)
  /\ UNCHANGED <<orNow, orClosed, orPolite, orAsked, orFlight, orHold, orMay, orWire>>
OrMays == /\ Job("may") /\ orMay' = TRUE /\ orWork' = Pump(Then([at |-> "mayNot"], Rest))
          /\ UNCHANGED <<orNow, orClosed, orPolite, orAsked, orLane, orHold, orWire>>
OrMayNot == /\ Job("mayNot") /\ orMay' = FALSE /\ orWork' = Rest
            /\ UNCHANGED <<orNow, orClosed, orPolite, orAsked, orLane, orHold, orWire>>

\* A FAILURE: the hold is set before the one it is charged to, if one left lately, is told.
OrFails ==
  /\ orWork = <<>> /\ ~orClosed /\ orHold' = orNow + OrHold
  /\ IF orFlight # OrNone /\ orNow - orFlight.since <= OrBlame
     THEN orFlight' = OrNone /\ Settle(orFlight.id, "refused", Pump(<<>>))
     ELSE orWork' = Pump(<<>>) /\ UNCHANGED <<orFlight, orTold>>
  /\ UNCHANGED <<orNow, orClosed, orPolite, orReq, orQueue, orLast, orMay, orWire>>

\* clear: a MAPINFO, or the end of the session. What is in flight is looked at
\* after the callbacks.
Cleared == orQueue' = <<>> /\ orWork' = Then([at |-> "drop", ids |-> orQueue], Then([at |-> "letGo"], <<>>))
OrMapInfo == /\ orWork = <<>> /\ ~orClosed /\ Cleared
             /\ UNCHANGED <<orNow, orClosed, orPolite, orAsked, orFlight, orLast, orHold, orMay, orWire>>
OrLetsGo ==
  /\ Job("letGo")
  /\ IF orFlight = OrNone THEN orWork' = Rest /\ UNCHANGED <<orFlight, orTold>>
     ELSE orFlight' = OrNone /\ Settle(orFlight.id, "unconfirmed", Rest)
  /\ UNCHANGED <<orNow, orClosed, orPolite, orReq, orQueue, orLast, orHold, orMay, orWire>>

\* dispose: closed before it is emptied.
OrDispose == /\ orWork = <<>> /\ ~orClosed /\ orClosed' = TRUE /\ Cleared
             /\ UNCHANGED <<orNow, orPolite, orAsked, orFlight, orLast, orHold, orMay, orWire>>

\* The timer, or any other packet, pumps; time passes between two turns.
OrWakes == /\ orWork = <<>> /\ ~orClosed /\ orNow < OrMaxTime /\ orNow' = orNow + 1 /\ orWork' = Pump(<<>>)
           /\ UNCHANGED <<orClosed, orPolite, orAsked, orLane, orHold, orMay, orWire>>

ReentryNext ==
  \/ \E ask \in OrAsks : OrAsk(ask) \/ OrAsksAgain(ask)
  \/ OrHandled \/ OrSupersede \/ OrTrim \/ OrResolve \/ OrExpire \/ OrDispatch \/ OrSent
  \/ OrDrops \/ \E item \in BOOLEAN : OrClientPasses(item)
  \/ OrMays \/ OrMayNot \/ OrFails \/ OrMapInfo \/ OrLetsGo \/ OrDispose \/ OrWakes

(***************************************************************************)
(* Properties.                                                             *)
(***************************************************************************)

\* Types, and between two entry points the lane is within its cap: whatever the
\* callbacks of a trim have added.
ReentryTypeOK ==
  /\ DOMAIN orTold = DOMAIN orReq /\ ToSet(orQueue) \subseteq DOMAIN orReq /\ IsInjective(orQueue)
  /\ orWork = <<>> => Len(orQueue) <= OrMost /\ ~orMay

\* Between two entry points every request that was not told its end is waiting
\* or in flight, and none that was is: nobody is forgotten and nobody is told
\* of a packet that may yet leave (outbound.ts:132, "exactly once"), through
\* callbacks that submit inside every loop of the queue.
NobodyForgotten ==
  orWork = <<>> =>
    \A id \in DOMAIN orReq :
      (orTold[id] = "open") = (id \in ToSet(orQueue) \/ (orFlight # OrNone /\ orFlight.id = id))

\* Once the session has closed and its callbacks are done nothing waits
\* (ServerActionQueue.ts:400-412).
NothingAfterClose == orClosed /\ orWork = <<>> => orQueue = <<>> /\ orFlight = OrNone

\* Nothing leaves while something of ours is unanswered, nor sooner than the
\* lane's floor after what left before, though the report of a sending comes
\* before it is in flight (ServerActionQueue.ts:565-586).
LaneKeepsPace ==
  [][orWire'.count # orWire.count => orFlight = OrNone /\ (orWire.count > 0 => orNow - orWire.at >= OrSpacing)]_orVars

\* One name waits once (outbound.ts:90-98), unless a handler asks for it again while
\* it is being replaced: then the loop of #supersede has been past the place.
NamesApart ==
  orPolite => \A a, b \in ToSet(orQueue) : orReq[a].key # OrNone /\ orReq[a].key = orReq[b].key => a = b
=============================================================================
