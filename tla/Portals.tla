------------------------------- MODULE Portals -------------------------------
(* Going through portals: /back and /enter (features/portalentry), and walking   *)
(* into a chosen one in the Nexus (features/autoportal). One session of each;     *)
(* distances are told apart as away, in reach of the walk, and on top of it.      *)
EXTENDS Integers, FiniteSets

CONSTANTS PoPortals,      \* objects that are portals, of any map
          PoPlaces,       \* where a RECONNECT may lead
          PoNexus,        \* the place with GameId.Nexus
          PoNowhere,
          PoRetry,        \* RETRY_INTERVAL_MS
          PoKeep,         \* the retrySeconds setting
          PoEnterEvery    \* ENTER_INTERVAL_MS of auto-portal

ASSUME PortalAssumption ==
  /\ PoNexus \in PoPlaces /\ PoNowhere \notin PoPlaces \cup PoPortals /\ PoRetry \in Nat \ {0}
  /\ PoKeep \in Nat /\ PoEnterEvery \in Nat

VARIABLES poMap,          \* the place the client is in
          poLast,         \* last: the place /back leads to
          poAttempt,      \* [portal, left, since], or PoNowhere
          poAuto,         \* auto-portal: [commanding, since, announced]
          poQueued,       \* auto-portal:enter in the queue: [portal, left], or PoNowhere
          poOn,
          poAge,          \* ours: age of the last /enter that found a portal, or of the end of it
          poStale,        \* ours: a plugin that was disabled missed a map
          poUsed          \* ours: the plugin that asked for a portal in this step

poVars == <<poMap, poLast, poAttempt, poAuto, poQueued, poOn, poAge, poStale, poUsed>>
PoFreshAuto == [commanding |-> FALSE, since |-> PoEnterEvery, announced |-> {}]

PortalsInit ==
  /\ poMap \in PoPlaces /\ poLast = PoNowhere /\ poAttempt = PoNowhere
  /\ poAuto = PoFreshAuto /\ poQueued = PoNowhere
  /\ poOn = TRUE /\ poAge = PoKeep /\ poStale = FALSE /\ poUsed = "none"

PoTicked == UNCHANGED <<poMap, poLast, poOn, poAge, poStale>>

(***************************************************************************)
(* portal-entry.                                                           *)
(***************************************************************************)

\* /enter: a second one stops the asking; the first uses the portal underfoot,
\* and keeps asking if the setting says so.
Enter(under) ==
  /\ poOn
  /\ IF poAttempt # PoNowhere
     THEN poAttempt' = PoNowhere /\ poUsed' = "none" /\ UNCHANGED poAge
     ELSE IF under = PoNowhere
     THEN poUsed' = "none" /\ UNCHANGED <<poAttempt, poAge>>
     ELSE /\ poUsed' = "enter" /\ poAge' = 0
          /\ poAttempt' = IF PoKeep > 0 THEN [portal |-> under, left |-> PoKeep, since |-> 0] ELSE PoNowhere
  /\ UNCHANGED <<poMap, poLast, poAuto, poQueued, poOn, poStale>>

\* NEWTICK with an attempt under way: over, due again, or neither.
EnterTick ==
  /\ poOn /\ poAttempt # PoNowhere /\ (poAttempt.left = 0 \/ poAttempt.since >= PoRetry)
  /\ IF poAttempt.left = 0
     THEN poAttempt' = PoNowhere /\ poUsed' = "none"
     ELSE poAttempt' = [poAttempt EXCEPT !.since = 0] /\ poUsed' = "enter"
  /\ PoTicked /\ UNCHANGED <<poAuto, poQueued>>

\* A RECONNECT out of the Nexus's queue is what /back will replay.
Remember(place) == IF place = PoNexus THEN UNCHANGED poLast ELSE poLast' = place

\* The server's RECONNECT is the door opening.
Reconnected(place) ==
  /\ poUsed' = "none"
  /\ IF poOn THEN poAttempt' = PoNowhere /\ Remember(place)
             ELSE UNCHANGED <<poAttempt, poLast>>
  /\ UNCHANGED <<poMap, poAuto, poQueued, poOn, poAge, poStale>>

(***************************************************************************)
(* auto-portal.                                                            *)
(***************************************************************************)

\* Not alive, not in the Nexus, steering by hand, or nothing chosen in sight.
StandDown ==
  /\ poOn
  /\ poAuto' = [poAuto EXCEPT !.commanding = FALSE] /\ poUsed' = "none"
  /\ PoTicked /\ UNCHANGED <<poAttempt, poQueued>>

\* findChosenPortals: the nearest of those chosen.
FindChosen(distance) ==
  {p \in DOMAIN distance: \A q \in DOMAIN distance: distance[p] <= distance[q]}

\* NEWTICK with a nearest portal: walk, or stand still and ask for it.
WalkTick(p, on) ==
  /\ poOn /\ poMap = PoNexus
  /\ poAuto' = [poAuto EXCEPT !.commanding = ~on, !.announced = @ \cup {p}]
  /\ poQueued' = IF on /\ poAuto.since >= PoEnterEvery
                 THEN [portal |-> p, left |-> PoEnterEvery] ELSE poQueued
  /\ poUsed' = "none" /\ PoTicked /\ UNCHANGED poAttempt

\* The queue sends what is held under the key, and onSent restarts the interval.
WalkSent ==
  /\ poQueued # PoNowhere
  /\ poQueued' = PoNowhere /\ poAuto' = [poAuto EXCEPT !.since = 0]
  /\ poUsed' = "auto" /\ PoTicked /\ UNCHANGED poAttempt

(***************************************************************************)
(* Both.                                                                   *)
(***************************************************************************)

\* MAPINFO empties the queue; a disabled plugin does not hear it.
PortalsMap(place) ==
  /\ poMap' = place /\ poQueued' = PoNowhere /\ poUsed' = "none"
  /\ IF poOn THEN poAttempt' = PoNowhere /\ poAuto' = PoFreshAuto /\ poStale' = FALSE
             ELSE poStale' = TRUE /\ UNCHANGED <<poAttempt, poAuto>>
  /\ poAge' = PoKeep /\ UNCHANGED <<poLast, poOn>>

PortalsSwitch ==
  /\ poOn' = ~poOn /\ poUsed' = "none"
  /\ UNCHANGED <<poMap, poLast, poAttempt, poAuto, poQueued, poAge, poStale>>

PoUp(age, cap) == IF age < cap THEN age + 1 ELSE age
PortalsTime ==
  /\ poAttempt' = IF poAttempt = PoNowhere THEN PoNowhere
                  ELSE [poAttempt EXCEPT !.left = IF @ > 0 THEN @ - 1 ELSE 0, !.since = PoUp(@, PoRetry)]
  /\ poAuto' = [poAuto EXCEPT !.since = PoUp(@, PoEnterEvery)]
  /\ poQueued' = IF poQueued = PoNowhere THEN PoNowhere
                 ELSE IF poQueued.left = 1 THEN PoNowhere ELSE [poQueued EXCEPT !.left = @ - 1]
  /\ poAge' = PoUp(poAge, PoKeep)
  /\ poUsed' = "none" /\ UNCHANGED <<poMap, poLast, poOn, poStale>>

PortalsNext ==
  \/ \E under \in PoPortals \cup {PoNowhere}: Enter(under)
  \/ EnterTick \/ StandDown \/ WalkSent \/ PortalsSwitch \/ PortalsTime
  \/ \E place \in PoPlaces: Reconnected(place) \/ PortalsMap(place)
  \/ \E distance \in [PoPortals -> {0, 1, 2}]: \E p \in FindChosen(distance): WalkTick(p, distance[p] = 0)

(***************************************************************************)
(* Properties.                                                             *)
(***************************************************************************)

\* The server is asked for a portal on the player's behalf for at most the time
\* the setting gives, and on the map the player asked on, unless the plugin was
\* disabled when the map changed (portalEntryPlugin.ts:189-213).
AsksWhileAsked == [][poUsed' = "enter" /\ poAge' # 0 /\ ~poStale => poAge < PoKeep]_poVars

\* Only one road leads back: /back never replays a way into the Nexus, and
\* nothing that happens on the way there forgets the last real one.
BackLeadsOut == [][poLast' # PoNexus /\ (poLast # PoNowhere => poLast' # PoNowhere)]_poVars

\* The server is not asked for one portal faster than the interval, however many
\* ticks pass while a request waits in the queue.
EntersApart == [][poUsed' = "auto" /\ ~poStale => poAuto.since >= PoEnterEvery]_poVars
=============================================================================
