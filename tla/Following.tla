------------------------------ MODULE Following ------------------------------
(* Walking after another player along a trail (features/autofollow), and      *)
(* jumping to one (features/autoteleport).                                    *)
EXTENDS Integers, SequencesExt

------------------------------------------------------------------------------
(* Walking an ally's own route instead of the line to them                       *)
(* (features/autofollow/FollowTrail.ts), on a grid of whole tiles: lines of sight *)
(* run along rows and columns, the ally moves a tile at a time, and so does the    *)
(* character, towards the point it is given.                                       *)

CONSTANTS FtTiles,       \* tiles a character can stand on: <<x, y>>
          FtReach,       \* SHORTCUT_REACH_TILES
          FtMaxCrumbs,   \* TRAIL_MAX_CRUMBS
          FtKeep,        \* the keepDistanceTiles setting
          FtMoves        \* bound: how often the ally moves

ASSUME TrailAssumption == FtMaxCrumbs \in Nat \ {0} /\ FtKeep \in Nat \ {0} /\ FtReach > FtKeep

VARIABLES ftSelf, ftAlly,
          ftCrumbs,      \* where the ally has been, oldest first
          ftMoves,
          ftTicked,      \* a tick has been since the ally last moved
          ftTrailLost,   \* ours: the cap has dropped a crumb not walked yet
          ftSteered      \* ours: how the last tick steered

ftVars == <<ftSelf, ftAlly, ftCrumbs, ftMoves, ftTicked, ftTrailLost, ftSteered>>

Square(n) == n * n
Apart2(a, b) == Square(a[1] - b[1]) + Square(a[2] - b[2])
FtBetween(a, b) == {t \in FtTiles: /\ t[1] \in Min({a[1], b[1]})..Max({a[1], b[1]})
                                   /\ t[2] \in Min({a[2], b[2]})..Max({a[2], b[2]})}

\* clearLineBetween: every tile on the way can be stood on.
ClearLine(a, b) ==
  /\ a[1] = b[1] \/ a[2] = b[2]
  /\ Cardinality(FtBetween(a, b)) = 1 + Max({a[1] - b[1], b[1] - a[1], a[2] - b[2], b[2] - a[2]})

FtUnit(n) == IF n > 0 THEN 1 ELSE IF n < 0 THEN -1 ELSE 0
\* The next tile towards a point, along the longer way first; nowhere if a wall
\* is there: the mover tests nothing and is held.
FtStep(from, to) ==
  LET dx == to[1] - from[1]
      dy == to[2] - from[2]
      at == IF dx * dx >= dy * dy THEN <<from[1] + FtUnit(dx), from[2]>> ELSE <<from[1], from[2] + FtUnit(dy)>>
  IN IF at \in FtTiles THEN at ELSE from

\* followPoint: short of the ally by the distance kept, or nothing when near
\* enough. On a row or column the point is a tile.
FollowPoint(from, to) ==
  IF Apart2(from, to) <= Square(FtKeep) THEN from
  ELSE IF from[1] = to[1] THEN <<to[1], to[2] - FtKeep * FtUnit(to[2] - from[2])>>
  ELSE IF from[2] = to[2] THEN <<to[1] - FtKeep * FtUnit(to[1] - from[1]), to[2]>>
  ELSE to

\* record(): the ally's place, unless it is the last one remembered.
Recorded(crumbs, at) ==
  IF crumbs # <<>> /\ Last(crumbs) = at THEN crumbs
  ELSE LET all == Append(crumbs, at) IN IF Len(all) > FtMaxCrumbs THEN Tail(all) ELSE all

\* The crumbs from the first that is not underfoot.
Covered(crumbs) ==
  LET left == {i \in DOMAIN crumbs: crumbs[i] # ftSelf}
  IN IF left = {} THEN <<>> ELSE SubSeq(crumbs, Min(left), Len(crumbs))

\* The furthest node, the ally after all the crumbs, in reach and in sight.
FurthestSeen(crumbs) ==
  LET nodes == Append(crumbs, ftAlly)
      seen  == {i \in DOMAIN nodes: Apart2(ftSelf, nodes[i]) <= Square(FtReach) /\ ClearLine(ftSelf, nodes[i])}
  IN IF seen = {} THEN 0 ELSE Max(seen)

\* Broken variant: the trail is cleared when the ally is in sight.
SteerSpareless(crumbs) ==
  LET i == FurthestSeen(crumbs)
  IN IF i > Len(crumbs)
     THEN [to |-> FollowPoint(ftSelf, ftAlly), kept |-> <<>>, how |-> "ally"]
     ELSE IF i > 0 THEN [to |-> crumbs[i], kept |-> SubSeq(crumbs, i, Len(crumbs)), how |-> "crumb"]
     ELSE [to |-> IF crumbs # <<>> THEN crumbs[1] ELSE FollowPoint(ftSelf, ftAlly), kept |-> crumbs, how |-> "blind"]

\* steer(): the ally at the distance kept, the furthest crumb, or the oldest.
Steer(crumbs) ==
  LET i == FurthestSeen(crumbs)
  IN IF i > Len(crumbs)
     THEN [to |-> FollowPoint(ftSelf, ftAlly), kept |-> SubSeq(crumbs, Max({1, i - 1}), Len(crumbs)), how |-> "ally"]
     ELSE IF i > 0 THEN [to |-> crumbs[i], kept |-> SubSeq(crumbs, i, Len(crumbs)), how |-> "crumb"]
     ELSE [to |-> IF crumbs # <<>> THEN crumbs[1] ELSE FollowPoint(ftSelf, ftAlly), kept |-> crumbs, how |-> "blind"]

TrailInit ==
  /\ ftSelf \in FtTiles /\ ftAlly \in {t \in FtTiles: ClearLine(ftSelf, t) /\ Apart2(ftSelf, t) <= Square(FtReach)}
  /\ ftCrumbs = <<>> /\ ftMoves = 0 /\ ftTicked = FALSE /\ ftTrailLost = FALSE /\ ftSteered = "ally"

\* The ally takes a step; between two ticks at most one.
AllyMoves(to) ==
  /\ ftMoves < FtMoves /\ ftTicked /\ Apart2(ftAlly, to) = 1
  /\ ftAlly' = to /\ ftMoves' = ftMoves + 1 /\ ftTicked' = FALSE
  /\ UNCHANGED <<ftSelf, ftCrumbs, ftTrailLost, ftSteered>>

\* NEWTICK: the trail records, steers, and the character walks a tile,
\* unless another feature or the player has the wheel.
TrailTick(walks) ==
  \E recorded \in {Recorded(ftCrumbs, ftAlly)}: \E covered \in {Covered(recorded)}:
    \E steered \in {Steer(covered)}:
      /\ ftCrumbs' = steered.kept /\ ftSteered' = steered.how
      /\ ftSelf' = IF walks THEN FtStep(ftSelf, steered.to) ELSE ftSelf
      /\ ftTrailLost' = (ftTrailLost \/ (Len(ftCrumbs) = FtMaxCrumbs /\ recorded # ftCrumbs /\ ftCrumbs[1] # ftSelf))
      /\ ftTicked' = TRUE
      /\ UNCHANGED <<ftAlly, ftMoves>>

TrailNext == (\E to \in FtTiles: AllyMoves(to)) \/ (\E walks \in BOOLEAN: TrailTick(walks))

\* Sight of the ally or of a place it stood at is never lost, whatever corners it
\* turns, while the trail is within its cap: the character is not walked at a
\* wall (FollowTrail.ts:97-102).
NeverBlind == ftSteered = "blind" => ftTrailLost

FtThere == ftTrailLost \/ Apart2(ftSelf, ftAlly) <= Square(FtKeep)
FtBehind == ~FtThere

------------------------------------------------------------------------------
(* Teleporting to a teammate at the boss (features/autoteleport) and walking      *)
(* after an ally (features/autofollow), which meet in the FollowTarget both are   *)
(* given. One session on a sequence of maps; the outbound queue holds one         *)
(* TELEPORT at most, replaced by the next, and tells how each ended.              *)

CONSTANTS FwPlayers,     \* object ids of allies
          FwNobody,
          FwInterval,    \* TELEPORT_INTERVAL_MS
          FwConfirm,     \* CONFIRM_MS
          FwMaxFailures, \* MAX_FAILURES
          FwMaxMaps      \* bound

ASSUME FollowingAssumption ==
  /\ FwNobody \notin FwPlayers /\ {FwInterval, FwConfirm, FwMaxFailures} \subseteq Nat \ {0}
  /\ \A p \in FwPlayers, n \in 0..FwInterval : [target |-> p, left |-> n] # FwNobody

VARIABLES fwMap, fwHere,     \* the map, and who is on it
          fwPending,         \* [target, sent, age], or FwNobody
          fwSince,           \* age of lastAttemptMs
          fwFailures, fwBlocked,
          fwQueued,          \* the pending whose TELEPORT is queued: [target, left], or FwNobody
          fwShared,          \* FollowTarget
          fwManual, fwCommanding,
          fwMissed,          \* ours: jumps of this map nobody was reached by, as the plugin saw
          fwStep             \* ours: what this step did

fwTeleport == <<fwPending, fwSince, fwFailures, fwBlocked, fwQueued, fwMissed>>
fwFollow   == <<fwManual, fwCommanding>>
fwVars     == <<fwMap, fwHere, fwTeleport, fwShared, fwFollow, fwStep>>

FollowingInit ==
  /\ fwMap = 0 /\ fwHere \in SUBSET FwPlayers
  /\ fwPending = FwNobody /\ fwSince = FwInterval /\ fwFailures = 0 /\ fwBlocked = FALSE
  /\ fwQueued = FwNobody /\ fwShared = FwNobody /\ fwManual = FwNobody /\ fwCommanding = FALSE
  /\ fwMissed = 0 /\ fwStep = "none"

(***************************************************************************)
(* auto-teleport.                                                          *)
(***************************************************************************)

\* Not alive, in a safe zone, or no boss: the jump is no longer waited for.
NoBoss ==
  /\ fwPending # FwNobody /\ fwPending' = FwNobody /\ fwStep' = "none"
  /\ UNCHANGED <<fwMap, fwHere, fwSince, fwFailures, fwBlocked, fwQueued, fwMissed, fwShared, fwFollow>>

\* The pending jump at a tick: reached, given up on, or waited for.
Reached(arrived) == fwPending # FwNobody /\ arrived /\ fwPending.target \in fwHere
JumpLost == fwPending # FwNobody /\ fwPending.sent /\ fwPending.age > FwConfirm

\* A TELEPORT to the ally nearest the boss, unless one went a moment ago.
JumpTo(p) ==
  IF p \in fwHere /\ fwSince >= FwInterval
  THEN /\ fwPending' = [target |-> p, sent |-> FALSE, age |-> 0]
       /\ fwQueued' = [target |-> p, left |-> FwInterval] /\ fwSince' = fwSince /\ fwStep' = "asks"
  ELSE fwPending' = FwNobody /\ fwStep' = "none" /\ UNCHANGED <<fwQueued, fwSince>>

Counted ==
  /\ fwFailures' = fwFailures + 1
  /\ fwBlocked' = (fwBlocked \/ fwFailures + 1 >= FwMaxFailures)

\* NEWTICK with a boss: `p` is the approacher, FwNobody when the character is
\* near enough itself or nobody is.
TeleportTick(arrived, p, engage) ==
  /\ fwPending # FwNobody => Reached(arrived) \/ JumpLost
  /\ IF Reached(arrived)
     THEN /\ fwFailures' = 0 /\ fwMissed' = 0 /\ UNCHANGED fwBlocked
          /\ fwShared' = IF engage THEN fwPending.target ELSE fwShared
     ELSE IF JumpLost THEN Counted /\ fwMissed' = fwMissed + 1 /\ UNCHANGED fwShared
     ELSE UNCHANGED <<fwFailures, fwBlocked, fwMissed, fwShared>>
  /\ IF fwBlocked' THEN fwPending' = FwNobody /\ fwStep' = "none" /\ UNCHANGED <<fwQueued, fwSince>>
                   ELSE JumpTo(p)
  /\ UNCHANGED <<fwMap, fwHere, fwFollow>>

\* The queue sends the jump: onSent dates both the pending one and the interval.
TeleportSent ==
  /\ fwQueued # FwNobody
  /\ fwQueued' = FwNobody /\ fwSince' = 0 /\ fwStep' = "jumps"
  /\ fwPending' = IF fwPending # FwNobody /\ ~fwPending.sent
                  THEN [fwPending EXCEPT !.sent = TRUE, !.age = 0] ELSE fwPending
  /\ UNCHANGED <<fwMap, fwHere, fwFailures, fwBlocked, fwMissed, fwShared, fwFollow>>

\* onOutcome of a request that was never sent ends the wait for it.
LapsedHeard == fwPending' = IF fwPending # FwNobody /\ ~fwPending.sent THEN FwNobody ELSE fwPending

TeleportLapsed ==
  /\ fwQueued # FwNobody
  /\ fwQueued' = FwNobody /\ LapsedHeard /\ fwStep' = "none"
  /\ UNCHANGED <<fwMap, fwHere, fwSince, fwFailures, fwBlocked, fwMissed, fwShared, fwFollow>>

(***************************************************************************)
(* auto-follow.                                                            *)
(***************************************************************************)

ActiveTarget == IF fwManual # FwNobody THEN fwManual ELSE fwShared

\* A new press: the ally under the cursor, or none, which ends every follow.
ApplyPick(p) ==
  /\ p \in fwHere \cup {FwNobody}
  /\ fwManual' = p /\ fwShared' = IF p = FwNobody THEN FwNobody ELSE fwShared
  /\ fwStep' = "none"
  /\ UNCHANGED <<fwMap, fwHere, fwTeleport, fwCommanding>>

\* Not alive, steering by hand, at the boss, near enough, or nobody to follow.
FollowStands ==
  /\ fwCommanding' = FALSE /\ fwStep' = "none"
  /\ UNCHANGED <<fwMap, fwHere, fwTeleport, fwShared, fwManual>>

\* NEWTICK with an ally to follow: walk, or drop the one that is gone.
FollowTick ==
  /\ ActiveTarget # FwNobody
  /\ IF ActiveTarget \in fwHere
     THEN fwCommanding' = TRUE /\ fwStep' = "walks" /\ UNCHANGED <<fwManual, fwShared>>
     ELSE /\ fwCommanding' = FALSE /\ fwStep' = "dropped"
          /\ IF fwManual # FwNobody THEN fwManual' = FwNobody /\ UNCHANGED fwShared
                                    ELSE fwShared' = FwNobody /\ UNCHANGED fwManual
  /\ UNCHANGED <<fwMap, fwHere, fwTeleport>>

(***************************************************************************)
(* The world.                                                              *)
(***************************************************************************)

PlayersChange ==
  /\ fwHere' \in SUBSET FwPlayers /\ fwStep' = "none"
  /\ UNCHANGED <<fwMap, fwTeleport, fwShared, fwFollow>>

\* MAPINFO: both forget their session's state; the FollowTarget is nobody's, and
\* stays. The queue forgets too, and says so to those who are gone.
FollowingMap(allowed, here) ==
  /\ fwMap < FwMaxMaps
  /\ fwMap' = fwMap + 1 /\ fwHere' = here /\ fwStep' = "none"
  /\ fwPending' = FwNobody /\ fwSince' = FwInterval /\ fwFailures' = 0 /\ fwBlocked' = ~allowed
  /\ fwQueued' = FwNobody /\ fwMissed' = 0 /\ fwManual' = FwNobody /\ fwCommanding' = FALSE
  /\ UNCHANGED fwShared

FwUp(age, cap) == IF age < cap THEN age + 1 ELSE age
FollowingTime ==
  /\ fwPending' = IF fwPending # FwNobody /\ fwPending.sent
                  THEN [fwPending EXCEPT !.age = FwUp(@, FwConfirm + 1)] ELSE fwPending
  /\ fwQueued' = IF fwQueued = FwNobody THEN FwNobody ELSE [fwQueued EXCEPT !.left = @ - 1]
  /\ fwQueued # FwNobody => fwQueued.left > 1
  /\ fwSince' = FwUp(fwSince, FwInterval) /\ fwStep' = "none"
  /\ UNCHANGED <<fwMap, fwHere, fwFailures, fwBlocked, fwMissed, fwShared, fwFollow>>

TeleportTicks == \E arrived, engage \in BOOLEAN, p \in FwPlayers \cup {FwNobody}: TeleportTick(arrived, p, engage)
FollowingNext ==
  \/ NoBoss \/ TeleportTicks \/ TeleportSent \/ TeleportLapsed
  \/ (\E p \in FwPlayers \cup {FwNobody}: ApplyPick(p)) \/ FollowStands \/ FollowTick
  \/ PlayersChange \/ FollowingTime
  \/ \E allowed \in BOOLEAN, here \in SUBSET FwPlayers: FollowingMap(allowed, here)

(***************************************************************************)
(* Properties.                                                             *)
(***************************************************************************)

\* The queue's wait is not stacked on: while a jump waits to be sent, no tick
\* asks for another, and what the map is told to be over is over for both.
FollowingTypeOK ==
  /\ fwPending = FwNobody \/ fwPending.target \in FwPlayers
  /\ fwSince \in 0..FwInterval
  /\ (fwPending # FwNobody /\ ~fwPending.sent) => (fwQueued # FwNobody /\ fwQueued.target = fwPending.target)

\* Two jumps of one map are an interval apart, by when they were sent, however
\* the boss comes and goes while one is queued (autoTeleportPlugin.ts:172-180).
JumpsApart == [][fwStep' = "jumps" => fwSince >= FwInterval]_fwVars

\* A map whose server refuses teleports is left alone: after that many jumps in a
\* row that led nowhere none is asked for.
GivesUpOnMap == [][fwStep' = "asks" => fwMissed' < FwMaxFailures]_fwVars

\* A jump asked for never blocks the next for good: it is sent, or heard to have
\* lapsed, and then confirmed or given up on.
JumpWaits == fwPending # FwNobody /\ ~fwPending.sent
==============================================================================
