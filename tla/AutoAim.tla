------------------------------- MODULE AutoAim -------------------------------
(* Auto aim: how enemies move (state/MotionTracker), and which one is shot at *)
(* and where (features/autoaim).                                              *)
EXTENDS Integers, Sequences

------------------------------------------------------------------------------
(* How a monster is moving, worked out from where each server tick put it      *)
(* (state/MotionTracker.ts), as Auto Aim feeds it. One entity, a position being *)
(* the displacement since it was last sighted and a velocity the last sample's  *)
(* displacement and the world time it took: the blend and the arc built from    *)
(* samples are left out. World time is counted in ticks of the usual length,    *)
(* however late they arrive; the session's clock, which a new session starts    *)
(* again, is only asked how old a sighting is.                                  *)

CONSTANTS MtSteps,      \* what one tick may do to the entity: displacements <<dx, dy>>
          MtTop,        \* MAX_TILES_PER_MS squared, per tick
          MtStale,      \* STALE_MS
          MtMaxTicks,   \* bound: ticks the entity goes unsighted
          MtMaxNow      \* bound: how long a session lasts

ASSUME MotionAssumption ==
  MtSteps \subseteq Int \X Int /\ MtStale \in Nat \ {0} /\ {MtTop, MtMaxTicks, MtMaxNow} \subseteq Nat

VARIABLES mtOn,       \* the plugin is enabled: packets reach it
          mtNow,      \* external: world.gameTimeMs, since this session connected
          mtStarted,  \* #started
          mtSweptAt,  \* #lastSweepAtMs
          mtTrack,    \* the entity's track, or none
          mtPath,     \* external: where it is, from its last sighting
          mtTicks,    \* ours: the ticks there really were since its last sighting
          mtJumped,   \* ours: one of them moved it further than anything walks
          mtTurns,    \* ours: how its heading changed at the latest two samples since its motion began anew
          mtMissed,   \* ours: a tick or a map change went unheard since its last sighting
          mtCarried   \* ours: a map change went unheard since the tracker was last empty

mtVars == <<mtOn, mtNow, mtStarted, mtSweptAt, mtTrack, mtPath, mtTicks, mtJumped, mtTurns, mtMissed, mtCarried>>

MtNone == [there |-> FALSE]
Nowhere == <<0, 0>>
Squared(v) == v[1] * v[1] + v[2] * v[2]
Sum2(v, w) == <<v[1] + w[1], v[2] + w[2]>>
Sign(n) == IF n > 0 THEN 1 ELSE IF n < 0 THEN -1 ELSE 0

\* The turn from one displacement to the next, as its sign: nothing where it is
\* a jink or a reversal. The squares of the angle's tangents are compared, and
\* that of MAX_TURN_RADIANS is 6.6; displacements are too coarse to turn by less
\* than MIN_TURN_RADIANS and not be straight on.
Turned(v, w) ==
  LET cross == v[1] * w[2] - v[2] * w[1]
      dot == v[1] * w[1] + v[2] * w[2]
  IN IF dot > 0 /\ 5 * cross * cross <= 33 * dot * dot THEN Sign(cross) ELSE 0

\* A track of which only the position is known: just seen, or restarted.
Fresh == [there |-> TRUE, at |-> mtNow, elapsed |-> 0, moving |-> FALSE, sample |-> Nowhere, took |-> 0,
          sampled |-> FALSE, turn |-> 0, turning |-> FALSE]

MotionInit ==
  /\ mtOn \in BOOLEAN /\ mtNow = 0 /\ mtStarted = FALSE /\ mtSweptAt = 0 /\ mtTrack = MtNone /\ mtPath = Nowhere
  /\ mtTicks = 0 /\ mtJumped = FALSE /\ mtTurns = <<>> /\ mtMissed = FALSE
  /\ mtCarried = FALSE

MtAge(track) == mtNow - track.at

Walked(track, step) ==
  MtAge(track) <= MtStale /\ Squared(step) <= MtTop * track.elapsed * track.elapsed

\* A turn is believed once a second sample turns the same way.
Sampled(track, step) ==
  LET turn == IF track.sampled THEN Turned(track.sample, step) ELSE 0
  IN [track EXCEPT !.at = mtNow, !.elapsed = 0, !.moving = TRUE, !.sample = step, !.took = track.elapsed,
                   !.sampled = TRUE, !.turn = turn, !.turning = turn * track.turn > 0]

\* observe: the first sighting, a restart, or a sample.
Sighted(track, step) ==
  IF ~track.there THEN Fresh
  ELSE IF Walked(track, step) THEN Sampled(track, step)
  ELSE Fresh

\* #prune, of a tick: at most one sweep in STALE_MS.
SweepDue == mtNow - mtSweptAt >= MtStale
Swept(track) == IF SweepDue /\ track.there /\ MtAge(track) > MtStale THEN MtNone ELSE track

\* tick opens the tick.
Opened == Swept(IF mtTrack.there THEN [mtTrack EXCEPT !.elapsed = @ + 1] ELSE mtTrack)

\* NEWTICK: the server has moved the entity, and the world holds it alive or not.
MotionTick(step, seen) ==
  /\ mtOn
  /\ seen \/ mtTicks < MtMaxTicks
  /\ mtStarted' = TRUE /\ mtSweptAt' = IF SweepDue THEN mtNow ELSE mtSweptAt
  /\ LET path == Sum2(mtPath, step)
         jumped == mtJumped \/ Squared(step) > MtTop
         next == Sighted(Opened, path)
     IN IF seen
        THEN /\ mtTrack' = next /\ mtPath' = Nowhere /\ mtTicks' = 0 /\ mtJumped' = FALSE
             /\ mtTurns' = IF ~next.moving THEN <<>>
                           ELSE IF ~mtTrack.moving THEN <<0>>
                           ELSE <<mtTurns[Len(mtTurns)], Turned(mtTrack.sample, path)>>
             /\ mtMissed' = FALSE
        ELSE /\ mtTrack' = Opened /\ mtPath' = path /\ mtTicks' = mtTicks + 1 /\ mtJumped' = jumped
             /\ UNCHANGED <<mtTurns, mtMissed>>
  /\ UNCHANGED <<mtOn, mtNow, mtCarried>>

\* The same tick while the plugin is off.
MotionUnheard(step) ==
  /\ ~mtOn /\ mtTicks < MtMaxTicks
  /\ mtPath' = Sum2(mtPath, step) /\ mtTicks' = mtTicks + 1
  /\ mtJumped' = (mtJumped \/ Squared(step) > MtTop) /\ mtMissed' = TRUE
  /\ UNCHANGED <<mtOn, mtNow, mtStarted, mtSweptAt, mtTrack, mtTurns, mtCarried>>

\* Time passes, with or without a packet.
MotionWait ==
  /\ mtNow < MtMaxNow /\ mtNow' = mtNow + 1
  /\ UNCHANGED <<mtOn, mtStarted, mtSweptAt, mtTrack, mtPath, mtTicks, mtJumped, mtTurns, mtMissed, mtCarried>>

\* clear.
MotionClear == mtStarted' = FALSE /\ mtSweptAt' = 0 /\ mtTrack' = MtNone /\ mtTurns' = <<>> /\ mtCarried' = FALSE

\* Another map, and the session that shows it: MAPINFO is heard or not. What the
\* id stood for is gone, and what it stands for is elsewhere.
MotionMap ==
  /\ mtNow' = 0
  /\ IF mtOn THEN MotionClear /\ mtTicks' = 0 /\ mtMissed' = FALSE
             ELSE mtMissed' = TRUE /\ mtCarried' = TRUE /\ UNCHANGED <<mtStarted, mtSweptAt, mtTrack, mtTurns, mtTicks>>
  /\ mtPath' = Nowhere /\ mtJumped' = TRUE /\ UNCHANGED mtOn

MotionToggle == mtOn' = ~mtOn /\ UNCHANGED <<mtNow, mtStarted, mtSweptAt, mtTrack, mtPath, mtTicks, mtJumped,
                                             mtTurns, mtMissed, mtCarried>>

MotionNext ==
  \/ \E step \in MtSteps : MotionUnheard(step) \/ \E seen \in BOOLEAN : MotionTick(step, seen)
  \/ MotionWait \/ MotionMap \/ MotionToggle

(***************************************************************************)
(* Properties.                                                             *)
(***************************************************************************)

\* Types, and a track that says how its entity moves has a sample to say
\* it from; it belongs to the map the entity is in.
MotionTypeOK ==
  /\ mtNow \in 0..MtMaxNow /\ mtSweptAt \in 0..MtMaxNow /\ mtTicks \in 0..MtMaxTicks
  /\ mtTrack.there => /\ mtStarted /\ mtTrack.at \in 0..MtMaxNow
                      /\ mtTrack.moving = mtTrack.sampled /\ mtTrack.moving = (mtTurns # <<>>)
                      /\ mtTrack.moving => mtTrack.took > 0
                      /\ mtTrack.elapsed <= mtTicks

\* What a sighting makes of the entity: one that only walked keeps its motion,
\* over the world time the server really took, whether those ticks came one by
\* one or three at once after a stall; one that was put somewhere nothing walks
\* to in that time has no motion until it is seen again
\* (MotionTracker.ts:21-36, 222-226).
OnlyWalkersAreLed ==
  [][\A step \in MtSteps :
       MotionTick(step, TRUE) /\ ~mtMissed /\ mtTrack.there /\ mtTrack'.there /\ MtAge(mtTrack) <= MtStale =>
         LET path == Sum2(mtPath, step)
             jumped == mtJumped \/ Squared(step) > MtTop
             time == mtTicks + 1
         IN /\ ~jumped => mtTrack'.moving /\ mtTrack'.took = time
            /\ Squared(path) > MtTop * time * time => ~mtTrack'.moving]_mtVars

\* A circle is followed only while the last two changes of heading both went
\* the same way round it: a wobble of one tick, a reversal, or a sample from
\* before the entity was out of view never makes one (MotionTracker.ts:291-298).
TurnsAreCorroborated ==
  mtTrack.there /\ mtTrack.turning => Len(mtTurns) = 2 /\ mtTurns[1] * mtTurns[2] > 0

\* A track nothing was said of for twice STALE_MS does not survive a tick, unless
\* the plugin missed a map change: the tracker's times are then another session's
\* (MotionTracker.ts:165-171, 427-434).
StaleForgotten ==
  [][(\E step \in MtSteps : MotionTick(step, FALSE)) /\ ~mtCarried /\ mtTrack'.there
       => mtNow - mtTrack'.at < 2 * MtStale]_mtVars

------------------------------------------------------------------------------
(* Auto Aim's plan, forty times a second: which enemy, where a shot meets it,  *)
(* and the claim that lets shots through walls (features/autoaim/). Places are *)
(* on a line with the shooter at nought, as the tracker of the player's own     *)
(* walk carries it forward; enemies move straight on; times are plans. What is  *)
(* sent besides the target and the part of the flight led through (the share of *)
(* the lead, the hold) is figures passed on.                                    *)

CONSTANTS AmFields,     \* the enemies about, in the order the world lists them
          AmPriorities, \* what "Aim at" and the cursor come to: records [by, cursor]
          AmRange, AmSpeed, AmMaxFlight, AmTrim, \* the weapon's and the setting's figures
          AmInterval, AmLease, \* CLAIM_INTERVAL_MS and the module's lease, in plans
          AmParts,     \* the finest times a meeting is compared with
          AmNobody

AmEnemy == [at : Int, v : Int, known : BOOLEAN, hp : Int, traits : SUBSET STRING, boss : BOOLEAN]

\* What the settings come to before the player touches them.
AmFirst == [by |-> "closest", cursor |-> AmNobody]

ASSUME AimAssumption ==
  /\ {AmRange, AmSpeed, AmMaxFlight, AmInterval} \subseteq Nat \ {0} /\ {AmTrim, AmParts} \subseteq Nat
  /\ AmLease \in Nat /\ AmLease > AmInterval
  /\ AmFields \subseteq Seq(AmEnemy)
  /\ \A p \in AmPriorities : /\ p.by \in {"closest", "lowestHp", "highestHp", "cursor"}
                             /\ p.cursor # AmNobody => p.cursor \in Int
  /\ AmFirst \in AmPriorities

VARIABLES amField,    \* world.enemies()
          amArmed,    \* a session whose player lives, with a weapon whose figures are known
          amPicked,   \* engagedTarget(): one of them, or nobody about
          amPriority, amRule, amSkips, amLocks, \* priority, bosses, skipUntouchable and skipObstacles, lockEngaged
          amAim,      \* the last aimAt: the enemy and the time led through, or nobody
          amOn, amWalls,          \* the plugin's switch and its passWalls
          amClaiming, amClaimedAgo, \* claiming, plans since claimedAtMs
          amLeft,     \* external: plans left of the module's lease
          amUnwanted, \* ours: plans since shots were last to pass walls
          amWanted    \* ours: a plan ran since they are to

amScene == <<amField, amArmed, amPicked>>
amSettings == <<amPriority, amRule, amSkips, amLocks>>
amClaim == <<amClaiming, amClaimedAgo, amLeft>>
amVars == <<amScene, amSettings, amAim, amOn, amWalls, amClaim, amUnwanted, amWanted>>

Far(n) == IF n < 0 THEN -n ELSE n

AimInit ==
  /\ amField \in AmFields /\ amArmed = FALSE /\ amPicked = AmNobody
  /\ amPriority = AmFirst /\ amRule = "prefer"
  /\ amSkips = {"untouchable", "wall"} /\ amLocks = TRUE /\ amWalls = FALSE /\ amOn \in BOOLEAN
  /\ amAim = AmNobody /\ amClaiming = FALSE /\ amClaimedAgo = AmInterval /\ amLeft = 0
  /\ amUnwanted = AmLease /\ amWanted = FALSE

(***************************************************************************)
(* Where a shot meets something moving: times are fractions <<n, d>>, and   *)
(* an answer is a set of at most one.                                      *)
(***************************************************************************)

Sooner(t, u) == t[1] * u[2] <= u[1] * t[2]
Least(ts) == {t \in ts : \A u \in ts : Sooner(t, u)}
Frac(n, d) == IF d < 0 THEN <<-n, -d>> ELSE <<n, d>>

\* solveFlightTime: the smallest root of a t^2 + 2 b t + c that is not negative.
\* On a line the discriminant is a square.
FlightTime(a, b, c) ==
  LET disc == b * b - a * c
      root == CHOOSE r \in 0..disc : r * r = disc
  IN IF c = 0 THEN {<<0, 1>>}
     ELSE IF a = 0 THEN IF b >= 0 THEN {} ELSE {<<c, -2 * b>>}
     ELSE {t \in {Frac(-b - root, a), Frac(-b + root, a)} : t[1] >= 0}

\* solveIntercept.
Meeting(enemy) ==
  LET v == enemy.v  d == enemy.at
  IN {t \in Least(FlightTime(v * v - AmSpeed * AmSpeed, d * v, d * d)) : t[1] <= AmMaxFlight * t[2]}

\* How much of the flight is led through.
LedThrough(t) == IF t[1] <= AmTrim * t[2] THEN <<0, 1>> ELSE <<t[1] - AmTrim * t[2], t[2]>>

\* aimPointFor: one whose motion nothing is known of is aimed at where it is.
AimPoint(enemy) == IF ~enemy.known THEN {<<0, 1>>} ELSE {LedThrough(t) : t \in Meeting(enemy)}

(***************************************************************************)
(* Which enemy.                                                            *)
(***************************************************************************)

\* isShootable: two of the reasons against one are switched.
Shootable(enemy) == enemy.traits \cap ({"invincible", "noHealthBar"} \cup amSkips) = {}

AimAccepts(enemy) == Shootable(enemy) /\ AimPoint(enemy) # {}
InRange(enemy) == Far(enemy.at) <= AmRange
IsBoss(enemy) == amRule # "any" /\ enemy.boss

Score(enemy) ==
  CASE amPriority.by = "closest" -> Far(enemy.at)
    [] amPriority.by = "lowestHp" -> enemy.hp
    [] amPriority.by = "highestHp" -> -enemy.hp
    [] amPriority.by = "cursor" -> (enemy.at - amPriority.cursor) * (enemy.at - amPriority.cursor)

\* What the running best lets by: a boss outranks every score.
Outranks(enemy, best) ==
  LET boss == IsBoss(enemy)  by == IsBoss(best)
  IN /\ ~(by /\ ~boss)
     /\ boss = by => (Score(enemy) < Score(best) \/ (Score(enemy) = Score(best) /\ Far(enemy.at) < Far(best.at)))

\* selectTarget: one pass, and whoever would be the new best has to be accepted
\* to become it. Nothing is chosen by a cursor nobody has told of.
Selected(field) ==
  LET Runs(enemy) == enemy.hp > 0 /\ InRange(enemy) /\ (amRule = "only" => IsBoss(enemy))
      Best[i \in 0..Len(field)] ==
        IF i = 0 THEN 0
        ELSE IF /\ Runs(field[i])
                /\ Best[i - 1] = 0 \/ Outranks(field[i], field[Best[i - 1]])
                /\ AimAccepts(field[i]) THEN i
        ELSE Best[i - 1]
  IN IF amPriority.by = "cursor" /\ amPriority.cursor = AmNobody THEN 0 ELSE Best[Len(field)]

\* The one the player picked, while it can be hurt and reached.
Locked ==
  IF ~amLocks \/ amPicked = AmNobody THEN 0
  ELSE LET enemy == amField[amPicked]
       IN IF enemy.hp > 0 /\ InRange(enemy) /\ AimAccepts(enemy) THEN amPicked ELSE 0

Target == IF ~amArmed THEN 0 ELSE IF Locked # 0 THEN Locked ELSE Selected(amField)

(***************************************************************************)
(* The plan.                                                               *)
(***************************************************************************)

\* claimPassWalls, a plan later.
ClaimWalls ==
  LET ago == IF amClaimedAgo = AmInterval THEN AmInterval ELSE amClaimedAgo + 1
      quiet == IF amWalls THEN amClaiming /\ ago < AmInterval ELSE ~amClaiming
  IN IF quiet THEN amClaimedAgo' = ago /\ amLeft' = (IF amLeft = 0 THEN 0 ELSE amLeft - 1) /\ UNCHANGED amClaiming
     ELSE amClaiming' = amWalls /\ amClaimedAgo' = 0 /\ amLeft' = IF amWalls THEN AmLease ELSE 0

\* Time by which the player's wish has stood.
Stood == LET passing == amOn /\ amWalls
         IN /\ amWanted' = passing
            /\ amUnwanted' = IF passing THEN 0 ELSE IF amUnwanted = AmLease THEN AmLease ELSE amUnwanted + 1

\* The timer, while the plugin is enabled: the claim, then the aim, which is
\* left as it was when there is nobody to aim at.
AimPlan ==
  /\ amOn /\ ClaimWalls /\ Stood
  /\ amAim' = IF Target = 0 THEN amAim
              ELSE [enemy |-> amField[Target], led |-> CHOOSE t \in AimPoint(amField[Target]) : TRUE]
  /\ UNCHANGED <<amScene, amSettings, amOn, amWalls>>

\* A plan's time with the plugin off: the module's lease runs on.
AimIdle ==
  /\ ~amOn /\ Stood /\ amLeft' = (IF amLeft = 0 THEN 0 ELSE amLeft - 1)
  /\ amClaimedAgo' = IF amClaimedAgo = AmInterval THEN AmInterval ELSE amClaimedAgo + 1
  /\ UNCHANGED <<amScene, amSettings, amAim, amOn, amWalls, amClaiming>>

AimToggle == amOn' = ~amOn /\ UNCHANGED <<amScene, amSettings, amAim, amWalls, amClaim, amUnwanted, amWanted>>
AimWalls == amWalls' = ~amWalls /\ UNCHANGED <<amScene, amSettings, amAim, amOn, amClaim, amUnwanted, amWanted>>

\* The world, the player and who is picked change.
AimWorld ==
  /\ \/ amField' \in AmFields /\ amPicked \in {AmNobody} \cup DOMAIN amField' /\ UNCHANGED <<amArmed, amPicked>>
     \/ amPicked' \in {AmNobody} \cup DOMAIN amField /\ UNCHANGED <<amField, amArmed>>
     \/ amArmed' = ~amArmed /\ UNCHANGED <<amField, amPicked>>
  /\ UNCHANGED <<amSettings, amAim, amOn, amWalls, amClaim, amUnwanted, amWanted>>

\* A setting does, one at a time.
AimSet ==
  /\ \/ amPriority' \in AmPriorities /\ UNCHANGED <<amRule, amSkips, amLocks>>
     \/ amRule' \in {"any", "prefer", "only"} /\ UNCHANGED <<amPriority, amSkips, amLocks>>
     \/ amSkips' \in SUBSET {"untouchable", "wall"} /\ UNCHANGED <<amPriority, amRule, amLocks>>
     \/ amLocks' = ~amLocks /\ UNCHANGED <<amPriority, amRule, amSkips>>
  /\ UNCHANGED <<amScene, amAim, amOn, amWalls, amClaim, amUnwanted, amWanted>>

\* Two halves that share the timer and nothing else.
AimDecides == AimPlan \/ AimWorld \/ AimSet
AimClaims == AimPlan \/ AimIdle \/ AimToggle \/ AimWalls

(***************************************************************************)
(* Properties.                                                             *)
(***************************************************************************)

\* Types.
AimTypeOK ==
  /\ amField \in AmFields /\ amPicked \in {AmNobody} \cup DOMAIN amField /\ amPriority \in AmPriorities
  /\ amLeft \in 0..AmLease /\ amClaimedAgo \in 0..AmInterval
  /\ amAim # AmNobody => amAim.enemy.hp > 0 /\ InRange(amAim.enemy)

\* The reference: whoever may be chosen, and the order among them.
Eligible(i) == LET enemy == amField[i] IN enemy.hp > 0 /\ InRange(enemy) /\ AimAccepts(enemy)
Ranked(i) == Eligible(i) /\ (amRule = "only" => amField[i].boss)
RanksBefore(i, j) ==
  LET key(k) == <<IF IsBoss(amField[k]) THEN 0 ELSE 1, Score(amField[k]), Far(amField[k].at), k>>
      a == key(i)  b == key(j)
  IN \E n \in 1..4 : a[n] < b[n] /\ \A m \in 1..(n - 1) : a[m] = b[m]

\* The plan aims at the best of all it could aim at, whatever order the world
\* lists them in: a better one that cannot be hit or hurt never costs the shot
\* at the next (selectTarget.ts:107-117, 200-216), and the enemy the player
\* picked comes before every ranking while it can be hit, and for no longer
\* (autoAimPlugin.ts:293-304, lockEngaged).
BestOfThose ==
  [][AimPlan =>
       LET tellable == ~(amPriority.by = "cursor" /\ amPriority.cursor = AmNobody)
           ranked == IF tellable THEN {i \in DOMAIN amField : Ranked(i)} ELSE {}
       IN IF ~amArmed THEN amAim' = amAim
          ELSE IF amLocks /\ amPicked # AmNobody /\ Eligible(amPicked) THEN amAim'.enemy = amField[amPicked]
          ELSE IF ranked = {} THEN amAim' = amAim
          ELSE \E i \in ranked : amAim'.enemy = amField[i] /\ \A j \in ranked \ {i} : RanksBefore(i, j)]_amVars

\* A shot fired now meets its target at the flight time found, nothing sooner
\* would, and nothing found means that nothing in reach of the shot would
\* (intercept.ts:66-77, 188-196), at any fraction of a plan of so many parts.
MeetsAt(enemy, t) == Far(enemy.at * t[2] + enemy.v * t[1]) = AmSpeed * t[1]
Moments == UNION {{<<n, m>> : n \in 0..AmMaxFlight * m} : m \in 1..AmParts}
FirstMeeting ==
  \A i \in DOMAIN amField :
    LET enemy == amField[i]
    IN /\ \A t \in Meeting(enemy) : t[1] >= 0 /\ t[2] > 0 /\ MeetsAt(enemy, t) /\ t[1] <= AmMaxFlight * t[2]
       /\ \A t \in Moments : MeetsAt(enemy, t) => \E first \in Meeting(enemy) : Sooner(first, t)

\* Shots pass walls from the next plan on for as long as the player wants it,
\* though the module forgets every claim in a lease; and when the player has not
\* wanted it for that lease, the setting or the plugin switched off, they do not (autoAimPlugin.ts, claimPassWalls).
WallsAsWanted ==
  /\ amWanted /\ amOn /\ amWalls => amLeft > 0
  /\ amUnwanted = AmLease /\ ~(amOn /\ amWalls) => amLeft = 0
==============================================================================
