------------------------------ MODULE Steering ------------------------------
(* Who walks the character (features/dodge/dodgePlugin.ts, the decisions of    *)
(* DodgePlanner.ts, dodgeCommand.ts, features/cursorwalk): the player's hands, *)
(* the chord that walks to the cursor, and the dodge, which gives the wheel    *)
(* back as soon as it has no use for it. The room is a line of places; what    *)
(* flies through it and which way round the optimizer finds is anything.       *)
EXTENDS Integers

CONSTANTS DgLast,    \* the places are 0 .. DgLast
          DgBeasts,  \* where the enemy may stand
          DgRange,   \* weaponReachTiles times rangePercent, in places, with a weapon known
          DgReach,   \* ANCHOR_REACH_TILES
          DgShare,   \* places a plan walks in a tick,
          DgFull,    \* and what the character can do
          DgHold,    \* holdMs, in ticks
          DgGrounds, \* what a plan may find at each place: 0 good, 1 crowded, 2 spoiled, 3 a wall
          DgAnswers, \* what the optimizer may answer: [dir, steps, crowded]
          DgDriving, \* respectIntent and interceptControl
          DgNone,
          DgMaxTurns \* bound: what happens around the plans

DgPlaces == 0 .. DgLast

ASSUME SteeringAssumption ==
  /\ {DgLast, DgRange, DgReach, DgMaxTurns} \subseteq Nat /\ {DgShare, DgFull, DgHold} \subseteq Nat \ {0}
  /\ DgShare <= DgFull /\ DgBeasts \subseteq DgPlaces /\ DgBeasts # {}
  /\ DgNone \notin Int /\ DgNone \notin BOOLEAN
  /\ DgGrounds \subseteq [DgPlaces -> 0 .. 3]
  /\ DgAnswers \subseteq [dir : {-1, 0, 1}, steps : 0 .. DgLast, crowded : BOOLEAN]
  /\ \A a \in DgAnswers : (a.dir = 0) = (a.steps = 0)
  /\ DgDriving \subseteq [respects : BOOLEAN, cancels : BOOLEAN]

VARIABLES dgOn,         \* the dodge's switch
          dgArmed,      \* controls.anchor
          dgAnchor,     \* anchor: the place the player named
          dgEngaged,    \* engagedId: DgNone, or whether the enemy it names is there and lives
          dgOrbiting,   \* orbiting: this plan holds the ring round it
          dgMind,       \* the planner's own ground: [place, held, orbit, pinned], and stale after ANCHOR_FRESH_MS
          dgCommanding, \* the dodge's commanding, and
          dgWalking,    \* cursor-walk's
          dgChords,     \* cursor-walk's switch
          dgSteer,      \* the direction the module last said the player steers, 0 for none
          dgChord,      \* where the chord points while held, DgNone otherwise
          dgTarget,     \* the module's move target: [by, push or to, left]
          dgAt,         \* the character
          dgHere,       \* ours: which of place and enemy was named on this map,
          dgStrange,    \* and whether it began while the dodge was off
          dgTurns       \* ours: how much has happened around the plans

dgGhosts == <<dgHere, dgStrange>>
dgVars == <<dgOn, dgArmed, dgAnchor, dgEngaged, dgOrbiting, dgMind, dgCommanding, dgWalking, dgChords,
            dgSteer, dgChord, dgTarget, dgAt, dgGhosts, dgTurns>>
dgHeld == <<dgAnchor, dgEngaged, dgOrbiting>>

DgSides == {-1, 0, 1}
DgGap(a, b) == IF a < b THEN b - a ELSE a - b
DgSign(n) == IF n > 0 THEN 1 ELSE IF n < 0 THEN -1 ELSE 0
DgClamp(p) == IF p < 0 THEN 0 ELSE IF p > DgLast THEN DgLast ELSE p

DgWalk(by, push, left) == [by |-> by, push |-> push, left |-> left]
DgNoTarget == DgWalk("nobody", 0, 0)

\* DodgePlanner.reset.
DgBlank == [place |-> 0, held |-> FALSE, orbit |-> 0, pinned |-> FALSE, stale |-> FALSE]

SteeringInit ==
  /\ dgOn = TRUE /\ dgChords = TRUE /\ dgArmed \in BOOLEAN /\ dgAnchor = DgNone /\ dgEngaged = DgNone /\ dgOrbiting = FALSE
  /\ dgMind = DgBlank /\ dgCommanding = FALSE /\ dgWalking = FALSE /\ dgSteer = 0 /\ dgChord = DgNone
  /\ dgTarget = DgNoTarget /\ dgAt = 0 /\ dgHere = {} /\ dgStrange = FALSE /\ dgTurns = 0

(***************************************************************************)
(* The plan.                                                               *)
(***************************************************************************)

\* #shiftAnchor: the least unfit of the ground held and a step to either side of
\* it, the nearer the character the better, and the first of those as good.
Shifted(ground) ==
  LET place == <<dgMind.place, dgMind.place + DgShare, dgMind.place - DgShare>>
      near  == {i \in 1..3 : place[i] \in DgPlaces}
      Better(i, j) == LET p == place[i]  q == place[j]
                      IN \/ ground[p] < ground[q]
                         \/ ground[p] = ground[q] /\ DgGap(p, dgAt) < DgGap(q, dgAt)
                         \/ ground[p] = ground[q] /\ DgGap(p, dgAt) = DgGap(q, dgAt) /\ i <= j
  IN IF ground[dgMind.place] = 0 THEN dgMind.place
     ELSE place[CHOOSE i \in near : \A j \in near : Better(i, j)]

DgWorth(ground, p) == ground[p] # 2

\* #aimAnchor: a named place, a named ring, the ground a dodge took the player
\* from, or where they are; and how far off it they are.
Aimed(intent, pin, ring, beast, ground) ==
  LET named == intent = 0 /\ (pin # DgNone \/ ring)
      kept  == dgMind.held /\ named = dgMind.pinned
      back  == Shifted(ground)
      Hold(place, orbit, held) ==
        [mind |-> [place |-> place, held |-> held, orbit |-> orbit, pinned |-> named, stale |-> FALSE],
         off |-> DgGap(DgGap(dgAt, place), orbit)]
  IN IF named /\ pin # DgNone THEN Hold(pin, 0, kept)
     ELSE IF named THEN Hold(beast, DgRange, kept)
     ELSE IF kept /\ intent = 0 /\ ~dgMind.stale /\ DgWorth(ground, back) /\ DgGap(dgAt, back) <= DgReach
          THEN Hold(back, dgMind.orbit, TRUE)
     ELSE Hold(dgAt, 0, FALSE)

\* walkCommand, for a plan that steers: a push of the module's on top of the
\* player's own walking, and for how long, or nothing.
WalkCommand(answer, intent, cancels) ==
  LET dir     == answer.dir
      speed   == IF answer.crowded THEN DgFull ELSE DgShare
      against == IF cancels THEN intent * DgShare ELSE 0
      cancel  == dir * speed - against
      want    == IF cancel * dir >= 0 THEN cancel ELSE dir * speed
      size    == IF DgGap(want, 0) < speed THEN DgGap(want, 0) ELSE speed
      ticks   == (answer.steps + size - 1) \div size
  IN IF dir = 0 THEN IF cancels /\ intent # 0 THEN DgWalk("dodge", -intent * DgShare, DgHold) ELSE DgNoTarget
     ELSE IF want = 0 THEN DgNoTarget
     ELSE DgWalk("dodge", DgSign(want) * size, IF ticks < DgHold THEN ticks ELSE DgHold)

\* A record of no distance and the shortest hold: the module stops on it at once.
LetGo(was) == IF was THEN DgNoTarget ELSE dgTarget

\* applyPick: a press on the enemy takes it, one on nothing lets go.
DgPicked(press) == CASE press = "none" -> dgEngaged [] press = "beast" -> TRUE [] OTHER -> DgNone

\* aimRing, while there is no named place: an enemy that is gone is let go, and the
\* ring held round one that is not, with a weapon whose reach is known.
DgRing(anchor, taken, weapon) ==
  [engaged |-> IF anchor = DgNone /\ taken = FALSE THEN DgNone ELSE taken,
   holds   |-> anchor = DgNone /\ taken = TRUE /\ weapon /\ DgRange > 0]

\* plan: nothing to say while the player's own course costs nothing and they are
\* on their ground, else the optimizer's answer; a step makes that ground held.
Planned(intent, anchor, ring, beast, danger, answer, ground) ==
  LET aim   == Aimed(intent, anchor, ring, beast, ground)
      quiet == ~danger /\ aim.off = 0
  IN [mind   |-> [aim.mind EXCEPT !.held = ~quiet /\ (@ \/ answer.steps > 0)],
      steers |-> ~quiet /\ (answer.steps > 0 \/ intent # 0)]

\* cursorWalk.target, as the dodge is told of it.
DgChordHeld == dgChord # DgNone /\ dgChords

\* dodge, after the press and the armed switch are answered: a held chord beats
\* everything, and a plan with nothing to command gives the wheel back.
DgPlan(press, weapon, beast, ground, danger, answer, driving) ==
  LET anchor  == IF dgAnchor = DgNone /\ dgArmed THEN dgAt ELSE dgAnchor
      ring    == DgRing(anchor, DgPicked(press), weapon)
      intent  == IF driving.respects THEN dgSteer ELSE 0
      plan    == Planned(intent, anchor, ring.holds, beast, danger, answer, ground)
      command == IF plan.steers THEN WalkCommand(answer, intent, driving.cancels) ELSE DgNoTarget
  IN /\ dgOn
     /\ dgAnchor' = anchor /\ dgEngaged' = ring.engaged /\ dgOrbiting' = ring.holds
     /\ IF DgChordHeld
        THEN dgMind' = DgBlank /\ UNCHANGED <<dgCommanding, dgTarget>>
        ELSE /\ dgMind' = plan.mind
             /\ dgCommanding' = (command # DgNoTarget)
             /\ dgTarget' = IF command = DgNoTarget THEN LetGo(dgCommanding) ELSE command
     /\ dgHere' = dgHere \cup (IF dgAnchor = anchor THEN {} ELSE {"place"}) \cup (IF press = "beast" THEN {"enemy"} ELSE {})
     /\ UNCHANGED <<dgOn, dgArmed, dgWalking, dgChords, dgSteer, dgChord, dgAt, dgStrange, dgTurns>>

\* The cursor-walk plugin's interval: the place stands for its hold, and the
\* release stops it once.
DgCursorWalk ==
  /\ dgChords
  /\ IF dgChord # DgNone
     THEN dgWalking' = TRUE /\ dgTarget' = DgWalk("cursor", dgChord, DgHold)
     ELSE dgWalking' = FALSE /\ dgTarget' = LetGo(dgWalking)
  /\ UNCHANGED <<dgOn, dgArmed, dgHeld, dgMind, dgCommanding, dgChords, dgSteer, dgChord, dgAt, dgHere, dgStrange, dgTurns>>

(***************************************************************************)
(* What happens around it.                                                 *)
(***************************************************************************)

\* The module walks what its target says while it stands.
DgTick ==
  /\ dgTarget.left > 0
  /\ dgAt' = CASE dgTarget.by = "dodge" -> DgClamp(dgAt + dgTarget.push)
               [] OTHER -> dgAt + DgSign(dgTarget.push - dgAt)
  /\ dgTarget' = IF dgTarget.left = 1 THEN DgNoTarget ELSE [dgTarget EXCEPT !.left = @ - 1]
  /\ UNCHANGED <<dgOn, dgArmed, dgHeld, dgMind, dgCommanding, dgWalking, dgChords, dgSteer, dgChord, dgGhosts, dgTurns>>

\* The player's own walking, a knockback, a correction.
DgMoved(p) ==
  /\ DgGap(p, dgAt) = 1 /\ dgAt' = p
  /\ UNCHANGED <<dgOn, dgArmed, dgHeld, dgMind, dgCommanding, dgWalking, dgChords, dgSteer, dgChord, dgTarget, dgGhosts>>

\* No plan for ANCHOR_FRESH_MS.
DgIdle ==
  /\ dgMind.held /\ dgMind' = [dgMind EXCEPT !.stale = TRUE]
  /\ UNCHANGED <<dgOn, dgArmed, dgHeld, dgCommanding, dgWalking, dgChords, dgSteer, dgChord, dgTarget, dgAt, dgGhosts, dgTurns>>

\* SteerTracker: a direction observed, a release, or one nobody restated in time.
DgSteers(d) ==
  /\ d # dgSteer /\ dgSteer' = d
  /\ UNCHANGED <<dgOn, dgArmed, dgHeld, dgMind, dgCommanding, dgWalking, dgChords, dgChord, dgTarget, dgAt, dgGhosts>>

\* The chord and the reading of the cursor it needs, which may go stale.
DgPoints(p) ==
  /\ p # dgChord /\ dgChord' = p
  /\ UNCHANGED <<dgOn, dgArmed, dgHeld, dgMind, dgCommanding, dgWalking, dgChords, dgSteer, dgTarget, dgAt, dgGhosts>>

\* The anchor's switch, by its key or the panel: no place until the next plan.
DgArm ==
  /\ dgArmed' = ~dgArmed /\ dgAnchor' = DgNone
  /\ UNCHANGED <<dgOn, dgEngaged, dgOrbiting, dgMind, dgCommanding, dgWalking, dgChords, dgSteer, dgChord, dgTarget, dgAt, dgGhosts>>

\* dropEngage, when the pick's own switch goes off.
DgDropEngage == dgEngaged' = DgNone /\ dgOrbiting' = FALSE
DgNoEngage ==
  /\ dgEngaged # DgNone /\ DgDropEngage
  /\ UNCHANGED <<dgOn, dgArmed, dgAnchor, dgMind, dgCommanding, dgWalking, dgChords, dgSteer, dgChord, dgTarget, dgAt, dgGhosts>>

DgDies ==
  /\ dgEngaged = TRUE /\ dgEngaged' = FALSE
  /\ UNCHANGED <<dgOn, dgArmed, dgAnchor, dgOrbiting, dgMind, dgCommanding, dgWalking, dgChords, dgSteer, dgChord, dgTarget, dgAt, dgGhosts>>

\* dropAnchor and dropEngage.
DgDrop == dgArmed' = FALSE /\ dgAnchor' = DgNone /\ DgDropEngage

\* A new connection, which the planner hears of too, and MAPINFO, which does not
\* reach a plugin that is off.
DgNewMap(connects) ==
  /\ IF dgOn \/ connects THEN DgDrop /\ dgStrange' = FALSE
             ELSE UNCHANGED <<dgArmed, dgHeld>> /\ dgStrange' = TRUE
  /\ dgMind' = IF connects THEN DgBlank ELSE dgMind
  /\ dgHere' = {}
  /\ UNCHANGED <<dgOn, dgCommanding, dgWalking, dgChords, dgSteer, dgChord, dgTarget, dgAt>>

\* A module that connects holds nothing and points nowhere.
DgModuleConnects ==
  /\ dgSteer' = 0 /\ dgChord' = DgNone /\ dgTarget' = DgNoTarget
  /\ UNCHANGED <<dgOn, dgArmed, dgHeld, dgMind, dgCommanding, dgWalking, dgChords, dgAt, dgGhosts>>

DgSwitch ==
  /\ dgOn' = ~dgOn
  /\ UNCHANGED <<dgArmed, dgHeld, dgMind, dgCommanding, dgWalking, dgChords, dgSteer, dgChord, dgTarget, dgAt, dgGhosts>>

\* Cursor-walk's switch, which tells the module nothing.
DgChordSwitch ==
  /\ dgChords' = ~dgChords
  /\ UNCHANGED <<dgOn, dgArmed, dgHeld, dgMind, dgCommanding, dgWalking, dgSteer, dgChord, dgTarget, dgAt, dgGhosts>>

\* What a plan does not read may be any one thing.
Unless(unread, choices) == IF unread THEN {CHOOSE c \in choices : TRUE} ELSE choices

\* A press names an enemy, or nothing; one that picks who is picked already, or
\* lets go of nobody, changes nothing.
Presses == {"none"} \cup (IF dgEngaged = TRUE THEN {} ELSE {"beast"}) \cup (IF dgEngaged = DgNone THEN {} ELSE {"nothing"})

DgPlanNow ==
  \E press \in Presses, danger \in BOOLEAN, answer \in DgAnswers,
     ground \in Unless(~dgMind.held, DgGrounds), driving \in Unless(dgSteer = 0, DgDriving) :
    LET ringless == DgPicked(press) # TRUE
    IN \E weapon \in Unless(ringless, BOOLEAN), beast \in Unless(ringless, DgBeasts) :
         DgPlan(press, weapon, beast, ground, danger, answer, driving)

\* Everything around the plans, as often as the bound lets it.
DgTurn ==
  /\ dgTurns < DgMaxTurns /\ dgTurns' = dgTurns + 1
  /\ \/ DgArm \/ DgNoEngage \/ DgDies \/ DgModuleConnects \/ DgSwitch \/ DgChordSwitch
     \/ \E p \in DgPlaces : DgMoved(p)
     \/ \E d \in DgSides : DgSteers(d)
     \/ \E p \in {DgNone, DgLast} : DgPoints(p)
     \/ \E connects \in BOOLEAN : DgNewMap(connects)

SteeringNext == DgPlanNow \/ DgCursorWalk \/ DgTick \/ DgIdle \/ DgTurn

(***************************************************************************)
(* Properties.                                                             *)
(***************************************************************************)

SteeringTypeOK ==
  /\ {dgOn, dgArmed, dgOrbiting, dgCommanding, dgWalking, dgChords, dgStrange} \subseteq BOOLEAN
  /\ {dgAnchor, dgChord} \subseteq DgPlaces \cup {DgNone} /\ dgEngaged \in BOOLEAN \cup {DgNone}
  /\ dgMind \in [place : DgPlaces, held : BOOLEAN, orbit : 0 .. DgRange, pinned : BOOLEAN, stale : BOOLEAN]
  /\ dgSteer \in DgSides /\ dgAt \in DgPlaces /\ dgHere \subseteq {"place", "enemy"}
  /\ dgTarget \in [by : {"nobody", "dodge", "cursor"}, push : -DgFull .. DgLast + DgFull, left : 0 .. DgHold]

\* A walk the module still follows is one its plugin knows it has to end: neither
\* feature can fall silent and leave the character walking on
\* (dodgePlugin.ts:294-303).
WalkIsOwned ==
  /\ dgTarget.by = "dodge" => dgCommanding
  /\ dgTarget.by = "cursor" => dgWalking

\* A place and an enemy the player named mean something on this map, unless it
\* began while the dodge was off and heard of nothing.
NamedHere ==
  ~dgStrange => /\ dgAnchor # DgNone => dgArmed /\ "place" \in dgHere
                /\ dgEngaged # DgNone => "enemy" \in dgHere

\* The ring is held round an enemy that was picked and never against a named
\* place, and the planner keeps a ring only as a named ground.
RingIsNamed ==
  /\ dgOrbiting => dgEngaged # DgNone /\ dgAnchor = DgNone
  /\ dgMind.orbit > 0 => dgMind.pinned

\* With the player's input cancelled, the module's push on top of their walking
\* is never against the plan, never faster than the plan may go, and ends where
\* the plan's step ends or a frame later.
PushIsTheDifference ==
  \A answer \in DgAnswers, intent \in DgSides :
    LET push == WalkCommand(answer, intent, TRUE).push
        left == WalkCommand(answer, intent, TRUE).left
    IN /\ (intent * DgShare + push) * answer.dir >= 0
       /\ answer.dir = 0 => intent * DgShare + push = 0
       /\ DgGap(push, 0) <= IF answer.crowded THEN DgFull ELSE DgShare
       /\ left <= DgHold /\ (left > 1 /\ answer.dir # 0 => DgGap(push, 0) * (left - 1) < answer.steps)

\* While the chord walks the character, the dodge says nothing to the module; with
\* cursor-walk switched off it does, the chord held or not (Application.ts:780-792).
OneWriter == [][dgTarget.by = "cursor" /\ DgChordHeld => dgTarget'.by # "dodge"]_dgVars

\* The ground a dodge took the player from is gone back to only within reach,
\* and what was named never becomes such ground once it is dropped.
ReturnsNearby ==
  [][/\ dgMind' # dgMind /\ dgMind'.held /\ ~dgMind'.pinned /\ ~dgMind'.stale => DgGap(dgAt, dgMind'.place) <= DgReach
     /\ dgMind.pinned /\ ~dgMind'.pinned => dgMind'.place = dgAt \/ dgMind' = DgBlank]_dgVars
=============================================================================
