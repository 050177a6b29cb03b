-------------------------------- MODULE Shots --------------------------------
(* Projectiles (state/projectiles) and thrown blasts (state/blasts) in flight.*)
EXTENDS Integers, FiniteSets, Sequences
LOCAL INSTANCE SequencesExt

------------------------------------------------------------------------------
(* Enemy shots in flight: what ENEMYSHOOT announces, where the walls end it,   *)
(* what the client's hits and the module's frames say of it afterwards         *)
(* (state/projectiles/ProjectileStore.ts, flightEnd.ts, the shot packets of    *)
(* pipeline/stages/StateStage.ts, native/ClientFrames.ts), beside the shots    *)
(* the client itself flies. The map is a corridor, a shot crosses one square a *)
(* tick, and a moment is a tick.                                               *)

CONSTANTS ShOwners, ShBullets,
          ShWidth,         \* bullet ids are kept modulo this: 65536
          ShSquares,       \* squares of the corridor: 0 .. ShSquares - 1
          ShKinds,         \* definitions: [life, passes, multi]
          ShNone,          \* a shot there is none of
          MaxLag,          \* ticks an announcement may wait before the client reads it
          MaxWalls,        \* times the walls change
          MaxVolleys, MaxClock  \* bounds

ASSUME ShotsAssumption ==
  /\ ShSquares \in Nat \ {0} /\ ShWidth \in Nat \ {0} /\ ShOwners \subseteq Nat /\ ShBullets \subseteq Nat
  /\ \A k \in ShKinds : k.life \in Nat /\ k.passes \in BOOLEAN /\ k.multi \in BOOLEAN

VARIABLES shNow,
          shWalls,    \* squares that stop a shot: the tile map and the objects on it
          shStore,    \* #shots by key: [kind, from, fired, ends] or ShNone
          shClient,   \* the client's own, by key: + said (what came of its report), or ShNone
          shSpeaks,   \* whether the module sends frames: it does while the dodge asks
          shQueue,    \* announcements the client has not read: by key, or ShNone
          shGone,     \* keys of shots destroyed since the last frame
          shVolleys, shChanges, \* bounds
          shOpened    \* ours: a wall has gone while something was in the air

shVars == <<shNow, shSpeaks, shWalls, shStore, shClient, shQueue, shGone, shVolleys, shChanges, shOpened>>

ShSquare == 0 .. ShSquares - 1
ShKey(owner, bullet) == owner * ShWidth + (bullet % ShWidth)
ShKeys == {ShKey(o, b) : o \in ShOwners, b \in ShBullets}
ShNothing == [k \in ShKeys |-> ShNone]

(***************************************************************************)
(* Flights.                                                                *)
(***************************************************************************)

ShLeast(s) == CHOOSE n \in s : \A m \in s : n <= m

\* Broken variant: the muzzle's own square stops it as well.
FlightEndMuzzled(kind, from, walls) ==
  LET stops == {t \in 0 .. kind.life : from + t \in walls}
  IN IF kind.passes \/ stops = {} THEN kind.life ELSE ShLeast(stops) - 1

\* flightEndMs: the last moment in open ground; what passes cover is not walked,
\* and the square it was fired from never stops it.
FlightEnd(kind, from, walls) ==
  LET stops == {t \in 1 .. kind.life : from + t \in walls}
  IN IF kind.passes \/ stops = {} THEN kind.life ELSE ShLeast(stops) - 1

\* prune, before every read and on every packet.
InFlight(shots, now) == [k \in ShKeys |-> IF shots[k] # ShNone /\ now > shots[k].ends THEN ShNone ELSE shots[k]]

Launched(kind, from, fired) ==
  [kind |-> kind, from |-> from, fired |-> fired, ends |-> fired + FlightEnd(kind, from, shWalls)]

(***************************************************************************)
(* Packets and frames.                                                     *)
(***************************************************************************)

ShotsInit ==
  /\ shNow = 0 /\ shSpeaks \in BOOLEAN /\ shWalls \in SUBSET ShSquare /\ shStore = ShNothing /\ shClient = ShNothing
  /\ shQueue = ShNothing /\ shGone = {} /\ shVolleys = 0 /\ shChanges = 0 /\ shOpened = FALSE

\* ENEMYSHOOT of an owner in view whose shot the data knows. A server does not
\* use a bullet's id again while the shot may be in the air.
EnemyShoot(owner, bullet, kind, from) ==
  LET key == ShKey(owner, bullet)
  IN /\ shVolleys < MaxVolleys /\ shQueue[key] = ShNone /\ shClient[key] = ShNone /\ key \notin shGone
     /\ kind.life > 0
     /\ shStore' = [InFlight(shStore, shNow) EXCEPT ![key] = Launched(kind, from, shNow)]
     /\ shQueue' = [shQueue EXCEPT ![key] = [kind |-> kind, from |-> from, at |-> shNow]]
     /\ shVolleys' = shVolleys + 1
     /\ UNCHANGED <<shNow, shSpeaks, shWalls, shClient, shGone, shChanges, shOpened>>

\* The client reads the announcement, and flies the shot from now on.
ClientFires(key) ==
  /\ shQueue[key] # ShNone
  /\ shQueue' = [shQueue EXCEPT ![key] = ShNone]
  /\ shClient' = [shClient EXCEPT ![key] = [kind |-> shQueue[key].kind, from |-> shQueue[key].from,
                                           fired |-> shNow, said |-> "no"]]
  /\ UNCHANGED <<shNow, shSpeaks, shWalls, shStore, shGone, shVolleys, shChanges, shOpened>>

ShAt(c) == c.from + (shNow - c.fired)
ShOver(c) == \/ shNow - c.fired > c.kind.life
             \/ ~c.kind.passes /\ shNow # c.fired /\ ShAt(c) \in shWalls

\* retire: who passes through what it hit flies on.
Retire(key, obstacle) ==
  LET live == InFlight(shStore, shNow)
      on   == live[key] # ShNone /\ (IF obstacle THEN live[key].kind.passes ELSE live[key].kind.multi)
  IN IF on THEN live ELSE [live EXCEPT ![key] = ShNone]

\* PLAYERHIT and OTHERHIT: the client says what a shot of its own has met.
HitsSomebody(key) ==
  /\ shClient[key] # ShNone /\ ~ShOver(shClient[key])
  /\ shStore' = Retire(key, FALSE)
  /\ IF shClient[key].kind.multi THEN UNCHANGED <<shClient, shGone>>
     ELSE shClient' = [shClient EXCEPT ![key] = ShNone] /\ shGone' = shGone \cup {key}
  /\ UNCHANGED <<shNow, shSpeaks, shWalls, shQueue, shVolleys, shChanges, shOpened>>

\* A flight ends; of a wall the client may tell the server (SQUAREHIT).
FlightOver(key, told) ==
  /\ shClient[key] # ShNone /\ ShOver(shClient[key])
  /\ told => ~shClient[key].kind.passes /\ ShAt(shClient[key]) \in shWalls
  /\ shStore' = IF told THEN Retire(key, TRUE) ELSE shStore
  /\ shClient' = [shClient EXCEPT ![key] = ShNone]
  /\ shGone' = shGone \cup {key}
  /\ UNCHANGED <<shNow, shSpeaks, shWalls, shQueue, shVolleys, shChanges, shOpened>>

\* confirm: the client's word replaces the estimate of a shot that is there.
Confirmed(live, born) ==
  [k \in ShKeys |-> IF k \in born /\ live[k] # ShNone
                    THEN Launched(shClient[k].kind, shClient[k].from, shClient[k].fired) ELSE live[k]]

\* A frame of the module: what the client has made and what it has destroyed.
ClientFrame ==
  LET born == {k \in ShKeys : shClient[k] # ShNone /\ shClient[k].said = "no"}
      told == Confirmed(shStore, born)
  IN /\ shSpeaks /\ (born # {} \/ shGone # {})
     /\ shStore' = [k \in ShKeys |-> IF k \in shGone THEN ShNone ELSE told[k]]
     /\ shClient' = [k \in ShKeys |-> IF k \notin born THEN shClient[k]
                                      ELSE [shClient[k] EXCEPT !.said = IF told[k] = ShNone THEN "late" ELSE "taken"]]
     /\ shGone' = {}
     /\ UNCHANGED <<shNow, shSpeaks, shWalls, shQueue, shVolleys, shChanges, shOpened>>

\* Whoever asks for the shots in flight.
ReadShots == /\ shStore' = InFlight(shStore, shNow) /\ shStore' # shStore
             /\ UNCHANGED <<shNow, shSpeaks, shWalls, shClient, shQueue, shGone, shVolleys, shChanges, shOpened>>

\* A door, or something that can be broken.
WallChanges(p) ==
  /\ shChanges < MaxWalls /\ shChanges' = shChanges + 1
  /\ shWalls' = IF p \in shWalls THEN shWalls \ {p} ELSE shWalls \cup {p}
  /\ shOpened' = (shOpened \/ p \in shWalls)
  /\ UNCHANGED <<shNow, shSpeaks, shStore, shClient, shQueue, shGone, shVolleys>>

ShTick ==
  /\ shNow < MaxClock
  /\ \A k \in ShKeys : shClient[k] # ShNone => ~ShOver(shClient[k]) /\ (shSpeaks => shClient[k].said # "no")
  /\ \A k \in ShKeys : shQueue[k] # ShNone => shNow < shQueue[k].at + MaxLag
  /\ shNow' = shNow + 1
  /\ UNCHANGED <<shSpeaks, shWalls, shStore, shClient, shQueue, shGone, shVolleys, shChanges, shOpened>>

ShMapInfo ==
  /\ shStore' = ShNothing /\ shClient' = ShNothing /\ shQueue' = ShNothing /\ shGone' = {}
  /\ UNCHANGED <<shNow, shSpeaks, shWalls, shVolleys, shChanges, shOpened>>

ShotsNext ==
  \/ \E o \in ShOwners, b \in ShBullets, kind \in ShKinds, from \in ShSquare : EnemyShoot(o, b, kind, from)
  \/ \E k \in ShKeys : ClientFires(k) \/ HitsSomebody(k)
  \/ \E k \in ShKeys, told \in BOOLEAN : FlightOver(k, told)
  \/ ClientFrame \/ ReadShots \/ ShTick \/ ShMapInfo
  \/ \E p \in ShSquare : WallChanges(p)

(***************************************************************************)
(* Properties.                                                             *)
(***************************************************************************)

ShotsTypeOK ==
  /\ \A k \in ShKeys : shStore[k] # ShNone =>
       shStore[k].kind \in ShKinds /\ shStore[k].fired <= shNow /\ shStore[k].ends - shStore[k].fired \in 0 .. shStore[k].kind.life
  /\ shWalls \subseteq ShSquare /\ shGone \subseteq ShKeys

ShFlies(k) == shClient[k] # ShNone /\ ~ShOver(shClient[k])

\* A shot the client flies is in the store for as long as it flies, from the
\* frame that told of it on: through walls, hits it survives, whatever its
\* announcement said of when it began. Nobody is walked into a shot the store
\* thinks over, unless a wall has gone (ProjectileStore.ts:217-232, 251-274).
FlownIsKnown ==
  \A k \in ShKeys : ~shOpened /\ ShFlies(k) /\ shClient[k].said = "taken" => InFlight(shStore, shNow)[k] # ShNone

\* Where the client speaks, nobody dodges what it has destroyed: a shot in the
\* store is one it flies, has yet to read of, or tells the end of in its next
\* frame (ClientFrames.ts:181-186).
NoPhantoms ==
  \A k \in ShKeys : shSpeaks /\ shStore[k] # ShNone => shQueue[k] # ShNone \/ shClient[k] # ShNone \/ k \in shGone

------------------------------------------------------------------------------
(* Blasts that are thrown and the ones an enemy makes where it stands: what    *)
(* SHOWEFFECT announces and AOE lands, and the two tables learned from it that *)
(* outlive the run (state/blasts/BlastStore.ts, BlastRadiusTable.ts,           *)
(* SelfBlastTable.ts, SHOWEFFECT and AOE in pipeline/stages/StateStage.ts).    *)
(* Places are on a line. A throw's flight is its type's, and every landing is  *)
(* one that harms.                                                             *)

CONSTANTS BlTypes,          \* types of enemies that throw
          BlBombers,        \* types of enemies that blast themselves
          BlFlight, BlSaid, \* per type: how long a throw flies, what SHOWEFFECT says of it (0: nothing)
          BlPlaces, BlHome, \* places, and where every enemy stands
          BlRadii,          \* radii of landings
          BlReach,          \* CONFIRM_TILES
          BlDefault,        \* DEFAULT_TELEGRAPH_MS
          BlWindow,         \* CONFIRM_WINDOW_MS
          BlMost,           \* MAX_BLASTS
          BlNone,
          BlOldest,         \* bound: ages are not told apart from here on
          BlMaxThrows, BlMaxLandings \* bounds

ASSUME BlastsAssumption ==
  /\ BlPlaces \subseteq Int /\ BlHome \in BlPlaces /\ BlTypes \cap BlBombers = {} /\ BlRadii \subseteq Nat \ {0}
  /\ BlFlight \in [BlTypes -> Nat \ {0}] /\ BlSaid \in [BlTypes -> Nat]
  /\ {BlReach, BlDefault, BlWindow, BlMost, BlOldest} \subseteq Nat

VARIABLES blBlasts,   \* #blasts: sequence of [at, radius, arms, confirmed, age, type]; times count from now
          blFacts,    \* #facts of the radius table by type: [radius, flight, timed] or BlNone
          blSelf,     \* #facts of the self-blast table by type: a radius, 0 for none
          blSaved,    \* both tables as the last shutdown wrote them
          blAir,      \* the server's: throws in the air, [type, at, lands, n]
          blMixed,    \* ours: types whose throws shared a reach with something else
          blThrows, blLandings  \* bounds

blVars == <<blBlasts, blFacts, blSelf, blSaved, blAir, blMixed, blThrows, blLandings>>

BlNear(p, q) == p - q \in -BlReach .. BlReach
BlUnmeasured == [t \in BlTypes |-> BlNone]
BlUnlearned == [t \in BlTypes \cup BlBombers |-> 0]

(***************************************************************************)
(* The tables.                                                             *)
(***************************************************************************)

BlMax(a, b) == IF a > b THEN a ELSE b

\* Broken variant: the last radius is kept.
LearnLast(facts, type, radius, flight) ==
  [facts EXCEPT ![type] =
     IF @ = BlNone THEN [radius |-> radius, flight |-> flight, timed |-> IF flight > 0 THEN 1 ELSE 0]
     ELSE IF flight = 0 THEN [@ EXCEPT !.radius = radius]
     ELSE [radius |-> radius, timed |-> @.timed + 1, flight |-> @.flight + ((flight - @.flight) \div (@.timed + 1))]]

\* BlastRadiusTable.learn: the widest radius, and the mean of the flights.
LearnBlast(facts, type, radius, flight) ==
  [facts EXCEPT ![type] =
     IF @ = BlNone THEN [radius |-> radius, flight |-> flight, timed |-> IF flight > 0 THEN 1 ELSE 0]
     ELSE IF flight = 0 THEN [@ EXCEPT !.radius = BlMax(@, radius)]
     ELSE [radius |-> BlMax(@.radius, radius), timed |-> @.timed + 1,
           flight |-> @.flight + ((flight - @.flight) \div (@.timed + 1))]]

\* SelfBlastTable.learn.
LearnSelf(self, type, radius) == [self EXCEPT ![type] = BlMax(@, radius)]

(***************************************************************************)
(* The store.                                                              *)
(***************************************************************************)

\* prune: a confirmed blast and one that never came are both kept for a while
\* after they were due.
BlKept(blasts) == SelectSeq(blasts, LAMBDA b : -b.arms < BlWindow)

\* announce: due when the server says, else when its kind was measured to be.
Announced(type, at) ==
  LET measured == blFacts[type]
      delay == IF BlSaid[type] > 0 THEN BlSaid[type]
               ELSE IF measured # BlNone /\ measured.flight > 0 THEN measured.flight ELSE BlDefault
      blast == [at |-> at, radius |-> IF measured = BlNone THEN 0 ELSE measured.radius, arms |-> delay,
                confirmed |-> FALSE, age |-> 0, type |-> type]
      all   == Append(blBlasts, blast)
  IN IF Len(all) > BlMost THEN Tail(all) ELSE all

BlWaiting(at) == {i \in DOMAIN blBlasts : ~blBlasts[i].confirmed /\ BlNear(blBlasts[i].at, at)}

\* landed takes the first that waits within reach.
LandedFirst(at) == CHOOSE i \in BlWaiting(at) : \A j \in BlWaiting(at) : i <= j

\* learnSelfBlast: nothing announced may be what landed, and an enemy of the
\* type stands where it did.
IsSelfBlast(type, at, radius) ==
  /\ \A b \in {blBlasts[i] : i \in DOMAIN blBlasts} : ~b.confirmed => b.at - at \notin -(radius + 1) .. radius + 1
  /\ at = BlHome

(***************************************************************************)
(* The packets.                                                            *)
(***************************************************************************)

BlastsInit ==
  /\ blBlasts = <<>> /\ blFacts = BlUnmeasured /\ blSelf = BlUnlearned
  /\ blSaved = [facts |-> BlUnmeasured, self |-> BlUnlearned] /\ blAir = {} /\ blMixed = {} /\ blThrows = 0 /\ blLandings = 0

\* Types of which a landing at this place may be taken for another's.
BlShared(type, at) ==
  LET others == {b \in blAir : b.type # type /\ BlNear(b.at, at)} \cup
                {b \in {blBlasts[i] : i \in DOMAIN blBlasts} : ~b.confirmed /\ b.type # type /\ BlNear(b.at, at)}
  IN IF others = {} THEN {} ELSE {type} \cup {b.type : b \in others}

\* SHOWEFFECT of a throw.
Throw(type, at) ==
  /\ blThrows < BlMaxThrows /\ blThrows' = blThrows + 1
  /\ blBlasts' = Announced(type, at)
  /\ blAir' = blAir \cup {[type |-> type, at |-> at, lands |-> BlFlight[type], n |-> blThrows]}
  /\ blMixed' = blMixed \cup BlShared(type, at)
  /\ UNCHANGED <<blFacts, blSelf, blSaved, blLandings>>

\* AOE at a place, of an enemy of a type.
Lands(type, at, radius) ==
  IF BlWaiting(at) # {}
  THEN \E i \in {LandedFirst(at)} :
         /\ blFacts' = LearnBlast(blFacts, blBlasts[i].type, radius, blBlasts[i].age)
         /\ blBlasts' = [blBlasts EXCEPT ![i].confirmed = TRUE, ![i].arms = 0, ![i].radius = radius]
         /\ UNCHANGED blSelf
  ELSE /\ blSelf' = IF IsSelfBlast(type, at, radius) THEN LearnSelf(blSelf, type, radius) ELSE blSelf
       /\ UNCHANGED <<blFacts, blBlasts>>

ThrowLands(b, radius) ==
  /\ b \in blAir /\ b.lands = 0
  /\ Lands(b.type, b.at, radius)
  /\ blAir' = blAir \ {b}
  /\ UNCHANGED <<blSaved, blMixed, blThrows, blLandings>>

\* A bomber's own, which nothing announces.
Bombs(type, radius) ==
  /\ blLandings < BlMaxLandings /\ blLandings' = blLandings + 1
  /\ Lands(type, BlHome, radius)
  /\ blMixed' = blMixed \cup BlShared(type, BlHome)
  /\ UNCHANGED <<blSaved, blAir, blThrows>>

\* Whoever asks for the blasts.
ReadBlasts == /\ blBlasts' = BlKept(blBlasts) /\ blBlasts' # blBlasts
              /\ UNCHANGED <<blFacts, blSelf, blSaved, blAir, blMixed, blThrows, blLandings>>

BlLeast(a, b) == IF a < b THEN a ELSE b

BlTick ==
  /\ \A b \in blAir : b.lands > 0
  /\ blAir' = {[b EXCEPT !.lands = @ - 1] : b \in blAir}
  /\ blBlasts' = [i \in DOMAIN blBlasts |-> [blBlasts[i] EXCEPT !.arms = BlMax(@ - 1, -BlWindow),
                                                               !.age = BlLeast(@ + 1, BlOldest)]]
  /\ UNCHANGED <<blFacts, blSelf, blSaved, blMixed, blThrows, blLandings>>

\* MAPINFO clears the store, and what was in the air lands on another map.
BlMapInfo == /\ blBlasts' = <<>> /\ blAir' = {}
             /\ UNCHANGED <<blFacts, blSelf, blSaved, blMixed, blThrows, blLandings>>

\* restore of what serialise wrote: every figure within its bounds is kept, and
\* a flight without a count was timed once.
Restored(saved) ==
  [t \in BlTypes |-> IF saved[t] = BlNone THEN BlNone
                     ELSE [saved[t] EXCEPT !.timed = IF @ > 0 THEN @ ELSE IF saved[t].flight > 0 THEN 1 ELSE 0]]

\* A shutdown saves the tables that have something in them.
BlShutdown ==
  /\ blSaved' = [facts |-> IF blFacts = BlUnmeasured THEN blSaved.facts ELSE blFacts,
                 self  |-> IF blSelf = BlUnlearned THEN blSaved.self ELSE blSelf]
  /\ blFacts' = Restored(blSaved'.facts) /\ blSelf' = blSaved'.self
  /\ blBlasts' = <<>> /\ blAir' = {}
  /\ UNCHANGED <<blMixed, blThrows, blLandings>>

\* A run that is killed has learned nothing.
BlKill == /\ blFacts' = Restored(blSaved.facts) /\ blSelf' = blSaved.self /\ blBlasts' = <<>> /\ blAir' = {}
          /\ UNCHANGED <<blSaved, blMixed, blThrows, blLandings>>

BlastsNext ==
  \/ \E t \in BlTypes, p \in BlPlaces : Throw(t, p)
  \/ \E b \in blAir, r \in BlRadii : ThrowLands(b, r)
  \/ \E t \in BlBombers, r \in BlRadii : Bombs(t, r)
  \/ ReadBlasts \/ BlTick \/ BlMapInfo \/ BlShutdown \/ BlKill

(***************************************************************************)
(* Properties.                                                             *)
(***************************************************************************)

BlastsTypeOK ==
  /\ Len(blBlasts) <= BlMost
  /\ \A i \in DOMAIN blBlasts : blBlasts[i].type \in BlTypes /\ blBlasts[i].at \in BlPlaces
  /\ \A t \in BlTypes : blFacts[t] # BlNone => blFacts[t].radius \in BlRadii /\ (blFacts[t].flight > 0) = (blFacts[t].timed > 0)

\* What is learned of a type's flight is its flight, over any number of throws
\* of it in the air at once, maps and restarts, unless throws of two types came
\* down within reach of each other (BlastStore.ts:242-272).
FlightLearnt == \A t \in BlTypes : blFacts[t] # BlNone /\ blFacts[t].timed > 0 /\ t \notin blMixed => blFacts[t].flight = BlFlight[t]

\* Only who blasts itself is kept away from, never a thrower for a throw that
\* came down at its feet: under the same proviso (StateStage.ts:495-517).
ThrowersAreNotBombers == \A t \in BlTypes \ blMixed : blSelf[t] = 0

\* The radius kept for a type never shrinks, except to what was saved.
NeverNarrower ==
  [][\A t \in BlTypes : blFacts[t] # BlNone /\ ~(BlKill \/ BlShutdown)
       => blFacts'[t] # BlNone /\ blFacts'[t].radius >= blFacts[t].radius]_blVars
==============================================================================
