------------------------------ MODULE Patterns ------------------------------
(* Which way a monster's fire turns, and the gap the dodge rides through it    *)
(* (features/dodge: AttackPatterns.ts and PocketLock.ts). One ENEMYSHOOT is a  *)
(* volley; the last few of a monster, as far as they have one shape and a      *)
(* regular time, say how its arms turn or whether they step to and fro. A plan *)
(* locks on to the gap of one monster and keeps it. Angles are whole parts of  *)
(* a circle, times are ticks; the way the monster itself walks is left out.    *)
EXTENDS Integers, FiniteSets, Sequences

CONSTANTS ApMonsters,
          ApRows,    \* MAX_OWNERS
          ApHistory, \* HISTORY
          ApCircle,  \* parts of a full circle
          ApSlack,   \* RING_SLACK_RADIANS
          ApCone,    \* CONE_SPAN_RADIANS
          ApLongest, \* MAX_PERIOD_MS, in ticks (MIN_PERIOD_MS is one)
          ApForget,  \* FORGET_AFTER_MS
          ApSure,    \* CONFIDENT_GAPS
          ApStyles,  \* how each monster may fire: [arms, step, turns], the turns one after another for ever
          PkBelieved, \* MIN_LOCK_CONFIDENCE, in agreeing gaps
          PkFresh,   \* LOCK_FRESH_MS
          PkDrift,   \* MAX_POCKET_DRIFT
          PkWide,    \* safeClearanceTiles times POCKET_WIDTH_MARGIN
          PkLead,    \* leadMs
          PkSights,  \* where a plan may find itself: [far, speed] of the character and of the shots
          PkBearings, \* and which way it may lie from the monster
          ApNobody

ASSUME PatternsAssumption ==
  /\ {ApRows, ApHistory, ApCircle, ApLongest, ApSure} \subseteq Nat \ {0}
  /\ {ApSlack, ApCone, PkDrift, PkWide, PkLead} \subseteq Nat
  /\ ApLongest < ApForget /\ ApForget \in Nat /\ PkFresh \in Nat /\ PkBelieved \in 1 .. ApSure
  /\ \A m \in ApMonsters : \A s \in ApStyles[m] : s.arms >= 1 /\ s.step \in Nat /\ Len(s.turns) > 0
  /\ PkSights \subseteq [far : Nat, speed : Nat] /\ PkBearings \subseteq Int
  /\ ApNobody \notin ApMonsters

VARIABLES apRows,   \* the owners with a row: [quiet, volleys], the newest volley first
          apFires,  \* ours: how each monster fires: [style, next, angle, kept]
          pkOwner,  \* #ownerId, ApNobody for none
          pkAge,    \* ticks since #lockedAtMs, up to PkFresh + 1
          pkGap,    \* #pocket, and
          pkRadial, \* whether it counts waves and not arms
          pkOff    \* ours: how many gaps off the character was when the last plan was given one

apVars == <<apRows, apFires, pkOwner, pkAge, pkGap, pkRadial, pkOff>>
apLock == <<pkOwner, pkAge, pkGap, pkRadial, pkOff>>

ApLeast(a, b) == IF a < b THEN a ELSE b
ApRound(a, b) == (2 * a + b) \div (2 * b)
WrapInto(angle, spacing) == angle - spacing * ApRound(angle, spacing)

\* #read, the shape of it: an aimed shot, a shotgun, a fan or a ring.
Kind(v) ==
  IF v.arms = 1 \/ v.step = 0 THEN "single"
  ELSE IF v.arms * v.step >= ApCircle - ApSlack THEN "ring"
  ELSE IF v.arms * v.step - v.step <= ApCone THEN "cone" ELSE "fan"
Spacing(v) == CASE Kind(v) = "single" -> ApCircle
                [] Kind(v) = "ring" -> ApCircle \div v.arms
                [] OTHER -> v.step

\* How many gaps back the volleys have the newest one's shape and its regular time.
Alike(vs) ==
  LET Breaks == {k \in 1 .. Len(vs) - 1 : \/ vs[k + 1].arms # vs[1].arms \/ vs[k + 1].step # vs[1].step
                                          \/ vs[k].after < 1 \/ vs[k].after > ApLongest}
  IN IF Breaks = {} THEN Len(vs) - 1 ELSE (CHOOSE k \in Breaks : \A j \in Breaks : k <= j) - 1
Total(f, n) == LET S[k \in 0 .. n] == IF k = 0 THEN 0 ELSE S[k - 1] + f[k] IN S[n]

Reading(vs) ==
  LET gaps == Alike(vs)
      turn == [k \in 1 .. gaps |-> WrapInto(vs[k].angle - vs[k + 1].angle, Spacing(vs[1]))]
  IN [gaps |-> gaps, turned |-> Total(turn, gaps), took |-> Total([k \in 1 .. gaps |-> vs[k].after], gaps),
      sure |-> ApLeast(ApSure, Cardinality({k \in 1 .. gaps : turn[k] = turn[1]})),
      alternating |-> /\ gaps >= 2
                      /\ turn[1] # 0 /\ WrapInto(vs[1].angle - vs[3].angle, Spacing(vs[1])) = 0]

\* #baseAt: where the arms point, ticks after the newest volley (or before it).
BaseAt(vs, since) ==
  LET r == Reading(vs)
  IN IF r.alternating
       THEN vs[1].angle + (IF ApRound(since * r.gaps, r.took) % 2 = 1 THEN Spacing(vs[1]) \div 2 ELSE 0)
       ELSE vs[1].angle + (IF r.gaps = 0 THEN 0 ELSE (r.turned * since) \div r.took)

\* #slotFor: the monster's row, or the row of one that has been quiet longest.
WithRow(rows, m) ==
  LET Quietest == {q \in DOMAIN rows : \A o \in DOMAIN rows : rows[o].quiet <= rows[q].quiet}
      Kept(gone) == DOMAIN rows \ gone
      Fresh(gone) == [o \in Kept(gone) \cup {m} |-> IF o = m THEN [quiet |-> 0, volleys |-> <<>>] ELSE rows[o]]
  IN IF m \in DOMAIN rows THEN {rows}
     ELSE IF Cardinality(DOMAIN rows) < ApRows THEN {Fresh({})}
     ELSE {Fresh({q}) : q \in Quietest}

\* observe, once the owner has its row. A volley from elsewhere begins anew.
Observed(rows, m, shape, angle, elsewhere) ==
  LET row == rows[m]
      anew == row.volleys = <<>> \/ row.quiet > ApLongest \/ elsewhere
      split == ~anew /\ row.quiet < 1 /\ row.volleys[1].arms = shape.arms
      v == [arms |-> shape.arms, step |-> shape.step, angle |-> angle, after |-> IF anew THEN 0 ELSE row.quiet]
      all == <<v>> \o (IF anew THEN <<>> ELSE row.volleys)
  IN IF split THEN rows
     ELSE [rows EXCEPT ![m] = [quiet |-> 0, volleys |-> SubSeq(all, 1, ApLeast(ApHistory, Len(all)))]]
PatternsInit ==
  /\ apRows = <<>>
  /\ apFires = [m \in ApMonsters |-> [style |-> CHOOSE s \in ApStyles[m] : TRUE, next |-> 1, angle |-> 0, kept |-> 0]]
  /\ pkOwner = ApNobody /\ pkAge = PkFresh + 1 /\ pkGap = ApNobody /\ pkRadial = FALSE
  /\ pkOff = 0

\* readingOf, and strongestNear: the surest of those in reach, the nearest of these.
Believed(rows, m) ==
  /\ m \in DOMAIN rows
  /\ rows[m].quiet <= ApForget
  /\ Reading(rows[m].volleys).sure >= PkBelieved
Strongest(rows, near) ==
  LET Sure(m) == Reading(rows[m].volleys).sure
      Of == {m \in near \cap DOMAIN rows : rows[m].quiet <= ApForget /\ Sure(m) > 0}
  IN {m \in Of : \A o \in Of : Sure(o) <= Sure(m)}

\* The gap the character is in, and the one the lock keeps: #aimAngular, #aimRadial.
\* A lock that is let go or just taken has no gap, and whether it counts waves is
\* not asked of it.
AimsAngular(vs, s, here, gap, quiet) ==
  LET nearest == (here - BaseAt(vs, quiet + PkLead - s.far \div s.speed)) \div Spacing(vs[1])
      keeps == gap # ApNobody /\ nearest - gap \in -PkDrift .. PkDrift
  IN /\ pkGap' = IF keeps THEN gap ELSE nearest
     /\ pkRadial' = FALSE
     /\ pkOff' = nearest - pkGap'
AimsRadial(s, gap, quiet, band) ==
  /\ pkGap' = IF gap # ApNobody /\ pkRadial THEN gap ELSE (s.speed * (PkLead + quiet) - s.far) \div band
  /\ pkRadial' = TRUE
  /\ pkOff' = 0
AimsNowhere(gap) ==
  /\ pkGap' = gap
  /\ pkRadial' = (gap # ApNobody /\ pkRadial)
  /\ pkOff' = 0

\* aim: the gaps of the monster it holds on to, or else of the strongest one.
Rides(rows, m, gap, s, here) ==
  LET vs == rows[m].volleys
      quiet == rows[m].quiet
      r == Reading(vs)
      band == (s.speed * r.took) \div r.gaps
      angular == Kind(vs[1]) # "single" /\ s.far * Spacing(vs[1]) >= PkWide
  IN /\ pkOwner' = m /\ pkAge' = 0
     /\ \/ (s.speed = 0 \/ s.far = 0) /\ AimsNowhere(gap)
        \/ s.speed > 0 /\ s.far > 0 /\ angular /\ AimsAngular(vs, s, here, gap, quiet)
        \/ s.speed > 0 /\ s.far > 0 /\ ~angular /\ band > PkWide /\ AimsRadial(s, gap, quiet, band)
        \/ s.speed > 0 /\ s.far > 0 /\ ~angular /\ band <= PkWide /\ AimsNowhere(gap)
HoldsOn(rows) == pkOwner # ApNobody /\ pkAge <= PkFresh /\ Believed(rows, pkOwner)
Aim(rows) ==
  \/ /\ HoldsOn(rows)
     /\ \E s \in PkSights, here \in PkBearings : Rides(rows, pkOwner, pkGap, s, here)
  \/ /\ ~HoldsOn(rows)
     /\ \E near \in SUBSET ApMonsters, s \in PkSights, here \in PkBearings :
          \E m \in Strongest(rows, near) : Believed(rows, m) /\ Rides(rows, m, ApNobody, s, here)
  \/ /\ ~HoldsOn(rows)
     /\ \E near \in SUBSET ApMonsters : \A m \in Strongest(rows, near) : ~Believed(rows, m)
     /\ pkOwner' = ApNobody
     /\ AimsNowhere(ApNobody) /\ UNCHANGED pkAge

\* reset: the planner's, of a new connection and while the chord walks the character.
PkReset == pkOwner' = ApNobody /\ pkAge' = PkFresh + 1 /\ AimsNowhere(ApNobody)

\* planNow: a plan, an end of all plans while the chord is held, or nothing when
\* one has only just been made.
PlanNow(rows) == Aim(rows) \/ PkReset \/ UNCHANGED apLock

\* The handler of ENEMYSHOOT: the volley is observed, and at once planned with.
Hears(m, shape, angle, elsewhere) ==
  \E rows \in WithRow(apRows, m) :
    /\ apRows' = Observed(rows, m, shape, angle, elsewhere)
    /\ PlanNow(apRows')

\* The interval.
Plan == PlanNow(apRows) /\ UNCHANGED <<apRows, apFires>>

\* A monster fires its next volley, the same volley in a second packet, or begins
\* to fire in another way. It fires once a tick.
Rested(m) == m \in DOMAIN apRows => apRows[m].quiet >= 1
Fires(m, elsewhere) ==
  LET f == apFires[m]
      angle == (f.angle + f.style.turns[f.next]) % ApCircle
  IN /\ Rested(m)
     /\ Hears(m, f.style, angle, elsewhere)
     /\ apFires' = [apFires EXCEPT ![m] = [f EXCEPT !.angle = angle, !.next = (@ % Len(f.style.turns)) + 1,
                                                    !.kept = ApLeast(@ + 1, ApHistory)]]
FiresAgain(m) ==
  /\ m \in DOMAIN apRows /\ apFires[m].kept > 0 /\ ~Rested(m)
  /\ Hears(m, apFires[m].style, apFires[m].angle, FALSE)
  /\ UNCHANGED apFires
Changes(m, style) ==
  /\ style # apFires[m].style /\ apFires[m].kept > 0
  /\ apFires' = [apFires EXCEPT ![m] = [style |-> style, next |-> 1, angle |-> 0, kept |-> 0]]
  /\ UNCHANGED <<apRows, apLock>>

ApTick ==
  /\ apRows' = [m \in DOMAIN apRows |-> [apRows[m] EXCEPT !.quiet = ApLeast(@ + 1, ApForget + 1)]]
  /\ pkAge' = ApLeast(pkAge + 1, PkFresh + 1)
  /\ UNCHANGED <<apFires, pkOwner, pkGap, pkRadial, pkOff>>

\* MAPINFO forgets the monsters; a new connection the lock as well.
ApNewMap == apRows' = <<>> /\ UNCHANGED <<apFires, apLock>>
ApNewLink == apRows' = <<>> /\ PkReset /\ UNCHANGED apFires

PatternsNext ==
  \/ \E m \in ApMonsters : \/ \E elsewhere \in BOOLEAN : Fires(m, elsewhere)
                           \/ FiresAgain(m)
                           \/ \E s \in ApStyles[m] : Changes(m, s)
  \/ ApTick \/ Plan \/ ApNewMap \/ ApNewLink

PatternsTypeOK ==
  /\ DOMAIN apRows \subseteq ApMonsters /\ Cardinality(DOMAIN apRows) <= ApRows
  /\ \A m \in DOMAIN apRows : apRows[m].quiet \in 0 .. ApForget + 1 /\ Len(apRows[m].volleys) \in 1 .. ApHistory
  /\ pkOwner \in ApMonsters \cup {ApNobody} /\ pkAge \in 0 .. PkFresh + 1
  /\ pkGap = ApNobody \/ pkGap \in Int
  /\ pkRadial \in BOOLEAN /\ pkOff \in Int

\* A way of firing whose turns can be told: it goes on turning, or steps half a gap to
\* and fro, and its arms close the circle.
Tellable(s) ==
  /\ Kind(s) \in {"single", "ring"}
  /\ \A i, j \in DOMAIN s.turns : \/ WrapInto(s.turns[i] - s.turns[j], Spacing(s)) = 0
                                  \/ Len(s.turns) = 2 /\ 2 * s.turns[1] = Spacing(s) /\ s.turns[2] = -s.turns[1]

\* Of a monster that has fired in one way as long as it is remembered, or since its
\* volleys had another shape, the arms of the next volley are where they are foreseen:
\* over split volleys, rows taken by others and ground left (AttackPatterns.ts observe
\* and #read).
Foreseen ==
  \A m \in DOMAIN apRows :
    LET f == apFires[m]
        vs == apRows[m].volleys
        Other(v) == v.arms # f.style.arms \/ v.step # f.style.step
    IN (/\ Tellable(f.style) /\ f.kept > PkBelieved /\ Len(vs) > PkBelieved
        /\ f.kept >= Len(vs) \/ Other(vs[f.kept + 1]))
         => WrapInto(f.angle + f.style.turns[f.next] - BaseAt(vs, 1), Spacing(vs[1])) = 0

\* The gap that is ridden is the one the character is in or one next to it, whatever
\* was ridden before (PocketLock.ts).
GapIsNear == pkOff \in -PkDrift .. PkDrift
=============================================================================
