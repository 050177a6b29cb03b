------------------------------- MODULE AutoUse -------------------------------
(* Abilities and potions used on the player's behalf (features/autoability,   *)
(* features/autodrink).                                                       *)
EXTENDS Integers, FiniteSetsExt

------------------------------------------------------------------------------
(* Asking the client to cast (features/autoability): when an ability is worth   *)
(* it, how long to wait for the client's own USEITEM, how the asks back off,     *)
(* and how long the player's hands keep the feature off. One session; times are  *)
(* what is left of them.                                                         *)

CONSTANTS AaAbilities,   \* AbilityFacts: [use, benefits, cooldown, refresh]
          AaMinInterval, AaManualPause, AaMapSettle, AaAnswer, AaRetry, AaRetryMax

ASSUME AbilityAssumption ==
  /\ \A a \in AaAbilities: a.cooldown \in Nat /\ a.refresh \in Nat
  /\ AaRetry \in Nat \ {0} /\ AaRetryMax \in Nat /\ AaRetryMax > AaRetry /\ AaAnswer \in Nat /\ AaAnswer < AaRetry
  /\ AaMinInterval \in Nat /\ AaManualPause \in Nat /\ AaMapSettle \in Nat

VARIABLES aaOn, aaTuning, aaAbility,
          aaSafe,        \* the map is a safe zone
          aaNext,        \* until nextAtMs
          aaAnswerable,  \* one more than is left until askedUntilMs; 0 after it
          aaInterval,    \* askedIntervalMs
          aaUnanswered,
          aaHands,       \* ours: left of the pause after the player's own cast
          aaSpent,       \* ours: left of the interval of a cast that was answered
          aaOpen,        \* ours: asks since the last answer, map or pause
          aaAsked        \* ours: what this step asked for

aaClocks == <<aaNext, aaAnswerable, aaInterval, aaUnanswered, aaHands, aaSpent, aaOpen>>
aaVars   == <<aaOn, aaTuning, aaAbility, aaSafe, aaClocks, aaAsked>>

\* The settings, as far as they decide whether and at what.
AaTunings == [aim: BOOLEAN, autoCast: BOOLEAN, support: {TRUE}, outOfCombat: BOOLEAN]

\* What is so at a tick, of what a cast can be for.
AaMoments ==
  [hurt: BOOLEAN, drained: BOOLEAN, negative: BOOLEAN, near: BOOLEAN, boss: BOOLEAN,
   active: SUBSET aaAbility.benefits, mana: BOOLEAN, alive: BOOLEAN]

AaInterval(a) == Max({AaMinInterval, a.cooldown, IF a.use = "aimed" THEN 0 ELSE a.refresh})
AaAnInterval  == {AaInterval(a): a \in AaAbilities}
\* 2 ** unanswered, which needs telling apart up to the cap only.
AaTwice[n \in 0..AaRetryMax + 1] == IF n = 0 THEN 1 ELSE 2 * AaTwice[n - 1]
AaBackoff(n)  == Min({AaRetryMax, AaRetry * AaTwice[n]})
AaMost        == CHOOSE n \in 0..AaRetryMax:
                   AaRetry * AaTwice[n] >= AaRetryMax /\ \A m \in 0..n - 1: AaRetry * AaTwice[m] < AaRetryMax

AbilityInit ==
  /\ aaOn = TRUE /\ aaTuning \in AaTunings /\ aaAbility \in AaAbilities /\ aaSafe = FALSE
  /\ aaNext = 0 /\ aaAnswerable = 0 /\ aaInterval = 0 /\ aaUnanswered = 0
  /\ aaHands = 0 /\ aaSpent = 0 /\ aaOpen = 0 /\ aaAsked = "nothing"

(***************************************************************************)
(* Worth casting.                                                          *)
(***************************************************************************)

AaWanted(kind, m) ==
  CASE kind = "health"  -> m.hurt
    [] kind = "mana"    -> m.drained
    [] kind \in {"offence", "defence"} -> m.near
    [] kind = "utility" -> aaTuning.outOfCombat \/ m.near
    [] kind = "cleanse" -> m.negative

\* castReason: some benefit that is not in force already and is wanted now.
CastReason(m) == \E kind \in aaAbility.benefits \ m.active: AaWanted(kind, m)

\* What a tick asks the client to cast at, if anything.
Worth(m) ==
  CASE aaAbility.benefits # {} /\ aaTuning.support /\ CastReason(m) ->
         IF aaAbility.use = "aimed" /\ m.near THEN "enemy" ELSE "self"
    [] aaAbility.benefits = {} /\ aaAbility.use = "aimed" /\ aaTuning.autoCast /\ m.boss -> "boss"
    [] OTHER -> "nothing"

(***************************************************************************)
(* Asking and being answered.                                              *)
(***************************************************************************)

AskToCast ==
  /\ aaAnswerable' = AaAnswer + 1 /\ aaInterval' = AaInterval(aaAbility)
  /\ aaNext' = AaBackoff(aaUnanswered)
  /\ aaUnanswered' = Min({AaMost, aaUnanswered + 1})

AbilityTick(m) ==
  /\ aaOn /\ m.alive /\ m.mana /\ ~aaSafe /\ aaAbility.use # "never" /\ aaNext = 0
  /\ Worth(m) # "nothing"
  /\ AskToCast
  /\ aaAsked' = Worth(m) /\ aaOpen' = Min({AaMost + 1, aaOpen + 1})
  /\ UNCHANGED <<aaOn, aaTuning, aaAbility, aaSafe, aaHands, aaSpent>>

OwnCast  == aaNext' = Max({aaNext, AaManualPause}) /\ UNCHANGED <<aaAnswerable, aaInterval, aaUnanswered>>
Answered == /\ aaNext' = aaInterval /\ aaAnswerable' = 0 /\ aaUnanswered' = 0
            /\ UNCHANGED aaInterval

\* The client's USEITEM of the ability slot: the answer while one is due, the
\* player's own hands otherwise.
UseItem ==
  /\ aaOn /\ aaAsked' = "nothing" /\ aaOpen' = 0
  /\ IF aaAnswerable > 0
     THEN Answered /\ aaSpent' = aaInterval /\ UNCHANGED aaHands
     ELSE OwnCast /\ aaHands' = AaManualPause /\ UNCHANGED aaSpent
  /\ UNCHANGED <<aaOn, aaTuning, aaAbility, aaSafe>>

\* MAPINFO, which a disabled plugin does not hear; the zone is looked at again at
\* every packet.
AbilityMapInfo(safe) ==
  /\ aaSafe' = safe /\ aaAsked' = "nothing" /\ aaHands' = 0 /\ aaSpent' = 0
  /\ IF aaOn THEN /\ aaNext' = AaMapSettle /\ aaAnswerable' = 0 /\ aaUnanswered' = 0 /\ aaOpen' = 0
             ELSE UNCHANGED <<aaNext, aaAnswerable, aaUnanswered, aaOpen>>
  /\ UNCHANGED <<aaOn, aaTuning, aaAbility, aaInterval>>

\* The player swaps the ability, or the switch of the plugin.
AbilityChange ==
  /\ \/ aaAbility' \in AaAbilities /\ UNCHANGED aaOn
     \/ aaOn' = ~aaOn /\ UNCHANGED aaAbility
  /\ aaAsked' = "nothing" /\ UNCHANGED <<aaTuning, aaSafe, aaClocks>>

AaLess(t) == Max({0, t - 1})
AbilityTime ==
  /\ aaNext' = AaLess(aaNext) /\ aaAnswerable' = AaLess(aaAnswerable)
  /\ aaHands' = AaLess(aaHands) /\ aaSpent' = AaLess(aaSpent)
  /\ aaAsked' = "nothing"
  /\ UNCHANGED <<aaOn, aaTuning, aaAbility, aaSafe, aaInterval, aaUnanswered, aaOpen>>

AbilityNext == \/ \E m \in AaMoments: AbilityTick(m)
               \/ UseItem \/ AbilityChange \/ AbilityTime
               \/ \E safe \in BOOLEAN: AbilityMapInfo(safe)

(***************************************************************************)
(* Properties.                                                             *)
(***************************************************************************)

\* Types; and an ask is due for an answer only while it is the newest thing that
\* happened to the clocks.
AbilityTypeOK ==
  /\ aaNext \in Nat /\ aaAnswerable \in 0..AaAnswer + 1 /\ aaUnanswered \in 0..AaMost
  /\ aaInterval \in AaAnInterval \cup {0}
  /\ (aaAnswerable > 0 => aaUnanswered > 0 /\ aaNext > 0)

\* For the pause after a cast of the player's own nothing is asked for, on that
\* map, whatever is swapped, switched or asked before (autoAbilityPlugin.ts:192-200).
HandsOff == [][aaAsked' # "nothing" => aaHands = 0]_aaVars

\* A client that does not answer, as one without the native module never does,
\* is asked less and less: the wait before the next ask covers the whole backoff
\* of the asks so far, less what has run of it since.
BacksOff ==
  [][aaAsked' # "nothing" =>
       aaNext' >= Min({AaRetryMax, AaRetry * AaTwice[aaOpen]})]_aaVars

\* What a cast was answered for is not cast again before its own interval, also
\* when another ability was put in the slot meanwhile.
Refreshed == [][aaAsked' # "nothing" => aaSpent = 0]_aaVars

------------------------------------------------------------------------------
(* Potions drunk when a bar falls (features/autodrink): one clock per kind, set  *)
(* when the outbound queue really sends the drink and when the map changes, and   *)
(* one slot per kind in the queue, replaced by the next ask and expiring.         *)

CONSTANTS AdKinds,      \* Quaff
          AdHealth,     \* the kind Sick forbids
          AdCooldown,   \* the cooldownMs setting
          AdExpiry      \* DRINK_EXPIRY_MS

ASSUME DrinkAssumption == AdHealth \in AdKinds /\ AdCooldown \in Nat /\ AdExpiry \in Nat \ {0}

VARIABLES adOn, adSafe,
          adHas,        \* kinds of potion there are: belt, carried, backpack
          adSince,      \* age of the clock of each kind
          adSlot,       \* what is left of the queued drink of each kind; 0 for none
          adHeard,      \* ours: the plugin heard of the map it is on
          adApart,      \* ours: age of the last drink of each kind, and of the map
          adSent        \* ours: the kind this step sent, in a set

adVars == <<adOn, adSafe, adHas, adSince, adSlot, adHeard, adApart, adSent>>

DrinkInit ==
  /\ adOn = TRUE /\ adSafe = FALSE /\ adHas \in SUBSET AdKinds
  /\ adSince = [k \in AdKinds |-> AdCooldown] /\ adSlot = [k \in AdKinds |-> 0]
  /\ adHeard = TRUE /\ adApart = [k \in AdKinds |-> AdCooldown] /\ adSent = {}

\* drink(): low enough, long enough since the last, and something to drink.
Drinks(k, low, sick) ==
  /\ low /\ k \in adHas /\ adSince[k] >= AdCooldown
  /\ (k = AdHealth => ~sick)

\* NEWTICK: every kind that wants to is asked for, replacing its own last ask.
DrinkTick(low, sick) ==
  /\ adOn /\ ~adSafe
  /\ adSlot' = [k \in AdKinds |-> IF Drinks(k, k \in low, sick) THEN AdExpiry ELSE adSlot[k]]
  /\ adSent' = {} /\ UNCHANGED <<adOn, adSafe, adHas, adSince, adHeard, adApart>>

\* The queue sends one: onSent sets the clock of its kind.
DrinkSent(k) ==
  /\ adSlot[k] > 0
  /\ adSlot' = [adSlot EXCEPT ![k] = 0] /\ adSince' = [adSince EXCEPT ![k] = 0]
  /\ adApart' = [adApart EXCEPT ![k] = 0] /\ adSent' = {k}
  /\ UNCHANGED <<adOn, adSafe, adHas, adHeard>>

\* MAPINFO: the queue forgets what it holds; the plugin, when it hears it, counts
\* the map as a drink of each kind.
DrinkMap(safe) ==
  /\ adSafe' = safe /\ adSlot' = [k \in AdKinds |-> 0] /\ adHeard' = adOn
  /\ adSince' = IF adOn THEN [k \in AdKinds |-> 0] ELSE adSince
  /\ adApart' = [k \in AdKinds |-> 0]
  /\ adSent' = {} /\ UNCHANGED <<adOn, adHas>>

DrinkChange ==
  /\ \/ adOn' = ~adOn /\ UNCHANGED adHas
     \/ adHas' \in SUBSET AdKinds /\ UNCHANGED adOn
  /\ adSent' = {} /\ UNCHANGED <<adSafe, adSince, adSlot, adHeard, adApart>>

DrinkTime ==
  /\ adSince' = [k \in AdKinds |-> Min({AdCooldown, adSince[k] + 1})]
  /\ adApart' = [k \in AdKinds |-> Min({AdCooldown, adApart[k] + 1})]
  /\ adSlot'  = [k \in AdKinds |-> Max({0, adSlot[k] - 1})]
  /\ adSent' = {} /\ UNCHANGED <<adOn, adSafe, adHas, adHeard>>

DrinkNext == \/ \E low \in SUBSET AdKinds, sick \in BOOLEAN: DrinkTick(low, sick)
             \/ \E k \in AdKinds: DrinkSent(k)
             \/ \E safe \in BOOLEAN: DrinkMap(safe)
             \/ DrinkChange \/ DrinkTime

\* One potion is never wasted on what another has just filled, and none on the
\* bars of a map whose first reports are not in: a drink reaches the server a
\* cooldown after the last of its kind and after the map it heard of, however
\* long the queue kept it and however often it was asked for meanwhile.
DrinksApart == [][\A k \in adSent': adHeard => adApart[k] >= AdCooldown]_adVars
==============================================================================
