------------------------------ MODULE AutoLoot -------------------------------
(* Auto loot (features/autoloot): which bag items are wanted and where they go,*)
(* the taking of them, one move at a time, and the showing of bags.            *)
EXTENDS Integers, Sequences, FiniteSets

------------------------------------------------------------------------------
(* The pure decisions of auto-loot (features/autoloot): whether an item is taken  *)
(* (lootRules), where a potion goes on the belt, and which slots are free          *)
(* (destination). Each initial state is one question; the answers are checked     *)
(* against what the comments promise.                                             *)

CONSTANTS LrPotions,      \* kinds of potion: heal, magic, permanent, lifeOrMana
          LrGear,         \* gear families: weapon, ability, armour, ring
          LrTiers,        \* tiers an item may have, and thresholds: 0..n
          LrStack,        \* beltStack: how many of the potion one belt slot holds
          LrBelt,         \* length of the belt
          LrNone

ASSUME RulesAssumption == LrStack \in Nat \ {0} /\ LrBelt \in Nat \ {0} /\ LrTiers \subseteq Nat

VARIABLE lrCase
lrVars == <<lrCase>>

LrSwitches == LrPotions \cup {"eggs", "marks", "untiered", "setItems"}

\* What the catalogue says of an item, as far as the rules read it. An item the
\* catalogue does not describe has no facts.
LrFacts(slot, potion, tier, untiered, setItem, mark) ==
  [slot |-> slot, potion |-> potion, tier |-> tier, untiered |-> untiered,
   setItem |-> setItem, mark |-> mark]
LrItems ==
  {LrFacts("consumable", p, LrNone, FALSE, FALSE, FALSE) : p \in LrPotions}
  \cup {LrFacts("egg", LrNone, LrNone, u, FALSE, FALSE) : u \in BOOLEAN}
  \cup {LrFacts("consumable", LrNone, LrNone, u, FALSE, m) : u \in BOOLEAN, m \in BOOLEAN}
  \cup {LrFacts(s, LrNone, t, FALSE, FALSE, FALSE) : s \in LrGear, t \in LrTiers}
  \cup {LrFacts(s, LrNone, LrNone, u, ~u, FALSE) : s \in LrGear, u \in BOOLEAN}

LrPreferences == [on : SUBSET LrSwitches, least : [LrGear -> LrTiers], enchants : {0, 1},
                  always : BOOLEAN, never : BOOLEAN]

\* enchantCount: an item's blob lists its enchants, empty places among them, up to
\* a terminator; what stands behind that does not count.
LrBlobs == {<<>>, <<"empty", "id">>, <<"end", "id">>}
EnchantCount(blob) ==
  Cardinality({i \in DOMAIN blob : blob[i] = "id" /\ \A j \in 1..i : blob[j] # "end"})

(***************************************************************************)
(* lootRules.                                                              *)
(***************************************************************************)

GearWanted(item, prefs) ==
  IF "marks" \in prefs.on /\ item.mark THEN TRUE
  ELSE IF item.untiered THEN "untiered" \in prefs.on /\ item.slot \notin {"consumable", "egg"}
  ELSE IF item.setItem THEN "setItems" \in prefs.on
  ELSE item.slot \in LrGear /\ item.tier # LrNone /\ item.tier >= prefs.least[item.slot]

ShouldLoot(item, blob, prefs) ==
  IF prefs.never THEN FALSE
  ELSE IF prefs.always THEN TRUE
  ELSE IF item.potion # LrNone THEN item.potion \in prefs.on
  ELSE /\ EnchantCount(blob) >= prefs.enchants
       /\ IF item.slot = "egg" THEN "eggs" \in prefs.on ELSE GearWanted(item, prefs)

(***************************************************************************)
(* destination: a slot of the belt is [type, count]; "ours" is the potion    *)
(* looked at, "other" another item, "stat" a number that is no item.        *)
(***************************************************************************)

LrSlot == [type : {"empty"}, count : {0}] \cup [type : {"ours", "other"}, count : 0..LrStack]
          \cup [type : {"stat"}, count : {0}]

HoldsItems(slots) == \A i \in DOMAIN slots : slots[i].type # "stat"
First(slots, type) ==
  LET found == {i \in DOMAIN slots : slots[i].type = type}
  IN IF found = {} THEN 0 ELSE CHOOSE i \in found : \A j \in found : i <= j

\* findBeltDestination: the stack of the potion, unless that is full or uncounted;
\* with no stack of it the first empty slot. 0 when the belt has no room.
BeltDestination(belt) ==
  LET stack == First(belt, "ours")
  IN IF ~HoldsItems(belt) THEN 0
     ELSE IF stack = 0 THEN First(belt, "empty")
     ELSE IF belt[stack].count <= 0 \/ belt[stack].count >= LrStack THEN 0
     ELSE stack

\* freeIn: the empty slots of a group, none of a group that holds what is no item.
FreeIn(slots) == IF HoldsItems(slots) THEN {i \in DOMAIN slots : slots[i].type = "empty"} ELSE {}

(***************************************************************************)
(* Every question.                                                         *)
(***************************************************************************)

RulesInit ==
  \/ lrCase \in [what : {"rule"}, item : LrItems, blob : LrBlobs, prefs : LrPreferences]
  \/ lrCase \in [what : {"belt"}, belt : [1..LrBelt -> LrSlot]]
RulesNext == UNCHANGED lrCase

(***************************************************************************)
(* Properties.                                                             *)
(***************************************************************************)

\* Asking for more never takes less: turning a switch on, lowering a threshold or
\* the enchant filter leaves every item that was taken taken.
MoreIsMore ==
  lrCase.what = "rule" =>
    (ShouldLoot(lrCase.item, lrCase.blob, lrCase.prefs) =>
      /\ \A s \in LrSwitches :
           ShouldLoot(lrCase.item, lrCase.blob, [lrCase.prefs EXCEPT !.on = @ \cup {s}])
      /\ \A g \in LrGear, t \in LrTiers : t <= lrCase.prefs.least[g] =>
           ShouldLoot(lrCase.item, lrCase.blob, [lrCase.prefs EXCEPT !.least[g] = t])
      /\ ShouldLoot(lrCase.item, lrCase.blob, [lrCase.prefs EXCEPT !.enchants = 0]))

\* A potion moved to the belt leaves it as it should be: no slot over its stack,
\* no second stack of a potion there was one of, nothing put over another item,
\* and nothing at all where a "slot" turns out not to be one.
BeltStaysLegal ==
  lrCase.what = "belt" =>
    LET to == BeltDestination(lrCase.belt)
        stacks(b) == {i \in DOMAIN b : b[i].type = "ours"}
    IN to # 0 =>
         /\ lrCase.belt[to].type \in {"ours", "empty"} /\ lrCase.belt[to].count < LrStack
         /\ stacks(lrCase.belt) # {} => to \in stacks(lrCase.belt)
         /\ HoldsItems(lrCase.belt)
         /\ FreeIn(lrCase.belt) = {} => lrCase.belt[to].type = "ours"

------------------------------------------------------------------------------
(* Taking items out of the bag underfoot (features/autoloot): one session, one   *)
(* bag. Which item the rules want is a constant here (LootRules is about that);   *)
(* the belt is one slot that holds one potion. The outbound queue is reduced to   *)
(* what it promises: a request of a key replaces the one of that key that waits,  *)
(* each leaves or is given up within its expiry, and one is answered at a time.   *)

CONSTANTS LtSlots,        \* slots of the bag
          LtQuaff,        \* types: heal or magic potions
          LtPermanent,    \* types: stat potions below their cap
          LtGear,         \* types: other wanted items
          LtDrinks,       \* the drinkStatPotions setting
          LtSpares,       \* the sparePotions setting
          LtFloor,        \* the pickupIntervalMs setting
          LtRetry,        \* RETRY_ITEM_AFTER_MS
          LtPatience,     \* PENDING_TIMEOUT_MS
          LtExpiry,       \* QUEUE_EXPIRY_MS
          LtRefusal,      \* REFUSAL_PAUSE_MS
          LtHands,        \* MANUAL_PAUSE_MS
          LtGuard,        \* MANUAL_BLOCK_MS
          LtNothing,
          LtUnsent        \* sinceMs of infinity: the move has not left

LtTypes == LtQuaff \cup LtPermanent \cup LtGear
LtBelt == 0
LtDests == {LtBelt, 1}

\* A pending move, and a request that waits in the queue.
LtMoves == [slot : LtSlots, type : LtTypes, dest : LtDests \cup {LtNothing}, since : 0..LtPatience \cup {LtUnsent}]
LtRequests == [slot : LtSlots, type : LtTypes, dest : LtDests \cup {LtNothing}, left : 0..LtExpiry, own : BOOLEAN]

ASSUME LootAssumption ==
  /\ LtSlots \subseteq Nat /\ LtNothing \notin LtTypes \cup LtMoves \cup LtRequests /\ LtUnsent \notin Nat
  /\ {LtFloor, LtRetry, LtPatience, LtExpiry, LtRefusal, LtHands, LtGuard} \subseteq Nat \ {0}

VARIABLES ltBag,          \* what the world says each slot of the bag holds
          ltInv,          \* which of the player's slots are occupied, in the world
          ltHeld,         \* attempts: what is left of the hold on an item of a slot
          ltPending,      \* pending: [slot, type, dest, since], or LtNothing
          ltQueue,        \* the requests that wait: per key [slot, type, dest, left, own]
          ltAwait,        \* the key of the request that left and is unanswered
          ltSince,        \* age of lastActionAtMs
          ltBlock,        \* what is left of blockUntilMs
          ltPause,        \* what is left of pauseUntilMs
          ltDropped,      \* droppedTypes
          ltOut,          \* ours: the last move that left: [slot, type, dest, age, over], until it is long ago
          ltStep          \* ours: what this step did

ltVars == <<ltBag, ltInv, ltHeld, ltPending, ltQueue, ltAwait, ltSince, ltBlock,
            ltPause, ltDropped, ltOut, ltStep>>
ltWorld == <<ltBag, ltInv>>

LtDown(n) == IF n = 0 THEN 0 ELSE n - 1
LtUp(n, cap) == IF n < cap THEN n + 1 ELSE cap
LtAtLeast(a, b) == IF a < b THEN b ELSE a
LtLongAgo == LtAtLeast(LtFloor, LtAtLeast(LtPatience, LtGuard))
LtNoHolds == [k \in LtSlots \X LtTypes |-> 0]
LtIdle == [move |-> LtNothing, drink |-> LtNothing]

LootInit ==
  /\ ltBag \in [LtSlots -> LtTypes] /\ ltInv = [d \in LtDests |-> FALSE]
  /\ ltHeld = LtNoHolds /\ ltPending = LtNothing /\ ltQueue = LtIdle /\ ltAwait = LtNothing
  /\ ltSince = LtFloor /\ ltBlock = 0 /\ ltPause = 0 /\ ltDropped = {}
  /\ ltOut = LtNothing /\ ltStep = "none"

(***************************************************************************)
(* What the world says of a move.                                          *)
(***************************************************************************)

\* landed: the slot it went to is occupied.
Landed(move) == ltInv[move.dest]

\* sourceCleared: the bag's slot holds something else, or the bag is gone.
SourceCleared(move) == ltBag[move.slot] # move.type

\* resolvePending: seen at both ends, or out and unseen for too long.
Resolved ==
  IF ltPending = LtNothing THEN LtNothing
  ELSE IF Landed(ltPending) /\ SourceCleared(ltPending) THEN LtNothing
  ELSE IF ltPending.since # LtUnsent /\ ltPending.since = LtPatience THEN LtNothing
  ELSE ltPending

(***************************************************************************)
(* Which slot takeFrom acts on, and how.                                   *)
(***************************************************************************)

Drunk(type) == LtDrinks /\ type \in LtPermanent

\* The belt for a potion it has room for; else the first free slot, which a
\* spare potion gets only if the setting says so.
Destination(type) ==
  IF type \in LtQuaff /\ ~ltInv[LtBelt] THEN LtBelt
  ELSE IF (type \notin LtQuaff \/ LtSpares) /\ ~ltInv[1] THEN 1 ELSE LtNothing

Skipped(slot) ==
  \/ ltBag[slot] = LtNothing
  \/ ltHeld[slot, ltBag[slot]] > 0
  \/ ltBag[slot] \in ltDropped
  \/ ltBag[slot] \in LtQuaff /\ ltInv[LtBelt] /\ ~LtSpares

\* The first slot that is not passed over, if the inventory has room for it.
Choice ==
  LET open == {s \in LtSlots : ~Skipped(s)}
      first == CHOOSE s \in open : \A o \in open : s <= o
  IN IF open = {} THEN LtNothing
     ELSE IF Drunk(ltBag[first]) \/ Destination(ltBag[first]) # LtNothing THEN first ELSE LtNothing

\* The queue's move is no longer the pending one once that is let go of.
Disowned(queue) == [queue EXCEPT !.move = IF @ = LtNothing THEN @ ELSE [@ EXCEPT !.own = FALSE]]
Owned(queue, pending) == IF pending = LtNothing THEN Disowned(queue) ELSE queue

\* sendToServer with a key: the request of that key that waits is superseded, and
\* its outcome, whichever move it was, clears the pending one.
Asked(key, request, pending) ==
  /\ ltPending' = IF ltQueue[key] # LtNothing THEN LtNothing ELSE pending
  /\ ltQueue' = Owned([ltQueue EXCEPT ![key] = request], ltPending')

AskDrink(slot, left) ==
  Asked("drink", [slot |-> slot, type |-> ltBag[slot], dest |-> LtNothing, left |-> LtExpiry,
                  own |-> FALSE], left)

AskMove(slot) ==
  LET dest == Destination(ltBag[slot])
  IN Asked("move", [slot |-> slot, type |-> ltBag[slot], dest |-> dest, left |-> LtExpiry,
                    own |-> TRUE],
           [slot |-> slot, type |-> ltBag[slot], dest |-> dest, since |-> LtUnsent])

\* Broken variant: the floor starts when the feature asks, not when the server hears.
TakingUnfloored(pending) == ltPause = 0 /\ pending = LtNothing

Taking(pending) == ltPause = 0 /\ pending = LtNothing /\ ltSince = LtFloor

\* NEWTICK, with a bag within ON_TOP_TILES or without.
LootTick(onBag) ==
  /\ ltStep' = "none"
  /\ \E pending \in {Resolved} : \E slot \in {Choice} :
       IF onBag /\ Taking(pending) /\ slot # LtNothing
       THEN /\ IF Drunk(ltBag[slot]) THEN AskDrink(slot, pending) ELSE AskMove(slot)
            /\ ltHeld' = [ltHeld EXCEPT ![<<slot, ltBag[slot]>>] = LtAtLeast(@, LtRetry)]
       ELSE /\ ltPending' = pending
            /\ ltQueue' = Owned(ltQueue, pending)
            /\ UNCHANGED ltHeld
  /\ UNCHANGED <<ltWorld, ltAwait, ltSince, ltBlock, ltPause, ltDropped, ltOut>>

(***************************************************************************)
(* What the queue does with a request.                                     *)
(***************************************************************************)

\* onSent dates the move, and the pending one is dated if it is the same.
Dated(request) == IF request.own THEN [ltPending EXCEPT !.since = 0] ELSE ltPending

\* A potion of ours that leaves holds the player's own potions back for a while.
Guarded(type) == IF type \in LtQuaff THEN LtAtLeast(ltBlock, LtGuard) ELSE ltBlock

Leaves(key) ==
  /\ ltQueue[key] # LtNothing /\ ltAwait = LtNothing
  /\ ltQueue' = [ltQueue EXCEPT ![key] = LtNothing] /\ ltAwait' = key /\ ltSince' = 0
  /\ ltStep' = key
  /\ IF key = "drink" THEN UNCHANGED <<ltPending, ltBlock, ltOut>>
     ELSE \E request \in {ltQueue.move} :
            /\ ltPending' = Dated(request)
            /\ ltBlock' = Guarded(request.type)
            /\ ltOut' = [slot |-> request.slot, type |-> request.type, dest |-> request.dest,
                         age |-> 0, over |-> FALSE]
  /\ UNCHANGED <<ltWorld, ltHeld, ltPause, ltDropped>>

\* Expired, trimmed or dropped: it never left, and the pending move is let go of.
GivenUp(key) ==
  /\ ltQueue[key] # LtNothing
  /\ ltPending' = LtNothing
  /\ ltQueue' = Disowned([ltQueue EXCEPT ![key] = LtNothing])
  /\ ltStep' = "none"
  /\ UNCHANGED <<ltWorld, ltHeld, ltAwait, ltSince, ltBlock, ltPause, ltDropped, ltOut>>

\* A FAILURE to the request that left: stand down.
LootRefused ==
  /\ ltAwait # LtNothing /\ ltAwait' = LtNothing
  /\ ltPending' = LtNothing /\ ltQueue' = Disowned(ltQueue)
  /\ ltPause' = LtAtLeast(ltPause, LtRefusal)
  /\ ltOut' = IF ltAwait = "move" /\ ltOut # LtNothing THEN [ltOut EXCEPT !.over = TRUE] ELSE ltOut
  /\ ltStep' = "none"
  /\ UNCHANGED <<ltWorld, ltHeld, ltSince, ltBlock, ltDropped>>

\* Confirmed or left unconfirmed: nothing to do.
LootAnswered ==
  /\ ltAwait # LtNothing /\ ltAwait' = LtNothing /\ ltStep' = "none"
  /\ UNCHANGED <<ltWorld, ltHeld, ltPending, ltQueue, ltSince, ltBlock, ltPause, ltDropped, ltOut>>

(***************************************************************************)
(* The player, the world, the clock and the map.                           *)
(***************************************************************************)

\* shouldWithhold, for the packets that move an item.
Withhold == (ltPending # LtNothing /\ ltPending.type \in LtQuaff) \/ ltBlock > 0

\* A packet of the player's that touches a potion; only one that moves it can be withheld.
ByHand(moves) ==
  /\ ltPause' = LtAtLeast(ltPause, LtHands)
  /\ IF moves /\ Withhold
     THEN ltStep' = "none" /\ UNCHANGED ltHeld
     ELSE ltStep' = (IF moves THEN "moved" ELSE "none") /\ ltHeld' = LtNoHolds
  /\ UNCHANGED <<ltWorld, ltPending, ltQueue, ltAwait, ltSince, ltBlock, ltDropped, ltOut>>

\* INVDROP, or an INVENTORYSWAP into the bag, of something the player carries. The
\* world shows it in the bag later (BagShows).
Drops(type) ==
  /\ ltDropped' = ltDropped \cup {type} /\ ltStep' = "none"
  /\ UNCHANGED <<ltWorld, ltHeld, ltPending, ltQueue, ltAwait, ltSince, ltBlock, ltPause, ltOut>>

LtUnseen == UNCHANGED <<ltHeld, ltPending, ltQueue, ltAwait, ltSince, ltBlock, ltPause, ltDropped, ltOut>>

\* UPDATE and NEWTICK change what the bag shows and which slots are taken: our
\* move, the player's, or somebody else's. What comes into a bag was dropped there.
BagShows(slot, what) == ltBag' = [ltBag EXCEPT ![slot] = what] /\ ltStep' = "none" /\ LtUnseen /\ UNCHANGED ltInv
SlotShows(dest) == ltInv' = [ltInv EXCEPT ![dest] = ~@] /\ ltStep' = "none" /\ LtUnseen /\ UNCHANGED ltBag

\* Bound: ages stop at what they are compared with. A request leaves or is given
\* up by its expiry.
LootClock ==
  /\ \A key \in {"move", "drink"} : IF ltQueue[key] = LtNothing THEN TRUE ELSE ltQueue[key].left > 0
  /\ ltQueue' = [key \in {"move", "drink"} |->
                   IF ltQueue[key] = LtNothing THEN LtNothing ELSE [ltQueue[key] EXCEPT !.left = @ - 1]]
  /\ ltHeld' = [k \in LtSlots \X LtTypes |-> LtDown(ltHeld[k])]
  /\ ltPending' = IF ltPending = LtNothing THEN LtNothing
                  ELSE IF ltPending.since = LtUnsent THEN ltPending
                  ELSE [ltPending EXCEPT !.since = LtUp(@, LtPatience)]
  /\ ltSince' = LtUp(ltSince, LtFloor) /\ ltBlock' = LtDown(ltBlock) /\ ltPause' = LtDown(ltPause)
  /\ ltOut' = IF ltOut = LtNothing \/ ltOut.age + 1 = LtLongAgo THEN LtNothing
              ELSE [ltOut EXCEPT !.age = @ + 1]
  /\ ltStep' = "none" /\ UNCHANGED <<ltWorld, ltAwait, ltDropped>>

\* MAPINFO: reset, and the queue drops what waits for it. The pauses are kept.
LootMap ==
  /\ ltHeld' = LtNoHolds /\ ltDropped' = {} /\ ltPending' = LtNothing /\ ltSince' = LtFloor
  /\ ltQueue' = LtIdle /\ ltAwait' = LtNothing /\ ltOut' = LtNothing /\ ltStep' = "none"
  /\ ltBag' \in [LtSlots -> LtTypes] /\ UNCHANGED <<ltInv, ltBlock, ltPause>>

LootNext ==
  \/ LootRefused \/ LootAnswered \/ LootClock \/ LootMap
  \/ \E key \in {"move", "drink"} : Leaves(key) \/ GivenUp(key)
  \/ \E moves \in BOOLEAN : ByHand(moves)
  \/ \E onBag \in BOOLEAN : LootTick(onBag)
  \/ \E type \in LtTypes : Drops(type)
  \/ \E slot \in LtSlots, what \in ltDropped \cup {LtNothing} : BagShows(slot, what)
  \/ \E dest \in LtDests : SlotShows(dest)

(***************************************************************************)
(* Properties.                                                             *)
(***************************************************************************)

\* The session's state keeps its shape; a move is unsent while it is in the queue
\* and only then, and a hold on an item is never longer than the retry.
LootTypeOK ==
  /\ ltHeld \in [LtSlots \X LtTypes -> 0..LtRetry]
  /\ ltSince \in 0..LtFloor /\ ltBlock \in 0..LtGuard /\ ltPause \in 0..LtAtLeast(LtHands, LtRefusal)
  /\ ltDropped \subseteq LtTypes
  /\ ltPending # LtNothing =>
       (ltPending.since = LtUnsent) = (ltQueue.move # LtNothing /\ ltQueue.move.own)

\* Two moves of one map leave at least the floor apart, whatever was superseded,
\* lapsed, refused or seen in between (autoLootPlugin.ts, "one floor for everything").
MovesApart == [][(ltStep' = "move" /\ ltOut # LtNothing) => ltOut.age >= LtFloor]_ltVars

\* While a potion move of ours may still be settling, no potion the player moves
\* reaches the server (manualGuard.ts).
GuardHolds ==
  [][(ltStep' = "moved" /\ ltOut # LtNothing /\ ltOut.type \in LtQuaff) => ltOut.age >= LtGuard]_ltVars

\* A move that never left, was never answered or never arrived does not stop the
\* looting: it leaves the queue, what left is let go of, and at most the next one,
\* just asked for, is waited for.
LootWaits == ltPending # LtNothing
LootOver ==
  ltPending = LtNothing \/ (ltPending.since = LtUnsent /\ ltQueue.move.left = LtExpiry)

------------------------------------------------------------------------------
(* Showing bags (features/autoloot/bagDisplay, questArrow): the client's quest   *)
(* arrow is pointed at a white or orange bag and given back to the server's own  *)
(* quest, and each bag is announced once. One session; what the client last heard *)
(* of its quest is kept, because that is what its arrow shows.                    *)

CONSTANTS QaBags,         \* bags there may be, in the order the arrow prefers them: 1..n
          QaQuests,       \* the server's quests
          QaNobody,
          QaRestate       \* RESTATE_MS

ASSUME ArrowAssumption ==
  QaBags \subseteq Nat /\ QaBags \cap QaQuests = {} /\ QaNobody \notin QaQuests \cup QaBags
  /\ QaRestate \in Nat \ {0}

VARIABLES qaWorld,        \* the bags in the world
          qaQuest,        \* world.questObjectId
          qaArrow,        \* [bag, since]: #bagId and the age of #saidAtMs
          qaAnnounced,    \* shown.announced
          qaSettings,     \* questBags and announceBags
          qaWorks,        \* the host delivers to the plugin: it has not been stopped for failing
          qaClient,       \* the client: what it last heard its quest is
          qaSaid,         \* ours: the bags announced in this step
          qaHeard,        \* ours: the bags announced since they appeared
          qaStale         \* ours: the client heard past a stopped plugin

qaVars == <<qaWorld, qaQuest, qaArrow, qaAnnounced, qaSettings, qaWorks, qaClient, qaSaid, qaHeard, qaStale>>

ArrowInit ==
  /\ qaWorld = {} /\ qaQuest \in QaQuests /\ qaClient = qaQuest
  /\ qaArrow = [bag |-> QaNobody, since |-> QaRestate] /\ qaAnnounced = {}
  /\ qaSettings \in [quest : BOOLEAN, announce : BOOLEAN] /\ qaWorks = TRUE
  /\ qaSaid = {} /\ qaHeard = {} /\ qaStale = FALSE

\* pickQuestBag: the rarer tier first, the nearest of it.
Picked == IF qaSettings.quest /\ qaWorld # {} THEN CHOOSE b \in qaWorld : \A o \in qaWorld : b <= o
          ELSE QaNobody

\* next: a change is said at once, and a bag that stays is said again now and then.
Named(bag) == bag # qaArrow.bag \/ (bag # QaNobody /\ qaArrow.since >= QaRestate)

\* pointArrow: straight to the client; the world keeps the server's quest.
Point(bag) ==
  IF Named(bag)
  THEN /\ qaArrow' = [bag |-> bag, since |-> 0] /\ qaStale' = FALSE
       /\ qaClient' = IF bag = QaNobody THEN qaQuest ELSE bag
  ELSE UNCHANGED <<qaArrow, qaClient, qaStale>>

\* forgetGoneBags.
Remembered(near) == (qaAnnounced \cup near) \cap qaWorld

ArrowTick(near) ==
  /\ qaWorks /\ near \subseteq qaWorld
  /\ qaSaid' = (IF qaSettings.announce THEN near \ qaAnnounced ELSE {})
  /\ qaAnnounced' = Remembered(IF qaSettings.announce THEN near ELSE {})
  /\ qaHeard' = qaHeard \cup qaSaid'
  /\ Point(Picked)
  /\ UNCHANGED <<qaWorld, qaQuest, qaSettings, qaWorks>>

HeldBack == qaWorks /\ qaArrow.bag # QaNobody

\* QUESTOBJECTID: the world records it; the client hears it unless it is held back.
QuestNamed(quest) ==
  /\ qaQuest' = quest /\ qaSaid' = {}
  /\ IF HeldBack THEN UNCHANGED <<qaClient, qaStale>>
     ELSE qaClient' = quest /\ qaStale' = (~qaWorks /\ qaArrow.bag # QaNobody)
  /\ UNCHANGED <<qaWorld, qaArrow, qaAnnounced, qaSettings, qaWorks, qaHeard>>

SettingChanged == IF qaSettings'.quest THEN UNCHANGED <<qaArrow, qaClient, qaStale>> ELSE Point(QaNobody)

\* A setting is changed; onChange runs whether or not the plugin works.
ArrowSetting(which) ==
  /\ qaSettings' = [qaSettings EXCEPT ![which] = ~@]
  /\ IF which = "quest" THEN SettingChanged ELSE UNCHANGED <<qaArrow, qaClient, qaStale>>
  /\ qaSaid' = {} /\ UNCHANGED <<qaWorld, qaQuest, qaAnnounced, qaWorks, qaHeard>>

\* MAPINFO: no object of the old map is left. A stopped plugin does not hear of it.
ArrowMap ==
  /\ qaWorld' = {} /\ qaHeard' = {} /\ qaSaid' = {}
  /\ IF qaWorks THEN qaAnnounced' = {} /\ Point(QaNobody)
                ELSE UNCHANGED <<qaAnnounced, qaArrow, qaClient, qaStale>>
  /\ UNCHANGED <<qaQuest, qaSettings, qaWorks>>

BagComesOrGoes(bag) ==
  /\ qaWorld' = IF bag \in qaWorld THEN qaWorld \ {bag} ELSE qaWorld \cup {bag}
  /\ qaHeard' = qaHeard \ {bag} /\ qaSaid' = {}
  /\ UNCHANGED <<qaQuest, qaArrow, qaAnnounced, qaSettings, qaWorks, qaClient, qaStale>>

\* The host stops a plugin that fails, and the player switches it on again.
ArrowStopped == qaWorks' = ~qaWorks /\ qaSaid' = {} /\ UNCHANGED <<qaWorld, qaQuest, qaArrow, qaAnnounced, qaSettings, qaClient, qaHeard, qaStale>>

ArrowClock ==
  /\ qaArrow.since < QaRestate
  /\ qaArrow' = [qaArrow EXCEPT !.since = @ + 1] /\ qaSaid' = {}
  /\ UNCHANGED <<qaWorld, qaQuest, qaAnnounced, qaSettings, qaWorks, qaClient, qaHeard, qaStale>>

ArrowNext ==
  \/ \E near \in SUBSET QaBags : ArrowTick(near)
  \/ \E quest \in QaQuests : QuestNamed(quest)
  \/ \E which \in {"quest", "announce"} : ArrowSetting(which)
  \/ \E bag \in QaBags : BagComesOrGoes(bag)
  \/ ArrowMap \/ ArrowStopped \/ ArrowClock

(***************************************************************************)
(* Properties.                                                             *)
(***************************************************************************)

\* Unless the server spoke past a stopped plugin, the client's arrow is on the bag
\* the plugin believes it is on, and on the server's own quest once it is on none:
\* it is given back after the setting, a map and a bag that went (questArrow.ts).
ArrowIsWhereSaid ==
  /\ ~qaStale => qaClient = IF qaArrow.bag = QaNobody THEN qaQuest ELSE qaArrow.bag
  /\ ~qaSettings.quest => qaArrow.bag = QaNobody

\* A bag is announced once for as long as it is in the world (bagDisplay.announce).
AnnouncedOnce == [][qaSaid' \cap qaHeard = {}]_qaVars

\* What a stopped plugin let through is put right again once it works (RESTATE_MS).
ArrowWrong == qaWorks /\ qaStale
ArrowRight == ~qaWorks \/ ~qaStale
==============================================================================
