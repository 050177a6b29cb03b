-------------------------------- MODULE World --------------------------------
(* What the runtime knows of the world (state/): entities and tiles, and the  *)
(* player's own character.                                                    *)
EXTENDS Integers, Sequences, FiniteSets
LOCAL INSTANCE SequencesExt

------------------------------------------------------------------------------
(* The picture of one map the runtime keeps from UPDATE, NEWTICK and GOTO:     *)
(* the objects in view, the squares their walls block, the lists of enemies    *)
(* and players kept from one membership change to the next, and the tiles      *)
(* (state/EntityStore.ts, state/TileMap.ts, state/WorldState.ts under          *)
(* pipeline/stages/StateStage.ts).                                             *)

CONSTANTS WoIds,         \* object ids
          WoTypes,       \* object types: records [wall, enemy, player |-> BOOLEAN]
          WoPlaces,      \* squares of the map
          WoTileNews,    \* what one UPDATE says of tiles: functions on sets of places
          WoNone

ASSUME WorldAssumption ==
  /\ \A n \in WoTileNews : DOMAIN n \subseteq WoPlaces
  /\ WoNone \notin WoPlaces

VARIABLES woSeen,        \* #entities: type and place of each object, or WoNone; ours: where it was announced
          woOccupied,    \* #occupied
          woBy,          \* #occupiedBy: the square each object put there, or WoNone
          woLists,       \* #enemyCache and #playerCache, each WoNone until asked for
          woTiles,       \* TileMap: "open" or "blocking", WoNone where nothing is known
          woShared       \* ours: squares two walls, or a wall and one that was, had at once

woVars == <<woSeen, woOccupied, woBy, woLists, woTiles, woShared>>

WoStore == [seen |-> woSeen, occupied |-> woOccupied, by |-> woBy, lists |-> woLists, shared |-> woShared]
WoUnread == [enemy |-> WoNone, player |-> WoNone]
WoObject == [id : WoIds, type : WoTypes, at : WoPlaces]
WoEmpty == [seen |-> [i \in WoIds |-> WoNone], occupied |-> {}, by |-> [i \in WoIds |-> WoNone],
            lists |-> WoUnread, shared |-> {}]

(***************************************************************************)
(* EntityStore.                                                            *)
(***************************************************************************)

Blockers(s, p) == {i \in WoIds : s.by[i] = p}

\* #occupy: the square a wall had before is given up, whoever else is on it.
Occupy(s, i, p) ==
  IF s.by[i] = p THEN s
  ELSE [s EXCEPT !.by[i] = p,
                 !.occupied = (@ \ {s.by[i]}) \cup {p},
                 !.shared = IF Blockers(s, p) \ {i} # {} THEN @ \cup {p} ELSE @]

\* #vacate.
Vacate(s, i) == [s EXCEPT !.by[i] = WoNone, !.occupied = @ \ {s.by[i]}]

\* Broken variant: only a new id changes the lists.
UpsertInPlace(s, o) ==
  LET known == s.seen[o.id] # WoNone
      kept  == [s EXCEPT !.seen[o.id] = [type |-> o.type, at |-> o.at, announced |-> o.at],
                         !.lists = IF known THEN @ ELSE WoUnread]
  IN IF o.type.wall THEN Occupy(kept, o.id, o.at) ELSE kept

\* upsert: an object of another type under a known id is another object, which
\* takes over the square its predecessor blocked.
Upsert(s, o) ==
  LET same == s.seen[o.id] # WoNone /\ s.seen[o.id].type = o.type
      kept == [s EXCEPT !.seen[o.id] = [type |-> o.type, at |-> o.at, announced |-> o.at],
                        !.lists = IF same THEN @ ELSE WoUnread]
      left == IF s.by[o.id] # WoNone /\ ~o.type.wall
              THEN [kept EXCEPT !.shared = @ \cup {s.by[o.id]}] ELSE kept
  IN IF o.type.wall THEN Occupy(left, o.id, o.at) ELSE left

DropObject(s, i) ==
  LET gone == Vacate(s, i)
  IN IF s.seen[i] = WoNone THEN gone ELSE [gone EXCEPT !.seen[i] = WoNone, !.lists = WoUnread]

WoBecomes(s) ==
  /\ woSeen' = s.seen /\ woOccupied' = s.occupied /\ woBy' = s.by
  /\ woLists' = s.lists /\ woShared' = s.shared

(***************************************************************************)
(* The packets.                                                            *)
(***************************************************************************)

WorldInit == /\ woSeen = WoEmpty.seen /\ woOccupied = {} /\ woBy = WoEmpty.by
             /\ woLists = WoUnread /\ woTiles = [p \in WoPlaces |-> WoNone] /\ woShared = {}

EnterMap == WoBecomes(WoEmpty)

MapInfo == EnterMap /\ woTiles' = [p \in WoPlaces |-> WoNone]

\* UPDATE: tiles, then what comes into view, then what leaves it.
UpdatePacket(tiles, objects, drops) ==
  /\ woTiles' = [p \in WoPlaces |-> IF p \in DOMAIN tiles THEN tiles[p] ELSE woTiles[p]]
  /\ LET come == FoldLeft(Upsert, WoStore, objects)
     IN WoBecomes(FoldLeft(DropObject, come, SetToSeq(drops)))

\* NEWTICK and GOTO move what is known, a wall too: what blocks stays where it was.
Moves(i, p) ==
  /\ woSeen[i] # WoNone
  /\ woSeen' = [woSeen EXCEPT ![i].at = p]
  /\ UNCHANGED <<woOccupied, woBy, woLists, woTiles, woShared>>

Listed(kind) == {i \in WoIds : woSeen[i] # WoNone /\ woSeen[i].type[kind]}

\* enemies() and players(): what was collected last, as long as it is kept.
ReadList(kind) ==
  /\ woLists[kind] = WoNone
  /\ woLists' = [woLists EXCEPT ![kind] = Listed(kind)]
  /\ UNCHANGED <<woSeen, woOccupied, woBy, woTiles, woShared>>

\* #standable, at one of the four corners canStandAt tests.
Standable(p) == woTiles[p] = "open" /\ p \notin woOccupied

WorldNext ==
  \/ MapInfo
  \/ \E objects \in WoObject \X WoObject : UpdatePacket(<<>>, objects, {})
  \/ \E tiles \in WoTileNews, objects \in {<<o>> : o \in WoObject} \cup {<<>>}, drops \in SUBSET WoIds :
       UpdatePacket(tiles, objects, drops)
  \/ \E i \in WoIds, p \in WoPlaces : Moves(i, p)
  \/ \E kind \in {"enemy", "player"} : ReadList(kind)

(***************************************************************************)
(* Properties.                                                             *)
(***************************************************************************)

\* Types, and the squares that block are squares of objects in view: whatever
\* came, was announced as something else, and went.
WorldTypeOK ==
  /\ woSeen \in [WoIds -> [type : WoTypes, at : WoPlaces, announced : WoPlaces] \cup {WoNone}]
  /\ woTiles \in [WoPlaces -> {"open", "blocking", WoNone}]
  /\ \A p \in woOccupied : \E i \in WoIds : woBy[i] = p /\ woSeen[i] # WoNone

\* The lists every combat feature reads each tick are what collecting them now
\* would give: whoever came, left, moved or changed type since
\* (EntityStore.ts:107-120).
ListsAreCurrent ==
  \A kind \in {"enemy", "player"} : woLists[kind] # WoNone => woLists[kind] = Listed(kind)

Wall(i) == woSeen[i] # WoNone /\ woSeen[i].type.wall

\* Nobody is sent through a wall: the square it was announced on blocks for as long as
\* it is in view, over upserts, moves and drops, unless another wall has stood on that
\* square with it (EntityStore.ts:97-103).
WallsBlockAlone ==
  \A i \in WoIds : Wall(i) /\ woSeen[i].announced \notin woShared => ~Standable(woSeen[i].announced)

\* Nothing that is not a wall blocks, nor a wall where it was moved to: a square no wall
\* was announced on that is open can be stood on, once the object that was a wall under
\* its id has been dropped.
NothingElseBlocks ==
  \A p \in WoPlaces : woTiles[p] = "open" /\ p \notin woShared
     /\ (\A i \in WoIds : Wall(i) => woSeen[i].announced # p) => Standable(p)

------------------------------------------------------------------------------
(* What is known of the player's own character (state/SelfState.ts) and of its *)
(* slots (state/PlayerInventory.ts, state/ItemSlots.ts): CREATESUCCESS names   *)
(* the object, UPDATE and NEWTICK state it a few stats at a time               *)
(* (pipeline/stages/StateStage.ts), and MAPINFO leaves it as it is.            *)

CONSTANTS SfIds,      \* object ids
          SfClasses,  \* object types of players
          SfAmounts,  \* what a stat that is a number may be, from 0
          SfItems,    \* item types
          SfCarried, SfBackpack, \* the slots of two groups; slot 0 is the weapon
          SfNone

ASSUME SelfAssumption == 0 \in SfAmounts /\ 0 \notin SfCarried \cup SfBackpack /\ SfCarried \cap SfBackpack = {}

VARIABLES sfId, sfClass,    \* objectId, objectType; -1 as none
          sfBase, sfBonus,  \* #maxHpBase, #hpBonus
          sfPermanent,      \* permanentStats, and which object it is
          sfWeapon,         \* weaponType
          sfSlots,          \* PlayerInventory: the slots stated, and what is in each
          sfCarriedList, sfBackpackList, \* #carried, #backpack
          sfTold            \* ours: what the server last said of the character, each stat

sfVars == <<sfId, sfClass, sfBase, sfBonus, sfPermanent, sfWeapon, sfSlots, sfCarriedList, sfBackpackList, sfTold>>

Slots == {0} \cup SfCarried \cup SfBackpack
Numbers == {"base", "bonus", "attack"}

\* The stats of one packet: at most one number and one slot.
News == UNION {[some -> SfAmounts] : some \in {{}} \cup {{stat} : stat \in Numbers}}
SlotNews == UNION {[some -> SfItems] : some \in {{}} \cup {{slot} : slot \in Slots}}

SelfInit ==
  /\ sfId = SfNone /\ sfClass = SfNone /\ sfBase = 0 /\ sfBonus = 0
  /\ sfPermanent = [attack |-> 0, made |-> 0] /\ sfWeapon = SfNone
  /\ sfSlots = <<>> /\ sfCarriedList = SfNone /\ sfBackpackList = SfNone
  /\ sfTold = [numbers |-> <<>>, slots |-> <<>>]

(***************************************************************************)
(* applyStats.                                                             *)
(***************************************************************************)

Stated(news, stat, before) == IF stat \in DOMAIN news THEN news[stat] ELSE before
Over(new, old) == [k \in DOMAIN new \cup DOMAIN old |-> IF k \in DOMAIN new THEN new[k] ELSE old[k]]

\* #applyPermanentStats: another object only when a value has moved.
Permanent(news) ==
  sfPermanent' = IF Stated(news, "attack", sfPermanent.attack) # sfPermanent.attack
                 THEN [attack |-> news["attack"], made |-> 1 - sfPermanent.made] ELSE sfPermanent

\* PlayerInventory.applyStats: a slot's first statement forgets its group.
Inventory(slots) ==
  LET new == DOMAIN slots \ DOMAIN sfSlots
  IN /\ sfSlots' = Over(slots, sfSlots)
     /\ sfCarriedList' = IF new \cap SfCarried = {} THEN sfCarriedList ELSE SfNone
     /\ sfBackpackList' = IF new \cap SfBackpack = {} THEN sfBackpackList ELSE SfNone

\* The rest of SelfState.applyStats: what a packet does not state stays.
Figures(news, slots) ==
  /\ sfBase' = Stated(news, "base", sfBase) /\ sfBonus' = Stated(news, "bonus", sfBonus)
  /\ sfWeapon' = IF 0 \in DOMAIN slots THEN slots[0] ELSE sfWeapon

ApplyStats(news, slots) ==
  /\ Figures(news, slots) /\ Permanent(news) /\ Inventory(slots)
  /\ sfTold' = [numbers |-> Over(news, sfTold.numbers), slots |-> Over(slots, sfTold.slots)]

(***************************************************************************)
(* The packets.                                                            *)
(***************************************************************************)

\* CREATESUCCESS.
SfBind(id) == /\ sfId' = id
              /\ UNCHANGED <<sfClass, sfBase, sfBonus, sfPermanent, sfWeapon, sfSlots, sfCarriedList, sfBackpackList, sfTold>>

\* UPDATE: an object comes, and is ours or not; only here is the class said.
SfUpdate(id, class, news, slots) ==
  /\ id = sfId /\ sfClass' = class /\ ApplyStats(news, slots) /\ UNCHANGED sfId

\* NEWTICK.
SfTick(id, news, slots) == id = sfId /\ ApplyStats(news, slots) /\ UNCHANGED <<sfId, sfClass>>

\* #collect.
Collected(group) == SetToSortSeq({slot \in DOMAIN sfSlots : slot \in group}, LAMBDA a, b : a < b)

\* carried and backpack: a plugin reads, and the group is kept.
SfReadsCarried == /\ sfCarriedList' = IF sfCarriedList = SfNone THEN Collected(SfCarried) ELSE sfCarriedList
                  /\ UNCHANGED <<sfId, sfClass, sfBase, sfBonus, sfPermanent, sfWeapon, sfSlots, sfBackpackList, sfTold>>
SfReadsBackpack == /\ sfBackpackList' = IF sfBackpackList = SfNone THEN Collected(SfBackpack) ELSE sfBackpackList
                   /\ UNCHANGED <<sfId, sfClass, sfBase, sfBonus, sfPermanent, sfWeapon, sfSlots, sfCarriedList, sfTold>>

SelfNext ==
  \/ \E id \in SfIds : SfBind(id)
  \/ \E id \in SfIds, class \in SfClasses, news \in News, slots \in SlotNews : SfUpdate(id, class, news, slots)
  \/ \E id \in SfIds, news \in News, slots \in SlotNews : SfTick(id, news, slots)
  \/ SfReadsCarried \/ SfReadsBackpack

(***************************************************************************)
(* Properties.                                                             *)
(***************************************************************************)

\* Types, and the weapon is what is in slot 0: one stat is kept in two places.
SelfTypeOK ==
  /\ sfId \in SfIds \cup {SfNone} /\ sfClass \in SfClasses \cup {SfNone}
  /\ sfWeapon = IF 0 \in DOMAIN sfSlots THEN sfSlots[0] ELSE SfNone

\* Everything is as the server last said it, however the statements were spread
\* over packets, and what it never said is as it began: a bonus outlives the
\* ticks that say nothing of it (SelfState.ts:56-72).
AsLastSaid ==
  /\ sfBase = Stated(sfTold.numbers, "base", 0) /\ sfBonus = Stated(sfTold.numbers, "bonus", 0)
  /\ sfPermanent.attack = Stated(sfTold.numbers, "attack", 0)
  /\ sfSlots = sfTold.slots

\* A group that was handed out is every slot of it that was stated, in order,
\* whichever were stated since it was first read (PlayerInventory.ts:31-38).
GroupsAreWhole ==
  /\ sfCarriedList # SfNone => sfCarriedList = Collected(SfCarried)
  /\ sfBackpackList # SfNone => sfBackpackList = Collected(SfBackpack)

\* The six are another object exactly when one of them has another value: who
\* holds the old one holds the character as it was (SelfState.ts:105-108, 214-220).
ReplacedWhenMoved ==
  [][(sfPermanent'.made # sfPermanent.made) = (sfPermanent'.attack # sfPermanent.attack)]_sfVars
==============================================================================
