------------------------------- MODULE AntiLag -------------------------------
(* What anti-lag keeps from the client: other players resized, made invisible  *)
(* or never announced, and their effects, by rewriting UPDATE, NEWTICK and     *)
(* SHOWEFFECT (features/antilag/). One lever stands for the one of players and *)
(* the one of pets, which differ in whom they are for.                         *)
EXTENDS Integers, FiniteSets

CONSTANTS AlIds, AlSelf,   \* object ids, and the player's own
          AlKinds,         \* what an object is: "self", "player", "enemy"
          AlSizes,         \* sizes a server may send beside leaving them out
          AlDefault,       \* DEFAULT_SIZE
          AlNone, AlRemoved, \* nothing said, and the entry taken out
          AlMaxMaps, AlMaxChanges \* bounds

ASSUME AntiLagAssumption ==
  /\ AlSelf \in AlIds /\ AlSizes \subseteq Nat \ {0} /\ AlDefault \in Nat \ {0}
  /\ AlNone \notin Nat \cup AlKinds \cup [kind : AlKinds, size : Nat] /\ AlRemoved \notin Nat \cup {AlNone}

VARIABLES alOn, alMode,  \* the switch, and playerMode with its size: "off", "half", "invisible", "remove"
          alStale,       \* generation # #generation: the settings moved since the last packet
          alYard,        \* #petYard
          alHidden, alInjected, alKindOf, \* SessionEntities: #hidden, #injected, #kinds
          alWorld,       \* the state stage's: kind and size of each object, or AlNone
          alClient,      \* the size of each object the client holds, or AlNone
          alFresh,       \* ours: objects of which a status was handled under these settings, none missed
          alSlept,       \* ours: packets went by unhandled on this map
          alFroze,       \* ours: objects the client held when their removal began
          alStray, alAte, \* ours: the client was told of an object it does not hold; an enemy's effect was
                          \* dropped (neither counted once packets went by unhandled)
          alMaps, alChanges

alSession == <<alStale, alYard, alHidden, alInjected, alKindOf>>
alGhosts == <<alFresh, alSlept, alFroze, alStray, alAte>>
alVars == <<alOn, alMode, alSession, alWorld, alClient, alGhosts, alMaps, alChanges>>

AlModes == {"off", "half", "invisible", "remove"}
AlUnseen == [i \in AlIds |-> AlNone]

(***************************************************************************)
(* policy.ts.                                                              *)
(***************************************************************************)

AlPercent(mode) == CASE mode = "off" -> 100 [] mode = "half" -> 50 [] OTHER -> 0

\* policyFor: nothing is hidden or resized in the pet yard.
AlPolicy(yard) == IF yard THEN "off" ELSE alMode

\* targetSize.
TargetSize(mode, kind, size) == IF kind # "player" THEN size ELSE (size * AlPercent(mode)) \div 100

(***************************************************************************)
(* SessionEntities and rewriteStatus, over the session's state as a record. *)
(***************************************************************************)

AlState == [hidden |-> alHidden, injected |-> alInjected, kinds |-> alKindOf]

\* sync: what the settings behind a classification were is forgotten with them.
AlSynced == IF alStale THEN [AlState EXCEPT !.injected = {}, !.kinds = AlUnseen] ELSE AlState

\* forget.
AlForget(st, gone) ==
  [hidden |-> st.hidden \ gone, injected |-> st.injected \ gone,
   kinds |-> [i \in AlIds |-> IF i \in gone THEN AlNone ELSE st.kinds[i]]]

\* kindOf: what was said of an id once is said until it is forgotten.
AlKind(st, world, i) == IF st.kinds[i] # AlNone THEN st.kinds[i] ELSE IF world[i] = AlNone THEN AlNone ELSE world[i].kind

\* rewriteStatus of a status that carries a size or leaves it out: what becomes
\* of it (AlRemoved, or the size that goes on) and of the state.
Rewrite(st, mode, world, i, sent) ==
  LET kind   == AlKind(st, world, i)
      known  == [st EXCEPT !.kinds[i] = kind]
      server == IF sent = AlNone THEN AlDefault ELSE sent
      wanted == TargetSize(mode, kind, server)
  IN IF kind = AlNone THEN [to |-> sent, st |-> st]
     ELSE IF kind = "player" /\ mode = "remove" THEN [to |-> AlRemoved, st |-> [known EXCEPT !.hidden = @ \cup {i}]]
     ELSE IF wanted = server THEN [to |-> sent, st |-> known]
     ELSE IF sent # AlNone THEN [to |-> wanted, st |-> known]
     ELSE IF i \in known.injected THEN [to |-> AlNone, st |-> known]
     ELSE [to |-> wanted, st |-> [known EXCEPT !.injected = @ \cup {i}]]

\* rewriteEntries, of one entry.
RewriteEntry(st, mode, world, i, sent, announcing) ==
  IF ~announcing /\ i \in st.hidden THEN [to |-> AlRemoved, st |-> st]
  ELSE LET done == Rewrite(st, mode, world, i, sent)
       IN IF announcing /\ done.to # AlRemoved THEN [done EXCEPT !.st.hidden = @ \ {i}] ELSE done

\* Whether a packet is walked at all.
Walks(st, mode) == mode # "off" \/ st.hidden # {}

(***************************************************************************)
(* The packets.                                                            *)
(***************************************************************************)

AntiLagInit ==
  /\ alOn \in BOOLEAN /\ alMode = "off" /\ alStale = TRUE /\ alYard = FALSE
  /\ alHidden = {} /\ alInjected = {} /\ alKindOf = AlUnseen
  /\ alWorld = AlUnseen /\ alClient = AlUnseen
  /\ alFresh = {} /\ alSlept = FALSE /\ alFroze = {} /\ alStray = FALSE /\ alAte = FALSE
  /\ alMaps = 0 /\ alChanges = 0

AlSets(st) == alHidden' = st.hidden /\ alInjected' = st.injected /\ alKindOf' = st.kinds

\* What the client makes of an entry: it holds what is announced, and keeps a
\* size it was told until it is told another.
AlHeld(i, to, announcing) ==
  IF to = AlRemoved THEN [alClient EXCEPT ![i] = IF announcing THEN AlNone ELSE @]
  ELSE IF announcing THEN [alClient EXCEPT ![i] = IF to = AlNone THEN AlDefault ELSE to]
  ELSE [alClient EXCEPT ![i] = IF to = AlNone \/ @ = AlNone THEN @ ELSE to]

\* A status of an object, in UPDATE (announcing) or NEWTICK.
AlStatus(i, sent, announcing, world) ==
  IF ~alOn
  THEN /\ alClient' = AlHeld(i, sent, announcing) /\ alSlept' = TRUE
       /\ alFresh' = alFresh \ {i}
       /\ UNCHANGED <<alSession, alFroze, alStray>>
  ELSE \E st \in {AlSynced}, mode \in {AlPolicy(alYard)} :
       \E done \in {IF Walks(st, mode) THEN RewriteEntry(st, mode, world, i, sent, announcing)
                    ELSE [to |-> sent, st |-> st]} :
         /\ AlSets(done.st) /\ alStale' = FALSE
         /\ alClient' = AlHeld(i, done.to, announcing)
         /\ alStray' = (alStray \/ (~alSlept /\ ~announcing /\ done.to # AlRemoved /\ alClient[i] = AlNone))
         /\ alFroze' = IF done.to = AlRemoved /\ alClient'[i] # AlNone THEN alFroze \cup {i} ELSE alFroze \ {i}
         /\ alFresh' = IF Walks(st, mode) /\ ~alSlept THEN alFresh \cup {i} ELSE alFresh
         /\ UNCHANGED <<alSlept, alYard>>

Announce(i, kind, sent) ==
  /\ (i = AlSelf) = (kind = "self") /\ alWorld[i] = AlNone
  /\ alWorld' = [alWorld EXCEPT ![i] = [kind |-> kind, size |-> IF sent = AlNone THEN AlDefault ELSE sent]]
  /\ AlStatus(i, sent, TRUE, alWorld')
  /\ UNCHANGED <<alOn, alMode, alAte, alMaps, alChanges>>

Ticks(i, sent) ==
  /\ alWorld[i] # AlNone
  /\ alWorld' = IF sent = AlNone THEN alWorld ELSE [alWorld EXCEPT ![i].size = sent]
  /\ AlStatus(i, sent, FALSE, alWorld')
  /\ UNCHANGED <<alOn, alMode, alAte, alMaps, alChanges>>

AlDrops(st, i) == AlForget(st, {i})

\* UPDATE.drops: its id may be another's next.
Drop(i) ==
  /\ alWorld[i] # AlNone /\ i # AlSelf
  /\ alWorld' = [alWorld EXCEPT ![i] = AlNone] /\ alClient' = [alClient EXCEPT ![i] = AlNone]
  /\ IF alOn THEN AlSets(AlDrops(AlSynced, i)) /\ alStale' = FALSE /\ UNCHANGED alSlept
             ELSE alSlept' = TRUE /\ UNCHANGED <<alHidden, alInjected, alKindOf, alStale>>
  /\ alFresh' = alFresh \ {i} /\ alFroze' = alFroze \ {i}
  /\ UNCHANGED <<alOn, alMode, alYard, alStray, alAte, alMaps, alChanges>>

\* SHOWEFFECT that names an object, with "every effect they cause" chosen.
Effect(i) ==
  /\ alOn /\ alWorld[i] # AlNone
  /\ \E st \in {AlSynced} :
       LET dropped == i \in st.hidden \/ AlKind(st, alWorld, i) = "player"
       IN /\ AlSets([st EXCEPT !.kinds[i] = IF i \in st.hidden THEN @ ELSE AlKind(st, alWorld, i)])
          /\ alAte' = (alAte \/ (~alSlept /\ dropped /\ alWorld[i].kind = "enemy"))
  /\ alStale' = FALSE
  /\ UNCHANGED <<alOn, alMode, alYard, alWorld, alClient, alFresh, alSlept, alFroze, alStray, alMaps, alChanges>>

\* MAPINFO, or the first packet that finds the name changed.
AlMapInfo(yard) ==
  /\ alMaps < AlMaxMaps /\ alMaps' = alMaps + 1
  /\ alWorld' = AlUnseen /\ alClient' = AlUnseen /\ alYard' = yard
  /\ alHidden' = {} /\ alInjected' = {} /\ alKindOf' = AlUnseen
  /\ alFresh' = {} /\ alSlept' = FALSE /\ alFroze' = {}
  /\ UNCHANGED <<alOn, alMode, alStale, alStray, alAte, alChanges>>

AlSetMode(m) == /\ m # alMode /\ alMode' = m /\ alStale' = TRUE /\ alFresh' = {}
                /\ alChanges < AlMaxChanges /\ alChanges' = alChanges + 1
                /\ UNCHANGED <<alOn, alYard, alHidden, alInjected, alKindOf, alWorld, alClient, alSlept, alFroze, alStray, alAte, alMaps>>

AlToggle == /\ alOn' = ~alOn /\ alChanges < AlMaxChanges /\ alChanges' = alChanges + 1
            /\ UNCHANGED <<alMode, alSession, alWorld, alClient, alGhosts, alMaps>>

AntiLagNext ==
  \/ \E i \in AlIds, k \in AlKinds, s \in AlSizes \cup {AlNone} : Announce(i, k, s)
  \/ \E i \in AlIds, s \in AlSizes \cup {AlNone} : Ticks(i, s)
  \/ \E i \in AlIds : Drop(i) \/ Effect(i)
  \/ \E yard \in BOOLEAN : AlMapInfo(yard)
  \/ \E m \in AlModes : AlSetMode(m)
  \/ AlToggle

(***************************************************************************)
(* Properties.                                                             *)
(***************************************************************************)

\* Types, and the player's own object is held by the client at its own size.
AntiLagTypeOK ==
  /\ alHidden \subseteq AlIds /\ alInjected \subseteq AlIds /\ alKindOf \in [AlIds -> AlKinds \cup {AlNone}]
  /\ alClient \in [AlIds -> Nat \cup {AlNone}]
  /\ alWorld[AlSelf] # AlNone => alClient[AlSelf] = alWorld[AlSelf].size

\* The client is never told of an object it was not given, whatever was removed
\* under settings since changed, announced again or dropped, while no packet of
\* the map went by unhandled (antiLagPlugin.ts:329-331).
NeverAStranger == ~alStray

\* An enemy's effect is never taken for a teammate's, ids used again included.
TelegraphsPass == ~alAte

\* Other players are as large as the lever says from the first status handled
\* under it: what the server leaves out is said for it once.
SizesFollow ==
  \A i \in alFresh : alWorld[i] # AlNone /\ alWorld[i].kind = "player" /\ alClient[i] # AlNone /\ ~alYard /\ i \notin alFroze
      /\ ~alStale /\ alMode \in {"invisible", "half"} /\ (alMode = "half" => alWorld[i].size = AlDefault)
    => alClient[i] = TargetSize(alMode, "player", alWorld[i].size)
=============================================================================
