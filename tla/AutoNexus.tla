----------------------------- MODULE AutoNexus -----------------------------
(* Leaving before health is gone (features/autonexus): health simulated ahead  *)
(* of the server, shots and area effects remembered until they are answered,   *)
(* acknowledgements refused or held behind the ESCAPE, and a latch that the    *)
(* next map lets go of. One session; health in steps of the drift it may have. *)
EXTENDS Integers, Sequences, FiniteSets, FiniteSetsExt

CONSTANTS NxShots,       \* shots there are
          NxHurts,       \* what a hit may take, after defence; a heal takes 0
          NxFull,        \* maxHp
          NxLine,        \* rejectLine(), as health
          NxForecastLine, \* predictedThresholdPercent, as health
          NxDrift, NxWarmup,
          NxMaxAoes,
          NxMaxMaps,     \* bound
          NxUnknown,     \* UNKNOWN_SHOT_DAMAGE
          NxNone         \* no such shot is logged

ASSUME NexusAssumption ==
  /\ NxFull \in Nat \ {0} /\ {NxLine, NxForecastLine} \subseteq 0..(NxFull - 1)
  /\ NxHurts \subseteq Nat /\ NxUnknown \in Nat /\ NxNone \notin Nat
  /\ {NxDrift, NxWarmup, NxMaxAoes, NxMaxMaps} \subseteq Nat

VARIABLES nxOn,          \* the plugin is enabled
          nxEscapes,     \* the escapeEnabled setting
          nxSafe,        \* the map is a safe zone
          nxReported,    \* self.hp: the health the server last stated, 0 before it has
          nxHp, nxTicks, \* HpTracker: the simulated health and #ticks
          nxKnown,       \* HpTracker: #initialized, and with it a maximum
          nxLog,         \* BulletLog: damage of each announced shot
          nxAoes,        \* area effects waiting for their acknowledgement
          nxEscaped,     \* the latch
          nxHeld,        \* the maps whose held hit has its timer running
          nxMap,         \* ours: how many maps there were
          nxAsleep,      \* ours: a MAPINFO went by while the plugin was disabled
          nxSaid         \* ours: what this step put on the wire to the server

nxVars == <<nxOn, nxEscapes, nxSafe, nxReported, nxHp, nxTicks, nxKnown, nxLog, nxAoes,
            nxEscaped, nxHeld, nxMap, nxAsleep, nxSaid>>
nxSettings == <<nxOn, nxEscapes, nxSafe, nxMap, nxAsleep>>
nxTracker  == <<nxHp, nxTicks, nxKnown>>
nxState    == <<nxTracker, nxLog, nxAoes, nxEscaped, nxHeld>>

NexusInit ==
  /\ nxOn = TRUE /\ nxEscapes \in BOOLEAN /\ nxSafe = FALSE
  /\ nxReported = 0 /\ nxHp = 0 /\ nxTicks = 0 /\ nxKnown = FALSE
  /\ nxLog = [s \in NxShots |-> NxNone] /\ nxAoes = <<>>
  /\ nxEscaped = FALSE /\ nxHeld = {} /\ nxMap = 0 /\ nxAsleep = FALSE /\ nxSaid = {}

(***************************************************************************)
(* The tracker and the gates.                                              *)
(***************************************************************************)

NxAlive     == nxReported > 0    \* self.alive
NxListening == nxOn /\ ~nxEscaped /\ NxAlive

\* Before the first report there is no maximum to be below a share of.
AtOrBelow(hp, line, pending) == nxKnown /\ hp - pending <= line

\* Whether escape() goes through: asked for, switched on and not yet done.
Escapes(wanted) == wanted /\ nxEscapes /\ ~nxEscaped

\* The latch and the ESCAPE, and what else the step lets through to the server.
Escape(wanted, also) ==
  /\ nxEscaped' = (nxEscaped \/ Escapes(wanted))
  /\ nxSaid' = also \cup (IF Escapes(wanted) THEN {"ESCAPE"} ELSE {})

CrossesLine(d)  == ~nxSafe /\ AtOrBelow(nxHp, NxLine, d)

\* What some of those remembered take together.
NxTotal(all, some) == MapThenSumSet(LAMBDA s: all[s], some)

\* Shots that are still answered for and about to land, one after the other:
\* the sum only grows, so the last one decides.
Forecasts(log, striking) ==
  LET counted == {s \in striking: log[s] # NxNone}
  IN /\ nxEscapes /\ ~nxEscaped /\ NxAlive /\ ~nxSafe /\ counted # {}
     /\ AtOrBelow(nxHp, NxForecastLine, NxTotal(log, counted))

\* BulletLog.add of a volley, and prune.
Logged(log, volley, d) == [s \in NxShots |-> IF s \in volley THEN d ELSE log[s]]
Pruned(log, old)       == [s \in NxShots |-> IF s \in old THEN NxNone ELSE log[s]]

(***************************************************************************)
(* What the server says.                                                   *)
(***************************************************************************)

\* ENEMYSHOOT: the volley is logged and what is too `old` pruned; then the volley
\* is weighed by itself when it was fired from on top of the player (against the
\* server's health, not the simulated one), and then with all that is `striking`.
NxEnemyShoot(volley, d, close, old, striking) ==
  LET log == Pruned(Logged(nxLog, volley, d), old)
      pointBlank == /\ close /\ NxAlive /\ ~nxSafe
                    /\ nxReported - d * Cardinality(volley) <= NxLine
  IN /\ nxOn /\ ~nxEscaped
     /\ nxLog' = log
     /\ Escape(pointBlank \/ Forecasts(log, striking), {})
     /\ UNCHANGED <<nxSettings, nxReported, nxTracker, nxAoes, nxHeld>>

\* The interval, with whatever is about to strike by now.
NxForecast(striking) ==
  /\ nxOn /\ Forecasts(nxLog, striking)
  /\ Escape(TRUE, {})
  /\ UNCHANGED <<nxSettings, nxReported, nxTracker, nxLog, nxAoes, nxHeld>>

\* The player's object with its figures, ahead of the first tick of a map.
NxUpdate(stated) ==
  /\ ~nxKnown /\ nxTicks = 0
  /\ nxReported' = stated /\ nxSaid' = {}
  /\ UNCHANGED <<nxSettings, nxState>>

OneAoeMore(all) == IF Len(all) > NxMaxAoes + 1 THEN Tail(all) ELSE all    \* broken variant

\* The oldest area effect makes room.
MostAoes(all) == IF Len(all) > NxMaxAoes THEN Tail(all) ELSE all

\* AOE, a heal among them.
NxAoe(d) ==
  /\ nxOn /\ ~nxEscaped
  /\ nxAoes' = MostAoes(Append(nxAoes, d))
  /\ nxSaid' = {}
  /\ UNCHANGED <<nxSettings, nxReported, nxTracker, nxLog, nxEscaped, nxHeld>>

\* syncFromServer: the first report, and one after the simulation has bottomed
\* out, is taken; later ones only once they have drifted.
Synced(reported) ==
  IF ~nxKnown \/ nxHp <= 0 THEN <<reported, 0>>
  ELSE LET apart == IF nxHp > reported THEN nxHp - reported ELSE reported - nxHp
       IN <<IF apart > NxDrift /\ nxTicks > NxWarmup THEN reported ELSE nxHp,
            IF nxTicks > NxWarmup THEN nxTicks ELSE nxTicks + 1>>  \* bound: told apart no further

\* The state stage has stored what the server says before the plugin is asked.
NxNewTick(reported) ==
  /\ nxReported' = reported
  /\ IF nxOn /\ reported > 0
     THEN /\ nxHp' = Synced(reported)[1] /\ nxTicks' = Synced(reported)[2]
          /\ nxKnown' = TRUE
          /\ Escape(~nxSafe /\ nxHp' <= NxLine, {})
     ELSE nxSaid' = {} /\ UNCHANGED <<nxTracker, nxEscaped>>
  /\ UNCHANGED <<nxSettings, nxLog, nxAoes, nxHeld>>

\* DAMAGE that kills, and DEATH: one last attempt, whatever health is thought to be.
NxLethal ==
  /\ nxOn /\ ~nxEscaped
  /\ Escape(~nxSafe, {})
  /\ UNCHANGED <<nxSettings, nxReported, nxTracker, nxLog, nxAoes, nxHeld>>

(***************************************************************************)
(* What the client acknowledges.                                           *)
(***************************************************************************)

\* Everything the client acknowledges after the escape is dropped; what it says
\* while the plugin is disabled, or of a player who is not alive, is forwarded.
NxUnheard(what) ==
  /\ nxEscaped \/ ~nxOn \/ ~NxAlive
  /\ nxSaid' = IF nxOn /\ nxEscaped THEN {} ELSE {what}
  /\ UNCHANGED <<nxSettings, nxReported, nxTracker, nxLog, nxAoes, nxEscaped, nxHeld>>

\* PLAYERHIT: charged whatever happens to it, and held back behind an escape.
NxPlayerHit(s) ==
  LET d == IF nxLog[s] # NxNone THEN nxLog[s] ELSE NxUnknown
      leaves == CrossesLine(d)
  IN /\ NxListening
     /\ nxLog' = Pruned(nxLog, {s})
     /\ nxHp' = nxHp - d
     /\ nxHeld' = IF Escapes(leaves) THEN nxHeld \cup {nxMap} ELSE nxHeld
     /\ Escape(leaves, IF Escapes(leaves) THEN {} ELSE {"hit"})
     /\ UNCHANGED <<nxSettings, nxReported, nxTicks, nxKnown, nxAoes>>

\* The area effects still waiting, in their order.
Unanswered(all, gone) ==
  LET upTo[n \in 0..Len(all)] ==
        IF n = 0 THEN <<>> ELSE IF n \in gone THEN upTo[n - 1] ELSE Append(upTo[n - 1], all[n])
  IN upTo[Len(all)]

\* AOEACK from where the effects `landed` reach, the `old` ones forgotten. What
\* would cross the line is refused; so is, at the line, an answer to nothing known.
NxAoeAck(landed, old) ==
  LET sum   == NxTotal(nxAoes, landed)
      kept  == Unanswered(nxAoes, landed \cup old)
      blind == landed = {} /\ kept = <<>> /\ ~nxSafe /\ AtOrBelow(nxHp, NxLine, 0)
      refused == (sum > 0 /\ CrossesLine(sum)) \/ blind
  IN /\ NxListening
     /\ nxAoes' = kept
     /\ nxHp' = IF refused THEN nxHp ELSE nxHp - sum
     /\ Escape(refused, IF refused THEN {} ELSE {"aoe"})
     /\ UNCHANGED <<nxSettings, nxReported, nxTicks, nxKnown, nxLog, nxHeld>>

\* GROUNDDAMAGE is refused only alongside an escape.
NxGround(d) ==
  /\ NxListening
  /\ IF CrossesLine(d) /\ nxEscapes
     THEN Escape(TRUE, {}) /\ UNCHANGED nxHp
     ELSE nxHp' = nxHp - d /\ nxSaid' = {"ground"} /\ UNCHANGED nxEscaped
  /\ UNCHANGED <<nxSettings, nxReported, nxTicks, nxKnown, nxLog, nxAoes, nxHeld>>

\* The timer of a held hit; the host runs it only while the plugin is enabled.
NxRelease(map) ==
  /\ map \in nxHeld
  /\ nxHeld' = nxHeld \ {map}
  /\ nxSaid' = IF nxOn THEN {"held"} ELSE {}
  /\ UNCHANGED <<nxSettings, nxReported, nxTracker, nxLog, nxAoes, nxEscaped>>

(***************************************************************************)
(* Maps, the switch and the end.                                           *)
(***************************************************************************)

NxKeepHeldAcks == UNCHANGED nxHeld    \* broken variant
NxDropHeldAcks == nxHeld' = {}

\* MAPINFO is a clean slate, if the plugin hears it.
NxMapInfo(safe) ==
  /\ nxMap < NxMaxMaps
  /\ nxMap' = nxMap + 1 /\ nxSafe' = safe /\ nxSaid' = {}
  /\ IF nxOn
     THEN /\ NxDropHeldAcks /\ nxHp' = 0 /\ nxTicks' = 0 /\ nxKnown' = FALSE
          /\ nxLog' = [s \in NxShots |-> NxNone] /\ nxAoes' = <<>>
          /\ nxEscaped' = FALSE /\ nxAsleep' = FALSE
     ELSE nxAsleep' = TRUE /\ UNCHANGED <<nxHeld, nxTracker, nxLog, nxAoes, nxEscaped>>
  /\ UNCHANGED <<nxOn, nxEscapes, nxReported>>

NxSwitch ==
  /\ nxOn' = ~nxOn /\ nxSaid' = {}
  /\ UNCHANGED <<nxEscapes, nxSafe, nxMap, nxAsleep, nxReported, nxState>>

\* escapeEnabled, which every gate reads afresh.
NxSetEscapes ==
  /\ nxEscapes' = ~nxEscapes /\ nxSaid' = {}
  /\ UNCHANGED <<nxOn, nxSafe, nxMap, nxAsleep, nxReported, nxState>>

\* The session is gone, and with it everything kept for it, enabled or not; the
\* next one starts with a world of its own.
NxDisconnected ==
  /\ nxMap < NxMaxMaps
  /\ nxMap' = nxMap + 1 /\ NxDropHeldAcks /\ nxSaid' = {}
  /\ nxHp' = 0 /\ nxTicks' = 0 /\ nxKnown' = FALSE /\ nxLog' = [s \in NxShots |-> NxNone]
  /\ nxAoes' = <<>> /\ nxEscaped' = FALSE /\ nxAsleep' = FALSE
  /\ nxReported' = 0 /\ nxSafe' = FALSE
  /\ UNCHANGED <<nxOn, nxEscapes>>

\* Bound: nothing more is charged to health that has bottomed out.
NxCharged == nxHp > 0

NexusNext ==
  \/ \E volley \in SUBSET NxShots \ {{}}, striking \in SUBSET NxShots, d \in NxHurts, close \in BOOLEAN:
       \E old \in SUBSET (NxShots \ volley): NxEnemyShoot(volley, d, close, old, striking)
  \/ \E striking \in SUBSET NxShots: NxForecast(striking)
  \/ \E s \in NxShots: NxCharged /\ NxPlayerHit(s)
  \/ \E d \in NxHurts: NxAoe(d) \/ (NxCharged /\ NxGround(d))
  \/ \E h \in 0..NxFull: NxUpdate(h) \/ NxNewTick(h)
  \/ NxLethal \/ NxSwitch \/ NxSetEscapes \/ NxDisconnected
  \/ \E what \in {"hit", "aoe", "ground"}: NxUnheard(what)
  \/ \E landed, old \in SUBSET DOMAIN nxAoes:
       landed \cap old = {} /\ NxCharged /\ NxAoeAck(landed, old)
  \/ \E map \in nxHeld: NxRelease(map)
  \/ \E safe \in BOOLEAN: NxMapInfo(safe)

(***************************************************************************)
(* Properties.                                                             *)
(***************************************************************************)

\* Types; and the lists the packets of a burst could grow stay within theirs.
NexusTypeOK ==
  /\ nxHp \in Int /\ nxHp <= NxFull
  /\ nxLog \in [NxShots -> NxHurts \cup {NxNone}]
  /\ nxAoes \in Seq(NxHurts) /\ Len(nxAoes) <= NxMaxAoes
  /\ nxHeld \subseteq 0..NxMaxMaps

\* A held hit is sent only on the map it was taken on, and only behind the
\* ESCAPE of that map, whichever of timer, map change and disconnect comes first
\* (autoNexusPlugin.ts:689-695). The exception is a plugin that was disabled
\* when the map changed.
HeldBehindEscape == ~nxAsleep => nxHeld \subseteq {nxMap} /\ (nxHeld # {} => nxEscaped)

\* Once the ESCAPE is out the server hears of no other hit until the map
\* changes: the latch drops all three kinds of acknowledgement.
NothingAfterEscape == [][nxEscaped /\ nxOn => nxSaid' \subseteq {"held"}]_nxVars

\* Nothing leaves a safe zone, by any of the eight roads to an escape.
NeverFromSafety == [][nxSafe => "ESCAPE" \notin nxSaid']_nxVars

\* The simulation being ahead of the server never costs the escape: health the
\* server reports at the line or below by the drift is left at that tick, once
\* the tracker is warm, however many hits it has charged or missed
\* (HpTracker.ts:44-52).
LowIsLeft ==
  [][(nxOn /\ nxEscapes /\ ~nxSafe /\ nxTicks > NxWarmup /\ nxReported' \notin {0, nxReported}
        /\ nxReported' + NxDrift <= NxLine) => nxEscaped']_nxVars

\* An area effect, which only its acknowledgement carries, never takes tracked
\* health over the line, in either mode and however many effects one answer is
\* for (autoNexusPlugin.ts:588-601).
AreaFloorHolds ==
  [][("aoe" \in nxSaid' /\ nxOn /\ ~nxSafe /\ nxKnown /\ nxHp' # nxHp)
        => nxHp' > NxLine]_nxVars
=============================================================================
