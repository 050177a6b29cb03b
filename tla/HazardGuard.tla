----------------------------- MODULE HazardGuard -----------------------------
(* Harm kept from the player: damaging ground (features/hazardguard), punished*)
(* hits (features/sanctuary) and ground that pushes (features/pushtiles).     *)
EXTENDS Integers, FiniteSets

------------------------------------------------------------------------------
(* Damaging ground withheld for a few seconds at a time (features/hazardguard): *)
(* a window opened by stepping on, one report let through when it is over, and  *)
(* a countdown on screen. Times are ages, capped where nothing tells them apart.*)

CONSTANTS HgHolds,      \* values of the holdSeconds setting, in clock steps
          HgRearm,      \* the rearmMs setting
          HgTick,       \* TICK_MS
          HgNever       \* no such time

ASSUME HazardAssumption ==
  /\ HgHolds \subseteq Nat \ {0} /\ \E h \in HgHolds : \A g \in HgHolds : g <= h
  /\ HgRearm \in Nat /\ HgTick \in Nat /\ HgNever \notin Nat

VARIABLES hgOn,         \* the plugin is enabled
          hgHold,
          hgLast,       \* age of lastGroundAtMs
          hgOpen,       \* age of openedAtMs
          hgTicker,     \* steps until the countdown ticks; HgNever without one
          hgRaised,     \* ours: the setting has been changed since the window opened
          hgAdmitted,   \* ours: age of the last report let through
          hgEntered,    \* ours: age of the last step on from elsewhere
          hgReport      \* ours: what this step did with a report

hgVars == <<hgOn, hgHold, hgLast, hgOpen, hgTicker, hgRaised, hgAdmitted, hgEntered, hgReport>>

HgCap == HgRearm + (CHOOSE h \in HgHolds: \A g \in HgHolds: g <= h)
HgOlder(age) == IF age = HgNever \/ age = HgCap THEN age ELSE age + 1
HgAtLeast(age, least) == age = HgNever \/ age >= least

HazardInit ==
  /\ hgOn = TRUE /\ hgHold \in HgHolds /\ hgLast = HgNever /\ hgOpen = HgNever
  /\ hgTicker = HgNever /\ hgRaised = FALSE
  /\ hgAdmitted = HgNever /\ hgEntered = HgNever /\ hgReport = "none"

\* Broken variant: reports a little less than the rearm time apart each count as a
\* step onto the ground.
WindowReentered ==
  LET entered == HgAtLeast(hgLast, HgRearm - 1)
  IN [withhold |-> entered \/ ~HgAtLeast(hgOpen, hgHold),
      since |-> IF entered \/ HgAtLeast(hgOpen, hgHold) THEN 0 ELSE hgOpen, opened |-> TRUE]

\* windowFor: what to do with a report, and the age the window then has.
WindowFor ==
  LET entered == HgAtLeast(hgLast, HgRearm)
      since   == IF entered THEN 0 ELSE hgOpen
  IN IF HgAtLeast(since, hgHold)
     THEN [withhold |-> FALSE, since |-> 0, opened |-> TRUE]
     ELSE [withhold |-> TRUE, since |-> since, opened |-> entered]

\* GROUNDDAMAGE: the report is dropped or forwarded, and the countdown restarts
\* with every window.
Ground ==
  /\ hgOn
  /\ hgLast' = 0 /\ hgOpen' = WindowFor.since
  /\ hgTicker' = IF WindowFor.opened THEN HgTick ELSE hgTicker
  /\ hgRaised' = (hgRaised /\ ~WindowFor.opened)
  /\ hgReport' = IF WindowFor.withhold THEN "withheld" ELSE "admitted"
  /\ hgAdmitted' = IF WindowFor.withhold THEN hgAdmitted ELSE 0
  /\ hgEntered' = IF HgAtLeast(hgLast, HgRearm) THEN 0 ELSE hgEntered
  /\ UNCHANGED <<hgOn, hgHold>>

\* The countdown's interval, skipped by the host while the plugin is disabled:
\* it stops itself once the window is spent or gone.
CountdownTick ==
  /\ hgTicker = 0 /\ hgReport' = "none"
  /\ hgTicker' = IF hgOn /\ HgAtLeast(hgOpen, hgHold) THEN HgNever ELSE HgTick
  /\ UNCHANGED <<hgOn, hgHold, hgLast, hgOpen, hgRaised, hgAdmitted, hgEntered>>

\* MAPINFO, which a disabled plugin does not hear, and a new session, which it does.
Forget(heard) ==
  /\ hgReport' = "none"
  /\ IF heard THEN hgLast' = HgNever /\ hgOpen' = HgNever /\ hgTicker' = HgNever
              ELSE UNCHANGED <<hgLast, hgOpen, hgTicker>>
  /\ UNCHANGED <<hgOn, hgHold, hgRaised, hgAdmitted, hgEntered>>

HgSettings ==
  /\ \/ hgOn' = ~hgOn /\ UNCHANGED <<hgHold, hgRaised>>
     \/ hgHold' \in HgHolds \ {hgHold} /\ hgRaised' = TRUE /\ UNCHANGED hgOn
  /\ hgReport' = "none" /\ UNCHANGED <<hgLast, hgOpen, hgTicker, hgAdmitted, hgEntered>>

HgTime ==
  /\ hgLast' = HgOlder(hgLast) /\ hgOpen' = HgOlder(hgOpen)
  /\ hgAdmitted' = HgOlder(hgAdmitted) /\ hgEntered' = HgOlder(hgEntered)
  /\ hgTicker' = IF hgTicker \in {HgNever, 0} THEN hgTicker ELSE hgTicker - 1
  /\ hgReport' = "none" /\ UNCHANGED <<hgOn, hgHold, hgRaised>>

HazardNext == \/ Ground \/ CountdownTick \/ HgSettings \/ HgTime
              \/ \E heard \in {hgOn, TRUE}: Forget(heard)

HgAges == 0..HgCap \cup {HgNever}
HazardTypeOK ==
  /\ hgLast \in HgAges /\ hgOpen \in HgAges /\ hgTicker \in 0..HgTick \cup {HgNever}
  /\ hgReport \in {"none", "withheld", "admitted"}
  /\ (hgOpen = HgNever) = (hgLast = HgNever)

\* A player who stays on damaging ground is not withheld from the server for
\* longer than the setting: whatever was withheld is less than that after the
\* step on or the last report let through (lavaWindow.ts:53-73).
ServerHears ==
  [][hgReport' = "withheld" => ~HgAtLeast(hgAdmitted, hgHold) \/ ~HgAtLeast(hgEntered', hgHold)]_hgVars

\* And no sooner: two reports let through are a full window apart, also across
\* map changes, new sessions and walking off.
AdmittedApart ==
  [][hgReport' = "admitted" => HgAtLeast(hgAdmitted, hgHold)]_hgVars

\* The screen is never silent while reports are withheld: a window that is not
\* over has a countdown that still runs, unless the setting was raised after it
\* had ended.
CountdownRuns ==
  hgOpen # HgNever /\ hgOpen < hgHold /\ ~hgRaised => hgTicker # HgNever

------------------------------------------------------------------------------
(* Hits the Sanctuary punishes, withheld (features/sanctuary): Oryx behind his    *)
(* guard, the Chancellor while he speaks, the treasure artifacts. Beside the       *)
(* plugin's picture stands the fight as the server has it.                         *)

CONSTANTS SaMaps          \* names of maps, the Sanctuary's among them

VARIABLES saOn,
          saRules,        \* the three switches, as the set of those on
          saMap,          \* world.mapName
          saHeld,         \* the session's entry: [map, speaking]
          saStance,       \* Oryx: "open", "guarded", or "unknown" without the stat
          saSpeaking,     \* ours: the Chancellor is speaking
          saMissed,       \* ours: a line of his went by unheard
          saHit           \* ours: the hit of this step: [target, withheld], or none

saVars == <<saOn, saRules, saMap, saHeld, saStance, saSpeaking, saMissed, saHit>>
SaTargets == {"oryx", "dammah", "artifact", "other"}
SaRuleOf  == [oryx |-> "oryxGuard", dammah |-> "dammahMonologue", artifact |-> "treasureShuffle"]
SaNoHit   == [target |-> "other", withheld |-> FALSE]

SanctuaryInit ==
  /\ saOn = TRUE /\ saRules \in SUBSET {"oryxGuard", "dammahMonologue", "treasureShuffle"}
  /\ saMap \in SaMaps /\ saHeld = [map |-> saMap, speaking |-> FALSE]
  /\ saStance \in {"open", "guarded", "unknown"} /\ saSpeaking = FALSE /\ saMissed = FALSE
  /\ saHit = SaNoHit

\* stateFor: the entry, afresh when the map has another name.
Held == IF saHeld.map = saMap THEN saHeld ELSE [map |-> saMap, speaking |-> FALSE]

\* punishmentFor: is there one for this hit?
Punished(target, speaking) ==
  CASE target = "oryx"     -> "oryxGuard" \in saRules /\ saStance = "guarded"
    [] target = "dammah"   -> "dammahMonologue" \in saRules /\ speaking
    [] target = "artifact" -> "treasureShuffle" \in saRules
    [] OTHER               -> FALSE

\* ENEMYHIT of an enemy in the world: dropped when it is punished. Only a hit on
\* the Chancellor looks at the entry.
EnemyHit(target) ==
  /\ saHeld' = IF saOn /\ saRules # {} /\ target = "dammah" THEN Held ELSE saHeld
  /\ saHit' = [target |-> target, withheld |-> saOn /\ Punished(target, Held.speaking)]
  /\ UNCHANGED <<saOn, saRules, saMap, saStance, saSpeaking, saMissed>>

\* A line is his if it has his name and no player's stars.
SpokenBy(whose) == whose = "his"

\* TEXT: his own lines start and end the speech, a player's change nothing.
SaText(whose, monologue) ==
  /\ saHeld' = IF saOn /\ SpokenBy(whose) THEN [Held EXCEPT !.speaking = monologue] ELSE saHeld
  /\ saSpeaking' = IF whose = "his" THEN monologue ELSE saSpeaking
  /\ saMissed' = IF whose = "his" THEN ~saOn ELSE saMissed
  /\ saHit' = SaNoHit /\ UNCHANGED <<saOn, saRules, saMap, saStance>>

SanctuaryStance(s) == saStance' = s /\ saHit' = SaNoHit /\ UNCHANGED <<saOn, saRules, saMap, saHeld, saSpeaking, saMissed>>

SanctuarySettings ==
  /\ \/ saOn' = ~saOn /\ UNCHANGED saRules
     \/ saRules' \in SUBSET {"oryxGuard", "dammahMonologue", "treasureShuffle"} /\ UNCHANGED saOn
  /\ saHit' = SaNoHit /\ UNCHANGED <<saMap, saHeld, saStance, saSpeaking, saMissed>>

\* A map is a session of its own: its entry is made when it is first asked for.
SanctuaryFresh(map) == saHeld' = [map |-> map, speaking |-> FALSE]

SanctuaryMap(map) ==
  /\ saMap' = map /\ SanctuaryFresh(map) /\ saSpeaking' = FALSE /\ saMissed' = FALSE
  /\ saStance' = "unknown" /\ saHit' = SaNoHit /\ UNCHANGED <<saOn, saRules>>

SanctuaryNext ==
  \/ \E target \in SaTargets: EnemyHit(target)
  \/ \E whose \in {"his", "player"}, monologue \in BOOLEAN: SaText(whose, monologue)
  \/ \E s \in {"open", "guarded", "unknown"}: SanctuaryStance(s)
  \/ SanctuarySettings
  \/ \E map \in SaMaps: SanctuaryMap(map)

\* No damage is thrown away: a hit is withheld only while the server punishes it
\* and its switch is on, also after the fight has started over on a map of the
\* same name, unless a line of the Chancellor's went by while the plugin was off.
OnlyPunishedWithheld ==
  saHit.withheld =>
    /\ saHit.target # "other" /\ SaRuleOf[saHit.target] \in saRules
    /\ saHit.target = "oryx" => saStance = "guarded"
    /\ saHit.target = "dammah" => saSpeaking \/ saMissed

\* And what a switch covers is not let through: no player talking over him ends
\* the Chancellor's speech.
PunishedAreWithheld ==
  [][(saHit' # saHit /\ saOn /\ saHit'.target = "dammah" /\ saSpeaking /\ ~saMissed
       /\ "dammahMonologue" \in saRules) => saHit'.withheld]_saVars

------------------------------------------------------------------------------
(* Ground that pushes, shown to the client as ground that does not                *)
(* (features/pushtiles): every UPDATE is rewritten with the tile the setting       *)
(* names, unless that one pushes too.                                              *)

CONSTANTS PtTypes, PtPushing, PtPlaces, PtUnknown

ASSUME PushAssumption == PtPushing \subseteq PtTypes /\ PtUnknown \notin PtTypes

VARIABLES ptOn, ptReplacement,
          ptServer,      \* the ground as the server announced it
          ptClient,      \* the ground as the client was told
          ptPlain        \* ours: places announced while nothing could be replaced

ptVars == <<ptOn, ptReplacement, ptServer, ptClient, ptPlain>>

PushInit ==
  /\ ptOn \in BOOLEAN /\ ptReplacement \in PtTypes
  /\ ptServer = [p \in PtPlaces |-> PtUnknown] /\ ptClient = ptServer /\ ptPlain = {}

\* substitute(): the tile to put, or none when it pushes itself.
Substitute == {ptReplacement} \ PtPushing

\* replacePushTiles.
Replaced(tiles, s) == [p \in DOMAIN tiles |-> IF tiles[p] \in PtPushing THEN s ELSE tiles[p]]

\* UPDATE with some tiles; one the decoder gave up on goes by as it is.
Update(tiles, opaque) ==
  /\ ptServer' = [p \in PtPlaces |-> IF p \in DOMAIN tiles THEN tiles[p] ELSE ptServer[p]]
  /\ LET plain == ~ptOn \/ opaque \/ Substitute = {}
         shown == IF plain THEN tiles ELSE Replaced(tiles, CHOOSE s \in Substitute: TRUE)
     IN /\ ptClient' = [p \in PtPlaces |-> IF p \in DOMAIN tiles THEN shown[p] ELSE ptClient[p]]
        /\ ptPlain' = IF plain THEN ptPlain \cup DOMAIN tiles ELSE ptPlain \ DOMAIN tiles
  /\ UNCHANGED <<ptOn, ptReplacement>>

PushSettings ==
  /\ \/ ptOn' = ~ptOn /\ UNCHANGED ptReplacement
     \/ ptReplacement' \in PtTypes /\ UNCHANGED ptOn
  /\ UNCHANGED <<ptServer, ptClient, ptPlain>>

PushNext ==
  \/ \E there \in SUBSET PtPlaces: \E tiles \in [there -> PtTypes], opaque \in BOOLEAN: Update(tiles, opaque)
  \/ PushSettings

\* No rewritten ground pushes, whatever the setting was when each tile came; and
\* ground that never pushed is what the server says it is.
NothingPushes == \A p \in PtPlaces \ ptPlain: ptClient[p] \notin PtPushing
OtherGroundKept == \A p \in PtPlaces: ptServer[p] \notin PtPushing => ptClient[p] = ptServer[p]
==============================================================================
