------------------------------- MODULE MCPlay --------------------------------
(* Features that act and what they rewrite, each on its own: `subject`         *)
(* says which of them this behaviour is about.                                *)
EXTENDS AutoNexus, HazardGuard, AutoUse, Portals, AutoChat, ChatBox, AutoAim, Disguise, AntiLag, Steering

CONSTANTS Subjects, cave, d1, d2, den, g1, g2, g3, m1, m2, town, x1, x2

VARIABLE subject

\* A weapon of a spell, one that heals and lasts, and one that strengthens and is refreshed.
MCAbilities == {[use |-> "aimed", benefits |-> {}, cooldown |-> 3, refresh |-> 0],
                [use |-> "self", benefits |-> {"health", "utility"}, cooldown |-> 1, refresh |-> 4],
                [use |-> "aimed", benefits |-> {"offence"}, cooldown |-> 1, refresh |-> 4]}

\* What the characters say: the patterns each line matches.
MCAnswerLines == {{"Alexander"}, {"LIES"}, {"Password"}, {"hint"}, {"Password", "Correct"}, {"interesting"},
                  {"thrill"}, {"prepared"}, {"hello"}}

MCPortals == <<"o1", "o2", "o3", "o4">>
MCDistance == [o1 |-> 1, o2 |-> 2, o3 |-> 2, o4 |-> 4]

\* Lines of chat: an advertisement spelt plainly and in disguises, its clean form
\* blank in one, a flood, a call, and the same words from the player, whose name is
\* spelt both ways, from the game and from a character.
L(sender, clean, text, reads, mentions) ==
  [own |-> sender \in {"me", "me,9a16"}, sender |-> sender, stars |-> IF sender = "npc" THEN -1 ELSE 0,
   clean |-> clean, text |-> text, reads |-> reads, mentions |-> mentions, opaque |-> FALSE]
MCChatLines ==
  {L(s, t, <<"o">>, {}, FALSE) : s \in {"me", "bot"},
      t \in {<<"s", "t", "o", "c", "k">>, <<"$", "zw", "fwt", " ", "0", "c", "k">>, <<"w", "t", "s">>, <<"o", "o", "o", "o">>}}
  \cup {L(s, <<>>, <<"S", "7", "bar", "cyo", "c", "k">>, {}, TRUE) : s \in {"me,9a16", "bot"}}
  \cup {L("bot", <<"o">>, <<"o">>, {"bot-tail", "shop-domain"}, TRUE), L("npc", <<"s", "t", "o", "c", "k">>, <<>>, {}, TRUE),
        L("sys", <<"w", "t", "s">>, <<>>, {"ascii-banner"}, TRUE), L("me", <<>>, <<>>, {}, TRUE),
        L("friend", <<"a", " ", "s", "t", "o", "c", "k">>, <<>>, {}, FALSE),
        [L("bot", <<>>, <<>>, {}, TRUE) EXCEPT !.opaque = TRUE]}
MCRules == {{"bot"}, {"friend", "me", "me,9a16", "npc", "alias"}}
MCBare == [n \in {"", "me", "me,9a16", "bot", "friend", "sys", "npc", "alias"} |-> IF n = "me,9a16" THEN "me" ELSE n]

\* Steps of an enemy: straight on, turning, and one too long to have been walked.
MCSteps == {<<1, 0>>, <<1, 1>>, <<0, 1>>, <<5, 0>>}

\* Enemies on a line: one standing, a wall as near, a boss nothing touches for now
\* as strong as the first, and a nearer boss that outruns the shot.
Enemy(at, v, known, hp, traits, boss) == [at |-> at, v |-> v, known |-> known, hp |-> hp, traits |-> traits, boss |-> boss]
MCEnemies == {Enemy(2, 0, FALSE, 2, {}, FALSE), Enemy(-2, 1, TRUE, 1, {"wall"}, FALSE),
              Enemy(4, -2, TRUE, 2, {"untouchable"}, TRUE), Enemy(1, 3, TRUE, 1, {}, TRUE)}
MCFields == {<<e, f>> : e \in MCEnemies, f \in MCEnemies} \ {<<e, e>> : e \in MCEnemies}
MCPriorities == {[by |-> "closest", cursor |-> AmNobody], [by |-> "lowestHp", cursor |-> AmNobody], [by |-> "highestHp", cursor |-> AmNobody],
  [by |-> "cursor", cursor |-> AmNobody], [by |-> "cursor", cursor |-> 3]}

MCSkins == [c1 |-> {"a"}, c2 |-> {"b"}]

\* Good ground everywhere, a crowd on the left, and a shot parked in the middle beside a wall.
MCGrounds == {[p \in 0 .. 2 |-> 0], [p \in 0 .. 2 |-> IF p = 0 THEN 1 ELSE 0], [p \in 0 .. 2 |-> IF p = 1 THEN 2 ELSE IF p = 2 THEN 3 ELSE 0]}
\* Standing still, two steps walked one way, and two the other out of a crowd.
MCAnswers == {[dir |-> 0, steps |-> 0, crowded |-> FALSE], [dir |-> -1, steps |-> 2, crowded |-> FALSE],
              [dir |-> 1, steps |-> 2, crowded |-> TRUE]}
MCDriving == {[respects |-> TRUE, cancels |-> TRUE], [respects |-> TRUE, cancels |-> FALSE]}

\* Each subject but the one this behaviour is about is at rest in a plain state.
Init ==
  /\ subject \in Subjects
  /\ NexusInit /\ (subject # "nexus" => nxEscapes)
  /\ HazardInit /\ (subject # "ground" => hgHold = 2)
  /\ SanctuaryInit /\ (subject # "sanctuary" => saRules = {} /\ saMap = m1 /\ saStance = "open")
  /\ PushInit /\ (subject # "push" => ptOn /\ ptReplacement = g1)
  /\ AbilityInit /\ (subject # "ability" => aaTuning = (CHOOSE t \in AaTunings : TRUE) /\ aaAbility = (CHOOSE a \in AaAbilities : TRUE))
  /\ DrinkInit /\ (subject # "drink" => adHas = {})
  /\ PortalsInit /\ (subject # "portals" => poMap = town)
  /\ AnswersInit /\ (subject # "answers" => caNpc = ChatEvents[1].speaker)
  /\ CalloutsInit
  /\ RespectsInit
  /\ ChatBoxInit
  /\ MotionInit /\ (subject # "motion" => mtOn)
  /\ AimInit /\ amOn /\ (subject # "aim" => amField = CHOOSE f \in AmFields : TRUE)
  /\ DisguiseInit /\ (subject # "disguise" => sdOn)
  /\ StreamerInit /\ (subject # "streamer" => smOn)
  /\ WardrobeInit /\ (subject # "wardrobe" => wdMemory = (CHOOSE m \in WdStored : TRUE) /\ wdWorn = WdLook(WdPlain, WdUsual))
  /\ AntiLagInit /\ (subject # "antilag" => alOn)
  /\ SteeringInit /\ (subject # "steering" => ~dgArmed)

Others(moving) ==
  /\ UNCHANGED subject
  /\ IF moving = "nexus" THEN TRUE ELSE UNCHANGED nxVars
  /\ IF moving = "ground" THEN TRUE ELSE UNCHANGED hgVars
  /\ IF moving = "sanctuary" THEN TRUE ELSE UNCHANGED saVars
  /\ IF moving = "push" THEN TRUE ELSE UNCHANGED ptVars
  /\ IF moving = "ability" THEN TRUE ELSE UNCHANGED aaVars
  /\ IF moving = "drink" THEN TRUE ELSE UNCHANGED adVars
  /\ IF moving = "portals" THEN TRUE ELSE UNCHANGED poVars
  /\ IF moving = "answers" THEN TRUE ELSE UNCHANGED caVars
  /\ IF moving = "callouts" THEN TRUE ELSE UNCHANGED coVars
  /\ IF moving = "respects" THEN TRUE ELSE UNCHANGED prVars
  /\ IF moving = "chat" THEN TRUE ELSE UNCHANGED cbVars
  /\ IF moving = "motion" THEN TRUE ELSE UNCHANGED mtVars
  /\ IF moving \in {"aim", "walls"} THEN TRUE ELSE UNCHANGED amVars
  /\ IF moving = "disguise" THEN TRUE ELSE UNCHANGED sdVars
  /\ IF moving = "streamer" THEN TRUE ELSE UNCHANGED smVars
  /\ IF moving = "wardrobe" THEN TRUE ELSE UNCHANGED wdVars
  /\ IF moving = "antilag" THEN TRUE ELSE UNCHANGED alVars
  /\ IF moving = "steering" THEN TRUE ELSE UNCHANGED dgVars

Next ==
  \/ subject = "nexus" /\ NexusNext /\ Others("nexus")
  \/ subject = "ground" /\ HazardNext /\ Others("ground")
  \/ subject = "sanctuary" /\ SanctuaryNext /\ Others("sanctuary")
  \/ subject = "push" /\ PushNext /\ Others("push")
  \/ subject = "ability" /\ AbilityNext /\ Others("ability")
  \/ subject = "drink" /\ DrinkNext /\ Others("drink")
  \/ subject = "portals" /\ PortalsNext /\ Others("portals")
  \/ subject = "answers" /\ AnswersNext /\ Others("answers")
  \/ subject = "callouts" /\ CalloutsNext /\ Others("callouts")
  \/ subject = "respects" /\ RespectsNext /\ Others("respects")
  \/ subject = "chat" /\ ChatBoxNext /\ Others("chat")
  \/ subject = "motion" /\ MotionNext /\ Others("motion")
  \/ subject = "aim" /\ AimDecides /\ Others("aim")
  \/ subject = "walls" /\ AimClaims /\ Others("walls")
  \/ subject = "disguise" /\ DisguiseNext /\ Others("disguise")
  \/ subject = "streamer" /\ StreamerNext /\ Others("streamer")
  \/ subject = "wardrobe" /\ WardrobeNext /\ Others("wardrobe")
  \/ subject = "antilag" /\ AntiLagNext /\ Others("antilag")
  \/ subject = "steering" /\ SteeringNext /\ Others("steering")

vars == <<subject, nxVars, hgVars, saVars, ptVars, aaVars, adVars, poVars, caVars, coVars, prVars,
          cbVars, mtVars, amVars, sdVars, smVars, wdVars, alVars, dgVars>>

Spec == Init /\ [][Next]_vars

(***************************************************************************)
(* Properties, put together by what they are about.                        *)
(***************************************************************************)
\* The type invariants of the features.
PlayTypes ==
  /\ subject = "nexus" => NexusTypeOK
  /\ subject = "ground" => HazardTypeOK
  /\ subject = "ability" => AbilityTypeOK
  /\ subject = "answers" => AnswersTypeOK
  /\ subject = "callouts" => CalloutsTypeOK
  /\ subject = "chat" => ChatBoxTypeOK
  /\ subject \in {"aim", "walls"} => AimTypeOK
  /\ subject = "disguise" => DisguiseTypeOK
  /\ subject = "streamer" => StreamerTypeOK
  /\ subject = "wardrobe" => WardrobeTypeOK
  /\ subject = "antilag" => AntiLagTypeOK
  /\ subject = "steering" => SteeringTypeOK
  /\ subject = "motion" => MotionTypeOK

\* What the client or the server is not shown is what the switches say, no more and no
\* less: ground and hits, strangers, telegraphs and sizes, names and skins, lines of
\* chat (features that rewrite or withhold).
ShownAsSwitched ==
  /\ subject = "sanctuary" => OnlyPunishedWithheld
  /\ subject = "push" => NothingPushes /\ OtherGroundKept
  /\ subject = "antilag" => NeverAStranger /\ TelegraphsPass /\ SizesFollow
  /\ subject = "wardrobe" => WornAgain
  /\ subject = "streamer" => StandInShown
  /\ subject = "chat" => OwnAndGameHeard /\ SeenThrough /\ NotNamed

\* What a feature is about to do fits what it has seen: nothing is held that an escape
\* has not passed, a countdown runs with its window, only news is called out, the
\* shot meets the enemy first in its way, an enemy is led round a turn only when its
\* steps bear it out, and whoever walks the character knows it and walks it for a
\* place of this map (features that act, features/autoaim/MotionTracker.ts).
ActsOnWhatItSaw ==
  /\ subject = "nexus" => HeldBehindEscape
  /\ subject = "ground" => CountdownRuns
  /\ subject = "callouts" => OnceAndOnlyNews
  /\ subject = "aim" => FirstMeeting
  /\ subject = "walls" => WallsAsWanted
  /\ subject = "motion" => TurnsAreCorroborated
  /\ subject = "steering" => WalkIsOwned /\ NamedHere /\ RingIsNamed /\ PushIsTheDifference

\* What a step of a feature that acts may never do: report after the escape, escape
\* from safety or stay below the line, keep the server waiting for ground, cast in the
\* player's hands, drink, enter, call or answer twice within its pause, speak too
\* late, aim at less than the best, lead what does not walk or by a stale track, take the
\* wheel from another, show what was not wanted, report a hit it withheld.
ActsInTime ==
  /\ NothingAfterEscape /\ NeverFromSafety /\ LowIsLeft /\ AreaFloorHolds
  /\ ServerHears /\ AdmittedApart /\ HandsOff /\ BacksOff /\ Refreshed
  /\ DrinksApart /\ TributesApart /\ SaidInTime /\ AsksWhileAsked /\ BackLeadsOut /\ EntersApart
  /\ NotTwiceRunning /\ SaidWhenWanted /\ CalledApart /\ BestOfThose /\ OnlyWalkersAreLed /\ StaleForgotten /\ OneWriter /\ ReturnsNearby
  /\ ShownAsWanted /\ PunishedAreWithheld

==============================================================================
