------------------------------ MODULE AutoChat -------------------------------
(* What plugins say in chat by themselves: answers (features/autoresponse),   *)
(* callouts (features/autocallout) and tributes (features/payrespects).       *)
EXTENDS Integers, Sequences

------------------------------------------------------------------------------
(* Auto Response: what an NPC asks is recognised, its answer waits out a pause *)
(* and is said unless it stopped being wanted                                  *)
(* (features/autoresponse/autoResponsePlugin.ts, chatEvents.ts, npcLines.ts).  *)
(* A line is the set of catalogue phrases it holds once folded.                *)

CONSTANTS CaUnit,      \* milliseconds in a tick of the model's clock
          CaMet,       \* the events that are met, by number
          CaPauses,    \* what the setting and its spread can come to, in ticks
          CaLines,     \* what an NPC says: sets of phrases
          CaNever

Ms(n) == n \div CaUnit
RepeatQuiet == Ms(30000)
LateLimit == Ms(2000)
TripAllowance == Ms(1500)
ReadyWindow == Ms(60000)

Asks(lines, answer) == [lines |-> lines, answer |-> answer]
Event(speaker, prompts, settledBy, listens, window, anyone, default) ==
  [speaker |-> speaker, prompts |-> prompts, settledBy |-> settledBy, listensAfter |-> listens,
   window |-> window, anyone |-> anyone, default |-> default]

\* CHAT_EVENTS, in the order it is searched. Phrases are named by a word of theirs.
ChatEvents ==
  << Event("Thessal", <<Asks({"Alexander"}, "heLives")>>, {"thankYou", "LIES"}, Ms(0), Ms(4000), TRUE, TRUE),
     Event("Umi", <<Asks({"eat"}, "Mushroom"), Asks({"dancer"}, "Carosburg"), Asks({"folktales"}, "Prince")>>,
           {}, Ms(3000), Ms(20000), TRUE, TRUE),
     Event("Umi", <<Asks({"interesting"}, "yes")>>, {}, Ms(3000), Ms(20000), TRUE, FALSE),
     Event("Umi", <<Asks({"thrill"}, "yes")>>, {"prepared"}, Ms(0), Ms(20000), FALSE, FALSE),
     Event("Umi", <<Asks({"sayReady", "typeReady"}, "ready")>>, {}, Ms(0), ReadyWindow, TRUE, FALSE),
     Event("Skuld", <<Asks({"sayReady"}, "ready")>>, {"hear", "noTime", "spectacular", "supposed"},
           Ms(0), ReadyWindow, TRUE, TRUE),
     Event("Murcian", <<Asks({"sayReady", "typeReady"}, "ready")>>, {}, Ms(0), ReadyWindow, TRUE, TRUE),
     Event("Craig", <<Asks({"saySkip"}, "skip")>>, {"jeeze", "letMe", "goUp"}, Ms(0), Ms(10000), TRUE, TRUE),
     Event("Computer", <<Asks({"Password", "hint"}, "drTerrible")>>,
           {"Correct", "Intruders"}, Ms(0), Ms(20000), TRUE, TRUE),
     Event("Automated", <<Asks({"administrative"}, "PPEBTWXD")>>, {}, Ms(0), Ms(20000), TRUE, TRUE) >>

Events == DOMAIN ChatEvents
Prompts(e) == DOMAIN ChatEvents[e].prompts
Answer(e, p) == ChatEvents[e].prompts[p].answer

\* answerKey: the event and the answer, whichever way it was asked for.
AnswerKey(e, p) == <<e, Answer(e, p)>>

VARIABLES caOn,      \* whether the plugin is enabled
          caNpc,     \* the NPC in the room
          caSwitch,  \* the switch of each of its events
          caPending, \* ResponderState.pending; due and left count down
          caQuiet,   \* givenAtMs: ticks left of the time an answer is not repeated
          caSince,   \* ours: ticks since it was asked what is still open, or CaNever
          caMissed,  \* ours: lines went by unheard while an answer waited
          caSaid     \* ours: the answers this step sent

caVars == <<caOn, caNpc, caSwitch, caPending, caQuiet, caSince, caMissed, caSaid>>

NpcEvents == {e \in CaMet : ChatEvents[e].speaker = caNpc}
Replies == UNION {{<<e, Answer(e, p)>> : p \in Prompts(e)} : e \in NpcEvents}
NoneGiven == [k \in Replies |-> 0]
NoneOpen == [k \in Replies |-> CaNever]

AnswersInit ==
  /\ caNpc \in {ChatEvents[e].speaker : e \in CaMet \cap Events} /\ caOn = TRUE
  /\ caSwitch = [e \in NpcEvents |-> ChatEvents[e].default]
  /\ caPending = {} /\ caQuiet = NoneGiven /\ caSince = NoneOpen
  /\ caMissed = FALSE /\ caSaid = {}

PromptHeld(e, line) == {p \in Prompts(e) : ChatEvents[e].prompts[p].lines \cap line # {}}
SettledIn(e, line) == ChatEvents[e].settledBy \cap line # {}

\* No NPC settles one thing and speaks of an earlier one in the same line.
ASSUME AnswersAssumption ==
  /\ CaUnit \in Nat \ {0} /\ CaMet \subseteq Events /\ CaPauses \subseteq Nat /\ CaNever \notin Nat
  /\ \A line \in CaLines, e, f \in CaMet :
       e < f /\ ChatEvents[e].speaker = ChatEvents[f].speaker /\ SettledIn(f, line)
         => PromptHeld(e, line) = {} /\ ~SettledIn(e, line)

\* hearNpcLine: the first event of this speaker the line says anything to, and a
\* line that ends its question before the question.
HearNpcLine(line) ==
  LET told == {e \in NpcEvents : PromptHeld(e, line) # {} \/ SettledIn(e, line)}
      e == CHOOSE x \in told : \A y \in told : x <= y
  IN IF told = {} THEN [kind |-> "other"]
     ELSE IF SettledIn(e, line) THEN [kind |-> "settled", event |-> e]
     ELSE [kind |-> "prompt", event |-> e,
           prompt |-> CHOOSE p \in PromptHeld(e, line) : \A q \in PromptHeld(e, line) : p <= q]

Larger(a, b) == IF a > b THEN a ELSE b
Smaller(a, b) == IF a < b THEN a ELSE b

\* The pause, cut short where the NPC stops listening sooner.
DueIn(e, pause) ==
  LET event == ChatEvents[e]
  IN Smaller(event.listensAfter + pause, Larger(event.listensAfter, event.window - TripAllowance))

\* heardQuestion: not while its answer waits, nor soon after it was given.
HeardQuestion(e, p, pause) ==
  IF /\ caSwitch[e]
     /\ \A a \in caPending : a.key # AnswerKey(e, p)
     /\ AnswerKey(e, p) \notin DOMAIN caQuiet \/ caQuiet[AnswerKey(e, p)] = 0
  THEN caPending \cup {[event |-> e, key |-> AnswerKey(e, p), answer |-> Answer(e, p),
                        due |-> DueIn(e, pause), left |-> ChatEvents[e].window]}
  ELSE caPending

\* What the room knows of the line: a question opens, what settles it closes it.
OpenAfter(line) ==
  LET said == HearNpcLine(line)
  IN [k \in Replies |-> IF \E e \in NpcEvents : SettledIn(e, line) /\ e = k[1] THEN CaNever
                        ELSE IF said.kind = "prompt" /\ k = <<said.event, Answer(said.event, said.prompt)>>
                        THEN IF \E a \in caPending : a.key = k /\ caSince[k] # CaNever THEN caSince[k] ELSE 0
                        ELSE caSince[k]]

\* A question is over: none of its answers is said.
Settled(e) == {a \in caPending : a.event # e}

\* TEXT of an NPC.
NpcSays(line, pause) ==
  /\ caSince' = OpenAfter(line)
  /\ \E heard \in {HearNpcLine(line)} :
       caPending' = IF ~caOn \/ heard.kind = "other" THEN caPending
                    ELSE IF heard.kind = "settled" THEN Settled(heard.event)
                    ELSE HeardQuestion(heard.event, heard.prompt, pause)
  /\ caMissed' = (caPending' # {} /\ (caMissed \/ ~caOn))
  /\ caSaid' = {}
  /\ UNCHANGED <<caOn, caNpc, caSwitch, caQuiet>>

\* heardPlayer: an answer anybody can give is not given twice.
AnsweredBy(said) == {a \in caPending : ~ChatEvents[a.event].anyone \/ a.answer # said}

\* TEXT of a player, said aloud.
PlayerSays(said) ==
  /\ caSince' = [k \in Replies |-> IF ChatEvents[k[1]].anyone /\ k[2] = said THEN CaNever ELSE caSince[k]]
  /\ caPending' = IF caOn THEN AnsweredBy(said) ELSE caPending
  /\ caMissed' = (caPending' # {} /\ (caMissed \/ ~caOn))
  /\ caSaid' = {} /\ UNCHANGED <<caOn, caNpc, caSwitch, caQuiet>>

\* Not past its pause by more than a few ticks, nor past the NPC's listening.
Sayable(a) == a.due >= -LateLimit /\ a.left > 0

Waited(a) == [a EXCEPT !.due = Larger(@ - 1, -(LateLimit + 1)), !.left = Larger(@ - 1, 0)]

\* NEWTICK, a tick later: what is due is said or, too late, forgotten. A plugin
\* that is off hears no tick.
AnswerTick ==
  LET waiting == {Waited(a) : a \in caPending}
      due == {a \in waiting : a.due <= 0}
      said == IF caOn THEN {a.key : a \in {b \in due : Sayable(b)}} ELSE {}
      older == [k \in Replies |-> IF caSince[k] = CaNever \/ caSince[k] + 1 > ChatEvents[k[1]].window
                                  THEN CaNever ELSE caSince[k] + 1]
  IN /\ caSaid' = said
     /\ caPending' = IF caOn THEN waiting \ due ELSE waiting
     /\ caQuiet' = [k \in Replies |-> IF k \in said THEN RepeatQuiet ELSE Larger(caQuiet[k] - 1, 0)]
     /\ caSince' = [k \in Replies |-> IF k \in caSaid THEN CaNever ELSE older[k]]
     /\ caMissed' = (caPending' # {} /\ (caMissed \/ ~caOn))
     /\ UNCHANGED <<caOn, caNpc, caSwitch>>

\* MAPINFO, missed by a plugin that is off, and the end of the session.
NewRoom(left) ==
  /\ caSince' = NoneOpen /\ caSaid' = {}
  /\ IF caOn \/ left THEN caPending' = {} /\ caQuiet' = NoneGiven ELSE UNCHANGED <<caPending, caQuiet>>
  /\ caMissed' = (caPending' # {})
  /\ UNCHANGED <<caOn, caNpc, caSwitch>>

AnswerSwitch(e) == /\ caSwitch' = [caSwitch EXCEPT ![e] = ~@] /\ caSaid' = {}
                   /\ UNCHANGED <<caOn, caNpc, caPending, caQuiet, caSince, caMissed>>

AnswerToggle == /\ caOn' = ~caOn /\ caSaid' = {} /\ caMissed' = (caPending # {})
                /\ UNCHANGED <<caNpc, caSwitch, caPending, caQuiet, caSince>>

AnswersNext ==
  \/ \E line \in CaLines, pause \in CaPauses : NpcSays(line, pause)
  \/ \E said \in {k[2] : k \in Replies} : PlayerSays(said)
  \/ AnswerTick
  \/ \E left \in BOOLEAN : NewRoom(left)
  \/ \E e \in NpcEvents : AnswerSwitch(e)
  \/ AnswerToggle

(***************************************************************************)
(* Properties.                                                             *)
(***************************************************************************)

\* Types; one answer at a time is owed to one NPC, and none it was just given.
AnswersTypeOK ==
  /\ \A a, b \in caPending : a.key = b.key => a = b
  /\ \A a \in caPending : a.due \in -(LateLimit + 1)..a.left /\ a.left <= ChatEvents[a.event].window
  /\ caQuiet \in [Replies -> 0..RepeatQuiet]

\* The same thing is never said twice running to one NPC, whichever way it asks
\* and however often, in one room (autoResponsePlugin.ts:171-178).
NotTwiceRunning ==
  [][\A k \in caSaid' : k \in DOMAIN caQuiet /\ caQuiet[k] <= 1]_caVars

\* An answer is said while its question is open: asked, listened for, neither
\* settled by the NPC nor answered by anybody else, in the room it was asked in,
\* unless lines went by while the plugin was off (autoResponsePlugin.ts:15-21).
SaidWhenWanted ==
  [][~caMissed => \A k \in caSaid' :
       caSince[k] # CaNever /\ caSince[k] + 1 >= ChatEvents[k[1]].listensAfter]_caVars

------------------------------------------------------------------------------
(* Auto Callout: each dungeon portal that drops is announced once, spaced      *)
(* apart, and those standing when the map was entered not at all               *)
(* (features/autocallout/autoCalloutPlugin.ts, portals.ts).                    *)

CONSTANTS CoPortals, CoDistance, \* the portals of a map and how far each one stands
          CoReach, CoMaxPending, CoInterval, CoSettle,
          CoNever, CoMaxMaps     \* bound

\* A map settles no sooner than the next may be called (4000 and 1500 milliseconds),
\* and its portals are told apart.
ASSUME CalloutsAssumption ==
  /\ CoInterval \in Nat \ {0} /\ CoSettle \in Nat /\ CoSettle >= CoInterval
  /\ CoMaxPending \in Nat \ {0} /\ CoNever \notin Nat
  /\ CoPortals \in Seq({CoPortals[i] : i \in DOMAIN CoPortals})
  /\ \A i, j \in DOMAIN CoPortals : CoPortals[i] = CoPortals[j] => i = j

VARIABLES coOn,      \* whether the plugin is enabled
          coThere,   \* the portals standing in the map
          coSeen, coPending, \* CalloutState
          coSettles, \* ticks left of settleUntilMs, or CoNever before there is a state
          coSince,   \* ticks since lastSentMs, or CoNever
          coCalled,  \* ours: what was announced in this map, in order
          coOld,     \* ours: what stood there before anything could have dropped
          coUsed,    \* ours: the object ids this map has used
          coMissed,  \* ours: the plugin was off at some time since the map was entered
          coApart,   \* ours: ticks since the last announcement of all, or CoNever
          coMaps

coVars == <<coOn, coThere, coSeen, coPending, coSettles, coSince, coCalled, coOld, coUsed, coMissed,
            coApart, coMaps>>

\* newState, made on the first tick or MAPINFO.
NewState == /\ coSeen' = {} /\ coPending' = <<>> /\ coSettles' = CoSettle /\ coSince' = CoNever

CalloutsInit ==
  /\ coOn = TRUE /\ coThere = {} /\ coSeen = {} /\ coPending = <<>> /\ coSettles = CoNever
  /\ coSince = CoNever /\ coCalled = <<>> /\ coOld = {} /\ coUsed = {}
  /\ coMissed = FALSE /\ coApart = CoNever /\ coMaps = 0

\* announceablePortals: those within reach, and the order they are given in.
Announceable == {p \in coThere : CoDistance[p] <= CoReach}
NearestFirst(portals) ==
  LET nth[n \in 0..Len(CoPortals)] ==
        IF n = 0 THEN <<>> ELSE IF CoPortals[n] \in portals THEN Append(nth[n - 1], CoPortals[n]) ELSE nth[n - 1]
  IN nth[Len(CoPortals)]

Among(s) == {s[i] : i \in DOMAIN s}

Newest(s, most) == IF Len(s) > most THEN SubSeq(s, Len(s) - most + 1, Len(s)) ELSE s

\* What a tick makes of the portals: each is marked seen either way, and is news
\* only once the map has settled. The oldest gives way.
Heard(settling) ==
  [seen |-> coSeen \cup Announceable,
   pending |-> IF settling THEN coPending
               ELSE Newest(coPending \o NearestFirst(Announceable \ coSeen), CoMaxPending)]

CallDue(since) == since = CoNever \/ since >= CoInterval

Older(n) == IF n = CoNever \/ n = CoInterval THEN n ELSE n + 1
Less(n) == IF n = CoNever \/ n = 0 THEN n ELSE n - 1

\* NEWTICK, a tick later. Without a state there was nothing to settle before.
CalloutTick ==
  LET settles == IF coSettles = CoNever THEN CoSettle ELSE Less(coSettles)
      heard == Heard(settles > 0)
      since == Older(coSince)
      call == coOn /\ heard.pending # <<>> /\ CallDue(since)
  IN /\ IF coOn
        THEN /\ coSeen' = heard.seen /\ coSettles' = settles
             /\ coPending' = IF call THEN Tail(heard.pending) ELSE heard.pending
             /\ coCalled' = IF call THEN Append(coCalled, Head(heard.pending)) ELSE coCalled
        ELSE coSettles' = Less(coSettles) /\ UNCHANGED <<coSeen, coPending, coCalled>>
     /\ coSince' = IF call THEN 0 ELSE since
     /\ coApart' = IF call THEN 0 ELSE Older(coApart)
     /\ UNCHANGED <<coOn, coThere, coOld, coUsed, coMissed, coMaps>>

\* A portal opens, which is part of the map arriving until it has settled, or closes.
Opens(p) == /\ p \notin coUsed /\ coUsed' = coUsed \cup {p} /\ coThere' = coThere \cup {p}
            /\ coOld' = IF coSettles = CoNever \/ coSettles > 1 THEN coOld \cup {p} ELSE coOld
            /\ UNCHANGED <<coOn, coSeen, coPending, coSettles, coSince, coCalled, coMissed, coApart, coMaps>>
Closes(p) == /\ p \in coThere /\ coThere' = coThere \ {p}
             /\ UNCHANGED <<coOn, coSeen, coPending, coSettles, coSince, coCalled, coOld, coUsed,
                            coMissed, coApart, coMaps>>

\* Another map has arrived: nothing stands in it yet.
Arrived == /\ coThere' = {} /\ coOld' = {} /\ coUsed' = {} /\ coCalled' = <<>> /\ coMissed' = ~coOn
           /\ coMaps < CoMaxMaps /\ coMaps' = coMaps + 1 /\ UNCHANGED <<coOn, coApart>>

\* MAPINFO: everything remembered was of the map before.
CalloutMap ==
  /\ Arrived
  /\ IF coOn THEN NewState ELSE UNCHANGED <<coSeen, coPending, coSettles, coSince>>

\* onDisconnected, heard by a plugin that is off too.
CalloutGone ==
  /\ Arrived /\ coSeen' = {} /\ coPending' = <<>> /\ coSettles' = CoNever /\ coSince' = CoNever

CalloutToggle == /\ coOn' = ~coOn /\ coMissed' = TRUE
                 /\ UNCHANGED <<coThere, coSeen, coPending, coSettles, coSince, coCalled, coOld, coUsed,
                                coApart, coMaps>>

CalloutsNext ==
  \/ CalloutTick \/ CalloutMap \/ CalloutGone \/ CalloutToggle
  \/ \E p \in Among(CoPortals) : Opens(p) \/ Closes(p)

(***************************************************************************)
(* Properties.                                                             *)
(***************************************************************************)

\* Types, and what waits to be said is said once: it was seen, waits once, and
\* was not said before in this map.
CalloutsTypeOK ==
  /\ Len(coPending) <= CoMaxPending /\ Among(coPending) \subseteq coSeen
  /\ \A i, j \in DOMAIN coPending : coPending[i] = coPending[j] => i = j
  /\ coSettles \in 0..CoSettle \cup {CoNever} /\ coSince \in 0..CoInterval \cup {CoNever}

\* A portal is called out once in a map, and never one that was standing there
\* when the map was entered, however long it waits its turn behind others and
\* whenever the plugin is asked again (autoCalloutPlugin.ts:16-28).
OnceAndOnlyNews ==
  /\ \A i, j \in DOMAIN coCalled : coCalled[i] = coCalled[j] => i = j
  /\ ~coMissed => Among(coCalled) \cap coOld = {}

\* Two announcements of a character are apart by what the server's limit asks,
\* also across a map change, which forgets when the last one was
\* (constants.ts:15-23).
CalledApart ==
  [][Len(coCalled') > Len(coCalled) => coApart = CoNever \/ coApart + 1 >= CoInterval]_coVars

------------------------------------------------------------------------------
(* Chat once when another player dies (features/payrespects): a pause that looks *)
(* human, a late limit, and silence afterwards. One session; ages and rests.      *)

CONSTANTS PrMinPause, PrMaxPause, PrLate, PrCooldown, PrNever

ASSUME RespectsAssumption ==
  PrMinPause \in Nat /\ PrMaxPause >= PrMinPause /\ PrLate \in Nat /\ PrCooldown \in Nat

VARIABLES prOn,
          prPending,   \* [pause, age] of the death to answer, or PrNever
          prSince,     \* age of lastSaidMs, capped at the cooldown, which none is past
          prSaid       \* ours: age of the death this step spoke of, or PrNever

prVars == <<prOn, prPending, prSince, prSaid>>

RespectsInit ==
  /\ prOn = TRUE /\ prPending = PrNever /\ prSince = PrCooldown
  /\ prSaid = PrNever

\* NOTIFICATION of somebody else's death: one at a time, and none in the quiet
\* after a tribute.
DeathHeard(pause) ==
  /\ prOn /\ prPending = PrNever /\ prSince >= PrCooldown
  /\ prPending' = [pause |-> pause, age |-> 0]
  /\ prSaid' = PrNever /\ UNCHANGED <<prOn, prSince>>

\* NEWTICK: due ones are said, unless they have become late.
RespectsTick ==
  /\ prOn /\ prPending # PrNever /\ prPending.age >= prPending.pause
  /\ prPending' = PrNever
  /\ IF prPending.age - prPending.pause > PrLate
     THEN prSaid' = PrNever /\ UNCHANGED prSince
     ELSE prSince' = 0 /\ prSaid' = prPending.age - prPending.pause
  /\ UNCHANGED prOn

\* MAPINFO, if it is heard.
RespectsMap ==
  /\ prPending' = IF prOn THEN PrNever ELSE prPending
  /\ prSaid' = PrNever /\ UNCHANGED <<prOn, prSince>>

RespectsSwitch == prOn' = ~prOn /\ prSaid' = PrNever /\ UNCHANGED <<prPending, prSince>>

\* A new session remembers nothing.
RespectsDisconnected ==
  /\ prPending' = PrNever /\ prSince' = PrCooldown
  /\ prSaid' = PrNever /\ UNCHANGED prOn

RespectsTime ==
  /\ prPending' = IF prPending = PrNever \/ prPending.age > prPending.pause + PrLate
                  THEN prPending ELSE [prPending EXCEPT !.age = @ + 1]
  /\ prSince' = IF prSince = PrCooldown THEN prSince ELSE prSince + 1
  /\ prSaid' = PrNever /\ UNCHANGED prOn

RespectsNext == \/ \E pause \in PrMinPause..PrMaxPause: DeathHeard(pause)
                \/ RespectsTick \/ RespectsMap \/ RespectsSwitch \/ RespectsDisconnected
                \/ RespectsTime

\* However many die at once, and however the map and the switch change between,
\* a session says nothing within its cooldown of what it said last.
TributesApart == [][prSaid' # PrNever => prSince >= PrCooldown]_prVars

\* What is said is still about something people saw: not later than the limit
\* (payRespectsPlugin.ts:52-60), though the plugin be disabled meanwhile.
SaidInTime == [][prSaid' # PrNever => prSaid' <= PrLate]_prVars
==============================================================================
