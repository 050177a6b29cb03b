----------------------------- MODULE ErrandsProofs -----------------------------
(* Errands, proved for any figures and worlds and any number of steps: where    *)
(* the switch plays, what loot and jumps leave between them, what the arrow and   *)
(* the bar show. The trail's sight and the sort of a chest are left to the runs.  *)
EXTENDS MCErrands, FiniteSetTheorems, SequenceTheorems, WellFoundedInduction, TLAPS

------------------------------------------------------------------------------
(* Induction over the naturals, and sums over finite sets.                     *)

LEMMA LeastOne == ASSUME NEW T \in SUBSET Nat, T # {} PROVE \E n \in T : \A m \in T : n <= m
<1> DEFINE R == OpToRel(<, Nat)
<1>1. IsWellFoundedOn(R, Nat)
  BY NatLessThanWellFounded
<1>2. \A x, y \in Nat : <<y, x>> \in R <=> y < x
  BY DEF OpToRel
<1> HIDE DEF R
<1>3. PICK x \in T : \A y \in T : ~ (<<y, x>> \in R)
  BY <1>1, WFMin
<1>4. \A y \in T : x <= y
  <2> SUFFICES ASSUME NEW y \in T PROVE x <= y
    OBVIOUS
  <2>1. x \in Nat /\ y \in Nat
    OBVIOUS
  <2>2. ~(<<y, x>> \in R)
    BY <1>3
  <2>3. ~(y < x)
    BY <1>2, <2>1, <2>2
  <2> QED
    BY <2>1, <2>3
<1> QED
  BY <1>4

LEMMA Upwards == ASSUME NEW T \in SUBSET Nat, 0 \in T, \A n \in T : n + 1 \in T PROVE T = Nat
<1> SUFFICES ASSUME Nat \ T # {} PROVE FALSE
  OBVIOUS
<1> DEFINE Missing == Nat \ T
<1>1. PICK n \in Missing : \A m \in Missing : n <= m
  BY LeastOne
<1>2. n \in Nat /\ n # 0 /\ n - 1 \in Nat /\ n - 1 < n /\ (n - 1) + 1 = n
  OBVIOUS
<1>3. n - 1 \in T
  BY <1>1, <1>2
<1> QED
  BY <1>2, <1>3

------------------------------------------------------------------------------
(* A step of the whole is a step of each errand, or leaves it alone.           *)

LEMMA ErrandSteps ==
  ASSUME [Next]_vars
  PROVE  /\ [SwitchNext]_swVars /\ [TrailNext]_ftVars /\ [FollowingNext]_fwVars /\ [LootNext]_ltVars
         /\ [RulesNext]_lrVars /\ [ArrowNext]_qaVars /\ [VaultNext]_vsVars /\ [ClaimsNext]_clVars
<1>1. CASE UNCHANGED vars  BY <1>1 DEF vars
<1>2. CASE Next
  <2>1. CASE subject = "switch" /\ SwitchNext /\ Others("switch")  BY <2>1 DEF Others
  <2>2. CASE subject = "trail" /\ TrailNext /\ Others("trail")  BY <2>2 DEF Others
  <2>3. CASE subject = "following" /\ FollowingNext /\ Others("following")  BY <2>3 DEF Others
  <2>4. CASE subject = "loot" /\ LootNext /\ Others("loot")  BY <2>4 DEF Others
  <2>5. CASE subject = "rules" /\ RulesNext /\ Others("rules")  BY <2>5 DEF Others
  <2>6. CASE subject = "arrow" /\ ArrowNext /\ Others("arrow")  BY <2>6 DEF Others
  <2>7. CASE subject = "vault" /\ VaultNext /\ Others("vault")  BY <2>7 DEF Others
  <2>8. CASE subject = "claims" /\ ClaimsNext /\ Others("claims")  BY <2>8 DEF Others
  <2>. QED  BY <1>2, <2>1, <2>2, <2>3, <2>4, <2>5, <2>6, <2>7, <2>8 DEF Next
<1>. QED  BY <1>1, <1>2

\* The server switch (features/serverswitch): a character without a seat plays only where
\* it was chosen to, is bounced no more often than the attempts allow, and a seat is kept.
THEOREM SwitchedTruly == Spec => [](PlaysWhereChosen /\ BouncesBounded) /\ SeatNeverDropped
<1>1. Init => PlaysWhereChosen /\ BouncesCounted
  <2>1. ASSUME Init PROVE SwitchInit  BY <2>1 DEF Init
  <2>. QED  BY <2>1, SwitchAssumption DEF SwitchInit, PlaysWhereChosen, BouncesCounted
<1>2. PlaysWhereChosen /\ BouncesCounted /\ [Next]_vars => PlaysWhereChosen' /\ BouncesCounted'
  BY ErrandSteps, NextPlays, NextBouncesCounted
<1>3. BouncesCounted => BouncesBounded  BY SwitchAssumption DEF BouncesCounted, BouncesBounded
<1>4. [Next]_vars => [(swSeat /\ swPhase = "greeting" /\ swPhase' # "greeting") => swPhase' = "playing"
                        /\ swHost' = swHost]_swVars
  <2>1. [SwitchNext]_swVars => [(swSeat /\ swPhase = "greeting" /\ swPhase' # "greeting") => swPhase' = "playing"
                                  /\ swHost' = swHost]_swVars
    BY DEF SwitchNext, SwConnect, SwHello, SwArm, SwLanded, SwSeated, SwGiveUp, SwReturn, SwStays, SwCon, SwMoved, SwLinkLost
  <2>. QED  BY <2>1, ErrandSteps
<1>5. Spec => [](PlaysWhereChosen /\ BouncesBounded)  BY <1>1, <1>2, <1>3, PTL DEF Spec
<1>6. Spec => SeatNeverDropped  BY <1>4, PTL DEF Spec, SeatNeverDropped
<1>. QED  BY <1>5, <1>6
------------------------------------------------------------------------------
(* The arrow: what was announced is remembered for as long as it lies there.   *)

ArrowInv ==
  /\ qaArrow = [bag |-> qaArrow.bag, since |-> qaArrow.since]
  /\ qaSettings \in [quest : BOOLEAN, announce : BOOLEAN]
  /\ qaHeard \subseteq qaWorld \cap qaAnnounced
  /\ ArrowIsWhereSaid

LEMMA ArrowStarts == ArrowInit => ArrowInv
BY DEF ArrowInit, ArrowInv, ArrowIsWhereSaid

\* Pointing at a bag, or at none, says truly where the arrow is.
LEMMA Pointed ==
  ASSUME ArrowInv, NEW bag, Point(bag), ~qaSettings'.quest => bag = QaNobody, qaQuest' = qaQuest
  PROVE  qaArrow' = [bag |-> qaArrow'.bag, since |-> qaArrow'.since] /\ ArrowIsWhereSaid'
<1>1. CASE Named(bag)  BY <1>1 DEF Point, ArrowIsWhereSaid
<1>2. CASE ~Named(bag)
  <2>1. bag = qaArrow.bag /\ UNCHANGED <<qaArrow, qaClient, qaStale>>  BY <1>2 DEF Point, Named
  <2>. QED  BY <2>1 DEF ArrowInv, ArrowIsWhereSaid
<1>. QED  BY <1>1, <1>2

LEMMA ArrowStep == ASSUME ArrowInv, [ArrowNext]_qaVars PROVE ArrowInv' /\ [qaSaid' \cap qaHeard = {}]_qaVars
<1>. DEFINE Shape == qaArrow' = [bag |-> qaArrow'.bag, since |-> qaArrow'.since]
<1>1. CASE UNCHANGED qaVars  BY <1>1 DEF qaVars, ArrowInv, ArrowIsWhereSaid
<1>2. ASSUME NEW near \in SUBSET QaBags, ArrowTick(near) PROVE ArrowInv' /\ qaSaid' \cap qaHeard = {}
  <2>1. /\ qaWorld' = qaWorld /\ qaQuest' = qaQuest /\ qaSettings' = qaSettings /\ near \subseteq qaWorld
        /\ qaSaid' = (IF qaSettings.announce THEN near \ qaAnnounced ELSE {})
        /\ qaAnnounced' = (qaAnnounced \cup (IF qaSettings.announce THEN near ELSE {})) \cap qaWorld
        /\ qaHeard' = qaHeard \cup qaSaid' /\ Point(Picked)
    BY <1>2 DEF ArrowTick, Remembered
  <2>2. ~qaSettings'.quest => Picked = QaNobody  BY <2>1 DEF Picked
  <2>3. Shape /\ ArrowIsWhereSaid'  BY <2>1, <2>2, Pointed
  <2>4. qaHeard' \subseteq qaWorld' \cap qaAnnounced' /\ qaSaid' \cap qaHeard = {}  BY <2>1 DEF ArrowInv
  <2>. QED  BY <2>1, <2>3, <2>4 DEF ArrowInv
<1>3. ASSUME NEW quest \in QaQuests, QuestNamed(quest) PROVE ArrowInv' /\ qaSaid' \cap qaHeard = {}
  BY <1>3 DEF QuestNamed, HeldBack, ArrowInv, ArrowIsWhereSaid
<1>4. ASSUME NEW which \in {"quest", "announce"}, ArrowSetting(which) PROVE ArrowInv' /\ qaSaid' \cap qaHeard = {}
  <2>1. /\ qaSettings' = [qaSettings EXCEPT ![which] = ~@] /\ qaSaid' = {}
        /\ UNCHANGED <<qaWorld, qaQuest, qaAnnounced, qaWorks, qaHeard>>
        /\ IF which = "quest" THEN SettingChanged ELSE UNCHANGED <<qaArrow, qaClient, qaStale>>
    BY <1>4 DEF ArrowSetting
  <2>2. qaSettings' \in [quest : BOOLEAN, announce : BOOLEAN]  BY <2>1 DEF ArrowInv
  <2>3. Shape /\ ArrowIsWhereSaid'
    <3>1. CASE which # "quest"
      <4>1. qaSettings'.quest = qaSettings.quest  BY <2>1, <3>1 DEF ArrowInv
      <4>. QED  BY <2>1, <3>1, <4>1 DEF ArrowInv, ArrowIsWhereSaid
    <3>2. CASE which = "quest" /\ qaSettings'.quest
      BY <2>1, <3>2 DEF SettingChanged, ArrowInv, ArrowIsWhereSaid
    <3>3. CASE which = "quest" /\ ~qaSettings'.quest
      <4>1. Point(QaNobody) /\ qaQuest' = qaQuest  BY <2>1, <3>3 DEF SettingChanged
      <4>. QED  BY <4>1, Pointed
    <3>. QED  BY <3>1, <3>2, <3>3
  <2>. QED  BY <2>1, <2>2, <2>3 DEF ArrowInv
<1>5. ASSUME NEW bag \in QaBags, BagComesOrGoes(bag) PROVE ArrowInv' /\ qaSaid' \cap qaHeard = {}
  BY <1>5 DEF BagComesOrGoes, ArrowInv, ArrowIsWhereSaid
<1>6. CASE ArrowMap
  <2>1. CASE qaWorks
    <3>1. Point(QaNobody) /\ qaQuest' = qaQuest  BY <1>6, <2>1 DEF ArrowMap
    <3>2. Shape /\ ArrowIsWhereSaid'  BY <3>1, Pointed
    <3>. QED  BY <1>6, <3>2 DEF ArrowMap, ArrowInv
  <2>2. CASE ~qaWorks  BY <1>6, <2>2 DEF ArrowMap, ArrowInv, ArrowIsWhereSaid
  <2>. QED  BY <2>1, <2>2
<1>7. CASE ArrowStopped  BY <1>7 DEF ArrowStopped, ArrowInv, ArrowIsWhereSaid
<1>8. CASE ArrowClock  BY <1>8 DEF ArrowClock, ArrowInv, ArrowIsWhereSaid
<1>. QED  BY <1>1, <1>2, <1>3, <1>4, <1>5, <1>6, <1>7, <1>8 DEF ArrowNext

\* The quest arrow (features/autoloot/bagDisplay): it is where the plugin says it is, given
\* back when it is to show no bag, and a bag is announced once for as long as it lies there.
THEOREM ArrowGivenBack == Spec => []ArrowIsWhereSaid /\ AnnouncedOnce
<1>1. Init => ArrowInv  BY ArrowStarts DEF Init
<1>2. ArrowInv /\ [Next]_vars => ArrowInv'  BY ErrandSteps, ArrowStep
<1>3. ArrowInv /\ [Next]_vars => [qaSaid' \cap qaHeard = {}]_qaVars  BY ErrandSteps, ArrowStep
<1>4. ArrowInv => ArrowIsWhereSaid  BY DEF ArrowInv
<1>5. Spec => []ArrowInv  BY <1>1, <1>2, PTL DEF Spec
<1>6. Spec => AnnouncedOnce  BY <1>3, <1>5, PTL DEF Spec, AnnouncedOnce
<1>. QED  BY <1>4, <1>5, <1>6, PTL
------------------------------------------------------------------------------
(* Claims: what is kept, what is on the wire and what the module holds.        *)

\* The messages of a turn, some of which are there: number, claim, sign, tint. Any of
\* them, and any rest of one, is such a batch.
ClBatch(p, n, q, c, s, t, v) ==
  ClSaid(p, "number", n) \o ClSaid(q, "claim", c) \o ClSaid(s, "sign", TRUE) \o ClSaid(t, "tint", v)

\* A batch written out, in its sixteen cases.
ClSpelt(b, n, p, c, q, a, s, v, t) ==
  /\ p /\ q => (s /\ t => b = <<n, c, a, v>>) /\ (s /\ ~t => b = <<n, c, a>>)
               /\ (~s /\ t => b = <<n, c, v>>) /\ (~s /\ ~t => b = <<n, c>>)
  /\ p /\ ~q => (s /\ t => b = <<n, a, v>>) /\ (s /\ ~t => b = <<n, a>>)
                /\ (~s /\ t => b = <<n, v>>) /\ (~s /\ ~t => b = <<n>>)
  /\ ~p /\ q => (s /\ t => b = <<c, a, v>>) /\ (s /\ ~t => b = <<c, a>>)
                /\ (~s /\ t => b = <<c, v>>) /\ (~s /\ ~t => b = <<c>>)
  /\ ~p /\ ~q => (s /\ t => b = <<a, v>>) /\ (s /\ ~t => b = <<a>>)
                 /\ (~s /\ t => b = <<v>>) /\ (~s /\ ~t => b = <<>>)

LEMMA Joined ==
  ASSUME NEW a, NEW b, NEW c, NEW d
  PROVE  /\ <<a>> \o <<b>> = <<a, b>> /\ <<a, b>> \o <<c>> = <<a, b, c>> /\ <<a, b, c>> \o <<d>> = <<a, b, c, d>>
         /\ <<>> \o <<a>> = <<a>> /\ <<a>> \o <<>> = <<a>> /\ <<a, b>> \o <<>> = <<a, b>>
         /\ <<a, b, c>> \o <<>> = <<a, b, c>> /\ <<>> \o <<>> = <<>>
<1>. DEFINE All == {a, b, c, d}
<1>1. <<a>> \o <<b>> = <<a, b>>
  <2>1. Len(<<a>> \o <<b>>) = 2 /\ <<a>> \o <<b>> \in Seq(All)
        /\ \A i \in 1 .. 2 : (<<a>> \o <<b>>)[i] = IF i <= 1 THEN <<a>>[i] ELSE <<b>>[i - 1]
    BY ConcatProperties
  <2>2. \A i \in 1 .. 2 : (<<a>> \o <<b>>)[i] = <<a, b>>[i]  BY <2>1
  <2>3. <<a, b>> \in Seq(All) /\ Len(<<a, b>>) = 2  OBVIOUS
  <2>. QED  BY <2>1, <2>2, <2>3, SeqEqual
<1>2. <<a, b>> \o <<c>> = <<a, b, c>>
  <2>1. Len(<<a, b>> \o <<c>>) = 3 /\ <<a, b>> \o <<c>> \in Seq(All)
        /\ \A i \in 1 .. 3 : (<<a, b>> \o <<c>>)[i] = IF i <= 2 THEN <<a, b>>[i] ELSE <<c>>[i - 2]
    BY ConcatProperties
  <2>2. \A i \in 1 .. 3 : (<<a, b>> \o <<c>>)[i] = <<a, b, c>>[i]  BY <2>1
  <2>3. <<a, b, c>> \in Seq(All) /\ Len(<<a, b, c>>) = 3  OBVIOUS
  <2>. QED  BY <2>1, <2>2, <2>3, SeqEqual
<1>3. <<a, b, c>> \o <<d>> = <<a, b, c, d>>
  <2>1. Len(<<a, b, c>> \o <<d>>) = 4 /\ <<a, b, c>> \o <<d>> \in Seq(All)
        /\ \A i \in 1 .. 4 : (<<a, b, c>> \o <<d>>)[i] = IF i <= 3 THEN <<a, b, c>>[i] ELSE <<d>>[i - 3]
    BY ConcatProperties
  <2>2. \A i \in 1 .. 4 : (<<a, b, c>> \o <<d>>)[i] = <<a, b, c, d>>[i]  BY <2>1
  <2>3. <<a, b, c, d>> \in Seq(All) /\ Len(<<a, b, c, d>>) = 4  OBVIOUS
  <2>. QED  BY <2>1, <2>2, <2>3, SeqEqual
<1>4. <<>> \o <<a>> = <<a>>  OBVIOUS
<1>5. <<a>> \o <<>> = <<a>>  OBVIOUS
<1>6. <<a, b>> \o <<>> = <<a, b>>  OBVIOUS
<1>7. <<a, b, c>> \o <<>> = <<a, b, c>>  OBVIOUS
<1>8. <<>> \o <<>> = <<>>  OBVIOUS
<1>. QED  BY <1>1, <1>2, <1>3, <1>4, <1>5, <1>6, <1>7, <1>8

LEMMA BatchSpelt ==
  ASSUME NEW p \in BOOLEAN, NEW q \in BOOLEAN, NEW s \in BOOLEAN, NEW t \in BOOLEAN, NEW n, NEW c, NEW v
  PROVE  ClSpelt(ClBatch(p, n, q, c, s, t, v), <<"number", n>>, p, <<"claim", c>>, q, <<"sign", TRUE>>, s, <<"tint", v>>, t)
<1>. DEFINE number == <<"number", n>>
            claim == <<"claim", c>>
            sign == <<"sign", TRUE>>
            tint == <<"tint", v>>
            two == ClSaid(p, "number", n) \o ClSaid(q, "claim", c)
            three == two \o ClSaid(s, "sign", TRUE)
            four == three \o ClSaid(t, "tint", v)
<1>1. ClBatch(p, n, q, c, s, t, v) = four  BY DEF ClBatch
<1>2. /\ ClSaid(p, "number", n) = (IF p THEN <<number>> ELSE <<>>) /\ ClSaid(q, "claim", c) = (IF q THEN <<claim>> ELSE <<>>)
      /\ ClSaid(s, "sign", TRUE) = (IF s THEN <<sign>> ELSE <<>>) /\ ClSaid(t, "tint", v) = (IF t THEN <<tint>> ELSE <<>>)
  BY DEF ClSaid
<1>. HIDE DEF number, claim, sign, tint
<1>3. /\ (p /\ q => two = <<number, claim>>) /\ (p /\ ~q => two = <<number>>)
      /\ (~p /\ q => two = <<claim>>) /\ (~p /\ ~q => two = <<>>)
  BY <1>2, Joined
<1>4. /\ (p /\ q => (s => three = <<number, claim, sign>>) /\ (~s => three = <<number, claim>>))
      /\ (p /\ ~q => (s => three = <<number, sign>>) /\ (~s => three = <<number>>))
      /\ (~p /\ q => (s => three = <<claim, sign>>) /\ (~s => three = <<claim>>))
      /\ (~p /\ ~q => (s => three = <<sign>>) /\ (~s => three = <<>>))
  <2>. HIDE DEF two
  <2>. QED  BY <1>2, <1>3, Joined
<1>. HIDE DEF three
<1>5. ClSpelt(four, number, p, claim, q, sign, s, tint, t)
  <2>1. CASE p /\ q  BY <1>2, <1>4, <2>1, Joined DEF ClSpelt
  <2>2. CASE p /\ ~q  BY <1>2, <1>4, <2>2, Joined DEF ClSpelt
  <2>3. CASE ~p /\ q  BY <1>2, <1>4, <2>3, Joined DEF ClSpelt
  <2>4. CASE ~p /\ ~q  BY <1>2, <1>4, <2>4, Joined DEF ClSpelt
  <2>. QED  BY <2>1, <2>2, <2>3, <2>4
<1>. QED  BY <1>1, <1>5 DEF number, claim, sign, tint

\* Sequences of the same few elements are the same, and what their head and rest are.
LEMMA Few ==
  ASSUME NEW a, NEW b, NEW c, NEW d
  PROVE  /\ Head(<<a>>) = a /\ Head(<<a, b>>) = a /\ Head(<<a, b, c>>) = a /\ Head(<<a, b, c, d>>) = a
         /\ Tail(<<a>>) = <<>> /\ Tail(<<a, b>>) = <<b>> /\ Tail(<<a, b, c>>) = <<b, c>>
         /\ Tail(<<a, b, c, d>>) = <<b, c, d>>
         /\ <<a>> # <<>> /\ <<a, b>> # <<>> /\ <<a, b, c>> # <<>> /\ <<a, b, c, d>> # <<>>
<1>. DEFINE All == {a, b, c, d}
<1>1. Head(<<a>>) = a /\ Head(<<a, b>>) = a /\ Head(<<a, b, c>>) = a /\ Head(<<a, b, c, d>>) = a  OBVIOUS
<1>2. <<a>> # <<>> /\ <<a, b>> # <<>> /\ <<a, b, c>> # <<>> /\ <<a, b, c, d>> # <<>>  OBVIOUS
<1>3. Tail(<<a>>) = <<>>
  <2>1. <<a>> \in Seq(All) /\ Len(<<a>>) = 1 /\ <<>> \in Seq(All)  OBVIOUS
  <2>2. Tail(<<a>>) \in Seq(All) /\ Len(Tail(<<a>>)) = 0  BY <1>2, <2>1, HeadTailProperties
  <2>. QED  BY <2>1, <2>2, SeqEqual
<1>4. Tail(<<a, b>>) = <<b>>
  <2>1. <<a, b>> \in Seq(All) /\ Len(<<a, b>>) = 2 /\ <<b>> \in Seq(All) /\ Len(<<b>>) = 1  OBVIOUS
  <2>2. Tail(<<a, b>>) \in Seq(All) /\ Len(Tail(<<a, b>>)) = 1 /\ \A i \in 1 .. 1 : Tail(<<a, b>>)[i] = <<a, b>>[i + 1]
    BY <1>2, <2>1, HeadTailProperties
  <2>3. \A i \in 1 .. 1 : Tail(<<a, b>>)[i] = <<b>>[i]  BY <2>2
  <2>. QED  BY <2>1, <2>2, <2>3, SeqEqual
<1>5. Tail(<<a, b, c>>) = <<b, c>>
  <2>1. <<a, b, c>> \in Seq(All) /\ Len(<<a, b, c>>) = 3 /\ <<b, c>> \in Seq(All) /\ Len(<<b, c>>) = 2  OBVIOUS
  <2>2. /\ Tail(<<a, b, c>>) \in Seq(All) /\ Len(Tail(<<a, b, c>>)) = 2
        /\ \A i \in 1 .. 2 : Tail(<<a, b, c>>)[i] = <<a, b, c>>[i + 1]
    BY <1>2, <2>1, HeadTailProperties
  <2>3. \A i \in 1 .. 2 : Tail(<<a, b, c>>)[i] = <<b, c>>[i]  BY <2>2
  <2>. QED  BY <2>1, <2>2, <2>3, SeqEqual
<1>6. Tail(<<a, b, c, d>>) = <<b, c, d>>
  <2>1. <<a, b, c, d>> \in Seq(All) /\ Len(<<a, b, c, d>>) = 4 /\ <<b, c, d>> \in Seq(All) /\ Len(<<b, c, d>>) = 3
    OBVIOUS
  <2>2. /\ Tail(<<a, b, c, d>>) \in Seq(All) /\ Len(Tail(<<a, b, c, d>>)) = 3
        /\ \A i \in 1 .. 3 : Tail(<<a, b, c, d>>)[i] = <<a, b, c, d>>[i + 1]
    BY <1>2, <2>1, HeadTailProperties
  <2>3. \A i \in 1 .. 3 : Tail(<<a, b, c, d>>)[i] = <<b, c, d>>[i]  BY <2>2
  <2>. QED  BY <2>1, <2>2, <2>3, SeqEqual
<1>. QED  BY <1>1, <1>2, <1>3, <1>4, <1>5, <1>6

\* The first of a batch that is there is its head, the others its rest.
ClFirst(w, n, p, c, q, a, s, v, t, no) ==
  /\ w = <<>> <=> ~p /\ ~q /\ ~s /\ ~t
  /\ p => Head(w) = n /\ ClSpelt(Tail(w), n, no, c, q, a, s, v, t)
  /\ ~p /\ q => Head(w) = c /\ ClSpelt(Tail(w), n, no, c, no, a, s, v, t)
  /\ ~p /\ ~q /\ s => Head(w) = a /\ ClSpelt(Tail(w), n, no, c, no, a, no, v, t)
  /\ ~p /\ ~q /\ ~s /\ t => Head(w) = v /\ ClSpelt(Tail(w), n, no, c, no, a, no, v, no)
LEMMA SpeltRest ==
  ASSUME NEW w, NEW n, NEW c, NEW a, NEW v, NEW p \in BOOLEAN, NEW q \in BOOLEAN, NEW s \in BOOLEAN, NEW t \in BOOLEAN,
         NEW no \in BOOLEAN, ~no, ClSpelt(w, n, p, c, q, a, s, v, t)
  PROVE  ClFirst(w, n, p, c, q, a, s, v, t, no)
<1>1. CASE p /\ q
  <2>1. /\ Head(<<n, c, a, v>>) = n /\ Tail(<<n, c, a, v>>) = <<c, a, v>> /\ <<n, c, a, v>> # <<>>
        /\ Head(<<n, c, a>>) = n /\ Tail(<<n, c, a>>) = <<c, a>> /\ <<n, c, a>> # <<>>
        /\ Head(<<n, c, v>>) = n /\ Tail(<<n, c, v>>) = <<c, v>> /\ <<n, c, v>> # <<>>
        /\ Head(<<n, c>>) = n /\ Tail(<<n, c>>) = <<c>> /\ <<n, c>> # <<>>
    BY Few
  <2>. QED  BY <1>1, <2>1 DEF ClSpelt, ClFirst
<1>2. CASE p /\ ~q
  <2>1. /\ Head(<<n, a, v>>) = n /\ Tail(<<n, a, v>>) = <<a, v>> /\ <<n, a, v>> # <<>>
        /\ Head(<<n, a>>) = n /\ Tail(<<n, a>>) = <<a>> /\ <<n, a>> # <<>>
        /\ Head(<<n, v>>) = n /\ Tail(<<n, v>>) = <<v>> /\ <<n, v>> # <<>>
        /\ Head(<<n>>) = n /\ Tail(<<n>>) = <<>> /\ <<n>> # <<>>
    BY Few
  <2>. QED  BY <1>2, <2>1 DEF ClSpelt, ClFirst
<1>3. CASE ~p /\ q
  <2>1. /\ Head(<<c, a, v>>) = c /\ Tail(<<c, a, v>>) = <<a, v>> /\ <<c, a, v>> # <<>>
        /\ Head(<<c, a>>) = c /\ Tail(<<c, a>>) = <<a>> /\ <<c, a>> # <<>>
        /\ Head(<<c, v>>) = c /\ Tail(<<c, v>>) = <<v>> /\ <<c, v>> # <<>>
        /\ Head(<<c>>) = c /\ Tail(<<c>>) = <<>> /\ <<c>> # <<>>
    BY Few
  <2>. QED  BY <1>3, <2>1 DEF ClSpelt, ClFirst
<1>4. CASE ~p /\ ~q
  <2>1. /\ Head(<<a, v>>) = a /\ Tail(<<a, v>>) = <<v>> /\ <<a, v>> # <<>>
        /\ Head(<<a>>) = a /\ Tail(<<a>>) = <<>> /\ <<a>> # <<>>
        /\ Head(<<v>>) = v /\ Tail(<<v>>) = <<>> /\ <<v>> # <<>>
    BY Few
  <2>. QED  BY <1>4, <2>1 DEF ClSpelt, ClFirst
<1>. QED  BY <1>1, <1>2, <1>3, <1>4

\* A batch is marked message by message.
ClMark(m, k) == <<m[1], m[2], k>>

LEMMA MarkedEach == ASSUME NEW m, NEW k PROVE ClMarked(m, k) = [i \in DOMAIN m |-> ClMark(m[i], k)]
BY DEF ClMarked, ClMark

LEMMA MarkedNone == ASSUME NEW k PROVE ClMarked(<<>>, k) = <<>>
<1>1. ClMarked(<<>>, k) = [i \in 1 .. 0 |-> ClMark(<<>>[i], k)]  BY MarkedEach
<1>. QED  BY <1>1

LEMMA MarkedOne == ASSUME NEW a, NEW k, NEW A, A = ClMark(a, k) PROVE ClMarked(<<a>>, k) = <<A>>
<1>1. ClMarked(<<a>>, k) = [i \in 1 .. 1 |-> ClMark(<<a>>[i], k)]  BY MarkedEach
<1>2. \A i \in 1 .. 1 : <<a>>[i] = a  OBVIOUS
<1>3. ClMarked(<<a>>, k) = [i \in 1 .. 1 |-> A]  BY <1>1, <1>2
<1>. QED  BY <1>3

LEMMA MarkedTwo ==
  ASSUME NEW a, NEW b, NEW k, NEW A, NEW B, A = ClMark(a, k), B = ClMark(b, k)
  PROVE  ClMarked(<<a, b>>, k) = <<A, B>>
<1>1. ClMarked(<<a, b>>, k) = [i \in 1 .. 2 |-> ClMark(<<a, b>>[i], k)]  BY MarkedEach
<1>2. \A i \in 1 .. 2 : ClMark(<<a, b>>[i], k) = <<A, B>>[i]  OBVIOUS
<1>3. ClMarked(<<a, b>>, k) = [i \in 1 .. 2 |-> <<A, B>>[i]]  BY <1>1, <1>2
<1>. QED  BY <1>3

LEMMA MarkedThree ==
  ASSUME NEW a, NEW b, NEW c, NEW k, NEW A, NEW B, NEW C, A = ClMark(a, k), B = ClMark(b, k), C = ClMark(c, k)
  PROVE  ClMarked(<<a, b, c>>, k) = <<A, B, C>>
<1>1. ClMarked(<<a, b, c>>, k) = [i \in 1 .. 3 |-> ClMark(<<a, b, c>>[i], k)]  BY MarkedEach
<1>2. \A i \in 1 .. 3 : ClMark(<<a, b, c>>[i], k) = <<A, B, C>>[i]  OBVIOUS
<1>3. ClMarked(<<a, b, c>>, k) = [i \in 1 .. 3 |-> <<A, B, C>>[i]]  BY <1>1, <1>2
<1>. QED  BY <1>3

LEMMA MarkedFour ==
  ASSUME NEW a, NEW b, NEW c, NEW d, NEW k, NEW A, NEW B, NEW C, NEW D,
         A = ClMark(a, k), B = ClMark(b, k), C = ClMark(c, k), D = ClMark(d, k)
  PROVE  ClMarked(<<a, b, c, d>>, k) = <<A, B, C, D>>
<1>1. ClMarked(<<a, b, c, d>>, k) = [i \in 1 .. 4 |-> ClMark(<<a, b, c, d>>[i], k)]  BY MarkedEach
<1>2. \A i \in 1 .. 4 : ClMark(<<a, b, c, d>>[i], k) = <<A, B, C, D>>[i]  OBVIOUS
<1>3. ClMarked(<<a, b, c, d>>, k) = [i \in 1 .. 4 |-> <<A, B, C, D>>[i]]  BY <1>1, <1>2
<1>. QED  BY <1>3

LEMMA MarkedSpelt ==
  ASSUME NEW w, NEW n, NEW c, NEW a, NEW v, NEW p \in BOOLEAN, NEW q \in BOOLEAN, NEW s \in BOOLEAN, NEW t \in BOOLEAN,
         NEW k, ClSpelt(w, n, p, c, q, a, s, v, t)
  PROVE  ClSpelt(ClMarked(w, k), ClMark(n, k), p, ClMark(c, k), q, ClMark(a, k), s, ClMark(v, k), t)
<1>1. PICK N, C, A, V : N = ClMark(n, k) /\ C = ClMark(c, k) /\ A = ClMark(a, k) /\ V = ClMark(v, k)  OBVIOUS
<1>2. /\ ClMarked(<<n, c, a, v>>, k) = <<N, C, A, V>>
      /\ ClMarked(<<n, c, a>>, k) = <<N, C, A>> /\ ClMarked(<<n, c, v>>, k) = <<N, C, V>>
      /\ ClMarked(<<n, a, v>>, k) = <<N, A, V>> /\ ClMarked(<<c, a, v>>, k) = <<C, A, V>>
      /\ ClMarked(<<n, c>>, k) = <<N, C>> /\ ClMarked(<<n, a>>, k) = <<N, A>> /\ ClMarked(<<n, v>>, k) = <<N, V>>
      /\ ClMarked(<<c, a>>, k) = <<C, A>> /\ ClMarked(<<c, v>>, k) = <<C, V>> /\ ClMarked(<<a, v>>, k) = <<A, V>>
      /\ ClMarked(<<n>>, k) = <<N>> /\ ClMarked(<<c>>, k) = <<C>> /\ ClMarked(<<a>>, k) = <<A>>
      /\ ClMarked(<<v>>, k) = <<V>> /\ ClMarked(<<>>, k) = <<>>
  BY <1>1, MarkedNone, MarkedOne, MarkedTwo, MarkedThree, MarkedFour
<1>3. ClSpelt(ClMarked(w, k), N, p, C, q, A, s, V, t)
  <2>1. CASE p /\ q  BY <1>2, <2>1 DEF ClSpelt
  <2>2. CASE p /\ ~q  BY <1>2, <2>2 DEF ClSpelt
  <2>3. CASE ~p /\ q  BY <1>2, <2>3 DEF ClSpelt
  <2>4. CASE ~p /\ ~q  BY <1>2, <2>4 DEF ClSpelt
  <2>. QED  BY <2>1, <2>2, <2>3, <2>4
<1>. QED  BY <1>1, <1>3
\* One more at the end of a few.
LEMMA AppendedOne == ASSUME NEW a, NEW m PROVE Append(<<a>>, m) = <<a, m>>
<1>. DEFINE All == {a, m}
<1>1. <<a>> \in Seq(All) /\ m \in All /\ Len(<<a>>) = 1 /\ <<a, m>> \in Seq(All) /\ Len(<<a, m>>) = 2  OBVIOUS
<1>2. /\ Append(<<a>>, m) \in Seq(All) /\ Len(Append(<<a>>, m)) = 2
      /\ \A i \in 1 .. 1 : Append(<<a>>, m)[i] = <<a>>[i]
      /\ Append(<<a>>, m)[2] = m
  BY <1>1, AppendProperties
<1>3. \A i \in 1 .. 2 : Append(<<a>>, m)[i] = <<a, m>>[i]  BY <1>2
<1>. QED  BY <1>1, <1>2, <1>3, SeqEqual

LEMMA AppendedTwo == ASSUME NEW a, NEW b, NEW m PROVE Append(<<a, b>>, m) = <<a, b, m>>
<1>. DEFINE All == {a, b, m}
<1>1. <<a, b>> \in Seq(All) /\ m \in All /\ Len(<<a, b>>) = 2 /\ <<a, b, m>> \in Seq(All) /\ Len(<<a, b, m>>) = 3
  OBVIOUS
<1>2. /\ Append(<<a, b>>, m) \in Seq(All) /\ Len(Append(<<a, b>>, m)) = 3
      /\ \A i \in 1 .. 2 : Append(<<a, b>>, m)[i] = <<a, b>>[i]
      /\ Append(<<a, b>>, m)[3] = m
  BY <1>1, AppendProperties
<1>3. \A i \in 1 .. 3 : Append(<<a, b>>, m)[i] = <<a, b, m>>[i]  BY <1>2
<1>. QED  BY <1>1, <1>2, <1>3, SeqEqual

LEMMA AppendedThree == ASSUME NEW a, NEW b, NEW c, NEW m PROVE Append(<<a, b, c>>, m) = <<a, b, c, m>>
<1>. DEFINE All == {a, b, c, m}
<1>1. /\ <<a, b, c>> \in Seq(All) /\ m \in All /\ Len(<<a, b, c>>) = 3
      /\ <<a, b, c, m>> \in Seq(All) /\ Len(<<a, b, c, m>>) = 4
  OBVIOUS
<1>2. /\ Append(<<a, b, c>>, m) \in Seq(All) /\ Len(Append(<<a, b, c>>, m)) = 4
      /\ \A i \in 1 .. 3 : Append(<<a, b, c>>, m)[i] = <<a, b, c>>[i]
      /\ Append(<<a, b, c>>, m)[4] = m
  BY <1>1, AppendProperties
<1>3. \A i \in 1 .. 4 : Append(<<a, b, c>>, m)[i] = <<a, b, c, m>>[i]  BY <1>2
<1>. QED  BY <1>1, <1>2, <1>3, SeqEqual

\* What is kept of a few features when one is set.
LEMMA KeptNone == ASSUME NEW k, NEW x PROVE ClKept(<<>>, k, x) = <<<<k, x>>>>
<1>1. DOMAIN <<>> = {} /\ Append(<<>>, <<k, x>>) = <<<<k, x>>>>  OBVIOUS
<1>. QED  BY <1>1 DEF ClKept

LEMMA KeptOne ==
  ASSUME NEW a, NEW k, NEW x, NEW m, m = <<k, x>>,
         NEW A, A = IF a[1] = k THEN m ELSE a
  PROVE  /\ (a[1] = k) => ClKept(<<a>>, k, x) = <<A>>
         /\ a[1] # k => ClKept(<<a>>, k, x) = <<a, m>>
<1>1. DOMAIN <<a>> = 1 .. 1  OBVIOUS
<1>2. \A i \in 1 .. 1 : i = 1  OBVIOUS
<1>3. <<a>>[1] = a  OBVIOUS
<1>4. ASSUME a[1] = k PROVE ClKept(<<a>>, k, x) = <<A>>
  <2>1. \E i \in 1 .. 1 : <<a>>[i][1] = k
    <3>1. 1 \in 1 .. 1  OBVIOUS
    <3>. QED  BY <1>3, <1>4, <3>1
  <2>2. ClKept(<<a>>, k, x) = [i \in 1 .. 1 |-> IF <<a>>[i][1] = k THEN m ELSE <<a>>[i]]
    BY <1>1, <2>1 DEF ClKept
  <2>3. \A i \in 1 .. 1 : (IF <<a>>[i][1] = k THEN m ELSE <<a>>[i]) = <<A>>[i]  BY <1>2, <1>3
  <2>4. ClKept(<<a>>, k, x) = [i \in 1 .. 1 |-> <<A>>[i]]  BY <2>2, <2>3
  <2>. QED  BY <2>4
<1>5. ASSUME a[1] # k PROVE ClKept(<<a>>, k, x) = <<a, m>>
  <2>1. ~ \E i \in 1 .. 1 : <<a>>[i][1] = k  BY <1>2, <1>3, <1>5
  <2>2. ClKept(<<a>>, k, x) = Append(<<a>>, m)  BY <1>1, <2>1 DEF ClKept
  <2>3. Append(<<a>>, m) = <<a, m>>  BY AppendedOne
  <2>. QED  BY <2>2, <2>3
<1>. QED  BY <1>4, <1>5

LEMMA KeptTwo ==
  ASSUME NEW a, NEW b, NEW k, NEW x, NEW m, m = <<k, x>>,
         NEW A, A = IF a[1] = k THEN m ELSE a,
         NEW B, B = IF b[1] = k THEN m ELSE b
  PROVE  /\ (a[1] = k \/ b[1] = k) => ClKept(<<a, b>>, k, x) = <<A, B>>
         /\ a[1] # k /\ b[1] # k => ClKept(<<a, b>>, k, x) = <<a, b, m>>
<1>1. DOMAIN <<a, b>> = 1 .. 2  OBVIOUS
<1>2. \A i \in 1 .. 2 : i = 1 \/ i = 2  OBVIOUS
<1>3. <<a, b>>[1] = a /\ <<a, b>>[2] = b  OBVIOUS
<1>4. ASSUME a[1] = k \/ b[1] = k PROVE ClKept(<<a, b>>, k, x) = <<A, B>>
  <2>1. \E i \in 1 .. 2 : <<a, b>>[i][1] = k
    <3>1. 1 \in 1 .. 2 /\ 2 \in 1 .. 2  OBVIOUS
    <3>. QED  BY <1>3, <1>4, <3>1
  <2>2. ClKept(<<a, b>>, k, x) = [i \in 1 .. 2 |-> IF <<a, b>>[i][1] = k THEN m ELSE <<a, b>>[i]]
    BY <1>1, <2>1 DEF ClKept
  <2>3. \A i \in 1 .. 2 : (IF <<a, b>>[i][1] = k THEN m ELSE <<a, b>>[i]) = <<A, B>>[i]  BY <1>2, <1>3
  <2>4. ClKept(<<a, b>>, k, x) = [i \in 1 .. 2 |-> <<A, B>>[i]]  BY <2>2, <2>3
  <2>. QED  BY <2>4
<1>5. ASSUME a[1] # k /\ b[1] # k PROVE ClKept(<<a, b>>, k, x) = <<a, b, m>>
  <2>1. ~ \E i \in 1 .. 2 : <<a, b>>[i][1] = k  BY <1>2, <1>3, <1>5
  <2>2. ClKept(<<a, b>>, k, x) = Append(<<a, b>>, m)  BY <1>1, <2>1 DEF ClKept
  <2>3. Append(<<a, b>>, m) = <<a, b, m>>  BY AppendedTwo
  <2>. QED  BY <2>2, <2>3
<1>. QED  BY <1>4, <1>5

LEMMA KeptThree ==
  ASSUME NEW a, NEW b, NEW c, NEW k, NEW x, NEW m, m = <<k, x>>,
         NEW A, A = IF a[1] = k THEN m ELSE a,
         NEW B, B = IF b[1] = k THEN m ELSE b,
         NEW C, C = IF c[1] = k THEN m ELSE c
  PROVE  /\ (a[1] = k \/ b[1] = k \/ c[1] = k) => ClKept(<<a, b, c>>, k, x) = <<A, B, C>>
         /\ a[1] # k /\ b[1] # k /\ c[1] # k => ClKept(<<a, b, c>>, k, x) = <<a, b, c, m>>
<1>1. DOMAIN <<a, b, c>> = 1 .. 3  OBVIOUS
<1>2. \A i \in 1 .. 3 : i = 1 \/ i = 2 \/ i = 3  OBVIOUS
<1>3. <<a, b, c>>[1] = a /\ <<a, b, c>>[2] = b /\ <<a, b, c>>[3] = c  OBVIOUS
<1>4. ASSUME a[1] = k \/ b[1] = k \/ c[1] = k PROVE ClKept(<<a, b, c>>, k, x) = <<A, B, C>>
  <2>1. \E i \in 1 .. 3 : <<a, b, c>>[i][1] = k
    <3>1. 1 \in 1 .. 3 /\ 2 \in 1 .. 3 /\ 3 \in 1 .. 3  OBVIOUS
    <3>. QED  BY <1>3, <1>4, <3>1
  <2>2. ClKept(<<a, b, c>>, k, x) = [i \in 1 .. 3 |-> IF <<a, b, c>>[i][1] = k THEN m ELSE <<a, b, c>>[i]]
    BY <1>1, <2>1 DEF ClKept
  <2>3. \A i \in 1 .. 3 : (IF <<a, b, c>>[i][1] = k THEN m ELSE <<a, b, c>>[i]) = <<A, B, C>>[i]  BY <1>2, <1>3
  <2>4. ClKept(<<a, b, c>>, k, x) = [i \in 1 .. 3 |-> <<A, B, C>>[i]]  BY <2>2, <2>3
  <2>. QED  BY <2>4
<1>5. ASSUME a[1] # k /\ b[1] # k /\ c[1] # k PROVE ClKept(<<a, b, c>>, k, x) = <<a, b, c, m>>
  <2>1. ~ \E i \in 1 .. 3 : <<a, b, c>>[i][1] = k  BY <1>2, <1>3, <1>5
  <2>2. ClKept(<<a, b, c>>, k, x) = Append(<<a, b, c>>, m)  BY <1>1, <2>1 DEF ClKept
  <2>3. Append(<<a, b, c>>, m) = <<a, b, c, m>>  BY AppendedThree
  <2>. QED  BY <2>2, <2>3
<1>. QED  BY <1>4, <1>5

LEMMA KeptFour ==
  ASSUME NEW a, NEW b, NEW c, NEW d, NEW k, NEW x, NEW m, m = <<k, x>>,
         NEW A, A = IF a[1] = k THEN m ELSE a,
         NEW B, B = IF b[1] = k THEN m ELSE b,
         NEW C, C = IF c[1] = k THEN m ELSE c,
         NEW D, D = IF d[1] = k THEN m ELSE d
  PROVE  /\ (a[1] = k \/ b[1] = k \/ c[1] = k \/ d[1] = k) => ClKept(<<a, b, c, d>>, k, x) = <<A, B, C, D>>
<1>1. DOMAIN <<a, b, c, d>> = 1 .. 4  OBVIOUS
<1>2. \A i \in 1 .. 4 : i = 1 \/ i = 2 \/ i = 3 \/ i = 4  OBVIOUS
<1>3. <<a, b, c, d>>[1] = a /\ <<a, b, c, d>>[2] = b /\ <<a, b, c, d>>[3] = c /\ <<a, b, c, d>>[4] = d  OBVIOUS
<1>4. ASSUME a[1] = k \/ b[1] = k \/ c[1] = k \/ d[1] = k PROVE ClKept(<<a, b, c, d>>, k, x) = <<A, B, C, D>>
  <2>1. \E i \in 1 .. 4 : <<a, b, c, d>>[i][1] = k
    <3>1. 1 \in 1 .. 4 /\ 2 \in 1 .. 4 /\ 3 \in 1 .. 4 /\ 4 \in 1 .. 4  OBVIOUS
    <3>. QED  BY <1>3, <1>4, <3>1
  <2>2. ClKept(<<a, b, c, d>>, k, x) = [i \in 1 .. 4 |-> IF <<a, b, c, d>>[i][1] = k THEN m ELSE <<a, b, c, d>>[i]]
    BY <1>1, <2>1 DEF ClKept
  <2>3. \A i \in 1 .. 4 : (IF <<a, b, c, d>>[i][1] = k THEN m ELSE <<a, b, c, d>>[i]) = <<A, B, C, D>>[i]  BY <1>2, <1>3
  <2>4. ClKept(<<a, b, c, d>>, k, x) = [i \in 1 .. 4 |-> <<A, B, C, D>>[i]]  BY <2>2, <2>3
  <2>. QED  BY <2>4
<1>. QED  BY <1>4

\* The features after a turn of one to four messages.
KeptRun(f, w, g) == g = [i \in 0..Len(w) |-> IF i = 0 THEN f ELSE ClKept(g[i - 1], w[i][1], w[i][2])]

LEMMA TurnOne ==
  ASSUME NEW f, NEW a,
         NEW A, A = ClKept(f, a[1], a[2])
  PROVE  ClKeptAll(f, <<a>>) = A
<1>. DEFINE h == [i \in 0 .. 1 |-> IF i = 0 THEN f ELSE A]
            body(g, i) == IF i = 0 THEN f ELSE ClKept(g[i - 1], <<a>>[i][1], <<a>>[i][2])
<1>1. ClKeptAll(f, <<a>>) = (CHOOSE g : KeptRun(f, <<a>>, g))[Len(<<a>>)]  BY DEF ClKeptAll, KeptRun
<1>2. Len(<<a>>) = 1 /\ <<a>>[1] = a  OBVIOUS
<1>3. \A g : KeptRun(f, <<a>>, g) <=> g = [i \in 0 .. 1 |-> body(g, i)]  BY <1>2 DEF KeptRun
<1>4. KeptRun(f, <<a>>, h)
  <2>1. \A i \in 0 .. 1 : i = 0 \/ i = 1  OBVIOUS
  <2>2. h[0] = f /\ h[1] = A  OBVIOUS
  <2>3. h = [i \in 0 .. 1 |-> h[i]]  OBVIOUS
  <2>. HIDE DEF h
  <2>4. body(h, 0) = f /\ body(h, 1) = A  BY <1>2, <2>2
  <2>5. \A i \in 0 .. 1 : h[i] = body(h, i)
    <3>. HIDE DEF body
    <3>. QED  BY <2>1, <2>2, <2>4
  <2>6. h = [i \in 0 .. 1 |-> body(h, i)]  BY <2>3, <2>5
  <2>. QED  BY <1>3, <2>6
<1>. DEFINE g == CHOOSE e : KeptRun(f, <<a>>, e)
<1>5. g = [i \in 0 .. 1 |-> body(g, i)]  BY <1>3, <1>4
<1>. HIDE DEF g
<1>6. \A i \in 0 .. 1 : g[i] = body(g, i)  BY <1>5
<1>7. 0 \in 0 .. 1 /\ 1 \in 0 .. 1  OBVIOUS
<1>8. g[0] = body(g, 0) /\ g[1] = body(g, 1)
  <2>. HIDE DEF body
  <2>. QED  BY <1>6, <1>7
<1>9. g[0] = f /\ g[1] = ClKept(g[0], a[1], a[2])  BY <1>2, <1>8
<1>. QED  BY <1>1, <1>2, <1>9 DEF g

LEMMA TurnTwo ==
  ASSUME NEW f, NEW a, NEW b,
         NEW A, A = ClKept(f, a[1], a[2]),
         NEW B, B = ClKept(A, b[1], b[2])
  PROVE  ClKeptAll(f, <<a, b>>) = B
<1>. DEFINE h == [i \in 0 .. 2 |-> IF i = 0 THEN f ELSE IF i = 1 THEN A ELSE B]
            body(g, i) == IF i = 0 THEN f ELSE ClKept(g[i - 1], <<a, b>>[i][1], <<a, b>>[i][2])
<1>1. ClKeptAll(f, <<a, b>>) = (CHOOSE g : KeptRun(f, <<a, b>>, g))[Len(<<a, b>>)]  BY DEF ClKeptAll, KeptRun
<1>2. Len(<<a, b>>) = 2 /\ <<a, b>>[1] = a /\ <<a, b>>[2] = b  OBVIOUS
<1>3. \A g : KeptRun(f, <<a, b>>, g) <=> g = [i \in 0 .. 2 |-> body(g, i)]  BY <1>2 DEF KeptRun
<1>4. KeptRun(f, <<a, b>>, h)
  <2>1. \A i \in 0 .. 2 : i = 0 \/ i = 1 \/ i = 2  OBVIOUS
  <2>2. h[0] = f /\ h[1] = A /\ h[2] = B  OBVIOUS
  <2>3. h = [i \in 0 .. 2 |-> h[i]]  OBVIOUS
  <2>. HIDE DEF h
  <2>4. body(h, 0) = f /\ body(h, 1) = A /\ body(h, 2) = B  BY <1>2, <2>2
  <2>5. \A i \in 0 .. 2 : h[i] = body(h, i)
    <3>. HIDE DEF body
    <3>. QED  BY <2>1, <2>2, <2>4
  <2>6. h = [i \in 0 .. 2 |-> body(h, i)]  BY <2>3, <2>5
  <2>. QED  BY <1>3, <2>6
<1>. DEFINE g == CHOOSE e : KeptRun(f, <<a, b>>, e)
<1>5. g = [i \in 0 .. 2 |-> body(g, i)]  BY <1>3, <1>4
<1>. HIDE DEF g
<1>6. \A i \in 0 .. 2 : g[i] = body(g, i)  BY <1>5
<1>7. 0 \in 0 .. 2 /\ 1 \in 0 .. 2 /\ 2 \in 0 .. 2  OBVIOUS
<1>8. g[0] = body(g, 0) /\ g[1] = body(g, 1) /\ g[2] = body(g, 2)
  <2>. HIDE DEF body
  <2>. QED  BY <1>6, <1>7
<1>9. g[0] = f /\ g[1] = ClKept(g[0], a[1], a[2]) /\ g[2] = ClKept(g[1], b[1], b[2])  BY <1>2, <1>8
<1>. QED  BY <1>1, <1>2, <1>9 DEF g

LEMMA TurnThree ==
  ASSUME NEW f, NEW a, NEW b, NEW c,
         NEW A, A = ClKept(f, a[1], a[2]),
         NEW B, B = ClKept(A, b[1], b[2]),
         NEW C, C = ClKept(B, c[1], c[2])
  PROVE  ClKeptAll(f, <<a, b, c>>) = C
<1>. DEFINE h == [i \in 0 .. 3 |-> IF i = 0 THEN f ELSE IF i = 1 THEN A ELSE IF i = 2 THEN B ELSE C]
            body(g, i) == IF i = 0 THEN f ELSE ClKept(g[i - 1], <<a, b, c>>[i][1], <<a, b, c>>[i][2])
<1>1. ClKeptAll(f, <<a, b, c>>) = (CHOOSE g : KeptRun(f, <<a, b, c>>, g))[Len(<<a, b, c>>)]  BY DEF ClKeptAll, KeptRun
<1>2. Len(<<a, b, c>>) = 3 /\ <<a, b, c>>[1] = a /\ <<a, b, c>>[2] = b /\ <<a, b, c>>[3] = c  OBVIOUS
<1>3. \A g : KeptRun(f, <<a, b, c>>, g) <=> g = [i \in 0 .. 3 |-> body(g, i)]  BY <1>2 DEF KeptRun
<1>4. KeptRun(f, <<a, b, c>>, h)
  <2>1. \A i \in 0 .. 3 : i = 0 \/ i = 1 \/ i = 2 \/ i = 3  OBVIOUS
  <2>2. h[0] = f /\ h[1] = A /\ h[2] = B /\ h[3] = C  OBVIOUS
  <2>3. h = [i \in 0 .. 3 |-> h[i]]  OBVIOUS
  <2>. HIDE DEF h
  <2>4. body(h, 0) = f /\ body(h, 1) = A /\ body(h, 2) = B /\ body(h, 3) = C  BY <1>2, <2>2
  <2>5. \A i \in 0 .. 3 : h[i] = body(h, i)
    <3>. HIDE DEF body
    <3>. QED  BY <2>1, <2>2, <2>4
  <2>6. h = [i \in 0 .. 3 |-> body(h, i)]  BY <2>3, <2>5
  <2>. QED  BY <1>3, <2>6
<1>. DEFINE g == CHOOSE e : KeptRun(f, <<a, b, c>>, e)
<1>5. g = [i \in 0 .. 3 |-> body(g, i)]  BY <1>3, <1>4
<1>. HIDE DEF g
<1>6. \A i \in 0 .. 3 : g[i] = body(g, i)  BY <1>5
<1>7. 0 \in 0 .. 3 /\ 1 \in 0 .. 3 /\ 2 \in 0 .. 3 /\ 3 \in 0 .. 3  OBVIOUS
<1>8. g[0] = body(g, 0) /\ g[1] = body(g, 1) /\ g[2] = body(g, 2) /\ g[3] = body(g, 3)
  <2>. HIDE DEF body
  <2>. QED  BY <1>6, <1>7
<1>9. g[0] = f /\ g[1] = ClKept(g[0], a[1], a[2]) /\ g[2] = ClKept(g[1], b[1], b[2]) /\ g[3] = ClKept(g[2], c[1], c[2])  BY <1>2, <1>8
<1>. QED  BY <1>1, <1>2, <1>9 DEF g

LEMMA TurnFour ==
  ASSUME NEW f, NEW a, NEW b, NEW c, NEW d,
         NEW A, A = ClKept(f, a[1], a[2]),
         NEW B, B = ClKept(A, b[1], b[2]),
         NEW C, C = ClKept(B, c[1], c[2]),
         NEW D, D = ClKept(C, d[1], d[2])
  PROVE  ClKeptAll(f, <<a, b, c, d>>) = D
<1>. DEFINE h == [i \in 0 .. 4 |-> IF i = 0 THEN f ELSE IF i = 1 THEN A ELSE IF i = 2 THEN B ELSE IF i = 3 THEN C ELSE D]
            body(g, i) == IF i = 0 THEN f ELSE ClKept(g[i - 1], <<a, b, c, d>>[i][1], <<a, b, c, d>>[i][2])
<1>1. ClKeptAll(f, <<a, b, c, d>>) = (CHOOSE g : KeptRun(f, <<a, b, c, d>>, g))[Len(<<a, b, c, d>>)]  BY DEF ClKeptAll, KeptRun
<1>2. Len(<<a, b, c, d>>) = 4 /\ <<a, b, c, d>>[1] = a /\ <<a, b, c, d>>[2] = b /\ <<a, b, c, d>>[3] = c /\ <<a, b, c, d>>[4] = d  OBVIOUS
<1>3. \A g : KeptRun(f, <<a, b, c, d>>, g) <=> g = [i \in 0 .. 4 |-> body(g, i)]  BY <1>2 DEF KeptRun
<1>4. KeptRun(f, <<a, b, c, d>>, h)
  <2>1. \A i \in 0 .. 4 : i = 0 \/ i = 1 \/ i = 2 \/ i = 3 \/ i = 4  OBVIOUS
  <2>2. h[0] = f /\ h[1] = A /\ h[2] = B /\ h[3] = C /\ h[4] = D  OBVIOUS
  <2>3. h = [i \in 0 .. 4 |-> h[i]]  OBVIOUS
  <2>. HIDE DEF h
  <2>4. body(h, 0) = f /\ body(h, 1) = A /\ body(h, 2) = B /\ body(h, 3) = C /\ body(h, 4) = D  BY <1>2, <2>2
  <2>5. \A i \in 0 .. 4 : h[i] = body(h, i)
    <3>. HIDE DEF body
    <3>. QED  BY <2>1, <2>2, <2>4
  <2>6. h = [i \in 0 .. 4 |-> body(h, i)]  BY <2>3, <2>5
  <2>. QED  BY <1>3, <2>6
<1>. DEFINE g == CHOOSE e : KeptRun(f, <<a, b, c, d>>, e)
<1>5. g = [i \in 0 .. 4 |-> body(g, i)]  BY <1>3, <1>4
<1>. HIDE DEF g
<1>6. \A i \in 0 .. 4 : g[i] = body(g, i)  BY <1>5
<1>7. 0 \in 0 .. 4 /\ 1 \in 0 .. 4 /\ 2 \in 0 .. 4 /\ 3 \in 0 .. 4 /\ 4 \in 0 .. 4  OBVIOUS
<1>8. g[0] = body(g, 0) /\ g[1] = body(g, 1) /\ g[2] = body(g, 2) /\ g[3] = body(g, 3) /\ g[4] = body(g, 4)
  <2>. HIDE DEF body
  <2>. QED  BY <1>6, <1>7
<1>9. g[0] = f /\ g[1] = ClKept(g[0], a[1], a[2]) /\ g[2] = ClKept(g[1], b[1], b[2]) /\ g[3] = ClKept(g[2], c[1], c[2]) /\ g[4] = ClKept(g[3], d[1], d[2])  BY <1>2, <1>8
<1>. QED  BY <1>1, <1>2, <1>9 DEF g
\* A turn of the plugin's, on each of what may be kept: the number and the claim come
\* before the sign and the tint, and each is kept once.
ClIs(m, key) == m = <<m[1], m[2]>> /\ m[1] = key
ClPut(f, m) == ClKept(f, m[1], m[2])
ClFour(n, c, a, v) == ClIs(n, "number") /\ ClIs(c, "claim") /\ ClIs(a, "sign") /\ ClIs(v, "tint")
LEMMA PutFirst == ASSUME NEW m, NEW key, ClIs(m, key) PROVE ClPut(<<>>, m) = <<m>>
<1>1. m = <<m[1], m[2]>>  BY DEF ClIs
<1>. QED  BY <1>1, KeptNone DEF ClPut

LEMMA PutNumber ==
  ASSUME NEW n, NEW c, NEW a, NEW v, NEW m, ClFour(n, c, a, v), ClIs(m, "number")
  PROVE  /\ ClPut(<<n, c>>, m) = <<m, c>>
         /\ ClPut(<<n, c, a, v>>, m) = <<m, c, a, v>>
<1>1. PICK k, x : k = "number" /\ m = <<k, x>> /\ m[1] = k /\ m[2] = x  BY DEF ClIs
<1>2. n[1] = "number" /\ c[1] = "claim" /\ a[1] = "sign" /\ v[1] = "tint"  BY DEF ClFour, ClIs
<1>3. /\ m = (IF n[1] = k THEN m ELSE n)
      /\ c = (IF c[1] = k THEN m ELSE c)
      /\ a = (IF a[1] = k THEN m ELSE a)
      /\ v = (IF v[1] = k THEN m ELSE v)
  BY <1>1, <1>2
<1>4. /\ (n[1] = k \/ c[1] = k) => ClKept(<<n, c>>, k, x) = <<m, c>>
      /\ n[1] # k /\ c[1] # k => ClKept(<<n, c>>, k, x) = <<n, c, m>>
  BY <1>1, <1>3, KeptTwo
<1>5. /\ (n[1] = k \/ c[1] = k \/ a[1] = k \/ v[1] = k) => ClKept(<<n, c, a, v>>, k, x) = <<m, c, a, v>>
  BY <1>1, <1>3, KeptFour
<1>. QED  BY <1>1, <1>2, <1>4, <1>5 DEF ClPut

LEMMA PutClaim ==
  ASSUME NEW n, NEW c, NEW a, NEW v, NEW m, ClFour(n, c, a, v), ClIs(m, "claim")
  PROVE  /\ ClPut(<<n>>, m) = <<n, m>>
         /\ ClPut(<<n, c>>, m) = <<n, m>>
         /\ ClPut(<<n, c, a, v>>, m) = <<n, m, a, v>>
<1>1. PICK k, x : k = "claim" /\ m = <<k, x>> /\ m[1] = k /\ m[2] = x  BY DEF ClIs
<1>2. n[1] = "number" /\ c[1] = "claim" /\ a[1] = "sign" /\ v[1] = "tint"  BY DEF ClFour, ClIs
<1>3. /\ n = (IF n[1] = k THEN m ELSE n)
      /\ m = (IF c[1] = k THEN m ELSE c)
      /\ a = (IF a[1] = k THEN m ELSE a)
      /\ v = (IF v[1] = k THEN m ELSE v)
  BY <1>1, <1>2
<1>4. /\ (n[1] = k) => ClKept(<<n>>, k, x) = <<n>>
      /\ n[1] # k => ClKept(<<n>>, k, x) = <<n, m>>
  BY <1>1, <1>3, KeptOne
<1>5. /\ (n[1] = k \/ c[1] = k) => ClKept(<<n, c>>, k, x) = <<n, m>>
      /\ n[1] # k /\ c[1] # k => ClKept(<<n, c>>, k, x) = <<n, c, m>>
  BY <1>1, <1>3, KeptTwo
<1>6. /\ (n[1] = k \/ c[1] = k \/ a[1] = k \/ v[1] = k) => ClKept(<<n, c, a, v>>, k, x) = <<n, m, a, v>>
  BY <1>1, <1>3, KeptFour
<1>. QED  BY <1>1, <1>2, <1>4, <1>5, <1>6 DEF ClPut

LEMMA PutSign ==
  ASSUME NEW n, NEW c, NEW a, NEW v, NEW m, ClFour(n, c, a, v), ClIs(m, "sign")
  PROVE  /\ ClPut(<<n, c>>, m) = <<n, c, m>>
         /\ ClPut(<<n, c, a, v>>, m) = <<n, c, m, v>>
<1>1. PICK k, x : k = "sign" /\ m = <<k, x>> /\ m[1] = k /\ m[2] = x  BY DEF ClIs
<1>2. n[1] = "number" /\ c[1] = "claim" /\ a[1] = "sign" /\ v[1] = "tint"  BY DEF ClFour, ClIs
<1>3. /\ n = (IF n[1] = k THEN m ELSE n)
      /\ c = (IF c[1] = k THEN m ELSE c)
      /\ m = (IF a[1] = k THEN m ELSE a)
      /\ v = (IF v[1] = k THEN m ELSE v)
  BY <1>1, <1>2
<1>4. /\ (n[1] = k \/ c[1] = k) => ClKept(<<n, c>>, k, x) = <<n, c>>
      /\ n[1] # k /\ c[1] # k => ClKept(<<n, c>>, k, x) = <<n, c, m>>
  BY <1>1, <1>3, KeptTwo
<1>5. /\ (n[1] = k \/ c[1] = k \/ a[1] = k \/ v[1] = k) => ClKept(<<n, c, a, v>>, k, x) = <<n, c, m, v>>
  BY <1>1, <1>3, KeptFour
<1>. QED  BY <1>1, <1>2, <1>4, <1>5 DEF ClPut

LEMMA PutTint ==
  ASSUME NEW n, NEW c, NEW a, NEW v, NEW m, ClFour(n, c, a, v), ClIs(m, "tint")
  PROVE  /\ ClPut(<<n, c, a>>, m) = <<n, c, a, m>>
         /\ ClPut(<<n, c, a, v>>, m) = <<n, c, a, m>>
<1>1. PICK k, x : k = "tint" /\ m = <<k, x>> /\ m[1] = k /\ m[2] = x  BY DEF ClIs
<1>2. n[1] = "number" /\ c[1] = "claim" /\ a[1] = "sign" /\ v[1] = "tint"  BY DEF ClFour, ClIs
<1>3. /\ n = (IF n[1] = k THEN m ELSE n)
      /\ c = (IF c[1] = k THEN m ELSE c)
      /\ a = (IF a[1] = k THEN m ELSE a)
      /\ m = (IF v[1] = k THEN m ELSE v)
  BY <1>1, <1>2
<1>4. /\ (n[1] = k \/ c[1] = k \/ a[1] = k) => ClKept(<<n, c, a>>, k, x) = <<n, c, a>>
      /\ n[1] # k /\ c[1] # k /\ a[1] # k => ClKept(<<n, c, a>>, k, x) = <<n, c, a, m>>
  BY <1>1, <1>3, KeptThree
<1>5. /\ (n[1] = k \/ c[1] = k \/ a[1] = k \/ v[1] = k) => ClKept(<<n, c, a, v>>, k, x) = <<n, c, a, m>>
  BY <1>1, <1>3, KeptFour
<1>. QED  BY <1>1, <1>2, <1>4, <1>5 DEF ClPut

ClTurns(n0, c0, t0, n, c, a, v) ==
  /\ ClKeptAll(<<>>, <<n, c, a, v>>) = <<n, c, a, v>> /\ ClKeptAll(<<>>, <<n, c>>) = <<n, c>>
  /\ ClKeptAll(<<>>, <<c>>) = <<c>>
  /\ ClKeptAll(<<n0, c0>>, <<n, c, a, v>>) = <<n, c, a, v>>
  /\ ClKeptAll(<<n0, c0>>, <<c, a, v>>) = <<n0, c, a, v>>
  /\ ClKeptAll(<<n0, c0>>, <<n, c>>) = <<n, c>> /\ ClKeptAll(<<n0, c0>>, <<c>>) = <<n0, c>>
  /\ ClKeptAll(<<n0, c0, a, t0>>, <<n, c, a, v>>) = <<n, c, a, v>>
  /\ ClKeptAll(<<n0, c0, a, t0>>, <<c, a, v>>) = <<n0, c, a, v>>
  /\ ClKeptAll(<<n0, c0, a, t0>>, <<n, c, v>>) = <<n, c, a, v>>
  /\ ClKeptAll(<<n0, c0, a, t0>>, <<c, v>>) = <<n0, c, a, v>>
  /\ ClKeptAll(<<n0, c0, a, t0>>, <<n, c>>) = <<n, c, a, t0>>
  /\ ClKeptAll(<<n0, c0, a, t0>>, <<c>>) = <<n0, c, a, t0>>
LEMMA TurnKeeps ==
  ASSUME NEW n0, NEW c0, NEW t0, NEW n, NEW c, NEW a, NEW v, ClFour(n0, c0, a, t0), ClFour(n, c, a, v)
  PROVE  ClTurns(n0, c0, t0, n, c, a, v)
<1>a. /\ ClFour(n0, c0, a, t0) /\ ClFour(n, c, a, v) /\ ClFour(n, c0, a, t0) /\ ClFour(n0, c, a, t0)
      /\ ClFour(n, c, a, t0) /\ ClFour(n0, c, a, v)
      /\ ClIs(n0, "number") /\ ClIs(c0, "claim") /\ ClIs(t0, "tint")
      /\ ClIs(n, "number") /\ ClIs(c, "claim") /\ ClIs(a, "sign") /\ ClIs(v, "tint")
  BY DEF ClFour
<1>1. /\ ClPut(<<>>, n) = <<n>> /\ ClPut(<<n>>, c) = <<n, c>> /\ ClPut(<<n, c>>, a) = <<n, c, a>>
      /\ ClPut(<<n, c, a>>, v) = <<n, c, a, v>> /\ ClPut(<<>>, c) = <<c>>
      /\ ClPut(<<n0, c0>>, n) = <<n, c0>> /\ ClPut(<<n, c0>>, c) = <<n, c>> /\ ClPut(<<n0, c0>>, c) = <<n0, c>>
      /\ ClPut(<<n0, c>>, a) = <<n0, c, a>> /\ ClPut(<<n0, c, a>>, v) = <<n0, c, a, v>>
      /\ ClPut(<<n0, c0, a, t0>>, n) = <<n, c0, a, t0>> /\ ClPut(<<n, c0, a, t0>>, c) = <<n, c, a, t0>>
      /\ ClPut(<<n, c, a, t0>>, a) = <<n, c, a, t0>> /\ ClPut(<<n, c, a, t0>>, v) = <<n, c, a, v>>
      /\ ClPut(<<n0, c0, a, t0>>, c) = <<n0, c, a, t0>> /\ ClPut(<<n0, c, a, t0>>, a) = <<n0, c, a, t0>>
      /\ ClPut(<<n0, c, a, t0>>, v) = <<n0, c, a, v>>
  <2>1. ClPut(<<>>, n) = <<n>> /\ ClPut(<<>>, c) = <<c>>  BY <1>a, PutFirst
  <2>2. ClPut(<<n0, c0>>, n) = <<n, c0>> /\ ClPut(<<n0, c0, a, t0>>, n) = <<n, c0, a, t0>>  BY <1>a, PutNumber
  <2>3. /\ ClPut(<<n>>, c) = <<n, c>> /\ ClPut(<<n, c0>>, c) = <<n, c>>
        /\ ClPut(<<n, c0, a, t0>>, c) = <<n, c, a, t0>>
    BY <1>a, PutClaim
  <2>4. /\ ClPut(<<n0>>, c) = <<n0, c>> /\ ClPut(<<n0, c0>>, c) = <<n0, c>>
        /\ ClPut(<<n0, c0, a, t0>>, c) = <<n0, c, a, t0>>
    BY <1>a, PutClaim
  <2>5. ClPut(<<n, c>>, a) = <<n, c, a>> /\ ClPut(<<n, c, a, t0>>, a) = <<n, c, a, t0>>  BY <1>a, PutSign
  <2>6. ClPut(<<n0, c>>, a) = <<n0, c, a>> /\ ClPut(<<n0, c, a, t0>>, a) = <<n0, c, a, t0>>  BY <1>a, PutSign
  <2>7. ClPut(<<n, c, a>>, v) = <<n, c, a, v>> /\ ClPut(<<n, c, a, t0>>, v) = <<n, c, a, v>>  BY <1>a, PutTint
  <2>8. ClPut(<<n0, c, a>>, v) = <<n0, c, a, v>> /\ ClPut(<<n0, c, a, t0>>, v) = <<n0, c, a, v>>  BY <1>a, PutTint
  <2>. QED  BY <2>1, <2>2, <2>3, <2>4, <2>5, <2>6, <2>7, <2>8
<1>4. \A f, w1 : ClKeptAll(f, <<w1>>) = ClPut(f, w1)  BY TurnOne DEF ClPut
<1>5. \A f, w1, w2 : ClKeptAll(f, <<w1, w2>>) = ClPut(ClPut(f, w1), w2)  BY TurnTwo DEF ClPut
<1>6. \A f, w1, w2, w3 : ClKeptAll(f, <<w1, w2, w3>>) = ClPut(ClPut(ClPut(f, w1), w2), w3)  BY TurnThree DEF ClPut
<1>7. \A f, w1, w2, w3, w4 : ClKeptAll(f, <<w1, w2, w3, w4>>) = ClPut(ClPut(ClPut(ClPut(f, w1), w2), w3), w4)
  BY TurnFour DEF ClPut
<1>8. ClKeptAll(<<>>, <<n, c, a, v>>) = <<n, c, a, v>> /\ ClKeptAll(<<>>, <<n, c>>) = <<n, c>>
      /\ ClKeptAll(<<>>, <<c>>) = <<c>>
  BY <1>1, <1>4, <1>5, <1>7
<1>9. ClKeptAll(<<n0, c0>>, <<n, c, a, v>>) = <<n, c, a, v>> /\ ClKeptAll(<<n0, c0>>, <<c, a, v>>) = <<n0, c, a, v>>
      /\ ClKeptAll(<<n0, c0>>, <<n, c>>) = <<n, c>> /\ ClKeptAll(<<n0, c0>>, <<c>>) = <<n0, c>>
  BY <1>1, <1>4, <1>5, <1>6, <1>7
<1>10. ClKeptAll(<<n0, c0, a, t0>>, <<n, c, a, v>>) = <<n, c, a, v>>
       /\ ClKeptAll(<<n0, c0, a, t0>>, <<c, a, v>>) = <<n0, c, a, v>>
       /\ ClKeptAll(<<n0, c0, a, t0>>, <<n, c, v>>) = <<n, c, a, v>>
       /\ ClKeptAll(<<n0, c0, a, t0>>, <<c, v>>) = <<n0, c, a, v>>
       /\ ClKeptAll(<<n0, c0, a, t0>>, <<n, c>>) = <<n, c, a, t0>>
       /\ ClKeptAll(<<n0, c0, a, t0>>, <<c>>) = <<n0, c, a, t0>>
  BY <1>1, <1>4, <1>5, <1>6, <1>7
<1>. QED  BY <1>8, <1>9, <1>10 DEF ClTurns
\* What the link keeps for the module: nothing before the plugin says something but
\* that it is unloaded, then the number and the claim, and the sign and the tint from
\* the first time there is no hitbox on.
ClKeeps(full) ==
  /\ clSent = ClUnset => /\ ~full /\ ~clSigning
                         /\ clFeatures = <<>> \/ (~clEnabled /\ clFeatures = <<<<"claim", FALSE>>>>)
  /\ clSent # ClUnset /\ full => clFeatures = <<<<"number", clSent>>, <<"claim", clEnabled>>, <<"sign", TRUE>>,
                                                <<"tint", clSigning /\ clEnabled>>>>
  /\ clSent # ClUnset /\ ~full => clFeatures = <<<<"number", clSent>>, <<"claim", clEnabled>>>>
  /\ clSigning => full

\* What is on the wire is a batch of them, or what is left of one.
ClWritten(p, q, c, s, t, v, k) ==
  ClSpelt(clWire, <<"number", clSent, k>>, p, <<"claim", c, k>>, q, <<"sign", TRUE, k>>, s, <<"tint", v, k>>, t)

\* What the module holds, with what is yet to come: the number in force before the claim
\* that renews it, the colour before the sign; and the sign it has ends with the claim,
\* or something is on its way that ends it.
ClAgree(full, p, q, c, s, t, v, k) ==
  /\ q /\ c => k = clSent
  /\ clScale = clSent \/ p
  /\ p => clSent # ClUnset
  /\ t /\ v => clColour \/ s
  /\ clSigning => clColour \/ s
  /\ ~clSigning => (clTintUntil = 0 /\ ~(t /\ v)) \/ (t /\ ~v)
  /\ \/ t /\ ~v
     \/ q /\ c
     \/ clTintUntil = 0 /\ ~(t /\ v)
     \/ clUntil = ClLease /\ ~q
     \/ ~p /\ ~q /\ ~s /\ ~t /\ clTintUntil <= clUntil
  /\ ~full => ~t

ClHears(full) ==
  /\ clLink => \E p, q, c, s, t, v \in BOOLEAN : \E k : ClWritten(p, q, c, s, t, v, k) /\ ClAgree(full, p, q, c, s, t, v, k)
  /\ ~clLink => clWire = <<>>
  /\ clTintUntil > 0 => clColour
  /\ ~full => clTintUntil = 0
  /\ clScale = ClUnset \/ clSent # ClUnset

ClaimsInv ==
  /\ clOn \in BOOLEAN /\ clGone \in BOOLEAN /\ clSigning \in BOOLEAN /\ clEnabled \in BOOLEAN /\ (clOn => clEnabled)
  /\ clLink \in BOOLEAN /\ clColour \in BOOLEAN /\ clNumber \in ClNumbers
  /\ clSent \in ClNumbers \cup {0, ClUnset} /\ clScale \in ClNumbers \cup {0, ClUnset}
  /\ clUntil \in 0..ClLease /\ clTintUntil \in 0..ClLease
  /\ \E full \in BOOLEAN : ClKeeps(full) /\ ClHears(full)

LEMMA ClMarks == ASSUME NEW x, NEW y, NEW k PROVE ClMark(<<x, y>>, k) = <<x, y, k>>
BY DEF ClMark

\* A batch as it is written, and a quiet wire.
LEMMA BatchWritten ==
  ASSUME NEW p \in BOOLEAN, NEW q \in BOOLEAN, NEW s \in BOOLEAN, NEW t \in BOOLEAN, NEW n, NEW c, NEW v, NEW k
  PROVE  ClSpelt(ClMarked(ClBatch(p, n, q, c, s, t, v), k), <<"number", n, k>>, p, <<"claim", c, k>>, q,
                 <<"sign", TRUE, k>>, s, <<"tint", v, k>>, t)
<1>1. PICK w, number, claim, sign, tint : /\ w = ClBatch(p, n, q, c, s, t, v) /\ number = <<"number", n>>
                                          /\ claim = <<"claim", c>> /\ sign = <<"sign", TRUE>> /\ tint = <<"tint", v>>
  OBVIOUS
<1>2. ClSpelt(w, number, p, claim, q, sign, s, tint, t)  BY <1>1, BatchSpelt
<1>3. ClSpelt(ClMarked(w, k), ClMark(number, k), p, ClMark(claim, k), q, ClMark(sign, k), s, ClMark(tint, k), t)
  BY <1>2, MarkedSpelt
<1>4. /\ ClMark(number, k) = <<"number", n, k>> /\ ClMark(claim, k) = <<"claim", c, k>>
      /\ ClMark(sign, k) = <<"sign", TRUE, k>> /\ ClMark(tint, k) = <<"tint", v, k>>
  BY <1>1, ClMarks
<1>. QED  BY <1>1, <1>3, <1>4

LEMMA SpeltEmpty ==
  ASSUME NEW n, NEW c, NEW a, NEW v, NEW p \in BOOLEAN, NEW q \in BOOLEAN, NEW s \in BOOLEAN, NEW t \in BOOLEAN,
         ClSpelt(<<>>, n, p, c, q, a, s, v, t)
  PROVE  ~p /\ ~q /\ ~s /\ ~t
<1>1. /\ <<n, c, a, v>> # <<>> /\ <<n, c, a>> # <<>> /\ <<n, c, v>> # <<>> /\ <<n, c>> # <<>>
      /\ <<n, a, v>> # <<>> /\ <<n, a>> # <<>> /\ <<n, v>> # <<>> /\ <<n>> # <<>>
      /\ <<c, a, v>> # <<>> /\ <<c, a>> # <<>> /\ <<c, v>> # <<>> /\ <<c>> # <<>>
      /\ <<a, v>> # <<>> /\ <<a>> # <<>> /\ <<v>> # <<>>
  OBVIOUS
<1>. QED  BY <1>1 DEF ClSpelt
LEMMA NothingSpelt == ASSUME NEW n, NEW c, NEW a, NEW v PROVE ClSpelt(<<>>, n, FALSE, c, FALSE, a, FALSE, v, FALSE)
BY DEF ClSpelt
LEMMA QuietWire ==
  ASSUME ClaimsInv, clLink, ClQuiet, NEW full \in BOOLEAN, ClHears(full)
  PROVE  /\ clScale = clSent /\ (clSigning => clColour) /\ (~clSigning => clTintUntil = 0)
         /\ clTintUntil = 0 \/ clUntil = ClLease \/ clTintUntil <= clUntil
<1>1. PICK p \in BOOLEAN, q \in BOOLEAN, c \in BOOLEAN, s \in BOOLEAN, t \in BOOLEAN, v \in BOOLEAN :
        \E k : ClWritten(p, q, c, s, t, v, k) /\ ClAgree(full, p, q, c, s, t, v, k)
  BY DEF ClHears
<1>2. PICK k : ClWritten(p, q, c, s, t, v, k) /\ ClAgree(full, p, q, c, s, t, v, k)  BY <1>1
<1>3. PICK number, claim, sign, tint : ClSpelt(clWire, number, p, claim, q, sign, s, tint, t)  BY <1>2 DEF ClWritten
<1>4. ~p /\ ~q /\ ~s /\ ~t  BY <1>3, SpeltEmpty DEF ClQuiet
<1>. QED  BY <1>2, <1>4 DEF ClAgree

LEMMA Heard ==
  ASSUME NEW full \in BOOLEAN, NEW p \in BOOLEAN, NEW q \in BOOLEAN, NEW c \in BOOLEAN, NEW s \in BOOLEAN, NEW t \in BOOLEAN,
         NEW v \in BOOLEAN, NEW k, ClWritten(p, q, c, s, t, v, k)', ClAgree(full, p, q, c, s, t, v, k)', clLink',
         (clTintUntil' > 0 => clColour'), (~full => clTintUntil' = 0), (clScale' = ClUnset \/ clSent' # ClUnset)
  PROVE  ClHears(full)'
<1>1. \E x1, x2, x3, x4, x5, x6 \in BOOLEAN : \E x7 : ClWritten(x1, x2, x3, x4, x5, x6, x7)'
                                                      /\ ClAgree(full, x1, x2, x3, x4, x5, x6, x7)'
  OBVIOUS
<1>. QED  BY <1>1 DEF ClHears

\* As long as nothing is said or heard, all this stays.
LEMMA HeardStill ==
  ASSUME NEW full \in BOOLEAN, ClKeeps(full), ClHears(full),
         UNCHANGED <<clSent, clSigning, clEnabled, clFeatures, clLink, clWire, clScale, clColour, clUntil, clTintUntil>>
  PROVE  ClKeeps(full)' /\ ClHears(full)'
<1>1. ClKeeps(full)'  BY DEF ClKeeps
<1>2. /\ ~clLink' => clWire' = <<>>
      /\ clTintUntil' > 0 => clColour'
      /\ ~full => clTintUntil' = 0
      /\ clScale' = ClUnset \/ clSent' # ClUnset
  BY DEF ClHears
<1>3. CASE clLink
  <2>1. PICK p \in BOOLEAN, q \in BOOLEAN, c \in BOOLEAN, s \in BOOLEAN, t \in BOOLEAN, v \in BOOLEAN :
          \E k : ClWritten(p, q, c, s, t, v, k) /\ ClAgree(full, p, q, c, s, t, v, k)
    BY <1>3 DEF ClHears
  <2>2. PICK k : ClWritten(p, q, c, s, t, v, k) /\ ClAgree(full, p, q, c, s, t, v, k)  BY <2>1
  <2>3. ClWritten(p, q, c, s, t, v, k)'
    <3>1. PICK number : number = <<"number", clSent, k>> /\ number = <<"number", clSent', k>>  OBVIOUS
    <3>. QED  BY <2>2, <3>1 DEF ClWritten
  <2>4. ClAgree(full, p, q, c, s, t, v, k)'  BY <2>2 DEF ClAgree
  <2>5. clLink'  BY <1>3
  <2>6. \E x1, x2, x3, x4, x5, x6 \in BOOLEAN : \E x7 : ClWritten(x1, x2, x3, x4, x5, x6, x7)'
                                                       /\ ClAgree(full, x1, x2, x3, x4, x5, x6, x7)'
    BY <2>1, <2>3, <2>4
  <2>7. ClHears(full)'  BY <1>2, <2>5, <2>6 DEF ClHears
  <2>. QED  BY <1>1, <2>7
<1>4. CASE ~clLink  BY <1>1, <1>2, <1>4 DEF ClHears
<1>. QED  BY <1>3, <1>4
\* What a claim leaves with the link.
ClMade(n, c, a, v, number, gone) ==
  n = <<"number", number>> /\ c = <<"claim", TRUE>> /\ a = <<"sign", TRUE>> /\ v = <<"tint", gone>>
ClLeft(full, gone, n, c, a, v) == IF full \/ gone THEN <<n, c, a, v>> ELSE <<n, c>>
LEMMA ClaimKept ==
  ASSUME ClaimsInv, clEnabled, NEW full \in BOOLEAN, ClKeeps(full), NEW number \in ClNumbers \cup {0}, NEW gone \in BOOLEAN,
         NEW n, NEW c, NEW a, NEW v, ClMade(n, c, a, v, number, gone)
  PROVE  ClKeptAll(clFeatures, ClaimMessages(number, gone)) = ClLeft(full, gone, n, c, a, v)
<1>. DEFINE p == number # clSent
            s == gone /\ ~clSigning
            t == gone \/ clSigning
<1>0. n = <<"number", number>> /\ c = <<"claim", TRUE>> /\ a = <<"sign", TRUE>> /\ v = <<"tint", gone>>  BY DEF ClMade
<1>1. PICK w : w = ClaimMessages(number, gone)  OBVIOUS
<1>2. p \in BOOLEAN /\ s \in BOOLEAN /\ t \in BOOLEAN /\ TRUE \in BOOLEAN  BY DEF ClaimsInv
<1>3. w = ClBatch(p, number, TRUE, TRUE, s, t, gone)  BY <1>1 DEF ClaimMessages, ClBatch
<1>4. ClSpelt(w, n, p, c, TRUE, a, s, v, t)
  <2>. HIDE DEF p, s, t
  <2>. QED  BY <1>0, <1>2, <1>3, BatchSpelt
<1>5. PICK n0, c0, t0 : n0 = <<"number", clSent>> /\ c0 = <<"claim", clEnabled>> /\ t0 = <<"tint", clSigning /\ clEnabled>>
  OBVIOUS
<1>6. ClFour(n0, c0, a, t0) /\ ClFour(n, c, a, v)  BY <1>0, <1>5 DEF ClFour, ClIs
<1>7. ClTurns(n0, c0, t0, n, c, a, v)  BY <1>6, TurnKeeps
<1>8. ~p => n = n0  BY <1>0, <1>5
<1>9. CASE clSent = ClUnset
  <2>1. p  BY <1>9, ClaimsAssumption
  <2>2. ~full /\ ~clSigning /\ clFeatures = <<>>  BY <1>9 DEF ClKeeps
  <2>3. s = gone /\ t = gone  BY <2>2
  <2>4. w = IF gone THEN <<n, c, a, v>> ELSE <<n, c>>  BY <1>4, <2>1, <2>3 DEF ClSpelt
  <2>. QED  BY <1>1, <1>7, <2>2, <2>4 DEF ClTurns, ClLeft
<1>10. CASE clSent # ClUnset /\ ~full
  <2>1. ~clSigning /\ clFeatures = <<n0, c0>>  BY <1>0, <1>5, <1>10 DEF ClKeeps
  <2>2. s = gone /\ t = gone  BY <2>1
  <2>3. /\ p /\ gone => w = <<n, c, a, v>>
        /\ p /\ ~gone => w = <<n, c>>
        /\ ~p /\ gone => w = <<c, a, v>>
        /\ ~p /\ ~gone => w = <<c>>
    BY <1>4, <2>2 DEF ClSpelt
  <2>. HIDE DEF p
  <2>. QED  BY <1>1, <1>7, <1>8, <1>10, <2>1, <2>3 DEF ClTurns, ClLeft
<1>11. CASE clSent # ClUnset /\ full
  <2>1. clFeatures = <<n0, c0, a, t0>>  BY <1>0, <1>5, <1>11 DEF ClKeeps
  <2>2. CASE ~t
    <3>1. ~s /\ ~gone /\ ~clSigning  BY <2>2
    <3>2. t0 = v
      <4>1. (clSigning /\ clEnabled) = gone  BY <3>1
      <4>. QED  BY <1>0, <1>5, <4>1
    <3>3. (p => w = <<n, c>>) /\ (~p => w = <<c>>)  BY <1>4, <2>2, <3>1 DEF ClSpelt
    <3>. HIDE DEF p
    <3>. QED  BY <1>1, <1>7, <1>8, <1>11, <2>1, <3>2, <3>3 DEF ClTurns, ClLeft
  <2>3. CASE t
    <3>1. /\ p /\ s => w = <<n, c, a, v>>
          /\ p /\ ~s => w = <<n, c, v>>
          /\ ~p /\ s => w = <<c, a, v>>
          /\ ~p /\ ~s => w = <<c, v>>
      BY <1>4, <2>3 DEF ClSpelt
    <3>. HIDE DEF p, s
    <3>. QED  BY <1>1, <1>7, <1>8, <1>11, <2>1, <3>1 DEF ClTurns, ClLeft
  <2>. QED  BY <2>2, <2>3
<1>. QED  BY <1>9, <1>10, <1>11

\* And unloading.
ClUnmade(n, c, a, v) ==
  n = <<"number", clSent>> /\ c = <<"claim", FALSE>> /\ a = <<"sign", TRUE>> /\ v = <<"tint", FALSE>>
ClUnloaded(full, n, c, a, v) == IF clSent = ClUnset THEN <<c>> ELSE IF full THEN <<n, c, a, v>> ELSE <<n, c>>
LEMMA UnloadKept ==
  ASSUME ClaimsInv, clEnabled, NEW full \in BOOLEAN, ClKeeps(full),
         NEW n, NEW c, NEW a, NEW v, ClUnmade(n, c, a, v)
  PROVE  ClKeptAll(clFeatures, ClSaid(TRUE, "claim", FALSE) \o ClSaid(clSigning, "tint", FALSE))
           = ClUnloaded(full, n, c, a, v)
<1>0. n = <<"number", clSent>> /\ c = <<"claim", FALSE>> /\ a = <<"sign", TRUE>> /\ v = <<"tint", FALSE>>  BY DEF ClUnmade
<1>1. PICK w : w = ClSaid(TRUE, "claim", FALSE) \o ClSaid(clSigning, "tint", FALSE)  OBVIOUS
<1>2. /\ clSigning => w = <<c, v>>
      /\ ~clSigning => w = <<c>>
  <2>1. ClSaid(TRUE, "claim", FALSE) = <<c>> /\ ClSaid(clSigning, "tint", FALSE) = (IF clSigning THEN <<v>> ELSE <<>>)
    BY <1>0 DEF ClSaid
  <2>2. <<c>> \o <<v>> = <<c, v>> /\ <<c>> \o <<>> = <<c>>  BY Joined
  <2>. QED  BY <1>1, <2>1, <2>2
<1>3. PICK c0, t0 : c0 = <<"claim", clEnabled>> /\ t0 = <<"tint", clSigning /\ clEnabled>>
  OBVIOUS
<1>4. ClFour(n, c0, a, t0) /\ ClFour(n, c, a, v)  BY <1>0, <1>3 DEF ClFour, ClIs
<1>5. ClTurns(n, c0, t0, n, c, a, v)  BY <1>4, TurnKeeps
<1>6. CASE clSent = ClUnset
  <2>1. ~full /\ ~clSigning /\ clFeatures = <<>>  BY <1>6 DEF ClKeeps
  <2>. QED  BY <1>1, <1>2, <1>5, <1>6, <2>1 DEF ClTurns, ClUnloaded
<1>7. CASE clSent # ClUnset /\ ~full
  <2>1. ~clSigning /\ clFeatures = <<n, c0>>  BY <1>0, <1>3, <1>7 DEF ClKeeps
  <2>. QED  BY <1>1, <1>2, <1>5, <1>7, <2>1 DEF ClTurns, ClUnloaded
<1>8. CASE clSent # ClUnset /\ full
  <2>1. clFeatures = <<n, c0, a, t0>>  BY <1>0, <1>3, <1>8 DEF ClKeeps
  <2>2. ~clSigning => t0 = v
    <3>1. ~clSigning => (clSigning /\ clEnabled) = FALSE  OBVIOUS
    <3>. QED  BY <1>0, <1>3, <3>1
  <2>. QED  BY <1>1, <1>2, <1>5, <1>8, <2>1, <2>2 DEF ClTurns, ClUnloaded
<1>. QED  BY <1>6, <1>7, <1>8
\* A message written on a quiet wire is all there is on it.
LEMMA QuietThen ==
  ASSUME NEW w, NEW n, NEW c, NEW a, NEW v, NEW p \in BOOLEAN, NEW q \in BOOLEAN, NEW s \in BOOLEAN, NEW t \in BOOLEAN,
         ClSpelt(w, n, p, c, q, a, s, v, t)
  PROVE  <<>> \o w = w
<1>1. \A x1, x2, x3, x4 : /\ <<>> \o <<x1>> = <<x1>> /\ <<>> \o <<x1, x2>> = <<x1, x2>>
                          /\ <<>> \o <<x1, x2, x3>> = <<x1, x2, x3>>
                          /\ <<>> \o <<x1, x2, x3, x4>> = <<x1, x2, x3, x4>> /\ <<>> \o <<>> = <<>>
  OBVIOUS
<1>. QED  BY <1>1 DEF ClSpelt

\* A claim said, with the module as it was or a second on.
LEMMA ClaimKeeps ==
  ASSUME ClaimsInv, ClQuiet, clEnabled, NEW number \in ClNumbers \cup {0}, NEW gone \in BOOLEAN, Claim(number, gone),
         clLink' = clLink, clEnabled' = clEnabled, clScale' = clScale, clColour' = clColour,
         clUntil' \in 0..ClLease, clTintUntil' \in 0..ClLease, clTintUntil' <= clTintUntil
  PROVE  \E full \in BOOLEAN : ClKeeps(full)' /\ ClHears(full)'
<1>1. PICK full \in BOOLEAN : ClKeeps(full) /\ ClHears(full)  BY DEF ClaimsInv
<1>2. PICK n, c, a, v : /\ n = <<"number", number>> /\ c = <<"claim", TRUE>> /\ a = <<"sign", TRUE>>
                        /\ v = <<"tint", gone>>
  OBVIOUS
<1>3. clSent' = number /\ clSigning' = gone  BY DEF Claim
<1>4. clSent' # ClUnset  BY <1>3, ClaimsAssumption
<1>. DEFINE after == full \/ gone
<1>d. PICK p \in BOOLEAN, s \in BOOLEAN, t \in BOOLEAN, yes \in BOOLEAN :
        p = (number # clSent) /\ s = (gone /\ ~clSigning) /\ t = (gone \/ clSigning) /\ yes = TRUE
  <2>1. /\ (number # clSent) \in BOOLEAN /\ (gone /\ ~clSigning) \in BOOLEAN /\ (gone \/ clSigning) \in BOOLEAN
        /\ TRUE \in BOOLEAN
    OBVIOUS
  <2>. QED  BY <2>1
<1>5. after \in BOOLEAN  OBVIOUS
<1>6. clFeatures' = IF after THEN <<n, c, a, v>> ELSE <<n, c>>
  <2>1. clFeatures' = ClKeptAll(clFeatures, ClaimMessages(number, gone))  BY DEF Claim, ClSay
  <2>2. ClKeptAll(clFeatures, ClaimMessages(number, gone)) = ClLeft(full, gone, n, c, a, v)
    <3>1. ClMade(n, c, a, v, number, gone)  BY <1>2 DEF ClMade
    <3>. QED  BY <1>1, <3>1, ClaimKept
  <2>. QED  BY <2>1, <2>2 DEF ClLeft
<1>7. ClKeeps(after)'
  <2>1. (clSigning' /\ clEnabled') = gone /\ clEnabled' = TRUE  BY <1>3, ClaimsInv DEF ClaimsInv
  <2>2. /\ n = <<"number", clSent'>> /\ c = <<"claim", clEnabled'>>
        /\ v = <<"tint", clSigning' /\ clEnabled'>>
    BY <1>2, <1>3, <2>1
  <2>3. clSigning' => after  BY <1>3
  <2>. HIDE DEF after
  <2>. QED  BY <1>2, <1>4, <1>6, <2>2, <2>3 DEF ClKeeps
<1>8. ClHears(after)'
  <2>1. ~clLink => clWire' = <<>>  BY DEF Claim, ClSay, ClQuiet
  <2>2. clTintUntil' > 0 => clTintUntil > 0  BY DEF ClaimsInv
  <2>3. clTintUntil' > 0 => clColour'  BY <1>1, <2>2 DEF ClHears
  <2>4. ~after => clTintUntil' = 0  BY <1>1, <2>2 DEF ClHears, ClaimsInv
  <2>5. ASSUME clLink PROVE ClWritten(p, yes, yes, s, t, gone, number)' /\ ClAgree(after, p, yes, yes, s, t, gone, number)'
    <3>1. /\ clScale = clSent /\ (clSigning => clColour) /\ (~clSigning => clTintUntil = 0)
          /\ clTintUntil = 0 \/ clUntil = ClLease \/ clTintUntil <= clUntil
      BY <1>1, <2>5, QuietWire
    <3>2. clWire' = ClMarked(ClaimMessages(number, gone), number)
      <4>1. clWire' = <<>> \o ClMarked(ClaimMessages(number, gone), number)  BY <2>5 DEF Claim, ClSay, ClQuiet
      <4>2. PICK w : w = ClaimMessages(number, gone)  OBVIOUS
      <4>3. ClaimMessages(number, gone) = ClBatch(p, number, yes, yes, s, t, gone)  BY <1>d DEF ClaimMessages, ClBatch
      <4>4. PICK b : b = ClMarked(ClBatch(p, number, yes, yes, s, t, gone), number)  OBVIOUS
      <4>5. PICK x1, x2, x3, x4 : ClSpelt(b, x1, p, x2, yes, x3, s, x4, t)
        <5>1. ClSpelt(b, <<"number", number, number>>, p, <<"claim", yes, number>>, yes, <<"sign", TRUE, number>>, s,
                      <<"tint", gone, number>>, t)
          BY <1>d, <4>4, BatchWritten
        <5>. QED  BY <5>1
      <4>6. <<>> \o b = b  BY <1>d, <4>5, QuietThen
      <4>. QED  BY <4>1, <4>3, <4>4, <4>6
    <3>3. ClaimMessages(number, gone) = ClBatch(p, number, yes, yes, s, t, gone)  BY <1>d DEF ClaimMessages, ClBatch
    <3>4. ClWritten(p, yes, yes, s, t, gone, number)'
      <4>1. ClSpelt(clWire', <<"number", number, number>>, p, <<"claim", yes, number>>, yes, <<"sign", TRUE, number>>, s,
                    <<"tint", gone, number>>, t)
        <5>. QED  BY <1>d, <3>2, <3>3, BatchWritten
      <4>. QED  BY <1>3, <4>1 DEF ClWritten
    <3>5. ~after => ~t
      <4>1. clSigning => full  BY <1>1 DEF ClKeeps
      <4>. QED  BY <1>d, <4>1
    <3>6. ~gone => ((clTintUntil' = 0 /\ ~(t /\ gone)) \/ (t /\ ~gone))  BY <1>d, <3>1 DEF ClaimsInv
    <3>7. /\ number = clSent' /\ (clScale' = clSent' \/ p) /\ (p => clSent' # ClUnset)
          /\ (t /\ gone => clColour' \/ s) /\ (clSigning' => clColour' \/ s)
      BY <1>d, <1>3, <1>4, <3>1
    <3>. HIDE DEF after
    <3>. QED  BY <1>d, <1>3, <3>4, <3>5, <3>6, <3>7 DEF ClAgree
  <2>6. clLink' => \E x1, x2, x3, x4, x5, x6 \in BOOLEAN : \E x7 : ClWritten(x1, x2, x3, x4, x5, x6, x7)'
                                                                  /\ ClAgree(after, x1, x2, x3, x4, x5, x6, x7)'
    <3>. HIDE DEF after
    <3>. QED  BY <1>5, <2>5
  <2>. HIDE DEF after
  <2>. QED  BY <1>4, <2>1, <2>3, <2>4, <2>6 DEF ClHears
<1>. HIDE DEF after
<1>. QED  BY <1>5, <1>7, <1>8

LEMMA UnloadKeeps ==
  ASSUME ClaimsInv, ClUnload
  PROVE  \E full \in BOOLEAN : ClKeeps(full)' /\ ClHears(full)'
<1>1. PICK full \in BOOLEAN : ClKeeps(full) /\ ClHears(full)  BY DEF ClaimsInv
<1>2. PICK n, c, a, v : n = <<"number", clSent>> /\ c = <<"claim", FALSE>> /\ a = <<"sign", TRUE>> /\ v = <<"tint", FALSE>>
  OBVIOUS
<1>3. /\ ClQuiet /\ clEnabled /\ clSent' = clSent /\ clSigning' = clSigning /\ clLink' = clLink /\ clEnabled' = FALSE
      /\ clScale' = clScale /\ clColour' = clColour /\ clUntil' = clUntil /\ clTintUntil' = clTintUntil
  BY DEF ClUnload, clModule
<1>4. clFeatures' = ClUnloaded(full, n, c, a, v)
  <2>1. ClUnmade(n, c, a, v)  BY <1>2 DEF ClUnmade
  <2>2. clFeatures' = ClKeptAll(clFeatures, ClSaid(TRUE, "claim", FALSE) \o ClSaid(clSigning, "tint", FALSE))
    BY DEF ClUnload, ClSay
  <2>3. ClKeptAll(clFeatures, ClSaid(TRUE, "claim", FALSE) \o ClSaid(clSigning, "tint", FALSE)) = ClUnloaded(full, n, c, a, v)
    BY <1>1, <1>3, <2>1, UnloadKept
  <2>. QED  BY <2>2, <2>3
<1>5. ClKeeps(full)'
  <2>1. (clSigning' /\ clEnabled') = FALSE /\ clEnabled' = FALSE  BY <1>3
  <2>2. n = <<"number", clSent'>> /\ c = <<"claim", clEnabled'>> /\ v = <<"tint", clSigning' /\ clEnabled'>>
    BY <1>2, <1>3, <2>1
  <2>3. /\ clSigning' => full
        /\ clSent' = ClUnset => ~full /\ ~clSigning'
    BY <1>1, <1>3 DEF ClKeeps
  <2>4. clSent' = ClUnset => clFeatures' = <<c>>  BY <1>3, <1>4 DEF ClUnloaded
  <2>5. clSent' # ClUnset /\ full => clFeatures' = <<n, c, a, v>>  BY <1>3, <1>4 DEF ClUnloaded
  <2>6. clSent' # ClUnset /\ ~full => clFeatures' = <<n, c>>  BY <1>3, <1>4 DEF ClUnloaded
  <2>. QED  BY <1>2, <1>3, <2>2, <2>3, <2>4, <2>5, <2>6 DEF ClKeeps
<1>6. ClHears(full)'
  <2>1. ~clLink => clWire' = <<>>  BY <1>3 DEF ClUnload, ClSay, ClQuiet
  <2>2. /\ clTintUntil' > 0 => clColour'
        /\ ~full => clTintUntil' = 0
        /\ clScale' = ClUnset \/ clSent' # ClUnset
    BY <1>1, <1>3 DEF ClHears
  <2>3. PICK no, yes, t \in BOOLEAN : no = FALSE /\ yes = TRUE /\ t = clSigning
    <3>1. FALSE \in BOOLEAN /\ TRUE \in BOOLEAN /\ clSigning \in BOOLEAN  BY DEF ClaimsInv
    <3>. QED  BY <3>1
  <2>4. PICK k, m : k = ClValue /\ m = 0  OBVIOUS
  <2>5. ASSUME clLink PROVE ClWritten(no, yes, no, no, t, no, k)' /\ ClAgree(full, no, yes, no, no, t, no, k)'
    <3>1. /\ clScale = clSent /\ (clSigning => clColour) /\ (~clSigning => clTintUntil = 0)
          /\ clTintUntil = 0 \/ clUntil = ClLease \/ clTintUntil <= clUntil
      BY <1>1, <1>3, <2>5, QuietWire
    <3>2. ClSaid(TRUE, "claim", FALSE) \o ClSaid(clSigning, "tint", FALSE) = ClBatch(no, clSent, yes, no, no, t, no)
      <4>1. /\ ClSaid(no, "number", clSent) = <<>> /\ ClSaid(no, "sign", TRUE) = <<>>
            /\ ClSaid(yes, "claim", no) = <<c>> /\ ClSaid(TRUE, "claim", FALSE) = <<c>>
            /\ ClSaid(t, "tint", no) = (IF clSigning THEN <<v>> ELSE <<>>)
            /\ ClSaid(clSigning, "tint", FALSE) = (IF clSigning THEN <<v>> ELSE <<>>)
        BY <1>2, <2>3 DEF ClSaid
      <4>2. <<>> \o <<c>> = <<c>> /\ <<c>> \o <<>> = <<c>>  BY Joined
      <4>. QED  BY <4>1, <4>2 DEF ClBatch
    <3>3. clWire' = <<>> \o ClMarked(ClBatch(no, clSent, yes, no, no, t, no), k)
      BY <1>3, <2>4, <2>5, <3>2 DEF ClUnload, ClSay, ClQuiet
    <3>4. PICK b : b = ClMarked(ClBatch(no, clSent, yes, no, no, t, no), k)  OBVIOUS
    <3>5. ClSpelt(b, <<"number", clSent, k>>, no, <<"claim", no, k>>, yes, <<"sign", TRUE, k>>, no, <<"tint", no, k>>, t)
      BY <2>3, <3>4, BatchWritten
    <3>6. clWire' = b
      <4>1. PICK y1, y2, y3, y4 : ClSpelt(b, y1, no, y2, yes, y3, no, y4, t)  BY <3>5
      <4>2. <<>> \o b = b  BY <2>3, <4>1, QuietThen
      <4>. QED  BY <3>3, <3>4, <4>2
    <3>7. ClWritten(no, yes, no, no, t, no, k)'  BY <1>3, <3>5, <3>6 DEF ClWritten
    <3>8. clSigning => full  BY <1>1 DEF ClKeeps
    <3>. QED  BY <1>3, <2>3, <3>1, <3>7, <3>8 DEF ClAgree
  <2>6. clLink' => \E x1, x2, x3, x4, x5, x6 \in BOOLEAN : \E x7 : ClWritten(x1, x2, x3, x4, x5, x6, x7)'
                                                                  /\ ClAgree(full, x1, x2, x3, x4, x5, x6, x7)'
    BY <1>3, <2>3, <2>5
  <2>. QED  BY <1>3, <2>1, <2>2, <2>6 DEF ClHears
<1>. QED  BY <1>5, <1>6

\* The module reads the next of them: a number it takes up, a claim it renews or gives
\* up, the sign and the tint. A claim is renewed on the number in force when it was said.
LEMMA AcceptKeeps ==
  ASSUME ClaimsInv, ClAccept
  PROVE  /\ \E full \in BOOLEAN : ClKeeps(full)' /\ ClHears(full)'
         /\ clScale' \in ClNumbers \cup {0, ClUnset} /\ clUntil' \in 0..ClLease /\ clTintUntil' \in 0..ClLease
         /\ clColour' \in BOOLEAN
         /\ Head(clWire)[1] = "claim" /\ Head(clWire)[2] => clScale' = Head(clWire)[3]
<1>1. PICK full \in BOOLEAN : ClKeeps(full) /\ ClHears(full)  BY DEF ClaimsInv
<1>2. clLink /\ clLink'
  <2>1. clWire # <<>> /\ clLink' = clLink  BY DEF ClAccept
  <2>. QED  BY <1>1, <2>1 DEF ClHears
<1>3. PICK p \in BOOLEAN, q \in BOOLEAN, c \in BOOLEAN, s \in BOOLEAN, t \in BOOLEAN, v \in BOOLEAN :
        \E k : ClWritten(p, q, c, s, t, v, k) /\ ClAgree(full, p, q, c, s, t, v, k)
  BY <1>1, <1>2 DEF ClHears
<1>4. PICK k : ClWritten(p, q, c, s, t, v, k) /\ ClAgree(full, p, q, c, s, t, v, k)  BY <1>3
<1>5. /\ clSent' = clSent /\ clSigning' = clSigning /\ clEnabled' = clEnabled /\ clFeatures' = clFeatures
      /\ clWire' = Tail(clWire)
  BY DEF ClAccept, clPlugin
<1>6. PICK h, number, claim, sign, tint :
        /\ h = Head(clWire) /\ number = <<"number", clSent, k>> /\ claim = <<"claim", c, k>>
        /\ sign = <<"sign", TRUE, k>> /\ tint = <<"tint", v, k>>
  OBVIOUS
<1>7. PICK w, rest : w = clWire /\ rest = Tail(clWire) /\ h = Head(w) /\ rest = Tail(w)  BY <1>6
<1>8. ClSpelt(w, number, p, claim, q, sign, s, tint, t)  BY <1>4, <1>6, <1>7 DEF ClWritten
<1>9. PICK no \in BOOLEAN : no = FALSE  BY Zenon
<1>a. ClFirst(w, number, p, claim, q, sign, s, tint, t, no)
  <2>1. ~no  BY <1>9
  <2>. QED  BY <1>3, <1>8, <1>9, <2>1, SpeltRest
<1>10. /\ w = <<>> <=> ~p /\ ~q /\ ~s /\ ~t
       /\ p => Head(w) = number /\ ClSpelt(Tail(w), number, no, claim, q, sign, s, tint, t)
       /\ ~p /\ q => Head(w) = claim /\ ClSpelt(Tail(w), number, no, claim, no, sign, s, tint, t)
       /\ ~p /\ ~q /\ s => Head(w) = sign /\ ClSpelt(Tail(w), number, no, claim, no, sign, no, tint, t)
       /\ ~p /\ ~q /\ ~s /\ t => Head(w) = tint /\ ClSpelt(Tail(w), number, no, claim, no, sign, no, tint, no)
  BY <1>a DEF ClFirst
<1>11. /\ p => h = number /\ ClWritten(no, q, c, s, t, v, k)'
       /\ ~p /\ q => h = claim /\ ClWritten(no, no, c, s, t, v, k)'
       /\ ~p /\ ~q /\ s => h = sign /\ ClWritten(no, no, c, no, t, v, k)'
       /\ ~p /\ ~q /\ ~s => t /\ h = tint /\ ClWritten(no, no, c, no, no, v, k)'
  <2>1. w # <<>>  BY <1>7 DEF ClAccept
  <2>. QED  BY <1>5, <1>6, <1>7, <1>9, <1>10, <2>1 DEF ClWritten
<1>12. /\ clScale' = (IF h[1] = "number" THEN h[2] ELSE clScale)
       /\ clColour' = (clColour \/ h[1] = "sign")
       /\ clUntil' = (IF h[1] = "claim" THEN (IF h[2] THEN ClLease ELSE 0) ELSE clUntil)
       /\ clTintUntil' = (IF h[1] = "tint" THEN (IF h[2] THEN ClLease ELSE 0) ELSE clTintUntil)
  BY <1>6 DEF ClAccept
<1>13. ClLease \in 0..ClLease /\ 0 \in 0..ClLease /\ ClLease > 0  BY ClaimsAssumption
<1>14. clTintUntil \in 0..ClLease /\ clUntil \in 0..ClLease /\ clScale \in ClNumbers \cup {0, ClUnset}
       /\ clSent \in ClNumbers \cup {0, ClUnset} /\ clColour \in BOOLEAN
  BY DEF ClaimsInv
<1>15. /\ clTintUntil > 0 => clColour
       /\ ~full => clTintUntil = 0
       /\ clScale = ClUnset \/ clSent # ClUnset
  BY <1>1 DEF ClHears
<1>16. ClKeeps(full)'
  BY <1>1, <1>5 DEF ClKeeps
<1>. DEFINE Goal == /\ \E x1, x2, x3, x4, x5, x6 \in BOOLEAN : \E x7 : ClWritten(x1, x2, x3, x4, x5, x6, x7)'
                                                                       /\ ClAgree(full, x1, x2, x3, x4, x5, x6, x7)'
                    /\ clTintUntil' > 0 => clColour'
                    /\ ~full => clTintUntil' = 0
                    /\ clScale' = ClUnset \/ clSent' # ClUnset
                    /\ clScale' \in ClNumbers \cup {0, ClUnset} /\ clUntil' \in 0..ClLease /\ clTintUntil' \in 0..ClLease
                    /\ clColour' \in BOOLEAN
                    /\ h[1] = "claim" /\ h[2] => clScale' = h[3]
<1>. SUFFICES Goal
  <2>1. ASSUME Goal PROVE ClHears(full)'  BY <1>2, <2>1 DEF ClHears
  <2>. QED  BY <1>6, <1>16, <2>1
<1>17. CASE p
  <2>1. h[1] = "number" /\ h[2] = clSent  BY <1>6, <1>11, <1>17
  <2>2. clScale' = clSent /\ clColour' = clColour /\ clUntil' = clUntil /\ clTintUntil' = clTintUntil
    BY <1>12, <1>14, <2>1
  <2>3. ClAgree(full, no, q, c, s, t, v, k)'  BY <1>4, <1>5, <1>9, <1>17, <2>2 DEF ClAgree
  <2>4. clSent # ClUnset  BY <1>4, <1>17 DEF ClAgree
  <2>5. \E x1, x2, x3, x4, x5, x6 \in BOOLEAN : \E x7 : ClWritten(x1, x2, x3, x4, x5, x6, x7)'
                                                         /\ ClAgree(full, x1, x2, x3, x4, x5, x6, x7)'
    BY <1>11, <1>17, <2>3
  <2>6. ~(h[1] = "claim")  BY <2>1
  <2>. QED  BY <1>5, <1>14, <1>15, <2>2, <2>4, <2>5, <2>6 DEF Goal
<1>18. CASE ~p /\ q
  <2>1. h[1] = "claim" /\ h[2] = c /\ h[3] = k  BY <1>6, <1>11, <1>18
  <2>2. clScale' = clScale /\ clColour' = clColour /\ clUntil' = (IF c THEN ClLease ELSE 0) /\ clTintUntil' = clTintUntil
    BY <1>12, <1>14, <2>1
  <2>3. ClAgree(full, no, no, c, s, t, v, k)'  BY <1>4, <1>5, <1>9, <1>18, <2>2 DEF ClAgree
  <2>4. c => clScale = k  BY <1>4, <1>18 DEF ClAgree
  <2>. QED  BY <1>5, <1>9, <1>11, <1>13, <1>14, <1>15, <1>18, <2>1, <2>2, <2>3, <2>4
<1>19. CASE ~p /\ ~q /\ s
  <2>1. h[1] = "sign"  BY <1>6, <1>11, <1>19
  <2>2. clScale' = clScale /\ clColour' = TRUE /\ clUntil' = clUntil /\ clTintUntil' = clTintUntil
    BY <1>12, <1>14, <2>1
  <2>3. ClAgree(full, no, no, c, no, t, v, k)'  BY <1>4, <1>5, <1>9, <1>19, <2>2 DEF ClAgree
  <2>4. clColour' \in BOOLEAN  BY <2>2
  <2>. QED  BY <1>5, <1>9, <1>11, <1>14, <1>15, <1>19, <2>1, <2>2, <2>3, <2>4
<1>20. CASE ~p /\ ~q /\ ~s
  <2>1. t /\ h[1] = "tint" /\ h[2] = v  BY <1>6, <1>11, <1>20
  <2>2. clScale' = clScale /\ clColour' = clColour /\ clUntil' = clUntil /\ clTintUntil' = (IF v THEN ClLease ELSE 0)
    BY <1>12, <1>14, <2>1
  <2>3. v => clColour  BY <1>4, <1>20, <2>1 DEF ClAgree
  <2>4. full  BY <1>4, <2>1 DEF ClAgree
  <2>5. clTintUntil' <= clUntil'
    <3>1. CASE ~v  BY <1>14, <2>2, <3>1
    <3>2. CASE v
      <4>1. clUntil = ClLease  BY <1>4, <1>20, <2>1, <3>2 DEF ClAgree
      <4>. QED  BY <2>2, <3>2, <4>1, <1>13
    <3>. QED  BY <3>1, <3>2
  <2>6. ~clSigning => ~v  BY <1>4, <2>1 DEF ClAgree
  <2>7. clSigning => clColour  BY <1>4, <1>20 DEF ClAgree
  <2>8. clScale = clSent  BY <1>4, <1>20 DEF ClAgree
  <2>9. ClAgree(full, no, no, c, no, no, v, k)'
    <3>1. clSent' = clSent /\ clSigning' = clSigning  BY <1>5
    <3>. QED  BY <1>9, <2>2, <2>4, <2>5, <2>6, <2>7, <2>8, <3>1 DEF ClAgree
  <2>10. \E x1, x2, x3, x4, x5, x6 \in BOOLEAN : \E x7 : ClWritten(x1, x2, x3, x4, x5, x6, x7)'
                                                          /\ ClAgree(full, x1, x2, x3, x4, x5, x6, x7)'
    BY <1>11, <1>20, <2>9
  <2>11. ~(h[1] = "claim")  BY <2>1
  <2>12. clTintUntil' \in 0..ClLease /\ (clTintUntil' > 0 => clColour')  BY <1>13, <2>2, <2>3
  <2>. QED  BY <1>5, <1>14, <1>15, <2>2, <2>4, <2>10, <2>11, <2>12 DEF Goal
<1>. HIDE DEF Goal
<1>. QED  BY <1>17, <1>18, <1>19, <1>20

\* All four of a batch on the wire, or the first two.
LEMMA HeardAll ==
  ASSUME NEW full \in BOOLEAN, NEW yes \in BOOLEAN, NEW on \in BOOLEAN, NEW tints \in BOOLEAN, NEW x,
         ClWritten(yes, yes, on, full, full, tints, x)', ClAgree(full, yes, yes, on, full, full, tints, x)', clLink',
         (clTintUntil' > 0 => clColour'), (~full => clTintUntil' = 0), (clScale' = ClUnset \/ clSent' # ClUnset)
  PROVE  ClHears(full)'
<1>1. \E x1, x2, x3, x4, x5, x6 \in BOOLEAN : \E x7 : ClWritten(x1, x2, x3, x4, x5, x6, x7)'
                                                      /\ ClAgree(full, x1, x2, x3, x4, x5, x6, x7)'
  OBVIOUS
<1>. QED  BY <1>1 DEF ClHears

\* The link comes up: all that is kept is said again, whatever the module had heard.
LEMMA ConnectKeeps ==
  ASSUME ClaimsInv, NEW anew \in BOOLEAN, ClConnect(anew)
  PROVE  \E full \in BOOLEAN : ClKeeps(full)' /\ ClHears(full)'
<1>1. PICK full \in BOOLEAN : ClKeeps(full) /\ ClHears(full)  BY DEF ClaimsInv
<1>2. /\ clLink' /\ clSent' = clSent /\ clSigning' = clSigning /\ clEnabled' = clEnabled /\ clFeatures' = clFeatures
      /\ clWire' = ClMarked(clFeatures, clSent)
      /\ \/ clScale' = ClUnset /\ clColour' = FALSE /\ clUntil' = 0 /\ clTintUntil' = 0
         \/ clScale' = clScale /\ clColour' = clColour /\ clUntil' = clUntil /\ clTintUntil' = clTintUntil
  BY DEF ClConnect, Replay, clPlugin, clModule
<1>b. PICK no \in BOOLEAN, yes \in BOOLEAN, on \in BOOLEAN, tints \in BOOLEAN :
        no = FALSE /\ yes = TRUE /\ on = clEnabled /\ tints = (clSigning /\ clEnabled)
  <2>1. FALSE \in BOOLEAN /\ TRUE \in BOOLEAN /\ clEnabled \in BOOLEAN /\ (clSigning /\ clEnabled) \in BOOLEAN
    BY DEF ClaimsInv
  <2>. QED  BY <2>1
<1>c. PICK f, x, n, c, a, v :
        /\ f = clFeatures /\ x = clSent
        /\ n = <<"number", x>> /\ c = <<"claim", on>> /\ a = <<"sign", TRUE>> /\ v = <<"tint", tints>>
  OBVIOUS
<1>3. /\ no \in BOOLEAN /\ yes \in BOOLEAN /\ on \in BOOLEAN /\ tints \in BOOLEAN
      /\ f = clFeatures /\ x = clSent /\ no = FALSE /\ yes = TRUE /\ on = clEnabled /\ tints = (clSigning /\ clEnabled)
      /\ n = <<"number", x>> /\ c = <<"claim", on>> /\ a = <<"sign", TRUE>> /\ v = <<"tint", tints>>
  BY <1>b, <1>c
<1>4. ClKeeps(full)'  BY <1>1, <1>2 DEF ClKeeps
<1>5. /\ ClMark(n, x) = <<"number", x, x>> /\ ClMark(c, x) = <<"claim", on, x>>
      /\ ClMark(a, x) = <<"sign", TRUE, x>> /\ ClMark(v, x) = <<"tint", tints, x>>
  BY <1>3, ClMarks
<1>6. /\ clTintUntil > 0 => clColour
      /\ ~full => clTintUntil = 0
      /\ clScale = ClUnset \/ clSent # ClUnset
      /\ clSigning => full
      /\ clTintUntil \in 0..ClLease /\ clUntil \in 0..ClLease
      /\ clSent = ClUnset => ~full /\ ~clSigning
  BY <1>1 DEF ClHears, ClKeeps, ClaimsInv
<1>7. /\ clTintUntil' > 0 => clColour'
      /\ ~full => clTintUntil' = 0
      /\ clScale' = ClUnset \/ clSent' # ClUnset
      /\ clTintUntil' = 0 \/ clTintUntil' = clTintUntil
  BY <1>2, <1>6
<1>8. ASSUME NEW p \in BOOLEAN, NEW q \in BOOLEAN, NEW s \in BOOLEAN, NEW t \in BOOLEAN, ClSpelt(f, n, p, c, q, a, s, v, t)
      PROVE  ClWritten(p, q, on, s, t, tints, x)'
  <2>1. ClSpelt(ClMarked(f, x), ClMark(n, x), p, ClMark(c, x), q, ClMark(a, x), s, ClMark(v, x), t)
    BY <1>8, MarkedSpelt
  <2>2. ClSpelt(clWire', <<"number", clSent', x>>, p, <<"claim", on, x>>, q, <<"sign", TRUE, x>>, s, <<"tint", tints, x>>, t)
    BY <1>2, <1>3, <1>5, <2>1
  <2>. QED  BY <2>2 DEF ClWritten
<1>9. CASE clSent = ClUnset
  <2>1. clFeatures = <<>> \/ (~clEnabled /\ clFeatures = <<<<"claim", FALSE>>>>)  BY <1>1, <1>9 DEF ClKeeps
  <2>2. clScale' = clSent'  BY <1>2, <1>6, <1>9
  <2>3. clSigning' = FALSE /\ ~full /\ clTintUntil' = 0  BY <1>2, <1>6, <1>7, <1>9, ClaimsInv DEF ClaimsInv
  <2>4. CASE clFeatures = <<>>
    <3>1. ClWritten(no, no, on, no, no, tints, x)'
      <4>1. ClSpelt(f, n, no, c, no, a, no, v, no)  BY <1>3, <2>4 DEF ClSpelt
      <4>. QED  BY <1>3, <1>8, <4>1
    <3>2. ClAgree(full, no, no, on, no, no, tints, x)'  BY <1>3, <2>2, <2>3 DEF ClAgree
    <3>. QED  BY <1>2, <1>3, <1>4, <1>7, <3>1, <3>2, Heard
  <2>5. CASE ~clEnabled /\ clFeatures = <<<<"claim", FALSE>>>>
    <3>1. on = FALSE /\ f = <<c>>
      <4>1. on = FALSE  BY <1>3, <2>5
      <4>. QED  BY <1>3, <2>5, <4>1
    <3>2. ClWritten(no, yes, on, no, no, tints, x)'
      <4>1. ClSpelt(f, n, no, c, yes, a, no, v, no)  BY <1>3, <3>1 DEF ClSpelt
      <4>. QED  BY <1>3, <1>8, <4>1
    <3>3. ClAgree(full, no, yes, on, no, no, tints, x)'  BY <1>3, <2>2, <2>3, <3>1 DEF ClAgree
    <3>. QED  BY <1>2, <1>3, <1>4, <1>7, <3>2, <3>3, Heard
  <2>. QED  BY <2>1, <2>4, <2>5
<1>10. CASE clSent # ClUnset
  <2>1. f = IF full THEN <<n, c, a, v>> ELSE <<n, c>>
    <3>1. full => f = <<n, c, a, v>>  BY <1>1, <1>3, <1>10 DEF ClKeeps
    <3>2. ~full => f = <<n, c>>  BY <1>1, <1>3, <1>10 DEF ClKeeps
    <3>. QED  BY <3>1, <3>2
  <2>2. ClWritten(yes, yes, on, full, full, tints, x)'
    <3>1. ClSpelt(f, n, yes, c, yes, a, full, v, full)  BY <1>3, <2>1 DEF ClSpelt
    <3>. QED  BY <1>3, <1>8, <3>1
  <2>3. /\ clSigning' => full
        /\ ~clSigning' => ~tints
        /\ ~on => ~tints
        /\ ~full => clTintUntil' = 0
    BY <1>2, <1>3, <1>6, <1>7
  <2>4. on => yes /\ x = clSent'  BY <1>2, <1>3
  <2>5. clSent' # ClUnset /\ x = clSent'  BY <1>2, <1>3, <1>10
  <2>6. ClAgree(full, yes, yes, on, full, full, tints, x)'  BY <1>3, <2>3, <2>4, <2>5 DEF ClAgree
  <2>7. ClHears(full)'  BY <1>2, <1>3, <1>7, <2>2, <2>6, HeardAll
  <2>. QED  BY <1>4, <2>7
<1>. QED  BY <1>9, <1>10

LEMMA ClaimsStart == ClaimsInit => ClaimsInv
<1>. SUFFICES ASSUME ClaimsInit PROVE ClaimsInv  OBVIOUS
<1>1. PICK no \in BOOLEAN : no = FALSE  BY Zenon
<1>2. ClKeeps(no)  BY <1>1 DEF ClaimsInit, ClKeeps
<1>3. ClHears(no)  BY <1>1 DEF ClaimsInit, ClHears
<1>4. /\ clOn \in BOOLEAN /\ clGone \in BOOLEAN /\ clSigning \in BOOLEAN /\ clEnabled \in BOOLEAN /\ (clOn => clEnabled)
      /\ clLink \in BOOLEAN /\ clColour \in BOOLEAN /\ clNumber \in ClNumbers
  BY DEF ClaimsInit
<1>5. /\ clSent \in ClNumbers \cup {0, ClUnset} /\ clScale \in ClNumbers \cup {0, ClUnset}
      /\ clUntil \in 0..ClLease /\ clTintUntil \in 0..ClLease
  BY ClaimsAssumption DEF ClaimsInit
<1>. QED  BY <1>1, <1>2, <1>3, <1>4, <1>5 DEF ClaimsInv

LEMMA ClaimsGoOn ==
  ASSUME ClaimsInv, [ClaimsNext]_clVars
  PROVE  /\ ClaimsInv'
         /\ ClAccept /\ Head(clWire)[1] = "claim" /\ Head(clWire)[2] => clScale' = Head(clWire)[3]
<1>0. ClAccept => (Head(clWire)[1] = "claim" /\ Head(clWire)[2] => clScale' = Head(clWire)[3])  BY AcceptKeeps
<1>. SUFFICES ClaimsInv'  BY <1>0
<1>a. PICK full \in BOOLEAN : ClKeeps(full) /\ ClHears(full)  BY DEF ClaimsInv
<1>b. /\ clOn \in BOOLEAN /\ clGone \in BOOLEAN /\ clSigning \in BOOLEAN /\ clEnabled \in BOOLEAN /\ (clOn => clEnabled)
      /\ clLink \in BOOLEAN /\ clColour \in BOOLEAN /\ clNumber \in ClNumbers
      /\ clSent \in ClNumbers \cup {0, ClUnset} /\ clScale \in ClNumbers \cup {0, ClUnset}
      /\ clUntil \in 0..ClLease /\ clTintUntil \in 0..ClLease
  BY DEF ClaimsInv
<1>c. 0 \in 0..ClLease /\ ClLease \in 0..ClLease /\ \A u \in 0..ClLease : u # 0 => u - 1 \in 0..ClLease /\ u - 1 <= u
  BY ClaimsAssumption
<1>1. ASSUME NEW m \in ClNumbers, NEW gone \in BOOLEAN, ClSettings(m, gone) PROVE ClaimsInv'
  <2>1. /\ clNumber' = m /\ clGone' = gone /\ clOn' = clOn /\ clEnabled' = clEnabled /\ clLink' = clLink
        /\ clScale' = clScale /\ clColour' = clColour /\ clUntil' = clUntil /\ clTintUntil' = clTintUntil
        /\ ClQuiet /\ clEnabled
    BY <1>1 DEF ClSettings, clModule
  <2>2. CASE clOn
    <3>1. PICK number \in ClNumbers \cup {0} : number = IF gone THEN 0 ELSE m  OBVIOUS
    <3>2. Claim(number, gone)  BY <1>1, <2>2, <3>1 DEF ClSettings
    <3>3. clSent' = number /\ clSigning' = gone  BY <3>2 DEF Claim
    <3>4. clTintUntil' <= clTintUntil  BY <1>b, <2>1
    <3>5. \E all \in BOOLEAN : ClKeeps(all)' /\ ClHears(all)'  BY <1>b, <2>1, <3>2, <3>4, ClaimKeeps
    <3>. QED  BY <1>b, <2>1, <3>1, <3>3, <3>5 DEF ClaimsInv
  <2>3. CASE ~clOn
    <3>1. UNCHANGED <<clSent, clSigning, clFeatures, clWire>>  BY <1>1, <2>3 DEF ClSettings
    <3>2. ClKeeps(full)' /\ ClHears(full)'  BY <1>a, <2>1, <3>1, HeardStill
    <3>. QED  BY <1>b, <2>1, <3>1, <3>2 DEF ClaimsInv
  <2>. QED  BY <2>2, <2>3
<1>2. CASE ClSwitch
  <2>1. /\ UNCHANGED <<clNumber, clGone, clSent, clSigning, clEnabled, clFeatures, clLink, clWire, clModule>>
        /\ clOn' = ~clOn /\ clEnabled
    BY <1>2 DEF ClSwitch
  <2>2. ClKeeps(full)' /\ ClHears(full)'  BY <1>a, <2>1, HeardStill DEF clModule
  <2>. QED  BY <1>b, <2>1, <2>2 DEF ClaimsInv, clModule
<1>3. CASE ClUnload
  <2>1. \E all \in BOOLEAN : ClKeeps(all)' /\ ClHears(all)'  BY <1>3, UnloadKeeps
  <2>2. /\ UNCHANGED <<clNumber, clGone, clSent, clSigning, clLink, clModule>> /\ clOn' = FALSE /\ clEnabled' = FALSE
    BY <1>3 DEF ClUnload
  <2>. QED  BY <1>b, <2>1, <2>2 DEF ClaimsInv, clModule
<1>4. CASE ClSecond
  <2>1. /\ ClQuiet /\ UNCHANGED <<clOn, clNumber, clGone, clEnabled, clScale, clColour, clLink>>
        /\ clUntil' = (IF clUntil = 0 THEN 0 ELSE clUntil - 1)
        /\ clTintUntil' = (IF clTintUntil = 0 THEN 0 ELSE clTintUntil - 1)
    BY <1>4 DEF ClSecond
  <2>2. clUntil' \in 0..ClLease /\ clTintUntil' \in 0..ClLease /\ clTintUntil' <= clTintUntil  BY <1>b, <1>c, <2>1
  <2>3. CASE clOn
    <3>1. Claim(ClValue, clGone)  BY <1>4, <2>3 DEF ClSecond
    <3>2. PICK number \in ClNumbers \cup {0} : number = ClValue  BY <1>b DEF ClValue
    <3>3. Claim(number, clGone)  BY <3>1, <3>2
    <3>4. clSent' = number /\ clSigning' = clGone  BY <3>3 DEF Claim
    <3>5. \E all \in BOOLEAN : ClKeeps(all)' /\ ClHears(all)'
      <4>1. PICK gone \in BOOLEAN : gone = clGone  BY <1>b
      <4>2. Claim(number, gone)  BY <3>3, <4>1
      <4>. QED  BY <1>b, <2>1, <2>2, <2>3, <4>2, ClaimKeeps
    <3>. QED  BY <1>b, <2>1, <2>2, <3>2, <3>4, <3>5 DEF ClaimsInv
  <2>4. CASE ~clOn
    <3>1. UNCHANGED <<clSent, clSigning, clFeatures, clWire>>  BY <1>4, <2>4 DEF ClSecond
    <3>2. ClKeeps(full)'  BY <1>a, <2>1, <3>1 DEF ClKeeps
    <3>3. ClHears(full)'
      <4>1. CASE clLink
        <5>1. /\ clScale = clSent /\ (clSigning => clColour) /\ (~clSigning => clTintUntil = 0)
              /\ clTintUntil = 0 \/ clUntil = ClLease \/ clTintUntil <= clUntil
          BY <1>a, <2>1, <4>1, QuietWire
        <5>2. /\ clScale' = clSent' /\ (clSigning' => clColour') /\ (~clSigning' => clTintUntil' = 0)
              /\ clTintUntil' <= clUntil'
          BY <1>b, <1>c, <2>1, <3>1, <5>1
        <5>3. PICK no \in BOOLEAN : no = FALSE  BY Zenon
        <5>4. PICK k : k = 0  OBVIOUS
        <5>5. clWire' = <<>>  BY <2>1, <3>1 DEF ClQuiet
        <5>6. ClWritten(no, no, no, no, no, no, k)'  BY <5>3, <5>5 DEF ClWritten, ClSpelt
        <5>7. ClAgree(full, no, no, no, no, no, no, k)'  BY <5>2, <5>3 DEF ClAgree
        <5>8. /\ clTintUntil' > 0 => clColour'
              /\ ~full => clTintUntil' = 0
              /\ clScale' = ClUnset \/ clSent' # ClUnset
          BY <1>a, <1>b, <1>c, <2>1, <2>2, <3>1 DEF ClHears
        <5>. QED  BY <2>1, <4>1, <5>3, <5>6, <5>7, <5>8 DEF ClHears
      <4>2. CASE ~clLink
        <5>1. /\ clTintUntil' > 0 => clColour'
              /\ ~full => clTintUntil' = 0
              /\ clScale' = ClUnset \/ clSent' # ClUnset
          BY <1>a, <1>b, <1>c, <2>1, <2>2, <3>1 DEF ClHears
        <5>2. clWire' = <<>> /\ ~clLink'  BY <2>1, <3>1, <4>2 DEF ClQuiet
        <5>. QED  BY <5>1, <5>2 DEF ClHears
      <4>. QED  BY <4>1, <4>2
    <3>. QED  BY <1>b, <2>1, <2>2, <3>1, <3>2, <3>3 DEF ClaimsInv
  <2>. QED  BY <2>3, <2>4
<1>5. CASE ClAccept
  <2>1. /\ \E all \in BOOLEAN : ClKeeps(all)' /\ ClHears(all)'
        /\ clScale' \in ClNumbers \cup {0, ClUnset} /\ clUntil' \in 0..ClLease /\ clTintUntil' \in 0..ClLease
        /\ clColour' \in BOOLEAN
        /\ Head(clWire)[1] = "claim" /\ Head(clWire)[2] => clScale' = Head(clWire)[3]
    BY <1>5, AcceptKeeps
  <2>2. UNCHANGED <<clPlugin, clLink>>  BY <1>5 DEF ClAccept
  <2>. QED  BY <1>b, <2>1, <2>2 DEF ClaimsInv, clPlugin
<1>6. CASE ClDisconnect
  <2>1. UNCHANGED <<clPlugin, clFeatures, clModule>> /\ clLink' = FALSE /\ clWire' = <<>>  BY <1>6 DEF ClDisconnect
  <2>2. ClKeeps(full)' /\ ClHears(full)'  BY <1>a, <2>1 DEF ClKeeps, ClHears, clPlugin, clModule
  <2>. QED  BY <1>b, <2>1, <2>2 DEF ClaimsInv, clPlugin, clModule
<1>7. ASSUME NEW anew \in BOOLEAN, ClConnect(anew) PROVE ClaimsInv'
  <2>1. \E all \in BOOLEAN : ClKeeps(all)' /\ ClHears(all)'  BY <1>7, ConnectKeeps
  <2>2. /\ UNCHANGED clPlugin /\ clLink' = TRUE
        /\ \/ clScale' = ClUnset /\ clColour' = FALSE /\ clUntil' = 0 /\ clTintUntil' = 0
           \/ clScale' = clScale /\ clColour' = clColour /\ clUntil' = clUntil /\ clTintUntil' = clTintUntil
    BY <1>7 DEF ClConnect, clModule
  <2>. QED  BY <1>b, <1>c, <2>1, <2>2 DEF ClaimsInv, clPlugin
<1>8. CASE UNCHANGED clVars
  <2>1. UNCHANGED <<clPlugin, clFeatures, clModule, clLink, clWire>>  BY <1>8 DEF clVars
  <2>2. ClKeeps(full)' /\ ClHears(full)'  BY <1>a, <2>1, HeardStill DEF clPlugin, clModule
  <2>. QED  BY <1>b, <2>1, <2>2 DEF ClaimsInv, clPlugin, clModule
<1>. QED  BY <1>1, <1>2, <1>3, <1>4, <1>5, <1>6, <1>7, <1>8 DEF ClaimsNext

LEMMA ClaimsTyped == ClaimsInv => ClaimsTypeOK /\ SignedInColour
<1>. SUFFICES ASSUME ClaimsInv PROVE ClaimsTypeOK /\ SignedInColour  OBVIOUS
<1>1. PICK full \in BOOLEAN : ClKeeps(full) /\ ClHears(full)  BY DEF ClaimsInv
<1>2. Len(clFeatures) <= 4
  <2>1. \E a, b, c, d : \/ clFeatures = <<>> \/ clFeatures = <<a>> \/ clFeatures = <<a, b>> \/ clFeatures = <<a, b, c, d>>
    BY <1>1 DEF ClKeeps
  <2>2. PICK a, b, c, d : \/ clFeatures = <<>> \/ clFeatures = <<a>> \/ clFeatures = <<a, b>> \/ clFeatures = <<a, b, c, d>>
    BY <2>1
  <2>3. Len(<<a>>) = 1 /\ Len(<<a, b>>) = 2 /\ Len(<<a, b, c, d>>) = 4 /\ Len(<<>>) = 0  OBVIOUS
  <2>4. Len(clFeatures) = 0 \/ Len(clFeatures) = 1 \/ Len(clFeatures) = 2 \/ Len(clFeatures) = 4  BY <2>2, <2>3, Zenon
  <2>5. \A n : n = 0 \/ n = 1 \/ n = 2 \/ n = 4 => n <= 4  OBVIOUS
  <2>. QED  BY <2>4, <2>5, Zenon
<1>3. ClQuiet /\ clLink => clTintUntil <= clUntil
  <2>. SUFFICES ASSUME ClQuiet, clLink PROVE clTintUntil <= clUntil  OBVIOUS
  <2>1. clTintUntil = 0 \/ clUntil = ClLease \/ clTintUntil <= clUntil  BY <1>1, QuietWire
  <2>2. clTintUntil \in 0..ClLease /\ clUntil \in 0..ClLease  BY DEF ClaimsInv
  <2>. QED  BY <2>1, <2>2, ClaimsAssumption
<1>4. SignedInColour  BY <1>1 DEF ClHears, SignedInColour
<1>5. /\ clSent \in ClNumbers \cup {0, ClUnset} /\ clScale \in ClNumbers \cup {0, ClUnset}
      /\ clUntil \in 0..ClLease /\ clTintUntil \in 0..ClLease
  BY DEF ClaimsInv
<1>. QED  BY <1>2, <1>3, <1>4, <1>5 DEF ClaimsTypeOK

\* Claims on the module (features/collider, features/glow): whatever the link did, a claim
\* is renewed on the number it applies, the sign is worn in its colour, and with the link
\* up it outlasts no claim of the collider's.
THEOREM ClaimedInOrder == Spec => []ClaimsTypeOK /\ []SignedInColour /\ NeverOnOld
<1>1. Init => ClaimsInv  BY ClaimsStart DEF Init
<1>2. ClaimsInv /\ [Next]_vars => ClaimsInv'  BY ErrandSteps, ClaimsGoOn
<1>3. ClaimsInv /\ [Next]_vars =>
        [ClAccept /\ Head(clWire)[1] = "claim" /\ Head(clWire)[2] => clScale' = Head(clWire)[3]]_clVars
  BY ErrandSteps, ClaimsGoOn
<1>4. Spec => []ClaimsInv  BY <1>1, <1>2, PTL DEF Spec
<1>5. Spec => NeverOnOld  BY <1>3, <1>4, PTL DEF Spec, NeverOnOld
<1>. QED  BY <1>4, <1>5, ClaimsTyped, PTL
------------------------------------------------------------------------------
(* Following: how often a jump is asked for, and how often in vain.            *)

\* The jump that waits, as the plugin and as the queue know it.
JumpShape ==
  /\ fwPending = FwNobody \/ fwPending \in [target : FwPlayers, sent : BOOLEAN, age : Nat]
  /\ fwQueued = FwNobody \/ fwQueued \in [target : FwPlayers, left : 0 .. FwInterval]
  /\ fwHere \subseteq FwPlayers
  /\ (fwPending # FwNobody /\ ~fwPending.sent) => (fwQueued # FwNobody /\ fwQueued.target = fwPending.target)

\* Nothing is queued within the interval, and the count of failures is the count of
\* jumps that led nowhere, at the bound of which the map is left alone.
JumpCount ==
  /\ fwSince \in 0 .. FwInterval /\ (fwQueued # FwNobody => fwSince >= FwInterval)
  /\ fwFailures \in Nat /\ fwMissed = fwFailures /\ fwBlocked \in BOOLEAN
  /\ fwBlocked \/ fwFailures < FwMaxFailures

LEMMA FollowingStarts == FollowingInit => JumpShape /\ JumpCount /\ FollowingTypeOK
<1>. SUFFICES ASSUME FollowingInit PROVE JumpShape /\ JumpCount /\ FollowingTypeOK  OBVIOUS
<1>1. FwInterval \in Nat /\ FwMaxFailures \in Nat /\ FwMaxFailures > 0  BY FollowingAssumption
<1>2. fwBlocked \in BOOLEAN  BY Zenon DEF FollowingInit
<1>. QED  BY <1>1, <1>2 DEF FollowingInit, JumpShape, JumpCount, FollowingTypeOK

LEMMA JumpTyped == JumpShape /\ JumpCount => FollowingTypeOK
BY DEF JumpShape, JumpCount, FollowingTypeOK

LEMMA ShapeStep == ASSUME JumpShape, JumpCount, [FollowingNext]_fwVars PROVE JumpShape'
<1>. DEFINE Jumps == [target : FwPlayers, sent : BOOLEAN, age : Nat]
            Asks == [target : FwPlayers, left : 0 .. FwInterval]
<1>1. FwInterval \in Nat /\ FwInterval > 0 /\ FwConfirm \in Nat  BY FollowingAssumption
<1>2. CASE UNCHANGED fwVars  BY <1>2 DEF fwVars, fwTeleport, JumpShape
<1>3. CASE NoBoss  BY <1>3 DEF NoBoss, JumpShape
<1>4. ASSUME NEW arrived \in BOOLEAN, NEW engage \in BOOLEAN, NEW p \in FwPlayers \cup {FwNobody},
             TeleportTick(arrived, p, engage)
      PROVE  JumpShape'
  <2>1. fwHere' = fwHere  BY <1>4 DEF TeleportTick
  <2>2. CASE fwBlocked' \/ ~(p \in fwHere /\ fwSince >= FwInterval)
    <3>1. fwPending' = FwNobody /\ fwQueued' = fwQueued  BY <1>4, <2>2 DEF TeleportTick, JumpTo
    <3>. QED  BY <2>1, <3>1 DEF JumpShape
  <2>3. CASE ~fwBlocked' /\ p \in fwHere /\ fwSince >= FwInterval
    <3>. DEFINE never == FALSE
                zero == 0
    <3>1. fwPending' = [target |-> p, sent |-> never, age |-> zero] /\ fwQueued' = [target |-> p, left |-> FwInterval]
      BY <1>4, <2>3 DEF TeleportTick, JumpTo
    <3>2. p \in FwPlayers  BY <2>3 DEF JumpShape
    <3>3. zero \in Nat /\ FwInterval \in 0 .. FwInterval  BY <1>1
    <3>4. never \in BOOLEAN  BY Zenon
    <3>. HIDE DEF never, zero
    <3>5. fwPending' \in Jumps /\ fwQueued' \in Asks  BY <3>1, <3>2, <3>3, <3>4
    <3>6. fwQueued' # FwNobody  BY <3>1, <3>2, <3>3, FollowingAssumption
    <3>7. fwPending'.target = p /\ fwQueued'.target = p  BY <3>1
    <3>. QED  BY <2>1, <3>5, <3>6, <3>7 DEF JumpShape
  <2>. QED  BY <2>2, <2>3
<1>5. CASE TeleportSent
  <2>1. fwQueued' = FwNobody /\ fwHere' = fwHere  BY <1>5 DEF TeleportSent
  <2>2. CASE fwPending # FwNobody /\ ~fwPending.sent
    <3>. DEFINE yes == TRUE
                zero == 0
    <3>1. fwPending' = [fwPending EXCEPT !.sent = yes, !.age = zero] /\ fwPending \in Jumps
      BY <1>5, <2>2 DEF TeleportSent, JumpShape
    <3>2. yes \in BOOLEAN /\ yes  BY Zenon
    <3>3. zero \in Nat  OBVIOUS
    <3>. HIDE DEF yes, zero
    <3>4. fwPending' \in Jumps /\ fwPending'.sent = yes  BY <3>1, <3>2, <3>3
    <3>. QED  BY <2>1, <3>2, <3>4 DEF JumpShape
  <2>3. CASE ~(fwPending # FwNobody /\ ~fwPending.sent)
    <3>1. fwPending' = fwPending  BY <1>5, <2>3 DEF TeleportSent
    <3>. QED  BY <2>1, <2>3, <3>1 DEF JumpShape
  <2>. QED  BY <2>2, <2>3
<1>6. CASE TeleportLapsed
  <2>1. fwQueued' = FwNobody /\ fwHere' = fwHere
        /\ fwPending' = IF fwPending # FwNobody /\ ~fwPending.sent THEN FwNobody ELSE fwPending
    BY <1>6 DEF TeleportLapsed, LapsedHeard
  <2>. QED  BY <2>1 DEF JumpShape
<1>7. ASSUME NEW p \in FwPlayers \cup {FwNobody}, ApplyPick(p) PROVE JumpShape'
  BY <1>7 DEF ApplyPick, fwTeleport, JumpShape
<1>8. CASE FollowStands  BY <1>8 DEF FollowStands, fwTeleport, JumpShape
<1>9. CASE FollowTick  BY <1>9 DEF FollowTick, fwTeleport, JumpShape
<1>10. CASE PlayersChange  BY <1>10 DEF PlayersChange, fwTeleport, JumpShape
<1>11. CASE FollowingTime
  <2>. DEFINE sent == fwPending # FwNobody /\ fwPending.sent
  <2>1. fwHere' = fwHere /\ (sent => fwPending' = [fwPending EXCEPT !.age = FwUp(@, FwConfirm + 1)])
        /\ (~sent => fwPending' = fwPending)
        /\ (fwQueued = FwNobody => fwQueued' = FwNobody)
        /\ (fwQueued # FwNobody => fwQueued' = [fwQueued EXCEPT !.left = @ - 1] /\ fwQueued.left > 1)
    BY <1>11 DEF FollowingTime
  <2>2. fwQueued # FwNobody => fwQueued' \in Asks /\ fwQueued'.target = fwQueued.target
    <3>. SUFFICES ASSUME fwQueued # FwNobody PROVE fwQueued' \in Asks /\ fwQueued'.target = fwQueued.target  OBVIOUS
    <3>1. fwQueued \in Asks  BY DEF JumpShape
    <3>. DEFINE less == fwQueued.left - 1
    <3>2. less \in 0 .. FwInterval /\ fwQueued' = [fwQueued EXCEPT !.left = less]  BY <1>1, <2>1, <3>1
    <3>. HIDE DEF less
    <3>. QED  BY <3>1, <3>2
  <2>3. fwQueued # FwNobody => fwQueued' # FwNobody
    <3>. SUFFICES ASSUME fwQueued # FwNobody PROVE fwQueued' # FwNobody  OBVIOUS
    <3>1. fwQueued' \in Asks  BY <2>2
    <3>2. PICK p \in FwPlayers, n \in 0 .. FwInterval : fwQueued' = [target |-> p, left |-> n]  BY <3>1
    <3>. QED  BY <3>2, FollowingAssumption
  <2>4. sent => fwPending' \in Jumps /\ fwPending'.sent = fwPending.sent
    <3>. SUFFICES ASSUME sent PROVE fwPending' \in Jumps /\ fwPending'.sent = fwPending.sent  OBVIOUS
    <3>1. fwPending \in Jumps  BY DEF JumpShape
    <3>. DEFINE older == FwUp(fwPending.age, FwConfirm + 1)
    <3>2. older \in Nat  BY <1>1, <3>1 DEF FwUp
    <3>3. fwPending' = [fwPending EXCEPT !.age = older]  BY <2>1, <3>1
    <3>. HIDE DEF older
    <3>. QED  BY <3>1, <3>2, <3>3
  <2>5. CASE sent  BY <2>1, <2>2, <2>3, <2>4, <2>5 DEF JumpShape
  <2>6. CASE ~sent  BY <2>1, <2>2, <2>3, <2>6 DEF JumpShape
  <2>. QED  BY <2>5, <2>6
<1>12. ASSUME NEW allowed \in BOOLEAN, NEW here \in SUBSET FwPlayers, FollowingMap(allowed, here) PROVE JumpShape'
  BY <1>12 DEF FollowingMap, JumpShape
<1>. QED  BY <1>2, <1>3, <1>4, <1>5, <1>6, <1>7, <1>8, <1>9, <1>10, <1>11, <1>12 DEF FollowingNext, TeleportTicks

LEMMA CountStep ==
  ASSUME JumpCount, [FollowingNext]_fwVars
  PROVE  /\ JumpCount'
         /\ [fwStep' = "jumps" => fwSince >= FwInterval]_fwVars
         /\ [fwStep' = "asks" => fwMissed' < FwMaxFailures]_fwVars
<1>. DEFINE Fine == JumpCount' /\ (fwStep' = "jumps" => fwSince >= FwInterval)
                    /\ (fwStep' = "asks" => fwMissed' < FwMaxFailures)
<1>1. FwInterval \in Nat /\ FwInterval > 0 /\ FwMaxFailures \in Nat /\ FwMaxFailures > 0  BY FollowingAssumption
<1>2. CASE UNCHANGED fwVars  BY <1>2 DEF fwVars, fwTeleport, JumpCount
<1>3. CASE NoBoss  BY <1>3 DEF NoBoss, JumpCount
<1>4. ASSUME NEW arrived \in BOOLEAN, NEW engage \in BOOLEAN, NEW p \in FwPlayers \cup {FwNobody},
             TeleportTick(arrived, p, engage)
      PROVE  Fine
  <2>1. /\ fwFailures' \in Nat /\ fwMissed' = fwFailures'
        /\ fwBlocked' \/ fwFailures' < FwMaxFailures
    <3>1. CASE Reached(arrived)
      <4>1. fwFailures' = 0 /\ fwMissed' = 0  BY <1>4, <3>1 DEF TeleportTick
      <4>. QED  BY <1>1, <4>1
    <3>2. CASE ~Reached(arrived) /\ JumpLost
      <4>1. fwFailures' = fwFailures + 1 /\ fwMissed' = fwMissed + 1
            /\ fwBlocked' = (fwBlocked \/ fwFailures + 1 >= FwMaxFailures)
        BY <1>4, <3>2 DEF TeleportTick, Counted
      <4>2. fwBlocked' \/ ~(fwFailures + 1 >= FwMaxFailures)  BY <4>1
      <4>3. fwFailures \in Nat /\ fwMissed = fwFailures  BY DEF JumpCount
      <4>. QED  BY <1>1, <4>1, <4>2, <4>3
    <3>3. CASE ~Reached(arrived) /\ ~JumpLost
      <4>1. UNCHANGED <<fwFailures, fwBlocked, fwMissed>>  BY <1>4, <3>3 DEF TeleportTick
      <4>. QED  BY <4>1 DEF JumpCount
    <3>. QED  BY <3>1, <3>2, <3>3
  <2>2. fwBlocked' \in BOOLEAN
    <3>1. fwBlocked' = fwBlocked \/ fwBlocked' = (fwBlocked \/ fwFailures + 1 >= FwMaxFailures)
      BY <1>4 DEF TeleportTick, Counted
    <3>2. fwBlocked \in BOOLEAN  BY DEF JumpCount
    <3>3. (fwBlocked \/ fwFailures + 1 >= FwMaxFailures) \in BOOLEAN  BY Zenon
    <3>. QED  BY <3>1, <3>2, <3>3
  <2>3. fwSince' = fwSince /\ fwStep' # "jumps"  BY <1>4 DEF TeleportTick, JumpTo
  <2>4. fwQueued' # FwNobody => fwSince >= FwInterval  BY <1>4 DEF TeleportTick, JumpTo, JumpCount
  <2>5. fwStep' = "asks" => ~fwBlocked'  BY <1>4 DEF TeleportTick, JumpTo
  <2>. QED  BY <2>1, <2>2, <2>3, <2>4, <2>5 DEF JumpCount
<1>5. CASE TeleportSent
  <2>1. fwQueued # FwNobody /\ fwQueued' = FwNobody /\ fwSince' = 0 /\ fwStep' = "jumps"
        /\ UNCHANGED <<fwFailures, fwBlocked, fwMissed>>
    BY <1>5 DEF TeleportSent
  <2>. QED  BY <1>1, <2>1 DEF JumpCount
<1>6. CASE TeleportLapsed  BY <1>6 DEF TeleportLapsed, JumpCount
<1>7. ASSUME NEW p \in FwPlayers \cup {FwNobody}, ApplyPick(p) PROVE Fine  BY <1>7 DEF ApplyPick, fwTeleport, JumpCount
<1>8. CASE FollowStands  BY <1>8 DEF FollowStands, fwTeleport, JumpCount
<1>9. CASE FollowTick  BY <1>9 DEF FollowTick, fwTeleport, JumpCount
<1>10. CASE PlayersChange  BY <1>10 DEF PlayersChange, fwTeleport, JumpCount
<1>11. CASE FollowingTime
  <2>1. (fwQueued' # FwNobody => fwQueued # FwNobody) /\ fwSince' = FwUp(fwSince, FwInterval)
        /\ fwStep' = "none" /\ UNCHANGED <<fwFailures, fwBlocked, fwMissed>>
    BY <1>11 DEF FollowingTime
  <2>. QED  BY <1>1, <2>1 DEF FwUp, JumpCount
<1>12. ASSUME NEW allowed \in BOOLEAN, NEW here \in SUBSET FwPlayers, FollowingMap(allowed, here) PROVE Fine
  <2>1. /\ fwQueued' = FwNobody /\ fwSince' = FwInterval /\ fwFailures' = 0 /\ fwMissed' = 0
        /\ fwStep' = "none" /\ fwBlocked' = ~allowed
    BY <1>12 DEF FollowingMap
  <2>2. fwBlocked' \in BOOLEAN  BY <2>1, Zenon
  <2>. QED  BY <1>1, <2>1, <2>2 DEF JumpCount
<1>. QED  BY <1>2, <1>3, <1>4, <1>5, <1>6, <1>7, <1>8, <1>9, <1>10, <1>11, <1>12 DEF FollowingNext, TeleportTicks

\* Jumping to players (features/autoteleport): two jumps of a map are an interval apart by
\* when they were sent, and a map whose server refuses them is left alone.
THEOREM JumpsInTime == Spec => []FollowingTypeOK /\ JumpsApart /\ GivesUpOnMap
<1>. DEFINE Jumping == JumpShape /\ JumpCount
<1>1. Init => Jumping  BY FollowingStarts DEF Init
<1>2. Jumping /\ [Next]_vars => Jumping'  BY ErrandSteps, ShapeStep, CountStep
<1>3. Jumping /\ [Next]_vars => /\ [fwStep' = "jumps" => fwSince >= FwInterval]_fwVars
                                /\ [fwStep' = "asks" => fwMissed' < FwMaxFailures]_fwVars
  BY ErrandSteps, CountStep
<1>4. Jumping => FollowingTypeOK  BY JumpTyped
<1>. HIDE DEF Jumping
<1>5. Spec => []Jumping  BY <1>1, <1>2, PTL DEF Spec
<1>6. Spec => JumpsApart  BY <1>3, <1>5, PTL DEF Spec, JumpsApart
<1>7. Spec => GivesUpOnMap  BY <1>3, <1>5, PTL DEF Spec, GivesUpOnMap
<1>. QED  BY <1>4, <1>5, <1>6, <1>7, PTL
------------------------------------------------------------------------------
(* Looting: what waits, what is pending and what left.                         *)

LtWhole ==
  /\ ltBag \in [LtSlots -> LtTypes \cup {LtNothing}] /\ ltDropped \subseteq LtTypes
  /\ ltHeld \in [LtSlots \X LtTypes -> 0 .. LtRetry]
  /\ ltSince \in 0 .. LtFloor /\ ltBlock \in 0 .. LtGuard /\ ltPause \in 0 .. LtAtLeast(LtHands, LtRefusal)
  /\ ltPending \in LtMoves \cup {LtNothing}
  /\ ltQueue \in [{"move", "drink"} -> LtRequests \cup {LtNothing}]

\* A move of the queue's that is the pending one, and only that, is unsent.
OwnMove(queue) == queue.move # LtNothing /\ queue.move.own
Unsent(pending) == pending # LtNothing /\ pending.since = LtUnsent
LtPaired(queue, pending) ==
  /\ OwnMove(queue) => pending # LtNothing
  /\ pending # LtNothing => (pending.since = LtUnsent <=> OwnMove(queue))

\* What left last: nothing was heard of since that is older, nothing waits that came
\* within the floor of it, and a potion's is guarded for what is left of the guard.
LtOuts == [slot : LtSlots, type : LtTypes, dest : LtDests \cup {LtNothing}, age : Nat, over : BOOLEAN]
LtApart(out, since, queue, block) ==
  /\ out \in LtOuts /\ since <= out.age
  /\ queue.move # LtNothing => out.age >= LtFloor
  /\ out.type \in LtQuaff => block + out.age >= LtGuard
LtLeft == ltOut # LtNothing => LtApart(ltOut, ltSince, ltQueue, ltBlock)

LootInv == LtWhole /\ LtPaired(ltQueue, ltPending) /\ LtLeft

LEMMA LootTyped == LootInv => LootTypeOK
<1>. SUFFICES ASSUME LootInv PROVE LootTypeOK  OBVIOUS
<1>1. ltPending # LtNothing => (ltPending.since = LtUnsent) = (ltQueue.move # LtNothing /\ ltQueue.move.own)
  BY DEF LootInv, LtPaired, OwnMove
<1>. QED  BY <1>1 DEF LootInv, LtWhole, LootTypeOK

LEMMA LtFigures ==
  /\ LtFloor \in Nat /\ LtFloor > 0 /\ LtRetry \in Nat /\ LtRetry > 0 /\ LtPatience \in Nat /\ LtPatience > 0
  /\ LtExpiry \in Nat /\ LtExpiry > 0 /\ LtRefusal \in Nat /\ LtRefusal > 0 /\ LtHands \in Nat /\ LtHands > 0
  /\ LtGuard \in Nat /\ LtGuard > 0 /\ LtAtLeast(LtHands, LtRefusal) \in Nat
  /\ LtHands <= LtAtLeast(LtHands, LtRefusal) /\ LtRefusal <= LtAtLeast(LtHands, LtRefusal)
  /\ LtUnsent \notin Nat /\ LtNothing \notin LtMoves /\ LtNothing \notin LtRequests /\ LtNothing \notin LtTypes
BY LootAssumption DEF LtAtLeast

LEMMA NoHoldsTyped == LtNoHolds \in [LtSlots \X LtTypes -> 0 .. LtRetry]
<1>. DEFINE zero == 0
<1>1. zero \in 0 .. LtRetry  BY LtFigures
<1>. HIDE DEF zero
<1>2. [k \in LtSlots \X LtTypes |-> zero] \in [LtSlots \X LtTypes -> 0 .. LtRetry]  BY <1>1
<1>3. LtNoHolds = [k \in LtSlots \X LtTypes |-> zero]  BY DEF LtNoHolds, zero
<1>. QED  BY <1>2, <1>3

LEMMA IdleTyped == LtIdle \in [{"move", "drink"} -> LtRequests \cup {LtNothing}] /\ LtIdle.move = LtNothing /\ LtIdle.drink = LtNothing
BY DEF LtIdle

LEMMA LootStarts == LootInit => LootInv
<1>. SUFFICES ASSUME LootInit PROVE LootInv  OBVIOUS
<1>1. ltHeld \in [LtSlots \X LtTypes -> 0 .. LtRetry]  BY NoHoldsTyped DEF LootInit
<1>2. ltQueue \in [{"move", "drink"} -> LtRequests \cup {LtNothing}] /\ ltQueue.move = LtNothing  BY IdleTyped DEF LootInit
<1>3. ltBag \in [LtSlots -> LtTypes \cup {LtNothing}]
  <2>1. ltBag \in [LtSlots -> LtTypes]  BY DEF LootInit
  <2>. QED  BY <2>1
<1>4. ltSince \in 0 .. LtFloor /\ ltBlock \in 0 .. LtGuard /\ ltPause \in 0 .. LtAtLeast(LtHands, LtRefusal)
  BY LtFigures DEF LootInit
<1>5. ltDropped = {} /\ ltPending = LtNothing /\ ltOut = LtNothing  BY DEF LootInit
<1>. QED  BY <1>1, <1>2, <1>3, <1>4, <1>5 DEF LootInv, LtWhole, LtPaired, OwnMove, LtLeft

\* A request that is let go of is the same but for whose it is.
LEMMA DisownedIs ==
  ASSUME NEW queue \in [{"move", "drink"} -> LtRequests \cup {LtNothing}]
  PROVE  /\ Disowned(queue) \in [{"move", "drink"} -> LtRequests \cup {LtNothing}]
         /\ ~OwnMove(Disowned(queue)) /\ Disowned(queue).drink = queue.drink
         /\ (Disowned(queue).move = LtNothing <=> queue.move = LtNothing)
<1>. DEFINE no == FALSE
            kept == IF queue.move = LtNothing THEN queue.move ELSE [queue.move EXCEPT !.own = no]
<1>1. no \in BOOLEAN /\ ~no  BY Zenon
<1>2. Disowned(queue) = [queue EXCEPT !.move = kept]  BY DEF Disowned
<1>. HIDE DEF no
<1>3. queue.move # LtNothing => kept \in LtRequests /\ kept.own = no
  <2>1. queue.move # LtNothing => queue.move \in LtRequests  OBVIOUS
  <2>. QED  BY <1>1, <2>1 DEF LtRequests
<1>4. queue.move # LtNothing => kept # LtNothing  BY <1>3, LtFigures
<1>5. queue.move = LtNothing => kept = LtNothing  OBVIOUS
<1>. HIDE DEF kept
<1>6. kept \in LtRequests \cup {LtNothing}  BY <1>3, <1>5
<1>7. Disowned(queue) \in [{"move", "drink"} -> LtRequests \cup {LtNothing}]
      /\ Disowned(queue).move = kept /\ Disowned(queue).drink = queue.drink
  BY <1>2, <1>6
<1>. QED  BY <1>1, <1>3, <1>4, <1>5, <1>7 DEF OwnMove

\* What is let go of is paired with nothing; what is kept, as it was.
LEMMA OwnedIs ==
  ASSUME NEW queue \in [{"move", "drink"} -> LtRequests \cup {LtNothing}], NEW pending
  PROVE  /\ Owned(queue, pending) \in [{"move", "drink"} -> LtRequests \cup {LtNothing}]
         /\ (Owned(queue, pending).move = LtNothing <=> queue.move = LtNothing)
         /\ (pending = LtNothing => LtPaired(Owned(queue, pending), pending))
         /\ (pending # LtNothing => Owned(queue, pending) = queue)
BY DisownedIs DEF Owned, LtPaired

\* The slot chosen holds something that is wanted.
LEMMA ChosenIs == ASSUME LtWhole, Choice # LtNothing PROVE Choice \in LtSlots /\ ltBag[Choice] \in LtTypes
<1>. DEFINE open == {s \in LtSlots : ~Skipped(s)}
            first == CHOOSE s \in open : \A o \in open : s <= o
<1>1. open # {} /\ Choice = first  BY DEF Choice
<1>2. open \in SUBSET Nat  BY LootAssumption
<1>3. \E s \in open : \A o \in open : s <= o
  <2>. HIDE DEF open
  <2>. QED  BY <1>1, <1>2, LeastOne
<1>4. first \in open  BY <1>3
<1>5. Choice \in LtSlots /\ ~Skipped(Choice)  BY <1>1, <1>4
<1>6. ltBag[Choice] # LtNothing  BY <1>5 DEF Skipped
<1>. QED  BY <1>5, <1>6 DEF LtWhole

\* A function whose value is written as a literal keeps its kind: 0 and TRUE by name.
LEMMA DatedIs ==
  ASSUME NEW pending \in LtMoves
  PROVE  [pending EXCEPT !.since = 0] \in LtMoves /\ [pending EXCEPT !.since = 0].since = 0
<1>. DEFINE zero == 0
<1>1. zero \in 0 .. LtPatience \cup {LtUnsent}  BY LtFigures
<1>. HIDE DEF zero
<1>2. [pending EXCEPT !.since = zero] \in LtMoves /\ [pending EXCEPT !.since = zero].since = zero  BY <1>1 DEF LtMoves
<1>. QED  BY <1>2 DEF zero

\* What is asked for is a request of the queue's, and a move the pending one as well,
\* unless the one it supersedes takes the pending one with it.
LEMMA AskedIs ==
  ASSUME LtWhole, LtPaired(ltQueue, ltPending), NEW slot \in LtSlots, ltBag[slot] \in LtTypes,
         AskMove(slot) \/ AskDrink(slot, LtNothing)
  PROVE  /\ ltPending' \in LtMoves \cup {LtNothing}
         /\ ltQueue' \in [{"move", "drink"} -> LtRequests \cup {LtNothing}]
         /\ LtPaired(ltQueue', ltPending')
<1>. DEFINE yes == TRUE
            no == FALSE
            type == ltBag[slot]
            dest == Destination(type)
<1>1. yes \in BOOLEAN /\ yes /\ no \in BOOLEAN /\ ~no  BY Zenon
<1>2. dest \in LtDests \cup {LtNothing}  BY DEF Destination, LtBelt, LtDests
<1>3. type \in LtTypes /\ LtExpiry \in 0 .. LtExpiry  BY LtFigures
<1>4. CASE AskDrink(slot, LtNothing)
  <2>. DEFINE request == [slot |-> slot, type |-> type, dest |-> LtNothing, left |-> LtExpiry, own |-> no]
              queue == [ltQueue EXCEPT !["drink"] = request]
  <2>1. ltPending' = LtNothing /\ ltQueue' = Owned(queue, ltPending')  BY <1>4 DEF AskDrink, Asked
  <2>2. request \in LtRequests
    <3>. HIDE DEF no, type
    <3>. QED  BY <1>1, <1>3 DEF LtRequests
  <2>. HIDE DEF request
  <2>3. queue \in [{"move", "drink"} -> LtRequests \cup {LtNothing}] /\ queue.move = ltQueue.move  BY <2>2 DEF LtWhole
  <2>. HIDE DEF queue
  <2>. QED  BY <2>1, <2>3, OwnedIs
<1>5. CASE AskMove(slot) /\ ~AskDrink(slot, LtNothing)
  <2>. DEFINE request == [slot |-> slot, type |-> type, dest |-> dest, left |-> LtExpiry, own |-> yes]
              move == [slot |-> slot, type |-> type, dest |-> dest, since |-> LtUnsent]
              queue == [ltQueue EXCEPT !["move"] = request]
  <2>1. ltPending' = (IF ltQueue["move"] # LtNothing THEN LtNothing ELSE move) /\ ltQueue' = Owned(queue, ltPending')
    BY <1>5 DEF AskMove, Asked
  <2>2. request \in LtRequests /\ request.own = yes /\ move \in LtMoves /\ move.since = LtUnsent
    <3>. HIDE DEF yes, type, dest
    <3>. QED  BY <1>1, <1>2, <1>3 DEF LtRequests, LtMoves
  <2>. HIDE DEF request, move
  <2>3. queue \in [{"move", "drink"} -> LtRequests \cup {LtNothing}] /\ queue.move = request  BY <2>2 DEF LtWhole
  <2>. HIDE DEF queue
  <2>4. ltQueue' \in [{"move", "drink"} -> LtRequests \cup {LtNothing}]  BY <2>1, <2>3, OwnedIs
  <2>5. ltPending' \in LtMoves \cup {LtNothing}  BY <2>1, <2>2
  <2>6. CASE ltPending' = LtNothing  BY <2>1, <2>3, <2>4, <2>5, <2>6, OwnedIs
  <2>7. CASE ltPending' # LtNothing
    <3>1. ltPending' = move /\ ltQueue' = queue  BY <2>1, <2>3, <2>7, OwnedIs
    <3>2. request # LtNothing  BY <2>2, LtFigures
    <3>3. OwnMove(ltQueue')  BY <1>1, <2>2, <2>3, <3>1, <3>2 DEF OwnMove
    <3>. QED  BY <1>5, <2>2, <2>4, <2>5, <2>7, <3>1, <3>3 DEF LtPaired
  <2>. QED  BY <2>6, <2>7
<1>. QED  BY <1>4, <1>5

LEMMA TickLoots == ASSUME LootInv, NEW onBag \in BOOLEAN, LootTick(onBag) PROVE LootInv'
<1>1. /\ UNCHANGED <<ltBag, ltInv, ltSince, ltBlock, ltPause, ltDropped, ltOut>>
      /\ IF onBag /\ Taking(Resolved) /\ Choice # LtNothing
         THEN /\ IF Drunk(ltBag[Choice]) THEN AskDrink(Choice, Resolved) ELSE AskMove(Choice)
              /\ ltHeld' = [ltHeld EXCEPT ![<<Choice, ltBag[Choice]>>] = LtAtLeast(@, LtRetry)]
         ELSE ltPending' = Resolved /\ ltQueue' = Owned(ltQueue, Resolved) /\ ltHeld' = ltHeld
  BY DEF LootTick, ltWorld
<1>2. Resolved = LtNothing \/ Resolved = ltPending  BY DEF Resolved
<1>3. CASE ~(onBag /\ Taking(Resolved) /\ Choice # LtNothing)
  <2>1. ltPending' = Resolved /\ ltQueue' = Owned(ltQueue, Resolved) /\ ltHeld' = ltHeld  BY <1>1, <1>3
  <2>2. /\ ltQueue' \in [{"move", "drink"} -> LtRequests \cup {LtNothing}]
        /\ (ltQueue'.move = LtNothing <=> ltQueue.move = LtNothing)
        /\ (Resolved = LtNothing => LtPaired(ltQueue', Resolved))
        /\ (Resolved # LtNothing => ltQueue' = ltQueue)
    BY <2>1, OwnedIs DEF LootInv, LtWhole
  <2>3. LtPaired(ltQueue', ltPending')
    <3>1. CASE Resolved = LtNothing  BY <2>1, <2>2, <3>1
    <3>2. CASE Resolved # LtNothing
      <4>1. ltPending' = ltPending /\ ltQueue' = ltQueue  BY <1>2, <2>1, <2>2, <3>2
      <4>. QED  BY <4>1 DEF LootInv
    <3>. QED  BY <3>1, <3>2
  <2>4. LtWhole'  BY <1>1, <1>2, <2>1, <2>2 DEF LootInv, LtWhole
  <2>5. LtLeft'  BY <1>1, <2>2 DEF LootInv, LtLeft, LtApart
  <2>. QED  BY <2>3, <2>4, <2>5 DEF LootInv
<1>4. CASE onBag /\ Taking(Resolved) /\ Choice # LtNothing
  <2>. DEFINE held == LtAtLeast(ltHeld[<<Choice, ltBag[Choice]>>], LtRetry)
  <2>1. Resolved = LtNothing /\ ltSince = LtFloor  BY <1>4 DEF Taking
  <2>2. Choice \in LtSlots /\ ltBag[Choice] \in LtTypes  BY <1>4, ChosenIs DEF LootInv
  <2>3. AskMove(Choice) \/ AskDrink(Choice, LtNothing)  BY <1>1, <1>4, <2>1
  <2>4. /\ ltPending' \in LtMoves \cup {LtNothing}
        /\ ltQueue' \in [{"move", "drink"} -> LtRequests \cup {LtNothing}]
        /\ LtPaired(ltQueue', ltPending')
    BY <2>2, <2>3, AskedIs DEF LootInv
  <2>5. held \in 0 .. LtRetry
    <3>1. ltHeld[<<Choice, ltBag[Choice]>>] \in 0 .. LtRetry  BY <2>2 DEF LootInv, LtWhole
    <3>. QED  BY <3>1, LtFigures DEF LtAtLeast
  <2>6. ltHeld' \in [LtSlots \X LtTypes -> 0 .. LtRetry]
    <3>1. ltHeld' = [ltHeld EXCEPT ![<<Choice, ltBag[Choice]>>] = held] /\ ltHeld \in [LtSlots \X LtTypes -> 0 .. LtRetry]
      BY <1>1, <1>4 DEF LootInv, LtWhole
    <3>. HIDE DEF held
    <3>. QED  BY <2>5, <3>1
  <2>7. LtWhole'  BY <1>1, <2>4, <2>6 DEF LootInv, LtWhole
  <2>8. LtLeft'
    <3>1. ltOut # LtNothing => ltOut.age >= LtFloor
      <4>1. ltOut # LtNothing => ltOut \in LtOuts /\ ltSince <= ltOut.age  BY DEF LootInv, LtLeft, LtApart
      <4>. QED  BY <2>1, <4>1
    <3>. QED  BY <1>1, <3>1 DEF LootInv, LtLeft, LtApart
  <2>. QED  BY <2>4, <2>7, <2>8 DEF LootInv
<1>. QED  BY <1>3, <1>4

LEMMA LeavesLoot ==
  ASSUME LootInv, NEW key \in {"move", "drink"}, Leaves(key)
  PROVE  LootInv' /\ (ltStep' = "move" /\ ltOut # LtNothing => ltOut.age >= LtFloor) /\ ltStep' # "moved"
<1>1. /\ ltQueue[key] # LtNothing /\ ltQueue' = [ltQueue EXCEPT ![key] = LtNothing] /\ ltSince' = 0 /\ ltStep' = key
      /\ UNCHANGED <<ltBag, ltHeld, ltPause, ltDropped>>
  BY DEF Leaves, ltWorld
<1>2. ltQueue' \in [{"move", "drink"} -> LtRequests \cup {LtNothing}] /\ ltSince' \in 0 .. LtFloor
  BY <1>1, LtFigures DEF LootInv, LtWhole
<1>3. CASE key = "drink"
  <2>1. UNCHANGED <<ltPending, ltBlock, ltOut>> /\ ltQueue'.move = ltQueue.move
    BY <1>1, <1>3 DEF Leaves, LootInv, LtWhole
  <2>2. LtWhole' /\ LtPaired(ltQueue', ltPending')
    BY <1>1, <1>2, <2>1 DEF LootInv, LtWhole, LtPaired, OwnMove
  <2>3. LtLeft'
    <3>1. ltOut # LtNothing => LtApart(ltOut, 0, ltQueue', ltBlock)
      <4>1. ltOut \in LtOuts => 0 <= ltOut.age  BY DEF LtOuts
      <4>. QED  BY <2>1, <4>1 DEF LootInv, LtLeft, LtApart
    <3>. QED  BY <1>1, <2>1, <3>1 DEF LtLeft
  <2>. QED  BY <1>1, <1>3, <2>2, <2>3 DEF LootInv
<1>4. CASE key = "move"
  <2>. DEFINE request == ltQueue.move
              no == FALSE
              zero == 0
  <2>1. request # LtNothing /\ request \in LtRequests /\ ltQueue'.move = LtNothing
    BY <1>1, <1>4 DEF LootInv, LtWhole
  <2>2. /\ ltPending' = Dated(request) /\ ltBlock' = Guarded(request.type)
        /\ ltOut' = [slot |-> request.slot, type |-> request.type, dest |-> request.dest, age |-> zero, over |-> no]
    BY <1>4 DEF Leaves
  <2>3. ltOut # LtNothing => ltOut.age >= LtFloor  BY <2>1 DEF LootInv, LtLeft, LtApart
  <2>4. ltPending' \in LtMoves \cup {LtNothing} /\ LtPaired(ltQueue', ltPending')
    <3>1. ~OwnMove(ltQueue')  BY <2>1 DEF OwnMove
    <3>2. CASE request.own
      <4>1. ltPending \in LtMoves  BY <2>1, <3>2 DEF LootInv, LtWhole, LtPaired, OwnMove
      <4>2. ltPending' \in LtMoves /\ ltPending'.since = 0  BY <2>2, <3>2, <4>1, DatedIs DEF Dated
      <4>. QED  BY <3>1, <4>2, LtFigures DEF LtPaired
    <3>3. CASE ~request.own
      <4>1. ltPending' = ltPending  BY <2>2, <3>3 DEF Dated
      <4>2. ~OwnMove(ltQueue)  BY <3>3 DEF OwnMove
      <4>. QED  BY <3>1, <4>1, <4>2 DEF LootInv, LtWhole, LtPaired
    <3>. QED  BY <3>2, <3>3
  <2>5. ltBlock' \in 0 .. LtGuard /\ (request.type \in LtQuaff => ltBlock' >= LtGuard)
    <3>1. ltBlock \in 0 .. LtGuard  BY DEF LootInv, LtWhole
    <3>. QED  BY <2>2, <3>1, LtFigures DEF Guarded, LtAtLeast
  <2>6. ltOut' \in LtOuts /\ ltOut'.age = 0 /\ ltOut'.type = request.type
    <3>1. no \in BOOLEAN  BY Zenon
    <3>2. zero \in Nat  OBVIOUS
    <3>3. request.slot \in LtSlots /\ request.type \in LtTypes /\ request.dest \in LtDests \cup {LtNothing}
      BY <2>1 DEF LtRequests
    <3>. HIDE DEF no, request
    <3>4. ltOut' \in LtOuts /\ ltOut'.age = zero /\ ltOut'.type = request.type
      <4>. HIDE DEF zero
      <4>. QED  BY <2>2, <3>1, <3>2, <3>3 DEF LtOuts
    <3>. QED  BY <3>4
  <2>7. LtLeft'
    <3>1. LtApart(ltOut', ltSince', ltQueue', ltBlock')  BY <1>1, <2>1, <2>5, <2>6, LtFigures DEF LtApart
    <3>. QED  BY <3>1 DEF LtLeft
  <2>8. LtWhole'  BY <1>1, <1>2, <2>4, <2>5 DEF LootInv, LtWhole
  <2>. QED  BY <1>1, <1>4, <2>3, <2>4, <2>7, <2>8 DEF LootInv
<1>. QED  BY <1>3, <1>4

LEMMA GivenUpLoots == ASSUME LootInv, NEW key \in {"move", "drink"}, GivenUp(key) PROVE LootInv'
<1>. DEFINE queue == [ltQueue EXCEPT ![key] = LtNothing]
<1>1. ltPending' = LtNothing /\ ltQueue' = Disowned(queue)
      /\ UNCHANGED <<ltBag, ltHeld, ltSince, ltBlock, ltPause, ltDropped, ltOut>>
  BY DEF GivenUp, ltWorld
<1>2. queue \in [{"move", "drink"} -> LtRequests \cup {LtNothing}] /\ (queue.move # LtNothing => ltQueue.move # LtNothing)
  BY DEF LootInv, LtWhole
<1>. HIDE DEF queue
<1>3. /\ ltQueue' \in [{"move", "drink"} -> LtRequests \cup {LtNothing}] /\ ~OwnMove(ltQueue')
      /\ (ltQueue'.move # LtNothing => ltQueue.move # LtNothing)
  BY <1>1, <1>2, DisownedIs
<1>. QED  BY <1>1, <1>3 DEF LootInv, LtWhole, LtPaired, LtLeft, LtApart

LEMMA RefusedLoots == ASSUME LootInv, LootRefused PROVE LootInv'
<1>. DEFINE yes == TRUE
<1>1. /\ ltPending' = LtNothing /\ ltQueue' = Disowned(ltQueue) /\ ltPause' = LtAtLeast(ltPause, LtRefusal)
      /\ ltOut' = (IF ltAwait = "move" /\ ltOut # LtNothing THEN [ltOut EXCEPT !.over = yes] ELSE ltOut)
      /\ UNCHANGED <<ltBag, ltHeld, ltSince, ltBlock, ltDropped>>
  BY DEF LootRefused, ltWorld
<1>2. /\ ltQueue' \in [{"move", "drink"} -> LtRequests \cup {LtNothing}] /\ ~OwnMove(ltQueue')
      /\ (ltQueue'.move = LtNothing <=> ltQueue.move = LtNothing)
  BY <1>1, DisownedIs DEF LootInv, LtWhole
<1>3. ltPause' \in 0 .. LtAtLeast(LtHands, LtRefusal)
  <2>1. ltPause \in 0 .. LtAtLeast(LtHands, LtRefusal)  BY DEF LootInv, LtWhole
  <2>. QED  BY <1>1, <2>1, LtFigures DEF LtAtLeast
<1>4. LtWhole' /\ LtPaired(ltQueue', ltPending')  BY <1>1, <1>2, <1>3 DEF LootInv, LtWhole, LtPaired
<1>5. LtLeft'
  <2>1. CASE ltAwait = "move" /\ ltOut # LtNothing
    <3>1. yes \in BOOLEAN  BY Zenon
    <3>2. ltOut \in LtOuts /\ ltOut' = [ltOut EXCEPT !.over = yes]  BY <1>1, <2>1 DEF LootInv, LtLeft, LtApart
    <3>3. ltOut' \in LtOuts /\ ltOut'.age = ltOut.age /\ ltOut'.type = ltOut.type
      <4>. HIDE DEF yes
      <4>. QED  BY <3>1, <3>2 DEF LtOuts
    <3>. QED  BY <1>1, <1>2, <2>1, <3>3 DEF LootInv, LtLeft, LtApart
  <2>2. CASE ~(ltAwait = "move" /\ ltOut # LtNothing)
    BY <1>1, <1>2, <2>2 DEF LootInv, LtLeft, LtApart
  <2>. QED  BY <2>1, <2>2
<1>. QED  BY <1>4, <1>5 DEF LootInv

\* A second: everything that waits is older by one, and the queue's own keep theirs.
LEMMA ClockLoots == ASSUME LootInv, LootClock PROVE LootInv'
<1>1. /\ \A key \in {"move", "drink"} : ltQueue[key] # LtNothing => ltQueue[key].left > 0
      /\ ltQueue' = [key \in {"move", "drink"} |->
                       IF ltQueue[key] = LtNothing THEN LtNothing ELSE [ltQueue[key] EXCEPT !.left = @ - 1]]
      /\ ltHeld' = [k \in LtSlots \X LtTypes |-> LtDown(ltHeld[k])]
      /\ ltPending' = (IF ltPending = LtNothing THEN LtNothing
                       ELSE IF ltPending.since = LtUnsent THEN ltPending
                       ELSE [ltPending EXCEPT !.since = LtUp(@, LtPatience)])
      /\ ltSince' = LtUp(ltSince, LtFloor) /\ ltBlock' = LtDown(ltBlock) /\ ltPause' = LtDown(ltPause)
      /\ ltOut' = (IF ltOut = LtNothing \/ ltOut.age + 1 = LtLongAgo THEN LtNothing
                   ELSE [ltOut EXCEPT !.age = @ + 1])
      /\ UNCHANGED <<ltBag, ltDropped>>
  BY DEF LootClock, ltWorld
<1>2. /\ ltSince \in 0 .. LtFloor /\ ltBlock \in 0 .. LtGuard /\ ltPause \in 0 .. LtAtLeast(LtHands, LtRefusal)
      /\ ltPending \in LtMoves \cup {LtNothing}
      /\ ltQueue \in [{"move", "drink"} -> LtRequests \cup {LtNothing}]
      /\ ltHeld \in [LtSlots \X LtTypes -> 0 .. LtRetry]
  BY DEF LootInv, LtWhole
<1>3. ASSUME NEW key \in {"move", "drink"}
      PROVE  /\ ltQueue'[key] \in LtRequests \cup {LtNothing} /\ (ltQueue'[key] = LtNothing <=> ltQueue[key] = LtNothing)
             /\ (ltQueue[key] # LtNothing => ltQueue'[key].own = ltQueue[key].own)
  <2>1. CASE ltQueue[key] = LtNothing  BY <1>1, <2>1
  <2>2. CASE ltQueue[key] # LtNothing
    <3>1. ltQueue[key] \in LtRequests /\ ltQueue[key].left > 0  BY <1>1, <1>2, <2>2
    <3>. DEFINE less == ltQueue[key].left - 1
    <3>2. ltQueue'[key] = [ltQueue[key] EXCEPT !.left = less]  BY <1>1, <2>2
    <3>3. less \in 0 .. LtExpiry
      <4>1. ltQueue[key].left \in 0 .. LtExpiry  BY <3>1 DEF LtRequests
      <4>. QED  BY <3>1, <4>1, LtFigures
    <3>. HIDE DEF less
    <3>4. ltQueue'[key] \in LtRequests /\ ltQueue'[key].own = ltQueue[key].own  BY <3>1, <3>2, <3>3 DEF LtRequests
    <3>. QED  BY <2>2, <3>4, LtFigures
  <2>. QED  BY <2>1, <2>2
<1>4. ltQueue' \in [{"move", "drink"} -> LtRequests \cup {LtNothing}]
  <2>1. DOMAIN ltQueue' = {"move", "drink"} /\ ltQueue' = [key \in {"move", "drink"} |-> ltQueue'[key]]  BY <1>1
  <2>. QED  BY <1>3, <2>1
<1>5. (ltQueue'.move = LtNothing <=> ltQueue.move = LtNothing) /\ (OwnMove(ltQueue') <=> OwnMove(ltQueue))
  <2>1. /\ ltQueue'["move"] = LtNothing <=> ltQueue["move"] = LtNothing
        /\ ltQueue["move"] # LtNothing => ltQueue'["move"].own = ltQueue["move"].own
    BY <1>3
  <2>. QED  BY <1>2, <1>4, <2>1 DEF OwnMove
<1>6. ltPending' \in LtMoves \cup {LtNothing} /\ (ltPending' = LtNothing <=> ltPending = LtNothing)
      /\ (ltPending # LtNothing => (ltPending'.since = LtUnsent <=> ltPending.since = LtUnsent))
  <2>1. CASE ltPending = LtNothing \/ ltPending.since = LtUnsent
    <3>1. ltPending' = ltPending  BY <1>1, <2>1
    <3>. QED  BY <1>2, <3>1
  <2>2. CASE ltPending # LtNothing /\ ltPending.since # LtUnsent
    <3>. DEFINE older == LtUp(ltPending.since, LtPatience)
    <3>1. ltPending \in LtMoves /\ ltPending' = [ltPending EXCEPT !.since = older]  BY <1>1, <1>2, <2>2
    <3>2. older \in 0 .. LtPatience
      <4>1. ltPending.since \in 0 .. LtPatience  BY <2>2, <3>1 DEF LtMoves
      <4>. QED  BY <4>1, LtFigures DEF LtUp
    <3>. HIDE DEF older
    <3>3. ltPending' \in LtMoves /\ ltPending'.since = older  BY <3>1, <3>2 DEF LtMoves
    <3>. QED  BY <2>2, <3>2, <3>3, LtFigures
  <2>. QED  BY <2>1, <2>2
<1>7. ltHeld' \in [LtSlots \X LtTypes -> 0 .. LtRetry]
  <2>1. \A k \in LtSlots \X LtTypes : LtDown(ltHeld[k]) \in 0 .. LtRetry
    <3>1. \A k \in LtSlots \X LtTypes : ltHeld[k] \in 0 .. LtRetry  BY <1>2
    <3>2. \A n \in 0 .. LtRetry : LtDown(n) \in 0 .. LtRetry  BY LtFigures DEF LtDown
    <3>. QED  BY <3>1, <3>2
  <2>. QED  BY <1>1, <2>1
<1>8. /\ ltSince' \in 0 .. LtFloor /\ ltSince' <= ltSince + 1 /\ ltBlock' \in 0 .. LtGuard /\ ltBlock' + 1 >= ltBlock
      /\ ltPause' \in 0 .. LtAtLeast(LtHands, LtRefusal)
  <2>. DEFINE most == LtAtLeast(LtHands, LtRefusal)
  <2>1. most \in Nat  BY LtFigures
  <2>. HIDE DEF most
  <2>. QED  BY <1>1, <1>2, <2>1, LtFigures DEF LtUp, LtDown, most
<1>9. LtWhole'  BY <1>1, <1>4, <1>6, <1>7, <1>8 DEF LootInv, LtWhole
<1>10. LtPaired(ltQueue', ltPending')  BY <1>5, <1>6 DEF LootInv, LtPaired
<1>11. LtLeft'
  <2>1. CASE ltOut' = LtNothing  BY <2>1 DEF LtLeft
  <2>2. CASE ltOut' # LtNothing
    <3>. DEFINE older == ltOut.age + 1
    <3>1. ltOut # LtNothing /\ ltOut' = [ltOut EXCEPT !.age = older]  BY <1>1, <2>2
    <3>2. LtApart(ltOut, ltSince, ltQueue, ltBlock)  BY <3>1 DEF LootInv, LtLeft
    <3>3. ltOut \in LtOuts /\ older \in Nat  BY <3>2 DEF LtApart, LtOuts
    <3>4. ltOut' \in LtOuts /\ ltOut'.age = ltOut.age + 1 /\ ltOut'.type = ltOut.type /\ ltOut.age \in Nat
      <4>1. ltOut' \in LtOuts /\ ltOut'.age = older /\ ltOut'.type = ltOut.type
        <5>. HIDE DEF older
        <5>. QED  BY <3>1, <3>3 DEF LtOuts
      <4>. QED  BY <3>3, <4>1 DEF LtOuts
    <3>5. LtApart(ltOut', ltSince', ltQueue', ltBlock')
      <4>1. ltSince' <= ltOut'.age
        <5>1. ltSince <= ltOut.age  BY <3>2 DEF LtApart
        <5>. QED  BY <1>2, <1>8, <3>4, <5>1, LtFigures
      <4>2. ltQueue'.move # LtNothing => ltOut'.age >= LtFloor
        <5>1. ltQueue'.move # LtNothing => ltOut.age >= LtFloor  BY <1>5, <3>2 DEF LtApart
        <5>. QED  BY <3>4, <5>1, LtFigures
      <4>3. ltOut'.type \in LtQuaff => ltBlock' + ltOut'.age >= LtGuard
        <5>1. ltOut'.type \in LtQuaff => ltBlock + ltOut.age >= LtGuard  BY <3>2, <3>4 DEF LtApart
        <5>2. ltBlock \in 0 .. LtGuard /\ ltBlock' \in 0 .. LtGuard /\ ltBlock' + 1 >= ltBlock  BY <1>2, <1>8
        <5>3. LtGuard \in Nat  BY LtFigures
        <5>4. ltOut.age \in Nat /\ ltOut'.age = ltOut.age + 1  BY <3>4
        <5>5. \A a, b, c, d, g \in Nat : b + 1 >= a /\ d = c + 1 /\ a + c >= g => b + d >= g  OBVIOUS
        <5>6. ltBlock \in Nat /\ ltBlock' \in Nat  BY <5>2, <5>3
        <5>7. ltOut'.age \in Nat  BY <5>4
        <5>. QED  BY <5>1, <5>2, <5>3, <5>4, <5>5, <5>6, <5>7
      <4>. QED  BY <3>4, <4>1, <4>2, <4>3 DEF LtApart
    <3>. QED  BY <3>5 DEF LtLeft
  <2>. QED  BY <2>1, <2>2
<1>. QED  BY <1>9, <1>10, <1>11 DEF LootInv

LEMMA LootStep ==
  ASSUME LootInv, [LootNext]_ltVars
  PROVE  /\ LootInv'
         /\ [(ltStep' = "move" /\ ltOut # LtNothing) => ltOut.age >= LtFloor]_ltVars
         /\ [(ltStep' = "moved" /\ ltOut # LtNothing /\ ltOut.type \in LtQuaff) => ltOut.age >= LtGuard]_ltVars
<1>. DEFINE Fine == /\ LootInv'
                    /\ (ltStep' = "move" /\ ltOut # LtNothing) => ltOut.age >= LtFloor
                    /\ (ltStep' = "moved" /\ ltOut # LtNothing /\ ltOut.type \in LtQuaff) => ltOut.age >= LtGuard
<1>1. CASE UNCHANGED ltVars
  <2>1. LootInv'  BY <1>1 DEF ltVars, LootInv, LtWhole, LtPaired, OwnMove, LtLeft, LtApart
  <2>. QED  BY <1>1, <2>1
<1>2. CASE LootRefused  BY <1>2, RefusedLoots DEF LootRefused
<1>3. CASE LootAnswered  BY <1>3 DEF LootAnswered, ltWorld, LootInv, LtWhole, LtPaired, OwnMove, LtLeft, LtApart
<1>4. CASE LootClock  BY <1>4, ClockLoots DEF LootClock
<1>5. CASE LootMap
  <2>1. /\ ltHeld' = LtNoHolds /\ ltDropped' = {} /\ ltPending' = LtNothing /\ ltSince' = LtFloor
        /\ ltQueue' = LtIdle /\ ltOut' = LtNothing /\ ltStep' = "none"
        /\ ltBag' \in [LtSlots -> LtTypes] /\ UNCHANGED <<ltBlock, ltPause>>
    BY <1>5 DEF LootMap
  <2>2. ltBag' \in [LtSlots -> LtTypes \cup {LtNothing}]  BY <2>1
  <2>3. LtFloor \in 0 .. LtFloor  BY LtFigures
  <2>4. LtWhole'  BY <2>1, <2>2, <2>3, NoHoldsTyped, IdleTyped DEF LootInv, LtWhole
  <2>5. LtPaired(ltQueue', ltPending') /\ LtLeft'  BY <2>1, IdleTyped DEF LtPaired, OwnMove, LtLeft
  <2>. QED  BY <2>1, <2>4, <2>5 DEF LootInv
<1>6. ASSUME NEW key \in {"move", "drink"}, Leaves(key) PROVE Fine  BY <1>6, LeavesLoot
<1>7. ASSUME NEW key \in {"move", "drink"}, GivenUp(key) PROVE Fine  BY <1>7, GivenUpLoots DEF GivenUp
<1>8. ASSUME NEW moves \in BOOLEAN, ByHand(moves) PROVE Fine
  <2>1. /\ ltPause' = LtAtLeast(ltPause, LtHands) /\ (ltHeld' = ltHeld \/ ltHeld' = LtNoHolds)
        /\ UNCHANGED <<ltBag, ltPending, ltQueue, ltSince, ltBlock, ltDropped, ltOut>>
        /\ ltStep' # "move" /\ (ltStep' = "moved" => ~(ltBlock > 0))
    BY <1>8 DEF ByHand, Withhold, ltWorld
  <2>2. ltPause' \in 0 .. LtAtLeast(LtHands, LtRefusal)
    <3>1. ltPause \in 0 .. LtAtLeast(LtHands, LtRefusal)  BY DEF LootInv, LtWhole
    <3>. QED  BY <2>1, <3>1, LtFigures DEF LtAtLeast
  <2>3. LootInv'  BY <2>1, <2>2, NoHoldsTyped DEF LootInv, LtWhole, LtPaired, OwnMove, LtLeft, LtApart
  <2>4. (ltStep' = "moved" /\ ltOut # LtNothing /\ ltOut.type \in LtQuaff) => ltOut.age >= LtGuard
    <3>1. ltBlock \in 0 .. LtGuard  BY DEF LootInv, LtWhole
    <3>2. (ltOut # LtNothing /\ ltOut.type \in LtQuaff) => ltBlock + ltOut.age >= LtGuard /\ ltOut.age \in Nat
      BY DEF LootInv, LtLeft, LtApart, LtOuts
    <3>. QED  BY <2>1, <3>1, <3>2, LtFigures
  <2>. QED  BY <2>1, <2>3, <2>4
<1>9. ASSUME NEW onBag \in BOOLEAN, LootTick(onBag) PROVE Fine  BY <1>9, TickLoots DEF LootTick
<1>10. ASSUME NEW type \in LtTypes, Drops(type) PROVE Fine
  BY <1>10 DEF Drops, ltWorld, LootInv, LtWhole, LtPaired, OwnMove, LtLeft, LtApart
<1>11. ASSUME NEW slot \in LtSlots, NEW what \in ltDropped \cup {LtNothing}, BagShows(slot, what) PROVE Fine
  <2>1. what \in LtTypes \cup {LtNothing}  BY DEF LootInv, LtWhole
  <2>2. ltBag' = [ltBag EXCEPT ![slot] = what] /\ ltStep' = "none" /\ LtUnseen  BY <1>11 DEF BagShows
  <2>3. ltBag' \in [LtSlots -> LtTypes \cup {LtNothing}]  BY <2>1, <2>2 DEF LootInv, LtWhole
  <2>. QED  BY <2>2, <2>3 DEF LtUnseen, LootInv, LtWhole, LtPaired, OwnMove, LtLeft, LtApart
<1>12. ASSUME NEW dest \in LtDests, SlotShows(dest) PROVE Fine
  BY <1>12 DEF SlotShows, LtUnseen, LootInv, LtWhole, LtPaired, OwnMove, LtLeft, LtApart
<1>. QED  BY <1>1, <1>2, <1>3, <1>4, <1>5, <1>6, <1>7, <1>8, <1>9, <1>10, <1>11, <1>12 DEF LootNext

\* Looting (features/autoloot): two moves of a map leave the floor apart, a potion the player
\* moves does not overtake one of ours, and a move is unsent while it waits and only then.
THEOREM LootsInTime == Spec => []LootTypeOK /\ MovesApart /\ GuardHolds
<1>1. Init => LootInv  BY LootStarts DEF Init
<1>2. LootInv /\ [Next]_vars => LootInv'  BY ErrandSteps, LootStep
<1>3. LootInv /\ [Next]_vars =>
        /\ [(ltStep' = "move" /\ ltOut # LtNothing) => ltOut.age >= LtFloor]_ltVars
        /\ [(ltStep' = "moved" /\ ltOut # LtNothing /\ ltOut.type \in LtQuaff) => ltOut.age >= LtGuard]_ltVars
  BY ErrandSteps, LootStep
<1>4. Spec => []LootInv  BY <1>1, <1>2, PTL DEF Spec
<1>5. Spec => MovesApart  BY <1>3, <1>4, PTL DEF Spec, MovesApart
<1>6. Spec => GuardHolds  BY <1>3, <1>4, PTL DEF Spec, GuardHolds
<1>. QED  BY <1>4, <1>5, <1>6, LootTyped, PTL

------------------------------------------------------------------------------
(* The errands together.                                                       *)

\* No errand steps out of turn, whatever was queued, refused, superseded or answered
\* late: all that the run asks of their steps.
THEOREM ErrandsAreFair == Spec => ErrandsStepFairly
BY SwitchedTruly, ArrowGivenBack, JumpsInTime, LootsInTime, ClaimedInOrder DEF ErrandsStepFairly
=============================================================================
