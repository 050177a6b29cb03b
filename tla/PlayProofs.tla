----------------------------- MODULE PlayProofs -----------------------------
(* What features do in time, proved for any figures, settings and worlds and    *)
(* any number of steps: an inductive invariant to each feature, and from them    *)
(* what no step of theirs may do.                                                *)
EXTENDS MCPlay, FiniteSetTheorems, SequenceTheorems, WellFoundedInduction, TLAPS

------------------------------------------------------------------------------
(* A step of the whole is a step of each feature, or leaves it alone.          *)

THEOREM EachItsOwn ==
  ASSUME [Next]_vars
  PROVE  /\ [NexusNext]_nxVars /\ [HazardNext]_hgVars /\ [SanctuaryNext]_saVars /\ [PushNext]_ptVars
         /\ [AbilityNext]_aaVars /\ [DrinkNext]_adVars /\ [PortalsNext]_poVars /\ [AnswersNext]_caVars
         /\ [CalloutsNext]_coVars /\ [RespectsNext]_prVars /\ [MotionNext]_mtVars
         /\ [AimDecides \/ AimClaims]_amVars /\ [DisguiseNext]_sdVars /\ [SteeringNext]_dgVars
         /\ [ChatBoxNext]_cbVars /\ [StreamerNext]_smVars /\ [WardrobeNext]_wdVars /\ [AntiLagNext]_alVars
<1>1. CASE UNCHANGED vars  BY <1>1 DEF vars
<1>2. CASE Next
  <2>1. CASE subject = "nexus" /\ NexusNext /\ Others("nexus")  BY <2>1 DEF Others
  <2>2. CASE subject = "ground" /\ HazardNext /\ Others("ground")  BY <2>2 DEF Others
  <2>3. CASE subject = "sanctuary" /\ SanctuaryNext /\ Others("sanctuary")  BY <2>3 DEF Others
  <2>4. CASE subject = "push" /\ PushNext /\ Others("push")  BY <2>4 DEF Others
  <2>5. CASE subject = "ability" /\ AbilityNext /\ Others("ability")  BY <2>5 DEF Others
  <2>6. CASE subject = "drink" /\ DrinkNext /\ Others("drink")  BY <2>6 DEF Others
  <2>7. CASE subject = "portals" /\ PortalsNext /\ Others("portals")  BY <2>7 DEF Others
  <2>8. CASE subject = "answers" /\ AnswersNext /\ Others("answers")  BY <2>8 DEF Others
  <2>9. CASE subject = "callouts" /\ CalloutsNext /\ Others("callouts")  BY <2>9 DEF Others
  <2>10. CASE subject = "respects" /\ RespectsNext /\ Others("respects")  BY <2>10 DEF Others
  <2>11. CASE subject = "chat" /\ ChatBoxNext /\ Others("chat")  BY <2>11 DEF Others
  <2>12. CASE subject = "motion" /\ MotionNext /\ Others("motion")  BY <2>12 DEF Others
  <2>13. CASE subject = "aim" /\ AimDecides /\ Others("aim")  BY <2>13 DEF Others
  <2>14. CASE subject = "walls" /\ AimClaims /\ Others("walls")  BY <2>14 DEF Others
  <2>15. CASE subject = "disguise" /\ DisguiseNext /\ Others("disguise")  BY <2>15 DEF Others
  <2>16. CASE subject = "streamer" /\ StreamerNext /\ Others("streamer")  BY <2>16 DEF Others
  <2>17. CASE subject = "wardrobe" /\ WardrobeNext /\ Others("wardrobe")  BY <2>17 DEF Others
  <2>18. CASE subject = "antilag" /\ AntiLagNext /\ Others("antilag")  BY <2>18 DEF Others
  <2>19. CASE subject = "steering" /\ SteeringNext /\ Others("steering")  BY <2>19 DEF Others
  <2>. QED  BY <1>2, <2>1, <2>2, <2>3, <2>4, <2>5, <2>6, <2>7, <2>8, <2>9, <2>10, <2>11, <2>12, <2>13, <2>14, <2>15, <2>16, <2>17, <2>18, <2>19 DEF Next
<1>. QED  BY <1>1, <1>2
------------------------------------------------------------------------------
(* Induction over the naturals, and sums over finite sets.                     *)

LEMMA LeastOne == ASSUME NEW T \in SUBSET Nat, T # {} PROVE \E n \in T : \A m \in T : n <= m
<1> DEFINE R == OpToRel(<, Nat)
<1>1. IsWellFoundedOn(R, Nat)
  BY NatLessThanWellFounded
<1>2. \A x, y \in Nat : <<y, x>> \in R <=> y < x
  BY DEF OpToRel
<1> HIDE DEF R
<1>3. PICK x \in T : \A y \in T : ~ (<<y, x>> \in R)
  BY <1>1, WFMin
<1>4. \A y \in T : x <= y
  <2> SUFFICES ASSUME NEW y \in T PROVE x <= y
    OBVIOUS
  <2>1. x \in Nat /\ y \in Nat
    OBVIOUS
  <2>2. ~(<<y, x>> \in R)
    BY <1>3
  <2>3. ~(y < x)
    BY <1>2, <2>1, <2>2
  <2> QED
    BY <2>1, <2>3
<1> QED
  BY <1>4

LEMMA Upwards == ASSUME NEW T \in SUBSET Nat, 0 \in T, \A n \in T : n + 1 \in T PROVE T = Nat
<1> SUFFICES ASSUME Nat \ T # {} PROVE FALSE
  OBVIOUS
<1> DEFINE Missing == Nat \ T
<1>1. PICK n \in Missing : \A m \in Missing : n <= m
  BY LeastOne
<1>2. n \in Nat /\ n # 0 /\ n - 1 \in Nat /\ n - 1 < n /\ (n - 1) + 1 = n
  OBVIOUS
<1>3. n - 1 \in T
  BY <1>1, <1>2
<1> QED
  BY <1>2, <1>3

\* A sum of naturals over a finite set is one, whatever is taken first.
SumRun(f, S, g) == g = [s \in SUBSET S |-> IF s = {} THEN 0 ELSE f[CHOOSE x \in s : TRUE] + g[s \ {CHOOSE x \in s : TRUE}]]
LEMMA SumIsNat ==
  ASSUME NEW S, IsFiniteSet(S), NEW f, \A x \in S : f[x] \in Nat
  PROVE  NxTotal(f, S) \in Nat
<1>. DEFINE First(s) == CHOOSE x \in s : TRUE
            D(n) == {s \in SUBSET S : Cardinality(s) <= n}
            Runs(n, g) == \A s \in D(n) : g[s] = IF s = {} THEN 0 ELSE f[First(s)] + g[s \ {First(s)}]
            T == {n \in Nat : \E g \in [D(n) -> Nat] : Runs(n, g)}
<1>1. \A s \in SUBSET S : s # {} => /\ First(s) \in s /\ First(s) \in S /\ s \ {First(s)} \in SUBSET S
  OBVIOUS
<1>2. \A s \in SUBSET S : IsFiniteSet(s) /\ Cardinality(s) \in Nat /\ (Cardinality(s) = 0 <=> s = {})
  BY FS_Subset, FS_CardinalityType, FS_EmptySet
<1>3. \A s \in SUBSET S : s # {} => Cardinality(s \ {First(s)}) = Cardinality(s) - 1
  BY <1>1, <1>2, FS_RemoveElement
<1>. HIDE DEF First
<1>4. 0 \in T
  <2>1. D(0) = {{}}  BY <1>2
  <2>2. [s \in D(0) |-> 0] \in [D(0) -> Nat] /\ Runs(0, [s \in D(0) |-> 0])  BY <2>1
  <2>. QED  BY <2>2
<1>5. ASSUME NEW n \in T PROVE n + 1 \in T
  <2>1. PICK g \in [D(n) -> Nat] : Runs(n, g)  OBVIOUS
  <2>2. n \in Nat /\ n + 1 \in Nat  OBVIOUS
  <2>. DEFINE h == [s \in D(n + 1) |-> IF s = {} THEN 0 ELSE f[First(s)] + g[s \ {First(s)}]]
  <2>3. \A s \in D(n + 1) : s # {} => s \ {First(s)} \in D(n) /\ s \ {First(s)} \in D(n + 1)
    BY <1>1, <1>2, <1>3, <2>2
  <2>4. h \in [D(n + 1) -> Nat]
    <3>1. \A s \in D(n + 1) : s # {} => f[First(s)] \in Nat /\ g[s \ {First(s)}] \in Nat  BY <1>1, <2>1, <2>3
    <3>. QED  BY <3>1
  <2>5. D(n) \subseteq D(n + 1)  BY <1>2, <2>2
  <2>6. \A s \in D(n) : h[s] = g[s]  BY <2>1, <2>5
  <2>7. Runs(n + 1, h)  BY <2>3, <2>6
  <2>. HIDE DEF h
  <2>. QED  BY <2>2, <2>4, <2>7
<1>6. T = Nat
  <2>. HIDE DEF T
  <2>1. T \in SUBSET Nat  BY DEF T
  <2>. QED  BY <1>4, <1>5, <2>1, Upwards
<1>7. PICK g \in [SUBSET S -> Nat] : SumRun(f, S, g)
  <2>1. Cardinality(S) \in T  BY <1>6, FS_CardinalityType
  <2>2. D(Cardinality(S)) = SUBSET S  BY <1>2, FS_Subset, FS_CardinalityType
  <2>3. PICK g \in [SUBSET S -> Nat] : Runs(Cardinality(S), g)  BY <2>1, <2>2
  <2>4. \A s \in SUBSET S : g[s] = IF s = {} THEN 0 ELSE f[First(s)] + g[s \ {First(s)}]  BY <2>2, <2>3
  <2>5. g = [s \in SUBSET S |-> g[s]]  BY <2>3
  <2>6. SumRun(f, S, g)  BY <2>4, <2>5 DEF SumRun, First
  <2>. QED  BY <2>3, <2>6
<1>. DEFINE iter == CHOOSE h : SumRun(f, S, h)
<1>8. SumRun(f, S, iter)  BY <1>7
<1>9. NxTotal(f, S) = iter[S]
  BY DEF NxTotal, MapThenSumSet, MapThenFoldSet, SumRun
<1>10. PICK m \in SUBSET Nat : m = {n \in Nat : \E s \in SUBSET S : Cardinality(s) = n /\ iter[s] \notin Nat}  OBVIOUS
<1>. HIDE DEF iter, T, D, Runs
<1>11. \A s \in SUBSET S : iter[s] = IF s = {} THEN 0 ELSE f[First(s)] + iter[s \ {First(s)}]
  BY <1>8 DEF SumRun, First
<1>14. iter[{}] = 0 /\ \A s \in SUBSET S : s # {} => iter[s] = f[First(s)] + iter[s \ {First(s)}]
  <2>1. {} \in SUBSET S  OBVIOUS
  <2>. QED  BY <1>11, <2>1
<1>12. m = {}
  <2>. SUFFICES ASSUME m # {} PROVE FALSE  OBVIOUS
  <2>1. PICK n \in m : \A k \in m : n <= k  BY LeastOne
  <2>2. PICK s \in SUBSET S : Cardinality(s) = n /\ iter[s] \notin Nat  BY <1>10
  <2>3. s # {}
    <3>. SUFFICES ASSUME s = {} PROVE FALSE  OBVIOUS
    <3>1. iter[s] = 0  BY <1>14
    <3>. QED  BY <2>2, <3>1
  <2>4. Cardinality(s \ {First(s)}) = n - 1 /\ n - 1 \in Nat /\ n \in Nat  BY <1>1, <1>2, <1>3, <2>2, <2>3
  <2>5. iter[s \ {First(s)}] \in Nat  BY <1>1, <1>10, <2>1, <2>3, <2>4
  <2>6. f[First(s)] \in Nat  BY <1>1, <2>3
  <2>. QED  BY <1>14, <2>2, <2>3, <2>5, <2>6
<1>13. Cardinality(S) \in Nat  BY FS_CardinalityType
<1>. QED  BY <1>9, <1>10, <1>12, <1>13

\* A step that keeps to X can be taken over and over.
IsRun(f, X, x, N, G) == f \in [0 .. N -> X] /\ f[0] = x /\ \A n \in 1 .. N : f[n] = G[<<n, f[n - 1]>>]
LEMMA Recursion ==
  ASSUME NEW X, NEW x \in X, NEW N \in Nat, NEW G \in [(1 .. N) \X X -> X]
  PROVE \E f : IsRun(f, X, x, N, G)
<1> DEFINE UpTo(m, f) == f[0] = x /\ \A n \in 1 .. m : f[n] = G[<<n, f[n - 1]>>]
           T == {m \in Nat : m <= N => \E f \in [0 .. m -> X] : UpTo(m, f)}
<1>1. 0 \in T
  <2>1. [n \in 0 .. 0 |-> x] \in [0 .. 0 -> X] /\ UpTo(0, [n \in 0 .. 0 |-> x])
    OBVIOUS
  <2> QED
    BY <2>1
<1>2. ASSUME NEW m \in T PROVE m + 1 \in T
  <2> SUFFICES ASSUME m + 1 <= N PROVE \E f \in [0 .. (m + 1) -> X] : UpTo(m + 1, f)
    OBVIOUS
  <2>1. m \in Nat /\ m <= N /\ m + 1 \in 1 .. N
    OBVIOUS
  <2>2. PICK f \in [0 .. m -> X] : UpTo(m, f)
    BY <2>1
  <2> DEFINE y == G[<<m + 1, f[m]>>]
             g == [n \in 0 .. (m + 1) |-> IF n = m + 1 THEN y ELSE f[n]]
  <2>3. f[m] \in X /\ y \in X
    BY <2>1, <2>2
  <2> HIDE DEF y
  <2>4. g \in [0 .. (m + 1) -> X]
    BY <2>1, <2>2, <2>3
  <2>5. g[0] = x
    BY <2>1, <2>2
  <2>6. ASSUME NEW n \in 1 .. (m + 1) PROVE g[n] = G[<<n, g[n - 1]>>]
    <3>1. n - 1 \in 0 .. m /\ n - 1 # m + 1
      BY <2>1
    <3>2. g[n - 1] = f[n - 1]
      BY <2>1, <3>1
    <3>3. CASE n = m + 1
      <4>1. n - 1 = m /\ g[n] = y
        BY <2>1, <3>3
      <4> QED
        BY <3>2, <3>3, <4>1 DEF y
    <3>4. CASE n # m + 1
      <4>1. n \in 1 .. m /\ g[n] = f[n]
        BY <2>1, <3>4
      <4> QED
        BY <2>2, <3>2, <4>1
    <3> QED
      BY <3>3, <3>4
  <2> HIDE DEF g
  <2> QED
    BY <2>4, <2>5, <2>6
<1> HIDE DEF T
<1>3. T \in SUBSET Nat
  BY DEF T
<1>4. N \in T
  BY <1>1, <1>2, <1>3, Upwards
<1> QED
  BY <1>4 DEF T, IsRun

------------------------------------------------------------------------------
(* Damaging ground: the window is as old as the last step on or the last       *)
(* report let through, whichever opened it, and no older than the latter.      *)

HazardInv ==
  /\ hgHold \in HgHolds /\ hgOn \in BOOLEAN /\ hgRaised \in BOOLEAN
  /\ hgLast \in HgAges /\ hgOpen \in HgAges /\ hgTicker \in 0..HgTick \cup {HgNever}
  /\ hgAdmitted \in HgAges /\ hgEntered \in HgAges
  /\ (hgOpen = HgNever) = (hgLast = HgNever)
  /\ hgOpen # HgNever => \/ hgEntered # HgNever /\ hgEntered <= hgOpen
                         \/ hgAdmitted # HgNever /\ hgAdmitted <= hgOpen
  /\ hgOpen # HgNever /\ hgAdmitted # HgNever => hgOpen <= hgAdmitted
  /\ CountdownRuns

LEMMA HgCapBounds == HgCap \in Nat /\ \A h \in HgHolds : h \in Nat /\ h > 0 /\ h <= HgCap
<1>1. PICK m \in HgHolds : \A g \in HgHolds : g <= m  BY HazardAssumption
<1>. DEFINE Longest == CHOOSE h \in HgHolds : \A g \in HgHolds : g <= h
<1>2. Longest \in HgHolds /\ \A g \in HgHolds : g <= Longest  BY <1>1
<1>3. HgCap = HgRearm + Longest  BY DEF HgCap
<1>. HIDE DEF Longest
<1>. QED  BY <1>2, <1>3, HazardAssumption

LEMMA HgOlderAges ==
  ASSUME NEW a \in HgAges
  PROVE  /\ HgOlder(a) \in HgAges
         /\ (HgOlder(a) = HgNever) = (a = HgNever)
         /\ a # HgNever => HgOlder(a) = IF a = HgCap THEN a ELSE a + 1
BY HgCapBounds, HazardAssumption DEF HgAges, HgOlder

LEMMA HazardStarts == HazardInit => HazardInv
BY HazardAssumption, HgCapBounds DEF HazardInit, HazardInv, HgAges, CountdownRuns

LEMMA HazardStep == HazardInv /\ [HazardNext]_hgVars => HazardInv'
<1>. SUFFICES ASSUME HazardInv, [HazardNext]_hgVars PROVE HazardInv'  OBVIOUS
<1>. USE HazardAssumption, HgCapBounds
<1>1. CASE UNCHANGED hgVars  BY <1>1 DEF hgVars, HazardInv, CountdownRuns
<1>2. CASE Ground
  <2>. DEFINE entered == HgAtLeast(hgLast, HgRearm)
              since == IF entered THEN 0 ELSE hgOpen
              over == HgAtLeast(since, hgHold)
  <2>1. /\ hgLast' = 0 /\ hgOpen' = (IF over THEN 0 ELSE since)
        /\ hgTicker' = (IF over \/ entered THEN HgTick ELSE hgTicker)
        /\ hgRaised' = (hgRaised /\ ~(over \/ entered))
        /\ hgAdmitted' = (IF over THEN 0 ELSE hgAdmitted)
        /\ hgEntered' = (IF entered THEN 0 ELSE hgEntered)
        /\ UNCHANGED <<hgOn, hgHold>>
    BY <1>2 DEF Ground, WindowFor
  <2>2. since \in Nat /\ (~entered => since = hgOpen /\ hgLast # HgNever) /\ (entered => ~over /\ since = 0)
        /\ (over <=> since >= hgHold)
    BY DEF HgAtLeast, HazardInv, HgAges
  <2>. HIDE DEF entered, since, over
  <2>3. 0 \in HgAges /\ since \in HgAges
    BY <2>2 DEF HgAges, HazardInv
  <2>4. /\ hgHold' \in HgHolds /\ hgOn' \in BOOLEAN /\ hgRaised' \in BOOLEAN
        /\ hgLast' \in HgAges /\ hgOpen' \in HgAges /\ hgTicker' \in 0..HgTick \cup {HgNever}
        /\ hgAdmitted' \in HgAges /\ hgEntered' \in HgAges /\ hgLast' # HgNever /\ hgOpen' # HgNever
    BY <2>1, <2>2, <2>3 DEF HazardInv
  <2>5. CASE over  BY <2>1, <2>2, <2>4, <2>5 DEF HazardInv, CountdownRuns
  <2>6. CASE ~over /\ entered  BY <2>1, <2>2, <2>4, <2>6 DEF HazardInv, CountdownRuns, HgAges
  <2>7. CASE ~over /\ ~entered  BY <2>1, <2>2, <2>4, <2>7 DEF HazardInv, CountdownRuns
  <2>. QED  BY <2>5, <2>6, <2>7
<1>3. CASE CountdownTick
  BY <1>3 DEF CountdownTick, HgAtLeast, HazardInv, HgAges, CountdownRuns
<1>4. CASE HgSettings
  BY <1>4 DEF HgSettings, HazardInv, HgAges, CountdownRuns
<1>5. CASE HgTime
  <2>1. /\ hgLast' = HgOlder(hgLast) /\ hgOpen' = HgOlder(hgOpen) /\ hgAdmitted' = HgOlder(hgAdmitted)
        /\ hgEntered' = HgOlder(hgEntered) /\ UNCHANGED <<hgOn, hgHold, hgRaised>>
        /\ hgTicker' = IF hgTicker \in {HgNever, 0} THEN hgTicker ELSE hgTicker - 1
    BY <1>5 DEF HgTime
  <2>2. hgTicker' \in 0..HgTick \cup {HgNever} /\ (hgTicker # HgNever => hgTicker' # HgNever)
    BY <2>1 DEF HazardInv
  <2>3. /\ hgLast \in HgAges /\ hgOpen \in HgAges /\ hgAdmitted \in HgAges /\ hgEntered \in HgAges
        /\ hgHold \in HgHolds
    BY DEF HazardInv
  <2>4. /\ hgLast' \in HgAges /\ hgOpen' \in HgAges /\ hgAdmitted' \in HgAges /\ hgEntered' \in HgAges
        /\ (hgLast' = HgNever) = (hgLast = HgNever) /\ (hgOpen' = HgNever) = (hgOpen = HgNever)
        /\ (hgAdmitted' = HgNever) = (hgAdmitted = HgNever) /\ (hgEntered' = HgNever) = (hgEntered = HgNever)
        /\ hgOpen # HgNever => hgOpen' = IF hgOpen = HgCap THEN hgOpen ELSE hgOpen + 1
        /\ hgAdmitted # HgNever => hgAdmitted' = IF hgAdmitted = HgCap THEN hgAdmitted ELSE hgAdmitted + 1
        /\ hgEntered # HgNever => hgEntered' = IF hgEntered = HgCap THEN hgEntered ELSE hgEntered + 1
    BY <2>1, <2>3, HgOlderAges
  <2>. QED  BY <2>1, <2>2, <2>3, <2>4 DEF HazardInv, HgAges, CountdownRuns
<1>6. ASSUME NEW heard \in {hgOn, TRUE}, Forget(heard) PROVE HazardInv'
  BY <1>6 DEF Forget, HazardInv, HgAges, CountdownRuns
<1>. QED  BY <1>1, <1>2, <1>3, <1>4, <1>5, <1>6 DEF HazardNext

LEMMA HazardActs ==
  ASSUME HazardInv, [HazardNext]_hgVars
  PROVE  /\ [hgReport' = "withheld" => ~HgAtLeast(hgAdmitted, hgHold) \/ ~HgAtLeast(hgEntered', hgHold)]_hgVars
         /\ [hgReport' = "admitted" => HgAtLeast(hgAdmitted, hgHold)]_hgVars
<1>. USE HazardAssumption, HgCapBounds
<1>1. CASE Ground
  BY <1>1 DEF Ground, WindowFor, HgAtLeast, HazardInv, HgAges
<1>2. CASE ~Ground /\ HazardNext
  <2>1. hgReport' = "none"  BY <1>2 DEF HazardNext, CountdownTick, HgSettings, HgTime, Forget
  <2>. QED  BY <2>1
<1>. QED  BY <1>1, <1>2

------------------------------------------------------------------------------
(* The Sanctuary: the entry is of this map, and unless a line went by unheard   *)
(* it knows whether the Chancellor speaks.                                      *)

SanctuaryInv ==
  /\ saOn \in BOOLEAN
  /\ saHeld = [map |-> saMap, speaking |-> saHeld.speaking] /\ saHeld.speaking \in BOOLEAN
  /\ ~saMissed => saHeld.speaking = saSpeaking
  /\ saMissed \in BOOLEAN /\ saSpeaking \in BOOLEAN /\ saHit.target \in SaTargets
  /\ OnlyPunishedWithheld

LEMMA PunishedIs ==
  ASSUME NEW target \in SaTargets, NEW speaking \in BOOLEAN
  PROVE  /\ Punished(target, speaking) => /\ target # "other" /\ SaRuleOf[target] \in saRules
                                          /\ target = "oryx" => saStance = "guarded"
                                          /\ target = "dammah" => speaking
         /\ target = "dammah" /\ "dammahMonologue" \in saRules /\ speaking => Punished(target, speaking)
<1>1. CASE target = "oryx"  BY <1>1 DEF Punished, SaRuleOf
<1>2. CASE target = "dammah"  BY <1>2 DEF Punished, SaRuleOf
<1>3. CASE target = "artifact"  BY <1>3 DEF Punished, SaRuleOf
<1>4. CASE target = "other"  BY <1>4 DEF Punished, SaRuleOf
<1>. QED  BY <1>1, <1>2, <1>3, <1>4 DEF SaTargets

LEMMA SanctuaryStarts == SanctuaryInit => SanctuaryInv
<1>1. SaNoHit.target = "other" /\ SaNoHit.withheld = FALSE /\ "other" \in SaTargets  BY DEF SaNoHit, SaTargets
<1>2. SanctuaryInit => saHeld.speaking = FALSE  BY DEF SanctuaryInit
<1>. QED  BY <1>1, <1>2 DEF SanctuaryInit, SanctuaryInv, OnlyPunishedWithheld

LEMMA HeldIsHere == SanctuaryInv => Held = saHeld
BY DEF SanctuaryInv, Held

LEMMA SanctuaryStep ==
  ASSUME SanctuaryInv, [SanctuaryNext]_saVars
  PROVE  SanctuaryInv' /\ [(saHit' # saHit /\ saOn /\ saHit'.target = "dammah" /\ saSpeaking /\ ~saMissed
                             /\ "dammahMonologue" \in saRules) => saHit'.withheld]_saVars
<1>. DEFINE Apt == (saHit' # saHit /\ saOn /\ saHit'.target = "dammah" /\ saSpeaking /\ ~saMissed
                      /\ "dammahMonologue" \in saRules) => saHit'.withheld
<1>a. Held = saHeld  BY HeldIsHere
<1>b. SaNoHit.target = "other" /\ SaNoHit.withheld = FALSE /\ "other" \in SaTargets  BY DEF SaNoHit, SaTargets
<1>c. ASSUME saHit' = SaNoHit PROVE OnlyPunishedWithheld' /\ Apt /\ saHit'.target \in SaTargets
  BY <1>b, <1>c DEF OnlyPunishedWithheld
<1>1. CASE UNCHANGED saVars  BY <1>1 DEF saVars, SanctuaryInv, OnlyPunishedWithheld
<1>2. ASSUME NEW target \in SaTargets, EnemyHit(target) PROVE SanctuaryInv' /\ Apt
  <2>1. /\ saHeld' = saHeld /\ saHit' = [target |-> target, withheld |-> saOn /\ Punished(target, saHeld.speaking)]
        /\ UNCHANGED <<saOn, saRules, saMap, saStance, saSpeaking, saMissed>>
    BY <1>2, <1>a DEF EnemyHit
  <2>2. saHeld.speaking \in BOOLEAN  BY DEF SanctuaryInv
  <2>3. saHit'.target = target /\ saHit'.withheld = (saOn /\ Punished(target, saHeld.speaking))  BY <2>1
  <2>4. /\ Punished(target, saHeld.speaking) => (target # "other" /\ SaRuleOf[target] \in saRules
                       /\ (target = "oryx" => saStance = "guarded") /\ (target = "dammah" => saHeld.speaking))
        /\ target = "dammah" /\ "dammahMonologue" \in saRules /\ saHeld.speaking => Punished(target, saHeld.speaking)
    BY <2>2, PunishedIs
  <2>5. SaRuleOf' = SaRuleOf  BY DEF SaRuleOf
  <2>6. OnlyPunishedWithheld'  BY <2>1, <2>3, <2>4, <2>5 DEF OnlyPunishedWithheld, SanctuaryInv
  <2>7. Apt  BY <2>1, <2>3, <2>4 DEF SanctuaryInv
  <2>. QED  BY <2>1, <2>3, <2>6, <2>7 DEF SanctuaryInv
<1>3. ASSUME NEW whose \in {"his", "player"}, NEW monologue \in BOOLEAN, SaText(whose, monologue) PROVE SanctuaryInv' /\ Apt
  <2>1. saHit' = SaNoHit /\ UNCHANGED <<saOn, saRules, saMap, saStance>>  BY <1>3 DEF SaText
  <2>2. CASE whose = "his"
    <3>1. /\ saSpeaking' = monologue /\ saMissed' = ~saOn
          /\ saHeld' = IF saOn THEN [saHeld EXCEPT !.speaking = monologue] ELSE saHeld
      BY <1>3, <1>a, <2>2 DEF SaText, SpokenBy
    <3>. QED  BY <2>1, <3>1, <1>c DEF SanctuaryInv
  <2>3. CASE whose # "his"
    <3>1. UNCHANGED <<saHeld, saSpeaking, saMissed>>  BY <1>3, <2>3 DEF SaText, SpokenBy
    <3>. QED  BY <2>1, <3>1, <1>c DEF SanctuaryInv
  <2>. QED  BY <2>2, <2>3
<1>4. ASSUME NEW s, SanctuaryStance(s) PROVE SanctuaryInv' /\ Apt
  BY <1>4, <1>c DEF SanctuaryStance, SanctuaryInv
<1>5. CASE SanctuarySettings
  BY <1>5, <1>c DEF SanctuarySettings, SanctuaryInv
<1>6. ASSUME NEW map \in SaMaps, SanctuaryMap(map) PROVE SanctuaryInv' /\ Apt
  BY <1>6, <1>c DEF SanctuaryMap, SanctuaryFresh, SanctuaryInv
<1>7. CASE SanctuaryNext
  BY <1>2, <1>3, <1>4, <1>5, <1>6, <1>7 DEF SanctuaryNext
<1>. QED  BY <1>1, <1>7

------------------------------------------------------------------------------
(* Leaving in time: what is held waits behind the escape of this map, and       *)
(* health is a number whatever is charged to it.                                *)

NexusInv ==
  /\ nxOn \in BOOLEAN /\ nxEscapes \in BOOLEAN /\ nxSafe \in BOOLEAN /\ nxKnown \in BOOLEAN
  /\ nxEscaped \in BOOLEAN /\ nxAsleep \in BOOLEAN
  /\ nxReported \in Nat /\ nxHp \in Int /\ nxTicks \in Nat /\ (nxTicks > 0 => nxKnown)
  /\ nxLog \in [NxShots -> Nat \cup {NxNone}] /\ nxAoes \in Seq(Nat)
  /\ HeldBehindEscape

\* Those still waiting are some of those that were.
UnansweredRun(all, gone, g) ==
  g = [n \in 0..Len(all) |-> IF n = 0 THEN <<>> ELSE IF n \in gone THEN g[n - 1] ELSE Append(g[n - 1], all[n])]
LEMMA StillWaiting ==
  ASSUME NEW S, NEW all \in Seq(S), NEW gone
  PROVE  Unanswered(all, gone) \in Seq(S) /\ Len(Unanswered(all, gone)) <= Len(all)
<1>. DEFINE N == Len(all)
            Step(n, w) == IF n \in gone THEN w ELSE Append(w, all[n])
            Runs(m, g) == g[0] = <<>> /\ \A n \in 1..m : g[n] = Step(n, g[n - 1])
            T == {m \in Nat : m <= N => \E g \in [0..m -> Seq(S)] : Runs(m, g)}
<1>1. N \in Nat /\ <<>> \in Seq(S)  OBVIOUS
<1>2. ASSUME NEW n \in 1..N, NEW w \in Seq(S) PROVE Step(n, w) \in Seq(S) /\ Len(Step(n, w)) <= Len(w) + 1
  <2>1. all[n] \in S  OBVIOUS
  <2>. QED  BY <2>1
<1>3. Unanswered(all, gone) = (CHOOSE g : UnansweredRun(all, gone, g))[N]
  BY DEF Unanswered, UnansweredRun
<1>4. ASSUME NEW g, g = [n \in 0..N |-> g[n]], Runs(N, g) PROVE UnansweredRun(all, gone, g)
  <2>1. \A n \in 0..N : g[n] = IF n = 0 THEN <<>> ELSE Step(n, g[n - 1])
    <3>. HIDE DEF Step
    <3>1. g[0] = <<>> /\ \A n \in 1..N : g[n] = Step(n, g[n - 1])  BY <1>4
    <3>2. \A n \in 0..N : n = 0 \/ (n # 0 /\ n \in 1..N)  BY <1>1
    <3>. QED  BY <3>1, <3>2
  <2>2. g = [n \in 0..N |-> IF n = 0 THEN <<>> ELSE Step(n, g[n - 1])]  BY <1>4, <2>1
  <2>. QED  BY <2>2 DEF UnansweredRun
<1>5. ASSUME NEW g, UnansweredRun(all, gone, g) PROVE Runs(N, g)
  <2>1. g = [n \in 0..N |-> IF n = 0 THEN <<>> ELSE Step(n, g[n - 1])]  BY <1>5 DEF UnansweredRun
  <2>2. \A n \in 0..N : g[n] = IF n = 0 THEN <<>> ELSE Step(n, g[n - 1])  BY <2>1
  <2>3. \A n \in 1..N : n \in 0..N /\ n # 0  BY <1>1
  <2>4. 0 \in 0..N  BY <1>1
  <2>. HIDE DEF Step
  <2>. QED  BY <2>2, <2>3, <2>4
<1>. HIDE DEF Step, N
<1>6. 0 \in T
  <2>1. [n \in 0..0 |-> <<>>] \in [0..0 -> Seq(S)] /\ Runs(0, [n \in 0..0 |-> <<>>])  BY <1>1
  <2>. QED  BY <2>1
<1>7. ASSUME NEW m \in T PROVE m + 1 \in T
  <2>0. m \in Nat /\ m + 1 \in Nat  OBVIOUS
  <2>. SUFFICES ASSUME m + 1 <= N PROVE \E g \in [0..(m + 1) -> Seq(S)] : Runs(m + 1, g)  BY <2>0
  <2>1. m \in Nat /\ m <= N /\ m + 1 \in 1..N  BY <1>1
  <2>2. PICK g \in [0..m -> Seq(S)] : Runs(m, g)  BY <2>1
  <2>. DEFINE y == Step(m + 1, g[m])
              h == [n \in 0..(m + 1) |-> IF n = m + 1 THEN y ELSE g[n]]
  <2>3. g[m] \in Seq(S) /\ y \in Seq(S)  BY <1>2, <2>1, <2>2
  <2>. HIDE DEF y
  <2>4. h \in [0..(m + 1) -> Seq(S)] /\ h[0] = <<>>  BY <2>1, <2>2, <2>3
  <2>5. ASSUME NEW n \in 1..(m + 1) PROVE h[n] = Step(n, h[n - 1])
    <3>1. n - 1 \in 0..m /\ n - 1 # m + 1 /\ h[n - 1] = g[n - 1]  BY <2>1
    <3>2. CASE n = m + 1
      <4>1. n - 1 = m /\ h[n] = y  BY <2>1, <3>2
      <4>. QED  BY <3>1, <3>2, <4>1 DEF y
    <3>3. CASE n # m + 1
      <4>1. n \in 1..m /\ h[n] = g[n]  BY <2>1, <3>3
      <4>. QED  BY <2>2, <3>1, <4>1
    <3>. QED  BY <3>2, <3>3
  <2>. HIDE DEF h
  <2>. QED  BY <2>4, <2>5
<1>8. N \in T
  <2>. HIDE DEF T
  <2>1. T \in SUBSET Nat  BY DEF T
  <2>. QED  BY <1>1, <1>6, <1>7, <2>1, Upwards
<1>9. PICK f \in [0..N -> Seq(S)] : Runs(N, f)
  <2>1. N <= N  BY <1>1
  <2>. QED  BY <1>8, <2>1
<1>10. UnansweredRun(all, gone, f)  BY <1>4, <1>9
<1>. DEFINE g == CHOOSE h : UnansweredRun(all, gone, h)
<1>11. Runs(N, g)  BY <1>5, <1>10
<1>. HIDE DEF g
<1>. DEFINE U == {m \in Nat : m <= N => g[m] \in Seq(S) /\ Len(g[m]) <= m}
<1>12. 0 \in U
  <2>1. Len(<<>>) = 0  OBVIOUS
  <2>2. g[0] = <<>>  BY <1>11
  <2>3. g[0] \in Seq(S) /\ Len(g[0]) <= 0
    <3>. HIDE DEF Runs
    <3>. QED  BY <1>1, <2>1, <2>2
  <2>. QED  BY <2>3
<1>13. ASSUME NEW m \in U PROVE m + 1 \in U
  <2>. SUFFICES ASSUME m + 1 <= N PROVE g[m + 1] \in Seq(S) /\ Len(g[m + 1]) <= m + 1  OBVIOUS
  <2>1. m \in Nat /\ g[m] \in Seq(S) /\ Len(g[m]) <= m /\ Len(g[m]) \in Nat /\ m + 1 \in 1..N /\ (m + 1) - 1 = m  BY <1>1
  <2>2. g[m + 1] = Step(m + 1, g[m])  BY <1>11, <2>1
  <2>3. Step(m + 1, g[m]) \in Seq(S) /\ Len(Step(m + 1, g[m])) <= Len(g[m]) + 1  BY <1>2, <2>1
  <2>4. Len(g[m + 1]) \in Nat  BY <2>2, <2>3
  <2>. QED  BY <2>1, <2>2, <2>3, <2>4
<1>14. N \in U
  <2>. HIDE DEF U
  <2>1. U \in SUBSET Nat  BY DEF U
  <2>. QED  BY <1>1, <1>12, <1>13, <2>1, Upwards
<1>15. g[N] \in Seq(S) /\ Len(g[N]) <= N
  <2>1. N <= N  BY <1>1
  <2>. QED  BY <1>14, <2>1
<1>. QED  BY <1>3, <1>15 DEF g, N
LEMMA NexusStarts == NexusInit => NexusInv
<1>1. [s \in NxShots |-> NxNone] \in [NxShots -> Nat \cup {NxNone}] /\ <<>> \in Seq(Nat)  OBVIOUS
<1>2. NexusInit => nxLog \in [NxShots -> Nat \cup {NxNone}] /\ nxAoes \in Seq(Nat)  BY <1>1 DEF NexusInit
<1>3. NexusInit => nxReported = 0 /\ nxHp = 0 /\ nxTicks = 0 /\ HeldBehindEscape  BY DEF NexusInit, HeldBehindEscape
<1>4. NexusInit => /\ nxOn \in BOOLEAN /\ nxEscapes \in BOOLEAN /\ nxSafe \in BOOLEAN /\ nxKnown \in BOOLEAN
                   /\ nxEscaped \in BOOLEAN /\ nxAsleep \in BOOLEAN
  BY DEF NexusInit
<1>. QED  BY <1>2, <1>3, <1>4 DEF NexusInv

LEMMA LogsAre ==
  ASSUME NEW log \in [NxShots -> Nat \cup {NxNone}], NEW some
  PROVE  /\ Pruned(log, some) \in [NxShots -> Nat \cup {NxNone}]
         /\ \A d \in Nat : Logged(log, some, d) \in [NxShots -> Nat \cup {NxNone}]
         /\ [s \in NxShots |-> NxNone] \in [NxShots -> Nat \cup {NxNone}]
BY DEF Pruned, Logged

LEMMA SyncedIs ==
  ASSUME NexusInv, NEW reported \in Nat
  PROVE  /\ Synced(reported)[1] \in Int /\ Synced(reported)[2] \in Nat
         /\ nxTicks > NxWarmup /\ reported + NxDrift <= NxLine => Synced(reported)[1] <= NxLine
<1>. USE NexusAssumption
<1>1. CASE ~nxKnown \/ nxHp <= 0
  <2>1. Synced(reported)[1] = reported /\ Synced(reported)[2] = 0  BY <1>1 DEF Synced
  <2>. QED  BY <2>1
<1>2. CASE ~(~nxKnown \/ nxHp <= 0)
  <2>. DEFINE apart == IF nxHp > reported THEN nxHp - reported ELSE reported - nxHp
  <2>1. /\ Synced(reported)[1] = (IF apart > NxDrift /\ nxTicks > NxWarmup THEN reported ELSE nxHp)
        /\ Synced(reported)[2] = (IF nxTicks > NxWarmup THEN nxTicks ELSE nxTicks + 1)
    BY <1>2 DEF Synced
  <2>. QED  BY <2>1 DEF NexusInv
<1>. QED  BY <1>1, <1>2

LEMMA SettingsAre == NexusAssumption => /\ NxFull \in Nat /\ NxLine \in Nat /\ NxDrift \in Nat /\ NxWarmup \in Nat
                                        /\ NxUnknown \in Nat /\ NxHurts \subseteq Nat
BY DEF NexusAssumption

NexusActs ==
  /\ nxEscaped /\ nxOn => nxSaid' \subseteq {"held"}
  /\ nxSafe => "ESCAPE" \notin nxSaid'
  /\ (nxOn /\ nxEscapes /\ ~nxSafe /\ nxTicks > NxWarmup /\ nxReported' \notin {0, nxReported}
        /\ nxReported' + NxDrift <= NxLine) => nxEscaped'
  /\ ("aoe" \in nxSaid' /\ nxOn /\ ~nxSafe /\ nxKnown /\ nxHp' # nxHp) => nxHp' > NxLine

LEMMA NexusStep == ASSUME NexusInv, [NexusNext]_nxVars PROVE NexusInv' /\ [NexusActs]_nxVars
<1>. USE NexusAssumption, SettingsAre
<1>1. CASE UNCHANGED nxVars
  BY <1>1 DEF nxVars, NexusInv, HeldBehindEscape
<1>2. ASSUME NEW volley \in SUBSET NxShots, NEW striking, NEW d \in NxHurts, NEW close \in BOOLEAN,
             NEW old, NxEnemyShoot(volley, d, close, old, striking)
      PROVE  NexusInv' /\ NexusActs
  <2>1. PICK wanted \in BOOLEAN : Escape(wanted, {}) /\ (wanted => ~nxSafe)
    BY <1>2 DEF NxEnemyShoot, Forecasts
  <2>2. /\ nxOn /\ ~nxEscaped /\ nxLog' = Pruned(Logged(nxLog, volley, d), old)
        /\ UNCHANGED <<nxSettings, nxReported, nxTracker, nxAoes, nxHeld>>
    BY <1>2 DEF NxEnemyShoot
  <2>3. nxLog' \in [NxShots -> Nat \cup {NxNone}]
    BY <2>2, LogsAre DEF NexusInv
  <2>. QED  BY <2>1, <2>2, <2>3 DEF NexusInv, HeldBehindEscape, NexusActs, Escape, Escapes, nxSettings, nxTracker
<1>3. ASSUME NEW striking, NxForecast(striking) PROVE NexusInv' /\ NexusActs
  <2>1. ~nxSafe /\ Escape(TRUE, {}) /\ nxOn /\ ~nxEscaped /\ UNCHANGED <<nxSettings, nxReported, nxTracker, nxLog, nxAoes, nxHeld>>
    BY <1>3 DEF NxForecast, Forecasts
  <2>. QED  BY <2>1 DEF NexusInv, HeldBehindEscape, NexusActs, Escape, Escapes, nxSettings, nxTracker
<1>4. ASSUME NEW s \in NxShots, NxPlayerHit(s) PROVE NexusInv' /\ NexusActs
  <2>. DEFINE d == IF nxLog[s] # NxNone THEN nxLog[s] ELSE NxUnknown
              leaves == CrossesLine(d)
  <2>1. d \in Nat  BY DEF NexusInv
  <2>2. leaves \in BOOLEAN /\ (leaves => ~nxSafe)  BY DEF CrossesLine, AtOrBelow
  <2>3. /\ nxOn /\ ~nxEscaped /\ nxLog' = Pruned(nxLog, {s}) /\ nxHp' = nxHp - d
        /\ nxHeld' = (IF Escapes(leaves) THEN nxHeld \cup {nxMap} ELSE nxHeld)
        /\ Escape(leaves, IF Escapes(leaves) THEN {} ELSE {"hit"})
        /\ UNCHANGED <<nxSettings, nxReported, nxTicks, nxKnown, nxAoes>>
    BY <1>4 DEF NxPlayerHit, NxListening
  <2>. HIDE DEF d, leaves
  <2>4. nxLog' \in [NxShots -> Nat \cup {NxNone}]  BY <2>3, LogsAre DEF NexusInv
  <2>5. nxHp' \in Int  BY <2>1, <2>3 DEF NexusInv
  <2>. QED  BY <2>2, <2>3, <2>4, <2>5 DEF NexusInv, HeldBehindEscape, NexusActs, Escape, Escapes, nxSettings
<1>5. ASSUME NEW d \in NxHurts, NxAoe(d) PROVE NexusInv' /\ NexusActs
  <2>1. /\ nxOn /\ ~nxEscaped /\ nxAoes' = MostAoes(Append(nxAoes, d)) /\ nxSaid' = {}
        /\ UNCHANGED <<nxSettings, nxReported, nxTracker, nxLog, nxEscaped, nxHeld>>
    BY <1>5 DEF NxAoe
  <2>2. nxAoes' \in Seq(Nat)
    <3>1. ASSUME NEW q \in Seq(Nat), NEW n \in Nat PROVE MostAoes(Append(q, n)) \in Seq(Nat)
      <4>1. Append(q, n) \in Seq(Nat) /\ Len(Append(q, n)) = Len(q) + 1 /\ Len(q) \in Nat  OBVIOUS
      <4>3. Append(q, n) # <<>>  BY AppendProperties
      <4>2. Tail(Append(q, n)) \in Seq(Nat)  BY <4>1, <4>3
      <4>. QED  BY <4>1, <4>2 DEF MostAoes
    <3>. QED  BY <2>1, <3>1 DEF NexusInv
  <2>. QED  BY <2>1, <2>2 DEF NexusInv, HeldBehindEscape, NexusActs, nxSettings, nxTracker
<1>6. ASSUME NEW d \in NxHurts, NxGround(d) PROVE NexusInv' /\ NexusActs
  <2>1. /\ nxOn /\ ~nxEscaped
        /\ IF CrossesLine(d) /\ nxEscapes
           THEN Escape(TRUE, {}) /\ UNCHANGED nxHp
           ELSE nxHp' = nxHp - d /\ nxSaid' = {"ground"} /\ UNCHANGED nxEscaped
        /\ UNCHANGED <<nxSettings, nxReported, nxTicks, nxKnown, nxLog, nxAoes, nxHeld>>
    BY <1>6 DEF NxGround, NxListening
  <2>2. CrossesLine(d) => ~nxSafe  BY DEF CrossesLine
  <2>3. d \in Nat /\ nxHp - d \in Int  BY DEF NexusInv
  <2>. QED  BY <2>1, <2>2, <2>3 DEF NexusInv, HeldBehindEscape, NexusActs, Escape, Escapes, nxSettings
<1>7. ASSUME NEW h \in 0..NxFull, NxUpdate(h) PROVE NexusInv' /\ NexusActs
  BY <1>7 DEF NxUpdate, NexusInv, HeldBehindEscape, NexusActs, nxSettings, nxState, nxTracker
<1>8. ASSUME NEW h \in 0..NxFull, NxNewTick(h) PROVE NexusInv' /\ NexusActs
  <2>1. h \in Nat  OBVIOUS
  <2>2. nxReported' = h /\ UNCHANGED <<nxSettings, nxLog, nxAoes, nxHeld>>  BY <1>8 DEF NxNewTick
  <2>3. CASE nxOn /\ h > 0
    <3>1. /\ nxHp' = Synced(h)[1] /\ nxTicks' = Synced(h)[2] /\ nxKnown' = TRUE
          /\ Escape(~nxSafe /\ nxHp' <= NxLine, {})
      BY <1>8, <2>3 DEF NxNewTick
    <3>2. nxHp' \in Int /\ nxTicks' \in Nat /\ (nxTicks > NxWarmup /\ h + NxDrift <= NxLine => nxHp' <= NxLine)
      BY <2>1, <3>1, SyncedIs
    <3>. QED  BY <2>1, <2>2, <2>3, <3>1, <3>2 DEF NexusInv, HeldBehindEscape, NexusActs, Escape, Escapes, nxSettings
  <2>4. CASE ~(nxOn /\ h > 0)
    <3>1. nxSaid' = {} /\ UNCHANGED <<nxTracker, nxEscaped>>  BY <1>8, <2>4 DEF NxNewTick
    <3>. QED  BY <2>1, <2>2, <2>4, <3>1 DEF NexusInv, HeldBehindEscape, NexusActs, nxSettings, nxTracker
  <2>. QED  BY <2>3, <2>4
<1>9. CASE NxLethal
  BY <1>9 DEF NxLethal, NexusInv, HeldBehindEscape, NexusActs, Escape, Escapes, nxSettings, nxTracker
<1>10. CASE NxSwitch \/ NxSetEscapes
  BY <1>10 DEF NxSwitch, NxSetEscapes, NexusInv, HeldBehindEscape, NexusActs, nxState, nxTracker
<1>11. CASE NxDisconnected
  <2>1. nxLog' \in [NxShots -> Nat \cup {NxNone}] /\ nxAoes' \in Seq(Nat)
    <3>1. [s \in NxShots |-> NxNone] \in [NxShots -> Nat \cup {NxNone}] /\ <<>> \in Seq(Nat)  OBVIOUS
    <3>. QED  BY <1>11, <3>1 DEF NxDisconnected
  <2>2. /\ UNCHANGED <<nxOn, nxEscapes>> /\ nxSaid' = {} /\ nxSafe' = FALSE /\ nxReported' = 0
        /\ nxHeld' = {} /\ nxHp' = 0 /\ nxTicks' = 0 /\ nxKnown' = FALSE /\ nxEscaped' = FALSE /\ nxAsleep' = FALSE
    BY <1>11 DEF NxDisconnected, NxDropHeldAcks
  <2>3. NexusActs  BY <2>2 DEF NexusActs
  <2>4. HeldBehindEscape'  BY <2>2 DEF HeldBehindEscape
  <2>5. nxOn' \in BOOLEAN /\ nxEscapes' \in BOOLEAN  BY <2>2 DEF NexusInv
  <2>6. nxReported' \in Nat /\ nxHp' \in Int /\ nxTicks' \in Nat /\ ~(nxTicks' > 0)  BY <2>2
  <2>. QED  BY <2>1, <2>2, <2>3, <2>4, <2>5, <2>6 DEF NexusInv
<1>12. ASSUME NEW what \in {"hit", "aoe", "ground"}, NxUnheard(what) PROVE NexusInv' /\ NexusActs
  BY <1>12 DEF NxUnheard, NxAlive, NexusInv, HeldBehindEscape, NexusActs, nxSettings, nxTracker
<1>13. ASSUME NEW landed \in SUBSET DOMAIN nxAoes, NEW old, NxAoeAck(landed, old) PROVE NexusInv' /\ NexusActs
  <2>. DEFINE sum == NxTotal(nxAoes, landed)
              kept == Unanswered(nxAoes, landed \cup old)
              blind == landed = {} /\ kept = <<>> /\ ~nxSafe /\ AtOrBelow(nxHp, NxLine, 0)
              refused == (sum > 0 /\ CrossesLine(sum)) \/ blind
  <2>1. sum \in Nat
    <3>1. nxAoes \in Seq(Nat) /\ Len(nxAoes) \in Nat /\ DOMAIN nxAoes = 1..Len(nxAoes)  BY DEF NexusInv
    <3>4. IsFiniteSet(DOMAIN nxAoes)  BY <3>1, FS_Interval
    <3>2. IsFiniteSet(landed)  BY <3>4, FS_Subset
    <3>3. \A i \in landed : nxAoes[i] \in Nat  BY <3>1
    <3>. QED  BY <3>2, <3>3, SumIsNat
  <2>2. kept \in Seq(Nat)  BY StillWaiting DEF NexusInv
  <2>3. /\ nxOn /\ ~nxEscaped /\ nxAoes' = kept /\ nxHp' = (IF refused THEN nxHp ELSE nxHp - sum)
        /\ Escape(refused, IF refused THEN {} ELSE {"aoe"})
        /\ UNCHANGED <<nxSettings, nxReported, nxTicks, nxKnown, nxLog, nxHeld>>
    BY <1>13 DEF NxAoeAck, NxListening
  <2>4. refused \in BOOLEAN /\ (refused => ~nxSafe)  BY DEF CrossesLine
  <2>5. ~refused /\ ~nxSafe /\ nxKnown => sum = 0 \/ nxHp - sum > NxLine
    BY <2>1 DEF CrossesLine, AtOrBelow, NexusInv
  <2>. HIDE DEF sum, kept, refused, blind
  <2>6. nxHp' \in Int  BY <2>1, <2>3 DEF NexusInv
  <2>7. "aoe" \in nxSaid' => ~refused  BY <2>3 DEF Escape, Escapes
  <2>8. ("aoe" \in nxSaid' /\ nxOn /\ ~nxSafe /\ nxKnown /\ nxHp' # nxHp) => nxHp' > NxLine
    BY <2>1, <2>3, <2>5, <2>7 DEF NexusInv
  <2>. QED  BY <2>2, <2>3, <2>4, <2>6, <2>8 DEF NexusInv, HeldBehindEscape, NexusActs, Escape, Escapes, nxSettings
<1>14. ASSUME NEW map \in nxHeld, NxRelease(map) PROVE NexusInv' /\ NexusActs
  BY <1>14 DEF NxRelease, NexusInv, HeldBehindEscape, NexusActs, nxSettings, nxTracker
<1>15. ASSUME NEW safe \in BOOLEAN, NxMapInfo(safe) PROVE NexusInv' /\ NexusActs
  <2>1. [s \in NxShots |-> NxNone] \in [NxShots -> Nat \cup {NxNone}] /\ <<>> \in Seq(Nat)  OBVIOUS
  <2>2. CASE nxOn
    <3>1. /\ nxSafe' = safe /\ nxSaid' = {} /\ UNCHANGED <<nxOn, nxEscapes, nxReported>>
          /\ nxHeld' = {} /\ nxHp' = 0 /\ nxTicks' = 0 /\ nxKnown' = FALSE
          /\ nxLog' = [s \in NxShots |-> NxNone] /\ nxAoes' = <<>> /\ nxEscaped' = FALSE /\ nxAsleep' = FALSE
      BY <1>15, <2>2 DEF NxMapInfo, NxDropHeldAcks
    <3>2. nxLog' \in [NxShots -> Nat \cup {NxNone}] /\ nxAoes' \in Seq(Nat)  BY <2>1, <3>1
    <3>3. NexusActs  BY <3>1 DEF NexusActs
    <3>4. HeldBehindEscape'  BY <3>1 DEF HeldBehindEscape
    <3>5. nxOn' \in BOOLEAN /\ nxEscapes' \in BOOLEAN /\ nxReported' \in Nat  BY <3>1 DEF NexusInv
    <3>6. nxHp' \in Int /\ nxTicks' \in Nat /\ ~(nxTicks' > 0)  BY <3>1
    <3>. QED  BY <3>1, <3>2, <3>3, <3>4, <3>5, <3>6 DEF NexusInv
  <2>3. CASE ~nxOn
    BY <1>15, <2>3 DEF NxMapInfo, NexusInv, HeldBehindEscape, NexusActs, nxTracker
  <2>. QED  BY <2>2, <2>3 DEF NexusInv
<1>. QED  BY <1>1, <1>2, <1>3, <1>4, <1>5, <1>6, <1>7, <1>8, <1>9, <1>10, <1>11, <1>12, <1>13, <1>14, <1>15 DEF NexusNext
------------------------------------------------------------------------------
(* Abilities: what is left of a pause or of an interval is never more than what *)
(* is left until the next ask, and an ask never waits for more than the cap.    *)

LEMMA SmallerOfTwo == ASSUME NEW a \in Int, NEW b \in Int PROVE Min({a, b}) = IF a <= b THEN a ELSE b
BY DEF Min
LEMMA LargerOfTwo == ASSUME NEW a \in Int, NEW b \in Int PROVE Max({a, b}) = IF a >= b THEN a ELSE b
BY DEF Max
LEMMA LargestOfThree ==
  ASSUME NEW a \in Int, NEW b \in Int, NEW c \in Int
  PROVE  Max({a, b, c}) \in {a, b, c} /\ Max({a, b, c}) >= a /\ Max({a, b, c}) >= b /\ Max({a, b, c}) >= c
<1>1. \E m \in {a, b, c} : \A y \in {a, b, c} : m >= y  OBVIOUS
<1>. QED  BY <1>1 DEF Max

\* The powers of two, up to the bound they are told apart to.
TwiceRun(N, g) == g = [n \in 0..N |-> IF n = 0 THEN 1 ELSE 2 * g[n - 1]]
LEMMA Doubles ==
  ASSUME AaRetryMax \in Nat
  PROVE  /\ AaTwice \in [0..AaRetryMax + 1 -> Nat] /\ AaTwice[0] = 1
         /\ \A n \in 1..AaRetryMax + 1 : AaTwice[n] = 2 * AaTwice[n - 1]
<1>. DEFINE N == AaRetryMax + 1
            G == [a \in (1..N) \X Nat |-> 2 * a[2]]
<1>1. N \in Nat  OBVIOUS
<1>2. AaTwice = CHOOSE g : TwiceRun(N, g)  BY DEF AaTwice, TwiceRun
<1>. HIDE DEF N
<1>3. G \in [(1..N) \X Nat -> Nat] /\ \A n \in 1..N, t \in Nat : G[<<n, t>>] = 2 * t  OBVIOUS
<1>. HIDE DEF G
<1>4. PICK f : IsRun(f, Nat, 1, N, G)  BY <1>1, <1>3, Recursion
<1>5. f \in [0..N -> Nat] /\ f[0] = 1 /\ \A n \in 1..N : f[n] = G[<<n, f[n - 1]>>]  BY <1>4 DEF IsRun
<1>6. \A n \in 1..N : f[n] = 2 * f[n - 1]
  <2>1. \A n \in 1..N : n - 1 \in 0..N  BY <1>1
  <2>. QED  BY <1>3, <1>5, <2>1
<1>7. TwiceRun(N, f)
  <2>1. \A n \in 0..N : n = 0 \/ (n # 0 /\ n \in 1..N)  BY <1>1
  <2>2. \A n \in 0..N : f[n] = IF n = 0 THEN 1 ELSE 2 * f[n - 1]  BY <1>5, <1>6, <2>1
  <2>3. f = [n \in 0..N |-> f[n]]  BY <1>5
  <2>. QED  BY <2>2, <2>3 DEF TwiceRun
<1>. DEFINE g == AaTwice
<1>8. TwiceRun(N, g)  BY <1>2, <1>7
<1>. HIDE DEF g
<1>9. g[0] = 1 /\ \A n \in 1..N : g[n] = 2 * g[n - 1]
  <2>1. \A n \in 0..N : g[n] = IF n = 0 THEN 1 ELSE 2 * g[n - 1]  BY <1>8 DEF TwiceRun
  <2>2. 0 \in 0..N /\ \A n \in 1..N : n \in 0..N /\ n # 0  BY <1>1
  <2>. QED  BY <2>1, <2>2
<1>10. \A n \in 0..N : g[n] \in Nat
  <2>. DEFINE U == {n \in Nat : n <= N => g[n] \in Nat}
  <2>1. 0 \in U  BY <1>9
  <2>2. ASSUME NEW n \in U PROVE n + 1 \in U
    <3>0. n \in Nat /\ n + 1 \in Nat  OBVIOUS
    <3>. SUFFICES ASSUME n + 1 <= N PROVE g[n + 1] \in Nat  BY <3>0
    <3>1. g[n] \in Nat /\ n + 1 \in 1..N /\ (n + 1) - 1 = n  BY <1>1
    <3>2. g[n + 1] = 2 * g[n]  BY <1>9, <3>1
    <3>. QED  BY <3>1, <3>2
  <2>. HIDE DEF U
  <2>3. U = Nat
    <3>1. U \in SUBSET Nat  BY DEF U
    <3>. QED  BY <2>1, <2>2, <3>1, Upwards
  <2>. QED  BY <1>1, <2>3 DEF U
<1>11. g = [n \in 0..N |-> g[n]]  BY <1>8 DEF TwiceRun
<1>12. g \in [0..N -> Nat]  BY <1>10, <1>11
<1>. QED  BY <1>9, <1>12 DEF g, N

\* They grow faster than their number, so the cap is reached within it.
LEMMA MostIs ==
  /\ AaMost \in 0..AaRetryMax /\ AaRetry * AaTwice[AaMost] >= AaRetryMax
  /\ AaRetryMax \in Nat /\ AaRetry \in Nat \ {0}
<1>. DEFINE Enough == {n \in Nat : n <= AaRetryMax /\ AaRetry * AaTwice[n] >= AaRetryMax}
            Ahead(n) == AaTwice[n] >= n + 1
            U == {n \in Nat : n <= AaRetryMax => Ahead(n)}
<1>1. AaRetryMax \in Nat /\ AaRetry \in Nat /\ AaRetry >= 1  BY AbilityAssumption
<1>2. /\ AaTwice \in [0..AaRetryMax + 1 -> Nat] /\ AaTwice[0] = 1
      /\ \A n \in 1..AaRetryMax + 1 : AaTwice[n] = 2 * AaTwice[n - 1]
  BY <1>1, Doubles
<1>3. 0 \in U  BY <1>2
<1>4. ASSUME NEW n \in U PROVE n + 1 \in U
  <2>0. n \in Nat /\ n + 1 \in Nat  OBVIOUS
  <2>. SUFFICES ASSUME n + 1 <= AaRetryMax PROVE Ahead(n + 1)  BY <2>0
  <2>1. n + 1 \in 1..AaRetryMax + 1 /\ (n + 1) - 1 = n /\ AaTwice[n] \in Nat /\ Ahead(n)  BY <1>1, <1>2, <2>0
  <2>2. AaTwice[n + 1] = 2 * AaTwice[n]  BY <1>2, <2>1
  <2>. QED  BY <2>0, <2>1, <2>2
<1>5. U = Nat
  <2>. HIDE DEF U
  <2>1. U \in SUBSET Nat  BY DEF U
  <2>. QED  BY <1>3, <1>4, <2>1, Upwards
<1>6. AaRetryMax \in Enough
  <2>3. AaRetryMax \in U /\ AaRetryMax \in 0..AaRetryMax + 1  BY <1>1, <1>5
  <2>1. AaTwice[AaRetryMax] \in Nat /\ AaTwice[AaRetryMax] >= AaRetryMax + 1  BY <1>1, <1>2, <2>3
  <2>2. \A t \in Nat : AaRetry * t >= t  BY <1>1
  <2>. QED  BY <1>1, <2>1, <2>2
<1>7. PICK n \in Enough : \A m \in Enough : n <= m
  <2>. HIDE DEF Enough
  <2>1. Enough \in SUBSET Nat  BY DEF Enough
  <2>. QED  BY <1>6, <2>1, LeastOne
<1>8. n \in 0..AaRetryMax /\ AaRetry * AaTwice[n] >= AaRetryMax /\ \A m \in 0..n - 1 : AaRetry * AaTwice[m] < AaRetryMax
  <2>1. n \in Nat /\ n <= AaRetryMax /\ AaRetry * AaTwice[n] >= AaRetryMax  OBVIOUS
  <2>2. ASSUME NEW m \in 0..n - 1 PROVE AaRetry * AaTwice[m] < AaRetryMax
    <3>1. m \in Nat /\ m < n /\ m <= AaRetryMax /\ m \in 0..AaRetryMax + 1  BY <1>1, <2>1
    <3>2. m \notin Enough  BY <1>7, <2>1, <3>1
    <3>3. AaTwice[m] \in Nat  BY <1>2, <3>1
    <3>4. \A t \in Nat : AaRetry * t \in Int  BY <1>1
    <3>. QED  BY <1>1, <3>1, <3>2, <3>3, <3>4
  <2>. QED  BY <1>1, <2>1, <2>2
<1>. QED  BY <1>1, <1>8 DEF AaMost


AbilityInv ==
  /\ aaAbility \in AaAbilities /\ aaNext \in Nat /\ aaAnswerable \in Nat /\ aaInterval \in Nat
  /\ aaUnanswered \in 0..AaMost /\ aaOpen \in 0..AaMost + 1 /\ (aaOpen <= aaUnanswered \/ aaUnanswered = AaMost)
  /\ aaHands \in Nat /\ aaSpent \in Nat /\ aaHands <= aaNext /\ aaSpent <= aaNext
  /\ aaHands > 0 => aaAnswerable = 0

AbilityActs ==
  /\ aaAsked' # "nothing" => aaHands = 0
  /\ aaAsked' # "nothing" => aaNext' >= Min({AaRetryMax, AaRetry * AaTwice[aaOpen]})
  /\ aaAsked' # "nothing" => aaSpent = 0

LEMMA AbilityStarts == AbilityInit => AbilityInv
<1>1. AaMost \in Nat  BY MostIs
<1>. QED  BY <1>1 DEF AbilityInit, AbilityInv

LEMMA IntervalIs == ASSUME NEW a \in AaAbilities PROVE AaInterval(a) \in Nat
<1>1. a.cooldown \in Nat /\ a.refresh \in Nat /\ AaMinInterval \in Nat  BY AbilityAssumption
<1>. DEFINE again == IF a.use = "aimed" THEN 0 ELSE a.refresh
<1>2. again \in Nat  BY <1>1
<1>3. AaInterval(a) = Max({AaMinInterval, a.cooldown, again})  BY DEF AaInterval
<1>. HIDE DEF again
<1>5. AaMinInterval \in Int /\ a.cooldown \in Int /\ again \in Int  BY <1>1, <1>2
<1>. DEFINE c == a.cooldown
<1>. HIDE DEF c
<1>4. Max({AaMinInterval, c, again}) \in {AaMinInterval, c, again}  BY <1>5, LargestOfThree DEF c
<1>. QED  BY <1>1, <1>2, <1>3, <1>4 DEF c

LEMMA BackoffIs ==
  ASSUME AbilityInv
  PROVE  /\ AaBackoff(aaUnanswered) \in Nat
         /\ AaBackoff(aaUnanswered) >= Min({AaRetryMax, AaRetry * AaTwice[aaOpen]})
<1>1. /\ AaMost \in 0..AaRetryMax /\ AaRetry * AaTwice[AaMost] >= AaRetryMax
      /\ AaRetryMax \in Nat /\ AaRetry \in Nat
  BY MostIs
<1>2. /\ AaTwice \in [0..AaRetryMax + 1 -> Nat] /\ AaTwice[0] = 1
      /\ \A n \in 1..AaRetryMax + 1 : AaTwice[n] = 2 * AaTwice[n - 1]
  BY <1>1, Doubles
<1>3. aaUnanswered \in 0..AaRetryMax + 1 /\ aaOpen \in 0..AaRetryMax + 1  BY <1>1 DEF AbilityInv
<1>4. AaTwice[aaUnanswered] \in Nat /\ AaTwice[aaOpen] \in Nat  BY <1>2, <1>3
<1>5. \A t \in Nat : AaRetry * t \in Nat  BY <1>1
<1>6. /\ AaRetry * AaTwice[aaUnanswered] \in Nat /\ AaRetry * AaTwice[aaOpen] \in Nat  BY <1>4, <1>5
<1>7. /\ AaBackoff(aaUnanswered) = IF AaRetryMax <= AaRetry * AaTwice[aaUnanswered] THEN AaRetryMax ELSE AaRetry * AaTwice[aaUnanswered]
      /\ Min({AaRetryMax, AaRetry * AaTwice[aaOpen]}) = IF AaRetryMax <= AaRetry * AaTwice[aaOpen] THEN AaRetryMax ELSE AaRetry * AaTwice[aaOpen]
  BY <1>1, <1>6, SmallerOfTwo DEF AaBackoff
<1>8. CASE aaUnanswered = AaMost  BY <1>1, <1>6, <1>7, <1>8
<1>9. CASE aaOpen <= aaUnanswered
  <2>. DEFINE U == {n \in Nat : aaOpen + n <= AaRetryMax + 1 => AaTwice[aaOpen] <= AaTwice[aaOpen + n]}
  <2>1. aaOpen \in Nat /\ aaUnanswered \in Nat  BY <1>3
  <2>2. 0 \in U  BY <1>4, <2>1
  <2>3. ASSUME NEW n \in U PROVE n + 1 \in U
    <3>0. n \in Nat /\ n + 1 \in Nat  OBVIOUS
    <3>. SUFFICES ASSUME aaOpen + (n + 1) <= AaRetryMax + 1 PROVE AaTwice[aaOpen] <= AaTwice[aaOpen + (n + 1)]  BY <3>0
    <3>1. /\ aaOpen + (n + 1) \in 1..AaRetryMax + 1 /\ (aaOpen + (n + 1)) - 1 = aaOpen + n
          /\ aaOpen + n \in 0..AaRetryMax + 1 /\ AaTwice[aaOpen] <= AaTwice[aaOpen + n]
      BY <1>1, <2>1, <3>0
    <3>2. AaTwice[aaOpen + (n + 1)] = 2 * AaTwice[aaOpen + n] /\ AaTwice[aaOpen + n] \in Nat  BY <1>2, <3>1
    <3>. QED  BY <1>4, <3>1, <3>2
  <2>4. U = Nat
    <3>. HIDE DEF U
    <3>1. U \in SUBSET Nat  BY DEF U
    <3>. QED  BY <2>2, <2>3, <3>1, Upwards
  <2>9. aaUnanswered - aaOpen \in Nat  BY <1>9, <2>1
  <2>5. aaUnanswered - aaOpen \in U  BY <2>4, <2>9
  <2>10. aaOpen + (aaUnanswered - aaOpen) = aaUnanswered /\ aaUnanswered <= AaRetryMax + 1  BY <1>1, <1>3, <2>1
  <2>6. AaTwice[aaOpen] <= AaTwice[aaUnanswered]  BY <2>5, <2>10
  <2>7. \A s, t \in Nat : s <= t => AaRetry * s <= AaRetry * t  BY <1>1
  <2>8. AaRetry * AaTwice[aaOpen] <= AaRetry * AaTwice[aaUnanswered]  BY <1>4, <2>6, <2>7
  <2>. QED  BY <1>1, <1>6, <1>7, <2>8
<1>. QED  BY <1>8, <1>9 DEF AbilityInv

LEMMA AbilityStep == ASSUME AbilityInv, [AbilityNext]_aaVars PROVE AbilityInv' /\ [AbilityActs]_aaVars
<1>0. /\ AaMost \in Nat /\ AaRetryMax \in Nat /\ AaManualPause \in Nat /\ AaMapSettle \in Nat /\ AaAnswer \in Nat
  BY MostIs, AbilityAssumption
<1>1. CASE UNCHANGED aaVars  BY <1>1 DEF aaVars, aaClocks, AbilityInv
<1>2. ASSUME NEW m, AbilityTick(m) PROVE AbilityInv' /\ AbilityActs
  <2>1. /\ aaNext = 0 /\ aaAnswerable' = AaAnswer + 1 /\ aaInterval' = AaInterval(aaAbility)
        /\ aaNext' = AaBackoff(aaUnanswered)
        /\ aaUnanswered' = Min({AaMost, aaUnanswered + 1}) /\ aaOpen' = Min({AaMost + 1, aaOpen + 1})
        /\ UNCHANGED <<aaAbility, aaHands, aaSpent>>
    BY <1>2 DEF AbilityTick, AskToCast
  <2>2. aaInterval' \in Nat  BY <2>1, IntervalIs DEF AbilityInv
  <2>3. /\ aaNext' \in Nat /\ aaNext' >= Min({AaRetryMax, AaRetry * AaTwice[aaOpen]})  BY <2>1, BackoffIs
  <2>4. /\ aaUnanswered' = IF AaMost <= aaUnanswered + 1 THEN AaMost ELSE aaUnanswered + 1
        /\ aaOpen' = IF AaMost + 1 <= aaOpen + 1 THEN AaMost + 1 ELSE aaOpen + 1
    BY <1>0, <2>1, SmallerOfTwo DEF AbilityInv
  <2>5. aaHands = 0 /\ aaSpent = 0  BY <2>1 DEF AbilityInv
  <2>. QED  BY <1>0, <2>1, <2>2, <2>3, <2>4, <2>5 DEF AbilityInv, AbilityActs
<1>3. CASE UseItem
  <2>1. aaAsked' = "nothing" /\ aaOpen' = 0 /\ aaAbility' = aaAbility  BY <1>3 DEF UseItem
  <2>2. CASE aaAnswerable > 0
    <3>1. aaNext' = aaInterval /\ aaAnswerable' = 0 /\ aaUnanswered' = 0 /\ UNCHANGED <<aaInterval, aaHands>> /\ aaSpent' = aaInterval
      BY <1>3, <2>2 DEF UseItem, Answered
    <3>. QED  BY <1>0, <2>1, <2>2, <3>1 DEF AbilityInv, AbilityActs
  <2>3. CASE ~(aaAnswerable > 0)
    <3>1. /\ aaNext' = Max({aaNext, AaManualPause}) /\ UNCHANGED <<aaAnswerable, aaInterval, aaUnanswered, aaSpent>>
          /\ aaHands' = AaManualPause
      BY <1>3, <2>3 DEF UseItem, OwnCast
    <3>2. aaNext' = IF aaNext >= AaManualPause THEN aaNext ELSE AaManualPause  BY <1>0, <3>1, LargerOfTwo DEF AbilityInv
    <3>. QED  BY <1>0, <2>1, <2>3, <3>1, <3>2 DEF AbilityInv, AbilityActs
  <2>. QED  BY <2>2, <2>3
<1>4. ASSUME NEW safe, AbilityMapInfo(safe) PROVE AbilityInv' /\ AbilityActs
  BY <1>0, <1>4 DEF AbilityMapInfo, AbilityInv, AbilityActs
<1>5. CASE AbilityChange
  BY <1>0, <1>5 DEF AbilityChange, aaClocks, AbilityInv, AbilityActs
<1>6. CASE AbilityTime
  <2>1. \A t \in Nat : AaLess(t) = IF t = 0 THEN 0 ELSE t - 1
    <3>1. \A t \in Nat : AaLess(t) = IF 0 >= t - 1 THEN 0 ELSE t - 1  BY LargerOfTwo DEF AaLess
    <3>. QED  BY <3>1
  <2>2. /\ aaNext' = AaLess(aaNext) /\ aaAnswerable' = AaLess(aaAnswerable)
        /\ aaHands' = AaLess(aaHands) /\ aaSpent' = AaLess(aaSpent) /\ aaAsked' = "nothing"
        /\ UNCHANGED <<aaAbility, aaInterval, aaUnanswered, aaOpen>>
    BY <1>6 DEF AbilityTime
  <2>. QED  BY <1>0, <2>1, <2>2 DEF AbilityInv, AbilityActs
<1>. QED  BY <1>1, <1>2, <1>3, <1>4, <1>5, <1>6 DEF AbilityNext

------------------------------------------------------------------------------
(* Potions: the clock of a kind is the time since the last one of it, and none  *)
(* is queued within its cooldown.                                               *)

DrinkInv ==
  /\ adSince \in [AdKinds -> Nat] /\ adApart \in [AdKinds -> Nat] /\ adSlot \in [AdKinds -> Nat]
  /\ adHeard => adSince = adApart
  /\ \A k \in AdKinds : adSlot[k] > 0 => adSince[k] >= AdCooldown

LEMMA DrinkStarts == DrinkInit => DrinkInv
BY DrinkAssumption DEF DrinkInit, DrinkInv

LEMMA DrinkStep ==
  ASSUME DrinkInv, [DrinkNext]_adVars
  PROVE  DrinkInv' /\ [\A k \in adSent' : adHeard => adApart[k] >= AdCooldown]_adVars
<1>. DEFINE Apart == \A k \in adSent' : adHeard => adApart[k] >= AdCooldown
<1>. USE DrinkAssumption
<1>1. CASE UNCHANGED adVars  BY <1>1 DEF adVars, DrinkInv
<1>2. ASSUME NEW low, NEW sick, DrinkTick(low, sick) PROVE DrinkInv' /\ Apart
  BY <1>2 DEF DrinkTick, Drinks, DrinkInv
<1>3. ASSUME NEW k \in AdKinds, DrinkSent(k) PROVE DrinkInv' /\ Apart
  <2>1. /\ adSlot[k] > 0 /\ adSlot' = [adSlot EXCEPT ![k] = 0] /\ adSince' = [adSince EXCEPT ![k] = 0]
        /\ adApart' = [adApart EXCEPT ![k] = 0] /\ adSent' = {k} /\ adHeard' = adHeard
    BY <1>3 DEF DrinkSent
  <2>2. Apart  BY <2>1 DEF DrinkInv
  <2>3. /\ adSince' \in [AdKinds -> Nat] /\ adApart' \in [AdKinds -> Nat] /\ adSlot' \in [AdKinds -> Nat]
    BY <2>1 DEF DrinkInv
  <2>4. adHeard' => adSince' = adApart'  BY <2>1 DEF DrinkInv
  <2>5. \A j \in AdKinds : adSlot'[j] > 0 => adSince'[j] >= AdCooldown  BY <2>1 DEF DrinkInv
  <2>. HIDE DEF Apart
  <2>. QED  BY <2>2, <2>3, <2>4, <2>5 DEF DrinkInv
<1>4. ASSUME NEW safe, DrinkMap(safe) PROVE DrinkInv' /\ Apart
  BY <1>4 DEF DrinkMap, DrinkInv
<1>5. CASE DrinkChange  BY <1>5 DEF DrinkChange, DrinkInv
<1>6. CASE DrinkTime
  <2>. DEFINE Up(n) == IF AdCooldown <= n + 1 THEN AdCooldown ELSE n + 1
              Down(n) == IF 0 >= n - 1 THEN 0 ELSE n - 1
  <2>1. \A n \in Nat : Min({AdCooldown, n + 1}) = Up(n) /\ Max({0, n - 1}) = Down(n)
    BY SmallerOfTwo, LargerOfTwo
  <2>2. /\ adSince' = [k \in AdKinds |-> Up(adSince[k])] /\ adApart' = [k \in AdKinds |-> Up(adApart[k])]
        /\ adSlot' = [k \in AdKinds |-> Down(adSlot[k])] /\ adSent' = {} /\ adHeard' = adHeard
    BY <1>6, <2>1 DEF DrinkTime, DrinkInv
  <2>. QED  BY <2>2 DEF DrinkInv
<1>. QED  BY <1>1, <1>2, <1>3, <1>4, <1>5, <1>6 DEF DrinkNext

------------------------------------------------------------------------------
(* Portals: an attempt is as old as what it has left says, what waits in the    *)
(* queue has waited for its interval, and what /back leads to is not the Nexus. *)

PortalsInv ==
  /\ poLast \in (PoPlaces \cup {PoNowhere}) \ {PoNexus} /\ poAge \in 0..PoKeep
  /\ poAttempt # PoNowhere => /\ poAttempt \in [portal : PoPortals, left : 0..PoKeep, since : Nat]
                              /\ ~poStale => poAttempt.left + poAge = PoKeep
  /\ poAuto \in [commanding : BOOLEAN, since : Nat, announced : SUBSET PoPortals]
  /\ poQueued # PoNowhere => poAuto.since >= PoEnterEvery

PortalsActs ==
  /\ poUsed' = "enter" /\ poAge' # 0 /\ ~poStale => poAge < PoKeep
  /\ poLast' # PoNexus /\ (poLast # PoNowhere => poLast' # PoNowhere)
  /\ poUsed' = "auto" /\ ~poStale => poAuto.since >= PoEnterEvery

LEMMA PortalsStart == PortalsInit => PortalsInv
BY PortalAssumption DEF PortalsInit, PortalsInv, PoFreshAuto

LEMMA PortalsStep == ASSUME PortalsInv, [PortalsNext]_poVars PROVE PortalsInv' /\ [PortalsActs]_poVars
<1>. USE PortalAssumption
<1>1. CASE UNCHANGED poVars  BY <1>1 DEF poVars, PortalsInv
<1>2. ASSUME NEW under \in PoPortals \cup {PoNowhere}, Enter(under) PROVE PortalsInv' /\ PortalsActs
  <2>1. UNCHANGED <<poLast, poAuto, poQueued, poStale>>  BY <1>2 DEF Enter
  <2>2. CASE poAttempt # PoNowhere
    <3>1. poAttempt' = PoNowhere /\ poUsed' = "none" /\ poAge' = poAge  BY <1>2, <2>2 DEF Enter
    <3>. QED  BY <2>1, <3>1 DEF PortalsInv, PortalsActs
  <2>3. CASE poAttempt = PoNowhere /\ under = PoNowhere
    <3>1. poAttempt' = PoNowhere /\ poUsed' = "none" /\ poAge' = poAge  BY <1>2, <2>3 DEF Enter
    <3>. QED  BY <2>1, <3>1 DEF PortalsInv, PortalsActs
  <2>4. CASE poAttempt = PoNowhere /\ under # PoNowhere
    <3>1. /\ poUsed' = "enter" /\ poAge' = 0
          /\ poAttempt' = IF PoKeep > 0 THEN [portal |-> under, left |-> PoKeep, since |-> 0] ELSE PoNowhere
      BY <1>2, <2>4 DEF Enter
    <3>2. poAttempt' # PoNowhere => /\ poAttempt' \in [portal : PoPortals, left : 0..PoKeep, since : Nat]
                                    /\ poAttempt'.left = PoKeep
      BY <2>4, <3>1
    <3>. QED  BY <2>1, <3>1, <3>2 DEF PortalsInv, PortalsActs
  <2>. QED  BY <2>2, <2>3, <2>4
<1>3. CASE EnterTick
  <2>1. poOn /\ poAttempt # PoNowhere /\ UNCHANGED <<poLast, poAge, poStale, poAuto, poQueued>>
    BY <1>3 DEF EnterTick, PoTicked
  <2>2. CASE poAttempt.left = 0
    <3>1. poAttempt' = PoNowhere /\ poUsed' = "none"  BY <1>3, <2>2 DEF EnterTick
    <3>. QED  BY <2>1, <3>1 DEF PortalsInv, PortalsActs
  <2>3. CASE poAttempt.left # 0
    <3>1. poAttempt' = [poAttempt EXCEPT !.since = 0] /\ poUsed' = "enter"  BY <1>3, <2>3 DEF EnterTick
    <3>2. poAttempt' \in [portal : PoPortals, left : 0..PoKeep, since : Nat] /\ poAttempt'.left = poAttempt.left
      BY <2>1, <3>1 DEF PortalsInv
    <3>3. ~poStale => poAge < PoKeep  BY <2>1, <2>3 DEF PortalsInv
    <3>. QED  BY <2>1, <3>1, <3>2, <3>3 DEF PortalsInv, PortalsActs
  <2>. QED  BY <2>2, <2>3
<1>4. CASE StandDown
  <2>1. /\ UNCHANGED <<poLast, poAge, poStale, poAttempt, poQueued>> /\ poUsed' = "none"
        /\ poAuto' = [poAuto EXCEPT !.commanding = FALSE]
    BY <1>4 DEF StandDown, PoTicked
  <2>2. poAuto' \in [commanding : BOOLEAN, since : Nat, announced : SUBSET PoPortals] /\ poAuto'.since = poAuto.since
    BY <2>1 DEF PortalsInv
  <2>. QED  BY <2>1, <2>2 DEF PortalsInv, PortalsActs
<1>5. ASSUME NEW p \in PoPortals, NEW on \in BOOLEAN, WalkTick(p, on) PROVE PortalsInv' /\ PortalsActs
  <2>1. /\ UNCHANGED <<poLast, poAge, poStale, poAttempt>> /\ poUsed' = "none"
        /\ poAuto' = [poAuto EXCEPT !.commanding = ~on, !.announced = @ \cup {p}]
        /\ poQueued' = IF on /\ poAuto.since >= PoEnterEvery THEN [portal |-> p, left |-> PoEnterEvery] ELSE poQueued
    BY <1>5 DEF WalkTick, PoTicked
  <2>2. poAuto' \in [commanding : BOOLEAN, since : Nat, announced : SUBSET PoPortals] /\ poAuto'.since = poAuto.since
    BY <2>1 DEF PortalsInv
  <2>3. poQueued' # PoNowhere => poAuto.since >= PoEnterEvery  BY <2>1 DEF PortalsInv
  <2>. QED  BY <2>1, <2>2, <2>3 DEF PortalsInv, PortalsActs
<1>6. CASE WalkSent
  <2>1. /\ UNCHANGED <<poLast, poAge, poStale, poAttempt>> /\ poUsed' = "auto" /\ poQueued # PoNowhere /\ poQueued' = PoNowhere
        /\ poAuto' = [poAuto EXCEPT !.since = 0]
    BY <1>6 DEF WalkSent, PoTicked
  <2>2. poAuto' \in [commanding : BOOLEAN, since : Nat, announced : SUBSET PoPortals]
    BY <2>1 DEF PortalsInv
  <2>. QED  BY <2>1, <2>2 DEF PortalsInv, PortalsActs
<1>7. CASE PortalsSwitch  BY <1>7 DEF PortalsSwitch, PortalsInv, PortalsActs
<1>8. ASSUME NEW place \in PoPlaces, Reconnected(place) PROVE PortalsInv' /\ PortalsActs
  <2>1. /\ UNCHANGED <<poAuto, poQueued, poAge, poStale>> /\ poUsed' = "none"
        /\ poAttempt' = PoNowhere \/ poAttempt' = poAttempt
        /\ poLast' = poLast \/ (place # PoNexus /\ poLast' = place)
    BY <1>8 DEF Reconnected, Remember
  <2>. QED  BY <2>1 DEF PortalsInv, PortalsActs
<1>9. ASSUME NEW place \in PoPlaces, PortalsMap(place) PROVE PortalsInv' /\ PortalsActs
  <2>1. poQueued' = PoNowhere /\ poUsed' = "none" /\ poAge' = PoKeep /\ poLast' = poLast  BY <1>9 DEF PortalsMap
  <2>2. CASE poOn
    <3>1. poAttempt' = PoNowhere /\ poAuto' = PoFreshAuto  BY <1>9, <2>2 DEF PortalsMap
    <3>2. poAuto' \in [commanding : BOOLEAN, since : Nat, announced : SUBSET PoPortals]  BY <3>1 DEF PoFreshAuto
    <3>. QED  BY <2>1, <3>1, <3>2 DEF PortalsInv, PortalsActs
  <2>3. CASE ~poOn
    <3>1. poStale' = TRUE /\ UNCHANGED <<poAttempt, poAuto>>  BY <1>9, <2>3 DEF PortalsMap
    <3>. QED  BY <2>1, <3>1 DEF PortalsInv, PortalsActs
  <2>. QED  BY <2>2, <2>3
<1>10. CASE PortalsTime
  <2>1. /\ poAttempt' = (IF poAttempt = PoNowhere THEN PoNowhere
                         ELSE [poAttempt EXCEPT !.left = IF @ > 0 THEN @ - 1 ELSE 0, !.since = PoUp(@, PoRetry)])
        /\ poAuto' = [poAuto EXCEPT !.since = PoUp(@, PoEnterEvery)]
        /\ poQueued' # PoNowhere => poQueued # PoNowhere
        /\ poAge' = PoUp(poAge, PoKeep) /\ poUsed' = "none" /\ UNCHANGED <<poLast, poStale>>
    BY <1>10 DEF PortalsTime
  <2>2. /\ poAuto' \in [commanding : BOOLEAN, since : Nat, announced : SUBSET PoPortals]
        /\ poAuto'.since >= poAuto.since
    <3>1. poAuto.since \in Nat /\ PoUp(poAuto.since, PoEnterEvery) \in Nat /\ PoUp(poAuto.since, PoEnterEvery) >= poAuto.since
      BY DEF PortalsInv, PoUp
    <3>. HIDE DEF PoUp
    <3>. QED  BY <2>1, <3>1 DEF PortalsInv
  <2>3. poAge' \in 0..PoKeep /\ poAge' = IF poAge < PoKeep THEN poAge + 1 ELSE poAge  BY <2>1 DEF PortalsInv, PoUp
  <2>4. ASSUME poAttempt # PoNowhere
        PROVE /\ poAttempt' \in [portal : PoPortals, left : 0..PoKeep, since : Nat]
              /\ poAttempt'.left = IF poAttempt.left > 0 THEN poAttempt.left - 1 ELSE 0
    <3>1. poAttempt \in [portal : PoPortals, left : 0..PoKeep, since : Nat]  BY <2>4 DEF PortalsInv
    <3>2. PoUp(poAttempt.since, PoRetry) \in Nat  BY <3>1 DEF PoUp
    <3>. DEFINE left == IF poAttempt.left > 0 THEN poAttempt.left - 1 ELSE 0
                since == PoUp(poAttempt.since, PoRetry)
    <3>3. left \in 0..PoKeep  BY <3>1
    <3>4. poAttempt' = [poAttempt EXCEPT !.left = left, !.since = since]  BY <2>1, <2>4
    <3>. HIDE DEF left, since
    <3>5. since \in Nat  BY <3>2 DEF since
    <3>6. poAttempt' \in [portal : PoPortals, left : 0..PoKeep, since : Nat] /\ poAttempt'.left = left
      BY <3>1, <3>3, <3>4, <3>5
    <3>. QED  BY <3>6 DEF left
  <2>5. (poAttempt' # PoNowhere => poAttempt # PoNowhere)  BY <2>1
  <2>. QED  BY <2>1, <2>2, <2>3, <2>4, <2>5 DEF PortalsInv, PortalsActs
<1>11. ASSUME NEW distance \in [PoPortals -> {0, 1, 2}], NEW p \in FindChosen(distance), WalkTick(p, distance[p] = 0)
       PROVE PortalsInv' /\ PortalsActs
  <2>1. p \in PoPortals /\ (distance[p] = 0) \in BOOLEAN  BY DEF FindChosen
  <2>. QED  BY <1>5, <1>11, <2>1
<1>. QED  BY <1>1, <1>2, <1>3, <1>4, <1>6, <1>7, <1>8, <1>9, <1>10, <1>11 DEF PortalsNext

------------------------------------------------------------------------------
(* Tributes: a death is answered only after the quiet that follows the last.    *)

RespectsInv ==
  /\ prSince \in Int
  /\ prPending # PrNever => prPending \in [pause : Int, age : Int] /\ prSince >= PrCooldown

LEMMA RespectsStart == RespectsInit => RespectsInv
BY RespectsAssumption DEF RespectsInit, RespectsInv

LEMMA RespectsStep ==
  ASSUME RespectsInv, [RespectsNext]_prVars
  PROVE  /\ RespectsInv' /\ [prSaid' # PrNever => prSince >= PrCooldown]_prVars
         /\ [prSaid' # PrNever => prSaid' <= PrLate]_prVars
<1>. USE RespectsAssumption
<1>1. CASE UNCHANGED prVars  BY <1>1 DEF prVars, RespectsInv
<1>2. ASSUME NEW pause \in PrMinPause..PrMaxPause, DeathHeard(pause)
      PROVE RespectsInv' /\ (prSaid' # PrNever => prSince >= PrCooldown) /\ (prSaid' # PrNever => prSaid' <= PrLate)
  BY <1>2 DEF DeathHeard, RespectsInv
<1>3. CASE RespectsTick  BY <1>3 DEF RespectsTick, RespectsInv
<1>4. CASE RespectsMap \/ RespectsSwitch \/ RespectsDisconnected
  BY <1>4 DEF RespectsMap, RespectsSwitch, RespectsDisconnected, RespectsInv
<1>5. CASE RespectsTime  BY <1>5 DEF RespectsTime, RespectsInv
<1>. QED  BY <1>1, <1>2, <1>3, <1>4, <1>5 DEF RespectsNext
------------------------------------------------------------------------------
(* Callouts: while it remembers the last one, its clock is the time since; and   *)
(* once it has forgotten, a map must settle before anything is news, which takes *)
(* as long as the pause.                                                        *)

CalloutsInv ==
  /\ \E s : coCalled \in Seq(s)
  /\ coSettles = CoNever \/ coSettles \in 0 .. CoSettle
  /\ coSince = CoNever \/ coSince \in 0 .. CoInterval
  /\ coApart = CoNever \/ coApart \in 0 .. CoInterval
  /\ coSince # CoNever => coApart = coSince
  /\ coSince = CoNever /\ coSettles # CoNever /\ coApart # CoNever => coApart = CoInterval \/ coApart + coSettles >= CoSettle
  /\ coSettles = CoNever => coPending = <<>>
  /\ coPending # <<>> /\ coSince = CoNever => coSettles = 0

CalledLater == Len(coCalled') > Len(coCalled) => coApart = CoNever \/ coApart + 1 >= CoInterval

LEMMA CalloutsStart == CalloutsInit => CalloutsInv
BY CalloutsAssumption DEF CalloutsInit, CalloutsInv

\* Nothing more is called by a step that forgets what was, or leaves it.
LEMMA NoneCalled ==
  ASSUME CalloutsInv, coCalled' = coCalled \/ coCalled' = <<>>
  PROVE  (\E s : coCalled' \in Seq(s)) /\ CalledLater
<1>1. PICK s : coCalled \in Seq(s)  BY DEF CalloutsInv
<1>2. Len(coCalled) \in Nat /\ Len(<<>>) = 0  BY <1>1
<1>3. CASE coCalled' = coCalled
  <2>1. ~(Len(coCalled') > Len(coCalled))  BY <1>2, <1>3
  <2>. QED  BY <1>1, <1>3, <2>1 DEF CalledLater
<1>4. CASE coCalled' = <<>>
  <2>1. coCalled' \in Seq(s) /\ ~(Len(coCalled') > Len(coCalled))  BY <1>2, <1>4
  <2>. QED  BY <2>1 DEF CalledLater
<1>. QED  BY <1>3, <1>4

LEMMA CalloutsStep == ASSUME CalloutsInv, [CalloutsNext]_coVars PROVE CalloutsInv' /\ [CalledLater]_coVars
<1>. USE CalloutsAssumption
<1>1. CASE UNCHANGED coVars  BY <1>1 DEF coVars, CalloutsInv
<1>2. CASE CalloutTick
  <2>. DEFINE settles == IF coSettles = CoNever THEN CoSettle ELSE Less(coSettles)
              pending == Heard(settles > 0).pending
              since == Older(coSince)
              call == coOn /\ pending # <<>> /\ CallDue(since)
              old == coSettles
              apart == coApart
  <2>1. /\ coOn => /\ coSettles' = settles /\ coPending' = (IF call THEN Tail(pending) ELSE pending)
                   /\ coCalled' = (IF call THEN Append(coCalled, Head(pending)) ELSE coCalled)
        /\ ~coOn => coSettles' = Less(coSettles) /\ coPending' = coPending /\ coCalled' = coCalled
        /\ coSince' = (IF call THEN 0 ELSE since)
        /\ coApart' = IF call THEN 0 ELSE Older(coApart)
    BY <1>2 DEF CalloutTick
  <2>2. settles > 0 => pending = coPending  BY DEF Heard
  <2>3. settles \in 0 .. CoSettle /\ (settles = 0 => coSettles = 0 \/ coSettles = 1)
    BY DEF CalloutsInv, Less
  <2>4. /\ since = CoNever <=> coSince = CoNever
        /\ coSince # CoNever => since = IF coSince = CoInterval THEN CoInterval ELSE coSince + 1
        /\ coSince # CoNever => since \in 0 .. CoInterval
    BY DEF CalloutsInv, Older
  <2>. HIDE DEF settles, pending, since
  <2>5. CASE call
    <3>1. PICK s : coCalled \in Seq(s)  BY DEF CalloutsInv
    <3>2. coCalled' = Append(coCalled, Head(pending)) /\ coSettles' = settles /\ coSince' = 0 /\ coApart' = 0
      BY <2>1, <2>5
    <3>3. \E r : coCalled' \in Seq(r)
      <4>. DEFINE head == Head(pending)
                  r == s \cup {head}
      <4>. HIDE DEF head
      <4>1. coCalled \in Seq(r) /\ head \in r  BY <3>1
      <4>. HIDE DEF r
      <4>2. Append(coCalled, head) \in Seq(r)  BY <4>1
      <4>. QED  BY <3>2, <4>2 DEF head
    <3>4. coApart = CoNever \/ coApart + 1 >= CoInterval
      <4>1. CASE coSince # CoNever
        <5>1. since >= CoInterval  BY <2>4, <2>5, <4>1 DEF CallDue
        <5>. QED  BY <2>4, <4>1, <5>1 DEF CalloutsInv
      <4>2. CASE coSince = CoNever
        <5>1. settles = 0
          <6>1. CASE settles > 0
            <7>1. coPending # <<>>  BY <2>2, <2>5, <6>1
            <7>. QED  BY <4>2, <6>1, <7>1 DEF CalloutsInv, Less, settles
          <6>. QED  BY <2>3, <6>1
        <5>2. coSettles = 0 \/ coSettles = 1  BY <2>3, <5>1
        <5>. QED  BY <4>2, <5>2 DEF CalloutsInv
      <4>. QED  BY <4>1, <4>2
    <3>. QED  BY <2>3, <3>2, <3>3, <3>4 DEF CalloutsInv, CalledLater
  <2>6. CASE ~call
    <3>1. coCalled' = coCalled  BY <2>1, <2>6
    <3>2. (\E s : coCalled' \in Seq(s)) /\ CalledLater  BY <3>1, NoneCalled
    <3>3. coSince' = since /\ coApart' = Older(coApart)  BY <2>1, <2>6
    <3>4. coSettles' = CoNever \/ coSettles' \in 0 .. CoSettle
      BY <2>1, <2>3 DEF CalloutsInv, Less
    <3>5. /\ coApart' = CoNever \/ coApart' \in 0 .. CoInterval
          /\ coSince' # CoNever => coApart' = coSince'
      BY <2>4, <3>3 DEF CalloutsInv, Older
    <3>6. ASSUME coSince' = CoNever, coSettles' # CoNever, coApart' # CoNever
          PROVE coApart' = CoInterval \/ coApart' + coSettles' >= CoSettle
      <4>1. coSince = CoNever /\ coApart # CoNever /\ coApart \in 0 .. CoInterval
        BY <2>4, <3>3, <3>6 DEF CalloutsInv, Older
      <4>2. coApart' = IF coApart = CoInterval THEN coApart ELSE coApart + 1  BY <3>3, <4>1 DEF Older
      <4>3. CASE coSettles = CoNever
        <5>1. coSettles' = CoSettle  BY <2>1, <3>6, <4>3 DEF settles, Less
        <5>. QED  BY <4>1, <4>2, <5>1
      <4>4. CASE coSettles # CoNever
        <5>1. coSettles' = Less(coSettles)  BY <2>1, <4>4 DEF settles
        <5>2. coSettles \in 0 .. CoSettle /\ coSettles' = IF coSettles = 0 THEN 0 ELSE coSettles - 1
          BY <4>4, <5>1 DEF Less, CalloutsInv
        <5>. QED  BY <4>1, <4>2, <4>4, <5>2 DEF CalloutsInv
      <4>. QED  BY <4>3, <4>4
    <3>7. coSettles' = CoNever => coPending' = <<>>
      BY <2>1, <2>3 DEF CalloutsInv, Less
    <3>8. coPending' # <<>> /\ coSince' = CoNever => coSettles' = 0
      <4>1. CASE coOn
        BY <2>1, <2>4, <2>6, <3>3, <4>1 DEF CallDue
      <4>2. CASE ~coOn
        BY <2>1, <2>4, <3>3, <4>2 DEF CalloutsInv, Less
      <4>. QED  BY <4>1, <4>2
    <3>. QED  BY <2>4, <3>2, <3>3, <3>4, <3>5, <3>6, <3>7, <3>8 DEF CalloutsInv
  <2>. HIDE DEF call
  <2>. QED  BY <2>5, <2>6 DEF CalledLater
<1>3. ASSUME NEW p, Opens(p) \/ Closes(p) PROVE CalloutsInv' /\ CalledLater
  <2>1. UNCHANGED <<coCalled, coSettles, coSince, coApart, coPending>>  BY <1>3 DEF Opens, Closes
  <2>2. (\E s : coCalled' \in Seq(s)) /\ CalledLater  BY <2>1, NoneCalled
  <2>. QED  BY <2>1, <2>2 DEF CalloutsInv
<1>4. CASE CalloutMap \/ CalloutGone \/ CalloutToggle
  <2>1. /\ coCalled' = coCalled \/ coCalled' = <<>>
        /\ coApart' = coApart
        /\ \/ UNCHANGED <<coPending, coSettles, coSince>>
           \/ coPending' = <<>> /\ coSince' = CoNever /\ coSettles' \in {CoNever, CoSettle}
    BY <1>4 DEF CalloutMap, CalloutGone, CalloutToggle, Arrived, NewState
  <2>2. (\E s : coCalled' \in Seq(s)) /\ CalledLater  BY <2>1, NoneCalled
  <2>. QED  BY <2>1, <2>2 DEF CalloutsInv
<1>. QED  BY <1>1, <1>2, <1>3, <1>4 DEF CalloutsNext
------------------------------------------------------------------------------
(* The disguise: what was last handled of the player is remembered as the server *)
(* said it, and the client shows what was last applied over it.                  *)

\* Of one stat, where nothing went by unhandled.
StatTrue(missed, original, applied, server, client) ==
  /\ original # SdNone => server # SdNone
  /\ ~missed => /\ server # SdNone => original = server
                /\ client = SdOr(applied, SdOr(server, SdAbsent))

DisguiseInv ==
  /\ sdTargets \in SdStatuses /\ sdOriginals \in SdStatuses /\ sdApplied \in SdStatuses /\ sdServer \in SdStatuses
  /\ sdClient \in [SdStats -> SdValues] /\ sdSessions \in Nat
  /\ \A s \in SdStats : StatTrue(sdMissed, sdOriginals[s], sdApplied[s], sdServer[s], sdClient[s])

LEMMA DisguiseStarts == DisguiseInit => DisguiseInv
BY StatDisguiseAssumption DEF DisguiseInit, DisguiseInv, StatTrue, SdUnset, SdStatuses, SdMaybe, SdOr

\* A status handled leaves one stat true, and shown as it is wanted.
LEMMA StatHandled ==
  ASSUME DisguiseInv, sdOn, NEW announced \in BOOLEAN, NEW data \in SdStatuses, Status(announced, data), NEW s \in SdStats,
         announced /\ sdServer[s] # SdNone => data[s] # SdNone
  PROVE  /\ StatTrue(sdMissed', sdOriginals'[s], sdApplied'[s], sdServer'[s], sdClient'[s])
         /\ sdOriginals'[s] \in SdMaybe /\ sdServer'[s] \in SdMaybe /\ sdClient'[s] \in SdValues
         /\ ~sdMissed' => sdClient'[s] = SdOr(sdTargets[s], SdOr(sdServer'[s], SdAbsent))
<1>. DEFINE told == IF announced THEN SdNone ELSE sdApplied[s]
            carried == IF sdTargets[s] # SdNone
                       THEN IF data[s] = SdNone /\ told = sdTargets[s] THEN SdNone ELSE sdTargets[s]
                       ELSE IF told # SdNone /\ data[s] = SdNone THEN SdOr(sdOriginals[s], SdAbsent)
                       ELSE data[s]
<1>1. /\ sdServer'[s] = SdOr(data[s], IF announced THEN SdNone ELSE sdServer[s])
      /\ sdOriginals'[s] = SdOr(data[s], sdOriginals[s]) /\ sdApplied' = sdTargets
      /\ sdMissed' = (sdMissed /\ ~announced)
  BY DEF Status, Rewritten
<1>2. ToldBefore(announced)[s] = told  BY DEF ToldBefore, SdUnset
<1>3. Edited(s, data, ToldBefore(announced)) = carried  BY <1>2 DEF Edited
<1>4. sdClient'[s] = SdOr(carried, IF announced THEN SdAbsent ELSE sdClient[s])
  <2>1. sdClient' = Shown(announced, [t \in SdStats |-> Edited(t, data, ToldBefore(announced))])  BY DEF Status
  <2>. QED  BY <1>3, <2>1 DEF Shown
<1>5. /\ sdTargets[s] \in SdMaybe /\ sdOriginals[s] \in SdMaybe /\ sdServer[s] \in SdMaybe /\ sdApplied[s] \in SdMaybe
      /\ data[s] \in SdMaybe /\ sdClient[s] \in SdValues
  BY DEF DisguiseInv, SdStatuses
<1>6. StatTrue(sdMissed, sdOriginals[s], sdApplied[s], sdServer[s], sdClient[s])  BY DEF DisguiseInv
<1>7. sdApplied'[s] = sdTargets[s]  BY <1>1
<1>. QED  BY <1>1, <1>4, <1>5, <1>6, <1>7, StatDisguiseAssumption DEF StatTrue, SdOr, SdMaybe

LEMMA DisguiseStep ==
  ASSUME DisguiseInv, [DisguiseNext]_sdVars
  PROVE  /\ DisguiseInv'
         /\ [sdServer' # sdServer \/ sdClient' # sdClient => (sdOn /\ ~sdMissed' /\ sdSessions' = sdSessions
               => \A s \in SdStats : sdClient'[s] = SdOr(sdTargets[s], SdOr(sdServer'[s], SdAbsent)))]_sdVars
<1>. DEFINE Wants == sdServer' # sdServer \/ sdClient' # sdClient => (sdOn /\ ~sdMissed' /\ sdSessions' = sdSessions
               => \A s \in SdStats : sdClient'[s] = SdOr(sdTargets[s], SdOr(sdServer'[s], SdAbsent)))
<1>1. CASE UNCHANGED sdVars
  <2>1. /\ sdTargets' = sdTargets /\ sdOriginals' = sdOriginals /\ sdApplied' = sdApplied /\ sdServer' = sdServer
        /\ sdClient' = sdClient /\ sdMissed' = sdMissed /\ sdSessions' = sdSessions
    BY <1>1 DEF sdVars
  <2>. QED  BY <1>1, <2>1 DEF DisguiseInv
<1>2. ASSUME NEW announced \in BOOLEAN, NEW data \in SdStatuses, Status(announced, data),
             announced => \A s \in SdStats : sdServer[s] # SdNone => data[s] # SdNone
      PROVE  DisguiseInv' /\ Wants
  <2>1. sdSessions' = sdSessions /\ sdTargets' = sdTargets  BY <1>2 DEF Status
  <2>2. CASE sdOn
    <3>1. \A s \in SdStats : /\ StatTrue(sdMissed', sdOriginals'[s], sdApplied'[s], sdServer'[s], sdClient'[s])
                             /\ sdOriginals'[s] \in SdMaybe /\ sdServer'[s] \in SdMaybe /\ sdClient'[s] \in SdValues
                             /\ ~sdMissed' => sdClient'[s] = SdOr(sdTargets[s], SdOr(sdServer'[s], SdAbsent))
      BY <1>2, <2>2, StatHandled
    <3>2. /\ sdServer' = [s \in SdStats |-> SdOr(data[s], IF announced THEN SdNone ELSE sdServer[s])]
          /\ sdOriginals' = [s \in SdStats |-> SdOr(data[s], sdOriginals[s])] /\ sdApplied' = sdTargets
          /\ sdClient' = Shown(announced, [s \in SdStats |-> Edited(s, data, ToldBefore(announced))])
      BY <1>2, <2>2 DEF Status, Rewritten
    <3>3. sdServer' \in SdStatuses /\ sdOriginals' \in SdStatuses  BY <3>1, <3>2 DEF SdStatuses
    <3>4. sdClient' \in [SdStats -> SdValues]  BY <3>1, <3>2 DEF Shown
    <3>. QED  BY <2>1, <3>1, <3>2, <3>3, <3>4 DEF DisguiseInv
  <2>3. CASE ~sdOn
    <3>1. /\ sdServer' = [s \in SdStats |-> SdOr(data[s], IF announced THEN SdNone ELSE sdServer[s])]
          /\ sdOriginals' = sdOriginals /\ sdApplied' = sdApplied /\ sdMissed' = TRUE
          /\ sdClient' = [s \in SdStats |-> SdOr(data[s], IF announced THEN SdAbsent ELSE sdClient[s])]
      BY <1>2, <2>3 DEF Status, Shown
    <3>2. \A s \in SdStats : /\ data[s] \in SdMaybe /\ sdServer[s] \in SdMaybe /\ sdClient[s] \in SdValues
                             /\ sdServer[s] # SdNone => sdServer'[s] # SdNone
      BY <1>2, <3>1 DEF DisguiseInv, SdStatuses, SdOr
    <3>3. sdServer' \in SdStatuses  BY <3>1, <3>2 DEF SdStatuses, SdOr, SdMaybe
    <3>4. sdClient' \in [SdStats -> SdValues]  BY <3>1, <3>2, StatDisguiseAssumption DEF SdOr, SdMaybe
    <3>5. \A s \in SdStats : StatTrue(sdMissed', sdOriginals'[s], sdApplied'[s], sdServer'[s], sdClient'[s])
      BY <3>1, <3>2 DEF DisguiseInv, StatTrue
    <3>. QED  BY <2>1, <2>3, <3>1, <3>3, <3>4, <3>5 DEF DisguiseInv
  <2>. QED  BY <2>2, <2>3
<1>3. ASSUME NEW s \in SdStats, NEW v \in SdMaybe, Retarget(s, v) PROVE DisguiseInv' /\ Wants
  <2>1. /\ sdTargets' = [sdTargets EXCEPT ![s] = v]
        /\ sdOriginals' = sdOriginals /\ sdApplied' = sdApplied /\ sdServer' = sdServer
        /\ sdClient' = sdClient /\ sdMissed' = sdMissed /\ sdSessions' = sdSessions
    BY <1>3 DEF Retarget
  <2>2. sdTargets' \in SdStatuses  BY <2>1 DEF DisguiseInv, SdStatuses
  <2>. QED  BY <2>1, <2>2 DEF DisguiseInv
<1>4. CASE SdToggle
  <2>1. /\ sdTargets' = sdTargets /\ sdOriginals' = sdOriginals /\ sdApplied' = sdApplied /\ sdServer' = sdServer
        /\ sdClient' = sdClient /\ sdMissed' = sdMissed /\ sdSessions' = sdSessions
    BY <1>4 DEF SdToggle
  <2>. QED  BY <2>1 DEF DisguiseInv
<1>5. CASE NextSession
  <2>1. /\ sdTargets' = sdTargets /\ sdOriginals' = SdUnset /\ sdApplied' = SdUnset /\ sdServer' = SdUnset
        /\ sdClient' = [s \in SdStats |-> SdAbsent] /\ sdMissed' = TRUE /\ sdSessions' = sdSessions + 1
    BY <1>5 DEF NextSession
  <2>2. SdUnset \in SdStatuses /\ \A s \in SdStats : SdUnset[s] = SdNone  BY DEF SdUnset, SdStatuses, SdMaybe
  <2>3. sdSessions' # sdSessions /\ sdSessions' \in Nat  BY <2>1 DEF DisguiseInv
  <2>4. \A s \in SdStats : StatTrue(sdMissed', sdOriginals'[s], sdApplied'[s], sdServer'[s], sdClient'[s])
    BY <2>1, <2>2 DEF StatTrue
  <2>. QED  BY <2>1, <2>2, <2>3, <2>4, StatDisguiseAssumption DEF DisguiseInv
<1>. HIDE DEF Wants
<1>. QED  BY <1>1, <1>2, <1>3, <1>4, <1>5 DEF DisguiseNext, Wants
------------------------------------------------------------------------------
(* The wheel: a walk the module follows is owned by the plugin that asked for it, *)
(* a ring is a named ground, and what is named was named here.                   *)

DgGround(place, held, orbit, pinned, stale) ==
  [place |-> place, held |-> held, orbit |-> orbit, pinned |-> pinned, stale |-> stale]
IsWalk(target) == \E by, left : \E push \in Int : target = DgWalk(by, push, left)
IsGround(mind) == \E place, held, orbit, stale : \E pinned \in BOOLEAN : mind = DgGround(place, held, orbit, pinned, stale)

SteeringInv ==
  /\ IsWalk(dgTarget) /\ IsGround(dgMind)
  /\ dgAt \in Int /\ dgSteer \in DgSides /\ (dgChord = DgNone \/ dgChord \in Int)
  /\ WalkIsOwned /\ NamedHere /\ RingIsNamed

OneWriterStep == dgTarget.by = "cursor" /\ DgChordHeld => dgTarget'.by # "dodge"
ReturnsStep ==
  /\ dgMind' # dgMind /\ dgMind'.held /\ ~dgMind'.pinned /\ ~dgMind'.stale => DgGap(dgAt, dgMind'.place) <= DgReach
  /\ dgMind.pinned /\ ~dgMind'.pinned => dgMind'.place = dgAt \/ dgMind' = DgBlank
SteeringKept == SteeringInv' /\ OneWriterStep /\ ReturnsStep

LEMMA EachIsAWalk == ASSUME NEW by, NEW push \in Int, NEW left PROVE IsWalk(DgWalk(by, push, left))
BY DEF IsWalk
LEMMA EachIsGround ==
  ASSUME NEW place, NEW held, NEW orbit, NEW pinned \in BOOLEAN, NEW stale PROVE IsGround(DgGround(place, held, orbit, pinned, stale))
BY DEF IsGround
LEMMA AtRest == /\ IsWalk(DgNoTarget) /\ DgNoTarget.by = "nobody"
                /\ IsGround(DgBlank) /\ DgBlank.orbit = 0 /\ ~DgBlank.pinned /\ ~DgBlank.held
<1>1. DgNoTarget = DgWalk("nobody", 0, 0) /\ DgBlank = DgGround(0, FALSE, 0, FALSE, FALSE)  BY DEF DgNoTarget, DgBlank, DgGround
<1>2. IsWalk(DgWalk("nobody", 0, 0))  BY EachIsAWalk
<1>3. IsGround(DgGround(0, FALSE, 0, FALSE, FALSE))  BY EachIsGround
<1>. QED  BY <1>1, <1>2, <1>3 DEF DgNoTarget, DgWalk, DgBlank

LEMMA SteeringStarts == SteeringInit => SteeringInv
BY SteeringAssumption, AtRest DEF SteeringInit, SteeringInv, DgSides, WalkIsOwned, NamedHere, RingIsNamed

\* A command is the dodge's and pushes by a number of places, or is none.
LEMMA CommandIsAPush ==
  ASSUME NEW answer \in DgAnswers, NEW intent \in DgSides, NEW cancels
  PROVE  \/ WalkCommand(answer, intent, cancels) = DgNoTarget
         \/ IsWalk(WalkCommand(answer, intent, cancels)) /\ WalkCommand(answer, intent, cancels).by = "dodge"
<1>. DEFINE dir == answer.dir
            speed == IF answer.crowded THEN DgFull ELSE DgShare
            against == IF cancels THEN intent * DgShare ELSE 0
            cancel == dir * speed - against
            want == IF cancel * dir >= 0 THEN cancel ELSE dir * speed
            size == IF DgGap(want, 0) < speed THEN DgGap(want, 0) ELSE speed
            ticks == (answer.steps + size - 1) \div size
<1>1. dir \in {-1, 0, 1} /\ speed \in Int /\ intent \in {-1, 0, 1} /\ DgShare \in Int
  BY SteeringAssumption DEF DgSides
<1>2. WalkCommand(answer, intent, cancels) =
        IF dir = 0 THEN IF cancels /\ intent # 0 THEN DgWalk("dodge", -intent * DgShare, DgHold) ELSE DgNoTarget
        ELSE IF want = 0 THEN DgNoTarget
        ELSE DgWalk("dodge", DgSign(want) * size, IF ticks < DgHold THEN ticks ELSE DgHold)
  BY DEF WalkCommand
<1>. HIDE DEF dir, speed
<1>3. against \in Int /\ dir * speed \in Int  BY <1>1
<1>4. want \in Int  BY <1>1, <1>3
<1>. HIDE DEF want
<1>5. size \in Int /\ DgSign(want) \in Int  BY <1>1, <1>4 DEF DgGap, DgSign
<1>. HIDE DEF size, ticks
<1>6. DgSign(want) * size \in Int /\ -intent * DgShare \in Int  BY <1>1, <1>5
<1>7. \A push \in Int : \A left : IsWalk(DgWalk("dodge", push, left)) /\ DgWalk("dodge", push, left).by = "dodge"
  <2>1. \A push \in Int : \A left : IsWalk(DgWalk("dodge", push, left))  BY EachIsAWalk
  <2>2. \A push, left : DgWalk("dodge", push, left).by = "dodge"  BY DEF DgWalk
  <2>. QED  BY <2>1, <2>2
<1>. QED  BY <1>2, <1>6, <1>7

\* What a plan keeps of the ground.
LEMMA GroundKept ==
  ASSUME SteeringInv, NEW intent, NEW pin, NEW ring \in BOOLEAN, NEW beast, NEW danger, NEW answer, NEW ground,
         dgMind' = Planned(intent, pin, ring, beast, danger, answer, ground).mind
  PROVE  /\ IsGround(dgMind')
         /\ dgMind'.orbit > 0 => dgMind'.pinned
         /\ ReturnsStep
<1>. DEFINE named == intent = 0 /\ (pin # DgNone \/ ring)
            kept == dgMind.held /\ named = dgMind.pinned
            back == Shifted(ground)
            Mind(place, orbit, held) == DgGround(place, held, orbit, named, FALSE)
            mind == IF named /\ pin # DgNone THEN Mind(pin, 0, kept)
                    ELSE IF named THEN Mind(beast, DgRange, kept)
                    ELSE IF kept /\ intent = 0 /\ ~dgMind.stale /\ DgWorth(ground, back) /\ DgGap(dgAt, back) <= DgReach
                         THEN Mind(back, dgMind.orbit, TRUE)
                    ELSE Mind(dgAt, 0, FALSE)
<1>1. Aimed(intent, pin, ring, beast, ground).mind = mind  BY DEF Aimed, DgGround
<1>2. \E held : dgMind' = [mind EXCEPT !.held = held]
  <2>1. \E held : Planned(intent, pin, ring, beast, danger, answer, ground).mind
                    = [Aimed(intent, pin, ring, beast, ground).mind EXCEPT !.held = held]
    BY DEF Planned
  <2>. QED  BY <1>1, <2>1
<1>3. PICK held : dgMind' = [mind EXCEPT !.held = held]  BY <1>2
<1>4. named \in BOOLEAN /\ dgAt \in Int /\ DgReach \in Nat /\ dgMind.pinned \in BOOLEAN /\ (dgMind.orbit > 0 => dgMind.pinned)
  BY SteeringAssumption DEF SteeringInv, RingIsNamed, IsGround, DgGround
<1>. HIDE DEF named, back
<1>10. \A place, orbit : /\ IsGround(Mind(place, orbit, held)) /\ Mind(place, orbit, held).orbit = orbit
                        /\ Mind(place, orbit, held).place = place /\ Mind(place, orbit, held).pinned = named
  <2>1. \A place, orbit : IsGround(Mind(place, orbit, held))  BY <1>4, EachIsGround
  <2>2. \A place, orbit : /\ Mind(place, orbit, held).orbit = orbit
                          /\ Mind(place, orbit, held).place = place /\ Mind(place, orbit, held).pinned = named
    BY DEF DgGround
  <2>. QED  BY <2>1, <2>2
<1>. HIDE DEF Mind
<1>5. CASE named /\ pin # DgNone
  <2>1. dgMind' = Mind(pin, 0, held)  BY <1>3, <1>5 DEF Mind, DgGround
  <2>. QED  BY <1>4, <1>5, <1>10, <2>1 DEF ReturnsStep
<1>6. CASE named /\ pin = DgNone
  <2>1. dgMind' = Mind(beast, DgRange, held)  BY <1>3, <1>6 DEF Mind, DgGround
  <2>. QED  BY <1>4, <1>6, <1>10, <2>1 DEF ReturnsStep
<1>7. CASE ~named /\ kept /\ intent = 0 /\ ~dgMind.stale /\ DgWorth(ground, back) /\ DgGap(dgAt, back) <= DgReach
  <2>1. dgMind' = Mind(back, dgMind.orbit, held)  BY <1>3, <1>7 DEF Mind, DgGround
  <2>2. ~dgMind.pinned  BY <1>4, <1>7
  <2>. QED  BY <1>4, <1>7, <1>10, <2>1, <2>2 DEF ReturnsStep
<1>8. CASE ~named /\ ~(kept /\ intent = 0 /\ ~dgMind.stale /\ DgWorth(ground, back) /\ DgGap(dgAt, back) <= DgReach)
  <2>1. dgMind' = Mind(dgAt, 0, held)  BY <1>3, <1>8 DEF Mind, DgGround
  <2>2. DgGap(dgAt, dgAt) = 0  BY <1>4 DEF DgGap
  <2>. QED  BY <1>4, <1>8, <1>10, <2>1, <2>2 DEF ReturnsStep
<1>. QED  BY <1>5, <1>6, <1>7, <1>8

LEMMA PlanKeeps ==
  ASSUME SteeringInv, NEW press, NEW weapon, NEW beast, NEW ground, NEW danger, NEW answer \in DgAnswers, NEW driving,
         DgPlan(press, weapon, beast, ground, danger, answer, driving)
  PROVE  SteeringKept
<1>. DEFINE anchor == IF dgAnchor = DgNone /\ dgArmed THEN dgAt ELSE dgAnchor
            picked == DgPicked(press)
            ring == DgRing(anchor, picked, weapon)
            intent == IF driving.respects THEN dgSteer ELSE 0
            plan == Planned(intent, anchor, ring.holds, beast, danger, answer, ground)
            command == IF plan.steers THEN WalkCommand(answer, intent, driving.cancels) ELSE DgNoTarget
<1>1. /\ dgAnchor' = anchor /\ dgEngaged' = ring.engaged /\ dgOrbiting' = ring.holds
      /\ IF DgChordHeld
         THEN dgMind' = DgBlank /\ dgCommanding' = dgCommanding /\ dgTarget' = dgTarget
         ELSE /\ dgMind' = plan.mind
              /\ dgCommanding' = (command # DgNoTarget)
              /\ dgTarget' = IF command = DgNoTarget THEN LetGo(dgCommanding) ELSE command
      /\ dgHere' = dgHere \cup (IF dgAnchor = anchor THEN {} ELSE {"place"}) \cup (IF press = "beast" THEN {"enemy"} ELSE {})
      /\ dgArmed' = dgArmed /\ dgWalking' = dgWalking /\ dgSteer' = dgSteer /\ dgChord' = dgChord /\ dgAt' = dgAt
      /\ dgStrange' = dgStrange
  BY DEF DgPlan
<1>2. intent \in DgSides  BY DEF SteeringInv, DgSides
<1>3. command = DgNoTarget \/ (IsWalk(command) /\ command.by = "dodge")
  BY <1>2, CommandIsAPush
<1>4. /\ ring.engaged = (IF anchor = DgNone /\ picked = FALSE THEN DgNone ELSE picked)
      /\ ring.holds = (anchor = DgNone /\ picked = TRUE /\ weapon /\ DgRange > 0)
      /\ ring.holds \in BOOLEAN
  BY DEF DgRing
<1>5. picked = dgEngaged \/ press = "beast" \/ picked = DgNone  BY DEF DgPicked
<1>6. dgAt # DgNone /\ DgNone # TRUE /\ DgNone # FALSE  BY SteeringAssumption DEF SteeringInv
<1>. HIDE DEF ring, command, picked, intent
<1>7. NamedHere'
  <2>1. ASSUME ~dgStrange, anchor # DgNone PROVE dgArmed /\ "place" \in dgHere'
    BY <1>1, <1>6, <2>1 DEF SteeringInv, NamedHere
  <2>2. ASSUME ~dgStrange, ring.engaged # DgNone PROVE "enemy" \in dgHere'
    BY <1>1, <1>4, <1>5, <2>2 DEF SteeringInv, NamedHere
  <2>. HIDE DEF anchor
  <2>. QED  BY <1>1, <2>1, <2>2 DEF NamedHere
<1>8. dgOrbiting' => dgEngaged' # DgNone /\ dgAnchor' = DgNone  BY <1>1, <1>4, <1>6
<1>. HIDE DEF anchor
<1>9. CASE DgChordHeld
  <2>1. dgMind' = DgBlank /\ dgCommanding' = dgCommanding /\ dgTarget' = dgTarget  BY <1>1, <1>9
  <2>2. WalkIsOwned' /\ OneWriterStep  BY <1>1, <2>1 DEF WalkIsOwned, SteeringInv, OneWriterStep
  <2>3. RingIsNamed'  BY <1>8, <2>1, AtRest DEF RingIsNamed
  <2>4. ReturnsStep  BY <2>1, AtRest DEF ReturnsStep
  <2>5. IsGround(dgMind') /\ IsWalk(dgTarget')  BY <2>1, AtRest DEF SteeringInv
  <2>. QED  BY <1>1, <1>7, <2>2, <2>3, <2>4, <2>5 DEF SteeringKept, SteeringInv
<1>10. CASE ~DgChordHeld
  <2>1. /\ dgMind' = plan.mind /\ dgCommanding' = (command # DgNoTarget)
        /\ dgTarget' = IF command = DgNoTarget THEN LetGo(dgCommanding) ELSE command
    BY <1>1, <1>10
  <2>2. /\ IsGround(dgMind')
        /\ dgMind'.orbit > 0 => dgMind'.pinned
        /\ ReturnsStep
    BY <1>4, <2>1, GroundKept
  <2>3. RingIsNamed'  BY <1>8, <2>2 DEF RingIsNamed
  <2>4. OneWriterStep  BY <1>10 DEF OneWriterStep
  <2>5. WalkIsOwned' /\ IsWalk(dgTarget')
    <3>1. CASE command # DgNoTarget
      <4>1. dgTarget' = command /\ dgCommanding' /\ command.by = "dodge" /\ IsWalk(command)  BY <1>3, <2>1, <3>1
      <4>. QED  BY <4>1 DEF WalkIsOwned
    <3>2. CASE command = DgNoTarget /\ dgCommanding
      <4>1. dgTarget' = DgNoTarget  BY <2>1, <3>2 DEF LetGo
      <4>. QED  BY <4>1, AtRest DEF WalkIsOwned
    <3>3. CASE command = DgNoTarget /\ ~dgCommanding
      <4>1. dgTarget' = dgTarget /\ dgWalking' = dgWalking  BY <1>1, <2>1, <3>3 DEF LetGo
      <4>. QED  BY <3>3, <4>1 DEF WalkIsOwned, SteeringInv
    <3>. QED  BY <3>1, <3>2, <3>3
  <2>. QED  BY <1>1, <1>7, <2>2, <2>3, <2>4, <2>5 DEF SteeringKept, SteeringInv
<1>. QED  BY <1>9, <1>10

LEMMA SteeringStep == ASSUME SteeringInv, [SteeringNext]_dgVars PROVE SteeringInv' /\ [OneWriterStep]_dgVars /\ [ReturnsStep]_dgVars
<1>1. CASE UNCHANGED dgVars
  <2>1. /\ dgTarget' = dgTarget /\ dgMind' = dgMind /\ dgAt' = dgAt /\ dgSteer' = dgSteer /\ dgChord' = dgChord
        /\ dgCommanding' = dgCommanding /\ dgWalking' = dgWalking /\ dgAnchor' = dgAnchor /\ dgEngaged' = dgEngaged
        /\ dgOrbiting' = dgOrbiting /\ dgArmed' = dgArmed /\ dgHere' = dgHere /\ dgStrange' = dgStrange
    BY <1>1 DEF dgVars, dgGhosts
  <2>. QED  BY <1>1, <2>1 DEF SteeringInv, WalkIsOwned, NamedHere, RingIsNamed
<1>2. CASE DgPlanNow
  <2>1. \E press, weapon, beast, ground, danger, driving : \E answer \in DgAnswers :
          DgPlan(press, weapon, beast, ground, danger, answer, driving)
    BY <1>2 DEF DgPlanNow
  <2>. QED  BY <2>1, PlanKeeps DEF SteeringKept
<1>3. CASE DgCursorWalk
  <2>1. /\ dgMind' = dgMind /\ dgAt' = dgAt /\ dgSteer' = dgSteer /\ dgChord' = dgChord
        /\ dgCommanding' = dgCommanding /\ dgAnchor' = dgAnchor /\ dgEngaged' = dgEngaged
        /\ dgOrbiting' = dgOrbiting /\ dgArmed' = dgArmed /\ dgHere' = dgHere /\ dgStrange' = dgStrange
    BY <1>3 DEF DgCursorWalk, dgHeld
  <2>2. \/ dgWalking' /\ dgChord \in Int /\ dgTarget' = DgWalk("cursor", dgChord, DgHold)
        \/ ~dgWalking' /\ dgTarget' = DgNoTarget
        \/ ~dgWalking' /\ ~dgWalking /\ dgTarget' = dgTarget
    BY <1>3 DEF DgCursorWalk, LetGo, SteeringInv
  <2>3. dgChord \in Int => IsWalk(DgWalk("cursor", dgChord, DgHold)) /\ DgWalk("cursor", dgChord, DgHold).by = "cursor"
    <3>1. dgChord \in Int => IsWalk(DgWalk("cursor", dgChord, DgHold))  BY EachIsAWalk
    <3>. QED  BY <3>1 DEF DgWalk
  <2>4. WalkIsOwned' /\ OneWriterStep /\ IsWalk(dgTarget')
    BY <2>1, <2>2, <2>3, AtRest DEF SteeringInv, WalkIsOwned, OneWriterStep
  <2>. QED  BY <2>1, <2>4 DEF SteeringInv, NamedHere, RingIsNamed, ReturnsStep
<1>4. CASE DgTick
  <2>1. /\ dgMind' = dgMind /\ dgSteer' = dgSteer /\ dgChord' = dgChord
        /\ dgCommanding' = dgCommanding /\ dgAnchor' = dgAnchor /\ dgEngaged' = dgEngaged /\ dgWalking' = dgWalking
        /\ dgOrbiting' = dgOrbiting /\ dgArmed' = dgArmed /\ dgHere' = dgHere /\ dgStrange' = dgStrange
        /\ dgTarget' = IF dgTarget.left = 1 THEN DgNoTarget ELSE [dgTarget EXCEPT !.left = @ - 1]
        /\ dgAt' = DgClamp(dgAt + dgTarget.push) \/ dgAt' = dgAt + DgSign(dgTarget.push - dgAt)
    BY <1>4 DEF DgTick, dgHeld, dgGhosts
  <2>2. PICK by, left : \E push \in Int : dgTarget = DgWalk(by, push, left)  BY DEF SteeringInv, IsWalk
  <2>7. PICK push \in Int : dgTarget = DgWalk(by, push, left)  BY <2>2
  <2>8. dgTarget' = DgNoTarget \/ dgTarget' = DgWalk(by, push, left - 1)  BY <2>1, <2>7 DEF DgWalk
  <2>3. dgTarget' = DgNoTarget \/ (IsWalk(dgTarget') /\ dgTarget'.by = by)
    <3>1. IsWalk(DgWalk(by, push, left - 1)) /\ DgWalk(by, push, left - 1).by = by
      <4>1. IsWalk(DgWalk(by, push, left - 1))  BY EachIsAWalk
      <4>. QED  BY <4>1 DEF DgWalk
    <3>. QED  BY <2>8, <3>1
  <2>4. dgTarget.push = push /\ dgTarget.by = by /\ dgAt \in Int  BY <2>7 DEF DgWalk, SteeringInv
  <2>5. dgAt' \in Int  BY <2>1, <2>4, SteeringAssumption DEF DgClamp, DgSign
  <2>6. WalkIsOwned' /\ OneWriterStep /\ IsWalk(dgTarget')
    BY <2>1, <2>3, <2>4, AtRest DEF SteeringInv, WalkIsOwned, OneWriterStep
  <2>. QED  BY <2>1, <2>5, <2>6 DEF SteeringInv, NamedHere, RingIsNamed, ReturnsStep
<1>5. CASE DgIdle
  <2>1. /\ dgTarget' = dgTarget /\ dgMind' = [dgMind EXCEPT !.stale = TRUE] /\ dgAt' = dgAt /\ dgSteer' = dgSteer /\ dgChord' = dgChord
        /\ dgCommanding' = dgCommanding /\ dgWalking' = dgWalking /\ dgAnchor' = dgAnchor /\ dgEngaged' = dgEngaged
        /\ dgOrbiting' = dgOrbiting /\ dgArmed' = dgArmed /\ dgHere' = dgHere /\ dgStrange' = dgStrange
    BY <1>5 DEF DgIdle, dgHeld, dgGhosts
  <2>2. PICK place, held, orbit, stale : \E pinned \in BOOLEAN : dgMind = DgGround(place, held, orbit, pinned, stale)
    BY DEF SteeringInv, IsGround
  <2>6. PICK pinned \in BOOLEAN : dgMind = DgGround(place, held, orbit, pinned, stale)  BY <2>2
  <2>7. dgMind' = DgGround(place, held, orbit, pinned, TRUE)  BY <2>1, <2>6 DEF DgGround
  <2>3. IsGround(dgMind')  BY <2>7, EachIsGround
  <2>4. dgMind'.orbit = dgMind.orbit /\ dgMind'.pinned = dgMind.pinned /\ dgMind'.stale  BY <2>6, <2>7 DEF DgGround
  <2>5. RingIsNamed' /\ ReturnsStep  BY <2>1, <2>4 DEF SteeringInv, RingIsNamed, ReturnsStep
  <2>. QED  BY <2>1, <2>3, <2>5 DEF SteeringInv, WalkIsOwned, NamedHere, OneWriterStep
<1>6. CASE DgTurn
  <2>. SUFFICES SteeringKept  BY DEF SteeringKept
  <2>1. CASE DgArm \/ DgNoEngage \/ DgDies
    <3>1. /\ dgTarget' = dgTarget /\ dgMind' = dgMind /\ dgAt' = dgAt /\ dgSteer' = dgSteer /\ dgChord' = dgChord
          /\ dgCommanding' = dgCommanding /\ dgWalking' = dgWalking /\ dgHere' = dgHere /\ dgStrange' = dgStrange
          /\ \/ dgAnchor' = DgNone /\ dgEngaged' = dgEngaged /\ dgOrbiting' = dgOrbiting
             \/ dgAnchor' = dgAnchor /\ dgArmed' = dgArmed /\ dgEngaged' = DgNone /\ dgOrbiting' = FALSE
             \/ dgAnchor' = dgAnchor /\ dgArmed' = dgArmed /\ dgEngaged # DgNone /\ dgEngaged' # DgNone /\ dgOrbiting' = dgOrbiting
      BY <2>1, SteeringAssumption DEF DgArm, DgNoEngage, DgDies, DgDropEngage, dgGhosts
    <3>2. NamedHere' /\ RingIsNamed'  BY <3>1 DEF SteeringInv, NamedHere, RingIsNamed
    <3>. QED  BY <3>1, <3>2 DEF SteeringInv, SteeringKept, WalkIsOwned, OneWriterStep, ReturnsStep
  <2>2. ASSUME DgModuleConnects \/ DgSwitch \/ DgChordSwitch \/ (\E p \in DgPlaces : DgMoved(p))
               \/ (\E d \in DgSides : DgSteers(d)) \/ (\E p \in {DgNone, DgLast} : DgPoints(p))
        PROVE SteeringKept
    <3>1. /\ dgTarget' = dgTarget \/ dgTarget' = DgNoTarget
          /\ dgMind' = dgMind /\ dgCommanding' = dgCommanding /\ dgWalking' = dgWalking /\ dgAnchor' = dgAnchor
          /\ dgEngaged' = dgEngaged /\ dgOrbiting' = dgOrbiting /\ dgArmed' = dgArmed /\ dgHere' = dgHere
          /\ dgStrange' = dgStrange
          /\ dgAt' = dgAt \/ dgAt' \in DgPlaces
          /\ dgSteer' = dgSteer \/ dgSteer' \in DgSides
          /\ dgChord' = dgChord \/ dgChord' \in {DgNone, DgLast}
      BY <2>2 DEF DgModuleConnects, DgSwitch, DgChordSwitch, DgMoved, DgSteers, DgPoints, DgSides, dgHeld, dgGhosts
    <3>2. dgAt' \in Int /\ dgSteer' \in DgSides /\ (dgChord' = DgNone \/ dgChord' \in Int)
      BY <3>1, SteeringAssumption DEF SteeringInv, DgPlaces
    <3>3. IsWalk(dgTarget') /\ WalkIsOwned' /\ OneWriterStep
      BY <3>1, AtRest DEF SteeringInv, WalkIsOwned, OneWriterStep
    <3>. QED  BY <3>1, <3>2, <3>3 DEF SteeringInv, SteeringKept, NamedHere, RingIsNamed, ReturnsStep
  <2>3. ASSUME NEW connects \in BOOLEAN, DgNewMap(connects) PROVE SteeringKept
    <3>1. /\ dgTarget' = dgTarget /\ dgAt' = dgAt /\ dgSteer' = dgSteer /\ dgChord' = dgChord
          /\ dgCommanding' = dgCommanding /\ dgWalking' = dgWalking
          /\ \/ dgAnchor' = DgNone /\ dgEngaged' = DgNone /\ dgOrbiting' = FALSE
             \/ dgAnchor' = dgAnchor /\ dgEngaged' = dgEngaged /\ dgOrbiting' = dgOrbiting /\ dgStrange' = TRUE
          /\ dgMind' = dgMind \/ dgMind' = DgBlank
      BY <2>3 DEF DgNewMap, DgDrop, DgDropEngage, dgHeld
    <3>2. NamedHere'  BY <3>1 DEF NamedHere
    <3>3. RingIsNamed' /\ ReturnsStep  BY <3>1, AtRest DEF SteeringInv, RingIsNamed, ReturnsStep
    <3>4. IsGround(dgMind')  BY <3>1, AtRest DEF SteeringInv
    <3>. QED  BY <3>1, <3>2, <3>3, <3>4 DEF SteeringInv, SteeringKept, WalkIsOwned, OneWriterStep
  <2>. QED  BY <1>6, <2>1, <2>2, <2>3 DEF DgTurn
<1>. QED  BY <1>1, <1>2, <1>3, <1>4, <1>5, <1>6 DEF SteeringNext
------------------------------------------------------------------------------
(* The tracker: what a track says has elapsed is the ticks since the entity was  *)
(* last sighted, what only walked is no further than it could have walked, and   *)
(* a track that survived a sweep was sighted shortly before it.                  *)

MtPlaces == Int \X Int
MtTracks == [there : {TRUE}, at : Int, elapsed : Int, moving : BOOLEAN, sample : MtPlaces, took : Int,
             sampled : BOOLEAN, turn : {-1, 0, 1}, turning : BOOLEAN]

TurnsSo(turns, turn, turning) ==
  \/ turns = <<0>> /\ turn = 0 /\ ~turning
  \/ \E a, b \in {-1, 0, 1} : turns = <<a, b>> /\ turn = b /\ (turning => a * b > 0)
TurnsTold ==
  /\ mtTrack.sampled = mtTrack.moving /\ (mtTrack.turning => mtTrack.moving)
  /\ mtTrack.moving => TurnsSo(mtTurns, mtTrack.turn, mtTrack.turning)

MotionInv ==
  /\ mtNow \in Int /\ mtSweptAt \in Int /\ mtTicks \in Nat /\ mtPath \in Int \X Int /\ mtJumped \in BOOLEAN
  /\ mtTrack = MtNone \/ mtTrack \in MtTracks
  /\ ~mtJumped => Squared(mtPath) <= MtTop * (mtTicks * mtTicks)
  /\ ~mtMissed /\ mtTrack.there => mtTrack.elapsed = mtTicks
  /\ ~mtCarried => mtSweptAt <= mtNow /\ (mtTrack.there => mtTrack.at >= mtSweptAt - MtStale)
  /\ mtTrack.there => TurnsTold

LedStep ==
  \A step \in MtSteps :
    MotionTick(step, TRUE) /\ ~mtMissed /\ mtTrack.there /\ mtTrack'.there /\ MtAge(mtTrack) <= MtStale =>
      LET path == Sum2(mtPath, step)
          jumped == mtJumped \/ Squared(step) > MtTop
          time == mtTicks + 1
      IN /\ ~jumped => mtTrack'.moving /\ mtTrack'.took = time
         /\ Squared(path) > MtTop * time * time => ~mtTrack'.moving
StaleStep ==
  (\E step \in MtSteps : MotionTick(step, FALSE)) /\ ~mtCarried /\ mtTrack'.there => mtNow - mtTrack'.at < 2 * MtStale

LEMMA MotionStarts == MotionInit => MotionInv
<1>. SUFFICES ASSUME MotionInit PROVE MotionInv  OBVIOUS
<1>1. mtTrack = MtNone /\ ~mtTrack.there  BY DEF MotionInit, MtNone
<1>2. mtPath \in Int \X Int /\ Squared(mtPath) = 0  BY DEF MotionInit, Nowhere, Squared
<1>3. MtTop * (0 * 0) = 0 /\ MtStale \in Int  BY MotionAssumption
<1>4. mtTicks = 0 /\ mtNow = 0 /\ mtSweptAt = 0 /\ mtJumped = FALSE  BY DEF MotionInit
<1>5. Squared(mtPath) <= MtTop * (mtTicks * mtTicks)  BY <1>2, <1>3, <1>4
<1>6. mtTicks \in Nat /\ mtNow \in Int /\ mtSweptAt \in Int /\ mtSweptAt <= mtNow  BY <1>4
<1>7. mtJumped \in BOOLEAN  BY <1>4
<1>. QED  BY <1>1, <1>2, <1>5, <1>6, <1>7 DEF MotionInv

\* Squares are not negative.
LEMMA SquareOf == ASSUME NEW a \in Int PROVE a * a \in Nat
<1>1. CASE a >= 0  BY <1>1
<1>2. CASE a < 0
  <2>1. -a \in Nat /\ a * a = (-a) * (-a)  BY <1>2
  <2>. QED  BY <2>1
<1>. QED  BY <1>1, <1>2

\* Ticks of walking are no further than walking all of them straight on.
LEMMA OneMoreWalked ==
  ASSUME NEW x \in Int, NEW y \in Int, NEW dx \in Int, NEW dy \in Int, NEW n \in Nat, NEW top \in Nat,
         x * x + y * y <= top * (n * n), dx * dx + dy * dy <= top
  PROVE  (x + dx) * (x + dx) + (y + dy) * (y + dy) <= top * ((n + 1) * (n + 1))
<1>. DEFINE p == x * x + y * y
            q == dx * dx + dy * dy
            d == x * dx + y * dy
<1>1. p \in Int /\ q \in Int /\ d \in Int /\ n * n \in Nat  OBVIOUS
<1>2. (x + dx) * (x + dx) + (y + dy) * (y + dy) = p + 2 * d + q  OBVIOUS
<1>3. top * ((n + 1) * (n + 1)) = top * (n * n) + 2 * (n * top) + top  OBVIOUS
<1>4. d <= n * top
  <2>1. CASE n = 0
    <3>1. x * x \in Nat /\ y * y \in Nat /\ x * x + y * y <= 0  BY <2>1, SquareOf
    <3>2. x * x = 0 /\ y * y = 0  BY <3>1
    <3>3. x = 0 /\ y = 0  BY <3>2
    <3>4. d = 0 /\ n * top = 0  BY <2>1, <3>3
    <3>. QED  BY <3>4
  <2>2. CASE n # 0
    <3>1. x - n * dx \in Int /\ y - n * dy \in Int  OBVIOUS
    <3>2. (x - n * dx) * (x - n * dx) \in Nat /\ (y - n * dy) * (y - n * dy) \in Nat  BY <3>1, SquareOf
    <3>3. (x - n * dx) * (x - n * dx) + (y - n * dy) * (y - n * dy) = p - 2 * (n * d) + (n * n) * q  OBVIOUS
    <3>4. (n * n) * q <= (n * n) * top
      <4>1. n * n \in Nat /\ q \in Int /\ top \in Int /\ q <= top  OBVIOUS
      <4>2. \A k \in Nat, a, b \in Int : a <= b => k * a <= k * b  OBVIOUS
      <4>. HIDE DEF q
      <4>. QED  BY <4>1, <4>2
    <3>5. (n * n) * top = top * (n * n) /\ (n * n) * top = n * (n * top)  OBVIOUS
    <3>6. p <= top * (n * n)  OBVIOUS
    <3>. DEFINE w == (x - n * dx) * (x - n * dx) + (y - n * dy) * (y - n * dy)
    <3>7. w >= 0 /\ w \in Int  BY <3>2
    <3>. HIDE DEF w
    <3>8. w = p - 2 * (n * d) + (n * n) * q  BY <3>3 DEF w
    <3>9. n * d \in Int /\ n * (n * top) \in Int /\ (n * n) * q \in Int  BY <1>1
    <3>. HIDE DEF p, q, d
    <3>10. n * d <= n * (n * top)  BY <1>1, <3>4, <3>5, <3>6, <3>7, <3>8, <3>9
    <3>11. \A a, b \in Int : n * a <= n * b => a <= b  BY <2>2
    <3>12. n * top \in Int  OBVIOUS
    <3>. QED  BY <1>1, <3>10, <3>11, <3>12
  <2>. QED  BY <2>1, <2>2
<1>5. p <= top * (n * n) /\ q <= top  OBVIOUS
<1>6. n * top \in Int /\ top * (n * n) \in Int  OBVIOUS
<1>. HIDE DEF p, q, d
<1>. QED  BY <1>1, <1>2, <1>3, <1>4, <1>5, <1>6

LEMMA StillWalked ==
  ASSUME MotionInv, NEW step \in MtSteps, ~mtJumped, ~(Squared(step) > MtTop)
  PROVE  Squared(Sum2(mtPath, step)) <= MtTop * ((mtTicks + 1) * (mtTicks + 1))
<1>. DEFINE x == mtPath[1]
            y == mtPath[2]
            dx == step[1]
            dy == step[2]
<1>1. x \in Int /\ y \in Int /\ dx \in Int /\ dy \in Int /\ mtTicks \in Nat /\ MtTop \in Nat
  BY MotionAssumption DEF MotionInv
<1>2. x * x + y * y <= MtTop * (mtTicks * mtTicks)  BY DEF MotionInv, Squared
<1>3. Squared(Sum2(mtPath, step)) = (x + dx) * (x + dx) + (y + dy) * (y + dy)  BY DEF Squared, Sum2
<1>4. Squared(step) = dx * dx + dy * dy  BY DEF Squared
<1>5. dx * dx + dy * dy <= MtTop
  <2>1. dx * dx + dy * dy \in Int  BY <1>1
  <2>. QED  BY <1>1, <1>4, <2>1
<1>. HIDE DEF x, y, dx, dy
<1>. QED  BY <1>1, <1>2, <1>3, <1>5, OneMoreWalked

\* What opening a tick makes of the track.
LEMMA TickOpened ==
  ASSUME MotionInv
  PROVE  LET swept == IF SweepDue THEN mtNow ELSE mtSweptAt
         IN /\ Opened = MtNone \/ (mtTrack.there /\ mtTrack \in MtTracks /\ Opened \in MtTracks
                                   /\ Opened = [mtTrack EXCEPT !.elapsed = mtTrack.elapsed + 1])
            /\ mtTrack.there /\ MtAge(mtTrack) <= MtStale => Opened # MtNone
            /\ swept \in Int
            /\ ~mtCarried /\ Opened # MtNone => Opened.at >= swept - MtStale /\ mtNow - Opened.at < 2 * MtStale
            /\ ~mtCarried => swept <= mtNow
<1>. DEFINE swept == IF SweepDue THEN mtNow ELSE mtSweptAt
<1>1. mtNow \in Int /\ mtSweptAt \in Int /\ MtStale \in Nat \ {0}  BY MotionAssumption DEF MotionInv
<1>2. swept \in Int /\ (~mtCarried => swept <= mtNow)  BY <1>1 DEF MotionInv
<1>3. CASE ~mtTrack.there
  <2>1. Opened = mtTrack /\ mtTrack = MtNone  BY <1>3 DEF Opened, Swept, MotionInv, MtTracks
  <2>. QED  BY <1>2, <1>3, <2>1
<1>4. CASE mtTrack.there
  <2>1. mtTrack \in MtTracks  BY <1>4 DEF MotionInv, MtNone
  <2>. DEFINE older == [mtTrack EXCEPT !.elapsed = mtTrack.elapsed + 1]
  <2>2. older \in MtTracks /\ older.there /\ older.at = mtTrack.at
    <3>. DEFINE more == mtTrack.elapsed + 1
    <3>1. more \in Int  BY <2>1 DEF MtTracks
    <3>. HIDE DEF more
    <3>2. [mtTrack EXCEPT !.elapsed = more] \in MtTracks  BY <2>1, <3>1 DEF MtTracks
    <3>3. [mtTrack EXCEPT !.elapsed = more].there /\ [mtTrack EXCEPT !.elapsed = more].at = mtTrack.at  BY <2>1 DEF MtTracks
    <3>. QED  BY <3>2, <3>3 DEF more
  <2>3. Opened = IF SweepDue /\ mtNow - mtTrack.at > MtStale THEN MtNone ELSE older
    BY <1>4, <2>2 DEF Opened, Swept, MtAge
  <2>4. mtTrack.at \in Int  BY <2>1 DEF MtTracks
  <2>5. older # MtNone  BY <2>2 DEF MtNone
  <2>6. ~mtCarried => mtSweptAt <= mtNow /\ mtTrack.at >= mtSweptAt - MtStale  BY <1>4 DEF MotionInv
  <2>. HIDE DEF older
  <2>7. CASE Opened = older
    <3>1. ~(SweepDue /\ mtNow - mtTrack.at > MtStale)  BY <2>3, <2>5, <2>7
    <3>2. ~mtCarried => mtTrack.at >= swept - MtStale /\ mtNow - mtTrack.at < 2 * MtStale
      BY <1>1, <2>4, <2>6, <3>1 DEF SweepDue
    <3>. QED  BY <1>2, <1>4, <2>1, <2>2, <2>5, <2>7, <3>2 DEF older
  <2>8. CASE Opened # older
    <3>1. Opened = MtNone /\ ~(MtAge(mtTrack) <= MtStale)  BY <1>1, <2>3, <2>4, <2>8 DEF MtAge
    <3>. QED  BY <1>2, <3>1
  <2>. QED  BY <2>7, <2>8
<1>. QED  BY <1>3, <1>4

\* A turn has one of three signs.
LEMMA TurnedSigns == ASSUME NEW v, NEW w PROVE Turned(v, w) \in {-1, 0, 1}
BY DEF Turned, Sign

\* What a sighting makes of an open track.
LEMMA SightedAs ==
  ASSUME MotionInv, NEW path \in Int \X Int
  PROVE  /\ Sighted(Opened, path) \in MtTracks
         /\ Sighted(Opened, path).at = mtNow /\ Sighted(Opened, path).elapsed = 0
         /\ Sighted(Opened, path).sampled = Sighted(Opened, path).moving
         /\ Sighted(Opened, path).turning => Sighted(Opened, path).moving
         /\ Sighted(Opened, path).moving => /\ Opened # MtNone /\ Walked(Opened, path)
                                            /\ Sighted(Opened, path).took = Opened.elapsed
                                            /\ Sighted(Opened, path).turn = (IF Opened.sampled THEN Turned(Opened.sample, path) ELSE 0)
                                            /\ Sighted(Opened, path).turning = (Sighted(Opened, path).turn * Opened.turn > 0)
         /\ Opened # MtNone /\ Walked(Opened, path) => Sighted(Opened, path).moving
<1>1. mtNow \in Int  BY DEF MotionInv
<1>2. Fresh \in MtTracks /\ Fresh.at = mtNow /\ Fresh.elapsed = 0 /\ ~Fresh.moving /\ ~Fresh.sampled /\ ~Fresh.turning
      /\ Fresh.sampled = Fresh.moving
  BY <1>1 DEF Fresh, MtTracks, Nowhere, MtPlaces
<1>3. Opened = MtNone \/ Opened \in MtTracks  BY TickOpened
<1>4. CASE Opened # MtNone /\ Walked(Opened, path)
  <2>. DEFINE track == Opened
              turn == IF track.sampled THEN Turned(track.sample, path) ELSE 0
              turning == turn * track.turn > 0
              took == track.elapsed
  <2>1. track \in MtTracks /\ track.there  BY <1>3, <1>4 DEF MtTracks
  <2>2. Sighted(Opened, path) = [track EXCEPT !.at = mtNow, !.elapsed = 0, !.moving = TRUE, !.sample = path, !.took = took,
                                              !.sampled = TRUE, !.turn = turn, !.turning = turning]
    BY <1>4, <2>1 DEF Sighted, Sampled
  <2>3. turn \in {-1, 0, 1} /\ turning \in BOOLEAN /\ took \in Int  BY <2>1, TurnedSigns DEF MtTracks
  <2>. HIDE DEF turn, turning, took, track
  <2>5. Sighted(Opened, path) \in MtTracks
    <3>. DEFINE first == [track EXCEPT !.at = mtNow, !.elapsed = 0, !.moving = TRUE, !.sample = path]
    <3>0. path \in MtPlaces  BY DEF MtPlaces
    <3>1. first \in MtTracks
      <4>. DEFINE zero == 0
                  f1 == [track EXCEPT !.at = mtNow, !.elapsed = zero]
      <4>4. zero \in Int  OBVIOUS
      <4>5. first = [f1 EXCEPT !.moving = TRUE, !.sample = path]  OBVIOUS
      <4>. HIDE DEF zero
      <4>1. f1 \in MtTracks  BY <1>1, <2>1, <4>4 DEF MtTracks
      <4>. HIDE DEF f1
      <4>3. [f1 EXCEPT !.moving = TRUE, !.sample = path] \in MtTracks  BY <3>0, <4>1 DEF MtTracks
      <4>. HIDE DEF first
      <4>. QED  BY <4>3, <4>5
    <3>2. Sighted(Opened, path) = [first EXCEPT !.took = took, !.sampled = TRUE, !.turn = turn, !.turning = turning]
      BY <2>2
    <3>. HIDE DEF first
    <3>. QED  BY <2>3, <3>1, <3>2 DEF MtTracks
  <2>4. /\ Sighted(Opened, path).at = mtNow /\ Sighted(Opened, path).elapsed = 0
        /\ Sighted(Opened, path).sampled = TRUE /\ Sighted(Opened, path).moving = TRUE
        /\ Sighted(Opened, path).took = took /\ Sighted(Opened, path).turn = turn /\ Sighted(Opened, path).turning = turning
    BY <1>1, <2>1, <2>2, <2>3 DEF MtTracks
  <2>. QED  BY <1>4, <2>4, <2>5 DEF turn, turning, took, track
<1>5. CASE ~(Opened # MtNone /\ Walked(Opened, path))
  <2>1. Sighted(Opened, path) = Fresh
    <3>1. CASE Opened = MtNone  BY <3>1 DEF Sighted, MtNone
    <3>2. CASE ~Walked(Opened, path)  BY <3>2 DEF Sighted
    <3>. QED  BY <1>5, <3>1, <3>2
  <2>. QED  BY <1>2, <1>5, <2>1
<1>. QED  BY <1>4, <1>5

LEMMA SeenKeeps ==
  ASSUME MotionInv, NEW step \in MtSteps, MotionTick(step, TRUE)
  PROVE  MotionInv'
<1>. DEFINE path == Sum2(mtPath, step)
            next == Sighted(Opened, path)
            swept == IF SweepDue THEN mtNow ELSE mtSweptAt
<1>1. /\ mtSweptAt' = swept /\ mtTrack' = next /\ mtPath' = Nowhere /\ mtTicks' = 0 /\ mtJumped' = FALSE
      /\ mtTurns' = IF ~next.moving THEN <<>>
                    ELSE IF ~mtTrack.moving THEN <<0>>
                    ELSE <<mtTurns[Len(mtTurns)], Turned(mtTrack.sample, path)>>
      /\ mtMissed' = FALSE /\ mtNow' = mtNow /\ mtCarried' = mtCarried
  BY DEF MotionTick
<1>2. path \in Int \X Int
  <2>1. mtPath \in Int \X Int /\ step \in Int \X Int  BY MotionAssumption DEF MotionInv
  <2>. QED  BY <2>1 DEF Sum2
<1>3. /\ next \in MtTracks /\ next.at = mtNow /\ next.elapsed = 0 /\ next.sampled = next.moving
      /\ next.turning => next.moving
      /\ next.moving => /\ Opened # MtNone
                        /\ next.turn = (IF Opened.sampled THEN Turned(Opened.sample, path) ELSE 0)
                        /\ next.turning = (next.turn * Opened.turn > 0)
  <2>. HIDE DEF path
  <2>. QED  BY <1>2, SightedAs DEF next
<1>4. swept \in Int /\ (~mtCarried => swept <= mtNow)  BY TickOpened
<1>5. mtNow \in Int /\ MtStale \in Nat \ {0}  BY MotionAssumption DEF MotionInv
<1>6. Squared(mtPath') = 0 /\ mtPath' \in Int \X Int /\ MtTop * (0 * 0) = 0
  BY <1>1, MotionAssumption DEF Squared, Nowhere
<1>7. ASSUME next.moving
      PROVE  TurnsSo(mtTurns', next.turn, next.turning)
  <2>1. mtTrack.there /\ mtTrack \in MtTracks /\ Opened = [mtTrack EXCEPT !.elapsed = mtTrack.elapsed + 1]
    BY <1>3, <1>7, TickOpened
  <2>2. Opened.sampled = mtTrack.sampled /\ Opened.sample = mtTrack.sample /\ Opened.turn = mtTrack.turn
    BY <2>1 DEF MtTracks
  <2>3. TurnsTold  BY <2>1 DEF MotionInv
  <2>4. mtTrack.turn \in {-1, 0, 1} /\ mtTrack.sampled \in BOOLEAN  BY <2>1 DEF MtTracks
  <2>. HIDE DEF next, path
  <2>5. CASE ~mtTrack.moving
    <3>1. ~mtTrack.sampled  BY <2>3, <2>5 DEF TurnsTold
    <3>2. next.turn = 0 /\ mtTurns' = <<0>>  BY <1>1, <1>3, <1>7, <2>2, <2>5, <3>1
    <3>3. 0 * mtTrack.turn = 0  BY <2>4
    <3>4. next.turning = (0 * mtTrack.turn > 0)  BY <1>3, <1>7, <2>2, <3>2
    <3>5. ~(0 * mtTrack.turn > 0)  BY <3>3
    <3>6. ~next.turning  BY <3>4, <3>5
    <3>. QED  BY <3>2, <3>6 DEF TurnsSo
  <2>6. CASE mtTrack.moving
    <3>1. mtTrack.sampled  BY <2>3, <2>6 DEF TurnsTold
    <3>. DEFINE b == Turned(mtTrack.sample, path)
    <3>2. b \in {-1, 0, 1}  BY TurnedSigns
    <3>. HIDE DEF b
    <3>3. next.turn = b /\ mtTurns' = <<mtTurns[Len(mtTurns)], b>>
      BY <1>1, <1>3, <1>7, <2>2, <2>6, <3>1 DEF b
    <3>4. mtTurns[Len(mtTurns)] = mtTrack.turn  BY <2>3, <2>6 DEF TurnsTold, TurnsSo
    <3>. DEFINE a == mtTrack.turn
    <3>5. a \in {-1, 0, 1} /\ next.turning = (b * a > 0)  BY <1>3, <1>7, <2>2, <2>4, <3>3
    <3>6. next.turn = b /\ mtTurns' = <<a, b>>  BY <3>3, <3>4
    <3>. HIDE DEF a
    <3>7. b * a = a * b  BY <3>2, <3>5
    <3>. QED  BY <3>2, <3>5, <3>6, <3>7 DEF TurnsSo
  <2>. QED  BY <2>5, <2>6
<1>. HIDE DEF next, swept, path
<1>8. TurnsTold'  BY <1>1, <1>3, <1>7 DEF TurnsTold
<1>9. Squared(mtPath') <= MtTop * (mtTicks' * mtTicks')  BY <1>1, <1>6
<1>10. ~mtCarried' => mtSweptAt' <= mtNow' /\ (mtTrack'.there => mtTrack'.at >= mtSweptAt' - MtStale)
  BY <1>1, <1>3, <1>4, <1>5
<1>. QED  BY <1>1, <1>3, <1>4, <1>5, <1>6, <1>8, <1>9, <1>10 DEF MotionInv

LEMMA UnseenKeeps ==
  ASSUME MotionInv, NEW step \in MtSteps, MotionTick(step, FALSE) \/ MotionUnheard(step)
  PROVE  MotionInv'
<1>1. /\ mtPath' = Sum2(mtPath, step) /\ mtTicks' = mtTicks + 1 /\ mtNow' = mtNow /\ mtCarried' = mtCarried
      /\ mtTurns' = mtTurns /\ mtJumped' = (mtJumped \/ Squared(step) > MtTop)
      /\ \/ /\ mtSweptAt' = (IF SweepDue THEN mtNow ELSE mtSweptAt) /\ mtTrack' = Opened /\ mtMissed' = mtMissed
         \/ mtSweptAt' = mtSweptAt /\ mtTrack' = mtTrack /\ mtMissed' = TRUE
  BY DEF MotionTick, MotionUnheard
<1>2. mtPath' \in Int \X Int /\ mtTicks' \in Nat /\ mtJumped' \in BOOLEAN
  <2>1. mtPath \in Int \X Int /\ step \in Int \X Int /\ mtTicks \in Nat /\ mtJumped \in BOOLEAN
    BY MotionAssumption DEF MotionInv
  <2>. QED  BY <1>1, <2>1 DEF Sum2
<1>3. ~mtJumped' => Squared(mtPath') <= MtTop * (mtTicks' * mtTicks')  BY <1>1, StillWalked
<1>4. CASE mtSweptAt' = mtSweptAt /\ mtTrack' = mtTrack /\ mtMissed' = TRUE
  <2>1. mtTrack'.there => TurnsTold'  BY <1>1, <1>4 DEF MotionInv, TurnsTold
  <2>. QED  BY <1>1, <1>2, <1>3, <1>4, <2>1 DEF MotionInv
<1>5. CASE mtSweptAt' = (IF SweepDue THEN mtNow ELSE mtSweptAt) /\ mtTrack' = Opened /\ mtMissed' = mtMissed
  <2>. DEFINE swept == IF SweepDue THEN mtNow ELSE mtSweptAt
  <2>1. /\ Opened = MtNone \/ (mtTrack.there /\ mtTrack \in MtTracks /\ Opened \in MtTracks
                               /\ Opened = [mtTrack EXCEPT !.elapsed = mtTrack.elapsed + 1])
        /\ swept \in Int
        /\ ~mtCarried /\ Opened # MtNone => Opened.at >= swept - MtStale
        /\ ~mtCarried => swept <= mtNow
    BY TickOpened
  <2>2. mtSweptAt' = swept  BY <1>5
  <2>. HIDE DEF swept
  <2>3. CASE Opened = MtNone
    <3>1. ~mtTrack'.there  BY <1>5, <2>3 DEF MtNone
    <3>. QED  BY <1>1, <1>2, <1>3, <1>5, <2>1, <2>2, <2>3, <3>1 DEF MotionInv
  <2>4. CASE Opened # MtNone
    <3>1. /\ mtTrack' \in MtTracks /\ mtTrack'.elapsed = mtTrack.elapsed + 1 /\ mtTrack'.there /\ mtTrack.there
          /\ mtTrack'.sampled = mtTrack.sampled /\ mtTrack'.moving = mtTrack.moving /\ mtTrack'.turning = mtTrack.turning
          /\ mtTrack'.turn = mtTrack.turn
      BY <1>5, <2>1, <2>4 DEF MtTracks
    <3>2. ~mtMissed' /\ mtTrack'.there => mtTrack'.elapsed = mtTicks'  BY <1>1, <1>5, <3>1 DEF MotionInv
    <3>3. TurnsTold'  BY <1>1, <3>1 DEF MotionInv, TurnsTold
    <3>4. ~mtCarried' => mtSweptAt' <= mtNow' /\ mtTrack'.at >= mtSweptAt' - MtStale
      BY <1>1, <1>5, <2>1, <2>2, <2>4
    <3>5. mtNow' \in Int /\ mtSweptAt' \in Int  BY <1>1, <2>1, <2>2 DEF MotionInv
    <3>. QED  BY <1>2, <1>3, <3>1, <3>2, <3>3, <3>4, <3>5 DEF MotionInv
  <2>. QED  BY <2>3, <2>4
<1>. QED  BY <1>1, <1>4, <1>5

LEMMA MotionStep == ASSUME MotionInv, [MotionNext]_mtVars PROVE MotionInv' /\ [LedStep]_mtVars /\ [StaleStep]_mtVars
<1>1. MotionInv'
  <2>1. CASE UNCHANGED mtVars
    <3>1. /\ mtNow' = mtNow /\ mtSweptAt' = mtSweptAt /\ mtTrack' = mtTrack /\ mtPath' = mtPath /\ mtTicks' = mtTicks
          /\ mtJumped' = mtJumped /\ mtTurns' = mtTurns /\ mtMissed' = mtMissed /\ mtCarried' = mtCarried
      BY <2>1 DEF mtVars
    <3>. QED  BY <3>1 DEF MotionInv, TurnsTold
  <2>2. ASSUME NEW step \in MtSteps, MotionUnheard(step) \/ \E seen \in BOOLEAN : MotionTick(step, seen)
        PROVE MotionInv'
    BY <2>2, SeenKeeps, UnseenKeeps
  <2>3. CASE MotionWait
    <3>1. /\ mtNow' = mtNow + 1 /\ mtSweptAt' = mtSweptAt /\ mtTrack' = mtTrack /\ mtPath' = mtPath /\ mtTicks' = mtTicks
          /\ mtJumped' = mtJumped /\ mtTurns' = mtTurns /\ mtMissed' = mtMissed /\ mtCarried' = mtCarried
      BY <2>3 DEF MotionWait
    <3>2. mtTrack'.there => TurnsTold'  BY <3>1 DEF MotionInv, TurnsTold
    <3>. QED  BY <3>1, <3>2 DEF MotionInv
  <2>4. CASE MotionMap
    <3>1. mtNow' = 0 /\ mtPath' = Nowhere /\ mtJumped' = TRUE  BY <2>4 DEF MotionMap
    <3>2. Nowhere \in Int \X Int  BY DEF Nowhere
    <3>3. CASE mtOn
      <4>1. mtSweptAt' = 0 /\ mtTrack' = MtNone /\ mtTicks' = 0  BY <2>4, <3>3 DEF MotionMap, MotionClear
      <4>2. ~mtTrack'.there  BY <4>1 DEF MtNone
      <4>. QED  BY <3>1, <3>2, <4>1, <4>2 DEF MotionInv
    <3>4. CASE ~mtOn
      <4>1. /\ mtMissed' = TRUE /\ mtCarried' = TRUE /\ mtSweptAt' = mtSweptAt /\ mtTrack' = mtTrack /\ mtTurns' = mtTurns
            /\ mtTicks' = mtTicks
        BY <2>4, <3>4 DEF MotionMap
      <4>2. mtTrack'.there => TurnsTold'  BY <4>1 DEF MotionInv, TurnsTold
      <4>. QED  BY <3>1, <3>2, <4>1, <4>2 DEF MotionInv
    <3>. QED  BY <3>3, <3>4
  <2>5. CASE MotionToggle
    <3>1. /\ mtNow' = mtNow /\ mtSweptAt' = mtSweptAt /\ mtTrack' = mtTrack /\ mtPath' = mtPath /\ mtTicks' = mtTicks
          /\ mtJumped' = mtJumped /\ mtTurns' = mtTurns /\ mtMissed' = mtMissed /\ mtCarried' = mtCarried
      BY <2>5 DEF MotionToggle
    <3>. QED  BY <3>1 DEF MotionInv, TurnsTold
  <2>. QED  BY <2>1, <2>2, <2>3, <2>4, <2>5 DEF MotionNext
<1>2. LedStep
  <2>. SUFFICES ASSUME NEW step \in MtSteps, MotionTick(step, TRUE), ~mtMissed, mtTrack.there, MtAge(mtTrack) <= MtStale
                PROVE  LET path == Sum2(mtPath, step)
                           jumped == mtJumped \/ Squared(step) > MtTop
                           time == mtTicks + 1
                       IN /\ ~jumped => mtTrack'.moving /\ mtTrack'.took = time
                          /\ Squared(path) > MtTop * time * time => ~mtTrack'.moving
    BY DEF LedStep
  <2>. DEFINE path == Sum2(mtPath, step)
              time == mtTicks + 1
  <2>1. mtTrack' = Sighted(Opened, path)  BY DEF MotionTick
  <2>2. Opened # MtNone /\ mtTrack \in MtTracks /\ Opened = [mtTrack EXCEPT !.elapsed = mtTrack.elapsed + 1]
    BY TickOpened
  <2>3. mtTrack.elapsed = mtTicks /\ mtTicks \in Nat  BY DEF MotionInv
  <2>4. Opened.elapsed = time /\ MtAge(Opened) <= MtStale  BY <2>2, <2>3 DEF MtTracks, MtAge
  <2>5. path \in Int \X Int
    <3>1. mtPath \in Int \X Int /\ step \in Int \X Int  BY MotionAssumption DEF MotionInv
    <3>. QED  BY <3>1 DEF Sum2
  <2>6. Walked(Opened, path) <=> Squared(path) <= MtTop * time * time  BY <2>4 DEF Walked
  <2>7. /\ Sighted(Opened, path).moving => Walked(Opened, path) /\ Sighted(Opened, path).took = Opened.elapsed
        /\ Walked(Opened, path) => Sighted(Opened, path).moving
    <3>. HIDE DEF path
    <3>. QED  BY <2>2, <2>5, SightedAs
  <2>8. ~mtJumped /\ ~(Squared(step) > MtTop) => Squared(path) <= MtTop * time * time
    <3>1. MtTop * (time * time) = MtTop * time * time  BY <2>3, MotionAssumption
    <3>. QED  BY <3>1, StillWalked
  <2>9. Squared(path) \in Int /\ MtTop * time * time \in Int
    <3>1. MtTop * time * time \in Int  BY <2>3, MotionAssumption
    <3>2. path[1] \in Int /\ path[2] \in Int  BY <2>5
    <3>. HIDE DEF path
    <3>3. Squared(path) \in Int  BY <3>2 DEF Squared
    <3>. QED  BY <3>1, <3>3
  <2>. HIDE DEF path, time
  <2>10. Squared(path) > MtTop * time * time => ~(Squared(path) <= MtTop * time * time)  BY <2>9
  <2>11. ~(mtJumped \/ Squared(step) > MtTop) => mtTrack'.moving /\ mtTrack'.took = time
    BY <2>1, <2>4, <2>6, <2>7, <2>8
  <2>12. Squared(path) > MtTop * time * time => ~mtTrack'.moving  BY <2>1, <2>6, <2>7, <2>10
  <2>. QED  BY <2>11, <2>12 DEF path, time
<1>3. StaleStep
  <2>. SUFFICES ASSUME NEW step \in MtSteps, MotionTick(step, FALSE), ~mtCarried, mtTrack'.there
                PROVE  mtNow - mtTrack'.at < 2 * MtStale
    BY DEF StaleStep
  <2>1. mtTrack' = Opened  BY DEF MotionTick
  <2>2. Opened # MtNone  BY <2>1 DEF MtNone
  <2>. QED  BY <2>1, <2>2, TickOpened
<1>. QED  BY <1>1, <1>2, <1>3
------------------------------------------------------------------------------
(* Answers: what waits to be said was not said lately, and, while every line is  *)
(* heard, its question is open, as old as the window has run, and by the time    *)
(* it is due listened for.                                                       *)

AnswersWaiting == [event : NpcEvents, key : Replies, answer : {k[2] : k \in Replies}, due : Int, left : Nat]

StillWanted(a, since) ==
  a.left > 0 => /\ since[a.key] # CaNever /\ since[a.key] \in Nat
                /\ since[a.key] + a.left = ChatEvents[a.event].window
                /\ since[a.key] + a.due >= ChatEvents[a.event].listensAfter

AnswersInv ==
  /\ caQuiet \in [Replies -> Nat] /\ caPending \subseteq AnswersWaiting
  /\ caOn \in BOOLEAN /\ caMissed \in BOOLEAN
  /\ \A a \in caPending : a.key = <<a.event, a.answer>> /\ caQuiet[a.key] = 0 /\ a.key \notin caSaid
  /\ \A a, b \in caPending : a.key = b.key => a = b
  /\ ~caMissed => \A a \in caPending : StillWanted(a, caSince)

TwiceStep == \A k \in caSaid' : k \in DOMAIN caQuiet /\ caQuiet[k] <= 1
WantedStep == ~caMissed => \A k \in caSaid' : caSince[k] # CaNever /\ caSince[k] + 1 >= ChatEvents[k[1]].listensAfter
AnswersKept == AnswersInv' /\ TwiceStep /\ WantedStep

\* The catalogue's figures.
LEMMA MsIsNat == ASSUME NEW n \in Nat PROVE Ms(n) \in Nat
BY AnswersAssumption DEF Ms

HasFigures(event) ==
  /\ event.listensAfter \in Nat /\ event.window \in Nat /\ DOMAIN event.prompts \subseteq Nat
LEMMA EventFigures ==
  ASSUME NEW e \in Events
  PROVE  /\ ChatEvents[e].listensAfter \in Nat /\ ChatEvents[e].window \in Nat /\ Prompts(e) \subseteq Nat /\ e \in Nat
<1>1. Ms(0) \in Nat /\ Ms(4000) \in Nat /\ Ms(3000) \in Nat /\ Ms(20000) \in Nat /\ ReadyWindow \in Nat /\ Ms(10000) \in Nat
  BY MsIsNat DEF ReadyWindow
<1>2. Events = 1 .. 10  BY DEF Events, ChatEvents
<1>4. HasFigures(ChatEvents[1])  BY <1>1 DEF HasFigures, ChatEvents, Event
<1>5. HasFigures(ChatEvents[2])  BY <1>1 DEF HasFigures, ChatEvents, Event
<1>6. HasFigures(ChatEvents[3])  BY <1>1 DEF HasFigures, ChatEvents, Event
<1>7. HasFigures(ChatEvents[4])  BY <1>1 DEF HasFigures, ChatEvents, Event
<1>8. HasFigures(ChatEvents[5])  BY <1>1 DEF HasFigures, ChatEvents, Event
<1>9. HasFigures(ChatEvents[6])  BY <1>1 DEF HasFigures, ChatEvents, Event
<1>10. HasFigures(ChatEvents[7])  BY <1>1 DEF HasFigures, ChatEvents, Event
<1>11. HasFigures(ChatEvents[8])  BY <1>1 DEF HasFigures, ChatEvents, Event
<1>12. HasFigures(ChatEvents[9])  BY <1>1 DEF HasFigures, ChatEvents, Event
<1>13. HasFigures(ChatEvents[10])  BY <1>1 DEF HasFigures, ChatEvents, Event
<1>14. e = 1 \/ e = 2 \/ e = 3 \/ e = 4 \/ e = 5 \/ e = 6 \/ e = 7 \/ e = 8 \/ e = 9 \/ e = 10  BY <1>2
<1>15. HasFigures(ChatEvents[e])  BY <1>4, <1>5, <1>6, <1>7, <1>8, <1>9, <1>10, <1>11, <1>12, <1>13, <1>14
<1>. QED  BY <1>2, <1>15 DEF HasFigures, Prompts

LEMMA RepliesAre ==
  /\ NpcEvents \subseteq Events
  /\ \A e \in NpcEvents : \A p \in Prompts(e) : AnswerKey(e, p) \in Replies /\ Answer(e, p) \in {k[2] : k \in Replies}
  /\ \A k \in Replies : k[1] \in NpcEvents /\ k = <<k[1], k[2]>>
<1>1. NpcEvents \subseteq Events  BY AnswersAssumption DEF NpcEvents
<1>2. ASSUME NEW e \in NpcEvents, NEW p \in Prompts(e) PROVE AnswerKey(e, p) \in Replies /\ AnswerKey(e, p)[2] = Answer(e, p)
  BY DEF Replies, AnswerKey
<1>3. ASSUME NEW k \in Replies PROVE k[1] \in NpcEvents /\ k = <<k[1], k[2]>>
  <2>1. PICK e \in NpcEvents : k \in {<<e, Answer(e, p)>> : p \in Prompts(e)}  BY DEF Replies
  <2>2. PICK p \in Prompts(e) : k = <<e, Answer(e, p)>>  BY <2>1
  <2>. QED  BY <2>2
<1>. QED  BY <1>1, <1>2, <1>3

\* What a line is heard as: its first event, and nothing else is settled by it.
HeardAs(heard, line) ==
  /\ heard.kind = "other" => \A f \in NpcEvents : ~SettledIn(f, line)
  /\ heard.kind # "other" => heard.event \in NpcEvents /\ \A f \in NpcEvents : SettledIn(f, line) => f = heard.event
  /\ heard.kind # "other" /\ heard.kind # "settled" =>
       /\ heard.kind = "prompt" /\ heard.prompt \in Prompts(heard.event) /\ ~SettledIn(heard.event, line)
LEMMA LinesHeard == ASSUME NEW line \in CaLines PROVE HeardAs(HearNpcLine(line), line)
<1>. DEFINE told == {e \in NpcEvents : PromptHeld(e, line) # {} \/ SettledIn(e, line)}
            first == CHOOSE x \in told : \A y \in told : x <= y
            asked == CHOOSE p \in PromptHeld(first, line) : \A q \in PromptHeld(first, line) : p <= q
<1>1. HearNpcLine(line) = IF told = {} THEN [kind |-> "other"]
                          ELSE IF SettledIn(first, line) THEN [kind |-> "settled", event |-> first]
                          ELSE [kind |-> "prompt", event |-> first, prompt |-> asked]
  BY DEF HearNpcLine
<1>2. told \in SUBSET Nat /\ told \subseteq NpcEvents  BY RepliesAre, EventFigures
<1>3. told # {} => first \in told /\ \A y \in told : first <= y
  <2>. SUFFICES ASSUME told # {} PROVE first \in told /\ \A y \in told : first <= y  OBVIOUS
  <2>. HIDE DEF told
  <2>1. \E x \in told : \A y \in told : x <= y  BY <1>2, LeastOne
  <2>. QED  BY <2>1
<1>4. \A f \in NpcEvents : SettledIn(f, line) => f \in told  OBVIOUS
<1>. HIDE DEF first
<1>5. told # {} => \A f \in NpcEvents : SettledIn(f, line) => f = first
  <2>. SUFFICES ASSUME told # {}, NEW f \in NpcEvents, SettledIn(f, line), f # first PROVE FALSE  OBVIOUS
  <2>1. first \in told /\ f \in told /\ first <= f /\ f \in Nat /\ first \in Nat  BY <1>2, <1>3, <1>4
  <2>2. first < f  BY <2>1
  <2>3. /\ first \in CaMet /\ f \in CaMet /\ ChatEvents[first].speaker = ChatEvents[f].speaker
        /\ PromptHeld(first, line) # {} \/ SettledIn(first, line)
    BY <2>1 DEF NpcEvents
  <2>. QED  BY <2>2, <2>3, AnswersAssumption
<1>6. told # {} /\ ~SettledIn(first, line) => asked \in Prompts(first)
  <2>. SUFFICES ASSUME told # {}, ~SettledIn(first, line) PROVE asked \in Prompts(first)  OBVIOUS
  <2>1. first \in told  BY <1>3
  <2>2. PromptHeld(first, line) # {} /\ first \in NpcEvents  BY <2>1
  <2>3. PromptHeld(first, line) \subseteq Prompts(first)  BY DEF PromptHeld
  <2>. DEFINE held == PromptHeld(first, line)
  <2>4. held \in SUBSET Nat /\ held # {}  BY <2>2, <2>3, RepliesAre, EventFigures
  <2>. HIDE DEF held, told
  <2>5. \E p \in held : \A q \in held : p <= q  BY <2>4, LeastOne
  <2>6. asked \in held  BY <2>5 DEF held
  <2>. QED  BY <2>3, <2>6 DEF held
<1>7. told # {} => first \in NpcEvents  BY <1>2, <1>3
<1>. HIDE DEF told, asked
<1>8. CASE told = {}
  <2>1. HearNpcLine(line).kind = "other"  BY <1>1, <1>8
  <2>. QED  BY <1>4, <1>8, <2>1 DEF HeardAs
<1>9. CASE told # {} /\ SettledIn(first, line)
  <2>1. HearNpcLine(line).kind = "settled" /\ HearNpcLine(line).event = first  BY <1>1, <1>9
  <2>. QED  BY <1>5, <1>7, <1>9, <2>1 DEF HeardAs
<1>10. CASE told # {} /\ ~SettledIn(first, line)
  <2>1. HearNpcLine(line).kind = "prompt" /\ HearNpcLine(line).event = first /\ HearNpcLine(line).prompt = asked
    BY <1>1, <1>10
  <2>. QED  BY <1>5, <1>6, <1>7, <1>10, <2>1 DEF HeardAs
<1>. QED  BY <1>8, <1>9, <1>10

LEMMA NoneIsGiven == NoneGiven \in [Replies -> Nat]
<1>. DEFINE zero == 0
<1>1. zero \in Nat  OBVIOUS
<1>2. NoneGiven = [k \in Replies |-> zero]  BY DEF NoneGiven
<1>. HIDE DEF zero
<1>. QED  BY <1>1, <1>2

LEMMA AnswersStart == ASSUME AnswersInit PROVE AnswersInv
<1>1. caQuiet = NoneGiven /\ caPending = {} /\ caOn = TRUE /\ caMissed = FALSE  BY DEF AnswersInit
<1>2. caQuiet \in [Replies -> Nat]  BY <1>1, NoneIsGiven
<1>3. caOn \in BOOLEAN /\ caMissed \in BOOLEAN  BY <1>1
<1>. QED  BY <1>1, <1>2, <1>3 DEF AnswersInv

\* The pause never ends before the NPC listens.
LEMMA DueWhenHeard ==
  ASSUME NEW e \in NpcEvents, NEW pause \in CaPauses
  PROVE  DueIn(e, pause) \in Int /\ DueIn(e, pause) >= ChatEvents[e].listensAfter
<1>1. /\ pause \in Nat /\ ChatEvents[e].listensAfter \in Nat /\ ChatEvents[e].window \in Nat
  BY RepliesAre, EventFigures, AnswersAssumption
<1>2. TripAllowance \in Nat  BY MsIsNat DEF TripAllowance
<1>. QED  BY <1>1, <1>2 DEF DueIn, Larger, Smaller

LEMMA LineKeeps ==
  ASSUME AnswersInv, NEW line \in CaLines, NEW pause \in CaPauses, NpcSays(line, pause)
  PROVE  AnswersKept
<1>. DEFINE heard == HearNpcLine(line)
<1>1. /\ caSince' = OpenAfter(line)
      /\ caPending' = IF ~caOn \/ heard.kind = "other" THEN caPending
                      ELSE IF heard.kind = "settled" THEN Settled(heard.event)
                      ELSE HeardQuestion(heard.event, heard.prompt, pause)
      /\ caMissed' = (caPending' # {} /\ (caMissed \/ ~caOn))
      /\ caSaid' = {} /\ caOn' = caOn /\ caNpc' = caNpc /\ caQuiet' = caQuiet
  BY DEF NpcSays
<1>2. NpcEvents' = NpcEvents /\ Replies' = Replies /\ AnswersWaiting' = AnswersWaiting
  BY <1>1 DEF NpcEvents, Replies, AnswersWaiting
<1>3. HeardAs(heard, line)  BY LinesHeard
<1>. HIDE DEF heard
<1>. DEFINE e == heard.event
            p == heard.prompt
            asked == [event |-> e, key |-> AnswerKey(e, p), answer |-> Answer(e, p),
                      due |-> DueIn(e, pause), left |-> ChatEvents[e].window]
            news == caOn /\ heard.kind = "prompt" /\ caPending' = caPending \cup {asked}
                      /\ (\A a \in caPending : a.key # AnswerKey(e, p)) /\ caQuiet[AnswerKey(e, p)] = 0
<1>4. news \/ caPending' \subseteq caPending
  <2>1. CASE ~caOn \/ heard.kind = "other"  BY <1>1, <2>1
  <2>2. CASE caOn /\ heard.kind = "settled"
    <3>1. caPending' = Settled(heard.event)  BY <1>1, <2>2
    <3>. QED  BY <3>1 DEF Settled
  <2>3. CASE caOn /\ heard.kind # "other" /\ heard.kind # "settled"
    <3>1. caPending' = HeardQuestion(e, p, pause) /\ heard.kind = "prompt" /\ e \in NpcEvents /\ p \in Prompts(e)
      BY <1>1, <1>3, <2>3 DEF HeardAs
    <3>2. AnswerKey(e, p) \in DOMAIN caQuiet  BY <3>1, RepliesAre DEF AnswersInv
    <3>. HIDE DEF e, p
    <3>. QED  BY <2>3, <3>1, <3>2 DEF HeardQuestion
  <2>. QED  BY <2>1, <2>2, <2>3
<1>5. ASSUME news
      PROVE  /\ asked \in AnswersWaiting /\ asked.key = <<asked.event, asked.answer>> /\ caQuiet[asked.key] = 0
             /\ \A a \in caPending : a.key # asked.key
  <2>1. e \in NpcEvents /\ p \in Prompts(e)  BY <1>3, <1>5 DEF HeardAs
  <2>2. AnswerKey(e, p) \in Replies /\ Answer(e, p) \in {k[2] : k \in Replies} /\ AnswerKey(e, p) = <<e, Answer(e, p)>>
    BY <2>1, RepliesAre DEF AnswerKey
  <2>3. DueIn(e, pause) \in Int /\ ChatEvents[e].window \in Nat  BY <2>1, DueWhenHeard, RepliesAre, EventFigures
  <2>. HIDE DEF e, p
  <2>4. asked \in AnswersWaiting  BY <2>1, <2>2, <2>3 DEF AnswersWaiting
  <2>5. asked.key = AnswerKey(e, p) /\ asked.event = e /\ asked.answer = Answer(e, p)  OBVIOUS
  <2>. HIDE DEF asked
  <2>. QED  BY <1>5, <2>2, <2>4, <2>5
<1>6. caPending' \subseteq AnswersWaiting
  <2>. HIDE DEF asked
  <2>. QED  BY <1>4, <1>5 DEF AnswersInv
<1>7. \A a \in caPending' : a.key = <<a.event, a.answer>> /\ caQuiet'[a.key] = 0 /\ a.key \notin caSaid'
  <2>. HIDE DEF asked
  <2>. QED  BY <1>1, <1>4, <1>5 DEF AnswersInv
<1>8. \A a, b \in caPending' : a.key = b.key => a = b
  <2>. HIDE DEF asked
  <2>. QED  BY <1>4, <1>5 DEF AnswersInv
<1>9. ASSUME ~caMissed', NEW a \in caPending' PROVE StillWanted(a, caSince')
  <2>1. caOn /\ ~caMissed  BY <1>1, <1>9 DEF AnswersInv
  <2>2. a \in AnswersWaiting /\ a.key = <<a.event, a.answer>>  BY <1>6, <1>7
  <2>3. a.event \in NpcEvents /\ a.key \in Replies /\ a.key[1] = a.event  BY <2>2 DEF AnswersWaiting
  <2>4. ~SettledIn(a.event, line)
    <3>. SUFFICES ASSUME SettledIn(a.event, line) PROVE FALSE  OBVIOUS
    <3>1. heard.kind # "other" /\ a.event = heard.event  BY <1>3, <2>3 DEF HeardAs
    <3>2. heard.kind = "settled"  BY <1>3, <3>1 DEF HeardAs
    <3>3. caPending' = Settled(heard.event)  BY <1>1, <2>1, <3>2
    <3>. QED  BY <1>9, <3>1, <3>3 DEF Settled
  <2>. DEFINE since == caSince'[a.key]
  <2>5. since = IF heard.kind = "prompt" /\ a.key = <<heard.event, Answer(heard.event, heard.prompt)>>
                THEN IF \E b \in caPending : b.key = a.key /\ caSince[a.key] # CaNever THEN caSince[a.key] ELSE 0
                ELSE caSince[a.key]
    BY <1>1, <2>3, <2>4 DEF OpenAfter, heard
  <2>6. CASE a \in caPending
    <3>1. StillWanted(a, caSince)  BY <2>1, <2>6 DEF AnswersInv
    <3>2. a.left > 0 => since = caSince[a.key]  BY <2>5, <2>6, <3>1 DEF StillWanted
    <3>. HIDE DEF since
    <3>. QED  BY <3>1, <3>2 DEF StillWanted, since
  <2>7. CASE a \notin caPending
    <3>1. news /\ a = asked
      <4>. HIDE DEF asked
      <4>. QED  BY <1>4, <1>9, <2>7
    <3>2. e \in NpcEvents /\ a.key = AnswerKey(e, p) /\ a.event = e /\ a.left = ChatEvents[e].window /\ a.due = DueIn(e, pause)
      BY <1>3, <3>1 DEF HeardAs
    <3>3. \A b \in caPending : b.key # a.key  BY <3>1, <3>2
    <3>4. since = 0  BY <2>5, <3>1, <3>2, <3>3 DEF AnswerKey
    <3>. HIDE DEF e, since, asked
    <3>5. /\ ChatEvents[e].window \in Nat /\ ChatEvents[e].listensAfter \in Nat /\ DueIn(e, pause) \in Int
          /\ DueIn(e, pause) >= ChatEvents[e].listensAfter
      BY <3>2, DueWhenHeard, RepliesAre, EventFigures
    <3>6. since # CaNever /\ since \in Nat  BY <3>4, AnswersAssumption
    <3>7. since + a.left = ChatEvents[a.event].window /\ since + a.due >= ChatEvents[a.event].listensAfter
      BY <3>2, <3>4, <3>5
    <3>. QED  BY <3>6, <3>7 DEF StillWanted, since
  <2>. QED  BY <2>6, <2>7
<1>10. caMissed' \in BOOLEAN /\ caOn' \in BOOLEAN /\ caQuiet' \in [Replies' -> Nat]  BY <1>1, <1>2 DEF AnswersInv
<1>11. AnswersInv'  BY <1>2, <1>6, <1>7, <1>8, <1>9, <1>10 DEF AnswersInv
<1>12. TwiceStep /\ WantedStep  BY <1>1 DEF TwiceStep, WantedStep
<1>. QED  BY <1>11, <1>12 DEF AnswersKept

\* Nothing new waits, and nothing is said.
LEMMA FewerKept ==
  ASSUME AnswersInv, caPending' \subseteq caPending, caNpc' = caNpc, caQuiet' \in [Replies -> Nat],
         \A a \in caPending' : caQuiet'[a.key] = 0, caSaid' = {}, caOn' \in BOOLEAN, caMissed' \in BOOLEAN,
         ~caMissed' => \A a \in caPending' : StillWanted(a, caSince')
  PROVE  AnswersKept
<1>1. Replies' = Replies /\ AnswersWaiting' = AnswersWaiting  BY DEF NpcEvents, Replies, AnswersWaiting
<1>2. caPending \subseteq AnswersWaiting /\ \A a \in caPending : a.key = <<a.event, a.answer>>  BY DEF AnswersInv
<1>3. \A a, b \in caPending : a.key = b.key => a = b  BY DEF AnswersInv
<1>4. caPending' \subseteq AnswersWaiting' /\ \A a \in caPending' : a.key = <<a.event, a.answer>> /\ a.key \notin caSaid'
  BY <1>1, <1>2
<1>5. \A a, b \in caPending' : a.key = b.key => a = b  BY <1>3
<1>6. AnswersInv'  BY <1>1, <1>4, <1>5 DEF AnswersInv
<1>. QED  BY <1>6 DEF AnswersKept, TwiceStep, WantedStep

LEMMA PlayerKeeps == ASSUME AnswersInv, NEW said, PlayerSays(said) PROVE AnswersKept
<1>1. /\ caSince' = [k \in Replies |-> IF ChatEvents[k[1]].anyone /\ k[2] = said THEN CaNever ELSE caSince[k]]
      /\ caPending' = IF caOn THEN AnsweredBy(said) ELSE caPending
      /\ caMissed' = (caPending' # {} /\ (caMissed \/ ~caOn))
      /\ caSaid' = {} /\ caOn' = caOn /\ caNpc' = caNpc /\ caQuiet' = caQuiet
  BY DEF PlayerSays
<1>2. caPending' \subseteq caPending  BY <1>1 DEF AnsweredBy
<1>3. \A a \in caPending : a \in AnswersWaiting /\ a.key = <<a.event, a.answer>> /\ caQuiet[a.key] = 0  BY DEF AnswersInv
<1>4. ASSUME ~caMissed', NEW a \in caPending' PROVE StillWanted(a, caSince')
  <2>1. caOn /\ ~caMissed  BY <1>1, <1>4 DEF AnswersInv
  <2>2. ~ChatEvents[a.event].anyone \/ a.answer # said  BY <1>1, <1>4, <2>1 DEF AnsweredBy
  <2>3. StillWanted(a, caSince)  BY <1>2, <1>4, <2>1 DEF AnswersInv
  <2>4. a.key \in Replies /\ a.key[1] = a.event /\ a.key[2] = a.answer  BY <1>2, <1>3, <1>4 DEF AnswersWaiting
  <2>5. caSince'[a.key] = caSince[a.key]  BY <1>1, <2>2, <2>4
  <2>. QED  BY <2>3, <2>5 DEF StillWanted
<1>5. caMissed' \in BOOLEAN /\ caOn' \in BOOLEAN /\ caQuiet' \in [Replies -> Nat]  BY <1>1 DEF AnswersInv
<1>6. \A a \in caPending' : caQuiet'[a.key] = 0  BY <1>1, <1>2, <1>3
<1>. QED  BY <1>1, <1>2, <1>4, <1>5, <1>6, FewerKept

LEMMA RoomKeeps == ASSUME AnswersInv, NEW left \in BOOLEAN, NewRoom(left) PROVE AnswersKept
<1>1. /\ caSaid' = {} /\ caOn' = caOn /\ caNpc' = caNpc /\ caMissed' = (caPending' # {})
      /\ \/ caPending' = {} /\ caQuiet' = NoneGiven
         \/ caPending' = caPending /\ caQuiet' = caQuiet
  BY DEF NewRoom
<1>2. caQuiet' \in [Replies -> Nat] /\ \A a \in caPending' : caQuiet'[a.key] = 0
  BY <1>1, NoneIsGiven DEF AnswersInv
<1>3. caOn' \in BOOLEAN /\ caMissed' \in BOOLEAN /\ caPending' \subseteq caPending  BY <1>1 DEF AnswersInv
<1>4. ~caMissed' => \A a \in caPending' : StillWanted(a, caSince')  BY <1>1
<1>. QED  BY <1>1, <1>2, <1>3, <1>4, FewerKept

LEMMA SwitchKeeps == ASSUME AnswersInv, NEW e \in NpcEvents, AnswerSwitch(e) PROVE AnswersKept
<1>1. /\ caSaid' = {} /\ caOn' = caOn /\ caNpc' = caNpc /\ caMissed' = caMissed /\ caPending' = caPending
      /\ caQuiet' = caQuiet /\ caSince' = caSince
  BY DEF AnswerSwitch
<1>2. caQuiet' \in [Replies -> Nat] /\ \A a \in caPending' : caQuiet'[a.key] = 0  BY <1>1 DEF AnswersInv
<1>3. caOn' \in BOOLEAN /\ caMissed' \in BOOLEAN /\ caPending' \subseteq caPending  BY <1>1 DEF AnswersInv
<1>4. ~caMissed' => \A a \in caPending' : StillWanted(a, caSince')  BY <1>1 DEF AnswersInv
<1>. QED  BY <1>1, <1>2, <1>3, <1>4, FewerKept

LEMMA ToggleKeeps == ASSUME AnswersInv, AnswerToggle PROVE AnswersKept
<1>1. /\ caSaid' = {} /\ caOn' = ~caOn /\ caNpc' = caNpc /\ caMissed' = (caPending # {}) /\ caPending' = caPending
      /\ caQuiet' = caQuiet
  BY DEF AnswerToggle
<1>2. caQuiet' \in [Replies -> Nat] /\ \A a \in caPending' : caQuiet'[a.key] = 0  BY <1>1 DEF AnswersInv
<1>3. caOn' \in BOOLEAN /\ caMissed' \in BOOLEAN /\ caPending' \subseteq caPending  BY <1>1 DEF AnswersInv
<1>4. ~caMissed' => \A a \in caPending' : StillWanted(a, caSince')  BY <1>1
<1>. QED  BY <1>1, <1>2, <1>3, <1>4, FewerKept

\* What a tick makes of an answer that waits.
Aged(a, w) ==
  /\ w \in AnswersWaiting /\ w.event = a.event /\ w.key = a.key /\ w.answer = a.answer
  /\ w.due \in Int /\ w.due >= a.due - 1 /\ w.left \in Nat /\ (w.left > 0 => a.left = w.left + 1)
LEMMA WaitedIs == ASSUME NEW a \in AnswersWaiting PROVE Aged(a, Waited(a))
<1>. DEFINE dueIn == Larger(a.due - 1, -(LateLimit + 1))
            leftIn == Larger(a.left - 1, 0)
            w == [a EXCEPT !.due = dueIn, !.left = leftIn]
<1>1. a.due \in Int /\ a.left \in Nat /\ LateLimit \in Nat  BY MsIsNat DEF AnswersWaiting, LateLimit
<1>2. dueIn \in Int /\ dueIn >= a.due - 1  BY <1>1 DEF Larger
<1>3. leftIn \in Nat /\ (leftIn > 0 => a.left = leftIn + 1)  BY <1>1 DEF Larger
<1>4. Waited(a) = w  BY DEF Waited
<1>. HIDE DEF dueIn, leftIn
<1>5. w \in AnswersWaiting /\ w.event = a.event /\ w.key = a.key /\ w.answer = a.answer /\ w.due = dueIn /\ w.left = leftIn
  BY <1>2, <1>3 DEF AnswersWaiting
<1>. QED  BY <1>2, <1>3, <1>4, <1>5 DEF Aged

LEMMA AnswerTickKeeps == ASSUME AnswersInv, AnswerTick PROVE AnswersKept
<1>. DEFINE waiting == {Waited(a) : a \in caPending}
            due == {a \in waiting : a.due <= 0}
            said == IF caOn THEN {a.key : a \in {b \in due : Sayable(b)}} ELSE {}
            older == [k \in Replies |-> IF caSince[k] = CaNever \/ caSince[k] + 1 > ChatEvents[k[1]].window
                                        THEN CaNever ELSE caSince[k] + 1]
<1>1. /\ caSaid' = said /\ caPending' = IF caOn THEN waiting \ due ELSE waiting
      /\ caQuiet' = [k \in Replies |-> IF k \in said THEN RepeatQuiet ELSE Larger(caQuiet[k] - 1, 0)]
      /\ caSince' = [k \in Replies |-> IF k \in caSaid THEN CaNever ELSE older[k]]
      /\ caMissed' = (caPending' # {} /\ (caMissed \/ ~caOn))
      /\ caOn' = caOn /\ caNpc' = caNpc
  BY DEF AnswerTick
<1>2. Replies' = Replies /\ AnswersWaiting' = AnswersWaiting  BY <1>1 DEF NpcEvents, Replies, AnswersWaiting
<1>3. RepeatQuiet \in Nat  BY MsIsNat DEF RepeatQuiet
<1>4. \A a \in caPending : a \in AnswersWaiting /\ a.key = <<a.event, a.answer>> /\ caQuiet[a.key] = 0 /\ a.key \notin caSaid
  BY DEF AnswersInv
<1>5. \A a \in caPending : Aged(a, Waited(a))  BY <1>4, WaitedIs
<1>6. \A w \in waiting : \E a \in caPending : w = Waited(a) /\ Aged(a, w)  BY <1>5
<1>7. \A v, w \in waiting : v.key = w.key => v = w
  <2>. SUFFICES ASSUME NEW v \in waiting, NEW w \in waiting, v.key = w.key PROVE v = w  OBVIOUS
  <2>1. PICK a \in caPending : v = Waited(a) /\ Aged(a, v)  BY <1>6
  <2>2. PICK b \in caPending : w = Waited(b) /\ Aged(b, w)  BY <1>6
  <2>3. a.key = b.key  BY <2>1, <2>2 DEF Aged
  <2>4. a = b  BY <2>3 DEF AnswersInv
  <2>. QED  BY <2>1, <2>2, <2>4
<1>8. \A k \in said : caOn /\ \E w \in due : Sayable(w) /\ w.key = k  OBVIOUS
<1>9. caPending' \subseteq waiting /\ due \subseteq waiting /\ (caOn => caPending' \cap due = {})  BY <1>1
<1>. HIDE DEF waiting, due, said
<1>10. \A w \in caPending' : w.key \notin said
  <2>. SUFFICES ASSUME NEW w \in caPending', w.key \in said PROVE FALSE  OBVIOUS
  <2>1. PICK v \in due : v.key = w.key  BY <1>8
  <2>2. v = w  BY <1>7, <1>9, <2>1
  <2>. QED  BY <1>8, <1>9, <2>1, <2>2
<1>11. caQuiet' \in [Replies -> Nat] /\ \A k \in Replies : k \notin said => caQuiet'[k] = Larger(caQuiet[k] - 1, 0)
  <2>1. ASSUME NEW k \in Replies PROVE (IF k \in said THEN RepeatQuiet ELSE Larger(caQuiet[k] - 1, 0)) \in Nat
    <3>1. caQuiet[k] \in Nat  BY DEF AnswersInv
    <3>. QED  BY <1>3, <3>1 DEF Larger
  <2>. QED  BY <1>1, <2>1
<1>12. ASSUME NEW w \in caPending'
       PROVE  w \in AnswersWaiting /\ w.key = <<w.event, w.answer>> /\ caQuiet'[w.key] = 0 /\ w.key \notin caSaid'
  <2>1. PICK a \in caPending : Aged(a, w)  BY <1>6, <1>9
  <2>2. w \in AnswersWaiting /\ w.key = <<w.event, w.answer>> /\ w.key \in Replies  BY <1>4, <2>1 DEF Aged, AnswersWaiting
  <2>3. caQuiet[w.key] = 0  BY <1>4, <2>1 DEF Aged
  <2>4. Larger(-1, 0) = 0  BY DEF Larger
  <2>5. caQuiet[w.key] - 1 = -1  BY <2>3
  <2>6. caQuiet'[w.key] = Larger(caQuiet[w.key] - 1, 0)  BY <1>10, <1>11, <2>2
  <2>. QED  BY <1>1, <1>10, <2>2, <2>4, <2>5, <2>6
<1>13. ASSUME ~caMissed', NEW w \in caPending' PROVE StillWanted(w, caSince')
  <2>. SUFFICES ASSUME w.left > 0
                PROVE  /\ caSince'[w.key] # CaNever /\ caSince'[w.key] \in Nat
                       /\ caSince'[w.key] + w.left = ChatEvents[w.event].window
                       /\ caSince'[w.key] + w.due >= ChatEvents[w.event].listensAfter
    BY DEF StillWanted
  <2>1. caOn /\ ~caMissed  BY <1>1, <1>13 DEF AnswersInv
  <2>2. PICK a \in caPending : Aged(a, w)  BY <1>6, <1>9
  <2>3. /\ w.left \in Nat /\ w.due \in Int /\ a.left = w.left + 1 /\ w.due >= a.due - 1 /\ w.event = a.event /\ w.key = a.key
        /\ a.left > 0
    BY <2>2 DEF Aged
  <2>. DEFINE n == caSince[a.key]
              listens == ChatEvents[a.event].listensAfter
              window == ChatEvents[a.event].window
  <2>4. n # CaNever /\ n \in Nat /\ n + a.left = window /\ n + a.due >= listens
    BY <2>1, <2>3 DEF AnswersInv, StillWanted
  <2>5. a \in AnswersWaiting /\ a.key = <<a.event, a.answer>> /\ a.key \notin caSaid  BY <1>4
  <2>6. a.event \in NpcEvents /\ a.key \in Replies /\ a.key[1] = a.event /\ a.due \in Int  BY <2>5 DEF AnswersWaiting
  <2>7. listens \in Nat /\ window \in Nat  BY <2>6, RepliesAre, EventFigures
  <2>8. caSince'[a.key] = IF n = CaNever \/ n + 1 > window THEN CaNever ELSE n + 1  BY <1>1, <2>5, <2>6
  <2>. HIDE DEF n, listens, window
  <2>9. caSince'[a.key] = n + 1  BY <2>3, <2>4, <2>7, <2>8
  <2>10. n + 1 # CaNever /\ n + 1 \in Nat  BY <2>4, AnswersAssumption
  <2>11. n + 1 + w.left = window  BY <2>3, <2>4, <2>7
  <2>12. n + 1 + w.due >= listens  BY <2>3, <2>4, <2>6, <2>7
  <2>. QED  BY <2>3, <2>9, <2>10, <2>11, <2>12 DEF listens, window
<1>14. ASSUME NEW k \in said
       PROVE  /\ k \in DOMAIN caQuiet /\ caQuiet[k] <= 1
              /\ ~caMissed => caSince[k] # CaNever /\ caSince[k] + 1 >= ChatEvents[k[1]].listensAfter
  <2>1. PICK w \in due : Sayable(w) /\ w.key = k  BY <1>8
  <2>2. w.due <= 0  BY <2>1 DEF due
  <2>3. PICK a \in caPending : Aged(a, w)  BY <1>6, <1>9, <2>1
  <2>4. a \in AnswersWaiting /\ a.key = <<a.event, a.answer>> /\ caQuiet[a.key] = 0 /\ a.key = k  BY <1>4, <2>1, <2>3 DEF Aged
  <2>5. k \in Replies /\ k[1] = a.event /\ a.event \in NpcEvents /\ a.due \in Int  BY <2>4 DEF AnswersWaiting
  <2>6. ASSUME ~caMissed PROVE caSince[k] # CaNever /\ caSince[k] + 1 >= ChatEvents[k[1]].listensAfter
    <3>1. w.left > 0 /\ w.left \in Nat /\ a.left = w.left + 1 /\ w.due \in Int /\ w.due >= a.due - 1
      BY <2>1, <2>3 DEF Aged, Sayable
    <3>. DEFINE n == caSince[k]
                listens == ChatEvents[a.event].listensAfter
    <3>2. a.left > 0  BY <3>1
    <3>3. n # CaNever /\ n \in Nat /\ n + a.due >= listens  BY <2>4, <2>6, <3>2 DEF AnswersInv, StillWanted
    <3>4. listens \in Nat  BY <2>5, RepliesAre, EventFigures
    <3>. HIDE DEF n, listens
    <3>5. n + 1 >= listens  BY <2>2, <2>5, <3>1, <3>3, <3>4
    <3>. QED  BY <2>5, <3>3, <3>5 DEF n, listens
  <2>7. DOMAIN caQuiet = Replies  BY DEF AnswersInv
  <2>8. caQuiet[k] = 0  BY <2>4
  <2>9. caQuiet[k] <= 1  BY <2>8
  <2>. QED  BY <2>5, <2>6, <2>7, <2>9
<1>15. \A a, b \in caPending' : a.key = b.key => a = b  BY <1>7, <1>9
<1>16. caMissed' \in BOOLEAN /\ caOn' \in BOOLEAN  BY <1>1 DEF AnswersInv
<1>17. caPending' \subseteq AnswersWaiting' /\ caQuiet' \in [Replies' -> Nat]  BY <1>2, <1>11, <1>12
<1>18. AnswersInv'  BY <1>12, <1>13, <1>15, <1>16, <1>17 DEF AnswersInv
<1>19. TwiceStep /\ WantedStep  BY <1>1, <1>14 DEF TwiceStep, WantedStep
<1>. QED  BY <1>18, <1>19 DEF AnswersKept

LEMMA AnswersStep ==
  ASSUME AnswersInv, [AnswersNext]_caVars PROVE AnswersInv' /\ [TwiceStep]_caVars /\ [WantedStep]_caVars
<1>1. CASE AnswersNext
  <2>1. AnswersKept  BY <1>1, LineKeeps, PlayerKeeps, AnswerTickKeeps, RoomKeeps, SwitchKeeps, ToggleKeeps DEF AnswersNext
  <2>. QED  BY <2>1 DEF AnswersKept
<1>2. CASE caVars' = caVars
  <2>1. /\ caOn' = caOn /\ caNpc' = caNpc /\ caPending' = caPending /\ caQuiet' = caQuiet /\ caSince' = caSince
        /\ caMissed' = caMissed /\ caSaid' = caSaid
    BY <1>2 DEF caVars
  <2>2. Replies' = Replies /\ AnswersWaiting' = AnswersWaiting  BY <2>1 DEF NpcEvents, Replies, AnswersWaiting
  <2>3. AnswersInv'  BY <2>1, <2>2 DEF AnswersInv, StillWanted
  <2>. QED  BY <1>2, <2>3
<1>. QED  BY <1>1, <1>2
------------------------------------------------------------------------------
(* Aim: the pass over the enemies keeps the best of those it has seen, in the    *)
(* order that sets bosses first, then scores, then nearness, then listing.       *)

PriorityIs(p) == /\ p.by = "closest" \/ p.by = "lowestHp" \/ p.by = "highestHp" \/ p.by = "cursor"
                 /\ p.cursor # AmNobody => p.cursor \in Int
Tellable == ~(amPriority.by = "cursor" /\ amPriority.cursor = AmNobody)

AimInv == amField \in Seq(AmEnemy) /\ amPicked \in {AmNobody} \cup DOMAIN amField /\ PriorityIs(amPriority)

BestStep ==
  AimPlan =>
    LET tellable == ~(amPriority.by = "cursor" /\ amPriority.cursor = AmNobody)
        ranked == IF tellable THEN {i \in DOMAIN amField : Ranked(i)} ELSE {}
    IN IF ~amArmed THEN amAim' = amAim
       ELSE IF amLocks /\ amPicked # AmNobody /\ Eligible(amPicked) THEN amAim'.enemy = amField[amPicked]
       ELSE IF ranked = {} THEN amAim' = amAim
       ELSE \E i \in ranked : amAim'.enemy = amField[i] /\ \A j \in ranked \ {i} : RanksBefore(i, j)

LEMMA AimStarts == AimInit => AimInv
BY AimAssumption DEF AimInit, AimInv, PriorityIs

LEMMA AimKeeps == ASSUME AimInv, [AimDecides \/ AimClaims]_amVars PROVE AimInv'
<1>1. CASE AimWorld
  <2>1. amPriority' = amPriority  BY <1>1 DEF AimWorld, amSettings
  <2>2. \/ amField' \in AmFields /\ amPicked \in {AmNobody} \cup DOMAIN amField' /\ amPicked' = amPicked
        \/ amPicked' \in {AmNobody} \cup DOMAIN amField /\ amField' = amField
        \/ amField' = amField /\ amPicked' = amPicked
    BY <1>1 DEF AimWorld
  <2>. QED  BY <2>1, <2>2, AimAssumption DEF AimInv, PriorityIs
<1>2. CASE AimSet
  <2>1. amField' = amField /\ amPicked' = amPicked /\ (amPriority' = amPriority \/ amPriority' \in AmPriorities)
    BY <1>2 DEF AimSet, amScene
  <2>2. ASSUME NEW p \in AmPriorities PROVE PriorityIs(p)
    <3>1. p.by \in {"closest", "lowestHp", "highestHp", "cursor"}  BY AimAssumption
    <3>2. p.cursor # AmNobody => p.cursor \in Int  BY AimAssumption
    <3>3. p.by = "closest" \/ p.by = "lowestHp" \/ p.by = "highestHp" \/ p.by = "cursor"  BY <3>1
    <3>. QED  BY <3>2, <3>3 DEF PriorityIs
  <2>3. PriorityIs(amPriority) => PriorityIs(amPriority')  BY <2>1, <2>2
  <2>. QED  BY <2>1, <2>3 DEF AimInv, PriorityIs
<1>3. CASE AimPlan \/ AimIdle \/ AimToggle \/ AimWalls \/ UNCHANGED amVars
  <2>1. amField' = amField /\ amPicked' = amPicked /\ amPriority' = amPriority
    BY <1>3 DEF AimPlan, AimIdle, AimToggle, AimWalls, amVars, amScene, amSettings
  <2>. QED  BY <2>1 DEF AimInv, PriorityIs
<1>. QED  BY <1>1, <1>2, <1>3 DEF AimDecides, AimClaims

\* What the ranking compares.
LEMMA FarIsNat == ASSUME NEW n \in Int PROVE Far(n) \in Int
BY DEF Far

LEMMA ScoreIsInt == ASSUME PriorityIs(amPriority), Tellable, NEW e \in AmEnemy PROVE Score(e) \in Int /\ Far(e.at) \in Int
<1>1. e.at \in Int /\ e.hp \in Int  BY DEF AmEnemy
<1>2. Far(e.at) \in Int  BY <1>1, FarIsNat
<1>3. CASE amPriority.by = "closest"  BY <1>2, <1>3 DEF Score
<1>4. CASE amPriority.by = "lowestHp"  BY <1>1, <1>2, <1>4 DEF Score
<1>5. CASE amPriority.by = "highestHp"
  <2>1. Score(e) = -e.hp  BY <1>5 DEF Score
  <2>2. -e.hp \in Int  BY <1>1
  <2>. QED  BY <1>2, <2>1, <2>2
<1>6. CASE amPriority.by = "cursor"
  <2>1. amPriority.cursor \in Int  BY <1>6 DEF PriorityIs, Tellable
  <2>. DEFINE off == e.at - amPriority.cursor
  <2>2. off \in Int  BY <1>1, <2>1
  <2>3. Score(e) = off * off  BY <1>6 DEF Score
  <2>. HIDE DEF off
  <2>. QED  BY <1>2, <2>2, <2>3
<1>. QED  BY <1>3, <1>4, <1>5, <1>6 DEF PriorityIs

BossFirst(i) == IF IsBoss(amField[i]) THEN 0 ELSE 1
Precedes(b1, s1, f1, i, b2, s2, f2, j) ==
  b1 < b2 \/ (b1 = b2 /\ (s1 < s2 \/ (s1 = s2 /\ (f1 < f2 \/ (f1 = f2 /\ i < j)))))
Ahead(i, j) == Precedes(BossFirst(i), Score(amField[i]), Far(amField[i].at), i,
                        BossFirst(j), Score(amField[j]), Far(amField[j].at), j)

LEMMA RanksAs == ASSUME NEW i, NEW j PROVE Ahead(i, j) => RanksBefore(i, j)
<1>. DEFINE a == <<BossFirst(i), Score(amField[i]), Far(amField[i].at), i>>
            b == <<BossFirst(j), Score(amField[j]), Far(amField[j].at), j>>
<1>1. RanksBefore(i, j) <=> \E n \in 1 .. 4 : a[n] < b[n] /\ \A m \in 1 .. (n - 1) : a[m] = b[m]
  BY DEF RanksBefore, BossFirst
<1>2. a[1] = BossFirst(i) /\ a[2] = Score(amField[i]) /\ a[3] = Far(amField[i].at) /\ a[4] = i  OBVIOUS
<1>3. b[1] = BossFirst(j) /\ b[2] = Score(amField[j]) /\ b[3] = Far(amField[j].at) /\ b[4] = j  OBVIOUS
<1>. HIDE DEF a, b
<1>4. Ahead(i, j) => \/ a[1] < b[1]
                     \/ a[2] < b[2] /\ a[1] = b[1]
                     \/ a[3] < b[3] /\ a[1] = b[1] /\ a[2] = b[2]
                     \/ a[4] < b[4] /\ a[1] = b[1] /\ a[2] = b[2] /\ a[3] = b[3]
  BY <1>2, <1>3 DEF Ahead, Precedes
<1>5. a[1] < b[1] => RanksBefore(i, j)
  <2>1. 1 \in 1 .. 4 /\ 1 .. (1 - 1) = {}  OBVIOUS
  <2>. QED  BY <1>1, <2>1
<1>6. a[2] < b[2] /\ a[1] = b[1] => RanksBefore(i, j)
  <2>1. 2 \in 1 .. 4 /\ \A m \in 1 .. (2 - 1) : m = 1  OBVIOUS
  <2>. QED  BY <1>1, <2>1
<1>7. a[3] < b[3] /\ a[1] = b[1] /\ a[2] = b[2] => RanksBefore(i, j)
  <2>1. 3 \in 1 .. 4 /\ \A m \in 1 .. (3 - 1) : m = 1 \/ m = 2  OBVIOUS
  <2>. QED  BY <1>1, <2>1
<1>8. a[4] < b[4] /\ a[1] = b[1] /\ a[2] = b[2] /\ a[3] = b[3] => RanksBefore(i, j)
  <2>1. 4 \in 1 .. 4 /\ \A m \in 1 .. (4 - 1) : m = 1 \/ m = 2 \/ m = 3  OBVIOUS
  <2>. QED  BY <1>1, <2>1
<1>. QED  BY <1>4, <1>5, <1>6, <1>7, <1>8

LEMMA ThenAhead ==
  ASSUME AimInv, Tellable, NEW i \in DOMAIN amField, NEW j \in DOMAIN amField, NEW k \in DOMAIN amField, Ahead(i, j), Ahead(j, k)
  PROVE  Ahead(i, k)
<1>1. \A n \in DOMAIN amField : amField[n] \in AmEnemy /\ n \in Int  BY DEF AimInv
<1>2. \A n \in DOMAIN amField : Score(amField[n]) \in Int /\ Far(amField[n].at) \in Int /\ BossFirst(n) \in Int
  BY <1>1, ScoreIsInt DEF BossFirst, AimInv
<1>. DEFINE b(n) == BossFirst(n)  s(n) == Score(amField[n])  f(n) == Far(amField[n].at)
<1>3. /\ b(i) \in Int /\ b(j) \in Int /\ b(k) \in Int /\ s(i) \in Int /\ s(j) \in Int /\ s(k) \in Int
      /\ f(i) \in Int /\ f(j) \in Int /\ f(k) \in Int /\ i \in Int /\ j \in Int /\ k \in Int
  BY <1>1, <1>2
<1>4. Precedes(b(i), s(i), f(i), i, b(j), s(j), f(j), j) /\ Precedes(b(j), s(j), f(j), j, b(k), s(k), f(k), k)
  BY DEF Ahead
<1>. HIDE DEF b, s, f
<1>5. Precedes(b(i), s(i), f(i), i, b(k), s(k), f(k), k)  BY <1>3, <1>4 DEF Precedes
<1>. QED  BY <1>5 DEF Ahead, b, s, f

\* The later of two outranks the earlier, or the earlier is ahead of it.
LEMMA OneIsAhead ==
  ASSUME AimInv, Tellable, NEW i \in DOMAIN amField, NEW k \in DOMAIN amField, i < k
  PROVE  IF Outranks(amField[k], amField[i]) THEN Ahead(k, i) ELSE Ahead(i, k)
<1>1. amField[i] \in AmEnemy /\ amField[k] \in AmEnemy /\ i \in Int /\ k \in Int  BY DEF AimInv
<1>2. /\ Score(amField[i]) \in Int /\ Far(amField[i].at) \in Int /\ Score(amField[k]) \in Int /\ Far(amField[k].at) \in Int
  BY <1>1, ScoreIsInt DEF AimInv
<1>. DEFINE si == Score(amField[i])  sk == Score(amField[k])  fi == Far(amField[i].at)  fk == Far(amField[k].at)
            bi == IsBoss(amField[i])  bk == IsBoss(amField[k])
<1>3. bi \in BOOLEAN /\ bk \in BOOLEAN  BY DEF IsBoss
<1>4. Outranks(amField[k], amField[i]) <=> /\ ~(bi /\ ~bk)
                                           /\ (bk <=> bi) => (sk < si \/ (sk = si /\ fk < fi))
  BY <1>3 DEF Outranks
<1>5. BossFirst(i) = (IF bi THEN 0 ELSE 1) /\ BossFirst(k) = (IF bk THEN 0 ELSE 1)  BY DEF BossFirst
<1>6. Ahead(i, k) <=> Precedes(BossFirst(i), si, fi, i, BossFirst(k), sk, fk, k)  BY DEF Ahead
<1>7. Ahead(k, i) <=> Precedes(BossFirst(k), sk, fk, k, BossFirst(i), si, fi, i)  BY DEF Ahead
<1>8. si \in Int /\ sk \in Int /\ fi \in Int /\ fk \in Int  BY <1>2
<1>. HIDE DEF si, sk, fi, fk, bi, bk
<1>9. Outranks(amField[k], amField[i]) => Ahead(k, i)  BY <1>1, <1>3, <1>4, <1>5, <1>7, <1>8 DEF Precedes
<1>10. ~Outranks(amField[k], amField[i]) => Ahead(i, k)  BY <1>1, <1>3, <1>4, <1>5, <1>6, <1>8 DEF Precedes
<1>. QED  BY <1>9, <1>10

\* The pass.
Runnable(enemy) == enemy.hp > 0 /\ InRange(enemy) /\ (amRule = "only" => IsBoss(enemy))
Takes(field, i, best) == /\ Runnable(field[i])
                         /\ best = 0 \/ Outranks(field[i], field[best])
                         /\ AimAccepts(field[i])
BestIs(field, g) ==
  g = [i \in 0 .. Len(field) |-> IF i = 0 THEN 0
                                 ELSE IF /\ Runnable(field[i])
                                         /\ g[i - 1] = 0 \/ Outranks(field[i], field[g[i - 1]])
                                         /\ AimAccepts(field[i]) THEN i
                                 ELSE g[i - 1]]

LEMMA PassRuns == ASSUME NEW field \in Seq(AmEnemy) PROVE \E g : BestIs(field, g)
<1>. DEFINE N == Len(field)
            zero == 0
            X == 0 .. N
            G == [t \in (1 .. N) \X X |-> IF Takes(field, t[1], t[2]) THEN t[1] ELSE t[2]]
<1>1. N \in Nat /\ zero \in X  OBVIOUS
<1>2. G \in [(1 .. N) \X X -> X]
  <2>1. \A t \in (1 .. N) \X X : t[1] \in X /\ t[2] \in X  BY <1>1
  <2>. QED  BY <2>1
<1>3. \A n \in 1 .. N, b \in X : G[<<n, b>>] = IF Takes(field, n, b) THEN n ELSE b  OBVIOUS
<1>. HIDE DEF zero, X, G, N
<1>4. PICK g : IsRun(g, X, zero, N, G)  BY <1>1, <1>2, Recursion
<1>5. g \in [0 .. N -> X] /\ g[0] = 0 /\ \A n \in 1 .. N : g[n] = G[<<n, g[n - 1]>>]
  BY <1>4 DEF IsRun, zero
<1>6. ASSUME NEW n \in 0 .. N
      PROVE  g[n] = IF n = 0 THEN 0
                    ELSE IF /\ Runnable(field[n])
                            /\ g[n - 1] = 0 \/ Outranks(field[n], field[g[n - 1]])
                            /\ AimAccepts(field[n]) THEN n
                    ELSE g[n - 1]
  <2>1. n = 0 \/ (n # 0 /\ n \in 1 .. N /\ n - 1 \in 0 .. N)  BY <1>1
  <2>2. CASE n = 0  BY <1>5, <2>2
  <2>3. CASE n # 0 /\ n \in 1 .. N /\ n - 1 \in 0 .. N
    <3>1. g[n - 1] \in X  BY <1>5, <2>3
    <3>2. g[n] = IF Takes(field, n, g[n - 1]) THEN n ELSE g[n - 1]  BY <1>3, <1>5, <2>3, <3>1
    <3>. QED  BY <2>3, <3>2 DEF Takes
  <2>. QED  BY <2>1, <2>2, <2>3
<1>7. g = [n \in 0 .. N |-> g[n]]  BY <1>5
<1>8. BestIs(field, g)  BY <1>6, <1>7 DEF BestIs, N
<1>. QED  BY <1>8

\* The best of the first n.
BestOf(i, n) ==
  /\ i \in 0 .. n
  /\ i = 0 => \A j \in 1 .. n : ~Ranked(j)
  /\ i # 0 => Ranked(i) /\ \A j \in 1 .. n : Ranked(j) /\ j # i => Ahead(i, j)

LEMMA OneMoreSeen ==
  ASSUME AimInv, Tellable, NEW n \in Nat, n + 1 <= Len(amField), NEW b, BestOf(b, n)
  PROVE  BestOf(IF Takes(amField, n + 1, b) THEN n + 1 ELSE b, n + 1)
<1>. DEFINE k == n + 1
<1>1. amField \in Seq(AmEnemy) /\ k \in Nat /\ k \in DOMAIN amField /\ \A j \in 1 .. k : j \in DOMAIN amField
  BY DEF AimInv
<1>2. \A j \in 1 .. k : j = k \/ (j \in 1 .. n /\ j # k /\ j < k)  OBVIOUS
<1>3. b \in 0 .. n /\ (b = 0 \/ (b # 0 /\ b \in 1 .. n))  BY DEF BestOf
<1>4. b \in 0 .. k /\ k \in 0 .. k /\ k # 0 /\ (b # 0 => b \in DOMAIN amField /\ b < k)  BY <1>1, <1>3
<1>5. Takes(amField, k, b) <=> Ranked(k) /\ (b = 0 \/ Outranks(amField[k], amField[b]))
  <2>1. amField[k] \in AmEnemy  BY <1>1
  <2>2. amRule = "only" => (IsBoss(amField[k]) <=> amField[k].boss)  BY DEF IsBoss
  <2>. QED  BY <2>2 DEF Takes, Runnable, Ranked, Eligible
<1>. HIDE DEF k
<1>6. CASE Takes(amField, k, b)
  <2>1. ASSUME NEW j \in 1 .. k, Ranked(j), j # k PROVE Ahead(k, j)
    <3>1. j \in 1 .. n /\ b # 0  BY <1>2, <2>1 DEF BestOf
    <3>2. Ahead(k, b)  BY <1>1, <1>4, <1>5, <1>6, <3>1, OneIsAhead
    <3>3. j = b \/ Ahead(b, j)  BY <2>1, <3>1 DEF BestOf
    <3>. QED  BY <1>1, <1>4, <3>1, <3>2, <3>3, ThenAhead
  <2>2. BestOf(k, k)  BY <1>4, <1>5, <1>6, <2>1 DEF BestOf
  <2>. QED  BY <1>6, <2>2 DEF k
<1>7. CASE ~Takes(amField, k, b)
  <2>1. CASE b = 0
    <3>1. ~Ranked(k)  BY <1>5, <1>7, <2>1
    <3>2. \A j \in 1 .. k : ~Ranked(j)  BY <1>2, <2>1, <3>1 DEF BestOf
    <3>3. BestOf(b, k)  BY <1>4, <2>1, <3>2 DEF BestOf
    <3>. QED  BY <1>7, <3>3 DEF k
  <2>2. CASE b # 0
    <3>1. ASSUME NEW j \in 1 .. k, Ranked(j), j # b PROVE Ahead(b, j)
      <4>1. CASE j = k
        <5>1. ~Outranks(amField[k], amField[b])  BY <1>5, <1>7, <3>1, <4>1
        <5>. QED  BY <1>1, <1>4, <2>2, <4>1, <5>1, OneIsAhead
      <4>2. CASE j # k
        <5>1. j \in 1 .. n  BY <1>2, <4>2
        <5>. QED  BY <2>2, <3>1, <5>1 DEF BestOf
      <4>. QED  BY <4>1, <4>2
    <3>2. Ranked(b)  BY <2>2 DEF BestOf
    <3>3. BestOf(b, k)  BY <1>4, <2>2, <3>1, <3>2 DEF BestOf
    <3>. QED  BY <1>7, <3>3 DEF k
  <2>. QED  BY <2>1, <2>2
<1>. QED  BY <1>6, <1>7

LEMMA SelectedIsBest == ASSUME AimInv, Tellable PROVE BestOf(Selected(amField), Len(amField))
<1>. DEFINE N == Len(amField)
            g == CHOOSE h : BestIs(amField, h)
            T == {n \in Nat : n <= N => BestOf(g[n], n)}
<1>1. amField \in Seq(AmEnemy) /\ N \in Nat  BY DEF AimInv
<1>2. BestIs(amField, g)  BY <1>1, PassRuns
<1>3. Selected(amField) = g[N]  BY DEF Selected, BestIs, Runnable, Tellable
<1>. HIDE DEF g
<1>4. \A n \in 0 .. N : g[n] = IF n = 0 THEN 0
                              ELSE IF /\ Runnable(amField[n])
                                      /\ g[n - 1] = 0 \/ Outranks(amField[n], amField[g[n - 1]])
                                      /\ AimAccepts(amField[n]) THEN n
                              ELSE g[n - 1]
  BY <1>2 DEF BestIs
<1>. HIDE DEF N
<1>5. 0 \in T
  <2>1. 0 \in 0 .. N  BY <1>1
  <2>2. g[0] = 0  BY <1>4, <2>1
  <2>3. 0 \in 0 .. 0 /\ \A j \in 1 .. 0 : FALSE  OBVIOUS
  <2>4. BestOf(0, 0)  BY <2>3 DEF BestOf
  <2>. QED  BY <2>2, <2>4
<1>6. ASSUME NEW n \in T PROVE n + 1 \in T
  <2>. SUFFICES ASSUME n + 1 <= N PROVE BestOf(g[n + 1], n + 1)  OBVIOUS
  <2>1. n \in Nat /\ n <= N /\ n + 1 \in 0 .. N /\ n + 1 # 0 /\ (n + 1) - 1 = n  BY <1>1
  <2>2. BestOf(g[n], n)  BY <2>1
  <2>3. g[n + 1] = IF Takes(amField, n + 1, g[n]) THEN n + 1 ELSE g[n]  BY <1>4, <2>1 DEF Takes
  <2>4. n + 1 <= Len(amField)  BY DEF N
  <2>. QED  BY <2>1, <2>2, <2>3, <2>4, OneMoreSeen
<1>7. T = Nat
  <2>. HIDE DEF T
  <2>1. T \in SUBSET Nat  BY DEF T
  <2>. QED  BY <1>5, <1>6, <2>1, Upwards
<1>8. BestOf(g[N], N)  BY <1>1, <1>7
<1>. QED  BY <1>3, <1>8 DEF N

LEMMA AimStep == ASSUME AimInv, [AimDecides \/ AimClaims]_amVars PROVE AimInv' /\ [BestStep]_amVars
<1>1. ASSUME AimPlan PROVE BestStep
  <2>. DEFINE ranked == IF Tellable THEN {i \in DOMAIN amField : Ranked(i)} ELSE {}
              Aims(i) == amAim'.enemy = amField[i]
  <2>1. amAim' = IF Target = 0 THEN amAim
                 ELSE [enemy |-> amField[Target], led |-> CHOOSE t \in AimPoint(amField[Target]) : TRUE]
    BY <1>1 DEF AimPlan
  <2>2. Target = 0 => amAim' = amAim  BY <2>1
  <2>3. Target # 0 => Aims(Target)  BY <2>1
  <2>4. DOMAIN amField = 1 .. Len(amField)  BY DEF AimInv
  <2>5. ~amArmed => amAim' = amAim  BY <2>2 DEF Target
  <2>. HIDE DEF Aims
  <2>6. ASSUME amArmed, amLocks, amPicked # AmNobody, Eligible(amPicked) PROVE Aims(amPicked)
    <3>1. amPicked \in DOMAIN amField /\ amPicked # 0  BY <2>4, <2>6 DEF AimInv
    <3>2. Locked = amPicked  BY <2>6 DEF Locked, Eligible
    <3>3. Target = amPicked  BY <2>6, <3>1, <3>2 DEF Target
    <3>. QED  BY <2>3, <3>1, <3>3
  <2>7. ASSUME amArmed, ~(amLocks /\ amPicked # AmNobody /\ Eligible(amPicked))
        PROVE  IF ranked = {} THEN amAim' = amAim
               ELSE \E i \in ranked : Aims(i) /\ \A j \in ranked \ {i} : RanksBefore(i, j)
    <3>1. Locked = 0  BY <2>7 DEF Locked, Eligible
    <3>2. Target = Selected(amField)  BY <2>7, <3>1 DEF Target
    <3>3. CASE ~Tellable
      <4>1. Selected(amField) = 0  BY <3>3 DEF Selected, Tellable
      <4>. QED  BY <2>2, <3>2, <3>3, <4>1
    <3>4. CASE Tellable
      <4>1. BestOf(Target, Len(amField))  BY <3>2, <3>4, SelectedIsBest
      <4>2. ranked = {i \in DOMAIN amField : Ranked(i)}  BY <3>4
      <4>. HIDE DEF ranked
      <4>3. CASE Target = 0
        <5>1. ranked = {}  BY <2>4, <4>1, <4>2, <4>3 DEF BestOf
        <5>. QED  BY <2>2, <4>3, <5>1
      <4>4. CASE Target # 0
        <5>1. Target \in 1 .. Len(amField) /\ Ranked(Target)  BY <4>1, <4>4 DEF BestOf, AimInv
        <5>2. Target \in ranked  BY <2>4, <4>2, <5>1
        <5>3. \A j \in ranked \ {Target} : Ahead(Target, j)  BY <2>4, <4>1, <4>2, <4>4 DEF BestOf
        <5>4. \A j \in ranked \ {Target} : RanksBefore(Target, j)  BY <5>3, RanksAs
        <5>. QED  BY <2>3, <4>4, <5>2, <5>4
      <4>. QED  BY <4>3, <4>4
    <3>. QED  BY <3>3, <3>4
  <2>. QED  BY <2>5, <2>6, <2>7 DEF BestStep, Tellable, Aims
<1>2. CASE amVars' = amVars  BY <1>2, AimKeeps
<1>3. CASE AimDecides \/ AimClaims
  <2>1. BestStep
    <3>1. CASE AimPlan  BY <1>1, <3>1
    <3>2. CASE ~AimPlan  BY <3>2 DEF BestStep
    <3>. QED  BY <3>1, <3>2
  <2>. QED  BY <2>1, AimKeeps
<1>. QED  BY <1>2, <1>3
------------------------------------------------------------------------------
(* Ground that pushes, shown as ground that does not.                          *)

\* What each side holds is ground, and the two differ only where the server's pushes.
PushInv ==
  /\ ptOn \in BOOLEAN /\ ptReplacement \in PtTypes /\ ptPlain \subseteq PtPlaces
  /\ ptServer \in [PtPlaces -> PtTypes \cup {PtUnknown}] /\ ptClient \in [PtPlaces -> PtTypes \cup {PtUnknown}]
  /\ NothingPushes /\ OtherGroundKept

LEMMA PushStarts == PushInit => PushInv
BY PushAssumption DEF PushInit, PushInv, NothingPushes, OtherGroundKept

LEMMA PushStep == ASSUME PushInv, [PushNext]_ptVars PROVE PushInv'
<1>1. ASSUME NEW there \in SUBSET PtPlaces, NEW tiles \in [there -> PtTypes], NEW opaque \in BOOLEAN, Update(tiles, opaque)
      PROVE PushInv'
  <2>. DEFINE plain == ~ptOn \/ opaque \/ Substitute = {}
              put == CHOOSE s \in Substitute : TRUE
              shown == IF plain THEN tiles ELSE Replaced(tiles, put)
  <2>1. DOMAIN tiles = there /\ there \subseteq PtPlaces  OBVIOUS
  <2>2. ~plain => put \in PtTypes /\ put \notin PtPushing  BY DEF PushInv, Substitute
  <2>3. \A p \in there : tiles[p] \in PtTypes /\ shown[p] = (IF ~plain /\ tiles[p] \in PtPushing THEN put ELSE tiles[p])
    BY <2>1 DEF Replaced
  <2>4. /\ ptServer' = [p \in PtPlaces |-> IF p \in there THEN tiles[p] ELSE ptServer[p]]
        /\ ptClient' = [p \in PtPlaces |-> IF p \in there THEN shown[p] ELSE ptClient[p]]
        /\ ptPlain' = IF plain THEN ptPlain \cup there ELSE ptPlain \ there
        /\ ptOn' = ptOn /\ ptReplacement' = ptReplacement
    BY <1>1, <2>1 DEF Update
  <2>. HIDE DEF plain, put, shown
  <2>5. NothingPushes'  BY <2>1, <2>2, <2>3, <2>4 DEF PushInv, NothingPushes
  <2>6. OtherGroundKept'  BY <2>1, <2>2, <2>3, <2>4 DEF PushInv, OtherGroundKept
  <2>7. \A p \in there : shown[p] \in PtTypes  BY <2>2, <2>3
  <2>. QED  BY <2>1, <2>4, <2>5, <2>6, <2>7, <2>3 DEF PushInv
<1>2. CASE PushSettings  BY <1>2 DEF PushInv, PushSettings, NothingPushes, OtherGroundKept
<1>3. CASE ptVars' = ptVars  BY <1>3 DEF PushInv, ptVars, NothingPushes, OtherGroundKept
<1>. QED  BY <1>1, <1>2, <1>3 DEF PushNext
------------------------------------------------------------------------------
(* What each class was last seen in.                                           *)

\* The class shown wears what it was seen in, and what is remembered for any class that
\* was seen reads, as that class wears it, as what it was seen in.
WardrobeInv ==
  /\ WardrobeTypeOK /\ WornAgain
  /\ wdShown \in WdClasses \cup {WdNone} /\ wdOffer \subseteq WdAll /\ WdPlain \in wdOffer
  /\ wdShown = WdNone => wdOffer = {WdPlain}
  /\ wdChosen \in [WdClasses -> {WdNone} \cup [skin : WdAll, size : WdSizes]]
  /\ \A c \in WdClasses : wdChosen[c] # WdNone =>
       /\ wdMemory[c] # WdNone
       /\ wdChosen[c] = WdAsWorn(wdMemory[c], {WdPlain} \cup WdSkins[c])

LEMMA WardrobeStarts == WardrobeInit => WardrobeInv
BY WardrobeAssumption DEF WardrobeInit, WardrobeInv, WardrobeTypeOK, WornAgain, WdAll, WdLook, WdStored

\* A look that can be worn as it is.
LEMMA WornAsIs == ASSUME NEW look \in [skin : WdAll, size : WdSizes], NEW offer, look.skin \in offer
                  PROVE WdAsWorn(look, offer) = look
BY DEF WdAsWorn, WdFitting, WdLook

LEMMA WardrobeStep == ASSUME WardrobeInv, [WardrobeNext]_wdVars PROVE WardrobeInv'
<1>. DEFINE Looks == [skin : WdAll, size : WdSizes]
<1>0. /\ wdMemory \in [WdClasses -> {WdNone} \cup Looks] /\ wdWorn \in Looks
      /\ WdNone \notin Looks
  BY WardrobeAssumption DEF WardrobeInv, WardrobeTypeOK, WdStored
<1>1. ASSUME NEW c \in WdClasses, ShowClass(c) PROVE WardrobeInv'
  <2>. DEFINE offer == {WdPlain} \cup WdSkins[c]
              fallen == WdLook(WdFitting(wdWorn.skin, offer), wdWorn.size)
              worn == Redressed(Wanted(c, fallen), fallen, offer)
  <2>1. /\ wdShown' = c /\ c # wdShown /\ wdOffer' = offer /\ wdWorn' = worn
        /\ wdMemory' = IF WdMoved(c, fallen, worn) THEN LookKept(wdMemory, c, worn) ELSE wdMemory
        /\ wdChosen' = [wdChosen EXCEPT ![c] = IF @ = WdNone THEN worn ELSE @]
    BY <1>1 DEF ShowClass
  <2>2. offer \subseteq WdAll /\ WdPlain \in offer  BY DEF WdAll
  <2>3. fallen \in Looks /\ fallen.skin = WdPlain
    <3>1. wdOffer \cap offer \subseteq {WdPlain} /\ wdWorn.skin \in wdOffer
      BY <2>1, WardrobeAssumption DEF WardrobeInv, WardrobeTypeOK
    <3>. QED  BY <1>0, <2>2, <3>1 DEF WdLook, WdFitting
  <2>. HIDE DEF fallen, offer
  <2>4. worn \in Looks /\ worn.skin \in offer
    BY <1>0, <2>2, <2>3 DEF Redressed, Wanted, WdLook
  <2>a. wdMemory[c] # WdNone => worn = WdAsWorn(wdMemory[c], offer)
    BY <2>3 DEF Redressed, Wanted, WdAsWorn, WdFitting
  <2>5. wdChosen[c] # WdNone => worn = wdChosen[c]
    BY <2>a DEF WardrobeInv, offer
  <2>6. c # WdNone  BY WardrobeAssumption
  <2>. HIDE DEF worn
  <2>7. \/ wdMemory' = [wdMemory EXCEPT ![c] = worn]
        \/ wdMemory' = wdMemory /\ wdMemory[c] # WdNone
    BY <2>1, <2>6 DEF LookKept, WdMoved
  <2>8. wdChosen'[c] = worn /\ wdChosen' \in [WdClasses -> {WdNone} \cup Looks]
    BY <2>1, <2>4, <2>5 DEF WardrobeInv
  <2>9. \A d \in WdClasses \ {c} : wdMemory'[d] = wdMemory[d] /\ wdChosen'[d] = wdChosen[d]
    BY <1>0, <2>1, <2>7 DEF WardrobeInv
  <2>10. /\ wdMemory'[c] # WdNone /\ wdMemory' \in [WdClasses -> {WdNone} \cup Looks]
         /\ worn = WdAsWorn(wdMemory'[c], offer)
    <3>1. worn = WdAsWorn(worn, offer)  BY <2>4, WornAsIs
    <3>2. CASE wdMemory' = [wdMemory EXCEPT ![c] = worn]
      <4>1. wdMemory'[c] = worn /\ wdMemory' \in [WdClasses -> {WdNone} \cup Looks]  BY <1>0, <2>4, <3>2
      <4>. QED  BY <1>0, <2>4, <3>1, <4>1
    <3>3. CASE wdMemory' = wdMemory /\ wdMemory[c] # WdNone  BY <1>0, <2>a, <3>3
    <3>. QED  BY <2>7, <3>2, <3>3
  <2>11. \A d \in WdClasses : wdChosen'[d] # WdNone =>
           wdMemory'[d] # WdNone /\ wdChosen'[d] = WdAsWorn(wdMemory'[d], {WdPlain} \cup WdSkins[d])
    <3>1. ASSUME NEW d \in WdClasses \ {c}, wdChosen'[d] # WdNone
          PROVE wdMemory'[d] # WdNone /\ wdChosen'[d] = WdAsWorn(wdMemory'[d], {WdPlain} \cup WdSkins[d])
      BY <2>9, <3>1 DEF WardrobeInv
    <3>2. wdChosen'[c] = WdAsWorn(wdMemory'[c], {WdPlain} \cup WdSkins[c])  BY <2>8, <2>10 DEF offer
    <3>. QED  BY <2>10, <3>1, <3>2
  <2>12. WardrobeTypeOK'
    BY <2>1, <2>4, <2>10 DEF WardrobeTypeOK, WdStored, offer
  <2>. QED  BY <2>1, <2>2, <2>6, <2>8, <2>11, <2>12 DEF WardrobeInv, WornAgain
<1>2. ASSUME NEW skin \in wdOffer, NEW size \in WdSizes, Choose(WdLook(skin, size)) PROVE WardrobeInv'
  <2>. DEFINE look == WdLook(skin, size)
  <2>1. look \in Looks /\ look.skin = skin  BY DEF WdLook, WardrobeInv
  <2>. HIDE DEF look
  <2>2. /\ wdWorn' = look /\ wdMemory' = LookKept(wdMemory, wdShown, look) /\ wdShown' = wdShown /\ wdOffer' = wdOffer
        /\ wdChosen' = IF wdShown = WdNone THEN wdChosen ELSE [wdChosen EXCEPT ![wdShown] = look]
    BY <1>2 DEF Choose, look
  <2>3. CASE wdShown = WdNone
    BY <1>0, <2>1, <2>2, <2>3 DEF WardrobeInv, WardrobeTypeOK, WornAgain, WdStored, LookKept
  <2>4. CASE wdShown # WdNone
    <3>1. wdShown \in WdClasses /\ skin \in {WdPlain} \cup WdSkins[wdShown]
      BY <2>4 DEF WardrobeInv, WardrobeTypeOK
    <3>2. wdMemory' = [wdMemory EXCEPT ![wdShown] = look] /\ wdChosen' = [wdChosen EXCEPT ![wdShown] = look]
      BY <2>2, <2>4 DEF LookKept
    <3>3. wdMemory' \in [WdClasses -> {WdNone} \cup Looks] /\ wdChosen' \in [WdClasses -> {WdNone} \cup Looks]
      BY <1>0, <2>1, <3>1, <3>2 DEF WardrobeInv
    <3>4. wdMemory'[wdShown] = look /\ wdChosen'[wdShown] = look  BY <1>0, <3>1, <3>2 DEF WardrobeInv
    <3>5. \A d \in WdClasses \ {wdShown} : wdMemory'[d] = wdMemory[d] /\ wdChosen'[d] = wdChosen[d]
      BY <1>0, <3>2 DEF WardrobeInv
    <3>a. WdAsWorn(look, {WdPlain} \cup WdSkins[wdShown]) = look  BY <2>1, <3>1, WornAsIs
    <3>6. \A d \in WdClasses : wdChosen'[d] # WdNone =>
            wdMemory'[d] # WdNone /\ wdChosen'[d] = WdAsWorn(wdMemory'[d], {WdPlain} \cup WdSkins[d])
      <4>1. ASSUME NEW d \in WdClasses \ {wdShown}, wdChosen'[d] # WdNone
            PROVE wdMemory'[d] # WdNone /\ wdChosen'[d] = WdAsWorn(wdMemory'[d], {WdPlain} \cup WdSkins[d])
        BY <3>5, <4>1 DEF WardrobeInv
      <4>. QED  BY <1>0, <2>1, <3>4, <3>a, <4>1
    <3>b. wdOffer' = {WdPlain} \cup WdSkins[wdShown'] /\ wdMemory'[wdShown'] = look
      BY <2>2, <2>4, <3>4 DEF WardrobeInv, WardrobeTypeOK
    <3>c. look = WdAsWorn(wdMemory'[wdShown'], wdOffer')  BY <2>2, <3>a, <3>b
    <3>d. wdWorn' = look /\ look.skin \in wdOffer' /\ wdMemory' \in WdStored
      BY <2>1, <2>2, <3>3 DEF WdStored
    <3>7. WardrobeTypeOK'
      BY <1>0, <2>1, <3>b, <3>c, <3>d DEF WardrobeTypeOK
    <3>. QED  BY <2>2, <3>1, <3>3, <3>4, <3>6, <3>7 DEF WardrobeInv, WornAgain
  <2>. QED  BY <2>3, <2>4
<1>3. CASE WdRestart
  <2>1. wdWorn' \in Looks /\ wdWorn'.skin = WdPlain  BY <1>0, <1>3 DEF WdRestart, WdLook, WdAll
  <2>. QED  BY <1>0, <1>3, <2>1 DEF WdRestart, WardrobeInv, WardrobeTypeOK, WornAgain, WdStored, WdAll
<1>4. CASE wdVars' = wdVars  BY <1>4 DEF wdVars, WardrobeInv, WardrobeTypeOK, WornAgain
<1>. QED  BY <1>1, <1>2, <1>3, <1>4 DEF WardrobeNext
------------------------------------------------------------------------------
(* The stand-in of streamer mode.                                              *)

\* What was told of a stat is what the client shows of it, and nothing counts as told
\* while the character is being made, but where the server stated it unhandled.
StreamerInv ==
  /\ StreamerTypeOK /\ StandInShown
  /\ smShown \in [SmStats -> SmAliases \cup {SmNone}] /\ smMissed \subseteq SmStats
  /\ smOn \in BOOLEAN /\ smNew \in BOOLEAN /\ smTold \in BOOLEAN
  /\ smTold => ~smNew
  /\ smNew => \A s \in SmStats \ smMissed : smShown[s] = SmNone

LEMMA StreamerStarts == StreamerInit => StreamerInv
BY StreamerAssumption DEF StreamerInit, StreamerInv, StreamerTypeOK, StandInShown, Untold

LEMMA StreamerStep == ASSUME StreamerInv, [StreamerNext]_smVars PROVE StreamerInv'
<1>. DEFINE Names == SmAliases \cup {SmReal, SmNone}
<1>0. /\ smSetting \in [SmStats -> SmAliases] /\ smClient \in [SmStats -> Names]
      /\ smShown \in [SmStats -> SmAliases \cup {SmNone}] /\ smMissed \subseteq SmStats
  BY DEF StreamerInv, StreamerTypeOK
<1>1. ASSUME NEW announced \in BOOLEAN, NEW stated \in SUBSET SmStats, StandIn(announced, stated) PROVE StreamerInv'
  <2>1. smOn' = smOn /\ smSetting' = smSetting /\ smNew' = announced /\ smTold' = (smOn /\ ~announced)
        /\ (announced => stated = SmStats)
    BY <1>1 DEF StandIn
  <2>2. Targets' = Targets  BY <2>1 DEF Targets
  <2>3. CASE smOn
    <3>1. /\ smShown' = [s \in SmStats |-> IF announced THEN SmNone ELSE IF s \in Targets THEN smSetting[s] ELSE smShown[s]]
          /\ smClient' = [s \in SmStats |-> IF s \in Targets /\ (s \in stated \/ announced \/ smShown[s] # smSetting[s]) THEN smSetting[s]
                                            ELSE IF s \in stated THEN SmReal ELSE smClient[s]]
          /\ smMissed' = IF announced THEN {} ELSE smMissed \cup (stated \ Targets)
      BY <1>1, <2>3 DEF StandIn, Written, Carried
    <3>2. smShown' \in [SmStats -> SmAliases \cup {SmNone}] /\ smClient' \in [SmStats -> Names] /\ smMissed' \subseteq SmStats
      BY <1>0, <3>1
    <3>3. ASSUME ~announced, NEW s \in SmStats \ smMissed'
          PROVE  /\ smShown'[s] # SmNone => smClient'[s] = smShown'[s]
                 /\ s \in Targets => smClient'[s] = smSetting[s]
      <4>1. s \in SmStats /\ s \notin smMissed /\ (s \notin Targets => s \notin stated)  BY <3>1, <3>3
      <4>2. smShown[s] # SmNone => smClient[s] = smShown[s]
        BY <4>1 DEF StreamerInv, StreamerTypeOK
      <4>3. smSetting[s] # SmNone  BY <1>0, <4>1, StreamerAssumption
      <4>4. s \in Targets => smShown'[s] = smSetting[s] /\ smClient'[s] = smSetting[s]
        BY <3>1, <3>3, <4>1, <4>2, <4>3
      <4>5. s \notin Targets => smShown'[s] = smShown[s] /\ smClient'[s] = smClient[s]
        BY <3>1, <3>3, <4>1
      <4>. QED  BY <4>2, <4>4, <4>5
    <3>4. announced => \A s \in SmStats : smShown'[s] = SmNone  BY <3>1
    <3>5. StandInShown'
      <4>. SUFFICES ASSUME smTold', NEW s \in Targets \ smMissed' PROVE smClient'[s] = smSetting'[s]
        BY <2>2 DEF StandInShown
      <4>1. ~announced /\ s \in SmStats \ smMissed'  BY <2>1 DEF Targets
      <4>. QED  BY <2>1, <3>3, <4>1
    <3>6. StreamerTypeOK'
      <4>1. ~announced => \A s \in SmStats \ smMissed' : smShown'[s] # SmNone => smClient'[s] = smShown'[s]  BY <3>3
      <4>. QED  BY <1>0, <2>1, <3>2, <4>1 DEF StreamerTypeOK
    <3>. QED  BY <2>1, <3>2, <3>4, <3>5, <3>6 DEF StreamerInv
  <2>4. CASE ~smOn
    <3>1. /\ smClient' = [s \in SmStats |-> IF s \in stated THEN SmReal ELSE smClient[s]]
          /\ smMissed' = smMissed \cup stated /\ smShown' = smShown
      BY <1>1, <2>4 DEF StandIn
    <3>2. smClient' \in [SmStats -> Names] /\ smMissed' \subseteq SmStats  BY <1>0, <3>1
    <3>3. \A s \in SmStats \ smMissed' : smShown'[s] # SmNone => smClient'[s] = smShown'[s]
      <4>. SUFFICES ASSUME NEW s \in SmStats \ smMissed', smShown[s] # SmNone PROVE smClient'[s] = smShown[s]  BY <3>1
      <4>1. s \in SmStats /\ s \notin smMissed /\ s \notin stated  BY <3>1
      <4>2. smClient[s] = smShown[s]  BY <4>1 DEF StreamerInv, StreamerTypeOK
      <4>. QED  BY <3>1, <4>1, <4>2
    <3>4. announced => smMissed' = SmStats  BY <1>0, <2>1, <3>1
    <3>. QED  BY <1>0, <2>1, <2>4, <3>1, <3>2, <3>3, <3>4 DEF StreamerInv, StreamerTypeOK, StandInShown
  <2>. QED  BY <2>3, <2>4 DEF StreamerInv
<1>2. CASE Seeded
  <2>1. smClient' \in [SmStats -> Names]  BY <1>0, <1>2 DEF Seeded
  <2>. QED  BY <1>0, <1>2, <2>1 DEF Seeded, StreamerInv, StreamerTypeOK, StandInShown
<1>3. CASE SmToggle  BY <1>3 DEF SmToggle, StreamerInv, StreamerTypeOK, StandInShown
<1>4. CASE SmSession  BY <1>4 DEF SmSession, StreamerInv, StreamerTypeOK, StandInShown, Untold
<1>5. ASSUME NEW s \in SmStats, NEW a \in SmAliases, SmSet(s, a) PROVE StreamerInv'
  <2>1. smSetting' \in [SmStats -> SmAliases]  BY <1>0, <1>5 DEF SmSet
  <2>. QED  BY <1>5, <2>1 DEF SmSet, StreamerInv, StreamerTypeOK, StandInShown
<1>6. CASE smVars' = smVars  BY <1>6 DEF smVars, StreamerInv, StreamerTypeOK, StandInShown, Targets
<1>. QED  BY <1>1, <1>2, <1>3, <1>4, <1>5, <1>6 DEF StreamerNext
------------------------------------------------------------------------------
(* Anti-lag: what it keeps from the client, and what it knows of whom.         *)

AlObjects == {AlNone} \cup [kind : AlKinds, size : Nat \ {0}]
AlEntities == [hidden : SUBSET AlIds, injected : SUBSET AlIds, kinds : [AlIds -> AlKinds \cup {AlNone}]]

\* What is known of an object is true of it.
KnownRightly(i, kinds) == kinds[i] # AlNone => alWorld[i] # AlNone /\ kinds[i] = alWorld[i].kind

\* While nothing of the map went by unhandled, who the client does not hold is hidden,
\* only players are hidden, and what is known of anyone is true; of whom a status was handled
\* under these settings it is true whatever went by of others. The player's own object is
\* never taken for another's.
AntiLagInv ==
  /\ AntiLagTypeOK /\ SizesFollow /\ NeverAStranger /\ TelegraphsPass
  /\ alOn \in BOOLEAN /\ alStale \in BOOLEAN /\ alYard \in BOOLEAN /\ alSlept \in BOOLEAN /\ alMode \in AlModes
  /\ alStray \in BOOLEAN /\ alAte \in BOOLEAN
  /\ alWorld \in [AlIds -> AlObjects] /\ alFresh \subseteq AlIds /\ alFroze \subseteq alHidden
  /\ alKindOf[AlSelf] \in {AlNone, "self"} /\ AlSelf \notin alHidden
  /\ alWorld[AlSelf] # AlNone => alWorld[AlSelf].kind = "self"
  /\ alStale => alFresh = {}
  /\ \A i \in alFresh : alWorld[i] # AlNone /\ KnownRightly(i, alKindOf)
  /\ ~alSlept => /\ \A i \in AlIds : alWorld[i] # AlNone /\ alClient[i] = AlNone => i \in alHidden
                 /\ \A i \in AlIds : KnownRightly(i, alKindOf)
                 /\ \A i \in alHidden : alWorld[i] # AlNone /\ alWorld[i].kind = "player"
                 /\ \A i \in alInjected : alWorld[i] # AlNone /\ (alStale \/ i \in alFresh)

LEMMA AntiLagStarts == AntiLagInit => AntiLagInv
BY AntiLagAssumption DEF AntiLagInit, AntiLagInv, AntiLagTypeOK, SizesFollow, NeverAStranger, TelegraphsPass, AlModes, AlObjects, AlUnseen, KnownRightly

\* What a player's size becomes.
LEMMA TargetSizeIs ==
  ASSUME NEW mode \in AlModes, NEW kind, NEW size \in Nat \ {0}
  PROVE  /\ TargetSize(mode, kind, size) \in Nat
         /\ kind # "player" => TargetSize(mode, kind, size) = size
         /\ kind = "player" /\ mode \in {"half", "invisible"} => TargetSize(mode, kind, size) # size
<1>1. AlPercent(mode) \in {0, 50, 100} /\ (mode \in {"half", "invisible"} => AlPercent(mode) \in {0, 50})
  BY DEF AlPercent, AlModes
<1>2. \A p \in {0, 50, 100} : (size * p) \div 100 \in Nat /\ (p # 100 => (size * p) \div 100 # size)  OBVIOUS
<1>. QED  BY <1>1, <1>2 DEF TargetSize

\* What becomes of a status, of object i.
LEMMA EntryRewritten ==
  ASSUME NEW st \in AlEntities, NEW mode \in AlModes, NEW world \in [AlIds -> AlObjects], NEW i \in AlIds,
         NEW sent \in AlSizes \cup {AlNone}, NEW announcing \in BOOLEAN, NEW done,
         done = RewriteEntry(st, mode, world, i, sent, announcing),
         NEW kind, kind = AlKind(st, world, i), kind # AlNone
  PROVE  /\ done.to \in Nat \cup {AlNone, AlRemoved} /\ done.st \in AlEntities
         /\ \A j \in AlIds \ {i} : /\ j \in done.st.hidden <=> j \in st.hidden
                                   /\ j \in done.st.injected <=> j \in st.injected
                                   /\ done.st.kinds[j] = st.kinds[j]
         /\ done.to = AlRemoved <=> i \in done.st.hidden
         /\ done.st.kinds[i] \in {st.kinds[i], kind}
         /\ ~announcing /\ i \in st.hidden => done.to = AlRemoved
         /\ announcing \/ i \notin st.hidden =>
              /\ done.to = AlRemoved => kind = "player" /\ mode = "remove"
              /\ kind # "player" => done.to = sent
              /\ kind = "player" /\ mode \in {"half", "invisible"} =>
                   done.to = IF sent # AlNone THEN TargetSize(mode, kind, sent)
                             ELSE IF i \in st.injected THEN AlNone ELSE TargetSize(mode, kind, AlDefault)
<1>. DEFINE known == [st EXCEPT !.kinds[i] = kind]
            server == IF sent = AlNone THEN AlDefault ELSE sent
            wanted == TargetSize(mode, kind, server)
            hides == [known EXCEPT !.hidden = @ \cup {i}]
            injects == [known EXCEPT !.injected = @ \cup {i}]
            re == Rewrite(st, mode, world, i, sent)
<1>1. st.hidden \subseteq AlIds /\ st.injected \subseteq AlIds /\ st.kinds \in [AlIds -> AlKinds \cup {AlNone}]
      /\ st = [hidden |-> st.hidden, injected |-> st.injected, kinds |-> st.kinds]
  BY DEF AlEntities
<1>2. kind \in AlKinds  BY <1>1 DEF AlKind, AlObjects
<1>3. server \in Nat \ {0} /\ wanted \in Nat /\ (kind # "player" => wanted = server)
      /\ (kind = "player" /\ mode \in {"half", "invisible"} => wanted # server)
  BY AntiLagAssumption, TargetSizeIs
<1>4. sent \in Nat \cup {AlNone}  BY AntiLagAssumption
<1>5. /\ known \in AlEntities /\ hides \in AlEntities /\ injects \in AlEntities
      /\ known.hidden = st.hidden /\ known.injected = st.injected /\ known.kinds = [st.kinds EXCEPT ![i] = kind]
      /\ hides.hidden = st.hidden \cup {i} /\ hides.injected = st.injected /\ hides.kinds = known.kinds
      /\ injects.hidden = st.hidden /\ injects.injected = st.injected \cup {i} /\ injects.kinds = known.kinds
  BY <1>1, <1>2 DEF AlEntities
<1>6. known.kinds[i] = kind /\ \A j \in AlIds \ {i} : known.kinds[j] = st.kinds[j]  BY <1>1, <1>5
<1>7. re = IF kind = "player" /\ mode = "remove" THEN [to |-> AlRemoved, st |-> hides]
           ELSE IF wanted = server THEN [to |-> sent, st |-> known]
           ELSE IF sent # AlNone THEN [to |-> wanted, st |-> known]
           ELSE IF i \in st.injected THEN [to |-> AlNone, st |-> known]
           ELSE [to |-> wanted, st |-> injects]
  BY <1>5 DEF Rewrite
<1>8. done = IF ~announcing /\ i \in st.hidden THEN [to |-> AlRemoved, st |-> st]
             ELSE IF announcing /\ re.to # AlRemoved THEN [re EXCEPT !.st.hidden = @ \ {i}] ELSE re
  BY DEF RewriteEntry
<1>. HIDE DEF known, server, wanted, hides, injects, re
<1>9. /\ re.to \in Nat \cup {AlNone, AlRemoved} /\ re.st \in {known, hides, injects} /\ re = [to |-> re.to, st |-> re.st]
      /\ re.to = AlRemoved <=> re.st = hides /\ kind = "player" /\ mode = "remove"
      /\ re.to # AlRemoved => re.st \in {known, injects}
      /\ kind # "player" => re.to = sent
      /\ kind = "player" /\ mode \in {"half", "invisible"} =>
           re.to = IF sent # AlNone THEN wanted ELSE IF i \in st.injected THEN AlNone ELSE wanted
  <2>1. AlRemoved \notin Nat /\ AlRemoved # AlNone  BY AntiLagAssumption
  <2>2. mode = "remove" => mode \notin {"half", "invisible"}  OBVIOUS
  <2>3. CASE kind = "player" /\ mode = "remove"  BY <1>7, <2>1, <2>2, <2>3
  <2>4. CASE ~(kind = "player" /\ mode = "remove") /\ wanted = server  BY <1>3, <1>4, <1>7, <2>1, <2>4
  <2>5. CASE ~(kind = "player" /\ mode = "remove") /\ wanted # server  BY <1>3, <1>4, <1>7, <2>1, <2>5
  <2>. QED  BY <2>3, <2>4, <2>5
<1>14. /\ re.st \in AlEntities /\ re.st.kinds = known.kinds
       /\ re.st.hidden = IF re.to = AlRemoved THEN st.hidden \cup {i} ELSE st.hidden
       /\ \A j \in AlIds \ {i} : j \in re.st.injected <=> j \in st.injected
  <2>1. CASE re.to = AlRemoved
    <3>1. re.st = hides  BY <1>9, <2>1
    <3>. QED  BY <1>5, <2>1, <3>1
  <2>2. CASE re.to # AlRemoved
    <3>1. re.st = known \/ re.st = injects  BY <1>9, <2>2
    <3>. QED  BY <1>5, <2>2, <3>1
  <2>. QED  BY <2>1, <2>2
<1>10. server = (IF sent # AlNone THEN sent ELSE AlDefault) /\ wanted = TargetSize(mode, kind, server)  BY DEF server, wanted
<1>11. CASE ~announcing /\ i \in st.hidden  BY <1>1, <1>8, <1>11
<1>15. kind = "player" /\ mode \in {"half", "invisible"} =>
         re.to = IF sent # AlNone THEN TargetSize(mode, kind, sent)
                 ELSE IF i \in st.injected THEN AlNone ELSE TargetSize(mode, kind, AlDefault)
  BY <1>9, <1>10
<1>16. re.to = AlRemoved => kind = "player" /\ mode = "remove"  BY <1>9
<1>. HIDE DEF server
<1>12. CASE announcing /\ re.to # AlRemoved
  <2>1. done = [to |-> re.to, st |-> [re.st EXCEPT !.hidden = @ \ {i}]]  BY <1>8, <1>9, <1>12
  <2>2. done.to = re.to /\ done.st = [re.st EXCEPT !.hidden = @ \ {i}]  BY <2>1
  <2>3. done.st \in AlEntities /\ done.st.hidden = re.st.hidden \ {i} /\ done.st.injected = re.st.injected /\ done.st.kinds = re.st.kinds
    BY <1>14, <2>2 DEF AlEntities
  <2>4. \A j \in AlIds \ {i} : /\ j \in done.st.hidden <=> j \in st.hidden
                               /\ j \in done.st.injected <=> j \in st.injected
                               /\ done.st.kinds[j] = st.kinds[j]
    BY <1>6, <1>12, <1>14, <2>3
  <2>5. done.st.kinds[i] = kind /\ i \notin done.st.hidden /\ done.to # AlRemoved /\ done.to \in Nat \cup {AlNone, AlRemoved}
    BY <1>6, <1>9, <1>12, <1>14, <2>2, <2>3
  <2>6. done.to = re.to  BY <2>2
  <2>. QED  BY <1>9, <1>12, <1>15, <2>3, <2>4, <2>5, <2>6
<1>13. CASE ~(~announcing /\ i \in st.hidden) /\ ~(announcing /\ re.to # AlRemoved)
  <2>1. done = re  BY <1>8, <1>13
  <2>2. \A j \in AlIds \ {i} : /\ j \in done.st.hidden <=> j \in st.hidden
                               /\ j \in done.st.injected <=> j \in st.injected
                               /\ done.st.kinds[j] = st.kinds[j]
    BY <1>6, <1>14, <2>1
  <2>3. done.to = AlRemoved <=> i \in done.st.hidden  BY <1>13, <1>14, <2>1
  <2>4. done.st.kinds[i] = kind /\ done.st \in AlEntities  BY <1>6, <1>14, <2>1
  <2>. QED  BY <1>9, <1>13, <1>15, <1>16, <2>1, <2>2, <2>3, <2>4
<1>. QED  BY <1>11, <1>12, <1>13

LEMMA InvisibleIsNothing == ASSUME NEW size \in Nat PROVE TargetSize("invisible", "player", size) = 0
<1>1. AlPercent("invisible") = 0  BY DEF AlPercent
<1>2. (size * 0) \div 100 = 0  OBVIOUS
<1>. QED  BY <1>1, <1>2 DEF TargetSize

\* A status, handled or not, of an object whose entry in the world is up to date.
LEMMA AntiLagStatus ==
  ASSUME AntiLagInv, NEW i \in AlIds, NEW sent \in AlSizes \cup {AlNone}, NEW announcing \in BOOLEAN,
         AlStatus(i, sent, announcing, alWorld'), UNCHANGED <<alOn, alMode, alAte>>,
         alWorld' \in [AlIds -> AlObjects], \A j \in AlIds \ {i} : alWorld'[j] = alWorld[j],
         alWorld'[i] # AlNone, i = AlSelf => alWorld'[i].kind = "self",
         announcing <=> alWorld[i] = AlNone, ~announcing => alWorld'[i].kind = alWorld[i].kind,
         alWorld'[i].size = IF sent # AlNone THEN sent ELSE IF announcing THEN AlDefault ELSE alWorld[i].size
  PROVE  AntiLagInv'
<1>1. /\ alHidden \subseteq AlIds /\ alInjected \subseteq AlIds /\ alKindOf \in [AlIds -> AlKinds \cup {AlNone}]
      /\ alClient \in [AlIds -> Nat \cup {AlNone}] /\ alWorld \in [AlIds -> AlObjects] /\ AlSelf \in AlIds
      /\ AlNone \notin Nat /\ AlRemoved \notin Nat /\ AlRemoved # AlNone /\ AlDefault \in Nat /\ AlNone \notin AlKinds
      /\ sent \in Nat \cup {AlNone} /\ sent # AlRemoved
  BY AntiLagAssumption DEF AntiLagInv, AntiLagTypeOK
<1>. DEFINE size == alWorld'[i].size
            what == alWorld'[i].kind
<1>2. alWorld'[i] \in [kind : AlKinds, size : Nat \ {0}] /\ size \in Nat \ {0} /\ what \in AlKinds
  BY DEF AlObjects
<1>. HIDE DEF size, what
<1>3. ASSUME NEW to \in Nat \cup {AlNone, AlRemoved}, alClient' = AlHeld(i, to, announcing)
      PROVE  /\ alClient' \in [AlIds -> Nat \cup {AlNone}]
             /\ \A j \in AlIds \ {i} : alClient'[j] = alClient[j]
             /\ alClient'[i] = IF to = AlRemoved THEN IF announcing THEN AlNone ELSE alClient[i]
                               ELSE IF announcing THEN IF to = AlNone THEN AlDefault ELSE to
                               ELSE IF to = AlNone \/ alClient[i] = AlNone THEN alClient[i] ELSE to
  BY <1>1, <1>3 DEF AlHeld
<1>4. alClient[AlSelf] # AlNone \/ alWorld[AlSelf] = AlNone
  <2>. SUFFICES ASSUME alWorld[AlSelf] # AlNone PROVE alClient[AlSelf] # AlNone  OBVIOUS
  <2>1. alWorld[AlSelf].size \in Nat /\ alClient[AlSelf] = alWorld[AlSelf].size
    BY <1>1 DEF AlObjects, AntiLagInv, AntiLagTypeOK
  <2>. QED  BY <1>1, <2>1
<1>5. CASE ~alOn
  <2>1. alClient' = AlHeld(i, sent, announcing) /\ alSlept' = TRUE /\ alFresh' = alFresh \ {i}
        /\ UNCHANGED <<alSession, alFroze, alStray>>
    BY <1>5 DEF AlStatus
  <2>2. /\ alClient' \in [AlIds -> Nat \cup {AlNone}]
        /\ \A j \in AlIds \ {i} : alClient'[j] = alClient[j]
        /\ i = AlSelf => alClient'[i] = size
    <3>1. i = AlSelf /\ ~announcing /\ sent = AlNone => alClient[i] = alWorld[i].size
      BY DEF AntiLagInv, AntiLagTypeOK
    <3>. QED  BY <1>1, <1>3, <1>4, <2>1, <3>1 DEF size
  <2>3. AntiLagTypeOK'
    <3>1. alWorld'[AlSelf] # AlNone => alClient'[AlSelf] = alWorld'[AlSelf].size
      BY <1>1, <2>2 DEF AntiLagInv, AntiLagTypeOK, size
    <3>. QED  BY <2>1, <2>2, <3>1 DEF AntiLagInv, AntiLagTypeOK, alSession
  <2>4. SizesFollow'
    <3>1. \A j \in alFresh' : j \in alFresh /\ j \in AlIds \ {i}  BY <2>1 DEF AntiLagInv
    <3>. QED  BY <2>1, <2>2, <3>1 DEF AntiLagInv, SizesFollow, alSession
  <2>5. alWorld'[AlSelf] # AlNone => alWorld'[AlSelf].kind = "self"
    BY <1>1 DEF AntiLagInv
  <2>6. \A j \in alFresh' : alWorld'[j] # AlNone /\ KnownRightly(j, alKindOf)'
    BY <2>1 DEF AntiLagInv, KnownRightly, alSession
  <2>. QED  BY <2>1, <2>3, <2>4, <2>5, <2>6 DEF AntiLagInv, alSession, NeverAStranger, TelegraphsPass
<1>6. CASE alOn
  <2>. DEFINE st == AlSynced
              mode == AlPolicy(alYard)
              kind == AlKind(st, alWorld', i)
              done == IF Walks(st, mode) THEN RewriteEntry(st, mode, alWorld', i, sent, announcing) ELSE [to |-> sent, st |-> st]
  <2>1. /\ AlSets(done.st) /\ alStale' = FALSE
        /\ alClient' = AlHeld(i, done.to, announcing)
        /\ alStray' = (alStray \/ (~alSlept /\ ~announcing /\ done.to # AlRemoved /\ alClient[i] = AlNone))
        /\ alFroze' = IF done.to = AlRemoved /\ alClient'[i] # AlNone THEN alFroze \cup {i} ELSE alFroze \ {i}
        /\ alFresh' = IF Walks(st, mode) /\ ~alSlept THEN alFresh \cup {i} ELSE alFresh
        /\ UNCHANGED <<alSlept, alYard>>
    BY <1>6 DEF AlStatus
  <2>2. /\ st \in AlEntities /\ st.hidden = alHidden /\ st.injected = (IF alStale THEN {} ELSE alInjected)
        /\ \A j \in AlIds : st.kinds[j] \in {AlNone, alKindOf[j]}
    BY <1>1 DEF AlEntities, AlSynced, AlState, AlUnseen
  <2>3. mode \in AlModes /\ (~alYard => mode = alMode)  BY DEF AntiLagInv, AlPolicy, AlModes
  <2>4. kind \in AlKinds /\ kind # AlNone /\ (kind = st.kinds[i] \/ kind = what)
    BY <1>1, <1>2, <2>2 DEF AlKind, AlEntities, what
  <2>. HIDE DEF st, mode, kind
  <2>5. /\ done.to \in Nat \cup {AlNone, AlRemoved} /\ done.st \in AlEntities
        /\ \A j \in AlIds \ {i} : /\ j \in done.st.hidden <=> j \in st.hidden
                                  /\ j \in done.st.injected <=> j \in st.injected
                                  /\ done.st.kinds[j] = st.kinds[j]
        /\ done.to = AlRemoved <=> i \in done.st.hidden
        /\ done.st.kinds[i] \in {st.kinds[i], kind}
        /\ ~announcing /\ i \in st.hidden => done.to = AlRemoved
        /\ announcing \/ i \notin st.hidden =>
             /\ done.to = AlRemoved => kind = "player" /\ mode = "remove"
             /\ kind # "player" => done.to = sent
             /\ kind = "player" /\ mode \in {"half", "invisible"} =>
                  done.to = IF sent # AlNone THEN TargetSize(mode, kind, sent)
                            ELSE IF i \in st.injected THEN AlNone ELSE TargetSize(mode, kind, AlDefault)
        /\ ~Walks(st, mode) => done.st = st
    <3>1. CASE Walks(st, mode)
      <4>1. done = RewriteEntry(st, mode, alWorld', i, sent, announcing)  BY <3>1
      <4>. HIDE DEF done
      <4>2. kind = AlKind(st, alWorld', i)  BY DEF kind
      <4>. QED  BY <2>2, <2>3, <2>4, <3>1, <4>1, <4>2, EntryRewritten
    <3>2. CASE ~Walks(st, mode)
      <4>1. done.to = sent /\ done.st = st /\ st.hidden = {} /\ mode = "off"  BY <3>2 DEF Walks
      <4>. HIDE DEF done
      <4>. QED  BY <1>1, <2>2, <4>1
    <3>. QED  BY <3>1, <3>2
  <2>. DEFINE to == done.to
  <2>6. /\ alHidden' = done.st.hidden /\ alInjected' = done.st.injected /\ alKindOf' = done.st.kinds
        /\ alHidden' \subseteq AlIds /\ alInjected' \subseteq AlIds /\ alKindOf' \in [AlIds -> AlKinds \cup {AlNone}]
    BY <2>1, <2>5 DEF AlSets, AlEntities
  <2>. HIDE DEF done
  <2>7. /\ alClient' \in [AlIds -> Nat \cup {AlNone}]
        /\ \A j \in AlIds \ {i} : alClient'[j] = alClient[j]
        /\ alClient'[i] = IF to = AlRemoved THEN IF announcing THEN AlNone ELSE alClient[i]
                          ELSE IF announcing THEN IF to = AlNone THEN AlDefault ELSE to
                          ELSE IF to = AlNone \/ alClient[i] = AlNone THEN alClient[i] ELSE to
    BY <1>3, <2>1, <2>5
  \* What was known of the object is true, so that it is taken for what it is.
  <2>8. ASSUME ~alSlept \/ i \in alFresh \/ i = AlSelf
        PROVE  kind = what /\ (st.kinds[i] # AlNone => st.kinds[i] = what) /\ (i \in alFresh => ~announcing)
    <3>1. st.kinds[i] # AlNone => st.kinds[i] = what
      <4>. SUFFICES ASSUME st.kinds[i] # AlNone PROVE st.kinds[i] = what  OBVIOUS
      <4>1. alKindOf[i] = st.kinds[i]  BY <2>2, <2>8
      <4>2. i = AlSelf => st.kinds[i] = what  BY <4>1 DEF AntiLagInv, what
      <4>3. ~alSlept \/ i \in alFresh => alWorld[i] # AlNone /\ alKindOf[i] = alWorld[i].kind
        BY <4>1 DEF AntiLagInv, KnownRightly
      <4>. QED  BY <2>8, <4>1, <4>2, <4>3 DEF what
    <3>2. i \in alFresh => ~announcing  BY DEF AntiLagInv
    <3>. QED  BY <2>4, <3>1, <3>2
  <2>9. alFresh' = alFresh \/ (~alSlept /\ alFresh' = alFresh \cup {i})  BY <2>1
  <2>10. i = AlSelf => to = sent /\ AlSelf \notin alHidden'
    <3>1. ASSUME i = AlSelf PROVE i \notin st.hidden /\ kind = "self"  BY <2>2, <2>8, <3>1 DEF AntiLagInv, what
    <3>. QED  BY <1>1, <2>5, <2>6, <3>1
  <2>11. AlSelf \notin alHidden' /\ alKindOf'[AlSelf] \in {AlNone, "self"}
    <3>1. i # AlSelf => AlSelf \notin alHidden'  BY <1>1, <2>2, <2>5, <2>6 DEF AntiLagInv
    <3>2. i # AlSelf => alKindOf'[AlSelf] \in {AlNone, "self"}
      BY <1>1, <2>2, <2>5, <2>6 DEF AntiLagInv
    <3>3. i = AlSelf => alKindOf'[AlSelf] \in {AlNone, "self"}
      BY <1>1, <2>4, <2>5, <2>6, <2>8 DEF what
    <3>. QED  BY <2>10, <3>1, <3>2, <3>3
  <2>12. alWorld'[AlSelf] # AlNone => alClient'[AlSelf] = alWorld'[AlSelf].size /\ alWorld'[AlSelf].kind = "self"
    <3>1. i = AlSelf /\ ~announcing /\ sent = AlNone => alClient[i] = alWorld[i].size
      BY DEF AntiLagInv, AntiLagTypeOK
    <3>2. i = AlSelf => alClient'[i] = size  BY <1>1, <1>4, <2>7, <2>10, <3>1 DEF size
    <3>3. i # AlSelf => alClient'[AlSelf] = alClient[AlSelf] /\ alWorld'[AlSelf] = alWorld[AlSelf]  BY <1>1, <2>7
    <3>. QED  BY <3>2, <3>3 DEF AntiLagInv, AntiLagTypeOK, size
  <2>13. AntiLagTypeOK'  BY <2>6, <2>7, <2>12 DEF AntiLagTypeOK
  <2>14. alFroze' \subseteq alHidden'
    <3>1. alFroze \subseteq alHidden  BY DEF AntiLagInv
    <3>2. i \in alFroze' => i \in alHidden'  BY <2>1, <2>5, <2>6
    <3>3. \A j \in alFroze' \ {i} : j \in alHidden'  BY <1>1, <2>1, <2>2, <2>5, <2>6, <3>1
    <3>. QED  BY <3>2, <3>3
  <2>15. ASSUME ~alSlept \/ i \in alFresh PROVE KnownRightly(i, alKindOf)'
    BY <2>5, <2>6, <2>8, <2>15 DEF KnownRightly, what
  <2>16. ASSUME NEW j \in AlIds \ {i}, KnownRightly(j, alKindOf) PROVE KnownRightly(j, alKindOf)'
    BY <2>2, <2>5, <2>6, <2>16 DEF KnownRightly
  <2>17. \A j \in alFresh' : alWorld'[j] # AlNone /\ KnownRightly(j, alKindOf)'
    <3>. SUFFICES ASSUME NEW j \in alFresh' PROVE alWorld'[j] # AlNone /\ KnownRightly(j, alKindOf)'  OBVIOUS
    <3>1. CASE j = i  BY <2>9, <2>15, <3>1
    <3>2. CASE j # i
      <4>1. j \in alFresh /\ j \in AlIds \ {i}  BY <2>9, <3>2 DEF AntiLagInv
      <4>. QED  BY <2>16, <4>1 DEF AntiLagInv
    <3>. QED  BY <3>1, <3>2
  <2>18. ASSUME ~alSlept
         PROVE  /\ \A j \in AlIds : alWorld'[j] # AlNone /\ alClient'[j] = AlNone => j \in alHidden'
                /\ \A j \in AlIds : KnownRightly(j, alKindOf)'
                /\ \A j \in alHidden' : alWorld'[j] # AlNone /\ alWorld'[j].kind = "player"
                /\ \A j \in alInjected' : alWorld'[j] # AlNone /\ j \in alFresh'
    <3>1. ASSUME alClient'[i] = AlNone PROVE i \in alHidden'
      <4>1. ~announcing /\ alClient[i] = AlNone => i \in st.hidden  BY <2>2, <2>18 DEF AntiLagInv
      <4>. QED  BY <1>1, <2>5, <2>6, <2>7, <3>1, <4>1
    <3>2. \A j \in AlIds \ {i} : alWorld'[j] # AlNone /\ alClient'[j] = AlNone => j \in alHidden'
      BY <2>2, <2>5, <2>6, <2>7, <2>18 DEF AntiLagInv
    <3>3. \A j \in AlIds : KnownRightly(j, alKindOf)'  BY <2>15, <2>16, <2>18 DEF AntiLagInv
    <3>4. i \in alHidden' => what = "player"
      <4>1. ~announcing /\ i \in alHidden => what = "player"  BY <2>18 DEF AntiLagInv, what
      <4>. QED  BY <2>2, <2>5, <2>6, <2>8, <2>18, <4>1
    <3>5. \A j \in alHidden' \ {i} : alWorld'[j] # AlNone /\ alWorld'[j].kind = "player"
      BY <2>2, <2>5, <2>6, <2>18 DEF AntiLagInv
    <3>6. i \in alInjected' => i \in alFresh'
      <4>1. CASE Walks(st, mode)  BY <2>1, <2>18, <4>1
      <4>2. CASE ~Walks(st, mode)
        <5>1. alInjected' = st.injected  BY <2>5, <2>6, <4>2
        <5>. QED  BY <2>2, <2>9, <2>18, <5>1 DEF AntiLagInv
      <4>. QED  BY <4>1, <4>2
    <3>7. \A j \in alInjected' \ {i} : alWorld'[j] # AlNone /\ j \in alFresh'
      <4>. SUFFICES ASSUME NEW j \in alInjected' \ {i} PROVE alWorld'[j] # AlNone /\ j \in alFresh'  OBVIOUS
      <4>1. j \in AlIds \ {i} /\ j \in alInjected /\ ~alStale  BY <2>2, <2>5, <2>6
      <4>. QED  BY <2>9, <2>18, <4>1 DEF AntiLagInv
    <3>. QED  BY <3>1, <3>2, <3>3, <3>4, <3>5, <3>6, <3>7 DEF what
  <2>19. alStray' = FALSE
    <3>1. ~alSlept /\ ~announcing /\ alClient[i] = AlNone => i \in st.hidden  BY <2>2 DEF AntiLagInv
    <3>2. alStray = FALSE  BY DEF AntiLagInv, NeverAStranger
    <3>. QED  BY <2>1, <2>5, <3>1, <3>2
  <2>20. SizesFollow'
    <3>. SUFFICES ASSUME NEW j \in alFresh', alWorld'[j] # AlNone, alWorld'[j].kind = "player", alClient'[j] # AlNone, ~alYard', j \notin alFroze',
                         alMode' \in {"invisible", "half"}, alMode' = "half" => alWorld'[j].size = AlDefault
                  PROVE  alClient'[j] = TargetSize(alMode', "player", alWorld'[j].size)
      BY DEF SizesFollow
    <3>1. alMode' = alMode /\ mode = alMode /\ ~alYard  BY <2>1, <2>3
    <3>2. CASE j # i
      <4>1. j \in alFresh /\ j \in AlIds \ {i} /\ ~alStale  BY <2>9, <3>2 DEF AntiLagInv
      <4>2. j \notin alFroze  BY <2>1, <3>2
      <4>3. alWorld'[j] = alWorld[j] /\ alClient'[j] = alClient[j]  BY <2>7, <4>1
      <4>. QED  BY <3>1, <4>1, <4>2, <4>3 DEF AntiLagInv, SizesFollow
    <3>3. CASE j = i
      <4>1. kind = "player"  BY <2>8, <2>9, <3>3 DEF what
      <4>2. to # AlRemoved  BY <2>1, <2>7, <3>3
      <4>3. announcing \/ i \notin st.hidden  BY <2>5, <4>2
      <4>4. to = IF sent # AlNone THEN TargetSize(alMode, "player", sent)
                 ELSE IF i \in st.injected THEN AlNone ELSE TargetSize(alMode, "player", AlDefault)
        BY <2>5, <3>1, <4>1, <4>3
      <4>5. TargetSize(alMode, "player", AlDefault) \in Nat /\ (sent # AlNone => TargetSize(alMode, "player", sent) \in Nat)
        BY <2>3, <3>1, AntiLagAssumption, TargetSizeIs
      <4>6. CASE sent # AlNone
        <5>1. to \in Nat /\ to = TargetSize(alMode, "player", sent) /\ alWorld'[i].size = sent  BY <4>4, <4>5, <4>6
        <5>2. alClient'[i] = to  BY <1>1, <2>7, <3>3, <5>1
        <5>. QED  BY <3>1, <3>3, <5>1, <5>2
      <4>7. CASE sent = AlNone /\ i \notin st.injected
        <5>1. to \in Nat /\ to = TargetSize(alMode, "player", AlDefault)  BY <4>4, <4>5, <4>7
        <5>2. alClient'[i] = to  BY <1>1, <2>7, <3>3, <5>1
        <5>3. CASE alMode = "half"  BY <3>1, <3>3, <5>1, <5>2, <5>3
        <5>4. CASE alMode = "invisible"
          <6>1. TargetSize(alMode, "player", AlDefault) = 0  BY <1>1, <5>4, InvisibleIsNothing
          <6>2. TargetSize(alMode, "player", size) = 0  BY <1>2, <5>4, InvisibleIsNothing
          <6>. QED  BY <3>1, <3>3, <5>1, <5>2, <6>1, <6>2 DEF size
        <5>. QED  BY <3>1, <5>3, <5>4
      <4>8. CASE sent = AlNone /\ i \in st.injected
        <5>1. i \in alInjected /\ ~alStale  BY <2>2, <4>8
        <5>2. i \in alFresh  BY <2>9, <3>3, <5>1 DEF AntiLagInv
        <5>3. ~announcing /\ i \notin alHidden  BY <2>2, <2>8, <4>3, <5>2
        <5>4. i \notin alFroze  BY <5>3 DEF AntiLagInv
        <5>5. to = AlNone /\ alClient'[i] = alClient[i]  BY <2>7, <4>2, <4>4, <4>8, <5>3
        <5>6. alWorld'[i].size = alWorld[i].size /\ alWorld[i].kind = "player" /\ alWorld[i] # AlNone
          BY <3>3, <4>8, <5>3
        <5>7. alClient[i] = TargetSize(alMode, "player", alWorld[i].size)
          BY <3>1, <3>3, <5>1, <5>2, <5>4, <5>5, <5>6 DEF AntiLagInv, SizesFollow
        <5>. QED  BY <3>1, <3>3, <5>5, <5>6, <5>7
      <4>. QED  BY <4>6, <4>7, <4>8
    <3>. QED  BY <3>2, <3>3
  <2>21. alFresh' \subseteq AlIds  BY <2>9 DEF AntiLagInv
  <2>. QED
    BY <2>1, <2>11, <2>12, <2>13, <2>14, <2>17, <2>18, <2>19, <2>20, <2>21 DEF AntiLagInv, NeverAStranger, TelegraphsPass
<1>. QED  BY <1>5, <1>6

LEMMA AntiLagStep == ASSUME AntiLagInv, [AntiLagNext]_alVars PROVE AntiLagInv'
<1>0. /\ alHidden \subseteq AlIds /\ alInjected \subseteq AlIds /\ alKindOf \in [AlIds -> AlKinds \cup {AlNone}]
      /\ alClient \in [AlIds -> Nat \cup {AlNone}] /\ alWorld \in [AlIds -> AlObjects] /\ AlSelf \in AlIds
      /\ AlSizes \subseteq Nat \ {0} /\ AlDefault \in Nat \ {0} /\ AlNone \notin Nat /\ AlNone \notin AlKinds
  BY AntiLagAssumption DEF AntiLagInv, AntiLagTypeOK
<1>1. ASSUME NEW i \in AlIds, NEW k \in AlKinds, NEW s \in AlSizes \cup {AlNone}, Announce(i, k, s) PROVE AntiLagInv'
  <2>. DEFINE new == [kind |-> k, size |-> IF s = AlNone THEN AlDefault ELSE s]
  <2>1. /\ (i = AlSelf) = (k = "self") /\ alWorld[i] = AlNone /\ alWorld' = [alWorld EXCEPT ![i] = new]
        /\ AlStatus(i, s, TRUE, alWorld') /\ UNCHANGED <<alOn, alMode, alAte>>
    BY <1>1 DEF Announce
  <2>2. new \in [kind : AlKinds, size : Nat \ {0}] /\ new # AlNone
    BY <1>0, AntiLagAssumption
  <2>3. new.kind = k /\ new.size = IF s # AlNone THEN s ELSE AlDefault  OBVIOUS
  <2>. HIDE DEF new
  <2>4. /\ alWorld' \in [AlIds -> AlObjects] /\ alWorld'[i] = new
        /\ \A j \in AlIds \ {i} : alWorld'[j] = alWorld[j]
    BY <1>0, <2>1, <2>2 DEF AlObjects
  <2>. QED  BY <2>1, <2>2, <2>3, <2>4, AntiLagStatus
<1>2. ASSUME NEW i \in AlIds, NEW s \in AlSizes \cup {AlNone}, Ticks(i, s) PROVE AntiLagInv'
  <2>1. /\ alWorld[i] # AlNone /\ alWorld' = IF s = AlNone THEN alWorld ELSE [alWorld EXCEPT ![i].size = s]
        /\ AlStatus(i, s, FALSE, alWorld') /\ UNCHANGED <<alOn, alMode, alAte>>
    BY <1>2 DEF Ticks
  <2>2. alWorld[i] \in [kind : AlKinds, size : Nat \ {0}]  BY <1>0, <2>1 DEF AlObjects
  <2>. DEFINE new == IF s = AlNone THEN alWorld[i] ELSE [alWorld[i] EXCEPT !.size = s]
  <2>3. /\ new \in [kind : AlKinds, size : Nat \ {0}] /\ new.kind = alWorld[i].kind
        /\ new.size = IF s # AlNone THEN s ELSE alWorld[i].size
    BY <1>0, <2>2
  <2>4. new # AlNone  BY <2>3, AntiLagAssumption
  <2>5. /\ alWorld' \in [AlIds -> AlObjects] /\ alWorld'[i] = new
        /\ \A j \in AlIds \ {i} : alWorld'[j] = alWorld[j]
    <3>1. CASE s = AlNone  BY <1>0, <2>1, <3>1
    <3>2. CASE s # AlNone
      <4>1. alWorld' = [alWorld EXCEPT ![i] = new]  BY <2>1, <3>2
      <4>. HIDE DEF new
      <4>. QED  BY <1>0, <2>3, <4>1 DEF AlObjects
    <3>. QED  BY <3>1, <3>2
  <2>6. i = AlSelf => alWorld[i].kind = "self"  BY <2>1 DEF AntiLagInv
  <2>. HIDE DEF new
  <2>. QED  BY <2>1, <2>3, <2>4, <2>5, <2>6, AntiLagStatus
<1>3. ASSUME NEW i \in AlIds, Drop(i) PROVE AntiLagInv'
  <2>1. /\ alWorld[i] # AlNone /\ i # AlSelf
        /\ alWorld' = [alWorld EXCEPT ![i] = AlNone] /\ alClient' = [alClient EXCEPT ![i] = AlNone]
        /\ alFresh' = alFresh \ {i} /\ alFroze' = alFroze \ {i}
        /\ UNCHANGED <<alOn, alMode, alYard, alStray, alAte>>
    BY <1>3 DEF Drop
  <2>2. /\ alWorld' \in [AlIds -> AlObjects] /\ alWorld'[i] = AlNone /\ alClient' \in [AlIds -> Nat \cup {AlNone}]
        /\ \A j \in AlIds \ {i} : alWorld'[j] = alWorld[j] /\ alClient'[j] = alClient[j]
    BY <1>0, <2>1 DEF AlObjects
  <2>3. \/ /\ alSlept' = TRUE /\ alHidden' = alHidden /\ alInjected' = alInjected /\ alKindOf' = alKindOf /\ alStale' = alStale
        \/ /\ alSlept' = alSlept /\ alStale' = FALSE /\ alHidden' = alHidden \ {i}
           /\ alInjected' = (IF alStale THEN {} ELSE alInjected \ {i})
           /\ alKindOf' \in [AlIds -> AlKinds \cup {AlNone}] /\ alKindOf'[i] = AlNone
           /\ \A j \in AlIds : alKindOf'[j] \in {AlNone, alKindOf[j]}
    <3>1. CASE ~alOn  BY <1>3, <3>1 DEF Drop
    <3>2. CASE alOn
      <4>1. AlSets(AlForget(AlSynced, {i})) /\ alStale' = FALSE /\ alSlept' = alSlept  BY <1>3, <3>2 DEF Drop, AlDrops
      <4>2. /\ AlSynced.hidden = alHidden /\ AlSynced.injected = (IF alStale THEN {} ELSE alInjected)
            /\ \A j \in AlIds : AlSynced.kinds[j] \in {AlNone, alKindOf[j]}
        BY <1>0 DEF AlSynced, AlState, AlUnseen
      <4>3. /\ alHidden' = AlSynced.hidden \ {i} /\ alInjected' = AlSynced.injected \ {i}
            /\ alKindOf' = [j \in AlIds |-> IF j = i THEN AlNone ELSE AlSynced.kinds[j]]
        BY <4>1 DEF AlSets, AlForget
      <4>4. alKindOf' \in [AlIds -> AlKinds \cup {AlNone}] /\ alKindOf'[i] = AlNone
            /\ \A j \in AlIds : alKindOf'[j] \in {AlNone, alKindOf[j]}
        BY <1>0, <4>2, <4>3
      <4>. QED  BY <4>1, <4>2, <4>3, <4>4
    <3>. QED  BY <3>1, <3>2
  <2>4. alStale' => alStale  BY <2>3
  <2>5. AntiLagTypeOK'
    <3>1. alHidden' \subseteq AlIds /\ alInjected' \subseteq AlIds /\ alKindOf' \in [AlIds -> AlKinds \cup {AlNone}]
      BY <1>0, <2>3
    <3>. QED  BY <2>1, <2>2, <3>1, <1>0 DEF AntiLagInv, AntiLagTypeOK
  <2>6. SizesFollow'
    <3>. SUFFICES ASSUME NEW j \in alFresh', alWorld'[j] # AlNone, alWorld'[j].kind = "player", alClient'[j] # AlNone, ~alYard', j \notin alFroze',
                         ~alStale', alMode' \in {"invisible", "half"}, alMode' = "half" => alWorld'[j].size = AlDefault
                  PROVE  alClient'[j] = TargetSize(alMode', "player", alWorld'[j].size)
      BY DEF SizesFollow
    <3>1. j \in alFresh /\ j \in AlIds \ {i} /\ ~alStale /\ j \notin alFroze  BY <2>1 DEF AntiLagInv
    <3>. QED  BY <2>1, <2>2, <3>1 DEF AntiLagInv, SizesFollow
  <2>7. alFroze' \subseteq alHidden' /\ AlSelf \notin alHidden' /\ alKindOf'[AlSelf] \in {AlNone, "self"}
    <3>1. alFroze \subseteq alHidden /\ AlSelf \notin alHidden /\ alKindOf[AlSelf] \in {AlNone, "self"}  BY DEF AntiLagInv
    <3>. QED  BY <1>0, <2>1, <2>3, <3>1
  <2>8. ASSUME NEW j \in AlIds \ {i}, KnownRightly(j, alKindOf) PROVE KnownRightly(j, alKindOf)'
    BY <2>2, <2>3, <2>8 DEF KnownRightly
  <2>9. \A j \in alFresh' : alWorld'[j] # AlNone /\ KnownRightly(j, alKindOf)'
    BY <2>1, <2>2, <2>8 DEF AntiLagInv
  <2>10. ASSUME ~alSlept'
         PROVE  /\ ~alSlept /\ alKindOf'[i] = AlNone /\ i \notin alHidden'
                /\ \A j \in alInjected' : j \in alInjected /\ j # i /\ ~alStale
    BY <2>3, <2>10 DEF AntiLagInv
  <2>11. ASSUME ~alSlept'
         PROVE  /\ \A j \in AlIds : alWorld'[j] # AlNone /\ alClient'[j] = AlNone => j \in alHidden'
                /\ \A j \in AlIds : KnownRightly(j, alKindOf)'
                /\ \A j \in alHidden' : alWorld'[j] # AlNone /\ alWorld'[j].kind = "player"
                /\ \A j \in alInjected' : alWorld'[j] # AlNone /\ j \in alFresh'
    <3>1. \A j \in AlIds : alWorld'[j] # AlNone /\ alClient'[j] = AlNone => j \in alHidden'
      BY <2>2, <2>3, <2>10, <2>11 DEF AntiLagInv
    <3>2. \A j \in AlIds : KnownRightly(j, alKindOf)'
      <4>1. KnownRightly(i, alKindOf)'  BY <2>10, <2>11 DEF KnownRightly
      <4>. QED  BY <2>8, <2>10, <2>11, <4>1 DEF AntiLagInv
    <3>3. \A j \in alHidden' : alWorld'[j] # AlNone /\ alWorld'[j].kind = "player"
      BY <1>0, <2>2, <2>3, <2>10, <2>11 DEF AntiLagInv
    <3>4. \A j \in alInjected' : alWorld'[j] # AlNone /\ j \in alFresh'
      BY <1>0, <2>1, <2>2, <2>10, <2>11 DEF AntiLagInv
    <3>. QED  BY <3>1, <3>2, <3>3, <3>4
  <2>12. alStale' \in BOOLEAN /\ alSlept' \in BOOLEAN /\ (alStale' => alFresh' = {})
    <3>1. alStale \in BOOLEAN /\ alSlept \in BOOLEAN /\ (alStale => alFresh = {})  BY DEF AntiLagInv
    <3>3. (alSlept' = TRUE \/ alSlept' = alSlept) /\ (alStale' = alStale \/ alStale' = FALSE)  BY <2>3
    <3>4. alSlept' \in BOOLEAN
      <4>1. CASE alSlept' = TRUE  BY <4>1
      <4>2. CASE alSlept' = alSlept  BY <3>1, <4>2
      <4>. QED  BY <3>3, <4>1, <4>2
    <3>2. alStale' \in BOOLEAN /\ alSlept' \in BOOLEAN /\ (alStale' => alStale)
      <4>1. CASE alStale' = FALSE  BY <3>4, <4>1
      <4>2. CASE alStale' = alStale  BY <3>1, <3>4, <4>2
      <4>. QED  BY <3>3, <4>1, <4>2
    <3>. QED  BY <2>1, <3>1, <3>2
  <2>13. alWorld'[AlSelf] # AlNone => alWorld'[AlSelf].kind = "self"  BY <1>0, <2>1, <2>2 DEF AntiLagInv
  <2>14. alFresh' \subseteq AlIds  BY <2>1 DEF AntiLagInv
  <2>. QED
    BY <2>1, <2>2, <2>5, <2>6, <2>7, <2>9, <2>11, <2>12, <2>13, <2>14 DEF AntiLagInv, NeverAStranger, TelegraphsPass
<1>4. ASSUME NEW i \in AlIds, Effect(i) PROVE AntiLagInv'
  <2>. DEFINE st == AlSynced
              kind == AlKind(st, alWorld, i)
  <2>1. /\ alWorld[i] # AlNone /\ alHidden' = st.hidden /\ alInjected' = st.injected
        /\ alKindOf' = [st.kinds EXCEPT ![i] = IF i \in st.hidden THEN @ ELSE kind]
        /\ alAte' = (alAte \/ (~alSlept /\ (i \in st.hidden \/ kind = "player") /\ alWorld[i].kind = "enemy"))
        /\ alStale' = FALSE
        /\ UNCHANGED <<alOn, alMode, alYard, alWorld, alClient, alFresh, alSlept, alFroze, alStray>>
    <3>1. /\ AlSets([st EXCEPT !.kinds[i] = IF i \in st.hidden THEN @ ELSE kind])
          /\ alAte' = (alAte \/ (~alSlept /\ (i \in st.hidden \/ kind = "player") /\ alWorld[i].kind = "enemy"))
      BY <1>4 DEF Effect
    <3>2. /\ [st EXCEPT !.kinds[i] = IF i \in st.hidden THEN @ ELSE kind].hidden = st.hidden
          /\ [st EXCEPT !.kinds[i] = IF i \in st.hidden THEN @ ELSE kind].injected = st.injected
          /\ [st EXCEPT !.kinds[i] = IF i \in st.hidden THEN @ ELSE kind].kinds = [st.kinds EXCEPT ![i] = IF i \in st.hidden THEN @ ELSE kind]
      BY DEF AlSynced, AlState
    <3>. QED  BY <1>4, <3>1, <3>2 DEF Effect, AlSets
  <2>2. /\ st.hidden = alHidden /\ st.injected = (IF alStale THEN {} ELSE alInjected)
        /\ st.kinds \in [AlIds -> AlKinds \cup {AlNone}]
        /\ \A j \in AlIds : st.kinds[j] \in {AlNone, alKindOf[j]}
    BY <1>0 DEF AlSynced, AlState, AlUnseen
  <2>3. kind \in AlKinds /\ kind \in {st.kinds[i], alWorld[i].kind}
    BY <1>0, <2>1, <2>2 DEF AlKind, AlObjects
  <2>. HIDE DEF st, kind
  <2>4. alKindOf' \in [AlIds -> AlKinds \cup {AlNone}] /\ \A j \in AlIds : alKindOf'[j] \in {AlNone, alKindOf[j], alWorld[j].kind}
    BY <2>1, <2>2, <2>3
  <2>5. ASSUME NEW j \in AlIds, KnownRightly(j, alKindOf) PROVE KnownRightly(j, alKindOf)'
    <3>1. j # i => alKindOf'[j] \in {AlNone, alKindOf[j]}  BY <2>1, <2>2
    <3>. QED  BY <2>1, <2>4, <2>5, <3>1 DEF KnownRightly
  <2>6. alAte' = FALSE
    <3>1. alAte = FALSE  BY DEF AntiLagInv, TelegraphsPass
    <3>2. ~alSlept => (i \in st.hidden => alWorld[i].kind = "player") /\ kind = alWorld[i].kind
      <4>. SUFFICES ASSUME ~alSlept PROVE (i \in st.hidden => alWorld[i].kind = "player") /\ kind = alWorld[i].kind  OBVIOUS
      <4>1. KnownRightly(i, alKindOf) /\ (i \in alHidden => alWorld[i].kind = "player")  BY DEF AntiLagInv
      <4>2. st.kinds[i] # AlNone => st.kinds[i] = alWorld[i].kind  BY <2>2, <4>1 DEF KnownRightly
      <4>. QED  BY <1>0, <2>2, <2>3, <4>1, <4>2
    <3>. QED  BY <2>1, <3>1, <3>2
  <2>7. SizesFollow'  BY <2>1 DEF AntiLagInv, SizesFollow
  <2>8. AlSelf \notin alHidden' /\ alKindOf'[AlSelf] \in {AlNone, "self"}
    <3>1. alKindOf[AlSelf] \in {AlNone, "self"} /\ (alWorld[AlSelf] # AlNone => alWorld[AlSelf].kind = "self") /\ AlSelf \notin alHidden
      BY DEF AntiLagInv
    <3>2. i # AlSelf => alKindOf'[AlSelf] \in {AlNone, alKindOf[AlSelf]}  BY <1>0, <2>1, <2>2
    <3>. QED  BY <1>0, <2>1, <2>2, <2>4, <3>1, <3>2
  <2>9. AntiLagTypeOK'  BY <1>0, <2>1, <2>2, <2>4 DEF AntiLagInv, AntiLagTypeOK
  <2>10. \A j \in alInjected' : j \in alInjected /\ ~alStale  BY <2>1, <2>2
  <2>11. ~alSlept' => /\ \A j \in AlIds : alWorld'[j] # AlNone /\ alClient'[j] = AlNone => j \in alHidden'
                      /\ \A j \in AlIds : KnownRightly(j, alKindOf)'
                      /\ \A j \in alHidden' : alWorld'[j] # AlNone /\ alWorld'[j].kind = "player"
                      /\ \A j \in alInjected' : alWorld'[j] # AlNone /\ j \in alFresh'
    BY <2>1, <2>2, <2>5, <2>10 DEF AntiLagInv
  <2>12. \A j \in alFresh' : alWorld'[j] # AlNone /\ KnownRightly(j, alKindOf)'  BY <2>1, <2>5 DEF AntiLagInv
  <2>. QED  BY <2>1, <2>2, <2>6, <2>7, <2>8, <2>9, <2>11, <2>12 DEF AntiLagInv, NeverAStranger, TelegraphsPass
<1>5. ASSUME NEW yard \in BOOLEAN, AlMapInfo(yard) PROVE AntiLagInv'
  BY <1>0, <1>5 DEF AlMapInfo, AntiLagInv, AntiLagTypeOK, SizesFollow, NeverAStranger, TelegraphsPass, AlObjects, AlUnseen, KnownRightly
<1>6. ASSUME NEW m \in AlModes, AlSetMode(m) PROVE AntiLagInv'
  BY <1>0, <1>6 DEF AlSetMode, AntiLagInv, AntiLagTypeOK, SizesFollow, NeverAStranger, TelegraphsPass, KnownRightly
<1>7. CASE AlToggle
  BY <1>0, <1>7 DEF AlToggle, alSession, alGhosts, AntiLagInv, AntiLagTypeOK, SizesFollow, NeverAStranger, TelegraphsPass, KnownRightly
<1>8. CASE alVars' = alVars
  BY <1>8 DEF alVars, alSession, alGhosts, AntiLagInv, AntiLagTypeOK, SizesFollow, NeverAStranger, TelegraphsPass, KnownRightly
<1>. QED  BY <1>1, <1>2, <1>3, <1>4, <1>5, <1>6, <1>7, <1>8 DEF AntiLagNext
------------------------------------------------------------------------------
(* A line of chat: what is counted of those hidden, and who is heard.          *)

SignalName(i) == SpamSignals[i][1]

LEMMA SignalsAre ==
  /\ Len(SpamSignals) = 13 /\ DOMAIN SpamSignals = 1 .. 13
  /\ \A i \in 1 .. 13 : SignalName(i) \notin {"none", "blocked-sender"}
  /\ \A i, j \in 1 .. 13 : SignalName(i) = SignalName(j) => i = j
  /\ SignalName(2) = "shop-word" /\ SpamSignals[2][2] = "advertising"
<1>1. Len(SpamSignals) = 13 /\ DOMAIN SpamSignals = 1 .. 13  BY DEF SpamSignals
<1>2. /\ SignalName(1) = "shop-domain" /\ SignalName(2) = "shop-word" /\ SignalName(3) = "payment-method"
      /\ SignalName(4) = "shop-phrase" /\ SignalName(5) = "shop-columns" /\ SignalName(6) = "masked-scheme"
      /\ SignalName(7) = "link-shortener" /\ SignalName(8) = "off-game-platform" /\ SignalName(9) = "obfuscated-address"
      /\ SignalName(10) = "trade-call" /\ SignalName(11) = "ascii-banner" /\ SignalName(12) = "repeated-character"
      /\ SignalName(13) = "bot-tail" /\ SpamSignals[2][2] = "advertising"
  BY DEF SpamSignals, SignalName
<1>3. \A i \in 1 .. 13 : i = 1 \/ i = 2 \/ i = 3 \/ i = 4 \/ i = 5 \/ i = 6 \/ i = 7 \/ i = 8 \/ i = 9 \/ i = 10 \/ i = 11 \/ i = 12 \/ i = 13
  OBVIOUS
<1>4. \A i \in 1 .. 13 : SignalName(i) \notin {"none", "blocked-sender"}  BY <1>2, <1>3
<1>5. ASSUME NEW i \in 1 .. 13, NEW j \in 1 .. 13, SignalName(i) = SignalName(j) PROVE i = j
  BY <1>2, <1>3, <1>5
<1>. QED  BY <1>1, <1>2, <1>4, <1>5

LEMMA ReasonsAre == Reasons = {SignalName(i) : i \in 1 .. 13} \cup {"blocked-sender"} /\ "none" \notin Reasons
BY SignalsAre DEF Reasons, SignalName

\* What the command adds up.
SumIs(h, f) ==
  f = [n \in 0 .. Len(SpamSignals) |-> IF n = 0 THEN h["blocked-sender"] ELSE h[SpamSignals[n][1]] + f[n - 1]]

LEMMA SumsAre ==
  ASSUME NEW h \in [Reasons -> Nat]
  PROVE  /\ \E f : SumIs(h, f)
         /\ \A f : SumIs(h, f) => /\ f[0] = h["blocked-sender"] /\ \A n \in 0 .. 13 : f[n] \in Nat
                                  /\ \A n \in 0 .. 12 : f[n + 1] = h[SignalName(n + 1)] + f[n]
<1>. DEFINE N == 13
            G == [t \in (1 .. N) \X Nat |-> h[SignalName(t[1])] + t[2]]
            first == h["blocked-sender"]
<1>1. first \in Nat /\ \A n \in 1 .. 13 : h[SignalName(n)] \in Nat  BY ReasonsAre
<1>2. G \in [(1 .. N) \X Nat -> Nat]
  <2>1. \A t \in (1 .. N) \X Nat : t[1] \in 1 .. 13 /\ t[2] \in Nat  OBVIOUS
  <2>2. \A t \in (1 .. N) \X Nat : h[SignalName(t[1])] + t[2] \in Nat  BY <1>1, <2>1
  <2>. QED  BY <2>2
<1>3. \A n \in 1 .. N, b \in Nat : G[<<n, b>>] = h[SignalName(n)] + b  OBVIOUS
<1>4. N \in Nat  OBVIOUS
<1>. HIDE DEF G, first
<1>5. PICK g : IsRun(g, Nat, first, N, G)  BY <1>1, <1>2, <1>4, Recursion
<1>6. g \in [0 .. N -> Nat] /\ g[0] = first /\ \A n \in 1 .. N : g[n] = G[<<n, g[n - 1]>>]  BY <1>5 DEF IsRun
<1>7. ASSUME NEW n \in 0 .. N PROVE g[n] = IF n = 0 THEN h["blocked-sender"] ELSE h[SpamSignals[n][1]] + g[n - 1]
  <2>1. CASE n = 0  BY <1>6, <2>1 DEF first
  <2>2. CASE n # 0
    <3>1. n \in 1 .. N /\ n - 1 \in 0 .. N  BY <2>2
    <3>2. g[n - 1] \in Nat  BY <1>6, <3>1
    <3>. QED  BY <1>3, <1>6, <2>2, <3>1, <3>2 DEF SignalName
  <2>. QED  BY <2>1, <2>2
<1>8. SumIs(h, g)
  <2>1. g = [n \in 0 .. N |-> g[n]]  BY <1>6
  <2>2. g = [n \in 0 .. N |-> IF n = 0 THEN h["blocked-sender"] ELSE h[SpamSignals[n][1]] + g[n - 1]]  BY <1>7, <2>1
  <2>. QED  BY <2>2, SignalsAre DEF SumIs
<1>9. ASSUME NEW f, SumIs(h, f)
      PROVE  /\ f[0] = h["blocked-sender"] /\ \A n \in 0 .. 13 : f[n] \in Nat
             /\ \A n \in 0 .. 12 : f[n + 1] = h[SignalName(n + 1)] + f[n]
  <2>1. \A n \in 0 .. 13 : f[n] = IF n = 0 THEN h["blocked-sender"] ELSE h[SpamSignals[n][1]] + f[n - 1]
    BY <1>9, SignalsAre DEF SumIs
  <2>2. f[0] = h["blocked-sender"]  BY <2>1
  <2>3. ASSUME NEW n \in 0 .. 12 PROVE f[n + 1] = h[SignalName(n + 1)] + f[n]
    <3>1. n + 1 \in 0 .. 13 /\ n + 1 # 0 /\ (n + 1) - 1 = n  OBVIOUS
    <3>. QED  BY <2>1, <3>1 DEF SignalName
  <2>. DEFINE T == {n \in Nat : n <= 13 => f[n] \in Nat}
  <2>4. 0 \in T  BY <1>1, <2>2 DEF first
  <2>5. ASSUME NEW n \in T PROVE n + 1 \in T
    <3>. SUFFICES ASSUME n + 1 <= 13 PROVE f[n + 1] \in Nat  OBVIOUS
    <3>1. n \in 0 .. 12 /\ n + 1 \in 1 .. 13 /\ f[n] \in Nat  OBVIOUS
    <3>. QED  BY <1>1, <2>3, <3>1
  <2>6. T = Nat
    <3>. HIDE DEF T
    <3>1. T \in SUBSET Nat  BY DEF T
    <3>. QED  BY <2>4, <2>5, <3>1, Upwards
  <2>. QED  BY <2>2, <2>3, <2>6
<1>. QED  BY <1>8, <1>9

\* One line more is one more in the sum.
LEMMA OneMoreHidden ==
  ASSUME NEW h \in [Reasons -> Nat], NEW r \in Reasons, NEW k \in [Reasons -> Nat],
         k[r] = h[r] + 1, \A q \in Reasons \ {r} : k[q] = h[q],
         NEW f, SumIs(h, f), NEW g, SumIs(k, g)
  PROVE  g[13] = f[13] + 1
<1>1. k \in [Reasons -> Nat] /\ k[r] = h[r] + 1 /\ \A q \in Reasons \ {r} : k[q] = h[q]  OBVIOUS
<1>2. /\ f[0] = h["blocked-sender"] /\ \A n \in 0 .. 13 : f[n] \in Nat
      /\ \A n \in 0 .. 12 : f[n + 1] = h[SignalName(n + 1)] + f[n]
  BY SumsAre
<1>3. /\ g[0] = k["blocked-sender"] /\ \A n \in 0 .. 13 : g[n] \in Nat
      /\ \A n \in 0 .. 12 : g[n + 1] = k[SignalName(n + 1)] + g[n]
  BY <1>1, SumsAre
<1>4. /\ "blocked-sender" \in Reasons /\ \A n \in 1 .. 13 : SignalName(n) \in Reasons /\ SignalName(n) # "blocked-sender"
      /\ r = "blocked-sender" \/ \E n \in 1 .. 13 : r = SignalName(n)
  BY ReasonsAre, SignalsAre
<1>. DEFINE Seen(n) == r = "blocked-sender" \/ \E j \in 1 .. n : SignalName(j) = r
            T == {n \in Nat : n <= 13 => g[n] = f[n] + (IF Seen(n) THEN 1 ELSE 0)}
<1>5. 0 \in T
  <2>1. Seen(0) <=> r = "blocked-sender"  OBVIOUS
  <2>2. g[0] = f[0] + (IF r = "blocked-sender" THEN 1 ELSE 0)  BY <1>1, <1>2, <1>3, <1>4
  <2>. QED  BY <2>1, <2>2
<1>6. ASSUME NEW n \in T PROVE n + 1 \in T
  <2>. SUFFICES ASSUME n + 1 <= 13 PROVE g[n + 1] = f[n + 1] + (IF Seen(n + 1) THEN 1 ELSE 0)  OBVIOUS
  <2>1. n \in 0 .. 12 /\ n + 1 \in 1 .. 13 /\ g[n] = f[n] + (IF Seen(n) THEN 1 ELSE 0)  OBVIOUS
  <2>2. /\ f[n + 1] = h[SignalName(n + 1)] + f[n] /\ g[n + 1] = k[SignalName(n + 1)] + g[n]
        /\ f[n] \in Nat /\ h[SignalName(n + 1)] \in Nat
    BY <1>2, <1>3, <1>4, <2>1
  <2>3. Seen(n + 1) <=> Seen(n) \/ r = SignalName(n + 1)
    <3>1. \A j \in 1 .. n + 1 : j \in 1 .. n \/ j = n + 1  BY <2>1
    <3>2. \A j \in 1 .. n : j \in 1 .. n + 1  BY <2>1
    <3>. QED  BY <2>1, <3>1, <3>2
  <2>4. ~(Seen(n) /\ r = SignalName(n + 1))
    <3>1. \A j \in 1 .. n : j \in 1 .. 13 /\ j # n + 1  BY <2>1
    <3>. QED  BY <1>4, <2>1, <3>1, SignalsAre
  <2>. HIDE DEF Seen
  <2>5. CASE r = SignalName(n + 1)  BY <1>1, <2>1, <2>2, <2>3, <2>4, <2>5
  <2>6. CASE r # SignalName(n + 1)
    <3>1. k[SignalName(n + 1)] = h[SignalName(n + 1)]  BY <1>1, <1>4, <2>1, <2>6
    <3>. QED  BY <2>1, <2>2, <2>3, <2>6, <3>1
  <2>. QED  BY <2>5, <2>6
<1>7. T = Nat
  <2>. HIDE DEF T
  <2>1. T \in SUBSET Nat  BY DEF T
  <2>. QED  BY <1>5, <1>6, <2>1, Upwards
<1>8. Seen(13)  BY <1>4
<1>. HIDE DEF Seen
<1>9. g[13] = f[13] + 1
  <2>1. 13 \in T  BY <1>7
  <2>. QED  BY <1>8, <2>1
<1>. QED  BY <1>9

LEMMA NoneHidden == ASSUME NEW f, SumIs(NothingHidden, f) PROVE NothingHidden \in [Reasons -> Nat] /\ f[13] = 0
<1>1. NothingHidden \in [Reasons -> Nat] /\ \A q \in Reasons : NothingHidden[q] = 0  BY DEF NothingHidden
<1>2. /\ f[0] = NothingHidden["blocked-sender"]
      /\ \A n \in 0 .. 12 : f[n + 1] = NothingHidden[SignalName(n + 1)] + f[n]
  BY <1>1, SumsAre
<1>3. "blocked-sender" \in Reasons /\ \A n \in 1 .. 13 : SignalName(n) \in Reasons  BY ReasonsAre
<1>. DEFINE T == {n \in Nat : n <= 13 => f[n] = 0}
<1>4. 0 \in T  BY <1>1, <1>2, <1>3
<1>5. ASSUME NEW n \in T PROVE n + 1 \in T
  <2>. SUFFICES ASSUME n + 1 <= 13 PROVE f[n + 1] = 0  OBVIOUS
  <2>1. n \in 0 .. 12 /\ n + 1 \in 1 .. 13 /\ f[n] = 0  OBVIOUS
  <2>. QED  BY <1>1, <1>2, <1>3, <2>1
<1>6. T = Nat
  <2>. HIDE DEF T
  <2>1. T \in SUBSET Nat  BY DEF T
  <2>. QED  BY <1>4, <1>5, <2>1, Upwards
<1>7. 13 \in T  BY <1>6
<1>. QED  BY <1>1, <1>7

\* The counts add up, the name is a spelling of the player's own, and the line shown was
\* handled under the settings that stand.
ChatBoxInv ==
  /\ ChatBoxTypeOK
  /\ cbHidden \in [Reasons -> Nat] /\ cbTotal \in Nat /\ cbLast \in Reasons \cup {"none"}
  /\ cbName = "" \/ CbBare[cbName] = CbMe
  /\ cbShown = Unheard \/ \E line \in CbLines : cbShown = [line |-> line, out |-> Handled(line)]

\* A sum is one only.
LEMMA SumIsOne == ASSUME NEW h \in [Reasons -> Nat], NEW f, SumIs(h, f), NEW g, SumIs(h, g) PROVE f[13] = g[13]
<1>1. /\ f[0] = h["blocked-sender"] /\ \A n \in 0 .. 12 : f[n + 1] = h[SignalName(n + 1)] + f[n]
      /\ g[0] = h["blocked-sender"] /\ \A n \in 0 .. 12 : g[n + 1] = h[SignalName(n + 1)] + g[n]
  BY SumsAre
<1>. DEFINE T == {n \in Nat : n <= 13 => f[n] = g[n]}
<1>2. 0 \in T  BY <1>1
<1>3. ASSUME NEW n \in T PROVE n + 1 \in T
  <2>. SUFFICES ASSUME n + 1 <= 13 PROVE f[n + 1] = g[n + 1]  OBVIOUS
  <2>1. n \in 0 .. 12 /\ f[n] = g[n]  OBVIOUS
  <2>. QED  BY <1>1, <2>1
<1>4. T = Nat
  <2>. HIDE DEF T
  <2>1. T \in SUBSET Nat  BY DEF T
  <2>. QED  BY <1>2, <1>3, <2>1, Upwards
<1>5. 13 \in T  BY <1>4
<1>. QED  BY <1>5

\* What the command tells, of any counts.
CountsAre(h, total, dropped, last) ==
  /\ total = dropped /\ \E f : SumIs(h, f) /\ total = f[13]
  /\ last = "none" <=> total = 0
  /\ last # "none" => h[last] > 0
CountsOf(h, total, dropped, last) ==
  LET Sum[n \in 0..Len(SpamSignals)] ==
        IF n = 0 THEN h["blocked-sender"] ELSE h[SpamSignals[n][1]] + Sum[n - 1]
  IN /\ total = dropped /\ total = Sum[Len(SpamSignals)]
     /\ last = "none" <=> total = 0
     /\ last # "none" => h[last] > 0

LEMMA CountsKept ==
  ASSUME NEW h \in [Reasons -> Nat], NEW total, NEW dropped, NEW last
  PROVE  CountsOf(h, total, dropped, last) <=> CountsAre(h, total, dropped, last)
<1>. DEFINE s == CHOOSE f : SumIs(h, f)
<1>1. SumIs(h, s)  BY SumsAre
<1>2. CountsOf(h, total, dropped, last) <=>
        /\ total = dropped /\ total = s[Len(SpamSignals)]
        /\ last = "none" <=> total = 0
        /\ last # "none" => h[last] > 0
  BY DEF CountsOf, SumIs
<1>. HIDE DEF s
<1>3. \A f : SumIs(h, f) => f[13] = s[13]  BY <1>1, SumIsOne
<1>4. Len(SpamSignals) = 13  BY SignalsAre
<1>5. (\E f : SumIs(h, f) /\ total = f[13]) <=> total = s[13]  BY <1>1, <1>3
<1>. QED  BY <1>2, <1>4, <1>5 DEF CountsAre

LEMMA CountedRightly == ChatBoxTypeOK <=> CountsOf(cbHidden, cbTotal, cbDropped, cbLast)
BY DEF ChatBoxTypeOK, CountsOf

LEMMA CountedRightlyNext == ChatBoxTypeOK' <=> CountsOf(cbHidden', cbTotal', cbDropped', cbLast')
BY DEF ChatBoxTypeOK, CountsOf

LEMMA FirstSignalIs == ASSUME NEW body, NEW reads PROVE FirstSignal(body, reads) \in Reasons \cup {"none"}
<1>. DEFINE found == {i \in DOMAIN SpamSignals : /\ SpamSignals[i][2] \in cbEnabled
                                                 /\ SpamSignals[i][1] \in Matching(body, reads)}
            least == CHOOSE i \in found : \A j \in found : i <= j
<1>1. FirstSignal(body, reads) = IF found = {} THEN "none" ELSE SignalName(least)  BY DEF FirstSignal, SignalName
<1>2. found \subseteq 1 .. 13  BY SignalsAre
<1>. HIDE DEF found
<1>3. found # {} => \E i \in found : \A j \in found : i <= j
  <2>1. found \in SUBSET Nat  BY <1>2
  <2>. QED  BY <2>1, LeastOne
<1>4. found # {} => least \in found  BY <1>3
<1>. HIDE DEF least
<1>5. found # {} => SignalName(least) \in Reasons  BY <1>2, <1>4, ReasonsAre
<1>. QED  BY <1>1, <1>5

LEMMA ReasonIs == ASSUME NEW line PROVE Handled(line).reason \in Reasons \cup {"none"}
<1>1. Handled(line).reason = IF cbFilters THEN Verdict(line) ELSE "none"  BY DEF Handled
<1>2. "blocked-sender" \in Reasons  BY ReasonsAre
<1>. QED  BY <1>1, <1>2, FirstSignalIs DEF Verdict

LEMMA ChatBoxStarts == ChatBoxInit => ChatBoxInv
<1>. SUFFICES ASSUME ChatBoxInit PROVE ChatBoxInv  OBVIOUS
<1>1. /\ cbName = "" /\ cbHidden = NothingHidden /\ cbTotal = 0 /\ cbLast = "none" /\ cbShown = Unheard /\ cbDropped = 0
  BY DEF ChatBoxInit
<1>2. NothingHidden \in [Reasons -> Nat]  BY DEF NothingHidden
<1>3. PICK f : SumIs(cbHidden, f)  BY <1>1, <1>2, SumsAre
<1>4. f[13] = 0  BY <1>1, <1>3, NoneHidden
<1>5. CountsAre(cbHidden, cbTotal, cbDropped, cbLast)  BY <1>1, <1>3, <1>4 DEF CountsAre
<1>6. cbHidden \in [Reasons -> Nat] /\ cbTotal \in Nat /\ cbLast \in Reasons \cup {"none"}  BY <1>1, <1>2
<1>7. ChatBoxTypeOK  BY <1>5, <1>6, CountsKept, CountedRightly
<1>. QED  BY <1>1, <1>6, <1>7 DEF ChatBoxInv

LEMMA HandledAlike ==
  ASSUME NEW line, UNCHANGED <<cbPlugins, cbLists, cbSelf, cbAlias>>
  PROVE  Handled(line)' = Handled(line)
<1>1. FirstSignal(Body(line), line.reads)' = FirstSignal(Body(line), line.reads)
  BY DEF FirstSignal, cbLists
<1>2. Verdict(line)' = Verdict(line)
  BY <1>1 DEF Verdict, Exempt, cbLists, cbSelf
<1>3. Disguised(line)' = Disguised(line)
  BY DEF Disguised, Own, Rewrites, cbSelf
<1>. QED  BY <1>2, <1>3 DEF Handled, cbPlugins

LEMMA ChatBoxStep == ASSUME ChatBoxInv, [ChatBoxNext]_cbVars PROVE ChatBoxInv'
<1>1. ASSUME NEW line \in CbLines, Said(line) PROVE ChatBoxInv'
  <2>. DEFINE out == Handled(line)
  <2>1. /\ cbShown' = [line |-> line, out |-> out]
        /\ IF out.reason = "none" THEN UNCHANGED cbCounts
           ELSE /\ cbTotal' = cbTotal + 1 /\ cbHidden' = [cbHidden EXCEPT ![out.reason] = @ + 1]
                /\ cbLast' = out.reason /\ cbDropped' = cbDropped + 1
        /\ UNCHANGED <<cbPlugins, cbLists, cbSelf, cbAlias>>
    BY <1>1 DEF Said
  <2>2. Handled(line)' = out  BY <2>1, HandledAlike
  <2>3. out.reason \in Reasons \cup {"none"}  BY ReasonIs
  <2>4. cbShown' = [line |-> line, out |-> Handled(line)']  BY <2>1, <2>2
  <2>. DEFINE r == out.reason
  <2>. HIDE DEF out
  <2>5. CASE r = "none"
    <3>1. cbHidden' = cbHidden /\ cbTotal' = cbTotal /\ cbLast' = cbLast /\ cbDropped' = cbDropped /\ cbName' = cbName
      BY <2>1, <2>5 DEF cbCounts, cbSelf
    <3>2. ChatBoxTypeOK'  BY <3>1 DEF ChatBoxInv, ChatBoxTypeOK
    <3>. QED  BY <2>4, <3>1, <3>2 DEF ChatBoxInv
  <2>6. CASE r # "none"
    <3>1. r \in Reasons  BY <2>3, <2>6
    <3>2. /\ cbTotal' = cbTotal + 1 /\ cbHidden' = [cbHidden EXCEPT ![r] = @ + 1] /\ cbLast' = r /\ cbDropped' = cbDropped + 1
          /\ cbName' = cbName
      BY <2>1, <2>6 DEF cbSelf
    <3>. HIDE DEF r
    <3>3. cbHidden \in [Reasons -> Nat] /\ cbTotal \in Nat /\ CountsAre(cbHidden, cbTotal, cbDropped, cbLast)
      BY CountsKept, CountedRightly DEF ChatBoxInv
    <3>4. PICK f : SumIs(cbHidden, f) /\ cbTotal = f[13]  BY <3>3 DEF CountsAre
    <3>5. cbHidden' \in [Reasons -> Nat] /\ cbHidden'[r] > 0  BY <3>1, <3>2, <3>3
    <3>6. PICK k : k = cbHidden'  OBVIOUS
    <3>7. PICK g : SumIs(k, g)  BY <3>5, <3>6, SumsAre
    <3>8. g[13] = f[13] + 1
      <4>1. PICK h : h = cbHidden  OBVIOUS
      <4>2. PICK q : q = r  OBVIOUS
      <4>3. h \in [Reasons -> Nat] /\ q \in Reasons /\ SumIs(h, f)  BY <3>1, <3>3, <3>4, <4>1, <4>2
      <4>4. k \in [Reasons -> Nat] /\ k[q] = h[q] + 1 /\ \A p \in Reasons \ {q} : k[p] = h[p]
        BY <3>2, <3>5, <3>6, <4>1, <4>2, <4>3
      <4>. QED  BY <3>7, <4>3, <4>4, OneMoreHidden
    <3>9. r # "none"  BY <2>6
    <3>10. CountsAre(cbHidden', cbTotal', cbDropped', cbLast')
      <4>1. cbTotal' = g[13]  BY <3>2, <3>4, <3>8
      <4>2. cbTotal' = cbDropped'  BY <3>2, <3>3 DEF CountsAre
      <4>3. cbLast' # "none" /\ cbTotal' # 0 /\ cbHidden'[cbLast'] > 0  BY <3>2, <3>3, <3>5, <3>9
      <4>4. SumIs(cbHidden', g)  BY <3>6, <3>7
      <4>. QED  BY <4>1, <4>2, <4>3, <4>4 DEF CountsAre
    <3>11. ChatBoxTypeOK'  BY <3>5, <3>10, CountsKept, CountedRightlyNext
    <3>12. cbTotal' \in Nat /\ cbLast' \in Reasons \cup {"none"}  BY <3>1, <3>2, <3>3
    <3>. QED  BY <2>4, <3>2, <3>5, <3>11, <3>12 DEF ChatBoxInv
  <2>. QED  BY <2>5, <2>6
<1>2. ASSUME CbConnected PROVE ChatBoxInv'
  <2>1. /\ cbHidden' = NothingHidden /\ cbTotal' = 0 /\ cbLast' = "none" /\ cbDropped' = 0
        /\ cbName' = "" /\ cbShown' = Unheard
    BY <1>2 DEF CbConnected
  <2>2. NothingHidden \in [Reasons -> Nat]  BY DEF NothingHidden
  <2>3. PICK k : k = cbHidden'  OBVIOUS
  <2>4. PICK f : SumIs(k, f)  BY <2>1, <2>2, <2>3, SumsAre
  <2>5. f[13] = 0  BY <2>1, <2>3, <2>4, NoneHidden
  <2>6. CountsAre(k, cbTotal', cbDropped', cbLast')  BY <2>1, <2>4, <2>5 DEF CountsAre
  <2>7. ChatBoxTypeOK'  BY <2>1, <2>2, <2>3, <2>6, CountsKept, CountedRightlyNext
  <2>8. cbHidden' \in [Reasons -> Nat] /\ cbTotal' \in Nat /\ cbLast' \in Reasons \cup {"none"}  BY <2>1, <2>2
  <2>. QED  BY <2>1, <2>7, <2>8 DEF ChatBoxInv
<1>3. ASSUME CbCreated \/ CbSettings \/ CbNamed PROVE ChatBoxInv'
  <2>1. UNCHANGED cbCounts /\ cbShown' = Unheard /\ (cbName' = cbName \/ CbBare[cbName'] = CbMe)
    BY <1>3 DEF CbCreated, CbSettings, CbNamed, cbSelf
  <2>2. cbHidden' = cbHidden /\ cbTotal' = cbTotal /\ cbLast' = cbLast /\ cbDropped' = cbDropped  BY <2>1 DEF cbCounts
  <2>3. ChatBoxTypeOK'  BY <2>2, CountedRightly, CountedRightlyNext DEF ChatBoxInv
  <2>. QED  BY <2>1, <2>2, <2>3 DEF ChatBoxInv
<1>4. ASSUME UNCHANGED cbVars PROVE ChatBoxInv'
  <2>1. /\ cbHidden' = cbHidden /\ cbTotal' = cbTotal /\ cbLast' = cbLast /\ cbDropped' = cbDropped
        /\ cbShown' = cbShown /\ UNCHANGED <<cbPlugins, cbLists, cbSelf, cbAlias>> /\ cbName' = cbName
    BY <1>4 DEF cbVars, cbCounts, cbSelf
  <2>2. ChatBoxTypeOK'  BY <2>1, CountedRightly, CountedRightlyNext DEF ChatBoxInv
  <2>3. ASSUME NEW line \in CbLines PROVE Handled(line)' = Handled(line)  BY <2>1, HandledAlike
  <2>. QED  BY <2>1, <2>2, <2>3 DEF ChatBoxInv
<1>. QED  BY <1>1, <1>2, <1>3, <1>4 DEF ChatBoxNext
------------------------------------------------------------------------------
(* What a line is read as: the characters kept of it, one after another.       *)

KeptBy(f, text, places) ==
  f = [n \in 0 .. Len(text) |->
         IF n = 0 THEN <<>> ELSE IF n \in places THEN Append(f[n - 1], text[n]) ELSE f[n - 1]]
KeptRun(f, text, places, S) ==
  /\ f \in [0 .. Len(text) -> Seq(S)] /\ f[0] = <<>>
  /\ \A n \in 1 .. Len(text) : f[n] = IF n \in places THEN Append(f[n - 1], text[n]) ELSE f[n - 1]

LEMMA KeptIs ==
  ASSUME NEW S, NEW text \in Seq(S), NEW places
  PROVE  \E f : KeptRun(f, text, places, S) /\ KeptAt(text, places) = f[Len(text)]
<1>. DEFINE N == Len(text)
            G == [t \in (1 .. N) \X Seq(S) |-> IF t[1] \in places THEN Append(t[2], text[t[1]]) ELSE t[2]]
            nothing == <<>>
<1>1. N \in Nat /\ (\A n \in 1 .. N : text[n] \in S) /\ nothing \in Seq(S)  OBVIOUS
<1>. HIDE DEF N
<1>2. G \in [(1 .. N) \X Seq(S) -> Seq(S)]
  <2>1. \A t \in (1 .. N) \X Seq(S) : t[1] \in 1 .. N /\ t[2] \in Seq(S)  OBVIOUS
  <2>2. \A n \in 1 .. N, b \in Seq(S) : Append(b, text[n]) \in Seq(S)  BY <1>1
  <2>. QED  BY <2>1, <2>2
<1>3. \A n \in 1 .. N, b \in Seq(S) : G[<<n, b>>] = IF n \in places THEN Append(b, text[n]) ELSE b  OBVIOUS
<1>. HIDE DEF G, nothing
<1>4. PICK g : IsRun(g, Seq(S), nothing, N, G)  BY <1>1, <1>2, Recursion
<1>5. g \in [0 .. N -> Seq(S)] /\ g[0] = nothing /\ \A n \in 1 .. N : g[n] = G[<<n, g[n - 1]>>]  BY <1>4 DEF IsRun
<1>6. ASSUME NEW n \in 1 .. N PROVE g[n] = IF n \in places THEN Append(g[n - 1], text[n]) ELSE g[n - 1]
  <2>1. n - 1 \in 0 .. N  BY <1>1
  <2>2. g[n - 1] \in Seq(S)  BY <1>5, <2>1
  <2>. QED  BY <1>3, <1>5, <2>2
<1>7. ASSUME NEW n \in 0 .. N
      PROVE g[n] = IF n = 0 THEN <<>> ELSE IF n \in places THEN Append(g[n - 1], text[n]) ELSE g[n - 1]
  <2>1. CASE n = 0  BY <1>5, <2>1 DEF nothing
  <2>2. CASE n # 0
    <3>1. n \in 1 .. N  BY <1>1, <2>2
    <3>. QED  BY <1>6, <2>2, <3>1
  <2>. QED  BY <2>1, <2>2
<1>8. KeptBy(g, text, places)
  <2>1. g = [n \in 0 .. N |-> g[n]]  BY <1>5
  <2>2. g = [n \in 0 .. N |-> IF n = 0 THEN <<>> ELSE IF n \in places THEN Append(g[n - 1], text[n]) ELSE g[n - 1]]
    BY <1>7, <2>1
  <2>. QED  BY <2>2 DEF KeptBy, N
<1>. DEFINE f == CHOOSE h : KeptBy(h, text, places)
<1>9. KeptBy(f, text, places)  BY <1>8
<1>10. KeptAt(text, places) = f[N]  BY DEF KeptAt, KeptBy, N
<1>. HIDE DEF f
<1>11. \A n \in 0 .. N : f[n] = IF n = 0 THEN <<>> ELSE IF n \in places THEN Append(f[n - 1], text[n]) ELSE f[n - 1]
  BY <1>9 DEF KeptBy, N
<1>12. f = [n \in 0 .. N |-> f[n]]
  <2>1. f = [n \in 0 .. N |-> IF n = 0 THEN <<>> ELSE IF n \in places THEN Append(f[n - 1], text[n]) ELSE f[n - 1]]
    BY <1>9 DEF KeptBy, N
  <2>. QED  BY <2>1
<1>13. f[0] = <<>>  BY <1>1, <1>11
<1>14. ASSUME NEW n \in 1 .. N PROVE f[n] = IF n \in places THEN Append(f[n - 1], text[n]) ELSE f[n - 1]
  <2>1. n \in 0 .. N /\ n # 0  BY <1>1
  <2>. QED  BY <1>11, <2>1
<1>. DEFINE T == {n \in Nat : n <= N => f[n] \in Seq(S)}
<1>15. 0 \in T  BY <1>1, <1>13 DEF nothing
<1>16. ASSUME NEW n \in T PROVE n + 1 \in T
  <2>. SUFFICES ASSUME n + 1 <= N PROVE f[n + 1] \in Seq(S)  OBVIOUS
  <2>1. n \in Nat /\ n + 1 \in 1 .. N /\ f[n] \in Seq(S) /\ (n + 1) - 1 = n  BY <1>1
  <2>2. text[n + 1] \in S  BY <1>1, <2>1
  <2>3. f[n + 1] = IF n + 1 \in places THEN Append(f[n], text[n + 1]) ELSE f[n]  BY <1>14, <2>1
  <2>4. Append(f[n], text[n + 1]) \in Seq(S)  BY <2>1, <2>2
  <2>. QED  BY <2>1, <2>3, <2>4
<1>17. T = Nat
  <2>. HIDE DEF T
  <2>1. T \in SUBSET Nat  BY DEF T
  <2>. QED  BY <1>15, <1>16, <2>1, Upwards
<1>18. \A n \in 0 .. N : f[n] \in Seq(S)  BY <1>17
<1>19. f \in [0 .. N -> Seq(S)]  BY <1>12, <1>18
<1>20. KeptRun(f, text, places, S)  BY <1>13, <1>14, <1>19 DEF KeptRun, N
<1>. QED  BY <1>10, <1>20 DEF N

\* A character more is kept or is not.
LEMMA KeptOfMore ==
  ASSUME NEW S, NEW s \in Seq(S), NEW x \in S, NEW places, NEW before,
         \A i \in 1 .. Len(s) : i \in places <=> i \in before
  PROVE  KeptAt(Append(s, x), places)
           = IF Len(s) + 1 \in places THEN Append(KeptAt(s, before), x) ELSE KeptAt(s, before)
<1>1. PICK t : t = Append(s, x)  OBVIOUS
<1>2. t \in Seq(S) /\ Len(t) = Len(s) + 1 /\ (\A i \in 1 .. Len(s) : t[i] = s[i]) /\ t[Len(s) + 1] = x  BY <1>1
<1>3. PICK f : KeptRun(f, s, before, S) /\ KeptAt(s, before) = f[Len(s)]  BY KeptIs
<1>4. PICK g : KeptRun(g, t, places, S) /\ KeptAt(t, places) = g[Len(t)]  BY <1>2, KeptIs
<1>5. PICK N \in Nat : N = Len(s)  OBVIOUS
<1>6. /\ f[0] = <<>> /\ \A n \in 1 .. N : f[n] = IF n \in before THEN Append(f[n - 1], s[n]) ELSE f[n - 1]
      /\ g[0] = <<>> /\ \A n \in 1 .. N + 1 : g[n] = IF n \in places THEN Append(g[n - 1], t[n]) ELSE g[n - 1]
  BY <1>2, <1>3, <1>4, <1>5 DEF KeptRun
<1>. DEFINE T == {n \in Nat : n <= N => g[n] = f[n]}
<1>7. 0 \in T  BY <1>6
<1>8. ASSUME NEW n \in T PROVE n + 1 \in T
  <2>. SUFFICES ASSUME n + 1 <= N PROVE g[n + 1] = f[n + 1]  OBVIOUS
  <2>1. n \in Nat /\ n + 1 \in 1 .. N /\ n + 1 \in 1 .. N + 1 /\ g[n] = f[n] /\ (n + 1) - 1 = n  OBVIOUS
  <2>2. t[n + 1] = s[n + 1] /\ (n + 1 \in places <=> n + 1 \in before)  BY <1>2, <1>5, <2>1
  <2>3. f[n + 1] = IF n + 1 \in before THEN Append(f[n], s[n + 1]) ELSE f[n]  BY <1>6, <2>1
  <2>4. g[n + 1] = IF n + 1 \in places THEN Append(g[n], t[n + 1]) ELSE g[n]  BY <1>6, <2>1
  <2>. QED  BY <2>1, <2>2, <2>3, <2>4
<1>9. T = Nat
  <2>. HIDE DEF T
  <2>1. T \in SUBSET Nat  BY DEF T
  <2>. QED  BY <1>7, <1>8, <2>1, Upwards
<1>10. g[N] = f[N]  BY <1>9
<1>11. g[N + 1] = IF N + 1 \in places THEN Append(g[N], t[N + 1]) ELSE g[N]
  <2>1. N + 1 \in 1 .. N + 1 /\ (N + 1) - 1 = N  OBVIOUS
  <2>. QED  BY <1>6, <2>1
<1>. QED  BY <1>1, <1>2, <1>3, <1>4, <1>5, <1>10, <1>11

\* Those of a set.
Of(text, C) == KeptAt(text, {i \in DOMAIN text : text[i] \in C})

LEMMA OfNone == ASSUME NEW C PROVE Of(<<>>, C) = <<>>
<1>1. PICK t \in Seq(STRING) : t = <<>>  BY EmptySeq
<1>2. PICK f : KeptRun(f, t, {i \in DOMAIN t : t[i] \in C}, STRING)
               /\ KeptAt(t, {i \in DOMAIN t : t[i] \in C}) = f[Len(t)]
  BY KeptIs
<1>. QED  BY <1>1, <1>2 DEF Of, KeptRun

LEMMA OfText == ASSUME NEW S, NEW s \in Seq(S), NEW C PROVE Of(s, C) \in Seq(S)
<1>1. PICK f : KeptRun(f, s, {i \in DOMAIN s : s[i] \in C}, S)
               /\ KeptAt(s, {i \in DOMAIN s : s[i] \in C}) = f[Len(s)]
  BY KeptIs
<1>2. Len(s) \in 0 .. Len(s)  OBVIOUS
<1>. QED  BY <1>1, <1>2 DEF Of, KeptRun

LEMMA OfMore ==
  ASSUME NEW S, NEW s \in Seq(S), NEW x \in S, NEW C
  PROVE  Of(Append(s, x), C) = IF x \in C THEN Append(Of(s, C), x) ELSE Of(s, C)
<1>1. PICK t : t = Append(s, x)  OBVIOUS
<1>2. /\ Len(t) = Len(s) + 1 /\ DOMAIN t = 1 .. Len(s) + 1 /\ Len(s) \in Nat /\ DOMAIN s = 1 .. Len(s)
      /\ (\A i \in 1 .. Len(s) : t[i] = s[i]) /\ t[Len(s) + 1] = x
  <2>1. t \in Seq(S) /\ s \in Seq(S) /\ Len(t) = Len(s) + 1  BY <1>1
  <2>2. \A i \in 1 .. Len(s) : t[i] = s[i]  BY <1>1
  <2>3. t[Len(s) + 1] = x  BY <1>1
  <2>. QED  BY <2>1, <2>2, <2>3
<1>3. PICK places : places = {i \in DOMAIN t : t[i] \in C}  OBVIOUS
<1>4. PICK before : before = {i \in DOMAIN s : s[i] \in C}  OBVIOUS
<1>5. \A i \in 1 .. Len(s) : i \in places <=> i \in before  BY <1>2, <1>3, <1>4
<1>6. Len(s) + 1 \in places <=> x \in C  BY <1>2, <1>3
<1>7. KeptAt(Append(s, x), places)
        = IF Len(s) + 1 \in places THEN Append(KeptAt(s, before), x) ELSE KeptAt(s, before)
  BY <1>5, KeptOfMore
<1>. QED  BY <1>1, <1>3, <1>4, <1>6, <1>7 DEF Of

\* Texts are of these.
Characters == STRING \cup {"a", "c", "i", "k", "o", "pipe", "s", "t"}
Plain == Letters \cup Digits
Folded(c) ==
  LET compatible == IF c \in DOMAIN Compatible THEN Compatible[c] ELSE c
      small == IF compatible \in DOMAIN Capitals THEN Capitals[compatible] ELSE compatible
  IN IF small \in DOMAIN Homoglyphs THEN Homoglyphs[small] ELSE small
Plainly(c) == LeetOf(Folded(c))
Legible == {c \in Characters : Reads(c) # ""}
Visible == {c \in Characters : c \notin Invisible}

\* What a reader sees of a character is what is read of it.
LEMMA FoldedIs ==
  ASSUME NEW c
  PROVE  Folded(c) = CASE c = "fwt" -> "t" [] c = "S" -> "s" [] c = "cyo" -> "o" [] c = "cya" -> "a" [] c = "bar" -> "pipe"
                       [] OTHER -> c
<1>1. /\ DOMAIN Compatible = {"fwt"} /\ Compatible["fwt"] = "t"
      /\ DOMAIN Capitals = {"S"} /\ Capitals["S"] = "s"
      /\ DOMAIN Homoglyphs = {"cyo", "cya", "bar"}
      /\ Homoglyphs["cyo"] = "o" /\ Homoglyphs["cya"] = "a" /\ Homoglyphs["bar"] = "pipe"
  BY DEF Compatible, Capitals, Homoglyphs
<1>2. CASE c = "fwt"  BY <1>1, <1>2 DEF Folded
<1>3. CASE c = "S"  BY <1>1, <1>3 DEF Folded
<1>4. CASE c = "cyo"  BY <1>1, <1>4 DEF Folded
<1>5. CASE c = "cya"  BY <1>1, <1>5 DEF Folded
<1>6. CASE c = "bar"  BY <1>1, <1>6 DEF Folded
<1>7. CASE c \notin {"fwt", "S", "cyo", "cya", "bar"}  BY <1>1, <1>7 DEF Folded
<1>. QED  BY <1>2, <1>3, <1>4, <1>5, <1>6, <1>7

LEMMA SeenAsRead ==
  ASSUME NEW c \in Characters
  PROVE  /\ Plainly(c) \in Characters
         /\ c \in Visible => (Plainly(c) \in Plain <=> c \in Legible)
         /\ c \notin Visible => c \notin Legible
         /\ Reads(c) \in {"s", "t", "o", "c", "k"} => Plainly(c) = Reads(c)
<1>. DEFINE Holding == /\ Plainly(c) \in Characters
                       /\ c \in Visible => (Plainly(c) \in Plain <=> c \in Legible)
                       /\ c \notin Visible => c \notin Legible
                       /\ Reads(c) \in {"s", "t", "o", "c", "k"} => Plainly(c) = Reads(c)
<1>1. \A d : d \in Plain <=> d \in {"a", "c", "i", "k", "l", "o", "s", "t", "w", "0", "1", "7"}  BY DEF Plain, Letters, Digits
<1>2. (c \in Visible <=> c # "zw") /\ (c \in Legible <=> Reads(c) # "")  BY DEF Visible, Invisible, Legible
<1>3. ASSUME c = "fwt" PROVE Holding
  <2>1. Folded(c) = "t"  BY <1>3, FoldedIs
  <2>2. Plainly(c) = "t"  BY <2>1 DEF Plainly, LeetOf
  <2>3. Reads(c) = "t"  BY <1>3 DEF Reads, Letters
  <2>4. Plainly(c) \in Characters  BY <1>3, <2>2 DEF Characters
  <2>. QED  BY <1>3, <1>1, <1>2, <2>2, <2>3, <2>4
<1>4. ASSUME c = "S" PROVE Holding
  <2>1. Folded(c) = "s"  BY <1>4, FoldedIs
  <2>2. Plainly(c) = "s"  BY <2>1 DEF Plainly, LeetOf
  <2>3. Reads(c) = "s"  BY <1>4 DEF Reads, Letters
  <2>4. Plainly(c) \in Characters  BY <1>4, <2>2 DEF Characters
  <2>. QED  BY <1>4, <1>1, <1>2, <2>2, <2>3, <2>4
<1>5. ASSUME c = "cyo" PROVE Holding
  <2>1. Folded(c) = "o"  BY <1>5, FoldedIs
  <2>2. Plainly(c) = "o"  BY <2>1 DEF Plainly, LeetOf
  <2>3. Reads(c) = "o"  BY <1>5 DEF Reads, Letters
  <2>4. Plainly(c) \in Characters  BY <1>5, <2>2 DEF Characters
  <2>. QED  BY <1>5, <1>1, <1>2, <2>2, <2>3, <2>4
<1>6. ASSUME c = "cya" PROVE Holding
  <2>1. Folded(c) = "a"  BY <1>6, FoldedIs
  <2>2. Plainly(c) = "a"  BY <2>1 DEF Plainly, LeetOf
  <2>3. Reads(c) = "a"  BY <1>6 DEF Reads, Letters
  <2>4. Plainly(c) \in Characters  BY <1>6, <2>2 DEF Characters
  <2>. QED  BY <1>6, <1>1, <1>2, <2>2, <2>3, <2>4
<1>7. ASSUME c = "bar" PROVE Holding
  <2>1. Folded(c) = "pipe"  BY <1>7, FoldedIs
  <2>2. Plainly(c) = "pipe"  BY <2>1 DEF Plainly, LeetOf
  <2>3. Reads(c) = ""  BY <1>7 DEF Reads, Letters
  <2>4. Plainly(c) \in Characters  BY <1>7, <2>2 DEF Characters
  <2>. QED  BY <1>7, <1>1, <1>2, <2>2, <2>3, <2>4
<1>8. ASSUME c = "zw" PROVE Holding
  <2>1. Folded(c) = "zw"  BY <1>8, FoldedIs
  <2>2. Plainly(c) = "zw"  BY <2>1 DEF Plainly, LeetOf
  <2>3. Reads(c) = ""  BY <1>8 DEF Reads, Letters
  <2>4. Plainly(c) \in Characters  BY <1>8, <2>2 DEF Characters
  <2>. QED  BY <1>8, <1>1, <1>2, <2>2, <2>3, <2>4
<1>9. ASSUME c = "0" PROVE Holding
  <2>1. Folded(c) = "0"  BY <1>9, FoldedIs
  <2>2. Plainly(c) = "o"  BY <2>1 DEF Plainly, LeetOf
  <2>3. Reads(c) = "o"  BY <1>9 DEF Reads, Letters
  <2>4. Plainly(c) \in Characters  BY <1>9, <2>2 DEF Characters
  <2>. QED  BY <1>9, <1>1, <1>2, <2>2, <2>3, <2>4
<1>10. ASSUME c = "1" PROVE Holding
  <2>1. Folded(c) = "1"  BY <1>10, FoldedIs
  <2>2. Plainly(c) = "i"  BY <2>1 DEF Plainly, LeetOf
  <2>3. Reads(c) = "i"  BY <1>10 DEF Reads, Letters
  <2>4. Plainly(c) \in Characters  BY <1>10, <2>2 DEF Characters
  <2>. QED  BY <1>10, <1>1, <1>2, <2>2, <2>3, <2>4
<1>11. ASSUME c = "7" PROVE Holding
  <2>1. Folded(c) = "7"  BY <1>11, FoldedIs
  <2>2. Plainly(c) = "t"  BY <2>1 DEF Plainly, LeetOf
  <2>3. Reads(c) = "t"  BY <1>11 DEF Reads, Letters
  <2>4. Plainly(c) \in Characters  BY <1>11, <2>2 DEF Characters
  <2>. QED  BY <1>11, <1>1, <1>2, <2>2, <2>3, <2>4
<1>12. ASSUME c = "@" PROVE Holding
  <2>1. Folded(c) = "@"  BY <1>12, FoldedIs
  <2>2. Plainly(c) = "a"  BY <2>1 DEF Plainly, LeetOf
  <2>3. Reads(c) = "a"  BY <1>12 DEF Reads, Letters
  <2>4. Plainly(c) \in Characters  BY <1>12, <2>2 DEF Characters
  <2>. QED  BY <1>12, <1>1, <1>2, <2>2, <2>3, <2>4
<1>13. ASSUME c = "$" PROVE Holding
  <2>1. Folded(c) = "$"  BY <1>13, FoldedIs
  <2>2. Plainly(c) = "s"  BY <2>1 DEF Plainly, LeetOf
  <2>3. Reads(c) = "s"  BY <1>13 DEF Reads, Letters
  <2>4. Plainly(c) \in Characters  BY <1>13, <2>2 DEF Characters
  <2>. QED  BY <1>13, <1>1, <1>2, <2>2, <2>3, <2>4
<1>14. ASSUME c = "a" PROVE Holding
  <2>1. Folded(c) = "a"  BY <1>14, FoldedIs
  <2>2. Plainly(c) = "a"  BY <2>1 DEF Plainly, LeetOf
  <2>3. Reads(c) = "a"  BY <1>14 DEF Reads, Letters
  <2>4. Plainly(c) \in Characters  BY <1>14, <2>2 DEF Characters
  <2>. QED  BY <1>14, <1>1, <1>2, <2>2, <2>3, <2>4
<1>15. ASSUME c = "c" PROVE Holding
  <2>1. Folded(c) = "c"  BY <1>15, FoldedIs
  <2>2. Plainly(c) = "c"  BY <2>1 DEF Plainly, LeetOf
  <2>3. Reads(c) = "c"  BY <1>15 DEF Reads, Letters
  <2>4. Plainly(c) \in Characters  BY <1>15, <2>2 DEF Characters
  <2>. QED  BY <1>15, <1>1, <1>2, <2>2, <2>3, <2>4
<1>16. ASSUME c = "i" PROVE Holding
  <2>1. Folded(c) = "i"  BY <1>16, FoldedIs
  <2>2. Plainly(c) = "i"  BY <2>1 DEF Plainly, LeetOf
  <2>3. Reads(c) = "i"  BY <1>16 DEF Reads, Letters
  <2>4. Plainly(c) \in Characters  BY <1>16, <2>2 DEF Characters
  <2>. QED  BY <1>16, <1>1, <1>2, <2>2, <2>3, <2>4
<1>17. ASSUME c = "k" PROVE Holding
  <2>1. Folded(c) = "k"  BY <1>17, FoldedIs
  <2>2. Plainly(c) = "k"  BY <2>1 DEF Plainly, LeetOf
  <2>3. Reads(c) = "k"  BY <1>17 DEF Reads, Letters
  <2>4. Plainly(c) \in Characters  BY <1>17, <2>2 DEF Characters
  <2>. QED  BY <1>17, <1>1, <1>2, <2>2, <2>3, <2>4
<1>18. ASSUME c = "l" PROVE Holding
  <2>1. Folded(c) = "l"  BY <1>18, FoldedIs
  <2>2. Plainly(c) = "i"  BY <2>1 DEF Plainly, LeetOf
  <2>3. Reads(c) = "l"  BY <1>18 DEF Reads, Letters
  <2>4. Plainly(c) \in Characters  BY <1>18, <2>2 DEF Characters
  <2>. QED  BY <1>18, <1>1, <1>2, <2>2, <2>3, <2>4
<1>19. ASSUME c = "o" PROVE Holding
  <2>1. Folded(c) = "o"  BY <1>19, FoldedIs
  <2>2. Plainly(c) = "o"  BY <2>1 DEF Plainly, LeetOf
  <2>3. Reads(c) = "o"  BY <1>19 DEF Reads, Letters
  <2>4. Plainly(c) \in Characters  BY <1>19, <2>2 DEF Characters
  <2>. QED  BY <1>19, <1>1, <1>2, <2>2, <2>3, <2>4
<1>20. ASSUME c = "s" PROVE Holding
  <2>1. Folded(c) = "s"  BY <1>20, FoldedIs
  <2>2. Plainly(c) = "s"  BY <2>1 DEF Plainly, LeetOf
  <2>3. Reads(c) = "s"  BY <1>20 DEF Reads, Letters
  <2>4. Plainly(c) \in Characters  BY <1>20, <2>2 DEF Characters
  <2>. QED  BY <1>20, <1>1, <1>2, <2>2, <2>3, <2>4
<1>21. ASSUME c = "w" PROVE Holding
  <2>1. Folded(c) = "w"  BY <1>21, FoldedIs
  <2>2. Plainly(c) = "w"  BY <2>1 DEF Plainly, LeetOf
  <2>3. Reads(c) = "w"  BY <1>21 DEF Reads, Letters
  <2>4. Plainly(c) \in Characters  BY <1>21, <2>2 DEF Characters
  <2>. QED  BY <1>21, <1>1, <1>2, <2>2, <2>3, <2>4
<1>22. ASSUME c = "t" PROVE Holding
  <2>1. Folded(c) = "t"  BY <1>22, FoldedIs
  <2>2. Plainly(c) = "t"  BY <2>1 DEF Plainly, LeetOf
  <2>3. Reads(c) = "t"  BY <1>22 DEF Reads, Letters
  <2>4. Plainly(c) \in Characters  BY <1>22, <2>2 DEF Characters
  <2>. QED  BY <1>22, <1>1, <1>2, <2>2, <2>3, <2>4
<1>23. ASSUME c \notin {"fwt", "S", "cyo", "cya", "bar", "zw", "0", "1", "7", "@", "$", "a", "c", "i", "k", "l", "o", "s", "w", "t"} PROVE Holding
  <2>1. Folded(c) = c  BY <1>23, FoldedIs
  <2>2. Plainly(c) = c  BY <1>23, <2>1 DEF Plainly, LeetOf
  <2>3. Reads(c) = ""  BY <1>23 DEF Reads, Letters
  <2>4. c \notin Plain  BY <1>23, <1>1
  <2>. QED  BY <1>23, <1>2, <2>2, <2>3, <2>4
<1>. HIDE DEF Holding
<1>24. Holding  BY <1>3, <1>4, <1>5, <1>6, <1>7, <1>8, <1>9, <1>10, <1>11, <1>12, <1>13, <1>14, <1>15, <1>16, <1>17, <1>18, <1>19, <1>20, <1>21, <1>22, <1>23
<1>. QED  BY <1>24 DEF Holding

LEMMA OneMoreAt ==
  ASSUME NEW S, NEW s \in Seq(S), NEW x \in S, NEW t, t = Append(s, x)
  PROVE  /\ t \in Seq(S) /\ Len(t) = Len(s) + 1 /\ \A i \in 1 .. Len(s) : t[i] = s[i]
         /\ t[Len(s) + 1] = x
<1>1. t \in Seq(S) /\ Len(t) = Len(s) + 1  OBVIOUS
<1>2. \A i \in 1 .. Len(s) : t[i] = s[i]  OBVIOUS
<1>3. t[Len(s) + 1] = x  OBVIOUS
<1>. QED  BY <1>1, <1>2, <1>3

\* A text, character for character.
Mapped(text) == [i \in DOMAIN text |-> Plainly(text[i])]

LEMMA MappedText ==
  ASSUME NEW s \in Seq(Characters), NEW x \in Characters
  PROVE  Mapped(s) \in Seq(Characters) /\ Len(Mapped(s)) = Len(s) /\ Mapped(Append(s, x)) = Append(Mapped(s), Plainly(x))
<1>1. \A c \in Characters : Plainly(c) \in Characters  BY SeenAsRead
<1>2. ASSUME NEW t \in Seq(Characters)
      PROVE  Mapped(t) \in Seq(Characters) /\ Len(Mapped(t)) = Len(t) /\ \A i \in 1 .. Len(t) : Mapped(t)[i] = Plainly(t[i])
  <2>1. DOMAIN t = 1 .. Len(t) /\ Len(t) \in Nat /\ \A i \in 1 .. Len(t) : t[i] \in Characters  OBVIOUS
  <2>2. Mapped(t) = [i \in 1 .. Len(t) |-> Plainly(t[i])]  BY <2>1 DEF Mapped
  <2>3. \A i \in 1 .. Len(t) : Plainly(t[i]) \in Characters  BY <1>1, <2>1
  <2>. QED  BY <2>1, <2>2, <2>3
<1>3. PICK t : t = Append(s, x)  OBVIOUS
<1>4. t \in Seq(Characters) /\ Len(t) = Len(s) + 1 /\ (\A i \in 1 .. Len(s) : t[i] = s[i]) /\ t[Len(s) + 1] = x
  BY <1>3, OneMoreAt
<1>5. PICK u : u = Append(Mapped(s), Plainly(x))  OBVIOUS
<1>6. /\ u \in Seq(Characters) /\ Len(u) = Len(s) + 1 /\ (\A i \in 1 .. Len(s) : u[i] = Plainly(s[i]))
      /\ u[Len(s) + 1] = Plainly(x)
  <2>1. PICK y \in Characters : y = Plainly(x)  BY <1>1
  <2>2. PICK m \in Seq(Characters) : m = Mapped(s) /\ Len(m) = Len(s) /\ \A i \in 1 .. Len(s) : m[i] = Plainly(s[i])  BY <1>2
  <2>3. u = Append(m, y)  BY <1>5, <2>1, <2>2
  <2>4. u \in Seq(Characters) /\ Len(u) = Len(m) + 1 /\ (\A i \in 1 .. Len(m) : u[i] = m[i]) /\ u[Len(m) + 1] = y
    BY <2>3, OneMoreAt
  <2>. QED  BY <2>1, <2>2, <2>4
<1>7. PICK v : v = Mapped(t)  OBVIOUS
<1>8. v \in Seq(Characters) /\ Len(v) = Len(s) + 1 /\ \A i \in 1 .. Len(s) + 1 : v[i] = Plainly(t[i])
  BY <1>2, <1>4, <1>7
<1>9. \A i \in 1 .. Len(s) + 1 : v[i] = u[i]
  <2>1. \A i \in 1 .. Len(s) + 1 : i \in 1 .. Len(s) \/ i = Len(s) + 1  OBVIOUS
  <2>. QED  BY <1>4, <1>6, <1>8, <2>1
<1>10. v = u  BY <1>6, <1>8, <1>9, SeqEqual
<1>. QED  BY <1>2, <1>3, <1>5, <1>7, <1>10

\* What holds of no text and of every text with a character more holds of every text.
LEMMA OfEveryText ==
  ASSUME NEW P, <<>> \in P, \A s \in Seq(Characters) : s \in P => \A x \in Characters : Append(s, x) \in P,
         NEW text \in Seq(Characters)
  PROVE  text \in P
<1>. DEFINE T == {n \in Nat : \A s \in Seq(Characters) : Len(s) = n => s \in P}
<1>1. 0 \in T
  <2>1. \A s \in Seq(Characters) : Len(s) = 0 => s = <<>>  OBVIOUS
  <2>. QED  BY <2>1
<1>2. ASSUME NEW n \in T PROVE n + 1 \in T
  <2>. SUFFICES ASSUME NEW s \in Seq(Characters), Len(s) = n + 1 PROVE s \in P  OBVIOUS
  <2>1. n \in Nat /\ s[n + 1] \in Characters  OBVIOUS
  <2>2. PICK x \in Characters : x = s[n + 1]  BY <2>1
  <2>3. PICK t : t = SubSeq(s, 1, n)  OBVIOUS
  <2>4. t \in Seq(Characters) /\ Len(t) = n /\ \A i \in 1 .. n : t[i] = s[i]  BY <2>1, <2>3
  <2>5. s = Append(t, x)
    <3>1. PICK u : u = Append(t, x)  OBVIOUS
    <3>2. u \in Seq(Characters) /\ Len(u) = n + 1 /\ (\A i \in 1 .. n : u[i] = t[i]) /\ u[n + 1] = x  BY <2>1, <2>4, <3>1, OneMoreAt
    <3>3. \A i \in 1 .. n + 1 : u[i] = s[i]
      <4>1. \A i \in 1 .. n + 1 : i \in 1 .. n \/ i = n + 1  BY <2>1
      <4>. QED  BY <2>2, <2>4, <3>2, <4>1
    <3>. QED  BY <3>1, <3>2, <3>3, SeqEqual
  <2>6. t \in P  BY <2>4
  <2>. QED  BY <2>4, <2>5, <2>6
<1>3. T = Nat
  <2>. HIDE DEF T
  <2>1. T \in SUBSET Nat  BY DEF T
  <2>. QED  BY <1>1, <1>2, <2>1, Upwards
<1>4. Len(text) \in T  BY <1>3
<1>. QED  BY <1>4

\* What is left of a line as it is compared is what is seen of it, letter for letter.
LEMMA LeftIsSeen ==
  ASSUME NEW text \in Seq(Characters)
  PROVE  Of(Mapped(Of(text, Visible)), Plain) = Mapped(Of(text, Legible))
<1>. DEFINE P == {s \in Seq(Characters) : Of(Mapped(Of(s, Visible)), Plain) = Mapped(Of(s, Legible))}
<1>1. <<>> \in P
  <2>1. Mapped(<<>>) = <<>>  BY DEF Mapped
  <2>2. <<>> \in Seq(Characters)  BY EmptySeq
  <2>. QED  BY <2>1, <2>2, OfNone
<1>2. ASSUME NEW s \in Seq(Characters), s \in P, NEW x \in Characters PROVE Append(s, x) \in P
  <2>1. PICK v : v = Of(s, Visible)  OBVIOUS
  <2>2. PICK d : d = Of(s, Legible)  OBVIOUS
  <2>3. v \in Seq(Characters) /\ d \in Seq(Characters)  BY <2>1, <2>2, OfText
  <2>4. PICK m : m = Mapped(v)  OBVIOUS
  <2>5. m \in Seq(Characters) /\ Mapped(Append(v, x)) = Append(m, Plainly(x)) /\ Mapped(Append(d, x)) = Append(Mapped(d), Plainly(x))
    BY <2>3, <2>4, MappedText
  <2>6. Of(m, Plain) = Mapped(d)  BY <1>2, <2>1, <2>2, <2>4
  <2>7. /\ Plainly(x) \in Characters /\ (x \in Visible => (Plainly(x) \in Plain <=> x \in Legible))
        /\ x \notin Visible => x \notin Legible
    BY SeenAsRead
  <2>8. Of(Append(m, Plainly(x)), Plain) = IF Plainly(x) \in Plain THEN Append(Of(m, Plain), Plainly(x)) ELSE Of(m, Plain)
    <3>1. PICK y \in Characters : y = Plainly(x)  BY <2>7
    <3>2. Of(Append(m, y), Plain) = IF y \in Plain THEN Append(Of(m, Plain), y) ELSE Of(m, Plain)  BY <2>5, OfMore
    <3>. QED  BY <3>1, <3>2
  <2>9. Of(Append(s, x), Visible) = IF x \in Visible THEN Append(v, x) ELSE v  BY <2>1, OfMore
  <2>10. Of(Append(s, x), Legible) = IF x \in Legible THEN Append(d, x) ELSE d  BY <2>2, OfMore
  <2>11. Append(s, x) \in Seq(Characters)  BY OneMoreAt
  <2>12. Of(Mapped(Of(Append(s, x), Visible)), Plain) = Mapped(Of(Append(s, x), Legible))
    <3>1. CASE x \notin Visible  BY <2>4, <2>6, <2>7, <2>9, <2>10, <3>1
    <3>2. CASE x \in Visible /\ x \in Legible  BY <2>5, <2>6, <2>7, <2>8, <2>9, <2>10, <3>2
    <3>3. CASE x \in Visible /\ x \notin Legible  BY <2>5, <2>6, <2>7, <2>8, <2>9, <2>10, <3>3
    <3>. QED  BY <3>1, <3>2, <3>3
  <2>. QED  BY <2>11, <2>12
<1>. HIDE DEF P
<1>3. text \in P  BY <1>1, <1>2, OfEveryText
<1>. QED  BY <1>3 DEF P

LEMMA AllOf ==
  ASSUME NEW C, NEW text \in Seq(Characters), \A i \in 1 .. Len(text) : text[i] \in C
  PROVE  Of(text, C) = text
<1>. DEFINE P == {s \in Seq(Characters) : (\A i \in 1 .. Len(s) : s[i] \in C) => Of(s, C) = s}
<1>1. <<>> \in P
  <2>1. <<>> \in Seq(Characters)  BY EmptySeq
  <2>. QED  BY <2>1, OfNone
<1>2. ASSUME NEW s \in Seq(Characters), s \in P, NEW x \in Characters PROVE Append(s, x) \in P
  <2>1. PICK t : t = Append(s, x)  OBVIOUS
  <2>2. t \in Seq(Characters) /\ Len(t) = Len(s) + 1 /\ (\A i \in 1 .. Len(s) : t[i] = s[i]) /\ t[Len(s) + 1] = x
    BY <2>1, OneMoreAt
  <2>. SUFFICES ASSUME \A i \in 1 .. Len(t) : t[i] \in C PROVE Of(t, C) = t  BY <2>1, <2>2
  <2>3. x \in C
    <3>1. Len(s) + 1 \in 1 .. Len(t)  BY <2>2
    <3>. QED  BY <2>2, <3>1
  <2>4. \A i \in 1 .. Len(s) : s[i] \in C
    <3>1. \A i \in 1 .. Len(s) : i \in 1 .. Len(t)  BY <2>2
    <3>. QED  BY <2>2, <3>1
  <2>5. Of(s, C) = s  BY <1>2, <2>4
  <2>6. Of(Append(s, x), C) = IF x \in C THEN Append(Of(s, C), x) ELSE Of(s, C)  BY OfMore
  <2>. QED  BY <2>1, <2>3, <2>5, <2>6
<1>. HIDE DEF P
<1>3. text \in P  BY <1>1, <1>2, OfEveryText
<1>. QED  BY <1>3 DEF P

\* What is compared of a line of a bearable length is what is seen of it.
LEMMA ComparedIs ==
  ASSUME NEW text \in Seq(Characters)
  PROVE  CompactOf(Fold(text)) = Mapped(Of(text, Legible))
<1>1. DOMAIN text = 1 .. Len(text) /\ \A i \in DOMAIN text : text[i] \in Characters  OBVIOUS
<1>2. {i \in DOMAIN text : text[i] \notin Invisible} = {i \in DOMAIN text : text[i] \in Visible}
  BY <1>1 DEF Visible
<1>3. PICK v : v = Of(text, Visible)  OBVIOUS
<1>4. v \in Seq(Characters) /\ v = KeptAt(text, {i \in DOMAIN text : text[i] \notin Invisible})
  BY <1>2, <1>3, OfText DEF Of
<1>5. Fold(text) = Through(Homoglyphs, Through(Capitals, Through(Compatible, v)))  BY <1>4 DEF Fold, Normalise
<1>6. PICK lower : lower = Fold(text)  OBVIOUS
<1>7. DOMAIN lower = DOMAIN v /\ \A i \in DOMAIN v : lower[i] = Folded(v[i])
  BY <1>5, <1>6 DEF Through, Folded
<1>8. PICK m : m = Mapped(v)  OBVIOUS
<1>9. DOMAIN m = DOMAIN v /\ \A i \in DOMAIN v : m[i] = Plainly(v[i])  BY <1>8 DEF Mapped
<1>10. [i \in DOMAIN lower |-> LeetOf(lower[i])] = m
  <2>1. \A i \in DOMAIN v : LeetOf(lower[i]) = Plainly(v[i])  BY <1>7 DEF Plainly
  <2>2. [i \in DOMAIN lower |-> LeetOf(lower[i])] = [i \in DOMAIN v |-> Plainly(v[i])]  BY <1>7, <2>1
  <2>. QED  BY <1>8, <2>2 DEF Mapped
<1>11. CompactOf(lower) = KeptAt(m, {i \in DOMAIN lower : m[i] \in Letters \cup Digits})  BY <1>10 DEF CompactOf
<1>12. CompactOf(lower) = Of(m, Plain)  BY <1>7, <1>9, <1>11 DEF Of, Plain
<1>. QED  BY <1>3, <1>6, <1>8, <1>12, LeftIsSeen

LEMMA NeedleIs == Needle(ShopWord) = ShopWord /\ Len(ShopWord) = 5 /\ ShopWord \in Seq(Characters)
<1>1. Len(ShopWord) = 5 /\ DOMAIN ShopWord = 1 .. 5  BY DEF ShopWord
<1>2. ShopWord[1] = "s" /\ ShopWord[2] = "t" /\ ShopWord[3] = "o" /\ ShopWord[4] = "c" /\ ShopWord[5] = "k"  BY DEF ShopWord
<1>3. \A i \in 1 .. 5 : i = 1 \/ i = 2 \/ i = 3 \/ i = 4 \/ i = 5  OBVIOUS
<1>4. /\ "s" \in Characters /\ "t" \in Characters /\ "o" \in Characters /\ "c" \in Characters /\ "k" \in Characters
  BY DEF Characters
<1>5. ShopWord \in Seq(Characters)  BY <1>4 DEF ShopWord
<1>6. \A i \in 1 .. 5 : ShopWord[i] \in Plain
  <2>1. "s" \in Plain /\ "t" \in Plain /\ "o" \in Plain /\ "c" \in Plain /\ "k" \in Plain  BY DEF Plain, Letters
  <2>. QED  BY <1>2, <1>3, <2>1
<1>7. \A i \in 1 .. 5 : LeetOf(ShopWord[i]) = ShopWord[i]
  <2>1. LeetOf("s") = "s" /\ LeetOf("t") = "t" /\ LeetOf("o") = "o" /\ LeetOf("c") = "c" /\ LeetOf("k") = "k"  BY DEF LeetOf
  <2>. QED  BY <1>2, <1>3, <2>1
<1>8. PICK w : w = ShopWord  OBVIOUS
<1>9. w \in Seq(Characters) /\ Len(w) = 5 /\ DOMAIN w = 1 .. 5 /\ \A i \in 1 .. 5 : w[i] \in Plain /\ LeetOf(w[i]) = w[i]
  BY <1>1, <1>5, <1>6, <1>7, <1>8
<1>10. [i \in DOMAIN w |-> LeetOf(w[i])] = w
  <2>1. w = [i \in DOMAIN w |-> w[i]]  BY <1>9
  <2>. QED  BY <1>9, <2>1
<1>11. CompactOf(w) = KeptAt(w, {i \in DOMAIN w : w[i] \in Letters \cup Digits})  BY <1>10 DEF CompactOf
<1>12. CompactOf(w) = Of(w, Plain)  BY <1>11 DEF Of, Plain
<1>13. Of(w, Plain) = w  BY <1>9, AllOf
<1>. QED  BY <1>1, <1>5, <1>8, <1>12, <1>13 DEF Needle

\* A line that reads as the shop's word holds it, as it is compared.
ReadAs(text, word) ==
  LET drawn == KeptAt(text, {i \in DOMAIN text : Reads(text[i]) # ""})
  IN [i \in DOMAIN drawn |-> Reads(drawn[i])] = word

LEMMA WordIsHeld ==
  ASSUME NEW text \in Seq(Characters), ReadAs(text, ShopWord)
  PROVE  Holds(CompactOf(Fold(text)), Needle(ShopWord)) /\ text # <<>>
<1>1. DOMAIN text = 1 .. Len(text) /\ \A i \in DOMAIN text : text[i] \in Characters  OBVIOUS
<1>2. {i \in DOMAIN text : Reads(text[i]) # ""} = {i \in DOMAIN text : text[i] \in Legible}
  BY <1>1 DEF Legible
<1>3. PICK drawn : drawn = Of(text, Legible)  OBVIOUS
<1>4. drawn \in Seq(Characters)  BY <1>3, OfText
<1>5. DOMAIN drawn = 1 .. 5 /\ \A i \in 1 .. 5 : Reads(drawn[i]) = ShopWord[i] /\ drawn[i] \in Characters
  <2>1. PICK w : w = ShopWord  OBVIOUS
  <2>2. w = [i \in DOMAIN drawn |-> Reads(drawn[i])]  BY <1>2, <1>3, <2>1 DEF ReadAs, Of
  <2>3. w \in Seq(Characters) /\ Len(w) = 5  BY <2>1, NeedleIs
  <2>4. DOMAIN w = 1 .. 5  BY <2>3
  <2>5. DOMAIN drawn = 1 .. 5 /\ \A i \in 1 .. 5 : Reads(drawn[i]) = w[i]  BY <2>2, <2>4
  <2>6. \A i \in DOMAIN drawn : drawn[i] \in Characters  BY <1>4
  <2>. QED  BY <2>1, <2>5, <2>6
<1>6. \A i \in 1 .. 5 : ShopWord[i] \in {"s", "t", "o", "c", "k"}
  <2>1. ShopWord[1] = "s" /\ ShopWord[2] = "t" /\ ShopWord[3] = "o" /\ ShopWord[4] = "c" /\ ShopWord[5] = "k"  BY DEF ShopWord
  <2>2. \A i \in 1 .. 5 : i = 1 \/ i = 2 \/ i = 3 \/ i = 4 \/ i = 5  OBVIOUS
  <2>. QED  BY <2>1, <2>2
<1>7. \A i \in 1 .. 5 : Plainly(drawn[i]) = Reads(drawn[i])  BY <1>5, <1>6, SeenAsRead
<1>8. Mapped(drawn) = ShopWord
  <2>1. [i \in DOMAIN drawn |-> Reads(drawn[i])] = ShopWord  BY <1>2, <1>3 DEF ReadAs, Of
  <2>2. [i \in DOMAIN drawn |-> Plainly(drawn[i])] = [i \in DOMAIN drawn |-> Reads(drawn[i])]  BY <1>5, <1>7
  <2>. QED  BY <2>1, <2>2 DEF Mapped
<1>9. CompactOf(Fold(text)) = ShopWord  BY <1>3, <1>8, ComparedIs
<1>10. Holds(ShopWord, ShopWord)
  <2>1. PICK w : w = ShopWord  OBVIOUS
  <2>2. w \in Seq(Characters) /\ Len(w) = 5  BY <2>1, NeedleIs
  <2>3. SubSeq(w, 0 + 1, 0 + Len(w)) = w  BY <2>2
  <2>4. 0 \in 0 .. Len(w) - Len(w)  BY <2>2
  <2>5. Holds(w, w)  BY <2>3, <2>4 DEF Holds
  <2>. QED  BY <2>1, <2>5
<1>11. text # <<>>
  <2>. SUFFICES ASSUME text = <<>> PROVE FALSE  OBVIOUS
  <2>1. drawn = <<>>  BY <1>3, OfNone
  <2>. QED  BY <1>5, <2>1
<1>. QED  BY <1>9, <1>10, <1>11, NeedleIs

------------------------------------------------------------------------------
(* What the standing settings make of the line shown.                          *)

\* The lines are those of the world, or none was heard yet.
LEMMA ShownLine ==
  ASSUME ChatBoxInv
  PROVE  \/ cbShown = Unheard
         \/ \E line \in CbLines : cbShown.line = line /\ cbShown.out = Handled(line)
<1>1. cbShown = Unheard \/ \E line \in CbLines : cbShown = [line |-> line, out |-> Handled(line)]  BY DEF ChatBoxInv
<1>2. ASSUME NEW line, NEW out, cbShown = [line |-> line, out |-> out] PROVE cbShown.line = line /\ cbShown.out = out
  BY <1>2
<1>. QED  BY <1>1, <1>2

LEMMA UnheardIs ==
  /\ Unheard.line = Silence /\ Unheard.out.reason = "none"
  /\ Silence.sender = CbSystem /\ Silence.stars = 0
BY DEF Unheard, Silence

LEMMA OwnIsHeard == ASSUME ChatBoxInv PROVE OwnAndGameHeard
<1>1. CASE cbShown = Unheard  BY <1>1, UnheardIs DEF OwnAndGameHeard
<1>2. ASSUME NEW line \in CbLines, cbShown.line = line, cbShown.out = Handled(line) PROVE OwnAndGameHeard
  <2>. SUFFICES ASSUME line.stars < 0 \/ line.sender \in {CbSystem, CbNpc} \/ (line.own /\ cbName # "")
                PROVE  Handled(line).reason = "none"
    BY <1>2 DEF OwnAndGameHeard
  <2>1. Exempt(line)
    <3>1. line.own => CbBare[line.sender] = CbMe  BY ChatBoxAssumption
    <3>2. line.sender = CbNpc => line.stars < 0  BY ChatBoxAssumption
    <3>3. cbName # "" => CbBare[cbName] = CbMe  BY DEF ChatBoxInv
    <3>. QED  BY <3>1, <3>2, <3>3 DEF Exempt
  <2>2. Verdict(line) = "none"  BY <2>1 DEF Verdict
  <2>. QED  BY <2>2 DEF Handled
<1>. QED  BY <1>1, <1>2, ShownLine

LEMMA WordIsSeen == ASSUME ChatBoxInv PROVE SeenThrough
<1>1. CASE cbShown = Unheard
  <2>1. cbShown.line.sender \notin CbOthers  BY <1>1, UnheardIs, ChatBoxAssumption
  <2>. QED  BY <2>1 DEF SeenThrough
<1>2. ASSUME NEW line \in CbLines, cbShown.line = line, cbShown.out = Handled(line) PROVE SeenThrough
  <2>. DEFINE text == Body(line)
  <2>. SUFFICES ASSUME Len(text) <= CbMaxScanned, ReadAs(text, ShopWord),
                       cbFilters, "advertising" \in cbEnabled, line.sender \in CbOthers, line.stars >= 0,
                       ~line.opaque, ~MatchesAny(cbAllow, line.sender)
                PROVE  Handled(line).reason # "none"
    BY <1>2 DEF SeenThrough, ReadAs
  <2>1. text \in Seq(Characters)
    <3>1. text \in Seq(STRING)  BY ChatBoxAssumption DEF Body
    <3>2. STRING \subseteq Characters  BY DEF Characters
    <3>. QED  BY <3>1, <3>2, SeqMonotonic
  <2>2. Holds(CompactOf(Fold(text)), Needle(ShopWord)) /\ text # <<>>
    <3>1. PICK t : t = text  OBVIOUS
    <3>. HIDE DEF text
    <3>2. t \in Seq(Characters) /\ ReadAs(t, ShopWord)  BY <2>1, <3>1
    <3>3. Holds(CompactOf(Fold(t)), Needle(ShopWord)) /\ t # <<>>  BY <3>2, WordIsHeld
    <3>. QED  BY <3>1, <3>3
  <2>3. Cut(text) = text
    <3>1. Len(text) \in Nat  BY <2>1
    <3>2. CbMaxScanned \in Nat  BY ChatBoxAssumption
    <3>3. ~(Len(text) > CbMaxScanned)  BY <3>1, <3>2
    <3>. QED  BY <3>3 DEF Cut
  <2>4. "shop-word" \in Matching(text, line.reads)  BY <2>2, <2>3 DEF Matching
  <2>5. FirstSignal(text, line.reads) # "none"
    <3>. DEFINE found == {i \in DOMAIN SpamSignals : /\ SpamSignals[i][2] \in cbEnabled
                                                     /\ SpamSignals[i][1] \in Matching(text, line.reads)}
                least == CHOOSE i \in found : \A j \in found : i <= j
    <3>1. FirstSignal(text, line.reads) = IF found = {} THEN "none" ELSE SignalName(least)  BY DEF FirstSignal, SignalName
    <3>2. found \subseteq 1 .. 13  BY SignalsAre
    <3>3. 2 \in found  BY <2>4, SignalsAre DEF SignalName
    <3>. HIDE DEF found
    <3>4. \E i \in found : \A j \in found : i <= j
      <4>1. found \in SUBSET Nat  BY <3>2
      <4>. QED  BY <3>3, <4>1, LeastOne
    <3>5. least \in found  BY <3>4
    <3>. HIDE DEF least
    <3>6. SignalName(least) # "none"  BY <3>2, <3>5, SignalsAre
    <3>. QED  BY <3>1, <3>3, <3>6
  <2>6. ~Exempt(line)
    <3>1. line.sender # CbSystem /\ CbBare[line.sender] \notin {"", CbMe}  BY ChatBoxAssumption
    <3>2. cbName = "" \/ CbBare[cbName] = CbMe  BY DEF ChatBoxInv
    <3>3. CbBare[""] = ""  BY ChatBoxAssumption
    <3>4. CbBare[line.sender] # CbBare[cbName]  BY <3>1, <3>2, <3>3
    <3>5. ~(line.stars < 0)
      <4>1. line.stars \in Int  BY ChatBoxAssumption
      <4>. QED  BY <4>1
    <3>. QED  BY <3>1, <3>4, <3>5 DEF Exempt
  <2>7. Verdict(line) # "none"
    <3>1. cbEnabled # {}  OBVIOUS
    <3>. QED  BY <2>2, <2>5, <2>6, <3>1 DEF Verdict
  <2>. QED  BY <2>7 DEF Handled
<1>. QED  BY <1>1, <1>2, ShownLine

LEMMA NameIsHidden == ASSUME ChatBoxInv PROVE NotNamed
<1>1. CASE cbShown = Unheard  BY <1>1 DEF NotNamed
<1>2. ASSUME NEW line \in CbLines, cbShown.line = line, cbShown.out = Handled(line) PROVE NotNamed
  <2>. SUFFICES ASSUME cbStreams, ~line.opaque
                PROVE  /\ Own(line) => Handled(line).drawn.stars = CbStandIn
                       /\ cbName # "" /\ cbAlias = CbAlias =>
                            CbBare[Handled(line).drawn.sender] # CbMe /\ ~Handled(line).drawn.mentions
    BY <1>2 DEF NotNamed
  <2>1. Handled(line).drawn = Disguised(line)  BY DEF Handled
  <2>2. /\ Disguised(line).stars = IF Own(line) THEN CbStandIn ELSE line.stars
        /\ Disguised(line).mentions = (line.mentions /\ ~Rewrites)
        /\ Disguised(line).sender = IF Rewrites /\ (Own(line) \/ CbBare[line.sender] = CbBare[cbName]) THEN cbAlias ELSE line.sender
    BY DEF Disguised, Drawn
  <2>3. ASSUME cbName # "", cbAlias = CbAlias
        PROVE  CbBare[Disguised(line).sender] # CbMe /\ ~Disguised(line).mentions
    <3>1. CbBare[cbName] = CbMe  BY <2>3 DEF ChatBoxInv
    <3>2. Rewrites  BY <2>3, <3>1, ChatBoxAssumption DEF Rewrites
    <3>3. CbBare[CbAlias] # CbMe  BY ChatBoxAssumption
    <3>. QED  BY <2>2, <2>3, <3>1, <3>2, <3>3
  <2>. QED  BY <2>1, <2>2, <2>3
<1>. QED  BY <1>1, <1>2, ShownLine
------------------------------------------------------------------------------
(* Steering: what the module is told is the difference to the player's walking. *)

\* Rounding up takes a part of a step more, and no more than one.
LEMMA RoundedUp ==
  ASSUME NEW n \in Nat, NEW k \in Nat, k > 0
  PROVE  LET q == (n + k - 1) \div k IN q \in Int /\ (q > 1 => k * (q - 1) < n)
<1>. DEFINE q == (n + k - 1) \div k
<1>1. q \in Int /\ k * q <= n + k - 1  OBVIOUS
<1>2. k * (q - 1) = k * q - k  BY <1>1
<1>. HIDE DEF q
<1>3. k * (q - 1) < n
  <2>. DEFINE kq == k * q
              less == k * (q - 1)
  <2>1. kq \in Int /\ less \in Int  BY <1>1
  <2>2. kq <= n + k - 1 /\ less = kq - k  BY <1>1, <1>2
  <2>. HIDE DEF kq, less
  <2>3. less < n  BY <2>1, <2>2
  <2>. QED  BY <2>3 DEF less
<1>. QED  BY <1>1, <1>3 DEF q

\* By how much, and for how long: a plan that goes somewhere is followed at its own
\* speed at most, and without the player's at least at what is left of it.
LEMMA PushOf ==
  ASSUME NEW answer \in DgAnswers, NEW intent \in DgSides, answer.dir # 0
  PROVE  LET speed == IF answer.crowded THEN DgFull ELSE DgShare
             ahead == speed - answer.dir * intent * DgShare
             size  == IF ahead < speed THEN ahead ELSE speed
             walk  == WalkCommand(answer, intent, TRUE)
             ticks == (answer.steps + size - 1) \div size
         IN /\ ahead \in Nat /\ speed \in Nat /\ DgShare <= speed
            /\ ahead = 0 => walk = DgNoTarget
            /\ ahead > 0 => walk = DgWalk("dodge", answer.dir * size, IF ticks < DgHold THEN ticks ELSE DgHold)
<1>. DEFINE dir == answer.dir
            speed == IF answer.crowded THEN DgFull ELSE DgShare
            ahead == speed - dir * intent * DgShare
            against == intent * DgShare
            cancel == dir * speed - against
            want == IF cancel * dir >= 0 THEN cancel ELSE dir * speed
            size == IF ahead < speed THEN ahead ELSE speed
            ticks == (answer.steps + size - 1) \div size
            walk == WalkCommand(answer, intent, TRUE)
            gap == IF DgGap(want, 0) < speed THEN DgGap(want, 0) ELSE speed
<1>1. dir = -1 \/ dir = 1
  <2>1. answer \in [dir : {-1, 0, 1}, steps : 0 .. DgLast, crowded : BOOLEAN]  BY SteeringAssumption
  <2>. QED  BY <2>1
<1>2. intent \in {-1, 0, 1}  BY DEF DgSides
<1>3. DgShare \in Nat /\ DgFull \in Nat /\ DgShare > 0 /\ DgShare <= DgFull  BY SteeringAssumption
<1>4. speed \in Nat /\ DgShare <= speed /\ speed > 0  BY <1>3
<1>. HIDE DEF speed, dir
<1>5. ahead \in Nat /\ cancel = dir * ahead /\ cancel * dir = ahead /\ cancel \in Int
  <2>1. CASE dir = 1  BY <2>1, <1>2, <1>3, <1>4
  <2>2. CASE dir = -1  BY <2>2, <1>2, <1>3, <1>4
  <2>. QED  BY <2>1, <2>2, <1>1
<1>6. want = dir * ahead  BY <1>5
<1>. HIDE DEF ahead, cancel
<1>7. DgGap(want, 0) = ahead /\ DgSign(want) = (IF ahead = 0 THEN 0 ELSE dir) /\ (want = 0 <=> ahead = 0)
  <2>1. CASE dir = 1  BY <2>1, <1>5, <1>6 DEF DgGap, DgSign
  <2>2. CASE dir = -1  BY <2>2, <1>5, <1>6 DEF DgGap, DgSign
  <2>. QED  BY <2>1, <2>2, <1>1
<1>8. gap = size  BY <1>7
<1>9. walk = IF want = 0 THEN DgNoTarget
             ELSE DgWalk("dodge", DgSign(want) * gap, IF (answer.steps + gap - 1) \div gap < DgHold THEN (answer.steps + gap - 1) \div gap ELSE DgHold)
  <2>1. dir # 0  BY <1>1
  <2>. QED  BY <2>1 DEF WalkCommand, want, cancel, speed, dir
<1>. HIDE DEF want, gap, size
<1>10. walk = IF ahead = 0 THEN DgNoTarget ELSE DgWalk("dodge", dir * size, IF ticks < DgHold THEN ticks ELSE DgHold)
  BY <1>7, <1>8, <1>9
<1>11. ahead \in Nat /\ speed \in Nat /\ DgShare <= speed /\ (ahead > 0 => ahead # 0)  BY <1>4, <1>5
<1>. QED  BY <1>10, <1>11 DEF ahead, speed, dir, size

\* The push and its ticks as they should be, for a plan that goes the way `dir`.
PushFits(dir, steps, speed, intent, push, left) ==
  /\ (intent * DgShare + push) * dir >= 0
  /\ dir = 0 => intent * DgShare + push = 0
  /\ DgGap(push, 0) <= speed
  /\ left <= DgHold /\ (left > 1 /\ dir # 0 => DgGap(push, 0) * (left - 1) < steps)

LEMMA PushStands ==
  ASSUME NEW steps, NEW speed \in Nat, NEW intent \in {-1, 0, 1}, NEW push \in Int, NEW left \in Int,
         push = -(intent * DgShare), left <= DgHold, DgShare <= speed
  PROVE  PushFits(0, steps, speed, intent, push, left)
<1>1. DgShare \in Nat  BY SteeringAssumption
<1>. DEFINE mine == intent * DgShare
<1>2. mine \in {-DgShare, 0, DgShare}  BY <1>1
<1>3. push = -mine  OBVIOUS
<1>. HIDE DEF mine
<1>4. mine + push = 0 /\ DgGap(push, 0) <= speed  BY <1>1, <1>2, <1>3 DEF DgGap
<1>5. (mine + push) * 0 >= 0  BY <1>4
<1>. QED  BY <1>4, <1>5 DEF PushFits, mine

LEMMA PushRests ==
  ASSUME NEW steps, NEW speed \in Nat, NEW dir \in {-1, 1}, NEW intent \in {-1, 0, 1},
         speed - dir * intent * DgShare = 0
  PROVE  PushFits(dir, steps, speed, intent, 0, 0)
<1>1. DgShare \in Nat /\ DgHold \in Nat  BY SteeringAssumption
<1>2. (intent * DgShare + 0) * dir >= 0
  <2>1. CASE dir = 1  BY <2>1, <1>1
  <2>2. CASE dir = -1  BY <2>2, <1>1
  <2>. QED  BY <2>1, <2>2
<1>3. DgGap(0, 0) = 0 /\ dir # 0  BY DEF DgGap
<1>. QED  BY <1>1, <1>2, <1>3 DEF PushFits

LEMMA PushLeads ==
  ASSUME NEW steps \in Nat, NEW speed \in Nat, NEW dir \in {-1, 1}, NEW intent \in {-1, 0, 1}, DgShare <= speed,
         NEW size \in Nat, size > 0, size <= speed, speed - dir * intent * DgShare >= size,
         size = speed \/ size = speed - dir * intent * DgShare,
         NEW ticks \in Int, ticks > 1 => size * (ticks - 1) < steps,
         NEW push, push = dir * size, NEW left, left = IF ticks < DgHold THEN ticks ELSE DgHold
  PROVE  PushFits(dir, steps, speed, intent, push, left)
<1>1. DgShare \in Nat /\ DgHold \in Nat  BY SteeringAssumption
<1>2. push \in Int /\ DgGap(push, 0) = size
  <2>1. CASE dir = 1  BY <2>1 DEF DgGap
  <2>2. CASE dir = -1  BY <2>2 DEF DgGap
  <2>. QED  BY <2>1, <2>2
<1>3. (intent * DgShare + push) * dir >= 0
  <2>1. CASE dir = 1
    <3>1. CASE intent = -1  BY <3>1, <2>1, <1>1
    <3>2. CASE intent = 0  BY <3>2, <2>1, <1>1
    <3>3. CASE intent = 1  BY <3>3, <2>1, <1>1
    <3>. QED  BY <3>1, <3>2, <3>3
  <2>2. CASE dir = -1
    <3>1. CASE intent = -1  BY <3>1, <2>2, <1>1
    <3>2. CASE intent = 0  BY <3>2, <2>2, <1>1
    <3>3. CASE intent = 1  BY <3>3, <2>2, <1>1
    <3>. QED  BY <3>1, <3>2, <3>3
  <2>. QED  BY <2>1, <2>2
<1>4. left \in Int /\ left <= DgHold /\ left <= ticks  BY <1>1
<1>5. ASSUME left > 1 PROVE size * (left - 1) < steps
  <2>1. ticks > 1  BY <1>4, <1>5
  <2>. DEFINE more == size * (ticks - 1)
              less == size * (left - 1)
  <2>2. less <= more /\ less \in Int /\ more \in Int
    <3>1. ticks - left \in Nat  BY <1>4
    <3>2. \A d \in Nat : size * d >= 0  OBVIOUS
    <3>3. size * (ticks - left) >= 0  BY <3>1, <3>2
    <3>4. size * (ticks - left) = size * (ticks - 1) - size * (left - 1)  BY <1>4
    <3>5. size * (ticks - 1) \in Int /\ size * (left - 1) \in Int  BY <1>4
    <3>. QED  BY <3>3, <3>4, <3>5
  <2>3. more < steps  BY <2>1
  <2>. HIDE DEF more, less
  <2>4. less < steps  BY <2>2, <2>3
  <2>. QED  BY <2>4 DEF less
<1>. QED  BY <1>2, <1>3, <1>4, <1>5 DEF PushFits

\* For any shares, holds and answers.
LEMMA PushIs == PushIsTheDifference
<1>1. SUFFICES ASSUME NEW answer \in DgAnswers, NEW intent \in DgSides, NEW walk, walk = WalkCommand(answer, intent, TRUE)
      PROVE PushFits(answer.dir, answer.steps, IF answer.crowded THEN DgFull ELSE DgShare, intent, walk.push, walk.left)
  BY DEF PushIsTheDifference, PushFits
<1>2. answer.dir \in {-1, 0, 1} /\ answer.steps \in Nat /\ intent \in {-1, 0, 1}
  <2>1. answer \in [dir : {-1, 0, 1}, steps : 0 .. DgLast, crowded : BOOLEAN]  BY SteeringAssumption
  <2>2. DgLast \in Nat  BY SteeringAssumption
  <2>. QED  BY <2>1, <2>2 DEF DgSides
<1>. DEFINE dir == answer.dir
            steps == answer.steps
            speed == IF answer.crowded THEN DgFull ELSE DgShare
<1>3. DgShare \in Nat /\ DgShare > 0 /\ DgShare <= speed /\ speed \in Nat /\ DgHold \in Nat /\ DgHold > 0
  BY SteeringAssumption
<1>4. DgNoTarget.push = 0 /\ DgNoTarget.left = 0  BY DEF DgNoTarget, DgWalk
<1>5. CASE dir = 0
  <2>1. walk = IF intent # 0 THEN DgWalk("dodge", -intent * DgShare, DgHold) ELSE DgNoTarget
    BY <1>1, <1>5 DEF WalkCommand
  <2>2. walk.push = -(intent * DgShare) /\ walk.left \in Int /\ walk.left <= DgHold
    <3>1. CASE intent = 0  BY <3>1, <2>1, <1>4, <1>3
    <3>2. CASE intent = 1  BY <3>2, <2>1, <1>3 DEF DgWalk
    <3>3. CASE intent = -1  BY <3>3, <2>1, <1>3 DEF DgWalk
    <3>. QED  BY <3>1, <3>2, <3>3, <1>2
  <2>3. walk.push \in Int  BY <2>2, <1>2, <1>3
  <2>. HIDE DEF speed, dir, steps
  <2>4. PushFits(0, steps, speed, intent, walk.push, walk.left)  BY <2>2, <2>3, <1>2, <1>3, PushStands
  <2>. QED  BY <2>4, <1>5 DEF speed, dir, steps
<1>6. CASE dir # 0
  <2>. DEFINE ahead == speed - dir * intent * DgShare
              size == IF ahead < speed THEN ahead ELSE speed
              ticks == (steps + size - 1) \div size
  <2>1. /\ ahead \in Nat
        /\ ahead = 0 => walk = DgNoTarget
        /\ ahead > 0 => walk = DgWalk("dodge", dir * size, IF ticks < DgHold THEN ticks ELSE DgHold)
    BY <1>1, <1>6, PushOf
  <2>2. dir \in {-1, 1} /\ steps \in Nat  BY <1>2, <1>6
  <2>. HIDE DEF speed, dir, steps
  <2>3. CASE ahead = 0
    <3>1. walk.push = 0 /\ walk.left = 0  BY <2>1, <2>3, <1>4
    <3>2. PushFits(dir, steps, speed, intent, 0, 0)  BY <2>2, <2>3, <1>2, <1>3, PushRests
    <3>. QED  BY <3>1, <3>2 DEF speed, dir, steps
  <2>4. CASE ahead > 0
    <3>. HIDE DEF ahead
    <3>1. size \in Nat /\ size > 0 /\ size <= speed /\ ahead >= size /\ (size = speed \/ size = ahead)  BY <2>1, <2>4, <1>3
    <3>2. walk.push = dir * size /\ walk.left = IF ticks < DgHold THEN ticks ELSE DgHold  BY <2>1, <2>4 DEF DgWalk
    <3>. HIDE DEF size
    <3>3. ticks \in Int /\ (ticks > 1 => size * (ticks - 1) < steps)  BY <3>1, <2>2, RoundedUp
    <3>4. PushFits(dir, steps, speed, intent, walk.push, walk.left)
      <4>. HIDE DEF ticks
      <4>. QED  BY <3>1, <3>2, <3>3, <2>2, <1>2, <1>3, PushLeads DEF ahead
    <3>. QED  BY <3>4 DEF speed, dir, steps
  <2>. QED  BY <2>1, <2>3, <2>4
<1>. QED  BY <1>5, <1>6
------------------------------------------------------------------------------
(* Walls: what is left of the lease, by when it was claimed and since when it  *)
(* is not wanted.                                                              *)

ClaimInv ==
  /\ amOn \in BOOLEAN /\ amWalls \in BOOLEAN /\ amClaiming \in BOOLEAN /\ amWanted \in BOOLEAN
  /\ amClaimedAgo \in 0 .. AmInterval /\ amLeft \in 0 .. AmLease /\ amUnwanted \in 0 .. AmLease
  /\ amClaiming /\ amClaimedAgo < AmInterval => amLeft >= AmLease - amClaimedAgo
  /\ amWanted => amLeft > 0
  /\ amLeft <= AmLease - amUnwanted

LEMMA ClaimStarts == AimInit => ClaimInv
<1>. SUFFICES ASSUME AimInit PROVE ClaimInv  OBVIOUS
<1>1. AmInterval \in Nat /\ AmInterval > 0 /\ AmLease \in Nat /\ AmLease > AmInterval  BY AimAssumption
<1>2. amOn \in BOOLEAN /\ amWalls \in BOOLEAN /\ amClaiming \in BOOLEAN /\ amWanted \in BOOLEAN  BY Zenon DEF AimInit
<1>3. ~amClaiming /\ ~amWanted /\ amClaimedAgo = AmInterval /\ amLeft = 0 /\ amUnwanted = AmLease  BY DEF AimInit
<1>4. amClaimedAgo \in 0 .. AmInterval /\ amLeft \in 0 .. AmLease /\ amUnwanted \in 0 .. AmLease /\ amLeft <= AmLease - amUnwanted
  BY <1>1, <1>3
<1>. QED  BY <1>2, <1>3, <1>4 DEF ClaimInv

LEMMA ClaimKept == ASSUME ClaimInv, [AimDecides \/ AimClaims]_amVars PROVE ClaimInv'
<1>1. AmInterval \in Nat /\ AmInterval > 0 /\ AmLease \in Nat /\ AmLease > AmInterval  BY AimAssumption
<1>. DEFINE still == UNCHANGED <<amClaim, amUnwanted, amWanted>>
<1>2. CASE still /\ amOn' \in BOOLEAN /\ amWalls' \in BOOLEAN  BY <1>2 DEF ClaimInv, amClaim
<1>3. CASE AimPlan
  <2>. DEFINE ago == IF amClaimedAgo = AmInterval THEN AmInterval ELSE amClaimedAgo + 1
  <2>1. /\ amOn /\ amOn' = amOn /\ amWalls' = amWalls /\ amWanted' = (amOn /\ amWalls)
        /\ amUnwanted' = IF amOn /\ amWalls THEN 0 ELSE IF amUnwanted = AmLease THEN AmLease ELSE amUnwanted + 1
    BY <1>3 DEF AimPlan, Stood
  <2>2. \/ /\ IF amWalls THEN amClaiming /\ ago < AmInterval ELSE ~amClaiming
           /\ amClaimedAgo' = ago /\ amLeft' = (IF amLeft = 0 THEN 0 ELSE amLeft - 1) /\ amClaiming' = amClaiming
        \/ amClaiming' = amWalls /\ amClaimedAgo' = 0 /\ amLeft' = IF amWalls THEN AmLease ELSE 0
    BY <1>3 DEF AimPlan, ClaimWalls
  <2>5. amWanted' \in BOOLEAN /\ amOn' \in BOOLEAN /\ amWalls' \in BOOLEAN  BY <2>1 DEF ClaimInv
  <2>6. amUnwanted' \in 0 .. AmLease  BY <1>1, <2>1 DEF ClaimInv
  <2>3. CASE amWalls
    <3>1. amUnwanted' = 0 /\ amWanted'  BY <2>1, <2>3
    <3>2. CASE amClaiming /\ ago < AmInterval /\ amClaimedAgo' = ago /\ amLeft' = (IF amLeft = 0 THEN 0 ELSE amLeft - 1) /\ amClaiming' = amClaiming
      <4>1. amClaimedAgo < AmInterval /\ ago = amClaimedAgo + 1 /\ amLeft >= AmLease - amClaimedAgo  BY <3>2, <1>1 DEF ClaimInv
      <4>2. amLeft > 0 /\ amLeft' = amLeft - 1 /\ amLeft' >= AmLease - ago /\ amLeft' > 0  BY <4>1, <3>2, <1>1 DEF ClaimInv
      <4>3. amClaiming' \in BOOLEAN  BY <3>2 DEF ClaimInv
      <4>4. amClaimedAgo' \in 0 .. AmInterval /\ amLeft' \in 0 .. AmLease  BY <4>1, <4>2, <3>2, <1>1 DEF ClaimInv
      <4>5. amLeft' <= AmLease - amUnwanted'  BY <4>4, <3>1, <1>1
      <4>. QED  BY <2>5, <2>6, <3>2, <4>2, <4>3, <4>4, <4>5 DEF ClaimInv
    <3>3. CASE amClaiming' = amWalls /\ amClaimedAgo' = 0 /\ amLeft' = AmLease
      <4>1. amClaiming' \in BOOLEAN  BY <3>3 DEF ClaimInv
      <4>2. amClaimedAgo' \in 0 .. AmInterval /\ amLeft' \in 0 .. AmLease /\ amLeft' <= AmLease - amUnwanted' /\ amLeft' > 0
            /\ amLeft' >= AmLease - amClaimedAgo'
        BY <3>1, <3>3, <1>1
      <4>. QED  BY <2>5, <2>6, <4>1, <4>2 DEF ClaimInv
    <3>. QED  BY <2>2, <2>3, <3>2, <3>3
  <2>4. CASE ~amWalls  BY <1>1, <2>1, <2>2, <2>4 DEF ClaimInv
  <2>. QED  BY <2>3, <2>4
<1>4. CASE AimIdle  BY <1>1, <1>4 DEF AimIdle, Stood, ClaimInv
<1>5. CASE AimToggle  BY <1>2, <1>5 DEF AimToggle, ClaimInv
<1>6. CASE AimWalls  BY <1>2, <1>6 DEF AimWalls, ClaimInv
<1>7. CASE AimWorld  BY <1>2, <1>7 DEF AimWorld, ClaimInv
<1>8. CASE AimSet  BY <1>2, <1>8 DEF AimSet, ClaimInv
<1>9. CASE UNCHANGED amVars  BY <1>2, <1>9 DEF amVars, amClaim, ClaimInv
<1>. QED  BY <1>3, <1>4, <1>5, <1>6, <1>7, <1>8, <1>9 DEF AimDecides, AimClaims

LEMMA WallsHeld == ClaimInv => WallsAsWanted
BY AimAssumption DEF ClaimInv, WallsAsWanted
------------------------------------------------------------------------------
(* Callouts: what waits was seen and waits once; what was called was seen once; *)
(* and what stood in a map that has settled was seen while it did.             *)

Distinct(s) == \A i, j \in DOMAIN s : s[i] = s[j] => i = j

\* Lists of different things: one more of them, the rest of them, two of them, the last of them.
LEMMA OneMoreDistinct ==
  ASSUME NEW S, NEW s \in Seq(S), NEW x \in S, Distinct(s), x \notin Among(s)
  PROVE  Append(s, x) \in Seq(S) /\ Distinct(Append(s, x)) /\ Among(Append(s, x)) = Among(s) \cup {x}
<1>1. Append(s, x) \in Seq(S) /\ Len(Append(s, x)) = Len(s) + 1 /\ Len(s) \in Nat  OBVIOUS
<1>2. \A i \in 1 .. Len(s) : Append(s, x)[i] = s[i] /\ s[i] # x  BY DEF Among
<1>3. Append(s, x)[Len(s) + 1] = x  OBVIOUS
<1>4. DOMAIN s = 1 .. Len(s) /\ DOMAIN Append(s, x) = 1 .. Len(s) + 1  OBVIOUS
<1>5. \A i \in 1 .. Len(s) + 1 : i \in 1 .. Len(s) \/ i = Len(s) + 1  BY <1>1
<1>6. \A i \in 1 .. Len(s) : i \in 1 .. Len(s) + 1  BY <1>1
<1>7. Len(s) + 1 \in 1 .. Len(s) + 1  BY <1>1
<1>. DEFINE more == Append(s, x)
            last == Len(s) + 1
            first == 1 .. Len(s)
            all == 1 .. Len(s) + 1
<1>8. /\ DOMAIN s = first /\ DOMAIN more = all /\ more[last] = x /\ last \in all
      /\ \A i \in first : more[i] = s[i] /\ s[i] # x /\ i \in all
      /\ \A i \in all : i \in first \/ i = last
  BY <1>2, <1>3, <1>4, <1>5, <1>6, <1>7
<1>. HIDE DEF more, last, first, all
<1>9. Distinct(more)  BY <1>8 DEF Distinct
<1>10. Among(more) = Among(s) \cup {x}  BY <1>8 DEF Among
<1>. QED  BY <1>1, <1>9, <1>10 DEF more

LEMMA RestDistinct ==
  ASSUME NEW S, NEW s \in Seq(S), Distinct(s), s # <<>>
  PROVE  /\ Head(s) \in S /\ Head(s) \in Among(s) /\ Tail(s) \in Seq(S) /\ Len(Tail(s)) = Len(s) - 1
         /\ Distinct(Tail(s)) /\ Among(Tail(s)) \subseteq Among(s) /\ Head(s) \notin Among(Tail(s))
<1>1. Len(s) \in Nat /\ Len(s) > 0 /\ Tail(s) \in Seq(S) /\ Len(Tail(s)) = Len(s) - 1 /\ Head(s) = s[1]  OBVIOUS
<1>2. DOMAIN s = 1 .. Len(s) /\ DOMAIN Tail(s) = 1 .. Len(s) - 1  BY <1>1
<1>3. \A i \in 1 .. Len(s) - 1 : Tail(s)[i] = s[i + 1] /\ i + 1 \in 1 .. Len(s) /\ i + 1 # 1  BY <1>1
<1>4. 1 \in 1 .. Len(s) /\ s[1] \in S  BY <1>1
<1>5. Distinct(Tail(s))  BY <1>2, <1>3 DEF Distinct
<1>6. Among(Tail(s)) \subseteq Among(s) /\ s[1] \in Among(s)  BY <1>2, <1>3, <1>4 DEF Among
<1>7. s[1] \notin Among(Tail(s))  BY <1>2, <1>3, <1>4 DEF Among, Distinct
<1>. QED  BY <1>1, <1>4, <1>5, <1>6, <1>7

LEMMA TwoDistinct ==
  ASSUME NEW S, NEW s \in Seq(S), NEW t \in Seq(S), Distinct(s), Distinct(t), Among(s) \cap Among(t) = {}
  PROVE  s \o t \in Seq(S) /\ Distinct(s \o t) /\ Among(s \o t) = Among(s) \cup Among(t)
<1>1. s \o t \in Seq(S) /\ Len(s \o t) = Len(s) + Len(t) /\ Len(s) \in Nat /\ Len(t) \in Nat  OBVIOUS
<1>. DEFINE all == s \o t
            n == Len(s)
            m == Len(t)
<1>2. DOMAIN s = 1 .. n /\ DOMAIN t = 1 .. m /\ DOMAIN all = 1 .. n + m  BY <1>1
<1>3. \A i \in 1 .. n : all[i] = s[i]  OBVIOUS
<1>4. \A i \in 1 .. m : all[n + i] = t[i]  OBVIOUS
<1>5. n \in Nat /\ m \in Nat  BY <1>1
<1>. HIDE DEF all, n, m
<1>6. ASSUME NEW i \in 1 .. n + m PROVE i \in 1 .. n \/ (i - n \in 1 .. m /\ all[i] = t[i - n])
  <2>1. i \in 1 .. n \/ (i - n \in 1 .. m /\ n + (i - n) = i)  BY <1>5
  <2>. QED  BY <1>4, <2>1
<1>7. Distinct(all)
  <2>1. SUFFICES ASSUME NEW i \in 1 .. n + m, NEW j \in 1 .. n + m, all[i] = all[j] PROVE i = j  BY <1>2 DEF Distinct
  <2>2. CASE i \in 1 .. n /\ j \in 1 .. n  BY <1>2, <1>3, <2>1, <2>2 DEF Distinct
  <2>3. CASE i \in 1 .. n /\ j - n \in 1 .. m /\ all[j] = t[j - n]
    BY <1>2, <1>3, <2>1, <2>3 DEF Among
  <2>4. CASE j \in 1 .. n /\ i - n \in 1 .. m /\ all[i] = t[i - n]
    BY <1>2, <1>3, <2>1, <2>4 DEF Among
  <2>5. CASE i - n \in 1 .. m /\ all[i] = t[i - n] /\ j - n \in 1 .. m /\ all[j] = t[j - n]
    <3>1. i - n = j - n  BY <1>2, <2>1, <2>5 DEF Distinct
    <3>. QED  BY <3>1, <1>5
  <2>. QED  BY <1>6, <2>2, <2>3, <2>4, <2>5
<1>8. Among(all) = Among(s) \cup Among(t)
  <2>1. ASSUME NEW x \in Among(all) PROVE x \in Among(s) \cup Among(t)
    <3>1. PICK i \in 1 .. n + m : all[i] = x  BY <1>2, <2>1 DEF Among
    <3>. QED  BY <1>2, <1>3, <1>6, <3>1 DEF Among
  <2>2. ASSUME NEW i \in 1 .. n PROVE s[i] \in Among(all)
    <3>1. i \in 1 .. n + m  BY <1>5
    <3>. QED  BY <1>2, <1>3, <3>1 DEF Among
  <2>3. ASSUME NEW i \in 1 .. m PROVE t[i] \in Among(all)
    <3>1. n + i \in 1 .. n + m  BY <1>5
    <3>. QED  BY <1>2, <1>4, <3>1 DEF Among
  <2>. QED  BY <1>2, <2>1, <2>2, <2>3 DEF Among
<1>. QED  BY <1>1, <1>7, <1>8 DEF all

LEMMA NewestDistinct ==
  ASSUME NEW S, NEW s \in Seq(S), Distinct(s), NEW most \in Nat
  PROVE  /\ Newest(s, most) \in Seq(S) /\ Len(Newest(s, most)) <= most
         /\ Distinct(Newest(s, most)) /\ Among(Newest(s, most)) \subseteq Among(s)
<1>1. Len(s) \in Nat /\ DOMAIN s = 1 .. Len(s)  OBVIOUS
<1>2. CASE Len(s) <= most
  <2>1. Newest(s, most) = s  BY <1>1, <1>2 DEF Newest
  <2>. QED  BY <1>2, <2>1
<1>3. CASE Len(s) > most
  <2>. DEFINE off == Len(s) - most
              new == SubSeq(s, off + 1, Len(s))
  <2>1. Newest(s, most) = new  BY <1>3 DEF Newest
  <2>2. off \in Nat /\ off + most = Len(s) /\ off > 0  BY <1>1, <1>3
  <2>3. new \in Seq(S) /\ Len(new) = most /\ \A i \in 1 .. most : new[i] = s[off + i] /\ off + i \in 1 .. Len(s)
    <3>1. \A i \in off + 1 .. Len(s) : s[i] \in S  BY <2>2, <1>1
    <3>2. Len(s) - (off + 1) + 1 = most /\ off + 1 <= Len(s) + 1  BY <2>2, <1>1
    <3>3. new = [i \in 1 .. Len(s) - (off + 1) + 1 |-> s[off + 1 + i - 1]]  OBVIOUS
    <3>. HIDE DEF new, off
    <3>4. \A i \in 1 .. most : off + 1 + i - 1 = off + i /\ off + i \in 1 .. Len(s) /\ off + i \in off + 1 .. Len(s)
      BY <2>2, <1>1
    <3>5. new = [i \in 1 .. most |-> s[off + 1 + i - 1]]  BY <3>2, <3>3
    <3>6. \A i \in 1 .. most : new[i] = s[off + i]
      <4>. TAKE i \in 1 .. most
      <4>1. new[i] = s[off + 1 + i - 1]  BY <3>5
      <4>2. off + 1 + i - 1 = off + i  BY <3>4
      <4>. QED  BY <4>1, <4>2
    <3>7. new \in [1 .. most -> S]  BY <3>1, <3>4, <3>5
    <3>8. new \in Seq(S) /\ Len(new) = most  BY <3>7
    <3>. QED  BY <3>4, <3>6, <3>8
  <2>. HIDE DEF new, off
  <2>4. DOMAIN new = 1 .. most  BY <2>3
  <2>5. Distinct(new)
    <3>1. SUFFICES ASSUME NEW i \in 1 .. most, NEW j \in 1 .. most, new[i] = new[j] PROVE i = j  BY <2>4 DEF Distinct
    <3>2. off + i = off + j  BY <1>1, <2>3, <3>1 DEF Distinct
    <3>. QED  BY <3>2, <2>2
  <2>6. Among(new) \subseteq Among(s)  BY <1>1, <2>3, <2>4 DEF Among
  <2>. QED  BY <2>1, <2>3, <2>5, <2>6
<1>. QED  BY <1>1, <1>2, <1>3

\* The portals of a set, in their order.
PortalIds == Among(CoPortals)
Nearest(f, portals) ==
  f = [n \in 0 .. Len(CoPortals) |->
         IF n = 0 THEN <<>> ELSE IF CoPortals[n] \in portals THEN Append(f[n - 1], CoPortals[n]) ELSE f[n - 1]]

LEMMA NearestAre ==
  ASSUME NEW portals \in SUBSET PortalIds
  PROVE  /\ NearestFirst(portals) \in Seq(PortalIds) /\ Distinct(NearestFirst(portals))
         /\ Among(NearestFirst(portals)) = portals
<1>. DEFINE N == Len(CoPortals)
            S == PortalIds
            G == [t \in (1 .. N) \X Seq(S) |-> IF CoPortals[t[1]] \in portals THEN Append(t[2], CoPortals[t[1]]) ELSE t[2]]
            nothing == <<>>
            order == CoPortals
<1>1. /\ N \in Nat /\ DOMAIN order = 1 .. N /\ nothing \in Seq(S) /\ \A n \in 1 .. N : order[n] \in S
      /\ \A i, j \in 1 .. N : order[i] = order[j] => i = j
  <2>1. order \in Seq({order[i] : i \in DOMAIN order})  BY CalloutsAssumption
  <2>2. N \in Nat /\ DOMAIN order = 1 .. N  BY <2>1
  <2>. QED  BY <2>2, CalloutsAssumption DEF PortalIds, Among
<1>2. S = {order[n] : n \in 1 .. N}  BY <1>1 DEF PortalIds, Among
<1>. HIDE DEF N, S, order
<1>3. G \in [(1 .. N) \X Seq(S) -> Seq(S)]
  <2>1. \A t \in (1 .. N) \X Seq(S) : t[1] \in 1 .. N /\ t[2] \in Seq(S)  OBVIOUS
  <2>2. \A n \in 1 .. N, b \in Seq(S) : Append(b, order[n]) \in Seq(S)  BY <1>1
  <2>. QED  BY <2>1, <2>2 DEF order
<1>4. \A n \in 1 .. N, b \in Seq(S) : G[<<n, b>>] = IF order[n] \in portals THEN Append(b, order[n]) ELSE b  BY DEF order
<1>. HIDE DEF G, nothing
<1>5. PICK g : IsRun(g, Seq(S), nothing, N, G)  BY <1>1, <1>3, Recursion
<1>6. g \in [0 .. N -> Seq(S)] /\ g[0] = nothing /\ \A n \in 1 .. N : g[n] = G[<<n, g[n - 1]>>]  BY <1>5 DEF IsRun
<1>7. ASSUME NEW n \in 0 .. N
      PROVE g[n] = IF n = 0 THEN <<>> ELSE IF order[n] \in portals THEN Append(g[n - 1], order[n]) ELSE g[n - 1]
  <2>1. CASE n = 0  BY <1>6, <2>1 DEF nothing
  <2>2. CASE n # 0
    <3>1. n \in 1 .. N /\ n - 1 \in 0 .. N  BY <1>1, <2>2
    <3>2. g[n - 1] \in Seq(S)  BY <1>6, <3>1
    <3>3. g[n] = G[<<n, g[n - 1]>>]  BY <1>6, <3>1
    <3>. QED  BY <1>4, <2>2, <3>1, <3>2, <3>3
  <2>. QED  BY <2>1, <2>2
<1>8. Nearest(g, portals)
  <2>1. g = [n \in 0 .. N |-> g[n]]  BY <1>6
  <2>2. g = [n \in 0 .. N |-> IF n = 0 THEN <<>> ELSE IF order[n] \in portals THEN Append(g[n - 1], order[n]) ELSE g[n - 1]]
    BY <1>7, <2>1
  <2>. QED  BY <2>2 DEF Nearest, N, order
<1>. DEFINE f == CHOOSE h : Nearest(h, portals)
<1>9. Nearest(f, portals)  BY <1>8
<1>10. NearestFirst(portals) = f[N]  BY DEF NearestFirst, Nearest, N
<1>. HIDE DEF f
<1>11. \A n \in 0 .. N : f[n] = IF n = 0 THEN <<>> ELSE IF order[n] \in portals THEN Append(f[n - 1], order[n]) ELSE f[n - 1]
  BY <1>9 DEF Nearest, N, order
<1>. DEFINE Given(n) == {order[k] : k \in 1 .. n} \cap portals
            Is(n, s) == s \in Seq(S) /\ Distinct(s) /\ Among(s) = Given(n)
            T == {n \in Nat : n <= N => Is(n, f[n])}
<1>12. 0 \in T
  <2>1. f[0] = <<>>  BY <1>1, <1>11
  <2>2. <<>> \in Seq(S) /\ Distinct(<<>>) /\ Among(<<>>) = {}  BY DEF Distinct, Among
  <2>3. Given(0) = {}  OBVIOUS
  <2>. QED  BY <2>1, <2>2, <2>3
<1>13. ASSUME NEW n \in T PROVE n + 1 \in T
  <2>1. n \in Nat /\ n + 1 \in Nat  OBVIOUS
  <2>2. SUFFICES ASSUME n + 1 <= N PROVE Is(n + 1, f[n + 1])  BY <2>1
  <2>3. n + 1 \in 0 .. N /\ n + 1 # 0 /\ (n + 1) - 1 = n /\ n + 1 \in 1 .. N /\ n <= N  BY <1>1, <2>1, <2>2
  <2>4. f[n + 1] = IF order[n + 1] \in portals THEN Append(f[n], order[n + 1]) ELSE f[n]  BY <1>11, <2>3
  <2>5. Is(n, f[n])  BY <2>3
  <2>. DEFINE x == order[n + 1]
              s == f[n]
  <2>6. Given(n + 1) = Given(n) \cup ({x} \cap portals)
    <3>1. \A k \in 1 .. n + 1 : k \in 1 .. n \/ k = n + 1  BY <2>1
    <3>2. \A k \in 1 .. n : k \in 1 .. n + 1  BY <2>1
    <3>3. n + 1 \in 1 .. n + 1  BY <2>1
    <3>. QED  BY <3>1, <3>2, <3>3
  <2>7. x \notin Given(n)
    <3>1. \A k \in 1 .. n : k \in 1 .. N /\ k # n + 1  BY <2>1, <2>3, <1>1
    <3>. QED  BY <1>1, <2>3, <3>1
  <2>8. x \in S  BY <1>1, <2>3
  <2>. HIDE DEF x, s, Given
  <2>9. CASE x \in portals
    <3>1. Append(s, x) \in Seq(S) /\ Distinct(Append(s, x)) /\ Among(Append(s, x)) = Among(s) \cup {x}
      BY <2>5, <2>7, <2>8, OneMoreDistinct DEF s
    <3>2. f[n + 1] = Append(s, x)  BY <2>4, <2>9 DEF x, s
    <3>. QED  BY <2>5, <2>6, <2>9, <3>1, <3>2 DEF s
  <2>10. CASE x \notin portals
    <3>1. f[n + 1] = f[n] /\ Given(n + 1) = Given(n)  BY <2>4, <2>6, <2>10 DEF x
    <3>. QED  BY <2>5, <3>1
  <2>. QED  BY <2>9, <2>10
<1>14. T = Nat
  <2>. HIDE DEF T
  <2>1. T \in SUBSET Nat  BY DEF T
  <2>. QED  BY <1>12, <1>13, <2>1, Upwards
<1>15. Is(N, f[N])
  <2>1. N \in Nat /\ N <= N  BY <1>1
  <2>2. N \in T
    <3>. HIDE DEF N, T
    <3>. QED  BY <2>1, <1>14
  <2>. HIDE DEF Is, N
  <2>. QED  BY <2>1, <2>2
<1>16. Given(N) = portals  BY <1>2 DEF S
<1>. QED  BY <1>10, <1>15, <1>16 DEF S

\* While nothing was missed.
NewsOnly(on, seen, used, old, pending, called, there, settles) ==
  /\ on /\ seen \subseteq used
  /\ old \cap (Among(pending) \cup Among(called)) = {}
  /\ settles = CoNever \/ settles > 1 \/ \A p \in old \cap there : CoDistance[p] <= CoReach => p \in seen

NewsInv ==
  /\ coOn \in BOOLEAN /\ coMissed \in BOOLEAN
  /\ coCalled \in Seq(PortalIds) /\ Distinct(coCalled)
  /\ coPending \in Seq(PortalIds) /\ Distinct(coPending) /\ Len(coPending) <= CoMaxPending
  /\ Among(coPending) \cup Among(coCalled) \subseteq coSeen /\ Among(coPending) \cap Among(coCalled) = {}
  /\ coThere \subseteq coUsed /\ coUsed \subseteq PortalIds /\ coOld \subseteq coUsed
  /\ ~coMissed => NewsOnly(coOn, coSeen, coUsed, coOld, coPending, coCalled, coThere, coSettles)

LEMMA NoNews == <<>> \in Seq(PortalIds) /\ Distinct(<<>>) /\ Among(<<>>) = {} /\ Len(<<>>) = 0
BY DEF Distinct, Among

LEMMA NewsStarts == CalloutsInit => NewsInv
<1>. SUFFICES ASSUME CalloutsInit PROVE NewsInv  OBVIOUS
<1>1. coOn /\ ~coMissed /\ coOn \in BOOLEAN /\ coMissed \in BOOLEAN  BY Zenon DEF CalloutsInit
<1>2. /\ coCalled = <<>> /\ coPending = <<>> /\ coSeen = {} /\ coThere = {} /\ coUsed = {} /\ coOld = {} /\ coSettles = CoNever
  BY DEF CalloutsInit
<1>3. 0 <= CoMaxPending  BY CalloutsAssumption
<1>. QED  BY <1>1, <1>2, <1>3, NoNews DEF NewsInv, NewsOnly

\* What a tick makes of the portals.
LEMMA HeardAre ==
  ASSUME NewsInv, NEW settling \in BOOLEAN
  PROVE  LET heard == Heard(settling)
         IN /\ heard.seen = coSeen \cup Announceable
            /\ heard.pending \in Seq(PortalIds) /\ Distinct(heard.pending) /\ Len(heard.pending) <= CoMaxPending
            /\ Among(heard.pending) \subseteq Among(coPending) \cup (Announceable \ coSeen)
            /\ settling => heard.pending = coPending
<1>1. Announceable \subseteq PortalIds  BY DEF NewsInv, Announceable
<1>. DEFINE fresh == NearestFirst(Announceable \ coSeen)
            all == coPending \o fresh
<1>2. fresh \in Seq(PortalIds) /\ Distinct(fresh) /\ Among(fresh) = Announceable \ coSeen
  <2>. DEFINE news == Announceable \ coSeen
  <2>1. news \in SUBSET PortalIds  BY <1>1
  <2>. HIDE DEF news
  <2>2. NearestFirst(news) \in Seq(PortalIds) /\ Distinct(NearestFirst(news)) /\ Among(NearestFirst(news)) = news
    BY <2>1, NearestAre
  <2>. QED  BY <2>2 DEF news
<1>3. /\ Heard(settling).seen = coSeen \cup Announceable
      /\ Heard(settling).pending = IF settling THEN coPending ELSE Newest(all, CoMaxPending)
  BY DEF Heard
<1>. HIDE DEF fresh
<1>4. Among(coPending) \cap Among(fresh) = {}  BY <1>2 DEF NewsInv
<1>. DEFINE waits == coPending
<1>5. waits \in Seq(PortalIds) /\ Distinct(waits)  BY DEF NewsInv
<1>6. all \in Seq(PortalIds) /\ Distinct(all) /\ Among(all) = Among(coPending) \cup Among(fresh)
  BY <1>2, <1>4, <1>5, TwoDistinct
<1>7. CoMaxPending \in Nat  BY CalloutsAssumption
<1>. HIDE DEF all
<1>8. /\ Newest(all, CoMaxPending) \in Seq(PortalIds) /\ Len(Newest(all, CoMaxPending)) <= CoMaxPending
      /\ Distinct(Newest(all, CoMaxPending)) /\ Among(Newest(all, CoMaxPending)) \subseteq Among(all)
  BY <1>6, <1>7, NewestDistinct
<1>. QED  BY <1>2, <1>3, <1>6, <1>8 DEF NewsInv

LEMMA NewsTick == ASSUME CalloutsInv, NewsInv, CalloutTick PROVE NewsInv'
<1>. DEFINE settles == IF coSettles = CoNever THEN CoSettle ELSE Less(coSettles)
            settling == settles > 0
            heard == Heard(settling)
            call == coOn /\ heard.pending # <<>> /\ CallDue(Older(coSince))
<1>1. /\ UNCHANGED <<coOn, coThere, coOld, coUsed, coMissed>>
      /\ coOn => /\ coSeen' = heard.seen /\ coSettles' = settles
                 /\ coPending' = IF call THEN Tail(heard.pending) ELSE heard.pending
                 /\ coCalled' = IF call THEN Append(coCalled, Head(heard.pending)) ELSE coCalled
      /\ ~coOn => UNCHANGED <<coSeen, coPending, coCalled>>
  BY DEF CalloutTick
<1>2. settling \in BOOLEAN  OBVIOUS
<1>3. ~settling => coSettles # CoNever /\ ~(coSettles > 1)
  BY CalloutsAssumption DEF CalloutsInv, Less
<1>. HIDE DEF settles, settling
<1>4. /\ heard.seen = coSeen \cup Announceable
      /\ heard.pending \in Seq(PortalIds) /\ Distinct(heard.pending) /\ Len(heard.pending) <= CoMaxPending
      /\ Among(heard.pending) \subseteq Among(coPending) \cup (Announceable \ coSeen)
      /\ settling => heard.pending = coPending
  BY <1>2, HeardAre
<1>. DEFINE waits == heard.pending
<1>. HIDE DEF heard
<1>5. CASE ~coOn
  <2>1. coMissed  BY <1>5 DEF NewsInv, NewsOnly
  <2>. QED  BY <1>1, <1>5, <2>1 DEF NewsInv
<1>6. CASE coOn
  <2>1. /\ Among(waits) \subseteq coSeen' /\ Among(coCalled) \subseteq coSeen' /\ Among(waits) \cap Among(coCalled) = {}
    BY <1>1, <1>4, <1>6 DEF NewsInv
  <2>2. Announceable \subseteq coUsed  BY DEF NewsInv, Announceable
  <2>3. ASSUME ~coMissed
        PROVE /\ coSeen' \subseteq coUsed /\ coOld \cap (Among(waits) \cup Among(coCalled)) = {}
              /\ \A p \in coOld \cap coThere : CoDistance[p] <= CoReach => p \in coSeen'
    <3>1. NewsOnly(coOn, coSeen, coUsed, coOld, coPending, coCalled, coThere, coSettles)  BY <2>3 DEF NewsInv
    <3>2. coSeen' \subseteq coUsed  BY <1>1, <1>4, <1>6, <2>2, <3>1 DEF NewsOnly
    <3>3. \A p \in coOld \cap coThere : CoDistance[p] <= CoReach => p \in coSeen'
      BY <1>1, <1>4, <1>6 DEF Announceable
    <3>4. coOld \cap Among(coCalled) = {} /\ coOld \cap Among(coPending) = {}  BY <3>1 DEF NewsOnly
    <3>5. CASE settling  BY <1>4, <3>2, <3>3, <3>4, <3>5
    <3>6. CASE ~settling
      <4>1. \A p \in coOld \cap coThere : CoDistance[p] <= CoReach => p \in coSeen  BY <1>3, <3>1, <3>6 DEF NewsOnly
      <4>2. coOld \cap (Announceable \ coSeen) = {}  BY <4>1 DEF Announceable
      <4>3. coOld \cap Among(waits) = {}  BY <1>4, <3>4, <4>2
      <4>. QED  BY <3>2, <3>3, <3>4, <4>3
    <3>. QED  BY <3>5, <3>6
  <2>4. CASE ~call
    <3>1. coPending' = waits /\ coCalled' = coCalled  BY <1>1, <1>6, <2>4
    <3>2. ~coMissed => NewsOnly(coOn, coSeen', coUsed, coOld, waits, coCalled, coThere, coSettles')
      BY <1>6, <2>3 DEF NewsOnly
    <3>. QED  BY <1>1, <1>4, <2>1, <3>1, <3>2 DEF NewsInv
  <2>5. CASE call
    <3>. DEFINE first == Head(waits)
                rest == Tail(waits)
                more == Append(coCalled, first)
                before == coCalled
    <3>1. coPending' = rest /\ coCalled' = more /\ waits # <<>>  BY <1>1, <1>6, <2>5
    <3>. HIDE DEF waits
    <3>2. /\ first \in PortalIds /\ first \in Among(waits) /\ rest \in Seq(PortalIds) /\ Len(rest) = Len(waits) - 1
          /\ Distinct(rest) /\ Among(rest) \subseteq Among(waits) /\ first \notin Among(rest)
      BY <1>4, <3>1, RestDistinct DEF waits
    <3>3. before \in Seq(PortalIds) /\ Distinct(before)  BY DEF NewsInv
    <3>4. first \notin Among(before)  BY <2>1, <3>2
    <3>. HIDE DEF first, rest, before
    <3>5. /\ Append(before, first) \in Seq(PortalIds) /\ Distinct(Append(before, first))
          /\ Among(Append(before, first)) = Among(before) \cup {first}
      BY <3>2, <3>3, <3>4, OneMoreDistinct
    <3>6. more \in Seq(PortalIds) /\ Distinct(more) /\ Among(more) = Among(coCalled) \cup {first}
      BY <3>5 DEF before
    <3>. HIDE DEF more
    <3>7. Len(rest) <= CoMaxPending
      <4>1. Len(waits) \in Nat /\ Len(waits) <= CoMaxPending /\ CoMaxPending \in Nat  BY <1>4, CalloutsAssumption DEF waits
      <4>. QED  BY <3>2, <4>1
    <3>8. Among(rest) \cup Among(more) \subseteq coSeen' /\ Among(rest) \cap Among(more) = {}
      BY <2>1, <3>2, <3>6
    <3>9. ~coMissed => NewsOnly(coOn, coSeen', coUsed, coOld, rest, more, coThere, coSettles')
      BY <1>6, <2>3, <3>2, <3>6 DEF NewsOnly
    <3>. QED  BY <1>1, <3>1, <3>2, <3>6, <3>7, <3>8, <3>9 DEF NewsInv
  <2>. QED  BY <2>4, <2>5
<1>. QED  BY <1>5, <1>6 DEF NewsInv

LEMMA NewsKept == ASSUME CalloutsInv, NewsInv, [CalloutsNext]_coVars PROVE NewsInv'
<1>1. CASE UNCHANGED coVars  BY <1>1 DEF coVars, NewsInv
<1>2. CASE CalloutTick  BY <1>2, NewsTick
<1>3. ASSUME NEW p \in PortalIds, Opens(p) PROVE NewsInv'
  <2>1. /\ p \notin coUsed /\ coUsed' = coUsed \cup {p} /\ coThere' = coThere \cup {p}
        /\ coOld' = IF coSettles = CoNever \/ coSettles > 1 THEN coOld \cup {p} ELSE coOld
        /\ UNCHANGED <<coOn, coSeen, coPending, coSettles, coCalled, coMissed>>
    BY <1>3 DEF Opens
  <2>2. ASSUME ~coMissed PROVE NewsOnly(coOn, coSeen, coUsed', coOld', coPending, coCalled, coThere', coSettles)
    <3>1. NewsOnly(coOn, coSeen, coUsed, coOld, coPending, coCalled, coThere, coSettles)  BY <2>2 DEF NewsInv
    <3>2. p \notin Among(coPending) \cup Among(coCalled)  BY <2>1, <3>1 DEF NewsInv, NewsOnly
    <3>3. coOld' \cap (Among(coPending) \cup Among(coCalled)) = {}  BY <2>1, <3>1, <3>2 DEF NewsOnly
    <3>4. coSettles = CoNever \/ coSettles > 1 \/ \A q \in coOld' \cap coThere' : CoDistance[q] <= CoReach => q \in coSeen
      <4>1. SUFFICES ASSUME ~(coSettles = CoNever \/ coSettles > 1), NEW q \in coOld' \cap coThere', CoDistance[q] <= CoReach
                     PROVE q \in coSeen
        OBVIOUS
      <4>2. q \in coOld /\ q # p  BY <2>1, <4>1 DEF NewsInv
      <4>3. q \in coThere  BY <2>1, <4>1, <4>2
      <4>. QED  BY <3>1, <4>1, <4>2, <4>3 DEF NewsOnly
    <3>. QED  BY <2>1, <3>1, <3>3, <3>4 DEF NewsOnly
  <2>. QED  BY <1>3, <2>1, <2>2 DEF NewsInv
<1>4. ASSUME NEW p \in PortalIds, Closes(p) PROVE NewsInv'
  BY <1>4 DEF Closes, NewsInv, NewsOnly
<1>5. CASE CalloutMap \/ CalloutGone
  <2>1. /\ coThere' = {} /\ coOld' = {} /\ coUsed' = {} /\ coCalled' = <<>> /\ coMissed' = ~coOn /\ coOn' = coOn
        /\ \/ coSeen' = {} /\ coPending' = <<>> /\ coSettles' \in {CoSettle, CoNever}
           \/ ~coOn /\ UNCHANGED <<coSeen, coPending>>
    BY <1>5 DEF CalloutMap, CalloutGone, Arrived, NewState
  <2>2. coOn' \in BOOLEAN /\ coMissed' \in BOOLEAN /\ (~coMissed' => coOn /\ coOn')
    <3>1. coOn \in BOOLEAN  BY DEF NewsInv
    <3>2. coMissed' = ~coOn /\ coOn' = coOn  BY <2>1
    <3>. QED  BY Zenon, <3>1, <3>2
  <2>3. (coSeen' = {} /\ coPending' = <<>>) \/ UNCHANGED <<coSeen, coPending>>  BY <2>1
  <2>4. /\ coPending' \in Seq(PortalIds) /\ Distinct(coPending') /\ Len(coPending') <= CoMaxPending
        /\ Among(coPending') \subseteq coSeen' /\ coCalled' \in Seq(PortalIds) /\ Distinct(coCalled') /\ Among(coCalled') = {}
    <3>1. 0 <= CoMaxPending  BY CalloutsAssumption
    <3>. QED  BY <2>1, <2>3, <3>1, NoNews DEF NewsInv
  <2>5. ASSUME ~coMissed' PROVE NewsOnly(coOn', coSeen', coUsed', coOld', coPending', coCalled', coThere', coSettles')
    <3>1. coSeen' = {} /\ coOn'  BY <2>1, <2>2, <2>5
    <3>. QED  BY <2>1, <3>1 DEF NewsOnly
  <2>. QED  BY <2>1, <2>2, <2>4, <2>5 DEF NewsInv
<1>6. CASE CalloutToggle  BY <1>6 DEF CalloutToggle, NewsInv
<1>. QED  BY <1>1, <1>2, <1>3, <1>4, <1>5, <1>6 DEF CalloutsNext, PortalIds

LEMMA NewsTold == CalloutsInv /\ NewsInv => OnceAndOnlyNews /\ CalloutsTypeOK
BY DEF CalloutsInv, NewsInv, NewsOnly, OnceAndOnlyNews, CalloutsTypeOK, Distinct
------------------------------------------------------------------------------
(* Meeting: where a shot meets what moves straight on, at the first time that  *)
(* is not past, whatever the speeds.                                           *)

LEMMA Scaled ==
  ASSUME NEW k \in Int, k > 0, NEW a \in Int, NEW b \in Int
  PROVE  (a < b <=> k * a < k * b) /\ (a <= b <=> k * a <= k * b) /\ (a = b <=> k * a = k * b) /\ k * a \in Int
<1>1. \A n \in Nat : n > 0 => k * n > 0
  <2>. DEFINE T == {n \in Nat : n > 0 => k * n > 0}
  <2>1. 0 \in T /\ \A n \in T : n + 1 \in T
    <3>1. \A n \in Nat : k * (n + 1) = k * n + k /\ k * n \in Int  OBVIOUS
    <3>2. k * 0 = 0  OBVIOUS
    <3>3. ASSUME NEW n \in T PROVE n + 1 \in T
      <4>1. n \in Nat /\ n + 1 \in Nat /\ k * n >= 0  BY <3>2
      <4>. QED  BY <3>1, <4>1
    <3>. QED  BY <3>3
  <2>. HIDE DEF T
  <2>2. T = Nat
    <3>1. T \in SUBSET Nat  BY DEF T
    <3>. QED  BY <2>1, <3>1, Upwards
  <2>. QED  BY <2>2 DEF T
<1>2. k * a \in Int /\ k * b \in Int /\ k * (b - a) = k * b - k * a /\ k * (a - b) = k * a - k * b  OBVIOUS
<1>3. a < b => k * a < k * b
  <2>1. a < b => b - a \in Nat /\ b - a > 0  OBVIOUS
  <2>. QED  BY <1>1, <1>2, <2>1
<1>4. b < a => k * b < k * a
  <2>1. b < a => a - b \in Nat /\ a - b > 0  OBVIOUS
  <2>. QED  BY <1>1, <1>2, <2>1
<1>5. a = b => k * a = k * b  OBVIOUS
<1>. DEFINE ka == k * a
            kb == k * b
<1>6. ka \in Int /\ kb \in Int /\ (a < b => ka < kb) /\ (b < a => kb < ka) /\ (a = b => ka = kb)  BY <1>2, <1>3, <1>4, <1>5
<1>. HIDE DEF ka, kb
<1>7. (a < b <=> ka < kb) /\ (a <= b <=> ka <= kb) /\ (a = b <=> ka = kb)  BY <1>6
<1>. QED  BY <1>6, <1>7 DEF ka, kb

LEMMA SameRoot == ASSUME NEW r \in Nat, NEW q \in Nat, r * r = q * q PROVE r = q
<1>1. ASSUME NEW x \in Nat, NEW y \in Nat, x < y PROVE x * x < y * y
  <2>1. y > 0 /\ x \in Int /\ y \in Int  BY <1>1
  <2>2. y * x < y * y  BY <1>1, <2>1, Scaled
  <2>3. x * x <= x * y
    <3>1. CASE x = 0  BY <3>1
    <3>2. CASE x > 0  BY <1>1, <2>1, <3>2, Scaled
    <3>. QED  BY <3>1, <3>2
  <2>4. x * y = y * x  OBVIOUS
  <2>. DEFINE xx == x * x
              xy == x * y
              yy == y * y
  <2>5. xx \in Int /\ xy \in Int /\ yy \in Int /\ xx <= xy /\ xy < yy  BY <2>2, <2>3, <2>4
  <2>. HIDE DEF xx, xy, yy
  <2>6. xx < yy  BY <2>5
  <2>. QED  BY <2>6 DEF xx, yy
<1>2. r < q \/ q < r \/ r = q  OBVIOUS
<1>3. CASE r < q  BY <1>1, <1>3
<1>4. CASE q < r  BY <1>1, <1>4
<1>. QED  BY <1>2, <1>3, <1>4

\* The times come from the two speeds at which the gap closes.
LEMMA CandidatesAre ==
  ASSUME NEW d \in Int, d # 0, NEW v \in Int, NEW S \in Nat, S > 0
  PROVE  LET p == S - v
             q == -(S + v)
         IN FlightTime(v * v - S * S, d * v, d * d)
              = IF p * q = 0 THEN IF d * v >= 0 THEN {} ELSE {<<d * d, -2 * (d * v)>>}
                ELSE {t \in {Frac(d * q, p * q), Frac(d * p, p * q)} : t[1] >= 0}
<1>. DEFINE p == S - v
            q == -(S + v)
            a == v * v - S * S
            b == d * v
            c == d * d
            disc == b * b - a * c
            root == CHOOSE r \in 0 .. disc : r * r = disc
            e == IF d < 0 THEN -(d * S) ELSE d * S
<1>1. a = p * q  OBVIOUS
<1>2. c # 0
  <2>1. d \in Nat \/ -d \in Nat  OBVIOUS
  <2>2. c = d * d /\ c = (-d) * (-d)  OBVIOUS
  <2>3. \A n \in Nat : n * n = 0 => n = 0
    <3>1. 0 * 0 = 0 /\ 0 \in Nat  OBVIOUS
    <3>. QED  BY <3>1, SameRoot
  <2>4. -d # 0  OBVIOUS
  <2>. HIDE DEF c
  <2>. QED  BY <2>1, <2>2, <2>3, <2>4
<1>3. disc = e * e
  <2>1. disc = (d * S) * (d * S)
    <3>1. b * b = d * d * (v * v) /\ a * c = d * d * (v * v) - d * d * (S * S)  OBVIOUS
    <3>2. (d * S) * (d * S) = d * d * (S * S)  OBVIOUS
    <3>. DEFINE bb == b * b
                ac == a * c
                vv == d * d * (v * v)
                ss == d * d * (S * S)
    <3>3. bb \in Int /\ ac \in Int /\ vv \in Int /\ ss \in Int /\ bb = vv /\ ac = vv - ss  BY <3>1
    <3>. HIDE DEF bb, ac, vv, ss
    <3>4. bb - ac = ss  BY <3>3
    <3>. QED  BY <3>2, <3>4 DEF bb, ac, ss
  <2>2. (d * S) * (d * S) = (-(d * S)) * (-(d * S))  OBVIOUS
  <2>. HIDE DEF disc
  <2>. QED  BY <2>1, <2>2
<1>4. e \in Nat
  <2>1. S * 0 = 0 /\ S * d = d * S /\ S \in Int  OBVIOUS
  <2>2. 0 < d => S * 0 < S * d  BY Scaled, <2>1
  <2>3. d < 0 => S * d < S * 0  BY Scaled, <2>1
  <2>. DEFINE ds == d * S
  <2>4. ds \in Int /\ (0 < d => 0 < ds) /\ (d < 0 => ds < 0)  BY <2>1, <2>2, <2>3
  <2>. HIDE DEF ds
  <2>5. (IF d < 0 THEN -ds ELSE ds) \in Nat  BY <2>4
  <2>. QED  BY <2>5 DEF ds
<1>. HIDE DEF e, disc
<1>5. e \in 0 .. disc
  <2>1. CASE e = 0  BY <1>3, <2>1
  <2>2. CASE e > 0
    <3>1. e * 1 <= e * e  BY <1>4, <2>2, Scaled
    <3>2. e * 1 = e /\ e * e \in Int  BY <1>4
    <3>. QED  BY <1>3, <1>4, <3>1, <3>2
  <2>. QED  BY <1>4, <2>1, <2>2
<1>6. root \in 0 .. disc /\ root * root = disc  BY <1>3, <1>5
<1>7. root = e
  <2>1. root \in Nat  BY <1>6
  <2>. HIDE DEF root
  <2>. QED  BY <1>3, <1>4, <1>6, <2>1, SameRoot
<1>. DEFINE less == -b - root
            more == -b + root
<1>8. {less, more} = {d * q, d * p}
  <2>. HIDE DEF root
  <2>1. d * q = -b - d * S /\ d * p = -b + d * S  OBVIOUS
  <2>2. CASE d < 0
    <3>1. e = -(d * S)  BY <2>2 DEF e
    <3>2. less = d * p /\ more = d * q
      <4>. DEFINE ds == d * S
      <4>1. ds \in Int /\ b \in Int  OBVIOUS
      <4>. HIDE DEF ds, b
      <4>2. -b - (-ds) = -b + ds /\ -b + (-ds) = -b - ds  BY <4>1
      <4>3. root = -ds  BY <1>7, <3>1 DEF ds
      <4>. QED  BY <2>1, <4>2, <4>3 DEF ds
    <3>. QED  BY <3>2
  <2>3. CASE ~(d < 0)
    <3>1. e = d * S  BY <2>3 DEF e
    <3>. QED  BY <1>7, <2>1, <3>1
  <2>. QED  BY <2>2, <2>3
<1>9. FlightTime(a, b, c) = IF a = 0 THEN IF b >= 0 THEN {} ELSE {<<c, -2 * b>>}
                            ELSE {t \in {Frac(less, a), Frac(more, a)} : t[1] >= 0}
  BY <1>2 DEF FlightTime, disc
<1>. HIDE DEF less, more
<1>10. {Frac(less, a), Frac(more, a)} = {Frac(d * q, a), Frac(d * p, a)}
  <2>. DEFINE dq == d * q
              dp == d * p
  <2>. HIDE DEF dq, dp, a
  <2>1. {less, more} = {dq, dp}  BY <1>8 DEF dq, dp
  <2>2. (less = dq /\ more = dp) \/ (less = dp /\ more = dq)  BY <2>1
  <2>3. {Frac(less, a), Frac(more, a)} = {Frac(dq, a), Frac(dp, a)}  BY <2>2
  <2>. QED  BY <2>3 DEF dq, dp
<1>. HIDE DEF a, b, c
<1>11. FlightTime(a, b, c) = IF p * q = 0 THEN IF b >= 0 THEN {} ELSE {<<c, -2 * b>>}
                             ELSE {t \in {Frac(d * q, p * q), Frac(d * p, p * q)} : t[1] >= 0}
  BY <1>1, <1>9, <1>10
<1>. QED  BY <1>11 DEF a, b, c

IsTime(t) == t = <<t[1], t[2]>> /\ t[1] \in Nat /\ t[2] \in Nat /\ t[2] > 0

\* A fraction is the same with its signs turned, and its denominator is not negative then.
LEMMA FracIs ==
  ASSUME NEW n \in Int, NEW m \in Int, m # 0
  PROVE  \E k \in {-1, 1} : Frac(n, m) = <<k * n, k * m>> /\ k * m > 0
<1>1. CASE m < 0
  <2>1. Frac(n, m) = <<-n, -m>> /\ (-1) * n = -n /\ (-1) * m = -m /\ -m > 0  BY <1>1 DEF Frac
  <2>. QED  BY <2>1
<1>2. CASE m > 0
  <2>1. Frac(n, m) = <<n, m>> /\ 1 * n = n /\ 1 * m = m  BY <1>2 DEF Frac
  <2>. QED  BY <1>2, <2>1
<1>. QED  BY <1>1, <1>2

\* When the gap d closes at the speed p or q: the time d / p, and what it is a time of.
LEMMA OneTime ==
  ASSUME NEW d \in Int, NEW p \in Int, NEW q \in Int, p * q # 0, NEW t, t = Frac(d * q, p * q)
  PROVE  /\ t[1] \in Int /\ t[2] \in Nat /\ t[2] > 0 /\ t = <<t[1], t[2]>> /\ d * t[2] = t[1] * p
         /\ \A n \in Nat, m \in Nat : d * m = n * p => t[1] * m = n * t[2]
<1>. DEFINE dq == d * q
            pq == p * q
<1>1. dq \in Int /\ pq \in Int /\ pq # 0  OBVIOUS
<1>2. PICK k \in {-1, 1} : t = <<k * dq, k * pq>> /\ k * pq > 0
  <2>. HIDE DEF dq, pq
  <2>1. \E k \in {-1, 1} : Frac(dq, pq) = <<k * dq, k * pq>> /\ k * pq > 0  BY <1>1, FracIs
  <2>. QED  BY <2>1 DEF dq, pq
<1>3. k \in Int  OBVIOUS
<1>4. t[1] = k * dq /\ t[2] = k * pq  BY <1>2
<1>5. t[1] \in Int /\ t[2] \in Nat /\ t[2] > 0 /\ t = <<t[1], t[2]>>
  <2>. HIDE DEF dq, pq
  <2>1. k * dq \in Int /\ k * pq \in Int  BY <1>1, <1>3
  <2>. QED  BY <1>2, <1>4, <2>1
<1>6. d * (k * pq) = (k * dq) * p  BY <1>3
<1>7. ASSUME NEW n \in Nat, NEW m \in Nat, d * m = n * p PROVE (k * dq) * m = n * (k * pq)
  <2>1. (k * dq) * m = (k * q) * (d * m)  BY <1>3
  <2>2. n * (k * pq) = (k * q) * (n * p)  BY <1>3
  <2>. QED  BY <1>7, <2>1, <2>2
<1>. QED  BY <1>4, <1>5, <1>6, <1>7

\* Whoever is met is met from one of the two sides.
\* The speeds at which what closes in meets the shot from one side and the other.
ClosingSpeeds(p, q, S, v) == p = S - v /\ q = -(S + v)
MeetsAs(d, v, S, n, m, p, q) == Far(d * m + v * n) = S * n <=> d * m = n * p \/ d * m = n * q
LEMMA MetFrom ==
  ASSUME NEW d \in Int, NEW v \in Int, NEW S \in Nat, S > 0, NEW n \in Nat, NEW m \in Nat, m > 0,
         NEW p, NEW q, ClosingSpeeds(p, q, S, v)
  PROVE  MeetsAs(d, v, S, n, m, p, q)
<1>. DEFINE dm == d * m
            vn == v * n
            sn == S * n
<1>1. dm \in Int /\ vn \in Int /\ sn \in Int  OBVIOUS
<1>2. sn >= 0
  <2>1. S * 0 <= S * n  BY Scaled
  <2>2. S * 0 = 0  OBVIOUS
  <2>. QED  BY <2>1, <2>2
<1>3. n * p = sn - vn /\ n * q = -sn - vn  BY DEF ClosingSpeeds
<1>. HIDE DEF dm, vn, sn
<1>4. Far(dm + vn) = sn <=> (dm + vn = sn \/ dm + vn = -sn)  BY <1>1, <1>2 DEF Far
<1>5. (dm + vn = sn <=> dm = sn - vn) /\ (dm + vn = -sn <=> dm = -sn - vn)  BY <1>1
<1>. QED  BY <1>3, <1>4, <1>5 DEF dm, vn, sn, MeetsAs

TimesMeet(times, d, v, S) ==
  /\ \A t \in times : IsTime(t) /\ Far(d * t[2] + v * t[1]) = S * t[1]
  /\ \A n \in Nat, m \in Nat : m > 0 /\ Far(d * m + v * n) = S * n => \E t \in times : t[1] * m = n * t[2]

\* Of two times with one denominator, or fewer, one is first.
LEMMA OneIsFirst ==
  ASSUME NEW times, NEW one, NEW other, times \subseteq {one, other}, \A t \in times : IsTime(t)
  PROVE  /\ \A t \in times : \E first \in Least(times) : Sooner(first, t)
         /\ Least(times) \subseteq times
<1>1. ASSUME NEW t \in times, NEW u \in times PROVE Sooner(t, u) \/ Sooner(u, t)
  <2>. DEFINE a == t[1] * u[2]
              b == u[1] * t[2]
  <2>1. t[1] \in Nat /\ t[2] \in Nat /\ u[1] \in Nat /\ u[2] \in Nat  BY DEF IsTime
  <2>2. a \in Int /\ b \in Int  BY <2>1
  <2>. HIDE DEF a, b
  <2>3. a <= b \/ b <= a  BY <2>2
  <2>. QED  BY <2>3 DEF Sooner, a, b
<1>. QED  BY <1>1 DEF Least

LEMMA TimesAre ==
  ASSUME NEW d \in Int, d # 0, NEW v \in Int, NEW S \in Nat, S > 0
  PROVE  LET times == FlightTime(v * v - S * S, d * v, d * d)
         IN TimesMeet(times, d, v, S) /\ \E one, other : times \subseteq {one, other}
<1>. DEFINE p == S - v
            q == -(S + v)
            times == FlightTime(v * v - S * S, d * v, d * d)
            by == Frac(d * q, p * q)
            to == Frac(d * p, p * q)
<1>1. times = IF p * q = 0 THEN IF d * v >= 0 THEN {} ELSE {<<d * d, -2 * (d * v)>>}
              ELSE {t \in {by, to} : t[1] >= 0}
  BY CandidatesAre
<1>2. p \in Int /\ q \in Int /\ p - q = 2 * S /\ v = S - p  OBVIOUS
<1>6. ClosingSpeeds(p, q, S, v)  BY DEF ClosingSpeeds
<1>5. \A n \in Nat, m \in Nat : m > 0 => (Far(d * m + v * n) = S * n <=> d * m = n * p \/ d * m = n * q)
  <2>. SUFFICES ASSUME NEW n \in Nat, NEW m \in Nat, m > 0 PROVE MeetsAs(d, v, S, n, m, p, q)
    BY DEF MeetsAs
  <2>. HIDE DEF p, q
  <2>. QED  BY <1>6, MetFrom
<1>. HIDE DEF times
<1>3. CASE p * q # 0
  <2>1. times = {t \in {by, to} : t[1] >= 0}  BY <1>1, <1>3
  <2>. HIDE DEF p, q
  <2>2. /\ by[1] \in Int /\ by[2] \in Nat /\ by[2] > 0 /\ by = <<by[1], by[2]>> /\ d * by[2] = by[1] * p
        /\ \A n \in Nat, m \in Nat : d * m = n * p => by[1] * m = n * by[2]
    BY <1>2, <1>3, OneTime
  <2>3. q * p # 0 /\ to = Frac(d * p, q * p)  BY <1>2, <1>3
  <2>4. /\ to[1] \in Int /\ to[2] \in Nat /\ to[2] > 0 /\ to = <<to[1], to[2]>> /\ d * to[2] = to[1] * q
        /\ \A n \in Nat, m \in Nat : d * m = n * q => to[1] * m = n * to[2]
    <3>1. p \in Int /\ q \in Int /\ q * p # 0 /\ to = Frac(d * p, q * p)  BY <1>2, <2>3
    <3>. HIDE DEF to
    <3>. QED  BY <3>1, OneTime
  <2>. HIDE DEF by, to
  <2>5. ASSUME NEW t \in times PROVE IsTime(t) /\ Far(d * t[2] + v * t[1]) = S * t[1]
    <3>1. IsTime(t) /\ (d * t[2] = t[1] * p \/ d * t[2] = t[1] * q)  BY <2>1, <2>2, <2>4, <2>5 DEF IsTime
    <3>2. t[1] \in Nat /\ t[2] \in Nat /\ t[2] > 0  BY <3>1 DEF IsTime
    <3>3. d * t[2] = t[1] * p \/ d * t[2] = t[1] * q  BY <3>1
    <3>4. Far(d * t[2] + v * t[1]) = S * t[1] <=> d * t[2] = t[1] * p \/ d * t[2] = t[1] * q  BY Zenon, <3>2, <1>5
    <3>. QED  BY Zenon, <3>1, <3>3, <3>4
  <2>6. ASSUME NEW n \in Nat, NEW m \in Nat, m > 0, Far(d * m + v * n) = S * n
        PROVE  \E t \in times : t[1] * m = n * t[2]
    <3>1. d * m = n * p \/ d * m = n * q  BY Zenon, <2>6, <1>5
    <3>2. ASSUME NEW t \in {by, to}, t[1] * m = n * t[2] PROVE t \in times
      <4>1. t[1] \in Int /\ t[2] \in Nat  BY <2>2, <2>4
      <4>2. t[1] >= 0
        <5>1. m * 0 = 0 /\ m * t[1] = t[1] * m /\ n * t[2] \in Nat  BY <4>1
        <5>2. t[1] < 0 => m * t[1] < m * 0  BY <2>6, <4>1, Scaled
        <5>3. t[1] < 0 => n * t[2] < 0  BY <3>2, <5>1, <5>2
        <5>. QED  BY <4>1, <5>1, <5>3
      <4>. QED  BY <2>1, <4>2
    <3>. QED  BY <2>2, <2>4, <3>1, <3>2
  <2>7. TimesMeet(times, d, v, S)  BY <2>5, <2>6 DEF TimesMeet
  <2>8. times \subseteq {by, to}  BY <2>1
  <2>9. \E one, other : times \subseteq {one, other}  BY <2>8
  <2>. QED  BY <2>7, <2>9 DEF times
<1>4. CASE p * q = 0
  <2>. DEFINE b == d * v
              w == -2 * b
              c == d * d
              t == <<c, w>>
  <2>1. times = IF b >= 0 THEN {} ELSE {t}  BY <1>1, <1>4
  <2>2. v = S \/ v = -S
    <3>1. p = 0 \/ q = 0  BY <1>2, <1>4
    <3>. QED  BY <3>1
  <2>3. b \in Int /\ w \in Int /\ c \in Nat
    <3>1. c >= 0
      <4>1. d < 0 \/ d > 0  OBVIOUS
      <4>2. CASE d > 0
        <5>1. d * 0 < d * d  BY <4>2, Scaled
        <5>2. d * 0 = 0  OBVIOUS
        <5>. QED  BY <5>1, <5>2
      <4>3. CASE d < 0
        <5>1. (-d) * 0 < (-d) * (-d)  BY <4>3, Scaled
        <5>2. (-d) * 0 = 0 /\ (-d) * (-d) = d * d  OBVIOUS
        <5>. QED  BY <5>1, <5>2
      <4>. QED  BY <4>1, <4>2, <4>3
    <3>. QED  BY <3>1
  <2>4. d * w = c * (-2 * v)  OBVIOUS
  <2>5. t[1] = c /\ t[2] = w  OBVIOUS
  <2>. DEFINE cv == c * v
              cS == c * S
  <2>6. Far(d * w + v * c) = S * c
    <3>1. d * w + v * c = -cv /\ cv \in Int /\ cS \in Int  OBVIOUS
    <3>2. cv = cS \/ cv = -cS  BY <2>2
    <3>3. cS >= 0
      <4>1. S * 0 <= S * c  BY <2>3, Scaled
      <4>2. S * 0 = 0 /\ S * c = cS  OBVIOUS
      <4>. QED  BY <4>1, <4>2
    <3>4. S * c = cS  OBVIOUS
    <3>. HIDE DEF cv, cS
    <3>5. Far(-cv) = cS  BY <3>1, <3>2, <3>3 DEF Far
    <3>. QED  BY <3>1, <3>4, <3>5
  <2>7. ASSUME NEW u \in times PROVE IsTime(u) /\ Far(d * u[2] + v * u[1]) = S * u[1]
    <3>1. u = t /\ ~(b >= 0)  BY <2>1
    <3>2. w > 0
      <4>. HIDE DEF b
      <4>. QED  BY <2>3, <3>1
    <3>. QED  BY <2>3, <2>5, <2>6, <3>1, <3>2 DEF IsTime
  <2>8. ASSUME NEW n \in Nat, NEW m \in Nat, m > 0, Far(d * m + v * n) = S * n
        PROVE  \E u \in times : u[1] * m = n * u[2]
    <3>1. d * m = n * p \/ d * m = n * q  BY Zenon, <2>8, <1>5
    <3>2. d * m # 0
      <4>1. m * d # m * 0
        <5>1. m * d = m * 0 <=> d = 0  BY <2>8, Scaled
        <5>. QED  BY <5>1
      <4>2. m * d = d * m /\ m * 0 = 0  OBVIOUS
      <4>. QED  BY <4>1, <4>2
    <3>3. d * m = n * (-2 * v)
      <4>1. CASE v = S
        <5>1. p = 0 /\ q = -2 * v /\ n * 0 = 0  BY <4>1
        <5>. QED  BY <3>1, <3>2, <5>1
      <4>2. CASE v = -S
        <5>1. q = 0 /\ p = -2 * v /\ n * 0 = 0  BY <4>2
        <5>. QED  BY <3>1, <3>2, <5>1
      <4>. QED  BY <2>2, <4>1, <4>2
    <3>4. c * m = n * w
      <4>1. c * m = d * (d * m)  OBVIOUS
      <4>2. n * w = d * (n * (-2 * v))  OBVIOUS
      <4>. QED  BY <3>3, <4>1, <4>2
    <3>5. ~(b >= 0)
      <4>1. w > 0
        <5>1. n > 0
          <6>1. n = 0 => n * (-2 * v) = 0  OBVIOUS
          <6>. QED  BY <3>2, <3>3, <6>1
        <5>2. n * 0 < n * w
          <6>1. c * m > 0
            <7>1. c > 0
              <8>1. c # 0
                <9>1. d = 0 <=> 0 = 0 /\ d = 0  OBVIOUS
                <9>2. d > 0 => d * d # 0
                  <10>1. d > 0 => d * 0 < d * d  BY Scaled
                  <10>2. d * 0 = 0  OBVIOUS
                  <10>. QED  BY <10>1, <10>2
                <9>3. d < 0 => (-d) * (-d) # 0
                  <10>1. d < 0 => (-d) * 0 < (-d) * (-d)  BY Scaled
                  <10>2. (-d) * 0 = 0  OBVIOUS
                  <10>. QED  BY <10>1, <10>2
                <9>4. (-d) * (-d) = d * d  OBVIOUS
                <9>. QED  BY <9>2, <9>3, <9>4
              <8>. QED  BY <2>3, <8>1
            <7>2. m * 0 < m * c  BY <2>3, <2>8, <7>1, Scaled
            <7>3. m * 0 = 0 /\ m * c = c * m  OBVIOUS
            <7>. QED  BY <7>2, <7>3
          <6>2. n * 0 = 0  OBVIOUS
          <6>. QED  BY <3>4, <6>1, <6>2
        <5>. QED  BY <2>3, <5>1, <5>2, Scaled
      <4>. HIDE DEF b
      <4>. QED  BY <2>3, <4>1
    <3>6. t \in times  BY <2>1, <3>5
    <3>. QED  BY <2>5, <3>4, <3>6
  <2>9. TimesMeet(times, d, v, S)  BY <2>7, <2>8 DEF TimesMeet
  <2>10. times \subseteq {t, t}  BY <2>1
  <2>11. \E one, other : times \subseteq {one, other}  BY <2>10
  <2>. QED  BY <2>9, <2>11 DEF times
<1>. QED  BY <1>3, <1>4

\* The first of the times, and no meeting before it.
LEMMA FirstOfTimes ==
  ASSUME NEW enemy \in AmEnemy
  PROVE  /\ \A t \in Meeting(enemy) : t[1] >= 0 /\ t[2] > 0 /\ MeetsAt(enemy, t) /\ t[1] <= AmMaxFlight * t[2]
         /\ \A t \in Moments : MeetsAt(enemy, t) => \E first \in Meeting(enemy) : Sooner(first, t)
<1>. DEFINE d == enemy.at
            v == enemy.v
            S == AmSpeed
            times == FlightTime(v * v - S * S, d * v, d * d)
            far == AmMaxFlight
<1>1. d \in Int /\ v \in Int /\ S \in Nat /\ S > 0 /\ far \in Nat  BY AimAssumption DEF AmEnemy
<1>2. Meeting(enemy) = {t \in Least(times) : t[1] <= far * t[2]}  BY DEF Meeting
<1>3. \A t : MeetsAt(enemy, t) <=> Far(d * t[2] + v * t[1]) = S * t[1]  BY DEF MeetsAt
<1>4. \A t \in Moments : /\ t[1] \in Nat /\ t[2] \in Nat /\ t[2] > 0 /\ t[1] <= far * t[2]
  <2>1. ASSUME NEW t \in Moments PROVE t[1] \in Nat /\ t[2] \in Nat /\ t[2] > 0 /\ t[1] <= far * t[2]
    <3>1. PICK m \in 1 .. AmParts : t \in {<<n, m>> : n \in 0 .. far * m}  BY DEF Moments
    <3>2. PICK n \in 0 .. far * m : t = <<n, m>>  BY <3>1
    <3>. QED  BY <1>1, <3>2, AimAssumption
  <2>. QED  BY <2>1
<1>. HIDE DEF d, v, S, far
<1>5. CASE d = 0
  <2>. DEFINE now == <<0, 1>>
  <2>1. times = {now}
    <3>1. d * d = 0  BY <1>5
    <3>. QED  BY <3>1 DEF FlightTime
  <2>2. Meeting(enemy) = {now}
    <3>1. Least({now}) = {now}
      <4>1. Sooner(now, now)  BY DEF Sooner
      <4>. QED  BY <4>1 DEF Least
    <3>2. now[1] <= far * now[2]  BY <1>1
    <3>. QED  BY <1>2, <2>1, <3>1, <3>2
  <2>3. Far(d * now[2] + v * now[1]) = S * now[1]  BY <1>1, <1>5 DEF Far
  <2>4. \A t \in Moments : Sooner(now, t)  BY <1>4 DEF Sooner
  <2>5. now[1] >= 0 /\ now[2] > 0 /\ now[1] <= far * now[2]  BY <1>1
  <2>. HIDE DEF now
  <2>6. \A t \in Meeting(enemy) : t[1] >= 0 /\ t[2] > 0 /\ MeetsAt(enemy, t) /\ t[1] <= far * t[2]
    BY <1>3, <2>2, <2>3, <2>5
  <2>7. \A t \in Moments : MeetsAt(enemy, t) => \E first \in Meeting(enemy) : Sooner(first, t)  BY <2>2, <2>4
  <2>. QED  BY <2>6, <2>7 DEF far
<1>6. CASE d # 0
  <2>1. TimesMeet(times, d, v, S) /\ \E one, other : times \subseteq {one, other}  BY <1>1, <1>6, TimesAre
  <2>. HIDE DEF times
  <2>2. \A t \in times : IsTime(t) /\ Far(d * t[2] + v * t[1]) = S * t[1]  BY <2>1 DEF TimesMeet
  <2>3. \A t \in times : \E first \in Least(times) : Sooner(first, t)  BY <2>1, <2>2, OneIsFirst
  <2>4. Least(times) \subseteq times  BY DEF Least
  <2>5. ASSUME NEW t \in Moments, MeetsAt(enemy, t) PROVE \E first \in Meeting(enemy) : Sooner(first, t)
    <3>. DEFINE n == t[1]
                m == t[2]
    <3>1. n \in Nat /\ m \in Nat /\ m > 0 /\ n <= far * m  BY <1>4
    <3>2. Far(d * m + v * n) = S * n  BY <1>3, <2>5
    <3>. HIDE DEF n, m
    <3>3. PICK u \in times : u[1] * m = n * u[2]  BY <2>1, <3>1, <3>2 DEF TimesMeet
    <3>4. PICK first \in Least(times) : Sooner(first, u)  BY <2>3
    <3>. DEFINE a == first[1]
                b == first[2]
                x == u[1]
                y == u[2]
    <3>5. a \in Nat /\ b \in Nat /\ b > 0 /\ x \in Nat /\ y \in Nat /\ y > 0  BY <2>2, <2>4 DEF IsTime
    <3>6. a * y <= x * b  BY <3>4 DEF Sooner
    <3>7. x * m = n * y  BY <3>3
    <3>. HIDE DEF a, b, x, y
    <3>8. a * m <= n * b
      <4>1. m * (a * y) <= m * (x * b)  BY <3>1, <3>5, <3>6, Scaled
      <4>2. m * (a * y) = y * (a * m)  BY <3>1, <3>5
      <4>3. m * (x * b) = b * (x * m) /\ b * (n * y) = y * (n * b)  BY <3>1, <3>5
      <4>4. y * (a * m) <= y * (n * b)  BY <3>7, <4>1, <4>2, <4>3
      <4>5. a * m \in Int /\ n * b \in Int /\ y \in Int  BY <3>1, <3>5
      <4>. QED  BY <3>5, <4>4, <4>5, Scaled
    <3>9. Sooner(first, t)  BY <3>8 DEF Sooner, a, b, n, m
    <3>10. a <= far * b
      <4>1. b * n <= b * (far * m)
        <5>1. far * m \in Int  BY <1>1, <3>1
        <5>. QED  BY <3>1, <3>5, <5>1, Scaled
      <4>2. b * n = n * b /\ b * (far * m) = m * (far * b) /\ a * m = m * a  BY <1>1, <3>1, <3>5
      <4>. DEFINE ma == m * a
                  nb == n * b
                  mfb == m * (far * b)
      <4>3. ma \in Int /\ nb \in Int /\ mfb \in Int  BY <1>1, <3>1, <3>5
      <4>4. ma <= nb /\ nb <= mfb  BY <3>8, <4>1, <4>2
      <4>. HIDE DEF ma, nb, mfb
      <4>5. ma <= mfb  BY <4>3, <4>4
      <4>6. a \in Int /\ far * b \in Int /\ m \in Int  BY <1>1, <3>1, <3>5
      <4>. QED  BY <3>1, <4>5, <4>6, Scaled DEF ma, mfb
    <3>11. first \in Meeting(enemy)  BY <1>2, <3>10 DEF a, b
    <3>. QED  BY <3>9, <3>11
  <2>6. \A t \in Meeting(enemy) : t[1] >= 0 /\ t[2] > 0 /\ MeetsAt(enemy, t) /\ t[1] <= far * t[2]
    BY <1>2, <1>3, <2>2, <2>4 DEF IsTime
  <2>. QED  BY <2>5, <2>6 DEF far
<1>. QED  BY <1>5, <1>6

LEMMA FirstIsMet == AimInv => FirstMeeting
<1>. SUFFICES ASSUME AimInv, NEW i \in DOMAIN amField
              PROVE LET enemy == amField[i]
                    IN /\ \A t \in Meeting(enemy) : t[1] >= 0 /\ t[2] > 0 /\ MeetsAt(enemy, t) /\ t[1] <= AmMaxFlight * t[2]
                       /\ \A t \in Moments : MeetsAt(enemy, t) => \E first \in Meeting(enemy) : Sooner(first, t)
  BY DEF FirstMeeting
<1>1. amField[i] \in AmEnemy  BY DEF AimInv
<1>. QED  BY <1>1, FirstOfTimes
------------------------------------------------------------------------------
(* Types of what is shown and done.                                            *)

LEMMA DisguiseTyped == DisguiseInv => DisguiseTypeOK
<1>1. ASSUME DisguiseInv, NEW s \in SdStats, ~sdMissed, sdOriginals[s] # SdNone PROVE sdOriginals[s] = sdServer[s]
  BY <1>1 DEF DisguiseInv, StatTrue
<1>. QED  BY <1>1 DEF DisguiseInv, DisguiseTypeOK

\* Beside its invariant, a report is one of three things.
HazardTyped == hgReport \in {"none", "withheld", "admitted"}
LEMMA HazardTypes ==
  /\ HazardInit => HazardTyped
  /\ HazardTyped /\ [HazardNext]_hgVars => HazardTyped'
  /\ HazardInv /\ HazardTyped => HazardTypeOK
<1>1. HazardInit => HazardTyped  BY DEF HazardInit, HazardTyped
<1>2. ASSUME HazardTyped, [HazardNext]_hgVars PROVE HazardTyped'
  <2>1. hgReport' \in {"none", "withheld", "admitted", hgReport}
    BY <1>2 DEF HazardNext, Ground, CountdownTick, HgSettings, HgTime, Forget, hgVars
  <2>. QED  BY <1>2, <2>1 DEF HazardTyped
<1>3. HazardInv /\ HazardTyped => HazardTypeOK  BY DEF HazardInv, HazardTyped, HazardTypeOK
<1>. QED  BY <1>1, <1>2, <1>3

\* While an answer is awaited nothing is asked, for the pause before asking again
\* outlasts it.
AbilityTyped ==
  /\ aaAnswerable \in 0..AaAnswer + 1 /\ aaAnswerable <= aaNext
  /\ aaInterval \in AaAnInterval \cup {0} /\ (aaAnswerable > 0 => aaUnanswered > 0)

LEMMA OnceUnanswered ==
  ASSUME NEW n \in 0..AaMost
  PROVE  Min({AaMost, n + 1}) \in 1..AaMost /\ AaBackoff(n) >= AaAnswer + 1
<1>1. /\ AaMost \in 0..AaRetryMax /\ AaRetry * AaTwice[AaMost] >= AaRetryMax
      /\ AaRetryMax \in Nat /\ AaRetry \in Nat /\ AaRetryMax > AaRetry /\ AaAnswer \in Nat /\ AaAnswer < AaRetry
  BY MostIs, AbilityAssumption
<1>2. /\ AaTwice \in [0..AaRetryMax + 1 -> Nat] /\ AaTwice[0] = 1
      /\ \A k \in 1..AaRetryMax + 1 : AaTwice[k] = 2 * AaTwice[k - 1]
  BY <1>1, Doubles
<1>3. AaMost # 0
  <2>1. SUFFICES ASSUME AaMost = 0 PROVE FALSE  OBVIOUS
  <2>2. AaRetry * 1 >= AaRetryMax  BY <1>1, <1>2, <2>1
  <2>. QED  BY <1>1, <2>2
<1>4. Min({AaMost, n + 1}) \in 1..AaMost
  <2>1. n + 1 \in Int /\ AaMost \in Int  BY <1>1
  <2>2. Min({AaMost, n + 1}) = IF AaMost <= n + 1 THEN AaMost ELSE n + 1  BY <2>1, SmallerOfTwo
  <2>. QED  BY <1>1, <1>3, <2>2
<1>5. AaTwice[n] \in Nat /\ AaTwice[n] >= 1
  <2>. DEFINE U == {k \in Nat : k <= AaRetryMax => AaTwice[k] >= 1}
  <2>1. 0 \in U  BY <1>2
  <2>2. ASSUME NEW k \in U PROVE k + 1 \in U
    <3>1. SUFFICES ASSUME k + 1 <= AaRetryMax PROVE AaTwice[k + 1] >= 1  OBVIOUS
    <3>2. k + 1 \in 1..AaRetryMax + 1 /\ (k + 1) - 1 = k /\ k \in 0..AaRetryMax + 1 /\ AaTwice[k] >= 1  BY <1>1, <3>1
    <3>3. AaTwice[k + 1] = 2 * AaTwice[k] /\ AaTwice[k] \in Nat  BY <1>2, <3>2
    <3>. QED  BY <3>2, <3>3
  <2>3. U \in SUBSET Nat  OBVIOUS
  <2>4. U = Nat
    <3>. HIDE DEF U
    <3>. QED  BY <2>1, <2>2, <2>3, Upwards
  <2>5. n \in Nat /\ n <= AaRetryMax /\ n \in 0..AaRetryMax + 1  BY <1>1
  <2>6. n \in U  BY <2>4, <2>5
  <2>. QED  BY <1>2, <2>5, <2>6
<1>6. AaRetry * AaTwice[n] \in Nat /\ AaRetry * AaTwice[n] >= AaRetry
  <2>1. \A t \in Nat : t >= 1 => AaRetry * t \in Nat /\ AaRetry * t >= AaRetry  BY <1>1
  <2>. QED  BY <1>5, <2>1
<1>7. AaBackoff(n) = IF AaRetryMax <= AaRetry * AaTwice[n] THEN AaRetryMax ELSE AaRetry * AaTwice[n]
  BY <1>1, <1>6, SmallerOfTwo DEF AaBackoff
<1>. QED  BY <1>1, <1>4, <1>6, <1>7

LEMMA AbilityTypes ==
  /\ AbilityInit => AbilityTyped
  /\ AbilityInv /\ AbilityTyped /\ [AbilityNext]_aaVars => AbilityTyped'
  /\ AbilityInv /\ AbilityTyped => AbilityTypeOK
<1>0. AaAnswer \in Nat /\ AaManualPause \in Nat /\ AaMapSettle \in Nat  BY AbilityAssumption
<1>1. AbilityInit => AbilityTyped  BY <1>0 DEF AbilityInit, AbilityTyped
<1>2. ASSUME AbilityInv, AbilityTyped, [AbilityNext]_aaVars PROVE AbilityTyped'
  <2>1. CASE UNCHANGED aaVars  BY <1>2, <2>1 DEF aaVars, aaClocks, AbilityTyped
  <2>2. ASSUME NEW m, AbilityTick(m) PROVE AbilityTyped'
    <3>1. /\ aaAnswerable' = AaAnswer + 1 /\ aaInterval' = AaInterval(aaAbility)
          /\ aaNext' = AaBackoff(aaUnanswered) /\ aaUnanswered' = Min({AaMost, aaUnanswered + 1})
      BY <2>2 DEF AbilityTick, AskToCast
    <3>2. aaInterval' \in AaAnInterval  BY <1>2, <3>1 DEF AaAnInterval, AbilityInv
    <3>3. aaUnanswered \in 0..AaMost  BY <1>2 DEF AbilityInv
    <3>4. aaUnanswered' \in 1..AaMost /\ aaNext' >= AaAnswer + 1  BY <3>1, <3>3, OnceUnanswered
    <3>5. aaUnanswered' > 0  BY <3>4
    <3>. QED  BY <1>0, <3>1, <3>2, <3>4, <3>5 DEF AbilityTyped
  <2>3. CASE UseItem
    <3>1. CASE aaAnswerable > 0
      <4>1. aaNext' = aaInterval /\ aaAnswerable' = 0 /\ aaInterval' = aaInterval  BY <2>3, <3>1 DEF UseItem, Answered
      <4>. QED  BY <1>0, <1>2, <4>1 DEF AbilityTyped, AbilityInv
    <3>2. CASE ~(aaAnswerable > 0)
      <4>1. aaNext' = Max({aaNext, AaManualPause}) /\ UNCHANGED <<aaAnswerable, aaInterval, aaUnanswered>>
        BY <2>3, <3>2 DEF UseItem, OwnCast
      <4>2. aaNext' = IF aaNext >= AaManualPause THEN aaNext ELSE AaManualPause  BY <1>0, <1>2, <4>1, LargerOfTwo DEF AbilityInv
      <4>. QED  BY <1>0, <1>2, <4>1, <4>2 DEF AbilityTyped, AbilityInv
    <3>. QED  BY <3>1, <3>2
  <2>4. ASSUME NEW safe, AbilityMapInfo(safe) PROVE AbilityTyped'
    BY <1>0, <1>2, <2>4 DEF AbilityMapInfo, AbilityTyped, AbilityInv
  <2>5. CASE AbilityChange  BY <1>2, <2>5 DEF AbilityChange, aaClocks, AbilityTyped
  <2>6. CASE AbilityTime
    <3>1. \A t \in Nat : AaLess(t) = IF t = 0 THEN 0 ELSE t - 1
      <4>1. \A t \in Nat : AaLess(t) = IF 0 >= t - 1 THEN 0 ELSE t - 1  BY LargerOfTwo DEF AaLess
      <4>. QED  BY <4>1
    <3>2. /\ aaNext' = AaLess(aaNext) /\ aaAnswerable' = AaLess(aaAnswerable)
          /\ UNCHANGED <<aaInterval, aaUnanswered>>
      BY <2>6 DEF AbilityTime
    <3>. QED  BY <1>0, <1>2, <3>1, <3>2 DEF AbilityTyped, AbilityInv
  <2>. QED  BY <1>2, <2>1, <2>2, <2>3, <2>4, <2>5, <2>6 DEF AbilityNext
<1>3. AbilityInv /\ AbilityTyped => AbilityTypeOK  BY <1>0 DEF AbilityInv, AbilityTyped, AbilityTypeOK
<1>. QED  BY <1>1, <1>2, <1>3

\* An answer waits no longer than the character listens, and is soon forgotten when late.
LEMMA MsGrows == ASSUME NEW m \in Nat, NEW n \in Nat, m <= n PROVE Ms(m) <= Ms(n)
<1>1. CaUnit \in Nat /\ CaUnit > 0  BY AnswersAssumption
<1>. QED  BY <1>1 DEF Ms

WindowFits(event) == event.listensAfter <= event.window
LEMMA ListensWithin == ASSUME NEW e \in Events PROVE ChatEvents[e].listensAfter <= ChatEvents[e].window
<1>1. Ms(0) <= Ms(4000) /\ Ms(0) <= Ms(20000) /\ Ms(3000) <= Ms(20000) /\ Ms(0) <= ReadyWindow /\ Ms(0) <= Ms(10000)
  BY MsGrows DEF ReadyWindow
<1>2. Events = 1 .. 10  BY DEF Events, ChatEvents
<1>4. WindowFits(ChatEvents[1])  BY <1>1 DEF WindowFits, ChatEvents, Event
<1>5. WindowFits(ChatEvents[2])  BY <1>1 DEF WindowFits, ChatEvents, Event
<1>6. WindowFits(ChatEvents[3])  BY <1>1 DEF WindowFits, ChatEvents, Event
<1>7. WindowFits(ChatEvents[4])  BY <1>1 DEF WindowFits, ChatEvents, Event
<1>8. WindowFits(ChatEvents[5])  BY <1>1 DEF WindowFits, ChatEvents, Event
<1>9. WindowFits(ChatEvents[6])  BY <1>1 DEF WindowFits, ChatEvents, Event
<1>10. WindowFits(ChatEvents[7])  BY <1>1 DEF WindowFits, ChatEvents, Event
<1>11. WindowFits(ChatEvents[8])  BY <1>1 DEF WindowFits, ChatEvents, Event
<1>12. WindowFits(ChatEvents[9])  BY <1>1 DEF WindowFits, ChatEvents, Event
<1>13. WindowFits(ChatEvents[10])  BY <1>1 DEF WindowFits, ChatEvents, Event
<1>14. e = 1 \/ e = 2 \/ e = 3 \/ e = 4 \/ e = 5 \/ e = 6 \/ e = 7 \/ e = 8 \/ e = 9 \/ e = 10  BY <1>2
<1>15. WindowFits(ChatEvents[e])  BY <1>4, <1>5, <1>6, <1>7, <1>8, <1>9, <1>10, <1>11, <1>12, <1>13, <1>14
<1>. QED  BY <1>15 DEF WindowFits

Timed(a) == a.due \in -(LateLimit + 1) .. a.left /\ a.left <= ChatEvents[a.event].window
AnswersTyped == caQuiet \in [Replies -> 0..RepeatQuiet] /\ \A a \in caPending : Timed(a)

LEMMA TimedWhenAsked ==
  ASSUME NEW e \in NpcEvents, NEW p, NEW pause \in CaPauses
  PROVE  Timed([event |-> e, key |-> AnswerKey(e, p), answer |-> Answer(e, p),
                due |-> DueIn(e, pause), left |-> ChatEvents[e].window])
<1>1. /\ pause \in Nat /\ ChatEvents[e].listensAfter \in Nat /\ ChatEvents[e].window \in Nat
      /\ ChatEvents[e].listensAfter <= ChatEvents[e].window
  BY RepliesAre, EventFigures, ListensWithin, AnswersAssumption
<1>2. TripAllowance \in Nat /\ LateLimit \in Nat  BY MsIsNat DEF TripAllowance, LateLimit
<1>3. DueIn(e, pause) \in Int /\ DueIn(e, pause) >= 0 /\ DueIn(e, pause) <= ChatEvents[e].window
  BY <1>1, <1>2 DEF DueIn, Larger, Smaller
<1>. DEFINE asked == [event |-> e, key |-> AnswerKey(e, p), answer |-> Answer(e, p),
                      due |-> DueIn(e, pause), left |-> ChatEvents[e].window]
<1>4. asked.event = e /\ asked.due = DueIn(e, pause) /\ asked.left = ChatEvents[e].window  OBVIOUS
<1>. HIDE DEF asked
<1>. QED  BY <1>1, <1>2, <1>3, <1>4 DEF Timed, asked

LEMMA TimedWhileWaiting ==
  ASSUME NEW a \in AnswersWaiting, Timed(a)
  PROVE  Timed(Waited(a))
<1>1. LateLimit \in Nat  BY MsIsNat DEF LateLimit
<1>2. a.due \in Int /\ a.left \in Nat /\ a.event \in NpcEvents  BY DEF AnswersWaiting
<1>3. ChatEvents[a.event].window \in Nat  BY <1>2, RepliesAre, EventFigures
<1>4. Waited(a).due = Larger(a.due - 1, -(LateLimit + 1)) /\ Waited(a).left = Larger(a.left - 1, 0) /\ Waited(a).event = a.event
  BY DEF Waited, AnswersWaiting
<1>. QED  BY <1>1, <1>2, <1>3, <1>4 DEF Timed, Larger

LEMMA AnswersTypes ==
  /\ AnswersInit => AnswersTyped
  /\ AnswersInv /\ AnswersTyped /\ [AnswersNext]_caVars => AnswersTyped'
  /\ AnswersInv /\ AnswersTyped => AnswersTypeOK
<1>0. RepeatQuiet \in Nat  BY MsIsNat DEF RepeatQuiet
<1>1. NoneGiven \in [Replies -> 0..RepeatQuiet]
  <2>. DEFINE zero == 0
  <2>1. zero \in 0..RepeatQuiet  BY <1>0
  <2>2. NoneGiven = [k \in Replies |-> zero]  BY DEF NoneGiven
  <2>. HIDE DEF zero
  <2>. QED  BY <2>1, <2>2
<1>2. AnswersInit => AnswersTyped
  <2>1. AnswersInit => caQuiet = NoneGiven /\ caPending = {}  BY DEF AnswersInit
  <2>. QED  BY <1>1, <2>1 DEF AnswersTyped
<1>3. ASSUME AnswersInv, AnswersTyped, [AnswersNext]_caVars PROVE AnswersTyped'
  <2>1. CASE UNCHANGED caVars
    <3>1. caQuiet' = caQuiet /\ caPending' = caPending /\ caNpc' = caNpc  BY <2>1 DEF caVars
    <3>2. Replies' = Replies  BY <3>1 DEF Replies, NpcEvents
    <3>. QED  BY <1>3, <3>1, <3>2 DEF AnswersTyped
  <2>2. ASSUME NEW line \in CaLines, NEW pause \in CaPauses, NpcSays(line, pause) PROVE AnswersTyped'
    <3>. DEFINE heard == HearNpcLine(line)
                asked == [event |-> heard.event, key |-> AnswerKey(heard.event, heard.prompt),
                          answer |-> Answer(heard.event, heard.prompt),
                          due |-> DueIn(heard.event, pause), left |-> ChatEvents[heard.event].window]
    <3>1. /\ caPending' = IF ~caOn \/ heard.kind = "other" THEN caPending
                          ELSE IF heard.kind = "settled" THEN Settled(heard.event)
                          ELSE HeardQuestion(heard.event, heard.prompt, pause)
          /\ caQuiet' = caQuiet /\ caNpc' = caNpc
      BY <2>2 DEF NpcSays
    <3>2. HeardAs(heard, line)  BY LinesHeard
    <3>3. Replies' = Replies  BY <3>1 DEF Replies, NpcEvents
    <3>4. caPending' \subseteq caPending \/ (heard.event \in NpcEvents /\ caPending' = caPending \cup {asked})
      <4>. HIDE DEF heard
      <4>1. CASE ~caOn \/ heard.kind = "other"  BY <3>1, <4>1
      <4>2. CASE caOn /\ heard.kind = "settled"
        <5>1. caPending' = Settled(heard.event)  BY <3>1, <4>2
        <5>. QED  BY <5>1 DEF Settled
      <4>3. CASE caOn /\ heard.kind # "other" /\ heard.kind # "settled"
        <5>1. caPending' = HeardQuestion(heard.event, heard.prompt, pause) /\ heard.event \in NpcEvents
          BY <3>1, <3>2, <4>3 DEF HeardAs
        <5>. QED  BY <5>1 DEF HeardQuestion
      <4>. QED  BY <4>1, <4>2, <4>3
    <3>5. heard.event \in NpcEvents => Timed(asked)  BY TimedWhenAsked
    <3>. HIDE DEF asked, heard
    <3>6. \A a \in caPending' : Timed(a)  BY <1>3, <3>4, <3>5 DEF AnswersTyped
    <3>. QED  BY <1>3, <3>1, <3>3, <3>6 DEF AnswersTyped
  <2>3. ASSUME NEW said, PlayerSays(said) PROVE AnswersTyped'
    <3>1. caPending' = (IF caOn THEN AnsweredBy(said) ELSE caPending) /\ caQuiet' = caQuiet /\ caNpc' = caNpc
      BY <2>3 DEF PlayerSays
    <3>2. caPending' \subseteq caPending  BY <3>1 DEF AnsweredBy
    <3>3. Replies' = Replies  BY <3>1 DEF Replies, NpcEvents
    <3>. QED  BY <1>3, <3>1, <3>2, <3>3 DEF AnswersTyped
  <2>4. CASE AnswerTick
    <3>. DEFINE waiting == {Waited(a) : a \in caPending}
    <3>1. /\ caPending' \subseteq waiting /\ caNpc' = caNpc
          /\ \E said : caQuiet' = [k \in Replies |-> IF k \in said THEN RepeatQuiet ELSE Larger(caQuiet[k] - 1, 0)]
      BY <2>4 DEF AnswerTick
    <3>2. \A a \in waiting : Timed(a)  BY <1>3, TimedWhileWaiting DEF AnswersTyped, AnswersInv
    <3>3. Replies' = Replies  BY <3>1 DEF Replies, NpcEvents
    <3>4. \A k \in Replies : caQuiet[k] \in 0..RepeatQuiet  BY <1>3 DEF AnswersTyped
    <3>5. \A k \in Replies : Larger(caQuiet[k] - 1, 0) \in 0..RepeatQuiet  BY <1>0, <3>4 DEF Larger
    <3>6. caQuiet' \in [Replies -> 0..RepeatQuiet]  BY <1>0, <3>1, <3>5
    <3>. HIDE DEF waiting
    <3>. QED  BY <3>1, <3>2, <3>3, <3>6 DEF AnswersTyped
  <2>5. ASSUME NEW left, NewRoom(left) PROVE AnswersTyped'
    <3>1. ((caPending' = {} /\ caQuiet' = NoneGiven) \/ (caPending' = caPending /\ caQuiet' = caQuiet)) /\ caNpc' = caNpc
      BY <2>5 DEF NewRoom
    <3>2. Replies' = Replies  BY <3>1 DEF Replies, NpcEvents
    <3>. QED  BY <1>1, <1>3, <3>1, <3>2 DEF AnswersTyped
  <2>6. ASSUME NEW e, AnswerSwitch(e) \/ AnswerToggle PROVE AnswersTyped'
    <3>1. caQuiet' = caQuiet /\ caPending' = caPending /\ caNpc' = caNpc  BY <2>6 DEF AnswerSwitch, AnswerToggle
    <3>2. Replies' = Replies  BY <3>1 DEF Replies, NpcEvents
    <3>. QED  BY <1>3, <3>1, <3>2 DEF AnswersTyped
  <2>. QED  BY <1>3, <2>1, <2>2, <2>3, <2>4, <2>5, <2>6 DEF AnswersNext
<1>4. AnswersInv /\ AnswersTyped => AnswersTypeOK  BY DEF AnswersInv, AnswersTyped, AnswersTypeOK, Timed
<1>. QED  BY <1>2, <1>3, <1>4

\* Health is never taken for more than all of it, and what waits for its answer is no more
\* than is kept.
NexusTyped ==
  /\ nxHp <= NxFull /\ nxMap \in 0..NxMaxMaps
  /\ nxLog \in [NxShots -> NxHurts \cup {NxNone}]
  /\ nxAoes \in Seq(NxHurts) /\ Len(nxAoes) <= NxMaxAoes
  /\ nxHeld \subseteq 0..NxMaxMaps

LEMMA NexusTypesStart == NexusInit => NexusTyped
<1>1. NxFull \in Nat /\ NxMaxAoes \in Nat /\ NxMaxMaps \in Nat  BY NexusAssumption
<1>2. <<>> \in Seq(NxHurts) /\ Len(<<>>) = 0  OBVIOUS
<1>3. ASSUME NexusInit PROVE nxHp = 0 /\ nxMap = 0 /\ nxHeld = {} /\ nxAoes = <<>> /\ nxLog = [s \in NxShots |-> NxNone]
  BY <1>3 DEF NexusInit
<1>. QED  BY <1>1, <1>2, <1>3 DEF NexusTyped

LEMMA NexusTypesKept == ASSUME NexusInv, NexusTyped, [NexusNext]_nxVars PROVE NexusTyped'
<1>0. /\ NxFull \in Nat /\ NxMaxAoes \in Nat /\ NxMaxMaps \in Nat /\ NxHurts \subseteq Nat /\ NxUnknown \in Nat
  BY NexusAssumption
<1>a. <<>> \in Seq(NxHurts) /\ Len(<<>>) = 0 /\ [s \in NxShots |-> NxNone] \in [NxShots -> NxHurts \cup {NxNone}]  OBVIOUS
<1>1. CASE UNCHANGED nxVars  BY <1>1 DEF nxVars, NexusTyped
<1>2. ASSUME NEW volley \in SUBSET NxShots, NEW striking, NEW d \in NxHurts, NEW close,
             NEW old, NxEnemyShoot(volley, d, close, old, striking)
      PROVE  NexusTyped'
  <2>1. /\ nxLog' = Pruned(Logged(nxLog, volley, d), old)
        /\ nxMap' = nxMap /\ nxHp' = nxHp /\ nxAoes' = nxAoes /\ nxHeld' = nxHeld
    BY <1>2 DEF NxEnemyShoot, nxSettings, nxTracker
  <2>2. nxLog' \in [NxShots -> NxHurts \cup {NxNone}]  BY <2>1 DEF NexusTyped, Pruned, Logged
  <2>. QED  BY <2>1, <2>2 DEF NexusTyped
<1>3. ASSUME NEW striking, NxForecast(striking) PROVE NexusTyped'
  BY <1>3 DEF NxForecast, NexusTyped, nxSettings, nxTracker
<1>4. ASSUME NEW s \in NxShots, NxPlayerHit(s) PROVE NexusTyped'
  <2>. DEFINE d == IF nxLog[s] # NxNone THEN nxLog[s] ELSE NxUnknown
  <2>1. d \in Nat  BY <1>0 DEF NexusInv
  <2>2. /\ nxLog' = Pruned(nxLog, {s}) /\ nxHp' = nxHp - d /\ nxMap' = nxMap /\ nxAoes' = nxAoes
        /\ nxHeld' \subseteq nxHeld \cup {nxMap}
    BY <1>4 DEF NxPlayerHit, nxSettings
  <2>3. nxLog' \in [NxShots -> NxHurts \cup {NxNone}]  BY <2>2 DEF NexusTyped, Pruned
  <2>4. nxHp \in Int  BY DEF NexusInv
  <2>. HIDE DEF d
  <2>5. nxHp' <= NxFull  BY <1>0, <2>1, <2>2, <2>4 DEF NexusTyped
  <2>. QED  BY <2>2, <2>3, <2>5 DEF NexusTyped
<1>5. ASSUME NEW d \in NxHurts, NxAoe(d) PROVE NexusTyped'
  <2>1. /\ nxAoes' = MostAoes(Append(nxAoes, d)) /\ nxHp' = nxHp /\ nxMap' = nxMap /\ nxLog' = nxLog /\ nxHeld' = nxHeld
    BY <1>5 DEF NxAoe, nxSettings, nxTracker
  <2>2. ASSUME NEW q \in Seq(NxHurts), Len(q) <= NxMaxAoes
        PROVE  MostAoes(Append(q, d)) \in Seq(NxHurts) /\ Len(MostAoes(Append(q, d))) <= NxMaxAoes
    <3>1. Append(q, d) \in Seq(NxHurts) /\ Len(Append(q, d)) = Len(q) + 1 /\ Len(q) \in Nat  OBVIOUS
    <3>2. Append(q, d) # <<>>  BY AppendProperties
    <3>. DEFINE more == Append(q, d)
    <3>. HIDE DEF more
    <3>3. more \in Seq(NxHurts) /\ more # <<>> /\ Len(more) = Len(q) + 1  BY <3>1, <3>2 DEF more
    <3>4. Tail(more) \in Seq(NxHurts) /\ Len(Tail(more)) = Len(more) - 1  BY <3>3
    <3>5. MostAoes(more) = IF Len(more) > NxMaxAoes THEN Tail(more) ELSE more  BY DEF MostAoes
    <3>6. MostAoes(more) \in Seq(NxHurts) /\ Len(MostAoes(more)) <= NxMaxAoes
      BY <1>0, <2>2, <3>1, <3>3, <3>4, <3>5
    <3>. QED  BY <3>6 DEF more
  <2>3. nxAoes' \in Seq(NxHurts) /\ Len(nxAoes') <= NxMaxAoes  BY <2>1, <2>2 DEF NexusTyped
  <2>. QED  BY <2>1, <2>3 DEF NexusTyped
<1>6. ASSUME NEW d \in NxHurts, NxGround(d) PROVE NexusTyped'
  <2>1. /\ nxHp' = nxHp \/ nxHp' = nxHp - d
        /\ nxMap' = nxMap /\ nxLog' = nxLog /\ nxAoes' = nxAoes /\ nxHeld' = nxHeld
    BY <1>6 DEF NxGround, nxSettings
  <2>2. nxHp' <= NxFull  BY <1>0, <2>1 DEF NexusTyped, NexusInv
  <2>. QED  BY <2>1, <2>2 DEF NexusTyped
<1>7. ASSUME NEW h \in 0..NxFull, NxUpdate(h) PROVE NexusTyped'
  BY <1>7 DEF NxUpdate, NexusTyped, nxSettings, nxState, nxTracker
<1>8. ASSUME NEW h \in 0..NxFull, NxNewTick(h) PROVE NexusTyped'
  <2>1. /\ nxHp' = nxHp \/ nxHp' = Synced(h)[1]
        /\ nxMap' = nxMap /\ nxLog' = nxLog /\ nxAoes' = nxAoes /\ nxHeld' = nxHeld
    BY <1>8 DEF NxNewTick, nxSettings, nxTracker
  <2>2. Synced(h)[1] = h \/ Synced(h)[1] = nxHp  BY DEF Synced
  <2>3. nxHp' <= NxFull  BY <1>0, <2>1, <2>2 DEF NexusTyped
  <2>. QED  BY <2>1, <2>3 DEF NexusTyped
<1>9. CASE NxLethal
  BY <1>9 DEF NxLethal, NexusTyped, nxSettings, nxTracker
<1>10. CASE NxSwitch \/ NxSetEscapes
  BY <1>10 DEF NxSwitch, NxSetEscapes, NexusTyped, nxState, nxTracker
<1>11. CASE NxDisconnected
  <2>1. /\ nxMap < NxMaxMaps /\ nxMap' = nxMap + 1 /\ nxHeld' = {} /\ nxHp' = 0
        /\ nxLog' = [s \in NxShots |-> NxNone] /\ nxAoes' = <<>>
    BY <1>11 DEF NxDisconnected, NxDropHeldAcks
  <2>. QED  BY <1>0, <1>a, <2>1 DEF NexusTyped
<1>12. ASSUME NEW what, NxUnheard(what) PROVE NexusTyped'
  BY <1>12 DEF NxUnheard, NexusTyped, nxSettings, nxTracker
<1>13. ASSUME NEW landed \in SUBSET DOMAIN nxAoes, NEW old, NxAoeAck(landed, old) PROVE NexusTyped'
  <2>. DEFINE sum == NxTotal(nxAoes, landed)
              kept == Unanswered(nxAoes, landed \cup old)
  <2>1. sum \in Nat
    <3>1. nxAoes \in Seq(Nat) /\ Len(nxAoes) \in Nat /\ DOMAIN nxAoes = 1..Len(nxAoes)  BY DEF NexusInv
    <3>4. IsFiniteSet(DOMAIN nxAoes)  BY <3>1, FS_Interval
    <3>2. IsFiniteSet(landed)  BY <3>4, FS_Subset
    <3>3. \A i \in landed : nxAoes[i] \in Nat  BY <3>1
    <3>. QED  BY <3>2, <3>3, SumIsNat
  <2>2. kept \in Seq(NxHurts) /\ Len(kept) <= Len(nxAoes)  BY StillWaiting DEF NexusTyped
  <2>3. /\ nxAoes' = kept /\ nxMap' = nxMap /\ nxLog' = nxLog /\ nxHeld' = nxHeld
        /\ nxHp' = nxHp \/ nxHp' = nxHp - sum
    BY <1>13 DEF NxAoeAck, nxSettings
  <2>. HIDE DEF sum, kept
  <2>4. nxHp' <= NxFull  BY <1>0, <2>1, <2>3 DEF NexusTyped, NexusInv
  <2>5. Len(nxAoes) \in Nat /\ Len(kept) \in Nat  BY <2>2 DEF NexusTyped
  <2>6. Len(kept) <= NxMaxAoes  BY <1>0, <2>2, <2>5 DEF NexusTyped
  <2>. QED  BY <2>2, <2>3, <2>4, <2>6 DEF NexusTyped
<1>14. ASSUME NEW map \in nxHeld, NxRelease(map) PROVE NexusTyped'
  BY <1>14 DEF NxRelease, NexusTyped, nxSettings, nxTracker
<1>15. ASSUME NEW safe, NxMapInfo(safe) PROVE NexusTyped'
  <2>1. nxMap < NxMaxMaps /\ nxMap' = nxMap + 1  BY <1>15 DEF NxMapInfo
  <2>2. CASE nxOn
    <3>1. nxHeld' = {} /\ nxHp' = 0 /\ nxLog' = [s \in NxShots |-> NxNone] /\ nxAoes' = <<>>
      BY <1>15, <2>2 DEF NxMapInfo, NxDropHeldAcks
    <3>. QED  BY <1>0, <1>a, <2>1, <3>1 DEF NexusTyped
  <2>3. CASE ~nxOn
    <3>1. nxHeld' = nxHeld /\ nxHp' = nxHp /\ nxLog' = nxLog /\ nxAoes' = nxAoes
      BY <1>15, <2>3 DEF NxMapInfo, nxTracker
    <3>. QED  BY <1>0, <2>1, <3>1 DEF NexusTyped
  <2>. QED  BY <2>2, <2>3
<1>. QED  BY <1>1, <1>2, <1>3, <1>4, <1>5, <1>6, <1>7, <1>8, <1>9, <1>10, <1>11, <1>12, <1>13, <1>14, <1>15 DEF NexusNext

LEMMA NexusTypes == NexusInv /\ NexusTyped => NexusTypeOK
BY DEF NexusInv, NexusTyped, NexusTypeOK

------------------------------------------------------------------------------
\* The first of three that is as good as any of them.
LEMMA OneIsBest ==
  ASSUME NEW S \in SUBSET (1..3), 1 \in S, NEW g, NEW d, \A i \in S : g[i] \in Int /\ d[i] \in Int
  PROVE  \E i \in S : \A j \in S : \/ g[i] < g[j]
                                   \/ g[i] = g[j] /\ d[i] < d[j]
                                   \/ g[i] = g[j] /\ d[i] = d[j] /\ i <= j
<1>. DEFINE B(i, j) == \/ g[i] < g[j]
                       \/ g[i] = g[j] /\ d[i] < d[j]
                       \/ g[i] = g[j] /\ d[i] = d[j] /\ i <= j
<1>0. \A i \in S : i \in Int  OBVIOUS
<1>1. \A i, j \in S : B(i, j) \/ B(j, i)  BY <1>0
<1>2. \A i, j, k \in S : B(i, j) /\ B(j, k) => B(i, k)  BY <1>0
<1>. HIDE DEF B
<1>3. PICK m \in S \cap {1, 2} : \A j \in S \cap {1, 2} : B(m, j)
  <2>1. CASE 2 \in S /\ B(2, 1)  BY <1>1, <2>1
  <2>2. CASE 2 \notin S \/ ~B(2, 1)  BY <1>1, <2>2
  <2>. QED  BY <2>1, <2>2
<1>4. S \subseteq {1, 2, 3}  OBVIOUS
<1>5. \E i \in S : \A j \in S : B(i, j)
  <2>1. CASE 3 \in S /\ B(3, m)
    <3>1. \A j \in S \cap {1, 2} : B(3, j)  BY <1>2, <1>3, <2>1
    <3>2. B(3, 3)  BY <1>1, <2>1
    <3>. QED  BY <1>4, <2>1, <3>1, <3>2
  <2>2. CASE 3 \notin S \/ ~B(3, m)
    <3>1. \A j \in S : B(m, j)  BY <1>1, <1>3, <1>4, <2>2
    <3>. QED  BY <1>3, <3>1
  <2>. QED  BY <2>1, <2>2
<1>. QED  BY <1>5 DEF B

DgMinds == [place : DgPlaces, held : BOOLEAN, orbit : 0 .. DgRange, pinned : BOOLEAN, stale : BOOLEAN]
DgTargets == [by : {"nobody", "dodge", "cursor"}, push : -DgFull .. DgLast + DgFull, left : 0 .. DgHold]

\* The dodge pushes and the chord points, at a place.
SteeringTyped == SteeringTypeOK /\ (dgTarget.by # "dodge" => dgTarget.push \in DgPlaces)

\* Ground that is given up is given up for a place of the room.
LEMMA ShiftsWithin ==
  ASSUME dgMind \in DgMinds, dgAt \in DgPlaces, NEW ground \in [DgPlaces -> 0 .. 3]
  PROVE  Shifted(ground) \in DgPlaces
<1>. DEFINE place == <<dgMind.place, dgMind.place + DgShare, dgMind.place - DgShare>>
            near == {i \in 1..3 : place[i] \in DgPlaces}
            g == [i \in near |-> ground[place[i]]]
            d == [i \in near |-> DgGap(place[i], dgAt)]
            Best(i) == \A j \in near : \/ g[i] < g[j]
                                       \/ g[i] = g[j] /\ d[i] < d[j]
                                       \/ g[i] = g[j] /\ d[i] = d[j] /\ i <= j
<1>1. dgMind.place \in DgPlaces /\ place[1] = dgMind.place  BY DEF DgMinds
<1>2. 1 \in near /\ near \in SUBSET (1..3)  BY <1>1
<1>3. \A i \in near : place[i] \in DgPlaces  OBVIOUS
<1>4. \A p \in DgPlaces : ground[p] \in Int /\ DgGap(p, dgAt) \in Int  BY DEF DgPlaces, DgGap
<1>5. Shifted(ground) = IF ground[dgMind.place] = 0 THEN dgMind.place
                        ELSE place[CHOOSE i \in near :
                               \A j \in near :
                                 \/ ground[place[i]] < ground[place[j]]
                                 \/ ground[place[i]] = ground[place[j]] /\ DgGap(place[i], dgAt) < DgGap(place[j], dgAt)
                                 \/ ground[place[i]] = ground[place[j]] /\ DgGap(place[i], dgAt) = DgGap(place[j], dgAt)
                                    /\ i <= j]
  BY DEF Shifted
<1>. HIDE DEF place, near
<1>6. \A i \in near : g[i] = ground[place[i]] /\ d[i] = DgGap(place[i], dgAt)  OBVIOUS
<1>7. \A i \in near : g[i] \in Int /\ d[i] \in Int  BY <1>3, <1>4, <1>6
<1>. HIDE DEF g, d
<1>8. \E i \in near : Best(i)  BY <1>2, <1>7, OneIsBest
<1>9. \E i \in near :
        \A j \in near :
          \/ ground[place[i]] < ground[place[j]]
          \/ ground[place[i]] = ground[place[j]] /\ DgGap(place[i], dgAt) < DgGap(place[j], dgAt)
          \/ ground[place[i]] = ground[place[j]] /\ DgGap(place[i], dgAt) = DgGap(place[j], dgAt)
             /\ i <= j
  BY <1>6, <1>8
<1>. QED  BY <1>1, <1>3, <1>5, <1>9

\* What the module is told to push is what the character can do.
LEMMA PushesWithin ==
  ASSUME NEW answer \in DgAnswers, NEW intent \in DgSides, NEW cancels
  PROVE  \/ WalkCommand(answer, intent, cancels) = DgNoTarget
         \/ \E push \in -DgFull .. DgFull, left \in 0 .. DgHold :
              WalkCommand(answer, intent, cancels) = DgWalk("dodge", push, left)
<1>. DEFINE dir == answer.dir
            speed == IF answer.crowded THEN DgFull ELSE DgShare
            against == IF cancels THEN intent * DgShare ELSE 0
            cancel == dir * speed - against
            want == IF cancel * dir >= 0 THEN cancel ELSE dir * speed
            size == IF DgGap(want, 0) < speed THEN DgGap(want, 0) ELSE speed
            ticks == (answer.steps + size - 1) \div size
            left == IF ticks < DgHold THEN ticks ELSE DgHold
<1>1. /\ dir \in {-1, 0, 1} /\ speed \in Nat /\ speed <= DgFull /\ intent \in {-1, 0, 1}
      /\ DgShare \in Nat /\ DgFull \in Nat /\ DgHold \in Nat /\ DgShare <= DgFull /\ answer.steps \in Nat
  BY SteeringAssumption DEF DgSides
<1>2. WalkCommand(answer, intent, cancels) =
        IF dir = 0 THEN IF cancels /\ intent # 0 THEN DgWalk("dodge", -intent * DgShare, DgHold) ELSE DgNoTarget
        ELSE IF want = 0 THEN DgNoTarget
        ELSE DgWalk("dodge", DgSign(want) * size, left)
  BY DEF WalkCommand
<1>. HIDE DEF dir, speed
<1>3. against \in Int /\ dir * speed \in Int  BY <1>1
<1>4. want \in Int  BY <1>1, <1>3
<1>. HIDE DEF want
<1>5. size \in Nat /\ size <= speed /\ DgSign(want) \in {-1, 0, 1} /\ (want # 0 /\ speed # 0 => size > 0)
  BY <1>1, <1>4 DEF DgGap, DgSign
<1>a. speed > 0  BY SteeringAssumption DEF speed
<1>. HIDE DEF size
<1>6. DgSign(want) * size \in -DgFull .. DgFull  BY <1>1, <1>5
<1>7. -intent * DgShare \in -DgFull .. DgFull  BY <1>1
<1>8. ASSUME want # 0 PROVE left \in 0 .. DgHold
  <2>1. size \in Nat \ {0} /\ answer.steps + size - 1 \in Nat  BY <1>1, <1>5, <1>8, <1>a
  <2>. DEFINE n == answer.steps + size - 1
  <2>. HIDE DEF n
  <2>2. n \div size \in Nat  BY <2>1 DEF n
  <2>3. ticks \in Nat  BY <2>2 DEF n
  <2>. HIDE DEF ticks
  <2>. QED  BY <1>1, <2>3
<1>. HIDE DEF left
<1>9. CASE dir = 0
  <2>1. DgHold \in 0 .. DgHold  BY <1>1
  <2>. QED  BY <1>2, <1>7, <1>9, <2>1
<1>10. CASE dir # 0 /\ want # 0  BY <1>2, <1>6, <1>8, <1>10
<1>11. CASE dir # 0 /\ want = 0  BY <1>2, <1>11
<1>. QED  BY <1>9, <1>10, <1>11

LEMMA RestIsTyped == DgNoTarget \in DgTargets /\ DgBlank \in DgMinds /\ DgNoTarget.push \in DgPlaces /\ 0 \in DgPlaces
BY SteeringAssumption DEF DgNoTarget, DgWalk, DgTargets, DgBlank, DgMinds, DgPlaces

LEMMA SteeringTypesStart == SteeringInit => SteeringTyped
BY RestIsTyped DEF SteeringInit, SteeringTyped, SteeringTypeOK, DgSides, DgMinds, DgTargets

LEMMA AimsWithin ==
  ASSUME dgMind \in DgMinds, dgAt \in DgPlaces, NEW intent, NEW pin \in DgPlaces \cup {DgNone}, NEW ring \in BOOLEAN,
         NEW beast \in DgPlaces, NEW danger, NEW answer, NEW ground, dgMind.held => ground \in [DgPlaces -> 0 .. 3]
  PROVE  Planned(intent, pin, ring, beast, danger, answer, ground).mind \in DgMinds
<1>. DEFINE named == intent = 0 /\ (pin # DgNone \/ ring)
            kept == dgMind.held /\ named = dgMind.pinned
            back == Shifted(ground)
            Mind(place, orbit, held) == DgGround(place, held, orbit, named, FALSE)
            mind == IF named /\ pin # DgNone THEN Mind(pin, 0, kept)
                    ELSE IF named THEN Mind(beast, DgRange, kept)
                    ELSE IF kept /\ intent = 0 /\ ~dgMind.stale /\ DgWorth(ground, back) /\ DgGap(dgAt, back) <= DgReach
                         THEN Mind(back, dgMind.orbit, TRUE)
                    ELSE Mind(dgAt, 0, FALSE)
<1>1. Aimed(intent, pin, ring, beast, ground).mind = mind  BY DEF Aimed, DgGround
<1>2. \E held \in BOOLEAN : Planned(intent, pin, ring, beast, danger, answer, ground).mind
                              = [Aimed(intent, pin, ring, beast, ground).mind EXCEPT !.held = held]
  BY DEF Planned
<1>3. PICK held \in BOOLEAN : Planned(intent, pin, ring, beast, danger, answer, ground).mind = [mind EXCEPT !.held = held]
  BY <1>1, <1>2
<1>4. kept => back \in DgPlaces  BY ShiftsWithin
<1>5. DgRange \in 0 .. DgRange /\ 0 \in 0 .. DgRange /\ dgMind.orbit \in 0 .. DgRange /\ named \in BOOLEAN
  BY SteeringAssumption DEF DgMinds
<1>6. \A place \in DgPlaces, orbit \in 0 .. DgRange, h \in BOOLEAN : Mind(place, orbit, h) \in DgMinds
  BY <1>5 DEF DgGround, DgMinds
<1>7. kept \in BOOLEAN  OBVIOUS
<1>. HIDE DEF named, kept, back, Mind
<1>8. mind \in DgMinds  BY <1>4, <1>5, <1>6, <1>7
<1>. HIDE DEF mind
<1>. QED  BY <1>3, <1>8 DEF DgMinds

LEMMA PlansWithin ==
  ASSUME SteeringTyped, NEW press, NEW weapon, NEW beast \in DgPlaces, NEW ground, NEW danger, NEW answer \in DgAnswers,
         NEW driving, dgMind.held => ground \in [DgPlaces -> 0 .. 3],
         DgPlan(press, weapon, beast, ground, danger, answer, driving)
  PROVE  SteeringTyped'
<1>. DEFINE anchor == IF dgAnchor = DgNone /\ dgArmed THEN dgAt ELSE dgAnchor
            picked == DgPicked(press)
            ring == DgRing(anchor, picked, weapon)
            intent == IF driving.respects THEN dgSteer ELSE 0
            plan == Planned(intent, anchor, ring.holds, beast, danger, answer, ground)
            command == IF plan.steers THEN WalkCommand(answer, intent, driving.cancels) ELSE DgNoTarget
<1>1. /\ dgAnchor' = anchor /\ dgEngaged' = ring.engaged /\ dgOrbiting' = ring.holds
      /\ IF DgChordHeld
         THEN dgMind' = DgBlank /\ dgCommanding' = dgCommanding /\ dgTarget' = dgTarget
         ELSE /\ dgMind' = plan.mind
              /\ dgCommanding' = (command # DgNoTarget)
              /\ dgTarget' = IF command = DgNoTarget THEN LetGo(dgCommanding) ELSE command
      /\ dgHere' = dgHere \cup (IF dgAnchor = anchor THEN {} ELSE {"place"}) \cup (IF press = "beast" THEN {"enemy"} ELSE {})
      /\ dgOn' = dgOn /\ dgChords' = dgChords
      /\ dgArmed' = dgArmed /\ dgWalking' = dgWalking /\ dgSteer' = dgSteer /\ dgChord' = dgChord /\ dgAt' = dgAt
      /\ dgStrange' = dgStrange
  BY DEF DgPlan
<1>2. /\ dgMind \in DgMinds /\ dgAt \in DgPlaces /\ dgAnchor \in DgPlaces \cup {DgNone} /\ dgSteer \in DgSides
      /\ dgTarget \in DgTargets /\ dgEngaged \in BOOLEAN \cup {DgNone} /\ dgHere \subseteq {"place", "enemy"}
      /\ dgCommanding \in BOOLEAN /\ (dgTarget.by # "dodge" => dgTarget.push \in DgPlaces)
  BY DEF SteeringTyped, SteeringTypeOK, DgMinds, DgTargets
<1>3. anchor \in DgPlaces \cup {DgNone} /\ intent \in DgSides  BY <1>2 DEF DgSides
<1>4. picked \in BOOLEAN \cup {DgNone}  BY <1>2 DEF DgPicked
<1>5. ring.holds \in BOOLEAN  BY DEF DgRing
<1>6. ring.engaged \in BOOLEAN \cup {DgNone}  BY <1>4 DEF DgRing
<1>7. plan.mind \in DgMinds  BY <1>2, <1>3, <1>5, AimsWithin
<1>8. \/ command = DgNoTarget
      \/ \E push \in -DgFull .. DgFull, left \in 0 .. DgHold : command = DgWalk("dodge", push, left)
  BY <1>3, PushesWithin
<1>9. \A push \in -DgFull .. DgFull, left \in 0 .. DgHold :
        DgWalk("dodge", push, left) \in DgTargets /\ DgWalk("dodge", push, left).by = "dodge"
  <2>1. \A push \in -DgFull .. DgFull : push \in -DgFull .. DgLast + DgFull  BY SteeringAssumption
  <2>. QED  BY <2>1 DEF DgWalk, DgTargets
<1>10. command = DgNoTarget \/ (command \in DgTargets /\ command.by = "dodge")  BY <1>8, <1>9
<1>11. dgHere' \subseteq {"place", "enemy"}  BY <1>1, <1>2
<1>. HIDE DEF anchor, picked, ring, intent, plan, command
<1>12. dgMind' \in DgMinds  BY <1>1, <1>7, RestIsTyped
<1>13. /\ dgTarget' \in DgTargets /\ (dgTarget'.by # "dodge" => dgTarget'.push \in DgPlaces)
       /\ dgCommanding' \in BOOLEAN
  <2>1. CASE DgChordHeld  BY <1>1, <1>2, <2>1
  <2>2. CASE ~DgChordHeld
    <3>1. dgTarget' = DgNoTarget \/ dgTarget' = dgTarget \/ (dgTarget' = command /\ command # DgNoTarget)
      BY <1>1, <2>2 DEF LetGo
    <3>. QED  BY <1>1, <1>2, <1>10, <2>2, <3>1, RestIsTyped
  <2>. QED  BY <2>1, <2>2
<1>. QED  BY <1>1, <1>2, <1>3, <1>5, <1>6, <1>11, <1>12, <1>13 DEF SteeringTyped, SteeringTypeOK, DgMinds, DgTargets

LEMMA SteeringTypesKept == ASSUME SteeringTyped, [SteeringNext]_dgVars PROVE SteeringTyped'
<1>0. DgLast \in Nat /\ DgFull \in Nat /\ DgHold \in Nat /\ DgHold > 0 /\ DgNone \notin Int /\ DgBeasts \subseteq DgPlaces /\ DgBeasts # {}
      /\ DgGrounds \subseteq [DgPlaces -> 0 .. 3]
  BY SteeringAssumption
<1>1. CASE UNCHANGED dgVars
  <2>1. /\ dgTarget' = dgTarget /\ dgMind' = dgMind /\ dgAt' = dgAt /\ dgSteer' = dgSteer /\ dgChord' = dgChord
        /\ dgCommanding' = dgCommanding /\ dgWalking' = dgWalking /\ dgAnchor' = dgAnchor /\ dgEngaged' = dgEngaged
        /\ dgOrbiting' = dgOrbiting /\ dgArmed' = dgArmed /\ dgHere' = dgHere /\ dgStrange' = dgStrange
        /\ dgOn' = dgOn /\ dgChords' = dgChords
    BY <1>1 DEF dgVars, dgGhosts
  <2>. QED  BY <2>1 DEF SteeringTyped, SteeringTypeOK
<1>2. CASE DgPlanNow
  <2>1. PICK press \in Presses, danger \in BOOLEAN, answer \in DgAnswers,
             ground \in Unless(~dgMind.held, DgGrounds), driving \in Unless(dgSteer = 0, DgDriving) :
               \E weapon \in Unless(DgPicked(press) # TRUE, BOOLEAN), beast \in Unless(DgPicked(press) # TRUE, DgBeasts) :
                 DgPlan(press, weapon, beast, ground, danger, answer, driving)
    BY <1>2 DEF DgPlanNow
  <2>2. PICK weapon \in Unless(DgPicked(press) # TRUE, BOOLEAN), beast \in Unless(DgPicked(press) # TRUE, DgBeasts) :
               DgPlan(press, weapon, beast, ground, danger, answer, driving)
    BY <2>1
  <2>3. beast \in DgPlaces
    <3>1. (CHOOSE c \in DgBeasts : TRUE) \in DgBeasts  BY <1>0
    <3>. QED  BY <1>0, <3>1 DEF Unless
  <2>4. dgMind.held => ground \in [DgPlaces -> 0 .. 3]  BY <1>0 DEF Unless
  <2>. QED  BY <2>2, <2>3, <2>4, PlansWithin
<1>3. CASE DgCursorWalk
  <2>1. /\ dgMind' = dgMind /\ dgAt' = dgAt /\ dgSteer' = dgSteer /\ dgChord' = dgChord
        /\ dgCommanding' = dgCommanding /\ dgAnchor' = dgAnchor /\ dgEngaged' = dgEngaged
        /\ dgOrbiting' = dgOrbiting /\ dgArmed' = dgArmed /\ dgHere' = dgHere /\ dgStrange' = dgStrange
        /\ dgOn' = dgOn /\ dgChords' = dgChords
    BY <1>3 DEF DgCursorWalk, dgHeld
  <2>2. \/ dgWalking' = TRUE /\ dgChord # DgNone /\ dgTarget' = DgWalk("cursor", dgChord, DgHold)
        \/ dgWalking' = FALSE /\ dgTarget' = DgNoTarget
        \/ dgWalking' = FALSE /\ dgTarget' = dgTarget
    BY <1>3 DEF DgCursorWalk, LetGo
  <2>3. ASSUME dgChord # DgNone
        PROVE  DgWalk("cursor", dgChord, DgHold) \in DgTargets /\ DgWalk("cursor", dgChord, DgHold).push \in DgPlaces
    <3>1. dgChord \in DgPlaces  BY <2>3 DEF SteeringTyped, SteeringTypeOK
    <3>2. dgChord \in -DgFull .. DgLast + DgFull /\ DgHold \in 0 .. DgHold  BY <1>0, <3>1 DEF DgPlaces
    <3>. QED  BY <3>1, <3>2 DEF DgWalk, DgTargets
  <2>4. dgTarget' \in DgTargets /\ (dgTarget'.by # "dodge" => dgTarget'.push \in DgPlaces) /\ dgWalking' \in BOOLEAN
    BY <2>2, <2>3, RestIsTyped DEF SteeringTyped, SteeringTypeOK, DgTargets
  <2>. QED  BY <2>1, <2>4 DEF SteeringTyped, SteeringTypeOK, DgTargets
<1>4. CASE DgTick
  <2>1. /\ dgMind' = dgMind /\ dgSteer' = dgSteer /\ dgChord' = dgChord
        /\ dgCommanding' = dgCommanding /\ dgAnchor' = dgAnchor /\ dgEngaged' = dgEngaged /\ dgWalking' = dgWalking
        /\ dgOrbiting' = dgOrbiting /\ dgArmed' = dgArmed /\ dgHere' = dgHere /\ dgStrange' = dgStrange
        /\ dgOn' = dgOn /\ dgChords' = dgChords
        /\ dgTarget.left > 0
        /\ dgTarget' = IF dgTarget.left = 1 THEN DgNoTarget ELSE [dgTarget EXCEPT !.left = @ - 1]
        /\ \/ dgTarget.by = "dodge" /\ dgAt' = DgClamp(dgAt + dgTarget.push)
           \/ dgTarget.by # "dodge" /\ dgAt' = dgAt + DgSign(dgTarget.push - dgAt)
    BY <1>4 DEF DgTick, dgHeld, dgGhosts
  <2>2. dgTarget \in DgTargets /\ dgAt \in DgPlaces /\ (dgTarget.by # "dodge" => dgTarget.push \in DgPlaces)
    BY DEF SteeringTyped, SteeringTypeOK, DgTargets
  <2>3. dgTarget.left \in 0 .. DgHold /\ dgTarget.push \in Int /\ dgAt \in Int  BY <2>2 DEF DgTargets, DgPlaces
  <2>4. dgAt' \in DgPlaces  BY <1>0, <2>1, <2>2, <2>3 DEF DgClamp, DgSign, DgPlaces
  <2>5. dgTarget.left # 1 => dgTarget.left - 1 \in 0 .. DgHold  BY <1>0, <2>1, <2>3
  <2>6. dgTarget' \in DgTargets /\ (dgTarget'.by # "dodge" => dgTarget'.push \in DgPlaces)
    BY <2>1, <2>2, <2>5, RestIsTyped DEF DgTargets
  <2>. QED  BY <2>1, <2>4, <2>6 DEF SteeringTyped, SteeringTypeOK, DgTargets
<1>5. CASE DgIdle
  <2>1. /\ dgTarget' = dgTarget /\ dgMind' = [dgMind EXCEPT !.stale = TRUE] /\ dgAt' = dgAt /\ dgSteer' = dgSteer /\ dgChord' = dgChord
        /\ dgCommanding' = dgCommanding /\ dgWalking' = dgWalking /\ dgAnchor' = dgAnchor /\ dgEngaged' = dgEngaged
        /\ dgOrbiting' = dgOrbiting /\ dgArmed' = dgArmed /\ dgHere' = dgHere /\ dgStrange' = dgStrange
        /\ dgOn' = dgOn /\ dgChords' = dgChords
    BY <1>5 DEF DgIdle, dgHeld, dgGhosts
  <2>2. dgMind' \in DgMinds  BY <2>1 DEF SteeringTyped, SteeringTypeOK, DgMinds
  <2>. QED  BY <2>1, <2>2 DEF SteeringTyped, SteeringTypeOK, DgMinds
<1>6. CASE DgTurn
  <2>1. CASE DgArm \/ DgNoEngage \/ DgDies
    <3>1. /\ dgTarget' = dgTarget /\ dgMind' = dgMind /\ dgAt' = dgAt /\ dgSteer' = dgSteer /\ dgChord' = dgChord
          /\ dgCommanding' = dgCommanding /\ dgWalking' = dgWalking /\ dgHere' = dgHere /\ dgStrange' = dgStrange
          /\ dgOn' = dgOn /\ dgChords' = dgChords
          /\ dgAnchor' \in {DgNone, dgAnchor} /\ dgEngaged' \in {DgNone, FALSE, dgEngaged}
          /\ dgOrbiting' \in {FALSE, dgOrbiting} /\ dgArmed' \in BOOLEAN \cup {dgArmed}
      BY <2>1 DEF DgArm, DgNoEngage, DgDies, DgDropEngage, dgGhosts
    <3>. QED  BY <3>1 DEF SteeringTyped, SteeringTypeOK
  <2>2. ASSUME DgModuleConnects \/ DgSwitch \/ DgChordSwitch \/ (\E p \in DgPlaces : DgMoved(p))
               \/ (\E d \in DgSides : DgSteers(d)) \/ (\E p \in {DgNone, DgLast} : DgPoints(p))
        PROVE SteeringTyped'
    <3>1. /\ dgTarget' = dgTarget \/ dgTarget' = DgNoTarget
          /\ dgMind' = dgMind /\ dgCommanding' = dgCommanding /\ dgWalking' = dgWalking /\ dgAnchor' = dgAnchor
          /\ dgEngaged' = dgEngaged /\ dgOrbiting' = dgOrbiting /\ dgArmed' = dgArmed /\ dgHere' = dgHere
          /\ dgStrange' = dgStrange
          /\ dgOn' \in {dgOn, ~dgOn} /\ dgChords' \in {dgChords, ~dgChords}
          /\ dgAt' = dgAt \/ dgAt' \in DgPlaces
          /\ dgSteer' = dgSteer \/ dgSteer' \in DgSides
          /\ dgChord' = dgChord \/ dgChord' \in {DgNone, DgLast}
      BY <2>2 DEF DgModuleConnects, DgSwitch, DgChordSwitch, DgMoved, DgSteers, DgPoints, DgSides, dgHeld, dgGhosts
    <3>2. dgAt' \in DgPlaces /\ dgSteer' \in DgSides /\ dgChord' \in DgPlaces \cup {DgNone}
      BY <1>0, <3>1 DEF SteeringTyped, SteeringTypeOK, DgPlaces
    <3>3. dgTarget' \in DgTargets /\ (dgTarget'.by # "dodge" => dgTarget'.push \in DgPlaces)
      BY <3>1, RestIsTyped DEF SteeringTyped, SteeringTypeOK, DgTargets
    <3>4. dgOn' \in BOOLEAN /\ dgChords' \in BOOLEAN  BY <3>1 DEF SteeringTyped, SteeringTypeOK
    <3>. QED  BY <3>1, <3>2, <3>3, <3>4 DEF SteeringTyped, SteeringTypeOK, DgTargets
  <2>3. ASSUME NEW connects \in BOOLEAN, DgNewMap(connects) PROVE SteeringTyped'
    <3>1. /\ dgTarget' = dgTarget /\ dgAt' = dgAt /\ dgSteer' = dgSteer /\ dgChord' = dgChord
          /\ dgCommanding' = dgCommanding /\ dgWalking' = dgWalking /\ dgHere' = {} /\ dgStrange' \in BOOLEAN
          /\ dgOn' = dgOn /\ dgChords' = dgChords
          /\ dgAnchor' \in {DgNone, dgAnchor} /\ dgEngaged' \in {DgNone, dgEngaged}
          /\ dgOrbiting' \in {FALSE, dgOrbiting} /\ dgArmed' \in {FALSE, dgArmed}
          /\ dgMind' = dgMind \/ dgMind' = DgBlank
      BY <2>3 DEF DgNewMap, DgDrop, DgDropEngage, dgHeld
    <3>2. dgMind' \in DgMinds  BY <3>1, RestIsTyped DEF SteeringTyped, SteeringTypeOK, DgMinds
    <3>. QED  BY <3>1, <3>2 DEF SteeringTyped, SteeringTypeOK, DgMinds
  <2>. QED  BY <1>6, <2>1, <2>2, <2>3 DEF DgTurn
<1>. QED  BY <1>1, <1>2, <1>3, <1>4, <1>5, <1>6 DEF SteeringNext

------------------------------------------------------------------------------
\* What the aim reads is what is about and what is set, and an aim is at somebody alive and
\* in range.
AimTyped ==
  /\ amField \in AmFields /\ amPriority \in AmPriorities
  /\ amAim # AmNobody => amAim.enemy.hp > 0 /\ InRange(amAim.enemy)

LEMMA AimTypesStart == AimInit => AimTyped
BY AimAssumption DEF AimInit, AimTyped

LEMMA AimTypesKept == ASSUME AimInv, AimTyped, [AimDecides \/ AimClaims]_amVars PROVE AimTyped'
<1>1. CASE AimPlan
  <2>1. amField' = amField /\ amPriority' = amPriority  BY <1>1 DEF AimPlan, amScene, amSettings
  <2>2. BestStep \/ amAim' = amAim
    <3>1. [AimDecides \/ AimClaims]_amVars  BY <1>1 DEF AimDecides
    <3>2. [BestStep]_amVars  BY <3>1, AimStep
    <3>. QED  BY <3>2 DEF amVars
  <2>3. amAim' = amAim \/ \E i : Eligible(i) /\ amAim'.enemy = amField[i]
    <3>1. CASE amAim' = amAim  BY <3>1
    <3>2. CASE BestStep  BY <1>1, <3>2 DEF BestStep, Ranked
    <3>. QED  BY <2>2, <3>1, <3>2
  <2>4. amAim' # AmNobody => amAim'.enemy.hp > 0 /\ InRange(amAim'.enemy)
    BY <2>3 DEF AimTyped, Eligible
  <2>. QED  BY <2>1, <2>4 DEF AimTyped, InRange
<1>2. CASE AimWorld
  <2>1. amPriority' = amPriority /\ amAim' = amAim /\ (amField' = amField \/ amField' \in AmFields)
    BY <1>2 DEF AimWorld, amSettings
  <2>. QED  BY <2>1 DEF AimTyped, InRange
<1>3. CASE AimSet
  <2>1. amField' = amField /\ amAim' = amAim /\ (amPriority' = amPriority \/ amPriority' \in AmPriorities)
    BY <1>3 DEF AimSet, amScene
  <2>. QED  BY <2>1 DEF AimTyped, InRange
<1>4. CASE AimIdle \/ AimToggle \/ AimWalls \/ UNCHANGED amVars
  <2>1. amField' = amField /\ amAim' = amAim /\ amPriority' = amPriority
    BY <1>4 DEF AimIdle, AimToggle, AimWalls, amVars, amScene, amSettings
  <2>. QED  BY <2>1 DEF AimTyped, InRange
<1>. QED  BY <1>1, <1>2, <1>3, <1>4 DEF AimDecides, AimClaims

LEMMA AimTypes == AimInv /\ ClaimInv /\ AimTyped => AimTypeOK
BY DEF AimInv, ClaimInv, AimTyped, AimTypeOK

------------------------------------------------------------------------------
\* A track belongs to a session that heard of it, and what it was sampled over is time.
MotionTyped ==
  /\ mtNow \in 0..MtMaxNow /\ mtSweptAt \in 0..MtMaxNow /\ mtTicks \in 0..MtMaxTicks
  /\ mtTrack.there => /\ mtStarted /\ mtTrack.at \in 0..MtMaxNow /\ mtTrack.moving = (mtTurns # <<>>)
                      /\ mtTrack.moving => mtTrack.took > 0
                      /\ mtTrack.elapsed \in 0..mtTicks

LEMMA MotionTypesStart == MotionInit => MotionTyped
<1>1. MtMaxNow \in Nat /\ MtMaxTicks \in Nat  BY MotionAssumption
<1>2. ASSUME MotionInit PROVE mtNow = 0 /\ mtSweptAt = 0 /\ mtTicks = 0 /\ ~mtTrack.there  BY <1>2 DEF MotionInit, MtNone
<1>. QED  BY <1>1, <1>2 DEF MotionTyped

LEMMA SeenTyped ==
  ASSUME MotionInv, MotionTyped, NEW step \in MtSteps, MotionTick(step, TRUE)
  PROVE  MotionTyped'
<1>. DEFINE path == Sum2(mtPath, step)
            next == Sighted(Opened, path)
<1>1. /\ mtStarted' = TRUE /\ mtSweptAt' = (IF SweepDue THEN mtNow ELSE mtSweptAt) /\ mtTrack' = next /\ mtTicks' = 0
      /\ mtTurns' = IF ~next.moving THEN <<>>
                    ELSE IF ~mtTrack.moving THEN <<0>>
                    ELSE <<mtTurns[Len(mtTurns)], Turned(mtTrack.sample, path)>>
      /\ mtNow' = mtNow
  BY DEF MotionTick
<1>2. path \in Int \X Int
  <2>1. mtPath \in Int \X Int /\ step \in Int \X Int  BY MotionAssumption DEF MotionInv
  <2>. QED  BY <2>1 DEF Sum2
<1>3. /\ next \in MtTracks /\ next.at = mtNow /\ next.elapsed = 0
      /\ next.moving => Opened # MtNone /\ next.took = Opened.elapsed
  <2>. HIDE DEF path
  <2>. QED  BY <1>2, SightedAs DEF next
<1>4. mtNow \in 0..MtMaxNow /\ mtSweptAt \in 0..MtMaxNow /\ MtMaxTicks \in Nat  BY MotionAssumption DEF MotionTyped
<1>5. next.moving => next.took > 0
  <2>. SUFFICES ASSUME next.moving PROVE next.took > 0  OBVIOUS
  <2>1. mtTrack.there /\ mtTrack \in MtTracks /\ Opened = [mtTrack EXCEPT !.elapsed = mtTrack.elapsed + 1]
    BY <1>3, TickOpened
  <2>2. Opened.elapsed = mtTrack.elapsed + 1  BY <2>1 DEF MtTracks
  <2>3. mtTrack.elapsed \in 0..mtTicks  BY <2>1 DEF MotionTyped
  <2>. HIDE DEF next
  <2>. QED  BY <1>3, <2>2, <2>3
<1>. HIDE DEF next, path
<1>6. next.moving = (mtTurns' # <<>>)
  <2>1. \A a, b : <<a>> # <<>> /\ <<a, b>> # <<>>
    <3>1. \A a, b : Len(<<a>>) = 1 /\ Len(<<a, b>>) = 2 /\ Len(<<>>) = 0  OBVIOUS
    <3>. QED  BY <3>1
  <2>2. next.moving \in BOOLEAN  BY <1>3 DEF MtTracks
  <2>3. CASE next.moving
    <3>1. mtTurns' = <<0>> \/ \E a, b : mtTurns' = <<a, b>>  BY <1>1, <2>3
    <3>. QED  BY <2>1, <2>2, <2>3, <3>1
  <2>4. CASE ~next.moving  BY <1>1, <2>2, <2>4
  <2>. QED  BY <2>3, <2>4
<1>. QED  BY <1>1, <1>3, <1>4, <1>5, <1>6 DEF MotionTyped

LEMMA UnseenTyped ==
  ASSUME MotionInv, MotionTyped, NEW step \in MtSteps, MotionTick(step, FALSE) \/ MotionUnheard(step)
  PROVE  MotionTyped'
<1>1. /\ mtTicks < MtMaxTicks /\ mtTicks' = mtTicks + 1 /\ mtNow' = mtNow /\ mtTurns' = mtTurns
      /\ \/ /\ mtSweptAt' = (IF SweepDue THEN mtNow ELSE mtSweptAt) /\ mtTrack' = Opened /\ mtStarted' = TRUE
         \/ mtSweptAt' = mtSweptAt /\ mtTrack' = mtTrack /\ mtStarted' = mtStarted
  BY DEF MotionTick, MotionUnheard
<1>2. mtNow \in 0..MtMaxNow /\ mtSweptAt \in 0..MtMaxNow /\ MtMaxTicks \in Nat /\ mtTicks \in 0..MtMaxTicks
  BY MotionAssumption DEF MotionTyped
<1>3. mtTicks' \in 0..MtMaxTicks /\ \A n \in 0..mtTicks : n \in 0..mtTicks' /\ n + 1 \in 0..mtTicks'  BY <1>1, <1>2
<1>4. CASE mtSweptAt' = mtSweptAt /\ mtTrack' = mtTrack /\ mtStarted' = mtStarted
  BY <1>1, <1>2, <1>3, <1>4 DEF MotionTyped
<1>5. CASE mtSweptAt' = (IF SweepDue THEN mtNow ELSE mtSweptAt) /\ mtTrack' = Opened /\ mtStarted' = TRUE
  <2>1. Opened = MtNone \/ (mtTrack.there /\ mtTrack \in MtTracks
                            /\ Opened = [mtTrack EXCEPT !.elapsed = mtTrack.elapsed + 1])
    BY TickOpened
  <2>2. mtSweptAt' \in 0..MtMaxNow  BY <1>2, <1>5
  <2>3. CASE Opened = MtNone
    <3>1. ~mtTrack'.there  BY <1>5, <2>3 DEF MtNone
    <3>. QED  BY <1>1, <1>2, <1>3, <2>2, <3>1 DEF MotionTyped
  <2>4. CASE Opened # MtNone
    <3>1. /\ mtTrack'.elapsed = mtTrack.elapsed + 1 /\ mtTrack.there /\ mtTrack'.at = mtTrack.at
          /\ mtTrack'.moving = mtTrack.moving /\ mtTrack'.took = mtTrack.took
      BY <1>5, <2>1, <2>4 DEF MtTracks
    <3>2. /\ mtTrack.at \in 0..MtMaxNow /\ mtTrack.moving = (mtTurns # <<>>)
          /\ (mtTrack.moving => mtTrack.took > 0) /\ mtTrack.elapsed \in 0..mtTicks
      BY <3>1 DEF MotionTyped
    <3>. QED  BY <1>1, <1>2, <1>3, <1>5, <2>2, <3>1, <3>2 DEF MotionTyped
  <2>. QED  BY <2>3, <2>4
<1>. QED  BY <1>1, <1>4, <1>5

LEMMA MotionTypesKept == ASSUME MotionInv, MotionTyped, [MotionNext]_mtVars PROVE MotionTyped'
<1>1. CASE UNCHANGED mtVars  BY <1>1 DEF mtVars, MotionTyped
<1>2. ASSUME NEW step \in MtSteps, MotionUnheard(step) \/ \E seen \in BOOLEAN : MotionTick(step, seen)
      PROVE MotionTyped'
  BY <1>2, SeenTyped, UnseenTyped
<1>3. CASE MotionWait
  <2>1. /\ mtNow < MtMaxNow /\ mtNow' = mtNow + 1 /\ mtSweptAt' = mtSweptAt /\ mtTrack' = mtTrack /\ mtTicks' = mtTicks
        /\ mtTurns' = mtTurns /\ mtStarted' = mtStarted
    BY <1>3 DEF MotionWait
  <2>2. mtNow' \in 0..MtMaxNow  BY <2>1, MotionAssumption DEF MotionTyped
  <2>. QED  BY <2>1, <2>2 DEF MotionTyped
<1>4. CASE MotionMap
  <2>1. mtNow' = 0 /\ 0 \in 0..MtMaxNow /\ 0 \in 0..MtMaxTicks  BY <1>4, MotionAssumption DEF MotionMap
  <2>2. CASE mtOn
    <3>1. mtSweptAt' = 0 /\ ~mtTrack'.there /\ mtTicks' = 0  BY <1>4, <2>2 DEF MotionMap, MotionClear, MtNone
    <3>. QED  BY <2>1, <3>1 DEF MotionTyped
  <2>3. CASE ~mtOn
    <3>1. mtSweptAt' = mtSweptAt /\ mtTrack' = mtTrack /\ mtTurns' = mtTurns /\ mtTicks' = mtTicks /\ mtStarted' = mtStarted
      BY <1>4, <2>3 DEF MotionMap
    <3>. QED  BY <2>1, <3>1 DEF MotionTyped
  <2>. QED  BY <2>2, <2>3
<1>5. CASE MotionToggle  BY <1>5 DEF MotionToggle, MotionTyped
<1>. QED  BY <1>1, <1>2, <1>3, <1>4, <1>5 DEF MotionNext

LEMMA MotionTypes == MotionInv /\ MotionTyped => MotionTypeOK
<1>. SUFFICES ASSUME MotionInv, MotionTyped PROVE MotionTypeOK  OBVIOUS
<1>1. CASE ~mtTrack.there  BY <1>1 DEF MotionTyped, MotionTypeOK
<1>2. CASE mtTrack.there
  <2>1. mtTrack.sampled = mtTrack.moving  BY <1>2 DEF MotionInv, TurnsTold
  <2>2. mtTrack.elapsed <= mtTicks  BY <1>2 DEF MotionTyped
  <2>. QED  BY <1>2, <2>1, <2>2 DEF MotionTyped, MotionTypeOK
<1>. QED  BY <1>1, <1>2

------------------------------------------------------------------------------
(* Of every behaviour.                                                         *)

\* Auto Nexus: nothing is said after the escape, none leaves a safe zone, health the
\* server calls low is left at that tick, and no area effect is charged over the line
\* (features/autonexus).
THEOREM LeavesInTime == Spec => []NexusInv /\ NothingAfterEscape /\ NeverFromSafety /\ LowIsLeft /\ AreaFloorHolds
<1>1. Init => NexusInv  BY NexusStarts DEF Init
<1>2. NexusInv /\ [Next]_vars => NexusInv'  BY EachItsOwn, NexusStep
<1>3. NexusInv /\ [Next]_vars => [nxEscaped /\ nxOn => nxSaid' \subseteq {"held"}]_nxVars
  BY EachItsOwn, NexusStep DEF NexusActs
<1>4. NexusInv /\ [Next]_vars => [nxSafe => "ESCAPE" \notin nxSaid']_nxVars
  BY EachItsOwn, NexusStep DEF NexusActs
<1>5. NexusInv /\ [Next]_vars => [(nxOn /\ nxEscapes /\ ~nxSafe /\ nxTicks > NxWarmup /\ nxReported' \notin {0, nxReported}
                                     /\ nxReported' + NxDrift <= NxLine) => nxEscaped']_nxVars
  BY EachItsOwn, NexusStep DEF NexusActs
<1>6. NexusInv /\ [Next]_vars => [("aoe" \in nxSaid' /\ nxOn /\ ~nxSafe /\ nxKnown /\ nxHp' # nxHp)
                                     => nxHp' > NxLine]_nxVars
  BY EachItsOwn, NexusStep DEF NexusActs
<1>7. Spec => []NexusInv  BY <1>1, <1>2, PTL DEF Spec
<1>8. Spec => NothingAfterEscape  BY <1>3, <1>7, PTL DEF Spec, NothingAfterEscape
<1>9. Spec => NeverFromSafety  BY <1>4, <1>7, PTL DEF Spec, NeverFromSafety
<1>10. Spec => LowIsLeft  BY <1>5, <1>7, PTL DEF Spec, LowIsLeft
<1>11. Spec => AreaFloorHolds  BY <1>6, <1>7, PTL DEF Spec, AreaFloorHolds
<1>. QED  BY <1>7, <1>8, <1>9, <1>10, <1>11

\* The ground guard: reports are withheld for a window and no longer, and let through a
\* full window apart (features/hazardguard).
THEOREM GroundIsReported == Spec => []HazardInv /\ ServerHears /\ AdmittedApart
<1>1. Init => HazardInv  BY HazardStarts DEF Init
<1>2. HazardInv /\ [Next]_vars => HazardInv'  BY EachItsOwn, HazardStep, HazardActs
<1>3. HazardInv /\ [Next]_vars => [hgReport' = "withheld" => ~HgAtLeast(hgAdmitted, hgHold) \/ ~HgAtLeast(hgEntered', hgHold)]_hgVars
  BY EachItsOwn, HazardStep, HazardActs
<1>4. HazardInv /\ [Next]_vars => [hgReport' = "admitted" => HgAtLeast(hgAdmitted, hgHold)]_hgVars
  BY EachItsOwn, HazardStep, HazardActs
<1>5. Spec => []HazardInv  BY <1>1, <1>2, PTL DEF Spec
<1>6. Spec => ServerHears  BY <1>3, <1>5, PTL DEF Spec, ServerHears
<1>7. Spec => AdmittedApart  BY <1>4, <1>5, PTL DEF Spec, AdmittedApart
<1>. QED  BY <1>5, <1>6, <1>7

\* Hits on what must not be hit never reach the server (features/sanctuary).
THEOREM HitsAreWithheld == Spec => []SanctuaryInv /\ PunishedAreWithheld
<1>1. Init => SanctuaryInv  BY SanctuaryStarts DEF Init
<1>2. SanctuaryInv /\ [Next]_vars => SanctuaryInv'  BY EachItsOwn, SanctuaryStep
<1>3. SanctuaryInv /\ [Next]_vars => [(saHit' # saHit /\ saOn /\ saHit'.target = "dammah" /\ saSpeaking /\ ~saMissed
                                        /\ "dammahMonologue" \in saRules) => saHit'.withheld]_saVars
  BY EachItsOwn, SanctuaryStep
<1>4. Spec => []SanctuaryInv  BY <1>1, <1>2, PTL DEF Spec
<1>5. Spec => PunishedAreWithheld  BY <1>3, <1>4, PTL DEF Spec, PunishedAreWithheld
<1>. QED  BY <1>4, <1>5

\* Abilities: never in the player's hands, further apart the longer none is answered, and
\* not before the interval of what was cast (features/autoability).
THEOREM CastsArePaced == Spec => []AbilityInv /\ HandsOff /\ BacksOff /\ Refreshed
<1>1. Init => AbilityInv  BY AbilityStarts DEF Init
<1>2. AbilityInv /\ [Next]_vars => AbilityInv'  BY EachItsOwn, AbilityStep
<1>3. AbilityInv /\ [Next]_vars => [aaAsked' # "nothing" => aaHands = 0]_aaVars
  BY EachItsOwn, AbilityStep DEF AbilityActs
<1>4. AbilityInv /\ [Next]_vars => [aaAsked' # "nothing" =>
                                      aaNext' >= Min({AaRetryMax, AaRetry * AaTwice[aaOpen]})]_aaVars
  BY EachItsOwn, AbilityStep DEF AbilityActs
<1>5. AbilityInv /\ [Next]_vars => [aaAsked' # "nothing" => aaSpent = 0]_aaVars
  BY EachItsOwn, AbilityStep DEF AbilityActs
<1>6. Spec => []AbilityInv  BY <1>1, <1>2, PTL DEF Spec
<1>7. Spec => HandsOff  BY <1>3, <1>6, PTL DEF Spec, HandsOff
<1>8. Spec => BacksOff  BY <1>4, <1>6, PTL DEF Spec, BacksOff
<1>9. Spec => Refreshed  BY <1>5, <1>6, PTL DEF Spec, Refreshed
<1>. QED  BY <1>6, <1>7, <1>8, <1>9

\* Potions of a kind are drunk a cooldown apart (features/autodrink).
THEOREM DrinksArePaced == Spec => []DrinkInv /\ DrinksApart
<1>1. Init => DrinkInv  BY DrinkStarts DEF Init
<1>2. DrinkInv /\ [Next]_vars => DrinkInv'  BY EachItsOwn, DrinkStep
<1>3. DrinkInv /\ [Next]_vars => [\A k \in adSent': adHeard => adApart[k] >= AdCooldown]_adVars
  BY EachItsOwn, DrinkStep
<1>4. Spec => []DrinkInv  BY <1>1, <1>2, PTL DEF Spec
<1>5. Spec => DrinksApart  BY <1>3, <1>4, PTL DEF Spec, DrinksApart
<1>. QED  BY <1>4, <1>5

\* Portals: entered while they are still asked for, and apart; the way back leads out of
\* the Nexus (features/portals).
THEOREM PortalsAreAsked == Spec => []PortalsInv /\ AsksWhileAsked /\ BackLeadsOut /\ EntersApart
<1>1. Init => PortalsInv  BY PortalsStart DEF Init
<1>2. PortalsInv /\ [Next]_vars => PortalsInv'  BY EachItsOwn, PortalsStep
<1>3. PortalsInv /\ [Next]_vars => [poUsed' = "enter" /\ poAge' # 0 /\ ~poStale => poAge < PoKeep]_poVars
  BY EachItsOwn, PortalsStep DEF PortalsActs
<1>4. PortalsInv /\ [Next]_vars => [poLast' # PoNexus /\ (poLast # PoNowhere => poLast' # PoNowhere)]_poVars
  BY EachItsOwn, PortalsStep DEF PortalsActs
<1>5. PortalsInv /\ [Next]_vars => [poUsed' = "auto" /\ ~poStale => poAuto.since >= PoEnterEvery]_poVars
  BY EachItsOwn, PortalsStep DEF PortalsActs
<1>6. Spec => []PortalsInv  BY <1>1, <1>2, PTL DEF Spec
<1>7. Spec => AsksWhileAsked  BY <1>3, <1>6, PTL DEF Spec, AsksWhileAsked
<1>8. Spec => BackLeadsOut  BY <1>4, <1>6, PTL DEF Spec, BackLeadsOut
<1>9. Spec => EntersApart  BY <1>5, <1>6, PTL DEF Spec, EntersApart
<1>. QED  BY <1>6, <1>7, <1>8, <1>9

\* Answers: never the same twice running, and only to a question that is open
\* (features/autoresponse).
THEOREM AnswersAreWanted == Spec => []AnswersInv /\ NotTwiceRunning /\ SaidWhenWanted
<1>1. Init => AnswersInv  BY AnswersStart DEF Init
<1>2. AnswersInv /\ [Next]_vars => AnswersInv'  BY EachItsOwn, AnswersStep
<1>3. AnswersInv /\ [Next]_vars => [\A k \in caSaid' : k \in DOMAIN caQuiet /\ caQuiet[k] <= 1]_caVars
  BY EachItsOwn, AnswersStep DEF TwiceStep, WantedStep
<1>4. AnswersInv /\ [Next]_vars => [~caMissed => \A k \in caSaid' :
                                      caSince[k] # CaNever /\ caSince[k] + 1 >= ChatEvents[k[1]].listensAfter]_caVars
  BY EachItsOwn, AnswersStep DEF TwiceStep, WantedStep
<1>5. Spec => []AnswersInv  BY <1>1, <1>2, PTL DEF Spec
<1>6. Spec => NotTwiceRunning  BY <1>3, <1>5, PTL DEF Spec, NotTwiceRunning
<1>7. Spec => SaidWhenWanted  BY <1>4, <1>5, PTL DEF Spec, SaidWhenWanted
<1>. QED  BY <1>5, <1>6, <1>7

\* Callouts are an interval apart (features/autocallout).
THEOREM CalloutsArePaced == Spec => []CalloutsInv /\ CalledApart
<1>1. Init => CalloutsInv  BY CalloutsStart DEF Init
<1>2. CalloutsInv /\ [Next]_vars => CalloutsInv'  BY EachItsOwn, CalloutsStep
<1>3. CalloutsInv /\ [Next]_vars => [Len(coCalled') > Len(coCalled) => coApart = CoNever \/ coApart + 1 >= CoInterval]_coVars
  BY EachItsOwn, CalloutsStep DEF CalledLater
<1>4. Spec => []CalloutsInv  BY <1>1, <1>2, PTL DEF Spec
<1>5. Spec => CalledApart  BY <1>3, <1>4, PTL DEF Spec, CalledApart
<1>. QED  BY <1>4, <1>5

\* Tributes are a cooldown apart, and none is late (features/payrespects).
THEOREM TributesArePaced == Spec => []RespectsInv /\ TributesApart /\ SaidInTime
<1>1. Init => RespectsInv  BY RespectsStart DEF Init
<1>2. RespectsInv /\ [Next]_vars => RespectsInv'  BY EachItsOwn, RespectsStep
<1>3. RespectsInv /\ [Next]_vars => [prSaid' # PrNever => prSince >= PrCooldown]_prVars
  BY EachItsOwn, RespectsStep
<1>4. RespectsInv /\ [Next]_vars => [prSaid' # PrNever => prSaid' <= PrLate]_prVars
  BY EachItsOwn, RespectsStep
<1>5. Spec => []RespectsInv  BY <1>1, <1>2, PTL DEF Spec
<1>6. Spec => TributesApart  BY <1>3, <1>5, PTL DEF Spec, TributesApart
<1>7. Spec => SaidInTime  BY <1>4, <1>5, PTL DEF Spec, SaidInTime
<1>. QED  BY <1>5, <1>6, <1>7

\* Motion: only what walks is led, and a stale track does not survive a sweep
\* (features/autoaim/MotionTracker.ts).
THEOREM WalkersAreLed == Spec => []MotionInv /\ OnlyWalkersAreLed /\ StaleForgotten
<1>1. Init => MotionInv  BY MotionStarts DEF Init
<1>2. MotionInv /\ [Next]_vars => MotionInv'  BY EachItsOwn, MotionStep
<1>3. MotionInv /\ [Next]_vars => [\A step \in MtSteps :
                                     MotionTick(step, TRUE) /\ ~mtMissed /\ mtTrack.there /\ mtTrack'.there /\ MtAge(mtTrack) <= MtStale =>
                                       LET path == Sum2(mtPath, step)
                                           jumped == mtJumped \/ Squared(step) > MtTop
                                           time == mtTicks + 1
                                       IN /\ ~jumped => mtTrack'.moving /\ mtTrack'.took = time
                                          /\ Squared(path) > MtTop * time * time => ~mtTrack'.moving]_mtVars
  BY EachItsOwn, MotionStep DEF LedStep, StaleStep
<1>4. MotionInv /\ [Next]_vars => [(\E step \in MtSteps : MotionTick(step, FALSE)) /\ ~mtCarried /\ mtTrack'.there
                                     => mtNow - mtTrack'.at < 2 * MtStale]_mtVars
  BY EachItsOwn, MotionStep DEF LedStep, StaleStep
<1>5. Spec => []MotionInv  BY <1>1, <1>2, PTL DEF Spec
<1>6. Spec => OnlyWalkersAreLed  BY <1>3, <1>5, PTL DEF Spec, OnlyWalkersAreLed
<1>7. Spec => StaleForgotten  BY <1>4, <1>5, PTL DEF Spec, StaleForgotten
<1>. QED  BY <1>5, <1>6, <1>7

\* Aim: the enemy chosen is the best of those that can be hit, whatever their order
\* (features/autoaim/selectTarget.ts).
THEOREM BestIsAimedAt == Spec => []AimInv /\ BestOfThose
<1>1. Init => AimInv  BY AimStarts DEF Init
<1>2. AimInv /\ [Next]_vars => AimInv'  BY EachItsOwn, AimStep
<1>3. AimInv /\ [Next]_vars => [AimPlan =>
                                  LET tellable == ~(amPriority.by = "cursor" /\ amPriority.cursor = AmNobody)
                                      ranked == IF tellable THEN {i \in DOMAIN amField : Ranked(i)} ELSE {}
                                  IN IF ~amArmed THEN amAim' = amAim
                                     ELSE IF amLocks /\ amPicked # AmNobody /\ Eligible(amPicked) THEN amAim'.enemy = amField[amPicked]
                                     ELSE IF ranked = {} THEN amAim' = amAim
                                     ELSE \E i \in ranked : amAim'.enemy = amField[i] /\ \A j \in ranked \ {i} : RanksBefore(i, j)]_amVars
  BY EachItsOwn, AimStep DEF BestStep
<1>4. Spec => []AimInv  BY <1>1, <1>2, PTL DEF Spec
<1>5. Spec => BestOfThose  BY <1>3, <1>4, PTL DEF Spec, BestOfThose
<1>. QED  BY <1>4, <1>5

\* Stats shown are the ones wanted, and the server's own where none is (features/disguise).
THEOREM ShownAsItIsWanted == Spec => []DisguiseInv /\ ShownAsWanted
<1>1. Init => DisguiseInv  BY DisguiseStarts DEF Init
<1>2. DisguiseInv /\ [Next]_vars => DisguiseInv'  BY EachItsOwn, DisguiseStep
<1>3. DisguiseInv /\ [Next]_vars => [sdServer' # sdServer \/ sdClient' # sdClient => (sdOn /\ ~sdMissed' /\ sdSessions' = sdSessions
                                       => \A s \in SdStats : sdClient'[s] = SdOr(sdTargets[s], SdOr(sdServer'[s], SdAbsent)))]_sdVars
  BY EachItsOwn, DisguiseStep
<1>4. Spec => []DisguiseInv  BY <1>1, <1>2, PTL DEF Spec
<1>5. Spec => ShownAsWanted  BY <1>3, <1>4, PTL DEF Spec, ShownAsWanted
<1>. QED  BY <1>4, <1>5

\* Steering: the dodge does not take the wheel from the cursor, and returns nearby
\* (features/dodge).
THEOREM OneWalksIt == Spec => []SteeringInv /\ OneWriter /\ ReturnsNearby
<1>1. Init => SteeringInv  BY SteeringStarts DEF Init
<1>2. SteeringInv /\ [Next]_vars => SteeringInv'  BY EachItsOwn, SteeringStep
<1>3. SteeringInv /\ [Next]_vars => [dgTarget.by = "cursor" /\ DgChordHeld => dgTarget'.by # "dodge"]_dgVars
  BY EachItsOwn, SteeringStep DEF OneWriterStep, ReturnsStep
<1>4. SteeringInv /\ [Next]_vars => [/\ dgMind' # dgMind /\ dgMind'.held /\ ~dgMind'.pinned /\ ~dgMind'.stale => DgGap(dgAt, dgMind'.place) <= DgReach
                                     /\ dgMind.pinned /\ ~dgMind'.pinned => dgMind'.place = dgAt \/ dgMind' = DgBlank]_dgVars
  BY EachItsOwn, SteeringStep DEF OneWriterStep, ReturnsStep
<1>5. Spec => []SteeringInv  BY <1>1, <1>2, PTL DEF Spec
<1>6. Spec => OneWriter  BY <1>3, <1>5, PTL DEF Spec, OneWriter
<1>7. Spec => ReturnsNearby  BY <1>4, <1>5, PTL DEF Spec, ReturnsNearby
<1>. QED  BY <1>5, <1>6, <1>7

\* What no step of a feature that acts may do, together (features that act).
THEOREM FeaturesActInTime == Spec => ActsInTime
BY LeavesInTime, GroundIsReported, HitsAreWithheld, CastsArePaced, DrinksArePaced, PortalsAreAsked, AnswersAreWanted, CalloutsArePaced, TributesArePaced, WalkersAreLed, BestIsAimedAt, ShownAsItIsWanted, OneWalksIt DEF ActsInTime
\* What pushes is shown as the plain ground chosen, and no other ground is touched
\* (features/tilepush).
THEOREM GroundIsReplaced == Spec => []PushInv
<1>1. Init => PushInv  BY PushStarts DEF Init
<1>2. PushInv /\ [Next]_vars => PushInv'  BY EachItsOwn, PushStep
<1>. QED  BY <1>1, <1>2, PTL DEF Spec

\* A class shown again wears what it was last seen in (features/wardrobe).
THEOREM WornAsSeen == Spec => []WardrobeInv
<1>1. Init => WardrobeInv  BY WardrobeStarts DEF Init
<1>2. WardrobeInv /\ [Next]_vars => WardrobeInv'  BY EachItsOwn, WardrobeStep
<1>. QED  BY <1>1, <1>2, PTL DEF Spec

\* The stand-in is shown from the first tick handled on (features/streamermode).
THEOREM StandInStays == Spec => []StreamerInv
<1>1. Init => StreamerInv  BY StreamerStarts DEF Init
<1>2. StreamerInv /\ [Next]_vars => StreamerInv'  BY EachItsOwn, StreamerStep
<1>. QED  BY <1>1, <1>2, PTL DEF Spec

\* The client is told of no object it was not given, of every telegraph, and of sizes as
\* switched (features/antilag).
THEOREM HiddenRightly == Spec => []AntiLagInv
<1>1. Init => AntiLagInv  BY AntiLagStarts DEF Init
<1>2. AntiLagInv /\ [Next]_vars => AntiLagInv'  BY EachItsOwn, AntiLagStep
<1>. QED  BY <1>1, <1>2, PTL DEF Spec

\* What was hidden is counted once, under one of the reasons, and the line shown was handled
\* under the settings that stand (features/chatfilter, features/streamermode).
THEOREM ChatIsCounted == Spec => []ChatBoxInv
<1>1. Init => ChatBoxInv  BY ChatBoxStarts DEF Init
<1>2. ChatBoxInv /\ [Next]_vars => ChatBoxInv'  BY EachItsOwn, ChatBoxStep
<1>. QED  BY <1>1, <1>2, PTL DEF Spec

\* What the client or the server is not shown is what the switches say (features that rewrite
\* or withhold): ground and hits, strangers, telegraphs and sizes, names and skins, lines of
\* chat, of any length and in any disguise.
THEOREM ShownTruly == Spec => []ShownAsSwitched
<1>1. SanctuaryInv /\ PushInv /\ WardrobeInv /\ StreamerInv /\ AntiLagInv /\ ChatBoxInv => ShownAsSwitched
  BY OwnIsHeard, WordIsSeen, NameIsHidden DEF ShownAsSwitched, SanctuaryInv, PushInv, WardrobeInv, StreamerInv, AntiLagInv
<1>. QED  BY <1>1, HitsAreWithheld, GroundIsReplaced, WornAsSeen, StandInStays, HiddenRightly, ChatIsCounted, PTL

\* A portal is called once, and only one that opened after the player had settled
\* (features/autocallout).
THEOREM NewsAlone == Spec => []NewsInv /\ []OnceAndOnlyNews
<1>1. Init => CalloutsInv /\ NewsInv  BY CalloutsStart, NewsStarts DEF Init
<1>2. CalloutsInv /\ NewsInv /\ [Next]_vars => CalloutsInv' /\ NewsInv'  BY EachItsOwn, CalloutsStep, NewsKept
<1>3. CalloutsInv /\ NewsInv => OnceAndOnlyNews  BY NewsTold
<1>. QED  BY <1>1, <1>2, <1>3, PTL DEF Spec

\* Walls are passed while it is asked for, and no longer than a lease after
\* (features/autoaim/autoAimPlugin.ts).
THEOREM WallsAreClaimed == Spec => []ClaimInv /\ []WallsAsWanted
<1>1. Init => ClaimInv  BY ClaimStarts DEF Init
<1>2. ClaimInv /\ [Next]_vars => ClaimInv'  BY EachItsOwn, ClaimKept
<1>3. ClaimInv => WallsAsWanted  BY WallsHeld
<1>. QED  BY <1>1, <1>2, <1>3, PTL DEF Spec

\* A feature acts on what it was shown: held reports stand behind the escape, a countdown
\* runs while one is open, a callout is news, the shot is aimed where it first meets, walls
\* are passed as asked, a turn is one seen twice, and a walk and a push are the dodge's own.
THEOREM SeenTruly == Spec => []ActsOnWhatItSaw
<1>1. /\ NexusInv /\ HazardInv /\ OnceAndOnlyNews /\ AimInv /\ WallsAsWanted /\ MotionInv /\ SteeringInv
      => ActsOnWhatItSaw
  <2>. SUFFICES ASSUME NexusInv, HazardInv, OnceAndOnlyNews, AimInv, WallsAsWanted, MotionInv, SteeringInv
                PROVE ActsOnWhatItSaw
    OBVIOUS
  <2>1. HeldBehindEscape /\ CountdownRuns  BY DEF NexusInv, HazardInv
  <2>2. FirstMeeting  BY FirstIsMet
  <2>3. TurnsAreCorroborated
    <3>. SUFFICES ASSUME mtTrack.there, mtTrack.turning PROVE Len(mtTurns) = 2 /\ mtTurns[1] * mtTurns[2] > 0
      BY DEF TurnsAreCorroborated
    <3>1. TurnsTold  BY DEF MotionInv
    <3>2. TurnsSo(mtTurns, mtTrack.turn, mtTrack.turning)  BY <3>1 DEF TurnsTold
    <3>3. PICK a, b \in {-1, 0, 1} : mtTurns = <<a, b>> /\ a * b > 0  BY <3>2 DEF TurnsSo
    <3>. QED  BY <3>3
  <2>4. WalkIsOwned /\ NamedHere /\ RingIsNamed /\ PushIsTheDifference  BY PushIs DEF SteeringInv
  <2>. QED  BY <2>1, <2>2, <2>3, <2>4 DEF ActsOnWhatItSaw
<1>. QED  BY <1>1, LeavesInTime, GroundIsReported, NewsAlone, BestIsAimedAt, WallsAreClaimed, WalkersAreLed, OneWalksIt, PTL

\* Every feature's state has its type, whatever the figures and however many steps.
THEOREM PlayTyped == Spec => []PlayTypes
<1>. DEFINE Typed1 == AbilityTyped /\ AnswersTyped /\ NexusTyped /\ HazardTyped
            Typed2 == SteeringTyped /\ AimTyped /\ MotionTyped
            Kept == AbilityInv /\ AnswersInv /\ NexusInv /\ AimInv /\ MotionInv
<1>1. Init => Typed1  BY AbilityTypes, AnswersTypes, NexusTypesStart, HazardTypes DEF Init
<1>2. Init => Typed2  BY SteeringTypesStart, AimTypesStart, MotionTypesStart DEF Init
<1>3. Kept /\ Typed1 /\ [Next]_vars => Typed1'  BY EachItsOwn, AbilityTypes, AnswersTypes, NexusTypesKept, HazardTypes
<1>4. Kept /\ Typed2 /\ [Next]_vars => Typed2'  BY EachItsOwn, SteeringTypesKept, AimTypesKept, MotionTypesKept
<1>5. /\ Kept /\ Typed1 /\ Typed2 /\ HazardInv /\ CalloutsInv /\ NewsInv /\ ClaimInv /\ DisguiseInv
      /\ ChatBoxInv /\ StreamerInv /\ WardrobeInv /\ AntiLagInv
      => PlayTypes
  <2>1. Kept /\ Typed1 /\ HazardInv => NexusTypeOK /\ HazardTypeOK /\ AbilityTypeOK /\ AnswersTypeOK
    BY AbilityTypes, AnswersTypes, NexusTypes, HazardTypes
  <2>2. Kept /\ Typed2 /\ ClaimInv => SteeringTypeOK /\ AimTypeOK /\ MotionTypeOK
    BY AimTypes, MotionTypes DEF SteeringTyped
  <2>3. CalloutsInv /\ NewsInv => CalloutsTypeOK  BY NewsTold
  <2>4. ChatBoxInv /\ StreamerInv /\ WardrobeInv /\ AntiLagInv
        => ChatBoxTypeOK /\ StreamerTypeOK /\ WardrobeTypeOK /\ AntiLagTypeOK
    BY DEF ChatBoxInv, StreamerInv, WardrobeInv, AntiLagInv
  <2>5. DisguiseInv => DisguiseTypeOK  BY DisguiseTyped
  <2>6. /\ NexusTypeOK /\ HazardTypeOK /\ AbilityTypeOK /\ AnswersTypeOK /\ SteeringTypeOK /\ AimTypeOK /\ MotionTypeOK
        /\ CalloutsTypeOK /\ ChatBoxTypeOK /\ StreamerTypeOK /\ WardrobeTypeOK /\ AntiLagTypeOK /\ DisguiseTypeOK
        => PlayTypes
    BY DEF PlayTypes
  <2>. HIDE DEF Kept, Typed1, Typed2
  <2>. QED  BY <2>1, <2>2, <2>3, <2>4, <2>5, <2>6
<1>. QED  BY <1>1, <1>2, <1>3, <1>4, <1>5, LeavesInTime, GroundIsReported, CastsArePaced, AnswersAreWanted,
             CalloutsArePaced, NewsAlone, WallsAreClaimed, BestIsAimedAt, WalkersAreLed, ShownAsItIsWanted,
             WornAsSeen, StandInStays, HiddenRightly, ChatIsCounted, PTL DEF Spec
=============================================================================
