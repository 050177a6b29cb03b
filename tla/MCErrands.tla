------------------------------ MODULE MCErrands ------------------------------
(* Errands: what features carry through in several steps, each on its own:    *)
(* `subject` says which of them this behaviour is about.                      *)
EXTENDS ServerSwitch, Following, AutoLoot, VaultSort, Claims

CONSTANTS Subjects, a1, a2, a3, att, hp, p1, p2, q1, q2

VARIABLE subject

\* A wall of two tiles in the middle.
MCTiles == ((0..3) \X (0..2)) \ {<<1, 1>>, <<2, 1>>}

\* Each subject but the one this behaviour is about is at rest in a plain state.
Init ==
  /\ subject \in Subjects
  /\ SwitchInit
  /\ TrailInit /\ (subject # "trail" => ftSelf = <<0, 0>> /\ ftAlly = <<0, 0>>)
  /\ FollowingInit /\ (subject # "following" => fwHere = {})
  /\ LootInit /\ (subject # "loot" => ltBag = CHOOSE b \in [LtSlots -> LtTypes] : TRUE)
  /\ IF subject = "rules" THEN RulesInit ELSE lrCase = [what |-> "none"]
  /\ ArrowInit /\ (subject # "arrow" => qaQuest = q1 /\ qaSettings = [quest |-> FALSE, announce |-> FALSE])
  /\ VaultInit /\ (subject # "vault" => vsReal = CHOOSE c \in VsChests : TRUE)
  /\ ClaimsInit /\ (subject # "claims" => ~clOn /\ clNumber = 1 /\ ~clGone)

Others(moving) ==
  /\ UNCHANGED subject
  /\ IF moving = "switch" THEN TRUE ELSE UNCHANGED swVars
  /\ IF moving = "trail" THEN TRUE ELSE UNCHANGED ftVars
  /\ IF moving = "following" THEN TRUE ELSE UNCHANGED fwVars
  /\ IF moving = "loot" THEN TRUE ELSE UNCHANGED ltVars
  /\ IF moving = "rules" THEN TRUE ELSE UNCHANGED lrVars
  /\ IF moving = "arrow" THEN TRUE ELSE UNCHANGED qaVars
  /\ IF moving = "vault" THEN TRUE ELSE UNCHANGED vsVars
  /\ IF moving = "claims" THEN TRUE ELSE UNCHANGED clVars

Next ==
  \/ subject = "switch" /\ SwitchNext /\ Others("switch")
  \/ subject = "trail" /\ TrailNext /\ Others("trail")
  \/ subject = "following" /\ FollowingNext /\ Others("following")
  \/ subject = "loot" /\ LootNext /\ Others("loot")
  \/ subject = "rules" /\ RulesNext /\ Others("rules")
  \/ subject = "arrow" /\ ArrowNext /\ Others("arrow")
  \/ subject = "vault" /\ VaultNext /\ Others("vault")
  \/ subject = "claims" /\ ClaimsNext /\ Others("claims")

vars == <<subject, swVars, ftVars, fwVars, ltVars, lrVars, qaVars, vsVars, clVars>>

\* What each subject is owed, one step of each put together: the subject never
\* changes, so that this asks no more than its own fairness.
Owed1 ==
  \/ subject = "switch" /\ SwConnect /\ Others("switch")
  \/ subject = "trail" /\ TrailTick(TRUE) /\ Others("trail")
  \/ subject = "following" /\ FollowingTime /\ Others("following")
  \/ subject = "loot" /\ (\E onBag \in BOOLEAN : LootTick(onBag)) /\ Others("loot")
  \/ subject = "arrow" /\ (\E near \in SUBSET QaBags : ArrowTick(near)) /\ Others("arrow")
  \/ subject = "vault" /\ Drive /\ Others("vault")
  \/ subject = "claims" /\ ClSecond /\ Others("claims")
Owed2 ==
  \/ subject = "switch" /\ SwHello /\ Others("switch")
  \/ subject = "following" /\ TeleportTicks /\ Others("following")
  \/ subject = "loot" /\ LootClock /\ Others("loot")
  \/ subject = "arrow" /\ ArrowClock /\ Others("arrow")
  \/ subject = "vault" /\ SortClock /\ Others("vault")
  \/ subject = "claims" /\ ClAccept /\ Others("claims")
Owed3 ==
  \/ subject = "following" /\ (TeleportSent \/ TeleportLapsed) /\ Others("following")
  \/ subject = "loot" /\ (\E key \in {"move", "drink"} : ltQueue[key] # LtNothing /\ ltQueue[key].left = 0 /\ GivenUp(key)) /\ Others("loot")
  \/ subject = "vault" /\ (Carries \/ Ignores \/ SortRefused) /\ Others("vault")
Owed4 ==
  \/ subject = "following" /\ FollowTick /\ Others("following")
  \/ subject = "loot" /\ (LootRefused \/ LootAnswered) /\ Others("loot")
  \/ subject = "vault" /\ (HearResult \/ HearSnapshot) /\ Others("vault")
Owed5 ==
  \/ subject = "vault" /\ SortLeaves /\ Others("vault")

Spec == Init /\ [][Next]_vars /\ WF_vars(Owed1) /\ WF_vars(Owed2) /\ WF_vars(Owed3) /\ WF_vars(Owed4) /\ SF_vars(Owed5)

(***************************************************************************)
(* Properties, put together by what they are about.                        *)
(***************************************************************************)
\* Chests of up to five slots with a gap.
MCChests == {c \in UNION {[1..n -> 0..2] : n \in 1..5} \cup [1..4 -> 0..4] : Gaps(c) # {}}

\* The type invariants of the errands, one beside the other.
ErrandTypes ==
  /\ subject = "switch" => SwitchTypeOK
  /\ subject = "following" => FollowingTypeOK
  /\ subject = "loot" => LootTypeOK
  /\ subject = "vault" => VaultTypeOK
  /\ subject = "claims" => ClaimsTypeOK

\* The plan sorts every small chest, each move of it into an empty slot.
PlansSort == \A chest \in MCChests : PlanSorts(chest)

\* What an errand believes is what is there, wherever it has got to: the server it
\* plays on, the line of sight it walks by, the arrow, the chest, the colour of the
\* sign; what it may want or put down by the rules of the items; the plan of a sort,
\* over every small chest, and that what is called done is.
ErrandsAreTrue ==
  /\ subject = "switch" => PlaysWhereChosen /\ BouncesBounded
  /\ subject = "trail" => NeverBlind
  /\ subject = "rules" => MoreIsMore /\ BeltStaysLegal
  /\ subject = "arrow" => ArrowIsWhereSaid
  /\ subject = "vault" => PictureIsTrue /\ PlansSort /\ DoneIsSorted
  /\ subject = "claims" => SignedInColour

\* What no step of an errand may do, whatever was queued, refused, superseded or
\* answered late: act again too soon, drop a seat or a potion the player is moving,
\* ask where asking is hopeless, announce a bag twice, claim before the number.
ErrandsStepFairly ==
  SeatNeverDropped /\ JumpsApart /\ GivesUpOnMap /\ MovesApart /\ GuardHolds
  /\ AnnouncedOnce /\ NeverOnOld

\* An errand comes to its end: the client lands, the ally is reached, a
\* move and a jump are settled, a sort is over, the arrow put right, the collider
\* given back (features/reconnect, autofollow, autoloot, vaultsort, questarrow, collider).
UnderWay ==
  \/ subject = "switch" /\ Travelling
  \/ subject = "trail" /\ FtBehind
  \/ subject = "following" /\ JumpWaits
  \/ subject = "loot" /\ LootWaits
  \/ subject = "arrow" /\ ArrowWrong
  \/ subject = "vault" /\ Sorting
  \/ subject = "claims" /\ ClGivenUp
Over ==
  \/ subject = "switch" /\ SwitchLanded
  \/ subject = "trail" /\ FtThere
  \/ subject = "following" /\ ~JumpWaits
  \/ subject = "loot" /\ LootOver
  \/ subject = "arrow" /\ ArrowRight
  \/ subject = "vault" /\ NoSort
  \/ subject = "claims" /\ ClRestored
ErrandsEnd == UnderWay ~> Over
==============================================================================
