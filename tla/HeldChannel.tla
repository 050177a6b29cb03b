---------------------------- MODULE HeldChannel ----------------------------
(***************************************************************************)
(* What a Transport promises (apps/runtime/src/proxy/Transport.ts:3-43):   *)
(* a pipe that carries what it accepted in order and without a gap, can be *)
(* held and let go, and when it is cut is cut for good: the far end has    *)
(* then seen a beginning of what was accepted, and sees nothing more.      *)
(***************************************************************************)
EXTENDS Integers, Sequences

CONSTANT Load

VARIABLES
  accepted,    \* everything handed over, in order
  delivered,   \* what has left towards the far end
  held,        \* nothing more may leave
  cut          \* nothing will ever leave again

vars == <<accepted, delivered, held, cut>>

\* What may have left once the channel runs freely: some beginning of what was
\* accepted, at least as long as what already left.
Beginnings == {SubSeq(accepted, 1, n) : n \in Len(delivered)..Len(accepted)}

Init ==
  /\ accepted = << >>
  /\ delivered = << >>
  /\ held \in BOOLEAN
  /\ cut = FALSE

\* One more is handed over.  It waits behind what waits already, or leaves
\* now; or it is the one too many, and the channel is cut.
Accept(x) ==
  /\ ~cut
  /\ accepted' = Append(accepted, x)
  /\ \/ UNCHANGED <<delivered, cut>>
     \/ ~held /\ delivered = accepted /\ delivered' = accepted' /\ UNCHANGED cut
     \/ cut' = TRUE /\ UNCHANGED delivered
  /\ UNCHANGED held

Deliver ==
  /\ ~held /\ ~cut
  /\ delivered' \in Beginnings \ {delivered}
  /\ UNCHANGED <<accepted, held, cut>>

Hold ==
  /\ held' = TRUE
  /\ UNCHANGED <<accepted, delivered, cut>>

Release ==
  /\ held' = FALSE
  /\ delivered' \in (IF cut THEN {delivered} ELSE Beginnings)
  /\ UNCHANGED <<accepted, cut>>

Cut ==
  /\ cut' = TRUE
  /\ UNCHANGED <<accepted, delivered, held>>

Next == (\E x \in Load : Accept(x)) \/ Deliver \/ Hold \/ Release \/ Cut

Spec == Init /\ [][Next]_vars

\* What is free to leave leaves.
FairSpec == Spec /\ WF_vars(Deliver)
=============================================================================
