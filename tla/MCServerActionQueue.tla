------------------------ MODULE MCServerActionQueue ------------------------
(* Small instances of the outbound queue.  One unit of time stands for the  *)
(* 250 ms of an item use; a move asks for 3 of them here, a portal for 2.   *)
EXTENDS ServerActionQueue

CONSTANTS swap, use, portal, item, travel, k1

MCLaneOf == [k \in Kind |-> IF k = portal THEN travel ELSE item]
MCSpacing == [k \in Kind |-> IF k = swap THEN 3 ELSE IF k = use THEN 1 ELSE 2]
MCNever == -10
MCRank == [l \in Lane |-> IF l = item THEN 0 ELSE 1]

MCAsk(kind, priority, key, expiresIn, watched, encodes) ==
  [kind |-> kind, priority |-> priority, key |-> key, expiresIn |-> expiresIn,
   watched |-> watched, window |-> 2, encodes |-> encodes]

\* Two lanes: a use and a portal that watch for their results, and a move
\* nobody can build.
PacedAsks == {MCAsk(swap, 1, None, 4, TRUE, FALSE), MCAsk(use, 1, k1, 2, TRUE, TRUE),
              MCAsk(portal, 2, k1, 2, TRUE, TRUE)}

\* One lane: requests that outlive a hold, and one that expires within it.
PatientAsks == {MCAsk(swap, 1, None, 4, TRUE, TRUE), MCAsk(use, 1, None, 4, FALSE, TRUE),
                MCAsk(use, 2, k1, 2, FALSE, FALSE)}
=============================================================================
