------------------------------ MODULE VaultSort ------------------------------
(* The vault sorter (features/vaultsort): the plan of moves, and the run that *)
(* carries it out.                                                            *)
EXTENDS Integers, Sequences, FiniteSets

------------------------------------------------------------------------------
(* The moves of a vault sort (features/vaultsort/sortPlan): the order a chest is   *)
(* to be put in, and the moves that put it there, each into a slot that is empty   *)
(* when it is made. A chest is a sequence of ranks, 0 for an empty slot; which     *)
(* order the player chose, and how names compare, is in the rank.                  *)

SpEmpty == 0
Gaps(chest) == {s \in DOMAIN chest : chest[s] = SpEmpty}

\* The comparison of sortedSlots: empty slots last, then by rank, then as they lie.
Before(chest, x, y) ==
  \/ chest[x] # SpEmpty /\ chest[y] = SpEmpty
  \/ (chest[x] = SpEmpty) = (chest[y] = SpEmpty) /\ chest[x] < chest[y]
  \/ chest[x] = chest[y] /\ x < y

\* sortedSlots: at each position, the slot whose contents belong there.
SortedSlots(chest) ==
  [p \in DOMAIN chest |->
     CHOOSE s \in DOMAIN chest : Cardinality({o \in DOMAIN chest : Before(chest, o, s)}) = p - 1]

InOrder(chest) == \A p \in 1..(Len(chest) - 1) : chest[p + 1] # SpEmpty =>
                    chest[p] # SpEmpty /\ chest[p] <= chest[p + 1]

\* What a chest is after a move.
MovedTo(chest, move) == [chest EXCEPT ![move.to] = chest[move.from], ![move.from] = SpEmpty]

\* The slots reached from one by following the target: the gap travels this way.
Hops(target, slot) ==
  LET hop[k \in 1..Len(target)] == IF k = 1 THEN slot ELSE target[hop[k - 1]]
  IN hop
Orbit(target, slot) == {Hops(target, slot)[k] : k \in DOMAIN target}

\* Walking a gap backward round its cycle: what belongs in it moves in.
CycleWalked(chest, hop, steps) ==
  LET step(k) == [from |-> hop[k + 1], to |-> hop[k]]
      kept == SelectSeq([k \in 1..steps |-> k], LAMBDA k : chest[hop[k + 1]] # SpEmpty)
  IN [i \in DOMAIN kept |-> step(kept[i])]

\* A cycle with no gap of its own borrows the first one and gives it back.
Borrowed(chest, target, start, size) ==
  LET hop == Hops(target, start)
      buffer == CHOOSE g \in Gaps(chest) : \A o \in Gaps(chest) : g <= o
  IN <<[from |-> start, to |-> buffer]>> \o CycleWalked(chest, hop, size - 1)
       \o <<[from |-> buffer, to |-> hop[size]]>>

\* The gap of the cycle that is met first: the search follows the contents
\* forward, against the hops.
OwnGap(chest, target, start, size) ==
  LET hop == Hops(target, start)
      met == {k \in 1..size : chest[hop[k]] = SpEmpty}
  IN hop[IF 1 \in met THEN 1 ELSE CHOOSE k \in met : \A o \in met : o <= k]

\* One cycle of the permutation, from the least slot of it.
CycleMoves(chest, target, start) ==
  LET orbit == Orbit(target, start)
      size == Cardinality(orbit)
  IN IF size = 1 \/ \E s \in orbit : s < start THEN <<>>
     ELSE IF orbit \cap Gaps(chest) # {}
     THEN CycleWalked(chest, Hops(target, OwnGap(chest, target, start, size)), size - 1)
     ELSE Borrowed(chest, target, start, size)

\* planMoves: the cycles one after another, from the least slot. (The bound variables
\* name what a step starts from, once.)
MovedAll(chest, moves) ==
  LET after[i \in 0..Len(moves)] ==
        IF i = 0 THEN chest ELSE CHOOSE c \in {MovedTo(b, moves[i]) : b \in {after[i - 1]}} : TRUE
  IN after[Len(moves)]
PlanMoves(chest, target) ==
  LET cycle(plan, slot) ==
        {[chest |-> MovedAll(plan.chest, m), moves |-> plan.moves \o m] :
           m \in {CycleMoves(plan.chest, target, slot)}}
      plan[slot \in 0..Len(chest)] ==
        IF slot = 0 THEN [chest |-> chest, moves |-> <<>>]
        ELSE CHOOSE p \in UNION {cycle(before, slot) : before \in {plan[slot - 1]}} : TRUE
  IN plan[Len(chest)].moves
PlanFor(chest) == CHOOSE moves \in {PlanMoves(chest, target) : target \in {SortedSlots(chest)}} : TRUE

\* The first move of the plan, which is asked for afresh before every move: that of
\* the first cycle. A chest in order has none; one without a gap is never planned.
NoMove == [from |-> 0, to |-> 0]
Astray(target) == {s \in DOMAIN target : target[s] # s}
NextMove(chest) ==
  CHOOSE move \in
    {IF Astray(target) = {} \/ Gaps(chest) = {} THEN NoMove
     ELSE CycleMoves(chest, target,
                     CHOOSE s \in Astray(target) : \A o \in Astray(target) : s <= o)[1] :
       target \in {SortedSlots(chest)}} : TRUE

(***************************************************************************)
(* Properties, over every chest of some length.                            *)
(***************************************************************************)

\* The plan puts the chest in the order asked for, every move of it goes into a slot
\* that is empty then, and its first is the move a sort asks for (sortPlan.planMoves).
PlanSorts(chest) ==
  \A moves \in {PlanFor(chest)} :
    /\ MovedAll(chest, moves) = [p \in DOMAIN chest |-> chest[SortedSlots(chest)[p]]]
    /\ InOrder(MovedAll(chest, moves))
    /\ \A i \in DOMAIN moves : \A then \in {MovedAll(chest, SubSeq(moves, 1, i - 1))} :
         then[moves[i].to] = SpEmpty /\ then[moves[i].from] # SpEmpty
    /\ NextMove(chest) = IF moves = <<>> THEN NoMove ELSE moves[1]

------------------------------------------------------------------------------
(* Sorting a vault chest (features/vaultsort): one session, one chest, and the     *)
(* server that carries the moves out. The chest the plugin sees is patched from    *)
(* snapshots (VAULTCONTENT) and results (INVRESULT), which describe one move in    *)
(* either order; the real one is the server's. Items are ranks (SortPlan).         *)

CONSTANTS VsSlots,        \* number of slots
          VsRanks,        \* ranks of items, > 0
          VsInterval,     \* the moveIntervalMs setting, in clock steps
          VsPatience,     \* PENDING_TIMEOUT_MS
          VsStrikes,      \* MAX_UNCONFIRMED_MOVES
          VsExpiry,       \* QUEUE_EXPIRY_MS
          VsSilences,     \* bound: moves the server does not carry out
          VsRuns,         \* bound: sorts begun
          VsNone,
          VsUnsent        \* sentAtMs of infinity

ASSUME VaultAssumption ==
  /\ {VsSlots, VsInterval, VsPatience, VsStrikes, VsExpiry} \subseteq Nat \ {0}
  /\ VsRanks \subseteq Nat \ {0}

VARIABLES vsReal,         \* the server: what the chest holds
          vsSeen,         \* VaultChests: what the plugin believes it holds
          vsRun,          \* run: [pending, since, strikes], or VsNone
          vsQueue,        \* the move that waits in the outbound queue: [move, types, left, own, here],
                        \* the pending one of its run or not, and asked for by this run or not
          vsUp,           \* moves on their way to the server
          vsDown,         \* snapshots and results on their way to the plugin, in order
          vsSilent, vsBegun,
          vsStep          \* ours: what this step did

vsVars == <<vsReal, vsSeen, vsRun, vsQueue, vsUp, vsDown, vsSilent, vsBegun, vsStep>>
VsChests == [1..VsSlots -> VsRanks \cup {SpEmpty}]
VsOf(one, two) == [one |-> one, two |-> two]

VaultInit ==
  /\ vsReal \in VsChests /\ vsSeen = vsReal /\ vsRun = VsNone /\ vsQueue = VsNone
  /\ vsUp = <<>> /\ vsDown = <<>> /\ vsSilent = 0 /\ vsBegun = 0 /\ vsStep = "none"

(***************************************************************************)
(* A sort: begun, driven, ended.                                           *)
(***************************************************************************)

\* begin: a chest that is empty, full or in order is told so and left alone. Bound:
\* nothing the server has to say of an earlier swap is still under way.
Begin ==
  /\ vsRun = VsNone /\ vsBegun < VsRuns /\ vsUp = <<>> /\ vsDown = <<>>
  /\ Gaps(vsSeen) \notin {{}, 1..VsSlots} /\ ~InOrder(vsSeen)
  /\ vsRun' = [pending |-> VsNone, since |-> VsInterval, strikes |-> 0]
  /\ vsBegun' = vsBegun + 1 /\ vsStep' = "none"
  /\ UNCHANGED <<vsReal, vsSeen, vsQueue, vsUp, vsDown, vsSilent>>

TimedOut(run) == run.pending # VsNone /\ run.pending.since # VsUnsent /\ run.pending.since > VsPatience

\* A move that nothing confirmed is let go of and counted.
AfterTimeout(run) == IF TimedOut(run) THEN [run EXCEPT !.pending = VsNone, !.strikes = @ + 1] ELSE run

\* sendToServer with the key: a move that waits is superseded; its own outcome
\* changes nothing, because it is no longer the pending one.
Ask(run, move) ==
  /\ vsRun' = [run EXCEPT !.pending = [move |-> move, since |-> VsUnsent]]
  /\ vsQueue' = [move |-> move, types |-> VsOf(vsSeen[move.from], vsSeen[move.to]),
                 left |-> VsExpiry, own |-> TRUE, here |-> TRUE]
  /\ vsStep' = "none"

Disown == vsQueue' = IF vsQueue = VsNone THEN VsNone ELSE [vsQueue EXCEPT !.own = FALSE]
SortEnded(how) ==
  /\ vsRun' = VsNone /\ vsStep' = how
  /\ vsQueue' = IF vsQueue = VsNone THEN VsNone ELSE [vsQueue EXCEPT !.own = FALSE, !.here = FALSE]

\* Broken variant: a chest that will not answer is asked for ever.
EnoughStrikes(run) == FALSE

OutOfStrikes(run) == run.strikes >= VsStrikes

\* The driver's tick.
Drive ==
  /\ vsRun # VsNone
  /\ \E run \in {AfterTimeout(vsRun)} : \E move \in {NextMove(vsSeen)} :
       IF TimedOut(vsRun) /\ OutOfStrikes(run) THEN SortEnded("gaveUp")
       ELSE IF run.pending # VsNone THEN vsRun' = run /\ vsStep' = "none" /\ UNCHANGED vsQueue
       ELSE IF Gaps(vsSeen) = {} THEN SortEnded("full")
       ELSE IF move = NoMove THEN SortEnded("sorted")
       ELSE IF run.since < VsInterval THEN vsRun' = run /\ vsStep' = "none" /\ Disown
       ELSE Ask(run, move)
  /\ UNCHANGED <<vsReal, vsSeen, vsUp, vsDown, vsSilent, vsBegun>>

(***************************************************************************)
(* The queue.                                                              *)
(***************************************************************************)

\* onSent dates the move and the spacing of the run that asked for it, which may
\* have ended since.
SortLeaves ==
  /\ vsQueue # VsNone /\ vsQueue' = VsNone
  /\ vsUp' = Append(vsUp, [move |-> vsQueue.move, types |-> vsQueue.types])
  /\ vsRun' = IF vsRun = VsNone THEN VsNone
              ELSE IF vsQueue.own THEN [vsRun EXCEPT !.since = 0, !.pending.since = 0]
              ELSE IF vsQueue.here THEN [vsRun EXCEPT !.since = 0]
              ELSE vsRun
  /\ vsStep' = "left"
  /\ UNCHANGED <<vsReal, vsSeen, vsDown, vsSilent, vsBegun>>

\* It never left: asked again from a fresh plan.
SortLapses ==
  /\ vsQueue # VsNone /\ vsQueue' = VsNone
  /\ vsRun' = IF vsQueue.own THEN [vsRun EXCEPT !.pending = VsNone] ELSE vsRun
  /\ vsStep' = "none"
  /\ UNCHANGED <<vsReal, vsSeen, vsUp, vsDown, vsSilent, vsBegun>>

(***************************************************************************)
(* The server: a move whose types are not what the slots hold is not        *)
(* carried out; one that is, is answered by a result and perhaps a snapshot. *)
(***************************************************************************)

VsResult(move, chest) == [what |-> "result", move |-> move, types |-> VsOf(chest[move.from], chest[move.to])]
VsSnapshot(chest) == [what |-> "snapshot", chest |-> chest]
VsExchanged(chest, move) == [chest EXCEPT ![move.from] = chest[move.to], ![move.to] = chest[move.from]]

Carries ==
  /\ vsUp # <<>> /\ vsUp' = Tail(vsUp)
  /\ \E m \in {Head(vsUp)} :
       /\ m.types = VsOf(vsReal[m.move.from], vsReal[m.move.to])
       /\ vsReal' = VsExchanged(vsReal, m.move)
       /\ \E news \in {<<VsResult(m.move, vsReal)>>,
                       <<VsResult(m.move, vsReal), VsSnapshot(vsReal')>>,
                       <<VsSnapshot(vsReal'), VsResult(m.move, vsReal)>>} : vsDown' = vsDown \o news
  /\ vsStep' = "none" /\ UNCHANGED <<vsSeen, vsRun, vsQueue, vsSilent, vsBegun>>

\* Silence, the only refusal most moves get. Bound: VsSilences of moves that could
\* have been carried out.
Ignores ==
  /\ vsUp # <<>> /\ vsUp' = Tail(vsUp)
  /\ IF Head(vsUp).types = VsOf(vsReal[Head(vsUp).move.from], vsReal[Head(vsUp).move.to])
     THEN vsSilent < VsSilences /\ vsSilent' = vsSilent + 1 ELSE UNCHANGED vsSilent
  /\ vsStep' = "none" /\ UNCHANGED <<vsReal, vsSeen, vsRun, vsQueue, vsDown, vsBegun>>

\* FAILURE, while the move it answers is the pending one: the sort is stopped.
SortRefused ==
  /\ vsUp # <<>> /\ vsUp' = Tail(vsUp)
  /\ IF vsRun # VsNone /\ vsRun.pending # VsNone /\ vsRun.pending.move = Head(vsUp).move
          /\ vsRun.pending.since # VsUnsent
     THEN SortEnded("refused") ELSE UNCHANGED <<vsRun, vsQueue>> /\ vsStep' = "none"
  /\ UNCHANGED <<vsReal, vsSeen, vsDown, vsSilent, vsBegun>>

(***************************************************************************)
(* What the plugin makes of the server's word.                             *)
(***************************************************************************)

\* moveLanded.
VsLanded(run) == [run EXCEPT !.pending = VsNone, !.strikes = 0]

\* Both ends name the two slots of the pending move, whichever way round.
NamesTheMove(move) ==
  /\ vsRun # VsNone /\ vsRun.pending # VsNone
  /\ {move.from, move.to} = {vsRun.pending.move.from, vsRun.pending.move.to}

\* Broken variant: a result is an exchange to be made, not what is now there.
AppliedAgain(seen, result) == VsExchanged(seen, result.move)

\* applyResult: each slot now holds what the other held before. Heard twice it
\* changes nothing.
Applied(seen, result) ==
  [seen EXCEPT ![result.move.from] = result.types.two, ![result.move.to] = result.types.one]

\* INVRESULT: ours by its slots, and then made from the picture's own values.
HearResult ==
  /\ vsDown # <<>> /\ Head(vsDown).what = "result" /\ vsDown' = Tail(vsDown)
  /\ \E result \in {Head(vsDown)} :
       IF NamesTheMove(result.move)
       THEN /\ vsSeen' = MovedTo(vsSeen, vsRun.pending.move)
            /\ vsRun' = VsLanded(vsRun) /\ Disown
       ELSE vsSeen' = Applied(vsSeen, result) /\ UNCHANGED <<vsRun, vsQueue>>
  /\ vsStep' = "none" /\ UNCHANGED <<vsReal, vsUp, vsSilent, vsBegun>>

\* VAULTCONTENT: adopted whole; one that differs while a move is pending is taken
\* for the move having landed.
HearSnapshot ==
  /\ vsDown # <<>> /\ Head(vsDown).what = "snapshot" /\ vsDown' = Tail(vsDown)
  /\ vsSeen' = Head(vsDown).chest
  /\ IF vsRun # VsNone /\ vsRun.pending # VsNone /\ vsSeen' # vsSeen
     THEN vsRun' = VsLanded(vsRun) /\ Disown ELSE UNCHANGED <<vsRun, vsQueue>>
  /\ vsStep' = "none" /\ UNCHANGED <<vsReal, vsUp, vsSilent, vsBegun>>

(***************************************************************************)
(* The player, the clock and the map.                                      *)
(***************************************************************************)

\* INVENTORYSWAP of the client's own against the chest.
HandsSeen == IF vsRun = VsNone THEN vsStep' = "none" /\ UNCHANGED <<vsRun, vsQueue>> ELSE SortEnded("byHand")

\* The player moves an item into an empty slot of the chest, the one rearrangement the
\* server carries out (sortPlan.ts:119-127). Bound: nothing of theirs is under way.
ByOwnHand(move) ==
  /\ vsUp = <<>> /\ vsDown = <<>> /\ vsSeen[move.from] # SpEmpty /\ vsSeen[move.to] = SpEmpty
  /\ vsUp' = <<[move |-> move, types |-> VsOf(vsSeen[move.from], vsSeen[move.to])]>>
  /\ HandsSeen
  /\ UNCHANGED <<vsReal, vsSeen, vsDown, vsSilent, vsBegun>>

\* Bound: ages stop at what they are compared with.
SortClock ==
  /\ IF vsQueue = VsNone THEN TRUE ELSE vsQueue.left > 0
  /\ vsQueue' = IF vsQueue = VsNone THEN VsNone ELSE [vsQueue EXCEPT !.left = @ - 1]
  /\ vsRun' = IF vsRun = VsNone THEN VsNone
              ELSE [vsRun EXCEPT !.since = IF @ < VsInterval THEN @ + 1 ELSE @,
                                 !.pending = IF @ = VsNone THEN @
                                             ELSE IF @.since = VsUnsent THEN @
                                             ELSE [@ EXCEPT !.since = IF @ > VsPatience THEN @ ELSE @ + 1]]
  /\ vsStep' = "none" /\ UNCHANGED <<vsReal, vsSeen, vsUp, vsDown, vsSilent, vsBegun>>

\* MAPINFO: chests and sort are of a map that was left. Entering the vault again
\* states the chest afresh.
SortMap ==
  /\ vsRun' = VsNone /\ vsQueue' = VsNone /\ vsUp' = <<>> /\ vsDown' = <<>>
  /\ vsSeen' = vsReal /\ vsStep' = "none"
  /\ UNCHANGED <<vsReal, vsSilent, vsBegun>>

VaultNext ==
  \/ SortMap \/ Begin \/ Drive \/ SortLeaves \/ SortLapses \/ Carries \/ Ignores \/ SortRefused
  \/ HearResult \/ HearSnapshot \/ SortClock
  \/ \E from \in 1..VsSlots, to \in 1..VsSlots : ByOwnHand([from |-> from, to |-> to])

(***************************************************************************)
(* Properties.                                                             *)
(***************************************************************************)

\* A run is well formed, and a move is unsent while it is the queue's and only then.
VaultTypeOK ==
  /\ vsSeen \in VsChests /\ vsReal \in VsChests
  /\ vsRun # VsNone =>
       /\ vsRun.strikes \in 0..(VsStrikes - 1) /\ vsRun.since \in 0..VsInterval
       /\ vsRun.pending # VsNone =>
            (vsRun.pending.since = VsUnsent) = (vsQueue # VsNone /\ vsQueue.own)
  /\ vsQueue # VsNone => (vsQueue.own => vsQueue.here) /\ (vsRun = VsNone => ~vsQueue.here)

\* Once everything the server has said is heard, the plugin's picture of the chest
\* is the chest, in whatever order snapshots and results came (vaultChests.ts).
PictureIsTrue == vsUp = <<>> /\ vsDown = <<>> => vsSeen = vsReal

\* A sort that says it is done has sorted the chest, unless something it has not
\* heard of is still under way.
DoneIsSorted == vsStep = "sorted" /\ vsUp = <<>> /\ vsDown = <<>> => InOrder(vsReal)

\* Every sort ends: re-planning after each move makes progress, and silence is
\* counted (vaultSortPlugin.ts, SortRun).
Sorting == vsRun # VsNone
NoSort  == vsRun = VsNone
==============================================================================
