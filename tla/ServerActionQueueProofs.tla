----------------------- MODULE ServerActionQueueProofs -----------------------
(***************************************************************************)
(* Proofs about the outbound queue, for every number of lanes, packets,    *)
(* requests and complaints, and every tuning the assumptions allow.        *)
(***************************************************************************)
EXTENDS ServerActionQueue, FiniteSetTheorems, WellFoundedInduction, TLAPS

Status == {"new", "open"} \cup Outcome

\* Requests, lanes and statuses agree: what waits in a lane or is in flight
\* there is an open request of that lane, in one place only, and every open
\* request is somewhere.
Placed(L, S, r) ==
  /\ \A l \in Lane : \A i \in L[l].queued :
       S[i] = "open" /\ r[i] \in Request /\ LaneOf[r[i].kind] = l /\ i # L[l].inFlight
  /\ \A l \in Lane : L[l].inFlight # None =>
       /\ S[L[l].inFlight] = "open" /\ r[L[l].inFlight] \in Request
       /\ LaneOf[r[L[l].inFlight].kind] = l
  /\ \A i \in Id : S[i] = "open" =>
       /\ r[i] \in Request
       /\ i \in L[LaneOf[r[i].kind]].queued \/ i = L[LaneOf[r[i].kind]].inFlight

\* A request number not yet given out has no outcome.
Fresh == \A i \in Id : i > sequence => status[i] = "new"

-----------------------------------------------------------------------------
(* One lane under the pump.                                                *)

LEMMA MostWantedIsOne ==
  ASSUME NEW Q \in SUBSET Id, NEW r, \A i \in Q : r[i] \in Request,
         NEW i \in MostWanted(Q, r), NEW j \in MostWanted(Q, r)
  PROVE  i = j
  BY DEF MostWanted, Request, Id

LEMMA GoingIsOne ==
  ASSUME NEW s \in LaneState, NEW r, \A i \in s.queued : r[i] \in Request,
         NEW C, NEW hold, NEW may,
         NEW i \in Going(s, r, C, hold, may), NEW j \in Going(s, r, C, hold, may)
  PROVE  i = j
<1>1. s.queued \ Expired(s, r) \in SUBSET Id
  BY DEF LaneState
<1>2. \A k \in s.queued \ Expired(s, r) : r[k] \in Request
  OBVIOUS
<1>3. /\ i \in MostWanted(s.queued \ Expired(s, r), r)
      /\ j \in MostWanted(s.queued \ Expired(s, r), r)
  BY DEF Going
<1> QED
  BY <1>1, <1>2, <1>3, MostWantedIsOne

LEMMA GoingWaits ==
  ASSUME NEW s, NEW r, NEW C, NEW hold, NEW may, NEW n \in Going(s, r, C, hold, may)
  PROVE  n \in s.queued /\ n \notin Expired(s, r) /\ Free(s, C)
  BY DEF Going, MostWanted

\* The choice in PumpedLane: nothing goes and the lane rests, or the one request
\* that goes is dispatched.
LEMMA PumpedLaneCases ==
  ASSUME NEW s \in LaneState, NEW r, \A i \in s.queued : r[i] \in Request,
         NEW C, NEW hold, NEW may
  PROVE  \/ /\ Going(s, r, C, hold, may) = {}
            /\ PumpedLane(s, r, C, hold, may) = Rested(s, r, C)
         \/ \E n \in s.queued :
              /\ Going(s, r, C, hold, may) = {n}
              /\ (CHOOSE i \in Going(s, r, C, hold, may) : TRUE) = n
              /\ PumpedLane(s, r, C, hold, may) = Dispatched(s, r, n)
<1> DEFINE G == Going(s, r, C, hold, may)
<1>1. CASE G = {}
  BY <1>1 DEF PumpedLane
<1>2. CASE G # {}
  <2>1. PICK n : n = CHOOSE i \in G : TRUE
    OBVIOUS
  <2>2. n \in G
    BY <1>2, <2>1
  <2>3. G = {n}
    BY <2>2, GoingIsOne
  <2>4. n \in s.queued
    BY <2>2, GoingWaits
  <2>5. PumpedLane(s, r, C, hold, may) = Dispatched(s, r, n)
    BY <1>2, <2>1 DEF PumpedLane
  <2> QED
    BY <2>1, <2>3, <2>4, <2>5
<1> QED
  BY <1>1, <1>2

LEMMA RestedType ==
  ASSUME NEW s \in LaneState, NEW r, NEW C
  PROVE  /\ Rested(s, r, C) \in LaneState
         /\ Rested(s, r, C).queued = s.queued \ Expired(s, r)
         /\ Rested(s, r, C).inFlight = IF Free(s, C) THEN None ELSE s.inFlight
         /\ Rested(s, r, C).lastSent = s.lastSent
         /\ Rested(s, r, C).spacing = s.spacing
  BY DEF Rested, LaneState

LEMMA DispatchedType ==
  ASSUME NEW s \in LaneState, NEW r, NEW n \in s.queued, r[n] \in Request, now \in Nat
  PROVE  /\ Dispatched(s, r, n) \in LaneState
         /\ Dispatched(s, r, n).queued = s.queued \ (Expired(s, r) \cup {n})
         /\ Dispatched(s, r, n).inFlight = IF r[n].watched /\ r[n].encodes THEN n ELSE None
         /\ Dispatched(s, r, n).lastSent = now
         /\ Dispatched(s, r, n).spacing = Spacing[r[n].kind]
<1>1. r[n].window \in Nat /\ r[n].kind \in Kind
  BY DEF Request
<1>2. Spacing[r[n].kind] \in Nat
  BY <1>1, LaneAssumption
<1>3. n \in Id
  BY DEF LaneState
<1> QED
  BY <1>1, <1>2, <1>3 DEF Dispatched, LaneState

\* What the callers of a lane are told by its pump: of the requests that wait, and
\* of the one in flight.
LEMMA QueuedTold ==
  ASSUME NEW s \in LaneState, NEW r, NEW C, NEW hold, NEW may,
         NEW i \in s.queued, r[i] \in Request, i # s.inFlight
  PROVE  PumpedStatus(i, "open", s, r, C, hold, may) =
           IF i \in Expired(s, r) THEN "expired"
           ELSE IF i \in Going(s, r, C, hold, may) /\ ~r[i].encodes THEN "dropped"
           ELSE IF i \in Going(s, r, C, hold, may) /\ ~r[i].watched THEN "sent" ELSE "open"
<1>1. i \in Going(s, r, C, hold, may) =>
        i \notin Expired(s, r) /\ r[i].encodes \in BOOLEAN /\ r[i].watched \in BOOLEAN
  BY GoingWaits DEF Request
<1> QED
  BY <1>1 DEF PumpedStatus

LEMMA FlyingTold ==
  ASSUME NEW s \in LaneState, NEW r, NEW C, NEW hold, NEW may,
         s.inFlight # None, s.inFlight \notin s.queued
  PROVE  PumpedStatus(s.inFlight, "open", s, r, C, hold, may) =
           IF Landed(s, C) THEN "confirmed" ELSE IF Lapsed(s, C) THEN "unconfirmed" ELSE "open"
<1>1. s.inFlight \notin Expired(s, r) /\ s.inFlight \notin Going(s, r, C, hold, may)
  BY GoingWaits DEF Expired
<1> QED
  BY <1>1 DEF PumpedStatus, Landed, Lapsed

\* One lane through the pump: it stays well formed, takes nothing new on, and a
\* request of it is still open exactly when it is still there.
LEMMA LanePumped ==
  ASSUME NEW s \in LaneState, NEW r,
         \A i \in s.queued : r[i] \in Request /\ i # s.inFlight,
         NEW C, NEW hold, NEW may, now \in Nat
  PROVE  LET t == PumpedLane(s, r, C, hold, may)
             told(i) == PumpedStatus(i, "open", s, r, C, hold, may)
         IN /\ t \in LaneState
            /\ t.queued \subseteq s.queued
            /\ t.inFlight \in s.queued \cup {s.inFlight, None}
            /\ t.inFlight \notin t.queued
            /\ \A i \in s.queued : told(i) = "open" <=> (i \in t.queued \/ i = t.inFlight)
            /\ s.inFlight # None => (told(s.inFlight) = "open" <=> s.inFlight = t.inFlight)
            /\ \A i \in Id : told(i) \in Outcome \cup {"open"}
<1> DEFINE t == PumpedLane(s, r, C, hold, may)
           told(i) == PumpedStatus(i, "open", s, r, C, hold, may)
           G == Going(s, r, C, hold, may)
<1>0. /\ s.queued \subseteq Id /\ None \notin s.queued
      /\ \A i \in Id : told(i) \in Outcome \cup {"open"}
  BY NoneAssumption DEF LaneState, PumpedStatus, Outcome, SentOutcome, UnsentOutcome
<1>1. \A i \in s.queued : told(i) =
        IF i \in Expired(s, r) THEN "expired"
        ELSE IF i \in G /\ ~r[i].encodes THEN "dropped"
        ELSE IF i \in G /\ ~r[i].watched THEN "sent" ELSE "open"
  BY QueuedTold
<1>2. s.inFlight # None => told(s.inFlight) =
        IF Landed(s, C) THEN "confirmed" ELSE IF Lapsed(s, C) THEN "unconfirmed" ELSE "open"
  BY FlyingTold
<1>3. CASE G = {} /\ t = Rested(s, r, C)
  <2>1. /\ t \in LaneState
        /\ t.queued = s.queued \ Expired(s, r)
        /\ t.inFlight = IF Free(s, C) THEN None ELSE s.inFlight
    BY <1>3, RestedType
  <2>2. \A i \in s.queued : told(i) = "open" <=> (i \in t.queued \/ i = t.inFlight)
    BY <1>0, <1>1, <1>3, <2>1
  <2>3. s.inFlight # None => (told(s.inFlight) = "open" <=> s.inFlight = t.inFlight)
    BY <1>2, <2>1 DEF Free
  <2> QED
    BY <1>0, <2>1, <2>2, <2>3
<1>4. ASSUME NEW n \in s.queued, G = {n}, t = Dispatched(s, r, n)
      PROVE  /\ t \in LaneState
             /\ t.queued \subseteq s.queued
             /\ t.inFlight \in s.queued \cup {s.inFlight, None}
             /\ t.inFlight \notin t.queued
             /\ \A i \in s.queued : told(i) = "open" <=> (i \in t.queued \/ i = t.inFlight)
             /\ s.inFlight # None => (told(s.inFlight) = "open" <=> s.inFlight = t.inFlight)
  <2>1. /\ t \in LaneState
        /\ t.queued = s.queued \ (Expired(s, r) \cup {n})
        /\ t.inFlight = IF r[n].watched /\ r[n].encodes THEN n ELSE None
    BY <1>4, DispatchedType
  <2>2. n \notin Expired(s, r) /\ Free(s, C)
    BY <1>4, GoingWaits
  <2>3. \A i \in s.queued : told(i) = "open" <=> (i \in t.queued \/ i = t.inFlight)
    BY <1>0, <1>1, <1>4, <2>1, <2>2
  <2>4. s.inFlight # None => (told(s.inFlight) = "open" <=> s.inFlight = t.inFlight)
    BY <1>2, <2>1, <2>2 DEF Free
  <2> QED
    BY <1>0, <2>1, <2>3, <2>4
<1> QED
  BY <1>0, <1>3, <1>4, PumpedLaneCases

-----------------------------------------------------------------------------
(* The pump over every lane.                                               *)

LEMMA PumpPlaced ==
  ASSUME NEW L \in [Lane -> LaneState], NEW S \in [Id -> Status], NEW r, NEW W, NEW hold,
         NEW streak, NEW failedAt, NEW armed, NEW moment,
         now \in Nat, Placed(L, S, r), Pump(L, r, S, W, hold, streak, failedAt, armed, moment)
  PROVE  /\ lane' \in [Lane -> LaneState] /\ status' \in [Id -> Status]
         /\ Placed(lane', status', r)
         /\ \A i \in Id : S[i] # "open" => status'[i] = S[i]
<1>1. PICK C :
        /\ lane' = [l \in Lane |-> PumpedLane(L[l], r, C, hold, moment = "message")]
        /\ status' = [i \in Id |->
             IF S[i] # "open" THEN S[i]
             ELSE PumpedStatus(i, S[i], L[LaneOf[r[i].kind]], r, C, hold, moment = "message")]
  BY DEF Pump
<1> DEFINE may == moment = "message"
           told(i, l) == PumpedStatus(i, "open", L[l], r, C, hold, may)
<1>2. \A l \in Lane :
        /\ lane'[l] \in LaneState
        /\ lane'[l].queued \subseteq L[l].queued
        /\ lane'[l].inFlight \in L[l].queued \cup {L[l].inFlight, None}
        /\ lane'[l].inFlight \notin lane'[l].queued
        /\ \A i \in L[l].queued :
             told(i, l) = "open" <=> (i \in lane'[l].queued \/ i = lane'[l].inFlight)
        /\ L[l].inFlight # None =>
             (told(L[l].inFlight, l) = "open" <=> L[l].inFlight = lane'[l].inFlight)
        /\ \A i \in Id : told(i, l) \in Outcome \cup {"open"}
  <2>1. TAKE l \in Lane
  <2>2. \A i \in L[l].queued : r[i] \in Request /\ i # L[l].inFlight
    BY DEF Placed
  <2>3. L[l] \in LaneState /\ lane'[l] = PumpedLane(L[l], r, C, hold, may)
    BY <1>1
  <2> QED
    BY <2>2, <2>3, LanePumped
<1>3. \A i \in Id : status'[i] = IF S[i] # "open" THEN S[i] ELSE told(i, LaneOf[r[i].kind])
  BY <1>1
<1>4. \A i \in Id : S[i] = "open" => LaneOf[r[i].kind] \in Lane
  BY LaneAssumption DEF Placed, Request
<1> HIDE DEF told
<1>5. \A i \in Id : status'[i] \in Status
  BY <1>2, <1>3, <1>4 DEF Status
<1>6. lane' \in [Lane -> LaneState] /\ status' \in [Id -> Status]
  BY <1>1, <1>2, <1>5
<1>7. \A l \in Lane : L[l].queued \subseteq Id /\ L[l].inFlight \in Id \cup {None}
  BY DEF LaneState
<1>8. \A l \in Lane : \A i \in L[l].queued \cup ({L[l].inFlight} \ {None}) :
        /\ i \in Id /\ S[i] = "open" /\ r[i] \in Request /\ LaneOf[r[i].kind] = l
        /\ status'[i] = told(i, l)
  BY <1>3, <1>7 DEF Placed
<1>9. \A l \in Lane : \A i \in lane'[l].queued :
        status'[i] = "open" /\ r[i] \in Request /\ LaneOf[r[i].kind] = l /\ i # lane'[l].inFlight
  BY <1>2, <1>8
<1>10. \A l \in Lane : lane'[l].inFlight # None =>
         /\ status'[lane'[l].inFlight] = "open" /\ r[lane'[l].inFlight] \in Request
         /\ LaneOf[r[lane'[l].inFlight].kind] = l
  BY <1>2, <1>8
<1>11. \A i \in Id : status'[i] = "open" =>
         /\ r[i] \in Request
         /\ i \in lane'[LaneOf[r[i].kind]].queued \/ i = lane'[LaneOf[r[i].kind]].inFlight
  <2> TAKE i \in Id
  <2> HAVE status'[i] = "open"
  <2>1. S[i] = "open" /\ told(i, LaneOf[r[i].kind]) = "open"
    BY <1>3
  <2>2. /\ r[i] \in Request
        /\ i \in L[LaneOf[r[i].kind]].queued \/ i = L[LaneOf[r[i].kind]].inFlight
    BY <2>1 DEF Placed
  <2> QED
    BY <1>2, <1>4, <2>1, <2>2, NoneAssumption
<1> QED
  BY <1>3, <1>6, <1>9, <1>10, <1>11 DEF Placed

-----------------------------------------------------------------------------
(* Types under the pump.                                                   *)

LEMMA RearmType ==
  ASSUME NEW L \in [Lane -> LaneState], NEW r, NEW armed \in Int \cup {None}, now \in Nat,
         \A l \in Lane : \A i \in L[l].queued : r[i] \in Request,
         Rearm(L, r, armed)
  PROVE  wakeAt' \in Int \cup {None}
<1>1. \A l \in Lane : L[l].deadline \in Int
  BY DEF LaneState
<1>2. \A l \in Lane : \A i \in L[l].queued : r[i].expiresAt \in Int
  BY DEF Request
<1>3. ConfirmPoll \in Nat
  BY TuningAssumption
<1>4. \A l \in Lane : Min2(L[l].deadline, now + ConfirmPoll) \in Int
  BY <1>1, <1>3 DEF Min2
<1>5. WakeTimes(L, r) \subseteq Int
  BY <1>2, <1>4 DEF WakeTimes
<1> QED
  BY <1>5 DEF Rearm, Soonest

LEMMA PumpedWireType ==
  ASSUME NEW W \in Seq(WireEvent), NEW s \in LaneState, NEW r, NEW C, NEW hold,
         NEW moment \in Moment, \A i \in s.queued : r[i] \in Request,
         now \in Nat, flushing' \in BOOLEAN, Len(complaints') \in Nat, maps' \in Nat
  PROVE  PumpedWire(W, s, r, C, hold, moment) \in Seq(WireEvent)
<1> DEFINE G == Going(s, r, C, hold, moment = "message")
<1>1. CASE G = {}
  BY <1>1 DEF PumpedWire
<1>2. CASE G # {}
  <2>1. PICK n : n = CHOOSE i \in G : TRUE
    OBVIOUS
  <2>2. n \in s.queued
    BY <1>2, <2>1, GoingWaits
  <2>3. n \in Id /\ r[n].kind \in Kind
    BY <2>2 DEF LaneState, Request
  <2>4. [by |-> n, kind |-> r[n].kind, at |-> now, behind |-> moment,
         flushing |-> flushing', complaints |-> Len(complaints'), map |-> maps'] \in WireEvent
    BY <2>3 DEF WireEvent
  <2>5. \/ PumpedWire(W, s, r, C, hold, moment) = W
        \/ PumpedWire(W, s, r, C, hold, moment) =
             Append(W, [by |-> n, kind |-> r[n].kind, at |-> now, behind |-> moment,
                        flushing |-> flushing', complaints |-> Len(complaints'), map |-> maps'])
    BY <2>1 DEF PumpedWire
  <2> QED
    BY <2>4, <2>5
<1> QED
  BY <1>1, <1>2

\* What every pump keeps, whichever entry point called it.
LEMMA PumpType ==
  ASSUME NEW L \in [Lane -> LaneState], NEW S \in [Id -> Status], NEW r,
         NEW W \in [Lane -> Seq(WireEvent)], NEW hold \in Int, NEW streak \in Nat,
         NEW failedAt \in Int, NEW armed \in Int \cup {None}, NEW moment \in Moment,
         now \in Nat, flushing' \in BOOLEAN, Len(complaints') \in Nat, maps' \in Nat,
         Placed(L, S, r), Pump(L, r, S, W, hold, streak, failedAt, armed, moment)
  PROVE  /\ wire' \in [Lane -> Seq(WireEvent)]
         /\ failureStreak' \in Nat /\ holdUntil' \in Int /\ lastFailureAt' \in Int
         /\ wakeAt' \in Int \cup {None}
<1>1. \A l \in Lane : \A i \in L[l].queued : r[i] \in Request
  BY DEF Placed
<1>2. PICK C : wire' = [l \in Lane |-> PumpedWire(W[l], L[l], r, C, hold, moment)]
  BY DEF Pump
<1>3. wire' \in [Lane -> Seq(WireEvent)]
  BY <1>1, <1>2, PumpedWireType
<1>4. failureStreak' \in Nat /\ holdUntil' \in Int /\ lastFailureAt' \in Int
  BY DEF Pump
<1>5. lane' \in [Lane -> LaneState] /\ Placed(lane', status', r)
  BY PumpPlaced
<1>6. \A l \in Lane : \A i \in lane'[l].queued : r[i] \in Request
  BY <1>5 DEF Placed
<1>7. Rearm(lane', r, armed)
  BY DEF Pump
<1> HIDE DEF Rearm
<1>8. wakeAt' \in Int \cup {None}
  BY <1>5, <1>6, <1>7, RearmType
<1> QED
  BY <1>3, <1>4, <1>8

-----------------------------------------------------------------------------
(* The entry points.                                                       *)

Typed == TypeOK /\ Placed(lane, status, req) /\ Fresh

\* A pump leaves the queue well typed when its entry point handed it lanes and
\* statuses that agree.
LEMMA PumpStep ==
  ASSUME NEW L \in [Lane -> LaneState], NEW S \in [Id -> Status],
         NEW W \in [Lane -> Seq(WireEvent)], NEW hold \in Int, NEW streak \in Nat,
         NEW failedAt \in Int, NEW armed \in Int \cup {None}, NEW moment \in Moment,
         now \in Nat, now' = now, closed' \in BOOLEAN, sequence' \in 0..MaxRequests,
         req' \in [Id -> Request \cup {None}], flushing' \in BOOLEAN,
         complaints' \in Seq([at : Int, hold : Nat]), maps' \in Nat,
         \A i \in Id : i > sequence' => S[i] = "new",
         Placed(L, S, req'), Pump(L, req', S, W, hold, streak, failedAt, armed, moment)
  PROVE  Typed'
<1>1. Len(complaints') \in Nat
  OBVIOUS
<1>2. /\ wire' \in [Lane -> Seq(WireEvent)]
      /\ failureStreak' \in Nat /\ holdUntil' \in Int /\ lastFailureAt' \in Int
      /\ wakeAt' \in Int \cup {None}
  BY <1>1, PumpType
<1>3. /\ lane' \in [Lane -> LaneState] /\ status' \in [Id -> Status]
      /\ Placed(lane', status', req')
      /\ \A i \in Id : S[i] # "open" => status'[i] = S[i]
  BY PumpPlaced
<1>4. TypeOK'
  BY <1>2, <1>3 DEF TypeOK, Status
<1>5. Fresh'
  BY <1>3 DEF Fresh
<1>6. Placed(lane, status, req)'
  BY <1>3 DEF Placed
<1> QED
  BY <1>4, <1>5, <1>6 DEF Typed

LEMMA InitTyped == Init => Typed
<1> SUFFICES ASSUME Init PROVE Typed
  OBVIOUS
<1>1. lane \in [Lane -> LaneState]
  BY TuningAssumption DEF Init, LaneState
<1>2. wire \in [Lane -> Seq(WireEvent)] /\ complaints \in Seq([at : Int, hold : Nat])
  BY DEF Init
<1>3. sequence \in 0..MaxRequests /\ Never \in Int
  BY TuningAssumption, BoundAssumption DEF Init
<1>4. TypeOK
  BY <1>1, <1>2, <1>3 DEF Init, TypeOK
<1>5. Placed(lane, status, req) /\ Fresh
  BY DEF Init, Placed, Fresh
<1> QED
  BY <1>4, <1>5 DEF Typed

\* Numbers have a least element wherever they have any: the sets of those below
\* it are ordered by inclusion, and finite.
LEMMA LeastNumber ==
  ASSUME NEW T \in SUBSET Nat, T # {}
  PROVE  \E x \in T : \A y \in T : x <= y
<1>1. PICK p \in T : TRUE
  OBVIOUS
<1> DEFINE N == 0..p
           R == StrictSubsetOrdering(N)
           Below(x) == {z \in N : z < x}
           B == {Below(x) : x \in T \cap N}
<1>2. IsWellFoundedOn(R, SUBSET N)
  <2>1. IsFiniteSet(N)
    BY <1>1, FS_Interval
  <2> QED
    BY <2>1, FS_StrictSubsetOrderingWellFounded, FS_FiniteSubsetsOfFinite
<1>3. R = {ss \in (SUBSET N) \X (SUBSET N) : ss[1] \subseteq ss[2] /\ ss[1] # ss[2]}
  BY DEF StrictSubsetOrdering
<1>4. B \subseteq SUBSET N /\ B # {}
  <2>1. p \in T \cap N
    BY <1>1
  <2>2. Below(p) \in B
    BY <2>1
  <2> QED
    BY <2>2
<1> HIDE DEF R
<1>5. PICK b \in B : \A c \in B : ~(<<c, b>> \in R)
  <2> HIDE DEF B, N
  <2> QED
    BY <1>2, <1>4, WFMin
<1>6. PICK x \in T \cap N : b = Below(x)
  BY <1>5
<1>7. ASSUME NEW y \in T, y < x PROVE FALSE
  <2>1. y \in T \cap N /\ Below(y) \in B
    BY <1>1, <1>6, <1>7
  <2>2. Below(y) \subseteq b /\ y \in b /\ y \notin Below(y)
    BY <1>1, <1>6, <1>7, <2>1
  <2>3. <<Below(y), b>> \in R
    BY <1>3, <1>4, <1>5, <2>1, <2>2
  <2> QED
    BY <1>5, <2>1, <2>3
<1> QED
  BY <1>6, <1>7

\* Of requests that wait some one is wanted least.
LEMMA SomeLeastWanted ==
  ASSUME NEW Q \in SUBSET Id, Q # {}, NEW r, \A i \in Q : r[i] \in Request
  PROVE  LeastWanted(Q, r) # {}
<1>1. \A i \in Q : i \in Nat /\ r[i].priority \in Nat
  BY DEF Request, Id
<1> DEFINE P == {r[i].priority : i \in Q}
<1>2. PICK p \in P : \A y \in P : p <= y
  <2>1. P \in SUBSET Nat /\ P # {}
    BY <1>1
  <2> QED
    BY <2>1, LeastNumber
<1> DEFINE M == {i \in Q : r[i].priority = p}
<1>3. PICK i \in M : \A j \in M : i <= j
  <2>1. M \in SUBSET Nat /\ M # {}
    BY <1>1, <1>2
  <2> QED
    BY <2>1, LeastNumber
<1>4. \A j \in Q : r[i].priority <= r[j].priority
  BY <1>2, <1>3
<1>5. \A j \in Q : \/ r[i].priority < r[j].priority
                   \/ r[j].priority = r[i].priority /\ i <= j
  BY <1>1, <1>3, <1>4
<1> QED
  BY <1>3, <1>5 DEF LeastWanted

\* The cap holds again once the least wanted has gone: one request is added at a time.
LEMMA TrimmedWithinCap ==
  ASSUME NEW Q \in SUBSET Id, NEW n \in Id, NEW r, \A i \in Q \cup {n} : r[i] \in Request,
         Cardinality(Q) <= MaxQueuedPerLane
  PROVE  LET grown == Q \cup {n}
             excess == IF Cardinality(grown) > MaxQueuedPerLane THEN LeastWanted(grown, r) ELSE {}
         IN Cardinality(grown \ excess) <= MaxQueuedPerLane
<1> DEFINE grown == Q \cup {n}
           excess == IF Cardinality(grown) > MaxQueuedPerLane THEN LeastWanted(grown, r) ELSE {}
<1>1. IsFiniteSet(Id)
  BY BoundAssumption, FS_Interval DEF Id
<1>2. IsFiniteSet(Q) /\ IsFiniteSet(grown) /\ grown \in SUBSET Id
  BY <1>1, FS_Subset
<1>3. /\ Cardinality(Q) \in Nat /\ Cardinality(grown) \in Nat /\ MaxQueuedPerLane \in Nat
      /\ Cardinality(grown) <= Cardinality(Q) + 1
  BY <1>2, FS_AddElement, FS_CardinalityType, TuningAssumption
<1>4. CASE Cardinality(grown) <= MaxQueuedPerLane
  BY <1>3, <1>4
<1>5. CASE Cardinality(grown) > MaxQueuedPerLane
  <2>1. PICK i \in LeastWanted(grown, r) : TRUE
    BY <1>2, SomeLeastWanted
  <2>2. i \in grown
    BY <2>1 DEF LeastWanted
  <2>3. IsFiniteSet(grown \ {i}) /\ Cardinality(grown \ {i}) = Cardinality(grown) - 1
    BY <1>2, <2>2, FS_RemoveElement
  <2>4. grown \ excess \in SUBSET (grown \ {i})
    BY <1>5, <2>1
  <2>5. Cardinality(grown \ excess) <= Cardinality(grown) - 1 /\ Cardinality(grown \ excess) \in Nat
    <3>1. /\ IsFiniteSet(grown \ excess)
          /\ Cardinality(grown \ excess) <= Cardinality(grown \ {i})
      <4> HIDE DEF excess, grown
      <4> QED
        BY <2>3, <2>4, FS_Subset
    <3>2. Cardinality(grown \ excess) \in Nat
      BY <3>1, FS_CardinalityType
    <3> QED
      BY <2>3, <3>1, <3>2
  <2> QED
    BY <1>3, <2>5
<1> QED
  BY <1>3, <1>4, <1>5

\* A lane within its cap, with no intent waiting twice.
Capped(Q, r) ==
  /\ Cardinality(Q) <= MaxQueuedPerLane
  /\ \A i, j \in Q : r[i].key = r[j].key /\ r[i].key # None => i = j

\* What submit hands to its pump: lanes L and statuses S that differ from the
\* queue's by the new request n and by what it replaces or displaces.
Handed(L, S, n) ==
  /\ Pump(L, req', S, wire, holdUntil, failureStreak, lastFailureAt, wakeAt, "plugin")
  /\ L \in [Lane -> LaneState] /\ S \in [Id -> Status] /\ Placed(L, S, req')
  /\ \A m \in Lane :
       /\ L[m].lastSent = lane[m].lastSent /\ L[m].spacing = lane[m].spacing
       /\ L[m].inFlight = lane[m].inFlight /\ L[m].queued \subseteq lane[m].queued \cup {n}
       /\ \A i \in L[m].queued : req'[i] \in Request
       /\ Capped(lane[m].queued, req) => Capped(L[m].queued, req')
  /\ \A i \in Id \ {n} :
       /\ req'[i] = req[i]
       /\ S[i] = status[i] \/ (S[i] \in UnsentOutcome /\ \E m \in Lane : i \in lane[m].queued)
       /\ status[i] # "open" => S[i] = status[i]
  /\ n \in Id /\ n = sequence + 1 /\ sequence' = n /\ S[n] \in {"open", "dropped"}
  /\ req' \in [Id -> Request \cup {None}]
  /\ req'[n].map = maps /\ req'[n].behind = Len(wire[LaneOf[req'[n].kind]])

LEMMA SubmitHanded ==
  ASSUME Typed, NEW ask \in Asks, Submit(ask)
  PROVE  \E L, S : Handed(L, S, sequence + 1)
<1> DEFINE n == sequence + 1
           l == LaneOf[ask.kind]
           r == [req EXCEPT ![n] =
                   [kind |-> ask.kind, priority |-> ask.priority, key |-> ask.key,
                    expiresAt |-> now + ask.expiresIn, watched |-> ask.watched,
                    window |-> ask.window, encodes |-> ask.encodes,
                    behind |-> Len(wire[l]), map |-> maps]]
           replaced == {i \in lane[l].queued : ask.key # None /\ req[i].key = ask.key}
           grown == (lane[l].queued \ replaced) \cup {n}
           excess == IF Cardinality(grown) > MaxQueuedPerLane THEN LeastWanted(grown, r) ELSE {}
           L == [lane EXCEPT ![l].queued = grown \ excess]
           S == [i \in Id |-> IF i \in replaced THEN "superseded"
                              ELSE IF i \in excess THEN "dropped"
                              ELSE IF i = n THEN "open" ELSE status[i]]
<1>1. /\ TypeOK /\ Placed(lane, status, req) /\ Fresh
      /\ sequence' = n /\ req' = r /\ UNCHANGED <<now, closed, flushing, complaints, maps>>
      /\ Pump(L, r, S, wire, holdUntil, failureStreak, lastFailureAt, wakeAt, "plugin")
      /\ sequence < MaxRequests
  BY DEF Typed, Submit, PumpOnly, observerVars
<1>2. /\ n \in Id /\ l \in Lane /\ ask \in Ask /\ ask.kind \in Kind
      /\ sequence \in Nat /\ MaxRequests \in Nat
  <2>1. ask \in Ask /\ ask.kind \in Kind
    BY AskAssumption DEF Ask
  <2>2. l \in Lane
    BY <2>1, LaneAssumption
  <2>3. sequence \in Nat /\ MaxRequests \in Nat
    BY <1>1, BoundAssumption DEF TypeOK
  <2> QED
    BY <1>1, <2>1, <2>2, <2>3 DEF Id
<1>3. /\ r[n] \in Request /\ r[n].kind = ask.kind /\ r \in [Id -> Request \cup {None}]
      /\ r[n].map = maps /\ r[n].behind = Len(wire[l]) /\ r[n].key = ask.key
  <2>1. Len(wire[l]) \in Nat
    BY <1>1, <1>2 DEF TypeOK
  <2>2. [kind |-> ask.kind, priority |-> ask.priority, key |-> ask.key,
         expiresAt |-> now + ask.expiresIn, watched |-> ask.watched,
         window |-> ask.window, encodes |-> ask.encodes,
         behind |-> Len(wire[l]), map |-> maps] \in Request
    BY <1>1, <1>2, <2>1 DEF Request, Ask, TypeOK
  <2> QED
    BY <1>1, <1>2, <2>2 DEF TypeOK
<1>4. \A i \in Id : i # n => r[i] = req[i]
  BY <1>1, <1>2 DEF TypeOK
<1>5. status[n] = "new" /\ \A i \in Id : i > n => status[i] = "new"
  BY <1>1, <1>2 DEF Fresh, Id
<1>6. /\ lane \in [Lane -> LaneState] /\ lane[l] \in LaneState /\ excess \subseteq grown
      /\ grown \subseteq Id /\ replaced \subseteq lane[l].queued
  BY <1>1, <1>2 DEF TypeOK, LeastWanted, LaneState
<1>7. Capped(lane[l].queued, req) => Capped(grown \ excess, r)
  <2> SUFFICES ASSUME Capped(lane[l].queued, req) PROVE Capped(grown \ excess, r)
    OBVIOUS
  <2> DEFINE Q == lane[l].queued \ replaced
  <2>1. \A i \in Q : i \in Id /\ i # n /\ r[i] = req[i] /\ req[i] \in Request
    BY <1>1, <1>2, <1>4, <1>5, <1>6 DEF Placed, LaneState
  <2>2. Q \in SUBSET Id /\ \A i \in Q \cup {n} : r[i] \in Request
    BY <1>3, <2>1
  <2>3. Cardinality(Q) <= MaxQueuedPerLane
    <3>1. IsFiniteSet(lane[l].queued)
      <4>1. IsFiniteSet(Id)
        BY BoundAssumption, FS_Interval DEF Id
      <4>2. lane[l].queued \in SUBSET Id
        BY <1>6 DEF LaneState
      <4> QED
        BY <4>1, <4>2, FS_Subset
    <3>2. Cardinality(lane[l].queued) <= MaxQueuedPerLane
      BY DEF Capped
    <3>3. Cardinality(Q) <= Cardinality(lane[l].queued) /\ IsFiniteSet(Q)
      BY <3>1, FS_Subset
    <3> QED
      BY <3>1, <3>2, <3>3, FS_CardinalityType, TuningAssumption
  <2>4. Cardinality(grown \ excess) <= MaxQueuedPerLane
    <3> HIDE DEF n, r, Q
    <3> QED
      BY <1>2, <2>2, <2>3, TrimmedWithinCap DEF excess, Q
  <2>5. ASSUME NEW i \in grown, NEW j \in grown, r[i].key = r[j].key, r[i].key # None
        PROVE  i = j
    <3>1. \A k \in Q : r[k].key = ask.key => ask.key = None
      BY <2>1
    <3>2. \A k, m \in Q : r[k].key = r[m].key /\ r[k].key # None => k = m
      BY <2>1 DEF Capped
    <3>3. r[n].key = ask.key
      BY <1>3
    <3> HIDE DEF r
    <3> QED
      BY <2>5, <3>1, <3>2, <3>3
  <2> QED
    BY <2>4, <2>5 DEF Capped
<1> HIDE DEF r, excess, n, l
<1>8. /\ L \in [Lane -> LaneState]
      /\ \A m \in Lane : m # l => L[m] = lane[m]
      /\ L[l].queued = grown \ excess /\ L[l].inFlight = lane[l].inFlight
      /\ L[l].lastSent = lane[l].lastSent /\ L[l].spacing = lane[l].spacing
  <2>1. [lane[l] EXCEPT !.queued = grown \ excess] \in LaneState
    BY <1>6 DEF LaneState
  <2>2. /\ [lane[l] EXCEPT !.queued = grown \ excess].queued = grown \ excess
        /\ [lane[l] EXCEPT !.queued = grown \ excess].inFlight = lane[l].inFlight
        /\ [lane[l] EXCEPT !.queued = grown \ excess].lastSent = lane[l].lastSent
        /\ [lane[l] EXCEPT !.queued = grown \ excess].spacing = lane[l].spacing
    BY <1>6 DEF LaneState
  <2> QED
    BY <1>2, <1>6, <2>1, <2>2
<1>9. S \in [Id -> Status]
  BY <1>1, <1>2 DEF TypeOK, Status, Outcome, UnsentOutcome
<1>10. \A i \in Id : i \notin lane[l].queued /\ i # n => S[i] = status[i]
  BY <1>6
<1>11. \A i \in lane[l].queued : status[i] = "open" /\ i # n /\ LaneOf[req[i].kind] = l
  BY <1>1, <1>2, <1>5, <1>6 DEF Placed
<1>12. lane[l].inFlight # n /\ \A m \in Lane : lane[m].inFlight # n /\ n \notin lane[m].queued
  BY <1>1, <1>2, <1>5, NoneAssumption DEF Placed
<1>13. \A i \in Id \ {n} :
         /\ S[i] = status[i] \/ (S[i] \in UnsentOutcome /\ i \in lane[l].queued)
         /\ status[i] # "open" => S[i] = status[i]
  BY <1>6, <1>10, <1>11 DEF UnsentOutcome
<1>14. S[n] \in {"open", "dropped"}
  BY <1>2, <1>6, <1>11
<1>15. Placed(L, S, r)
  <2>1. \A m \in Lane : \A i \in L[m].queued :
          S[i] = "open" /\ r[i] \in Request /\ LaneOf[r[i].kind] = m /\ i # L[m].inFlight
    <3> TAKE m \in Lane
    <3>1. CASE m = l
      <4> TAKE i \in L[m].queued
      <4>1. i \in Id /\ i \in grown /\ i \notin excess
        BY <1>6, <1>8, <3>1
      <4>2. CASE i = n
        BY <1>3, <1>8, <1>11, <1>12, <3>1, <4>1, <4>2 DEF l
      <4>3. CASE i # n
        BY <1>1, <1>2, <1>4, <1>8, <3>1, <4>1, <4>3 DEF Placed
      <4> QED
        BY <4>2, <4>3
    <3>2. CASE m # l
      <4> TAKE i \in L[m].queued
      <4>1. i \in Id /\ i \in lane[m].queued /\ i # n /\ LaneOf[req[i].kind] = m
        BY <1>1, <1>6, <1>8, <1>12, <3>2 DEF Placed, LaneState
      <4>2. S[i] = status[i] /\ r[i] = req[i]
        BY <1>4, <1>10, <1>11, <3>2, <4>1
      <4> QED
        BY <1>1, <1>8, <3>2, <4>1, <4>2 DEF Placed
    <3> QED
      BY <3>1, <3>2
  <2>2. \A m \in Lane : L[m].inFlight # None =>
          /\ S[L[m].inFlight] = "open" /\ r[L[m].inFlight] \in Request
          /\ LaneOf[r[L[m].inFlight].kind] = m
    <3> TAKE m \in Lane
    <3> HAVE L[m].inFlight # None
    <3>1. /\ L[m].inFlight = lane[m].inFlight /\ lane[m].inFlight \in Id
          /\ lane[m].inFlight # n
      BY <1>6, <1>8, <1>12 DEF LaneState
    <3>2. lane[m].inFlight \notin lane[l].queued
      BY <1>1, <1>2, <3>1 DEF Placed
    <3> QED
      BY <1>1, <1>4, <1>10, <3>1, <3>2 DEF Placed
  <2>3. \A i \in Id : S[i] = "open" =>
          /\ r[i] \in Request
          /\ i \in L[LaneOf[r[i].kind]].queued \/ i = L[LaneOf[r[i].kind]].inFlight
    <3> TAKE i \in Id
    <3> HAVE S[i] = "open"
    <3>1. i \notin replaced /\ i \notin excess
      OBVIOUS
    <3>2. CASE i = n
      BY <1>3, <1>8, <3>1, <3>2 DEF l
    <3>3. CASE i # n
      <4>1. status[i] = "open" /\ r[i] = req[i]
        BY <1>4, <3>1, <3>3
      <4> QED
        BY <1>1, <1>8, <3>1, <4>1 DEF Placed
    <3> QED
      BY <3>2, <3>3
  <2> QED
    BY <2>1, <2>2, <2>3 DEF Placed
<1> HIDE DEF L, S
<1>16. \A m \in Lane :
         /\ L[m].lastSent = lane[m].lastSent /\ L[m].spacing = lane[m].spacing
         /\ L[m].inFlight = lane[m].inFlight /\ L[m].queued \subseteq lane[m].queued \cup {n}
  BY <1>6, <1>8
<1>17. \A m \in Lane : Capped(lane[m].queued, req) => Capped(L[m].queued, r)
  <2> TAKE m \in Lane
  <2>1. CASE m = l
    BY <1>8, <1>7, <2>1
  <2>2. CASE m # l
    <3>1. \A i \in lane[m].queued : r[i] = req[i]
      BY <1>1, <1>4, <1>6, <1>12 DEF LaneState
    <3> QED
      BY <1>8, <2>2, <3>1 DEF Capped
  <2> QED
    BY <2>1, <2>2
<1>18. \A m \in Lane : \A i \in L[m].queued : r[i] \in Request
  BY <1>15 DEF Placed
<1>19. LaneOf[r[n].kind] = l
  BY <1>3 DEF l
<1>20. Handed(L, S, n)
  BY <1>1, <1>2, <1>3, <1>4, <1>8, <1>9, <1>15, <1>13, <1>14, <1>16, <1>17, <1>18, <1>19
     DEF Handed, n
<1> QED
  BY <1>20 DEF n

LEMMA SubmitTyped ==
  ASSUME Typed, NEW ask \in Asks, Submit(ask)
  PROVE  Typed'
<1> DEFINE n == sequence + 1
<1>1. /\ TypeOK /\ Placed(lane, status, req) /\ Fresh /\ sequence < MaxRequests
      /\ UNCHANGED <<now, closed, flushing, complaints, maps>>
  BY DEF Typed, Submit, observerVars
<1>2. PICK L, S : Handed(L, S, n)
  BY SubmitHanded
<1>3. \A i \in Id : i > n => S[i] = "new"
  <2> TAKE i \in Id
  <2> HAVE i > n
  <2>1. i # n /\ status[i] = "new"
    BY <1>1 DEF Fresh, TypeOK, Id
  <2> QED
    BY <1>2, <2>1 DEF Handed
<1>4. n \in 0..MaxRequests /\ "plugin" \in Moment
  BY <1>2 DEF Id, Moment, Handed
<1> QED
  BY <1>1, <1>2, <1>3, <1>4, PumpStep DEF TypeOK, Handed

LEMMA SubmitClosedTyped == Typed /\ SubmitClosed => Typed'
<1> SUFFICES ASSUME Typed, SubmitClosed PROVE Typed'
  OBVIOUS
<1> DEFINE n == sequence + 1
<1>1. /\ TypeOK /\ Placed(lane, status, req) /\ Fresh
      /\ sequence' = n /\ status' = [status EXCEPT ![n] = "dropped"] /\ sequence < MaxRequests
      /\ UNCHANGED <<now, closed, req, lane, holdUntil, failureStreak, lastFailureAt, wakeAt,
                     wire, flushing, complaints, maps>>
  BY DEF Typed, SubmitClosed, failureVars, observerVars
<1>2. n \in Id /\ n \in 0..MaxRequests /\ status[n] = "new"
  BY <1>1, BoundAssumption DEF TypeOK, Id, Fresh
<1>3. TypeOK'
  BY <1>1, <1>2 DEF TypeOK, Outcome, UnsentOutcome
<1>4. \A i \in Id : status[i] = "open" => i # n /\ status'[i] = "open"
  BY <1>1, <1>2 DEF TypeOK
<1>5. \A i \in Id : status'[i] = "open" => status[i] = "open"
  BY <1>1, <1>2 DEF TypeOK
<1>6. Placed(lane, status, req)'
  <2>1. \A l \in Lane : lane[l].queued \subseteq Id /\ lane[l].inFlight \in Id \cup {None}
    BY <1>1 DEF TypeOK, LaneState
  <2> QED
    BY <1>1, <1>4, <1>5, <2>1 DEF Placed
<1>7. Fresh'
  BY <1>1, <1>2, BoundAssumption DEF Fresh, TypeOK, Id
<1> QED
  BY <1>3, <1>6, <1>7 DEF Typed

\* A hold doubles: the power is a number, as the size of a power set.
LEMMA PowerOfTwo == ASSUME NEW n \in Nat PROVE 2^n \in Nat
<1>1. IsFiniteSet(1..n) /\ Cardinality(1..n) = n
  BY FS_Interval
<1>2. IsFiniteSet(SUBSET (1..n)) /\ Cardinality(SUBSET (1..n)) = 2^n
  BY <1>1, FS_SUBSET
<1> QED
  BY <1>2, FS_CardinalityType

\* What a FAILURE hands to its pump: the lanes without what is blamed, whose
\* callers are told.
Charged == {lane[l].inFlight : l \in Blamed}

Spared == [l \in Lane |-> IF l \in Blamed THEN [lane[l] EXCEPT !.inFlight = None] ELSE lane[l]]

Charging == [i \in Id |-> IF i \in Charged THEN "refused" ELSE status[i]]

LEMMA FailureHanded ==
  ASSUME Typed
  PROVE  /\ Spared \in [Lane -> LaneState] /\ Charging \in [Id -> Status]
         /\ Placed(Spared, Charging, req)
         /\ \A l \in Lane : /\ Spared[l].queued = lane[l].queued
                            /\ Spared[l].lastSent = lane[l].lastSent
                            /\ Spared[l].spacing = lane[l].spacing
                            /\ Spared[l].inFlight = IF l \in Blamed THEN None ELSE lane[l].inFlight
         /\ \A i \in Charged : /\ i \in Id /\ status[i] = "open"
                               /\ \E l \in Blamed : l \in Lane /\ lane[l].inFlight = i
         /\ \A i \in Id : i > sequence => Charging[i] = "new"
<1> DEFINE refused == Charged
           L == Spared
           S == Charging
<1>1. TypeOK /\ Placed(lane, status, req) /\ Fresh
  BY DEF Typed
<1>2. \A l \in Lane : /\ lane[l] \in LaneState
                      /\ L[l] \in LaneState /\ L[l].queued = lane[l].queued
                      /\ L[l].lastSent = lane[l].lastSent /\ L[l].spacing = lane[l].spacing
                      /\ L[l].inFlight = IF l \in Blamed THEN None ELSE lane[l].inFlight
  BY <1>1 DEF Spared, TypeOK, LaneState
<1>3. L \in [Lane -> LaneState] /\ S \in [Id -> Status]
  BY <1>1, <1>2 DEF Spared, Charging, TypeOK, Status, Outcome, SentOutcome
<1>4. \A l \in Blamed : l \in Lane /\ lane[l].inFlight # None
  BY DEF Blamed, Blamable
<1>5. \A i \in refused : status[i] = "open" /\ i = lane[LaneOf[req[i].kind]].inFlight
                          /\ LaneOf[req[i].kind] \in Blamed
  BY <1>1, <1>4 DEF Placed, Charged
<1>6. Placed(L, S, req)
  <2>1. \A l \in Lane : \A i \in L[l].queued :
          S[i] = "open" /\ req[i] \in Request /\ LaneOf[req[i].kind] = l /\ i # L[l].inFlight
    <3> TAKE l \in Lane
    <3> TAKE i \in L[l].queued
    <3>1. /\ i \in lane[l].queued /\ i \in Id /\ status[i] = "open" /\ req[i] \in Request
          /\ LaneOf[req[i].kind] = l /\ i # lane[l].inFlight
      BY <1>1, <1>2 DEF Placed, LaneState
    <3>2. i \notin refused /\ i # None
      BY <1>5, <3>1, NoneAssumption
    <3> QED
      BY <1>2, <3>1, <3>2 DEF Charging
  <2>2. \A l \in Lane : L[l].inFlight # None =>
          /\ S[L[l].inFlight] = "open" /\ req[L[l].inFlight] \in Request
          /\ LaneOf[req[L[l].inFlight].kind] = l
    <3> TAKE l \in Lane
    <3> HAVE L[l].inFlight # None
    <3> DEFINE i == lane[l].inFlight
    <3>1. L[l].inFlight = i /\ l \notin Blamed /\ i \in Id
      BY <1>2 DEF LaneState
    <3>2. status[i] = "open" /\ req[i] \in Request /\ LaneOf[req[i].kind] = l
      BY <1>1, <3>1 DEF Placed
    <3>3. i \notin refused
      BY <1>5, <3>1, <3>2
    <3> QED
      BY <3>1, <3>2, <3>3 DEF Charging
  <2>3. \A i \in Id : S[i] = "open" =>
          /\ req[i] \in Request
          /\ i \in L[LaneOf[req[i].kind]].queued \/ i = L[LaneOf[req[i].kind]].inFlight
    <3> TAKE i \in Id
    <3> HAVE S[i] = "open"
    <3> DEFINE l == LaneOf[req[i].kind]
    <3>1. i \notin refused /\ status[i] = "open"
      BY DEF Charging
    <3>2. /\ req[i] \in Request /\ l \in Lane
          /\ i \in lane[l].queued \/ i = lane[l].inFlight
      BY <1>1, <3>1, LaneAssumption DEF Placed, Request
    <3>3. i = lane[l].inFlight => l \notin Blamed
      BY <3>1 DEF Charged
    <3> QED
      BY <1>2, <3>2, <3>3
  <2> QED
    BY <2>1, <2>2, <2>3 DEF Placed
<1>7. \A i \in Id : i > sequence => S[i] = "new"
  BY <1>1, <1>5 DEF Fresh, Charging
<1>8. \A i \in Charged : i \in Id /\ \E l \in Blamed : l \in Lane /\ lane[l].inFlight = i
  BY <1>1, <1>4 DEF Charged, TypeOK, LaneState
<1> QED
  BY <1>2, <1>3, <1>5, <1>6, <1>7, <1>8

LEMMA FailureTyped == Typed /\ Failure => Typed'
<1> SUFFICES ASSUME Typed, Failure PROVE Typed'
  OBVIOUS
<1> DEFINE streak == failureStreak + 1
           hold == Min2(FailureHold * 2^(streak - 1), MaxFailureHold)
<1>1. /\ TypeOK /\ Placed(lane, status, req) /\ Fresh
      /\ complaints' = Append(complaints, [at |-> now, hold |-> hold])
      /\ UNCHANGED <<now, closed, sequence, req, flushing, maps>>
      /\ Pump(Spared, req, Charging, wire, Max2(holdUntil, now + hold), streak, now, wakeAt, "server")
  BY DEF Typed, Failure, callerVars, Spared, Charging, Charged
<1>2. hold \in Nat /\ streak \in Nat
  <2>1. failureStreak \in Nat /\ FailureHold \in Nat /\ MaxFailureHold \in Nat
    BY <1>1, TuningAssumption DEF TypeOK
  <2>2. 2^(streak - 1) \in Nat
    BY <2>1, PowerOfTwo
  <2>3. \A x, y \in Nat : x * y \in Nat
    OBVIOUS
  <2>4. FailureHold * 2^(streak - 1) \in Nat
    BY <2>1, <2>2, <2>3
  <2> QED
    BY <2>1, <2>4 DEF Min2
<1> HIDE DEF hold, streak
<1>3. Max2(holdUntil, now + hold) \in Int /\ now \in Int /\ "server" \in Moment
  BY <1>1, <1>2 DEF TypeOK, Max2, Moment
<1>4. complaints' \in Seq([at : Int, hold : Nat])
  BY <1>1, <1>2 DEF TypeOK
<1>5. /\ Spared \in [Lane -> LaneState] /\ Charging \in [Id -> Status]
      /\ Placed(Spared, Charging, req) /\ \A i \in Id : i > sequence => Charging[i] = "new"
  BY FailureHanded
<1> QED
  BY <1>1, <1>2, <1>3, <1>4, <1>5, PumpStep DEF TypeOK

\* clear: nothing open is left, nothing is left in a lane.
LEMMA ClearedPlaced ==
  ASSUME Typed, Cleared, UNCHANGED <<sequence, req>>
  PROVE  /\ lane' \in [Lane -> LaneState] /\ status' \in [Id -> Status]
         /\ Placed(lane, status, req)' /\ Fresh'
<1>1. TypeOK /\ Placed(lane, status, req) /\ Fresh
  BY DEF Typed
<1>2. \A l \in Lane : lane'[l] \in LaneState /\ lane'[l].queued = {} /\ lane'[l].inFlight = None
  BY <1>1 DEF Cleared, TypeOK, LaneState
<1>3. lane' \in [Lane -> LaneState] /\ status' \in [Id -> Status]
  BY <1>1, <1>2 DEF Cleared, TypeOK, Status, Outcome, UnsentOutcome, SentOutcome
<1>4. \A i \in Id : status'[i] # "open"
  <2> SUFFICES ASSUME NEW i \in Id, status'[i] = "open" PROVE FALSE
    OBVIOUS
  <2>1. /\ \A l \in Lane : i \notin lane[l].queued
        /\ i \notin Watching(lane) /\ status[i] = "open"
    BY DEF Cleared
  <2>2. \A l \in Lane : i # lane[l].inFlight
    BY <2>1, NoneAssumption DEF Watching
  <2>3. LaneOf[req[i].kind] \in Lane
    BY <1>1, <2>1, LaneAssumption DEF Placed, Request
  <2> QED
    BY <1>1, <2>1, <2>2, <2>3 DEF Placed
<1>5. Placed(lane, status, req)'
  BY <1>2, <1>4 DEF Placed
<1>6. Fresh'
  <2> SUFFICES ASSUME NEW i \in Id, i > sequence PROVE status'[i] = "new"
    BY DEF Fresh
  <2>1. status[i] = "new"
    BY <1>1 DEF Fresh
  <2>2. i \notin Watching(lane) /\ \A l \in Lane : i \notin lane[l].queued
    BY <1>1, <2>1 DEF Placed, Watching
  <2> QED
    BY <2>1, <2>2 DEF Cleared
<1> QED
  BY <1>3, <1>5, <1>6

LEMMA MapInfoTyped == Typed /\ MapInfo => Typed'
<1> SUFFICES ASSUME Typed, MapInfo PROVE Typed'
  OBVIOUS
<1>1. /\ lane' \in [Lane -> LaneState] /\ status' \in [Id -> Status]
      /\ Placed(lane, status, req)' /\ Fresh'
  BY ClearedPlaced DEF MapInfo, callerVars
<1>2. TypeOK'
  BY <1>1 DEF Typed, TypeOK, Status, MapInfo, callerVars, failureVars
<1> QED
  BY <1>1, <1>2 DEF Typed

LEMMA DisposeTyped == Typed /\ Dispose => Typed'
<1> SUFFICES ASSUME Typed, Dispose PROVE Typed'
  OBVIOUS
<1>1. /\ lane' \in [Lane -> LaneState] /\ status' \in [Id -> Status]
      /\ Placed(lane, status, req)' /\ Fresh'
  BY ClearedPlaced DEF Dispose, callerVars
<1>2. TypeOK'
  BY <1>1 DEF Typed, TypeOK, Status, Dispose, callerVars, failureVars, observerVars
<1> QED
  BY <1>1, <1>2 DEF Typed

\* The entry points that only pump.
LEMMA PumpOnlyTyped ==
  ASSUME Typed, NEW moment \in Moment, NEW armed \in Int \cup {None}, flushing' \in BOOLEAN,
         UNCHANGED <<now, closed, sequence, req, complaints, maps>>,
         PumpOnly(lane, req, status, wire, armed, moment)
  PROVE  Typed'
<1>1. TypeOK /\ Placed(lane, status, req) /\ Fresh
  BY DEF Typed
<1>2. Pump(lane, req', status, wire, holdUntil, failureStreak, lastFailureAt, armed, moment)
  BY DEF PumpOnly
<1> QED
  BY <1>1, <1>2, PumpStep DEF TypeOK, Status, Fresh

\* What a packet of the player's own hands to its pump: its lane without the
\* requests it makes stale, whose callers are told, and the wire with it.
Dropping(k) == [i \in Id |-> IF i \in Stale(k) THEN "dropped" ELSE status[i]]

Event(k) == [by |-> None, kind |-> k, at |-> now, behind |-> "message",
             flushing |-> FALSE, complaints |-> Len(complaints), map |-> maps]

Passed(k) == [wire EXCEPT ![LaneOf[k]] = Append(@, Event(k))]

LEMMA PlayerHanded ==
  ASSUME Typed, NEW k \in Kind
  PROVE  /\ Heard(k) \in [Lane -> LaneState] /\ Dropping(k) \in [Id -> Status]
         /\ Passed(k) \in [Lane -> Seq(WireEvent)] /\ Event(k) \in WireEvent
         /\ Placed(Heard(k), Dropping(k), req)
         /\ \A m \in Lane : /\ Heard(k)[m].inFlight = lane[m].inFlight
                            /\ Heard(k)[m].queued = lane[m].queued \ Stale(k)
                            /\ m # LaneOf[k] => Heard(k)[m] = lane[m]
         /\ Heard(k)[LaneOf[k]].lastSent = now /\ Heard(k)[LaneOf[k]].spacing = Spacing[k]
         /\ \A i \in Stale(k) : /\ LaneOf[k] = ItemLane /\ i \in lane[ItemLane].queued
                                /\ i \in Id /\ status[i] = "open"
         /\ \A i \in Id : i > sequence => Dropping(k)[i] = "new"
<1> DEFINE l == LaneOf[k]
           event == Event(k)
           L == Heard(k)
           S == Dropping(k)
           W == Passed(k)
<1>1. TypeOK /\ Placed(lane, status, req) /\ Fresh
  BY DEF Typed
<1>2. l \in Lane /\ Spacing[k] \in Nat /\ lane[l] \in LaneState
  BY <1>1, LaneAssumption DEF TypeOK
<1>3. event \in WireEvent /\ W \in [Lane -> Seq(WireEvent)]
  <2>1. event \in WireEvent
    BY <1>1 DEF Event, WireEvent, TypeOK, Moment
  <2> QED
    BY <1>1, <1>2, <2>1 DEF Passed, TypeOK
<1>4. /\ L \in [Lane -> LaneState]
      /\ \A m \in Lane : m # l => L[m] = lane[m]
      /\ L[l].inFlight = lane[l].inFlight
      /\ L[l].queued = lane[l].queued \ Stale(k)
      /\ L[l].lastSent = now /\ L[l].spacing = Spacing[k]
  <2> DEFINE q == lane[l].queued \ Stale(k)
             h == [lane[l] EXCEPT !.lastSent = now, !.spacing = Spacing[k], !.queued = q]
  <2>0. now \in Int /\ lane \in [Lane -> LaneState] /\ q \subseteq Id
    BY <1>1, <1>2 DEF TypeOK, LaneState
  <2>1. L = [lane EXCEPT ![l] = h]
    BY <1>2, <2>0 DEF Heard, Stale, LaneState
  <2> HIDE DEF q
  <2>2. /\ h \in LaneState /\ h.inFlight = lane[l].inFlight /\ h.queued = q
        /\ h.lastSent = now /\ h.spacing = Spacing[k]
    BY <1>2, <2>0 DEF LaneState
  <2> HIDE DEF h, L, l
  <2>3. /\ L \in [Lane -> LaneState] /\ \A m \in Lane : m # l => L[m] = lane[m]
        /\ L[l] = h
    BY <1>2, <2>0, <2>2, <2>1
  <2> QED
    BY <2>2, <2>3 DEF q
<1>5. \A i \in Stale(k) : l = ItemLane /\ i \in lane[l].queued
  BY DEF Stale
<1>6. \A m \in Lane : lane[m].queued \subseteq Id /\ lane[m].inFlight \in Id \cup {None}
  BY <1>1 DEF TypeOK, LaneState
<1>7. S \in [Id -> Status] /\ \A i \in Id : i > sequence => S[i] = "new"
  BY <1>1, <1>2, <1>5 DEF Dropping, TypeOK, Status, Outcome, UnsentOutcome, Fresh, Placed
<1> HIDE DEF l
<1>8. \A m \in Lane : \A i \in L[m].queued : i \in lane[m].queued /\ i \notin Stale(k)
  BY <1>1, <1>2, <1>4, <1>5 DEF Placed
<1>9. \A m \in Lane : L[m].inFlight = lane[m].inFlight /\ lane[m].inFlight \notin Stale(k)
  BY <1>1, <1>2, <1>4, <1>5, <1>6, NoneAssumption DEF Placed
<1>10. \A i \in Id : S[i] = "open" => status[i] = "open" /\ i \notin Stale(k)
  BY DEF Dropping
<1>11. \A m \in Lane : \A i \in lane[m].queued : i \notin Stale(k) => i \in L[m].queued
  BY <1>4 DEF Stale, l
<1>12. Placed(L, S, req)
  <2>1. \A m \in Lane : \A i \in L[m].queued :
          S[i] = "open" /\ req[i] \in Request /\ LaneOf[req[i].kind] = m /\ i # L[m].inFlight
    BY <1>1, <1>6, <1>8, <1>9 DEF Placed, Dropping
  <2>2. \A m \in Lane : L[m].inFlight # None =>
          /\ S[L[m].inFlight] = "open" /\ req[L[m].inFlight] \in Request
          /\ LaneOf[req[L[m].inFlight].kind] = m
    BY <1>1, <1>6, <1>9 DEF Placed, Dropping
  <2>3. \A i \in Id : S[i] = "open" =>
          /\ req[i] \in Request
          /\ i \in L[LaneOf[req[i].kind]].queued \/ i = L[LaneOf[req[i].kind]].inFlight
    BY <1>1, <1>9, <1>10, <1>11, LaneAssumption DEF Placed, Request
  <2> QED
    BY <2>1, <2>2, <2>3 DEF Placed
<1>13. \A m \in Lane : /\ L[m].inFlight = lane[m].inFlight
                       /\ L[m].queued = lane[m].queued \ Stale(k)
                       /\ m # l => L[m] = lane[m]
  BY <1>1, <1>2, <1>4, <1>5 DEF Placed
<1>14. \A i \in Stale(k) : /\ LaneOf[k] = ItemLane /\ i \in lane[ItemLane].queued
                           /\ i \in Id /\ status[i] = "open"
  BY <1>1, <1>2, <1>5, <1>6 DEF Placed, l
<1> QED
  BY <1>3, <1>4, <1>7, <1>12, <1>13, <1>14 DEF l

LEMMA PlayerPacketTyped ==
  ASSUME Typed, NEW k \in Kind, PlayerPacket(k)
  PROVE  Typed'
<1>1. /\ TypeOK /\ flushing' = FALSE /\ UNCHANGED <<now, closed, sequence, req, complaints, maps>>
      /\ Pump(Heard(k), req, Dropping(k), Passed(k), holdUntil, failureStreak, lastFailureAt,
              wakeAt, "message")
  BY DEF Typed, PlayerPacket, PumpOnly, callerVars, Dropping, Passed, Event
<1>2. /\ Heard(k) \in [Lane -> LaneState] /\ Dropping(k) \in [Id -> Status]
      /\ Passed(k) \in [Lane -> Seq(WireEvent)] /\ Placed(Heard(k), Dropping(k), req)
      /\ \A i \in Id : i > sequence => Dropping(k)[i] = "new"
  BY PlayerHanded
<1>3. "message" \in Moment
  BY DEF Moment
<1> QED
  BY <1>1, <1>2, <1>3, PumpStep DEF TypeOK

LEMMA NextTyped == Typed /\ [Next]_vars => Typed'
<1> SUFFICES ASSUME Typed, [Next]_vars PROVE Typed'
  OBVIOUS
<1>0. TypeOK
  BY DEF Typed
<1>1. CASE \E ask \in Asks : Submit(ask)
  BY <1>1, SubmitTyped
<1>2. CASE SubmitClosed
  BY <1>2, SubmitClosedTyped
<1>3. CASE Failure
  BY <1>3, FailureTyped
<1>4. CASE MapInfo
  BY <1>4, MapInfoTyped
<1>5. CASE ServerPacket
  BY <1>0, <1>5, PumpOnlyTyped DEF ServerPacket, callerVars, observerVars, TypeOK, Moment
<1>6. CASE \E k \in Kind : PlayerPacket(k)
  BY <1>6, PlayerPacketTyped
<1>7. CASE ClientMessage
  BY <1>0, <1>7, PumpOnlyTyped DEF ClientMessage, callerVars, TypeOK, Moment
<1>8. CASE ShotAcknowledgement
  BY <1>8 DEF ShotAcknowledgement, callerVars, failureVars, Typed, TypeOK, Placed, Fresh
<1>9. CASE Wake
  BY <1>0, <1>9, PumpOnlyTyped DEF Wake, callerVars, observerVars, TypeOK, Moment
<1>10. CASE Dispose
  BY <1>10, DisposeTyped
<1>11. CASE Tick
  BY <1>11 DEF Tick, callerVars, failureVars, observerVars, Typed, TypeOK, Placed, Fresh
<1>12. CASE UNCHANGED vars
  BY <1>12 DEF vars, Typed, TypeOK, Placed, Fresh
<1> QED
  BY <1>1, <1>2, <1>3, <1>4, <1>5, <1>6, <1>7, <1>8, <1>9, <1>10, <1>11, <1>12 DEF Next

\* The queue keeps its types and its bookkeeping for every tuning and lane table.
THEOREM TypeCorrect == Spec => []TypeOK
<1>1. Typed => TypeOK
  BY DEF Typed
<1> QED
  BY <1>1, InitTyped, NextTyped, PTL DEF Spec


-----------------------------------------------------------------------------
(***************************************************************************)
(* What the queue promises.  Everything rests on Typed: requests, lanes and*)
(* statuses agree.                                                         *)
(***************************************************************************)

LEMMA AlwaysTyped == Spec => []Typed
  BY InitTyped, NextTyped, PTL DEF Spec

\* Every open request is in exactly one place of its own lane, and nothing
\* settled lingers in a lane: no lane table, cap or order of messages loses a
\* request or keeps a ghost (submit, pump, clear and dispose together).
THEOREM RequestsAccountedFor == Spec => []Accounted
<1>1. Typed => Accounted
  <2> SUFFICES ASSUME Typed, NEW i \in Id
               PROVE  LET holds == {l \in Lane : i \in lane[l].queued}
                          flies == {l \in Lane : lane[l].inFlight = i}
                      IN IF status[i] = "open"
                         THEN /\ holds \cup flies = {LaneOf[req[i].kind]}
                              /\ holds \cap flies = {}
                         ELSE holds \cup flies = {}
    BY DEF Accounted
  <2>1. Placed(lane, status, req) /\ i # None
    BY NoneAssumption DEF Typed
  <2>2. CASE status[i] = "open"
    <3>1. LaneOf[req[i].kind] \in Lane
      BY <2>1, <2>2, LaneAssumption DEF Placed, Request
    <3> QED
      BY <2>1, <2>2, <3>1 DEF Placed
  <2>3. CASE status[i] # "open"
    BY <2>1, <2>3 DEF Placed
  <2> QED
    BY <2>2, <2>3
<1> QED
  BY <1>1, AlwaysTyped, PTL

-----------------------------------------------------------------------------
(* Spacing.  The wire cannot be read back by the queue: what makes the     *)
(* next packet late enough is that lastSent and spacing never fall behind  *)
(* the last packet of the lane, also when a packet could not be encoded.   *)

LaneSpaced(w, s) ==
  /\ \A n \in DOMAIN w :
       n > 1 /\ Ours(w[n]) =>
         w[n].at - w[n - 1].at >= Max2(Spacing[w[n].kind], Spacing[w[n - 1].kind])
  /\ w # <<>> => /\ w[Len(w)].at <= s.lastSent
                 /\ w[Len(w)].at + Spacing[w[Len(w)].kind] <= s.lastSent + s.spacing

AllSpaced(W, L) == \A l \in Lane : LaneSpaced(W[l], L[l])

LEMMA SpacedAppend ==
  ASSUME NEW w \in Seq(WireEvent), NEW s \in LaneState, NEW t \in LaneState,
         NEW e \in WireEvent, LaneSpaced(w, s),
         Ours(e) => e.at - s.lastSent >= Max2(s.spacing, Spacing[e.kind]),
         e.at <= t.lastSent, e.at + Spacing[e.kind] <= t.lastSent + t.spacing
  PROVE  LaneSpaced(Append(w, e), t)
<1> DEFINE v == Append(w, e)
<1>1. /\ Len(v) = Len(w) + 1 /\ Len(w) \in Nat /\ DOMAIN v = 1..Len(v) /\ DOMAIN w = 1..Len(w)
      /\ v[Len(v)] = e /\ \A n \in DOMAIN w : v[n] = w[n] /\ w[n] \in WireEvent
  OBVIOUS
<1>2. \A x \in WireEvent : x.at \in Int /\ Spacing[x.kind] \in Nat
  BY LaneAssumption DEF WireEvent
<1>3. s.lastSent \in Int /\ s.spacing \in Nat
  BY DEF LaneState
<1>4. ASSUME NEW n \in DOMAIN v, n > 1, Ours(v[n])
      PROVE  v[n].at - v[n - 1].at >= Max2(Spacing[v[n].kind], Spacing[v[n - 1].kind])
  <2>1. CASE n \in DOMAIN w
    <3>1. n - 1 \in DOMAIN w
      BY <1>1, <1>4, <2>1
    <3> QED
      BY <1>1, <1>4, <2>1, <3>1 DEF LaneSpaced
  <2>2. CASE n \notin DOMAIN w
    <3>1. n = Len(v) /\ n - 1 = Len(w) /\ Len(w) \in DOMAIN w /\ w # <<>>
      BY <1>1, <1>4, <2>2
    <3>2. /\ w[Len(w)].at <= s.lastSent
          /\ w[Len(w)].at + Spacing[w[Len(w)].kind] <= s.lastSent + s.spacing
      BY <3>1 DEF LaneSpaced
    <3>3. e.at - s.lastSent >= s.spacing /\ e.at - s.lastSent >= Spacing[e.kind]
      BY <1>1, <1>2, <1>3, <1>4, <3>1 DEF Max2
    <3>4. v[n] = e /\ v[n - 1] = w[Len(w)] /\ w[Len(w)] \in WireEvent
      BY <1>1, <3>1
    <3>5. e.at - w[Len(w)].at >= Spacing[e.kind] /\ e.at - w[Len(w)].at >= Spacing[w[Len(w)].kind]
      BY <1>2, <1>3, <3>2, <3>3, <3>4
    <3> QED
      BY <3>4, <3>5 DEF Max2
  <2> QED
    BY <2>1, <2>2
<1> QED
  BY <1>1, <1>4 DEF LaneSpaced

\* One lane through the pump: what goes out is late enough for the packet
\* before it, and the lane remembers it.
LEMMA PumpKeepsSpacing ==
  ASSUME NEW w \in Seq(WireEvent), NEW s \in LaneState, NEW r,
         \A i \in s.queued : r[i] \in Request, NEW C, NEW hold, NEW moment \in Moment,
         now \in Nat, flushing' \in BOOLEAN, Len(complaints') \in Nat, maps' \in Nat,
         LaneSpaced(w, s)
  PROVE  LaneSpaced(PumpedWire(w, s, r, C, hold, moment),
                    PumpedLane(s, r, C, hold, moment = "message"))
<1> DEFINE may == moment = "message"
           t == PumpedLane(s, r, C, hold, may)
<1>1. CASE Going(s, r, C, hold, may) = {}
  <2>1. t = Rested(s, r, C) /\ PumpedWire(w, s, r, C, hold, moment) = w
    BY <1>1 DEF PumpedLane, PumpedWire
  <2>2. t.lastSent = s.lastSent /\ t.spacing = s.spacing
    BY <2>1, RestedType
  <2> QED
    BY <2>1, <2>2 DEF LaneSpaced
<1>2. ASSUME NEW n \in s.queued, Going(s, r, C, hold, may) = {n},
             (CHOOSE i \in Going(s, r, C, hold, may) : TRUE) = n, t = Dispatched(s, r, n)
      PROVE  LaneSpaced(PumpedWire(w, s, r, C, hold, moment), t)
  <2> DEFINE e == [by |-> n, kind |-> r[n].kind, at |-> now, behind |-> moment,
                   flushing |-> flushing', complaints |-> Len(complaints'), map |-> maps']
  <2>1. n \in Id /\ n # None /\ r[n].kind \in Kind /\ r[n].encodes \in BOOLEAN
    BY NoneAssumption DEF LaneState, Request
  <2>2. e \in WireEvent /\ e.at = now /\ e.kind = r[n].kind
    BY <2>1 DEF WireEvent
  <2>3. t \in LaneState /\ t.lastSent = now /\ t.spacing = Spacing[r[n].kind]
    BY <1>2, DispatchedType
  <2>4. now - s.lastSent >= Max2(s.spacing, Spacing[r[n].kind])
    BY <1>2 DEF Going
  <2>5. CASE r[n].encodes
    <3>1. PumpedWire(w, s, r, C, hold, moment) = Append(w, e)
      BY <1>2, <2>5 DEF PumpedWire
    <3>2. e.at <= t.lastSent /\ e.at + Spacing[e.kind] <= t.lastSent + t.spacing
      BY <2>1, <2>2, <2>3, LaneAssumption
    <3> HIDE DEF e, t
    <3> QED
      BY <2>2, <2>3, <2>4, <3>1, <3>2, SpacedAppend
  <2>6. CASE ~r[n].encodes
    <3>1. PumpedWire(w, s, r, C, hold, moment) = w
      BY <1>2, <2>6 DEF PumpedWire
    <3>2. s.lastSent \in Int /\ s.spacing \in Nat /\ Spacing[r[n].kind] \in Nat
      BY <2>1, LaneAssumption DEF LaneState
    <3>3. s.lastSent <= t.lastSent /\ s.lastSent + s.spacing <= t.lastSent + t.spacing
      BY <2>3, <2>4, <3>2 DEF Max2
    <3> HIDE DEF t
    <3>4. w # <<>> => w[Len(w)] \in WireEvent
      OBVIOUS
    <3>5. w # <<>> => w[Len(w)].at \in Int /\ Spacing[w[Len(w)].kind] \in Nat
      BY <3>4, LaneAssumption DEF WireEvent
    <3> QED
      BY <2>3, <3>1, <3>2, <3>3, <3>5 DEF LaneSpaced, LaneState
  <2> QED
    BY <2>1, <2>5, <2>6
<1> QED
  BY <1>1, <1>2, PumpedLaneCases

LEMMA PumpSpaced ==
  ASSUME NEW L \in [Lane -> LaneState], NEW S, NEW r,
         NEW W \in [Lane -> Seq(WireEvent)], NEW hold, NEW streak, NEW failedAt, NEW armed,
         NEW moment \in Moment,
         \A l \in Lane : \A i \in L[l].queued : r[i] \in Request,
         now \in Nat, flushing' \in BOOLEAN, Len(complaints') \in Nat, maps' \in Nat,
         AllSpaced(W, L), Pump(L, r, S, W, hold, streak, failedAt, armed, moment)
  PROVE  AllSpaced(wire, lane)'
<1>1. PICK C :
        /\ lane' = [l \in Lane |-> PumpedLane(L[l], r, C, hold, moment = "message")]
        /\ wire' = [l \in Lane |-> PumpedWire(W[l], L[l], r, C, hold, moment)]
  BY DEF Pump
<1>2. ASSUME NEW l \in Lane PROVE LaneSpaced(wire'[l], lane'[l])
  <2>1. LaneSpaced(W[l], L[l])
    BY DEF AllSpaced
  <2>2. LaneSpaced(PumpedWire(W[l], L[l], r, C, hold, moment),
                   PumpedLane(L[l], r, C, hold, moment = "message"))
    BY <2>1, PumpKeepsSpacing
  <2> QED
    BY <1>1, <2>2
<1> QED
  BY <1>2 DEF AllSpaced

\* The entry points only pump, or change a lane in what spacing does not read,
\* or (the player's own packet) are themselves the last packet of the lane.
LEMMA NextSpaced == Typed /\ Typed' /\ AllSpaced(wire, lane) /\ [Next]_vars => AllSpaced(wire, lane)'
<1> SUFFICES ASSUME Typed, Typed', AllSpaced(wire, lane), [Next]_vars
             PROVE  AllSpaced(wire, lane)'
  OBVIOUS
<1>1. /\ now \in Nat /\ lane \in [Lane -> LaneState] /\ wire \in [Lane -> Seq(WireEvent)]
      /\ req \in [Id -> Request \cup {None}]
      /\ \A l \in Lane : \A i \in lane[l].queued : req[i] \in Request
      /\ flushing' \in BOOLEAN /\ Len(complaints') \in Nat /\ maps' \in Nat
      /\ \A l \in Lane : lane[l].queued \subseteq Id /\ lane[l].inFlight \in Id \cup {None}
  BY DEF Typed, TypeOK, Placed, LaneState
<1>2. {"message", "server", "timer", "plugin"} \subseteq Moment
  BY DEF Moment
<1>3. ASSUME NEW L \in [Lane -> LaneState],
             \A l \in Lane : L[l].lastSent = lane[l].lastSent /\ L[l].spacing = lane[l].spacing
      PROVE  AllSpaced(wire, L)
  BY <1>3 DEF AllSpaced, LaneSpaced
<1>4. ASSUME NEW moment \in Moment, NEW armed, PumpOnly(lane, req, status, wire, armed, moment)
      PROVE  AllSpaced(wire, lane)'
  BY <1>1, <1>4, PumpSpaced DEF PumpOnly
<1>5. CASE \E ask \in Asks : Submit(ask)
  <2> PICK ask \in Asks : Submit(ask)
    BY <1>5
  <2> DEFINE n == sequence + 1
  <2>1. PICK L, S : Handed(L, S, n)
    BY SubmitHanded
  <2>2. /\ \A l \in Lane : \A i \in L[l].queued : req'[i] \in Request
        /\ AllSpaced(wire, L)
    BY <1>3, <2>1 DEF Handed
  <2> QED
    BY <1>1, <1>2, <2>1, <2>2, PumpSpaced DEF Handed
<1>6. CASE SubmitClosed \/ MapInfo \/ ShotAcknowledgement \/ Dispose \/ Tick \/ UNCHANGED vars
  <2>0. wire' = wire /\ (Cleared \/ lane' = lane)
    BY <1>6 DEF SubmitClosed, MapInfo, ShotAcknowledgement, Dispose, Tick, vars
  <2>1. \A l \in Lane : lane'[l].lastSent = lane[l].lastSent /\ lane'[l].spacing = lane[l].spacing
    <3>1. CASE Cleared
      <4> TAKE l \in Lane
      <4>1. lane[l] \in LaneState /\ lane'[l] = [lane[l] EXCEPT !.queued = {}, !.inFlight = None]
        BY <1>1, <3>1 DEF Cleared
      <4> QED
        BY <4>1 DEF LaneState
    <3>2. CASE lane' = lane
      BY <3>2
    <3> QED
      BY <2>0, <3>1, <3>2
  <2>2. lane' \in [Lane -> LaneState]
    BY DEF Typed, TypeOK
  <2>3. AllSpaced(wire, lane')
    BY <1>3, <2>1, <2>2
  <2> QED
    BY <2>0, <2>3 DEF AllSpaced
<1>7. CASE Failure
  <2> DEFINE L == [l \in Lane |->
                     IF l \in Blamed THEN [lane[l] EXCEPT !.inFlight = None] ELSE lane[l]]
  <2>1. \E S, hold, streak : Pump(L, req, S, wire, hold, streak, now, wakeAt, "server")
    BY <1>7 DEF Failure
  <2>2. \A l \in Lane : /\ L[l] \in LaneState /\ L[l].queued = lane[l].queued
                        /\ L[l].lastSent = lane[l].lastSent /\ L[l].spacing = lane[l].spacing
    BY <1>1 DEF LaneState
  <2>3. L \in [Lane -> LaneState]
    BY <2>2
  <2> HIDE DEF L
  <2> QED
    BY <1>1, <1>2, <1>3, <2>1, <2>2, <2>3, PumpSpaced
<1>8. CASE ServerPacket \/ ClientMessage \/ Wake
  BY <1>2, <1>4, <1>8 DEF ServerPacket, ClientMessage, Wake
<1>9. CASE \E k \in Kind : PlayerPacket(k)
  <2> PICK k \in Kind : PlayerPacket(k)
    BY <1>9
  <2> DEFINE l == LaneOf[k]
             event == [by |-> None, kind |-> k, at |-> now, behind |-> "message",
                       flushing |-> FALSE, complaints |-> Len(complaints), map |-> maps]
             h == [lane[l] EXCEPT !.lastSent = now, !.spacing = Spacing[k],
                                  !.queued = lane[l].queued \ Stale(k)]
             W == [wire EXCEPT ![l] = Append(wire[l], event)]
  <2>1. \E S : Pump(Heard(k), req, S, W, holdUntil, failureStreak, lastFailureAt, wakeAt, "message")
    BY DEF PlayerPacket, PumpOnly
  <2>2. l \in Lane /\ Spacing[k] \in Nat /\ Heard(k) = [lane EXCEPT ![l] = h]
    BY LaneAssumption DEF Heard
  <2>3. event \in WireEvent /\ ~Ours(event) /\ event.at = now /\ event.kind = k
    BY <1>1, <1>2 DEF WireEvent, Ours, Typed, TypeOK
  <2>4. /\ h \in LaneState /\ h.lastSent = now /\ h.spacing = Spacing[k]
        /\ h.queued \subseteq lane[l].queued
    <3>1. now \in Int /\ lane[l] \in LaneState
      BY <1>1, <2>2
    <3> DEFINE q == lane[l].queued \ Stale(k)
    <3>2. q \subseteq lane[l].queued /\ q \subseteq Id
      BY <3>1 DEF LaneState
    <3> HIDE DEF q, l
    <3> QED
      BY <2>2, <3>1, <3>2 DEF LaneState
  <2> HIDE DEF event, h
  <2>5. LaneSpaced(Append(wire[l], event), h)
    <3>1. LaneSpaced(wire[l], lane[l]) /\ wire[l] \in Seq(WireEvent) /\ lane[l] \in LaneState
      BY <1>1, <2>2 DEF AllSpaced
    <3>2. event.at <= h.lastSent /\ event.at + Spacing[event.kind] <= h.lastSent + h.spacing
      BY <1>1, <2>2, <2>3, <2>4
    <3> QED
      BY <2>3, <2>4, <3>1, <3>2, SpacedAppend
  <2> HIDE DEF l
  <2>6. W \in [Lane -> Seq(WireEvent)]
    BY <1>1, <2>2, <2>3
  <2>7. /\ Heard(k) \in [Lane -> LaneState] /\ AllSpaced(W, Heard(k))
        /\ \A m \in Lane : \A i \in Heard(k)[m].queued : req[i] \in Request
    BY <1>1, <2>2, <2>4, <2>5 DEF AllSpaced
  <2> HIDE DEF W
  <2> QED
    BY <1>1, <1>2, <2>1, <2>6, <2>7, PumpSpaced
<1> QED
  BY <1>5, <1>6, <1>7, <1>8, <1>9 DEF Next

\* Two packets of one lane are never closer than the longer of their spacings,
\* when the second is ours: whatever the lane table, however requests, the
\* player's own packets, complaints and map changes interleave, and also after
\* a packet that could not be encoded (pump, #dispatch, #heardFromClient).
THEOREM KeepsSpacing == Spec => []SpacedFromLast
<1>1. Init => AllSpaced(wire, lane)
  BY DEF Init, AllSpaced, LaneSpaced
<1>2. AllSpaced(wire, lane) => SpacedFromLast
  BY DEF AllSpaced, LaneSpaced, SpacedFromLast
<1>3. Typed /\ Typed' /\ AllSpaced(wire, lane) /\ [Next]_vars => AllSpaced(wire, lane)'
  BY NextSpaced
<1> QED
  BY <1>1, <1>2, <1>3, AlwaysTyped, PTL DEF Spec

-----------------------------------------------------------------------------
(* One answer per caller.                                                  *)

LEMMA PumpTold ==
  ASSUME NEW L, NEW r, NEW S, NEW W, NEW hold, NEW streak, NEW failedAt, NEW armed, NEW moment,
         Pump(L, r, S, W, hold, streak, failedAt, armed, moment), NEW i \in Id, S[i] # "open"
  PROVE  status'[i] = S[i]
  BY DEF Pump

\* A settled request is nowhere in the lanes, so nothing that settles what is in
\* them reaches it again.
LEMMA NextTold ==
  Typed /\ [Next]_vars => \A i \in Id : status[i] \in Outcome => status'[i] = status[i]
<1> SUFFICES ASSUME Typed, [Next]_vars, NEW i \in Id, status[i] \in Outcome
             PROVE  status'[i] = status[i]
  OBVIOUS
<1>1. /\ status[i] # "open" /\ status[i] # "new" /\ i # None
      /\ \A l \in Lane : i \notin lane[l].queued /\ i # lane[l].inFlight
  BY NoneAssumption DEF Typed, Placed, Outcome, SentOutcome, UnsentOutcome
<1>2. i \notin Watching(lane)
  BY <1>1 DEF Watching
<1>3. status \in [Id -> Status] /\ \A j \in Id : j > sequence => status[j] = "new"
  BY DEF Typed, TypeOK, Fresh, Status
<1>4. ASSUME NEW n, n = sequence + 1, sequence < MaxRequests PROVE n \in Id /\ i # n
  BY <1>1, <1>3, <1>4, BoundAssumption DEF Typed, TypeOK, Id
<1>5. CASE \E ask \in Asks : Submit(ask)
  <2> PICK ask \in Asks : Submit(ask)
    BY <1>5
  <2> DEFINE n == sequence + 1
  <2>1. PICK L, S : Handed(L, S, n)
    BY SubmitHanded
  <2>2. i # n
    BY <1>4 DEF Submit
  <2> QED
    BY <1>1, <2>1, <2>2, PumpTold DEF Handed
<1>6. CASE SubmitClosed
  <2>1. i # sequence + 1
    BY <1>4, <1>6 DEF SubmitClosed
  <2> QED
    BY <1>3, <1>6, <2>1 DEF SubmitClosed
<1>7. CASE Failure
  <2> DEFINE refused == {lane[l].inFlight : l \in Blamed}
             S == [j \in Id |-> IF j \in refused THEN "refused" ELSE status[j]]
  <2>1. \E L, hold, streak : Pump(L, req, S, wire, hold, streak, now, wakeAt, "server")
    BY <1>7 DEF Failure
  <2>2. S[i] = status[i]
    BY <1>1 DEF Blamed, Blamable
  <2> HIDE DEF S
  <2> QED
    BY <1>1, <2>1, <2>2, PumpTold
<1>8. CASE MapInfo \/ Dispose
  BY <1>1, <1>2, <1>8 DEF MapInfo, Dispose, Cleared
<1>9. CASE ServerPacket \/ ClientMessage \/ Wake
  <2>1. \E armed, moment : PumpOnly(lane, req, status, wire, armed, moment)
    BY <1>9 DEF ServerPacket, ClientMessage, Wake
  <2> QED
    BY <1>1, <2>1, PumpTold DEF PumpOnly
<1>10. CASE \E k \in Kind : PlayerPacket(k)
  <2> PICK k \in Kind : PlayerPacket(k)
    BY <1>10
  <2> DEFINE S == [j \in Id |-> IF j \in Stale(k) THEN "dropped" ELSE status[j]]
  <2>1. \E L, W : PumpOnly(L, req, S, W, wakeAt, "message")
    BY DEF PlayerPacket
  <2>2. S[i] = status[i]
    BY <1>1, LaneAssumption DEF Stale
  <2> HIDE DEF S
  <2> QED
    BY <1>1, <2>1, <2>2, PumpTold DEF PumpOnly
<1>11. CASE ShotAcknowledgement \/ Tick \/ UNCHANGED vars
  BY <1>11 DEF ShotAcknowledgement, Tick, vars
<1> QED
  BY <1>5, <1>6, <1>7, <1>8, <1>9, <1>10, <1>11 DEF Next

\* No caller is told twice how its request ended, whatever the order of
\* confirmations, deadlines, complaints, map changes and the session's end
\* (onOutcome, "called exactly once, when the journey ends").
THEOREM CallersToldOnce == Spec => ToldOnce
<1>1. Typed /\ [Next]_vars => [\A i \in Id : status[i] \in Outcome => status'[i] = status[i]]_vars
  BY NextTold
<1> QED
  BY <1>1, AlwaysTyped, PTL DEF Spec, ToldOnce

-----------------------------------------------------------------------------
(* Where in the conversation a packet leaves.                              *)

\* What a pump adds to a wire W was waiting in lane s, still wanted, and sent
\* behind one of the client's messages, once the hold was over.
Added(V, W, s, r, hold, moment) ==
  \/ V = W
  \/ \E e : /\ V = Append(W, e)
            /\ e.by \in s.queued /\ ~(now >= r[e.by].expiresAt)
            /\ e.at = now /\ e.map = maps' /\ e.flushing = flushing'
            /\ e.behind = "message" /\ moment = "message"
            /\ now >= hold /\ e.complaints = Len(complaints')

LEMMA PumpAppends ==
  ASSUME NEW L \in [Lane -> LaneState], NEW r, NEW S, NEW W \in [Lane -> Seq(WireEvent)],
         NEW hold, NEW streak, NEW failedAt, NEW armed, NEW moment,
         Pump(L, r, S, W, hold, streak, failedAt, armed, moment),
         NEW l \in Lane
  PROVE  Added(wire'[l], W[l], L[l], r, hold, moment)
<1>1. PICK C : wire'[l] = PumpedWire(W[l], L[l], r, C, hold, moment)
  BY DEF Pump
<1> DEFINE G == Going(L[l], r, C, hold, moment = "message")
<1>2. CASE G = {}
  BY <1>1, <1>2 DEF PumpedWire, Added
<1>3. CASE G # {}
  <2>1. PICK n : n = CHOOSE i \in G : TRUE
    OBVIOUS
  <2> DEFINE e == [by |-> n, kind |-> r[n].kind, at |-> now, behind |-> moment,
                   flushing |-> flushing', complaints |-> Len(complaints'), map |-> maps']
  <2>2. n \in G
    BY <1>3, <2>1
  <2>3. n \in L[l].queued /\ n \notin Expired(L[l], r)
    BY <2>2, GoingWaits
  <2>4. moment = "message" /\ now >= hold
    BY <2>2 DEF Going
  <2>5. wire'[l] = W[l] \/ wire'[l] = Append(W[l], e)
    BY <1>1, <2>1 DEF PumpedWire
  <2>6. ~(now >= r[n].expiresAt)
    BY <2>3 DEF Expired
  <2>7. /\ e.by = n /\ e.at = now /\ e.map = maps' /\ e.flushing = flushing'
        /\ e.behind = moment /\ e.complaints = Len(complaints')
    OBVIOUS
  <2> HIDE DEF e
  <2> QED
    BY <2>3, <2>4, <2>5, <2>6, <2>7 DEF Added
<1> QED
  BY <1>2, <1>3

\* An event of ours on the wire: of a request already given out, on its map,
\* before its deadline, behind a message and not inside one.
Well(e, r, q) ==
  Ours(e) => /\ e.by <= q /\ e.map = r[e.by].map /\ e.at < r[e.by].expiresAt
             /\ e.behind = "message" /\ ~e.flushing

WireWell(W, r, q) == \A l \in Lane : \A n \in DOMAIN W[l] : Well(W[l][n], r, q)

\* What waits was asked for on the map the player is on.
Current(L, r, m, q) == \A l \in Lane : \A i \in L[l].queued : i <= q /\ r[i].map = m

\* A pump takes nothing new on.
LEMMA PumpShrinks ==
  ASSUME NEW L \in [Lane -> LaneState], NEW r, NEW S, NEW W, NEW hold, NEW streak,
         NEW failedAt, NEW armed, NEW moment, now \in Nat,
         Pump(L, r, S, W, hold, streak, failedAt, armed, moment),
         NEW l \in Lane, \A i \in L[l].queued : r[i] \in Request
  PROVE  lane'[l].queued \subseteq L[l].queued
<1>1. PICK C : lane'[l] = PumpedLane(L[l], r, C, hold, moment = "message")
  BY DEF Pump
<1>2. L[l] \in LaneState /\ \A i \in L[l].queued : r[i] \in Request
  OBVIOUS
<1> DEFINE t == PumpedLane(L[l], r, C, hold, moment = "message")
<1>3. CASE t = Rested(L[l], r, C)
  BY <1>1, <1>2, <1>3, RestedType
<1>4. ASSUME NEW n \in L[l].queued, t = Dispatched(L[l], r, n)
      PROVE  t.queued \subseteq L[l].queued
  BY <1>2, <1>4, DispatchedType
<1>5. t = Rested(L[l], r, C) \/ \E n \in L[l].queued : t = Dispatched(L[l], r, n)
  BY <1>2, PumpedLaneCases
<1> QED
  BY <1>1, <1>3, <1>4, <1>5

LEMMA PumpWell ==
  ASSUME NEW L \in [Lane -> LaneState], NEW r, NEW S, NEW W \in [Lane -> Seq(WireEvent)],
         NEW hold, NEW streak, NEW failedAt, NEW armed, NEW moment, NEW q,
         \A l \in Lane : \A i \in L[l].queued : r[i] \in Request,
         now \in Nat, moment = "message" => flushing' = FALSE,
         Current(L, r, maps', q), WireWell(W, r, q),
         Pump(L, r, S, W, hold, streak, failedAt, armed, moment)
  PROVE  Current(lane', r, maps', q) /\ WireWell(wire', r, q)
<1>0. \A l \in Lane : Added(wire'[l], W[l], L[l], r, hold, moment)
  BY PumpAppends
<1>1. \A l \in Lane : lane'[l].queued \subseteq L[l].queued
  BY PumpShrinks
<1>2. ASSUME NEW l \in Lane, NEW n \in DOMAIN wire'[l] PROVE Well(wire'[l][n], r, q)
  <2>1. W[l] \in Seq(WireEvent) /\ \A m \in DOMAIN W[l] : Well(W[l][m], r, q)
    BY DEF WireWell
  <2>2. CASE wire'[l] = W[l]
    BY <1>2, <2>1, <2>2
  <2>3. ASSUME NEW e, wire'[l] = Append(W[l], e),
               e.by \in L[l].queued, ~(now >= r[e.by].expiresAt), e.at = now, e.map = maps',
               e.flushing = flushing', e.behind = "message", moment = "message"
        PROVE  Well(wire'[l][n], r, q)
    <3>1. r[e.by].expiresAt \in Int
      BY <2>3 DEF Request
    <3>2. Well(e, r, q)
      BY <2>3, <3>1 DEF Well, Current
    <3>3. (n \in DOMAIN W[l] /\ wire'[l][n] = W[l][n]) \/ wire'[l][n] = e
      BY <1>2, <2>1, <2>3
    <3> QED
      BY <2>1, <3>2, <3>3
  <2> QED
    BY <1>0, <2>2, <2>3 DEF Added
<1> QED
  BY <1>1, <1>2 DEF Current, WireWell

Placement == WireWell(wire, req, sequence) /\ Current(lane, req, maps, sequence)

LEMMA NextWell == Typed /\ Placement /\ [Next]_vars => Placement'
<1> SUFFICES ASSUME Typed, Placement, [Next]_vars PROVE Placement'
  OBVIOUS
<1>1. /\ now \in Nat /\ sequence \in Nat /\ lane \in [Lane -> LaneState]
      /\ wire \in [Lane -> Seq(WireEvent)]
      /\ \A l \in Lane : \A i \in lane[l].queued : i \in Id /\ req[i] \in Request
      /\ \A l \in Lane : lane[l] \in LaneState /\ wire[l] \in Seq(WireEvent)
  BY DEF Typed, TypeOK, Placed, LaneState
<1>2. WireWell(wire, req, sequence) /\ Current(lane, req, maps, sequence)
  BY DEF Placement
<1>3. \A l \in Lane : \A n \in DOMAIN wire[l] :
        Ours(wire[l][n]) => wire[l][n].by \in Id /\ wire[l][n].by <= sequence
  <2> TAKE l \in Lane
  <2> TAKE n \in DOMAIN wire[l]
  <2>1. wire[l][n] \in WireEvent /\ Well(wire[l][n], req, sequence)
    BY <1>1, <1>2 DEF WireWell
  <2> QED
    BY <2>1 DEF Well, WireEvent, Ours
<1>4. CASE \E ask \in Asks : Submit(ask)
  <2> PICK ask \in Asks : Submit(ask)
    BY <1>4
  <2> DEFINE n == sequence + 1
  <2>1. PICK L, S : Handed(L, S, n)
    BY SubmitHanded
  <2>2. /\ maps' = maps /\ flushing' = flushing /\ n \in Id /\ sequence' = n
        /\ L \in [Lane -> LaneState]
        /\ \A l \in Lane : \A i \in L[l].queued : req'[i] \in Request
    BY <2>1 DEF Submit, observerVars, Handed
  <2>3. \A i \in Id : i <= sequence => req'[i] = req[i]
    BY <1>1, <2>1 DEF Handed, Id
  <2>4. Current(L, req', maps', n)
    <3> SUFFICES ASSUME NEW l \in Lane, NEW i \in L[l].queued
                 PROVE  i <= n /\ req'[i].map = maps
      BY <2>2 DEF Current
    <3>1. CASE i = n
      BY <1>1, <2>1, <3>1 DEF Handed
    <3>2. CASE i # n
      <4>1. i \in lane[l].queued
        BY <2>1, <3>2 DEF Handed
      <4>2. i \in Id /\ i <= sequence /\ req[i].map = maps
        BY <1>1, <1>2, <4>1 DEF Current
      <4> QED
        BY <1>1, <2>3, <4>2 DEF Id
    <3> QED
      BY <3>1, <3>2
  <2>5. WireWell(wire, req', n)
    <3> SUFFICES ASSUME NEW l \in Lane, NEW m \in DOMAIN wire[l], Ours(wire[l][m])
                 PROVE  Well(wire[l][m], req', n)
      BY DEF WireWell, Well
    <3>1. wire[l][m].by \in Id /\ wire[l][m].by <= sequence /\ Well(wire[l][m], req, sequence)
      BY <1>2, <1>3 DEF WireWell
    <3> QED
      BY <1>1, <2>3, <3>1 DEF Well, Id
  <2>6. Pump(L, req', S, wire, holdUntil, failureStreak, lastFailureAt, wakeAt, "plugin")
    BY <2>1 DEF Handed
  <2> HIDE DEF n
  <2>7. "plugin" = "message" => flushing' = FALSE
    OBVIOUS
  <2>8. Current(lane', req', maps', n) /\ WireWell(wire', req', n)
    BY <1>1, <2>2, <2>4, <2>5, <2>6, <2>7, PumpWell
  <2> QED
    BY <2>2, <2>8 DEF Placement
<1>5. CASE SubmitClosed
  <2>1. UNCHANGED <<req, lane, wire, maps>> /\ sequence' = sequence + 1
    BY <1>5 DEF SubmitClosed, observerVars
  <2>2. \A l \in Lane : \A i \in lane[l].queued : i \in Nat
    BY <1>1 DEF Id
  <2>3. Current(lane, req, maps, sequence + 1)
    BY <1>1, <1>2, <2>2 DEF Current
  <2>4. WireWell(wire, req, sequence + 1)
    BY <1>1, <1>2, <1>3 DEF WireWell, Well, Id
  <2> QED
    BY <2>1, <2>3, <2>4 DEF Placement
<1>6. CASE Failure
  <2> DEFINE L == [l \in Lane |->
                     IF l \in Blamed THEN [lane[l] EXCEPT !.inFlight = None] ELSE lane[l]]
  <2>1. /\ \E S, hold, streak : Pump(L, req, S, wire, hold, streak, now, wakeAt, "server")
        /\ UNCHANGED <<sequence, req, maps>>
    BY <1>6 DEF Failure, callerVars
  <2>2. \A l \in Lane : L[l] \in LaneState /\ L[l].queued = lane[l].queued
    BY <1>1 DEF LaneState
  <2>3. L \in [Lane -> LaneState] /\ Current(L, req, maps', sequence)
    BY <1>2, <2>1, <2>2 DEF Current
  <2> HIDE DEF L
  <2>4. "server" = "message" => flushing' = FALSE
    OBVIOUS
  <2>5. Current(lane', req, maps', sequence) /\ WireWell(wire', req, sequence)
    BY <1>1, <1>2, <2>1, <2>2, <2>3, <2>4, PumpWell
  <2> QED
    BY <2>1, <2>5 DEF Placement
<1>7. CASE MapInfo \/ Dispose
  <2>1. Cleared /\ UNCHANGED <<sequence, req, wire>>
    BY <1>7 DEF MapInfo, Dispose, callerVars
  <2>2. \A l \in Lane : lane'[l].queued = {}
    BY <1>1, <2>1 DEF Cleared, LaneState
  <2> QED
    BY <1>2, <2>1, <2>2 DEF Placement, Current
<1>8. CASE ServerPacket \/ ClientMessage \/ Wake
  <2>1. /\ UNCHANGED <<sequence, req, maps>>
        /\ \E armed, moment : /\ PumpOnly(lane, req, status, wire, armed, moment)
                              /\ moment = "message" => flushing' = FALSE
    BY <1>8 DEF ServerPacket, ClientMessage, Wake, callerVars, observerVars
  <2>2. Current(lane', req, maps', sequence) /\ WireWell(wire', req, sequence)
    BY <1>1, <1>2, <2>1, PumpWell DEF PumpOnly
  <2> QED
    BY <2>1, <2>2 DEF Placement
<1>9. CASE \E k \in Kind : PlayerPacket(k)
  <2> PICK k \in Kind : PlayerPacket(k)
    BY <1>9
  <2> DEFINE l == LaneOf[k]
             event == [by |-> None, kind |-> k, at |-> now, behind |-> "message",
                       flushing |-> FALSE, complaints |-> Len(complaints), map |-> maps]
             h == [lane[l] EXCEPT !.lastSent = now, !.spacing = Spacing[k],
                                  !.queued = lane[l].queued \ Stale(k)]
             W == [wire EXCEPT ![l] = Append(wire[l], event)]
  <2>1. /\ \E S : PumpOnly(Heard(k), req, S, W, wakeAt, "message")
        /\ flushing' = FALSE /\ UNCHANGED <<sequence, req, maps>>
    BY DEF PlayerPacket, callerVars
  <2>2. l \in Lane /\ Spacing[k] \in Nat /\ Heard(k) = [lane EXCEPT ![l] = h]
    BY LaneAssumption DEF Heard
  <2>3. event \in WireEvent /\ ~Ours(event)
    BY DEF WireEvent, Ours, Typed, TypeOK, Moment
  <2>4. h \in LaneState /\ h.queued \subseteq lane[l].queued
    <3>1. now \in Int /\ lane[l] \in LaneState
      BY <1>1, <2>2
    <3> DEFINE q == lane[l].queued \ Stale(k)
    <3>2. q \subseteq lane[l].queued /\ q \subseteq Id
      BY <3>1 DEF LaneState
    <3> HIDE DEF q, l
    <3> QED
      BY <2>2, <3>1, <3>2 DEF LaneState
  <2> HIDE DEF event, h, l
  <2>5. /\ Heard(k) \in [Lane -> LaneState]
        /\ \A m \in Lane : Heard(k)[m].queued \subseteq lane[m].queued
    BY <1>1, <2>2, <2>4
  <2>6. W \in [Lane -> Seq(WireEvent)] /\ WireWell(W, req, sequence)
    BY <1>1, <1>2, <2>2, <2>3 DEF WireWell, Well
  <2>7. Current(Heard(k), req, maps', sequence)
    BY <1>2, <2>1, <2>5 DEF Current
  <2> HIDE DEF W
  <2>8. Current(lane', req, maps', sequence) /\ WireWell(wire', req, sequence)
    BY <1>1, <2>1, <2>5, <2>6, <2>7, PumpWell DEF PumpOnly
  <2> QED
    BY <2>1, <2>8 DEF Placement
<1>10. CASE ShotAcknowledgement \/ Tick \/ UNCHANGED vars
  BY <1>2, <1>10 DEF ShotAcknowledgement, Tick, vars, callerVars, observerVars, Placement
<1> QED
  BY <1>4, <1>5, <1>6, <1>7, <1>8, <1>9, <1>10 DEF Next

LEMMA AlwaysPlaced == Spec => []Placement
<1>1. Init => Placement
  BY DEF Init, Placement, WireWell, Current
<1> QED
  BY <1>1, NextWell, AlwaysTyped, PTL DEF Spec

\* A packet of ours only ever directly follows a message of the game client's,
\* never one of its shot acknowledgements, a timer, a server packet or a plugin's
\* call: the order the real client cannot help but produce (clientPacketPassed).
THEOREM OnlyBehindAMessage == Spec => []BehindAMessage
<1>1. Placement => BehindAMessage
  BY DEF Placement, WireWell, Well, BehindAMessage
<1> QED
  BY <1>1, AlwaysPlaced, PTL

\* Whatever the order of map changes, deadlines and messages, a request reaches
\* the server on the map it was asked for and before its deadline (clear,
\* #dropExpired).
THEOREM OnlyWhileWanted == Spec => []StillWanted
<1>1. Placement => StillWanted
  BY DEF Placement, WireWell, Well, StillWanted
<1> QED
  BY <1>1, AlwaysPlaced, PTL

-----------------------------------------------------------------------------
(***************************************************************************)
(* That the lanes are sound: what callers are told agrees with what reached*)
(* the server, a lane has one unanswered packet at a time, no item packet  *)
(* outlives the player's own hands, a lane keeps its cap, the timer its    *)
(* deadlines, and every lane is quiet while a FAILURE asks for it.         *)
(***************************************************************************)

-----------------------------------------------------------------------------
(* The wire against the lanes and the statuses.  A packet of ours on the   *)
(* wire w of lane l is of a request that was told it was sent, or of the   *)
(* one in flight, behind which nothing of ours has gone; and what is in    *)
(* flight is on the wire.                                                  *)

Flown(l, w, s, S, r, q) ==
  /\ \A n \in DOMAIN w : Ours(w[n]) =>
       /\ w[n].by \in Id /\ w[n].by <= q /\ LaneOf[r[w[n].by].kind] = l
       /\ w[n].by \notin s.queued
       /\ S[w[n].by] \in SentOutcome \cup {"open"}
       /\ S[w[n].by] = "open" => /\ s.inFlight = w[n].by
                                 /\ \A m \in DOMAIN w : m > n => ~Ours(w[m])
  /\ s.inFlight # None => \E n \in DOMAIN w : w[n].by = s.inFlight

AllFlown(W, L, S, r, q) == \A l \in Lane : Flown(l, W[l], L[l], S, r, q)

\* Nobody is told of a packet that is on no wire.
AllTold(W, S) ==
  \A i \in Id : S[i] \in SentOutcome => \E l \in Lane : \E n \in DOMAIN W[l] : W[l][n].by = i

\* What a lane is as the pump finds it, what the pump makes of the statuses, and
\* that whoever it tells of a sent packet has it on the wire v.
Waiting(l, s, S, r, q) ==
  /\ \A i \in s.queued : /\ r[i] \in Request /\ i # s.inFlight /\ S[i] = "open"
                         /\ LaneOf[r[i].kind] = l /\ i <= q
  /\ s.inFlight # None => S[s.inFlight] = "open" /\ LaneOf[r[s.inFlight].kind] = l

Telling(l, s, S, T, r, C, hold, moment) ==
  \A i \in Id : /\ S[i] # "open" => T[i] = S[i]
                /\ S[i] = "open" /\ LaneOf[r[i].kind] = l =>
                     T[i] = PumpedStatus(i, "open", s, r, C, hold, moment = "message")

Carried(v, s, T) ==
  \A i \in s.queued \cup ({s.inFlight} \ {None}) :
    T[i] \in SentOutcome => \E n \in DOMAIN v : v[n].by = i

\* One lane through the pump, T being the statuses it leaves.
LEMMA LaneFlies ==
  ASSUME NEW l \in Lane, NEW w \in Seq(WireEvent), NEW s \in LaneState, NEW S, NEW T, NEW r,
         NEW q, NEW C, NEW hold, NEW moment, now \in Nat,
         Waiting(l, s, S, r, q), Telling(l, s, S, T, r, C, hold, moment),
         Flown(l, w, s, S, r, q)
  PROVE  /\ Flown(l, PumpedWire(w, s, r, C, hold, moment),
                  PumpedLane(s, r, C, hold, moment = "message"), T, r, q)
         /\ Carried(PumpedWire(w, s, r, C, hold, moment), s, T)
<1> DEFINE may == moment = "message"
           v == PumpedWire(w, s, r, C, hold, moment)
           t == PumpedLane(s, r, C, hold, may)
           G == Going(s, r, C, hold, may)
<1>0. /\ s.queued \subseteq Id /\ s.inFlight \in Id \cup {None} /\ None \notin Id
      /\ \A i \in s.queued : /\ r[i] \in Request /\ i # s.inFlight /\ i # None /\ i <= q
                             /\ S[i] = "open" /\ LaneOf[r[i].kind] = l
      /\ s.inFlight # None => S[s.inFlight] = "open" /\ LaneOf[r[s.inFlight].kind] = l
  BY NoneAssumption DEF LaneState, Waiting
<1>1. \A i \in s.queued : T[i] =
        IF i \in Expired(s, r) THEN "expired"
        ELSE IF i \in G /\ ~r[i].encodes THEN "dropped"
        ELSE IF i \in G /\ ~r[i].watched THEN "sent" ELSE "open"
  <2> TAKE i \in s.queued
  <2>1. T[i] = PumpedStatus(i, "open", s, r, C, hold, may)
    BY <1>0 DEF Telling
  <2> QED
    BY <1>0, <2>1, QueuedTold
<1>2. s.inFlight # None => T[s.inFlight] =
        IF Landed(s, C) THEN "confirmed" ELSE IF Lapsed(s, C) THEN "unconfirmed" ELSE "open"
  <2> HAVE s.inFlight # None
  <2>1. T[s.inFlight] = PumpedStatus(s.inFlight, "open", s, r, C, hold, may)
    BY <1>0 DEF Telling
  <2> QED
    BY <1>0, <2>1, FlyingTold
<1>3. \A n \in DOMAIN w : Ours(w[n]) =>
        /\ w[n].by \in Id /\ w[n].by <= q /\ LaneOf[r[w[n].by].kind] = l
        /\ w[n].by \notin s.queued /\ T[w[n].by] \in SentOutcome \cup {"open"}
        /\ T[w[n].by] = "open" =>
             /\ s.inFlight = w[n].by /\ ~Free(s, C)
             /\ \A m \in DOMAIN w : m > n => ~Ours(w[m])
  <2> TAKE n \in DOMAIN w
  <2> HAVE Ours(w[n])
  <2>1. /\ w[n].by \in Id /\ w[n].by <= q /\ LaneOf[r[w[n].by].kind] = l
        /\ w[n].by \notin s.queued /\ S[w[n].by] \in SentOutcome \cup {"open"}
        /\ S[w[n].by] = "open" => /\ s.inFlight = w[n].by
                                  /\ \A m \in DOMAIN w : m > n => ~Ours(w[m])
    BY DEF Flown
  <2>2. CASE S[w[n].by] # "open"
    BY <2>1, <2>2 DEF Telling
  <2>3. CASE S[w[n].by] = "open"
    BY <1>0, <1>2, <2>1, <2>3 DEF Free, SentOutcome
  <2> QED
    BY <2>1, <2>2, <2>3
<1>4. s.inFlight # None => \E n \in DOMAIN w : w[n].by = s.inFlight
  BY DEF Flown
<1>5. CASE G = {} /\ t = Rested(s, r, C)
  <2>1. /\ v = w /\ t.queued \subseteq s.queued
        /\ t.inFlight = IF Free(s, C) THEN None ELSE s.inFlight
    BY <1>5, RestedType DEF PumpedWire
  <2>2. Flown(l, v, t, T, r, q)
    BY <1>3, <1>4, <2>1 DEF Flown
  <2>3. \A i \in s.queued : T[i] \notin SentOutcome
    BY <1>1, <1>5 DEF SentOutcome
  <2> QED
    BY <1>4, <2>1, <2>2, <2>3 DEF Carried
<1>6. ASSUME NEW n \in s.queued, G = {n}, (CHOOSE i \in G : TRUE) = n, t = Dispatched(s, r, n)
      PROVE  Flown(l, v, t, T, r, q) /\ Carried(v, s, T)
  <2> DEFINE e == [by |-> n, kind |-> r[n].kind, at |-> now, behind |-> moment,
                   flushing |-> flushing', complaints |-> Len(complaints'), map |-> maps']
  <2>1. /\ t.queued = s.queued \ (Expired(s, r) \cup {n})
        /\ t.inFlight = IF r[n].watched /\ r[n].encodes THEN n ELSE None
    BY <1>0, <1>6, DispatchedType
  <2>2. n \notin Expired(s, r) /\ Free(s, C) /\ r[n].watched \in BOOLEAN /\ r[n].encodes \in BOOLEAN
    BY <1>0, <1>6, GoingWaits DEF Request
  <2>3. \A m \in DOMAIN w : Ours(w[m]) => T[w[m].by] # "open"
    BY <1>3, <2>2
  <2>4. \A m \in DOMAIN w : w[m].by # n
    BY <1>0, <1>3 DEF Ours
  <2>5. \A i \in s.queued \ {n} : T[i] \notin SentOutcome
    BY <1>1, <1>6 DEF SentOutcome
  <2>6. CASE ~r[n].encodes
    <3>1. v = w /\ t.inFlight = None /\ T[n] = "dropped"
      BY <1>1, <1>6, <2>1, <2>2, <2>6 DEF PumpedWire
    <3>2. Flown(l, v, t, T, r, q)
      BY <1>3, <2>1, <2>3, <3>1 DEF Flown
    <3> QED
      BY <1>4, <2>5, <3>1, <3>2 DEF SentOutcome, Carried
  <2>7. CASE r[n].encodes
    <3>1. v = Append(w, e)
      BY <1>6, <2>7 DEF PumpedWire
    <3>2. e.by = n
      OBVIOUS
    <3> HIDE DEF e, v
    <3>3. /\ DOMAIN w = 1..Len(w) /\ DOMAIN v = 1..(Len(w) + 1) /\ Len(w) \in Nat
          /\ v[Len(w) + 1] = e /\ \A m \in DOMAIN w : v[m] = w[m]
      BY <3>1
    <3>4. T[n] = IF ~r[n].watched THEN "sent" ELSE "open"
      BY <1>1, <1>6, <2>2, <2>7
    <3>5. ASSUME NEW m \in DOMAIN v, Ours(v[m])
          PROVE  /\ v[m].by \in Id /\ v[m].by <= q /\ LaneOf[r[v[m].by].kind] = l
                 /\ v[m].by \notin t.queued
                 /\ T[v[m].by] \in SentOutcome \cup {"open"}
                 /\ T[v[m].by] = "open" => /\ t.inFlight = v[m].by
                                           /\ \A k \in DOMAIN v : k > m => ~Ours(v[k])
      <4>1. CASE m \in DOMAIN w
        BY <1>3, <2>1, <2>3, <3>3, <3>5, <4>1
      <4>2. CASE m \notin DOMAIN w
        <5>1. m = Len(w) + 1 /\ v[m].by = n
          BY <3>2, <3>3, <4>2
        <5>2. \A k \in DOMAIN v : ~(k > m)
          BY <3>3, <5>1
        <5> QED
          BY <1>0, <2>1, <2>7, <3>4, <5>1, <5>2 DEF SentOutcome
      <4> QED
        BY <4>1, <4>2
    <3>6. t.inFlight # None => \E m \in DOMAIN v : v[m].by = t.inFlight
      BY <2>1, <3>2, <3>3
    <3>7. Flown(l, v, t, T, r, q)
      BY <3>5, <3>6 DEF Flown
    <3>8. \E m \in DOMAIN v : v[m].by = n
      BY <3>2, <3>3
    <3>9. s.inFlight # None => \E m \in DOMAIN v : v[m].by = s.inFlight
      BY <1>4, <3>3
    <3> QED
      BY <2>5, <3>7, <3>8, <3>9 DEF Carried
  <2> QED
    BY <2>2, <2>6, <2>7
<1> HIDE DEF v, t, G
<1>7. \/ G = {} /\ t = Rested(s, r, C)
      \/ \E n \in s.queued : G = {n} /\ (CHOOSE i \in G : TRUE) = n /\ t = Dispatched(s, r, n)
  BY <1>0, PumpedLaneCases DEF G, t
<1> QED
  BY <1>5, <1>6, <1>7 DEF v, t

\* Every lane through the pump.
LEMMA PumpFlies ==
  ASSUME NEW L \in [Lane -> LaneState], NEW S \in [Id -> Status], NEW r,
         NEW W \in [Lane -> Seq(WireEvent)], NEW hold, NEW streak, NEW failedAt, NEW armed,
         NEW moment, NEW q, now \in Nat, Placed(L, S, r),
         \A l \in Lane : \A i \in L[l].queued : i <= q,
         AllFlown(W, L, S, r, q), AllTold(W, S),
         Pump(L, r, S, W, hold, streak, failedAt, armed, moment)
  PROVE  AllFlown(wire', lane', status', r, q) /\ AllTold(wire', status')
<1>1. PICK C :
        /\ lane' = [l \in Lane |-> PumpedLane(L[l], r, C, hold, moment = "message")]
        /\ wire' = [l \in Lane |-> PumpedWire(W[l], L[l], r, C, hold, moment)]
        /\ status' = [i \in Id |->
             IF S[i] # "open" THEN S[i]
             ELSE PumpedStatus(i, S[i], L[LaneOf[r[i].kind]], r, C, hold, moment = "message")]
  BY DEF Pump
<1>2. ASSUME NEW l \in Lane
      PROVE  Flown(l, wire'[l], lane'[l], status', r, q) /\ Carried(wire'[l], L[l], status')
  <2>1. /\ L[l] \in LaneState /\ W[l] \in Seq(WireEvent) /\ Flown(l, W[l], L[l], S, r, q)
        /\ lane'[l] = PumpedLane(L[l], r, C, hold, moment = "message")
        /\ wire'[l] = PumpedWire(W[l], L[l], r, C, hold, moment)
    BY <1>1 DEF AllFlown
  <2>2. Waiting(l, L[l], S, r, q)
    BY DEF Placed, Waiting
  <2>3. Telling(l, L[l], S, status', r, C, hold, moment)
    BY <1>1 DEF Telling
  <2> QED
    BY <2>1, <2>2, <2>3, LaneFlies
<1>3. AllFlown(wire', lane', status', r, q)
  BY <1>2 DEF AllFlown
<1>4. ASSUME NEW i \in Id, status'[i] \in SentOutcome
      PROVE  \E l \in Lane : \E n \in DOMAIN wire'[l] : wire'[l][n].by = i
  <2>1. CASE S[i] # "open"
    <3>1. S[i] \in SentOutcome
      BY <1>1, <1>4, <2>1
    <3>2. PICK l \in Lane : \E n \in DOMAIN W[l] : W[l][n].by = i
      BY <3>1 DEF AllTold
    <3>3. W[l] \in Seq(WireEvent) /\ Added(wire'[l], W[l], L[l], r, hold, moment)
      BY PumpAppends
    <3>4. \A n \in DOMAIN W[l] : n \in DOMAIN wire'[l] /\ wire'[l][n] = W[l][n]
      BY <3>3 DEF Added
    <3> QED
      BY <3>2, <3>4
  <2>2. CASE S[i] = "open"
    <3> DEFINE l == LaneOf[r[i].kind]
    <3>1. /\ l \in Lane /\ i # None
          /\ i \in L[l].queued \cup ({L[l].inFlight} \ {None})
      BY <2>2, LaneAssumption, NoneAssumption DEF Placed, Request
    <3> QED
      BY <1>2, <1>4, <3>1 DEF Carried
  <2> QED
    BY <2>1, <2>2
<1> QED
  BY <1>3, <1>4 DEF AllTold

Flight == AllFlown(wire, lane, status, req, sequence) /\ AllTold(wire, status)

\* What Typed and Flight say, piece by piece.
LEMMA FlightFacts ==
  ASSUME Typed, Flight
  PROVE  /\ now \in Nat /\ sequence \in Nat /\ status \in [Id -> Status]
         /\ lane \in [Lane -> LaneState] /\ wire \in [Lane -> Seq(WireEvent)]
         /\ \A l \in Lane : \A i \in lane[l].queued : i <= sequence /\ i \in Id
         /\ \A l \in Lane : \A n \in DOMAIN wire[l] : Ours(wire[l][n]) =>
              /\ wire[l][n].by \in Id /\ wire[l][n].by <= sequence
              /\ \A m \in Lane : wire[l][n].by \notin lane[m].queued
<1>1. /\ TypeOK /\ Placed(lane, status, req) /\ Fresh /\ AllFlown(wire, lane, status, req, sequence)
  BY DEF Typed, Flight
<1>2. /\ now \in Nat /\ sequence \in Nat /\ status \in [Id -> Status]
      /\ lane \in [Lane -> LaneState] /\ wire \in [Lane -> Seq(WireEvent)]
  BY <1>1 DEF TypeOK, Status
<1>3. \A l \in Lane : \A i \in lane[l].queued : i <= sequence /\ i \in Id
  BY <1>1, <1>2 DEF Placed, Fresh, LaneState, Id
<1>4. \A l \in Lane : \A n \in DOMAIN wire[l] : Ours(wire[l][n]) =>
        /\ wire[l][n].by \in Id /\ wire[l][n].by <= sequence
        /\ \A m \in Lane : wire[l][n].by \notin lane[m].queued
  BY <1>1 DEF AllFlown, Flown, Placed
<1> QED
  BY <1>2, <1>3, <1>4

LEMMA SubmitFlies ==
  ASSUME Typed, Flight, NEW ask \in Asks, Submit(ask)
  PROVE  Flight'
<1> DEFINE n == sequence + 1
<1>0. Placed(lane, status, req) /\ now \in Nat /\ sequence \in Nat /\ status[n] = "new"
  BY SubmitHanded, FlightFacts DEF Typed, Fresh, Handed
<1>1. PICK L, S : Handed(L, S, n)
  BY SubmitHanded
<1>2. /\ L \in [Lane -> LaneState] /\ S \in [Id -> Status] /\ Placed(L, S, req')
      /\ sequence' = n /\ n \in Id
      /\ \A m \in Lane : L[m].inFlight = lane[m].inFlight /\ L[m].queued \subseteq lane[m].queued \cup {n}
      /\ \A i \in Id \ {n} :
           /\ req'[i] = req[i]
           /\ S[i] = status[i] \/ (S[i] \in UnsentOutcome /\ \E m \in Lane : i \in lane[m].queued)
      /\ S[n] \in {"open", "dropped"}
  BY <1>1 DEF Handed
<1>3. ASSUME NEW l \in Lane PROVE Flown(l, wire[l], L[l], S, req', n)
  <2>1. Flown(l, wire[l], lane[l], status, req, sequence)
    BY DEF Flight, AllFlown
  <2>2. ASSUME NEW m \in DOMAIN wire[l], Ours(wire[l][m])
        PROVE  LET i == wire[l][m].by
               IN /\ i \in Id /\ i # n /\ i <= n /\ req'[i] = req[i] /\ S[i] = status[i]
                  /\ i \notin L[l].queued
    <3>1. /\ wire[l][m].by \in Id /\ wire[l][m].by <= sequence
          /\ \A k \in Lane : wire[l][m].by \notin lane[k].queued
      BY <2>2, FlightFacts
    <3> QED
      BY <1>0, <1>2, <3>1 DEF Id
  <2> HIDE DEF n
  <2> QED
    BY <1>2, <2>1, <2>2 DEF Flown
<1>4. AllTold(wire, S)
  <2> SUFFICES ASSUME NEW i \in Id, S[i] \in SentOutcome
               PROVE  \E l \in Lane : \E m \in DOMAIN wire[l] : wire[l][m].by = i
    BY DEF AllTold
  <2>1. i # n /\ S[i] = status[i]
    BY <1>2 DEF SentOutcome, UnsentOutcome
  <2> QED
    BY <2>1 DEF Flight, AllTold
<1>5. \A l \in Lane : \A i \in L[l].queued : i <= n
  <2> SUFFICES ASSUME NEW l \in Lane, NEW i \in L[l].queued PROVE i <= n
    OBVIOUS
  <2>1. i = n \/ (i <= sequence /\ i \in Id)
    BY <1>2, FlightFacts
  <2> QED
    BY <1>0, <2>1 DEF Id
<1>6. /\ wire \in [Lane -> Seq(WireEvent)] /\ AllFlown(wire, L, S, req', n)
      /\ Pump(L, req', S, wire, holdUntil, failureStreak, lastFailureAt, wakeAt, "plugin")
  BY <1>1, <1>3, FlightFacts DEF Handed, AllFlown
<1> HIDE DEF n
<1>7. AllFlown(wire', lane', status', req', n) /\ AllTold(wire', status')
  BY <1>0, <1>2, <1>4, <1>5, <1>6, PumpFlies
<1> QED
  BY <1>2, <1>7 DEF Flight

LEMMA FailureFlies == ASSUME Typed, Flight, Failure PROVE Flight'
<1> DEFINE L == Spared
           S == Charging
<1>1. /\ \E hold, streak : Pump(L, req, S, wire, hold, streak, now, wakeAt, "server")
      /\ UNCHANGED <<sequence, req>>
  BY DEF Failure, callerVars, Spared, Charging, Charged
<1>2. /\ now \in Nat /\ wire \in [Lane -> Seq(WireEvent)]
      /\ AllFlown(wire, lane, status, req, sequence) /\ AllTold(wire, status)
      /\ \A l \in Lane : \A i \in lane[l].queued : i <= sequence /\ i \in Id
  BY FlightFacts DEF Flight
<1>3. /\ L \in [Lane -> LaneState] /\ S \in [Id -> Status] /\ Placed(L, S, req)
      /\ \A l \in Lane : /\ L[l].queued = lane[l].queued
                         /\ L[l].inFlight = IF l \in Blamed THEN None ELSE lane[l].inFlight
      /\ \A i \in Charged : i \in Id /\ \E l \in Blamed : l \in Lane /\ lane[l].inFlight = i
  BY FailureHanded
<1>4. ASSUME NEW l \in Lane PROVE Flown(l, wire[l], L[l], S, req, sequence)
  <2>1. Flown(l, wire[l], lane[l], status, req, sequence)
    BY <1>2 DEF AllFlown
  <2>2. ASSUME NEW n \in DOMAIN wire[l], Ours(wire[l][n])
        PROVE  LET i == wire[l][n].by
               IN /\ S[i] \in SentOutcome \cup {"open"}
                  /\ S[i] = "open" => status[i] = "open" /\ L[l].inFlight = lane[l].inFlight
    <3> DEFINE i == wire[l][n].by
    <3>1. /\ i \in Id /\ status[i] \in SentOutcome \cup {"open"}
          /\ status[i] = "open" => lane[l].inFlight = i
      BY <2>1, <2>2 DEF Flown
    <3>2. CASE i \in Charged
      BY <3>1, <3>2 DEF Charging, SentOutcome
    <3>3. CASE i \notin Charged
      <4>1. status[i] = "open" => l \notin Blamed
        BY <3>1, <3>3 DEF Charged
      <4> QED
        BY <1>3, <3>1, <3>3, <4>1 DEF Charging
    <3> QED
      BY <3>2, <3>3
  <2> QED
    BY <1>3, <2>1, <2>2 DEF Flown
<1>5. AllTold(wire, S)
  <2> SUFFICES ASSUME NEW i \in Id, S[i] \in SentOutcome
               PROVE  \E l \in Lane : \E n \in DOMAIN wire[l] : wire[l][n].by = i
    BY DEF AllTold
  <2>1. CASE i \in Charged
    <3>1. PICK l \in Lane : lane[l].inFlight = i
      BY <1>3, <2>1
    <3> QED
      BY <1>2, <3>1, NoneAssumption DEF AllFlown, Flown
  <2>2. CASE i \notin Charged
    BY <1>2, <2>2 DEF AllTold, Charging
  <2> QED
    BY <2>1, <2>2
<1>6. AllFlown(wire, L, S, req, sequence)
  BY <1>4 DEF AllFlown
<1> HIDE DEF L, S
<1>7. AllFlown(wire', lane', status', req, sequence) /\ AllTold(wire', status')
  BY <1>1, <1>2, <1>3, <1>5, <1>6, PumpFlies
<1> QED
  BY <1>1, <1>7 DEF Flight

LEMMA ClearedFlies ==
  ASSUME Typed, Flight, Cleared, UNCHANGED <<sequence, req, wire>>
  PROVE  Flight'
<1>1. AllFlown(wire, lane, status, req, sequence) /\ AllTold(wire, status)
  BY DEF Flight
<1>2. \A l \in Lane : lane'[l].queued = {} /\ lane'[l].inFlight = None
  BY FlightFacts DEF Cleared, LaneState
<1>3. ASSUME NEW l \in Lane PROVE Flown(l, wire[l], lane'[l], status', req, sequence)
  <2>1. Flown(l, wire[l], lane[l], status, req, sequence)
    BY <1>1 DEF AllFlown
  <2>2. ASSUME NEW n \in DOMAIN wire[l], Ours(wire[l][n])
        PROVE  status'[wire[l][n].by] \in SentOutcome
    <3> DEFINE i == wire[l][n].by
    <3>1. /\ i \in Id /\ i # None /\ \A m \in Lane : i \notin lane[m].queued
          /\ status[i] \in SentOutcome \cup {"open"}
          /\ status[i] = "open" => lane[l].inFlight = i
      BY <2>1, <2>2, FlightFacts, NoneAssumption DEF Flown
    <3>2. status'[i] = IF i \in Watching(lane) THEN "unconfirmed" ELSE status[i]
      BY <3>1 DEF Cleared
    <3>3. status[i] = "open" => i \in Watching(lane)
      BY <3>1 DEF Watching
    <3> QED
      BY <3>1, <3>2, <3>3 DEF SentOutcome
  <2>3. \A n \in DOMAIN wire[l] : Ours(wire[l][n]) => status'[wire[l][n].by] # "open"
    BY <2>2 DEF SentOutcome
  <2> QED
    BY <1>2, <2>1, <2>2, <2>3 DEF Flown
<1>4. AllTold(wire, status')
  <2> SUFFICES ASSUME NEW i \in Id, status'[i] \in SentOutcome
               PROVE  \E l \in Lane : \E n \in DOMAIN wire[l] : wire[l][n].by = i
    BY DEF AllTold
  <2>1. i \in Watching(lane) \/ status[i] \in SentOutcome
    BY DEF Cleared, SentOutcome
  <2> QED
    BY <1>1, <2>1 DEF AllTold, AllFlown, Flown, Watching
<1>5. AllFlown(wire, lane', status', req, sequence)
  BY <1>3 DEF AllFlown
<1> QED
  BY <1>4, <1>5 DEF Flight

LEMMA PlayerFlies == ASSUME Typed, Flight, NEW k \in Kind, PlayerPacket(k) PROVE Flight'
<1> DEFINE L == Heard(k)
           S == Dropping(k)
           W == Passed(k)
<1>1. /\ Pump(L, req, S, W, holdUntil, failureStreak, lastFailureAt, wakeAt, "message")
      /\ UNCHANGED <<sequence, req>>
  BY DEF PlayerPacket, PumpOnly, callerVars, Dropping, Passed, Event
<1>2. /\ now \in Nat /\ wire \in [Lane -> Seq(WireEvent)]
      /\ AllFlown(wire, lane, status, req, sequence) /\ AllTold(wire, status)
      /\ \A l \in Lane : \A i \in lane[l].queued : i <= sequence /\ i \in Id
  BY FlightFacts DEF Flight
<1>3. /\ L \in [Lane -> LaneState] /\ S \in [Id -> Status] /\ Placed(L, S, req)
      /\ W \in [Lane -> Seq(WireEvent)] /\ ~Ours(Event(k))
      /\ \A l \in Lane : L[l].queued \subseteq lane[l].queued /\ L[l].inFlight = lane[l].inFlight
      /\ \A i \in Stale(k) : ItemLane \in Lane /\ i \in lane[ItemLane].queued
  <2>1. /\ L \in [Lane -> LaneState] /\ S \in [Id -> Status] /\ Placed(L, S, req)
        /\ W \in [Lane -> Seq(WireEvent)]
        /\ \A l \in Lane : L[l].queued = lane[l].queued \ Stale(k) /\ L[l].inFlight = lane[l].inFlight
        /\ \A i \in Stale(k) : i \in lane[ItemLane].queued
    BY PlayerHanded
  <2>2. ItemLane \in Lane /\ ~Ours(Event(k))
    BY LaneAssumption DEF Event, Ours
  <2> HIDE DEF L, S, W
  <2> QED
    BY <2>1, <2>2
<1>4. ASSUME NEW l \in Lane
      PROVE  /\ DOMAIN wire[l] \subseteq DOMAIN W[l]
             /\ \A n \in DOMAIN wire[l] : W[l][n] = wire[l][n]
             /\ \A n \in DOMAIN W[l] : Ours(W[l][n]) => n \in DOMAIN wire[l]
  <2>1. wire[l] \in Seq(WireEvent) /\ (W[l] = wire[l] \/ W[l] = Append(wire[l], Event(k)))
    BY <1>2 DEF Passed
  <2> HIDE DEF W
  <2>2. CASE W[l] = wire[l]
    BY <2>2
  <2>3. CASE W[l] = Append(wire[l], Event(k))
    <3>1. /\ DOMAIN wire[l] = 1..Len(wire[l]) /\ DOMAIN W[l] = 1..(Len(wire[l]) + 1)
          /\ Len(wire[l]) \in Nat /\ W[l][Len(wire[l]) + 1] = Event(k)
          /\ \A n \in DOMAIN wire[l] : W[l][n] = wire[l][n]
      BY <2>1, <2>3
    <3>2. \A n \in DOMAIN W[l] : n \in DOMAIN wire[l] \/ n = Len(wire[l]) + 1
      BY <3>1
    <3> QED
      BY <1>3, <3>1, <3>2
  <2> QED
    BY <2>1, <2>2, <2>3
<1>5. ASSUME NEW l \in Lane PROVE Flown(l, W[l], L[l], S, req, sequence)
  <2>1. Flown(l, wire[l], lane[l], status, req, sequence)
    BY <1>2 DEF AllFlown
  <2>2. \A n \in DOMAIN wire[l] : Ours(wire[l][n]) => S[wire[l][n].by] = status[wire[l][n].by]
    BY <1>3, FlightFacts DEF Dropping
  <2>3. L[l].queued \subseteq lane[l].queued /\ L[l].inFlight = lane[l].inFlight
    BY <1>3
  <2>4. /\ DOMAIN wire[l] \subseteq DOMAIN W[l]
        /\ \A n \in DOMAIN wire[l] : W[l][n] = wire[l][n]
        /\ \A n \in DOMAIN W[l] : Ours(W[l][n]) => n \in DOMAIN wire[l]
    BY <1>4
  <2> HIDE DEF W, L, S
  <2>5. ASSUME NEW n \in DOMAIN W[l], Ours(W[l][n])
        PROVE  /\ W[l][n].by \in Id /\ W[l][n].by <= sequence /\ LaneOf[req[W[l][n].by].kind] = l
               /\ W[l][n].by \notin L[l].queued
               /\ S[W[l][n].by] \in SentOutcome \cup {"open"}
               /\ S[W[l][n].by] = "open" => /\ L[l].inFlight = W[l][n].by
                                            /\ \A m \in DOMAIN W[l] : m > n => ~Ours(W[l][m])
    <3>1. n \in DOMAIN wire[l] /\ W[l][n] = wire[l][n] /\ Ours(wire[l][n])
      BY <2>4, <2>5
    <3>2. /\ wire[l][n].by \in Id /\ wire[l][n].by <= sequence
          /\ LaneOf[req[wire[l][n].by].kind] = l
          /\ wire[l][n].by \notin lane[l].queued /\ status[wire[l][n].by] \in SentOutcome \cup {"open"}
          /\ status[wire[l][n].by] = "open" =>
               /\ lane[l].inFlight = wire[l][n].by
               /\ \A m \in DOMAIN wire[l] : m > n => ~Ours(wire[l][m])
      BY <2>1, <3>1 DEF Flown
    <3>3. (\A m \in DOMAIN wire[l] : m > n => ~Ours(wire[l][m]))
            => \A m \in DOMAIN W[l] : m > n => ~Ours(W[l][m])
      BY <2>4
    <3> QED
      BY <2>2, <2>3, <3>1, <3>2, <3>3
  <2>6. L[l].inFlight # None => \E n \in DOMAIN W[l] : W[l][n].by = L[l].inFlight
    BY <2>1, <2>3, <2>4 DEF Flown
  <2> QED
    BY <2>5, <2>6 DEF Flown
<1>6. AllTold(W, S)
  <2> SUFFICES ASSUME NEW i \in Id, S[i] \in SentOutcome
               PROVE  \E l \in Lane : \E n \in DOMAIN W[l] : W[l][n].by = i
    BY DEF AllTold
  <2>1. S[i] = status[i]
    BY DEF Dropping, SentOutcome
  <2> QED
    BY <1>2, <1>4, <2>1 DEF AllTold
<1>7. AllFlown(W, L, S, req, sequence)
  BY <1>5 DEF AllFlown
<1> HIDE DEF L, S, W
<1>8. AllFlown(wire', lane', status', req, sequence) /\ AllTold(wire', status')
  BY <1>1, <1>2, <1>3, <1>6, <1>7, PumpFlies
<1> QED
  BY <1>1, <1>8 DEF Flight

LEMMA NextFlies == Typed /\ Flight /\ [Next]_vars => Flight'
<1> SUFFICES ASSUME Typed, Flight, [Next]_vars PROVE Flight'
  OBVIOUS
<1>1. AllFlown(wire, lane, status, req, sequence) /\ AllTold(wire, status)
  BY DEF Flight
<1>2. CASE SubmitClosed
  <2> DEFINE n == sequence + 1
  <2>1. /\ UNCHANGED <<req, lane, wire>> /\ sequence' = n
        /\ status' = [status EXCEPT ![n] = "dropped"]
    BY <1>2 DEF SubmitClosed
  <2>2. sequence \in Nat /\ status \in [Id -> Status]
    BY FlightFacts
  <2>3. \A l \in Lane : \A m \in DOMAIN wire[l] : Ours(wire[l][m]) =>
          /\ wire[l][m].by \in Id /\ wire[l][m].by <= n
          /\ status'[wire[l][m].by] = status[wire[l][m].by]
    BY <2>1, <2>2, FlightFacts DEF Id
  <2>4. AllFlown(wire, lane, status', req, n)
    <3> HIDE DEF n
    <3> QED
      BY <1>1, <2>3 DEF AllFlown, Flown
  <2>5. \A i \in Id : status'[i] \in SentOutcome => status[i] \in SentOutcome
    BY <2>1, <2>2 DEF SentOutcome
  <2> QED
    BY <1>1, <2>1, <2>4, <2>5 DEF Flight, AllTold
<1>3. CASE MapInfo \/ Dispose
  BY <1>3, ClearedFlies DEF MapInfo, Dispose, callerVars
<1>4. CASE ServerPacket \/ ClientMessage \/ Wake
  <2>1. /\ UNCHANGED <<sequence, req>>
        /\ \E armed, moment : PumpOnly(lane, req, status, wire, armed, moment)
    BY <1>4 DEF ServerPacket, ClientMessage, Wake, callerVars
  <2>2. Placed(lane, status, req)
    BY DEF Typed
  <2>3. AllFlown(wire', lane', status', req, sequence) /\ AllTold(wire', status')
    BY <1>1, <2>1, <2>2, FlightFacts, PumpFlies DEF PumpOnly
  <2> QED
    BY <2>1, <2>3 DEF Flight
<1>5. CASE ShotAcknowledgement \/ Tick \/ UNCHANGED vars
  BY <1>1, <1>5 DEF ShotAcknowledgement, Tick, vars, callerVars, Flight
<1> QED
  BY <1>2, <1>3, <1>4, <1>5, SubmitFlies, FailureFlies, PlayerFlies DEF Next

-----------------------------------------------------------------------------
(* The lane of items, the caps, and the timer.                             *)

\* Since an item packet of ours on the wire w was asked for, and since one that
\* waits in s was, only packets of ours have gone out in the lane.
Untouched(w, s, r) ==
  /\ \A n \in DOMAIN w : Ours(w[n]) =>
       /\ r[w[n].by] \in Request
       /\ \A m \in DOMAIN w : r[w[n].by].behind < m /\ m < n => Ours(w[m])
  /\ \A i \in s.queued : \A m \in DOMAIN w : r[i].behind < m => Ours(w[m])

AllCapped(L, r) == \A l \in Lane : Capped(L[l].queued, r)

Armed(L, r, wake) ==
  \A l \in Lane :
    /\ \A i \in L[l].queued : wake # None /\ wake <= r[i].expiresAt + WakeEpsilon
    /\ L[l].inFlight # None => wake # None /\ wake <= L[l].deadline + WakeEpsilon

LEMMA CappedShrinks ==
  ASSUME NEW Q \in SUBSET Id, NEW P \in SUBSET Q, NEW r, Capped(Q, r)
  PROVE  Capped(P, r)
<1>0. IsFiniteSet(Id)
  BY BoundAssumption, FS_Interval DEF Id
<1>1. IsFiniteSet(Q)
  BY <1>0, FS_Subset
<1>2. IsFiniteSet(P) /\ Cardinality(P) <= Cardinality(Q)
  BY <1>1, FS_Subset
<1>3. Cardinality(P) \in Nat /\ Cardinality(Q) \in Nat /\ MaxQueuedPerLane \in Nat
  BY <1>1, <1>2, FS_CardinalityType, TuningAssumption
<1> QED
  BY <1>2, <1>3 DEF Capped

\* A timer set anew, or left as it was, is there for every deadline.
LEMMA RearmArms ==
  ASSUME NEW L \in [Lane -> LaneState], NEW r, NEW armed \in Int \cup {None}, now \in Nat,
         \A l \in Lane : \A i \in L[l].queued : r[i] \in Request,
         Rearm(L, r, armed)
  PROVE  Armed(L, r, wakeAt')
<1> DEFINE T == WakeTimes(L, r)
<1>0. WakeEpsilon \in Nat /\ ConfirmPoll \in Nat
  BY TuningAssumption
<1>1. \A l \in Lane : L[l].deadline \in Int /\ \A i \in L[l].queued : r[i].expiresAt \in Int
  BY DEF LaneState, Request
<1>2. \A l \in Lane : Min2(L[l].deadline, now + ConfirmPoll) \in Int
                      /\ Min2(L[l].deadline, now + ConfirmPoll) <= L[l].deadline
  BY <1>0, <1>1 DEF Min2
<1>3. T \subseteq Int
  BY <1>1, <1>2 DEF WakeTimes
<1>4. ASSUME NEW u \in T
      PROVE  wakeAt' # None /\ wakeAt' <= u + WakeEpsilon
  <2>1. PICK t \in Soonest(T) :
          wakeAt' = IF armed # None /\ armed <= t + WakeEpsilon THEN armed ELSE t
    BY <1>4 DEF Rearm
  <2>2. t \in Int /\ u \in Int /\ t <= u
    BY <1>3, <2>1 DEF Soonest
  <2>3. CASE armed # None /\ armed <= t + WakeEpsilon
    BY <1>0, <2>1, <2>2, <2>3
  <2>4. CASE ~(armed # None /\ armed <= t + WakeEpsilon)
    BY <1>0, <2>1, <2>2, <2>4, NoneAssumption
  <2> QED
    BY <2>3, <2>4
<1>5. ASSUME NEW l \in Lane, NEW i \in L[l].queued
      PROVE  wakeAt' # None /\ wakeAt' <= r[i].expiresAt + WakeEpsilon
  <2>1. r[i].expiresAt \in T
    BY DEF WakeTimes
  <2> QED
    BY <1>4, <2>1
<1>6. ASSUME NEW l \in Lane, L[l].inFlight # None
      PROVE  wakeAt' # None /\ wakeAt' <= L[l].deadline + WakeEpsilon
  <2>1. Min2(L[l].deadline, now + ConfirmPoll) \in T
    BY <1>6 DEF WakeTimes
  <2>2. /\ wakeAt' # None
        /\ wakeAt' <= Min2(L[l].deadline, now + ConfirmPoll) + WakeEpsilon
    BY <1>4, <2>1
  <2>3. wakeAt' \in Int
    <3> HIDE DEF Rearm
    <3> QED
      BY <2>2, RearmType
  <2> QED
    BY <1>0, <1>1, <1>2, <2>2, <2>3
<1> QED
  BY <1>5, <1>6 DEF Armed

\* The three through a pump, whichever entry point called it.
LEMMA PumpKeeps ==
  ASSUME NEW L \in [Lane -> LaneState], NEW r, NEW S, NEW W \in [Lane -> Seq(WireEvent)],
         NEW hold, NEW streak, NEW failedAt, NEW armed \in Int \cup {None}, NEW moment,
         \A l \in Lane : \A i \in L[l].queued : r[i] \in Request,
         now \in Nat, lane' \in [Lane -> LaneState],
         Untouched(W[ItemLane], L[ItemLane], r), AllCapped(L, r),
         Pump(L, r, S, W, hold, streak, failedAt, armed, moment)
  PROVE  /\ Untouched(wire'[ItemLane], lane'[ItemLane], r)
         /\ AllCapped(lane', r) /\ Armed(lane', r, wakeAt')
<1>1. \A l \in Lane : /\ lane'[l].queued \subseteq L[l].queued /\ L[l].queued \subseteq Id
                      /\ Added(wire'[l], W[l], L[l], r, hold, moment)
  BY PumpShrinks, PumpAppends DEF LaneState
<1>2. AllCapped(lane', r)
  BY <1>1, CappedShrinks DEF AllCapped
<1>3. \A l \in Lane : \A i \in lane'[l].queued : r[i] \in Request
  BY <1>1
<1>4. Armed(lane', r, wakeAt')
  <2>1. Rearm(lane', r, armed)
    BY DEF Pump
  <2> HIDE DEF Rearm
  <2> QED
    BY <1>3, <2>1, RearmArms
<1>5. Untouched(wire'[ItemLane], lane'[ItemLane], r)
  <2> DEFINE w == W[ItemLane]
             v == wire'[ItemLane]
             s == L[ItemLane]
  <2>1. /\ ItemLane \in Lane /\ w \in Seq(WireEvent) /\ s.queued \subseteq Id
        /\ lane'[ItemLane].queued \subseteq s.queued /\ Added(v, w, s, r, hold, moment)
        /\ \A i \in s.queued : r[i] \in Request
    BY <1>1, LaneAssumption
  <2>2. Untouched(w, s, r)
    OBVIOUS
  <2> HIDE DEF v, w, s
  <2>3. ASSUME v = w PROVE Untouched(v, lane'[ItemLane], r)
    BY <2>1, <2>2, <2>3 DEF Untouched
  <2>4. ASSUME NEW e, v = Append(w, e), e.by \in s.queued
        PROVE  Untouched(v, lane'[ItemLane], r)
    <3>1. /\ DOMAIN w = 1..Len(w) /\ DOMAIN v = 1..(Len(w) + 1) /\ Len(w) \in Nat
          /\ v[Len(w) + 1] = e /\ \A n \in DOMAIN w : v[n] = w[n]
      BY <2>1, <2>4
    <3>2. Ours(e) /\ r[e.by] \in Request
      BY <2>1, <2>4, NoneAssumption DEF Ours
    <3>3. \A n \in DOMAIN v : n \in DOMAIN w \/ n = Len(w) + 1
      BY <3>1
    <3>4. \A i \in s.queued : \A m \in DOMAIN v : r[i].behind < m => Ours(v[m])
      BY <2>2, <3>1, <3>2, <3>3 DEF Untouched
    <3>5. ASSUME NEW n \in DOMAIN v, Ours(v[n])
          PROVE  /\ r[v[n].by] \in Request
                 /\ \A m \in DOMAIN v : r[v[n].by].behind < m /\ m < n => Ours(v[m])
      <4>1. CASE n = Len(w) + 1
        BY <2>4, <3>1, <3>2, <3>4, <4>1
      <4>2. CASE n \in DOMAIN w
        <5>1. \A m \in DOMAIN v : m < n => m \in DOMAIN w
          BY <3>1, <4>2
        <5> QED
          BY <2>2, <3>1, <3>5, <4>2, <5>1 DEF Untouched
      <4> QED
        BY <3>3, <4>1, <4>2
    <3> QED
      BY <2>1, <3>4, <3>5 DEF Untouched
  <2>5. v = w \/ \E e : v = Append(w, e) /\ e.by \in s.queued
    BY <2>1 DEF Added
  <2>6. Untouched(v, lane'[ItemLane], r)
    BY <2>3, <2>4, <2>5
  <2> QED
    BY <2>6 DEF v
<1> QED
  BY <1>2, <1>4, <1>5

Kept == Untouched(wire[ItemLane], lane[ItemLane], req) /\ AllCapped(lane, req)
        /\ Armed(lane, req, wakeAt)

\* What Typed and Flight say that the three rest on.
LEMMA KeptFacts ==
  ASSUME Typed, Flight
  PROVE  /\ now \in Nat /\ lane \in [Lane -> LaneState] /\ wire \in [Lane -> Seq(WireEvent)]
         /\ wakeAt \in Int \cup {None} /\ ItemLane \in Lane
         /\ \A l \in Lane : /\ \A i \in lane[l].queued : i \in Id /\ req[i] \in Request
                            /\ lane[l].queued \in SUBSET Id
         /\ \A n \in DOMAIN wire[ItemLane] : Ours(wire[ItemLane][n]) =>
              wire[ItemLane][n].by \in Id /\ wire[ItemLane][n].by <= sequence
<1>1. TypeOK /\ Placed(lane, status, req)
  BY DEF Typed
<1> QED
  BY <1>1, FlightFacts, LaneAssumption DEF TypeOK, Placed, LaneState

\* Only requests already given out matter to what an item packet was aimed before.
LEMMA UntouchedElsewhere ==
  ASSUME Typed, Flight, Untouched(wire[ItemLane], lane[ItemLane], req),
         NEW r, NEW s \in LaneState, \A i \in Id : i <= sequence => r[i] = req[i],
         NEW n, \A i \in s.queued : i \in lane[ItemLane].queued \/ i = n,
         n \in s.queued => r[n].behind = Len(wire[ItemLane])
  PROVE  Untouched(wire[ItemLane], s, r)
<1> DEFINE w == wire[ItemLane]
<1>1. w \in Seq(WireEvent)
  BY KeptFacts
<1>2. \A k \in DOMAIN w : Ours(w[k]) => w[k].by \in Id /\ w[k].by <= sequence
  BY KeptFacts
<1>3. \A i \in lane[ItemLane].queued : i \in Id /\ i <= sequence
  BY FlightFacts, LaneAssumption
<1> HIDE DEF w
<1>4. \A m \in DOMAIN w : ~(Len(w) < m)
  BY <1>1
<1>5. Untouched(w, lane[ItemLane], req)
  BY DEF w
<1>6. ASSUME NEW k \in DOMAIN w, Ours(w[k])
      PROVE  /\ r[w[k].by] \in Request
             /\ \A m \in DOMAIN w : r[w[k].by].behind < m /\ m < k => Ours(w[m])
  BY <1>2, <1>5, <1>6 DEF Untouched
<1>7. ASSUME NEW i \in s.queued, NEW m \in DOMAIN w, r[i].behind < m PROVE Ours(w[m])
  <2>1. CASE i \in lane[ItemLane].queued
    BY <1>3, <1>5, <1>7, <2>1 DEF Untouched
  <2>2. CASE i = n
    BY <1>4, <1>7, <2>2 DEF w
  <2> QED
    BY <2>1, <2>2
<1>8. Untouched(w, s, r)
  BY <1>6, <1>7 DEF Untouched
<1> QED
  BY <1>8 DEF w

LEMMA SubmitKeeps ==
  ASSUME Typed, Flight, Kept, NEW ask \in Asks, Submit(ask), lane' \in [Lane -> LaneState]
  PROVE  Kept'
<1> DEFINE n == sequence + 1
<1>1. PICK L, S : Handed(L, S, n)
  BY SubmitHanded
<1>2. /\ L \in [Lane -> LaneState] /\ ItemLane \in Lane /\ sequence \in Nat
      /\ Pump(L, req', S, wire, holdUntil, failureStreak, lastFailureAt, wakeAt, "plugin")
      /\ \A m \in Lane : /\ L[m].queued \subseteq lane[m].queued \cup {n}
                         /\ \A i \in L[m].queued : req'[i] \in Request
                         /\ Capped(lane[m].queued, req) => Capped(L[m].queued, req')
      /\ \A i \in Id \ {n} : req'[i] = req[i]
      /\ n \in Id /\ req'[n].behind = Len(wire[LaneOf[req'[n].kind]])
      /\ Placed(L, S, req')
  BY <1>1, LaneAssumption, FlightFacts DEF Handed
<1>3. AllCapped(L, req')
  BY <1>2 DEF Kept, AllCapped
<1>4. Untouched(wire[ItemLane], L[ItemLane], req')
  <2>1. \A i \in Id : i <= sequence => req'[i] = req[i]
    BY <1>2 DEF Id
  <2>2. n \in L[ItemLane].queued => req'[n].behind = Len(wire[ItemLane])
    BY <1>2 DEF Placed
  <2>3. L[ItemLane] \in LaneState /\ \A i \in L[ItemLane].queued : i \in lane[ItemLane].queued \/ i = n
    BY <1>2
  <2> HIDE DEF n
  <2> QED
    BY <2>1, <2>2, <2>3, UntouchedElsewhere DEF Kept
<1> HIDE DEF n
<1>5. /\ Untouched(wire'[ItemLane], lane'[ItemLane], req')
      /\ AllCapped(lane', req') /\ Armed(lane', req', wakeAt')
  BY <1>2, <1>3, <1>4, KeptFacts, PumpKeeps
<1> QED
  BY <1>5 DEF Kept

LEMMA PlayerKeeps ==
  ASSUME Typed, Flight, Kept, NEW k \in Kind, PlayerPacket(k), lane' \in [Lane -> LaneState]
  PROVE  Kept'
<1> DEFINE L == Heard(k)
           W == Passed(k)
<1>1. /\ Pump(L, req, Dropping(k), W, holdUntil, failureStreak, lastFailureAt, wakeAt, "message")
      /\ req' = req
  BY DEF PlayerPacket, PumpOnly, callerVars, Dropping, Passed, Event
<1>2. /\ L \in [Lane -> LaneState] /\ W \in [Lane -> Seq(WireEvent)]
      /\ \A m \in Lane : L[m].queued = lane[m].queued \ Stale(k)
  BY PlayerHanded
<1>3. AllCapped(L, req)
  <2> SUFFICES ASSUME NEW m \in Lane PROVE Capped(L[m].queued, req)
    BY DEF AllCapped
  <2>1. Capped(lane[m].queued, req) /\ lane[m].queued \in SUBSET Id
    BY KeptFacts DEF Kept, AllCapped
  <2>2. L[m].queued \in SUBSET lane[m].queued
    BY <1>2
  <2> QED
    BY <2>1, <2>2, CappedShrinks
<1>4. Untouched(W[ItemLane], L[ItemLane], req)
  <2>1. Untouched(wire[ItemLane], lane[ItemLane], req) /\ wire[ItemLane] \in Seq(WireEvent)
    BY KeptFacts DEF Kept
  <2>2. CASE LaneOf[k] = ItemLane
    <3> DEFINE w == wire[ItemLane]
               v == W[ItemLane]
    <3>1. L[ItemLane].queued = {}
      BY <1>2, <2>2, LaneAssumption DEF Stale
    <3>2. v = Append(w, Event(k)) /\ ~Ours(Event(k))
      BY <2>2, KeptFacts DEF Passed, Ours, Event
    <3> HIDE DEF w, v, W, L
    <3>3. /\ DOMAIN w = 1..Len(w) /\ DOMAIN v = 1..(Len(w) + 1) /\ Len(w) \in Nat
          /\ v[Len(w) + 1] = Event(k) /\ \A n \in DOMAIN w : v[n] = w[n]
      BY <2>1, <3>2 DEF w
    <3>4. ASSUME NEW n \in DOMAIN v, Ours(v[n])
          PROVE  /\ req[v[n].by] \in Request
                 /\ \A m \in DOMAIN v : req[v[n].by].behind < m /\ m < n => Ours(v[m])
      <4>1. n \in DOMAIN w /\ \A m \in DOMAIN v : m < n => m \in DOMAIN w
        BY <3>2, <3>3, <3>4
      <4> QED
        BY <2>1, <3>3, <3>4, <4>1 DEF Untouched, w
    <3>5. Untouched(v, L[ItemLane], req)
      BY <3>1, <3>4 DEF Untouched
    <3> QED
      BY <3>5 DEF v
  <2>3. CASE LaneOf[k] # ItemLane
    <3>1. W[ItemLane] = wire[ItemLane] /\ L[ItemLane].queued = lane[ItemLane].queued
      BY <1>2, <2>3, KeptFacts DEF Stale, Passed
    <3> QED
      BY <2>1, <3>1 DEF Untouched
  <2> QED
    BY <2>2, <2>3
<1>5. \A l \in Lane : \A i \in L[l].queued : req[i] \in Request
  BY <1>2, KeptFacts
<1> HIDE DEF L, W
<1>6. /\ Untouched(wire'[ItemLane], lane'[ItemLane], req)
      /\ AllCapped(lane', req) /\ Armed(lane', req, wakeAt')
  BY <1>1, <1>2, <1>3, <1>4, <1>5, KeptFacts, PumpKeeps
<1> QED
  BY <1>1, <1>6 DEF Kept

LEMMA NextKeeps == Typed /\ Typed' /\ Flight /\ Kept /\ [Next]_vars => Kept'
<1> SUFFICES ASSUME Typed, Typed', Flight, Kept, [Next]_vars PROVE Kept'
  OBVIOUS
<1>0. /\ lane' \in [Lane -> LaneState]
      /\ Untouched(wire[ItemLane], lane[ItemLane], req) /\ AllCapped(lane, req)
      /\ Armed(lane, req, wakeAt)
  BY DEF Typed, TypeOK, Kept
<1>1. CASE SubmitClosed \/ ShotAcknowledgement \/ Tick \/ UNCHANGED vars
  <2>1. UNCHANGED <<wire, lane, req, wakeAt>>
    BY <1>1 DEF SubmitClosed, ShotAcknowledgement, Tick, vars, callerVars
  <2> QED
    BY <1>0, <2>1 DEF Kept
<1>2. CASE Failure
  <2>1. /\ \E hold, streak : Pump(Spared, req, Charging, wire, hold, streak, now, wakeAt, "server")
        /\ req' = req
    BY <1>2 DEF Failure, callerVars, Spared, Charging, Charged
  <2>2. Spared \in [Lane -> LaneState] /\ \A l \in Lane : Spared[l].queued = lane[l].queued
    BY FailureHanded
  <2>3. /\ AllCapped(Spared, req) /\ Untouched(wire[ItemLane], Spared[ItemLane], req)
        /\ \A l \in Lane : \A i \in Spared[l].queued : req[i] \in Request
    BY <1>0, <2>2, KeptFacts DEF AllCapped, Untouched
  <2>4. /\ Untouched(wire'[ItemLane], lane'[ItemLane], req)
        /\ AllCapped(lane', req) /\ Armed(lane', req, wakeAt')
    BY <1>0, <2>1, <2>2, <2>3, KeptFacts, PumpKeeps
  <2> QED
    BY <2>1, <2>4 DEF Kept
<1>3. CASE MapInfo \/ Dispose
  <2>1. Cleared /\ UNCHANGED <<req, wire>>
    BY <1>3 DEF MapInfo, Dispose, callerVars
  <2>2. \A l \in Lane : lane'[l].queued = {} /\ lane'[l].inFlight = None
    BY <2>1, FlightFacts DEF Cleared, LaneState
  <2>3. Armed(lane', req, wakeAt')
    BY <2>2 DEF Armed
  <2>4. AllCapped(lane', req)
    <3> SUFFICES ASSUME NEW l \in Lane PROVE Capped(lane'[l].queued, req)
      BY DEF AllCapped
    <3>1. Capped(lane[l].queued, req) /\ lane[l].queued \in SUBSET Id
      BY <1>0, KeptFacts DEF AllCapped
    <3>2. lane'[l].queued \in SUBSET lane[l].queued
      BY <2>2
    <3> QED
      BY <3>1, <3>2, CappedShrinks
  <2>5. Untouched(wire'[ItemLane], lane'[ItemLane], req)
    BY <1>0, <2>1, <2>2, KeptFacts DEF Untouched
  <2> QED
    BY <2>1, <2>3, <2>4, <2>5 DEF Kept
<1>4. CASE ServerPacket \/ ClientMessage \/ Wake
  <2>1. /\ req' = req
        /\ \E armed \in {wakeAt, None} : \E moment : PumpOnly(lane, req, status, wire, armed, moment)
    BY <1>4 DEF ServerPacket, ClientMessage, Wake, callerVars
  <2>2. /\ Untouched(wire'[ItemLane], lane'[ItemLane], req)
        /\ AllCapped(lane', req) /\ Armed(lane', req, wakeAt')
    BY <1>0, <2>1, KeptFacts, PumpKeeps DEF PumpOnly
  <2> QED
    BY <2>1, <2>2 DEF Kept
<1> QED
  BY <1>0, <1>1, <1>2, <1>3, <1>4, SubmitKeeps, PlayerKeeps DEF Next

\* Whatever the order of submissions, confirmations, complaints, map changes and
\* timers, with every lane table and tuning: callers are told what reached the
\* server, a lane has one unanswered packet at a time, no item packet outlives a
\* move of the player's own, caps and intents hold, and the timer is there for
\* every deadline (submit, pump, clear, #heardFromClient and #arrangeWake together).
THEOREM LanesStaySound == Spec => []LanesAreSound
<1>1. Init => Flight /\ Kept
  <2> SUFFICES ASSUME Init PROVE Flight /\ Kept
    OBVIOUS
  <2>1. \A l \in Lane : wire[l] = <<>> /\ lane[l].queued = {} /\ lane[l].inFlight = None
    BY DEF Init
  <2>2. Flight
    BY <2>1 DEF Init, Flight, AllFlown, Flown, AllTold, SentOutcome
  <2>3. AllCapped(lane, req) /\ Armed(lane, req, wakeAt)
    <3>1. Cardinality({}) <= MaxQueuedPerLane
      BY FS_EmptySet, TuningAssumption
    <3> QED
      BY <2>1, <3>1 DEF AllCapped, Capped, Armed
  <2>4. Untouched(wire[ItemLane], lane[ItemLane], req)
    BY <2>1, LaneAssumption DEF Untouched
  <2> QED
    BY <2>2, <2>3, <2>4 DEF Kept
<1>2. ASSUME Typed, Flight, Kept PROVE LanesAreSound
  <2>1. AllFlown(wire, lane, status, req, sequence) /\ AllTold(wire, status)
    BY <1>2 DEF Flight
  <2>2. \A i \in Id : i # None
    BY NoneAssumption
  <2>3. OutcomeHonest
    BY <2>1, <2>2 DEF OutcomeHonest, OnWire, AllFlown, Flown, AllTold, Ours, SentOutcome, UnsentOutcome
  <2>4. OneAtATime
    BY <2>1 DEF OneAtATime, AllFlown, Flown
  <2>5. BoundedAndDistinct
    BY <1>2 DEF Kept, AllCapped, Capped, BoundedAndDistinct
  <2>6. WakeArmed
    BY <1>2 DEF Kept, Armed, WakeArmed
  <2>7. NoStaleItem
    <3> SUFFICES ASSUME NEW n \in DOMAIN wire[ItemLane], Ours(wire[ItemLane][n]),
                        NEW m \in (req[wire[ItemLane][n].by].behind + 1)..(n - 1)
                 PROVE  Ours(wire[ItemLane][m])
      BY DEF NoStaleItem
    <3>1. /\ req[wire[ItemLane][n].by] \in Request
          /\ \A k \in DOMAIN wire[ItemLane] :
               req[wire[ItemLane][n].by].behind < k /\ k < n => Ours(wire[ItemLane][k])
      BY <1>2 DEF Kept, Untouched
    <3>2. req[wire[ItemLane][n].by].behind \in Nat /\ wire[ItemLane] \in Seq(WireEvent)
      BY <1>2, <3>1, KeptFacts DEF Request
    <3>3. m \in DOMAIN wire[ItemLane] /\ req[wire[ItemLane][n].by].behind < m /\ m < n
      BY <3>2
    <3> QED
      BY <3>1, <3>3
  <2> QED
    BY <2>3, <2>4, <2>5, <2>6, <2>7 DEF LanesAreSound
<1>3. Spec => [](Typed /\ Flight /\ Kept)
  BY <1>1, InitTyped, NextTyped, NextFlies, NextKeeps, PTL DEF Spec
<1> QED
  BY <1>2, <1>3, PTL

-----------------------------------------------------------------------------
(* Quiet after FAILURE.  The queue keeps one number, the end of its hold:  *)
(* it never falls behind what any complaint asked for.                     *)

Quiet(W, c) ==
  \A l \in Lane : \A n \in DOMAIN W[l] : Ours(W[l][n]) =>
    /\ W[l][n].complaints <= Len(c)
    /\ \A k \in 1..W[l][n].complaints : W[l][n].at >= c[k].at + c[k].hold

Outlasts(hold, c) == \A k \in DOMAIN c : c[k].at + c[k].hold <= hold

LEMMA ComplaintsAreTimes ==
  ASSUME NEW c \in Seq([at : Int, hold : Nat])
  PROVE  /\ DOMAIN c = 1..Len(c) /\ Len(c) \in Nat
         /\ \A k \in DOMAIN c : c[k].at \in Int /\ c[k].hold \in Nat
<1> DEFINE R == [at : Int, hold : Nat]
<1>1. \A x \in R : x.at \in Int /\ x.hold \in Nat
  OBVIOUS
<1> HIDE DEF R
<1>2. c \in Seq(R)
  BY DEF R
<1>3. DOMAIN c = 1..Len(c) /\ Len(c) \in Nat /\ \A k \in DOMAIN c : c[k] \in R
  BY <1>2
<1> QED
  BY <1>1, <1>3

LEMMA PumpQuiet ==
  ASSUME NEW L \in [Lane -> LaneState], NEW r, NEW S, NEW W \in [Lane -> Seq(WireEvent)],
         NEW hold \in Int, NEW streak, NEW failedAt, NEW armed, NEW moment, now \in Nat,
         complaints' \in Seq([at : Int, hold : Nat]),
         Quiet(W, complaints'), Outlasts(hold, complaints'),
         Pump(L, r, S, W, hold, streak, failedAt, armed, moment)
  PROVE  Quiet(wire', complaints') /\ Outlasts(holdUntil', complaints')
<1> DEFINE c == complaints'
<1>1. holdUntil' = hold
  BY DEF Pump
<1>2. /\ DOMAIN c = 1..Len(c) /\ Len(c) \in Nat
      /\ \A k \in DOMAIN c : c[k].at \in Int /\ c[k].hold \in Nat
  BY ComplaintsAreTimes
<1>3. Quiet(W, c) /\ Outlasts(hold, c)
  OBVIOUS
<1> HIDE DEF c
<1>4. ASSUME NEW l \in Lane, NEW n \in DOMAIN wire'[l], Ours(wire'[l][n])
      PROVE  /\ wire'[l][n].complaints <= Len(c)
             /\ \A k \in 1..wire'[l][n].complaints : wire'[l][n].at >= c[k].at + c[k].hold
  <2>1. W[l] \in Seq(WireEvent) /\ Added(wire'[l], W[l], L[l], r, hold, moment)
    BY PumpAppends
  <2>2. (n \in DOMAIN W[l] /\ wire'[l][n] = W[l][n])
          \/ (wire'[l][n].at = now /\ now >= hold /\ wire'[l][n].complaints = Len(c))
    <3>1. CASE wire'[l] = W[l]
      BY <1>4, <3>1
    <3>2. ASSUME NEW e, wire'[l] = Append(W[l], e)
          PROVE  (n \in DOMAIN W[l] /\ wire'[l][n] = W[l][n]) \/ wire'[l][n] = e
      BY <1>4, <2>1, <3>2
    <3> QED
      BY <2>1, <3>1, <3>2 DEF Added, c
  <2>3. CASE n \in DOMAIN W[l] /\ wire'[l][n] = W[l][n]
    BY <1>3, <1>4, <2>3 DEF Quiet
  <2>4. CASE wire'[l][n].at = now /\ now >= hold /\ wire'[l][n].complaints = Len(c)
    <3>1. \A k \in 1..Len(c) : now >= c[k].at + c[k].hold
      BY <1>2, <1>3, <2>4 DEF Outlasts
    <3> QED
      BY <1>2, <2>4, <3>1
  <2> QED
    BY <2>2, <2>3, <2>4
<1>5. Quiet(wire', c)
  BY <1>4 DEF Quiet
<1> QED
  BY <1>1, <1>3, <1>5 DEF c

Hushed == Quiet(wire, complaints) /\ Outlasts(holdUntil, complaints)

LEMMA NextHushed == Typed /\ Typed' /\ Hushed /\ [Next]_vars => Hushed'
<1> SUFFICES ASSUME Typed, Typed', Hushed, [Next]_vars PROVE Hushed'
  OBVIOUS
<1>1. /\ Quiet(wire, complaints) /\ Outlasts(holdUntil, complaints)
      /\ now \in Nat /\ holdUntil \in Int /\ lane \in [Lane -> LaneState]
      /\ wire \in [Lane -> Seq(WireEvent)] /\ complaints \in Seq([at : Int, hold : Nat])
      /\ complaints' \in Seq([at : Int, hold : Nat])
  BY DEF Typed, TypeOK, Hushed
<1>2. CASE \E ask \in Asks : Submit(ask)
  <2>1. PICK ask \in Asks : Submit(ask)
    BY <1>2
  <2>2. PICK L, S : Handed(L, S, sequence + 1)
    BY <2>1, SubmitHanded
  <2>3. /\ L \in [Lane -> LaneState] /\ complaints' = complaints
        /\ Pump(L, req', S, wire, holdUntil, failureStreak, lastFailureAt, wakeAt, "plugin")
    BY <2>1, <2>2 DEF Handed, Submit, observerVars
  <2>4. Quiet(wire', complaints') /\ Outlasts(holdUntil', complaints')
    BY <1>1, <2>3, PumpQuiet
  <2> QED
    BY <2>4 DEF Hushed
<1>3. CASE Failure
  <2>1. PICK asked, streak :
          /\ asked \in Nat
          /\ complaints' = Append(complaints, [at |-> now, hold |-> asked])
          /\ Pump(Spared, req, Charging, wire, Max2(holdUntil, now + asked), streak, now, wakeAt,
                  "server")
    <3> DEFINE n == failureStreak + 1
               asked == Min2(FailureHold * 2^(n - 1), MaxFailureHold)
    <3>1. /\ complaints' = Append(complaints, [at |-> now, hold |-> asked])
          /\ Pump(Spared, req, Charging, wire, Max2(holdUntil, now + asked), n, now, wakeAt,
                  "server")
      BY <1>3 DEF Failure, Spared, Charging, Charged
    <3>2. complaints'[Len(complaints) + 1].hold \in Nat
      <4>1. Len(complaints) + 1 \in DOMAIN complaints'
        <5> HIDE DEF asked
        <5> QED
          BY <1>1, <3>1
      <4> QED
        BY <1>1, <4>1, ComplaintsAreTimes
    <3>3. complaints'[Len(complaints) + 1].hold = asked
      <4> HIDE DEF asked
      <4> QED
        BY <1>1, <3>1
    <3> HIDE DEF asked, n
    <3> QED
      BY <3>1, <3>2, <3>3
  <2>2. /\ Len(complaints') = Len(complaints) + 1 /\ Len(complaints) \in Nat
        /\ DOMAIN complaints' = 1..(Len(complaints) + 1) /\ DOMAIN complaints = 1..Len(complaints)
        /\ complaints'[Len(complaints) + 1] = [at |-> now, hold |-> asked]
        /\ \A k \in DOMAIN complaints : complaints'[k] = complaints[k]
    BY <1>1, <2>1
  <2>3. Max2(holdUntil, now + asked) \in Int /\ holdUntil <= Max2(holdUntil, now + asked)
        /\ now + asked <= Max2(holdUntil, now + asked) /\ now + asked \in Int
    <3>1. asked \in Int /\ now \in Int /\ holdUntil \in Int
      BY <1>1, <2>1
    <3> QED
      BY <3>1 DEF Max2
  <2>4. Outlasts(Max2(holdUntil, now + asked), complaints')
    <3> SUFFICES ASSUME NEW k \in DOMAIN complaints'
                 PROVE  complaints'[k].at + complaints'[k].hold <= Max2(holdUntil, now + asked)
      BY DEF Outlasts
    <3>1. CASE k \in DOMAIN complaints
      <4>1. /\ complaints[k].at + complaints[k].hold <= holdUntil
            /\ complaints[k].at + complaints[k].hold \in Int /\ holdUntil \in Int
        BY <1>1, <3>1, ComplaintsAreTimes DEF Outlasts
      <4>2. complaints'[k] = complaints[k]
        BY <2>2, <3>1
      <4>3. complaints[k].at + complaints[k].hold <= Max2(holdUntil, now + asked)
        BY <2>3, <4>1
      <4> QED
        BY <4>2, <4>3
    <3>2. CASE k = Len(complaints) + 1
      BY <2>2, <2>3, <3>2
    <3> QED
      BY <2>2, <3>1, <3>2
  <2>5. Quiet(wire, complaints')
    <3> SUFFICES ASSUME NEW l \in Lane, NEW n \in DOMAIN wire[l], Ours(wire[l][n])
                 PROVE  /\ wire[l][n].complaints <= Len(complaints')
                        /\ \A k \in 1..wire[l][n].complaints :
                             wire[l][n].at >= complaints'[k].at + complaints'[k].hold
      BY DEF Quiet
    <3>1. /\ wire[l][n].complaints <= Len(complaints)
          /\ \A k \in 1..wire[l][n].complaints :
               wire[l][n].at >= complaints[k].at + complaints[k].hold
      BY <1>1 DEF Quiet
    <3>2. wire[l][n] \in WireEvent
      BY <1>1
    <3>3. wire[l][n].complaints \in Nat
      BY <3>2 DEF WireEvent
    <3> QED
      BY <2>2, <3>1, <3>3
  <2>6. Spared \in [Lane -> LaneState]
    BY FailureHanded
  <2>7. Quiet(wire', complaints') /\ Outlasts(holdUntil', complaints')
    BY <1>1, <2>1, <2>3, <2>4, <2>5, <2>6, PumpQuiet
  <2> QED
    BY <2>7 DEF Hushed
<1>4. CASE \E k \in Kind : PlayerPacket(k)
  <2>1. PICK k \in Kind : PlayerPacket(k)
    BY <1>4
  <2>2. /\ complaints' = complaints
        /\ Pump(Heard(k), req, Dropping(k), Passed(k), holdUntil, failureStreak, lastFailureAt,
                wakeAt, "message")
    BY <2>1 DEF PlayerPacket, PumpOnly, Dropping, Passed, Event
  <2>3. Heard(k) \in [Lane -> LaneState] /\ Passed(k) \in [Lane -> Seq(WireEvent)]
    BY PlayerHanded
  <2>4. Quiet(Passed(k), complaints)
    <3> SUFFICES ASSUME NEW l \in Lane, NEW n \in DOMAIN Passed(k)[l], Ours(Passed(k)[l][n])
                 PROVE  n \in DOMAIN wire[l] /\ Passed(k)[l][n] = wire[l][n]
      BY <1>1 DEF Quiet
    <3>1. /\ wire[l] \in Seq(WireEvent)
          /\ Passed(k)[l] = wire[l] \/ Passed(k)[l] = Append(wire[l], Event(k))
      BY <1>1 DEF Passed
    <3>2. ~Ours(Event(k))
      BY DEF Ours, Event
    <3> QED
      BY <3>1, <3>2
  <2>5. Quiet(wire', complaints') /\ Outlasts(holdUntil', complaints')
    BY <1>1, <2>2, <2>3, <2>4, PumpQuiet
  <2> QED
    BY <2>5 DEF Hushed
<1>5. CASE ServerPacket \/ ClientMessage \/ Wake
  <2>1. /\ complaints' = complaints
        /\ \E armed, moment : PumpOnly(lane, req, status, wire, armed, moment)
    BY <1>5 DEF ServerPacket, ClientMessage, Wake, observerVars
  <2>2. Quiet(wire', complaints') /\ Outlasts(holdUntil', complaints')
    BY <1>1, <2>1, PumpQuiet DEF PumpOnly
  <2> QED
    BY <2>2 DEF Hushed
<1>6. CASE SubmitClosed \/ MapInfo \/ Dispose \/ ShotAcknowledgement \/ Tick \/ UNCHANGED vars
  <2>1. UNCHANGED <<wire, complaints, holdUntil>>
    BY <1>6 DEF SubmitClosed, MapInfo, Dispose, ShotAcknowledgement, Tick, vars, observerVars,
                failureVars
  <2> QED
    BY <1>1, <2>1 DEF Hushed
<1> QED
  BY <1>2, <1>3, <1>4, <1>5, <1>6 DEF Next

\* Every lane is quiet for the whole hold each FAILURE asked for, however many
\* complain, in whatever order with confirmations, the calm that resets the streak
\* and map changes (#onFailure and pump).
THEOREM QuietWhileHeld == Spec => []QuietAfterFailure
<1>1. Init => Hushed
  BY DEF Init, Hushed, Quiet, Outlasts
<1>2. Hushed => QuietAfterFailure
  BY DEF Hushed, Quiet, QuietAfterFailure
<1> QED
  BY <1>1, <1>2, InitTyped, NextTyped, NextHushed, PTL DEF Spec
=============================================================================
