---------------------------- MODULE ServerSwitch ----------------------------
(* The server the player chose, remembered across connections                 *)
(* (features/serverswitch), against a game client that dials, is moved by the  *)
(* server it plays on, loses its link and falls back on its own settings.      *)
EXTENDS Naturals, TLAPS

CONSTANTS SwServer,      \* game servers
          SwHome,        \* the one the client's own settings name
          SwDown,        \* those that do not answer
          SwNobody,      \* no server chosen yet
          MaxReturnAttempts,
          SwMaxTurns     \* bound: what the player and the servers do of themselves

ASSUME SwitchAssumption ==
  SwHome \in SwServer /\ SwNobody \notin SwServer /\ MaxReturnAttempts \in Nat

VARIABLES swChosen, swFailed,    \* the plugin's `chosen` and `failedReturns`
          swPhase,               \* the client: "dialling", "greeting" or "playing"
          swHost, swSeat,        \* where to, and whether with a key
          swTurns,
          swBounces              \* ours: returns sent at HELLO since one landed

swVars == <<swChosen, swFailed, swPhase, swHost, swSeat, swTurns, swBounces>>

SwitchInit ==
  /\ swChosen = SwNobody /\ swFailed = 0
  /\ swPhase = "dialling" /\ swHost = SwHome /\ swSeat = FALSE
  /\ swTurns = 0 /\ swBounces = 0

SwDial(host, seat) == swPhase' = "dialling" /\ swHost' = host /\ swSeat' = seat
SwTurn == swTurns < SwMaxTurns /\ swTurns' = swTurns + 1

\* The client connects, or goes back to what its settings say.
SwConnect ==
  /\ swPhase = "dialling"
  /\ IF swHost \in SwDown
     THEN swHost # SwHome /\ SwDial(SwHome, FALSE)
     ELSE swPhase' = "greeting" /\ UNCHANGED <<swHost, swSeat>>
  /\ UNCHANGED <<swChosen, swFailed, swTurns, swBounces>>

SwStays == swPhase' = "playing" /\ UNCHANGED <<swHost, swSeat, swTurns>>

\* HELLO, the first packet of every session.
SwArm ==
  /\ swChosen = SwNobody
  /\ swChosen' = swHost /\ SwStays
  /\ UNCHANGED <<swFailed, swBounces>>

SwLanded ==
  /\ swChosen = swHost
  /\ swFailed' = 0 /\ swBounces' = 0 /\ SwStays
  /\ UNCHANGED swChosen

SwSeated ==
  /\ swChosen \notin {SwNobody, swHost} /\ swSeat
  /\ SwStays /\ UNCHANGED <<swChosen, swFailed, swBounces>>

SwGiveUp ==
  /\ swChosen \notin {SwNobody, swHost} /\ ~swSeat /\ swFailed >= MaxReturnAttempts
  /\ swChosen' = SwNobody /\ swFailed' = 0 /\ swBounces' = 0 /\ SwStays

SwReturn ==
  /\ swChosen \notin {SwNobody, swHost} /\ ~swSeat /\ swFailed < MaxReturnAttempts
  /\ swFailed' = swFailed + 1 /\ swBounces' = swBounces + 1
  /\ SwDial(swChosen, FALSE)
  /\ UNCHANGED <<swChosen, swTurns>>

SwHello == swPhase = "greeting" /\ (SwArm \/ SwLanded \/ SwSeated \/ SwGiveUp \/ SwReturn)

\* RECONNECT from the server: one without a key is rewritten to the chosen
\* server, one with a key is a seat.
SwRewritten(host, seat) ==
  IF swChosen # SwNobody /\ host # swChosen /\ ~seat THEN swChosen ELSE host

SwMoved(host, seat) ==
  /\ swPhase = "playing" /\ SwTurn
  /\ SwDial(SwRewritten(host, seat), seat)
  /\ UNCHANGED <<swChosen, swFailed, swBounces>>

\* /con, also to an address nobody knows.
SwCon(host) ==
  /\ swPhase = "playing" /\ SwTurn
  /\ swChosen' = host /\ swFailed' = 0 /\ swBounces' = 0
  /\ SwDial(host, FALSE)

SwLinkLost ==
  /\ swPhase = "playing" /\ SwTurn
  /\ SwDial(SwHome, FALSE)
  /\ UNCHANGED <<swChosen, swFailed, swBounces>>

SwitchNext ==
  \/ SwConnect \/ SwHello \/ SwLinkLost
  \/ \E h \in SwServer: SwCon(h) \/ \E seat \in BOOLEAN: SwMoved(h, seat)

(***************************************************************************)
(* Properties.                                                             *)
(***************************************************************************)

SwitchTypeOK ==
  /\ swChosen \in SwServer \cup {SwNobody} /\ swFailed \in 0..MaxReturnAttempts
  /\ swPhase \in {"dialling", "greeting", "playing"}
  /\ swHost \in SwServer /\ swSeat \in BOOLEAN

\* A character that plays without a seat plays on the server that was chosen, if
\* one is: whoever moved it there, the game, the player or its own settings
\* (serverSwitchPlugin.ts:23-34).
PlaysWhereChosen ==
  swPhase = "playing" /\ ~swSeat /\ swChosen # SwNobody => swHost = swChosen

\* A seat is never dropped: what a server holds a place for is dialled as the
\* server said and played where it was dialled (serverSwitchPlugin.ts:36-40).
SeatNeverDropped ==
  [][(swSeat /\ swPhase = "greeting" /\ swPhase' # "greeting") => swPhase' = "playing"
       /\ swHost' = swHost]_swVars

\* However often the game falls back, no more than the attempts allowed are made
\* between two landings (serverSwitchPlugin.ts:42-45).
BouncesBounded == swBounces <= MaxReturnAttempts

\* Once nobody moves it any more the client comes to rest, a chosen server that
\* is down included.
Travelling == swPhase # "playing"
SwitchLanded == swPhase = "playing" \/ SwHome \in SwDown

(***************************************************************************)
(* Proofs, for any servers, any of them down, and any number of attempts.  *)
(***************************************************************************)

\* Every bounce is one of the failed returns the plugin counts, and these it bounds.
BouncesCounted == swFailed \in 0..MaxReturnAttempts /\ swBounces = swFailed

LEMMA NextPlays == PlaysWhereChosen /\ [SwitchNext]_swVars => PlaysWhereChosen'
<1> SUFFICES ASSUME PlaysWhereChosen, [SwitchNext]_swVars PROVE PlaysWhereChosen'
  OBVIOUS
<1>1. CASE swPhase' = "dialling" \/ swPhase' = "greeting"
  BY <1>1 DEF PlaysWhereChosen
<1>2. CASE SwConnect
  BY <1>1, <1>2 DEF SwConnect, SwDial
<1>3. CASE SwHello
  <2>1. CASE SwArm \/ SwLanded
    BY <2>1 DEF SwArm, SwLanded, SwStays, PlaysWhereChosen
  <2>2. CASE SwSeated
    BY <2>2 DEF SwSeated, SwStays, PlaysWhereChosen
  <2>3. CASE SwGiveUp
    BY <2>3 DEF SwGiveUp, PlaysWhereChosen
  <2>4. CASE SwReturn
    BY <1>1, <2>4 DEF SwReturn, SwDial
  <2> QED
    BY <1>3, <2>1, <2>2, <2>3, <2>4 DEF SwHello
<1>4. CASE SwLinkLost
  BY <1>1, <1>4 DEF SwLinkLost, SwDial
<1>5. ASSUME NEW h \in SwServer, NEW seat \in BOOLEAN, SwCon(h) \/ SwMoved(h, seat)
      PROVE  PlaysWhereChosen'
  BY <1>1, <1>5 DEF SwCon, SwMoved, SwDial
<1>6. CASE UNCHANGED swVars
  BY <1>6 DEF swVars, PlaysWhereChosen
<1> QED
  BY <1>2, <1>3, <1>4, <1>5, <1>6 DEF SwitchNext

LEMMA NextBouncesCounted == BouncesCounted /\ [SwitchNext]_swVars => BouncesCounted'
<1> SUFFICES ASSUME BouncesCounted, [SwitchNext]_swVars PROVE BouncesCounted'
  OBVIOUS
<1>1. CASE UNCHANGED <<swFailed, swBounces>>
  BY <1>1 DEF BouncesCounted
<1>2. CASE swFailed' = 0 /\ swBounces' = 0
  BY <1>2, SwitchAssumption DEF BouncesCounted
<1>3. CASE SwReturn
  BY <1>3, SwitchAssumption DEF SwReturn, BouncesCounted
<1> QED
  BY <1>1, <1>2, <1>3 DEF SwitchNext, SwConnect, SwHello, SwArm, SwLanded, SwSeated, SwGiveUp,
                          SwCon, SwMoved, SwLinkLost, swVars

\* Whoever moves the client, the game, the player or its own settings, and however many
\* returns fail, a character without a seat plays only where it was chosen to
\* (serverSwitchPlugin.ts: HELLO, RECONNECT and /con together).
THEOREM PlaysOnlyWhereChosen == SwitchInit /\ [][SwitchNext]_swVars => []PlaysWhereChosen
<1>1. SwitchInit => PlaysWhereChosen
  BY DEF SwitchInit, PlaysWhereChosen
<1> QED
  BY <1>1, NextPlays, PTL

\* Between two landings the plugin bounces the client no more often than it may, for
\* every number of attempts: it gives the choice up instead.
THEOREM BouncesStayBounded == SwitchInit /\ [][SwitchNext]_swVars => []BouncesBounded
<1>1. SwitchInit => BouncesCounted
  BY SwitchAssumption DEF SwitchInit, BouncesCounted
<1>2. BouncesCounted => BouncesBounded
  BY SwitchAssumption DEF BouncesCounted, BouncesBounded
<1> QED
  BY <1>1, <1>2, NextBouncesCounted, PTL

\* A client that comes with a key plays where it was dialled, chosen or not.
THEOREM SeatsAreKept == SwitchInit /\ [][SwitchNext]_swVars => SeatNeverDropped
<1>1. [SwitchNext]_swVars =>
        [(swSeat /\ swPhase = "greeting" /\ swPhase' # "greeting") => swPhase' = "playing"
           /\ swHost' = swHost]_swVars
  BY DEF SwitchNext, SwConnect, SwHello, SwArm, SwLanded, SwSeated, SwGiveUp, SwReturn, SwStays,
         SwCon, SwMoved, SwLinkLost
<1> QED
  BY <1>1, PTL DEF SeatNeverDropped
=============================================================================
