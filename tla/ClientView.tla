----------------------------- MODULE ClientView -----------------------------
(* What the module's frames say of the player, put on a session's clock        *)
(* (native/ClientFrames.ts, native/ClientClock.ts). The session's clock is     *)
(* wall time, which the system may set; clocks are kept relative to what they  *)
(* should show, so a sample is the delay of the frame it came with.            *)
EXTENDS Integers

CONSTANTS CvSessions,
          CvNobody,
          CvDelays,     \* ticks a frame may take from its stamp to here
          CvNudges,     \* by how much the system sets the wall clock
          CvWindow,     \* CLIENT_CLOCK_WINDOW_MS
          CvFresh,      \* CLIENT_POSITION_FRESH_MS
          CvEver,       \* stands for POSITIVE_INFINITY, and bounds every age
          CvMaxNudges   \* bound

ASSUME ClientViewAssumption ==
  /\ CvDelays \subseteq Nat /\ CvDelays # {} /\ CvNudges \subseteq Int
  /\ {CvWindow, CvFresh, CvEver, CvMaxNudges} \subseteq Nat /\ \A d \in CvDelays : d < CvEver

VARIABLES cvSession,   \* #session, or CvNobody
          cvConnected, \* whether its world's clock runs
          cvClock,     \* ClientClock: [known, offset, min, previous, age of the window]
          cvKnown,     \* #playerKnown
          cvAge,       \* the session's clock past #atMs
          cvTrue,      \* ours: how long ago the player really stood there
          cvOf,        \* ours: the session attached when that frame came
          cvCalm, cvNudged,  \* ours: ticks since the system last set the clock, and how often it has
          cvPeriod, cvSpoken \* ours: whether each window so far had a frame, and this tick had one

cvVars == <<cvSession, cvConnected, cvClock, cvKnown, cvAge, cvTrue, cvOf, cvCalm, cvNudged, cvPeriod, cvSpoken>>

CvLeast(a, b) == IF a < b THEN a ELSE b
CvCap(n) == IF n > CvEver THEN CvEver ELSE IF n < -CvEver THEN -CvEver ELSE n
CvLongest == CHOOSE d \in CvDelays : \A e \in CvDelays : e <= d
CvBlank == [known |-> FALSE, offset |-> CvEver, min |-> CvEver, previous |-> CvEver, age |-> 0]

\* observe: the smallest sample of this window and of the one before.
Observe(c, sample) ==
  LET turn  == ~c.known \/ c.age >= CvWindow
      prev  == IF ~turn THEN c.previous ELSE IF c.known THEN c.min ELSE CvEver
      least == CvLeast(IF turn THEN CvEver ELSE c.min, sample)
  IN [known |-> TRUE, offset |-> CvLeast(least, prev), min |-> least, previous |-> prev, age |-> IF turn THEN 0 ELSE c.age]

ClientViewInit ==
  /\ cvSession = CvNobody /\ cvConnected = FALSE /\ cvClock = CvBlank
  /\ cvKnown = FALSE /\ cvAge = 0 /\ cvTrue = 0 /\ cvOf = CvNobody
  /\ cvCalm = CvEver /\ cvNudged = 0 /\ cvPeriod = TRUE /\ cvSpoken = FALSE

\* #forget.
CvForget == cvClock' = CvBlank /\ cvKnown' = FALSE

\* attach: the newest session gets the frames.
CvAttach(s) ==
  /\ cvSession' = s /\ cvConnected' = FALSE /\ CvForget
  /\ UNCHANGED <<cvAge, cvTrue, cvOf, cvCalm, cvNudged, cvPeriod, cvSpoken>>

\* detach: an older session ending leaves the newer one's frames alone.
Detach(s) ==
  IF cvSession # s THEN UNCHANGED <<cvSession, cvConnected, cvClock, cvKnown>>
  ELSE cvSession' = CvNobody /\ cvConnected' = FALSE /\ CvForget

CvDetach(s) == Detach(s) /\ UNCHANGED <<cvAge, cvTrue, cvOf, cvCalm, cvNudged, cvPeriod, cvSpoken>>

\* The server has answered: the session's clock begins.
CvConnects == /\ cvSession # CvNobody /\ ~cvConnected /\ cvConnected' = TRUE
              /\ UNCHANGED <<cvSession, cvClock, cvKnown, cvAge, cvTrue, cvOf, cvCalm, cvNudged, cvPeriod, cvSpoken>>

\* Another module talks, or the same one restarted.
CvReset == /\ cvClock.known /\ CvForget
           /\ UNCHANGED <<cvSession, cvConnected, cvAge, cvTrue, cvOf, cvCalm, cvNudged, cvPeriod, cvSpoken>>

\* accept: a frame that took this long, with the player in it.
CvFrame(delay) ==
  /\ cvSession # CvNobody /\ cvConnected
  /\ \E c \in {Observe(cvClock, delay)} : cvClock' = c /\ cvAge' = CvCap(delay - c.offset)
  /\ cvKnown' = TRUE /\ cvTrue' = delay /\ cvOf' = cvSession /\ cvSpoken' = TRUE
  /\ UNCHANGED <<cvSession, cvConnected, cvCalm, cvNudged, cvPeriod>>

CvTick ==
  /\ cvClock' = [cvClock EXCEPT !.age = CvCap(@ + 1)]
  /\ cvAge' = CvCap(cvAge + 1) /\ cvTrue' = CvCap(cvTrue + 1) /\ cvCalm' = CvCap(cvCalm + 1)
  /\ cvPeriod' = (cvSpoken /\ (cvPeriod \/ cvCalm = 0)) /\ cvSpoken' = FALSE
  /\ UNCHANGED <<cvSession, cvConnected, cvKnown, cvOf, cvNudged>>

\* The system sets the wall clock: every offset kept is off by as much.
CvSet(by) ==
  /\ cvNudged < CvMaxNudges /\ cvNudged' = cvNudged + 1 /\ cvCalm' = 0
  /\ cvClock' = [cvClock EXCEPT !.offset = CvCap(@ - by), !.min = CvCap(@ - by), !.previous = IF @ = CvEver THEN @ ELSE CvCap(@ - by),
                                !.age = CvCap(@ + by)]
  /\ cvAge' = CvCap(cvAge + by)
  /\ UNCHANGED <<cvSession, cvConnected, cvKnown, cvTrue, cvOf, cvPeriod, cvSpoken>>

ClientViewNext ==
  \/ \E s \in CvSessions : CvAttach(s) \/ CvDetach(s)
  \/ CvConnects \/ CvReset \/ CvTick
  \/ \E d \in CvDelays : CvFrame(d)
  \/ \E n \in CvNudges : CvSet(n)

\* playerAt, for a session that asks.
PlayerAt(s) == cvKnown /\ cvSession = s /\ cvAge <= CvFresh

(***************************************************************************)
(* Properties.                                                             *)
(***************************************************************************)

\* What a session is told of its player came while it was the one attached, is
\* no older than a position may be, the longest delay on top, and is never
\* placed in the future, as long as nobody sets the clock.
OwnAndFresh ==
  \A s \in CvSessions : PlayerAt(s) /\ cvNudged = 0 => cvOf = s /\ cvTrue <= CvFresh + CvLongest /\ cvAge <= cvTrue

\* While a frame comes every tick, a clock that was set is followed two windows
\* later: what the client says is put neither before it happened nor more than
\* the longest delay after. Two windows is what the test asks
\* (client-frames.test.ts:36) and what a clock set forward takes, the smallest of
\* the window before being kept; ClientClock.ts:18-21 says one.
FollowedWithinTwo ==
  cvClock.known /\ cvCalm >= 2 * CvWindow /\ cvPeriod /\ cvSpoken => cvClock.offset \in 0 .. CvLongest
=============================================================================
