---------------------------- MODULE ProxySession ----------------------------
(***************************************************************************)
(* One proxied connection (apps/runtime/src/proxy/ProxySession.ts): the    *)
(* link to the game client, the link to the game server that the client's  *)
(* first packet opens, the pipeline between them, injection into either,   *)
(* the hold on both, and the end that takes both down.                     *)
(*                                                                         *)
(* A frame that arrives is one action, from the pipeline to the outbound   *)
(* queue's answer to onClientPacketPassed.  What a pipeline stage or the   *)
(* queue may do is a choice: drop, rewrite, rewrite so that it does not    *)
(* encode, send something either way.                                      *)
(***************************************************************************)
EXTENDS SocketTransport, FiniteSets

CONSTANTS
  MaxHeard,    \* bound: frames that arrive from each side
  MaxInjected, \* bound: packets injected outside the handling of a frame
  MaxHolds     \* bound: calls of holdTraffic

Side == {"client", "server"}

\* What a frame carries: the n-th packet of a side; what a stage sends while
\* the client's n-th is handled, or anyone outside a handler after it; what the
\* outbound queue sends behind the client's n-th.
Carriable == [from : {"client", "server", "stage", "behind"}, n : 0..MaxHeard]
Carried(who, n) == [from |-> who, n |-> n]

ASSUME SessionAssumption ==
  /\ {MaxHeard, MaxInjected, MaxHolds} \subseteq Nat
  /\ Carriable \subseteq Load

\* Verdict, and whether the packet was rewritten into something encodePacket
\* throws on.
Verdict == {"forward", "drop", "unencodable"}

VARIABLES
  link,       \* [Side -> Link]: #client, and #server once opened
  opened,     \* #server is defined
  closed,     \* #closed
  told,       \* times onClosed was called
  why,        \* what closed it
  connected,  \* the server's socket has connected
  heard,      \* frames that arrived from each side
  injected, holds,
  hold        \* the hold asked for, and whether both links were there for it

session == <<link, opened, closed, told, why>>
vars == <<link, opened, closed, told, why, connected, heard, injected, holds, hold>>

-----------------------------------------------------------------------------
(* A session as one value, so that the steps of a handler can follow one   *)
(* another in an action.                                                   *)

Why == {"live", "no target", "encoder", "overflow", "peer", "shutdown"}
State == [link : [Side -> Link], opened : BOOLEAN, closed : BOOLEAN, told : Nat, why : Why]

Now == [link |-> link, opened |-> opened, closed |-> closed, told |-> told, why |-> why]

Becomes(S) ==
  /\ link' = S.link /\ opened' = S.opened /\ closed' = S.closed
  /\ told' = S.told /\ why' = S.why

\* close(reason): both links, and the owner told, once.
Shut(S, reason) ==
  IF S.closed THEN S
  ELSE [S EXCEPT !.closed = TRUE, !.told = @ + 1, !.why = reason,
                 !.link = [d \in Side |-> IF d = "server" /\ ~S.opened THEN S.link[d]
                                          ELSE Closed(S.link[d])]]

\* One frame towards side d.  The one that is too many closes the transport,
\* whose error closes the session.
Put(S, d, x) ==
  {IF M.closed /\ ~S.link[d].closed
   THEN Shut([S EXCEPT !.link[d] = M], "overflow")
   ELSE [S EXCEPT !.link[d] = M] : M \in Sent(S.link[d], x)}

\* #inject: nothing once closed, and nothing towards a server not yet named.
Inject(S, d, x) ==
  IF S.closed \/ (d = "server" /\ ~S.opened) THEN {S} ELSE Put(S, d, x)

\* What the stages do besides the verdict: at most one packet, either way.
Staged(S, n) ==
  {S} \cup UNION {Inject(S, d, Carried("stage", n)) : d \in Side}

\* Broken variant: the cipher has moved on by the time the encoder throws.
HalfForwarded(S, d, x, verdict) ==
  IF verdict = "drop" THEN {S}
  ELSE IF verdict = "unencodable" THEN {[S EXCEPT !.link[d].ciphered = @ + 1]}
  ELSE Put(S, d, x)

\* #forward.  The encoder throws before anything touches the cipher, and
\* PeerLink.#consume, which called us, reports the link the packet came from.
Forwarded(S, d, x, verdict) ==
  IF verdict = "drop" THEN {S}
  ELSE IF verdict = "unencodable" THEN {Shut(S, "encoder")}
  ELSE Put(S, d, x)

\* onClientPacketPassed: the outbound queue may send behind the packet.
Passed(S, n) == {S} \cup Inject(S, "server", Carried("behind", n))

\* Broken variant: the queue answers before the packet is forwarded.
EarlyHandled(S, n, verdict) ==
  UNION {UNION {Forwarded(Q, "server", Carried("client", n), verdict) : Q \in Passed(P, n)} :
           P \in Staged(S, n)}

\* #handleFrame of the client's n-th, once the server's link is there.  An
\* encoder that throws leaves nothing to pass; a session a stage has closed
\* forwards into links that are gone.
Handled(S, n, verdict) ==
  UNION {UNION {IF verdict = "unencodable" THEN {Q} ELSE Passed(Q, n) :
                  Q \in Forwarded(P, "server", Carried("client", n), verdict)} :
           P \in Staged(S, n)}

-----------------------------------------------------------------------------
Init ==
  /\ link = [d \in Side |-> NewLink(d = "server")]
  /\ opened = FALSE /\ closed = FALSE /\ told = 0 /\ why = "live"
  /\ connected = FALSE
  /\ heard = [d \in Side |-> 0]
  /\ injected = 0 /\ holds = 0 /\ hold = "none"

Arrives(d) ==
  /\ ~closed /\ ~Gone(link[d])
  /\ heard[d] < MaxHeard
  /\ heard' = [heard EXCEPT ![d] = @ + 1]

\* The first packet names a server nothing vouches for.
Refuse ==
  /\ Arrives("client") /\ ~opened
  /\ Becomes(Shut(Now, "no target"))
  /\ UNCHANGED <<connected, injected, holds, hold>>

\* A frame from the client; #openServer when it is the first.
ClientFrame ==
  /\ Arrives("client")
  /\ \E verdict \in Verdict :
       \E S \in Handled([Now EXCEPT !.opened = TRUE], heard["client"] + 1, verdict) : Becomes(S)
  /\ UNCHANGED <<connected, injected, holds, hold>>

\* A frame from the server.
ServerFrame ==
  /\ opened /\ connected /\ Arrives("server")
  /\ \E verdict \in Verdict :
       \E P \in Staged(Now, heard["client"]) :
         \E S \in Forwarded(P, "client", Carried("server", heard["server"] + 1), verdict) : Becomes(S)
  /\ UNCHANGED <<connected, injected, holds, hold>>

\* NetServerConnector: the connect listener releases what the window held.
Connected ==
  /\ opened /\ ~connected /\ ~link["server"].destroyed
  /\ connected' = TRUE
  /\ \E M \in Resumed(link["server"]) : link' = [link EXCEPT !["server"] = M]
  /\ UNCHANGED <<opened, closed, told, why, heard, injected, holds, hold>>

\* A plugin, a timer or a command, between frames.
InjectFromOutside(d) ==
  /\ injected < MaxInjected /\ ~closed
  /\ injected' = injected + 1
  /\ \E S \in Inject(Now, d, Carried("stage", heard["client"])) : Becomes(S)
  /\ UNCHANGED <<connected, heard, holds, hold>>

\* Broken variant: a hold of the uplink alone.
HoldUplink ==
  /\ holds < MaxHolds /\ ~closed
  /\ holds' = holds + 1
  /\ link' = [link EXCEPT !["server"] = IF opened THEN Paused(@) ELSE @]
  /\ hold' = IF connected THEN "whole" ELSE "early"
  /\ UNCHANGED <<opened, closed, told, why, connected, heard, injected>>

\* holdTraffic, through ProxyServer.holdTraffic: the live sessions only.
Hold ==
  /\ holds < MaxHolds /\ ~closed
  /\ holds' = holds + 1
  /\ link' = [d \in Side |-> IF d = "server" /\ ~opened THEN link[d] ELSE Paused(link[d])]
  /\ hold' = IF connected THEN "whole" ELSE "early"
  /\ UNCHANGED <<opened, closed, told, why, connected, heard, injected>>

Release ==
  /\ holds < MaxHolds /\ ~closed
  /\ holds' = holds + 1
  /\ hold' = "none"
  /\ \E up \in (IF opened THEN Resumed(link["server"]) ELSE {link["server"]}) :
       \E down \in Resumed(link["client"]) :
         link' = [d \in Side |-> IF d = "server" THEN up ELSE down]
  /\ UNCHANGED <<opened, closed, told, why, connected, heard, injected>>

\* ProxyServer.close
Shutdown ==
  /\ ~closed
  /\ Becomes(Shut(Now, "shutdown"))
  /\ UNCHANGED <<connected, heard, injected, holds, hold>>

\* The sockets.  A drain of one not yet connected waits for the connection.
Drain(d) ==
  /\ link[d].owes /\ ~link[d].destroyed
  /\ d = "server" => connected
  /\ \E M \in Drained(link[d]) : link' = [link EXCEPT ![d] = M]
  /\ UNCHANGED <<opened, closed, told, why, connected, heard, injected, holds, hold>>

SocketDies(d) ==
  /\ d = "server" => opened
  /\ ~link[d].destroyed
  /\ link' = [link EXCEPT ![d].destroyed = TRUE]
  /\ UNCHANGED <<opened, closed, told, why, connected, heard, injected, holds, hold>>

\* An 'error' precedes the 'close' of a socket that failed: #fail.
SocketError(d) ==
  /\ link[d].destroyed /\ ~link[d].closed
  /\ Becomes(Shut(Now, "peer"))
  /\ UNCHANGED <<connected, heard, injected, holds, hold>>

\* Broken variant: nobody listens to the transport's close.
UnheardClose(d) ==
  /\ link[d].destroyed
  /\ link' = [link EXCEPT ![d] = Ended(@)]
  /\ UNCHANGED <<opened, closed, told, why, connected, heard, injected, holds, hold>>

\* A 'close' of either socket ends the session.
SocketClose(d) ==
  /\ link[d].destroyed
  /\ Becomes(Shut([Now EXCEPT !.link[d] = Ended(@)], "peer"))
  /\ UNCHANGED <<connected, heard, injected, holds, hold>>

Next ==
  \/ Refuse \/ ClientFrame \/ ServerFrame \/ Connected
  \/ Hold \/ Release \/ Shutdown
  \/ \E d \in Side : \/ InjectFromOutside(d) \/ Drain(d)
                     \/ SocketDies(d) \/ SocketError(d) \/ SocketClose(d)

Spec == Init /\ [][Next]_vars

\* Node emits 'close' for every socket it destroyed.
FairSpec == Spec /\ \A d \in Side : WF_vars(SocketClose(d))

-----------------------------------------------------------------------------
(* Properties.                                                             *)

TypeOK ==
  /\ Now \in State
  /\ connected \in BOOLEAN
  /\ heard \in [Side -> 0..MaxHeard]
  /\ injected \in 0..MaxInjected /\ holds \in 0..MaxHolds
  /\ hold \in {"none", "early", "whole"}

Carries(d) == Conveyed(link[d])

\* While a link is open every frame enciphered for it is on the wire or waits
\* behind it, each at its own place in the keystream: whatever was dropped,
\* rewritten, injected, held or failed to encode, neither peer loses step.
Unbroken ==
  \A d \in Side : ~Gone(link[d]) =>
    /\ Len(Carries(d)) = link[d].ciphered
    /\ \A i \in DOMAIN Carries(d) : Carries(d)[i].pos = i

\* The order the game server counts on: the client's packets in the order they
\* came, what a stage sent while one was handled ahead of it, and what the
\* outbound queue sent behind one straight behind it, before the next.
Step(x) == CASE x.from = "stage" -> 3 * x.n - 2
             [] x.from = "client" -> 3 * x.n - 1
             [] x.from = "behind" -> 3 * x.n
             [] OTHER -> x.n
InOrder ==
  LET up == Carries("server")
      down == Carries("client")
  IN  /\ \A i, j \in DOMAIN up : i < j /\ up[j].load.from # "stage" =>
           Step(up[i].load) <= Step(up[j].load)
      /\ \A i, j \in DOMAIN down :
           i < j /\ down[i].load.from = "server" /\ down[j].load.from = "server" =>
             down[i].load.n <= down[j].load.n

\* A hold of a connected session stops both directions, whatever drains,
\* injections and frames do meanwhile, and so does the session's end for good.
Still == \A d \in Side : link'[d].wire = link[d].wire
HoldsStill == [][hold = "whole" /\ hold' = "whole" => Still]_vars
EndsStill == [][closed => Still]_vars

\* Neither link outlives the other, and the owner hears of it once.
EndsTogether ==
  IF closed THEN told = 1 /\ \A d \in Side : (d = "server" => opened) => Gone(link[d])
  ELSE told = 0

\* A connection lost on either side takes the session down.
LostEnds == \A d \in Side : link[d].destroyed ~> closed

\* The session's state and both its links, together: neither keystream broken, one
\* end for both.
WholeOrOver == TypeOK /\ Unbroken /\ EndsTogether
StillWhenHeld == HoldsStill /\ EndsStill
=============================================================================
