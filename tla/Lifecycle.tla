----------------------------- MODULE Lifecycle -----------------------------
(* One run of the runtime from its first step to its last: the order things    *)
(* are started and stopped in (Application.ts), the listener that accepts,     *)
(* sniffs and gives sessions (proxy/ProxyServer.ts), the session key           *)
(* (native/SessionKey.ts) and the signals that ask for a stop (main.ts).       *)
EXTENDS Naturals, Sequences, FiniteSets

CONSTANTS Client

VARIABLES startAt,      \* how far start() has come: a stage, "done" or "failed"
          stopAt,       \* how far stop() has come, "not" before it is called
          up,           \* what is started and not stopped
          native,       \* the native side: "off", or its secret is "configured" or "minted"
          key,          \* the published session key is on disk
          listener,     \* "none", "open", or "closed" by close() and not drained
          client,       \* where each connection is
          known,        \* #sessions
          heard,        \* sessions onDisconnected was called for
          crashed,      \* ours: an uncaught error asked for the stop
          early,        \* ours: the stop was asked for before start() was done
          unsniffed,    \* ours: those that were no session at close() and are not gone
          warned        \* ours: whether the "start" or the "stop" of the native side failed

lifeVars == <<startAt, stopAt, up, key, listener, client, known, heard,
              crashed, early, unsniffed, native, warned>>

Stages == <<"files", "preferences", "plugins", "watch", "key">>
After(s) == Stages[(CHOOSE i \in DOMAIN Stages: Stages[i] = s) + 1]
Phase  == {"away", "sniffing", "policy", "session", "gone"}
Connected == {c \in Client: client[c] \in {"sniffing", "policy", "session"}}

LifeInit ==
  /\ startAt = "files" /\ stopAt = "not" /\ up = {} /\ key = FALSE
  /\ listener = "none" /\ client = [c \in Client |-> "away"]
  /\ known = {} /\ heard = {} /\ crashed = FALSE /\ early = FALSE /\ unsniffed = {}
  /\ native \in {"off", "configured", "minted"} /\ warned = {}

(***************************************************************************)
(* start(): one stage per await.                                           *)
(***************************************************************************)

Brings(s) == CASE s = "preferences" -> {"preferences"}
               [] s = "plugins" -> {"plugins"}
               [] s = "watch" -> {"watcher", "overlay", "hotkeys"}
               [] OTHER -> {}

StartStage ==
  /\ startAt \in {"files", "preferences", "plugins", "watch"}
  /\ up' = up \cup Brings(startAt)
  /\ startAt' = After(startAt)
  /\ UNCHANGED <<native, warned, stopAt, key, listener, client, known, heard, crashed, early, unsniffed>>

\* Without a native side there is neither a key to publish nor a pipe.
NoNative ==
  /\ startAt = "key" /\ native = "off"
  /\ startAt' = "listen"
  /\ UNCHANGED <<native, warned, stopAt, up, key, listener, client, known, heard, crashed, early, unsniffed>>

\* A secret that was minted is published before the pipe listens; one that was
\* configured is nowhere on disk.
PublishKey ==
  /\ startAt = "key" /\ native # "off"
  /\ key' = (key \/ native = "minted")
  /\ startAt' = "pipe"
  /\ UNCHANGED <<native, warned, stopAt, up, listener, client, known, heard, crashed, early, unsniffed>>

ListenPipe ==
  /\ startAt = "pipe"
  /\ up' = up \cup {"pipe"}
  /\ startAt' = "listen"
  /\ UNCHANGED <<native, warned, stopAt, key, listener, client, known, heard, crashed, early, unsniffed>>

\* One try is around both: what fails is warned of, the rest of the two is left
\* out and the start goes on. A key that was not written whole may be on disk.
NativeFails ==
  /\ \/ startAt = "key" /\ native = "minted" /\ key' \in {key, TRUE}
     \/ startAt = "pipe" /\ key' = key
  /\ startAt' = "listen" /\ warned' = warned \cup {"start"}
  /\ UNCHANGED <<native, stopAt, up, listener, client, known, heard, crashed, early, unsniffed>>

\* The listener is bound last. Nothing here asks whether a stop has begun.
Listen ==
  /\ startAt = "listen"
  /\ listener' = "open" /\ startAt' = "done"
  /\ UNCHANGED <<native, warned, stopAt, up, key, client, known, heard, crashed, early, unsniffed>>

\* A plugin file that makes loadAll throw, or a port that is taken, rejects
\* start(); nothing that is up is taken down.
StartFails ==
  /\ startAt \in {"plugins", "listen"}
  /\ startAt' = "failed"
  /\ UNCHANGED <<native, warned, stopAt, up, key, listener, client, known, heard, crashed, early, unsniffed>>

(***************************************************************************)
(* Connections.                                                            *)
(***************************************************************************)

Accept(c) ==
  /\ listener = "open" /\ client[c] = "away"
  /\ client' = [client EXCEPT ![c] = "sniffing"]
  /\ UNCHANGED <<native, warned, startAt, stopAt, up, key, listener, known, heard, crashed, early, unsniffed>>

\* The first bytes are a policy probe: answered, and the connection half closed.
Probe(c) ==
  /\ client[c] = "sniffing"
  /\ client' = [client EXCEPT ![c] = "policy"]
  /\ UNCHANGED <<native, warned, startAt, stopAt, up, key, listener, known, heard, crashed, early, unsniffed>>

\* Anything else is a session, whatever has happened to the listener since.
Open(c) ==
  /\ client[c] = "sniffing"
  /\ client' = [client EXCEPT ![c] = "session"]
  /\ known' = known \cup {c}
  /\ UNCHANGED <<native, warned, startAt, stopAt, up, key, listener, heard, crashed, early, unsniffed>>

\* Broken variants: the map is not told, or the listeners are not.
KnownEnded(cs) == /\ client' = [c \in Client |-> IF c \in cs THEN "gone" ELSE client[c]]
                  /\ heard' = heard \cup (cs \cap known)
                  /\ UNCHANGED known

\* onClosed: out of the map, then the listeners.
Ended(cs) == /\ client' = [c \in Client |-> IF c \in cs THEN "gone" ELSE client[c]]
             /\ known' = known \ cs
             /\ heard' = heard \cup (cs \cap {c \in Client: client[c] = "session"})

HangUp(c) ==
  /\ c \in Connected
  /\ Ended({c})
  /\ unsniffed' = unsniffed \ {c}
  /\ UNCHANGED <<native, warned, startAt, stopAt, up, key, listener, crashed, early>>

AskStop(error) ==
  /\ stopAt' = IF stopAt = "not" THEN "evidence" ELSE stopAt
  /\ early' = (early \/ (stopAt = "not" /\ startAt # "done"))
  /\ crashed' = (crashed \/ (error /\ stopAt = "not"))

\* A socket that fails while it is sniffed has no listener for its error: it is
\* uncaught, and main() stops the run. A session's socket has one.
SocketError(c) ==
  /\ c \in Connected
  /\ Ended({c})
  /\ unsniffed' = unsniffed \ {c}
  /\ IF client[c] = "session" THEN UNCHANGED <<stopAt, early, crashed>> ELSE AskStop(TRUE)
  /\ UNCHANGED <<native, warned, startAt, up, key, listener>>

(***************************************************************************)
(* stop(): one stage per await.                                            *)
(***************************************************************************)

Signal == /\ stopAt = "not"
          /\ AskStop(FALSE)
          /\ UNCHANGED <<native, warned, startAt, up, key, listener, client, known, heard, unsniffed>>

\* The census and the measured radii are written before anything that can hang.
StopEvidence ==
  /\ stopAt = "evidence"
  /\ stopAt' = "close"
  /\ UNCHANGED <<native, warned, startAt, up, key, listener, client, known, heard, crashed, early, unsniffed>>

StopCloseAndWait ==
  /\ stopAt = "close"
  /\ stopAt' = "drain"
  /\ listener' = IF listener = "open" THEN "closed" ELSE listener
  /\ unsniffed' = {c \in Client: client[c] \in {"sniffing", "policy"}}
  /\ UNCHANGED <<native, warned, startAt, up, key, client, known, heard, crashed, early>>

\* ProxyServer.close: no more accepting, and every session of the map is closed.
StopClose ==
  /\ stopAt = "close"
  /\ stopAt' = "drain"
  /\ listener' = IF listener = "open" THEN "closed" ELSE listener
  /\ Ended(known)
  /\ unsniffed' = {c \in Client: client[c] \in {"sniffing", "policy"}}
  /\ UNCHANGED <<native, warned, startAt, up, key, crashed, early>>

\* The listener calls back when the last connection has gone. One that was
\* never bound has nothing to wait for.
StopDrained ==
  /\ stopAt = "drain"
  /\ listener = "closed" => Connected = {}
  /\ stopAt' = "dispose"
  /\ UNCHANGED <<native, warned, startAt, up, key, listener, client, known, heard, crashed, early, unsniffed>>

\* Watcher, overlay, hotkeys and plugins go in one synchronous stretch.
StopDispose ==
  /\ stopAt = "dispose"
  /\ stopAt' = "preferences"
  /\ up' = up \ {"watcher", "overlay", "hotkeys", "plugins"}
  /\ UNCHANGED <<native, warned, startAt, key, listener, client, known, heard, crashed, early, unsniffed>>

StopPreferences ==
  /\ stopAt = "preferences"
  /\ stopAt' = "pipe"
  /\ up' = up \ {"preferences"}
  /\ UNCHANGED <<native, warned, startAt, key, listener, client, known, heard, crashed, early, unsniffed>>

StopPipe ==
  /\ stopAt = "pipe"
  /\ stopAt' = "key"
  /\ up' = up \ {"pipe"}
  /\ UNCHANGED <<native, warned, startAt, key, listener, client, known, heard, crashed, early, unsniffed>>

StopKey ==
  /\ stopAt = "key"
  /\ stopAt' = "stopped" /\ key' = FALSE
  /\ UNCHANGED <<native, warned, startAt, up, listener, client, known, heard, crashed, early, unsniffed>>

\* A key that cannot be removed is warned of and stays.
RevokeFails ==
  /\ stopAt = "key" /\ native = "minted"
  /\ stopAt' = "stopped" /\ warned' = warned \cup {"stop"}
  /\ UNCHANGED <<native, startAt, up, key, listener, client, known, heard, crashed, early, unsniffed>>

StopStep == StopEvidence \/ StopClose \/ StopDrained \/ StopDispose
              \/ StopPreferences \/ StopPipe \/ StopKey \/ RevokeFails

LifeNext ==
  \/ StartStage \/ NoNative \/ PublishKey \/ ListenPipe \/ NativeFails \/ Listen \/ StartFails
  \/ \E c \in Client: Accept(c) \/ Probe(c) \/ Open(c) \/ HangUp(c) \/ SocketError(c)
  \/ Signal \/ StopStep

(***************************************************************************)
(* Properties.                                                             *)
(***************************************************************************)

\* Types, and the map of sessions holds exactly the connections that are one:
\* through accepts, ends and a close in any order.
LifeTypeOK ==
  /\ client \in [Client -> Phase]
  /\ listener \in {"none", "open", "closed"}
  /\ known = {c \in Client: client[c] = "session"}
  /\ unsniffed \subseteq Client

\* No connection before what start() awaits: the preferences and every plugin are
\* there, and so is the pipe unless there is no native side or its start failed, which
\* is no reason to refuse to proxy (Application.ts:672-677, 1228-1253).
NothingBeforeReady ==
  Connected # {} /\ stopAt = "not" =>
    /\ {"preferences", "plugins", "watcher", "overlay", "hotkeys"} \subseteq up
    /\ native = "off" \/ "start" \in warned \/ "pipe" \in up

\* A module that connects the moment the pipe appears can authenticate: while the pipe
\* listens, the secret minted for this run is on disk, through starts that fail in the
\* middle and stops, unless the stop overtook the start (Application.ts:1237-1240).
KeyBeforePipe == "pipe" \in up /\ native = "minted" /\ ~early => key

\* A session never outlives the plugins its pipeline calls, one that was sniffed
\* only after close() included, unless the stop overtook the start
\* (ProxyServer.ts:141-147).
SessionsHavePlugins == known # {} /\ ~early => "plugins" \in up

\* Nothing is left of a run that was stopped after it had started: no listener
\* that accepts, no plugin, no pipe, and no key but one whose removal failed
\* (Application.ts:1352, 1498-1508).
StoppedIsStopped ==
  stopAt = "stopped" /\ ~early =>
    /\ up = {} /\ listener # "open" /\ Connected = {}
    /\ key => "stop" \in warned

\* A plugin is told the end of every session it was given, and of nothing else.
EverySessionEndHeard ==
  [][\A c \in Client: client[c] = "session" /\ client'[c] = "gone"
        => c \in heard' /\ c \notin heard]_lifeVars

\* A stop asked for after start() ends, as long as no connection that was not a
\* session when the listener closed stays: close() ends the sessions before it
\* waits (ProxyServer.ts:152-155).
Stopping == stopAt # "not"
Stopped  == stopAt = "stopped" \/ unsniffed # {} \/ early
==============================================================================
