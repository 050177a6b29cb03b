---------------------------- MODULE PluginRuntime ----------------------------
(* Plugins while they run: the host, their hotkeys, and noclip with its hold. *)
EXTENDS Naturals

------------------------------------------------------------------------------
(* The host of the plugins: loading and unloading, the switch of a plugin and  *)
(* the live settings a key may move, what survives a restart, the dispatch of  *)
(* packets and timers, and the isolation of a plugin that throws               *)
(* (plugins/PluginHost.ts, with the commit rule of SettingsRegistry.ts).       *)

CONSTANTS Plugin,            \* plugin ids
          DefaultOn,         \* those whose meta says enabledByDefault
          SlotsOf,           \* [Plugin -> the slots a key may be bound to]
          Handling,          \* those that subscribed to packets
          Curious,           \* of these, those that hear them while disabled too
          MaxHandlerErrors,
          None

Switch == "switch"           \* the plugin's own switch, SWITCH_SLOT
Armed  == "armed"            \* a boolean setting named as bindable: a live key
Slot   == {Switch, Armed}

ASSUME HostAssumption == /\ SlotsOf \in [Plugin -> SUBSET Slot]
                         /\ DefaultOn \subseteq Plugin
                         /\ Curious \subseteq Handling /\ Handling \subseteq Plugin
                         /\ MaxHandlerErrors \in Nat \ {0}

VARIABLES plugins,           \* #plugins: an entry, or None for one not loaded
          store,             \* the switch as the PluginStore remembers it
          changed            \* onChanged was called and nobody has looked since

hostVars == <<plugins, store, changed>>

State == {"loaded", "enabled", "failed"}
Entry == [state: State, enabled: BOOLEAN, armed: BOOLEAN,
          errors: 0..MaxHandlerErrors, setupFailed: BOOLEAN]

(***************************************************************************)
(* One entry.                                                              *)
(***************************************************************************)

\* A plugin comes back the way it was left, or as it asks to be the first time.
StoredSwitch(p) == IF store[p] = None THEN p \in DefaultOn ELSE store[p]

SetUp(p) == [state |-> IF StoredSwitch(p) THEN "enabled" ELSE "loaded",
             enabled |-> StoredSwitch(p), armed |-> FALSE, errors |-> 0,
             setupFailed |-> FALSE]
Broken   == [state |-> "failed", enabled |-> FALSE, armed |-> FALSE, errors |-> 0,
             setupFailed |-> TRUE]

\* #move: a plugin that is switched on gets a fresh budget of errors.
Moved(e, on) == [e EXCEPT !.enabled = on,
                          !.state   = IF on THEN "enabled" ELSE "loaded",
                          !.errors  = IF on THEN 0 ELSE @]

\* #failed: one more error, and at the limit the plugin is switched off.
Threw(e) == IF e.errors + 1 < MaxHandlerErrors
            THEN [e EXCEPT !.errors = @ + 1]
            ELSE [e EXCEPT !.errors = @ + 1, !.enabled = FALSE, !.state = "failed"]

\* What a delivery asks of an entry: #deliver for packets, the gate of the
\* timers and of #invoke for everything else.
Hears(p, e) == e.state # "failed" /\ (e.enabled \/ p \in Curious)
Runs(e)     == e.state # "failed" /\ e.enabled

(***************************************************************************)
(* The switches a key moves.                                               *)
(***************************************************************************)

IsActive(ps, p, slot) ==
  /\ ps[p] # None /\ slot \in SlotsOf[p] /\ ps[p].enabled
  /\ slot = Armed => ps[p].armed

Movable(ps, p, slot) == ps[p] # None /\ slot \in SlotsOf[p] /\ ~ps[p].setupFailed

\* setActive: on needs both the switch and the setting, off only the setting.
SetActive(ps, p, slot, on) ==
  IF ~Movable(ps, p, slot) THEN ps
  ELSE IF slot = Switch
  THEN IF ps[p].enabled = on THEN ps ELSE [ps EXCEPT ![p] = Moved(@, on)]
  ELSE [ps EXCEPT ![p] =
          [(IF on /\ ~@.enabled THEN Moved(@, TRUE) ELSE @) EXCEPT !.armed = on]]

\* Every path of the host and of the registry that moves an entry ends in onChanged.
Changes(ps) == plugins' = ps /\ changed' = (changed \/ ps # plugins)

(***************************************************************************)
(* Operations.                                                             *)
(***************************************************************************)

Load(p, throws) ==
  /\ plugins[p] = None                       \* a second one is refused with an error
  /\ plugins' = [plugins EXCEPT ![p] = IF throws THEN Broken ELSE SetUp(p)]
  /\ changed' = TRUE
  /\ UNCHANGED store

Unload(p) ==
  /\ plugins[p] # None
  /\ plugins' = [plugins EXCEPT ![p] = None]
  /\ changed' = TRUE
  /\ UNCHANGED store

\* The overlay's switch: refused for a setup that threw, remembered when it moves.
SetEnabled(p, on) ==
  /\ plugins[p] # None /\ ~plugins[p].setupFailed
  /\ plugins[p].enabled # on
  /\ store' = [store EXCEPT ![p] = on]
  /\ Changes([plugins EXCEPT ![p] = Moved(@, on)])

\* The overlay's control of the live setting: committed, never stored.
SetArmed(p, on) ==
  /\ plugins[p] # None /\ Armed \in SlotsOf[p]
  /\ Changes([plugins EXCEPT ![p].armed = on])
  /\ UNCHANGED store

\* One packet offered to every plugin; the handlers of `throwing` throw. Only a
\* plugin that is switched off by it is worth telling the overlay about.
Dispatch(throwing) ==
  LET hit(p) == p \in throwing /\ plugins[p] # None /\ Hears(p, plugins[p])
  IN /\ throwing \subseteq Handling
     /\ \A p \in throwing: hit(p)
     /\ plugins' = [p \in Plugin |-> IF hit(p) THEN Threw(plugins[p]) ELSE plugins[p]]
     /\ changed' = (changed \/ \E p \in throwing: plugins'[p].state = "failed")
     /\ UNCHANGED store

(***************************************************************************)
(* The specification of the host alone.                                    *)
(***************************************************************************)

HostInit ==
  /\ plugins = [p \in Plugin |-> None]
  /\ store = [p \in Plugin |-> None]
  /\ changed = FALSE

(***************************************************************************)
(* Properties.                                                             *)
(***************************************************************************)

\* Types, and what the overlay and the gates rely on together: an entry is
\* enabled exactly when its state says so, whatever order failures, keys,
\* panel and reloads came in.
HostTypeOK ==
  /\ plugins \in [Plugin -> Entry \cup {None}]
  /\ store \in [Plugin -> {None, TRUE, FALSE}]
  /\ changed \in BOOLEAN
  /\ \A p \in Plugin: plugins[p] # None =>
        (plugins[p].enabled <=> plugins[p].state = "enabled")

\* A plugin that runs always has errors left to spend: one that was switched
\* off for failing and is switched on again is not one error from the end
\* (PluginHost.ts:368-375).
FreshBudget ==
  \A p \in Plugin: plugins[p] # None /\ plugins[p].enabled
                     => plugins[p].errors < MaxHandlerErrors

\* A plugin whose setup threw registered nothing: no panel, key or reload order
\* ever runs it (PluginHost.ts:93-104).
NeverHalfLive ==
  \A p \in Plugin: plugins[p] # None /\ plugins[p].setupFailed => ~plugins[p].enabled

------------------------------------------------------------------------------
(* Keys the module saw, moving switches of the host: a toggle flips, a hold    *)
(* overrides and puts back (plugins/PluginHotkeys.ts).                         *)

VARIABLES held,      \* #held: what each live hold found, or None
          linked     \* the module is there

hotkeyVars == <<held, linked>>

Key == {k \in Plugin \X Slot: k[2] \in SlotsOf[k[1]]}

\* `wasOn` is the code's, and so is the order of the map: of the holds of one plugin
\* `last` is the one taken last. `alone` is ours: nobody but the key has moved this
\* plugin since the key went down.
Hold == [wasOn: BOOLEAN, last: BOOLEAN, alone: BOOLEAN]

HotkeysInit == held = [k \in Key |-> None] /\ linked = FALSE

\* Somebody else moved these plugins: the holds on them are not alone any more.
Disturbed(hs, ps) ==
  [k \in Key |-> IF hs[k] # None /\ k[1] \in ps THEN [hs[k] EXCEPT !.alone = FALSE]
                 ELSE hs[k]]

Toggle(p, slot) ==
  /\ linked
  /\ Changes(SetActive(plugins, p, slot, ~IsActive(plugins, p, slot)))
  /\ held' = Disturbed(held, {p})
  /\ UNCHANGED <<store, linked>>

\* The holds of a plugin before another is taken of it.
Earlier(hs, p) ==
  [k \in Key |-> IF hs[k] # None /\ k[1] = p THEN [hs[k] EXCEPT !.last = FALSE] ELSE hs[k]]

\* A second down edge of a key that is held already changes nothing, and a hold
\* of something that cannot be switched is forgotten.
Press(p, slot) ==
  /\ linked
  /\ held[<<p, slot>>] = None
  /\ Movable(plugins, p, slot)
  /\ held' = [Earlier(Disturbed(held, {p}), p) EXCEPT ![<<p, slot>>] =
                [wasOn |-> IsActive(plugins, p, slot), last |-> TRUE, alone |-> TRUE]]
  /\ Changes(SetActive(plugins, p, slot, TRUE))
  /\ UNCHANGED <<store, linked>>

Release(p, slot) ==
  /\ linked
  /\ held[<<p, slot>>] # None
  /\ held' = [Disturbed(held, {p}) EXCEPT ![<<p, slot>>] = None]
  /\ Changes(SetActive(plugins, p, slot, held[<<p, slot>>].wasOn))
  /\ UNCHANGED <<store, linked>>

\* releaseAll: every held switch goes back where its hold found it, two of one
\* plugin in the order they were taken.
PutBackOf(ps, keys) ==
  [p \in Plugin |->
     LET mine == {k \in keys: k[1] = p}
     IN IF mine = {} THEN ps[p]
        ELSE LET k == CHOOSE k \in mine: TRUE
             IN SetActive(ps, p, k[2], held[k].wasOn)[p]]

PutBack(ps) ==
  LET live == {k \in Key: held[k] # None}
  IN PutBackOf(PutBackOf(ps, {k \in live: ~held[k].last}), {k \in live: held[k].last})

ReleaseAll ==
  /\ Changes(PutBack(plugins))
  /\ held' = [k \in Key |-> None]
  /\ UNCHANGED store

(***************************************************************************)
(* Properties.                                                             *)
(***************************************************************************)

HotkeysTypeOK == held \in [Key -> Hold \cup {None}] /\ linked \in BOOLEAN

\* The module that vanishes with a key down leaves no override behind: nothing
\* is left that could say stop (PluginHotkeys.ts:77-82).
NoHoldOutlivesLink == (\E k \in Key: held[k] # None) => linked

\* A hold is an override and not a setting: when one that nobody interfered
\* with ends, by the key, by the link or by the end of the run, its switch is
\* where the hold found it, over any number of repeated presses, failures of
\* other plugins and packets (PluginHotkeys.ts:60-63).
HoldPutsBack ==
  [][\A k \in Key:
       held[k] # None /\ held[k].alone /\ held'[k] = None /\ plugins[k[1]] # None
         => \/ plugins'[k[1]] = None
            \/ IsActive(plugins', k[1], k[2]) = held[k].wasOn]_<<hostVars, hotkeyVars>>

------------------------------------------------------------------------------
(* The plugins as the run has them: the host under the panel of the overlay    *)
(* (overlay/OverlayControlPlane.ts), under the keys (PluginHotkeys.ts) and     *)
(* under the packets, with player-noclip                                       *)
(* (features/noclip) as the plugin whose live setting holds both sockets of    *)
(* every session on a budget of seconds.                                       *)

CONSTANTS Noclip,        \* the plugin whose setting Armed holds the sockets
          Session,
          Budget,        \* holdSeconds
          MaxSeconds,    \* bound: seconds of a hold are told apart up to here
          MaxTurns       \* bound: turns of the panel and the keys

ASSUME RuntimeAssumption == /\ Noclip \in Plugin /\ Armed \in SlotsOf[Noclip]
                            /\ Noclip \notin Handling
                            /\ Budget \in Nat \ {0} /\ MaxSeconds \in Nat /\ MaxSeconds > Budget
                            /\ None \notin Entry \cup Hold \cup Nat

VARIABLES since,         \* seconds since heldSince, or None when there is no hold
          slept,         \* ours: the plugin was disabled at one of those seconds
          session,       \* each session: none, open, or held
          published,     \* #published: what the overlay was last told, or None
          shown,         \* what the module's mirror draws, or None
          turns          \* bound

noclipVars  == <<since, slept, session>>
overlayVars == <<published, shown>>
runtimeVars == <<hostVars, hotkeyVars, noclipVars, overlayVars, turns>>

(***************************************************************************)
(* Noclip: the listener of its setting and its disposer.                   *)
(***************************************************************************)

ArmedIn(ps) == ps[Noclip] # None /\ ps[Noclip].armed

HoldSocket(on) ==
  session' = [s \in Session |-> IF session[s] = "none" THEN "none"
                                ELSE IF on THEN "held" ELSE "open"]

Start == since' = 0 /\ slept' = FALSE /\ HoldSocket(TRUE)
Stop  == since' = None /\ slept' = FALSE /\ HoldSocket(FALSE)

\* #commit tells the listener of a value that changed, and unloading runs the
\* disposer; start and stop do nothing when there is nothing to start or stop.
Follow ==
  IF ArmedIn(plugins') /\ since = None THEN Start
  ELSE IF ~ArmedIn(plugins') /\ since # None THEN Stop
  ELSE UNCHANGED noclipVars

\* The interval of the plugin, which the host runs only while it is enabled; the
\* hold is over once it has lasted so many seconds.
SecondAt(limit) ==
  /\ since # None
  /\ IF Runs(plugins[Noclip]) /\ since + 1 >= limit
     THEN /\ Changes([plugins EXCEPT ![Noclip].armed = FALSE])
          /\ held' = Disturbed(held, {Noclip})
          /\ Stop
     ELSE /\ since' = IF since < MaxSeconds THEN since + 1 ELSE since
          /\ slept' = (slept \/ ~Runs(plugins[Noclip]))
          /\ UNCHANGED <<session, plugins, changed, held>>
  /\ UNCHANGED <<store, linked, overlayVars, turns>>

\* A broken variant: one second too many.
LateSecond == SecondAt(Budget + 1)

Second == SecondAt(Budget)

\* A session that connects during a hold is not held.
Connect(s) ==
  /\ session[s] = "none"
  /\ session' = [session EXCEPT ![s] = "open"]
  /\ UNCHANGED <<hostVars, hotkeyVars, since, slept, overlayVars, turns>>

\* The end of any session ends the hold, through the setting.
Disconnect(s) ==
  /\ session[s] # "none"
  /\ IF since # None
     THEN /\ Changes([plugins EXCEPT ![Noclip].armed = FALSE])
          /\ held' = Disturbed(held, {Noclip})
          /\ since' = None /\ slept' = FALSE
          /\ session' = [t \in Session |-> IF t = s \/ session[t] = "none" THEN "none" ELSE "open"]
     ELSE /\ session' = [session EXCEPT ![s] = "none"]
          /\ UNCHANGED <<plugins, changed, held, since, slept>>
  /\ UNCHANGED <<store, linked, overlayVars, turns>>

(***************************************************************************)
(* The overlay: what it is told and when.                                  *)
(***************************************************************************)

\* The records of one sync, as far as they can differ.
View == [p \in Plugin |-> IF plugins[p] = None THEN None
                          ELSE <<plugins[p].enabled, plugins[p].state, plugins[p].armed>>]

\* publishNow, from the microtask publish() queued: nothing while the module is
\* away, and nothing when it would say what was said last.
Publish ==
  /\ changed
  /\ changed' = FALSE
  /\ IF linked /\ published # View
     THEN published' = View /\ shown' = View
     ELSE UNCHANGED overlayVars
  /\ UNCHANGED <<plugins, store, hotkeyVars, noclipVars, turns>>

\* onConnected: a module that has just connected mirrors nothing.
ModuleConnects ==
  /\ ~linked
  /\ linked' = TRUE /\ shown' = None
  /\ published' = None /\ changed' = TRUE
  /\ UNCHANGED <<plugins, store, held, noclipVars, turns>>

\* The module goes away, with its mirror: the holds of its keys end.
ModuleGoes ==
  /\ linked
  /\ linked' = FALSE /\ shown' = None
  /\ ReleaseAll /\ Follow
  /\ UNCHANGED <<published, turns>>

(***************************************************************************)
(* What the player does, and the packets.                                  *)
(***************************************************************************)

Turn == turns < MaxTurns /\ turns' = turns + 1

Panel(p, on) ==
  /\ linked /\ Turn
  /\ SetEnabled(p, on)
  /\ held' = Disturbed(held, {p})
  /\ UNCHANGED <<linked, noclipVars, overlayVars>>

Control(p, on) ==
  /\ linked /\ Turn
  /\ SetArmed(p, on) /\ Follow
  /\ held' = Disturbed(held, {p})
  /\ UNCHANGED <<linked, overlayVars>>

PressKey(p, slot) ==
  Turn /\ (Toggle(p, slot) \/ Press(p, slot)) /\ Follow /\ UNCHANGED overlayVars

ReleaseKey(p, slot) ==
  Release(p, slot) /\ Follow /\ UNCHANGED <<overlayVars, turns>>

PacketThrows(p) ==
  /\ Turn
  /\ Dispatch({p})
  /\ held' = IF plugins'[p].state = "failed" THEN Disturbed(held, {p}) ELSE held
  /\ UNCHANGED <<linked, noclipVars, overlayVars>>

\* A reload of the file of a plugin, in one step here (see PluginLoader for its
\* parts): whoever was enabled is enabled again, and that is remembered.
Reload(p, throws) ==
  /\ Turn
  /\ plugins[p] # None
  /\ LET was    == plugins[p].enabled
         loaded == IF throws THEN Broken ELSE SetUp(p)
         again  == was /\ ~loaded.setupFailed /\ ~loaded.enabled
     IN /\ plugins' = [plugins EXCEPT ![p] = IF again THEN Moved(loaded, TRUE) ELSE loaded]
        /\ store' = IF again THEN [store EXCEPT ![p] = TRUE] ELSE store
        /\ changed' = TRUE
  /\ Follow
  /\ held' = Disturbed(held, {p})
  /\ UNCHANGED <<linked, overlayVars>>

\* The file of a plugin is gone: unloading runs the disposers.
Delete(p) ==
  /\ Turn
  /\ Unload(p) /\ Follow
  /\ held' = Disturbed(held, {p})
  /\ UNCHANGED <<linked, overlayVars>>

RuntimeInit ==
  /\ HostInit /\ HotkeysInit
  /\ since = None /\ slept = FALSE
  /\ session = [s \in Session |-> "none"]
  /\ published = None /\ shown = None /\ turns = 0

Boot(p, throws) == Load(p, throws) /\ UNCHANGED <<hotkeyVars, noclipVars, overlayVars, turns>>

RuntimeNext ==
  \/ \E p \in Plugin, b \in BOOLEAN:
       Boot(p, b) \/ Panel(p, b) \/ Control(p, b) \/ Reload(p, b)
  \/ \E k \in Key: PressKey(k[1], k[2]) \/ ReleaseKey(k[1], k[2])
  \/ \E p \in Plugin: Delete(p)
  \/ \E p \in Handling: PacketThrows(p)
  \/ \E s \in Session: Connect(s) \/ Disconnect(s)
  \/ Second \/ Publish \/ ModuleConnects \/ ModuleGoes

(***************************************************************************)
(* Properties.                                                             *)
(***************************************************************************)

RuntimeTypeOK ==
  /\ HostTypeOK /\ HotkeysTypeOK
  /\ since \in 0..MaxSeconds \cup {None} /\ slept \in BOOLEAN
  /\ session \in [Session -> {"none", "open", "held"}]

\* The sockets are held for the setting and for nothing else: whatever moved it
\* (a key, the panel, its own clock, the end of a session, a reload, the module
\* going away), a disarmed noclip holds no session and an armed one has its
\* clock running (noclipPlugin.ts:164-202).
HoldFollowsSetting ==
  /\ (since # None) <=> ArmedIn(plugins)
  /\ (\E s \in Session: session[s] = "held") => since # None

\* A hold whose plugin stayed enabled never outlives its budget
\* (noclipPlugin.ts:38-43).
BudgetWhileAwake == since # None /\ ~slept => since < Budget

\* The overlay draws what the host has as soon as nobody is about to tell it
\* otherwise: over disconnects, reconnects, failures and changes that cancel out
\* before the microtask (OverlayControlPlane.ts:95-105).
MirrorsHost == linked /\ ~changed => shown = View

\* A hold of a plugin that stays enabled ends.
HoldCounts == since # None /\ Runs(plugins[Noclip])
HoldIsOver == since = None \/ ~Runs(plugins[Noclip])
==============================================================================
