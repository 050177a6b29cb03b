------------------------------ MODULE MCRuntime ------------------------------
(* The machinery of the runtime, each part on its own: `subject` says which of*)
(* them this behaviour is about.                                              *)
EXTENDS PluginLoader, PreferencesFile, Lifecycle, PluginRuntime, Settings, OverlayMirror,
        OutboundReentry

CONSTANTS Subjects, aim, c1, c2, f1, f2, f3, i1, i2, noclip, s1, s2

VARIABLE subject

MCProvides == [f \in File |-> IF f = f2 THEN i2 ELSE i1]

\* One plugin with a live setting beside its own switch, and one with a switch only.
MCSlotsOf == [p \in Plugin |-> IF p = noclip THEN {Armed, Switch} ELSE {Switch}]

MCNumbers == <<"n1", "n2">>
MCPresets == [low |-> [n1 |-> 1, n2 |-> 2], high |-> [n1 |-> 2, n2 |-> 2]]

\* The lengths of the option labels of a list: one that fits a record, one that does not.
MCLists == {<<2, 3>>, <<3, 3, 2>>}

\* Two requests under one name, one of them watched, and one that never encodes.
MCAsks == {[key |-> "k", priority |-> 1, life |-> 2, watched |-> TRUE, encodes |-> TRUE],
           [key |-> "k", priority |-> 2, life |-> 3, watched |-> FALSE, encodes |-> TRUE],
           [key |-> OrNone, priority |-> 1, life |-> 2, watched |-> TRUE, encodes |-> FALSE]}

\* Each subject but the one this behaviour is about is at rest in a plain state.
Init ==
  /\ subject \in Subjects
  /\ LoaderInit /\ (subject # "loader" => boot = {})
  /\ PrefInit /\ (subject # "preferences" => file = Nothing)
  /\ LifeInit /\ (subject # "life" => native = "off")
  /\ RuntimeInit
  /\ SettingsInit /\ (subject # "settings" => stFile = StAsFile(Persisted(StDefaults)) /\ stLate.file = {})
  /\ OverlayInit /\ (subject # "overlay" => omHost.options = <<2, 3>>)
  /\ ReentryInit /\ (subject # "reentry" => orPolite)

Others(moving) ==
  /\ UNCHANGED subject
  /\ IF moving = "loader" THEN TRUE ELSE UNCHANGED loaderVars
  /\ IF moving = "preferences" THEN TRUE ELSE UNCHANGED prefVars
  /\ IF moving = "life" THEN TRUE ELSE UNCHANGED lifeVars
  /\ IF moving = "plugins" THEN TRUE ELSE UNCHANGED runtimeVars
  /\ IF moving = "settings" THEN TRUE ELSE UNCHANGED stVars
  /\ IF moving = "overlay" THEN TRUE ELSE UNCHANGED omVars
  /\ IF moving = "reentry" THEN TRUE ELSE UNCHANGED orVars

Next ==
  \/ subject = "loader" /\ LoaderNext /\ Others("loader")
  \/ subject = "preferences" /\ PrefNext /\ Others("preferences")
  \/ subject = "life" /\ LifeNext /\ Others("life")
  \/ subject = "plugins" /\ RuntimeNext /\ Others("plugins")
  \/ subject = "settings" /\ SettingsNext /\ Others("settings")
  \/ subject = "overlay" /\ OverlayNext /\ Others("overlay")
  \/ subject = "reentry" /\ ReentryNext /\ Others("reentry")

vars == <<subject, loaderVars, prefVars, lifeVars, runtimeVars, stVars, omVars, orVars>>

\* What each subject is owed, one step of each put together: the subject never
\* changes, so that this asks no more than its own fairness.
Owed1 ==
  \/ subject = "preferences" /\ Fire /\ Others("preferences")
  \/ subject = "life" /\ StopStep /\ Others("life")
  \/ subject = "plugins" /\ Second /\ Others("plugins")
  \/ subject = "overlay" /\ OmFlush /\ Others("overlay")
Owed2 ==
  \/ subject = "preferences" /\ WriteTemp /\ Others("preferences")
  \/ subject = "plugins" /\ Publish /\ Others("plugins")
  \/ subject = "overlay" /\ OmHandle /\ Others("overlay")
Owed3 ==
  \/ subject = "preferences" /\ (Rename \/ WriteFails) /\ Others("preferences")
  \/ subject = "overlay" /\ OmApply /\ Others("overlay")
Owed4 ==
  \/ subject = "overlay" /\ OmDraw /\ Others("overlay")

Spec == Init /\ [][Next]_vars /\ WF_vars(Owed1) /\ WF_vars(Owed2) /\ WF_vars(Owed3) /\ WF_vars(Owed4)

(***************************************************************************)
(* Properties, put together by what they are about.                        *)
(***************************************************************************)
\* The type invariants of the parts, one beside the other.
RuntimeTypes ==
  /\ subject = "loader" => LoaderTypeOK
  /\ subject = "preferences" => PrefTypeOK
  /\ subject = "life" => LifeTypeOK
  /\ subject = "plugins" => RuntimeTypeOK
  /\ subject = "settings" => SettingsTypeOK
  /\ subject = "overlay" => OverlayTypeOK
  /\ subject = "reentry" => ReentryTypeOK

\* What runs is what the host says runs, at every moment of a life: a plugin file
\* reloaded over itself owns what it loaded, nobody is let in before the plugins nor to
\* a pipe whose key is not there, no session is without its plugins, and a stopped run has stopped
\* everything (PluginLoader.ts, PluginHost.ts, Application.ts, ProxyServer.ts).
PluginsRunAsHosted ==
  /\ subject = "loader" => OwnsWhatRuns /\ QuietIsCurrent
  /\ subject = "plugins" => FreshBudget /\ NeverHalfLive
  /\ subject = "life" => /\ NothingBeforeReady /\ KeyBeforePipe
                       /\ SessionsHavePlugins /\ StoppedIsStopped

\* A switch does what is shown of it: a key or a setting that holds something holds it
\* for as long as it may, not without the module that could let go, not after its
\* setting, not past its seconds; and the overlay shows which, its lists whole and in
\* records that fit (PluginHotkeys.ts, noclipPlugin.ts, OverlayControlPlane.ts).
SwitchesAreTrue ==
  /\ subject = "plugins" => NoHoldOutlivesLink /\ HoldFollowsSetting /\ BudgetWhileAwake /\ MirrorsHost
  /\ subject = "overlay" => WholeLists /\ ChunksFit

\* What is kept for the next start is whole and is what was last chosen, over kills in
\* the middle of a write, presets, pictures and options that come late
\* (PreferencesFile.ts, SettingsRegistry.ts).
StoredIsTrue ==
  /\ subject = "preferences" => NeverHalf /\ NothingForgotten
  /\ subject = "settings" => LabelIsTrue /\ StoreIsCurrent

\* A lane whose outcome handlers ask again while the lane is being walked forgets
\* nobody, takes nothing once it is closed and keeps one request to a name
\* (ServerActionQueue.ts).
ReentryLosesNothing ==
  subject = "reentry" => NobodyForgotten /\ NothingAfterClose /\ NamesApart

\* What a step may never undo: a newer file by an older one, a chosen preset by its own
\* settings, the choices of a run by a restart, a switch by the end of a hold over it,
\* the pace of a lane by a handler (PreferencesFile.ts, SettingsRegistry.ts,
\* PluginHotkeys.ts, ServerActionQueue.ts).
NothingUndone == NeverBack /\ EverySessionEndHeard /\ PresetTakes /\ RestartKeeps /\ HoldPutsBack /\ LaneKeepsPace

\* What is begun ends: a change is written, a stop stops, a hold runs out, and the
\* overlay comes to show what the host has (PreferencesFile.ts, Application.ts stop,
\* noclipPlugin.ts, OverlayControlPlane.ts).
UnderWay ==
  \/ subject = "preferences" /\ Unsaved
  \/ subject = "life" /\ Stopping
  \/ subject = "plugins" /\ HoldCounts
  \/ subject = "overlay" /\ Behind
Over ==
  \/ subject = "preferences" /\ Saved
  \/ subject = "life" /\ Stopped
  \/ subject = "plugins" /\ HoldIsOver
  \/ subject = "overlay" /\ CaughtUp
EverythingSettles == UnderWay ~> Over
==============================================================================
