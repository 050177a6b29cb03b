---------------------------- MODULE PluginLoader ----------------------------
(* Plugins on disk and in the host: the first load, the watcher with its one   *)
(* debounce timer, and reloads that await between unloading and loading        *)
(* (plugins/PluginLoader.ts, over the operations of PluginHost.ts it calls).   *)
EXTENDS Naturals

CONSTANTS File, Id,
          Provides,      \* [File -> the id its module exports]
          Absent,
          MaxEdits,      \* bound: changes of files on disk
          MaxReloads     \* bound: reloads under way at once

ASSUME LoaderAssumption ==
  /\ Provides \in [File -> Id] /\ MaxEdits \in Nat /\ MaxReloads \in Nat \ {0}
  /\ Absent \notin File /\ Absent # {} /\ Absent \notin Nat /\ Absent \notin [file: File, version: Nat]

VARIABLES disk,          \* version of each file, or Absent
          broken,        \* files whose module does not import
          hosted,        \* the host: file and version an id runs, or Absent
          loaded,        \* #loaded: files that produced a plugin
          pending,       \* #pending: the file whose timer runs, or Absent
          reloads,       \* loads under way, between their awaits
          boot,          \* files loadAll has not come to, or Absent once it threw
          watching,      \* #watcher
          edits,         \* bound, and the newest version there is
          missed         \* ours: files whose last change no reload has seen alone

loaderVars == <<disk, broken, hosted, loaded, pending, reloads, boot, watching, edits, missed>>

Code  == [file: File, version: Nat]
\* A load after its stat ("reads"), and after its import ("has"), with the
\* version the import read. `place` is ours: it tells two loads of one file apart.
Under == [file: File, place: 1..MaxReloads, at: {"reads", "has"}, version: Nat \cup {Absent}, first: BOOLEAN]

LoadsOf(f) == {r \in reloads: r.file = f}

LoaderInit ==
  /\ disk \in [File -> {0, Absent}] /\ broken = {}
  /\ hosted = [i \in Id |-> Absent] /\ loaded = {}
  /\ pending = Absent /\ watching = FALSE /\ edits = 0 /\ missed = {}
  /\ reloads = {} /\ boot = {f \in File: disk[f] # Absent}

(***************************************************************************)
(* The disk, and what the watcher makes of it.                             *)
(***************************************************************************)

\* #scheduleReload: one timer for all files.
Schedule(f) == IF watching THEN pending' = f ELSE UNCHANGED pending

\* A change whose reload is cancelled by the change of another file, that comes
\* while a reload of its file is under way, or that nobody watches.
Missed(f) ==
  (IF watching /\ LoadsOf(f) = {} THEN missed ELSE missed \cup {f})
     \cup (IF watching /\ pending \notin {Absent, f} THEN {pending} ELSE {})

Edit(f) ==
  /\ edits < MaxEdits
  /\ edits' = edits + 1
  /\ disk' = [disk EXCEPT ![f] = edits + 1]
  /\ \E b \in BOOLEAN: broken' = IF b THEN broken \cup {f} ELSE broken \ {f}
  /\ Schedule(f)
  /\ missed' = Missed(f)
  /\ UNCHANGED <<hosted, loaded, reloads, boot, watching>>

DeleteFile(f) ==
  /\ disk[f] # Absent /\ edits < MaxEdits
  /\ edits' = edits + 1
  /\ disk' = [disk EXCEPT ![f] = Absent]
  /\ broken' = broken \ {f}
  /\ Schedule(f)
  /\ missed' = Missed(f)
  /\ UNCHANGED <<hosted, loaded, reloads, boot, watching>>

(***************************************************************************)
(* Reloading.                                                              *)
(***************************************************************************)

\* Broken variant: what goes is what has the id, whoever loaded it.
UnloadedById(f) == [hosted EXCEPT ![Provides[f]] = Absent]

\* #unload: what the file produced, if anything.
Unloaded(f) == IF f \in loaded THEN [hosted EXCEPT ![Provides[f]] = Absent] ELSE hosted

Places == {n \in 1..MaxReloads: \A r \in reloads: r.place # n}

Begun(f, isFirst) ==
  IF disk[f] = Absent THEN {}
  ELSE {[file |-> f, place |-> CHOOSE n \in Places: TRUE, at |-> "reads", version |-> Absent, first |-> isFirst]}

\* The timer fires: the plugin of the file goes at once, its next one is awaited.
ReloadFile ==
  /\ pending # Absent
  /\ Places # {}
  /\ hosted' = Unloaded(pending)
  /\ loaded' = loaded \ {pending}
  /\ pending' = Absent
  /\ reloads' = reloads \cup Begun(pending, FALSE)
  /\ missed' = IF LoadsOf(pending) = {} THEN missed \ {pending} ELSE missed \cup {pending}
  /\ UNCHANGED <<disk, broken, boot, watching, edits>>

\* loadAll takes the files it listed one after the other.
LoadNext(f) ==
  /\ boot # Absent /\ f \in boot /\ reloads = {}
  /\ boot' = boot \ {f}
  /\ reloads' = Begun(f, TRUE)
  /\ UNCHANGED <<disk, broken, hosted, loaded, pending, watching, edits, missed>>

\* The import reads the file as it is by then; one that is gone, or does not
\* import, ends the load with nothing.
Import(r) ==
  /\ r.at = "reads"
  /\ reloads' = (reloads \ {r}) \cup
       (IF disk[r.file] = Absent \/ r.file \in broken THEN {}
        ELSE {[r EXCEPT !.at = "has", !.version = disk[r.file]]})
  /\ UNCHANGED <<disk, broken, hosted, loaded, pending, boot, watching, edits, missed>>

\* The host takes it, or throws because the id is loaded already: out of a
\* reload, which logs it, or out of loadAll, and the start fails with it.
Finish(r) ==
  /\ r.at = "has"
  /\ reloads' = reloads \ {r}
  /\ IF hosted[Provides[r.file]] = Absent
     THEN /\ hosted' = [hosted EXCEPT ![Provides[r.file]] =
                          [file |-> r.file, version |-> r.version]]
          /\ loaded' = loaded \cup {r.file}
          /\ UNCHANGED boot
     ELSE /\ boot' = IF r.first THEN Absent ELSE boot
          /\ UNCHANGED <<hosted, loaded>>
  /\ UNCHANGED <<disk, broken, pending, watching, edits, missed>>

\* watch() comes after loadAll; nothing reports what changed before it.
Watch ==
  /\ ~watching
  /\ boot = {} /\ reloads = {}
  /\ watching' = TRUE
  /\ UNCHANGED <<disk, broken, hosted, loaded, pending, reloads, boot, edits, missed>>

\* stop(): the timer and the watcher go, a reload under way does not.
StopWatching ==
  /\ watching
  /\ watching' = FALSE
  /\ pending' = Absent
  /\ missed' = (missed \cup {pending}) \ {Absent}
  /\ boot' = Absent
  /\ UNCHANGED <<disk, broken, hosted, loaded, reloads, edits>>

LoaderNext ==
  \/ \E f \in File: Edit(f) \/ DeleteFile(f)
  \/ \E f \in File: LoadNext(f)
  \/ ReloadFile \/ Watch \/ StopWatching
  \/ \E r \in reloads: Import(r) \/ Finish(r)

(***************************************************************************)
(* Properties.                                                             *)
(***************************************************************************)

\* Types: the loads under way carry a version exactly when their import has read one.
LoaderTypeOK ==
  /\ disk \in [File -> 0..MaxEdits \cup {Absent}]
  /\ hosted \in [Id -> Code \cup {Absent}]
  /\ loaded \subseteq File /\ broken \subseteq File /\ missed \subseteq File
  /\ pending \in File \cup {Absent} /\ reloads \subseteq Under
  /\ \A r \in reloads: r.at = "has" <=> r.version # Absent
  /\ boot = Absent \/ boot \subseteq File

\* The loader's own map and the host never come apart, however many reloads of
\* one file, or of two files with one id, overlap: what a file is said to have
\* produced is what the host runs, so every plugin from disk can still be
\* unloaded by its file (PluginLoader.ts:187-201).
OwnsWhatRuns ==
  \A f \in File: f \in loaded <=> (hosted[Provides[f]] # Absent
                                     /\ hosted[Provides[f]].file = f)

\* When the disk has been quiet and nothing is under way, every file runs the
\* code that is on disk, and none where it is gone or broken
\* (PluginLoader.ts:137-139, :188), unless its last change was lost: cancelled by
\* the change of another file within the debounce, overtaken by a reload of the
\* same file under way, or made when nobody watched.
Alone(f) == \A g \in File \ {f}: Provides[g] # Provides[f]
QuietIsCurrent ==
  \A f \in File:
    Alone(f) /\ boot = {} /\ reloads = {} /\ pending = Absent /\ f \notin missed
      => hosted[Provides[f]] = IF disk[f] = Absent \/ f \in broken THEN Absent
                               ELSE [file |-> f, version |-> disk[f]]
=============================================================================
