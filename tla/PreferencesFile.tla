-------------------------- MODULE PreferencesFile --------------------------
(* What the user configured, in memory and in its file: coalesced writes,      *)
(* each over a temporary file and a rename, one behind the other; writes that  *)
(* fail; and a process that is killed between any two steps                    *)
(* (plugins/PreferencesFile.ts over plugins/PluginPreferences.ts). A document  *)
(* is the number of changes it holds.                                          *)
EXTENDS Naturals, Sequences

CONSTANTS Foreign,       \* a file this build does not understand
          Nothing,       \* no file
          Half,          \* a file a write was killed in
          MaxChanges,    \* bound
          MaxKills       \* bound: kills and failing writes together

ASSUME PreferencesAssumption ==
  /\ MaxChanges \in Nat /\ {Foreign, Nothing, Half} \cap Nat = {}
  /\ Half \notin {Foreign, Nothing}

VARIABLES memory,        \* the document PluginPreferences holds
          dirty,         \* #dirty
          timer,         \* #timer is running
          writing,       \* #writing: the documents in the chain, the first one under way
          step,          \* of the write under way: "begin" or "rename"
          closed,        \* #closed
          alive,         \* the process runs
          file, temp,    \* the two files on disk
          mishaps,       \* bound
          owed           \* ours: what a failed write took with it, or a kill

prefVars == <<memory, dirty, timer, writing, step, closed, alive, file, temp, mishaps, owed>>

Document == 0..MaxChanges
OnDisk   == Document \cup {Foreign, Nothing, Half}

PrefInit ==
  /\ file \in {Nothing, Foreign, 0} /\ temp = Nothing
  /\ memory = 0 /\ dirty = FALSE /\ timer = FALSE
  /\ writing = <<>> /\ step = "begin" /\ closed = FALSE /\ alive = TRUE
  /\ mishaps = 0 /\ owed = FALSE

\* #schedule, from every change that is one: a write of what is stored already
\* never gets here (PluginPreferences.write, writeEnabled, writeBind).
Change ==
  /\ alive /\ memory < MaxChanges
  /\ memory' = memory + 1
  /\ dirty' = TRUE
  /\ timer' = (timer \/ ~closed)
  /\ owed' = FALSE
  /\ UNCHANGED <<writing, step, closed, alive, file, temp, mishaps>>

\* Broken variants: the last document goes first, and a flush that finds a write
\* under way leaves it to that.
FlushInFront ==
  IF dirty
  THEN writing' = <<memory>> \o writing /\ dirty' = FALSE
  ELSE UNCHANGED <<writing, dirty>>

\* #flush: the document is taken now, and the mark goes with it.
Flush ==
  IF dirty
  THEN writing' = Append(writing, memory) /\ dirty' = FALSE
  ELSE UNCHANGED <<writing, dirty>>

Fire ==
  /\ alive /\ timer
  /\ timer' = FALSE
  /\ Flush
  /\ UNCHANGED <<memory, step, closed, alive, file, temp, mishaps, owed>>

\* close() cancels the timer and flushes; it may be called again.
Close ==
  /\ alive
  /\ closed' = TRUE /\ timer' = FALSE
  /\ Flush
  /\ UNCHANGED <<memory, step, alive, file, temp, mishaps, owed>>

\* #write: the temporary file, then the rename over the real one.
WriteTemp ==
  /\ alive /\ writing # <<>> /\ step = "begin"
  /\ temp' = Head(writing) /\ step' = "rename"
  /\ UNCHANGED <<memory, dirty, timer, writing, closed, alive, file, mishaps, owed>>

\* Broken variant: the rename does not wait for the write.
RenameEarly ==
  /\ alive /\ writing # <<>>
  /\ file' = temp /\ temp' = Nothing
  /\ writing' = Tail(writing) /\ step' = "begin"
  /\ UNCHANGED <<memory, dirty, timer, closed, alive, mishaps, owed>>

Rename ==
  /\ alive /\ writing # <<>> /\ step = "rename"
  /\ file' = temp /\ temp' = Nothing
  /\ writing' = Tail(writing) /\ step' = "begin"
  /\ UNCHANGED <<memory, dirty, timer, closed, alive, mishaps, owed>>

\* Any of the three calls throws: said in the log, and not tried again.
WriteFails ==
  /\ alive /\ writing # <<>> /\ mishaps < MaxKills
  /\ mishaps' = mishaps + 1
  /\ writing' = Tail(writing) /\ step' = "begin"
  /\ temp' \in IF step = "begin" THEN {temp, Half} ELSE {temp}
  /\ owed' = (Len(writing) = 1 /\ ~(dirty /\ timer))
  /\ UNCHANGED <<memory, dirty, timer, closed, alive, file>>

\* The process is killed, in the middle of a temporary write too.
Kill ==
  /\ alive /\ mishaps < MaxKills
  /\ mishaps' = mishaps + 1
  /\ alive' = FALSE
  /\ temp' \in IF writing # <<>> /\ step = "begin" THEN {temp, Half} ELSE {temp}
  /\ memory' = 0 /\ dirty' = FALSE /\ timer' = FALSE /\ closed' = FALSE
  /\ writing' = <<>> /\ step' = "begin" /\ owed' = FALSE
  /\ UNCHANGED file

\* The next run reads the file: missing, foreign or half a one means defaults.
LoadFile ==
  /\ ~alive
  /\ alive' = TRUE
  /\ memory' = IF file \in Document THEN file ELSE 0
  /\ UNCHANGED <<dirty, timer, writing, step, closed, file, temp, mishaps, owed>>

PrefNext == Change \/ Fire \/ Close \/ WriteTemp \/ Rename \/ WriteFails \/ Kill \/ LoadFile

(***************************************************************************)
(* Properties.                                                             *)
(***************************************************************************)

PrefTypeOK ==
  /\ memory \in Document /\ file \in OnDisk /\ temp \in OnDisk
  /\ writing \in Seq(Document) /\ step \in {"begin", "rename"}

\* A crash at any point leaves a whole file: the old one or the new one
\* (PreferencesFile.ts:30-32).
NeverHalf == file # Half

\* Writes land in the order of the changes: within a run the file never goes
\* back to an older document, and a restart starts from what the last run wrote.
NeverBack ==
  [][(file \in Document /\ file' # file) => (file' \in Document /\ file' > file)]_prefVars

\* Whatever is in memory and not on disk has something coming that will write
\* it: the mark with its timer, a write in the chain, or close() itself. The two
\* exceptions are a write that failed, and a change made after close().
NothingForgotten ==
  alive /\ memory # 0 /\ file # memory /\ ~owed =>
    \/ writing # <<>> /\ writing[Len(writing)] = memory
    \/ dirty /\ (timer \/ closed)

\* Changes made while the file is open reach the disk, the last of them in the end,
\* whatever other changes and close() do to the timer; the exceptions are a write
\* that fails with nothing behind it, a kill, and a change made after close().
Unsaved == dirty /\ timer
Saved   == file = memory \/ owed \/ ~alive \/ (closed /\ dirty)
==============================================================================
