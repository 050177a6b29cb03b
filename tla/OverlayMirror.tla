---------------------------- MODULE OverlayMirror ----------------------------
(* What the overlay shows of the plugins: the runtime's description of them    *)
(* as records in a bracket (overlay/OverlayControlPlane.ts, RecordCodec.ts),    *)
(* the pipe, the module's mirror (native/src/overlay/ControlRecord.cpp), and    *)
(* the one edit the overlay holds until it is answered (Ui.cpp). One plugin     *)
(* with one chooser; an option is the length of its cell.                       *)
EXTENDS Integers, Sequences

CONSTANTS OmLists,   \* the option lists the chooser may have
          OmBudget,  \* OPTIONS_CHUNK_BYTES
          OmLeast, OmMost, OmEdits, \* the number a setting is clamped between, and what may be typed
          OmNone,
          OmMaxEdits, OmMaxMoves, OmMaxLinks \* bounds: edits, changes of the runtime's own, connections

ASSUME OverlayAssumption ==
  /\ OmBudget \in Nat \ {0} /\ {OmLeast, OmMost} \subseteq Int /\ OmLeast <= OmMost
  /\ OmLists \subseteq Seq(Nat) /\ OmEdits \subseteq Int

VARIABLES omHost,      \* PluginHost: the switch, the setting's value and its options
          omQueued,    \* #publishQueued
          omPublished, \* #published, or none
          omLink,      \* whether the pipe is up
          omDown, omUp,    \* records and actions written and not read
          omSyncing, omStaging, omShown, \* ControlMirror: syncing_, staging_, plugins_
          omEdit,      \* PendingEdit, and whether a sync has been committed since it was sent
          omEdited, omMoved, omLinks

omRuntime == <<omHost, omQueued, omPublished>>
omMirror == <<omSyncing, omStaging, omShown>>
omCounts == <<omEdited, omMoved, omLinks>>
omVars == <<omRuntime, omLink, omDown, omUp, omMirror, omEdit, omCounts>>

NoEdit == [holding |-> FALSE]
Blank == [there |-> FALSE]

OverlayInit ==
  /\ omHost \in [on : {FALSE}, value : {OmLeast}, options : OmLists]
  /\ omQueued = TRUE /\ omPublished = OmNone /\ omLink = FALSE /\ omDown = <<>> /\ omUp = <<>>
  /\ omSyncing = FALSE /\ omStaging = Blank /\ omShown = Blank /\ omEdit = NoEdit
  /\ omEdited = 0 /\ omMoved = 0 /\ omLinks = 0

(***************************************************************************)
(* The records.                                                            *)
(***************************************************************************)

\* How long cells are together, with the ';' between them.
Sums(cells) == LET upTo[n \in 0..Len(cells)] == IF n = 0 THEN 0 ELSE upTo[n - 1] + cells[n] IN upTo
Length(cells) == Sums(cells)[Len(cells)] + (IF cells = <<>> THEN 0 ELSE Len(cells) - 1)

PutIn(chunks, cell, fits) ==
  IF chunks # <<>> /\ fits THEN [chunks EXCEPT ![Len(chunks)] = Append(@, cell)] ELSE Append(chunks, <<cell>>)
Latest(chunks) == IF chunks = <<>> THEN <<>> ELSE chunks[Len(chunks)]

\* The chunks a list that is too long goes in, one cell after the other.
Packing(cells) ==
  LET after[n \in 0..Len(cells)] ==
        IF n = 0 THEN <<>>
        ELSE LET chunks == after[n - 1]
             IN PutIn(chunks, cells[n], Length(Latest(chunks)) + 1 + cells[n] <= OmBudget)
  IN after
Packed(cells) == Packing(cells)[Len(cells)]

\* settingRecords.
SettingRecords(host) ==
  LET whole == Length(host.options) <= OmBudget
      chunks == IF whole THEN <<>> ELSE Packed(host.options)
  IN <<[kind |-> "setting", value |-> host.value, cells |-> IF whole THEN host.options ELSE <<>>]>>
     \o [i \in DOMAIN chunks |-> [kind |-> "options", index |-> i, count |-> Len(chunks), cells |-> chunks[i]]]

\* publishNow's list: everything there is, in one bracket.
Described(host) ==
  <<[kind |-> "begin"], [kind |-> "plugin", on |-> host.on]>> \o SettingRecords(host) \o <<[kind |-> "end"]>>

(***************************************************************************)
(* The runtime.                                                            *)
(***************************************************************************)

\* The microtask: nothing without a module, and nothing that was said already.
OmFlush ==
  /\ omQueued /\ omQueued' = FALSE
  /\ \E records \in {Described(omHost)} :
       IF omLink /\ records # omPublished
       THEN omPublished' = records /\ omDown' = omDown \o records
       ELSE UNCHANGED <<omPublished, omDown>>
  /\ UNCHANGED <<omHost, omLink, omUp, omMirror, omEdit, omCounts>>

\* SettingsRegistry.apply: what is out of bounds is brought inside them.
Clamped(n) == IF n < OmLeast THEN OmLeast ELSE IF n > OmMost THEN OmMost ELSE n

\* #handleAction: every one ends in publish. Between two turns of the event
\* loop there is no microtask left.
OmHandle ==
  /\ omUp # <<>> /\ ~omQueued /\ omUp' = Tail(omUp)
  /\ omHost' = IF Head(omUp).kind = "toggle" THEN [omHost EXCEPT !.on = Head(omUp).to]
               ELSE [omHost EXCEPT !.value = Clamped(Head(omUp).to)]
  /\ omQueued' = TRUE /\ UNCHANGED <<omPublished, omLink, omDown, omMirror, omEdit, omCounts>>

\* What changes without the overlay: a key moves the switch, the options come.
OmHostMoves(on, options) ==
  /\ ~omQueued /\ omMoved < OmMaxMoves /\ omMoved' = omMoved + 1
  /\ omHost' = [omHost EXCEPT !.on = on, !.options = options] /\ omHost' # omHost /\ omQueued' = TRUE
  /\ UNCHANGED <<omPublished, omLink, omDown, omUp, omMirror, omEdit, omEdited, omLinks>>

(***************************************************************************)
(* The pipe and the module.                                                *)
(***************************************************************************)

\* onConnected.
Greet == omPublished' = OmNone /\ omQueued' = TRUE

OmConnects == /\ ~omLink /\ ~omQueued /\ omLinks < OmMaxLinks /\ omLinks' = omLinks + 1 /\ omLink' = TRUE /\ Greet
              /\ UNCHANGED <<omHost, omDown, omUp, omMirror, omEdit, omEdited, omMoved>>

\* An edit that was sent is answered by whatever is committed next.
Committed == omEdit' = IF omEdit.holding THEN [omEdit EXCEPT !.newer = TRUE] ELSE omEdit

\* ControlMirror::Reset.
MirrorReset == omSyncing' = FALSE /\ omStaging' = Blank /\ omShown' = Blank /\ Committed

OmDrops == /\ omLink /\ omLink' = FALSE /\ omDown' = <<>> /\ omUp' = <<>> /\ MirrorReset
           /\ UNCHANGED <<omRuntime, omCounts>>

\* What a record adds to the staging: an option list's pieces in the order they come.
Staged(staging, record) ==
  CASE record.kind = "plugin" -> [there |-> TRUE, on |-> record.on, value |-> OmNone, options |-> <<>>]
    [] record.kind = "setting" -> [staging EXCEPT !.value = record.value, !.options = record.cells]
    [] record.kind = "options" -> [staging EXCEPT !.options = @ \o record.cells]
    [] OTHER -> staging

\* ControlMirror::Apply.
OmApply ==
  /\ omDown # <<>> /\ omDown' = Tail(omDown)
  /\ LET record == Head(omDown)
     IN \/ /\ record.kind = "begin"
           /\ omSyncing' = TRUE /\ omStaging' = Blank /\ UNCHANGED <<omShown, omEdit>>
        \/ /\ record.kind = "end" /\ omSyncing
           /\ omSyncing' = FALSE /\ omShown' = omStaging /\ omStaging' = Blank /\ Committed
        \/ /\ record.kind \notin {"begin", "end"} /\ omSyncing
           /\ omStaging' = Staged(omStaging, record) /\ UNCHANGED <<omSyncing, omShown, omEdit>>
  /\ UNCHANGED <<omRuntime, omLink, omUp, omCounts>>

\* The player: the switch or the number, held on screen and sent.
OmEditSent(kind, to) ==
  /\ omLink /\ omShown.there /\ omEdited < OmMaxEdits /\ omEdited' = omEdited + 1
  /\ IF kind = "toggle" THEN to # omShown.on ELSE to # omShown.value
  /\ omEdit' = [holding |-> TRUE, kind |-> kind, to |-> to, newer |-> FALSE]
  /\ omUp' = Append(omUp, [kind |-> kind, to |-> to])
  /\ UNCHANGED <<omRuntime, omLink, omDown, omMirror, omMoved, omLinks>>

\* Draw, the next frame.
OmDraw == /\ omEdit.holding /\ omEdit.newer /\ omEdit' = NoEdit
          /\ UNCHANGED <<omRuntime, omLink, omDown, omUp, omMirror, omCounts>>

OverlayNext ==
  \/ OmFlush \/ OmHandle \/ OmConnects \/ OmDrops \/ OmApply \/ OmDraw
  \/ \E on \in BOOLEAN, options \in OmLists : OmHostMoves(on, options)
  \/ \E to \in BOOLEAN : OmEditSent("toggle", to)
  \/ \E to \in OmEdits : OmEditSent("setting", to)

(***************************************************************************)
(* Properties.                                                             *)
(***************************************************************************)

\* Types; a description is being built only inside its bracket.
OverlayTypeOK ==
  /\ omHost.on \in BOOLEAN /\ omHost.value \in OmLeast..OmMost /\ omHost.options \in OmLists
  /\ omStaging.there => omSyncing
  /\ ~omLink => omDown = <<>> /\ omUp = <<>> /\ ~omSyncing /\ ~omShown.there

\* What is on screen was described in one piece: every option of the list, once
\* and in order, never a half-list, through lists cut in chunks, links dropped
\* in the middle and descriptions that overtake each other
\* (OverlayControlPlane.ts:305-313).
WholeLists == omShown.there => omShown.options \in OmLists /\ omShown.value \in OmLeast..OmMost

\* No record carries more of a list than the budget, unless one option alone is
\* more (OverlayControlPlane.ts:292-303).
ChunksFit ==
  \A i \in DOMAIN omDown :
    omDown[i].kind \in {"setting", "options"} =>
      Len(omDown[i].cells) <= 1 \/ Length(omDown[i].cells) <= OmBudget

\* While the link lasts the screen comes to show what the runtime has, though
\* descriptions that change nothing are not sent (OverlayControlPlane.ts:95-105).
Mirrored == /\ omShown.there /\ omShown.on = omHost.on /\ omShown.value = omHost.value
            /\ omShown.options = omHost.options
Behind == omLink /\ ~Mirrored
CaughtUp == ~omLink \/ Mirrored
=============================================================================
