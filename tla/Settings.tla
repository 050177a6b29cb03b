------------------------------- MODULE Settings -------------------------------
(* A plugin's settings: declared at start from what the file holds, moved by the  *)
(* overlay, the plugin and a preset, and written back whole                       *)
(* (plugins/SettingsRegistry.ts, PluginPreferences.ts, bindPreset of              *)
(* features/dodge/dodgeControls.ts). One plugin with a preset, the numbers it     *)
(* owns, a live switch, a pictured choice whose options come while it runs, and a *)
(* switch declared after the preset was bound (features/dodge/hitRedirect.ts).    *)
EXTENDS Integers, FiniteSets, SequencesExt

CONSTANTS StNumbers,     \* the numbers a preset owns, in the order it writes them
          StPresets,     \* preset name -> its numbers
          StLeast, StMost, \* the bounds of every number
          StPicks, StPlain, \* what the choice may hold, and its default
          StPictured,    \* the choice is an assetSelect
          StJunk         \* what is no value of the kind asked for

ASSUME SettingsAssumption ==
  /\ StPlain \in StPicks /\ StPictured \in BOOLEAN /\ StJunk \notin StPicks
  /\ StNumbers \in Seq(ToSet(StNumbers)) /\ {StLeast, StMost} \subseteq Int /\ StLeast <= StMost
  /\ DOMAIN StPresets # {} /\ {"custom", StJunk} \cap DOMAIN StPresets = {} /\ StJunk # "custom"
  /\ \A p \in DOMAIN StPresets : StPresets[p] \in [ToSet(StNumbers) -> StLeast..StMost]

VARIABLES stValues, \* #values: [label, numbers, live, pick]
          stOffer,  \* options of the choice's descriptor
          stStore,  \* PluginPreferences: the values kept, or none
          stFile,   \* what the preferences file holds: the store's values once saved
          stLate,   \* the switch declared last: [is, store, file], what it is and is kept as, {} where absent
          stCame,   \* ours: the choice this run was started with, until anyone moves it; StJunk then
          stMoved   \* ours: a stored setting was moved in this run

stVars == <<stValues, stOffer, stStore, stFile, stLate, stCame, stMoved>>

StKeys == ToSet(StNumbers)
StLabels == DOMAIN StPresets \cup {"custom"}
StDefaultLabel == CHOOSE p \in DOMAIN StPresets : TRUE
StDefaults == [label |-> StDefaultLabel, numbers |-> StPresets[StDefaultLabel], live |-> FALSE, pick |-> StPlain]

(***************************************************************************)
(* coerce. A number is [is, v]: junk is what Number() makes nothing of.     *)
(***************************************************************************)

StRaw == [is : {"number"}, v : (StLeast - 1)..(StMost + 1)] \cup [is : {"junk"}, v : {StLeast}]

\* clampToBounds.
StClamp(v) == IF v < StLeast THEN StLeast ELSE IF v > StMost THEN StMost ELSE v

StOr(ok, v, else) == IF ok THEN v ELSE else
CoerceNumber(raw, else) == StOr(raw.is = "number", StClamp(raw.v), else)
CoerceLabel(raw, else) == StOr(raw \in StLabels, raw, else)
CoercePick(raw, offer, else) == StOr(raw \in offer, raw, else)

(***************************************************************************)
(* #commit, over [values, store, applying].                                *)
(***************************************************************************)

\* #persisted, and PluginPreferences.write.
Persisted(values) == [label |-> values.label, numbers |-> values.numbers, pick |-> values.pick]

Stored(s, values) == IF values = s.values THEN s ELSE [s EXCEPT !.values = values, !.store = {Persisted(values)}]

\* presetMatches.
Matches(values) == values.label \in DOMAIN StPresets => values.numbers = StPresets[values.label]

\* onTuningChanged.
TuningChanged(s) ==
  IF s.applying \/ Matches(s.values) THEN s ELSE Stored(s, [s.values EXCEPT !.label = "custom"])

SetNumber(s, k, raw) ==
  LET v == CoerceNumber(raw, s.values.numbers[k])
  IN IF v = s.values.numbers[k] THEN s ELSE TuningChanged(Stored(s, [s.values EXCEPT !.numbers[k] = v]))

\* applyPreset, one number after the other, under the guard.
Written(s) ==
  LET after[n \in 0..Len(StNumbers)] ==
        IF n = 0 THEN s
        ELSE SetNumber(after[n - 1], StNumbers[n],
                       [is |-> "number", v |-> StPresets[s.values.label][StNumbers[n]]])
  IN after

ApplyPreset(s) ==
  IF s.values.label = "custom" THEN s
  ELSE [Written([s EXCEPT !.applying = TRUE])[Len(StNumbers)] EXCEPT !.applying = FALSE]

SetLabel(s, raw) ==
  LET label == CoerceLabel(raw, s.values.label)
  IN IF label = s.values.label THEN s ELSE ApplyPreset(Stored(s, [s.values EXCEPT !.label = label]))

(***************************************************************************)
(* A run: declared, moved, ended.                                          *)
(***************************************************************************)

\* #declare of the choice: only a drop-down's options may be outstanding.
DeclaredPick(raw) == IF ~StPictured THEN raw ELSE CoercePick(raw, {StPlain}, StPlain)

\* #declare of all four. The live switch is not even read.
Declared(file) ==
  [label |-> CoerceLabel(file.label, StDefaultLabel),
   numbers |-> [k \in StKeys |-> CoerceNumber(file.numbers[k], StDefaults.numbers[k])],
   live |-> StDefaults.live, pick |-> DeclaredPick(file.pick)]

StRun(s) == stValues' = s.values /\ stStore' = s.store
StNow == [values |-> stValues, store |-> stStore, applying |-> FALSE]

\* bindPreset's last line.
Started(values) == TuningChanged([values |-> values, store |-> {}, applying |-> FALSE])

\* #declare of the last switch: it asks the store, which that line may just have
\* written without it.
StartedLate(values, file) ==
  [is |-> Started(values).store = {} /\ TRUE \in file, store |-> {}, file |-> file]

\* Every write keeps that switch too.
LateKept(s) == IF s.values = stValues THEN stLate ELSE [stLate EXCEPT !.store = {stLate.is}]

\* What a file holds: what a run saved, or what an older build or a hand put there.
StAsFile(kept) ==
  [label |-> kept.label, numbers |-> [k \in StKeys |-> [is |-> "number", v |-> kept.numbers[k]]],
   pick |-> kept.pick, live |-> TRUE]
StOnce == {{}, {TRUE}, {FALSE}}
StLates == [is : BOOLEAN, store : StOnce, file : StOnce]
StFiles == [label : StLabels \cup {StJunk}, numbers : [StKeys -> StRaw], pick : StPicks, live : BOOLEAN]

StStart(file) ==
  /\ StRun(Started(Declared(file)))
  /\ stLate' = StartedLate(Declared(file), stLate.file)
  /\ stOffer' = {StPlain} /\ stCame' = file.pick /\ stMoved' = FALSE

SettingsInit ==
  /\ stFile \in {StAsFile(Persisted(StDefaults))} \cup StFiles
  /\ stValues = Started(Declared(stFile)).values /\ stStore = Started(Declared(stFile)).store
  /\ \E kept \in StOnce : stLate = StartedLate(Declared(stFile), kept)
  /\ stOffer = {StPlain} /\ stCame = stFile.pick /\ stMoved = FALSE

\* The overlay, a command or the plugin moves a setting.
StMove(s) == /\ StRun(s) /\ stMoved' = (stMoved \/ Persisted(s.values) # Persisted(stValues))
             /\ stLate' = LateKept(s) /\ UNCHANGED <<stOffer, stFile>>
MoveNumber(k, raw) == StMove(SetNumber(StNow, k, raw)) /\ UNCHANGED stCame
MoveLabel(raw) == StMove(SetLabel(StNow, raw)) /\ UNCHANGED stCame
MovePick(raw) == /\ StMove(Stored(StNow, [stValues EXCEPT !.pick = CoercePick(raw, stOffer, @)]))
                 /\ stCame' = IF stValues'.pick = stValues.pick THEN stCame ELSE StJunk
MoveLive == /\ stValues' = [stValues EXCEPT !.live = ~@]
            /\ UNCHANGED <<stOffer, stStore, stFile, stLate, stCame, stMoved>>
MoveLate == /\ stLate' = [stLate EXCEPT !.is = ~@, !.store = {~stLate.is}]
            /\ stStore' = {Persisted(stValues)} /\ stMoved' = TRUE
            /\ UNCHANGED <<stValues, stOffer, stFile, stCame>>

\* setSelectOptions: what the new options lack falls back to the default.
Offered(offer) == IF stValues.pick \in offer THEN stValues.pick ELSE StPlain
SetOptions(offer) ==
  LET s == Stored(StNow, [stValues EXCEPT !.pick = Offered(offer)])
  IN
  /\ stOffer' = offer
  /\ StRun(s) /\ stLate' = LateKept(s)
  /\ stMoved' = (stMoved \/ stValues'.pick # stValues.pick)
  /\ stCame' = IF stCame \in offer THEN stCame ELSE StJunk
  /\ UNCHANGED stFile

Save == /\ stStore # {} /\ stFile' = StAsFile(CHOOSE kept \in stStore : TRUE)
        /\ stLate' = [stLate EXCEPT !.file = stLate.store]
        /\ UNCHANGED <<stValues, stOffer, stStore, stCame, stMoved>>

\* The run ends, whatever was saved of it, and the next reads the file.
StRestart == StStart(stFile) /\ UNCHANGED stFile

SettingsNext ==
  \/ \E k \in StKeys, raw \in StRaw : MoveNumber(k, raw)
  \/ \E raw \in StLabels \cup {StJunk} : MoveLabel(raw)
  \/ \E raw \in StPicks : MovePick(raw)
  \/ \E offer \in SUBSET StPicks : StPlain \in offer /\ SetOptions(offer)
  \/ MoveLive \/ MoveLate \/ Save \/ StRestart

(***************************************************************************)
(* Properties.                                                             *)
(***************************************************************************)

\* Every value fits its declaration, whatever a file, the overlay or a plugin
\* gave: the choice is one of those offered, save one still waiting for them.
SettingsTypeOK ==
  /\ stValues.label \in StLabels /\ stValues.live \in BOOLEAN
  /\ stValues.numbers \in [StKeys -> StLeast..StMost]
  /\ stValues.pick \in stOffer \/ (~StPictured /\ stOffer = {StPlain} /\ stValues.pick = stCame)

\* The label and the numbers tell the same story (dodgeControls.ts:540-546): the
\* numbers are the preset's whenever its name is shown, an older build's file and
\* a number moved by hand included.
LabelIsTrue == Matches(stValues)

\* Choosing a preset ends with that preset: its own writes do not make it Custom
\* half way.
PresetTakes ==
  [][\A p \in DOMAIN StPresets : MoveLabel(p) => stValues'.label = p /\ Matches(stValues')]_stVars

\* What is kept is what is in force once anything was moved, the writes of a
\* preset included: a save at any moment saves what the user sees.
StoreIsCurrent == stMoved => stStore = {Persisted(stValues)} /\ stLate.store = {stLate.is}

\* A restart gives back the numbers and the label that were saved, and never a
\* live switch, however the run before ended (SettingsRegistry.ts:48-53). The
\* switch declared last comes back where the saved label is true of the numbers:
\* where it is not, the label is put right first and the switch is lost.
RestartKeeps ==
  [][StRestart => /\ ~stValues'.live
                  /\ \A numbers \in [StKeys -> StLeast..StMost], label \in StLabels :
                       stFile.label = label /\ (\A k \in StKeys : stFile.numbers[k] = [is |-> "number", v |-> numbers[k]])
                         => /\ stValues'.numbers = numbers
                            /\ Matches([label |-> label, numbers |-> numbers])
                                 => stValues'.label = label /\ (stLate'.is <=> TRUE \in stLate.file)]_stVars
=============================================================================
