------------------------------ MODULE Disguise -------------------------------
(* What the client is shown of the player instead of the truth: figures and   *)
(* a skin (features/skinchanger), a name (features/streamermode).             *)
EXTENDS Integers

------------------------------------------------------------------------------
(* The stats the skin changer keeps away from what the server says of them:    *)
(* the player's own status in UPDATE and NEWTICK rewritten on its way to the   *)
(* client, and put back when the disguise is dropped (state/StatOverrides.ts   *)
(* under the rewrite of features/skinchanger/skinChangerPlugin.ts).            *)

CONSTANTS SdStats, SdValues,
          SdAbsent,     \* what an object of this kind has when the server says nothing
          SdNone,
          SdMaxSessions \* bound

ASSUME StatDisguiseAssumption == SdAbsent \in SdValues /\ SdNone \notin SdValues

VARIABLES sdOn,        \* whether the plugin is enabled
          sdTargets,   \* targets: value wanted by stat, or SdNone
          sdOriginals, \* #originals of this session's StatOverrides
          sdApplied,   \* #applied
          sdServer,    \* what the server has last said: by stat, or SdNone
          sdClient,    \* what the client shows
          sdMissed,    \* ours: statuses went by unhandled since the last announcement that did not
          sdSessions

sdVars == <<sdOn, sdTargets, sdOriginals, sdApplied, sdServer, sdClient, sdMissed, sdSessions>>

SdUnset == [s \in SdStats |-> SdNone]
SdMaybe == SdValues \cup {SdNone}

\* What a status carries of these stats: some of them.
SdStatuses == [SdStats -> SdMaybe]
SdOr(a, b) == IF a # SdNone THEN a ELSE b

DisguiseInit ==
  /\ sdOn \in BOOLEAN /\ sdTargets = SdUnset /\ sdOriginals = SdUnset /\ sdApplied = SdUnset
  /\ sdServer = SdUnset /\ sdClient = [s \in SdStats |-> SdAbsent] /\ sdMissed = TRUE /\ sdSessions = 0

\* applyTo: an announced object has been told nothing.
ToldBefore(announced) == IF announced THEN SdUnset ELSE sdApplied

\* #write and #restore, of one stat: what the status carries in the end. What is
\* there already or was not asked for is left alone.
Edited(s, data, told) ==
  IF sdTargets[s] # SdNone
  THEN IF data[s] = SdNone /\ told[s] = sdTargets[s] THEN SdNone ELSE sdTargets[s]
  ELSE IF told[s] # SdNone /\ data[s] = SdNone THEN SdOr(sdOriginals[s], SdAbsent)
  ELSE data[s]

\* rewrite: remember, then applyTo.
Rewritten(data, told) ==
  /\ sdOriginals' = [s \in SdStats |-> SdOr(data[s], sdOriginals[s])]
  /\ sdApplied' = sdTargets

\* The client creates its object from an announcement and updates it otherwise.
Shown(announced, carried) ==
  [s \in SdStats |-> SdOr(carried[s], IF announced THEN SdAbsent ELSE sdClient[s])]

\* UPDATE (announced) or NEWTICK with the player's status.
Status(announced, data) ==
  /\ sdServer' = [s \in SdStats |-> SdOr(data[s], IF announced THEN SdNone ELSE sdServer[s])]
  /\ IF sdOn
     THEN \E told \in {ToldBefore(announced)} :
            /\ Rewritten(data, told)
            /\ sdClient' = Shown(announced, [s \in SdStats |-> Edited(s, data, told)])
            /\ sdMissed' = (sdMissed /\ ~announced)
     ELSE /\ sdClient' = Shown(announced, data) /\ sdMissed' = TRUE
          /\ UNCHANGED <<sdOriginals, sdApplied>>
  /\ UNCHANGED <<sdOn, sdTargets, sdSessions>>

\* The settings change with the plugin on or off.
Retarget(s, v) == /\ sdTargets[s] # v /\ sdTargets' = [sdTargets EXCEPT ![s] = v]
                  /\ UNCHANGED <<sdOn, sdOriginals, sdApplied, sdServer, sdClient, sdMissed, sdSessions>>

SdToggle == /\ sdOn' = ~sdOn
          /\ UNCHANGED <<sdTargets, sdOriginals, sdApplied, sdServer, sdClient, sdMissed, sdSessions>>

\* A session starts with a StatOverrides of its own.
NextSession == /\ sdSessions < SdMaxSessions /\ sdSessions' = sdSessions + 1
               /\ sdOriginals' = SdUnset /\ sdApplied' = SdUnset /\ sdServer' = SdUnset
               /\ sdClient' = [s \in SdStats |-> SdAbsent] /\ sdMissed' = TRUE
               /\ UNCHANGED <<sdOn, sdTargets>>

DisguiseNext ==
  \/ \E announced \in BOOLEAN, data \in SdStatuses :
       /\ announced \/ ~(sdServer = SdUnset /\ sdMissed)
       /\ announced => \A s \in SdStats : sdServer[s] # SdNone => data[s] # SdNone
       /\ Status(announced, data)
  \/ \E s \in SdStats, v \in SdMaybe : Retarget(s, v)
  \/ SdToggle \/ NextSession

(***************************************************************************)
(* Properties.                                                             *)
(***************************************************************************)

\* Types, and what would be put back is the server's word, never the disguise.
DisguiseTypeOK ==
  /\ sdTargets \in SdStatuses /\ sdOriginals \in SdStatuses /\ sdApplied \in SdStatuses
  /\ sdClient \in [SdStats -> SdValues]
  /\ \A s \in SdStats : ~sdMissed /\ sdOriginals[s] # SdNone => sdOriginals[s] = sdServer[s]

\* What the client shows is the disguise where one is wanted and the server's
\* own word where none is, from the status handled on, however the settings went
\* back and forth before it and whichever stats the server repeats, in a session
\* that had none go by unhandled since the player was announced
\* (StatOverrides.ts:66-102).
ShownAsWanted ==
  [][sdServer' # sdServer \/ sdClient' # sdClient => (sdOn /\ ~sdMissed' /\ sdSessions' = sdSessions
       => \A s \in SdStats : sdClient'[s] = SdOr(sdTargets[s], SdOr(sdServer'[s], SdAbsent)))]_sdVars

------------------------------------------------------------------------------
(* Streamer mode: a stand-in name, guild and star count shown to this client   *)
(* (features/streamermode/streamerModePlugin.ts, IdentityDisguise.ts), between *)
(* a server that says the real ones rarely and a client that keeps what it was *)
(* last told.                                                                  *)

CONSTANTS SmStats,  \* the stats that name a character: the name and another
          SmName,   \* the one left alone under an empty alias
          SmAliases,\* what each setting can be
          SmBlank,  \* the empty setting
          SmReal,   \* what the server says
          SmNone

ASSUME StreamerAssumption == /\ SmName \in SmStats /\ SmReal \notin SmAliases /\ SmNone \notin SmAliases
                             /\ \E a \in SmAliases : a # SmBlank

VARIABLES smOn,      \* whether the plugin is enabled
          smSetting, \* alias, guild, stars
          smShown,   \* #shown of this session's IdentityDisguise
          smKnown,   \* session.self: whether the character and its name are known
          smClient,  \* what the client shows, or SmNone without a character
          smNew,     \* ours: no tick has come since the character was announced
          smTold,    \* ours: the last thing to happen was a tick that was handled
          smMissed   \* ours: the stats the server stated unhandled since it was announced

smVars == <<smOn, smSetting, smShown, smKnown, smClient, smNew, smTold, smMissed>>

Untold == [s \in SmStats |-> SmNone]

StreamerInit ==
  /\ smOn \in BOOLEAN /\ smSetting = [s \in SmStats |-> CHOOSE a \in SmAliases : a # SmBlank]
  /\ smShown = Untold /\ smKnown = FALSE /\ smClient = Untold /\ smNew = TRUE /\ smTold = FALSE
  /\ smMissed = {}

\* refreshTargets: an empty alias leaves the name alone, an empty guild blanks it.
Targets == {s \in SmStats : s = SmName => smSetting[s] # SmBlank}

\* applyTo and #write: what the client has been told. A stat in the packet is
\* rewritten, one that is not is stated unless it was told already, and nothing
\* said while the character is being created counts.
Written(announced, stated) ==
  [s \in SmStats |-> IF announced THEN SmNone
                     ELSE IF s \in Targets THEN smSetting[s] ELSE smShown[s]]

\* Broken variant: only what is in the packet is rewritten.
CarriedThere(announced, stated) ==
  [s \in SmStats |-> IF s \in stated THEN IF s \in Targets THEN smSetting[s] ELSE SmReal ELSE smClient[s]]

\* What leaves of the stats: rewritten or stated where wanted, and otherwise
\* what the server said. An announcement forgets what was told first.
Carried(announced, stated) ==
  [s \in SmStats |->
     IF s \in Targets /\ (s \in stated \/ announced \/ smShown[s] # smSetting[s]) THEN smSetting[s]
     ELSE IF s \in stated THEN SmReal ELSE smClient[s]]

\* UPDATE announces the character, with all it has; NEWTICK states a stat that
\* changed, which the name does not (IdentityDisguise.ts:19-20).
StandIn(announced, stated) ==
  /\ IF announced THEN stated = SmStats ELSE SmName \notin stated
  /\ smKnown /\ (announced \/ smClient # Untold)
  /\ IF smOn
     THEN /\ smShown' = Written(announced, stated)
          /\ smClient' = Carried(announced, stated)
          /\ smMissed' = IF announced THEN {} ELSE smMissed \cup (stated \ Targets)
     ELSE /\ smClient' = [s \in SmStats |-> IF s \in stated THEN SmReal ELSE smClient[s]]
          /\ smMissed' = smMissed \cup stated
          /\ UNCHANGED smShown
  /\ smNew' = announced
  /\ smTold' = (smOn /\ ~announced)
  /\ UNCHANGED <<smOn, smSetting, smKnown>>

\* CREATESUCCESS names the character; the client seeds it with the real one, of
\* which what the announcement said does not last.
Seeded == /\ smNew /\ smKnown' = TRUE
          /\ smClient' = [s \in SmStats |-> IF smClient[s] = SmNone THEN SmNone ELSE SmReal]
          /\ UNCHANGED <<smOn, smSetting, smShown, smNew, smTold, smMissed>>

\* A setting changes, and with it the targets.
SmSet(s, a) == /\ smSetting[s] # a /\ smSetting' = [smSetting EXCEPT ![s] = a] /\ smTold' = FALSE
               /\ UNCHANGED <<smOn, smShown, smKnown, smClient, smNew, smMissed>>

SmToggle == /\ smOn' = ~smOn /\ smTold' = FALSE
            /\ UNCHANGED <<smSetting, smShown, smKnown, smClient, smNew, smMissed>>

\* The session ends and another begins, with a disguise of its own.
SmSession == /\ smShown' = Untold /\ smKnown' = FALSE /\ smClient' = Untold /\ smNew' = TRUE /\ smTold' = FALSE
             /\ smMissed' = {} /\ UNCHANGED <<smOn, smSetting>>

StreamerNext ==
  \/ \E announced \in BOOLEAN, stated \in SUBSET SmStats : StandIn(announced, stated)
  \/ Seeded \/ SmToggle \/ SmSession
  \/ \E s \in SmStats, a \in SmAliases : SmSet(s, a)

(***************************************************************************)
(* Properties.                                                             *)
(***************************************************************************)

\* Types, and what the client was told is what it shows, unless the server
\* stated the stat while nobody was rewriting it.
StreamerTypeOK ==
  /\ smSetting \in [SmStats -> SmAliases] /\ smClient \in [SmStats -> SmAliases \cup {SmReal, SmNone}]
  /\ ~smNew => \A s \in SmStats \ smMissed : smShown[s] # SmNone => smClient[s] = smShown[s]

\* From the first tick handled on, the stand-in is what is shown, whatever the
\* client seeds its character with and however the settings moved, where no
\* stat went by unhandled since the character was announced
\* (IdentityDisguise.ts:19-28).
StandInShown ==
  smTold => \A s \in Targets \ smMissed : smClient[s] = smSetting[s]

\* "an identity still hidden after the mode is off costs nothing, and a real
\* name shown while it is on is the whole thing this exists to prevent"
\* (IdentityDisguise.ts:33-34): after a tick handled, the name shown is not the
\* real one.
NeverRealWhileOn ==
  smTold /\ SmName \in Targets => smClient[SmName] # SmReal

------------------------------------------------------------------------------
(* What the skin changer remembers of each character class, across the switches   *)
(* from one to another and across runs (remember, restore and showClass of         *)
(* features/skinchanger/skinChangerPlugin.ts, AppearanceMemory.ts). A skin fits     *)
(* its class only; a size, which stands for the dyes and the style too, fits all.  *)

CONSTANTS WdClasses, WdSkins, \* the classes, and class -> the skins made for it
          WdSizes, WdPlain, WdUsual, \* sizes; the default skin and size
          WdNone

WdAll == {WdPlain} \cup UNION {WdSkins[c] : c \in WdClasses}

\* The catalog files a skin under one class (playerClassType of resources/cosmetics.ts).
ASSUME WardrobeAssumption ==
  /\ WdUsual \in WdSizes /\ DOMAIN WdSkins = WdClasses
  /\ WdNone \notin WdClasses /\ WdNone \notin [skin : WdAll, size : WdSizes]
  /\ \A c, d \in WdClasses : c # d => WdSkins[c] \cap WdSkins[d] \subseteq {WdPlain}

VARIABLES wdShown,   \* displayedClass, WdNone before any
          wdWorn,    \* the settings: [skin, size]
          wdOffer,   \* options of the skin setting
          wdMemory,  \* remembered, and the hidden setting that keeps it
          wdChosen   \* ours: what each class was last seen in, WdNone before it was shown

wdVars == <<wdShown, wdWorn, wdOffer, wdMemory, wdChosen>>

WdLook(skin, size) == [skin |-> skin, size |-> size]

\* What a stored record may hold: anything malformed reads as its default.
WdStored == [WdClasses -> {WdNone} \cup [skin : WdAll, size : WdSizes]]

WardrobeInit ==
  /\ wdShown = WdNone /\ wdOffer = {WdPlain} /\ wdMemory \in WdStored
  /\ \E size \in WdSizes : wdWorn = WdLook(WdPlain, size)
  /\ wdChosen = [c \in WdClasses |-> WdNone]

\* remember.
LookKept(memory, shown, worn) == IF shown = WdNone THEN memory ELSE [memory EXCEPT ![shown] = worn]

\* What is put on: read before the options are replaced, which writes.
Wanted(c, fallen) == wdMemory[c]

\* setOptions: a skin the class cannot wear falls back to the default.
WdFitting(skin, offer) == IF skin \in offer THEN skin ELSE WdPlain

\* restore: each setting in turn; a skin not offered is refused.
Redressed(wanted, fallen, offer) ==
  IF wanted = WdNone THEN fallen
  ELSE WdLook(IF wanted.skin \in offer THEN wanted.skin ELSE fallen.skin, wanted.size)

\* What makes showClass remember: a class of which nothing is stored, or a setting
\* that changes, by falling back or by being restored.
WdMoved(c, fallen, worn) == wdMemory[c] = WdNone \/ fallen # wdWorn \/ worn # fallen

\* showClass, of a class that is not the one shown. When nothing moves, what is
\* stored of it stays as it was, a skin it cannot wear included.
ShowClass(c) ==
  /\ c # wdShown /\ wdShown' = c /\ wdOffer' = {WdPlain} \cup WdSkins[c]
  /\ \E fallen \in {WdLook(WdFitting(wdWorn.skin, wdOffer'), wdWorn.size)} :
       /\ wdWorn' = Redressed(Wanted(c, fallen), fallen, wdOffer')
       /\ wdMemory' = IF WdMoved(c, fallen, wdWorn') THEN LookKept(wdMemory, c, wdWorn') ELSE wdMemory
  /\ wdChosen' = [wdChosen EXCEPT ![c] = IF @ = WdNone THEN wdWorn' ELSE @]

\* The user chooses: remembered for the class shown.
Choose(look) ==
  /\ look # wdWorn /\ look.skin \in wdOffer /\ wdWorn' = look
  /\ wdMemory' = LookKept(wdMemory, wdShown, look)
  /\ wdChosen' = IF wdShown = WdNone THEN wdChosen ELSE [wdChosen EXCEPT ![wdShown] = look]
  /\ UNCHANGED <<wdShown, wdOffer>>

\* The run ends and the next begins: the settings come back, but for a skin,
\* whose options are outstanding, and no class is shown.
WdRestart ==
  /\ wdShown' = WdNone /\ wdOffer' = {WdPlain} /\ wdWorn' = WdLook(WdPlain, wdWorn.size)
  /\ UNCHANGED <<wdMemory, wdChosen>>

WardrobeNext ==
  \/ \E c \in WdClasses : ShowClass(c)
  \/ \E skin \in wdOffer, size \in WdSizes : Choose(WdLook(skin, size))
  \/ WdRestart

(***************************************************************************)
(* Properties.                                                             *)
(***************************************************************************)

\* A stored look as a class wears it: what it cannot wear reads as the default.
WdAsWorn(look, offer) == WdLook(WdFitting(look.skin, offer), look.size)

\* Types, and no class is dressed in what was made for another: the class shown wears
\* what is stored of it, the default in place of a skin it cannot wear.
WardrobeTypeOK ==
  /\ wdMemory \in WdStored /\ wdWorn \in [skin : WdAll, size : WdSizes]
  /\ wdWorn.skin \in wdOffer
  /\ wdShown # WdNone => /\ wdOffer = {WdPlain} \cup WdSkins[wdShown] /\ wdMemory[wdShown] # WdNone
                         /\ wdWorn = WdAsWorn(wdMemory[wdShown], wdOffer)

\* A class shown again wears what it was last seen in, whatever the others wore
\* in between and however often the program was restarted.
WornAgain == wdShown # WdNone => wdWorn = wdChosen[wdShown]
==============================================================================
