-------------------------------- MODULE Claims --------------------------------
(* A claim on the injected module that expires: the collider's (and the glow's,    *)
(* which is the same with a colour for the number), restated every second by the   *)
(* plugin, replayed by the link and kept by the module for a lease                  *)
(* (features/collider/colliderPlugin.ts, features/glow/glowPlugin.ts,               *)
(* NativeLink.setFeature, AcceptFeature of native/src/app/Engine.cpp).              *)
EXTENDS Integers, Sequences

CONSTANTS ClNumbers, \* what the slider may say: multipliers but nought
          ClLease,   \* seconds a claim lasts
          ClUnset,   \* nothing said yet
          ClMaxLinks, ClMaxMoves \* bounds: how often the link comes up, and how often settings and switches move

ASSUME ClaimsAssumption == ClNumbers \subseteq Nat \ {0} /\ ClLease \in Nat \ {0} /\ ClUnset \notin Nat

VARIABLES clOn, clNumber, clGone, \* the plugin's switch, its multiplier and noHitbox
          clSent, clSigning,      \* sent, signing
          clFeatures,   \* NativeLink #features: number, claim, sign and tint, in the order first set
          clLink,       \* whether the link is authenticated
          clWire,       \* messages written and not yet read: <<key, value, what the number was then>>
          clScale, clColour, clUntil, clTintUntil, \* the module: multiplier, sign, seconds left of the claims
          clEnabled,    \* ours: whether the plugin was loaded, and not disposed
          clOff,        \* ours: seconds since the plugin was switched off or unloaded
          clLinks, clMoves

clPlugin == <<clOn, clNumber, clGone, clSent, clSigning, clEnabled>>
clModule == <<clScale, clColour, clUntil, clTintUntil>>
clVars == <<clPlugin, clFeatures, clLink, clWire, clModule, clOff, clLinks, clMoves>>

ClValue == IF clGone THEN 0 ELSE clNumber

ClaimsInit ==
  /\ clOn \in BOOLEAN /\ clNumber \in ClNumbers /\ clGone \in BOOLEAN /\ clSent = ClUnset /\ clSigning = FALSE
  /\ clFeatures = <<>> /\ clLink = FALSE /\ clWire = <<>> /\ clEnabled = TRUE
  /\ clScale = ClUnset /\ clColour = FALSE /\ clUntil = 0 /\ clTintUntil = 0
  /\ clOff = 0 /\ clLinks = 0 /\ clMoves = 0

(***************************************************************************)
(* setFeature of several keys in turn: each kept where it was first put,    *)
(* and sent when there is a link.                                          *)
(***************************************************************************)

ClKept(features, key, value) ==
  IF \E i \in DOMAIN features : features[i][1] = key
  THEN [i \in DOMAIN features |-> IF features[i][1] = key THEN <<key, value>> ELSE features[i]]
  ELSE Append(features, <<key, value>>)

ClMarked(messages, number) == [i \in DOMAIN messages |-> <<messages[i][1], messages[i][2], number>>]

\* The messages of a turn of the event loop: at most four.
ClKeptAll(features, messages) ==
  LET kept[i \in 0..Len(messages)] ==
        IF i = 0 THEN features ELSE ClKept(kept[i - 1], messages[i][1], messages[i][2])
  IN kept[Len(messages)]
ClSay(messages, number) ==
  /\ clFeatures' = ClKeptAll(clFeatures, messages)
  /\ clWire' = IF clLink THEN clWire \o ClMarked(messages, number) ELSE clWire

ClSaid(when, key, value) == IF when THEN <<<<key, value>>>> ELSE <<>>

\* claim: the number when it has moved, the claim, and the sign.
ClaimMessages(number, gone) ==
  ClSaid(number # clSent, "number", number) \o ClSaid(TRUE, "claim", TRUE)
  \o ClSaid(gone /\ ~clSigning, "sign", TRUE) \o ClSaid(gone \/ clSigning, "tint", gone)

Claim(number, gone) ==
  /\ ClSay(ClaimMessages(number, gone), number) /\ clSent' = number /\ clSigning' = gone

\* The module gets to what is written well within the second between two claims.
ClQuiet == clWire = <<>>

(***************************************************************************)
(* The plugin.                                                             *)
(***************************************************************************)

ClMoved == clMoves < ClMaxMoves /\ clMoves' = clMoves + 1

\* answerNow: a setting moved is claimed at once, while enabled.
ClSettings(number, gone) ==
  /\ ClQuiet /\ clEnabled /\ <<number, gone>> # <<clNumber, clGone>> /\ ClMoved
  /\ clNumber' = number /\ clGone' = gone
  /\ IF clOn THEN Claim(IF gone THEN 0 ELSE number, gone) ELSE UNCHANGED <<clSent, clSigning, clFeatures, clWire>>
  /\ UNCHANGED <<clOn, clEnabled, clLink, clModule, clOff, clLinks>>

ClSwitch == /\ ClQuiet /\ clEnabled /\ ClMoved /\ clOn' = ~clOn /\ clOff' = 0
            /\ UNCHANGED <<clNumber, clGone, clSent, clSigning, clEnabled, clFeatures, clLink, clWire, clModule, clLinks>>

\* onDispose.
ClUnload ==
  /\ ClQuiet /\ clEnabled /\ ClMoved /\ clEnabled' = FALSE /\ clOn' = FALSE /\ clOff' = 0
  /\ ClSay(ClSaid(TRUE, "claim", FALSE) \o ClSaid(clSigning, "tint", FALSE), ClValue)
  /\ UNCHANGED <<clNumber, clGone, clSent, clSigning, clLink, clModule, clLinks>>

\* A second: the heartbeat, which runs only while enabled, and the leases.
ClSecond ==
  /\ ClQuiet
  /\ clUntil' = IF clUntil = 0 THEN 0 ELSE clUntil - 1
  /\ clTintUntil' = IF clTintUntil = 0 THEN 0 ELSE clTintUntil - 1
  /\ IF clOn THEN Claim(ClValue, clGone) /\ UNCHANGED clOff
     ELSE clOff' = (IF clOff <= ClLease THEN clOff + 1 ELSE clOff) /\ UNCHANGED <<clSent, clSigning, clFeatures, clWire>>
  /\ UNCHANGED <<clOn, clNumber, clGone, clEnabled, clScale, clColour, clLink, clLinks, clMoves>>

(***************************************************************************)
(* The link and the module.                                                *)
(***************************************************************************)

Replay == clFeatures

\* The module connects, a new one or the same again: every key is said again.
ClConnect(anew) ==
  /\ ~clLink /\ clLinks < ClMaxLinks /\ clLinks' = clLinks + 1 /\ clLink' = TRUE
  /\ clWire' = ClMarked(Replay, clSent)
  /\ IF anew THEN clScale' = ClUnset /\ clColour' = FALSE /\ clUntil' = 0 /\ clTintUntil' = 0
             ELSE UNCHANGED clModule
  /\ UNCHANGED <<clPlugin, clFeatures, clOff, clMoves>>

\* What is on the wire is lost with it; the module's leases run on.
ClDisconnect == /\ clLink /\ clLink' = FALSE /\ clWire' = <<>>
                /\ UNCHANGED <<clPlugin, clFeatures, clModule, clOff, clLinks, clMoves>>

\* AcceptFeature.
ClAccept ==
  /\ clWire # <<>> /\ clWire' = Tail(clWire)
  /\ LET key == Head(clWire)[1]  value == Head(clWire)[2]
     IN /\ clScale' = IF key = "number" THEN value ELSE clScale
        /\ clColour' = (clColour \/ key = "sign")
        /\ clUntil' = IF key = "claim" THEN (IF value THEN ClLease ELSE 0) ELSE clUntil
        /\ clTintUntil' = IF key = "tint" THEN (IF value THEN ClLease ELSE 0) ELSE clTintUntil
  /\ UNCHANGED <<clPlugin, clFeatures, clLink, clOff, clLinks, clMoves>>

ClaimsNext ==
  \/ \E n \in ClNumbers, gone \in BOOLEAN : ClSettings(n, gone)
  \/ ClSwitch \/ ClUnload \/ ClSecond \/ ClAccept \/ ClDisconnect
  \/ \E anew \in BOOLEAN : ClConnect(anew)

(***************************************************************************)
(* Properties.                                                             *)
(***************************************************************************)

\* Types, and the module holds no sign on the bar longer than the claim on the
\* collider the sign is of, while the link is there to say so.
ClaimsTypeOK ==
  /\ clScale \in ClNumbers \cup {0, ClUnset} /\ clUntil \in 0..ClLease /\ clTintUntil \in 0..ClLease
  /\ clSent \in ClNumbers \cup {0, ClUnset} /\ Len(clFeatures) <= 4
  /\ ClQuiet /\ clLink => clTintUntil <= clUntil

\* A claim is never heard before the number it applies (colliderPlugin.ts:139-140),
\* over lost links, new modules and the replay of everything: a claim that is
\* renewed scales by the number in force when it was said.
NeverOnOld ==
  [][ClAccept /\ Head(clWire)[1] = "claim" /\ Head(clWire)[2] => clScale' = Head(clWire)[3]]_clVars

\* The bar wears its sign with the right colour only.
SignedInColour == clTintUntil > 0 => clColour

\* With the switch off, or the plugin unloaded, the collider is the game's own in
\* the end, whatever the link did, unless the switch is on again first.
ClGivenUp == ~clOn
ClRestored == clOn \/ (clUntil = 0 /\ clTintUntil = 0)
=============================================================================
