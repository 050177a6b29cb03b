------------------------------ MODULE ChatBox ------------------------------
(* A line of chat on its way to the client: hidden by the chat filter          *)
(* (features/chatfilter), and then rewritten by streamer mode                  *)
(* (features/streamermode/streamerModePlugin.ts, TEXT), in the order in which  *)
(* Application.ts loads the two. A name is spelt with a token behind it or     *)
(* without; a character is itself, or stands for a class of characters.        *)
EXTENDS Integers, Sequences

CONSTANTS CbLines,     \* TEXT packets: [own, sender, stars, clean, text, reads, mentions, opaque]
          CbBare,      \* bareName, of every spelling of a name; "" is no name
          CbMe,        \* the bare name of the player's character
          CbOthers, CbSystem, CbNpc, \* who else says it
          CbAlias,     \* a stand-in for the player's name, and
          CbStandIn,   \* for the stars
          CbRules,     \* what a rule of a list matches: sets of spellings
          CbMaxScanned, CbFloodRun, CbFloodMin,
          CbSwitched,  \* the categories somebody switches on and off
          CbMost       \* bound on what is counted

\* Nobody else bears the player's name or none, the game's lines come from nobody, a
\* character's bear no stars, and the player's own bear the player's name, in some spelling.
ASSUME ChatBoxAssumption ==
  /\ CbMe \notin {"", CbAlias} /\ CbAlias # "" /\ CbBare[""] = "" /\ CbBare[CbAlias] # CbMe
  /\ CbSystem \notin CbOthers /\ \A s \in CbOthers : CbBare[s] \notin {"", CbMe}
  /\ CbMaxScanned \in Nat
  /\ \A line \in CbLines :
       /\ line.stars \in Int /\ line.text \in Seq(STRING) /\ line.clean \in Seq(STRING)
       /\ line.own => CbBare[line.sender] = CbMe
       /\ line.sender = CbNpc => line.stars < 0

VARIABLES cbFilters, cbStreams, \* whether each plugin is enabled
          cbEnabled,   \* enabled: the categories switched on
          cbBlock, cbAllow, \* the compiled lists: sets of rules
          cbBound,     \* session.self.objectId is known
          cbName,      \* session.self.name, as the server spelt it
          cbAlias,     \* the alias setting, trimmed
          cbHidden, cbTotal, cbLast, \* hidden, hiddenTotal, last
          cbShown,     \* the last line: what was said, and what the client got of it
          cbDropped    \* ours: lines dropped since a session last connected

cbPlugins == <<cbFilters, cbStreams>>
cbLists == <<cbEnabled, cbBlock, cbAllow>>
cbSelf == <<cbBound, cbName>>
cbCounts == <<cbHidden, cbTotal, cbLast, cbDropped>>
cbVars == <<cbPlugins, cbLists, cbSelf, cbAlias, cbCounts, cbShown>>

(***************************************************************************)
(* scanText.ts: a line in the shapes the signals read it in.               *)
(***************************************************************************)
Letters == {"a", "c", "i", "k", "l", "o", "s", "t", "w"}
Digits == {"0", "1", "7"}
Invisible == {"zw"}
\* toLowerCase, of a capital, and a fullwidth letter for NFKC.
Capitals == [S |-> "s"]
Compatible == [fwt |-> "t"]
\* Cyrillic letters, and a box-drawing bar.
Homoglyphs == [cyo |-> "o", cya |-> "a", bar |-> "pipe"]
LeetOf(c) == CASE c \in {"1", "l"} -> "i" [] c = "0" -> "o" [] c = "7" -> "t" [] c = "@" -> "a" [] c = "$" -> "s" [] OTHER -> c
Through(table, text) == [i \in DOMAIN text |-> IF text[i] \in DOMAIN table THEN table[text[i]] ELSE text[i]]

\* The characters at some places of a text, in their order.
KeptAt(text, places) ==
  LET kept[n \in 0..Len(text)] ==
        IF n = 0 THEN <<>> ELSE IF n \in places THEN Append(kept[n - 1], text[n]) ELSE kept[n - 1]
  IN kept[Len(text)]

Cut(text) == IF Len(text) > CbMaxScanned THEN SubSeq(text, 1, CbMaxScanned) ELSE text

Normalise(text) == Through(Compatible, KeptAt(text, {i \in DOMAIN text : text[i] \notin Invisible}))
Fold(text) == Through(Homoglyphs, Through(Capitals, Normalise(text)))

\* compactOf: letters and digits only, and no digit standing for a letter.
CompactOf(text) ==
  LET unleet == [i \in DOMAIN text |-> LeetOf(text[i])]
  IN KeptAt(unleet, {i \in DOMAIN text : unleet[i] \in Letters \cup Digits})

Holds(text, word) == \E i \in 0..Len(text) - Len(word) : SubSeq(text, i + 1, i + Len(word)) = word

\* Whether the text holds it as a word of its own.
HoldsWord(text, word) ==
  \E i \in 0..Len(text) - Len(word) :
     /\ SubSeq(text, i + 1, i + Len(word)) = word
     /\ i = 0 \/ text[i] \notin Letters \cup Digits
     /\ i + Len(word) = Len(text) \/ text[i + Len(word) + 1] \notin Letters \cup Digits

\* hasLongRun, of the text as it arrived.
HasLongRun(text) ==
  /\ Len(text) >= CbFloodMin
  /\ \E i \in 1..Len(text) - CbFloodRun + 1 :
       text[i] # " " /\ \A k \in i..i + CbFloodRun - 1 : text[k] = text[i]

(***************************************************************************)
(* spamSignals.ts. A signal that is a pattern over punctuation is read by  *)
(* the line itself; the needles are folded as the text is.                 *)
(***************************************************************************)
ShopWord == <<"s", "t", "o", "c", "k">>

Needle(word) == CompactOf(word)
TradeCall == <<"w", "t", "s">>

SpamSignals ==
  << <<"shop-domain", "advertising">>, <<"shop-word", "advertising">>, <<"payment-method", "advertising">>,
     <<"shop-phrase", "advertising">>, <<"shop-columns", "advertising">>, <<"masked-scheme", "link">>,
     <<"link-shortener", "link">>, <<"off-game-platform", "link">>, <<"obfuscated-address", "link">>,
     <<"trade-call", "trading">>, <<"ascii-banner", "flood">>, <<"repeated-character", "flood">>,
     <<"bot-tail", "flood">> >>

Matching(body, reads) ==
  LET raw == Cut(body)
      lower == Fold(raw)
  IN reads
     \cup (IF Holds(CompactOf(lower), Needle(ShopWord)) THEN {"shop-word"} ELSE {})
     \cup (IF HoldsWord(lower, TradeCall) THEN {"trade-call"} ELSE {})
     \cup (IF HasLongRun(raw) THEN {"repeated-character"} ELSE {})

\* firstMatchingSignal, in an enabled category.
FirstSignal(body, reads) ==
  LET found == {i \in DOMAIN SpamSignals : /\ SpamSignals[i][2] \in cbEnabled
                                           /\ SpamSignals[i][1] \in Matching(body, reads)}
  IN IF found = {} THEN "none" ELSE SpamSignals[CHOOSE i \in found : \A j \in found : i <= j][1]

(***************************************************************************)
(* chatFilterPlugin.ts.                                                    *)
(***************************************************************************)
Categories == {SpamSignals[i][2] : i \in DOMAIN SpamSignals}
Reasons == {SpamSignals[i][1] : i \in DOMAIN SpamSignals} \cup {"blocked-sender"}
NothingHidden == [r \in Reasons |-> 0]
MatchesAny(rules, sender) == \E r \in rules : sender \in r

\* Whose lines are never examined.
Exempt(line) ==
  line.sender = CbSystem \/ CbBare[line.sender] = CbBare[cbName] \/ line.stars < 0

\* The clean form of a line, unless that is empty.
Body(line) == IF line.clean = <<>> THEN line.text ELSE line.clean

\* Why a line is hidden, or "none": nobody exempt, then the lists, blocked
\* before allowed, then the signals.
Verdict(line) ==
  IF \/ cbEnabled = {} /\ cbBlock = {}
     \/ line.opaque \/ Exempt(line) THEN "none"
  ELSE IF MatchesAny(cbBlock, line.sender) THEN "blocked-sender"
  ELSE IF MatchesAny(cbAllow, line.sender) \/ Body(line) = <<>> THEN "none"
  ELSE FirstSignal(Body(line), line.reads)

\* What the client gets of a line: who it is from, the stars beside it, whether
\* it names the player.
Drawn(sender, stars, mentions) == [sender |-> sender, stars |-> stars, mentions |-> mentions]
AsSaid(line) == Drawn(line.sender, line.stars, line.mentions)

\* Streamer mode's TEXT: the stars and the sender of the player's own object,
\* and the name wherever it stands, once there is one and another to show.
Own(line) == cbBound /\ line.own
Rewrites == cbAlias # "" /\ CbBare[cbName] \notin {"", cbAlias}
Disguised(line) ==
  Drawn(IF Rewrites /\ (Own(line) \/ CbBare[line.sender] = CbBare[cbName]) THEN cbAlias ELSE line.sender,
        IF Own(line) THEN CbStandIn ELSE line.stars,
        line.mentions /\ ~Rewrites)

\* The handlers, in the order they were loaded.
Handled(line) ==
  [reason |-> IF cbFilters THEN Verdict(line) ELSE "none",
   drawn  |-> IF cbStreams /\ ~line.opaque THEN Disguised(line) ELSE AsSaid(line)]

\* TEXT.
Said(line) ==
  \E out \in {Handled(line)} :
    /\ cbShown' = [line |-> line, out |-> out]
    /\ IF out.reason = "none" THEN UNCHANGED cbCounts
       ELSE /\ cbTotal < CbMost
            /\ cbTotal' = cbTotal + 1 /\ cbHidden' = [cbHidden EXCEPT ![out.reason] = @ + 1]
            /\ cbLast' = out.reason /\ cbDropped' = cbDropped + 1
    /\ UNCHANGED <<cbPlugins, cbLists, cbSelf, cbAlias>>

Silence == [own |-> FALSE, sender |-> CbSystem, stars |-> 0, clean |-> <<>>, text |-> <<>>, reads |-> {},
            mentions |-> FALSE, opaque |-> FALSE]
Unheard == [line |-> Silence, out |-> [reason |-> "none", drawn |-> AsSaid(Silence)]]

\* onConnected: counted anew, which a filter that is off hears too; the session's
\* character is not known yet.
CbConnected ==
  /\ cbHidden' = NothingHidden /\ cbTotal' = 0 /\ cbLast' = "none" /\ cbDropped' = 0
  /\ cbBound' = FALSE /\ cbName' = "" /\ cbShown' = Unheard
  /\ UNCHANGED <<cbPlugins, cbLists, cbAlias>>

\* CREATESUCCESS names the object; the object names the character.
CbCreated == /\ ~cbBound /\ cbBound' = TRUE /\ cbShown' = Unheard
             /\ UNCHANGED <<cbPlugins, cbLists, cbName, cbAlias, cbCounts>>
CbNamed == /\ cbBound /\ \E name \in DOMAIN CbBare : CbBare[name] = CbMe /\ cbName' = name
           /\ cbShown' = Unheard
           /\ UNCHANGED <<cbPlugins, cbLists, cbBound, cbAlias, cbCounts>>

\* The settings, compiled as they change, and the switches.
CbSettings ==
  /\ cbShown' = Unheard /\ UNCHANGED <<cbSelf, cbCounts>>
  /\ \/ /\ \E c \in CbSwitched :
             cbEnabled' = IF c \in cbEnabled THEN cbEnabled \ {c} ELSE cbEnabled \cup {c}
        /\ UNCHANGED <<cbBlock, cbAllow, cbAlias, cbPlugins>>
     \/ (\E r \in CbRules : cbBlock' \in {{}, {r}}) /\ UNCHANGED <<cbEnabled, cbAllow, cbAlias, cbPlugins>>
     \/ (\E r \in CbRules : cbAllow' \in {{}, {r}}) /\ UNCHANGED <<cbEnabled, cbBlock, cbAlias, cbPlugins>>
     \/ cbAlias' \in {"", CbAlias, CbMe} /\ UNCHANGED <<cbLists, cbPlugins>>
     \/ cbFilters' = ~cbFilters /\ UNCHANGED <<cbLists, cbAlias, cbStreams>>
     \/ cbStreams' = ~cbStreams /\ UNCHANGED <<cbLists, cbAlias, cbFilters>>

ChatBoxInit ==
  /\ cbFilters = TRUE /\ cbStreams = FALSE /\ cbEnabled = Categories /\ cbBlock = {} /\ cbAllow = {}
  /\ cbBound = FALSE /\ cbName = "" /\ cbAlias = CbAlias
  /\ cbHidden = NothingHidden /\ cbTotal = 0 /\ cbLast = "none" /\ cbShown = Unheard /\ cbDropped = 0

ChatBoxNext == (\E line \in CbLines : Said(line)) \/ CbConnected \/ CbCreated \/ CbNamed \/ CbSettings

(***************************************************************************)
(* Properties.                                                             *)
(***************************************************************************)

\* Types, and what the command tells adds up: the total, the reasons and the
\* last one are of the same lines, those dropped since a session connected.
ChatBoxTypeOK ==
  LET Sum[n \in 0..Len(SpamSignals)] ==
        IF n = 0 THEN cbHidden["blocked-sender"] ELSE cbHidden[SpamSignals[n][1]] + Sum[n - 1]
  IN /\ cbTotal = cbDropped /\ cbTotal = Sum[Len(SpamSignals)]
     /\ cbLast = "none" <=> cbTotal = 0
     /\ cbLast # "none" => cbHidden[cbLast] > 0

\* A line of the player's own, of the game or of an NPC is never hidden, under
\* whatever lists, however the server spells the player's name beside the line
\* and in the stat, and whatever streamer mode shows in its place
\* (chatFilterPlugin.ts:10-16, 130-135, Application.ts:1034-1037).
OwnAndGameHeard ==
  LET line == cbShown.line
  IN line.stars < 0 \/ line.sender \in {CbSystem, CbNpc} \/ (line.own /\ cbName # "")
       => cbShown.out.reason = "none"

\* The letter a reader sees in a character, in a line as it is drawn.
Reads(c) == CASE c \in {"o", "0", "cyo"} -> "o" [] c \in {"s", "$", "S"} -> "s" [] c \in {"t", "7", "fwt"} -> "t"
              [] c \in {"a", "@", "cya"} -> "a" [] c \in {"i", "1"} -> "i" [] c \in Letters -> c [] OTHER -> ""

\* A shop's word is seen through whatever it is disguised by: lookalikes, digits
\* for letters, spaces and marks between them, characters that are not drawn
\* (scanText.ts:12-17).
SeenThrough ==
  LET line == cbShown.line
      drawn == KeptAt(Body(line), {i \in DOMAIN Body(line) : Reads(Body(line)[i]) # ""})
  IN /\ Len(Body(line)) <= CbMaxScanned /\ [i \in DOMAIN drawn |-> Reads(drawn[i])] = ShopWord
     /\ cbFilters /\ "advertising" \in cbEnabled /\ line.sender \in CbOthers /\ line.stars >= 0
     /\ ~line.opaque /\ ~MatchesAny(cbAllow, line.sender)
     => cbShown.out.reason # "none"

\* What the client draws does not name the player while streamer mode shows
\* another name, and the player's own line wears the stand-in stars with it:
\* however either spelling trails its token (streamerModePlugin.ts:19-33).
NotNamed ==
  LET line == cbShown.line  drawn == cbShown.out.drawn
  IN cbStreams /\ cbShown # Unheard /\ ~line.opaque =>
       /\ Own(line) => drawn.stars = CbStandIn
       /\ cbName # "" /\ cbAlias = CbAlias => CbBare[drawn.sender] # CbMe /\ ~drawn.mentions
=============================================================================
