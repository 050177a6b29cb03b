------------------------------- MODULE MCState -------------------------------
(* What the runtime makes of what it hears, each part on its own: bytes cut    *)
(* into messages and decoded, and messages kept as the state of the world.     *)
(* `subject` says which of them this behaviour is about.                       *)
EXTENDS Codec, Framing, World, Shots, ClientView, Patterns

CONSTANTS Subjects, b1, t1, t2, v1, v2

VARIABLE subject

MCTypes == {[wall |-> TRUE, enemy |-> FALSE, player |-> FALSE], [wall |-> FALSE, enemy |-> TRUE, player |-> FALSE],
            [wall |-> FALSE, enemy |-> FALSE, player |-> TRUE]}
MCTileNews == {<<>>, [p \in WoPlaces |-> "open"]}

MCKinds == {[life |-> 2, passes |-> FALSE, multi |-> TRUE], [life |-> 3, passes |-> TRUE, multi |-> FALSE]}

\* One throw lands sooner than supposed, one later; neither says how long it flies.
MCFlight == [t \in {t1, t2} |-> IF t = t1 THEN 1 ELSE 3]
MCSaid == [t \in {t1, t2} |-> 0]

MCNudges == {-2, 2}

\* A turret that turns an eighth of a circle a volley or steps half a gap to and fro, and an archer.
MCStyles == [m \in {"turret", "archer"} |->
  IF m = "archer" THEN {[arms |-> 1, step |-> 0, turns |-> <<0>>]}
  ELSE {[arms |-> 2, step |-> 4, turns |-> <<1>>], [arms |-> 4, step |-> 2, turns |-> <<1, -1>>]}]
MCSights == {[far |-> 1, speed |-> 0], [far |-> 1, speed |-> 1], [far |-> 3, speed |-> 3]}
MCBearings == {1}

\* Definitions in the shapes packets.json has, and two that no document may have.
P(type) == [kind |-> "primitive", type |-> type]
Arr(length, element) == [kind |-> "array", length |-> length, element |-> element]
Obj(ref) == [kind |-> "object", ref |-> ref]
F(name, value) == [name |-> name, value |-> value, optional |-> FALSE, when |-> << >>]
Opt(field) == [field EXCEPT !.optional = TRUE]
When(field, mask, bit) == [field EXCEPT !.when = <<mask, bit>>]
Doc(packets, objects) == [packets |-> packets, objects |-> objects, strings |-> {1}]
StatFields == <<F("id", P("byte")), F("value", [kind |-> "stat"])>>
MCDocs ==
  [shoot |-> Doc([shoot |-> <<F("owner", P("compressedInt")), Opt(F("num", P("sbyte"))), Opt(F("angle", P("float")))>>], << >>),
   effect |-> Doc([effect |-> <<F("mask", P("byte")), When(F("at", P("int16")), "mask", 1), When(F("long", P("bool")), "mask", 2),
                                When(F("far", P("byte")), "mask", 32),
                                F("last", P("uint16"))>>], << >>),
   tick |-> Doc([tick |-> <<F("text", P("string")), F("stats", Arr("byte", Obj("stat"))), F("raw", P("byteArray16"))>>],
                [stat |-> StatFields]),
   gap |-> Doc([gap |-> <<Opt(F("num", P("byte"))), F("last", P("byte"))>>], << >>),
   loop |-> Doc([tick |-> <<F("stats", Arr("byte", Obj("stat")))>>], [stat |-> <<F("id", P("byte")), F("more", Arr("byte", Obj("stat")))>>])]

Sent(doc, packet, fields, trailing) == [doc |-> doc, packet |-> packet, fields |-> fields, trailing |-> trailing, text |-> TRUE]
Stats == <<[id |-> <<1>>, value |-> <<3, 4>>], [id |-> <<2>>, value |-> <<-40>>]>>
MCTraffic ==
  {Sent("shoot", "shoot", [owner |-> <<n>>], << >>) : n \in {0, 1, 3, 4, -4, 31, 32, -32767}}
  \cup {Sent("shoot", "shoot", [owner |-> <<5>>, num |-> <<-3>>], << >>),
        Sent("shoot", "shoot", [owner |-> <<5>>, num |-> <<7>>, angle |-> <<1, 0, 15, 2>>], <<9, 15>>),
        Sent("effect", "effect", [mask |-> <<0>>, last |-> <<5>>], << >>),
        Sent("effect", "effect", [mask |-> <<1>>, at |-> <<-3>>, last |-> <<255>>], <<7>>),
        Sent("effect", "effect", [mask |-> <<3>>, at |-> <<2>>, long |-> <<1>>, last |-> <<0>>], << >>),
        Sent("tick", "tick", [text |-> <<6, 7>>, stats |-> Stats, raw |-> <<1, 2, 3>>], <<8>>),
        [Sent("tick", "tick", [text |-> <<15>>, stats |-> << >>, raw |-> << >>], << >>) EXCEPT !.text = FALSE],
        Sent("tick", "nobody", << >>, <<2, 3>>),
        Sent("gap", "gap", [num |-> <<1>>, last |-> <<2>>], << >>), Sent("gap", "gap", [last |-> <<2>>], << >>)}

E(name, value) == [name |-> name, value |-> value]
\* Values that fit; bytes out of range, of which two say how to read on; values of no
\* kind their field takes; and lists: one too long for its count, ids out of range.
MCEdits ==
  {E("owner", v) : v \in {<<4>>, <<-32>>, <<32767>>, <<40000>>, CdWrong}}
  \cup {E("num", v) : v \in {<<2>>, <<18>>, CdWrong}} \cup {E("mask", v) : v \in {<<2>>, <<17>>, <<33>>}}
  \cup {E("long", v) : v \in {<<1>>, CdWrong}} \cup {E("angle", v) : v \in {<<0, 1, 0, 1>>, CdWrong}}
  \cup {E("at", v) : v \in {<<-128>>, <<128>>}} \cup {E("text", v) : v \in {<< >>, CdWrong}}
  \cup {E("raw", v) : v \in {<<4>>, CdWrong}} \cup {E("nothing", <<1>>)}
  \cup {E("stats", v) : v \in {<< >>, CdWrong, <<[id |-> <<18>>, value |-> <<5>>], [id |-> <<1>>, value |-> CdWrong]>>,
                               <<[id |-> <<17>>, value |-> <<3, 4>>]>>, [i \in 1..16 |-> [id |-> <<2>>, value |-> <<0>>]]}}

\* Streams: whole frames; one too short; one of the greatest length; one too long.
MCStreams == {<<5, 6, 5, 8>>, <<6, 5, 3, 5>>, <<5, 12, 5>>, <<5, 99>>}

\* Frames the module may write: sound ones, ones with a field of the wrong kind, out
\* of turn, with a damaged header, too long, of a type not known yet, and two moves.
J(type, body) == [type |-> type, body |-> body, length |-> 1, size |-> 1, flaw |-> "none"]
Pressed == [pluginId |-> "string", action |-> "string", value |-> "boolean"]
MCMenu ==
  {J("hotkeyEvent", Pressed), J("hotkeyEvent", [pluginId |-> "string", slot |-> "int", action |-> "string", value |-> "boolean"]),
   J("setFeature", [key |-> "string", value |-> "int"]), [J("pong", [response |-> "string"]) EXCEPT !.flaw = "gap"],
   [J("pong", [response |-> "string"]) EXCEPT !.flaw = "header"], [J("hello", [pid |-> "int", challenge |-> "string"]) EXCEPT !.length = 3],
   [J("newer", << >>) EXCEPT !.length = 0, !.size = 0], J("clientFrame", EncodedFrame(TRUE, TRUE, TRUE, 1, 1)),
   J("clientFrame", [EncodedFrame(TRUE, TRUE, FALSE, 0, 0) EXCEPT !.born = 1, !.size = 56])}

\* Each subject but the one this behaviour is about is at rest in a plain state.
Init ==
  /\ subject \in Subjects
  /\ WorldInit
  /\ SelfInit
  /\ ShotsInit /\ (subject # "shots" => shSpeaks /\ shWalls = {})
  /\ BlastsInit
  /\ ClientViewInit
  /\ PatternsInit
  /\ CodecInit /\ (subject # "codec" => cdDoc = "gap")
  /\ FramerInit /\ (subject # "framer" => frStream = <<5, 99>>)
  /\ IpcInit

Others(moving) ==
  /\ UNCHANGED subject
  /\ IF moving = "world" THEN TRUE ELSE UNCHANGED woVars
  /\ IF moving = "self" THEN TRUE ELSE UNCHANGED sfVars
  /\ IF moving = "shots" THEN TRUE ELSE UNCHANGED shVars
  /\ IF moving = "blasts" THEN TRUE ELSE UNCHANGED blVars
  /\ IF moving = "view" THEN TRUE ELSE UNCHANGED cvVars
  /\ IF moving = "patterns" THEN TRUE ELSE UNCHANGED apVars
  /\ IF moving = "codec" THEN TRUE ELSE UNCHANGED cdVars
  /\ IF moving = "framer" THEN TRUE ELSE UNCHANGED frVars
  /\ IF moving = "pipe" THEN TRUE ELSE UNCHANGED ipVars

Next ==
  \/ subject = "world" /\ WorldNext /\ Others("world")
  \/ subject = "self" /\ SelfNext /\ Others("self")
  \/ subject = "shots" /\ ShotsNext /\ Others("shots")
  \/ subject = "blasts" /\ BlastsNext /\ Others("blasts")
  \/ subject = "view" /\ ClientViewNext /\ Others("view")
  \/ subject = "patterns" /\ PatternsNext /\ Others("patterns")
  \/ subject = "codec" /\ CodecNext /\ Others("codec")
  \/ subject = "framer" /\ FramerNext /\ Others("framer")
  \/ subject = "pipe" /\ IpcNext /\ Others("pipe")

vars == <<subject, woVars, sfVars, shVars, blVars, cvVars, apVars, cdVars, frVars, ipVars>>

Spec == Init /\ [][Next]_vars

(***************************************************************************)
(* Properties, put together by what they are about.                        *)
(***************************************************************************)
\* The type invariants of the parts.
StateTypes ==
  /\ subject = "world" => WorldTypeOK
  /\ subject = "self" => SelfTypeOK
  /\ subject = "shots" => ShotsTypeOK
  /\ subject = "blasts" => BlastsTypeOK
  /\ subject = "patterns" => PatternsTypeOK
  /\ subject = "codec" => CodecTypeOK
  /\ subject = "framer" => FramerTypeOK

\* What the runtime believes of the world is of its kind and is what it was told,
\* derived lists and measures included: tiles and entities, the player's figures,
\* shots in flight, flights measured, the client's position, the fire of enemies
\* (state/, observe/, features/dodge).
WorldIsAsSaid ==
  /\ StateTypes
  /\ subject = "world" => ListsAreCurrent /\ WallsBlockAlone /\ NothingElseBlocks
  /\ subject = "self" => AsLastSaid /\ GroupsAreWhole
  /\ subject = "shots" => FlownIsKnown /\ NoPhantoms
  /\ subject = "blasts" => FlightLearnt /\ ThrowersAreNotBombers
  /\ subject = "view" => OwnAndFresh /\ FollowedWithinTwo
  /\ subject = "patterns" => Foreseen /\ GapIsNear

\* A message is what its sender wrote, however the bytes of it arrive: packets decoded
\* and written again, frames cut out of a stream, messages of the pipe
\* (codec, PacketFramer.ts, packages/ipc).
BytesAreWhole ==
  /\ subject = "codec" => SentIsRead /\ ReproducesItsBytes /\ EditIsRead
  /\ subject = "framer" => NothingLost /\ FramesWhole /\ NothingKeptBack
  /\ subject = "pipe" => HeardIsSaid /\ NothingAstrayHeard /\ LostForCause /\ HeldBehindMalformed

\* What a step does to what is known: permanent bonuses are replaced with the figures
\* they are of, and a learnt blast never narrows.
KnownStepByStep == ReplacedWhenMoved /\ NeverNarrower
==============================================================================
