-------------------------------- MODULE Codec --------------------------------
(* What the proxy reads of a packet and what it writes back: the definitions   *)
(* it loads, the bytes of a body decoded against one, a plugin's edits of the  *)
(* fields, and the body encoded again (packages/protocol: schema, binary and   *)
(* codec; plugin-api's MutablePacket).  A byte is a digit of base CdByte, 256  *)
(* in the code: every width is a number of bytes, as there.  A value is a      *)
(* sequence (a number <<n>>, a text its bytes, an array its elements) or, for  *)
(* a data object, a function from the names of its fields that are there.      *)
EXTENDS Integers, Sequences, FiniteSets, TLC
LOCAL INSTANCE SequencesExt

CONSTANTS CdByte,      \* how many values a byte has
          CdDocs,      \* definition documents: name -> [packets, objects]
          CdTraffic,   \* what peers send: [doc, packet, fields, trailing, text]
          CdEdits,     \* what plugins write: [name, value]
          CdWrong,     \* a value of no kind a field takes
          CdNone       \* nothing: JavaScript's undefined

ASSUME CodecBase == CdByte \in {8 * k : k \in 1..32}

VARIABLES cdDoc,     \* the document the runtime was started with
          cdSent,    \* what the peer sent, CdNone between packets
          cdWire,    \* the body that arrived, cut short or whole
          cdPacket,  \* what it decoded to: [known, fields, rest, modified, edited]
          cdOut      \* what was made of it: [how, body]

cdVars == <<cdDoc, cdSent, cdWire, cdPacket, cdOut>>

(***************************************************************************)
(* Definitions (loadDefinitions.ts).  A field is [name, value, optional,   *)
(* when]; when is << >> or the <<field, bit>> that says it is there.       *)
(***************************************************************************)
CdFixed == [byte |-> [bytes |-> 1, signed |-> FALSE], sbyte |-> [bytes |-> 1, signed |-> TRUE],
            int16 |-> [bytes |-> 2, signed |-> TRUE], uint16 |-> [bytes |-> 2, signed |-> FALSE],
            int32 |-> [bytes |-> 4, signed |-> TRUE], uint32 |-> [bytes |-> 4, signed |-> FALSE]]
CdSized == [string |-> "int16", utf32string |-> "int32", byteArray16 |-> "int16", byteArray32 |-> "int32"]
CdMasks == DOMAIN CdFixed \cup {"compressedInt"}
CdLengths == CdMasks \ {"sbyte", "uint32"}

FieldsNamed(v, objects) ==
  \/ v.kind = "primitive" /\ v.type \in CdMasks \cup DOMAIN CdSized \cup {"bool", "float"}
  \/ v.kind = "stat"
  \/ v.kind = "object" /\ v.ref \in DOMAIN objects

Expressible(v, objects) ==
  IF v.kind = "array" THEN v.length \in CdLengths /\ v.element.kind # "array" /\ FieldsNamed(v.element, objects)
  ELSE FieldsNamed(v, objects)

CanCarry(f, bit) == /\ f.value.kind = "primitive" /\ f.value.type \in CdMasks
                    /\ ~f.optional /\ f.when = << >>
                    /\ \E k \in 0..30 : bit = 2^k

FieldsFit(fields, objects, inObject) ==
  \A i \in DOMAIN fields : LET f == fields[i] IN
    /\ \A j \in 1..(i - 1) : fields[j].name # f.name /\ (fields[j].optional => f.optional)
    /\ f.optional => ~inObject
    /\ Expressible(f.value, objects)
    /\ f.when # << >> => \E j \in 1..(i - 1) : fields[j].name = f.when[1] /\ CanCarry(fields[j], f.when[2])

Refs(fields) ==
  LET vs == {IF f.value.kind = "array" THEN f.value.element ELSE f.value : f \in {fields[i] : i \in DOMAIN fields}}
  IN {v.ref : v \in {w \in vs : w.kind = "object"}}

\* No data object contains itself: every set of them has one that refers to none of it.
Acyclic(objects) ==
  \A S \in SUBSET DOMAIN objects : S # {} => \E n \in S : Refs(objects[n]) \cap S = {}

Accepted(doc) ==
  /\ \A n \in DOMAIN doc.objects : FieldsFit(doc.objects[n], doc.objects, TRUE)
  /\ Acyclic(doc.objects)
  /\ DOMAIN doc.packets # {}
  /\ \A n \in DOMAIN doc.packets : FieldsFit(doc.packets[n], doc.objects, FALSE)

Schema(name) == CdDocs[cdDoc].packets[name]
ObjectFields(ref) == CdDocs[cdDoc].objects[ref]
StringStat(id) == id \in CdDocs[cdDoc].strings

(***************************************************************************)
(* Reading (ByteReader.ts, decode.ts): what was read, and the bytes left.  *)
(***************************************************************************)
Unread == [ok |-> FALSE, value |-> << >>, rest |-> << >>]
Took(value, rest) == [ok |-> TRUE, value |-> value, rest |-> rest]
ReadAfter(w, n) == SubSeq(w, n + 1, Len(w))

ReadFixed(w, shape) ==
  LET n == FoldLeft(LAMBDA sum, b : sum * CdByte + b, 0, SubSeq(w, 1, shape.bytes))
      top == CdByte^shape.bytes IN
  IF Len(w) < shape.bytes THEN Unread
  ELSE Took(<<IF shape.signed /\ 2 * n >= top THEN n - top ELSE n>>, ReadAfter(w, shape.bytes))

\* Six bits and a sign in the first byte, seven in each one after it: at most
\* five more, and no more than an int32 holds.
CdLimit == CdByte^4 \div 2 - 1
Place(i) == IF i = 1 THEN 1 ELSE (CdByte \div 4) * (CdByte \div 2)^(i - 2)
Digit(i) == CdByte \div (IF i = 1 THEN 4 ELSE 2)
ReadCompressed(w) ==
  LET ends == {i \in 1..(IF Len(w) < 6 THEN Len(w) ELSE 6) : w[i] < CdByte \div 2}
      last == CHOOSE i \in ends : \A j \in ends : i <= j
      size == FoldLeft(LAMBDA sum, i : sum + (w[i] % Digit(i)) * Place(i), 0, [i \in 1..last |-> i])
      negative == (w[1] \div (CdByte \div 4)) % 2 = 1 IN
  IF ends = {} THEN Unread
  ELSE IF size > CdLimit THEN Unread
  ELSE Took(<<IF negative THEN -size ELSE size>>, ReadAfter(w, last))

ReadNumber(w, type) == IF type = "compressedInt" THEN ReadCompressed(w) ELSE ReadFixed(w, CdFixed[type])

\* A text that is not UTF-8 is read with marks where it is not: CdByte - 1 is
\* a byte no UTF-8 text has.
Text(s) ==
  FoldLeft(LAMBDA t, b : t \o (IF b = CdByte - 1 THEN <<CdByte - 2, CdByte - 3, CdByte - 4>> ELSE <<b>>), << >>, s)

ReadSized(w, type) ==
  LET size == ReadNumber(w, CdSized[type])
      n == size.value[1]
      bytes == SubSeq(size.rest, 1, n) IN
  IF ~size.ok THEN Unread
  ELSE IF n < 0 \/ n > Len(size.rest) THEN Unread
  ELSE Took(IF type \in {"string", "utf32string"} THEN Text(bytes) ELSE bytes, ReadAfter(size.rest, n))

ReadPrimitive(w, type) ==
  IF type = "bool"
    THEN LET b == ReadNumber(w, "byte") IN [b EXCEPT !.value = IF b.ok THEN <<IF b.value = <<0>> THEN 0 ELSE 1>> ELSE << >>]
  ELSE IF type = "float" THEN (IF Len(w) < 4 THEN Unread ELSE Took(SubSeq(w, 1, 4), ReadAfter(w, 4)))
  ELSE IF type \in DOMAIN CdSized THEN ReadSized(w, type)
  ELSE ReadNumber(w, type)

Present(bit, values) == bit[1] \in DOMAIN values /\ (values[bit[1]][1] \div bit[2]) % 2 = 1

\* A field, or an element, joins what was read before it, or there is nothing.
Named(r, f, v) == IF v.ok THEN Took(r.value @@ (f.name :> v.value), v.rest) ELSE Unread
Grown(r, e) == IF e.ok THEN Took(Append(r.value, e.value), e.rest) ELSE Unread

RECURSIVE ReadFields(_, _), ReadValue(_, _, _)
ReadFields(w, fields) ==
  FoldLeft(LAMBDA r, f :
             IF ~r.ok \/ (f.optional /\ r.rest = << >>) \/ (f.when # << >> /\ ~Present(f.when, r.value)) THEN r
             ELSE Named(r, f, ReadValue(r.rest, f.value, r.value)),
           Took(<< >>, w), fields)

ReadValue(w, v, scope) ==
  IF v.kind = "primitive" THEN ReadPrimitive(w, v.type)
  ELSE IF v.kind = "stat"
    THEN IF "id" \notin DOMAIN scope THEN Unread
         ELSE IF StringStat(scope["id"][1]) THEN ReadSized(w, "string") ELSE ReadCompressed(w)
  ELSE IF v.kind = "object" THEN ReadFields(w, ObjectFields(v.ref))
  ELSE LET count == ReadNumber(w, v.length) IN
    IF ~count.ok THEN Unread
    ELSE IF count.value[1] < 0 \/ count.value[1] > Len(count.rest) THEN Unread
    ELSE FoldLeft(LAMBDA r, i : IF ~r.ok THEN r ELSE Grown(r, ReadValue(r.rest, v.element, << >>)),
                  Took(<< >>, count.rest), [i \in 1..count.value[1] |-> i])

Decoded(packet, w) ==
  LET r == IF packet \in DOMAIN CdDocs[cdDoc].packets THEN ReadFields(w, Schema(packet)) ELSE Unread IN
  [known |-> r.ok, fields |-> r.value, rest |-> IF r.ok THEN r.rest ELSE w, modified |-> FALSE, edited |-> {}]

(***************************************************************************)
(* Writing (ByteWriter.ts, encode.ts): the bytes, or a refusal (EncodeError).*)
(***************************************************************************)
Refused == [ok |-> FALSE, out |-> << >>]
Put(bytes) == [ok |-> TRUE, out |-> bytes]
Both(a, b) == IF a.ok /\ b.ok THEN Put(a.out \o b.out) ELSE Refused

\* One type is masked to its width, every other one refused outside it.
WriteFixed(n, type) ==
  LET k == CdFixed[type].bytes
      least == IF CdFixed[type].signed THEN -(CdByte^k \div 2) ELSE 0 IN
  IF type # "byte" /\ n \notin least..(least + CdByte^k - 1) THEN Refused
  ELSE Put([i \in 1..k |-> (n \div CdByte^(k - i)) % CdByte])

WriteCompressed(n) ==
  LET size == IF n < 0 THEN -n ELSE n
      k == CHOOSE i \in 1..6 : size < Place(i + 1) /\ \A j \in 1..(i - 1) : size >= Place(j + 1) IN
  IF size > CdLimit THEN Refused
  ELSE Put([i \in 1..k |-> ((size \div Place(i)) % Digit(i)) + (IF i < k THEN CdByte \div 2 ELSE 0)
                           + (IF i = 1 /\ n < 0 THEN CdByte \div 4 ELSE 0)])

WriteNumber(n, type) == IF type = "compressedInt" THEN WriteCompressed(n) ELSE WriteFixed(n, type)
WriteSized(bytes, type) == Both(WriteNumber(Len(bytes), CdSized[type]), Put(bytes))

\* What is missing is nothing: 0, FALSE, no text.  Flags and floats take what
\* is no number for nothing too; the other types refuse it.
Amiss(v) == v = CdNone \/ v = CdWrong
WritePrimitive(v, type) ==
  IF type = "bool" THEN Put(IF Amiss(v) THEN <<0>> ELSE v)
  ELSE IF type = "float" THEN Put(IF Amiss(v) THEN <<0, 0, 0, 0>> ELSE v)
  ELSE IF v = CdWrong THEN Refused
  ELSE IF type \in DOMAIN CdSized THEN WriteSized(IF v = CdNone THEN << >> ELSE v, type)
  ELSE WriteNumber(IF v = CdNone THEN 0 ELSE v[1], type)

WriteStat(values, v) ==
  IF "id" \notin DOMAIN values THEN Refused
  ELSE IF StringStat(values["id"][1]) THEN WriteSized(IF Amiss(v) THEN << >> ELSE v, "string")
  ELSE WriteCompressed(IF Amiss(v) THEN 0 ELSE v[1])

\* The fields a body holds: up to the first optional one that is absent, and of
\* those the ones a mask does not leave out.
OnWire(fields, values) ==
  LET gone == {i \in DOMAIN fields : fields[i].optional /\ fields[i].name \notin DOMAIN values} IN
  {i \in DOMAIN fields : /\ \A j \in gone : i < j
                         /\ fields[i].when # << >> => Present(fields[i].when, values)}

RECURSIVE WriteFields(_, _), WriteValue(_, _)
WriteFields(fields, values) ==
  FoldLeft(LAMBDA w, i :
             LET f == fields[i]
                 v == IF f.name \in DOMAIN values THEN values[f.name] ELSE CdNone IN
             IF i \notin OnWire(fields, values) THEN w
             ELSE Both(w, IF f.value.kind = "stat" THEN WriteStat(values, v) ELSE WriteValue(v, f.value)),
           Put(<< >>), [i \in DOMAIN fields |-> i])

WriteValue(v, schema) ==
  IF schema.kind = "primitive" THEN WritePrimitive(v, schema.type)
  ELSE IF schema.kind = "stat" THEN Refused
  ELSE IF schema.kind = "object" THEN IF Amiss(v) THEN Refused ELSE WriteFields(ObjectFields(schema.ref), v)
  ELSE IF v = CdWrong THEN Refused
  ELSE LET items == IF v = CdNone THEN << >> ELSE v IN
    FoldLeft(LAMBDA w, e : Both(w, WriteValue(e, schema.element)), WriteNumber(Len(items), schema.length), items)

Encoded(packet, fields, trailing) == Both(WriteFields(Schema(packet), fields), Put(trailing))

(***************************************************************************)
(* A packet in the proxy's hands.                                          *)
(***************************************************************************)
Idle == /\ cdSent' = CdNone /\ cdWire' = << >> /\ cdPacket' = CdNone
NotYet == [how |-> "none", body |-> << >>]

CodecInit ==
  /\ cdDoc \in DOMAIN CdDocs /\ cdSent = CdNone /\ cdWire = << >> /\ cdPacket = CdNone /\ cdOut = NotYet

\* A frame whose id nobody defined is all trailing.
Body(t) == IF t.packet \in DOMAIN CdDocs[cdDoc].packets THEN Encoded(t.packet, t.fields, t.trailing).out ELSE t.trailing

\* The runtime starts only with a document it accepts.
FrameArrives(t, n) ==
  /\ Accepted(CdDocs[cdDoc]) /\ cdPacket = CdNone /\ t.doc = cdDoc /\ n <= Len(Body(t))
  /\ cdSent' = t /\ cdWire' = SubSeq(Body(t), 1, n) /\ cdPacket' = Decoded(t.packet, cdWire')
  /\ cdOut' = NotYet /\ UNCHANGED cdDoc

\* MutablePacket.set: an opaque packet and a name its definition lacks are refused.
SetField(e) ==
  /\ cdPacket # CdNone /\ cdOut = NotYet /\ cdPacket.known
  /\ \E i \in DOMAIN Schema(cdSent.packet) : Schema(cdSent.packet)[i].name = e.name
  /\ cdPacket' = [cdPacket EXCEPT !.fields = (e.name :> e.value) @@ @, !.modified = TRUE, !.edited = @ \cup {e.name}]
  /\ UNCHANGED <<cdDoc, cdSent, cdWire, cdOut>>

\* Untouched bytes go on as they came, an edited packet is written again; one
\* that cannot be ends the session (ProxySession).
Forward ==
  /\ cdPacket # CdNone /\ cdOut = NotYet
  /\ \E w \in {IF cdPacket.modified THEN Encoded(cdSent.packet, cdPacket.fields, cdPacket.rest) ELSE Put(cdWire)} :
       cdOut' = [how |-> IF w.ok THEN "sent" ELSE "closed", body |-> w.out]
  /\ UNCHANGED <<cdDoc, cdSent, cdWire, cdPacket>>

NextPacket == cdOut.how = "sent" /\ Idle /\ cdOut' = NotYet /\ UNCHANGED cdDoc

CodecNext ==
  \/ \E t \in CdTraffic : \E n \in 0..Len(Body(t)) : FrameArrives(t, n)
  \/ \E e \in CdEdits : SetField(e)
  \/ Forward \/ NextPacket

(***************************************************************************)
(* Properties.                                                             *)
(***************************************************************************)
Whole == cdSent # CdNone /\ cdPacket # CdNone /\ cdPacket.edited = {} /\ cdWire = Body(cdSent)

\* An opaque packet is never taken apart: its bytes leave as they came, and no
\* plugin has changed it.
CodecTypeOK ==
  /\ cdOut.how \in {"none", "sent", "closed"}
  /\ cdPacket # CdNone /\ ~cdPacket.known =>
       /\ cdPacket.rest = cdWire /\ ~cdPacket.modified /\ cdPacket.fields = << >>
       /\ cdOut.how = "none" \/ cdOut = [how |-> "sent", body |-> cdWire]

\* Whatever document the loader accepts, what a peer says of a packet of it is
\* what the proxy reads: no accepted definition leaves a field where another
\* one's bytes are (loadDefinitions.ts:129-134, types.ts:75-79).
SentIsRead ==
  Whole /\ cdSent.packet \in DOMAIN CdDocs[cdDoc].packets /\ cdSent.text =>
    cdPacket.known /\ cdPacket.fields = cdSent.fields /\ cdPacket.rest = cdSent.trailing

\* A body read and written back reproduces its bytes, those its definition does
\* not describe included (encode.ts:92-94, DecodedPacket.ts:26-27).
ReproducesItsBytes ==
  Whole /\ cdPacket.known /\ cdSent.text =>
    Encoded(cdSent.packet, cdPacket.fields, cdPacket.rest) = Put(cdWire)

\* What of the held values the writer puts on the wire: a byte is masked, and what is
\* no number is nothing in a flag, a float and a stat (ByteWriter.ts:55-59,
\* encode.ts:157-160, 198-199, 213-215).
RECURSIVE HeldFields(_, _), HeldOf(_, _)
HeldFields(fields, values) ==
  [n \in DOMAIN values |->
     LET f == fields[CHOOSE i \in DOMAIN fields : fields[i].name = n] IN
     IF f.value.kind # "stat" THEN HeldOf(values[n], f.value)
     ELSE IF values[n] # CdWrong THEN values[n]
     ELSE IF StringStat(values["id"][1]) THEN << >> ELSE <<0>>]

HeldOf(v, schema) ==
  IF schema.kind = "primitive"
  THEN IF schema.type = "bool" /\ v = CdWrong THEN <<0>>
       ELSE IF schema.type = "float" /\ v = CdWrong THEN <<0, 0, 0, 0>>
       ELSE IF schema.type = "byte" /\ v # CdWrong THEN <<v[1] % CdByte>>
       ELSE v
  ELSE IF v = CdWrong THEN v
  ELSE IF schema.kind = "object" THEN HeldFields(ObjectFields(schema.ref), v)
  ELSE [k \in DOMAIN v |-> HeldOf(v[k], schema.element)]

\* No byte that says how to read on is masked into another one: not the count of a
\* list, the id a stat is read by, nor the mask that says which fields are there.
RECURSIVE ReadsOn(_, _)
ReadsOn(fields, values) ==
  /\ OnWire(fields, values) = OnWire(fields, HeldFields(fields, values))
  /\ (\E i \in DOMAIN fields : fields[i].value.kind = "stat") =>
       StringStat(values["id"][1]) = StringStat(HeldFields(fields, values)["id"][1])
  /\ \A i \in OnWire(fields, values) : LET f == fields[i] IN
       f.name \in DOMAIN values =>
         /\ f.value.kind = "object" => ReadsOn(ObjectFields(f.value.ref), values[f.name])
         /\ f.value.kind = "array" =>
              /\ f.value.length = "byte" => Len(values[f.name]) < CdByte
              /\ f.value.element.kind = "object" =>
                   \A k \in DOMAIN values[f.name] : ReadsOn(ObjectFields(f.value.element.ref), values[f.name][k])

\* What the next reader finds in an edited packet is what the proxy held, each value
\* as its field puts it on the wire, and nothing else is moved by it, unless the packet
\* was refused whole: a byte out of range arrives masked (binary.test.ts:91) and a flag
\* or float of the wrong kind as nothing, and any other value that does not fit is
\* refused. A masked byte that says how to read on is the exception: the count of a
\* list, the id of a stat, the mask of other fields.
EditIsRead ==
  cdOut.how = "sent" /\ cdPacket # CdNone /\ cdPacket.edited # {} =>
    LET fields == Schema(cdSent.packet)
        held   == HeldFields(fields, cdPacket.fields) IN
    ReadsOn(fields, cdPacket.fields) =>
      \A read \in {Decoded(cdSent.packet, cdOut.body)} :
        /\ read.known /\ read.rest = cdPacket.rest
        /\ DOMAIN read.fields = {fields[i].name : i \in OnWire(fields, held)}
        /\ \A n \in DOMAIN read.fields \cap DOMAIN held : read.fields[n] = held[n]
=============================================================================
