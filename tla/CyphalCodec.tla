---------------------------- MODULE CyphalCodec ----------------------------
(***************************************************************************)
(* How a message of a script becomes the payload of a Cyphal transfer and  *)
(* back (src/src/workers/can/cyphal_msgs.cpp): from_variant() fills a C    *)
(* struct that starts as uninitialized memory, nunavut's generated code    *)
(* (external) writes it out and fills another uninitialized one at the     *)
(* receiver, and to_variant() makes a message of that.                     *)
(*                                                                         *)
(* A message type is a struct or a union of named fields; the kind of a    *)
(* field says how it is described.  A variant is a record of its type and  *)
(* its value: a number, a string (its letters), a list of numbers or a     *)
(* uuid (its bytes).  A field in memory is an array of cells (bits of a    *)
(* bit field, bytes, letters, numbers) and a count, which only the kinds   *)
(* of variable length use.                                                 *)
(***************************************************************************)
EXTENDS Naturals, FiniteSets, SequencesExt

CONSTANTS
  FieldNames,    \* the names of the fields of a message type
  FieldKinds,    \* the kinds of fields in this instance
  Cells(_),      \* how many cells a field of a kind has
  MaxBits,       \* std::size(bitpacked): a bit array may have as many bits as bytes
  Reach,         \* sizeof(packed) * 8: bits as many as a pointer has
  Rounded(_),    \* qRound64 of a script's number (external)
  FieldMod,      \* values of the type of a plain field or element
  EnumNames,     \* the names of the enumerators, which count from 1
  Memory,        \* what uninitialized memory may hold: a count (0) and cells
  Variants,      \* the values scripts send
  MapKeys        \* and the keys of the maps they are in

Num(n) == [t |-> "num", v |-> <<n>>]
Str(s) == [t |-> "str", v |-> s]
List(s) == [t |-> "list", v |-> s]
Uuid(s) == [t |-> "uuid", v |-> s]

AllKinds == {"bit_array", "bitmask", "unique_id", "dyn_string", "dyn_array", "enum",
             "fixed_array", "plain"}

\* A variant of a type has a value of that type; a uuid fills its field.
ASSUME CodecAssumption ==
  /\ FieldKinds \subseteq AllKinds
  /\ \A kind \in AllKinds : Cells(kind) \in Nat \ {0}
  /\ Cells("enum") = 1 /\ Cells("plain") = 1
  /\ MaxBits \in Nat /\ MaxBits <= Cells("bit_array")
  /\ Reach \in Nat /\ FieldMod \in Nat \ {0}
  /\ EnumNames \in Seq(Seq(Nat))
  /\ Variants \subseteq [t : {"num", "str", "list", "uuid"}, v : Seq(Nat)]
  /\ \A val \in Variants : val.t = "num" => Len(val.v) = 1
  /\ \A val \in Variants : val.t = "uuid" => Len(val.v) = Cells("unique_id")
  /\ \A val \in Variants : \A i \in DOMAIN val.v : Rounded(val.v[i]) \in Nat

VARIABLES
  msgType,  \* [union |-> BOOLEAN, kinds |-> the kind of every field]
  input,    \* the map a script sends
  payload,  \* what is on the bus: the fields written
  output    \* the map the receiving script gets, or why there is none

codecVars == <<msgType, input, payload, output>>

\* Uninitialized memory: every cell and the count are whatever they were.
Garbage(kind, g) == [cells |-> [i \in 1..Cells(kind) |-> g[i]], count |-> g[0]]

-----------------------------------------------------------------------------

\* value<T>() of a number (external): rounded, and cut to the type of the field.
ValueOf(n) == Rounded(n) % FieldMod
ValuesOf(s) == [i \in DOMAIN s |-> ValueOf(s[i])]

\* toUInt() of the elements of a list.
BitIndices(s) == {Rounded(s[i]) : i \in DOMAIN s}

\* The conditions under which field_from_variant() does not raise.
Accepted(kind, val) ==
  /\ kind = "bit_array" => val.t = "list" /\ Len(val.v) <= MaxBits
  /\ kind = "bitmask" => val.t = "list" /\ \A bit \in BitIndices(val.v) : bit <= Cells(kind)
  /\ kind = "unique_id" => val.t \in {"uuid", "str"}
  /\ kind = "dyn_string" => val.t = "str" /\ Len(val.v) <= Cells(kind) - 1
  /\ kind = "dyn_array" => val.t = "list" /\ Len(val.v) <= Cells(kind)
  /\ kind = "enum" => val.t = "str" /\ val.v \in Range(EnumNames)
  /\ kind = "fixed_array" => val.t = "list" /\ Len(val.v) = Cells(kind)

\* The first cells are overwritten, the others stay as they are.
Over(cells, s) == [i \in DOMAIN cells |-> IF i \in DOMAIN s THEN s[i] ELSE cells[i]]

\* Mutant of StoredBits: only the bits that are set are written.
StoredBitsOnlySet(cells, s) ==
  [i \in DOMAIN cells |-> IF i \in DOMAIN s /\ s[i] # 0 THEN 1 ELSE cells[i]]

\* Every bit of the list is written, set or not.
StoredBits(cells, s) == Over(cells, [i \in DOMAIN s |-> IF s[i] # 0 THEN 1 ELSE 0])

\* A field without a count.
Fixed(cells, m) == [cells |-> cells, count |-> m.count]

\* name_to_enum()
Enumerator(name) == CHOOSE e \in DOMAIN EnumNames : EnumNames[e] = name

\* What field_from_variant() leaves in memory m for an accepted value.  The bit
\* behind the last one of a bitmask is accepted and not set; a string that is
\* no uuid gives the null uuid, and what is no number is zero to a plain field.
Stored(kind, val, m) ==
  CASE kind = "bit_array" -> [cells |-> StoredBits(m.cells, val.v), count |-> Len(val.v)]
    [] kind = "bitmask" ->
         Fixed([i \in DOMAIN m.cells |-> IF i - 1 \in BitIndices(val.v) THEN 1 ELSE 0], m)
    [] kind = "unique_id" ->
         Fixed(IF val.t = "uuid" THEN val.v ELSE [i \in DOMAIN m.cells |-> 0], m)
    [] kind = "dyn_string" ->
         [cells |-> Over(m.cells, Append(val.v, 0)), count |-> Len(val.v)]
    [] kind = "dyn_array" -> [cells |-> Over(m.cells, ValuesOf(val.v)), count |-> Len(val.v)]
    [] kind = "enum" -> Fixed(<<Enumerator(val.v)>>, m)
    [] kind = "fixed_array" -> Fixed(ValuesOf(val.v), m)
    [] kind = "plain" -> Fixed(<<IF val.t = "num" THEN ValueOf(val.v[1]) ELSE 0>>, m)

\* "{:x}" prints a byte with one digit or two.
Hex(byte) == IF byte < 16 THEN <<byte>> ELSE <<byte \div 16, byte % 16>>

\* nunavutGetBit(packed, sizeof(packed), i): packed has decayed to a pointer, and
\* behind sizeof(packed) bytes a bit reads as zero.
ReadBits(bits) == [i \in DOMAIN bits |-> IF i <= Reach THEN bits[i] ELSE 0]

\* The variant field_to_variant() makes of a field in memory.
Shown(kind, m) ==
  CASE kind = "bit_array" -> List(ReadBits(SubSeq(m.cells, 1, m.count)))
    [] kind = "dyn_array" -> List(SubSeq(m.cells, 1, m.count))
    [] kind = "bitmask" ->
         List(SetToSortSeq({i - 1 : i \in {j \in DOMAIN m.cells : m.cells[j] = 1}}, <))
    [] kind = "unique_id" -> Str(FlattenSeq([i \in DOMAIN m.cells |-> Hex(m.cells[i])]))
    [] kind = "dyn_string" -> Str(SubSeq(m.cells, 1, m.count))
    [] kind = "enum" -> Str(EnumNames[m.cells[1]])
    [] kind = "fixed_array" -> List(m.cells)
    [] kind = "plain" -> Num(m.cells[1])

\* field_to_variant() raises for a number that is no enumerator.
Showable(kind, m) == kind = "enum" => m.cells[1] \in DOMAIN EnumNames

-----------------------------------------------------------------------------

\* The fields a map sets: all of a struct's; of a union's, the one it names.
WrittenFields(ty, map) == {f \in FieldNames : ~ty.union \/ f \in DOMAIN map}

\* from_variant(): a struct needs its fields and ignores others, a union needs
\* a map of one item that is the name of a field.
FromVariantOk(ty, map) ==
  /\ ty.union => Cardinality(DOMAIN map) = 1
  /\ WrittenFields(ty, map) # {}
  /\ \A f \in WrittenFields(ty, map) : f \in DOMAIN map /\ Accepted(ty.kinds[f], map[f])

\* What nunavut writes of a field in memory (external): of a field of variable
\* length the first count cells, of others all.
Variable == {"bit_array", "dyn_string", "dyn_array"}
Wire(kind, m) == IF kind \in Variable THEN SubSeq(m.cells, 1, m.count) ELSE m.cells

\* What nunavut makes of it in memory m (external).
Unwire(kind, cells, m) == [cells |-> Over(m.cells, cells), count |-> Len(cells)]

Empty == [f \in {} |-> <<>>]
Output(how, map) == [how |-> how, map |-> map]

\* from_variant() into uninitialized memory, and what nunavut makes of that.
Filled(kind, val, g) == Stored(kind, val, Garbage(kind, g))
Payload(g) ==
  [f \in WrittenFields(msgType, input) |->
     Wire(msgType.kinds[f], Filled(msgType.kinds[f], input[f], g))]

\* do_serialize(): raises, or puts a payload on the bus.
Serialize(g) ==
  /\ payload = Empty /\ output.how = "none"
  /\ IF FromVariantOk(msgType, input)
     THEN payload' = Payload(g) /\ UNCHANGED output
     ELSE output' = Output("refused", Empty) /\ UNCHANGED payload
  /\ UNCHANGED <<msgType, input>>

\* A peer may know more enumerators, or longer arrays, than this program.
FromPeer(field) ==
  /\ payload = Empty /\ output.how = "none"
  /\ payload' = [f \in IF msgType.union THEN {field} ELSE FieldNames |->
                  [c \in 1..(Cells(msgType.kinds[f]) + 1) |-> Len(EnumNames) + 1]]
  /\ output' = Output("peer", Empty)
  /\ UNCHANGED <<msgType, input>>

\* The memory nunavut fills at the receiver.
Received(f, g) == Unwire(msgType.kinds[f], payload[f], Garbage(msgType.kinds[f], g))

\* to_variant(): a map of the fields that were received; raises for a number
\* that is no enumerator.
ToVariantOk(g) == \A f \in DOMAIN payload : Showable(msgType.kinds[f], Received(f, g))
ToVariant(g) == [f \in DOMAIN payload |-> Shown(msgType.kinds[f], Received(f, g))]

\* nunavut refuses an array that is too long (external).
BadArrayLength ==
  \E f \in DOMAIN payload : msgType.kinds[f] \in Variable /\ Len(payload[f]) > Cells(msgType.kinds[f])

\* do_deserialize(): raises, or gives the message to the script.
Deserialize(g) ==
  /\ payload # Empty
  /\ output' = IF BadArrayLength \/ ~ToVariantOk(g)
               THEN Output("failed", Empty)
               ELSE Output(IF output.how = "peer" THEN "peer" ELSE "got", ToVariant(g))
  /\ payload' = Empty
  /\ UNCHANGED <<msgType, input>>

-----------------------------------------------------------------------------

CodecInit ==
  /\ msgType \in [union : BOOLEAN, kinds : [FieldNames -> FieldKinds]]
  /\ input \in UNION {[names -> Variants] : names \in MapKeys}
  /\ payload = Empty
  /\ output = Output("none", Empty)

CodecNext ==
  \/ \E g \in Memory : Serialize(g) \/ Deserialize(g)
  \/ \E f \in FieldNames : FromPeer(f)

CodecSpec == CodecInit /\ [][CodecNext]_codecVars

-----------------------------------------------------------------------------

\* What a receiver is to see of a field: the value that was sent, a number as the
\* type of the field holds it; of a bitmask its bits in order; of a bit array one
\* bit for every element, and none of the ones out of reach.
Meaning(kind, val) ==
  CASE kind = "bitmask" -> List(SetToSortSeq({n \in BitIndices(val.v) : n < Cells(kind)}, <))
    [] kind = "bit_array" ->
         List([i \in DOMAIN val.v |-> IF i <= Reach /\ val.v[i] # 0 THEN 1 ELSE 0])
    [] kind \in {"dyn_array", "fixed_array"} -> List(ValuesOf(val.v))
    [] kind = "plain" -> Num(IF val.t = "num" THEN ValueOf(val.v[1]) ELSE 0)
    [] kind = "unique_id" -> Str(FlattenSeq([i \in DOMAIN val.v |-> <<val.v[i] \div 16, val.v[i] % 16>>]))
    [] OTHER -> val

\* A uuid with a byte below 16 is printed with fewer digits, and text that is no
\* uuid becomes the null one (cyphal_msgs.cpp:286): these come back as something else.
ComesBack(kind, val) ==
  kind = "unique_id" => val.t = "uuid" /\ \A i \in DOMAIN val.v : val.v[i] >= 16

\* A message that from_variant() accepts arrives with every field it was sent
\* with and no others, and none of it depends on what the two uninitialized
\* structs held before (do_serialize() and do_deserialize()).  A number has been
\* rounded and cut to its field once, and of a bit array the bits behind the
\* width of a pointer are lost.
CodecRoundTrip ==
  output.how = "got" =>
    /\ DOMAIN output.map = WrittenFields(msgType, input)
    /\ \A f \in WrittenFields(msgType, input) :
          ComesBack(msgType.kinds[f], input[f]) =>
            output.map[f] = Meaning(msgType.kinds[f], input[f])

\* What CodecRoundTrip rests on: a payload that is not a peer's was made from the
\* input by from_variant(), in memory that held something before.
OnTheBus ==
  payload # Empty /\ output.how # "peer" =>
    /\ FromVariantOk(msgType, input)
    /\ \E g \in Memory : payload = Payload(g)

CodecTypeOK ==
  /\ msgType \in [union : BOOLEAN, kinds : [FieldNames -> FieldKinds]]
  /\ input \in UNION {[names -> Variants] : names \in MapKeys}

CodecInv == CodecTypeOK /\ OnTheBus /\ CodecRoundTrip
=============================================================================
