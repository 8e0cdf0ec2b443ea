------------------------------ MODULE WireValue ------------------------------
(***************************************************************************)
(* Snapshot values on the wire: encodeWireValue and decodeWireValue of     *)
(* network/wire.go.                                                        *)
(*                                                                         *)
(* A Go value is a record with a kind: null, bool, int, uint, float        *)
(* (value: its bits), string, map (value: a function from keys), struct    *)
(* (value: its fields in declaration order), list, or a kind that cannot   *)
(* be encoded.  Pointers and interfaces stand for what they point to.      *)
(***************************************************************************)
EXTENDS WireBytes, FiniteSets

CONSTANT MaxValueDepth
ASSUME MaxValueDepthAssumption == MaxValueDepth \in Nat

Null == [kind |-> "null"]
Value(kind, value) == [kind |-> kind, value |-> value]
Field(name, exported, omitEmpty, value) ==
    [name |-> name, exported |-> exported, omitEmpty |-> omitEmpty, value |-> value]

ValueKinds == <<"null", "bool", "int", "uint", "float", "string", "map", "list">>
KindByte(kind) == (CHOOSE i \in DOMAIN ValueKinds : ValueKinds[i] = kind) - 1

(* reflect.Value.IsZero for the kinds of struct fields used here. *)
IsZero(v) ==
    \/ v = Null
    \/ v.kind \in {"int", "uint", "float"} /\ v.value = 0
    \/ v.kind = "bool" /\ ~v.value
    \/ v.kind = "string" /\ v.value = << >>

(* exportedWireFields, as a function from the field's JSON name. *)
ExportedWireFields(fields) ==
    LET kept == {i \in DOMAIN fields :
                   fields[i].exported /\ ~(fields[i].omitEmpty /\ IsZero(fields[i].value))}
    IN  [name \in {fields[i].name : i \in kept} |->
            fields[CHOOSE i \in kept : fields[i].name = name].value]

-----------------------------------------------------------------------------
RECURSIVE EncodeWireValue(_, _)

(* encodeWireMap and encodeWireStruct: the entries in the order of keys. *)
EncodeEntries(object, depth) ==
    LET keys == SortedStrings(DOMAIN object)
    IN  IF ~CountFits(Len(keys)) THEN Fails
        ELSE Joined(<<writeUint(Len(keys), ShortLen)>> \o
               [i \in 1 .. 2 * Len(keys) |->
                  LET key == keys[(i + 1) \div 2]
                  IN  IF i % 2 = 1 THEN writeString(key, MaxWireStringBytes)
                      ELSE EncodeWireValue(object[key], depth + 1)])

EncodeList(list, depth) ==
    IF ~CountFits(Len(list)) THEN Fails
    ELSE Joined(<<writeUint(Len(list), ShortLen)>> \o
           [i \in DOMAIN list |-> EncodeWireValue(list[i], depth + 1)])

EncodeBare(v, depth) ==
    CASE v.kind = "null" -> Wrote(<< >>)
      [] v.kind = "bool" -> Wrote(IF v.value THEN <<1>> ELSE <<0>>)
      [] v.kind = "int" -> writeUint(TwosComplement(v.value), LongLen)
      [] v.kind \in {"uint", "float"} -> writeUint(v.value, LongLen)
      [] v.kind = "string" -> writeString(v.value, MaxWireStringBytes)
      [] v.kind = "map" -> EncodeEntries(v.value, depth)
      [] v.kind = "struct" -> EncodeEntries(ExportedWireFields(v.value), depth)
      [] v.kind = "list" -> EncodeList(v.value, depth)
      [] OTHER -> Fails

EncodeWireValue(v, depth) ==
    IF depth > MaxValueDepth THEN Fails
    ELSE Joined(<<Wrote(<<KindByte(IF v.kind = "struct" THEN "map" ELSE v.kind)>>),
                  EncodeBare(v, depth)>>)

-----------------------------------------------------------------------------
RECURSIVE DecodeWireValue(_, _)

TooDeep(depth) == depth > MaxValueDepth

DecodeList(count, left, depth) ==
    Repeat(count, << >>, left, LAMBDA n, done, rest :
        Then(DecodeWireValue(rest, depth + 1), LAMBDA value, more :
             Got(Append(done, value), more)))

DecodeBare(kind, left, depth) ==
    CASE kind = "null" -> Got(Null, left)
      [] kind = "bool" ->
            Then(ReadByte(left), LAMBDA byte, rest : Got(Value(kind, byte # 0), rest))
      [] kind = "int" ->
            Then(readUint(left, LongLen), LAMBDA n, rest : Got(Value(kind, Signed(n)), rest))
      [] kind \in {"uint", "float"} ->
            Then(readUint(left, LongLen), LAMBDA n, rest : Got(Value(kind, n), rest))
      [] kind = "string" ->
            Then(readString(left, MaxWireStringBytes), LAMBDA s, rest : Got(Value(kind, s), rest))
      [] OTHER ->
            Then(readUint(left, ShortLen), LAMBDA count, atFirst :
            Then(IF kind = "map" THEN DecodeEntries(count, atFirst, LAMBDA bytes : DecodeWireValue(bytes, depth + 1))
                 ELSE DecodeList(count, atFirst, depth),
                 LAMBDA items, rest : Got(Value(kind, items), rest)))

DecodeWireValue(left, depth) ==
    IF TooDeep(depth) THEN Fails
    ELSE Then(ReadByte(left), LAMBDA byte, rest :
            IF byte + 1 \in DOMAIN ValueKinds THEN DecodeBare(ValueKinds[byte + 1], rest, depth)
            ELSE Fails)

-----------------------------------------------------------------------------
(* Reference: what a reader is to see of a Go value.  Structs read as
   objects of their exported fields, the rest as itself. *)
RECURSIVE WireForm(_)
WireForm(v) ==
    CASE v.kind = "struct" ->
            LET object == ExportedWireFields(v.value)
            IN  Value("map", [k \in DOMAIN object |-> WireForm(object[k])])
      [] v.kind = "map" -> Value("map", [k \in DOMAIN v.value |-> WireForm(v.value[k])])
      [] v.kind = "list" -> Value("list", [i \in DOMAIN v.value |-> WireForm(v.value[i])])
      [] OTHER -> v

(* Reference: where the encoding of a value ends in a counted run of no
   bytes.  bytes.Reader.Read fails there although nothing is missing. *)
RECURSIVE ValueEndsEmpty(_)
ValueEndsEmpty(v) ==
    \/ v.kind = "string" /\ v.value = << >>
    \/ v.kind = "list" /\ v.value # << >> /\ ValueEndsEmpty(Last(v.value))
    \/ v.kind = "map" /\ DOMAIN v.value # {}
         /\ ValueEndsEmpty(v.value[Last(SortedStrings(DOMAIN v.value))])
=============================================================================
