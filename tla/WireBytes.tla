------------------------------ MODULE WireBytes ------------------------------
(***************************************************************************)
(* Bytes, and the primitive reads and writes of network/wire.go.  A writer *)
(* yields bytes or fails; a reader takes the bytes that are left and       *)
(* yields a value with the bytes left after it, or fails.                  *)
(*                                                                         *)
(* uint16, uint32 and uint64 have ShortLen, WordLen and LongLen bytes.     *)
(***************************************************************************)
EXTENDS Integers, Sequences, SequencesExt

CONSTANTS ByteBase, ShortLen, WordLen, LongLen,
          MaxWireStringBytes, MaxWireChatBytes, MaxWireMessagePayloadSize

ASSUME WidthAssumption ==
    /\ ByteBase \in Nat \ {0, 1}
    /\ {ShortLen, WordLen, LongLen} \subseteq Nat \ {0}

(* How many integers have a given number of bytes, for all widths used. *)
Power[width \in 0 .. ShortLen + WordLen + LongLen] ==
    IF width = 0 THEN 1 ELSE ByteBase * Power[width - 1]

ASSUME LimitAssumption ==
    /\ {MaxWireStringBytes, MaxWireChatBytes, MaxWireMessagePayloadSize} \subseteq Nat
    /\ MaxWireStringBytes < Power[ShortLen] /\ MaxWireChatBytes < Power[ShortLen]
    /\ MaxWireMessagePayloadSize < Power[WordLen]

Byte == 0 .. ByteBase - 1

Fails == [ok |-> FALSE]
Wrote(bytes) == [ok |-> TRUE, bytes |-> bytes]
Got(value, rest) == [ok |-> TRUE, value |-> value, rest |-> rest]

(* The code returns the first error: a read that fails fails what follows. *)
Then(got, Use(_, _)) == IF got.ok THEN Use(got.value, got.rest) ELSE Fails

(* A loop of count reads; each takes what the ones before it have collected. *)
Repeat(count, start, left, Step(_, _, _)) ==
    LET after[n \in 0 .. count] ==
          IF n = 0 THEN Got(start, left)
          ELSE Then(after[n - 1], LAMBDA done, rest : Step(n, done, rest))
    IN  after[count]

(* Writes one after the other. *)
Joined(writes) ==
    LET joined[n \in 0 .. Len(writes)] ==
          IF n = 0 THEN Wrote(<< >>)
          ELSE LET before == joined[n - 1]
                   next == writes[n]
               IN  IF before.ok /\ next.ok THEN Wrote(before.bytes \o next.bytes) ELSE Fails
    IN  joined[Len(writes)]

Bounded(write, maxBytes) ==
    IF write.ok /\ Len(write.bytes) <= maxBytes THEN write ELSE Fails

-----------------------------------------------------------------------------
(* binary.BigEndian.PutUint and Uint. *)
PutUint(n, width) ==
    [i \in 1 .. width |-> (n \div Power[width - i]) % ByteBase]

BigEndian(bytes) ==
    LET value[n \in 0 .. Len(bytes)] ==
          IF n = 0 THEN 0 ELSE value[n - 1] * ByteBase + bytes[n]
    IN  value[Len(bytes)]

(* bytes.Reader.Read into a zeroed slice of the given size.  It fails only
   when no byte is left, for a slice of size 0 as well; when some are left
   but not enough it fills what it can and reports no error. *)
Read(left, size) ==
    IF left = << >> THEN Fails
    ELSE IF Len(left) < size
         THEN Got(left \o [i \in 1 .. size - Len(left) |-> 0], << >>)
         ELSE Got(SubSeq(left, 1, size), SubSeq(left, size + 1, Len(left)))

(* bytes.Reader.ReadByte *)
ReadByte(left) == IF left = << >> THEN Fails ELSE Got(Head(left), Tail(left))

writeUint(n, width) == Wrote(PutUint(n, width))

readUint(left, width) ==
    Then(Read(left, width), LAMBDA bytes, rest : Got(BigEndian(bytes), rest))

(* Integers one after the other, of the given widths. *)
readUints(left, widths) ==
    Repeat(Len(widths), << >>, left, LAMBDA n, done, rest :
        Then(readUint(rest, widths[n]), LAMBDA value, more : Got(Append(done, value), more)))

(* A counted run of bytes: readString with a uint16 count, readBytes with a
   uint32. *)
readCounted(left, width, maxBytes) ==
    Then(readUint(left, width), LAMBDA length, rest :
        IF length > maxBytes \/ length > Len(rest) THEN Fails ELSE Read(rest, length))

Counted(write, width) ==
    IF write.ok THEN Wrote(PutUint(Len(write.bytes), width) \o write.bytes) ELSE Fails

writeString(s, maxBytes) ==
    IF Len(s) >= Power[ShortLen] THEN Fails
    ELSE Counted(Bounded(Wrote(s), maxBytes), ShortLen)
readString(left, maxBytes) == readCounted(left, ShortLen, maxBytes)

writeBytes(write) == Counted(write, WordLen)
readBytes(left, maxBytes) == readCounted(left, WordLen, maxBytes)

-----------------------------------------------------------------------------
(* int64 and back: uint64(reflected.Int()) and int64(value). *)
LongRange == Power[LongLen]
TwosComplement(n) == n % LongRange
Signed(n) == IF 2 * n >= LongRange THEN n - LongRange ELSE n

-----------------------------------------------------------------------------
(* Sorted keys, counts and entries of objects. *)

(* sort.Strings: by the first byte that differs, a prefix first. *)
StringLess(s, t) ==
    \/ IsStrictPrefix(s, t)
    \/ \E i \in DOMAIN s \cap DOMAIN t :
          s[i] < t[i] /\ SubSeq(s, 1, i - 1) = SubSeq(t, 1, i - 1)
SortedStrings(S) == SetToSortSeq(S, StringLess)

With(f, key, value) == [k \in DOMAIN f \cup {key} |-> IF k = key THEN value ELSE f[k]]

(* The counts of objects and lists are uint16: a longer one is refused. *)
CountFits(n) == n < Power[ShortLen]

(* The loop over an object's entries: later entries replace earlier ones. *)
DecodeEntries(count, left, Decode(_)) ==
    Repeat(count, << >>, left, LAMBDA n, done, rest :
        Then(readString(rest, MaxWireStringBytes), LAMBDA key, atValue :
        Then(Decode(atValue), LAMBDA value, more : Got(With(done, key, value), more))))
=============================================================================
