------------------------------ MODULE Serializer ------------------------------
(***************************************************************************)
(* Serializer and Deserializer (src/src/messages/serializer.cpp) and the   *)
(* coding of class String: the operators with which the other modules turn *)
(* values into bytes and back.  Byte i of a value v of kind tag is the     *)
(* triple <<tag, v, i>>, so bytes read out of step are told from a value.  *)
(***************************************************************************)
EXTENDS Integers, Sequences, SequencesExt

CONSTANTS
    StartSize,      \* Serializer::DEFAULT_STARTING_BUFFER_SIZE, 32
    SizeT,          \* sizeof(size_t), 8
    IntSize,        \* sizeof(int) and of an enumeration, 4
    DoubleSize      \* sizeof(double), 8

ASSUME StartSizeAssumption == StartSize \in Nat \ {0, 1}
ASSUME WidthsAssumption ==
    SizeT \in Nat \ {0} /\ IntSize \in Nat \ {0} /\ DoubleSize \in Nat \ {0}

Bytes(tag, v, width) == [i \in 1 .. width |-> <<tag, v, i>>]

SizeBytes(v)   == Bytes("size_t", v, SizeT)
IntBytes(v)    == Bytes("int", v, IntSize)
BoolBytes(v)   == Bytes("bool", v, 1)
DoubleBytes(v) == Bytes("double", v, DoubleSize)
EnumBytes(v)   == Bytes("enum", v, IntSize)
CharBytes(v)   == Bytes("char", v, 1)

-----------------------------------------------------------------------------
\* A Serializer: what it holds, the size of its buffer, and whether it has
\* written past that.
NewSerializer == [bytes |-> <<>>, size |-> StartSize, overrun |-> FALSE]

\* Faulty: the buffer is doubled.
GrowBufferDoubles(ser) == [ser EXCEPT !.size = 2 * @]

GrowBuffer(ser) == [ser EXCEPT !.size = @ * @]

\* set_generic: grow the buffer once if value does not fit, then copy it.
SetGeneric(ser, value) ==
    LET fits  == ser.size - Len(ser.bytes) >= Len(value)
        grown == IF fits THEN ser ELSE GrowBuffer(ser)
    IN  [grown EXCEPT !.bytes   = @ \o value,
                      !.overrun = @ \/ Len(ser.bytes) + Len(value) > grown.size]

\* The Serializer after the values of a sequence have been set one by one.
Serialize(values) == FoldLeft(SetGeneric, NewSerializer, values)

\* The longest value that always fits after one growth.
LongestValue == StartSize * StartSize - StartSize

-----------------------------------------------------------------------------
\* A Deserializer over bytes: the offset and the value read last.
NewDeserializer(bytes) == [bytes |-> bytes, off |-> 0, val |-> 0]

BytesLeft(d) == IF d.off <= Len(d.bytes) THEN Len(d.bytes) - d.off ELSE 0

\* get_byte and its kin.  Bytes that are not those of one value of the kind
\* asked for, or too few of them, which the code asserts not to happen, make a
\* garbage value.
Get(d, tag, width, garbage) ==
    LET part == SubSeq(d.bytes, d.off + 1, d.off + width)
        one  == /\ BytesLeft(d) >= width
                /\ \A i \in 1 .. width : part[i] = <<tag, part[1][2], i>>
    IN  [d EXCEPT !.off = @ + width, !.val = IF one THEN part[1][2] ELSE garbage]

GetSizeT(d)  == Get(d, "size_t", SizeT, 0)
GetInt(d)    == Get(d, "int", IntSize, 0)
GetBool(d)   == Get(d, "bool", 1, TRUE)
GetDouble(d) == Get(d, "double", DoubleSize, 0)
GetEnum(d)   == Get(d, "enum", IntSize, "?")
GetChar(d)   == Get(d, "char", 1, "?")

-----------------------------------------------------------------------------
\* A String is the sequence of its characters, or Null for a nullptr; it is
\* sent with its length and the character that ends it.
Nul  == "0"
Null == <<"nullptr">>
Text == Seq(STRING) \ {Null}

StringValues(s) ==
    <<SizeBytes(Len(s)), FlattenSeq([i \in 1 .. Len(s) + 1 |->
                             CharBytes(IF i <= Len(s) THEN s[i] ELSE Nul)])>>

\* Faulty: the character that ends the string is not counted.
StringBytesNoNul(s) == SizeT + Len(s)

\* String::serialization_required_bytes.
StringBytes(s) == SizeT + Len(s) + 1

\* String::deserialize_as_string: nullptr if the bytes left cannot be a string.
GetString(d) ==
    LET sized == GetSizeT(d)
        len   == sized.val
        char  == [i \in 1 .. len |-> GetChar([sized EXCEPT !.off = @ + i - 1]).val]
    IN  IF BytesLeft(d) < SizeT THEN [d EXCEPT !.val = Null]
        ELSE IF BytesLeft(sized) < len + 1 THEN [sized EXCEPT !.val = Null]
        ELSE [sized EXCEPT !.off = @ + len + 1, !.val = char]

\* n values read one after the other with the operator Step, as a sequence.
GetMany(Step(_), d, n) ==
    LET after[i \in 0 .. n] == IF i = 0 THEN d ELSE Step(after[i - 1])
    IN  [after[n] EXCEPT !.val = [i \in 1 .. n |-> after[i].val]]
=============================================================================
