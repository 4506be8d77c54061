------------------------------- MODULE TlvRecords -------------------------------
(***************************************************************************)
(* The records of ThinQ2 appliances (util/tlv.ts): a field has a tag of    *)
(* ten bits and a value of up to twenty-four, in a head of two bytes and   *)
(* up to three more.                                                       *)
(***************************************************************************)
EXTENDS Naturals, Sequences

CONSTANTS
    Tags, FieldValues,
    MaxFields  \* bound

RecordsAssumption ==
    /\ Tags \subseteq 0..1023 /\ MaxFields \in Nat
    /\ \A v \in FieldValues : v \in Nat /\ v < 256 * 65536

VARIABLES
    fields,  \* what is told
    bytes    \* what is read of it

recordVars == <<fields, bytes>>

RecordsTypeOK ==
    /\ fields \in Seq([t : Tags, v : FieldValues]) /\ Len(fields) <= MaxFields
    /\ bytes \in Seq(0..255)

\* The bytes of a value that does not fit into the head.
LengthOfAtMost(v) == IF v <= 16 THEN 0 ELSE IF v <= 256 THEN 1 ELSE IF v <= 65536 THEN 2 ELSE 3

LengthOf(v) == IF v < 16 THEN 0 ELSE IF v < 256 THEN 1 ELSE IF v < 65536 THEN 2 ELSE 3

\* The head, with a small value in it, and the bytes of a larger one.
FieldBytes(f) ==
    LET l == LengthOf(f.v)
        x == (f.t \div 4) % 256
        y == (f.t % 4) * 64 + IF l = 0 THEN f.v ELSE l * 16
    IN  IF l = 0 THEN <<x, y>>
        ELSE IF l = 1 THEN <<x, y, f.v % 256>>
        ELSE IF l = 2 THEN <<x, y, (f.v \div 256) % 256, f.v % 256>>
        ELSE <<x, y, (f.v \div 65536) % 256, (f.v \div 256) % 256, f.v % 256>>

\* What the first fields are built into.
BuiltOf(fs) ==
    LET built[i \in 0..Len(fs)] == IF i = 0 THEN <<>> ELSE built[i - 1] \o FieldBytes(fs[i]) IN built

Build(fs) == BuiltOf(fs)[Len(fs)]

\* The field behind the first i bytes: its tag, the length of its value, the value.
TagAt(b, i) == b[i + 1] * 4 + b[i + 2] \div 64
LengthAt(b, i) == (b[i + 2] \div 16) % 4
ValueAt(b, i) ==
    LET l == LengthAt(b, i)
    IN  IF l = 0 THEN b[i + 2] % 16
        ELSE IF l = 1 THEN b[i + 3]
        ELSE IF l = 2 THEN b[i + 3] * 256 + b[i + 4]
        ELSE (b[i + 3] * 256 + b[i + 4]) * 256 + b[i + 5]

\* One turn of the loop.  A field that is cut off, in its head or in its value, ends it.
ParseOnce(b, p) ==
    IF p.i + 2 > Len(b) THEN p
    ELSE IF p.i + 2 + LengthAt(b, p.i) > Len(b) THEN p
    ELSE [i |-> p.i + 2 + LengthAt(b, p.i),
          out |-> Append(p.out, [t |-> TagAt(b, p.i), l |-> LengthAt(b, p.i), v |-> ValueAt(b, p.i)])]

\* Every turn takes a head at least.
Parse(b) ==
    LET turn[k \in 0..Len(b)] == IF k = 0 THEN [i |-> 0, out |-> <<>>] ELSE ParseOnce(b, turn[k - 1])
    IN  turn[Len(b)].out

RecordsInit ==
    /\ fields \in UNION {[1..n -> [t : Tags, v : FieldValues]] : n \in 0..MaxFields}
    /\ bytes = Build(fields)

\* A frame may say that its record is shorter.
Cut == bytes # <<>> /\ bytes' = SubSeq(bytes, 1, Len(bytes) - 1) /\ UNCHANGED fields

RecordsNext == Cut

RecordsSpec == RecordsInit /\ [][RecordsNext]_recordVars

-----------------------------------------------------------------------------
\* A record is read as it was built, at every boundary of the four lengths; of one that
\* is cut short, the fields that are whole.
FieldsAreRead ==
    \E n \in 0..Len(fields) :
        /\ Len(BuiltOf(fields)[n]) <= Len(bytes)
        /\ n < Len(fields) => Len(BuiltOf(fields)[n + 1]) > Len(bytes)
        /\ Parse(bytes) = [j \in 1..n |-> [t |-> fields[j].t, l |-> LengthOf(fields[j].v), v |-> fields[j].v]]
=============================================================================
