------------------------------ MODULE Receiver ------------------------------
(***************************************************************************)
(* The life of one object of package types: one that arrives as text       *)
(* (TextReceiver), or a container that is decoded into, perhaps again      *)
(* after a failure, encoded, measured and hashed, in any order.  All of    *)
(* these are methods on a pointer, so each may leave something in the      *)
(* object that the next one meets.                                         *)
(***************************************************************************)
EXTENDS SszCodec, TextReceiver

CONSTANTS
    Lengths,     \* lengths of the lists in sample objects
    Nudges       \* by how much an offset or a length in a damaged buffer is off

ASSUME ReceiverAssumption ==
    /\ Kinds \subseteq DOMAIN Container \cup TextKinds \cup JsonKinds
    /\ Lengths \subseteq Nat
    /\ Nudges \subseteq Nat \ {0}

-----------------------------------------------------------------------------
(* What arrives: encodings of sample objects, and damaged ones. *)

\* Bytes of bits in a sample: with lists of length 2 as many as a hasher takes, so
\* that two of them, one after the other, are too many.
BitsPerLength == 127

\* An object whose lists have length n and whose fields differ from each other.
RECURSIVE Sample(_, _, _)
Sample(c, seed, n) ==
    [i \in DOMAIN Fields(c) |->
        LET f == Fields(c)[i]
            Bytes(w) == [k \in 1..w |-> seed + i]
            Child(k) == Sample(f.of, seed + 10 + 2 * i + k, n)
        IN  CASE f.kind = "raw" -> Bytes(f.width)
              [] f.kind \in {"ptr", "varptr"} -> Child(0)
              [] f.kind \in {"list", "dynlist"} -> [k \in 1..n |-> Child(k)]
              [] f.kind = "u64s" -> [k \in 1..n |-> Bytes(8)]
              [] f.kind = "byteslist" -> [k \in 1..n |-> Bytes(k)]
              [] f.kind = "bytes" -> Bytes(2 * n)
              [] f.kind = "bits" -> Bytes(BitsPerLength * n + 2)]

\* Bytes lost or zero at the end, bytes between the fixed part and what is behind it, and
\* an offset that points elsewhere.
Cut(b, d) == SubSeq(b, 1, Len(b) - d)
Blank(b, d) == Cut(b, d) \o Zeros(d)
OffsetsAt(c) == {Fields(c)[i].lo + 1 : i \in {j \in DOMAIN Fields(c) : ~Inline(Fields(c)[j])}}
Shift(b, at, d) == [k \in DOMAIN b |-> IF k \in at THEN (b[k] + d) % 256 ELSE b[k]]
Gap(c, b, d) ==
    LET size == Container[c].size
        moved == Shift(b, OffsetsAt(c), d)
    IN  SubSeq(moved, 1, size) \o Zeros(d) \o SubSeq(moved, size + 1, Len(b))

Buffers(c) ==
    UNION {LET b == MarshalSSZTo(c, Sample(c, 1, n))
           IN  {b} \cup {Cut(b, d) : d \in Nudges}
                   \cup {Blank(b, d) : d \in Nudges}
                   \cup {Gap(c, b, d) : d \in Nudges}
                   \cup {Shift(b, {p}, d) : p \in OffsetsAt(c), d \in Nudges}
           : n \in Lengths}

\* The containers looked at, each with the buffers that may arrive for it.
Wire == UNION {{c} \X Buffers(c) : c \in Kinds \cap DOMAIN Container}

-----------------------------------------------------------------------------

\* A new object, or one that a caller put together.
SszInit ==
    /\ kind \in Kinds \cap DOMAIN Container
    /\ ops = 0
    /\ input = NoInput
    /\ \/ use = "new" /\ obj = New(kind)
       \/ use = "reused" /\ \E n \in Lengths : obj = Sample(kind, 50, n)

Init == SszInit \/ TextInit

Unmarshal(b) ==
    /\ kind \in DOMAIN Container
    /\ LET r == UnmarshalSSZ(kind, obj, b)
       IN  Decode(r.ok, r.obj, b)

MarshalSSZ ==
    /\ kind \in DOMAIN Container
    /\ Call
    /\ MarshalOutcome(kind, obj) # "panic"
    /\ obj' = AfterMarshal(kind, obj)
    /\ UNCHANGED <<use, input>>

Size ==
    /\ kind \in DOMAIN Container
    /\ Call
    /\ ~HasNilElement(kind, obj)
    /\ obj' = AfterSize(kind, obj)
    /\ UNCHANGED <<use, input>>

Next ==
    \/ \E w \in Wire : kind = w[1] /\ Unmarshal(w[2])
    \/ TextNext
    \/ MarshalSSZ
    \/ Size

Spec == Init /\ [][Next]_objectVars

-----------------------------------------------------------------------------
(* Properties *)

\* Containers that keep something of what was in them before: byte lists and bits
\* grow in place.
RECURSIVE Accumulates(_)
Accumulates(c) ==
    \E i \in DOMAIN Fields(c) : LET f == Fields(c)[i] IN
        \/ f.kind \in {"bytes", "bits"}
        \/ f.kind \in {"ptr", "varptr"} /\ Accumulates(f.of)

\* A failed decode leaves the object half written, but never so that the next one
\* shows it: the first decode that succeeds makes of the object what it makes of a
\* new one, whatever failed, was encoded or measured before.  A later one does so
\* too, except for the containers that accumulate; text and JSON: TextForgets.
DecodeForgets ==
    IF kind \in DOMAIN Container
    THEN use = "decoded" \/ (use = "reused" /\ input # NoInput /\ ~Accumulates(kind)) =>
            obj = UnmarshalSSZ(kind, New(kind), input).obj
    ELSE TextForgets

\* What a decoder accepts is worth having: it can be encoded and hashed, its
\* encoding is no longer than the buffer it came from (which may have had gaps)
\* and decodes to the same object.
DecodedIsUsable ==
    kind \in DOMAIN Container /\ use = "decoded" =>
        LET b == MarshalSSZTo(kind, obj)
        IN  /\ MarshalOutcome(kind, obj) = "ok"
            /\ HashTreeRootWith(kind, obj) = "ok"
            /\ Len(b) <= Len(input)
            /\ UnmarshalSSZ(kind, New(kind), b) = Result(TRUE, obj)

\* SizeSSZ, on which the offsets are computed, is the length of the encoding.
SizeIsLength ==
    kind \in DOMAIN Container /\ MarshalOutcome(kind, obj) = "ok" =>
        SizeSSZ(kind, obj) = Len(MarshalSSZTo(kind, obj))

\* Some bits of an object are more than HashTreeRoot can take.
RECURSIVE LongBits(_, _)
LongBits(c, o) ==
    \E i \in DOMAIN o : LET f == Fields(c)[i] IN
        \/ f.kind = "bits" /\ BitlistTooLong(o[i], f.max)
        \/ f.kind \in {"ptr", "varptr"} /\ o[i] # Nil /\ LongBits(f.of, o[i])
        \/ f.kind \in {"list", "dynlist"} /\ \E k \in DOMAIN o[i] : LongBits(f.of, o[i][k])

\* HashTreeRoot dereferences children that are nil, and an object that was encoded
\* has none left: hashing one panics only where a second decode appended bits to
\* bits, which the encoder lets pass up to eight times the limit of the hasher.
EncodedIsHashable ==
    /\ kind \in DOMAIN Container
    /\ MarshalOutcome(kind, obj) = "ok"
    /\ HashTreeRootWith(kind, AfterMarshal(kind, obj)) = "panic"
    => use = "reused" /\ LongBits(kind, obj)

=============================================================================
