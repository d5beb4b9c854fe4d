------------------------------ MODULE SszCodec ------------------------------
(***************************************************************************)
(* What the functions fastssz generated do (types/builder_encoding.go):    *)
(* SizeSSZ, MarshalSSZTo, UnmarshalSSZ and HashTreeRootWith, over the       *)
(* containers of SszSchema.  An object is the sequence of its fields: bytes *)
(* for an array, an integer or a byte list, an object or Nil for a pointer, *)
(* a sequence for a list.  Bytes are kept as they are because offsets are   *)
(* read out of the very buffer they point into.                             *)
(*                                                                         *)
(* The functions change their receiver: encoding creates the children that  *)
(* are nil, and decoding writes field after field, also when it then fails. *)
(***************************************************************************)
EXTENDS Integers, SequencesExt

CONSTANTS
    Nil,        \* a nil pointer
    Container   \* the container of a name: the table Schema of SszSchema

Fields(c) == Container[c].fields

\* A field in the fixed part of its container; the others are behind an offset.
Inline(f) == f.kind \in {"raw", "ptr"}

\* The generated check of the buffer: exactly, or at least, the fixed part.
IsFixed(c) == \A i \in DOMAIN Fields(c) : Inline(Fields(c)[i])

\* What a function returns, and a nil dereference.
Outcomes == {"ok", "error", "panic"}

Zeros(n) == [k \in 1..n |-> 0]

\* new(T): arrays of zeros, nil pointers, empty lists.
NewObject ==
    [c \in DOMAIN Container |->
        [i \in DOMAIN Fields(c) |->
            CASE Fields(c)[i].kind = "raw" -> Zeros(Fields(c)[i].width)
              [] Fields(c)[i].kind \in {"ptr", "varptr"} -> Nil
              [] OTHER -> <<>>]]

New(c) == NewObject[c]

\* if x == nil { x = new(T) }
OrNew(f, v) == IF v = Nil THEN New(f.of) ELSE v

\* FoldLeft by recursion on the length: one application for each element.
Accumulate(op(_, _), base, seq) ==
    LET acc[n \in 0..Len(seq)] == IF n = 0 THEN base ELSE op(acc[n - 1], seq[n])
    IN  acc[Len(seq)]

SumOver(size(_), seq) == Accumulate(LAMBDA sum, x : sum + size(x), 0, seq)
ConcatOver(bytes(_), seq) == Accumulate(LAMBDA all, x : all \o bytes(x), <<>>, seq)

\* buf[lo:hi], and copy(dst, src) between arrays.
Slice(buf, lo, hi) == SubSeq(buf, lo + 1, hi)
Copy(dst, src) == SubSeq(src, 1, Len(dst)) \o SubSeq(dst, Len(src) + 1, Len(dst))

-----------------------------------------------------------------------------
(* The library functions the generated code calls. *)

\* uint32, little endian.  Offsets from 2^31 are behind the end of any buffer, so
\* one of them stands for all.
WriteOffset(n) == [k \in 1..4 |-> (n \div 256^(k - 1)) % 256]
ReadOffset(b) ==
    IF b[4] >= 128 THEN 2147483647
    ELSE b[1] + 256 * b[2] + 65536 * b[3] + 16777216 * b[4]

\* DivideInt2: how many elements of a fixed width, -1 for an error.
DivideInt2(len, width, max) ==
    IF len % width = 0 /\ len \div width <= max THEN len \div width ELSE -1

\* DecodeDynamicLength: the first offset says how many offsets there are.
DecodeDynamicLength(buf, max) ==
    IF buf = <<>> THEN 0
    ELSE IF Len(buf) < 4 THEN -1
    ELSE DivideInt2(ReadOffset(buf), 4, max)

\* The bounds UnmarshalDynamic reads for element k of n; no bounds for an error.
Bounds(lo, hi, size) == IF lo > hi \/ hi > size THEN <<>> ELSE <<lo, hi>>

DynamicBounds(buf, k, n) ==
    LET At(j) == IF j > n THEN Len(buf) ELSE ReadOffset(Slice(buf, 4 * j - 4, 4 * j))
    IN  IF k < n /\ Len(buf) < 4 * k + 4 THEN <<>> ELSE Bounds(At(k), At(k + 1), Len(buf))

\* ValidateBitlist: the last byte holds the bit that ends the list.
ValidateBitlist(buf, limit) ==
    /\ buf # <<>>
    /\ Len(buf) <= limit \div 8 + 1
    /\ Last(buf) # 0
    /\ Len(buf) = limit \div 8 + 1 => Last(buf) = 1

-----------------------------------------------------------------------------
(* SizeSSZ *)

RECURSIVE SizeSSZ(_, _)

\* A mutant: the offsets of a list of variable elements are not counted.
VarSizeNoOffsets(f, v) ==
    CASE f.kind = "varptr" -> SizeSSZ(f.of, OrNew(f, v))
      [] f.kind \in {"list", "u64s", "bytes", "bits"} -> Len(v) * f.width
      [] f.kind = "dynlist" -> SumOver(LAMBDA o : SizeSSZ(f.of, o), v)
      [] f.kind = "byteslist" -> SumOver(LAMBDA b : Len(b), v)
      [] OTHER -> 0

\* What a field adds to the variable part.
VarSize(f, v) ==
    CASE f.kind = "varptr" -> SizeSSZ(f.of, OrNew(f, v))
      [] f.kind \in {"list", "u64s", "bytes", "bits"} -> Len(v) * f.width
      [] f.kind = "dynlist" -> SumOver(LAMBDA o : 4 + SizeSSZ(f.of, o), v)
      [] f.kind = "byteslist" -> SumOver(LAMBDA b : 4 + Len(b), v)
      [] OTHER -> 0

SizeSSZ(c, o) ==
    Container[c].size
        + SumOver(LAMBDA i : VarSize(Fields(c)[i], o[i]), [i \in DOMAIN Fields(c) |-> i])

\* The receiver afterwards: children of variable size that were nil exist.
RECURSIVE AfterSize(_, _)
AfterSize(c, o) ==
    [i \in DOMAIN o |->
        LET f == Fields(c)[i]
        IN  CASE f.kind = "varptr" -> AfterSize(f.of, OrNew(f, o[i]))
              [] f.kind = "dynlist" -> [k \in DOMAIN o[i] |-> AfterSize(f.of, o[i][k])]
              [] OTHER -> o[i]]

\* A nil element of a list, which no function can do anything with.
RECURSIVE HasNilElement(_, _)
HasNilElement(c, o) ==
    \E i \in DOMAIN o : LET f == Fields(c)[i] IN
        \/ f.kind \in {"ptr", "varptr"} /\ o[i] # Nil /\ HasNilElement(f.of, o[i])
        \/ f.kind \in {"list", "dynlist"} /\
               \E k \in DOMAIN o[i] : o[i][k] = Nil \/ HasNilElement(f.of, o[i][k])

-----------------------------------------------------------------------------
(* MarshalSSZ, MarshalSSZTo *)

RECURSIVE MarshalSSZTo(_, _)

\* A list of variable elements: their offsets, then the elements.
MarshalDynamic(parts) ==
    LET OffsetOf(k) == 4 * Len(parts) + SumOver(Len, SubSeq(parts, 1, k - 1))
    IN  ConcatOver(LAMBDA k : WriteOffset(OffsetOf(k)), [k \in DOMAIN parts |-> k])
            \o FlattenSeq(parts)

VarBytes(f, v) ==
    CASE f.kind = "varptr" -> MarshalSSZTo(f.of, OrNew(f, v))
      [] f.kind = "list" -> ConcatOver(LAMBDA o : MarshalSSZTo(f.of, o), v)
      [] f.kind = "dynlist" -> MarshalDynamic([k \in DOMAIN v |-> MarshalSSZTo(f.of, v[k])])
      [] f.kind = "u64s" -> FlattenSeq(v)
      [] f.kind \in {"bytes", "bits"} -> v
      [] f.kind = "byteslist" -> MarshalDynamic(v)
      [] OTHER -> <<>>

\* The fixed part of field i: its bytes, or where its bytes will be.
FixedBytes(c, o, i) ==
    LET f == Fields(c)[i]
        Offset == Container[c].size
                    + SumOver(LAMBDA j : VarSize(Fields(c)[j], o[j]), [j \in 1..(i - 1) |-> j])
    IN  CASE f.kind = "raw" -> o[i]
          [] f.kind = "ptr" -> MarshalSSZTo(f.of, OrNew(f, o[i]))
          [] OTHER -> WriteOffset(Offset)

MarshalSSZTo(c, o) ==
    LET all == [i \in DOMAIN o |-> i]
    IN  ConcatOver(LAMBDA i : FixedBytes(c, o, i), all)
            \o ConcatOver(LAMBDA i : VarBytes(Fields(c)[i], o[i]), all)

\* ErrListTooBig or ErrBytesLength, of this field or of a child.
RECURSIVE TooBig(_, _)
FieldTooBig(f, v) ==
    \/ f.kind \in {"ptr", "varptr"} /\ v # Nil /\ TooBig(f.of, v)
    \/ ~Inline(f) /\ f.kind # "varptr" /\ Len(v) > f.max
    \/ f.kind = "dynlist" /\ \E k \in DOMAIN v : TooBig(f.of, v[k])

TooBig(c, o) == \E i \in DOMAIN o : FieldTooBig(Fields(c)[i], o[i])

\* MarshalSSZ asks for the size first, so a nil element comes before any error.
MarshalOutcome(c, o) ==
    IF HasNilElement(c, o) THEN "panic" ELSE IF TooBig(c, o) THEN "error" ELSE "ok"

\* The first of a sequence that fails a test; one past the end if none does.
FirstBad(bad(_), seq) ==
    CHOOSE n \in 1..(Len(seq) + 1) :
        /\ n <= Len(seq) => bad(seq[n])
        /\ \A m \in 1..(n - 1) : ~bad(seq[m])

\* The receiver afterwards.  The fixed part is written first, and the offsets ask
\* every child of variable size for its size; then come the fields behind the
\* offsets, until one is too big.  Without an error no child is nil any more.
RECURSIVE AfterMarshal(_, _)
AfterMarshal(c, o) ==
    LET sized == AfterSize(c, o)
        stop == FirstBad(LAMBDA i : FieldTooBig(Fields(c)[i], o[i]), [i \in DOMAIN o |-> i])
        Elements(f, v) ==
            LET last == FirstBad(LAMBDA e : TooBig(f.of, e), v)
            IN  [k \in DOMAIN v |-> IF k <= last THEN AfterMarshal(f.of, v[k]) ELSE v[k]]
    IN  [i \in DOMAIN o |->
            LET f == Fields(c)[i]
            IN  CASE f.kind = "ptr" -> AfterMarshal(f.of, OrNew(f, o[i]))
                  [] f.kind = "varptr" /\ i <= stop -> AfterMarshal(f.of, sized[i])
                  [] f.kind \in {"list", "dynlist"} /\ i <= stop /\ Len(o[i]) <= f.max ->
                        Elements(f, sized[i])
                  [] OTHER -> sized[i]]

-----------------------------------------------------------------------------
(* UnmarshalSSZ.  A result is whether it succeeded and the receiver, which    *)
(* keeps whatever was written into it before an error.                        *)

RECURSIVE UnmarshalSSZ(_, _, _)

Result(ok, obj) == [ok |-> ok, obj |-> obj]

\* What was decoded so far, and the result of decoding into its part k.
With(r, k, part) == Result(part.ok, [r.obj EXCEPT ![k] = part.obj])

\* An element from between its bounds; without bounds it stays what it is.
UnmarshalElement(f, v, buf, b) ==
    IF b = <<>> THEN Result(FALSE, v)
    ELSE IF f.kind = "byteslist" THEN Result(TRUE, Slice(buf, b[1], b[2]))
    ELSE UnmarshalSSZ(f.of, New(f.of), Slice(buf, b[1], b[2]))

\* The bounds of an element follow from its width, or are in the buffer.
ElementBounds(f, buf, k, num) ==
    IF f.kind = "list" THEN <<(k - 1) * f.width, k * f.width>> ELSE DynamicBounds(buf, k, num)

\* Element after element into a list just made, as long as none fails.
UnmarshalElements(f, buf, num) ==
    Accumulate(LAMBDA r, k :
                IF ~r.ok THEN r
                ELSE With(r, k, UnmarshalElement(f, r.obj[k], buf, ElementBounds(f, buf, k, num))),
             Result(TRUE, [k \in 1..num |-> IF f.kind = "byteslist" THEN <<>> ELSE Nil]),
             [k \in 1..num |-> k])

\* A list of num elements, -1 for an error.
UnmarshalList(f, v, buf, num) ==
    IF num = -1 THEN Result(FALSE, v)
    ELSE IF f.kind = "u64s" THEN Result(TRUE, [k \in 1..num |-> Slice(buf, 8 * k - 8, 8 * k)])
    ELSE UnmarshalElements(f, buf, num)

\* A mutant: bits are appended before they are looked at.
UnmarshalBitsUnchecked(f, v, buf) == Result(ValidateBitlist(buf, f.max), v \o buf)

\* Bits are appended to those the receiver has, but never bits that are not valid.
UnmarshalBits(f, v, buf) ==
    LET ok == ValidateBitlist(buf, f.max) IN Result(ok, IF ok THEN v \o buf ELSE v)

\* A field from what lies between its offset and the next.  Lists are made anew;
\* bytes are appended to the bytes the receiver has.
UnmarshalVar(f, v, buf) ==
    CASE f.kind = "varptr" -> UnmarshalSSZ(f.of, OrNew(f, v), buf)
      [] f.kind = "bytes" -> IF Len(buf) > f.max THEN Result(FALSE, v) ELSE Result(TRUE, v \o buf)
      [] f.kind = "bits" -> UnmarshalBits(f, v, buf)
      [] f.kind \in {"list", "u64s"} ->
            UnmarshalList(f, v, buf, DivideInt2(Len(buf), f.width, f.max))
      [] f.kind \in {"dynlist", "byteslist"} ->
            UnmarshalList(f, v, buf, DecodeDynamicLength(buf, f.max))

\* An offset is in the buffer, behind the fixed part, and not before the previous.
OffsetOk(size, fixed, offs, o) ==
    /\ o <= size
    /\ IF offs = <<>> THEN o >= fixed ELSE o >= Last(offs)

\* What was decoded so far with a child, or with an offset that is good or not.
WithChild(r, i, child) == [r EXCEPT !.ok = child.ok, !.obj[i] = child.obj]
WithOffset(r, ok, o) == [r EXCEPT !.ok = ok, !.offs = Append(r.offs, o)]

\* A field of the fixed part; what is behind an offset is left for later.
UnmarshalFixedField(c, f, r, i, part, size) ==
    CASE f.kind = "raw" -> [r EXCEPT !.obj[i] = Copy(r.obj[i], part)]
      [] f.kind = "ptr" -> WithChild(r, i, UnmarshalSSZ(f.of, OrNew(f, r.obj[i]), part))
      [] OTHER ->
            LET o == ReadOffset(part)
            IN  WithOffset(r, OffsetOk(size, Container[c].size, r.offs, o), o)

\* The fixed part, field after field; offs collects the offsets.
UnmarshalFixed(c, recv, buf) ==
    Accumulate(LAMBDA r, i :
                LET f == Fields(c)[i]
                IN  IF ~r.ok THEN r
                    ELSE UnmarshalFixedField(c, f, r, i, Slice(buf, f.lo, f.hi), Len(buf)),
             [ok |-> TRUE, obj |-> recv, offs |-> <<>>],
             [i \in DOMAIN recv |-> i])

\* The fields behind the offsets, each up to the next offset.
UnmarshalBehind(c, fixed, buf) ==
    LET behind == SelectSeq([i \in DOMAIN fixed.obj |-> i], LAMBDA i : ~Inline(Fields(c)[i]))
        ends == Append(Tail(fixed.offs), Len(buf))
    IN  IF ~fixed.ok \/ behind = <<>> THEN Result(fixed.ok, fixed.obj)
        ELSE Accumulate(LAMBDA r, k :
                         IF ~r.ok THEN r
                         ELSE With(r, behind[k],
                                   UnmarshalVar(Fields(c)[behind[k]], r.obj[behind[k]],
                                                Slice(buf, fixed.offs[k], ends[k]))),
                      Result(TRUE, fixed.obj),
                      [k \in DOMAIN behind |-> k])

\* The check of the buffer: a container of fixed size has exactly its bytes.
SizeOk(c, buf) ==
    IF IsFixed(c) THEN Len(buf) = Container[c].size ELSE Len(buf) >= Container[c].size

UnmarshalSSZ(c, recv, buf) ==
    IF ~SizeOk(c, buf) THEN Result(FALSE, recv)
    ELSE UnmarshalBehind(c, UnmarshalFixed(c, recv, buf), buf)

-----------------------------------------------------------------------------
(* HashTreeRootWith.  Every field is fed to the hasher, in order; what counts *)
(* here is whether there is a root at all.                                    *)

RECURSIVE HashTreeRootWith(_, _)

\* parseBitlist: how many bytes are left without the bit that ends the list and
\* without zeros at the end.
BitlistLength(v) ==
    Max({0} \cup {k \in DOMAIN v : /\ v[k] # 0
                                  /\ k = Len(v) => v[k] \notin {2^b : b \in 0..7}})

\* PutBitlist merkleizes them in chunks of 256 bits, and panics on one too many.
BitlistTooLong(v, limit) == BitlistLength(v) > 32 * ((limit + 255) \div 256)

PutBitlist(v, limit) == IF BitlistTooLong(v, limit) THEN "panic" ELSE "ok"

\* Unlike encoding, hashing does not create a child that is nil.
FieldRoot(f, v) ==
    LET Elements == Accumulate(LAMBDA r, e : IF r = "ok" THEN HashTreeRootWith(f.of, e) ELSE r,
                             "ok", v)
    IN  CASE f.kind = "raw" -> "ok"
          [] f.kind \in {"ptr", "varptr"} -> HashTreeRootWith(f.of, v)
          [] f.kind = "bits" -> IF v = <<>> THEN "error" ELSE PutBitlist(v, f.max)
          [] Len(v) > f.max -> "error"
          [] f.kind \in {"list", "dynlist"} -> Elements
          [] OTHER -> "ok"

HashTreeRootWith(c, o) ==
    IF o = Nil THEN "panic"
    ELSE Accumulate(LAMBDA r, i : IF r = "ok" THEN FieldRoot(Fields(c)[i], o[i]) ELSE r,
                  "ok", [i \in DOMAIN o |-> i])

=============================================================================
