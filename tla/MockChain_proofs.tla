--------------------------- MODULE MockChain_proofs ---------------------------
(***************************************************************************)
(* Facts about blocks as sequences of seals, used by the proofs about the  *)
(* components that keep a mock chain.                                      *)
(***************************************************************************)
EXTENDS MockChain, SequenceTheorems, TLAPS

\* The larger of two integers, as the reorg target and its lower bound take it.
LEMMA MaxOfTwo ==
    ASSUME NEW a \in Int, NEW b \in Int
    PROVE  /\ Max({a, b}) \in {a, b}
           /\ Max({a, b}) >= a
           /\ Max({a, b}) >= b
<1>1. \E x \in {a, b} : \A y \in {a, b} : x >= y
  <2>1. CASE a >= b BY <2>1
  <2>2. CASE b >= a BY <2>2
  <2> QED BY <2>1, <2>2
<1> QED BY <1>1 DEF Max

\* The prefix of a block up to one of its numbers is a block of that number, and
\* its seals are those of the block.
LEMMA PrefixOfBlock ==
    ASSUME NEW b \in Block, NEW n \in 0..Len(b)
    PROVE  /\ SubSeq(b, 1, n) \in Block
           /\ Len(SubSeq(b, 1, n)) = n
           /\ \A i \in 1..n : SubSeq(b, 1, n)[i] = b[i]
<1>1. Len(b) \in Nat /\ \A i \in 1..Len(b) : b[i] \in Seal
  BY LenProperties, ElementOfSeq DEF Block
<1>2. \A i \in 1..n : b[i] \in Seal
  BY <1>1
<1>3. /\ SubSeq(b, 1, n) \in Seq(Seal)
      /\ Len(SubSeq(b, 1, n)) = IF 1 <= n THEN n - 1 + 1 ELSE 0
      /\ \A i \in 1..(n - 1 + 1) : SubSeq(b, 1, n)[i] = b[1 + i - 1]
  BY <1>1, <1>2, SubSeqProperties
<1> QED BY <1>1, <1>3 DEF Block

\* Two blocks with the same number and the same seals are the same block.
LEMMA BlockEqual ==
    ASSUME NEW a \in Block, NEW b \in Block,
           Len(a) = Len(b), \A i \in 1..Len(a) : a[i] = b[i]
    PROVE  a = b
BY SeqEqual DEF Block

\* The longest prefix of a block is the block.
LEMMA WholePrefix ==
    ASSUME NEW b \in Block
    PROVE  SubSeq(b, 1, Len(b)) = b
<1>1. Len(b) \in 0..Len(b)
  BY LenProperties DEF Block
<1>2. /\ SubSeq(b, 1, Len(b)) \in Block
      /\ Len(SubSeq(b, 1, Len(b))) = Len(b)
      /\ \A i \in 1..Len(b) : SubSeq(b, 1, Len(b))[i] = b[i]
  BY <1>1, PrefixOfBlock
<1> QED BY <1>2, BlockEqual

\* A child of a block is the block, and one seal more.
LEMMA ChildOfBlock ==
    ASSUME NEW b \in Block, NEW s \in Seal
    PROVE  /\ Append(b, s) \in Block
           /\ Len(Append(b, s)) = Len(b) + 1
           /\ \A i \in 1..Len(b) : Append(b, s)[i] = b[i]
           /\ Append(b, s)[Len(b) + 1] = s
BY AppendProperties DEF Block

\* A prefix of a child is the child itself or a prefix of the parent.
LEMMA PrefixOfChild ==
    ASSUME NEW b \in Block, NEW s \in Seal, NEW n \in 0..(Len(b) + 1)
    PROVE  SubSeq(Append(b, s), 1, n) = IF n <= Len(b) THEN SubSeq(b, 1, n) ELSE Append(b, s)
<1> DEFINE c == Append(b, s)
<1>1. /\ c \in Block
      /\ Len(c) = Len(b) + 1
      /\ \A i \in 1..Len(b) : c[i] = b[i]
  BY ChildOfBlock
<1>2. Len(b) \in Nat
  BY LenProperties DEF Block
<1> HIDE DEF c
<1>3. n \in 0..Len(c)
  BY <1>1
<1>4. /\ SubSeq(c, 1, n) \in Block
      /\ Len(SubSeq(c, 1, n)) = n
      /\ \A i \in 1..n : SubSeq(c, 1, n)[i] = c[i]
  BY <1>1, <1>3, PrefixOfBlock
<1>5. CASE n <= Len(b)
  <2>1. n \in 0..Len(b)
    BY <1>2, <1>5
  <2>2. /\ SubSeq(b, 1, n) \in Block
        /\ Len(SubSeq(b, 1, n)) = n
        /\ \A i \in 1..n : SubSeq(b, 1, n)[i] = b[i]
    BY <2>1, PrefixOfBlock
  <2>3. \A i \in 1..n : SubSeq(c, 1, n)[i] = SubSeq(b, 1, n)[i]
    BY <1>1, <1>2, <1>4, <1>5, <2>2
  <2>4. SubSeq(c, 1, n) = SubSeq(b, 1, n)
    BY <1>4, <2>2, <2>3, BlockEqual
  <2> QED BY <1>5, <2>4 DEF c
<1>6. CASE ~(n <= Len(b))
  <2>1. n = Len(c)
    BY <1>1, <1>2, <1>6
  <2>2. SubSeq(c, 1, n) = c
    BY <1>1, <1>4, <2>1, BlockEqual
  <2> QED BY <1>6, <2>2 DEF c
<1> QED BY <1>5, <1>6

\* The parent of a child is the block it was appended to.
LEMMA ParentOfChild ==
    ASSUME NEW b \in Block, NEW s \in Seal
    PROVE  ParentOf(Append(b, s)) = b
<1>1. Len(b) \in Nat /\ Len(Append(b, s)) = Len(b) + 1
  BY ChildOfBlock, LenProperties DEF Block
<1>2. SubSeq(Append(b, s), 1, Len(b)) = SubSeq(b, 1, Len(b))
  BY <1>1, PrefixOfChild
<1>3. SubSeq(b, 1, Len(b)) = b
  BY WholePrefix
<1>4. Len(Append(b, s)) - 1 = Len(b)
  BY <1>1
<1> QED BY <1>2, <1>3, <1>4 DEF ParentOf

\* Every block but genesis is a child of its parent.
LEMMA BlockIsChild ==
    ASSUME NEW b \in Block, Len(b) > 0
    PROVE  /\ ParentOf(b) \in Block
           /\ b[Len(b)] \in Seal
           /\ b = Append(ParentOf(b), b[Len(b)])
<1>1. Len(b) \in Nat /\ b[Len(b)] \in Seal
  BY LenProperties, ElementOfSeq DEF Block
<1>2. Len(b) - 1 \in 0..Len(b)
  BY <1>1
<1>3. /\ ParentOf(b) \in Block
      /\ Len(ParentOf(b)) = Len(b) - 1
      /\ \A i \in 1..(Len(b) - 1) : ParentOf(b)[i] = b[i]
  BY <1>2, PrefixOfBlock DEF ParentOf
<1> DEFINE c == Append(ParentOf(b), b[Len(b)])
<1>4. /\ c \in Block
      /\ Len(c) = Len(b)
      /\ \A i \in 1..(Len(b) - 1) : c[i] = b[i]
      /\ c[Len(b)] = b[Len(b)]
  BY <1>1, <1>3, ChildOfBlock
<1> HIDE DEF c
<1>5. \A i \in 1..Len(b) : c[i] = b[i]
  BY <1>1, <1>4
<1>6. c = b
  BY <1>4, <1>5, BlockEqual
<1> QED BY <1>1, <1>3, <1>6 DEF c

\* Every block is its own ancestor.
LEMMA AncestorOfItself ==
    ASSUME NEW b \in Block
    PROVE  IsAncestor(b, b)
BY LenProperties DEF IsAncestor, Block

\* An ancestor of a block is an ancestor of its children.
LEMMA AncestorOfChild ==
    ASSUME NEW a \in Block, NEW b \in Block, NEW s \in Seal, IsAncestor(a, b)
    PROVE  IsAncestor(a, Append(b, s))
<1>1. Len(a) \in Nat /\ Len(b) \in Nat
  BY LenProperties DEF Block
<1> QED BY <1>1, ChildOfBlock DEF IsAncestor

\* An ancestor of a block is an ancestor of every prefix that is long enough.
LEMMA AncestorOfPrefix ==
    ASSUME NEW a \in Block, NEW b \in Block, IsAncestor(a, b), NEW n \in Len(a)..Len(b)
    PROVE  IsAncestor(a, SubSeq(b, 1, n))
<1>1. Len(a) \in Nat /\ Len(b) \in Nat /\ n \in 0..Len(b)
  BY LenProperties DEF Block
<1>2. Len(SubSeq(b, 1, n)) = n /\ \A i \in 1..n : SubSeq(b, 1, n)[i] = b[i]
  BY <1>1, PrefixOfBlock
<1> QED BY <1>1, <1>2 DEF IsAncestor

\* A prefix of a block is one of its ancestors.
LEMMA PrefixIsAncestor ==
    ASSUME NEW b \in Block, NEW n \in 0..Len(b)
    PROVE  IsAncestor(SubSeq(b, 1, n), b)
<1>1. Len(b) \in Nat
  BY LenProperties DEF Block
<1> QED BY <1>1, PrefixOfBlock DEF IsAncestor

\* An ancestor of a block is one of its prefixes.
LEMMA AncestorIsPrefix ==
    ASSUME NEW a \in Block, NEW b \in Block, IsAncestor(a, b)
    PROVE  Len(a) \in 0..Len(b) /\ SubSeq(b, 1, Len(a)) = a
<1>1. Len(a) \in 0..Len(b)
  BY LenProperties DEF IsAncestor, Block
<1> DEFINE p == SubSeq(b, 1, Len(a))
<1>2. p \in Block /\ Len(p) = Len(a) /\ \A i \in 1..Len(a) : p[i] = b[i]
  BY <1>1, PrefixOfBlock
<1> HIDE DEF p
<1>3. p = a
  BY <1>2, BlockEqual DEF IsAncestor
<1> QED BY <1>1, <1>3 DEF p

\* A set of blocks that holds the ancestry of each of its members, as a database
\* that is filled parent before child does.
AncestryClosed(S) == \A b \in S : \A n \in 0..Len(b) : SubSeq(b, 1, n) \in S

\* Adding a child of a member keeps the ancestry.
LEMMA ChildKeepsAncestry ==
    ASSUME NEW S, S \subseteq Block, AncestryClosed(S), NEW p \in S, NEW s \in Seal
    PROVE  AncestryClosed(S \cup {Append(p, s)})
<1>1. ASSUME NEW n \in 0..Len(Append(p, s))
      PROVE  SubSeq(Append(p, s), 1, n) \in S \cup {Append(p, s)}
  <2>1. p \in Block /\ Len(p) \in Nat /\ Len(Append(p, s)) = Len(p) + 1
    BY ChildOfBlock, LenProperties DEF Block
  <2>2. SubSeq(Append(p, s), 1, n) = IF n <= Len(p) THEN SubSeq(p, 1, n) ELSE Append(p, s)
    BY <1>1, <2>1, PrefixOfChild
  <2>3. CASE n <= Len(p)
    <3>1. n \in 0..Len(p)
      BY <1>1, <2>1, <2>3
    <3>2. SubSeq(p, 1, n) \in S
      BY <3>1 DEF AncestryClosed
    <3> QED BY <2>2, <2>3, <3>2
  <2>4. CASE ~(n <= Len(p))
    BY <2>2, <2>4
  <2> QED BY <2>3, <2>4
<1> QED BY <1>1 DEF AncestryClosed

\* The ancestry of a block is a set of blocks that is closed and holds the block.
LEMMA AncestryIsClosed ==
    ASSUME NEW b \in Block
    PROVE  /\ Ancestry(b) \subseteq Block
           /\ AncestryClosed(Ancestry(b))
           /\ b \in Ancestry(b)
           /\ \A a \in Ancestry(b) : IsAncestor(a, b)
<1>1. Len(b) \in Nat
  BY LenProperties DEF Block
<1>2. Ancestry(b) \subseteq Block /\ \A a \in Ancestry(b) : IsAncestor(a, b)
  BY <1>1, PrefixOfBlock, PrefixIsAncestor DEF Ancestry
<1>3. ASSUME NEW m \in 0..Len(b), NEW n \in 0..m
      PROVE  SubSeq(SubSeq(b, 1, m), 1, n) = SubSeq(b, 1, n)
  <2> DEFINE p == SubSeq(b, 1, m)
  <2>1. p \in Block /\ Len(p) = m /\ \A i \in 1..m : p[i] = b[i]
    BY <1>1, PrefixOfBlock
  <2> HIDE DEF p
  <2>2. n \in 0..Len(p) /\ n \in 0..Len(b)
    BY <1>1, <1>3, <2>1
  <2>3. /\ SubSeq(p, 1, n) \in Block
        /\ Len(SubSeq(p, 1, n)) = n
        /\ \A i \in 1..n : SubSeq(p, 1, n)[i] = p[i]
    BY <2>1, <2>2, PrefixOfBlock
  <2>4. /\ SubSeq(b, 1, n) \in Block
        /\ Len(SubSeq(b, 1, n)) = n
        /\ \A i \in 1..n : SubSeq(b, 1, n)[i] = b[i]
    BY <2>2, PrefixOfBlock
  <2>5. \A i \in 1..n : SubSeq(p, 1, n)[i] = SubSeq(b, 1, n)[i]
    BY <1>1, <2>1, <2>3, <2>4
  <2>6. SubSeq(p, 1, n) = SubSeq(b, 1, n)
    BY <2>3, <2>4, <2>5, BlockEqual
  <2> QED BY <2>6 DEF p
<1>4. AncestryClosed(Ancestry(b))
  <2> SUFFICES ASSUME NEW m \in 0..Len(b), NEW n \in 0..Len(SubSeq(b, 1, m))
               PROVE  SubSeq(SubSeq(b, 1, m), 1, n) \in Ancestry(b)
    BY DEF AncestryClosed, Ancestry
  <2>1. n \in 0..m /\ n \in 0..Len(b)
    BY <1>1, PrefixOfBlock
  <2> QED BY <1>3, <2>1 DEF Ancestry
<1>5. b \in Ancestry(b)
  <2>1. SubSeq(b, 1, Len(b)) = b /\ Len(b) \in 0..Len(b)
    BY <1>1, WholePrefix
  <2> QED BY <2>1 DEF Ancestry
<1> QED BY <1>2, <1>4, <1>5

=============================================================================
