--------------------------- MODULE Renaming_proofs ---------------------------
(***************************************************************************)
(* The engine mock is one of the engines ConsensusNode is proved for: the  *)
(* two mocks together implement ConsensusNode, under a renaming of the     *)
(* engine's payloads.                                                      *)
(***************************************************************************)
EXTENDS MergeMock_proofs

-----------------------------------------------------------------------------
(* The renaming *)

\* An id was given to one goroutine only.
Unambiguous(calls) ==
    \A t, u \in Ticks :
        /\ calls[<<t, "forkchoice">>].id = calls[<<u, "forkchoice">>].id
        /\ calls[<<t, "forkchoice">>].id # 0
        => t = u

\* What a seal is renamed to.
RenamedSeal(calls, s) ==
    IF s.src = "engine" THEN [s EXCEPT !.by = TickOf(calls, s.by)] ELSE s

\* The tick that an id is renamed to is the one that was given the id.
LEMMA TickOfId ==
    ASSUME NEW calls, Unambiguous(calls), NEW t \in Ticks,
           calls[<<t, "forkchoice">>].id # 0
    PROVE  TickOf(calls, calls[<<t, "forkchoice">>].id) = t
BY DEF TickOf, Unambiguous

\* A renamed block is as long as the block, and renamed seal by seal.
LEMMA RenamedFacts ==
    ASSUME NEW calls, Unambiguous(calls), NEW b \in Block, Named(calls, b)
    PROVE  /\ Renamed(calls, b) \in Block
           /\ Renamed(calls, b) # NoHash
           /\ Len(Renamed(calls, b)) = Len(b)
           /\ \A k \in 1..Len(b) :
                 /\ Renamed(calls, b)[k] = RenamedSeal(calls, b[k])
                 /\ Renamed(calls, b)[k] \in Seal
                 /\ Renamed(calls, b)[k].slot = b[k].slot
<1>1. b # NoHash
  BY NoHashAssumption
<1>2. Len(b) \in Nat /\ DOMAIN b = 1..Len(b) /\ \A k \in 1..Len(b) : b[k] \in Seal
  BY LenProperties, ElementOfSeq DEF Block
<1>3. Renamed(calls, b) = [k \in 1..Len(b) |-> RenamedSeal(calls, b[k])]
  BY <1>1, <1>2 DEF Renamed, RenamedSeal
<1>4. ASSUME NEW k \in 1..Len(b)
      PROVE  RenamedSeal(calls, b[k]) \in Seal /\ RenamedSeal(calls, b[k]).slot = b[k].slot
  <2>1. CASE b[k].src = "engine"
    <3>1. PICK t \in Ticks : calls[<<t, "forkchoice">>].id = b[k].by /\ b[k].by # 0
      BY <1>1, <2>1 DEF Named
    <3>2. TickOf(calls, b[k].by) = t
      BY <3>1, TickOfId
    <3>3. t \in Nat
      BY ConstantsAssumption DEF Ticks
    <3> QED BY <1>2, <2>1, <3>2, <3>3 DEF RenamedSeal, Seal
  <2>2. CASE b[k].src # "engine"
    BY <1>2, <2>2 DEF RenamedSeal
  <2> QED BY <2>1, <2>2
<1>5. Renamed(calls, b) \in Seq(Seal) /\ Len(Renamed(calls, b)) = Len(b)
  <2>1. Renamed(calls, b) \in [1..Len(b) -> Seal]
    BY <1>3, <1>4
  <2> QED BY <1>2, <2>1, SeqDef, LenProperties
<1> QED BY <1>3, <1>4, <1>5, NoHashAssumption DEF Block

\* Different seals are renamed to different seals.
LEMMA RenamedSealsDiffer ==
    ASSUME NEW calls, Unambiguous(calls), NEW a \in Block, NEW b \in Block,
           Named(calls, a), Named(calls, b), NEW k \in 1..Len(a), k \in 1..Len(b),
           Renamed(calls, a)[k] = Renamed(calls, b)[k]
    PROVE  a[k] = b[k]
<1>1. a[k] \in Seal /\ b[k] \in Seal /\ a # NoHash /\ b # NoHash
  BY LenProperties, ElementOfSeq, NoHashAssumption DEF Block
<1>2. RenamedSeal(calls, a[k]) = RenamedSeal(calls, b[k])
  BY RenamedFacts
<1>3. a[k].src = b[k].src /\ a[k].slot = b[k].slot
  BY <1>1, <1>2 DEF RenamedSeal, Seal
<1>4. CASE a[k].src = "engine"
  <2>1. PICK t \in Ticks : calls[<<t, "forkchoice">>].id = a[k].by /\ a[k].by # 0
    BY <1>1, <1>4 DEF Named
  <2>2. PICK u \in Ticks : calls[<<u, "forkchoice">>].id = b[k].by /\ b[k].by # 0
    BY <1>1, <1>3, <1>4 DEF Named
  <2>3. TickOf(calls, a[k].by) = t /\ TickOf(calls, b[k].by) = u
    BY <2>1, <2>2, TickOfId
  <2>4. t = u
    BY <1>1, <1>2, <1>3, <1>4, <2>3 DEF RenamedSeal, Seal
  <2>5. a[k].by = b[k].by
    BY <2>1, <2>2, <2>4
  <2> QED BY <1>1, <1>3, <2>5 DEF Seal
<1>5. CASE a[k].src # "engine"
  BY <1>2, <1>3, <1>5 DEF RenamedSeal
<1> QED BY <1>4, <1>5

\* The renaming keeps ancestors, and only those.
LEMMA RenamedAncestor ==
    ASSUME NEW calls, Unambiguous(calls), NEW a \in Block, NEW b \in Block,
           Named(calls, a), Named(calls, b)
    PROVE  IsAncestor(Renamed(calls, a), Renamed(calls, b)) <=> IsAncestor(a, b)
<1>1. Len(a) \in Nat /\ Len(b) \in Nat
  BY LenProperties DEF Block
<1>2. /\ Len(Renamed(calls, a)) = Len(a) /\ Len(Renamed(calls, b)) = Len(b)
      /\ \A k \in 1..Len(a) : Renamed(calls, a)[k] = RenamedSeal(calls, a[k])
      /\ \A k \in 1..Len(b) : Renamed(calls, b)[k] = RenamedSeal(calls, b[k])
  BY RenamedFacts
<1>3. ASSUME IsAncestor(a, b) PROVE IsAncestor(Renamed(calls, a), Renamed(calls, b))
  BY <1>1, <1>2, <1>3 DEF IsAncestor
<1>4. ASSUME IsAncestor(Renamed(calls, a), Renamed(calls, b)) PROVE IsAncestor(a, b)
  <2>1. Len(a) <= Len(b) /\ \A k \in 1..Len(a) : Renamed(calls, a)[k] = Renamed(calls, b)[k]
    BY <1>2, <1>4 DEF IsAncestor
  <2>2. ASSUME NEW k \in 1..Len(a) PROVE a[k] = b[k]
    <3>1. k \in 1..Len(b)
      BY <1>1, <2>1
    <3> QED BY <2>1, <3>1, RenamedSealsDiffer
  <2> QED BY <2>1, <2>2 DEF IsAncestor
<1> QED BY <1>3, <1>4

\* Different blocks are renamed to different blocks.
LEMMA RenamedDiffer ==
    ASSUME NEW calls, Unambiguous(calls), NEW a \in Block, NEW b \in Block,
           Named(calls, a), Named(calls, b), Renamed(calls, a) = Renamed(calls, b)
    PROVE  a = b
<1>1. Len(a) = Len(b)
  BY RenamedFacts
<1>2. \A k \in 1..Len(a) : a[k] = b[k]
  BY <1>1, RenamedSealsDiffer
<1> QED BY <1>1, <1>2, BlockEqual

\* A prefix is renamed to the prefix, and is named if the block is.
LEMMA RenamedPrefix ==
    ASSUME NEW calls, Unambiguous(calls), NEW b \in Block, Named(calls, b), NEW n \in 0..Len(b)
    PROVE  /\ Named(calls, SubSeq(b, 1, n))
           /\ Renamed(calls, SubSeq(b, 1, n)) = SubSeq(Renamed(calls, b), 1, n)
<1>1. PICK a \in Block : a = SubSeq(b, 1, n) /\ Len(a) = n /\ \A i \in 1..n : a[i] = b[i]
  BY PrefixOfBlock
<1>2. Len(b) \in Nat /\ b # NoHash /\ \A i \in 1..n : i \in 1..Len(b)
  BY LenProperties, NoHashAssumption DEF Block
<1>3. Named(calls, a)
  BY <1>1, <1>2 DEF Named
<1>4. /\ Renamed(calls, b) \in Block /\ Len(Renamed(calls, b)) = Len(b)
      /\ \A k \in 1..Len(b) : Renamed(calls, b)[k] = RenamedSeal(calls, b[k])
  BY RenamedFacts
<1>5. PICK c \in Block :
         /\ c = SubSeq(Renamed(calls, b), 1, n) /\ Len(c) = n
         /\ \A i \in 1..n : c[i] = Renamed(calls, b)[i]
  BY <1>4, PrefixOfBlock
<1>6. /\ Renamed(calls, a) \in Block /\ Len(Renamed(calls, a)) = Len(a)
      /\ \A k \in 1..Len(a) : Renamed(calls, a)[k] = RenamedSeal(calls, a[k])
  BY <1>3, RenamedFacts
<1>7. \A k \in 1..n : Renamed(calls, a)[k] = c[k]
  BY <1>1, <1>2, <1>4, <1>5, <1>6
<1>8. Len(Renamed(calls, a)) = Len(c) /\ \A k \in 1..Len(c) : Renamed(calls, a)[k] = c[k]
  BY <1>1, <1>5, <1>6, <1>7
<1>9. Renamed(calls, a) = c
  BY <1>6, <1>8, BlockEqual
<1> QED BY <1>1, <1>3, <1>5, <1>9

\* A child is renamed to a child.
LEMMA RenamedChild ==
    ASSUME NEW calls, Unambiguous(calls), NEW b \in Block, Named(calls, b), NEW s \in Seal,
           s.src = "engine" => s.by # 0 /\ \E t \in Ticks : calls[<<t, "forkchoice">>].id = s.by
    PROVE  /\ Named(calls, Append(b, s))
           /\ Renamed(calls, Append(b, s)) = Append(Renamed(calls, b), RenamedSeal(calls, s))
<1>1. Len(b) \in Nat /\ b # NoHash
  BY LenProperties, NoHashAssumption DEF Block
<1> DEFINE c == Append(b, s)
<1>2. /\ c \in Block /\ Len(c) = Len(b) + 1 /\ c[Len(b) + 1] = s
      /\ \A i \in 1..Len(b) : c[i] = b[i]
  BY AppendProperties DEF Block
<1> HIDE DEF c
<1>3. \A k \in 1..Len(c) : k \in 1..Len(b) \/ k = Len(b) + 1
  BY <1>1, <1>2
<1>4. Named(calls, c)
  BY <1>1, <1>2, <1>3 DEF Named
<1>5. /\ Renamed(calls, c) \in Block /\ Len(Renamed(calls, c)) = Len(c)
      /\ \A k \in 1..Len(c) : Renamed(calls, c)[k] = RenamedSeal(calls, c[k])
      /\ \A k \in 1..Len(c) : Renamed(calls, c)[k] \in Seal
  BY <1>2, <1>4, RenamedFacts
<1>6. /\ Renamed(calls, b) \in Block /\ Len(Renamed(calls, b)) = Len(b)
      /\ \A k \in 1..Len(b) : Renamed(calls, b)[k] = RenamedSeal(calls, b[k])
  BY RenamedFacts
<1>7. Len(b) + 1 \in 1..Len(c) /\ RenamedSeal(calls, s) \in Seal
  BY <1>1, <1>2, <1>5
<1> DEFINE d == Append(Renamed(calls, b), RenamedSeal(calls, s))
<1>8. /\ d \in Block /\ Len(d) = Len(b) + 1 /\ d[Len(b) + 1] = RenamedSeal(calls, s)
      /\ \A i \in 1..Len(b) : d[i] = Renamed(calls, b)[i]
  BY <1>6, <1>7, AppendProperties DEF Block
<1> HIDE DEF d
<1>9. \A k \in 1..Len(c) : Renamed(calls, c)[k] = d[k]
  BY <1>1, <1>2, <1>3, <1>5, <1>6, <1>8
<1>10. Renamed(calls, c) = d
  BY <1>2, <1>5, <1>8, <1>9, BlockEqual
<1> QED BY <1>4, <1>10 DEF c, d

\* A block is inserted into the renamed chain as into the chain.
LEMMA RenamedInsert ==
    ASSUME NEW calls, Unambiguous(calls), NEW h \in Block, NEW b \in Block,
           Named(calls, h), Named(calls, b)
    PROVE  Renamed(calls, InsertChain(h, b)) = InsertChain(Renamed(calls, h), Renamed(calls, b))
BY RenamedAncestor DEF InsertChain

\* The block of a number, or none.
LEMMA RenamedByNumber ==
    ASSUME NEW calls, Unambiguous(calls), NEW h \in Block, Named(calls, h), NEW n \in Nat
    PROVE  Renamed(calls, GetHeaderByNumber(h, n)) = GetHeaderByNumber(Renamed(calls, h), n)
<1>1. Len(h) \in Nat /\ Len(Renamed(calls, h)) = Len(h)
  BY LenProperties, RenamedFacts DEF Block
<1>2. CASE n <= Len(h)
  <2>1. n \in 0..Len(h)
    BY <1>1, <1>2
  <2>2. Renamed(calls, SubSeq(h, 1, n)) = SubSeq(Renamed(calls, h), 1, n)
    BY <2>1, RenamedPrefix
  <2> QED BY <1>1, <1>2, <2>2 DEF GetHeaderByNumber
<1>3. CASE ~(n <= Len(h))
  BY <1>1, <1>3 DEF GetHeaderByNumber, Renamed
<1> QED BY <1>2, <1>3

\* The parent of a block.
LEMMA RenamedParent ==
    ASSUME NEW calls, Unambiguous(calls), NEW b \in Block, Named(calls, b), Len(b) > 0
    PROVE  /\ Named(calls, ParentOf(b))
           /\ ParentOf(b) \in Block
           /\ Renamed(calls, ParentOf(b)) = ParentOf(Renamed(calls, b))
           /\ \A s : ValidateTimestamp(Renamed(calls, b), s) <=> ValidateTimestamp(b, s)
<1>1. PICK n \in Nat : n = Len(b) - 1
  BY LenProperties DEF Block
<1>2. Len(b) \in Nat /\ n \in 0..Len(b) /\ Len(b) \in 1..Len(b)
  BY <1>1, LenProperties DEF Block
<1>3. /\ Len(Renamed(calls, b)) = Len(b)
      /\ Renamed(calls, b)[Len(b)].slot = b[Len(b)].slot
  BY <1>2, RenamedFacts
<1>4. /\ Named(calls, SubSeq(b, 1, n)) /\ SubSeq(b, 1, n) \in Block
      /\ Renamed(calls, SubSeq(b, 1, n)) = SubSeq(Renamed(calls, b), 1, n)
  BY <1>2, RenamedPrefix, PrefixOfBlock
<1> QED BY <1>1, <1>3, <1>4 DEF ParentOf, ValidateTimestamp

\* The names stay when ids are given out.
LEMMA RenamingKept ==
    ASSUME NEW calls, NEW later, Unambiguous(calls), Unambiguous(later),
           \A t \in Ticks : calls[<<t, "forkchoice">>].id # 0 =>
              later[<<t, "forkchoice">>].id = calls[<<t, "forkchoice">>].id,
           NEW b \in BlockOrNone, Named(calls, b)
    PROVE  Named(later, b) /\ Renamed(later, b) = Renamed(calls, b)
<1>1. CASE b = NoHash
  BY <1>1 DEF Named, Renamed
<1>2. CASE b # NoHash
  <2>1. b \in Block /\ DOMAIN b = 1..Len(b)
    BY <1>2, LenProperties DEF BlockOrNone, Block
  <2>2. ASSUME NEW k \in 1..Len(b), b[k].src = "engine"
        PROVE  /\ b[k].by # 0 /\ \E t \in Ticks : later[<<t, "forkchoice">>].id = b[k].by
               /\ TickOf(later, b[k].by) = TickOf(calls, b[k].by)
    <3>1. PICK t \in Ticks : calls[<<t, "forkchoice">>].id = b[k].by /\ b[k].by # 0
      BY <1>2, <2>2 DEF Named
    <3>2. later[<<t, "forkchoice">>].id = b[k].by
      BY <3>1
    <3>3. TickOf(calls, b[k].by) = t
      BY <3>1, TickOfId
    <3>4. TickOf(later, b[k].by) = t
      BY <3>1, <3>2, TickOfId
    <3> QED BY <3>1, <3>2, <3>3, <3>4
  <2> QED BY <1>2, <2>1, <2>2 DEF Named, Renamed
<1> QED BY <1>1, <1>2

-----------------------------------------------------------------------------
(* The state, renamed *)

\* ConsensusNode and its instance speak of the same operators.
LEMMA SameOperators ==
    /\ Node!Ticks = Ticks
    /\ Node!NoTask = NoTask
    /\ Node!Depths = Depths
    /\ \A a, b : Node!IsAncestor(a, b) = IsAncestor(a, b)
    /\ \A h, b : Node!InsertChain(h, b) = InsertChain(h, b)
    /\ \A h, n : Node!GetHeaderByNumber(h, n) = GetHeaderByNumber(h, n)
    /\ \A b : Node!ParentOf(b) = ParentOf(b)
    /\ \A b : Node!Number(b) = Number(b)
    /\ \A b, s : Node!AddNewBlock(b, s) = AddNewBlock(b, s)
    /\ \A b, s : Node!ValidateTimestamp(b, s) = ValidateTimestamp(b, s)
    /\ \A s : Node!PastBound(s) = PastBound(s)
    /\ \A S : Node!Max(S) = Max(S)
BY DEF Node!Ticks, Ticks, Node!NoTask, NoTask, Node!Depths, Depths, Node!IsAncestor, IsAncestor,
       Node!InsertChain, InsertChain, Node!GetHeaderByNumber, GetHeaderByNumber, Node!ParentOf,
       ParentOf, Node!Number, Number, Node!AddNewBlock, AddNewBlock, Node!ValidateTimestamp,
       ValidateTimestamp, Node!PastBound, PastBound, Node!Max, Max

\* Ids are unambiguous.
LEMMA IdsUnambiguous ==
    ASSUME MockInv
    PROVE  Unambiguous(request)
BY DEF MockInv, IdsDistinct, Call, Unambiguous

\* Every hash that the consensus mock remembers is named.
LEMMA HashesNamed ==
    ASSUME MockInv, NamesInv
    PROVE  /\ known \subseteq Block /\ \A b \in known : Named(request, b)
           /\ head \in known
           /\ \A h \in {parent, finalized, safe, nextFinalized} :
                 h \in BlockOrNone /\ Named(request, h)
           /\ \A t \in Ticks : \A h \in {task[t].block, task[t].safe, task[t].final} :
                 h \in BlockOrNone /\ Named(request, h)
<1>1. TypeOK
  BY DEF MockInv, IInv
<1>2. known \subseteq Block /\ (\A b \in known : Named(request, b)) /\ head \in known
  BY <1>1 DEF TypeOK, NamesInv
<1>3. Named(request, NoHash)
  BY DEF Named
<1>4. \A h \in {parent, finalized, safe, nextFinalized} : h \in BlockOrNone /\ Named(request, h)
  BY <1>1, <1>2, <1>3 DEF TypeOK, BlockOrNone
<1>5. \A t \in Ticks : task[t] \in Task
  BY <1>1 DEF TypeOK
<1>6. ASSUME NEW t \in Ticks, NEW h \in {task[t].block, task[t].safe, task[t].final}
      PROVE  h \in BlockOrNone /\ Named(request, h)
  <2>1. Named(request, task[t].block) /\ Named(request, task[t].safe) /\ Named(request, task[t].final)
    BY DEF NamesInv
  <2>2. {task[t].block, task[t].safe, task[t].final} \subseteq BlockOrNone
    BY <1>5 DEF Task
  <2> QED BY <2>1, <2>2
<1> QED BY <1>2, <1>4, <1>6

\* The fields of a renamed goroutine.
LEMMA RenamedTaskFacts ==
    ASSUME NEW calls, NEW g \in Task
    PROVE  /\ RenamedTask(calls, g).pc = g.pc
           /\ RenamedTask(calls, g).slot = g.slot
           /\ RenamedTask(calls, g).id = g.id
           /\ RenamedTask(calls, g).block = Renamed(calls, g.block)
           /\ RenamedTask(calls, g).safe = Renamed(calls, g.safe)
           /\ RenamedTask(calls, g).final = Renamed(calls, g.final)
BY DEF RenamedTask, Task

\* A renamed block is in the renamed database if the block is in the database.
LEMMA RenamedMember ==
    ASSUME MockInv, NamesInv, NEW b \in BlockOrNone, Named(request, b)
    PROVE  Renamed(request, b) \in {Renamed(request, c) : c \in known} <=> b \in known
<1>1. Unambiguous(request) /\ known \subseteq Block /\ \A c \in known : Named(request, c)
  BY IdsUnambiguous, HashesNamed
<1>2. ASSUME NEW c \in known, Renamed(request, b) = Renamed(request, c) PROVE b \in known
  <2>1. CASE b = NoHash
    <3>1. Renamed(request, b) = NoHash
      BY <2>1 DEF Renamed
    <3>2. Renamed(request, c) # NoHash
      BY <1>1, RenamedFacts
    <3> QED BY <1>2, <3>1, <3>2
  <2>2. CASE b # NoHash
    <3>1. b \in Block /\ c \in Block /\ Named(request, c)
      BY <1>1, <2>2 DEF BlockOrNone
    <3>2. b = c
      BY <1>1, <1>2, <3>1, RenamedDiffer
    <3> QED BY <3>2
  <2> QED BY <2>1, <2>2
<1> QED BY <1>2

\* A step that gives out ids, at most, is a stuttering step of ConsensusNode.
LEMMA RenamedStutter ==
    ASSUME MockInv, MockInv', NamesInv, UNCHANGED vars,
           \A u \in Ticks : request[<<u, "forkchoice">>].id # 0 =>
              request'[<<u, "forkchoice">>].id = request[<<u, "forkchoice">>].id
    PROVE  NamesInv' /\ UNCHANGED Node!vars
<1>1. Unambiguous(request) /\ Unambiguous(request')
  BY IdsUnambiguous DEF MockInv, IdsDistinct, Call, Unambiguous
<1>2. \A b \in BlockOrNone : Named(request, b) =>
         Named(request', b) /\ Renamed(request', b) = Renamed(request, b)
  BY <1>1, RenamingKept
<1>3. \A b \in known : b \in BlockOrNone /\ Named(request, b)
  BY HashesNamed DEF BlockOrNone
<1>4. \A h \in {head, parent, finalized, safe, nextFinalized} :
         h \in BlockOrNone /\ Named(request, h)
  BY <1>3, HashesNamed
<1>5. \A t \in Ticks :
         /\ task[t].block \in BlockOrNone /\ Named(request, task[t].block)
         /\ task[t].safe \in BlockOrNone /\ Named(request, task[t].safe)
         /\ task[t].final \in BlockOrNone /\ Named(request, task[t].final)
  BY HashesNamed
<1>6. NamesInv'
  BY <1>2, <1>3, <1>5 DEF NamesInv, vars
<1>7. {Renamed(request', b) : b \in known'} = {Renamed(request, b) : b \in known}
  BY <1>2, <1>3 DEF vars
<1>8. /\ Renamed(request', head') = Renamed(request, head)
      /\ Renamed(request', parent') = Renamed(request, parent)
      /\ Renamed(request', finalized') = Renamed(request, finalized)
      /\ Renamed(request', safe') = Renamed(request, safe)
      /\ Renamed(request', nextFinalized') = Renamed(request, nextFinalized)
  BY <1>2, <1>4 DEF vars
<1>9. \A t \in Ticks : RenamedTask(request', task'[t]) = RenamedTask(request, task[t])
  <2>1. ASSUME NEW t \in Ticks
        PROVE  RenamedTask(request', task[t]) = RenamedTask(request, task[t])
    BY <1>2, <1>5 DEF RenamedTask
  <2> QED BY <2>1 DEF vars
<1> QED BY <1>6, <1>7, <1>8, <1>9 DEF Node!vars, vars
-----------------------------------------------------------------------------
(* The steps of the engine *)

\* An id that was given to a goroutine is not taken back.
LEMMA IdsStay ==
    ASSUME MockInv, NEW t \in Ticks, EngineStep(t), NEW u \in Ticks,
           request[<<u, "forkchoice">>].id # 0
    PROVE  request'[<<u, "forkchoice">>].id = request[<<u, "forkchoice">>].id
<1> DEFINE r == <<u, "forkchoice">>
<1>1. request \in [Calls -> Engine!Request] /\ r \in Calls /\ request[r] \in Engine!Request
  BY DEF MockInv, EngineSideInv, Calls, CallPoints
<1>2. request[r].pc # "new"
  BY NoRequestFacts DEF MockInv, CallOrder, Call, CallPoints
<1>3. ASSUME NEW v \in Ticks, NEW x \in {"newPayload", "execute"},
             NewPayloadCall(<<v, x>>, task[t].block)
      PROVE  request'[r] = request[r]
  BY <1>1, <1>3 DEF NewPayloadCall, Engine!NewPayloadSyncing, Engine!NewPayloadV1, Engine!Answer
<1>4. CASE task[t].pc \in {"newPayload", "execute"} /\ NewPayloadCall(<<t, task[t].pc>>, task[t].block)
  BY <1>3, <1>4
<1>5. CASE GetPayloadCall(t)
  BY <1>1, <1>5 DEF GetPayloadCall, Engine!GetPayloadV1, Engine!GetPayloadUnknown, Engine!Answer
<1>6. ASSUME NEW c \in expired, NewPayloadCall(c, task[t].block)
      PROVE  request'[r] = request[r]
  <2>1. PICK v \in Ticks, x \in {"newPayload", "execute"} : c = <<v, x>>
    BY <1>6 DEF MockInv
  <2> QED BY <1>3, <1>6, <2>1
<1>7. CASE ForkchoiceCall(t) /\ t # u
  <2>1. <<t, "forkchoice">> # r
    BY <1>7
  <2>2. request'[r] = request[r]
    BY <1>1, <1>7, <2>1 DEF ForkchoiceCall, Engine!ForkchoiceUpdated, Engine!AllocateId,
       Engine!BuildPayload, Engine!BuildPayloadFails, Engine!CacheById, Engine!CacheByParent,
       Engine!Answer
  <2> QED BY <2>2
<1>8. CASE ForkchoiceCall(t) /\ t = u
  <2>1. ~Engine!New(r)
    BY <1>2 DEF Engine!New
  <2>2. \/ Engine!BuildPayload(r) \/ Engine!BuildPayloadFails(r)
        \/ Engine!CacheById(r) \/ Engine!CacheByParent(r)
    BY <1>8, <2>1 DEF ForkchoiceCall, Engine!ForkchoiceUpdated, Engine!AllocateId
  <2> QED BY <1>1, <2>2 DEF Engine!BuildPayload, Engine!BuildPayloadFails, Engine!CacheById,
             Engine!CacheByParent, Engine!Request
<1> QED BY <1>4, <1>5, <1>6, <1>7, <1>8 DEF EngineStep

\* A step of the engine is invisible to ConsensusNode.
LEMMA EngineStepInvisible ==
    ASSUME MockInv, NamesInv, NEW t \in Ticks, EngineStep(t)
    PROVE  NamesInv' /\ UNCHANGED Node!vars
<1>1. MockInv' /\ UNCHANGED vars
  BY EngineStepKeeps DEF EngineStep
<1>2. \A u \in Ticks : request[<<u, "forkchoice">>].id # 0 =>
         request'[<<u, "forkchoice">>].id = request[<<u, "forkchoice">>].id
  BY IdsStay
<1> QED BY <1>1, <1>2, RenamedStutter

-----------------------------------------------------------------------------
(* The steps of the consensus mock: the ids stay, and every step is one of *)
(* ConsensusNode.                                                           *)

\* What a step leaves alone, it leaves alone under other names.
LEMMA RenamedSame ==
    ASSUME request' = request
    PROVE  /\ UNCHANGED chainVars => UNCHANGED Node!chainVars
           /\ UNCHANGED finalityVars => UNCHANGED Node!finalityVars
           /\ UNCHANGED parent => Renamed(request', parent') = Renamed(request, parent)
           /\ UNCHANGED task => \A u \in Ticks :
                 RenamedTask(request', task'[u]) = RenamedTask(request, task[u])
<1>1. known' = known =>
         {Renamed(request', b) : b \in known'} = {Renamed(request, b) : b \in known}
  OBVIOUS
<1> QED BY <1>1 DEF chainVars, finalityVars, Node!chainVars, Node!finalityVars

\* The names stay if new blocks and new hashes are named.
LEMMA NamesKept ==
    ASSUME NamesInv, request' = request, \A b \in known' : b \in known \/ Named(request, b),
           \A u \in Ticks : \/ /\ task'[u].block = task[u].block
                               /\ task'[u].safe = task[u].safe
                               /\ task'[u].final = task[u].final
                            \/ /\ Named(request, task'[u].block)
                               /\ Named(request, task'[u].safe)
                               /\ Named(request, task'[u].final)
    PROVE  NamesInv'
BY DEF NamesInv

\* A goroutine that goes on, goes on under other names.
LEMMA RenamedGoto ==
    ASSUME TypeOK, request' = request, NEW t \in Ticks, NEW point, Goto(t, point)
    PROVE  /\ Node!Goto(t, point)
           /\ \A u \in Ticks : /\ task'[u].block = task[u].block
                               /\ task'[u].safe = task[u].safe
                               /\ task'[u].final = task[u].final
<1>1. task \in [Ticks -> Task] /\ task' = [task EXCEPT ![t].pc = point]
  BY DEF TypeOK, Goto
<1>2. \A u \in Ticks : task[u] \in Task /\ task'[u] = IF u = t THEN [task[t] EXCEPT !.pc = point] ELSE task[u]
  BY <1>1
<1>3. RenamedTask(request, task'[t]) = [RenamedTask(request, task[t]) EXCEPT !.pc = point]
  <2>1. \A g \in Task : RenamedTask(request, [g EXCEPT !.pc = point]) =
                         [RenamedTask(request, g) EXCEPT !.pc = point]
    BY DEF RenamedTask, Task
  <2>2. task'[t] = [task[t] EXCEPT !.pc = point]
    BY <1>2
  <2> QED BY <1>2, <2>1, <2>2
<1>4. \A u \in Ticks : RenamedTask(request', task'[u]) =
         IF u = t THEN [RenamedTask(request, task[t]) EXCEPT !.pc = point]
         ELSE RenamedTask(request, task[u])
  BY <1>2, <1>3
<1>5. Node!Goto(t, point)
  BY <1>4 DEF Node!Goto
<1> QED BY <1>2, <1>5 DEF Task

\* The steps that only go on: the answers that are ignored, and the failures.
LEMMA RenamedGoesOn ==
    ASSUME MockInv, NamesInv, request' = request, NEW t \in Ticks,
           \/ MockExecution(t) \/ ForkchoiceOnly(t) \/ ForkchoiceFails(t)
           \/ GetPayloadFails(t) \/ ExecutePayload(t) \/ ExecutePayloadFails(t)
    PROVE  NamesInv' /\ Node!Goroutine(t)
<1>1. TypeOK /\ task[t] \in Task
  BY DEF MockInv, IInv, TypeOK
<1>2. RenamedTask(request, task[t]).pc = task[t].pc
  BY <1>1, RenamedTaskFacts
<1>3. [u \in Ticks |-> RenamedTask(request, task[u])][t].pc = task[t].pc
  BY <1>2
<1>4. UNCHANGED <<pc, tick, slot, parent, chainVars, finalityVars, sendq>> /\ Running
  BY DEF MockExecution, ForkchoiceOnly, ForkchoiceFails, GetPayloadFails, ExecutePayload,
         ExecutePayloadFails
<1>5. /\ Renamed(request', parent') = Renamed(request, parent)
      /\ UNCHANGED Node!chainVars /\ UNCHANGED Node!finalityVars
  BY <1>4, RenamedSame
<1>6. Node!Running /\ (MaybeExit <=> Node!MaybeExit)
  BY <1>4 DEF Node!Running, Running, MaybeExit, Node!MaybeExit
<1>7. ASSUME NEW point, Goto(t, point) PROVE NamesInv' /\ Node!Goto(t, point)
  <2>1. /\ Node!Goto(t, point)
        /\ \A u \in Ticks : /\ task'[u].block = task[u].block
                            /\ task'[u].safe = task[u].safe
                            /\ task'[u].final = task[u].final
    BY <1>1, <1>7, RenamedGoto
  <2>2. known' = known
    BY <1>4 DEF chainVars
  <2> QED BY <2>1, <2>2, NamesKept
<1>8. CASE MockExecution(t)
  <2>1. Goto(t, "forkchoice") /\ task[t].pc = "newPayload" /\ proc' = proc
    BY <1>8 DEF MockExecution
  <2>2. Node!MockExecution(t)
    BY <1>3, <1>4, <1>5, <1>6, <1>7, <2>1 DEF Node!MockExecution
  <2> QED BY <1>7, <2>1, <2>2 DEF Node!Goroutine
<1>9. CASE ForkchoiceOnly(t)
  <2>1. Goto(t, "done") /\ task[t].pc = "forkchoice" /\ proc' = proc
    BY <1>9 DEF ForkchoiceOnly
  <2>2. Node!ForkchoiceOnly(t)
    BY <1>3, <1>4, <1>5, <1>6, <1>7, <2>1 DEF Node!ForkchoiceOnly
  <2> QED BY <1>7, <2>1, <2>2 DEF Node!Goroutine
<1>10. CASE ForkchoiceFails(t)
  <2>1. Goto(t, "done") /\ task[t].pc = "forkchoice" /\ MaybeExit
    BY <1>10 DEF ForkchoiceFails
  <2>2. Node!ForkchoiceFails(t)
    BY <1>3, <1>4, <1>5, <1>6, <1>7, <2>1 DEF Node!ForkchoiceFails
  <2> QED BY <1>7, <2>1, <2>2 DEF Node!Goroutine
<1>11. CASE GetPayloadFails(t)
  <2>1. Goto(t, "done") /\ task[t].pc = "getPayload" /\ MaybeExit
    BY <1>11 DEF GetPayloadFails
  <2>2. Node!GetPayloadFails(t)
    BY <1>3, <1>4, <1>5, <1>6, <1>7, <2>1 DEF Node!GetPayloadFails
  <2> QED BY <1>7, <2>1, <2>2 DEF Node!Goroutine
<1>12. CASE ExecutePayload(t)
  <2>1. Goto(t, "done") /\ task[t].pc = "execute" /\ proc' = proc
    BY <1>12 DEF ExecutePayload
  <2>2. Node!ExecutePayload(t)
    BY <1>3, <1>4, <1>5, <1>6, <1>7, <2>1 DEF Node!ExecutePayload
  <2> QED BY <1>7, <2>1, <2>2 DEF Node!Goroutine
<1>13. CASE ExecutePayloadFails(t)
  <2>1. Goto(t, "done") /\ task[t].pc = "execute" /\ MaybeExit
    BY <1>13 DEF ExecutePayloadFails
  <2>2. Node!ExecutePayloadFails(t)
    BY <1>3, <1>4, <1>5, <1>6, <1>7, <2>1 DEF Node!ExecutePayloadFails
  <2> QED BY <1>7, <2>1, <2>2 DEF Node!Goroutine
<1> QED BY <1>8, <1>9, <1>10, <1>11, <1>12, <1>13

\* An id is handed to the loop.
LEMMA RenamedPrepares ==
    ASSUME MockInv, NamesInv, request' = request, NEW t \in Ticks, ForkchoicePrepares(t)
    PROVE  NamesInv' /\ Node!ForkchoicePrepares(t)
<1>1. task \in [Ticks -> Task]
  BY DEF MockInv, IInv, TypeOK
<1>2. task' = [task EXCEPT ![t].pc = "send", ![t].id = t]
  BY DEF ForkchoicePrepares
<1>3. \A u \in Ticks : /\ task[u] \in Task
                       /\ task'[u] = IF u = t THEN [task[t] EXCEPT !.pc = "send", !.id = t] ELSE task[u]
  BY <1>1, <1>2
<1>4. \A g \in Task : RenamedTask(request, [g EXCEPT !.pc = "send", !.id = t]) =
                      [RenamedTask(request, g) EXCEPT !.pc = "send", !.id = t]
  BY DEF RenamedTask, Task
<1>5. \A u \in Ticks : RenamedTask(request', task'[u]) =
         IF u = t THEN [RenamedTask(request, task[t]) EXCEPT !.pc = "send", !.id = t]
         ELSE RenamedTask(request, task[u])
  BY <1>3, <1>4
<1>6. [u \in Ticks |-> RenamedTask(request', task'[u])] =
      [[u \in Ticks |-> RenamedTask(request, task[u])] EXCEPT ![t].pc = "send", ![t].id = t]
  BY <1>5
<1>7. /\ task[t].pc = "forkchoice" /\ Running /\ "proposal" \in Faked
      /\ sendq' = Append(sendq, t)
      /\ UNCHANGED <<proc, pc, tick, slot, parent, chainVars, finalityVars>>
  BY DEF ForkchoicePrepares
<1>8. /\ Renamed(request', parent') = Renamed(request, parent)
      /\ UNCHANGED Node!chainVars /\ UNCHANGED Node!finalityVars
  BY <1>7, RenamedSame
<1>9. [u \in Ticks |-> RenamedTask(request, task[u])][t].pc = "forkchoice"
  BY <1>3, <1>7, RenamedTaskFacts
<1>10. Node!ForkchoicePrepares(t)
  BY <1>6, <1>7, <1>8, <1>9 DEF Node!ForkchoicePrepares, Node!Running, Running
<1>11. \A u \in Ticks : /\ task'[u].block = task[u].block
                        /\ task'[u].safe = task[u].safe
                        /\ task'[u].final = task[u].final
  BY <1>3 DEF Task
<1>12. known' = known
  BY <1>7 DEF chainVars
<1> QED BY <1>10, <1>11, <1>12, NamesKept

\* What was asked for, renamed: ConsensusNode's payload of the tick that asked.
LEMMA RenamedPayload ==
    ASSUME MockInv, NamesInv, NEW i \in Ticks, Call(i, "forkchoice").id # 0
    PROVE  /\ Named(request, PayloadFor(i))
           /\ Renamed(request, PayloadFor(i)) = Node!PayloadOf(i, 0)
<1> DEFINE n == Call(i, "forkchoice").id
           s == [slot |-> task[i].slot + 1, src |-> "engine", by |-> n]
           b == task[i].block
<1>1. n \in Nat /\ n # 0 /\ n = request[<<i, "forkchoice">>].id
  BY DEF MockInv, EngineSideInv, Call, Calls, CallPoints, Engine!Request
<1>2. b \in Block /\ task[i].slot \in Int /\ task[i] \in Task
  BY AskedFacts DEF MockInv, IInv, TypeOK
<1>3. Unambiguous(request) /\ Named(request, b)
  BY IdsUnambiguous, HashesNamed
<1>4. TickOf(request, n) = i
  BY <1>1, <1>3, TickOfId
<1>5. PayloadFor(i) = Append(b, s)
  BY DEF PayloadFor
<1> HIDE DEF n, b
<1>6. s \in Seal /\ s.src = "engine" /\ s.by = n /\ i \in Nat
  BY <1>1, <1>2, ConstantsAssumption DEF Seal, Builders, Ticks
<1>7. RenamedSeal(request, s) = [slot |-> task[i].slot + 1, src |-> "engine", by |-> i]
  BY <1>4 DEF RenamedSeal
<1> HIDE DEF s
<1>8. /\ Named(request, Append(b, s))
      /\ Renamed(request, Append(b, s)) = Append(Renamed(request, b), RenamedSeal(request, s))
  <2>1. s.by # 0 /\ \E t \in Ticks : request[<<t, "forkchoice">>].id = s.by
    BY <1>1, <1>6
  <2> QED BY <1>2, <1>3, <1>6, <2>1, RenamedChild
<1>9. /\ [u \in Ticks |-> RenamedTask(request, task[u])][i].block = Renamed(request, b)
      /\ [u \in Ticks |-> RenamedTask(request, task[u])][i].slot = task[i].slot
  BY <1>2, RenamedTaskFacts DEF b
<1>10. Node!PayloadOf(i, 0) =
          Append(Renamed(request, b), [slot |-> task[i].slot + 1, src |-> "engine", by |-> i])
  BY <1>2, <1>9, SameOperators DEF Node!PayloadOf, Node!AddNewBlock
<1> QED BY <1>5, <1>7, <1>8, <1>10

\* A proposal gets the payload it was told to propose.
LEMMA RenamedReceives ==
    ASSUME UseBuilder = FALSE, MockInv, NamesInv, request' = request, NEW t \in Ticks,
           task[t].pc = "getPayload", Reply(t).status = "ok", PayloadReceived(t)
    PROVE  NamesInv' /\ Node!GetPayload(t)
<1>1. PICK i \in Ticks :
         /\ task[t].id = i
         /\ Call(i, "forkchoice").id # 0
         /\ task'[t].block = PayloadFor(i)
         /\ task'[t].safe = task[t].safe
         /\ task'[t].final = task[t].final
         /\ \A u \in Ticks \ {t} : task'[u] = task[u]
  BY ReceivedFacts
<1>2. Named(request, PayloadFor(i)) /\ Renamed(request, PayloadFor(i)) = Node!PayloadOf(i, 0)
  BY <1>1, RenamedPayload
<1>3. /\ task \in [Ticks -> Task]
      /\ task' = [task EXCEPT ![t].pc = "process", ![t].block = Reply(t).block]
      /\ Running /\ UNCHANGED <<proc, pc, tick, slot, parent, chainVars, finalityVars, sendq>>
  BY DEF MockInv, IInv, TypeOK, PayloadReceived
<1> DEFINE b == Reply(t).block
<1> HIDE DEF b
<1>4. \A u \in Ticks : /\ task[u] \in Task
                       /\ task'[u] = IF u = t THEN [task[t] EXCEPT !.pc = "process", !.block = b]
                                     ELSE task[u]
  BY <1>3 DEF b
<1>5. b = PayloadFor(i)
  BY <1>1, <1>4 DEF Task
<1>6. \A g \in Task : RenamedTask(request, [g EXCEPT !.pc = "process", !.block = b]) =
         [RenamedTask(request, g) EXCEPT !.pc = "process", !.block = Renamed(request, b)]
  BY DEF RenamedTask, Task
<1>7. \A u \in Ticks : RenamedTask(request', task'[u]) =
         IF u = t THEN [RenamedTask(request, task[t]) EXCEPT !.pc = "process",
                                                             !.block = Node!PayloadOf(i, 0)]
         ELSE RenamedTask(request, task[u])
  BY <1>2, <1>4, <1>5, <1>6
<1>8. [u \in Ticks |-> RenamedTask(request', task'[u])] =
      [[u \in Ticks |-> RenamedTask(request, task[u])] EXCEPT ![t].pc = "process",
                                                              ![t].block = Node!PayloadOf(i, 0)]
  BY <1>7
<1>9. /\ [u \in Ticks |-> RenamedTask(request, task[u])][t].pc = "getPayload"
      /\ [u \in Ticks |-> RenamedTask(request, task[u])][t].id = i
  BY <1>1, <1>4, RenamedTaskFacts
<1>10. i \in Node!Obtainable(t) /\ 0 \in Node!Drifts
  BY <1>9 DEF Node!Obtainable, Node!Drifts
<1>11. /\ Renamed(request', parent') = Renamed(request, parent)
       /\ UNCHANGED Node!chainVars /\ UNCHANGED Node!finalityVars
  BY <1>3, RenamedSame
<1>12. Node!GetPayload(t)
  BY <1>3, <1>8, <1>9, <1>10, <1>11 DEF Node!GetPayload, Node!Running, Running
<1>13. /\ Named(request, task'[t].block) /\ Named(request, task'[t].safe)
       /\ Named(request, task'[t].final)
  BY <1>1, <1>2 DEF NamesInv
<1>14. known' = known
  BY <1>3 DEF chainVars
<1> QED BY <1>1, <1>12, <1>13, <1>14, NamesKept

\* A block is stored under its other name.
LEMMA RenamedStore ==
    ASSUME MockInv, NamesInv, request' = request, NEW b \in Block, Named(request, b),
           StoreBlock(b)
    PROVE  /\ Node!StoreBlock(Renamed(request, b))
           /\ \A c \in known' : c \in known \/ Named(request, c)
<1>1. known' = known \cup {b} /\ head' = InsertChain(head, b)
  BY DEF StoreBlock
<1>2. {Renamed(request', c) : c \in known'} =
      {Renamed(request, c) : c \in known} \cup {Renamed(request, b)}
  BY <1>1
<1>3. head \in Block /\ Named(request, head) /\ Unambiguous(request)
  BY HashesNamed, IdsUnambiguous
<1>4. Renamed(request', head') = InsertChain(Renamed(request, head), Renamed(request, b))
  <2>1. Renamed(request, InsertChain(head, b)) = InsertChain(Renamed(request, head), Renamed(request, b))
    BY <1>3, RenamedInsert
  <2> QED BY <1>1, <2>1
<1>5. Node!StoreBlock(Renamed(request, b))
  BY <1>2, <1>4, SameOperators DEF Node!StoreBlock
<1> QED BY <1>1, <1>5

\* A proposal is processed, or is not.
LEMMA RenamedProcess ==
    ASSUME MockInv, NamesInv, request' = request, NEW t \in Ticks, task[t].pc = "process",
           "payload" \notin EngineFaults, ProcessPayload(t) \/ ProcessPayloadFails(t)
    PROVE  NamesInv' /\ Node!Goroutine(t)
<1>1. TypeOK /\ task[t] \in Task
  BY DEF MockInv, IInv, TypeOK
<1> DEFINE b == task[t].block
<1>2. b \in Block /\ Len(b) > 0 /\ Named(request, b) /\ Unambiguous(request)
  BY HashesNamed, IdsUnambiguous DEF MockInv, IInv, TaskInv
<1>3. /\ [u \in Ticks |-> RenamedTask(request, task[u])][t].pc = "process"
      /\ [u \in Ticks |-> RenamedTask(request, task[u])][t].slot = task[t].slot
      /\ [u \in Ticks |-> RenamedTask(request, task[u])][t].block = Renamed(request, b)
  BY <1>1, RenamedTaskFacts
<1> HIDE DEF b
<1>4. /\ Named(request, ParentOf(b)) /\ ParentOf(b) \in Block
      /\ Renamed(request, ParentOf(b)) = ParentOf(Renamed(request, b))
      /\ \A s : ValidateTimestamp(Renamed(request, b), s) <=> ValidateTimestamp(b, s)
  BY <1>2, RenamedParent
<1>5. ParentOf(b) \in known <=> ParentOf(Renamed(request, b)) \in {Renamed(request, c) : c \in known}
  <2>1. PICK p \in BlockOrNone : p = ParentOf(b)
    BY <1>4 DEF BlockOrNone
  <2>2. Renamed(request, p) \in {Renamed(request, c) : c \in known} <=> p \in known
    BY <1>4, <2>1, RenamedMember
  <2> QED BY <1>4, <2>1, <2>2
<1>6. CASE ProcessPayload(t)
  <2>1. /\ Running /\ ValidateTimestamp(b, task[t].slot) /\ ParentOf(b) \in known
        /\ StoreBlock(b) /\ Goto(t, "execute")
        /\ UNCHANGED <<proc, pc, tick, slot, parent, finalityVars, sendq>>
    BY <1>6 DEF ProcessPayload, b
  <2>2. /\ Node!StoreBlock(Renamed(request, b))
        /\ \A c \in known' : c \in known \/ Named(request, c)
    BY <1>2, <2>1, RenamedStore
  <2>3. /\ Node!Goto(t, "execute")
        /\ \A u \in Ticks : /\ task'[u].block = task[u].block
                            /\ task'[u].safe = task[u].safe
                            /\ task'[u].final = task[u].final
    BY <1>1, <2>1, RenamedGoto
  <2>4. /\ Renamed(request', parent') = Renamed(request, parent)
        /\ UNCHANGED Node!finalityVars
    BY <2>1, RenamedSame
  <2>5. /\ Node!ValidateTimestamp(Renamed(request, b), task[t].slot)
        /\ Node!ParentOf(Renamed(request, b)) \in {Renamed(request, c) : c \in known}
    BY <1>4, <1>5, <2>1, SameOperators
  <2>6. Node!ProcessPayload(t)
    BY <1>3, <2>1, <2>2, <2>3, <2>4, <2>5 DEF Node!ProcessPayload, Node!Running, Running
  <2> QED BY <2>2, <2>3, <2>6, NamesKept DEF Node!Goroutine
<1>7. CASE ProcessPayloadFails(t)
  <2>1. /\ Running /\ (~ValidateTimestamp(b, task[t].slot) \/ ParentOf(b) \notin known)
        /\ MaybeExit /\ Goto(t, "done")
        /\ UNCHANGED <<pc, tick, slot, parent, chainVars, finalityVars, sendq>>
    BY <1>7 DEF ProcessPayloadFails, b
  <2>2. /\ Node!Goto(t, "done")
        /\ \A u \in Ticks : /\ task'[u].block = task[u].block
                            /\ task'[u].safe = task[u].safe
                            /\ task'[u].final = task[u].final
    BY <1>1, <2>1, RenamedGoto
  <2>3. /\ Renamed(request', parent') = Renamed(request, parent)
        /\ UNCHANGED Node!chainVars /\ UNCHANGED Node!finalityVars
    BY <2>1, RenamedSame
  <2>4. \/ ~Node!ValidateTimestamp(Renamed(request, b), task[t].slot)
        \/ Node!ParentOf(Renamed(request, b)) \notin {Renamed(request, c) : c \in known}
    BY <1>4, <1>5, <2>1, SameOperators
  <2>5. Node!ProcessPayloadFails(t)
    BY <1>3, <2>1, <2>2, <2>3, <2>4
       DEF Node!ProcessPayloadFails, Node!Running, Running, MaybeExit, Node!MaybeExit
  <2>6. known' = known
    BY <2>1 DEF chainVars
  <2> QED BY <2>2, <2>5, <2>6, NamesKept DEF Node!Goroutine
<1> QED BY <1>6, <1>7

\* Every step of a goroutine is one of ConsensusNode's.
LEMMA GoroutineStepRenamed ==
    ASSUME UseBuilder = FALSE, "payload" \notin EngineFaults, MockInv, NamesInv,
           NEW t \in Ticks, GoroutineStep(t) \/ TimesOut(t)
    PROVE  NamesInv' /\ Node!Goroutine(t)
<1>1. TypeOK
  BY DEF MockInv, IInv
<1>2. /\ request' = request
      /\ \/ Goroutine(t) /\ ~GetPayload(t)
         \/ task[t].pc = "getPayload" /\ Reply(t).status = "ok" /\ PayloadReceived(t)
  BY <1>1, GoroutineStepCases, TimesOutFacts DEF engineVars
<1>3. CASE task[t].pc = "getPayload" /\ Reply(t).status = "ok" /\ PayloadReceived(t)
  BY <1>2, <1>3, RenamedReceives DEF Node!Goroutine
<1>4. CASE Goroutine(t) /\ ~GetPayload(t)
  <2>1. CASE ForkchoicePrepares(t)
    BY <1>2, <2>1, RenamedPrepares DEF Node!Goroutine
  <2>2. CASE ProcessPayload(t) \/ ProcessPayloadFails(t)
    <3>1. task[t].pc = "process"
      BY <2>2 DEF ProcessPayload, ProcessPayloadFails
    <3> QED BY <1>2, <2>2, <3>1, RenamedProcess
  <2>3. CASE \/ MockExecution(t) \/ ForkchoiceOnly(t) \/ ForkchoiceFails(t)
             \/ GetPayloadFails(t) \/ ExecutePayload(t) \/ ExecutePayloadFails(t)
    BY <1>2, <2>3, RenamedGoesOn
  <2> QED BY <1>4, <2>1, <2>2, <2>3 DEF Goroutine
<1> QED BY <1>2, <1>3, <1>4

\* The loop takes a tick.
LEMMA RenamedTick ==
    ASSUME MockInv, request' = request, NEW s, Tick(s)
    PROVE  Node!Tick(s)
<1>1. \A u \in Ticks : task[u] \in Task
  BY DEF MockInv, IInv, TypeOK
<1>2. \A u \in Ticks : [v \in Ticks |-> RenamedTask(request, task[v])][u].pc = task[u].pc
  BY <1>1, RenamedTaskFacts
<1>3. \A u \in Ticks : Node!Busy(u) <=> Busy(u)
  BY <1>2 DEF Busy, Node!Busy
<1> QED BY <1>3, SameOperators DEF Tick, Node!Tick, Running, Node!Running

\* The loop takes a tick, and simulates the slot.
LEMMA RenamedLiveSlot ==
    ASSUME MockInv, request' = request, NEW s, LiveSlot(s)
    PROVE  Node!LiveSlot(s)
<1>1. Node!Tick(s) /\ s > 0 /\ ~PastBound(s)
  BY RenamedTick DEF LiveSlot
<1>2. ~Node!PastBound(s)
  BY <1>1, SameOperators
<1>3. Node!UpdateFinality(s)
  <2>1. CASE s % SlotsPerEpoch = 0
    BY <2>1 DEF LiveSlot, UpdateFinality, Node!UpdateFinality
  <2>2. CASE s % SlotsPerEpoch # 0
    BY <2>2, RenamedSame DEF LiveSlot, UpdateFinality, Node!UpdateFinality
  <2> QED BY <2>1, <2>2
<1> QED BY <1>1, <1>2, <1>3 DEF Node!LiveSlot

\* What the loop leaves alone of the goroutines and of the blocks, at a tick.
LEMMA RenamedTicks ==
    ASSUME MockInv, NamesInv, request' = request, NEW d \in Steps,
           \/ BeforeGenesis(slot + d) \/ AtGenesis(slot + d) \/ ReachSlotBound(slot + d)
           \/ GapSlot(slot + d) \/ BadHashSlot(slot + d) \/ TriggerSlot(slot + d)
    PROVE  NamesInv' /\ Node!SlotLoop
<1> DEFINE s == slot + d
<1> HIDE DEF s
<1>1. UNCHANGED <<parent, chainVars>> /\ known' = known
  BY DEF BeforeGenesis, AtGenesis, ReachSlotBound, GapSlot, BadHashSlot, TriggerSlot, chainVars
<1>2. /\ Renamed(request', parent') = Renamed(request, parent)
      /\ UNCHANGED Node!chainVars
      /\ UNCHANGED finalityVars => UNCHANGED Node!finalityVars
  BY <1>1, RenamedSame
<1>3. ASSUME UNCHANGED task
      PROVE  /\ NamesInv'
             /\ [u \in Ticks |-> RenamedTask(request', task'[u])] =
                [u \in Ticks |-> RenamedTask(request, task[u])]
  BY <1>1, <1>3, NamesKept
<1>4. CASE BeforeGenesis(s)
  <2>1. /\ Tick(s) /\ s < 0
        /\ UNCHANGED <<proc, pc, parent, chainVars, finalityVars, task, sendq>>
    BY <1>4 DEF BeforeGenesis
  <2>2. Node!BeforeGenesis(s)
    BY <1>2, <1>3, <2>1, RenamedTick DEF Node!BeforeGenesis
  <2> QED BY <1>3, <2>1, <2>2 DEF Node!SlotLoop, s
<1>5. CASE AtGenesis(s)
  <2>1. /\ Tick(s) /\ s = 0 /\ safe' = head
        /\ UNCHANGED <<proc, pc, parent, chainVars, finalized, nextFinalized, task, sendq>>
    BY <1>5 DEF AtGenesis
  <2>2. /\ Renamed(request', safe') = Renamed(request, head)
        /\ Renamed(request', finalized') = Renamed(request, finalized)
        /\ Renamed(request', nextFinalized') = Renamed(request, nextFinalized)
    BY <2>1
  <2>3. Node!AtGenesis(s)
    BY <1>2, <1>3, <2>1, <2>2, RenamedTick DEF Node!AtGenesis
  <2> QED BY <1>3, <2>1, <2>3 DEF Node!SlotLoop, s
<1>6. CASE ReachSlotBound(s)
  <2>1. /\ Tick(s) /\ s > 0 /\ PastBound(s) /\ proc' = "exit0"
        /\ UNCHANGED <<pc, parent, chainVars, finalityVars, task, sendq>>
    BY <1>6 DEF ReachSlotBound
  <2>2. Node!PastBound(s)
    BY <2>1, SameOperators
  <2>3. Node!ReachSlotBound(s)
    BY <1>2, <1>3, <2>1, <2>2, RenamedTick DEF Node!ReachSlotBound
  <2> QED BY <1>3, <2>1, <2>3 DEF Node!SlotLoop, s
<1>7. CASE GapSlot(s)
  <2>1. Node!LiveSlot(s) /\ "gap" \in Faked /\ UNCHANGED <<proc, pc>>
    BY <1>7, RenamedLiveSlot DEF GapSlot
  <2>2. CASE sendq = <<>> /\ UNCHANGED <<task, sendq>>
    <3>1. Node!GapSlot(s)
      BY <1>2, <1>3, <2>1, <2>2 DEF Node!GapSlot
    <3> QED BY <1>3, <2>2, <3>1 DEF Node!SlotLoop, s
  <2>3. CASE sendq # <<>> /\ Receive
    <3>1. TypeOK /\ Head(sendq) \in Ticks
      BY <2>3, HeadOfSendq DEF MockInv, IInv, Prepared
    <3>2. Goto(Head(sendq), "done")
      BY <2>3 DEF Receive, Goto
    <3>3. /\ Node!Goto(Head(sendq), "done")
          /\ \A u \in Ticks : /\ task'[u].block = task[u].block
                              /\ task'[u].safe = task[u].safe
                              /\ task'[u].final = task[u].final
      BY <3>1, <3>2, RenamedGoto
    <3>4. Node!Receive
      BY <2>3, <3>3 DEF Receive, Node!Receive, Node!Goto
    <3>5. Node!GapSlot(s)
      BY <1>2, <2>1, <2>3, <3>4 DEF Node!GapSlot
    <3> QED BY <1>1, <3>3, <3>5, NamesKept DEF Node!SlotLoop, s
  <2> QED BY <1>7, <2>2, <2>3 DEF GapSlot
<1>8. CASE BadHashSlot(s)
  <2>1. /\ Node!LiveSlot(s) /\ "badHash" \in Faked
        /\ UNCHANGED <<proc, pc, task, sendq>>
    BY <1>8, RenamedLiveSlot DEF BadHashSlot
  <2>2. Node!BadHashSlot(s)
    BY <1>2, <1>3, <2>1 DEF Node!BadHashSlot
  <2> QED BY <1>3, <2>1, <2>2 DEF Node!SlotLoop, s
<1>9. CASE TriggerSlot(s)
  <2>1. /\ Node!LiveSlot(s) /\ pc' = "parent"
        /\ UNCHANGED <<proc, task, sendq>>
    BY <1>9, RenamedLiveSlot DEF TriggerSlot
  <2>2. Node!TriggerSlot(s)
    BY <1>2, <1>3, <2>1 DEF Node!TriggerSlot
  <2> QED BY <1>3, <2>1, <2>2 DEF Node!SlotLoop, s
<1> QED BY <1>4, <1>5, <1>6, <1>7, <1>8, <1>9 DEF s

\* The bound of a reorg is the number of the same block.
LEMMA RenamedReorgMin ==
    ASSUME MockInv, NamesInv
    PROVE  Node!ReorgMin = ReorgMin
<1>1. finalized \in BlockOrNone /\ Named(request, finalized)
  BY HashesNamed
<1>2. Renamed(request, finalized) \in {Renamed(request, c) : c \in known} <=> finalized \in known
  BY <1>1, RenamedMember
<1>3. ASSUME finalized \in known
      PROVE  Number(Renamed(request, finalized)) = Number(finalized)
  <2>1. finalized \in Block /\ Unambiguous(request)
    BY <1>3, HashesNamed, IdsUnambiguous
  <2>2. Len(Renamed(request, finalized)) = Len(finalized)
    BY <1>1, <2>1, RenamedFacts
  <2> QED BY <2>2 DEF Number
<1>4. \A b : Node!Number(b) = Number(b)
  BY SameOperators
<1>5. \A S : Node!Max(S) = Max(S)
  BY SameOperators
<1>6. CASE finalized \in known
  <2>1. Node!ReorgMin = Max({TransitionBlock, Number(finalized)})
    BY <1>2, <1>3, <1>4, <1>5, <1>6 DEF Node!ReorgMin
  <2> QED BY <1>6, <2>1 DEF ReorgMin
<1>7. CASE finalized \notin known
  BY <1>2, <1>7 DEF Node!ReorgMin, ReorgMin
<1> QED BY <1>6, <1>7

\* The loop reads its parent, and goes back for a reorg.
LEMMA RenamedReads ==
    ASSUME MockInv, NamesInv, request' = request, ReadParent \/ CalcReorgTarget
    PROVE  NamesInv' /\ Node!SlotLoop
<1>1. /\ Running /\ UNCHANGED <<proc, tick, slot, chainVars, finalityVars, task, sendq>>
      /\ known' = known
  BY DEF ReadParent, CalcReorgTarget, chainVars
<1>2. UNCHANGED Node!chainVars /\ UNCHANGED Node!finalityVars
  BY <1>1, RenamedSame
<1>3. /\ NamesInv'
      /\ [u \in Ticks |-> RenamedTask(request', task'[u])] =
         [u \in Ticks |-> RenamedTask(request, task[u])]
  BY <1>1, NamesKept
<1>4. CASE ReadParent
  <2>1. /\ pc = "parent" /\ Renamed(request', parent') = Renamed(request, head)
        /\ pc' = "propose" \/ ("reorg" \in Faked /\ pc' = "reorg")
    BY <1>4 DEF ReadParent
  <2>2. Node!ReadParent
    BY <1>1, <1>2, <1>3, <2>1 DEF Node!ReadParent, Node!Running, Running
  <2> QED BY <1>3, <2>2 DEF Node!SlotLoop
<1>5. CASE CalcReorgTarget
  <2>1. PICK depth \in Depths :
           parent' = GetHeaderByNumber(head, Max({Number(parent) - depth, ReorgMin}))
    BY <1>5 DEF CalcReorgTarget
  <2>2. pc = "reorg" /\ pc' = "propose"
    BY <1>5 DEF CalcReorgTarget
  <2>3. /\ head \in Block /\ Named(request, head) /\ Unambiguous(request)
        /\ parent \in Block /\ Named(request, parent)
    BY <2>2, HashesNamed, IdsUnambiguous DEF MockInv, IInv, LoopInv
  <2>4. Number(Renamed(request, parent)) = Number(parent) /\ Number(parent) \in Nat
    <3>1. Len(Renamed(request, parent)) = Len(parent) /\ Len(parent) \in Nat
      BY <2>3, RenamedFacts, LenProperties DEF Block
    <3> QED BY <3>1 DEF Number
  <2>5. PICK n \in Nat : n = Max({Number(parent) - depth, ReorgMin})
    <3>1. ReorgMin \in Nat /\ depth \in Nat
      BY ReorgMinBound, ConstantsAssumption DEF MockInv, IInv, Depths
    <3>2. PICK a \in Int : a = Number(parent) - depth
      BY <2>4, <3>1
    <3>3. PICK m \in Nat : m = ReorgMin
      BY <3>1
    <3>4. Max({a, m}) \in {a, m} /\ Max({a, m}) >= m
      BY <3>2, <3>3, MaxOfTwo
    <3> QED BY <3>2, <3>3, <3>4
  <2>6. Renamed(request, GetHeaderByNumber(head, n)) = GetHeaderByNumber(Renamed(request, head), n)
    BY <2>3, RenamedByNumber
  <2>7. n = Node!Max({Node!Number(Renamed(request, parent)) - depth, Node!ReorgMin})
    BY <2>4, <2>5, RenamedReorgMin, SameOperators
  <2>8. Renamed(request', parent') =
           Node!GetHeaderByNumber(Renamed(request, head),
              Node!Max({Node!Number(Renamed(request, parent)) - depth, Node!ReorgMin}))
    BY <2>1, <2>5, <2>6, <2>7, SameOperators
  <2>9. depth \in Node!Depths
    BY SameOperators
  <2>10. Node!CalcReorgTarget
    BY <1>1, <1>2, <1>3, <2>2, <2>8, <2>9 DEF Node!CalcReorgTarget, Node!Running, Running
  <2> QED BY <1>3, <2>10 DEF Node!SlotLoop
<1> QED BY <1>4, <1>5

\* The loop takes an id off the channel and spawns its proposal.
LEMMA RenamedReceiveProposal ==
    ASSUME MockInv, NamesInv, request' = request, ReceiveProposal
    PROVE  NamesInv' /\ Node!SlotLoop
<1> DEFINE h == Head(sendq)
           new == [NoTask EXCEPT !.pc = "getPayload", !.slot = slot, !.id = h]
<1>1. /\ Running /\ pc = "propose" /\ sendq # <<>> /\ sendq' = Tail(sendq)
      /\ pc' = "idle" /\ parent' = NoHash
      /\ UNCHANGED <<proc, tick, slot, chainVars, finalityVars>> /\ known' = known
  BY DEF ReceiveProposal, chainVars
<1>2. task' = [task EXCEPT ![h].pc = "done", ![tick] = new]
  BY DEF ReceiveProposal
<1>3. h \in Ticks /\ h \in 0..MaxTicks
  BY <1>1, HeadOfSendq, ConstantsAssumption DEF MockInv, IInv, Prepared, Ticks
<1>4. task \in [Ticks -> Task] /\ tick \in Ticks /\ slot \in Int
  BY <1>1 DEF MockInv, IInv, TypeOK, LoopInv
<1> HIDE DEF h
<1>5. /\ RenamedTask(request, new) = new
      /\ new.block = NoHash /\ new.safe = NoHash /\ new.final = NoHash
  BY DEF RenamedTask, Renamed, NoTask
<1> HIDE DEF new
<1>6. \A u \in Ticks : /\ task[u] \in Task
                       /\ task'[u] = IF u = tick THEN new
                                     ELSE IF u = h THEN [task[h] EXCEPT !.pc = "done"]
                                     ELSE task[u]
  BY <1>2, <1>3, <1>4
<1>7. \A g \in Task : RenamedTask(request, [g EXCEPT !.pc = "done"]) =
                      [RenamedTask(request, g) EXCEPT !.pc = "done"]
  BY DEF RenamedTask, Task
<1>8. \A u \in Ticks : RenamedTask(request', task'[u]) =
         IF u = tick THEN new
         ELSE IF u = h THEN [RenamedTask(request, task[h]) EXCEPT !.pc = "done"]
         ELSE RenamedTask(request, task[u])
  BY <1>3, <1>5, <1>6, <1>7
<1>9. [u \in Ticks |-> RenamedTask(request', task'[u])] =
      [[u \in Ticks |-> RenamedTask(request, task[u])] EXCEPT ![h].pc = "done", ![tick] = new]
  BY <1>3, <1>4, <1>8
<1>10. new = [Node!NoTask EXCEPT !.pc = "getPayload", !.slot = slot, !.id = h]
  BY SameOperators DEF new
<1>11. UNCHANGED Node!chainVars /\ UNCHANGED Node!finalityVars
  BY <1>1, RenamedSame
<1>12. Renamed(request', parent') = NoHash
  BY <1>1 DEF Renamed
<1>13. Node!ReceiveProposal
  BY <1>1, <1>9, <1>10, <1>11, <1>12 DEF Node!ReceiveProposal, Node!Running, Running, h
<1>14. \A u \in Ticks : \/ /\ task'[u].block = task[u].block
                           /\ task'[u].safe = task[u].safe
                           /\ task'[u].final = task[u].final
                        \/ /\ Named(request, task'[u].block)
                           /\ Named(request, task'[u].safe)
                           /\ Named(request, task'[u].final)
  BY <1>5, <1>6 DEF Task, Named
<1> QED BY <1>1, <1>13, <1>14, NamesKept DEF Node!SlotLoop

\* The loop builds a block outside the engine and spawns its execution.
LEMMA RenamedBuildExternal ==
    ASSUME MockInv, NamesInv, request' = request, BuildExternal
    PROVE  NamesInv' /\ Node!SlotLoop
<1> DEFINE s == [slot |-> slot, src |-> "external", by |-> 0]
           b == Append(parent, s)
           new == [pc |-> "newPayload", slot |-> slot, block |-> b, safe |-> safe,
                   final |-> finalized, id |-> 0]
<1>1. /\ Running /\ pc = "propose" /\ NotProposing /\ parent # NoHash
      /\ pc' = "idle" /\ parent' = NoHash
      /\ UNCHANGED <<proc, tick, slot, finalityVars, sendq>>
  BY DEF BuildExternal
<1>2. StoreBlock(b) /\ task' = [task EXCEPT ![tick] = new]
  BY DEF BuildExternal, AddNewBlock
<1>3. task \in [Ticks -> Task] /\ tick \in Ticks /\ slot \in Int
  BY <1>1 DEF MockInv, IInv, TypeOK, LoopInv
<1>4. /\ parent \in Block /\ Named(request, parent) /\ Unambiguous(request)
      /\ Named(request, safe) /\ Named(request, finalized)
  BY <1>1, HashesNamed, IdsUnambiguous DEF BlockOrNone
<1>5. s \in Seal /\ s.src = "external" /\ RenamedSeal(request, s) = s
  BY <1>3 DEF Seal, Builders, RenamedSeal
<1> HIDE DEF s
<1>6. b \in Block
  BY <1>4, <1>5, ChildOfBlock
<1>7. Named(request, b) /\ Renamed(request, b) = Append(Renamed(request, parent), s)
  <2>1. /\ Named(request, Append(parent, s))
        /\ Renamed(request, Append(parent, s)) =
              Append(Renamed(request, parent), RenamedSeal(request, s))
    BY <1>4, <1>5, RenamedChild
  <2> QED BY <1>5, <2>1
<1> HIDE DEF b
<1>8. /\ Node!StoreBlock(Renamed(request, b))
      /\ \A c \in known' : c \in known \/ Named(request, c)
  BY <1>2, <1>6, <1>7, RenamedStore
<1>9. RenamedTask(request, new) =
         [pc |-> "newPayload", slot |-> slot, block |-> Renamed(request, b),
          safe |-> Renamed(request, safe), final |-> Renamed(request, finalized), id |-> 0]
  <2>1. ASSUME NEW x, NEW y, NEW z
        PROVE  [new EXCEPT !.block = x, !.safe = y, !.final = z] =
               [pc |-> "newPayload", slot |-> slot, block |-> x, safe |-> y, final |-> z, id |-> 0]
    <3> DEFINE R == [pc : {"newPayload"}, slot : {slot}, block : {b, x}, safe : {safe, y},
                     final : {finalized, z}, id : {0}]
               l == [new EXCEPT !.block = x, !.safe = y, !.final = z]
               r == [pc |-> "newPayload", slot |-> slot, block |-> x, safe |-> y, final |-> z,
                     id |-> 0]
    <3>1. new \in R
      OBVIOUS
    <3>2. /\ l \in R /\ l.pc = new.pc /\ l.slot = new.slot /\ l.id = new.id
          /\ l.block = x /\ l.safe = y /\ l.final = z
      <4> HIDE DEF new
      <4> QED BY <3>1
    <3>3. r \in R /\ r.block = x /\ r.safe = y /\ r.final = z
      OBVIOUS
    <3> HIDE DEF l, r, new
    <3> QED BY <3>1, <3>2, <3>3
  <2>2. RenamedTask(request, new) = [new EXCEPT !.block = Renamed(request, b),
           !.safe = Renamed(request, safe), !.final = Renamed(request, finalized)]
    BY DEF RenamedTask
  <2> QED BY <2>1, <2>2
<1>10. new.block = b /\ new.safe = safe /\ new.final = finalized
  OBVIOUS
<1> HIDE DEF new
<1>11. \A u \in Ticks : task'[u] = IF u = tick THEN new ELSE task[u]
  BY <1>2, <1>3
<1>12. [u \in Ticks |-> RenamedTask(request', task'[u])] =
       [[u \in Ticks |-> RenamedTask(request, task[u])] EXCEPT ![tick] = RenamedTask(request, new)]
  BY <1>3, <1>11
<1>13. Renamed(request', parent') = NoHash /\ Renamed(request, parent) # NoHash
  <2>1. Renamed(request, parent) # NoHash
    BY <1>4, RenamedFacts
  <2> QED BY <1>1, <2>1 DEF Renamed
<1>14. UNCHANGED Node!finalityVars
  BY <1>1, RenamedSame
<1>15. Renamed(request, b) =
          Node!AddNewBlock(Renamed(request, parent), [slot |-> slot, src |-> "external", by |-> 0])
  BY <1>7 DEF Node!AddNewBlock, s
<1>16. Node!NotProposing
  BY <1>1 DEF NotProposing, Node!NotProposing
<1>17. Node!BuildExternal
  BY <1>1, <1>8, <1>9, <1>12, <1>13, <1>14, <1>15, <1>16
     DEF Node!BuildExternal, Node!Running, Running
<1>18. \A u \in Ticks : \/ /\ task'[u].block = task[u].block
                           /\ task'[u].safe = task[u].safe
                           /\ task'[u].final = task[u].final
                        \/ /\ Named(request, task'[u].block)
                           /\ Named(request, task'[u].safe)
                           /\ Named(request, task'[u].final)
  BY <1>4, <1>7, <1>10, <1>11
<1> QED BY <1>8, <1>17, <1>18, NamesKept DEF Node!SlotLoop

\* The loop gives the slot up, or the process panics.
LEMMA RenamedGivesUp ==
    ASSUME MockInv, NamesInv, request' = request, BuildFails \/ NilParent
    PROVE  NamesInv' /\ Node!SlotLoop
<1>1. /\ Running /\ UNCHANGED <<tick, slot, chainVars, finalityVars, task, sendq>>
      /\ known' = known /\ pc = "propose" /\ NotProposing
  BY DEF BuildFails, NilParent, chainVars
<1>2. UNCHANGED Node!chainVars /\ UNCHANGED Node!finalityVars
  BY <1>1, RenamedSame
<1>3. /\ NamesInv'
      /\ [u \in Ticks |-> RenamedTask(request', task'[u])] =
         [u \in Ticks |-> RenamedTask(request, task[u])]
  BY <1>1, NamesKept
<1>4. Node!Running /\ Node!NotProposing
  BY <1>1 DEF Running, Node!Running, NotProposing, Node!NotProposing
<1>5. CASE BuildFails
  <2>1. /\ parent # NoHash /\ BuildMayFail /\ pc' = "idle" /\ parent' = NoHash
        /\ proc' = proc
    BY <1>5 DEF BuildFails
  <2>2. Renamed(request, parent) # NoHash /\ Renamed(request', parent') = NoHash
    <3>1. parent \in Block /\ Named(request, parent) /\ Unambiguous(request)
      BY <2>1, HashesNamed, IdsUnambiguous DEF BlockOrNone
    <3>2. Renamed(request, parent) # NoHash
      BY <3>1, RenamedFacts
    <3> QED BY <2>1, <3>2 DEF Renamed
  <2>3. Node!BuildFails
    BY <1>1, <1>2, <1>3, <1>4, <2>1, <2>2 DEF Node!BuildFails
  <2> QED BY <1>3, <2>3 DEF Node!SlotLoop
<1>6. CASE NilParent
  <2>1. /\ parent = NoHash /\ parent' = parent /\ pc' = pc /\ proc' = "crashed"
    BY <1>6 DEF NilParent
  <2>2. Renamed(request, parent) = NoHash /\ Renamed(request', parent') = NoHash
    BY <2>1 DEF Renamed
  <2>3. Node!NilParent
    BY <1>1, <1>2, <1>3, <1>4, <2>1, <2>2 DEF Node!NilParent
  <2> QED BY <1>3, <2>3 DEF Node!SlotLoop
<1> QED BY <1>5, <1>6

\* Every step of the loop is one of ConsensusNode's.
LEMMA SlotLoopStepRenamed ==
    ASSUME MockInv, NamesInv, SlotLoopStep
    PROVE  NamesInv' /\ Node!SlotLoop
<1>1. SlotLoop /\ request' = request
  BY DEF SlotLoopStep, engineVars
<1>2. CASE \E d \in Steps :
              \/ BeforeGenesis(slot + d) \/ AtGenesis(slot + d) \/ ReachSlotBound(slot + d)
              \/ GapSlot(slot + d) \/ BadHashSlot(slot + d) \/ TriggerSlot(slot + d)
  BY <1>1, <1>2, RenamedTicks
<1>3. CASE ReadParent \/ CalcReorgTarget
  BY <1>1, <1>3, RenamedReads
<1>4. CASE ReceiveProposal
  BY <1>1, <1>4, RenamedReceiveProposal
<1>5. CASE BuildExternal
  BY <1>1, <1>5, RenamedBuildExternal
<1>6. CASE BuildFails \/ NilParent
  BY <1>1, <1>6, RenamedGivesUp
<1> QED BY <1>1, <1>2, <1>3, <1>4, <1>5, <1>6 DEF SlotLoop

-----------------------------------------------------------------------------
(* The refinement *)

\* A block without a payload of the engine keeps its name.
LEMMA OthersKeepNames ==
    ASSUME NEW calls, NEW b \in Block, \A k \in 1..Len(b) : b[k].src # "engine"
    PROVE  Named(calls, b) /\ Renamed(calls, b) = b
<1>1. b # NoHash /\ DOMAIN b = 1..Len(b) /\ Len(b) \in Nat /\ b \in [1..Len(b) -> Seal]
  BY NoHashAssumption, LenProperties DEF Block
<1>2. b = [k \in 1..Len(b) |-> b[k]]
  BY <1>1
<1>3. Renamed(calls, b) = [k \in 1..Len(b) |-> b[k]]
  BY <1>1 DEF Renamed
<1> QED BY <1>2, <1>3 DEF Named

\* The stored chain and its ancestors do.
LEMMA RenamedInit ==
    ASSUME StoredByOthers, MockInit
    PROVE  NamesInv /\ Node!Init
<1>1. Init
  BY DEF MockInit
<1>2. StoredChain \in Block /\ Len(StoredChain) \in Nat
  BY ConstantsAssumption, LenProperties DEF Block
<1>3. ASSUME NEW n \in 0..Len(StoredChain)
      PROVE  /\ Named(request, SubSeq(StoredChain, 1, n))
             /\ Renamed(request, SubSeq(StoredChain, 1, n)) = SubSeq(StoredChain, 1, n)
  <2>1. PICK a \in Block : /\ a = SubSeq(StoredChain, 1, n) /\ Len(a) = n
                           /\ \A i \in 1..n : a[i] = StoredChain[i]
    BY <1>2, PrefixOfBlock
  <2>2. \A k \in 1..Len(a) : a[k].src # "engine"
    BY <1>2, <2>1 DEF StoredByOthers
  <2>3. Named(request, a) /\ Renamed(request, a) = a
    BY <2>2, OthersKeepNames
  <2> QED BY <2>1, <2>3
<1>4. \A b \in known : Named(request, b) /\ Renamed(request, b) = b
  BY <1>1, <1>3 DEF Init, Ancestry
<1>5. {Renamed(request, b) : b \in known} = Node!Ancestry(StoredChain)
  <2>1. known = Node!Ancestry(StoredChain)
    BY <1>1 DEF Init, Ancestry, Node!Ancestry
  <2> QED BY <1>4, <2>1
<1>6. Renamed(request, head) = StoredChain
  BY <1>1, <1>2, OthersKeepNames DEF Init, StoredByOthers
<1>7. Renamed(request, NoHash) = NoHash /\ Named(request, NoHash)
  BY DEF Renamed, Named
<1>8. RenamedTask(request, NoTask) = NoTask
  <2>1. NoTask \in Task /\ NoTask.block = NoHash /\ NoTask.safe = NoHash /\ NoTask.final = NoHash
    BY ConstantsAssumption DEF NoTask, Task, TaskPoints, BlockOrNone
  <2>2. \A g \in Task : g.block = NoHash /\ g.safe = NoHash /\ g.final = NoHash =>
                         RenamedTask(request, g) = g
    BY <1>7 DEF RenamedTask, Task
  <2> QED BY <2>1, <2>2
<1>9. [t \in Ticks |-> RenamedTask(request, task[t])] = [t \in Node!Ticks |-> Node!NoTask]
  BY <1>1, <1>8, SameOperators DEF Init
<1>10. Node!Init
  BY <1>1, <1>5, <1>6, <1>7, <1>9 DEF Init, Node!Init
<1>11. NamesInv
  BY <1>1, <1>4, <1>7 DEF Init, NamesInv, NoTask
<1> QED BY <1>10, <1>11

\* Every step of the two mocks is a step of ConsensusNode, or is invisible to it.
LEMMA MockStepRenamed ==
    ASSUME UseBuilder = FALSE, "payload" \notin EngineFaults, MockInv, NamesInv,
           [MockNext]_mockVars
    PROVE  NamesInv' /\ [Node!Next]_Node!vars
<1>1. CASE SlotLoopStep
  BY <1>1, SlotLoopStepRenamed DEF Node!Next
<1>2. ASSUME NEW t \in Ticks, EngineStep(t) PROVE NamesInv' /\ UNCHANGED Node!vars
  BY <1>2, EngineStepInvisible
<1>3. ASSUME NEW t \in Ticks, GoroutineStep(t) \/ TimesOut(t) PROVE NamesInv' /\ Node!Next
  BY <1>3, GoroutineStepRenamed, SameOperators DEF Node!Next
<1>4. CASE UNCHANGED mockVars
  <2>1. UNCHANGED vars /\ request' = request
    BY <1>4 DEF mockVars, engineVars
  <2>2. MockInv'
    BY MockStepKeeps
  <2> QED BY <2>1, <2>2, RenamedStutter
<1> QED BY <1>1, <1>2, <1>3, <1>4 DEF MockNext, InSlot

\* The engine mock is one of the engines of ConsensusNode: when payloads come from
\* the engine and not from a builder, and the database holds no payload from an
\* earlier engine, every run of the two mocks is a run of ConsensusNode whose engine
\* fails in three ways only, with the payloads named after who asked for them.  Its
\* theorems hold for the two mocks therefore, however slow the engine is.
THEOREM MocksImplementNode ==
    ASSUME UseBuilder = FALSE, "payload" \notin EngineFaults, StoredByOthers
    PROVE  MockSpec => ImplementsConsensusNode
<1>1. MockInit => NamesInv /\ Node!Init
  BY RenamedInit
<1>2. MockInv /\ NamesInv /\ [MockNext]_mockVars => NamesInv' /\ [Node!Next]_Node!vars
  BY MockStepRenamed
<1> QED BY <1>1, <1>2, MockInvariance, PTL DEF MockSpec, ImplementsConsensusNode, Node!Spec

=============================================================================
