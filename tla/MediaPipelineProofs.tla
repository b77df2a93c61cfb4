------------------------ MODULE MediaPipelineProofs ------------------------
(***************************************************************************)
(* Theorems about MediaPipeline, for any number of elements and any sizes. *)
(***************************************************************************)
EXTENDS MediaPipeline, FiniteSetTheorems, SequenceTheorems, WellFoundedInduction, TLAPS

\* The file being written is one of files; a block is sent when there is one; the
\* elements are called in turn.
TypeInv ==
  /\ TypeOK
  /\ file # "none" => files # <<>>
  /\ pc = "send" /\ ~chunked => received - cut > Limit
  /\ pc \in {"idle", "check"} => next = 1

LEMMA BlockType ==
  ASSUME TypeInv, Sending
  PROVE  /\ NextBlock \in Block
         /\ NextBlock.lo = cut + 1
         /\ NextBlock.hi \in cut .. received
         /\ chunked \/ pc = "flush" => NextBlock.hi = received
         /\ ~chunked /\ pc = "send" => NextBlock.hi = cut + Limit
  BY SizeAssumption DEF TypeInv, TypeOK, Sending, NextBlock, Block

-----------------------------------------------------------------------------
(* Type correctness. *)

LEMMA TypeStep == TypeInv /\ [Next]_vars => TypeInv'
<1> SUFFICES ASSUME TypeInv, [Next]_vars PROVE TypeInv'
  OBVIOUS
<1> USE SizeAssumption
<1>1. ASSUME NEW size \in 1 .. MaxData, DataReceived(size)
      PROVE  TypeInv'
  BY <1>1 DEF DataReceived, TypeInv, TypeOK, options, writer
<1>2. CASE CheckBuffer
  BY <1>2 DEF CheckBuffer, Full, TypeInv, TypeOK, options, buffer, writer
<1>3. ASSUME NEW e \in 1 .. Elements, Given(e)
      PROVE  /\ got' \in [1 .. Elements -> Seq(Block)] /\ next' \in 1 .. Elements + 1
             /\ ended' \subseteq 1 .. Elements
             /\ pc \notin {"idle", "check"}
             /\ UNCHANGED <<options, buffer, pc, failures>>
  BY <1>3, BlockType DEF Given, Sending, TypeInv, TypeOK
<1>4. CASE WriterGiven
  <2>1. NextBlock \in Block
    BY <1>4, BlockType DEF WriterGiven, Given
  <2>2. inFile' \in Nat /\ file' \in {"none", "open", "closed"}
    BY <1>4 DEF WriterGiven, InFile, TypeInv, TypeOK
  <2>3. files' \in Seq(Seq(Block)) /\ files' # <<>>
    <3>1. CASE file = "none"
      <4>1. <<NextBlock>> \in Seq(Block)
        BY <2>1
      <4>2. files \in Seq(Seq(Block)) /\ files' = Append(files, <<NextBlock>>)
        BY <1>4, <3>1 DEF WriterGiven, TypeInv, TypeOK
      <4>3. files' \in Seq(Seq(Block)) /\ Len(files') = Len(files) + 1
        BY <4>1, <4>2, AppendProperties
      <4> QED BY <4>2, <4>3
    <3>2. CASE file # "none"
      <4>1. files \in Seq(Seq(Block)) /\ Len(files) \in 1 .. Len(files)
        BY <3>2 DEF TypeInv, TypeOK
      <4>2. Append(files[Len(files)], NextBlock) \in Seq(Block)
        BY <2>1, <4>1
      <4>3. files' = [files EXCEPT ![Len(files)] = Append(files[Len(files)], NextBlock)]
        BY <1>4, <3>2 DEF WriterGiven
      <4> QED BY <4>1, <4>2, <4>3
    <3> QED BY <3>1, <3>2
  <2> QED BY <1>3, <1>4, <2>2, <2>3 DEF WriterGiven, TypeInv, TypeOK, options, buffer
<1>5. ASSUME NEW e \in 1 .. Elements, ElementGiven(e)
      PROVE  TypeInv'
  BY <1>3, <1>5 DEF ElementGiven, TypeInv, TypeOK, options, buffer, writer
<1>6. ASSUME NEW e \in 1 .. Elements, ElementRaises(e)
      PROVE  TypeInv'
  BY <1>6 DEF ElementRaises, MayRaise, TypeInv, TypeOK, options, buffer, writer
<1>7. ASSUME NEW e \in 1 .. Elements, ElementFinished(e)
      PROVE  TypeInv'
  BY <1>7 DEF ElementFinished, TypeInv, TypeOK, options, buffer
<1>8. CASE BlockSent
  <2>1. NextBlock.hi \in cut .. received
    BY <1>8, BlockType DEF BlockSent
  <2>2. cut' \in 0 .. received /\ count' \in Nat /\ pc' \in {"check", "finish"} /\ next' = 1
    BY <1>8, <2>1 DEF BlockSent, TypeInv, TypeOK
  <2>3. UNCHANGED <<chunked, partials, received, failures, got, files, inFile, file, ended>>
    BY <1>8 DEF BlockSent, options, writer
  <2> HIDE <1>8
  <2>4. TypeOK'
    BY <2>2, <2>3 DEF TypeInv, TypeOK
  <2> QED BY <2>2, <2>3, <2>4 DEF TypeInv
<1>9. CASE Finish
  BY <1>9 DEF Finish, TypeInv, TypeOK, options, buffer, writer
<1>10. CASE FinishConnected
  BY <1>10 DEF FinishConnected, TypeInv, TypeOK, options, buffer, writer
<1>11. CASE UNCHANGED vars
  BY <1>11 DEF vars, TypeInv, TypeOK, options, buffer, writer
<1> QED BY <1>1, <1>2, <1>4, <1>5, <1>6, <1>7, <1>8, <1>9, <1>10, <1>11 DEF Next

LEMMA InitTypeInv == Init => TypeInv
  BY SizeAssumption DEF Init, TypeInv, TypeOK

\* The segmenter never cuts more bytes than it has received.
THEOREM TypeCorrect == Spec => []TypeOK
<1>1. TypeInv => TypeOK
  BY DEF TypeInv
<1> QED BY <1>1, InitTypeInv, TypeStep, PTL DEF Spec

-----------------------------------------------------------------------------
(* The blocks that an element is given. *)

\* The end of what element e was given.
End(blocks) == IF blocks = <<>> THEN 0 ELSE Last(blocks).hi

NoGapIn(blocks) ==
  \A i \in DOMAIN blocks :
    blocks[i].lo <= (IF i = 1 THEN 1 ELSE blocks[i - 1].hi + 1)

\* Every byte cut off was given to every element.  An element that has been given
\* more, other than the block being sent, owes it to a call that raised.
GapAt(e) ==
  /\ NoGapIn(got[e])
  /\ cut <= End(got[e])
  /\ Sending /\ e < next => End(got[e]) = NextBlock.hi
  /\ Cardinality(Repeats(got[e])) <= failures
  /\ pc \notin {"finish", "finished"} /\ e >= next /\ cut < End(got[e]) =>
       Cardinality(Repeats(got[e])) + 1 <= failures
GapInv == \A e \in 1 .. Elements : GapAt(e)

LEMMA RepeatsFinite ==
  ASSUME NEW blocks \in Seq(Block)
  PROVE  IsFiniteSet(Repeats(blocks)) /\ Cardinality(Repeats(blocks)) \in Nat
<1>1. Repeats(blocks) \in SUBSET (2 .. Len(blocks))
  BY DEF Repeats
<1>2. IsFiniteSet(2 .. Len(blocks))
  BY FS_Interval
<1>3. IsFiniteSet(Repeats(blocks))
  BY <1>1, <1>2, FS_Subset
<1> QED BY <1>3, FS_CardinalityType

LEMMA EndType ==
  ASSUME NEW blocks \in Seq(Block)
  PROVE  End(blocks) \in Nat
<1>1. CASE blocks = <<>>
  BY <1>1 DEF End
<1>2. CASE blocks # <<>>
  <2>1. Len(blocks) \in 1 .. Len(blocks)
    BY <1>2
  <2>2. blocks[Len(blocks)] \in Block
    BY <2>1, ElementOfSeq
  <2> QED BY <1>2, <2>2 DEF End, Last, Block
<1> QED BY <1>1, <1>2

\* One more block is a repetition if it starts before the end.
LEMMA AppendBlock ==
  ASSUME NEW blocks \in Seq(Block), NEW b \in Block, b.lo >= 1
  PROVE  /\ End(Append(blocks, b)) = b.hi
         /\ NoGapIn(blocks) /\ b.lo <= End(blocks) + 1 => NoGapIn(Append(blocks, b))
         /\ Cardinality(Repeats(Append(blocks, b))) =
              Cardinality(Repeats(blocks)) + IF b.lo <= End(blocks) THEN 1 ELSE 0
<1> DEFINE more == Append(blocks, b)
           n == Len(blocks)
<1>1. /\ more \in Seq(Block) /\ Len(more) = n + 1 /\ more # <<>> /\ n \in Nat
      /\ \A i \in 1 .. n : more[i] = blocks[i]
      /\ more[n + 1] = b
  BY AppendProperties
<1>2. End(blocks) = IF n = 0 THEN 0 ELSE blocks[n].hi
  BY DEF End, Last
<1>3. \A i \in 1 .. n : blocks[i].lo \in Nat /\ blocks[i].hi \in Nat
  <2>1. \A i \in 1 .. n : blocks[i] \in Block
    BY ElementOfSeq
  <2> QED BY <2>1 DEF Block
<1>4. b.lo \in Nat /\ b.hi \in Nat
  BY DEF Block
<1> HIDE DEF more, n
<1>5. End(more) = b.hi
  BY <1>1 DEF End, Last
<1>6. NoGapIn(blocks) /\ b.lo <= End(blocks) + 1 => NoGapIn(more)
  <2> SUFFICES ASSUME NoGapIn(blocks), b.lo <= End(blocks) + 1, NEW i \in 1 .. n + 1
               PROVE  more[i].lo <= (IF i = 1 THEN 1 ELSE more[i - 1].hi + 1)
    BY <1>1 DEF NoGapIn
  <2>1. CASE i = n + 1
    BY <1>1, <1>2, <1>4, <2>1
  <2>2. CASE i # n + 1
    <3>1. i \in 1 .. n /\ (i # 1 => i - 1 \in 1 .. n)
      BY <1>1, <2>2
    <3>2. blocks[i].lo <= (IF i = 1 THEN 1 ELSE blocks[i - 1].hi + 1)
      BY <3>1 DEF NoGapIn, n
    <3> QED BY <1>1, <3>1, <3>2
  <2> QED BY <2>1, <2>2
<1>7. Repeats(more) = Repeats(blocks) \cup IF b.lo <= End(blocks) THEN {n + 1} ELSE {}
  <2>1. Repeats(more) = {i \in 2 .. n + 1 : more[i].lo <= more[i - 1].hi}
    BY <1>1 DEF Repeats
  <2>2. Repeats(blocks) = {i \in 2 .. n : blocks[i].lo <= blocks[i - 1].hi}
    BY DEF Repeats, n
  <2>3. \A i \in 2 .. n : more[i] = blocks[i] /\ more[i - 1] = blocks[i - 1]
    BY <1>1
  <2>4. b.lo <= End(blocks) => n >= 1
    BY <1>1, <1>2, <1>4
  <2>5. n >= 1 => (more[n + 1].lo <= more[n].hi <=> b.lo <= End(blocks))
    BY <1>1, <1>2
  <2>6. ASSUME NEW i \in 2 .. n + 1
        PROVE  more[i].lo <= more[i - 1].hi <=>
                 \/ i \in 2 .. n /\ blocks[i].lo <= blocks[i - 1].hi
                 \/ i = n + 1 /\ b.lo <= End(blocks)
    BY <1>1, <2>3, <2>5
  <2>7. b.lo <= End(blocks) => n + 1 \in 2 .. n + 1
    BY <1>1, <2>4
  <2>8. \A i \in 2 .. n : i \in 2 .. n + 1
    BY <1>1
  <2> QED BY <2>1, <2>2, <2>6, <2>7, <2>8
<1>8. n + 1 \notin Repeats(blocks)
  BY <1>1 DEF Repeats, n
<1>9. Cardinality(Repeats(more)) =
        Cardinality(Repeats(blocks)) + IF b.lo <= End(blocks) THEN 1 ELSE 0
  <2>1. IsFiniteSet(Repeats(blocks)) /\ Cardinality(Repeats(blocks)) \in Nat
    BY RepeatsFinite
  <2>2. CASE b.lo <= End(blocks)
    <3>1. Repeats(more) = Repeats(blocks) \cup {n + 1}
      BY <1>7, <2>2
    <3>2. Cardinality(Repeats(blocks) \cup {n + 1}) = Cardinality(Repeats(blocks)) + 1
      BY <1>8, <2>1, FS_AddElement
    <3> QED BY <2>2, <3>1, <3>2
  <2>3. CASE ~(b.lo <= End(blocks))
    <3>1. Repeats(more) = Repeats(blocks)
      BY <1>7, <2>3
    <3> QED BY <2>1, <2>3, <3>1
  <2> QED BY <2>2, <2>3
<1> QED BY <1>5, <1>6, <1>9 DEF more

LEMMA GapStep == TypeInv /\ GapInv /\ [Next]_vars => GapInv'
<1> SUFFICES ASSUME TypeInv, GapInv, [Next]_vars, NEW x \in 1 .. Elements
             PROVE  GapAt(x)'
  BY DEF GapInv
<1> USE SizeAssumption
<1>0. /\ GapAt(x)
      /\ got[x] \in Seq(Block) /\ End(got[x]) \in Nat
      /\ Cardinality(Repeats(got[x])) \in Nat
      /\ received \in Nat /\ cut \in 0 .. received /\ failures \in Nat
      /\ next \in 1 .. Elements + 1
  BY EndType, RepeatsFinite DEF GapInv, TypeInv, TypeOK
<1>1. ASSUME NEW size \in 1 .. MaxData, DataReceived(size)
      PROVE  GapAt(x)'
  BY <1>0, <1>1 DEF DataReceived, GapAt, Sending
<1>2. CASE CheckBuffer
  <2>1. next = 1 /\ pc \notin {"finish", "finished"}
    BY <1>2 DEF CheckBuffer, TypeInv
  <2>2. UNCHANGED <<cut, next, got, failures>>
    BY <1>2 DEF CheckBuffer, buffer
  <2> QED BY <1>0, <2>1, <2>2 DEF GapAt
<1>3. ASSUME NEW e \in 1 .. Elements, Given(e)
      PROVE  GapAt(x)'
  <2>1. /\ NextBlock \in Block /\ NextBlock.lo = cut + 1 /\ NextBlock' = NextBlock
        /\ NextBlock.hi \in cut .. received
    BY <1>3, BlockType DEF Given, NextBlock, options, buffer
  <2>2. /\ Sending /\ Sending' /\ next = e /\ next' = next + 1
        /\ UNCHANGED <<cut, failures, pc>>
    BY <1>3 DEF Given, Sending, buffer
  <2>3. CASE x = e
    <3>1. got'[x] = Append(got[x], NextBlock)
      BY <1>3, <2>3 DEF Given, TypeInv, TypeOK
    <3>2. /\ End(got'[x]) = NextBlock.hi
          /\ NoGapIn(got[x]) /\ NextBlock.lo <= End(got[x]) + 1 => NoGapIn(got'[x])
          /\ Cardinality(Repeats(got'[x])) =
               Cardinality(Repeats(got[x])) + IF NextBlock.lo <= End(got[x]) THEN 1 ELSE 0
      <4>1. got[x] \in Seq(Block) /\ NextBlock \in Block /\ NextBlock.lo >= 1
        BY <1>0, <2>1
      <4> QED BY <3>1, <4>1, AppendBlock
    <3>3. NoGapIn(got'[x]) /\ cut <= NextBlock.hi
      BY <1>0, <2>1, <3>2 DEF GapAt
    <3>4. cut < End(got[x]) => Cardinality(Repeats(got[x])) + 1 <= failures
      BY <1>0, <2>2, <2>3 DEF GapAt, Sending
    <3>5. Cardinality(Repeats(got'[x])) <= failures
      BY <1>0, <2>1, <3>2, <3>4 DEF GapAt
    <3> QED BY <1>0, <2>1, <2>2, <2>3, <3>2, <3>3, <3>5 DEF GapAt
  <2>4. CASE x # e
    <3>1. got'[x] = got[x]
      BY <1>3, <2>4 DEF Given, TypeInv, TypeOK
    <3> QED BY <1>0, <2>1, <2>2, <2>4, <3>1 DEF GapAt
  <2> QED BY <2>3, <2>4
<1>4. ASSUME NEW e \in 1 .. Elements, ElementRaises(e)
      PROVE  GapAt(x)'
  <2>1. /\ failures' = failures + 1 /\ next' = 1 /\ pc' = "idle"
        /\ UNCHANGED <<cut, got>>
    BY <1>4 DEF ElementRaises, buffer
  <2> QED BY <1>0, <2>1 DEF GapAt, Sending
<1>5. ASSUME NEW e \in 1 .. Elements, ElementFinished(e)
      PROVE  GapAt(x)'
  <2>1. pc = "finish" /\ UNCHANGED <<cut, got, pc, failures>>
    BY <1>5 DEF ElementFinished, buffer
  <2> QED BY <1>0, <2>1 DEF GapAt, Sending
<1>6. CASE BlockSent
  <2>1. /\ Sending /\ next = Elements + 1 /\ next' = 1 /\ UNCHANGED <<got, failures>>
        /\ IF pc = "send" THEN cut' = NextBlock.hi /\ pc' = "check"
                          ELSE cut' = cut /\ pc' = "finish"
    BY <1>6 DEF BlockSent
  <2>2. End(got[x]) = NextBlock.hi
    BY <1>0, <2>1 DEF GapAt
  <2> QED BY <1>0, <2>1, <2>2 DEF GapAt, Sending
<1>7. CASE Finish
  <2>1. next = 1 /\ pc = "idle" /\ UNCHANGED <<cut, next, got, failures>>
    BY <1>7 DEF Finish, TypeInv, buffer
  <2> QED BY <1>0, <2>1 DEF GapAt
<1>8. CASE FinishConnected
  BY <1>0, <1>8 DEF FinishConnected, GapAt, Sending, buffer
<1>9. CASE UNCHANGED vars
  BY <1>0, <1>9 DEF vars, GapAt, Sending, NextBlock, options, buffer
<1> QED BY <1>1, <1>2, <1>3, <1>4, <1>5, <1>6, <1>7, <1>8, <1>9 DEF Next, WriterGiven, ElementGiven

\* Whichever elements raise, and when, each is given the stream without a gap, and
\* a block again at most once per call that raised.
THEOREM StreamWithoutGap == Spec => []NoGap
<1>1. Init => GapInv
  BY SizeAssumption, FS_EmptySet DEF Init, GapInv, GapAt, NoGapIn, End, Repeats, Sending
<1>2. GapInv => NoGap
  BY DEF GapInv, GapAt, NoGapIn, NoGap
<1> QED BY <1>1, <1>2, InitTypeInv, TypeStep, GapStep, PTL DEF Spec

-----------------------------------------------------------------------------
(* The end of the stream. *)

GivenTo(e, hi) == got[e] # <<>> /\ Last(got[e]).hi = hi

\* The elements called have been given the block; those before next are finished.
FinishedInv ==
  /\ pc = "flush" => partials
  /\ Sending => \A e \in 1 .. next - 1 : GivenTo(e, NextBlock.hi)
  /\ partials /\ pc \in {"finish", "finished"} =>
       \A e \in 1 .. Elements : GivenTo(e, received)
  /\ pc = "finish" => 1 .. next - 1 \subseteq ended
  /\ FinishedGaveAll

LEMMA FinishedStep == TypeInv /\ FinishedInv /\ [Next]_vars => FinishedInv'
<1> SUFFICES ASSUME TypeInv, FinishedInv, [Next]_vars PROVE FinishedInv'
  OBVIOUS
<1> USE SizeAssumption
<1>0. /\ got \in [1 .. Elements -> Seq(Block)] /\ next \in 1 .. Elements + 1
      /\ received \in Nat /\ ended \subseteq 1 .. Elements /\ Elements \in Nat
      /\ pc \in {"idle", "check"} => next = 1
  BY DEF TypeInv, TypeOK
<1>1. ASSUME NEW size \in 1 .. MaxData, DataReceived(size)
      PROVE  FinishedInv'
  BY <1>0, <1>1 DEF DataReceived, FinishedInv, FinishedGaveAll, GivenTo, Sending
<1>2. CASE CheckBuffer
  BY <1>0, <1>2 DEF CheckBuffer, FinishedInv, FinishedGaveAll, GivenTo, Sending, options,
                    buffer, writer
<1>3. ASSUME NEW e \in 1 .. Elements, Given(e), e = Writer \/ UNCHANGED file
      PROVE  FinishedInv'
  <2>1. /\ NextBlock \in Block /\ NextBlock' = NextBlock /\ pc' = pc
        /\ chunked \/ pc = "flush" => NextBlock.hi = received
        /\ Sending /\ Sending' /\ next = e /\ next' = next + 1
        /\ ended' = ended \ {e} /\ UNCHANGED <<options, buffer>>
    BY <1>3, BlockType DEF Given, NextBlock, Sending, options, buffer
  <2>2. /\ got'[e] = Append(got[e], NextBlock)
        /\ \A x \in 1 .. Elements : x # e => got'[x] = got[x]
    BY <1>0, <1>3 DEF Given
  <2>3. GivenTo(e, NextBlock.hi)'
    <3>1. /\ Len(Append(got[e], NextBlock)) = Len(got[e]) + 1
          /\ Append(got[e], NextBlock)[Len(got[e]) + 1] = NextBlock
          /\ Append(got[e], NextBlock) # <<>>
      BY <1>0, <2>1, AppendProperties
    <3> QED BY <2>1, <2>2, <3>1 DEF GivenTo, Last
  <2>4. \A x \in 1 .. next' - 1 : GivenTo(x, NextBlock.hi)'
    <3>1. \A x \in 1 .. next' - 1 : x # e => x \in 1 .. next - 1 /\ x \in 1 .. Elements
      BY <1>0, <2>1
    <3> QED BY <2>1, <2>2, <2>3, <3>1 DEF FinishedInv, GivenTo
  <2>5. FinishedGaveAll'
    BY <1>0, <1>3, <2>1, <2>2 DEF FinishedInv, FinishedGaveAll, Sending, options, buffer
  <2> QED BY <2>1, <2>4, <2>5 DEF FinishedInv, Sending, options
<1>4. ASSUME NEW e \in 1 .. Elements, ElementRaises(e)
      PROVE  FinishedInv'
  BY <1>4 DEF ElementRaises, FinishedInv, FinishedGaveAll, GivenTo, Sending, options,
              buffer, writer
<1>5. ASSUME NEW e \in 1 .. Elements, ElementFinished(e)
      PROVE  FinishedInv'
  <2>1. /\ pc = "finish" /\ next = e /\ ended' = ended \cup {e} /\ next' = next + 1
        /\ UNCHANGED <<options, buffer, pc, got>>
        /\ e = Writer => file' # "open"
        /\ e # Writer => file' = file
        /\ file' = "open" => file = "open"
    BY <1>5 DEF ElementFinished
  <2>2. \A x \in 1 .. next' - 1 : x \in ended'
    <3>1. \A x \in 1 .. next' - 1 : x = e \/ x \in 1 .. next - 1
      BY <1>0, <2>1
    <3> QED BY <2>1, <3>1 DEF FinishedInv
  <2>3. FinishedGaveAll'
    BY <1>0, <2>1 DEF FinishedInv, FinishedGaveAll, GivenTo, options, buffer
  <2> QED BY <2>1, <2>2, <2>3 DEF FinishedInv, Sending, GivenTo, options, buffer
<1>6. CASE BlockSent
  <2>1. /\ Sending /\ next = Elements + 1 /\ next' = 1
        /\ UNCHANGED <<options, received, got, file, ended>>
        /\ pc' = IF pc = "send" THEN "check" ELSE "finish"
    BY <1>6 DEF BlockSent, writer
  <2>2. pc = "flush" => NextBlock.hi = received
    BY <2>1, BlockType
  <2>3. \A e \in 1 .. Elements : GivenTo(e, NextBlock.hi)
    BY <1>0, <2>1 DEF FinishedInv
  <2> QED BY <1>0, <2>1, <2>2, <2>3 DEF FinishedInv, FinishedGaveAll, Sending, GivenTo, options
<1>7. CASE Finish
  BY <1>0, <1>7 DEF Finish, FinishedInv, FinishedGaveAll, GivenTo, Sending, options,
                    buffer, writer
<1>8. CASE FinishConnected
  <2>1. /\ pc = "finish" /\ next = Elements + 1 /\ pc' = "finished"
        /\ UNCHANGED <<options, buffer, got, file, ended>>
    BY <1>8 DEF FinishConnected, writer
  <2>2. ended = 1 .. Elements
    <3>1. 1 .. next - 1 \subseteq ended /\ next - 1 = Elements
      BY <1>0, <2>1 DEF FinishedInv
    <3> QED BY <1>0, <3>1
  <2> QED BY <2>1, <2>2 DEF FinishedInv, FinishedGaveAll, GivenTo, Sending, options, buffer
<1>9. CASE UNCHANGED vars
  BY <1>9 DEF vars, FinishedInv, FinishedGaveAll, GivenTo, Sending, NextBlock, options,
              buffer, writer
<1> QED BY <1>1, <1>2, <1>3, <1>4, <1>5, <1>6, <1>7, <1>8, <1>9
        DEF Next, WriterGiven, ElementGiven, writer

\* An element is finished after it was given everything, and a finish() that does
\* not raise finishes them all.
THEOREM FinishGivesAll == Spec => []FinishedGaveAll
<1>1. Init => FinishedInv
  BY SizeAssumption DEF Init, FinishedInv, FinishedGaveAll, Sending
<1>2. FinishedInv => FinishedGaveAll
  BY DEF FinishedInv
<1> QED BY <1>1, <1>2, InitTypeInv, TypeStep, FinishedStep, PTL DEF Spec

-----------------------------------------------------------------------------
(* The sizes of blocks, while no call raises. *)

SizesOf(blocks) == \A b \in Range(blocks) : b.hi - b.lo + 1 \in 1 .. Limit

\* Something is kept back for finish, and it makes no more than a block.
SizeInv ==
  /\ ~chunked /\ received > 0 => cut < received
  /\ failures = 0 =>
       /\ chunked => /\ pc \in {"idle", "flush"} => count < Limit
                     /\ pc = "check" => count <= Limit
       /\ ~chunked => /\ pc \in {"idle", "flush"} => received - cut <= Limit
                      /\ received > 0 => \A e \in 1 .. Elements : SizesOf(got[e])
                      /\ received = 0 /\ pc \in {"idle", "check", "send"} =>
                           \A e \in 1 .. Elements : got[e] = <<>>

LEMMA SizesAppend ==
  ASSUME NEW blocks \in Seq(Block), NEW b \in Block,
         SizesOf(blocks), b.hi - b.lo + 1 \in 1 .. Limit
  PROVE  SizesOf(Append(blocks, b))
<1>1. /\ Len(Append(blocks, b)) = Len(blocks) + 1
      /\ Append(blocks, b) \in Seq(Block)
      /\ \A i \in 1 .. Len(blocks) : Append(blocks, b)[i] = blocks[i]
      /\ Append(blocks, b)[Len(blocks) + 1] = b
  BY AppendProperties
<1>2. \A i \in 1 .. Len(blocks) + 1 : i = Len(blocks) + 1 \/ i \in 1 .. Len(blocks)
  OBVIOUS
<1> QED BY <1>1, <1>2 DEF SizesOf, Range

LEMMA SizeStep == TypeInv /\ SizeInv /\ [Next]_vars => SizeInv'
<1> SUFFICES ASSUME TypeInv, SizeInv, [Next]_vars PROVE SizeInv'
  OBVIOUS
<1> USE SizeAssumption
<1>0. /\ got \in [1 .. Elements -> Seq(Block)]
      /\ received \in Nat /\ cut \in 0 .. received /\ count \in Nat /\ failures \in Nat
      /\ chunked \in BOOLEAN
      /\ pc = "send" /\ ~chunked => received - cut > Limit
  BY DEF TypeInv, TypeOK
<1>1. ASSUME NEW size \in 1 .. MaxData, DataReceived(size)
      PROVE  SizeInv'
  <2>1. /\ received' = received + size /\ pc = "idle" /\ pc' = "check"
        /\ count' = (IF chunked THEN count + 1 ELSE count)
        /\ UNCHANGED <<options, cut, got, failures>>
    BY <1>1 DEF DataReceived
  <2>2. failures = 0 /\ ~chunked => \A e \in 1 .. Elements : SizesOf(got[e])
    BY <1>0, <2>1 DEF SizeInv, SizesOf, Range
  <2> QED BY <1>0, <2>1, <2>2 DEF SizeInv, SizesOf, options
<1>2. CASE CheckBuffer
  BY <1>0, <1>2 DEF CheckBuffer, Full, SizeInv, SizesOf, options, buffer
<1>3. ASSUME NEW e \in 1 .. Elements, Given(e)
      PROVE  SizeInv'
  <2>1. /\ Sending /\ NextBlock \in Block /\ NextBlock.lo = cut + 1
        /\ chunked \/ pc = "flush" => NextBlock.hi = received
        /\ ~chunked /\ pc = "send" => NextBlock.hi = cut + Limit
        /\ UNCHANGED <<chunked, received, cut, count, pc, failures>>
    BY <1>3, BlockType DEF Given, options, buffer
  <2>2. /\ got'[e] = Append(got[e], NextBlock) /\ got[e] \in Seq(Block)
        /\ \A x \in 1 .. Elements : x # e => got'[x] = got[x]
    BY <1>0, <1>3 DEF Given
  <2>3. failures = 0 /\ ~chunked /\ received > 0 =>
          \A x \in 1 .. Elements : SizesOf(got[x])'
    <3> SUFFICES ASSUME failures = 0, ~chunked, received > 0, NEW x \in 1 .. Elements
                 PROVE  SizesOf(got'[x])
      BY DEF SizesOf
    <3>1. NextBlock.hi - NextBlock.lo + 1 \in 1 .. Limit
      BY <1>0, <2>1 DEF SizeInv, Sending
    <3>2. SizesOf(got[x]) /\ SizesOf(got[e])
      BY DEF SizeInv
    <3> QED BY <2>1, <2>2, <3>1, <3>2, SizesAppend
  <2>4. ~(~chunked /\ received = 0 /\ pc \in {"idle", "check", "send"})
    BY <1>0, <2>1 DEF Sending
  <2> QED BY <2>1, <2>3, <2>4 DEF SizeInv, SizesOf
<1>4. ASSUME NEW e \in 1 .. Elements, ElementRaises(e)
      PROVE  SizeInv'
  <2>1. failures' = failures + 1 /\ UNCHANGED <<chunked, received, cut>>
    BY <1>4 DEF ElementRaises, options, buffer
  <2> QED BY <1>0, <2>1 DEF SizeInv
<1>5. ASSUME NEW e \in 1 .. Elements, ElementFinished(e)
      PROVE  SizeInv'
  BY <1>5 DEF ElementFinished, SizeInv, SizesOf, options, buffer
<1>6. CASE BlockSent
  <2>1. /\ Sending /\ UNCHANGED <<chunked, received, got, failures>>
        /\ IF pc = "send" THEN cut' = NextBlock.hi /\ count' = 0 /\ pc' = "check"
                          ELSE UNCHANGED <<cut, count>> /\ pc' = "finish"
    BY <1>6 DEF BlockSent, options
  <2>2. ~chunked /\ pc = "send" => NextBlock.hi = cut + Limit
    BY <2>1, BlockType
  <2> QED BY <1>0, <2>1, <2>2 DEF SizeInv, SizesOf, Sending
<1>7. CASE Finish
  BY <1>7 DEF Finish, SizeInv, SizesOf, options, buffer
<1>8. CASE FinishConnected
  BY <1>8 DEF FinishConnected, SizeInv, SizesOf, options, buffer
<1>9. CASE UNCHANGED vars
  BY <1>9 DEF vars, SizeInv, SizesOf, options, buffer
<1> QED BY <1>1, <1>2, <1>3, <1>4, <1>5, <1>6, <1>7, <1>8, <1>9 DEF Next, WriterGiven, ElementGiven

\* While no call raises, no block is larger than Limit nor empty, and the segmenter
\* never holds the chunks it believes impossible.
THEOREM BlocksSized == Spec => []BlockSizes
<1>1. Init => SizeInv
  BY SizeAssumption DEF Init, SizeInv, SizesOf
<1>2. TypeInv /\ SizeInv => BlockSizes
  BY DEF SizeInv, SizesOf, BlockSizes
<1> QED BY <1>1, <1>2, InitTypeInv, TypeStep, SizeStep, PTL DEF Spec

-----------------------------------------------------------------------------
(* Sequences put one after the other.  What FlattenSeq computes, a recursive *)
(* function, is found by induction on the length: were there a length at     *)
(* which it failed, there would be a least one.                              *)

\* A set of natural numbers has a least element.
LEMMA LeastOf ==
  ASSUME NEW S \in SUBSET Nat, S # {}
  PROVE  \E x \in S : \A y \in S : x <= y
<1>1. PICK x \in S : \A y \in S : ~ (<<y, x>> \in OpToRel(<, Nat))
  BY NatLessThanWellFounded, WFMin
<1>2. \A y \in S : ~ (y < x)
  BY <1>1 DEF OpToRel
<1> QED BY <1>2

\* f flattens the first n of seqs.
Flattens(f, seqs, n) ==
  f = [i \in 1 .. n |-> IF i = 1 THEN seqs[i] ELSE f[i - 1] \o seqs[i]]

LEMMA FlattensAt ==
  ASSUME NEW f, NEW seqs, NEW n \in Nat, Flattens(f, seqs, n), NEW i \in 1 .. n
  PROVE  f[i] = IF i = 1 THEN seqs[i] ELSE f[i - 1] \o seqs[i]
<1> DEFINE g == [j \in 1 .. n |-> IF j = 1 THEN seqs[j] ELSE f[j - 1] \o seqs[j]]
<1>1. f = g
  BY DEF Flattens
<1>2. g[i] = IF i = 1 THEN seqs[i] ELSE f[i - 1] \o seqs[i]
  OBVIOUS
<1> QED BY <1>1, <1>2, Zenon

\* There is such a function for any n, or a least n without one.
LEMMA FlattensExists ==
  ASSUME NEW seqs, NEW n \in Nat
  PROVE  \E f : Flattens(f, seqs, n)
<1> DEFINE Without == {k \in Nat : ~ \E f : Flattens(f, seqs, k)}
<1> SUFFICES ASSUME Without # {} PROVE FALSE
  OBVIOUS
<1>1. PICK k \in Without : \A j \in Without : k <= j
  <2>1. Without \in SUBSET Nat
    OBVIOUS
  <2> HIDE DEF Without
  <2> QED BY <2>1, LeastOf
<1>2. k \in Nat /\ ~ \E f : Flattens(f, seqs, k)
  BY <1>1
<1>3. CASE k = 0
  <2> DEFINE f0 == [i \in 1 .. 0 |-> {}]
  <2>1. Flattens(f0, seqs, 0)
    BY DEF Flattens
  <2> QED BY <1>2, <1>3, <2>1
<1>4. CASE k # 0
  <2>1. k - 1 \in Nat /\ k - 1 \notin Without
    BY <1>1, <1>2, <1>4
  <2>2. PICK f : Flattens(f, seqs, k - 1)
    BY <2>1
  <2> DEFINE g == [i \in 1 .. k |-> IF i = 1 THEN seqs[i] ELSE f[i - 1] \o seqs[i]]
  <2>3. \A i \in 1 .. k - 1 : g[i] = f[i]
    BY <2>1, <2>2, FlattensAt
  <2>4. \A i \in 1 .. k : i # 1 => i - 1 \in 1 .. k - 1
    BY <1>2
  <2>5. g = [i \in 1 .. k |-> IF i = 1 THEN seqs[i] ELSE g[i - 1] \o seqs[i]]
    BY <2>3, <2>4
  <2>6. Flattens(g, seqs, k)
    BY <2>5, Zenon DEF Flattens
  <2> QED BY <1>2, <2>6
<1> QED BY <1>3, <1>4

\* What flattens more of longer sequences starts alike.
LEMMA FlattensAgree ==
  ASSUME NEW f, NEW g, NEW s, NEW t, NEW m \in Nat, NEW n \in Nat,
         Flattens(f, s, m), Flattens(g, t, n), m <= n, \A i \in 1 .. m : s[i] = t[i]
  PROVE  \A i \in 1 .. m : f[i] = g[i]
<1> DEFINE Differ == {i \in 1 .. m : f[i] # g[i]}
<1> SUFFICES ASSUME Differ # {} PROVE FALSE
  OBVIOUS
<1>1. PICK i \in Differ : \A j \in Differ : i <= j
  <2>1. Differ \in SUBSET Nat
    OBVIOUS
  <2> HIDE DEF Differ
  <2> QED BY <2>1, LeastOf
<1>2. i \in 1 .. m /\ i \in 1 .. n /\ f[i] # g[i]
  BY <1>1
<1>3. i # 1 => f[i - 1] = g[i - 1]
  <2> SUFFICES ASSUME i # 1 PROVE f[i - 1] = g[i - 1]
    OBVIOUS
  <2>1. i - 1 \in 1 .. m /\ ~(i <= i - 1)
    BY <1>2
  <2> QED BY <1>1, <2>1
<1>4. f[i] = IF i = 1 THEN s[i] ELSE f[i - 1] \o s[i]
  BY <1>2, FlattensAt
<1>5. g[i] = IF i = 1 THEN t[i] ELSE g[i - 1] \o t[i]
  BY <1>2, FlattensAt
<1> QED BY <1>2, <1>3, <1>4, <1>5

LEMMA FlattenSeqIs ==
  ASSUME NEW seqs, Len(seqs) \in Nat \ {0}
  PROVE  \E f : Flattens(f, seqs, Len(seqs)) /\ FlattenSeq(seqs) = f[Len(seqs)]
<1> DEFINE flat == CHOOSE f : f = [i \in 1 .. Len(seqs) |-> IF i = 1 THEN seqs[i] ELSE f[i - 1] \o seqs[i]]
<1>1. FlattenSeq(seqs) = flat[Len(seqs)]
  BY Zenon DEF FlattenSeq
<1>2. Flattens(flat, seqs, Len(seqs))
  BY FlattensExists, Zenon DEF Flattens
<1> QED BY <1>1, <1>2

\* One more sequence is put behind the others.
LEMMA FlattenAppend ==
  ASSUME NEW T, NEW seqs \in Seq(Seq(T)), NEW last \in Seq(T)
  PROVE  FlattenSeq(Append(seqs, last)) =
           IF seqs = <<>> THEN last ELSE FlattenSeq(seqs) \o last
<1> DEFINE more == Append(seqs, last)
           n == Len(seqs)
<1>1. /\ n \in Nat /\ Len(more) = n + 1 /\ more[n + 1] = last
      /\ \A i \in 1 .. n : seqs[i] = more[i]
      /\ seqs = <<>> <=> n = 0
  BY AppendProperties
<1> HIDE DEF more
<1>2. PICK g : Flattens(g, more, n + 1) /\ FlattenSeq(more) = g[n + 1]
  BY <1>1, FlattenSeqIs
<1>3. g[n + 1] = IF n = 0 THEN last ELSE g[n] \o last
  BY <1>1, <1>2, FlattensAt
<1>4. CASE n = 0
  BY <1>1, <1>2, <1>3, <1>4 DEF more
<1>5. CASE n # 0
  <2>1. PICK f : Flattens(f, seqs, n) /\ FlattenSeq(seqs) = f[n]
    BY <1>1, <1>5, FlattenSeqIs
  <2>2. \A i \in 1 .. n : f[i] = g[i]
    <3>1. n + 1 \in Nat /\ n <= n + 1
      BY <1>1
    <3> HIDE DEF n
    <3> QED BY <1>1, <1>2, <2>1, <3>1, FlattensAgree
  <2>3. n \in 1 .. n /\ n + 1 # 1
    BY <1>1, <1>5
  <2> QED BY <1>1, <1>2, <1>3, <1>5, <2>1, <2>2, <2>3 DEF more
<1> QED BY <1>4, <1>5

LEMMA FlattenType ==
  ASSUME NEW T, NEW seqs \in Seq(Seq(T))
  PROVE  FlattenSeq(seqs) \in Seq(T)
<1>1. CASE seqs = <<>>
  BY <1>1 DEF FlattenSeq
<1>2. CASE seqs # <<>>
  <2> DEFINE n == Len(seqs)
  <2>1. n \in Nat \ {0}
    BY <1>2
  <2>2. PICK f : Flattens(f, seqs, n) /\ FlattenSeq(seqs) = f[n]
    BY <2>1, FlattenSeqIs
  <2> DEFINE Untyped == {i \in 1 .. n : f[i] \notin Seq(T)}
  <2>3. ASSUME Untyped # {} PROVE FALSE
    <3>1. PICK i \in Untyped : \A j \in Untyped : i <= j
      <4>1. Untyped \in SUBSET Nat
        OBVIOUS
      <4> HIDE DEF Untyped
      <4> QED BY <2>3, <4>1, LeastOf
    <3>2. i \in 1 .. n /\ f[i] \notin Seq(T) /\ seqs[i] \in Seq(T)
      BY <3>1
    <3>3. i # 1 => f[i - 1] \in Seq(T)
      <4> SUFFICES ASSUME i # 1 PROVE f[i - 1] \in Seq(T)
        OBVIOUS
      <4>1. i - 1 \in 1 .. n /\ ~(i <= i - 1)
        BY <3>2
      <4> QED BY <3>1, <4>1
    <3>4. f[i] = IF i = 1 THEN seqs[i] ELSE f[i - 1] \o seqs[i]
      BY <2>1, <2>2, <3>2, FlattensAt
    <3> QED BY <3>2, <3>3, <3>4
  <2> QED BY <2>1, <2>2, <2>3
<1> QED BY <1>1, <1>2

\* An element more in the last sequence is one more at the end.
LEMMA FlattenExtend ==
  ASSUME NEW T, NEW seqs \in Seq(Seq(T)), seqs # <<>>, NEW e \in T
  PROVE  FlattenSeq([seqs EXCEPT ![Len(seqs)] = Append(@, e)]) = Append(FlattenSeq(seqs), e)
<1>1. PICK front \in Seq(Seq(T)), last \in Seq(T) : seqs = Append(front, last)
  BY SequenceEmptyOrAppend
<1>2. [seqs EXCEPT ![Len(seqs)] = Append(@, e)] = Append(front, Append(last, e))
  <2> DEFINE s == [seqs EXCEPT ![Len(seqs)] = Append(@, e)]
             t == Append(front, Append(last, e))
             n == Len(front)
  <2>1. /\ n \in Nat /\ Len(seqs) = n + 1 /\ seqs[n + 1] = last
        /\ \A i \in 1 .. n : seqs[i] = front[i]
    BY <1>1, AppendProperties
  <2>2. Append(last, e) \in Seq(T)
    OBVIOUS
  <2>3. /\ t \in Seq(Seq(T)) /\ Len(t) = n + 1 /\ t[n + 1] = Append(last, e)
        /\ \A i \in 1 .. n : t[i] = front[i]
    BY <2>2, AppendProperties
  <2>4. s \in Seq(Seq(T)) /\ Len(s) = n + 1 /\ s[n + 1] = Append(last, e)
        /\ \A i \in 1 .. n : s[i] = front[i]
    BY <2>1, <2>2
  <2> HIDE DEF s, t
  <2>5. \A i \in 1 .. n + 1 : i = n + 1 \/ i \in 1 .. n
    BY <2>1
  <2>51. \A i \in 1 .. n + 1 : s[i] = t[i]
    BY <2>3, <2>4, <2>5
  <2>6. s = t
    BY <2>3, <2>4, <2>51, SeqEqual
  <2> QED BY <2>6 DEF s, t
<1>3. CASE front = <<>>
  <2>1. FlattenSeq(seqs) = last
    BY <1>1, <1>3, FlattenAppend
  <2>2. FlattenSeq(Append(front, Append(last, e))) = Append(last, e)
    <3>1. Append(last, e) \in Seq(T)
      OBVIOUS
    <3> QED BY <1>3, <3>1, FlattenAppend
  <2> QED BY <1>2, <2>1, <2>2
<1>4. CASE front # <<>>
  <2>1. Append(last, e) \in Seq(T) /\ FlattenSeq(front) \in Seq(T)
    BY FlattenType
  <2>2. FlattenSeq(seqs) = FlattenSeq(front) \o last
    BY <1>1, <1>4, FlattenAppend
  <2>3. FlattenSeq(Append(front, Append(last, e))) = FlattenSeq(front) \o Append(last, e)
    BY <1>4, <2>1, FlattenAppend
  <2>4. FlattenSeq(front) \o Append(last, e) = Append(FlattenSeq(front) \o last, e)
    <3> DEFINE p == FlattenSeq(front) \o Append(last, e)
               q == Append(FlattenSeq(front) \o last, e)
    <3>1. p \in Seq(T) /\ q \in Seq(T)
      BY <2>1
    <3>2. Len(p) = Len(q)
      BY <2>1
    <3>3. \A i \in 1 .. Len(p) : p[i] = q[i]
      BY <2>1
    <3> HIDE DEF p, q
    <3>4. p = q
      BY <3>1, <3>2, <3>3, SeqEqual
    <3> QED BY <3>4 DEF p, q
  <2> QED BY <1>2, <2>2, <2>3, <2>4
<1> QED BY <1>3, <1>4

LEMMA LastExtended ==
  ASSUME NEW T, NEW seqs \in Seq(Seq(T)), seqs # <<>>, NEW e \in T
  PROVE  LET more == [seqs EXCEPT ![Len(seqs)] = Append(@, e)]
         IN  /\ DOMAIN more = 1 .. Len(seqs) /\ Len(more) = Len(seqs)
             /\ Len(more[Len(seqs)]) = Len(seqs[Len(seqs)]) + 1
             /\ \A i \in 1 .. Len(seqs) : i # Len(seqs) => more[i] = seqs[i]
<1>1. Len(seqs) \in 1 .. Len(seqs) /\ seqs[Len(seqs)] \in Seq(T)
  BY EmptySeq, ElementOfSeq
<1>2. /\ Append(seqs[Len(seqs)], e) \in Seq(T)
      /\ Len(Append(seqs[Len(seqs)], e)) = Len(seqs[Len(seqs)]) + 1
  BY <1>1, AppendProperties
<1> QED BY <1>1, <1>2, ExceptSeq

-----------------------------------------------------------------------------
(* The files of the FileWriter. *)

\* A file that is finished holds chunks_per_file blocks, the one that is written as
\* many as were counted since it was made.
FilesInv ==
  /\ FlattenSeq(files) = got[Writer]
  /\ \A i \in DOMAIN files :
       IF i < Len(files) \/ file = "none" THEN Len(files[i]) = ChunksPerFile
       ELSE /\ Len(files[i]) = inFile
            /\ ChunksPerFile > 0 => inFile < ChunksPerFile
  /\ file = "none" => inFile = 0

LEMMA FilesStep == TypeInv /\ FilesInv /\ [Next]_vars => FilesInv'
<1> SUFFICES ASSUME TypeInv, FilesInv, [Next]_vars PROVE FilesInv'
  OBVIOUS
<1> USE SizeAssumption
<1>0. /\ got \in [1 .. Elements -> Seq(Block)] /\ files \in Seq(Seq(Block)) /\ inFile \in Nat
      /\ file \in {"none", "open", "closed"} /\ (file # "none" => files # <<>>)
  BY DEF TypeInv, TypeOK
<1>1. ASSUME UNCHANGED <<files, inFile>>, got'[Writer] = got[Writer], file' = "none" <=> file = "none"
      PROVE  FilesInv'
  BY <1>1 DEF FilesInv
<1>2. CASE WriterGiven
  <2>1. NextBlock \in Block
    BY <1>2, BlockType DEF WriterGiven, Given
  <2>2. got'[Writer] = Append(got[Writer], NextBlock)
    BY <1>0, <1>2 DEF WriterGiven, Given
  <2>3. inFile' = InFile /\ (file' = "none" <=> InFile = 0)
    BY <1>0, <1>2 DEF WriterGiven
  <2>4. CASE file = "none"
    <3>1. files' = Append(files, <<NextBlock>>) /\ <<NextBlock>> \in Seq(Block)
      BY <1>2, <2>1, <2>4 DEF WriterGiven
    <3>2. FlattenSeq(files') = Append(got[Writer], NextBlock)
      <4>1. CASE files = <<>>
        <5>1. got[Writer] = <<>>
          BY <4>1 DEF FilesInv, FlattenSeq
        <5>2. FlattenSeq(files') = <<NextBlock>>
          BY <1>0, <3>1, <4>1, FlattenAppend
        <5> QED BY <5>1, <5>2
      <4>2. CASE files # <<>>
        <5>1. FlattenSeq(files') = FlattenSeq(files) \o <<NextBlock>>
          BY <1>0, <3>1, <4>2, FlattenAppend
        <5>2. got[Writer] \in Seq(Block)
          BY <1>0
        <5> QED BY <2>1, <5>1, <5>2, AppendIsConcat DEF FilesInv
      <4> QED BY <4>1, <4>2
    <3>3. /\ Len(files') = Len(files) + 1
          /\ files'[Len(files) + 1] = <<NextBlock>>
          /\ \A i \in 1 .. Len(files) : files'[i] = files[i]
          /\ DOMAIN files' = 1 .. Len(files) + 1 /\ DOMAIN files = 1 .. Len(files)
          /\ Len(files) \in Nat
      BY <1>0, <3>1, AppendProperties
    <3>4. inFile = 0 /\ \A i \in 1 .. Len(files) : Len(files[i]) = ChunksPerFile
      BY <2>4, <3>3 DEF FilesInv
    <3>5. Len(<<NextBlock>>) = 1
      OBVIOUS
    <3>6. ASSUME NEW i \in 1 .. Len(files) + 1
          PROVE  IF i < Len(files) + 1 \/ file' = "none" THEN Len(files'[i]) = ChunksPerFile
                 ELSE /\ Len(files'[i]) = inFile'
                      /\ ChunksPerFile > 0 => inFile' < ChunksPerFile
      <4>1. CASE i = Len(files) + 1
        <5>1. Len(files'[i]) = 1
          BY <3>3, <3>5, <4>1, Zenon
        <5>2. inFile' = (IF ChunksPerFile = 1 THEN 0 ELSE 1) /\ (file' = "none" <=> inFile' = 0)
          BY <2>3, <3>4 DEF InFile
        <5>3. CASE ChunksPerFile = 1
          BY <5>1, <5>2, <5>3
        <5>4. CASE ChunksPerFile # 1
          BY <3>3, <4>1, <5>1, <5>2, <5>4
        <5> QED BY <5>3, <5>4
      <4>2. CASE i # Len(files) + 1
        BY <3>3, <3>4, <4>2
      <4> QED BY <4>1, <4>2
    <3> QED BY <2>2, <2>3, <3>2, <3>3, <3>6 DEF FilesInv
  <2>5. CASE file # "none"
    <3> DEFINE n == Len(files)
    <3>1. files' = [files EXCEPT ![n] = Append(@, NextBlock)] /\ files # <<>>
      BY <1>0, <1>2, <2>5 DEF WriterGiven
    <3>2. FlattenSeq(files') = Append(got[Writer], NextBlock)
      BY <1>0, <2>1, <3>1, FlattenExtend DEF FilesInv
    <3>3. n \in 1 .. n /\ DOMAIN files = 1 .. n
      BY <1>0, <3>1, EmptySeq
    <3>4. /\ Len(files') = n /\ DOMAIN files' = 1 .. n
          /\ Len(files'[n]) = Len(files[n]) + 1
          /\ \A i \in 1 .. n : i # n => files'[i] = files[i]
      BY <1>0, <2>1, <3>1, LastExtended
    <3>6. /\ Len(files[n]) = inFile
          /\ ChunksPerFile > 0 => inFile < ChunksPerFile
          /\ \A i \in 1 .. n : i < n => Len(files[i]) = ChunksPerFile
      BY <2>5, <3>3 DEF FilesInv
    <3> HIDE DEF n
    <3>7. ASSUME NEW i \in 1 .. n
          PROVE  IF i < n \/ file' = "none" THEN Len(files'[i]) = ChunksPerFile
                 ELSE /\ Len(files'[i]) = inFile'
                      /\ ChunksPerFile > 0 => inFile' < ChunksPerFile
      <4>1. CASE i = n
        BY <1>0, <2>3, <3>3, <3>4, <3>6, <4>1 DEF InFile
      <4>2. CASE i # n
        BY <3>3, <3>4, <3>6, <4>2
      <4> QED BY <4>1, <4>2
    <3> QED BY <2>2, <2>3, <3>2, <3>4, <3>7 DEF FilesInv
  <2> QED BY <2>4, <2>5
<1>3. ASSUME NEW e \in 1 .. Elements, ElementGiven(e)
      PROVE  FilesInv'
  BY <1>0, <1>1, <1>3 DEF ElementGiven, Given, writer
<1>4. ASSUME NEW e \in 1 .. Elements, ElementFinished(e)
      PROVE  FilesInv'
  BY <1>0, <1>1, <1>4 DEF ElementFinished
<1>5. CASE BlockSent \/ \E e \in 1 .. Elements : ElementRaises(e)
  BY <1>1, <1>5 DEF BlockSent, ElementRaises, writer
<1> QED
  BY <1>1, <1>2, <1>3, <1>4, <1>5
  DEF Next, DataReceived, CheckBuffer, Finish, FinishConnected, vars, writer

\* Whichever calls raise, the files of the FileWriter together hold what it was given,
\* in order, and each but the last holds chunks_per_file blocks.
THEOREM FilesHoldAll == Spec => []FilesHoldBlocks
<1>1. Init => FilesInv
  BY SizeAssumption DEF Init, FilesInv, FlattenSeq
<1>2. TypeInv /\ FilesInv => FilesHoldBlocks
  BY SizeAssumption DEF TypeInv, TypeOK, FilesInv, FilesHoldBlocks
<1> QED BY <1>1, <1>2, InitTypeInv, TypeStep, FilesStep, PTL DEF Spec
=============================================================================
