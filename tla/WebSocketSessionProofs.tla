----------------------- MODULE WebSocketSessionProofs -----------------------
(***************************************************************************)
(* Proofs about WebSocketSession, for every MAX_LENGTH and every stream:   *)
(* types, the size of the buffer, silence after a frame that was too long, *)
(* the report of a lost connection, the frames that are delivered, and the *)
(* refinement of FrameStream.                                              *)
(***************************************************************************)
EXTENDS WebSocketSession, FiniteSetTheorems, SequenceTheorems, WellFoundedInduction, TLAPS

\* What the two callbacks have been called for: connectionMade only once the session
\* is open, connectionLost only once the connection is gone, and the decoder works
\* while it is there.
CallsInv ==
  /\ phase # "open" => made = 0
  /\ conn # "down" => lost = 0
  /\ data # <<>> \/ attached => conn # "down"

TypeInv == TypeOK /\ CallsInv

\* The reactions change what Drop, Stay and LoseConnection change.
LEMMA ReactTypes ==
  ASSUME TypeOK, NEW reaction \in Reaction, React(reaction)
  PROVE  /\ conn' \in {"up", "closing", "down"}
         /\ attached' \in BOOLEAN /\ closedHere' \in BOOLEAN
         /\ conn' = conn \/ conn' = "closing"
<1>1. attached \in BOOLEAN /\ closedHere \in BOOLEAN
  BY Zenon DEF TypeOK
<1>2. CASE LoseConnection
  BY <1>2 DEF LoseConnection
<1>3. CASE Stay
  BY <1>1, <1>3 DEF Stay, TypeOK
<1>4. CASE Drop
  BY <1>1, <1>4 DEF Drop
<1> QED BY <1>2, <1>3, <1>4 DEF React

LEMMA ChunkTypes ==
  ASSUME NEW chunk \in Chunk
  PROVE  chunk \in Seq(Byte) /\ Len(chunk) > 0
<1>1. PICK k \in 1 .. MaxChunk : chunk \in [1 .. k -> Byte]
  BY DEF Chunk
<1>2. k \in Nat /\ k > 0
  BY LengthAssumption, <1>1
<1> QED BY <1>1, <1>2

\* A set of natural numbers has a least element.
LEMMA LeastOf ==
  ASSUME NEW S \in SUBSET Nat, S # {}
  PROVE  \E x \in S : \A y \in S : x <= y
<1>1. PICK x \in S : \A y \in S : ~ (<<y, x>> \in OpToRel(<, Nat))
  BY NatLessThanWellFounded, WFMin
<1>2. \A y \in S : ~ (y < x)
  BY <1>1 DEF OpToRel
<1> QED BY <1>2

\* A chunk that holds no \xff is content, and the first \xff is one of its bytes.
LEMMA EndIndexTypes ==
  ASSUME data \in Seq(Byte)
  PROVE  /\ EndIndex \in 0 .. Len(data)
         /\ EndIndex = 0 => data \in Seq(Byte \ {"f"})
         /\ EndIndex > 0 => /\ data[EndIndex] = "f"
                            /\ \A j \in 1 .. EndIndex - 1 : data[j] # "f"
<1>1. CASE \E i \in DOMAIN data : data[i] = "f"
  <2> DEFINE First(i) == data[i] = "f" /\ \A j \in 1 .. i - 1 : data[j] # "f"
             ends == {i \in DOMAIN data : data[i] = "f"}
  <2>1. PICK i \in ends : \A j \in ends : i <= j
    <3>1. ends \in SUBSET Nat /\ ends # {}
      BY <1>1
    <3> HIDE DEF ends
    <3> QED BY <3>1, LeastOf
  <2>2. i \in DOMAIN data /\ First(i)
    BY <2>1
  <2>3. EndIndex = CHOOSE k \in DOMAIN data : First(k)
    BY <1>1 DEF EndIndex
  <2>4. EndIndex \in DOMAIN data /\ First(EndIndex)
    <3> HIDE DEF First
    <3> QED BY <2>2, <2>3
  <2> QED BY <2>4
<1>2. CASE ~\E i \in DOMAIN data : data[i] = "f"
  <2>1. EndIndex = 0
    BY <1>2 DEF EndIndex
  <2>2. data \in Seq(Byte \ {"f"})
    BY <1>2
  <2> QED BY <2>1, <2>2
<1> QED BY <1>1, <1>2

LEMMA InitTypes == Init => TypeInv
<1> SUFFICES ASSUME Init PROVE TypeInv
  OBVIOUS
<1>1. {attached, exceeded, closedHere} \subseteq BOOLEAN
  BY Zenon DEF Init
<1>2. data \in Seq(Byte) /\ buf \in Seq(Byte \ {"f"}) /\ delivered \in Seq(Seq(Byte)) /\ stream \in Seq(Byte)
  BY DEF Init
<1> QED BY <1>1, <1>2 DEF Init, TypeInv, TypeOK, CallsInv

\* What the turns of the decoder's loop leave well typed.
DecoderTypes ==
  /\ conn \in {"up", "closing", "down"}
  /\ attached \in BOOLEAN /\ exceeded \in BOOLEAN /\ closedHere \in BOOLEAN
  /\ data \in Seq(Byte) /\ buf \in Seq(Byte \ {"f"}) /\ frameLen \in Nat
  /\ delivered \in Seq(Seq(Byte))

LEMMA ExceededTypes ==
  ASSUME TypeOK, NEW len \in Nat, NEW reaction \in Reaction, LengthExceeded(len, reaction)
  PROVE  DecoderTypes' /\ (conn' = conn \/ conn' = "closing")
<1>1. React(reaction) /\ frameLen' = len /\ exceeded' = TRUE /\ data' = <<>>
      /\ UNCHANGED <<buf, delivered>>
  BY DEF LengthExceeded
<1>2. data' \in Seq(Byte)
  BY <1>1
<1> QED BY <1>1, <1>2, ReactTypes DEF DecoderTypes, TypeOK

LEMMA PartialTypes ==
  ASSUME TypeOK, NEW reaction \in Reaction, Partial(reaction)
  PROVE  DecoderTypes' /\ (conn' = conn \/ conn' = "closing")
<1> DEFINE len == frameLen + Len(data)
<1>0. data \in Seq(Byte) /\ len \in Nat /\ data # <<>> /\ EndIndex = 0
  BY DEF TypeOK, Partial
<1>1. CASE LengthExceeded(len, reaction)
  BY <1>0, <1>1, ExceededTypes
<1>2. CASE /\ frameLen' = len /\ buf' = buf \o data /\ data' = <<>>
           /\ Stay /\ UNCHANGED <<exceeded, delivered>>
  <2>1. data \in Seq(Byte \ {"f"})
    BY <1>0, EndIndexTypes
  <2>2. buf' \in Seq(Byte \ {"f"}) /\ data' \in Seq(Byte)
    BY <1>2, <2>1 DEF TypeOK
  <2>3. attached' \in BOOLEAN /\ exceeded' \in BOOLEAN /\ closedHere' \in BOOLEAN
    BY <1>2, Zenon DEF Stay, TypeOK
  <2> QED BY <1>0, <1>2, <2>2, <2>3 DEF DecoderTypes, TypeOK, Stay
<1> QED BY <1>1, <1>2 DEF Partial

LEMMA WholeTypes ==
  ASSUME TypeOK, NEW reaction \in Reaction, Whole(reaction)
  PROVE  DecoderTypes' /\ (conn' = conn \/ conn' = "closing")
<1> DEFINE len == frameLen + EndIndex - 1
           frame == buf \o SubSeq(data, 1, EndIndex - 1)
           rest == SubSeq(data, EndIndex + 1, Len(data))
<1>0. /\ data \in Seq(Byte) /\ EndIndex \in 1 .. Len(data) /\ frameLen \in Nat
      /\ len \in Nat
  BY EndIndexTypes DEF TypeOK, Whole
<1>1. rest \in Seq(Byte) /\ frame \in Seq(Byte)
  <2>1. SubSeq(data, 1, EndIndex - 1) \in Seq(Byte)
    BY <1>0
  <2>2. buf \in Seq(Byte)
    BY DEF TypeOK
  <2>3. rest \in Seq(Byte)
    BY <1>0
  <2> QED BY <2>1, <2>2, <2>3
<1>2. CASE LengthExceeded(len, reaction)
  BY <1>0, <1>2, ExceededTypes
<1>3. ASSUME frameLen' = 0, buf' = <<>>, UNCHANGED exceeded, NEW last \in Seq(Seq(Byte)),
             delivered' = last, data' \in Seq(Byte),
             attached' \in BOOLEAN, closedHere' \in BOOLEAN, conn' \in {"up", "closing", "down"},
             conn' = conn \/ conn' = "closing"
      PROVE  DecoderTypes' /\ (conn' = conn \/ conn' = "closing")
  <2>1. exceeded' \in BOOLEAN
    BY <1>3, Zenon DEF TypeOK
  <2>2. buf' \in Seq(Byte \ {"f"})
    BY <1>3
  <2> QED BY <1>3, <2>1, <2>2 DEF DecoderTypes
<1>4. attached \in BOOLEAN /\ closedHere \in BOOLEAN
  BY Zenon DEF TypeOK
<1>5. CASE frameLen' = 0 /\ buf' = <<>> /\ UNCHANGED exceeded /\ BadFrame
  <2>1. /\ data' = <<>> /\ conn' = "closing" /\ delivered' = delivered
        /\ attached' = attached /\ closedHere' = closedHere
    BY <1>5 DEF BadFrame, Drop
  <2>2. delivered \in Seq(Seq(Byte)) /\ data' \in Seq(Byte)
    BY <2>1 DEF TypeOK
  <2> QED BY <1>3, <1>4, <1>5, <2>1, <2>2
<1>6. CASE /\ frameLen' = 0 /\ buf' = <<>> /\ UNCHANGED exceeded
           /\ frame # <<>> /\ GoodFrame(frame, rest, reaction)
  <2>1. delivered' = Append(delivered, Tail(frame)) /\ Append(delivered, Tail(frame)) \in Seq(Seq(Byte))
    <3>1. Tail(frame) \in Seq(Byte) /\ delivered \in Seq(Seq(Byte))
      BY <1>1, <1>6 DEF TypeOK
    <3> QED BY <1>6, <3>1 DEF GoodFrame
  <2>2. data' \in Seq(Byte)
    <3> HIDE DEF rest, frame
    <3>1. data' = <<>> \/ data' = rest
      BY <1>6 DEF GoodFrame
    <3>2. <<>> \in Seq(Byte) /\ rest \in Seq(Byte)
      BY <1>1
    <3> QED BY <3>1, <3>2
  <2>3. CASE React(reaction)
    BY <1>3, <1>6, <2>1, <2>2, <2>3, ReactTypes
  <2>4. CASE /\ conn' = "closing"
             /\ attached' = (attached /\ reaction = "keep")
             /\ closedHere' = (closedHere \/ (attached /\ reaction = "close"))
    <3>1. attached' \in BOOLEAN /\ closedHere' \in BOOLEAN
      BY <2>4, Zenon
    <3> QED BY <1>3, <1>6, <2>1, <2>2, <2>4, <3>1
  <2> QED BY <1>6, <2>3, <2>4 DEF GoodFrame
<1> QED
  <2>1. CASE TooLongWhole(len)
    BY <1>2, <2>1 DEF Whole
  <2>2. CASE ~TooLongWhole(len)
    BY <1>5, <1>6, <2>2 DEF Whole
  <2> QED BY <2>1, <2>2

LEMMA TypeStep ==
  ASSUME TypeInv, [Next]_vars
  PROVE  TypeInv'
<1>0. TypeOK /\ CallsInv
  BY DEF TypeInv
<1>1. attached \in BOOLEAN /\ exceeded \in BOOLEAN /\ closedHere \in BOOLEAN
  BY <1>0, Zenon DEF TypeOK
<1>2. ASSUME DecoderTypes', stream' \in Seq(Byte), phase' \in {"request", "nonce", "open", "refused"},
             made' \in 0 .. 1, lost' \in 0 .. 1, CallsInv'
      PROVE  TypeInv'
  BY <1>2 DEF DecoderTypes, TypeInv, TypeOK
<1>3. DecoderTypes
  BY <1>0, <1>1 DEF DecoderTypes, TypeOK
<1>4. ASSUME UNCHANGED <<data, buf, frameLen, exceeded, delivered>>,
             conn' \in {"up", "closing", "down"}, attached' \in BOOLEAN, closedHere' \in BOOLEAN
      PROVE  DecoderTypes'
  BY <1>3, <1>4 DEF DecoderTypes
<1>5. CASE Refuse
  BY <1>0, <1>1, <1>2, <1>4, <1>5 DEF Refuse, Drop, TypeOK, CallsInv, decoder, calls
<1>6. CASE AwaitNonce \/ RejectProtocol
  BY <1>0, <1>1, <1>2, <1>4, <1>6 DEF AwaitNonce, RejectProtocol, TypeOK, CallsInv, decoder, calls
<1>7. ASSUME NEW r \in Reaction, Accept(r)
      PROVE  TypeInv'
  <2>1. conn' \in {"up", "closing"} /\ attached' \in BOOLEAN /\ closedHere' \in BOOLEAN
    BY <1>0, <1>1, <1>7 DEF Accept, LoseConnection, TypeOK
  <2>2. DecoderTypes' /\ stream' \in Seq(Byte)
    BY <1>0, <1>4, <1>7, <2>1 DEF Accept, TypeOK, decoder
  <2>3. made' = 1 /\ lost' = 0 /\ CallsInv' /\ phase' = "open"
    BY <1>0, <1>7, <2>1 DEF Accept, CallsInv
  <2> QED BY <1>2, <2>2, <2>3
<1>8. ASSUME NEW chunk \in Chunk, DataReceived(chunk)
      PROVE  TypeInv'
  <2>1. stream' \in Seq(Byte) /\ data' \in Seq(Byte)
    BY <1>0, <1>8, ChunkTypes DEF DataReceived, TypeOK
  <2>2. DecoderTypes'
    BY <1>3, <1>8, <2>1 DEF DataReceived, DecoderTypes, decoder, calls
  <2> QED BY <1>0, <1>2, <1>8, <2>1, <2>2 DEF DataReceived, TypeOK, CallsInv, calls
<1>9. ASSUME NEW r \in Reaction, Partial(r) \/ Whole(r)
      PROVE  TypeInv'
  <2>1. DecoderTypes' /\ (conn' = conn \/ conn' = "closing")
    BY <1>0, <1>9, PartialTypes, WholeTypes
  <2>2. UNCHANGED <<phase, made, lost, stream>> /\ conn # "down"
    BY <1>0, <1>9 DEF Partial, Whole, CallsInv
  <2>3. CallsInv' /\ stream' \in Seq(Byte) /\ phase' \in {"request", "nonce", "open", "refused"}
        /\ made' \in 0 .. 1 /\ lost' \in 0 .. 1
    BY <1>0, <2>1, <2>2 DEF TypeOK, CallsInv
  <2> QED BY <1>2, <2>1, <2>3
<1>10. CASE Close
  <2>1. /\ conn' = "closing" /\ attached' = FALSE /\ closedHere' = TRUE /\ data' = <<>>
        /\ UNCHANGED <<phase, data, decoder, calls, stream>>
    BY <1>10 DEF Close, LoseConnection
  <2>2. conn # "down" \/ lost = 0
    BY <1>0, <1>10 DEF Close, CallsInv
  <2>3. DecoderTypes' /\ CallsInv'
    BY <1>0, <1>4, <2>1, <2>2 DEF CallsInv, decoder, calls
  <2> QED BY <1>0, <1>2, <2>1, <2>3 DEF TypeOK, calls
<1>11. CASE ConnectionLost
  <2>1. /\ conn' = "down" /\ attached' = FALSE /\ closedHere' = closedHere /\ lost' \in 0 .. 1
        /\ data' = <<>> /\ UNCHANGED <<phase, data, decoder, made, exceeded, delivered, stream>>
    BY <1>0, <1>11 DEF ConnectionLost, CallsInv
  <2>2. DecoderTypes' /\ CallsInv'
    BY <1>0, <1>1, <1>4, <2>1 DEF CallsInv, decoder
  <2> QED BY <1>0, <1>2, <2>1, <2>2 DEF TypeOK
<1>12. CASE UNCHANGED vars
  BY <1>0, <1>1, <1>2, <1>4, <1>12 DEF vars, TypeOK, CallsInv, decoder, calls
<1> QED BY <1>5, <1>6, <1>7, <1>8, <1>9, <1>10, <1>11, <1>12 DEF Next

LEMMA Types == Spec => []TypeInv
<1> QED BY InitTypes, TypeStep, PTL DEF Spec

\* Every reachable state is well typed, and each of the handler's two callbacks
\* has been called at most once.
THEOREM TypeCorrect == Spec => []TypeOK
<1>1. TypeInv => TypeOK
  BY DEF TypeInv
<1> QED BY <1>1, Types, PTL

-----------------------------------------------------------------------------
(* The decoder's buffer. *)

\* The length counter stays above the limit once it was exceeded.
BufferInv == BufferBounded /\ (exceeded => frameLen > MAX_LENGTH)

LEMMA BufferStep ==
  ASSUME TypeInv, BufferInv, [Next]_vars
  PROVE  BufferInv' /\ (exceeded => delivered' = delivered)
<1>0. /\ data \in Seq(Byte) /\ buf \in Seq(Byte) /\ frameLen \in Nat /\ MAX_LENGTH \in Nat
      /\ EndIndex \in 0 .. Len(data) /\ (data # <<>> => Len(data) > 0)
  BY LengthAssumption, EndIndexTypes DEF TypeInv, TypeOK
<1>1. ASSUME UNCHANGED <<buf, frameLen, exceeded, delivered>>
      PROVE  BufferInv' /\ (exceeded => delivered' = delivered)
  BY <1>1 DEF BufferInv, BufferBounded
<1>2. ASSUME NEW len \in Nat, NEW r \in Reaction, LengthExceeded(len, r), len > MAX_LENGTH
      PROVE  BufferInv' /\ (exceeded => delivered' = delivered)
  BY <1>2 DEF LengthExceeded, BufferInv, BufferBounded
<1>3. ASSUME NEW r \in Reaction, Partial(r)
      PROVE  BufferInv' /\ (exceeded => delivered' = delivered)
  <2> DEFINE len == frameLen + Len(data)
  <2>0. len \in Nat /\ Len(data) > 0
    BY <1>0, <1>3 DEF Partial
  <2>1. CASE TooLongPartial(len)
    BY <1>0, <1>2, <1>3, <2>0, <2>1 DEF Partial, TooLongPartial
  <2>2. CASE ~TooLongPartial(len)
    <3>1. /\ frameLen' = len /\ buf' = buf \o data
          /\ UNCHANGED <<exceeded, delivered>> /\ len <= MAX_LENGTH + 1
      BY <1>0, <1>3, <2>0, <2>2 DEF Partial, TooLongPartial
    <3>2. ~exceeded
      BY <1>0, <2>0, <3>1 DEF BufferInv
    <3>3. Len(buf') = Len(buf) + Len(data)
      BY <1>0, <3>1
    <3> QED BY <1>0, <2>0, <3>1, <3>2, <3>3 DEF BufferInv, BufferBounded
  <2> QED BY <2>1, <2>2
<1>4. ASSUME NEW r \in Reaction, Whole(r)
      PROVE  BufferInv' /\ (exceeded => delivered' = delivered)
  <2> DEFINE len == frameLen + EndIndex - 1
  <2>0. len \in Nat /\ len >= frameLen
    BY <1>0, <1>4 DEF Whole
  <2>1. CASE TooLongWhole(len)
    BY <1>0, <1>2, <1>4, <2>0, <2>1 DEF Whole, TooLongWhole
  <2>2. CASE ~TooLongWhole(len)
    <3>1. frameLen' = 0 /\ buf' = <<>> /\ UNCHANGED exceeded /\ len <= MAX_LENGTH
      BY <1>0, <1>4, <2>0, <2>2 DEF Whole, TooLongWhole
    <3>2. ~exceeded
      BY <1>0, <2>0, <3>1 DEF BufferInv
    <3> QED BY <1>0, <3>1, <3>2 DEF BufferInv, BufferBounded
  <2> QED BY <2>1, <2>2
<1> QED
  BY <1>1, <1>3, <1>4
  DEF Next, Refuse, AwaitNonce, RejectProtocol, Accept, DataReceived, Close, ConnectionLost,
      vars, decoder, calls

LEMMA Buffers == Spec => []BufferInv
<1>1. Init => BufferInv
  <2> SUFFICES ASSUME Init PROVE BufferInv
    OBVIOUS
  <2>1. buf = <<>> /\ frameLen = 0 /\ ~exceeded
    BY Zenon DEF Init
  <2> QED BY <2>1, LengthAssumption DEF BufferInv, BufferBounded
<1> QED BY <1>1, Types, BufferStep, PTL DEF Spec

\* Whatever the peer sends and however it is cut, the decoder buffers at most
\* MAX_LENGTH + 1 bytes.
THEOREM BufferStaysBounded == Spec => []BufferBounded
<1>1. BufferInv => BufferBounded
  BY DEF BufferInv
<1> QED BY <1>1, Buffers, PTL

\* A connection on which a frame was too long delivers nothing any more.
THEOREM SilentAfterExceeded == Spec => NoFrameAfterExceeded
<1>1. TypeInv /\ BufferInv /\ [Next]_vars => [exceeded => delivered' = delivered]_delivered
  BY BufferStep
<1> QED BY <1>1, Types, Buffers, PTL DEF Spec, NoFrameAfterExceeded

-----------------------------------------------------------------------------
(* The report of a lost connection. *)

\* While the connection is there, a handler that has not closed it is attached.
LossInv ==
  phase \in {"nonce", "open"} /\ ~closedHere => IF conn = "down" THEN lost = 1 ELSE attached

LEMMA ReactCloses ==
  ASSUME NEW r \in Reaction, React(r)
  PROVE  ~closedHere' => ~closedHere /\ (attached => attached')
<1>1. CASE LoseConnection
  BY <1>1 DEF LoseConnection
<1>2. CASE Stay
  BY <1>2 DEF Stay
<1>3. CASE Drop
  BY <1>3 DEF Drop
<1> QED BY <1>1, <1>2, <1>3 DEF React

LEMMA LossStep ==
  ASSUME TypeInv, LossInv, [Next]_vars
  PROVE  LossInv'
<1>0. TypeOK /\ CallsInv
  BY DEF TypeInv
<1>1. CASE Refuse \/ RejectProtocol
  BY <1>1 DEF Refuse, RejectProtocol, LossInv
<1>2. CASE AwaitNonce
  BY <1>2 DEF AwaitNonce, LossInv
<1>3. ASSUME NEW r \in Reaction, Accept(r)
      PROVE  LossInv'
  BY <1>3 DEF Accept, LoseConnection, LossInv
<1>4. ASSUME UNCHANGED <<phase, conn, attached, lost, closedHere>>
      PROVE  LossInv'
  BY <1>4 DEF LossInv
<1>5. ASSUME NEW r \in Reaction, Partial(r) \/ Whole(r)
      PROVE  LossInv'
  <2>1. /\ UNCHANGED <<phase, lost>> /\ conn # "down"
        /\ conn' = conn \/ conn' = "closing"
    BY <1>0, <1>5, PartialTypes, WholeTypes DEF Partial, Whole, CallsInv
  <2>2. ~closedHere' => ~closedHere /\ (attached => attached')
    <3>1. CASE React(r) \/ Drop \/ Stay
      BY <3>1, ReactCloses DEF Drop, Stay
    <3>2. CASE ~Raises(r) /\ attached' = (attached /\ r = "keep")
                 /\ closedHere' = (closedHere \/ (attached /\ r = "close"))
      BY <3>2 DEF Raises, Reaction
    <3> QED BY <1>5, <3>1, <3>2 DEF Partial, Whole, LengthExceeded, BadFrame, GoodFrame
  <2> QED BY <2>1, <2>2 DEF LossInv
<1>6. CASE Close
  BY <1>6 DEF Close, LoseConnection, LossInv
<1>7. CASE ConnectionLost
  BY <1>0, <1>7 DEF ConnectionLost, LossInv, CallsInv
<1> QED
  BY <1>1, <1>2, <1>3, <1>4, <1>5, <1>6, <1>7 DEF Next, DataReceived, vars, calls

\* Through any handshake, closes from both sides and losses: the application learns of
\* every lost connection that it did not close itself.
THEOREM LossIsReported == Spec => []LossReported
<1>1. Init => LossInv
  BY DEF Init, LossInv
<1>2. TypeInv /\ LossInv /\ [Next]_vars => LossInv'
  BY LossStep
<1>3. LossInv => LossReported
  BY DEF LossInv, LossReported
<1> QED BY <1>1, <1>2, <1>3, Types, PTL DEF Spec

-----------------------------------------------------------------------------
(* The frames of a stream and where they end. *)

LEMMA EndsTypes ==
  ASSUME NEW s \in Seq(Byte)
  PROVE  /\ Len(s) \in Nat
         /\ Ends(s) \subseteq 1 .. Len(s) /\ GoodEnds(s) \subseteq Ends(s)
         /\ \A e \in 1 .. Len(s) : e \in Ends(s) <=> s[e] = "f"
  BY DEF Ends, GoodEnds

LEMMA RankTypes ==
  ASSUME NEW n \in Nat, NEW S \in SUBSET (1 .. n), NEW e \in Int
  PROVE  /\ IsFiniteSet(S) /\ Cardinality(S) \in Nat
         /\ IsFiniteSet({d \in S : d <= e})
         /\ Rank(S, e) \in Nat /\ Rank(S, e) <= Cardinality(S)
         /\ e >= n => Rank(S, e) = Cardinality(S)
<1>0. \A d \in S : d \in Nat /\ d <= n
  OBVIOUS
<1>1. IsFiniteSet(S) /\ {d \in S : d <= e} \in SUBSET S
  <2>1. IsFiniteSet(1 .. n)
    BY FS_Interval
  <2> QED BY <2>1, FS_Subset
<1>2. /\ IsFiniteSet({d \in S : d <= e})
      /\ Cardinality({d \in S : d <= e}) <= Cardinality(S)
  BY <1>1, FS_Subset
<1>3. e >= n => {d \in S : d <= e} = S
  <2>1. e >= n => \A d \in S : d <= e
    BY <1>0
  <2> QED BY <2>1
<1> QED BY <1>1, <1>2, <1>3, FS_CardinalityType DEF Rank

\* One element more has the next rank.
LEMMA RankNext ==
  ASSUME NEW n \in Nat, NEW S \in SUBSET (1 .. n), NEW d \in Int, NEW e \in S,
         d < e, \A x \in S : x <= d \/ e <= x
  PROVE  Rank(S, e) = Rank(S, d) + 1
<1> DEFINE T == {x \in S : x <= d}
<1>0. \A x \in S : x \in Nat
  OBVIOUS
<1>1. {x \in S : x <= e} = T \cup {e}
  <2>1. \A x \in S : x <= e <=> x <= d \/ x = e
    BY <1>0
  <2> QED BY <2>1
<1>2. e \notin T /\ IsFiniteSet(T)
  BY <1>0, RankTypes
<1>3. Cardinality(T \cup {e}) = Cardinality(T) + 1
  <2> HIDE DEF T
  <2> QED BY <1>2, FS_AddElement
<1> QED BY <1>1, <1>3 DEF Rank

\* Elements of one rank are equal.
LEMMA RankLess ==
  ASSUME NEW n \in Nat, NEW S \in SUBSET (1 .. n), NEW d \in S, NEW e \in S, d < e
  PROVE  Rank(S, d) < Rank(S, e)
<1> DEFINE T == {x \in S : x <= d}
           U == {x \in S : x <= e}
<1>0. \A x \in S : x \in Nat
  OBVIOUS
<1>1. e \notin T /\ IsFiniteSet(T) /\ IsFiniteSet(U) /\ T \cup {e} \in SUBSET U
  <2>1. d \in Int /\ e \in Int
    BY <1>0
  <2>2. IsFiniteSet(T) /\ IsFiniteSet(U)
    BY <2>1, RankTypes
  <2>3. e \notin T /\ \A x \in T \cup {e} : x \in U
    BY <1>0
  <2> QED BY <2>2, <2>3
<1>2. Cardinality(T) \in Nat /\ Cardinality(T \cup {e}) = Cardinality(T) + 1
      /\ Cardinality(T \cup {e}) <= Cardinality(U) /\ Cardinality(U) \in Nat
  <2> HIDE DEF T, U
  <2> QED BY <1>1, FS_AddElement, FS_CardinalityType, FS_Subset
<1> QED BY <1>2 DEF Rank

LEMMA RankUnique ==
  ASSUME NEW n \in Nat, NEW S \in SUBSET (1 .. n), NEW d \in S, NEW e \in S,
         Rank(S, d) = Rank(S, e)
  PROVE  d = e
<1>1. d \in Int /\ e \in Int
  OBVIOUS
<1>2. Rank(S, d) \in Nat /\ Rank(S, e) \in Nat
  BY <1>1, RankTypes
<1>3. ~(d < e) /\ ~(e < d)
  BY <1>2, RankLess
<1> QED BY <1>1, <1>3

\* A bounded set of natural numbers has a greatest element.
LEMMA GreatestOf ==
  ASSUME NEW n \in Nat, NEW S \in SUBSET (1 .. n), S # {}
  PROVE  \E x \in S : \A y \in S : y <= x
<1> DEFINE above == {u \in Nat : \A y \in S : y <= u}
<1>1. above \in SUBSET Nat /\ n \in above
  OBVIOUS
<1>2. PICK u \in above : \A v \in above : u <= v
  <2> HIDE DEF above
  <2> QED BY <1>1, LeastOf
<1>3. u \in Nat /\ \A y \in S : y <= u
  BY <1>2
<1>4. u > 0
  <2>1. PICK y \in S : y \in 1 .. n
    OBVIOUS
  <2> QED BY <1>3, <2>1
<1>5. u - 1 \in Nat /\ u - 1 \notin above
  BY <1>2, <1>3, <1>4
<1>6. u \in S
  BY <1>3, <1>5
<1> QED BY <1>3, <1>6

\* The frame that ends at e begins behind the end before it.
LEMMA FrameBetween ==
  ASSUME NEW s \in Seq(Byte), NEW e \in 1 .. Len(s), NEW d \in Ends(s) \cup {0},
         d < e, \A x \in Ends(s) : x < e => x <= d
  PROVE  FrameAt(s, e) = SubSeq(s, d + 1, e - 1)
<1> DEFINE before == {x \in Ends(s) : x < e}
           last == CHOOSE x \in before : \A y \in before : y <= x
<1>0. Ends(s) \subseteq 1 .. Len(s) /\ Len(s) \in Nat
  BY EndsTypes
<1>1. FrameAt(s, e) =
        SubSeq(s, IF before = {} THEN 1 ELSE 1 + last, e - 1)
  BY DEF FrameAt
<1>2. CASE d = 0
  <2>1. before = {}
    BY <1>0, <1>2
  <2> HIDE DEF before, last
  <2> QED BY <1>1, <1>2, <2>1
<1>3. CASE d # 0
  <2>1. d \in before /\ \A y \in before : y <= d
    BY <1>3
  <2>2. \A x \in before : (\A y \in before : y <= x) => x = d
    <3>1. \A x \in before : x \in Nat
      BY <1>0
    <3> QED BY <2>1, <3>1
  <2> HIDE DEF before
  <2>3. last = d
    BY <2>1, <2>2
  <2> HIDE DEF last
  <2>4. before # {} /\ d \in Nat
    BY <1>0, <2>1
  <2> QED BY <1>1, <2>3, <2>4
<1> QED BY <1>2, <1>3

\* What follows does not change the frames before it.
LEMMA FramesStay ==
  ASSUME NEW s \in Seq(Byte), NEW more \in Seq(Byte), NEW e \in 1 .. Len(s)
  PROVE  /\ e \in Ends(s \o more) <=> e \in Ends(s)
         /\ FrameAt(s \o more, e) = FrameAt(s, e)
         /\ e \in GoodEnds(s \o more) <=> e \in GoodEnds(s)
<1> DEFINE t == s \o more
<1>0. /\ t \in Seq(Byte) /\ Len(s) \in Nat /\ Len(more) \in Nat
      /\ Len(t) = Len(s) + Len(more)
      /\ \A x \in 1 .. Len(s) : t[x] = s[x]
  BY ConcatProperties
<1> HIDE DEF t
<1>1. \A x \in 1 .. Len(s) : x \in Ends(t) <=> x \in Ends(s)
  BY <1>0 DEF Ends
<1>2. Ends(s) \subseteq 1 .. Len(s) /\ Ends(t) \subseteq 1 .. Len(t)
  BY <1>0, EndsTypes
<1>3. ASSUME NEW x \in 1 .. Len(s)
      PROVE  FrameAt(t, x) = FrameAt(s, x)
  <2>1. PICK d \in Ends(s) \cup {0} : d < x /\ \A y \in Ends(s) : y < x => y <= d
    <3> DEFINE before == {y \in Ends(s) : y < x}
    <3>1. CASE before = {}
      <4>1. 0 < x /\ \A y \in Ends(s) : ~(y < x)
        BY <1>0, <3>1
      <4> QED BY <4>1
    <3>2. CASE before # {}
      <4>1. before \in SUBSET (1 .. Len(s))
        BY <1>2
      <4>2. PICK d \in before : \A y \in before : y <= d
        <5> HIDE DEF before
        <5> QED BY <1>0, <3>2, <4>1, GreatestOf
      <4> QED BY <4>2
    <3> QED BY <3>1, <3>2
  <2>2. FrameAt(s, x) = SubSeq(s, d + 1, x - 1)
    BY <2>1, FrameBetween
  <2>3. d \in Ends(t) \cup {0} /\ x \in 1 .. Len(t) /\ \A y \in Ends(t) : y < x => y <= d
    BY <1>0, <1>1, <1>2, <2>1
  <2>4. FrameAt(t, x) = SubSeq(t, d + 1, x - 1)
    BY <1>0, <2>1, <2>3, FrameBetween
  <2>5. SubSeq(t, d + 1, x - 1) = SubSeq(s, d + 1, x - 1)
    <3>1. d \in 0 .. Len(s)
      BY <1>0, <1>2
    <3>2. CASE d + 1 <= x - 1
      <4>1. d + 1 \in 1 .. Len(s) /\ x - 1 \in 1 .. Len(s)
        BY <1>0, <3>1, <3>2
      <4> QED BY <4>1, SubSeqOfConcat1 DEF t
    <3>3. CASE ~(d + 1 <= x - 1)
      <4>1. d + 1 \in Int /\ x - 1 \in Int /\ x - 1 < d + 1
        BY <1>0, <3>1, <3>3
      <4> QED BY <4>1, SubSeqEmpty
    <3> QED BY <3>2, <3>3
  <2> QED BY <2>2, <2>4, <2>5
<1>4. e \in GoodEnds(t) <=> e \in GoodEnds(s)
  <2>1. \A x \in Ends(s) : x <= e => x \in 1 .. Len(s)
    BY <1>2
  <2>2. \A x \in Ends(t) : x <= e => x \in 1 .. Len(s)
    BY <1>0, <1>2
  <2> QED BY <1>1, <1>3, <2>1, <2>2 DEF GoodEnds
<1> QED BY <1>1, <1>3, <1>4 DEF t

-----------------------------------------------------------------------------
(* The decoder delivers exactly the frames of the stream. *)

\* The bytes the decoder has looked at.
Seen == Len(stream) - Len(data)

\* The k-th payload delivered is that of the k-th good frame.
DeliveredAt(k) ==
  \E e \in GoodEnds(stream) :
    e <= Seen /\ Rank(GoodEnds(stream), e) = k /\ delivered[k] = Tail(FrameAt(stream, e))

\* The decoder can still deliver: it goes on with this chunk, or with the next.
Decoding == ~exceeded /\ (data # <<>> \/ conn = "up")

\* While it can, all frames that it has seen the end of were good and are delivered,
\* and its buffer holds the beginning of the next.
Synchronous ==
  /\ Len(delivered) = Rank(GoodEnds(stream), Seen)
  /\ \A e \in Ends(stream) : e <= Seen => e \in GoodEnds(stream)
  /\ Len(buf) <= Seen
  /\ \A i \in 1 .. Len(buf) : buf[i] = stream[Seen - Len(buf) + i]
  /\ Seen - Len(buf) \in Ends(stream) \cup {0}

DecodeInv ==
  /\ phase # "open" => data = <<>> /\ stream = <<>>
  /\ phase = "open" /\ conn = "up" => attached
  /\ Len(data) <= Len(stream)
  /\ \A i \in 1 .. Len(data) : data[i] = stream[Seen + i]
  /\ \A k \in 1 .. Len(delivered) : DeliveredAt(k)
  /\ Decoding => Synchronous

LEMMA SeenTypes ==
  ASSUME TypeInv, DecodeInv
  PROVE  /\ stream \in Seq(Byte) /\ data \in Seq(Byte) /\ buf \in Seq(Byte)
         /\ delivered \in Seq(Seq(Byte)) /\ exceeded \in BOOLEAN
         /\ Len(stream) \in Nat /\ Len(data) \in Nat /\ Len(buf) \in Nat /\ Len(delivered) \in Nat
         /\ Seen \in 0 .. Len(stream) /\ Len(stream) = Seen + Len(data)
         /\ \A i \in 1 .. Len(buf) : buf[i] # "f"
         /\ \A x \in Ends(stream) : x \in 1 .. Len(stream)
         /\ GoodEnds(stream) \in SUBSET (1 .. Len(stream))
<1>1. /\ stream \in Seq(Byte) /\ data \in Seq(Byte) /\ buf \in Seq(Byte)
      /\ delivered \in Seq(Seq(Byte)) /\ \A i \in 1 .. Len(buf) : buf[i] # "f"
  BY DEF TypeInv, TypeOK
<1>2. exceeded \in BOOLEAN
  BY Zenon DEF TypeInv, TypeOK
<1>3. Len(stream) \in Nat /\ Len(data) \in Nat /\ Len(buf) \in Nat /\ Len(delivered) \in Nat
  BY <1>1
<1>4. Seen \in 0 .. Len(stream) /\ Len(stream) = Seen + Len(data)
  BY <1>3 DEF DecodeInv, Seen
<1> QED BY <1>1, <1>2, <1>3, <1>4, EndsTypes

\* The stream s is looked at up to n, behind it lies c, and b is what has been
\* buffered before; c has its first end at k, and f is b and the front of c.
FrameParts(s, b, c, n, k, f) ==
  /\ s \in Seq(Byte) /\ b \in Seq(Byte) /\ c \in Seq(Byte) /\ n \in Nat /\ k \in 1 .. Len(c)
  /\ Len(b) <= n /\ Len(s) = n + Len(c) /\ n - Len(b) \in Ends(s) \cup {0}
  /\ \A i \in 1 .. Len(b) : b[i] # "f" /\ b[i] = s[n - Len(b) + i]
  /\ \A i \in 1 .. Len(c) : c[i] = s[n + i]
  /\ c[k] = "f" /\ \A i \in 1 .. k - 1 : c[i] # "f"
  /\ f = b \o SubSeq(c, 1, k - 1)

\* That is the frame that ends next.
LEMMA FrameOfParts ==
  ASSUME NEW s, NEW b, NEW c, NEW n, NEW k, NEW f, FrameParts(s, b, c, n, k, f)
  PROVE  /\ n + k \in 1 .. Len(s) /\ n + k \in Ends(s)
         /\ \A x \in Ends(s) : x <= n \/ n + k <= x
         /\ f = FrameAt(s, n + k) /\ Len(f) = Len(b) + k - 1
<1>a. /\ s \in Seq(Byte) /\ b \in Seq(Byte) /\ c \in Seq(Byte) /\ n \in Nat
      /\ k \in 1 .. Len(c) /\ Len(b) <= n /\ Len(s) = n + Len(c)
  BY DEF FrameParts
<1>b. n - Len(b) \in Ends(s) \cup {0}
  BY DEF FrameParts
<1>c. /\ \A i \in 1 .. Len(b) : b[i] # "f" /\ b[i] = s[n - Len(b) + i]
      /\ \A i \in 1 .. Len(c) : c[i] = s[n + i]
      /\ c[k] = "f" /\ \A i \in 1 .. k - 1 : c[i] # "f"
  BY DEF FrameParts
<1> DEFINE d == n - Len(b)
           e == n + k
           m == Len(b) + k - 1
           front == SubSeq(c, 1, k - 1)
           frame == b \o front
           frame2 == SubSeq(s, d + 1, e - 1)
<1>1. /\ Len(b) \in Nat /\ Len(c) \in Nat /\ Len(s) \in Nat
      /\ k \in Nat /\ k >= 1 /\ k <= Len(c)
  BY <1>a
<1>2. /\ d \in Nat /\ e \in 1 .. Len(s) /\ m \in Nat /\ d < e /\ n = d + Len(b) /\ e = d + m + 1
  BY <1>1, <1>a
<1>3. e \in Ends(s)
  <2>1. s[e] = "f"
    BY <1>a, <1>c
  <2> QED BY <1>a, <1>2, <2>1, EndsTypes
<1>4. ASSUME NEW x \in Ends(s), x < e
      PROVE  x <= d
  <2>1. x \in 1 .. Len(s) /\ s[x] = "f"
    BY <1>a, EndsTypes
  <2>2. ASSUME x > n PROVE FALSE
    <3>1. x - n \in 1 .. k - 1 /\ x - n \in 1 .. Len(c) /\ n + (x - n) = x
      BY <1>1, <1>4, <1>a, <2>1, <2>2
    <3> QED BY <1>c, <2>1, <3>1
  <2>3. ASSUME x > d, x <= n PROVE FALSE
    <3>1. x - d \in 1 .. Len(b) /\ d + (x - d) = x
      BY <1>1, <1>2, <1>a, <2>1, <2>3
    <3> QED BY <1>c, <2>1, <3>1
  <2> QED BY <1>2, <1>a, <2>1, <2>2, <2>3
<1>5. \A x \in Ends(s) : x <= n \/ e <= x
  <2> SUFFICES ASSUME NEW x \in Ends(s), ~(x <= n) PROVE e <= x
    OBVIOUS
  <2>1. x \in Nat
    BY <1>a, EndsTypes
  <2>2. d <= n /\ n \in Nat
    BY <1>1, <1>2, <1>a
  <2>3. ~(x <= d)
    BY <1>2, <2>1, <2>2
  <2> HIDE DEF d
  <2>4. ~(x < e)
    BY <1>4, <2>3
  <2> QED BY <1>2, <2>1, <2>4
<1>6. FrameAt(s, e) = frame2
  <2>1. d \in Ends(s) \cup {0} /\ s \in Seq(Byte)
    BY <1>a, <1>b
  <2> HIDE DEF d, e
  <2> QED BY <1>2, <1>4, <2>1, FrameBetween
<1>7. /\ front \in Seq(Byte) /\ Len(front) = k - 1
      /\ \A i \in 1 .. k - 1 : front[i] = c[i]
  <2>1. \A i \in 1 .. k - 1 : c[i] \in Byte
    BY <1>1, <1>a
  <2>2. /\ front \in Seq(Byte)
        /\ Len(front) = (IF 1 <= k - 1 THEN k - 1 - 1 + 1 ELSE 0)
        /\ \A i \in 1 .. k - 1 - 1 + 1 : front[i] = c[1 + i - 1]
    BY <1>1, <1>a, <2>1, SubSeqProperties
  <2> HIDE DEF front
  <2> QED BY <1>1, <2>2
<1> HIDE DEF front
<1>8. /\ frame \in Seq(Byte) /\ Len(frame) = m
      /\ \A i \in 1 .. Len(b) : frame[i] = b[i]
      /\ \A i \in Len(b) + 1 .. m : frame[i] = front[i - Len(b)]
  <2>1. /\ frame \in Seq(Byte) /\ Len(frame) = Len(b) + Len(front)
        /\ \A i \in 1 .. Len(b) + Len(front) :
             frame[i] = IF i <= Len(b) THEN b[i] ELSE front[i - Len(b)]
    BY <1>7, <1>a, ConcatProperties
  <2>2. Len(b) + Len(front) = m
    BY <1>1, <1>7
  <2>3. \A i \in 1 .. Len(b) : i \in 1 .. m /\ i <= Len(b)
    BY <1>1
  <2>4. \A i \in Len(b) + 1 .. m : i \in 1 .. m /\ ~(i <= Len(b))
    BY <1>1
  <2> HIDE DEF frame, m
  <2> QED BY <2>1, <2>2, <2>3, <2>4
<1>9. /\ frame2 \in Seq(Byte) /\ Len(frame2) = m
      /\ \A i \in 1 .. m : frame2[i] = s[d + i]
  <2>1. \A i \in d + 1 .. e - 1 : s[i] \in Byte
    <3>1. \A i \in d + 1 .. e - 1 : i \in 1 .. Len(s)
      BY <1>1, <1>2
    <3> QED BY <1>a, <3>1
  <2>2. d + 1 \in Int /\ e - 1 \in Int
    BY <1>2
  <2> HIDE DEF d, e
  <2>3. /\ frame2 \in Seq(Byte)
        /\ Len(frame2) = (IF d + 1 <= e - 1 THEN e - 1 - (d + 1) + 1 ELSE 0)
        /\ \A i \in 1 .. e - 1 - (d + 1) + 1 : frame2[i] = s[d + 1 + i - 1]
    BY <1>a, <2>1, <2>2, SubSeqProperties
  <2> HIDE DEF frame2, m
  <2> QED BY <1>2, <2>3
<1>10. ASSUME NEW i \in 1 .. m
       PROVE  frame[i] = frame2[i]
  <2>1. CASE i <= Len(b)
    <3>1. i \in 1 .. Len(b)
      BY <1>1, <1>2, <2>1
    <3>2. b[i] = s[d + i]
      BY <1>c, <3>1
    <3> HIDE DEF frame, frame2, d, m
    <3> QED BY <1>8, <1>9, <3>1, <3>2
  <2>2. CASE i > Len(b)
    <3>1. /\ i \in Len(b) + 1 .. m
          /\ i - Len(b) \in 1 .. k - 1 /\ i - Len(b) \in 1 .. Len(c)
          /\ n + (i - Len(b)) = d + i
      BY <1>1, <1>2, <1>a, <2>2
    <3>2. c[i - Len(b)] = s[d + i]
      BY <1>c, <3>1
    <3> HIDE DEF frame, frame2, d, m
    <3> QED BY <1>7, <1>8, <1>9, <3>1, <3>2
  <2>3. i <= Len(b) \/ i > Len(b)
    BY <1>1, <1>2
  <2> QED BY <2>1, <2>2, <2>3
<1>11. frame = frame2
  <2> HIDE DEF frame, frame2, m
  <2> QED BY <1>2, <1>8, <1>9, <1>10, SeqEqual
<1>12. f = frame
  BY DEF FrameParts, front
<1> HIDE DEF frame, frame2
<1> QED BY <1>1, <1>2, <1>3, <1>5, <1>6, <1>8, <1>11, <1>12

\* What does not touch the decoder keeps the invariant, unless it opens a session
\* without a transport.
LEMMA DecodeKept ==
  ASSUME DecodeInv, UNCHANGED <<data, buf, delivered, stream, exceeded>>,
         conn' = "up" => conn = "up",
         phase' # "open" => phase # "open",
         phase' = "open" /\ conn' = "up" => attached'
  PROVE  DecodeInv'
<1>1. Seen' = Seen
  BY DEF Seen
<1>2. \A k \in 1 .. Len(delivered) : DeliveredAt(k)'
  BY <1>1 DEF DecodeInv, DeliveredAt
<1>3. Decoding' => Synchronous'
  BY <1>1 DEF DecodeInv, Decoding, Synchronous
<1> QED BY <1>1, <1>2, <1>3 DEF DecodeInv

\* When the decoder stops, what it has delivered stays right.
LEMMA DecodeStopped ==
  ASSUME TypeInv, DecodeInv, data # <<>>,
         UNCHANGED <<phase, stream, delivered>>, data' = <<>>, ~Decoding',
         conn' = "up" => attached' 
  PROVE  DecodeInv'
<1>1. Seen \in 0 .. Len(stream) /\ Seen' = Len(stream) /\ Len(data') = 0 /\ Len(stream) \in Nat
  BY SeenTypes DEF Seen
<1>2. GoodEnds(stream) \in SUBSET (1 .. Len(stream))
  BY SeenTypes
<1>3. ASSUME NEW k \in 1 .. Len(delivered)
      PROVE  DeliveredAt(k)'
  <2>1. PICK e \in GoodEnds(stream) :
          e <= Seen /\ Rank(GoodEnds(stream), e) = k /\ delivered[k] = Tail(FrameAt(stream, e))
    BY <1>3 DEF DecodeInv, DeliveredAt
  <2>2. e <= Len(stream)
    BY <1>2
  <2> QED BY <1>1, <2>1, <2>2 DEF DeliveredAt
<1>4. phase = "open"
  BY DEF DecodeInv
<1> QED BY <1>1, <1>3, <1>4 DEF DecodeInv

\* A callback leaves a transport to a connection that is still up.
LEMMA ReactKeeps ==
  ASSUME NEW reaction \in Reaction, React(reaction), conn = "up" => attached
  PROVE  conn' = "up" => attached' /\ conn = "up"
  BY DEF React, LoseConnection, Stay, Drop

LEMMA DecodeReceived ==
  ASSUME TypeInv, DecodeInv, NEW chunk \in Chunk, DataReceived(chunk)
  PROVE  DecodeInv'
<1> DEFINE n == Len(stream)
<1>0. /\ stream \in Seq(Byte) /\ chunk \in Seq(Byte) /\ Len(chunk) \in Nat /\ n \in Nat
      /\ data = <<>> /\ data' = chunk /\ stream' = stream \o chunk
      /\ phase = "open" /\ conn = "up" /\ attached
      /\ UNCHANGED <<phase, conn, attached, buf, delivered, exceeded>>
      /\ Len(buf) \in Nat
  BY SeenTypes, ChunkTypes DEF DataReceived, DecodeInv, decoder, calls
<1>1. /\ Len(stream') = n + Len(chunk)
      /\ \A i \in 1 .. n : stream'[i] = stream[i]
      /\ \A i \in 1 .. Len(chunk) : chunk[i] = stream'[n + i]
      /\ Seen = n /\ Seen' = n
  <2>1. /\ Len(stream') = n + Len(chunk)
        /\ \A i \in 1 .. n + Len(chunk) : stream'[i] = IF i <= n THEN stream[i] ELSE chunk[i - n]
    BY <1>0, ConcatProperties
  <2>2. Seen = n /\ Seen' = n
    BY <1>0, <2>1 DEF Seen
  <2>3. \A i \in 1 .. n : i \in 1 .. n + Len(chunk) /\ i <= n
    BY <1>0
  <2>4. ASSUME NEW i \in 1 .. Len(chunk)
        PROVE  chunk[i] = stream'[n + i]
    <3> DEFINE j == n + i
    <3>1. j \in 1 .. n + Len(chunk) /\ ~(j <= n) /\ j - n = i
      BY <1>0
    <3> HIDE DEF j
    <3>2. stream'[j] = chunk[j - n]
      BY <2>1, <3>1
    <3> QED BY <3>1, <3>2 DEF j
  <2>5. ASSUME NEW i \in 1 .. n
        PROVE  stream'[i] = stream[i]
    BY <2>1, <2>3
  <2> QED BY <2>1, <2>2, <2>4, <2>5
<1>2. \A e \in 1 .. n : /\ e \in Ends(stream') <=> e \in Ends(stream)
                        /\ FrameAt(stream', e) = FrameAt(stream, e)
                        /\ e \in GoodEnds(stream') <=> e \in GoodEnds(stream)
  BY <1>0, FramesStay
<1>3. /\ \A x \in Ends(stream) : x \in 1 .. n /\ x \in Nat
      /\ \A x \in GoodEnds(stream) : x \in 1 .. n
      /\ \A x \in GoodEnds(stream') \cup Ends(stream') : x \in Nat /\ x >= 1
  <2>1. stream' \in Seq(Byte)
    BY <1>0, ConcatProperties
  <2>2. Ends(stream') \subseteq 1 .. Len(stream') /\ GoodEnds(stream') \subseteq Ends(stream')
        /\ Ends(stream) \subseteq 1 .. n /\ GoodEnds(stream) \subseteq Ends(stream)
    BY <1>0, <2>1, EndsTypes
  <2> QED BY <1>0, <2>2
<1>4. ASSUME NEW e \in 0 .. n
      PROVE  Rank(GoodEnds(stream'), e) = Rank(GoodEnds(stream), e)
  <2>1. \A x \in GoodEnds(stream') : x <= e => x \in 1 .. n
    BY <1>0, <1>3
  <2>2. {x \in GoodEnds(stream') : x <= e} = {x \in GoodEnds(stream) : x <= e}
    BY <1>2, <1>3, <2>1
  <2> QED BY <2>2 DEF Rank
<1>5. ASSUME NEW k \in 1 .. Len(delivered)
      PROVE  DeliveredAt(k)'
  <2>1. PICK e \in GoodEnds(stream) :
          e <= Seen /\ Rank(GoodEnds(stream), e) = k /\ delivered[k] = Tail(FrameAt(stream, e))
    BY <1>5 DEF DecodeInv, DeliveredAt
  <2>2. e \in 1 .. n /\ e \in 0 .. n
    BY <1>0, <1>3
  <2>3. /\ e \in GoodEnds(stream') /\ FrameAt(stream', e) = FrameAt(stream, e)
        /\ Rank(GoodEnds(stream'), e) = k
    BY <1>2, <1>4, <2>1, <2>2
  <2> QED BY <1>0, <1>1, <2>1, <2>3 DEF DeliveredAt
<1>6. ASSUME Decoding' PROVE Synchronous'
  <2>1. Synchronous
    BY <1>0, <1>6 DEF DecodeInv, Decoding
  <2>2. n \in 0 .. n
    BY <1>0
  <2>3. Len(delivered) = Rank(GoodEnds(stream'), n)
    BY <1>1, <1>4, <2>1, <2>2 DEF Synchronous
  <2>4. \A e \in Ends(stream') : e <= n => e \in GoodEnds(stream')
    <3>1. \A e \in Ends(stream') : e <= n => e \in 1 .. n
      BY <1>0, <1>3
    <3>2. \A e \in Ends(stream) : e \in GoodEnds(stream)
      BY <1>0, <1>1, <1>3, <2>1 DEF Synchronous
    <3> QED BY <1>2, <3>1, <3>2
  <2>5. /\ Len(buf) <= n /\ n - Len(buf) \in Ends(stream) \cup {0}
        /\ \A i \in 1 .. Len(buf) : buf[i] = stream[n - Len(buf) + i]
    BY <1>1, <2>1 DEF Synchronous
  <2>6. \A i \in 1 .. Len(buf) : n - Len(buf) + i \in 1 .. n
    BY <1>0, <2>5
  <2>7. \A i \in 1 .. Len(buf) : buf[i] = stream'[n - Len(buf) + i]
    BY <1>1, <2>5, <2>6
  <2>8. n - Len(buf) \in Ends(stream') \cup {0}
    BY <1>2, <1>3, <2>5
  <2> HIDE DEF n
  <2> QED BY <1>0, <1>1, <2>3, <2>4, <2>5, <2>7, <2>8 DEF Synchronous
<1> QED BY <1>0, <1>1, <1>5, <1>6 DEF DecodeInv

\* No end lies in a chunk without \xff: the buffer takes all of it.
LEMMA DecodePartial ==
  ASSUME TypeInv, BufferInv, DecodeInv, NEW reaction \in Reaction, Partial(reaction)
  PROVE  DecodeInv'
<1> DEFINE n == Seen
           len == frameLen + Len(data)
<1>0. /\ stream \in Seq(Byte) /\ data \in Seq(Byte) /\ buf \in Seq(Byte)
      /\ Len(stream) \in Nat /\ Len(data) \in Nat /\ Len(buf) \in Nat
      /\ n \in 0 .. Len(stream) /\ Len(stream) = n + Len(data)
      /\ \A x \in Ends(stream) : x \in 1 .. Len(stream)
      /\ GoodEnds(stream) \subseteq Ends(stream)
      /\ \A x \in Ends(stream) : stream[x] = "f"
  BY SeenTypes, EndsTypes
<1>1. /\ data # <<>> /\ EndIndex = 0 /\ phase = "open"
      /\ UNCHANGED <<phase, stream>>
      /\ conn = "up" => attached
  BY DEF Partial, DecodeInv
<1>2. CASE LengthExceeded(len, reaction)
  <2>1. exceeded' /\ data' = <<>> /\ delivered' = delivered /\ React(reaction)
    BY <1>2 DEF LengthExceeded
  <2>2. ~Decoding' /\ (conn' = "up" => attached')
    BY <1>1, <2>1, ReactKeeps DEF Decoding
  <2> QED BY <1>1, <2>1, <2>2, DecodeStopped
<1>3. CASE /\ frameLen' = len /\ buf' = buf \o data /\ data' = <<>>
           /\ Stay /\ UNCHANGED <<exceeded, delivered>>
  <2>1. CASE ~Decoding'
    BY <1>1, <1>3, <2>1, DecodeStopped DEF Stay
  <2>2. CASE Decoding'
    <3>1. Synchronous
      BY <1>1, <1>3, <2>2 DEF DecodeInv, Decoding
    <3>2. Seen' = Len(stream) /\ Len(data') = 0
      BY <1>0, <1>1, <1>3 DEF Seen
    <3>3. \A i \in 1 .. Len(data) : data[i] # "f" /\ data[i] = stream[n + i]
      BY <1>0, <1>1, EndIndexTypes DEF DecodeInv
    <3>4. \A x \in Ends(stream) : x <= n
      <4> SUFFICES ASSUME NEW x \in Ends(stream), x > n PROVE FALSE
        BY <1>0
      <4>1. x - n \in 1 .. Len(data) /\ n + (x - n) = x
        BY <1>0
      <4>2. stream[n + (x - n)] # "f"
        BY <3>3, <4>1
      <4> QED BY <1>0, <4>1, <4>2
    <3>5. Rank(GoodEnds(stream), Len(stream)) = Rank(GoodEnds(stream), n)
      <4>1. \A x \in GoodEnds(stream) : x <= n /\ x <= Len(stream)
        BY <1>0, <3>4
      <4>2. {x \in GoodEnds(stream) : x <= n} = {x \in GoodEnds(stream) : x <= Len(stream)}
        BY <4>1
      <4> QED BY <4>2 DEF Rank
    <3>6. /\ Len(buf') = Len(buf) + Len(data)
          /\ \A i \in 1 .. Len(buf) + Len(data) :
               buf'[i] = IF i <= Len(buf) THEN buf[i] ELSE data[i - Len(buf)]
      BY <1>0, <1>3, ConcatProperties
    <3>7. /\ Len(buf) <= n /\ n - Len(buf) \in Ends(stream) \cup {0}
          /\ \A i \in 1 .. Len(buf) : buf[i] = stream[n - Len(buf) + i]
      BY <3>1 DEF Synchronous
    <3>8. Len(stream) - Len(buf') = n - Len(buf)
      BY <1>0, <3>6
    <3>9. ASSUME NEW i \in 1 .. Len(buf')
          PROVE  buf'[i] = stream[n - Len(buf) + i]
      <4>1. CASE i <= Len(buf)
        <5>1. i \in 1 .. Len(buf)
          BY <1>0, <3>6, <4>1
        <5> QED BY <3>6, <3>7, <4>1, <5>1
      <4>2. CASE ~(i <= Len(buf))
        <5> DEFINE j == i - Len(buf)
        <5>1. j \in 1 .. Len(data) /\ n + j = n - Len(buf) + i
          BY <1>0, <3>6, <4>2
        <5>2. buf'[i] = data[j]
          BY <3>6, <4>2
        <5> HIDE DEF j
        <5> QED BY <3>3, <5>1, <5>2
      <4> QED BY <4>1, <4>2
    <3>10. Len(delivered) = Rank(GoodEnds(stream), n) /\ \A x \in Ends(stream) : x \in GoodEnds(stream)
      BY <3>1, <3>4 DEF Synchronous
    <3>11. Len(buf') <= Len(stream)
      BY <1>0, <3>6, <3>7
    <3>12. Synchronous'
      <4> HIDE DEF n
      <4> QED BY <1>1, <1>3, <3>2, <3>5, <3>7, <3>8, <3>9, <3>10, <3>11 DEF Synchronous
    <3>13. ASSUME NEW k \in 1 .. Len(delivered)
           PROVE  DeliveredAt(k)'
      <4>1. PICK e \in GoodEnds(stream) :
              e <= Seen /\ Rank(GoodEnds(stream), e) = k /\ delivered[k] = Tail(FrameAt(stream, e))
        BY <3>13 DEF DecodeInv, DeliveredAt
      <4>2. e <= Len(stream)
        BY <1>0
      <4> QED BY <1>1, <1>3, <3>2, <4>1, <4>2 DEF DeliveredAt
    <3> QED BY <1>0, <1>1, <1>3, <3>2, <3>12, <3>13 DEF DecodeInv, Stay
  <2> QED BY <2>1, <2>2
<1> QED BY <1>2, <1>3 DEF Partial

\* A good frame ends in this chunk, and rest is what follows it: it is delivered,
\* and the loop goes on with the rest or drops it.
FrameDelivered(frame, rest) ==
  /\ data # <<>> /\ EndIndex > 0 /\ ~exceeded
  /\ Len(buf) + EndIndex - 1 <= MAX_LENGTH
  /\ frame = buf \o SubSeq(data, 1, EndIndex - 1)
  /\ rest = SubSeq(data, EndIndex + 1, Len(data))
  /\ frame # <<>> /\ frame[1] = "z"
  /\ delivered' = Append(delivered, Tail(frame))
  /\ buf' = <<>> /\ UNCHANGED <<phase, stream, exceeded>>
  /\ data' \in {<<>>, rest}
  /\ conn' = "up" => attached' /\ data' = rest

\* It is the next in rank.
LEMMA DecodeGood ==
  ASSUME TypeInv, DecodeInv, NEW frame, NEW rest, FrameDelivered(frame, rest)
  PROVE  DecodeInv'
<1> DEFINE n == Seen
           e == Seen + EndIndex
           good == GoodEnds(stream)
<1>a. /\ data # <<>> /\ EndIndex > 0 /\ ~exceeded
      /\ Len(buf) + EndIndex - 1 <= MAX_LENGTH
  BY DEF FrameDelivered
<1>b. frame = buf \o SubSeq(data, 1, EndIndex - 1) /\ rest = SubSeq(data, EndIndex + 1, Len(data))
  BY DEF FrameDelivered
<1>c. /\ frame # <<>> /\ frame[1] = "z" /\ delivered' = Append(delivered, Tail(frame))
      /\ buf' = <<>>
  BY DEF FrameDelivered
<1>d. /\ UNCHANGED <<phase, stream, exceeded>> /\ data' \in {<<>>, rest}
      /\ conn' = "up" => attached' /\ data' = rest
  BY DEF FrameDelivered
<1>0. /\ stream \in Seq(Byte) /\ data \in Seq(Byte) /\ buf \in Seq(Byte)
      /\ delivered \in Seq(Seq(Byte))
      /\ Len(stream) \in Nat /\ Len(data) \in Nat /\ Len(buf) \in Nat /\ Len(delivered) \in Nat
      /\ n \in 0 .. Len(stream) /\ Len(stream) = n + Len(data)
      /\ \A x \in Ends(stream) : x \in 1 .. Len(stream)
      /\ good \in SUBSET (1 .. Len(stream))
      /\ EndIndex \in 1 .. Len(data)
  <2>1. EndIndex \in 1 .. Len(data)
    BY <1>a, SeenTypes, EndIndexTypes
  <2> QED BY <2>1, SeenTypes
<1>1. Synchronous /\ phase = "open"
  BY <1>a DEF DecodeInv, Decoding
<1>2. /\ e \in 1 .. Len(stream) /\ e \in Ends(stream)
      /\ \A x \in Ends(stream) : x <= n \/ e <= x
      /\ frame = FrameAt(stream, e) /\ Len(frame) = Len(buf) + EndIndex - 1
  <2>1. /\ Len(buf) <= n /\ n - Len(buf) \in Ends(stream) \cup {0}
        /\ \A i \in 1 .. Len(buf) : buf[i] # "f" /\ buf[i] = stream[n - Len(buf) + i]
    BY <1>1, SeenTypes DEF Synchronous
  <2>2. /\ \A i \in 1 .. Len(data) : data[i] = stream[n + i]
        /\ data[EndIndex] = "f" /\ \A i \in 1 .. EndIndex - 1 : data[i] # "f"
    BY <1>0, EndIndexTypes DEF DecodeInv
  <2>3. n \in Nat
    BY <1>0
  <2>4. Len(buf) <= n /\ Len(stream) = n + Len(data) /\ n - Len(buf) \in Ends(stream) \cup {0}
    BY <1>0, <2>1
  <2>5. PICK k \in 1 .. Len(data) : k = EndIndex
    BY <1>0
  <2>6. data[k] = "f" /\ \A i \in 1 .. k - 1 : data[i] # "f"
    BY <2>2, <2>5
  <2>7. stream \in Seq(Byte) /\ buf \in Seq(Byte) /\ data \in Seq(Byte)
    BY <1>0
  <2>8. \A i \in 1 .. Len(data) : data[i] = stream[n + i]
    BY <2>2
  <2> HIDE DEF n
  <2>9. FrameParts(stream, buf, data, n, k, frame)
    BY <1>b, <2>5, <2>1, <2>3, <2>4, <2>6, <2>7, <2>8 DEF FrameParts
  <2>10. /\ n + k \in 1 .. Len(stream) /\ n + k \in Ends(stream)
         /\ \A x \in Ends(stream) : x <= n \/ n + k <= x
         /\ frame = FrameAt(stream, n + k) /\ Len(frame) = Len(buf) + k - 1
    BY <2>9, FrameOfParts
  <2> QED BY <1>b, <2>5, <2>10 DEF n
<1>3. Acceptable(FrameAt(stream, e))
  BY <1>a, <1>c, <1>2 DEF Acceptable
<1>4. \A x \in Ends(stream) : x <= n => x \in good
  BY <1>1 DEF Synchronous
<1>5. \A x \in Ends(stream) : x <= e => x <= n \/ x = e
  BY <1>0, <1>2
<1>6. e \in good
  <2>1. \A x \in Ends(stream) : x <= n => Acceptable(FrameAt(stream, x))
    <3> SUFFICES ASSUME NEW x \in Ends(stream), x <= n PROVE Acceptable(FrameAt(stream, x))
      OBVIOUS
    <3>1. x \in good /\ x <= x
      BY <1>0, <1>4
    <3> QED BY <3>1 DEF GoodEnds
  <2> HIDE DEF e, n
  <2> QED BY <1>2, <1>3, <1>5, <2>1 DEF GoodEnds
<1>7. Rank(good, e) = Rank(good, n) + 1
  <2>1. \A x \in good : x \in Ends(stream)
    BY DEF GoodEnds
  <2>2. n < e /\ n \in Int
    BY <1>0
  <2> HIDE DEF e, n, good
  <2> QED BY <1>0, <1>2, <1>6, <2>1, <2>2, RankNext
<1>8. Len(delivered) = Rank(good, n)
  BY <1>1 DEF Synchronous
<1>9. /\ Len(delivered') = Len(delivered) + 1
      /\ \A k \in 1 .. Len(delivered) : delivered'[k] = delivered[k]
      /\ delivered'[Len(delivered) + 1] = Tail(frame)
  <2>1. frame \in Seq(Byte)
    <3>1. SubSeq(data, 1, EndIndex - 1) \in Seq(Byte)
      BY <1>0
    <3> QED BY <1>0, <1>b, <3>1
  <2>2. Tail(frame) \in Seq(Byte)
    BY <1>c, <2>1
  <2> DEFINE payload == Tail(frame)
  <2>3. delivered' = Append(delivered, payload) /\ payload \in Seq(Byte)
    BY <1>c, <2>2
  <2> HIDE DEF payload
  <2>4. delivered \in Seq(Seq(Byte))
    BY <1>0
  <2>5. /\ Len(Append(delivered, payload)) = Len(delivered) + 1
        /\ \A k \in 1 .. Len(delivered) : Append(delivered, payload)[k] = delivered[k]
        /\ Append(delivered, payload)[Len(delivered) + 1] = payload
    BY <2>3, <2>4, AppendProperties
  <2> QED BY <2>3, <2>5 DEF payload
<1>10. /\ rest \in Seq(Byte) /\ Len(rest) = Len(data) - EndIndex
       /\ \A i \in 1 .. Len(rest) : rest[i] = data[EndIndex + i]
  <2>1. \A i \in EndIndex + 1 .. Len(data) : data[i] \in Byte
    BY <1>0
  <2>2. /\ rest \in Seq(Byte)
        /\ Len(rest) = (IF EndIndex + 1 <= Len(data) THEN Len(data) - (EndIndex + 1) + 1 ELSE 0)
        /\ \A i \in 1 .. Len(data) - (EndIndex + 1) + 1 : rest[i] = data[EndIndex + 1 + i - 1]
    BY <1>0, <1>b, <2>1, SubSeqProperties
  <2>3. Len(rest) = Len(data) - EndIndex
    BY <1>0, <2>2
  <2>4. \A i \in 1 .. Len(rest) :
          /\ i \in 1 .. Len(data) - (EndIndex + 1) + 1
          /\ EndIndex + 1 + i - 1 = EndIndex + i
    BY <1>0, <2>3
  <2> QED BY <2>2, <2>3, <2>4
<1>11. /\ Len(data') \in Nat /\ Len(data') <= Len(stream)
       /\ Seen' \in Nat /\ e <= Seen' /\ (data' = rest => Seen' = e)
  <2>1. Len(<<>>) = 0
    OBVIOUS
  <2>2. Seen' = Len(stream) - Len(data')
    BY <1>d DEF Seen
  <2>3. Len(data') \in 0 .. Len(data) - EndIndex
    <3>1. CASE data' = <<>>
      BY <1>0, <2>1, <3>1
    <3>2. CASE data' = rest
      BY <1>0, <1>10, <3>2
    <3> QED BY <1>d, <3>1, <3>2
  <2>4. data' = rest => Len(data') = Len(data) - EndIndex
    BY <1>10
  <2>5. PICK k \in 1 .. Len(data) : k = EndIndex
    BY <1>0
  <2>6. /\ Len(stream) \in Nat /\ Len(data) \in Nat /\ n \in Nat
        /\ Len(stream) = n + Len(data)
    BY <1>0
  <2>7. e = n + k /\ Len(data') \in 0 .. Len(data) - k
        /\ (data' = rest => Len(data') = Len(data) - k)
    BY <2>3, <2>4, <2>5
  <2> HIDE DEF n, e
  <2> QED BY <2>2, <2>6, <2>7
<1>12. ASSUME NEW i \in 1 .. Len(data')
       PROVE  data'[i] = stream'[Seen' + i]
  <2>1. data' = rest
    BY <1>d, <1>12
  <2>2. EndIndex + i \in 1 .. Len(data) /\ i \in 1 .. Len(rest) /\ n + (EndIndex + i) = e + i
    BY <1>0, <1>10, <1>12, <2>1
  <2>3. data[EndIndex + i] = stream[n + (EndIndex + i)]
    BY <2>2 DEF DecodeInv
  <2> QED BY <1>d, <1>10, <1>11, <2>1, <2>2, <2>3
<1>13. ASSUME NEW k \in 1 .. Len(delivered')
       PROVE  DeliveredAt(k)'
  <2>1. CASE k = Len(delivered) + 1
    BY <1>d, <1>2, <1>6, <1>7, <1>8, <1>9, <1>11, <2>1 DEF DeliveredAt
  <2>2. CASE k # Len(delivered) + 1
    <3>1. k \in 1 .. Len(delivered)
      <4>1. k \in 1 .. Len(delivered) + 1
        BY <1>9, <1>13
      <4>2. Len(delivered) \in Nat /\ k # Len(delivered) + 1
        BY <1>0, <2>2
      <4> QED BY <4>1, <4>2
    <3>2. PICK x \in good :
            x <= n /\ Rank(good, x) = k /\ delivered[k] = Tail(FrameAt(stream, x))
      BY <3>1 DEF DecodeInv, DeliveredAt
    <3>3. x <= Seen'
      <4>1. x \in Nat /\ x <= n /\ n <= e /\ n \in Nat /\ e \in Nat
        BY <1>0, <3>2
      <4> QED BY <1>11, <4>1
    <3> QED BY <1>d, <1>9, <3>1, <3>2, <3>3 DEF DeliveredAt
  <2> QED BY <2>1, <2>2
<1>14. ASSUME Decoding' PROVE Synchronous'
  <2>1. data' = rest /\ Seen' = e
    BY <1>d, <1>11, <1>14 DEF Decoding
  <2>2. Len(delivered') = Rank(good, e)
    BY <1>7, <1>8, <1>9
  <2>3. \A x \in Ends(stream) : x <= e => x \in good
    BY <1>4, <1>5, <1>6
  <2>4. Len(buf') = 0 /\ e - 0 = e /\ 0 <= e
    BY <1>c, <1>2
  <2> HIDE DEF e
  <2> QED BY <1>c, <1>d, <1>2, <2>1, <2>2, <2>3, <2>4 DEF Synchronous
<1>15. phase' = "open" /\ (conn' = "up" => attached')
  BY <1>1, <1>d
<1> QED BY <1>d, <1>11, <1>12, <1>13, <1>14, <1>15 DEF DecodeInv

LEMMA DecodeWhole ==
  ASSUME TypeInv, BufferInv, DecodeInv, NEW reaction \in Reaction, Whole(reaction)
  PROVE  DecodeInv'
<1> DEFINE len == frameLen + EndIndex - 1
           frame == buf \o SubSeq(data, 1, EndIndex - 1)
           rest == SubSeq(data, EndIndex + 1, Len(data))
<1>0. /\ EndIndex \in Nat /\ frameLen \in Nat /\ MAX_LENGTH \in Nat /\ exceeded \in BOOLEAN
  <2>1. exceeded \in BOOLEAN
    BY SeenTypes
  <2> QED BY <2>1, SeenTypes, EndIndexTypes, LengthAssumption DEF TypeInv, TypeOK
<1>1. /\ data # <<>> /\ EndIndex > 0 /\ phase = "open"
      /\ UNCHANGED <<phase, stream>>
      /\ conn = "up" => attached
  BY DEF Whole, DecodeInv
<1>2. CASE TooLongWhole(len)
  <2>1. LengthExceeded(len, reaction)
    BY <1>2 DEF Whole
  <2>2. exceeded' /\ data' = <<>> /\ delivered' = delivered /\ React(reaction)
    BY <2>1 DEF LengthExceeded
  <2>3. ~Decoding' /\ (conn' = "up" => attached')
    BY <1>1, <2>2, ReactKeeps DEF Decoding
  <2> QED BY <1>1, <2>2, <2>3, DecodeStopped
<1>3. CASE ~TooLongWhole(len)
  <2>1. /\ buf' = <<>> /\ UNCHANGED exceeded
        /\ IF frame = <<>> \/ (frame # <<>> /\ frame[1] # "z") THEN BadFrame
           ELSE GoodFrame(frame, rest, reaction)
    BY <1>3 DEF Whole
  <2>2. ~exceeded /\ Len(buf) + EndIndex - 1 <= MAX_LENGTH
    <3>1. len <= MAX_LENGTH
      BY <1>0, <1>3 DEF TooLongWhole
    <3>2. ~exceeded
      BY <1>0, <1>1, <3>1 DEF BufferInv
    <3> QED BY <3>1, <3>2 DEF BufferInv, BufferBounded
  <2>3. CASE BadFrame
    <3>1. data' = <<>> /\ delivered' = delivered /\ conn' = "closing"
      BY <2>3 DEF BadFrame, Drop
    <3>2. ~Decoding'
      BY <3>1 DEF Decoding
    <3> QED BY <1>1, <3>1, <3>2, DecodeStopped
  <2>4. CASE frame # <<>> /\ frame[1] = "z" /\ GoodFrame(frame, rest, reaction)
    <3>1. delivered' = Append(delivered, Tail(frame)) /\ data' \in {<<>>, rest}
      BY <2>4 DEF GoodFrame
    <3>2. ASSUME conn' = "up" PROVE attached' /\ data' = rest
      <4>1. CASE (Raises(reaction) \/ rest = <<>>) /\ data' = <<>> /\ React(reaction)
        <5>1. attached' /\ conn = "up"
          BY <1>1, <3>2, <4>1, ReactKeeps
        <5>2. ~Raises(reaction)
          BY <3>2, <4>1 DEF React, Raises, Drop
        <5> QED BY <4>1, <5>1, <5>2
      <4>2. CASE data' = rest /\ React(reaction)
        BY <1>1, <3>2, <4>2, ReactKeeps
      <4>3. CASE conn' = "closing"
        BY <3>2, <4>3
      <4> HIDE DEF frame, rest
      <4> QED BY <2>4, <4>1, <4>2, <4>3 DEF GoodFrame
    <3>3. FrameDelivered(frame, rest)
      BY <1>1, <2>1, <2>2, <2>4, <3>1, <3>2 DEF FrameDelivered
    <3> HIDE DEF frame, rest
    <3> QED BY <3>3, DecodeGood
  <2> HIDE DEF frame, rest
  <2> QED BY <2>1, <2>3, <2>4
<1> QED BY <1>2, <1>3

\* The invariant holds before a byte is read and is kept by every step.
LEMMA DecodeInit ==
  ASSUME Init
  PROVE  DecodeInv
<1>1. /\ phase = "request" /\ data = <<>> /\ stream = <<>> /\ buf = <<>> /\ delivered = <<>>
      /\ Len(stream) = 0 /\ Len(data) = 0 /\ Len(buf) = 0 /\ Len(delivered) = 0 /\ Seen = 0
  BY DEF Init, Seen
<1>2. Ends(stream) = {} /\ GoodEnds(stream) = {}
  BY <1>1 DEF Ends, GoodEnds
<1>3. Rank(GoodEnds(stream), Seen) = 0
  <2>1. {d \in GoodEnds(stream) : d <= Seen} = {}
    BY <1>2
  <2> QED BY <2>1, FS_EmptySet DEF Rank
<1>4. Synchronous
  <2>1. Len(buf) <= Seen /\ Seen - Len(buf) = 0 /\ \A i \in 1 .. Len(buf) : FALSE
    <3>1. Seen = 0 /\ Len(buf) = 0
      BY <1>1
    <3> QED BY <3>1
  <2>2. Len(delivered) = Rank(GoodEnds(stream), Seen)
    BY Zenon, <1>1, <1>3
  <2> QED BY <1>2, <2>1, <2>2 DEF Synchronous
<1> QED BY <1>1, <1>4 DEF DecodeInv

LEMMA DecodeStep ==
  ASSUME TypeInv, BufferInv, DecodeInv, [Next]_vars
  PROVE  DecodeInv'
<1>1. CASE Refuse
  BY <1>1, DecodeKept DEF Refuse, Drop, decoder, calls
<1>2. CASE AwaitNonce
  BY <1>2, DecodeKept DEF AwaitNonce, decoder, calls
<1>3. CASE RejectProtocol
  BY <1>3, DecodeKept DEF RejectProtocol, decoder, calls
<1>4. ASSUME NEW r \in Reaction, Accept(r) PROVE DecodeInv'
  <2>1. /\ phase # "open" /\ UNCHANGED <<data, buf, delivered, stream, exceeded>>
        /\ conn = "up" /\ phase' = "open" /\ (conn' = "up" => attached')
    BY <1>4 DEF Accept, LoseConnection, decoder
  <2> QED BY <2>1, DecodeKept
<1>5. ASSUME NEW chunk \in Chunk, DataReceived(chunk) PROVE DecodeInv'
  BY <1>5, DecodeReceived
<1>6. ASSUME NEW r \in Reaction, Partial(r) PROVE DecodeInv'
  BY <1>6, DecodePartial
<1>7. ASSUME NEW r \in Reaction, Whole(r) PROVE DecodeInv'
  BY <1>7, DecodeWhole
<1>8. CASE Close
  BY <1>8, DecodeKept DEF Close, LoseConnection, decoder, calls
<1>9. CASE ConnectionLost
  BY <1>9, DecodeKept DEF ConnectionLost, decoder
<1>10. CASE UNCHANGED vars
  BY <1>10, DecodeKept DEF vars, decoder, calls, DecodeInv
<1> QED BY <1>1, <1>2, <1>3, <1>4, <1>5, <1>6, <1>7, <1>8, <1>9, <1>10 DEF Next

\* The k-th good frame is the one whose end has rank k.
LEMMA FramesAt ==
  ASSUME NEW s \in Seq(Byte), NEW e \in GoodEnds(s), NEW k \in Nat, Rank(GoodEnds(s), e) = k
  PROVE  /\ k \in 1 .. Cardinality(GoodEnds(s))
         /\ Frames(s)[k] = Tail(FrameAt(s, e))
<1> DEFINE ends == GoodEnds(s)
           Nth(j) == CHOOSE x \in ends : Rank(ends, x) = j
           c == Cardinality(ends)
<1>0. Len(s) \in Nat /\ ends \in SUBSET (1 .. Len(s)) /\ e \in ends /\ Rank(ends, e) = k
  BY EndsTypes
<1> HIDE DEF ends
<1>1. c \in Nat /\ k <= c
  <2>1. e \in Int
    BY <1>0
  <2> QED BY <1>0, <2>1, RankTypes
<1>2. k >= 1
  <2>1. e \in Int /\ e \in {d \in ends : d <= e}
    BY <1>0
  <2>2. IsFiniteSet({d \in ends : d <= e})
    BY <1>0, <2>1, RankTypes
  <2>3. Cardinality({d \in ends : d <= e}) # 0
    BY <2>1, <2>2, FS_EmptySet
  <2> QED BY <1>0, <2>3 DEF Rank
<1>3. Nth(k) = e
  <2>1. Nth(k) \in ends /\ Rank(ends, Nth(k)) = k
    BY <1>0
  <2> HIDE DEF Nth
  <2> QED BY <1>0, <2>1, RankUnique
<1>4. Frames(s) = [j \in 1 .. c |-> Tail(FrameAt(s, Nth(j)))]
  BY DEF Frames, ends
<1> HIDE DEF c, Nth
<1>6. Frames(s)[k] = Tail(FrameAt(s, Nth(k)))
  BY <1>1, <1>2, <1>4
<1> QED BY <1>1, <1>2, <1>3, <1>6 DEF c, ends

LEMMA FramesLen ==
  ASSUME NEW s \in Seq(Byte)
  PROVE  /\ Cardinality(GoodEnds(s)) \in Nat
         /\ Len(Frames(s)) = Cardinality(GoodEnds(s))
         /\ Frames(s) = [k \in 1 .. Len(Frames(s)) |-> Frames(s)[k]]
<1> DEFINE c == Cardinality(GoodEnds(s))
           F(k) == Tail(FrameAt(s, CHOOSE e \in GoodEnds(s) : Rank(GoodEnds(s), e) = k))
<1>1. c \in Nat
  <2>1. Len(s) \in Nat /\ GoodEnds(s) \in SUBSET (1 .. Len(s)) /\ 0 \in Int
    BY EndsTypes
  <2> QED BY <2>1, RankTypes
<1>2. Frames(s) = [k \in 1 .. c |-> F(k)]
  BY DEF Frames
<1> HIDE DEF c, F
<1>3. Len(Frames(s)) = c
  BY <1>1, <1>2
<1>4. Frames(s) = [k \in 1 .. Len(Frames(s)) |-> Frames(s)[k]]
  BY <1>2, <1>3
<1> QED BY <1>1, <1>3, <1>4 DEF c

LEMMA DecodeDelivers ==
  ASSUME TypeInv, DecodeInv
  PROVE  DecodedExactly
<1> DEFINE frames == Frames(stream)
           ends == GoodEnds(stream)
           m == Len(delivered)
<1>0. /\ stream \in Seq(Byte) /\ delivered \in Seq(Seq(Byte)) /\ m \in Nat /\ Len(stream) \in Nat
      /\ ends \in SUBSET (1 .. Len(stream))
  BY SeenTypes
<1>1. /\ Cardinality(ends) \in Nat /\ Len(frames) = Cardinality(ends)
      /\ frames = [k \in 1 .. Len(frames) |-> frames[k]]
  BY <1>0, FramesLen
<1>2. ASSUME NEW k \in 1 .. m
      PROVE  k \in 1 .. Len(frames) /\ delivered[k] = frames[k]
  <2>1. PICK e \in ends : Rank(ends, e) = k /\ delivered[k] = Tail(FrameAt(stream, e))
    BY <1>2 DEF DecodeInv, DeliveredAt
  <2>2. k \in Nat
    BY <1>0
  <2>3. k \in 1 .. Cardinality(ends) /\ frames[k] = Tail(FrameAt(stream, e))
    BY <1>0, <2>1, <2>2, FramesAt
  <2> QED BY <1>1, <2>1, <2>3
<1> HIDE DEF frames, ends
<1>3. m <= Len(frames)
  <2>1. CASE m = 0
    BY <1>1, <2>1
  <2>2. CASE m # 0
    <3>1. m \in 1 .. m
      BY <1>0, <2>2
    <3>2. m \in 1 .. Len(frames)
      BY <1>2, <3>1
    <3> QED BY <1>0, <1>1, <3>2
  <2> QED BY <2>1, <2>2
<1> HIDE DEF m
<1>4. IsPrefix(delivered, frames)
  <2>1. SubSeq(delivered, 1, m) = [i \in 1 .. m |-> delivered[i]]
    BY <1>0 DEF m
  <2>2. SubSeq(frames, 1, m) = [i \in 1 .. m |-> frames[i]]
    BY <1>0, <1>1, <1>3
  <2>3. SubSeq(delivered, 1, m) = SubSeq(frames, 1, m)
    BY <1>2, <2>1, <2>2
  <2> QED BY <1>3, <2>3 DEF IsPrefix, m
<1>5. ASSUME data = <<>>, conn = "up", ~exceeded
      PROVE  delivered = frames /\ ends = Ends(stream)
  <2>1. Synchronous /\ Seen = Len(stream)
    <3>1. Len(data) = 0
      BY <1>5
    <3> QED BY <1>0, <1>5, <3>1 DEF DecodeInv, Decoding, Seen
  <2>2. ends = Ends(stream)
    <3>1. \A x \in Ends(stream) : x <= Len(stream)
      BY SeenTypes
    <3> QED BY <2>1, <3>1 DEF Synchronous, ends, GoodEnds
  <2>3. m = Len(frames)
    <3>1. m = Rank(ends, Len(stream))
      BY <2>1 DEF Synchronous, m, ends
    <3>2. Rank(ends, Len(stream)) = Cardinality(ends)
      <4>1. PICK n \in Nat : n = Len(stream)
        BY <1>0
      <4>2. ends \in SUBSET (1 .. n) /\ n \in Int /\ n >= n
        BY <1>0, <4>1
      <4>3. Rank(ends, n) = Cardinality(ends)
        BY <4>2, RankTypes
      <4> QED BY <4>1, <4>3
    <3> QED BY <1>1, <3>1, <3>2
  <2>4. delivered = [k \in 1 .. m |-> delivered[k]]
    BY <1>0 DEF m
  <2>5. [k \in 1 .. m |-> delivered[k]] = [k \in 1 .. Len(frames) |-> frames[k]]
    BY <1>2, <2>3
  <2> QED BY <1>1, <2>2, <2>4, <2>5
<1> QED BY <1>4, <1>5 DEF DecodedExactly, frames, ends

\* However the peer's bytes are cut into reads, the handler is given a prefix of the
\* frames of the stream, and all of them whenever dataReceived has returned, the
\* connection is up and no frame was too long: none is lost, repeated, cut or joined.
THEOREM FramesDelivered == Spec => []DecodedExactly
<1>1. TypeInv /\ BufferInv /\ DecodeInv /\ [Next]_vars => DecodeInv'
  BY DecodeStep
<1>2. TypeInv /\ DecodeInv => DecodedExactly
  BY DecodeDelivers
<1> QED BY <1>1, <1>2, Types, Buffers, DecodeInit, PTL DEF Spec

-----------------------------------------------------------------------------
(* The promise of a session. *)

Over == exceeded \/ (data = <<>> /\ conn # "up")

\* What delivers nothing and reads nothing is a step of the promise or none, as long
\* as it does not take up again a session that is over.
LEMMA SessionStays ==
  ASSUME UNCHANGED <<stream, delivered>>, Over => Over'
  PROVE  [Session!Next]_(Session!vars)
<1> DEFINE over == exceeded \/ (data = <<>> /\ conn # "up")
<1>1. CASE over' /\ ~over
  <2>1. over' = TRUE
    BY <1>1
  <2> QED BY <2>1 DEF Session!Next, Session!End
<1>2. CASE over' = over
  BY <1>2 DEF Session!vars
<1>3. over' = over \/ (over' /\ ~over)
  BY DEF Over
<1> QED BY <1>1, <1>2, <1>3

\* A frame that is delivered is the next of the stream.
LEMMA SessionGives ==
  ASSUME TypeInv, DecodedExactly', ~exceeded, data # <<>>,
         NEW payload, delivered' = Append(delivered, payload), UNCHANGED stream
  PROVE  [Session!Next]_(Session!vars)
<1> DEFINE frames == Frames(stream)
           m == Len(delivered)
<1>0. delivered \in Seq(Seq(Byte)) /\ m \in Nat /\ stream \in Seq(Byte)
  BY DEF TypeInv, TypeOK
<1>1. Len(delivered') = m + 1 /\ delivered'[m + 1] = payload
  BY <1>0
<1>2. IsPrefix(delivered', frames)
  BY DEF DecodedExactly
<1>3. frames = [k \in 1 .. Len(frames) |-> frames[k]] /\ Len(frames) \in Nat
  BY <1>0, FramesLen
<1> HIDE DEF frames, m
<1>4. m + 1 <= Len(frames) /\ SubSeq(delivered', 1, m + 1) = SubSeq(frames, 1, m + 1)
  BY <1>1, <1>2 DEF IsPrefix
<1>5. SubSeq(delivered', 1, m + 1)[m + 1] = payload
  BY <1>0, <1>1
<1>6. SubSeq(frames, 1, m + 1)[m + 1] = frames[m + 1]
  BY <1>0, <1>3, <1>4
<1>7. delivered' = Append(delivered, frames[m + 1]) /\ m < Len(frames)
  <2>1. payload = frames[m + 1]
    BY <1>4, <1>5, <1>6
  <2>2. m < Len(frames)
    <3>1. m \in Nat /\ Len(frames) \in Nat /\ m + 1 <= Len(frames)
      BY <1>0, <1>3, <1>4
    <3> QED BY <3>1
  <2> QED BY <2>1, <2>2
<1> QED BY <1>7 DEF Session!Next, Session!Give, frames, m

LEMMA SessionStep ==
  ASSUME TypeInv, BufferInv, DecodedExactly, DecodedExactly', [Next]_vars
  PROVE  [Session!Next]_(Session!vars)
<1>0. exceeded => delivered' = delivered
  BY BufferStep
<1>1. CASE Refuse \/ AwaitNonce \/ RejectProtocol
  BY <1>1, SessionStays DEF Refuse, Drop, AwaitNonce, RejectProtocol, calls, Over
<1>2. ASSUME NEW r \in Reaction, Accept(r) PROVE [Session!Next]_(Session!vars)
  BY <1>2, SessionStays DEF Accept, LoseConnection, Over
<1>3. ASSUME NEW chunk \in Chunk, DataReceived(chunk) PROVE [Session!Next]_(Session!vars)
  <2>1. /\ data = <<>> /\ data' = chunk /\ conn = "up" /\ chunk # <<>>
        /\ stream' = stream \o chunk /\ UNCHANGED <<conn, exceeded, delivered>>
    BY <1>3, ChunkTypes DEF DataReceived, calls
  <2>2. exceeded \/ delivered = Frames(stream)
    BY <2>1 DEF DecodedExactly
  <2>3. Session!Hear(chunk)
    BY <2>1, <2>2 DEF Session!Hear
  <2> QED BY <2>3 DEF Session!Next
<1>4. ASSUME NEW r \in Reaction, Partial(r) PROVE [Session!Next]_(Session!vars)
  <2>1. UNCHANGED <<stream, delivered>> /\ data # <<>> /\ (exceeded => exceeded')
    BY <1>4 DEF Partial, LengthExceeded
  <2> QED BY <2>1, SessionStays DEF Over
<1>5. ASSUME NEW r \in Reaction, Whole(r) PROVE [Session!Next]_(Session!vars)
  <2> DEFINE frame == buf \o SubSeq(data, 1, EndIndex - 1)
             rest == SubSeq(data, EndIndex + 1, Len(data))
  <2>1. stream' = stream /\ data # <<>> /\ (exceeded => exceeded')
    BY <1>5 DEF Whole, LengthExceeded
  <2>2. delivered' = delivered \/ delivered' = Append(delivered, Tail(frame))
    BY <1>5 DEF Whole, LengthExceeded, BadFrame, GoodFrame
  <2>3. CASE delivered' = delivered
    BY <2>1, <2>3, SessionStays DEF Over
  <2>4. CASE delivered' = Append(delivered, Tail(frame)) /\ delivered' # delivered
    <3>1. ~exceeded
      BY <1>0, <2>4
    <3> HIDE DEF frame
    <3> QED BY <2>1, <2>4, <3>1, SessionGives
  <2> QED BY <2>2, <2>3, <2>4
<1>6. CASE Close \/ ConnectionLost
  BY <1>6, SessionStays DEF Close, LoseConnection, ConnectionLost, calls, Over
<1>7. CASE UNCHANGED vars
  BY <1>7, SessionStays DEF vars, calls, Over
<1> QED BY <1>1, <1>2, <1>3, <1>4, <1>5, <1>6, <1>7 DEF Next

\* A session keeps the promise of FrameStream, whatever the chunks, the reactions of the
\* handler and the moment at which the connection is closed or lost: every step of it
\* hears a chunk when all frames before it are given, gives the next frame, ends, or
\* does not show.
THEOREM ImplementsFrameStream == Spec => FrameByFrame
<1>1. Init => Session!Init
  BY DEF Init, Session!Init
<1>2. TypeInv /\ BufferInv /\ DecodedExactly /\ DecodedExactly' /\ [Next]_vars
        => [Session!Next]_(Session!vars)
  BY SessionStep
<1> QED BY <1>1, <1>2, Types, Buffers, FramesDelivered, PTL DEF Spec, FrameByFrame, Session!Spec
=============================================================================
