-------------------------- MODULE WebSocketSession --------------------------
(***************************************************************************)
(* One WebSocket connection of twisted/websocket.py: the hixie-75 and      *)
(* hixie-76 handshakes (WebSocketRequest), the transport that connects the *)
(* request with the application's handler (WebSocketTransport) and the     *)
(* decoder that cuts the byte stream into frames (WebSocketFrameDecoder).  *)
(*                                                                         *)
(* The reactor is single-threaded: dataReceived runs to its end before     *)
(* another event is handled.  One turn of its loop is one action here,     *)
(* since every turn can call the handler, which can close the connection.  *)
(* A byte is "z" (\x00), "f" (\xff) or "c" (any other).                    *)
(***************************************************************************)
EXTENDS Integers, Sequences, FiniteSets, SequencesExt

CONSTANTS
  MAX_LENGTH,  \* WebSocketFrameDecoder.MAX_LENGTH
  MaxChunk,    \* bound: bytes of one TCP read
  MaxStream    \* bound: bytes the peer sends after the handshake

ASSUME LengthAssumption == MAX_LENGTH \in Nat /\ MaxChunk \in Nat /\ MaxStream \in Nat

VARIABLES
  phase,      \* "request", "nonce" (hixie-76 waits for it), "open", "refused"
  conn,       \* the TCP connection: "up", "closing" (loseConnection), "down"
  attached,   \* the WebSocketTransport holds its _request and _handler
  data,       \* what dataReceived has not looked at yet, <<>> outside of it
  buf,        \* the decoder's _data, joined
  frameLen,   \* the decoder's _currentFrameLength
  made, lost, \* calls of handler.connectionMade and handler.connectionLost
  exceeded,   \* handler.frameLengthExceeded was called
  delivered,  \* payloads passed to handler.frameReceived
  stream,     \* history: the bytes the decoder was given
  closedHere  \* history: the handler closed through its transport

decoder == <<buf, frameLen>>
calls == <<made, lost, exceeded, delivered>>
vars == <<phase, conn, attached, data, decoder, calls, stream, closedHere>>

Byte == {"z", "f", "c"}
Chunk == UNION {[1 .. k -> Byte] : k \in 1 .. MaxChunk}

\* What the application's handler does in a callback.
Reaction == {"keep", "close", "raise"}

Init ==
  /\ phase = "request" /\ conn = "up" /\ attached = FALSE
  /\ data = <<>> /\ buf = <<>> /\ frameLen = 0
  /\ made = 0 /\ lost = 0 /\ exceeded = FALSE /\ delivered = <<>>
  /\ stream = <<>> /\ closedHere = FALSE

\* Faulty variant: the WebSocketTransport is closed instead.
DropTransport == conn' = "closing" /\ attached' = FALSE /\ UNCHANGED closedHere

\* channel.transport.loseConnection() or request.transport.loseConnection():
\* reading stops, the WebSocketTransport does not learn of it.
Drop == conn' = "closing" /\ UNCHANGED <<attached, closedHere>>

Stay == UNCHANGED <<conn, attached, closedHere>>

\* WebSocketTransport.loseConnection: also forgets request and handler.
LoseConnection ==
  /\ conn' = "closing"
  /\ attached' = FALSE
  /\ closedHere' = TRUE

\* The handler's callback raised: for reasons of its own, or since it closes a
\* second time and there is no _request any more (AttributeError).
Raises(reaction) == reaction = "raise" \/ (reaction = "close" /\ ~attached)

\* The handler's reaction in a callback.  The reactor ends a connection whose
\* dataReceived raises.
React(reaction) ==
  \/ reaction = "keep" /\ Stay
  \/ reaction = "close" /\ attached /\ LoseConnection
  \/ Raises(reaction) /\ Drop

-----------------------------------------------------------------------------
(* WebSocketRequest *)

\* The request is no acceptable handshake: no single Origin and Host header,
\* no handler for the URI, a queued request, or keys without digits or spaces.
Refuse ==
  /\ phase = "request" /\ conn = "up"
  /\ phase' = "refused"
  /\ Drop
  /\ UNCHANGED <<data, decoder, calls, stream>>

\* _clientHandshake76: transport and handler exist before the nonce arrives.
AwaitNonce ==
  /\ phase = "request" /\ conn = "up"
  /\ phase' = "nonce"
  /\ attached' = TRUE
  /\ UNCHANGED <<conn, data, decoder, calls, stream, closedHere>>

\* renderWebSocket (hixie-75) or finishHandshake (hixie-76) up to the point
\* where the WebSocket-Protocol header is known to be unsupported, or the two
\* key numbers do not fit struct.pack('>II8s').
RejectProtocol ==
  /\ phase \in {"request", "nonce"} /\ conn = "up"
  /\ phase' = "refused"
  /\ attached' = TRUE
  /\ conn' = "closing"
  /\ UNCHANGED <<data, decoder, calls, stream, closedHere>>

\* The handshake is answered, the decoder installed, connectionMade called.
\* Of hixie-76 the first bytes that arrive are the nonce, however few: an
\* _IdentityTransferDecoder of length 0 does not count them.  What is left of the
\* nonce is then data for the decoder, like any other bytes.
Accept(reaction) ==
  /\ phase \in {"request", "nonce"} /\ conn = "up"
  /\ phase' = "open"
  /\ made' = made + 1
  /\ IF reaction = "close" THEN LoseConnection
     ELSE /\ conn' = IF reaction = "raise" THEN "closing" ELSE conn
          /\ attached' = TRUE /\ UNCHANGED closedHere
  /\ UNCHANGED <<data, decoder, lost, exceeded, delivered, stream>>

-----------------------------------------------------------------------------
(* WebSocketFrameDecoder *)

DataReceived(chunk) ==
  /\ phase = "open" /\ conn = "up" /\ data = <<>>
  /\ Len(stream) + Len(chunk) <= MaxStream
  /\ data' = chunk
  /\ stream' = stream \o chunk
  /\ UNCHANGED <<phase, conn, attached, decoder, calls, closedHere>>

\* Faulty variant: the search starts behind the byte known to be \x00.
EndIndexBehindFirst ==
  IF \E i \in DOMAIN data \ {1} : data[i] = "f"
  THEN CHOOSE i \in DOMAIN data \ {1} :
         data[i] = "f" /\ \A j \in 2 .. i - 1 : data[j] # "f"
  ELSE 0

\* data.find("\xff") + 1, or 0 when the chunk ends inside a frame.
EndIndex == IF \E i \in DOMAIN data : data[i] = "f"
            THEN CHOOSE i \in DOMAIN data :
                   data[i] = "f" /\ \A j \in 1 .. i - 1 : data[j] # "f"
            ELSE 0

\* Faulty variants of the two limits.
TooLongWholeExactly(len) == len = MAX_LENGTH + 1
TooLongPartialLate(len) == len > MAX_LENGTH + 2

\* Lengths count the leading \x00, not the \xff.
TooLongWhole(len) == len > MAX_LENGTH
TooLongPartial(len) == len > MAX_LENGTH + 1

\* A frame is too long: neither the buffer nor the length is reset.
LengthExceeded(len, reaction) ==
  /\ frameLen' = len
  /\ exceeded' = TRUE
  /\ data' = <<>>
  /\ React(reaction)
  /\ UNCHANGED <<buf, delivered>>

Partial(reaction) ==
  LET len == frameLen + Len(data) IN
  /\ data # <<>> /\ EndIndex = 0
  /\ IF TooLongPartial(len) THEN LengthExceeded(len, reaction)
     ELSE /\ frameLen' = len
          /\ buf' = buf \o data
          /\ data' = <<>>
          /\ Stay /\ UNCHANGED <<exceeded, delivered>>
  /\ UNCHANGED <<phase, made, lost, stream>>

\* A frame with no leading \x00 (for an empty one frame[0] raises IndexError):
\* the connection is closed and the rest of the chunk dropped.
BadFrame ==
  /\ data' = <<>>
  /\ Drop
  /\ UNCHANGED delivered

\* frameReceived, then the next turn unless the chunk is used up, the next
\* frame starts badly or the handler raised.
GoodFrame(frame, rest, reaction) ==
  /\ delivered' = Append(delivered, Tail(frame))
  /\ IF Raises(reaction) \/ rest = <<>>
     THEN data' = <<>> /\ React(reaction)
     ELSE IF Head(rest) = "z"
     THEN data' = rest /\ React(reaction)
     ELSE /\ data' = <<>> /\ conn' = "closing"
          /\ attached' = (attached /\ reaction = "keep")
          /\ closedHere' = (closedHere \/ (attached /\ reaction = "close"))

Whole(reaction) ==
  LET len == frameLen + EndIndex - 1
      frame == buf \o SubSeq(data, 1, EndIndex - 1)
      rest == SubSeq(data, EndIndex + 1, Len(data))
  IN
  /\ data # <<>> /\ EndIndex > 0
  /\ IF TooLongWhole(len) THEN LengthExceeded(len, reaction)
     ELSE /\ frameLen' = 0
          /\ buf' = <<>>
          /\ UNCHANGED exceeded
          /\ IF frame = <<>> \/ (frame # <<>> /\ frame[1] # "z") THEN BadFrame
             ELSE GoodFrame(frame, rest, reaction)
  /\ UNCHANGED <<phase, made, lost, stream>>

-----------------------------------------------------------------------------
(* WebSocketTransport *)

\* The application closes outside of a callback (a timer, another handler).
Close ==
  /\ data = <<>> /\ phase = "open" /\ attached
  /\ LoseConnection
  /\ UNCHANGED <<phase, data, decoder, calls, stream>>

\* The TCP connection is gone, and notifyFinish() fires _connectionLost.  After
\* loseConnection its _handler is None: the AttributeError ends in the log.
ConnectionLost ==
  /\ data = <<>> /\ conn # "down"
  /\ conn' = "down"
  /\ lost' = IF attached THEN lost + 1 ELSE lost
  /\ attached' = FALSE
  /\ UNCHANGED <<phase, data, decoder, made, exceeded, delivered, stream, closedHere>>

Next ==
  \/ Refuse
  \/ AwaitNonce
  \/ RejectProtocol
  \/ \E r \in Reaction : Accept(r)
  \/ \E chunk \in Chunk : DataReceived(chunk)
  \/ \E r \in Reaction : Partial(r)
  \/ \E r \in Reaction : Whole(r)
  \/ Close
  \/ ConnectionLost

Spec == Init /\ [][Next]_vars

-----------------------------------------------------------------------------
(* The frames a byte stream contains, however it is cut into chunks. *)

Ends(s) == {i \in DOMAIN s : s[i] = "f"}
FrameAt(s, e) ==
  LET before == {d \in Ends(s) : d < e}
      start == IF before = {} THEN 1
               ELSE 1 + CHOOSE d \in before : \A x \in before : x <= d
  IN  SubSeq(s, start, e - 1)
Acceptable(frame) ==
  frame # <<>> /\ frame[1] = "z" /\ Len(frame) <= MAX_LENGTH
GoodEnds(s) ==
  {e \in Ends(s) : \A d \in Ends(s) : d <= e => Acceptable(FrameAt(s, d))}
Rank(S, e) == Cardinality({d \in S : d <= e})
Frames(s) ==
  LET ends == GoodEnds(s)
      Nth(k) == CHOOSE e \in ends : Rank(ends, e) = k
  IN  [k \in 1 .. Cardinality(ends) |-> Tail(FrameAt(s, Nth(k)))]

\* Types; made and lost can only be 0 or 1: each callback at most once.
TypeOK ==
  /\ phase \in {"request", "nonce", "open", "refused"}
  /\ conn \in {"up", "closing", "down"}
  /\ {attached, exceeded, closedHere} \subseteq BOOLEAN
  /\ data \in Seq(Byte) /\ buf \in Seq(Byte \ {"f"}) /\ frameLen \in Nat
  /\ made \in 0 .. 1 /\ lost \in 0 .. 1
  /\ delivered \in Seq(Seq(Byte)) /\ stream \in Seq(Byte)

\* The handler receives exactly the frames of the byte stream, in order and
\* whatever the chunks: a prefix of them always, and all of them whenever
\* dataReceived has returned, the connection is up and no frame was too long,
\* in which case there was no unacceptable frame either.
DecodedExactly ==
  /\ IsPrefix(delivered, Frames(stream))
  /\ data = <<>> /\ conn = "up" /\ ~exceeded =>
       delivered = Frames(stream) /\ GoodEnds(stream) = Ends(stream)

\* The decoder never buffers more than MAX_LENGTH + 1 bytes, and its length
\* counter is the length of what it buffers until a frame was too long.
BufferBounded ==
  Len(buf) <= MAX_LENGTH + 1 /\ (~exceeded => frameLen = Len(buf))

\* Once a frame was too long no frame is ever delivered again, even when the
\* handler overrides frameLengthExceeded and keeps the connection: the length
\* counter is not reset.
NoFrameAfterExceeded == [][exceeded => delivered' = delivered]_delivered

\* The handler is given the frames of the stream one by one, each at once, and none
\* after the last: not after the connection was closed, unless the chunk that is being
\* looked at goes on well, and never after a frame that was too long, even when the
\* handler overrides frameLengthExceeded and keeps the connection.
Session == INSTANCE FrameStream WITH
  Chunks <- Chunk, Frames <- Frames, heard <- stream, given <- delivered,
  over <- exceeded \/ (data = <<>> /\ conn # "up")
FrameByFrame == Session!Spec

\* A handler that was created and did not close the connection itself is told,
\* by connectionLost, when the connection is gone.
LossReported ==
  conn = "down" /\ phase \in {"nonce", "open"} /\ ~closedHere => lost = 1
=============================================================================
