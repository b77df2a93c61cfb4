---------------------------- MODULE FrameStream ----------------------------
(***************************************************************************)
(* What a WebSocket session promises the handler of the application: as    *)
(* long as it is not over, the handler is given the frames of the peer's   *)
(* stream one by one, in order, and every frame that is complete before    *)
(* more of the stream is heard.  Where the chunks end, which buffers are   *)
(* kept and who closes the connection do not show.                         *)
(***************************************************************************)
EXTENDS Naturals, Sequences

CONSTANTS
  Chunks,    \* what can be heard at once
  Frames(_)  \* the frames of a stream

VARIABLES
  heard,  \* the stream so far
  given,  \* the frames the handler was given
  over    \* the handler is given no more of them

vars == <<heard, given, over>>

Init == heard = <<>> /\ given = <<>> /\ over = FALSE

Hear(chunk) ==
  /\ over \/ given = Frames(heard)
  /\ heard' = heard \o chunk
  /\ UNCHANGED <<given, over>>

\* The frame may be the last: the handler closes, or the next one is not good.
Give ==
  /\ ~over
  /\ Len(given) < Len(Frames(heard))
  /\ given' = Append(given, Frames(heard)[Len(given) + 1])
  /\ over' \in BOOLEAN
  /\ UNCHANGED heard

End ==
  /\ over' = TRUE
  /\ UNCHANGED <<heard, given>>

Next ==
  \/ \E chunk \in Chunks : Hear(chunk)
  \/ Give
  \/ End

Spec == Init /\ [][Next]_vars
=============================================================================
