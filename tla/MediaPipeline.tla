--------------------------- MODULE MediaPipeline ---------------------------
(***************************************************************************)
(* The elements of ap_streamer/core.py: a Segmenter cuts the data it       *)
(* receives into blocks and sends each to the elements connected to it,    *)
(* one after the other, by calling them, and so it finishes them.  One of  *)
(* them is a FileWriter, the others stand for any element (HlsIndexer is   *)
(* one).  An element that raises takes the whole chain of calls with it:   *)
(* the later elements are not called and the segmenter's buffer is not     *)
(* cut.  Its caller may go on all the same, or finish it again.            *)
(*                                                                         *)
(* Bytes are numbered in the order in which they are received; a block is  *)
(* an interval of them.                                                    *)
(***************************************************************************)
EXTENDS Integers, FiniteSets, SequencesExt

CONSTANTS
  Limit,          \* _max_chunks or _buffer_limit
  ChunksPerFile,  \* FileWriter.chunks_per_file, 0 = all in one file
  Elements,       \* number of connected elements
  Writer,         \* the FileWriter's place among them
  MaxBytes,       \* bound: bytes received
  MaxData,        \* bound: bytes of one call of data_received
  MaxFailures     \* bound: calls that raise

ASSUME SizeAssumption ==
  /\ Limit \in Nat \ {0} /\ Elements \in Nat \ {0} /\ ChunksPerFile \in Nat
  /\ Writer \in 1 .. Elements
  /\ MaxBytes \in Nat /\ MaxData \in Nat /\ MaxFailures \in Nat

VARIABLES
  chunked,   \* _use_chunks: a block is a number of chunks, not of bytes
  partials,  \* finish_passes_partials
  received,  \* bytes received by the segmenter
  cut,       \* of these, bytes cut off its buffer
  count,     \* _chunk_count of the segmenter
  pc,        \* what the segmenter is doing
  next,      \* the element it will call next
  got,       \* the blocks each element was given, by calls that returned
  files,     \* the blocks written to each file of the FileWriter
  file,      \* FileWriter.file: none, or the last of files, open or closed
  inFile,    \* chunk_count of the FileWriter
  failures,  \* calls that raised so far
  ended      \* history: elements finished since they and the segmenter got data

buffer == <<received, cut, count>>
writer == <<files, file, inFile>>
options == <<chunked, partials>>
vars == <<options, buffer, pc, next, got, writer, failures, ended>>

Block == [lo : Nat, hi : Nat]

Init ==
  /\ chunked \in BOOLEAN /\ partials \in BOOLEAN
  /\ received = 0 /\ cut = 0 /\ count = 0
  /\ pc = "idle" /\ next = 1
  /\ got = [e \in 1 .. Elements |-> <<>>]
  /\ files = <<>> /\ file = "none" /\ inFile = 0
  /\ failures = 0 /\ ended = {}

-----------------------------------------------------------------------------
(* Segmenter *)

DataReceived(size) ==
  /\ pc = "idle" /\ received + size <= MaxBytes
  /\ received' = received + size
  /\ count' = IF chunked THEN count + 1 ELSE count
  /\ pc' = "check"
  /\ ended' = {}
  /\ UNCHANGED <<options, cut, next, got, writer, failures>>

\* Faulty variants: a full buffer is not waited to overflow; one byte less
\* counts as full.
FullAtLimit == IF chunked THEN count = Limit ELSE received - cut >= Limit
FullBelowLimit == IF chunked THEN count = Limit ELSE received - cut >= Limit - 1

\* The buffer holds enough for a block.
Full == IF chunked THEN count = Limit ELSE received - cut > Limit

\* check_buffer.  More chunks than Limit raise ApMediaError, and data_received
\* returns as it does with fewer.
CheckBuffer ==
  /\ pc = "check"
  /\ pc' = IF Full THEN "send" ELSE "idle"
  /\ UNCHANGED <<options, buffer, next, got, writer, failures, ended>>

\* Faulty variant: a finishing segmenter sends no more than a block.
NextBlockWholeOnly ==
  [lo |-> cut + 1, hi |-> IF chunked THEN received ELSE cut + Limit]

\* The block being sent: the whole buffer in chunk mode and by finish.
NextBlock ==
  [lo |-> cut + 1,
   hi |-> IF chunked \/ pc = "flush" THEN received ELSE cut + Limit]

\* The segmenter calls its elements in turn; to finish is to send the rest.
Sending == pc \in {"send", "flush"}

\* send() is over: the block is cut off, and in byte mode the buffer checked
\* again.  (finish leaves the buffer as it is.)
BlockSent ==
  /\ Sending /\ next = Elements + 1
  /\ next' = 1
  /\ IF pc = "send"
     THEN cut' = NextBlock.hi /\ count' = 0 /\ pc' = "check"
     ELSE UNCHANGED <<cut, count>> /\ pc' = "finish"
  /\ UNCHANGED <<options, received, got, writer, failures, ended>>

Finish ==
  /\ pc = "idle"
  /\ pc' = IF partials THEN "flush" ELSE "finish"
  /\ UNCHANGED <<options, buffer, next, got, writer, failures, ended>>

\* finish_connected, element by element.
ElementFinished(e) ==
  /\ pc = "finish" /\ next = e
  /\ ended' = ended \cup {e}
  /\ next' = next + 1
  /\ file' = IF e = Writer /\ file = "open" THEN "closed" ELSE file
  /\ UNCHANGED <<options, buffer, pc, got, files, inFile, failures>>

FinishConnected ==
  /\ pc = "finish" /\ next = Elements + 1
  /\ pc' = "finished"
  /\ UNCHANGED <<options, buffer, next, got, writer, failures, ended>>

-----------------------------------------------------------------------------
(* The connected elements *)

Given(e) ==
  /\ Sending /\ next = e
  /\ got' = [got EXCEPT ![e] = Append(@, NextBlock)]
  /\ next' = next + 1
  /\ ended' = ended \ {e}
  /\ UNCHANGED <<options, buffer, pc, failures>>

\* Faulty variant: the chunk that closes a file counts for the next one.
InFileKept == IF inFile >= ChunksPerFile THEN 1 ELSE inFile + 1

\* chunk_count after one more chunk: it starts anew with each file.
InFile == IF inFile + 1 = ChunksPerFile THEN 0 ELSE inFile + 1

\* finish() leaves a file that can not be written.
Unwritable == file = "closed" /\ NextBlock.lo <= NextBlock.hi

\* FileWriter.data_received: a new file if there is none, closed by its last
\* chunk.
WriterGiven ==
  /\ Given(Writer) /\ ~Unwritable
  /\ files' = IF file = "none" THEN Append(files, <<NextBlock>>)
              ELSE [files EXCEPT ![Len(files)] = Append(@, NextBlock)]
  /\ inFile' = InFile
  /\ file' = IF InFile = 0 THEN "none" ELSE IF file = "none" THEN "open" ELSE file

ElementGiven(e) == e # Writer /\ Given(e) /\ UNCHANGED writer

\* An element may raise whenever it is called, but the FileWriter when it makes a
\* file (makedirs or open do) or writes to a closed one.
MayRaise(e) ==
  /\ Sending \/ pc = "finish"
  /\ next = e /\ failures < MaxFailures
  /\ e = Writer => Sending /\ (file = "none" \/ Unwritable)

\* Faulty variant: the block is cut off all the same.
ElementRaisesCut(e) ==
  /\ MayRaise(e)
  /\ failures' = failures + 1
  /\ cut' = IF Sending THEN NextBlock.hi ELSE cut
  /\ next' = 1 /\ pc' = "idle"
  /\ UNCHANGED <<options, received, count, got, writer, ended>>

\* The exception reaches whoever called the segmenter.
ElementRaises(e) ==
  /\ MayRaise(e)
  /\ failures' = failures + 1
  /\ next' = 1 /\ pc' = "idle"
  /\ UNCHANGED <<options, buffer, got, writer, ended>>

Next ==
  \/ \E size \in 1 .. MaxData : DataReceived(size)
  \/ CheckBuffer
  \/ WriterGiven
  \/ \E e \in 1 .. Elements : ElementGiven(e)
  \/ \E e \in 1 .. Elements : ElementRaises(e) \/ ElementFinished(e)
  \/ BlockSent
  \/ Finish
  \/ FinishConnected

Spec == Init /\ [][Next]_vars

-----------------------------------------------------------------------------
(* Properties *)

\* Types; the buffer never loses its beginning to more bytes than there are.
TypeOK ==
  /\ chunked \in BOOLEAN /\ partials \in BOOLEAN
  /\ received \in 0 .. MaxBytes /\ cut \in 0 .. received
  /\ count \in Nat /\ failures \in 0 .. MaxFailures
  /\ pc \in {"idle", "check", "send", "flush", "finish", "finished"}
  /\ next \in 1 .. Elements + 1
  /\ got \in [1 .. Elements -> Seq(Block)]
  /\ files \in Seq(Seq(Block)) /\ inFile \in Nat
  /\ file \in {"none", "open", "closed"} /\ ended \subseteq 1 .. Elements

\* Every element is given the stream without a gap, whichever elements raise and
\* when: a block starts where the one before it ended or, once per failure at
\* most, repeats it (the buffer is cut only after every element was called).
Repeats(blocks) ==
  {i \in 2 .. Len(blocks) : blocks[i].lo <= blocks[i - 1].hi}
NoGap ==
  \A e \in 1 .. Elements :
    LET blocks == got[e] IN
    /\ \A i \in DOMAIN blocks :
         blocks[i].lo <= (IF i = 1 THEN 1 ELSE blocks[i - 1].hi + 1)
    /\ Cardinality(Repeats(blocks)) <= failures

\* As long as no call raised: in byte mode no element is given more than Limit
\* bytes at once, nor an empty block unless nothing was received (the strict
\* comparison of core.py:79 keeps a last block for finish); in chunk mode Limit
\* chunks are never waiting, so that core.py:88 is not reached.
BlockSizes ==
  failures = 0 =>
    /\ ~chunked /\ received > 0 =>
         \A e \in 1 .. Elements : \A b \in Range(got[e]) : b.hi - b.lo + 1 \in 1 .. Limit
    /\ chunked /\ pc = "idle" => count < Limit

\* An element is finished, by a segmenter that passes partials, only once it was
\* given the stream to its last byte; the FileWriter's file is then closed; and
\* a finish() that does not raise has finished every element.
FinishedGaveAll ==
  /\ partials => \A e \in ended : got[e] # <<>> /\ Last(got[e]).hi = received
  /\ Writer \in ended => file # "open"
  /\ pc = "finished" => ended = 1 .. Elements

\* The files of the FileWriter, one after the other, hold the blocks it was
\* given; all but the last hold chunks_per_file of them, the last no more.
FilesHoldBlocks ==
  /\ FlattenSeq(files) = got[Writer]
  /\ \A i \in DOMAIN files :
       IF i < Len(files) THEN Len(files[i]) = ChunksPerFile
       ELSE ChunksPerFile > 0 => Len(files[i]) <= ChunksPerFile
=============================================================================
