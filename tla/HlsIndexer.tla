----------------------------- MODULE HlsIndexer -----------------------------
(***************************************************************************)
(* The HTTP live streaming indexer of ap_streamer/HTTPStream.py: every     *)
(* block of media that reaches Indexer.data_received becomes a numbered    *)
(* segment file; the oldest file that is no longer needed is removed; the  *)
(* two index files (.m3u, then .m3u8) are rewritten to list the active     *)
(* segments.  Viewers read the index and the segment files from the same   *)
(* directory at any moment, through a web server the program does not      *)
(* control.                                                                *)
(*                                                                         *)
(* The code is sequential, but each of its file operations is a step of    *)
(* its own here, because a viewer, an IOError or the death of the process  *)
(* can fall between any two of them.  Segment k is the file                *)
(* `segment_num<k>.ts'; the media in it is abstracted away.                *)
(***************************************************************************)
EXTENDS Integers, FiniteSets

CONSTANTS
  ActiveLimit,     \* active_limit: segments listed by the index, 0 = no limit
  STALE_TO_KEEP,   \* segments kept on disk after they leave the index
  DeleteInactive,  \* delete_inactive_segments
  MaxSegments,     \* bound: blocks one incarnation of the process receives
  MaxFailures,     \* bound: file operations that raise IOError or OSError
  MaxRestarts      \* bound: deaths of the process

ASSUME LimitAssumption ==
  /\ ActiveLimit \in Nat
  /\ STALE_TO_KEEP \in Nat
  /\ DeleteInactive \in BOOLEAN
ASSUME BoundAssumption ==
  /\ MaxSegments \in Nat
  /\ MaxFailures \in Nat
  /\ MaxRestarts \in Nat

VARIABLES
  n,         \* len(handler._segments): they are segments 1..n
  whole,     \* files of this incarnation that are completely written
  torn,      \* files opened by this incarnation and not closed successfully
  old,       \* files left by earlier incarnations under the same names
  index,     \* contents of the two index files
  viewer,    \* the playlist last read by a viewer of each index file
  pc,        \* the file operation the indexer is about to do
  closed,    \* finish() has been called
  failures,  \* operations that raised so far
  restarts   \* deaths of the process so far

disk == <<whole, torn, old>>
vars == <<n, whole, torn, old, index, viewer, pc, closed, failures, restarts>>

IndexFiles == {"m3u", "m3u8"}

(***************************************************************************)
(* A playlist names the consecutive segments lo..hi (none when hi < lo)    *)
(* under media sequence number seq.  `at' remembers the length of          *)
(* _segments when it was written (0: no such file) and `own' whether the   *)
(* running incarnation wrote it.                                           *)
(***************************************************************************)
Playlist == [seq : Nat, lo : Int, hi : Int, at : Nat, end : BOOLEAN, own : BOOLEAN]
NoPlaylist ==
  [seq |-> 0, lo |-> 1, hi |-> 0, at |-> 0, end |-> FALSE, own |-> FALSE]
Listed(p) == p.lo .. p.hi

-----------------------------------------------------------------------------
(* IndexerSegmentHandler *)

\* Faulty variants: one stale segment too few is kept, none is kept.
KeptOneLess == ActiveLimit + STALE_TO_KEEP - 1
KeptNoStale == ActiveLimit

\* len(self._segments) up to which no listed or stale segment is old enough.
Kept == ActiveLimit + STALE_TO_KEEP

\* get_active_segments returns a non-empty list when there are m segments.
HasActive(m) == IF ActiveLimit = 0 THEN m > 0 ELSE m > ActiveLimit

\* The first element of get_active_segments (the last one is segment m).
FirstActive(m) == IF ActiveLimit = 0 THEN 1 ELSE m - ActiveLimit + 1

\* Faulty variants: the sequence counts from the oldest file still on disk,
\* with and without care for the first segments.
CurrentSequenceOfDisk(m) == m - Kept + 1
CurrentSequenceOfKept(m) ==
  IF m > Kept THEN m - Kept + 1 ELSE m - ActiveLimit + 1

\* get_current_sequence
CurrentSequence(m) ==
  IF m < ActiveLimit \/ ActiveLimit = 0 THEN 1 ELSE m - ActiveLimit + 1

\* The two stages of rewriting an index file.
OpenPc(f) == IF f = "m3u" THEN "open_m3u" ELSE "open_m3u8"
WritePc(f) == IF f = "m3u" THEN "write_m3u" ELSE "write_m3u8"

\* Faulty variants: the first index is written one segment late; only the
\* second index file is written.
UpdatePcLate(m) == IF HasActive(m - 1) THEN "open_m3u" ELSE "idle"
UpdatePcM3u8Only(m) == IF HasActive(m) THEN "open_m3u8" ELSE "idle"

\* Where _update_index_file goes: it returns at once without active segments.
UpdatePc(m) == IF HasActive(m) THEN "open_m3u" ELSE "idle"

-----------------------------------------------------------------------------
Init ==
  /\ n = 0
  /\ whole = {} /\ torn = {} /\ old = {}
  /\ index = [f \in IndexFiles |-> NoPlaylist]
  /\ viewer = [f \in IndexFiles |-> NoPlaylist]
  /\ pc = "idle"
  /\ closed = FALSE
  /\ failures = 0
  /\ restarts = 0

\* Indexer.data_received: IndexerSegment.__init__ opens (truncates) the file
\* of the next segment.
DataReceived ==
  /\ pc = "idle" /\ ~closed
  /\ n < MaxSegments
  /\ torn' = torn \cup {n + 1}
  /\ old' = old \ {n + 1}
  /\ pc' = "write_segment"
  /\ UNCHANGED <<n, whole, index, viewer, closed, failures, restarts>>

\* The segment's data is written, the file closed and the segment appended to
\* _segments; add_segment then decides whether one becomes too old.
WriteSegment ==
  /\ pc = "write_segment"
  /\ n' = n + 1
  /\ torn' = torn \ {n'}
  /\ whole' = whole \cup {n'}
  /\ pc' = IF n' > Kept /\ DeleteInactive THEN "delete" ELSE UpdatePc(n')
  /\ UNCHANGED <<old, index, viewer, closed, failures, restarts>>

\* Faulty variant: the segment is marked deleted and its file left behind.
DeleteStaleMarksOnly ==
  /\ pc = "delete"
  /\ pc' = UpdatePc(n)
  /\ UNCHANGED <<n, disk, index, viewer, closed, failures, restarts>>

\* _segments[-(active_limit + STALE_TO_KEEP + 1)].delete()
DeleteStale ==
  /\ pc = "delete"
  /\ whole' = whole \ {n - Kept}
  /\ pc' = UpdatePc(n)
  /\ UNCHANGED <<n, torn, old, index, viewer, closed, failures, restarts>>

\* _update_index_file, for the .m3u file and then for the .m3u8 file:
\* open(..., 'wb') empties the file.
OpenIndex(f) ==
  /\ pc = OpenPc(f)
  /\ index' = [index EXCEPT ![f] =
       [seq |-> CurrentSequence(n), lo |-> FirstActive(n),
        hi |-> FirstActive(n) - 1, at |-> n, end |-> FALSE, own |-> TRUE]]
  /\ pc' = WritePc(f)
  /\ UNCHANGED <<n, disk, viewer, closed, failures, restarts>>

\* The buffered lines reach the file in pieces: any longer prefix of them.
FlushIndex(f) ==
  /\ pc = WritePc(f)
  /\ \E h \in (index[f].hi + 1) .. n : index' = [index EXCEPT ![f].hi = h]
  /\ UNCHANGED <<n, disk, viewer, pc, closed, failures, restarts>>

\* close() after the last line, which is ENDLIST when finish() is the caller.
CloseIndex(f) ==
  /\ pc = WritePc(f)
  /\ index' = [index EXCEPT ![f].hi = n, ![f].end = closed]
  /\ pc' = IF f = "m3u" THEN "open_m3u8" ELSE "idle"
  /\ UNCHANGED <<n, disk, viewer, closed, failures, restarts>>

\* Indexer.finish: _update_index_file(closed=True).
Finish ==
  /\ pc = "idle" /\ ~closed
  /\ closed' = TRUE
  /\ pc' = UpdatePc(n)
  /\ UNCHANGED <<n, disk, index, viewer, failures, restarts>>

\* A file operation raises: the exception leaves data_received or finish, and
\* whatever that operation had not done yet is not done.
OperationFails ==
  /\ pc \notin {"idle", "down"}
  /\ failures < MaxFailures
  /\ failures' = failures + 1
  /\ pc' = "idle"
  /\ UNCHANGED <<n, disk, index, viewer, closed, restarts>>

\* The process dies between two file operations; the files stay.
ProcessDies ==
  /\ pc # "down"
  /\ restarts < MaxRestarts
  /\ restarts' = restarts + 1
  /\ pc' = "down"
  /\ UNCHANGED <<n, disk, index, viewer, closed, failures>>

\* A new Indexer on the same path starts with no segments: file names and
\* media sequence numbers begin at 1 again.
Restart ==
  /\ pc = "down"
  /\ n' = 0
  /\ whole' = {} /\ torn' = {} /\ old' = old \cup whole \cup torn
  /\ index' = [f \in IndexFiles |-> [index[f] EXCEPT !.own = FALSE]]
  /\ viewer' = [f \in IndexFiles |-> [viewer[f] EXCEPT !.own = FALSE]]
  /\ pc' = "idle"
  /\ closed' = FALSE
  /\ UNCHANGED <<failures, restarts>>

\* A viewer reads an index file, possibly while it is being rewritten.
Poll(f) ==
  /\ index[f].hi >= index[f].lo
  /\ viewer' = [viewer EXCEPT ![f] = index[f]]
  /\ UNCHANGED <<n, disk, index, pc, closed, failures, restarts>>

\* The statements the indexer executes once it has been called.
Step ==
  \/ WriteSegment
  \/ DeleteStale
  \/ \E f \in IndexFiles : OpenIndex(f)
  \/ \E f \in IndexFiles : FlushIndex(f)
  \/ \E f \in IndexFiles : CloseIndex(f)

Next ==
  \/ DataReceived
  \/ Step
  \/ Finish
  \/ OperationFails
  \/ ProcessDies
  \/ Restart
  \/ \E f \in IndexFiles : Poll(f)

Spec == Init /\ [][Next]_vars

\* Once called, the indexer keeps executing statements; nothing obliges its
\* caller to call it, nor a viewer to poll.
FairSpec == Spec /\ WF_vars(Step)

-----------------------------------------------------------------------------
(* Properties *)

\* Every variable has the values its code can give it; `whole' are files of
\* segments that exist, `torn' the one being written or one whose write failed.
TypeOK ==
  /\ n \in Nat /\ failures \in 0 .. MaxFailures /\ restarts \in 0 .. MaxRestarts
  /\ whole \in SUBSET (1 .. n) /\ torn \in SUBSET {n + 1}
  /\ old \in SUBSET (Nat \ {0})
  /\ index \in [IndexFiles -> Playlist] /\ viewer \in [IndexFiles -> Playlist]
  /\ pc \in {"idle", "down", "write_segment", "delete",
             "open_m3u", "write_m3u", "open_m3u8", "write_m3u8"}
  /\ closed \in BOOLEAN

\* A viewer that read a playlist of the running process can fetch each segment
\* it names, complete, until more than STALE_TO_KEEP further segments exist:
\* the reason HTTPStream.py:30 keeps deleted segments for a while.
GraceWindow ==
  \A f \in IndexFiles :
    LET p == viewer[f]
    IN  p.own /\ n - p.at <= STALE_TO_KEEP => Listed(p) \subseteq whole

\* The index on disk, at any moment of its being rewritten, names only segments
\* that are completely written and not removed, as long as fewer operations
\* have failed than there are stale segments kept: the order of add_segment
\* and _update_index_file in data_received.
IndexServable ==
  \A f \in IndexFiles :
    index[f].own /\ failures < STALE_TO_KEEP => Listed(index[f]) \subseteq whole

\* The media sequence number of a playlist is the number of the segment it
\* names first, although get_current_sequence and get_active_segments compute
\* them apart; a viewer uses it to tell which segments it has played.
SequenceNamesFirst ==
  \A f \in IndexFiles : index[f].at > 0 => index[f].seq = index[f].lo

\* The .m3u8 file is never ahead of the .m3u file and, when nothing failed, a
\* whole rewrite at most behind it: _update_index_file writes them in turn.
M3u8FollowsM3u ==
  index["m3u8"].own =>
    /\ index["m3u"].own
    /\ index["m3u8"].at <= index["m3u"].at
    /\ index["m3u"].at <= index["m3u8"].at + 1 + failures

\* What earlier incarnations published is replaced as soon as this one has
\* active segments to publish: an index file of an earlier incarnation remains
\* only while there are at most active_limit segments or writes failed.
OldIndexReplaced ==
  \A f \in IndexFiles :
    ~index[f].own /\ index[f].at > 0 /\ pc # "down"
      => ~HasActive(n - failures - 1)

\* The disk never holds more than the listed, the stale and one new segment
\* per incarnation, and one leaked file per failed operation.
DiskBounded ==
  DeleteInactive =>
    Cardinality(whole \cup torn \cup old)
      <= (restarts + 1) * (Kept + 1) + failures

\* delete_after_use (HTTPStream.py:82): a segment file is removed from the
\* system only after no index file lists it any more.
DeletedAfterDelisted ==
  [][\A k \in whole \ whole', f \in IndexFiles :
       k \notin Listed(index[f]) \/ restarts' # restarts \/ n' = 0]_disk

\* A viewer that polls one URL never sees the stream go back: neither the media
\* sequence nor the age of the playlist decreases within one incarnation, even
\* when a poll reads a file that is being rewritten.
ViewerMovesForward ==
  [][\A f \in IndexFiles : viewer[f].own /\ viewer'[f].own =>
       viewer[f].seq <= viewer'[f].seq /\ viewer[f].at <= viewer'[f].at]_viewer

\* finish() on a stream with active segments ends with ENDLIST in both index
\* files, whatever failed before (the k failures), unless an operation of
\* finish() itself fails or the process dies.
EndListPublished ==
  \A k \in 0 .. MaxFailures :
    closed /\ HasActive(n) /\ failures = k /\ pc # "idle"
      ~> (\A f \in IndexFiles : index[f].end) \/ failures > k \/ pc = "down"

\* The indexer keeps the promise of a live stream, its files being the playlists
\* and the completely written segments what can be fetched.  It does as long as
\* fewer operations fail than stale segments are kept and the process lives.
Stream == INSTANCE LivePlaylist WITH
  Feeds <- IndexFiles, newest <- n, available <- whole,
  listed <- [f \in IndexFiles |-> Listed(index[f])]
LiveStream == Stream!Spec
=============================================================================
