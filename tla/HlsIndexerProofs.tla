-------------------------- MODULE HlsIndexerProofs --------------------------
(***************************************************************************)
(* Theorems about HlsIndexer for every window, every number of stale       *)
(* segments kept and every bound.  The inductive invariant IInv says what  *)
(* add_segment and _update_index_file keep true between their file         *)
(* operations: which files are certainly there (Retention), what an index  *)
(* file can contain (PlaylistInv) and how far it can lag behind the        *)
(* segments (LagInv).  On it rest what viewers see, what is deleted, the   *)
(* size of the disk, the refinement of LivePlaylist, and how a call ends.  *)
(***************************************************************************)
EXTENDS HlsIndexer, FiniteSetTheorems, TLAPS

\* The files not yet old enough to be removed are complete on disk.
Retention ==
  /\ \A k \in 1 .. n : n < k + Kept => k \in whole
  /\ ~DeleteInactive => \A k \in 1 .. n : k \in whole
  /\ pc = "delete" => DeleteInactive /\ n > Kept

\* A playlist was computed from the segments that existed when it was written.
PlaylistInv(p) ==
  /\ p.at > 0 => /\ HasActive(p.at)
                 /\ p.seq = CurrentSequence(p.at)
                 /\ p.lo = FirstActive(p.at)
                 /\ p.hi <= p.at
  /\ p.own => p.at > 0 /\ p.at <= n

\* The index update in progress was begun for the current segments.
UpdateInv ==
  /\ pc \in {"open_m3u", "write_m3u", "open_m3u8", "write_m3u8"} => HasActive(n)
  /\ pc \in {"write_m3u", "open_m3u8", "write_m3u8"} =>
       index["m3u"].own /\ index["m3u"].at = n
  /\ pc = "write_m3u8" => index["m3u8"].own /\ index["m3u8"].at = n

\* The program points between an append to _segments and the next open of f,
\* at which the process may also die.
Behind(f) ==
  IF f = "m3u" THEN {"down", "delete", "open_m3u"}
               ELSE {"down", "delete", "open_m3u", "write_m3u", "open_m3u8"}

\* An index file misses one segment per failed operation, and the newest one
\* until it is reopened.
LagInv ==
  \A f \in IndexFiles :
    index[f].own =>
      n <= index[f].at + failures + (IF pc \in Behind(f) THEN 1 ELSE 0)

OrderInv ==
  index["m3u8"].own => index["m3u"].own /\ index["m3u8"].at <= index["m3u"].at

IInv ==
  /\ TypeOK
  /\ Retention
  /\ \A f \in IndexFiles : PlaylistInv(index[f]) /\ PlaylistInv(viewer[f])
  /\ UpdateInv
  /\ LagInv
  /\ OrderInv

-----------------------------------------------------------------------------
(* Every action preserves the type invariant. *)

LEMMA InitIInv == Init => IInv
<1> SUFFICES ASSUME Init PROVE IInv
  OBVIOUS
<1> USE LimitAssumption, BoundAssumption DEF Init, NoPlaylist, IndexFiles
<1>1. TypeOK
  <2>1. NoPlaylist \in Playlist
    BY DEF Playlist
  <2>2. index \in [IndexFiles -> Playlist] /\ viewer \in [IndexFiles -> Playlist]
    BY <2>1
  <2>3. n \in Nat /\ failures \in 0 .. MaxFailures /\ restarts \in 0 .. MaxRestarts
    OBVIOUS
  <2>4. /\ whole \in SUBSET (1 .. n) /\ torn \in SUBSET {n + 1}
        /\ old \in SUBSET (Nat \ {0})
    OBVIOUS
  <2>5. closed \in BOOLEAN
    OBVIOUS
  <2>6. QED
    BY <2>2, <2>3, <2>4, <2>5 DEF TypeOK
<1>2. Retention
  BY DEF Retention
<1>3. \A f \in IndexFiles : PlaylistInv(index[f]) /\ PlaylistInv(viewer[f])
  BY DEF PlaylistInv
<1>4. UpdateInv /\ LagInv /\ OrderInv
  BY DEF UpdateInv, LagInv, OrderInv
<1>5. QED
  BY <1>1, <1>2, <1>3, <1>4 DEF IInv

LEMMA TypeStep == TypeOK /\ [Next]_vars => TypeOK'
<1> SUFFICES ASSUME TypeOK, [Next]_vars PROVE TypeOK'
  OBVIOUS
<1> USE LimitAssumption, BoundAssumption DEF TypeOK, Playlist, IndexFiles, disk
<1>1. CASE DataReceived
  BY <1>1 DEF DataReceived
<1>2. CASE WriteSegment
  BY <1>2 DEF WriteSegment, UpdatePc
<1>3. CASE DeleteStale
  BY <1>3 DEF DeleteStale, UpdatePc
<1>4. ASSUME NEW f \in IndexFiles, OpenIndex(f) PROVE TypeOK'
  <2>1. CurrentSequence(n) \in Nat /\ FirstActive(n) \in Int
    BY DEF CurrentSequence, FirstActive
  <2>2. index' \in [IndexFiles -> Playlist]
    BY <1>4, <2>1 DEF OpenIndex
  <2>3. QED
    BY <1>4, <2>2 DEF OpenIndex, WritePc
<1>5. ASSUME NEW f \in IndexFiles, FlushIndex(f) PROVE TypeOK'
  BY <1>5 DEF FlushIndex
<1>6. ASSUME NEW f \in IndexFiles, CloseIndex(f) PROVE TypeOK'
  BY <1>6 DEF CloseIndex
<1>7. CASE Finish
  BY <1>7 DEF Finish, UpdatePc
<1>8. CASE OperationFails
  BY <1>8 DEF OperationFails
<1>9. CASE ProcessDies
  BY <1>9 DEF ProcessDies
<1>10. CASE Restart
  <2>1. \A f \in IndexFiles : [index[f] EXCEPT !.own = FALSE] \in Playlist
                            /\ [viewer[f] EXCEPT !.own = FALSE] \in Playlist
    OBVIOUS
  <2>2. index' \in [IndexFiles -> Playlist] /\ viewer' \in [IndexFiles -> Playlist]
    BY <1>10, <2>1 DEF Restart
  <2>3. old' \in SUBSET (Nat \ {0})
    BY <1>10 DEF Restart
  <2>4. QED
    BY <1>10, <2>2, <2>3 DEF Restart
<1>11. ASSUME NEW f \in IndexFiles, Poll(f) PROVE TypeOK'
  BY <1>11 DEF Poll
<1>12. CASE UNCHANGED vars
  BY <1>12 DEF vars
<1>13. QED
  BY <1>1, <1>2, <1>3, <1>4, <1>5, <1>6, <1>7, <1>8, <1>9, <1>10, <1>11, <1>12
  DEF Next, Step

\* The type invariant is an invariant of the indexer for every value of the
\* constants: in particular `whole' holds only segments that exist, and at most
\* one file of the running process is incomplete.
THEOREM TypeCorrect == Spec => []TypeOK
<1>1. Init => TypeOK
  BY InitIInv DEF IInv
<1>2. QED
  BY <1>1, TypeStep, PTL DEF Spec

-----------------------------------------------------------------------------
(* Every action preserves the other conjuncts of IInv. *)

\* add_segment removes only the file that has just become too old.
LEMMA RetentionStep == TypeOK /\ Retention /\ [Next]_vars => Retention'
<1> SUFFICES ASSUME TypeOK, Retention, [Next]_vars PROVE Retention'
  OBVIOUS
<1> USE LimitAssumption DEF TypeOK, Retention, Kept, disk
<1>1. CASE DataReceived
  BY <1>1 DEF DataReceived
<1>2. CASE WriteSegment
  BY <1>2 DEF WriteSegment, UpdatePc
<1>3. CASE DeleteStale
  BY <1>3 DEF DeleteStale, UpdatePc
<1>4. ASSUME NEW f \in IndexFiles, OpenIndex(f) PROVE Retention'
  BY <1>4 DEF OpenIndex, WritePc
<1>5. ASSUME NEW f \in IndexFiles, FlushIndex(f) PROVE Retention'
  BY <1>5 DEF FlushIndex
<1>6. ASSUME NEW f \in IndexFiles, CloseIndex(f) PROVE Retention'
  BY <1>6 DEF CloseIndex
<1>7. CASE Finish
  BY <1>7 DEF Finish, UpdatePc
<1>8. CASE OperationFails
  BY <1>8 DEF OperationFails
<1>9. CASE ProcessDies
  BY <1>9 DEF ProcessDies
<1>10. CASE Restart
  BY <1>10 DEF Restart
<1>11. ASSUME NEW f \in IndexFiles, Poll(f) PROVE Retention'
  BY <1>11 DEF Poll
<1>12. CASE UNCHANGED vars
  BY <1>12 DEF vars
<1>13. QED
  BY <1>1, <1>2, <1>3, <1>4, <1>5, <1>6, <1>7, <1>8, <1>9, <1>10, <1>11, <1>12
  DEF Next, Step

\* A playlist keeps describing the segments it was computed from while more
\* segments are appended.
LEMMA PlaylistStep ==
  IInv /\ [Next]_vars
    => (\A f \in IndexFiles : PlaylistInv(index[f]) /\ PlaylistInv(viewer[f]))'
<1> SUFFICES ASSUME IInv, [Next]_vars, NEW g \in IndexFiles
             PROVE  PlaylistInv(index[g])' /\ PlaylistInv(viewer[g])'
  OBVIOUS
<1> USE LimitAssumption DEF IInv, TypeOK, Playlist, PlaylistInv, disk
<1>1. CASE DataReceived
  BY <1>1 DEF DataReceived
<1>2. CASE WriteSegment
  BY <1>2 DEF WriteSegment
<1>3. CASE DeleteStale
  BY <1>3 DEF DeleteStale
<1>4. ASSUME NEW f \in IndexFiles, OpenIndex(f)
      PROVE  PlaylistInv(index[g])' /\ PlaylistInv(viewer[g])'
  <2>1. HasActive(n)
    BY <1>4 DEF OpenIndex, OpenPc, UpdateInv
  <2>2. n > 0 /\ FirstActive(n) - 1 <= n
    BY <2>1 DEF HasActive, FirstActive
  <2>3. QED
    BY <1>4, <2>1, <2>2 DEF OpenIndex
<1>5. ASSUME NEW f \in IndexFiles, FlushIndex(f)
      PROVE  PlaylistInv(index[g])' /\ PlaylistInv(viewer[g])'
  <2>1. index[f].at = n
    BY <1>5 DEF FlushIndex, WritePc, UpdateInv, IndexFiles
  <2>2. QED
    BY <1>5, <2>1 DEF FlushIndex
<1>6. ASSUME NEW f \in IndexFiles, CloseIndex(f)
      PROVE  PlaylistInv(index[g])' /\ PlaylistInv(viewer[g])'
  <2>1. index[f].at = n
    BY <1>6 DEF CloseIndex, WritePc, UpdateInv, IndexFiles
  <2>2. QED
    BY <1>6, <2>1 DEF CloseIndex
<1>7. CASE Finish
  BY <1>7 DEF Finish
<1>8. CASE OperationFails
  BY <1>8 DEF OperationFails
<1>9. CASE ProcessDies
  BY <1>9 DEF ProcessDies
<1>10. CASE Restart
  BY <1>10 DEF Restart
<1>11. ASSUME NEW f \in IndexFiles, Poll(f)
       PROVE  PlaylistInv(index[g])' /\ PlaylistInv(viewer[g])'
  BY <1>11 DEF Poll
<1>12. CASE UNCHANGED vars
  BY <1>12 DEF vars
<1>13. QED
  BY <1>1, <1>2, <1>3, <1>4, <1>5, <1>6, <1>7, <1>8, <1>9, <1>10, <1>11, <1>12
  DEF Next, Step

\* The program counter remembers that there were active segments, and which
\* index file has already been opened for them.
LEMMA UpdateStep == IInv /\ [Next]_vars => UpdateInv'
<1> SUFFICES ASSUME IInv, [Next]_vars PROVE UpdateInv'
  OBVIOUS
<1> USE DEF IInv, TypeOK, Playlist, UpdateInv, IndexFiles, disk
<1>1. CASE DataReceived
  BY <1>1 DEF DataReceived
<1>2. CASE WriteSegment
  BY <1>2 DEF WriteSegment, UpdatePc
<1>3. CASE DeleteStale
  BY <1>3 DEF DeleteStale, UpdatePc
<1>4. ASSUME NEW f \in IndexFiles, OpenIndex(f) PROVE UpdateInv'
  BY <1>4 DEF OpenIndex, OpenPc, WritePc
<1>5. ASSUME NEW f \in IndexFiles, FlushIndex(f) PROVE UpdateInv'
  BY <1>5 DEF FlushIndex, WritePc
<1>6. ASSUME NEW f \in IndexFiles, CloseIndex(f) PROVE UpdateInv'
  BY <1>6 DEF CloseIndex, WritePc
<1>7. CASE Finish
  BY <1>7 DEF Finish, UpdatePc
<1>8. CASE OperationFails
  BY <1>8 DEF OperationFails
<1>9. CASE ProcessDies
  BY <1>9 DEF ProcessDies
<1>10. CASE Restart
  BY <1>10 DEF Restart
<1>11. ASSUME NEW f \in IndexFiles, Poll(f) PROVE UpdateInv'
  BY <1>11 DEF Poll
<1>12. CASE UNCHANGED vars
  BY <1>12 DEF vars
<1>13. QED
  BY <1>1, <1>2, <1>3, <1>4, <1>5, <1>6, <1>7, <1>8, <1>9, <1>10, <1>11, <1>12
  DEF Next, Step

\* Only an append, or an operation that fails before the index is rewritten,
\* lets an index file fall behind.
LEMMA LagStep == IInv /\ [Next]_vars => LagInv'
<1> SUFFICES ASSUME IInv, [Next]_vars, NEW g \in IndexFiles, index[g].own'
             PROVE  (n <= index[g].at + failures
                           + (IF pc \in Behind(g) THEN 1 ELSE 0))'
  BY DEF LagInv
<1> USE BoundAssumption DEF IInv, TypeOK, Playlist, IndexFiles, LagInv, Behind, disk
<1>1. CASE DataReceived
  BY <1>1 DEF DataReceived
<1>2. CASE WriteSegment
  <2>1. index[g].own /\ index[g].at = index'[g].at
    BY <1>2 DEF WriteSegment
  <2>2. HasActive(n + 1)
    BY <2>1, LimitAssumption DEF PlaylistInv, HasActive
  <2>3. QED
    BY <1>2, <2>1, <2>2 DEF WriteSegment, UpdatePc
<1>3. CASE DeleteStale
  <2>1. index[g].own /\ index[g].at = index'[g].at
    BY <1>3 DEF DeleteStale
  <2>2. HasActive(n)
    BY <2>1, LimitAssumption DEF PlaylistInv, HasActive
  <2>3. QED
    BY <1>3, <2>1, <2>2 DEF DeleteStale, UpdatePc
<1>4. ASSUME NEW f \in IndexFiles, OpenIndex(f)
      PROVE  (n <= index[g].at + failures
                    + (IF pc \in Behind(g) THEN 1 ELSE 0))'
  BY <1>4 DEF OpenIndex, OpenPc, WritePc
<1>5. ASSUME NEW f \in IndexFiles, FlushIndex(f)
      PROVE  (n <= index[g].at + failures
                    + (IF pc \in Behind(g) THEN 1 ELSE 0))'
  BY <1>5 DEF FlushIndex, WritePc
<1>6. ASSUME NEW f \in IndexFiles, CloseIndex(f)
      PROVE  (n <= index[g].at + failures
                    + (IF pc \in Behind(g) THEN 1 ELSE 0))'
  BY <1>6 DEF CloseIndex, WritePc
<1>7. CASE Finish
  BY <1>7 DEF Finish, UpdatePc
<1>8. CASE OperationFails
  BY <1>8 DEF OperationFails
<1>9. CASE ProcessDies
  BY <1>9 DEF ProcessDies
<1>10. CASE Restart
  BY <1>10 DEF Restart
<1>11. ASSUME NEW f \in IndexFiles, Poll(f)
       PROVE  (n <= index[g].at + failures
                     + (IF pc \in Behind(g) THEN 1 ELSE 0))'
  BY <1>11 DEF Poll
<1>12. CASE UNCHANGED vars
  BY <1>12 DEF vars
<1>13. QED
  BY <1>1, <1>2, <1>3, <1>4, <1>5, <1>6, <1>7, <1>8, <1>9, <1>10, <1>11, <1>12
  DEF Next, Step

\* The .m3u8 file is opened only after the .m3u file was.
LEMMA OrderStep == IInv /\ [Next]_vars => OrderInv'
<1> SUFFICES ASSUME IInv, [Next]_vars PROVE OrderInv'
  OBVIOUS
<1> USE DEF IInv, TypeOK, Playlist, IndexFiles, OrderInv, disk
<1>1. ASSUME NEW f \in IndexFiles, OpenIndex(f) PROVE OrderInv'
  BY <1>1 DEF OpenIndex, OpenPc, UpdateInv, PlaylistInv
<1>2. ASSUME NEW f \in IndexFiles, FlushIndex(f) PROVE OrderInv'
  BY <1>2 DEF FlushIndex
<1>3. ASSUME NEW f \in IndexFiles, CloseIndex(f) PROVE OrderInv'
  BY <1>3 DEF CloseIndex
<1>4. CASE Restart
  BY <1>4 DEF Restart
<1>5. CASE UNCHANGED index
  BY <1>5
<1>6. QED
  BY <1>1, <1>2, <1>3, <1>4, <1>5
  DEF Next, Step, vars, DataReceived, WriteSegment, DeleteStale, Finish,
      OperationFails, ProcessDies, Poll

LEMMA Invariance == Spec => []IInv
<1>1. IInv /\ [Next]_vars => IInv'
  <2>1. IInv /\ [Next]_vars => TypeOK' /\ Retention'
    BY TypeStep, RetentionStep DEF IInv
  <2>2. QED
    BY <2>1, PlaylistStep, UpdateStep, LagStep, OrderStep DEF IInv
<1>2. QED
  BY InitIInv, <1>1, PTL DEF Spec

-----------------------------------------------------------------------------
(* What the invariant gives viewers. *)

\* active_limit = 0 lists every segment, so it is safe only without deletion.
Windowed == ActiveLimit > 0 \/ ~DeleteInactive

\* The files a playlist names are on disk while at most STALE_TO_KEEP segments
\* were appended after it was computed.
LEMMA ListedAreWhole ==
  ASSUME Windowed, TypeOK, Retention, NEW p \in Playlist,
         PlaylistInv(p), p.own, n - p.at <= STALE_TO_KEEP
  PROVE  Listed(p) \subseteq whole
<1> SUFFICES ASSUME NEW k \in Int, p.lo <= k, k <= p.hi PROVE k \in whole
  BY DEF Listed, Playlist
<1> USE LimitAssumption DEF TypeOK, Playlist
<1>1. k \in 1 .. n
  BY DEF PlaylistInv, HasActive, FirstActive
<1>2. CASE ~DeleteInactive
  BY <1>1, <1>2 DEF Retention
<1>3. CASE ActiveLimit > 0
  <2>1. n < k + Kept
    BY <1>3 DEF PlaylistInv, HasActive, FirstActive, Kept
  <2>2. QED
    BY <1>1, <2>1 DEF Retention
<1>4. QED
  BY <1>2, <1>3 DEF Windowed

\* The reason stale segments are kept (HTTPStream.py:30): whatever fails, and
\* whenever a viewer reads an index file, it can fetch every segment named
\* there until more than STALE_TO_KEEP further ones have been appended.
THEOREM ViewersHaveGrace ==
  ASSUME Windowed PROVE Spec => []GraceWindow
<1>1. ASSUME IInv, NEW f \in IndexFiles, viewer[f].own,
             n - viewer[f].at <= STALE_TO_KEEP
      PROVE  Listed(viewer[f]) \subseteq whole
  <2>1. viewer[f] \in Playlist
    BY <1>1 DEF IInv, TypeOK
  <2>2. TypeOK /\ Retention /\ PlaylistInv(viewer[f])
    BY <1>1 DEF IInv
  <2>3. QED
    BY <1>1, <2>1, <2>2, ListedAreWhole
<1>2. IInv => GraceWindow
  BY <1>1 DEF GraceWindow
<1>3. QED
  BY <1>2, Invariance, PTL

\* data_received removes a segment before it rewrites the index, which is
\* harmless: the index on disk names only complete files at every moment, as
\* long as fewer operations failed than there are stale segments kept.
THEOREM IndexAlwaysServable ==
  ASSUME Windowed PROVE Spec => []IndexServable
<1>1. ASSUME IInv, NEW f \in IndexFiles, index[f].own,
             failures < STALE_TO_KEEP
      PROVE  Listed(index[f]) \subseteq whole
  <2>1. n - index[f].at <= STALE_TO_KEEP
    BY <1>1, LimitAssumption, BoundAssumption DEF IInv, LagInv, TypeOK, Playlist
  <2>2. index[f] \in Playlist
    BY <1>1 DEF IInv, TypeOK
  <2>3. TypeOK /\ Retention /\ PlaylistInv(index[f])
    BY <1>1 DEF IInv
  <2>4. QED
    BY <1>1, <2>1, <2>2, <2>3, ListedAreWhole
<1>2. IInv => IndexServable
  BY <1>1 DEF IndexServable
<1>3. QED
  BY <1>2, Invariance, PTL

\* get_current_sequence agrees with get_active_segments in every index file.
THEOREM SequenceIsFirst == Spec => []SequenceNamesFirst
<1>1. ASSUME IInv, NEW f \in IndexFiles, index[f].at > 0
      PROVE  index[f].seq = index[f].lo
  <2>1. /\ HasActive(index[f].at) /\ index[f].at \in Nat
        /\ index[f].seq = CurrentSequence(index[f].at)
        /\ index[f].lo = FirstActive(index[f].at)
    BY <1>1 DEF IInv, TypeOK, Playlist, PlaylistInv
  <2>2. QED
    BY <2>1, LimitAssumption DEF HasActive, CurrentSequence, FirstActive
<1>2. IInv => SequenceNamesFirst
  BY <1>1 DEF SequenceNamesFirst
<1>3. QED
  BY <1>2, Invariance, PTL

\* The .m3u8 file follows the .m3u file, at a distance of one rewrite and one
\* more for each failed operation.
THEOREM IndexFilesInOrder == Spec => []M3u8FollowsM3u
<1>1. IInv => M3u8FollowsM3u
  BY BoundAssumption
  DEF IInv, TypeOK, Playlist, IndexFiles, OrderInv, LagInv, PlaylistInv,
      M3u8FollowsM3u
<1>2. QED
  BY <1>1, Invariance, PTL

-----------------------------------------------------------------------------
(* An index file of an earlier incarnation. *)

\* While an index file is not the running process's own, each segment beyond the
\* first active_limit is one whose index failed, or is being added.
OldInv ==
  \A f \in IndexFiles :
    ~index[f].own => ~HasActive(n - failures - (IF pc \in Behind(f) THEN 1 ELSE 0))

LEMMA OldStep == IInv /\ OldInv /\ [Next]_vars => OldInv'
<1> SUFFICES ASSUME IInv, OldInv, [Next]_vars, NEW g \in IndexFiles, ~index[g].own'
             PROVE  ~HasActive(n - failures - (IF pc \in Behind(g) THEN 1 ELSE 0))'
  BY DEF OldInv
<1> USE LimitAssumption, BoundAssumption
    DEF IInv, TypeOK, Playlist, IndexFiles, OldInv, Behind, HasActive, disk
<1>1. CASE DataReceived
  BY <1>1 DEF DataReceived
<1>2. CASE WriteSegment
  BY <1>2 DEF WriteSegment, UpdatePc
<1>3. CASE DeleteStale
  BY <1>3 DEF DeleteStale, UpdatePc
<1>4. ASSUME NEW f \in IndexFiles, OpenIndex(f)
      PROVE  ~HasActive(n - failures - (IF pc \in Behind(g) THEN 1 ELSE 0))'
  BY <1>4 DEF OpenIndex, OpenPc, WritePc
<1>5. ASSUME NEW f \in IndexFiles, FlushIndex(f)
      PROVE  ~HasActive(n - failures - (IF pc \in Behind(g) THEN 1 ELSE 0))'
  BY <1>5 DEF FlushIndex, WritePc
<1>6. ASSUME NEW f \in IndexFiles, CloseIndex(f)
      PROVE  ~HasActive(n - failures - (IF pc \in Behind(g) THEN 1 ELSE 0))'
  BY <1>6 DEF CloseIndex, WritePc, UpdateInv
<1>7. CASE Finish
  BY <1>7 DEF Finish, UpdatePc
<1>8. CASE OperationFails
  BY <1>8 DEF OperationFails
<1>9. CASE ProcessDies
  BY <1>9 DEF ProcessDies
<1>10. CASE Restart
  BY <1>10 DEF Restart
<1>11. ASSUME NEW f \in IndexFiles, Poll(f)
       PROVE  ~HasActive(n - failures - (IF pc \in Behind(g) THEN 1 ELSE 0))'
  BY <1>11 DEF Poll
<1>12. CASE UNCHANGED vars
  BY <1>12 DEF vars
<1>13. QED
  BY <1>1, <1>2, <1>3, <1>4, <1>5, <1>6, <1>7, <1>8, <1>9, <1>10, <1>11, <1>12
  DEF Next, Step

\* After a restart the index files are replaced as soon as there are active
\* segments, if no operation fails.
THEOREM RestartReplacesIndex == Spec => []OldIndexReplaced
<1>1. Init => OldInv
  BY LimitAssumption DEF Init, OldInv, HasActive, Behind, NoPlaylist, IndexFiles
<1>2. IInv /\ OldInv => OldIndexReplaced
  <2> SUFFICES ASSUME IInv, OldInv, NEW f \in IndexFiles, ~index[f].own
               PROVE  ~HasActive(n - failures - 1)
    BY DEF OldIndexReplaced
  <2>1. ~HasActive(n - failures - (IF pc \in Behind(f) THEN 1 ELSE 0))
    BY DEF OldInv
  <2>2. n \in Nat /\ failures \in Nat
    BY BoundAssumption DEF IInv, TypeOK
  <2> QED BY <2>1, <2>2, LimitAssumption DEF HasActive
<1>3. QED
  BY <1>1, <1>2, Invariance, OldStep, PTL DEF Spec

-----------------------------------------------------------------------------
(* What a viewer sees. *)

\* The playlist a viewer has is not newer than the one on disk.
ViewerInv ==
  \A f \in IndexFiles :
    viewer[f].own => index[f].own /\ viewer[f].at <= index[f].at

LEMMA ViewerStep == IInv /\ ViewerInv /\ [Next]_vars => ViewerInv'
<1> SUFFICES ASSUME IInv, ViewerInv, [Next]_vars PROVE ViewerInv'
  OBVIOUS
<1> USE DEF IInv, TypeOK, Playlist, IndexFiles, ViewerInv
<1>1. ASSUME NEW f \in IndexFiles, OpenIndex(f) PROVE ViewerInv'
  BY <1>1 DEF OpenIndex, PlaylistInv
<1>2. ASSUME NEW f \in IndexFiles, FlushIndex(f) PROVE ViewerInv'
  BY <1>2 DEF FlushIndex
<1>3. ASSUME NEW f \in IndexFiles, CloseIndex(f) PROVE ViewerInv'
  BY <1>3 DEF CloseIndex
<1>4. ASSUME NEW f \in IndexFiles, Poll(f) PROVE ViewerInv'
  BY <1>4 DEF Poll
<1>5. CASE Restart
  BY <1>5 DEF Restart
<1>6. CASE UNCHANGED <<index, viewer>>
  BY <1>6
<1>7. QED
  BY <1>1, <1>2, <1>3, <1>4, <1>5, <1>6
  DEF Next, Step, vars, DataReceived, WriteSegment, DeleteStale, Finish,
      OperationFails, ProcessDies

\* Within an incarnation no viewer sees the stream go back.
THEOREM ViewersMoveForward == Spec => ViewerMovesForward
<1>1. Init => ViewerInv
  BY DEF Init, ViewerInv, NoPlaylist
<1>2. ASSUME IInv, IInv', ViewerInv, [Next]_vars, NEW f \in IndexFiles,
             viewer[f].own, viewer'[f].own
      PROVE  viewer[f].seq <= viewer'[f].seq /\ viewer[f].at <= viewer'[f].at
  <2>1. viewer[f].at <= viewer'[f].at
    <3>1. CASE \E g \in IndexFiles : Poll(g)
      BY <1>2, <3>1 DEF Poll, ViewerInv, IInv, TypeOK, Playlist, IndexFiles
    <3>2. CASE Restart
      BY <1>2, <3>2 DEF Restart, IInv, TypeOK, Playlist
    <3>3. CASE UNCHANGED viewer
      BY <1>2, <3>3 DEF IInv, TypeOK, Playlist
    <3> QED
      BY <1>2, <3>1, <3>2, <3>3
      DEF Next, Step, vars, DataReceived, WriteSegment, DeleteStale, Finish, OpenIndex,
          FlushIndex, CloseIndex, OperationFails, ProcessDies
  <2>2. /\ viewer[f].at \in Nat /\ viewer'[f].at \in Nat
        /\ viewer[f].at > 0 /\ viewer'[f].at > 0
        /\ viewer[f].seq = CurrentSequence(viewer[f].at)
        /\ viewer'[f].seq = CurrentSequence(viewer'[f].at)
    BY <1>2 DEF IInv, TypeOK, Playlist, PlaylistInv
  <2> QED BY <2>1, <2>2, LimitAssumption DEF CurrentSequence
<1>3. IInv /\ IInv' /\ ViewerInv /\ [Next]_vars =>
        [\A f \in IndexFiles : viewer[f].own /\ viewer'[f].own =>
          viewer[f].seq <= viewer'[f].seq /\ viewer[f].at <= viewer'[f].at]_viewer
  BY <1>2
<1>4. QED
  BY <1>1, <1>3, Invariance, ViewerStep, PTL DEF Spec, ViewerMovesForward

-----------------------------------------------------------------------------
(* The promise of a live stream. *)

\* A process that can not die has no index file of an earlier one.
AliveInv ==
  /\ restarts = 0 /\ pc # "down"
  /\ \A f \in IndexFiles : ~index[f].own => Listed(index[f]) = {}
  /\ pc = "delete" => n - Kept \in whole

LEMMA AliveStep ==
  ASSUME MaxRestarts = 0, IInv, AliveInv, [Next]_vars
  PROVE  AliveInv'
<1> USE LimitAssumption DEF IInv, TypeOK, Playlist, IndexFiles, AliveInv, Listed, disk
<1>1. CASE DataReceived
  BY <1>1 DEF DataReceived
<1>2. CASE WriteSegment
  BY <1>2 DEF WriteSegment, UpdatePc, Retention, Kept
<1>3. CASE DeleteStale
  BY <1>3 DEF DeleteStale, UpdatePc
<1>4. ASSUME NEW f \in IndexFiles, OpenIndex(f) PROVE AliveInv'
  BY <1>4 DEF OpenIndex, WritePc
<1>5. ASSUME NEW f \in IndexFiles, FlushIndex(f) PROVE AliveInv'
  BY <1>5 DEF FlushIndex, WritePc, UpdateInv
<1>6. ASSUME NEW f \in IndexFiles, CloseIndex(f) PROVE AliveInv'
  BY <1>6 DEF CloseIndex, WritePc, UpdateInv
<1>7. CASE Finish
  BY <1>7 DEF Finish, UpdatePc
<1>8. CASE OperationFails
  BY <1>8 DEF OperationFails
<1>9. CASE ProcessDies \/ Restart
  BY <1>9 DEF ProcessDies, Restart
<1>10. ASSUME NEW f \in IndexFiles, Poll(f) PROVE AliveInv'
  BY <1>10 DEF Poll
<1>11. CASE UNCHANGED vars
  BY <1>11 DEF vars
<1>12. QED
  BY <1>1, <1>2, <1>3, <1>4, <1>5, <1>6, <1>7, <1>8, <1>9, <1>10, <1>11 DEF Next, Step

\* What is listed is there while fewer operations fail than stale segments are kept.
ListedThere == \A f \in IndexFiles : Listed(index[f]) \subseteq whole

LEMMA AliveListsFiles ==
  ASSUME Windowed, MaxFailures < STALE_TO_KEEP, IInv, AliveInv
  PROVE  ListedThere
<1> SUFFICES ASSUME NEW f \in IndexFiles PROVE Listed(index[f]) \subseteq whole
  BY DEF ListedThere
<1>1. CASE ~index[f].own
  BY <1>1 DEF AliveInv
<1>2. CASE index[f].own
  <2>1. n - index[f].at <= STALE_TO_KEEP
    BY <1>2, LimitAssumption, BoundAssumption DEF IInv, LagInv, TypeOK, Playlist
  <2>2. index[f] \in Playlist /\ PlaylistInv(index[f]) /\ TypeOK /\ Retention
    BY DEF IInv, TypeOK
  <2> QED BY <1>2, <2>1, <2>2, ListedAreWhole
<1> QED BY <1>1, <1>2

\* Every step of the indexer is one of the live stream, or none.
LEMMA StreamStep ==
  ASSUME Windowed, MaxRestarts = 0, MaxFailures < STALE_TO_KEEP,
         IInv, AliveInv, ListedThere', [Next]_vars
  PROVE  [Stream!Next]_(Stream!vars)
<1> USE LimitAssumption
<1>0. /\ n \in Nat /\ whole \subseteq 1 .. n /\ index \in [IndexFiles -> Playlist]
  BY DEF IInv, TypeOK
<1>1. ASSUME NEW f \in IndexFiles, NEW p \in Playlist, p.lo \in 1 .. n, p.hi \in Int, p.hi <= n,
             index' = [index EXCEPT ![f] = p], UNCHANGED <<n, whole>>
      PROVE  Stream!Publish(f)
  <2>1. PICK a, b \in 1 .. n + 1 : a .. b = p.lo .. p.hi
    <3>1. CASE p.hi >= p.lo
      <4>1. p.lo \in 1 .. n + 1 /\ p.hi \in 1 .. n + 1
        BY <1>0, <1>1, <3>1
      <4> QED BY <4>1
    <3>2. CASE p.hi < p.lo
      <4>1. (n + 1) .. n = p.lo .. p.hi /\ n \in 1 .. n + 1 /\ n + 1 \in 1 .. n + 1
        BY <1>0, <1>1, <3>2
      <4> QED BY <4>1
    <3> QED BY <1>1, <3>1, <3>2
  <2>2. index'[f] = p
    BY <1>0, <1>1
  <2>3. a .. b \subseteq whole
    BY <1>1, <2>1, <2>2 DEF ListedThere, Listed
  <2>4. [g \in IndexFiles |-> Listed(index[g])]'
          = [[g \in IndexFiles |-> Listed(index[g])] EXCEPT ![f] = a .. b]
    BY <1>0, <1>1, <2>1 DEF Listed
  <2> QED BY <1>1, <2>3, <2>4 DEF Stream!Publish
<1>2. CASE WriteSegment
  BY <1>2 DEF WriteSegment, Stream!Next, Stream!Produce
<1>3. CASE DeleteStale
  <2>1. n - Kept \in whole /\ whole' = whole \ {n - Kept} /\ UNCHANGED <<n, index>>
    BY <1>3 DEF DeleteStale, AliveInv
  <2>2. ASSUME NEW f \in IndexFiles, NEW j \in Listed(index[f])
        PROVE  n - Kept < j
    <3>1. index[f].own
      BY <2>2 DEF AliveInv
    <3>2. n <= index[f].at + failures + 1 /\ failures < STALE_TO_KEEP
      BY <1>3, <3>1, BoundAssumption
      DEF DeleteStale, IInv, LagInv, TypeOK, Playlist, Behind, IndexFiles
    <3>3. /\ index[f].lo = FirstActive(index[f].at) /\ HasActive(index[f].at)
          /\ index[f].at \in Nat /\ failures \in Nat
      BY <3>1, BoundAssumption DEF IInv, PlaylistInv, TypeOK, Playlist
    <3>4. ActiveLimit > 0
      BY <1>3 DEF DeleteStale, Windowed, IInv, Retention
    <3> QED BY <1>0, <2>2, <3>2, <3>3, <3>4 DEF Listed, FirstActive, Kept, Playlist
  <2>3. Stream!Expire(n - Kept)
    BY <2>1, <2>2 DEF Stream!Expire
  <2> QED BY <2>1, <2>3 DEF Stream!Next
<1>4. ASSUME NEW f \in IndexFiles, OpenIndex(f)
      PROVE  Stream!Publish(f)
  <2> DEFINE p == [seq |-> CurrentSequence(n), lo |-> FirstActive(n),
                   hi |-> FirstActive(n) - 1, at |-> n, end |-> FALSE, own |-> TRUE]
  <2>1. HasActive(n)
    BY <1>4 DEF OpenIndex, OpenPc, IInv, UpdateInv, IndexFiles
  <2>2. FirstActive(n) \in 1 .. n /\ CurrentSequence(n) \in Nat
    BY <1>0, <2>1 DEF HasActive, FirstActive, CurrentSequence
  <2>3. p \in Playlist /\ p.lo \in 1 .. n /\ p.hi \in Int /\ p.hi <= n
    BY <1>0, <2>2 DEF Playlist
  <2>4. index' = [index EXCEPT ![f] = p] /\ UNCHANGED <<n, whole>>
    BY <1>4 DEF OpenIndex, disk
  <2> QED BY <1>1, <2>3, <2>4
<1>5. ASSUME NEW f \in IndexFiles, FlushIndex(f) \/ CloseIndex(f)
      PROVE  Stream!Publish(f)
  <2>1. /\ index[f] \in Playlist /\ index[f].own /\ index[f].at = n /\ HasActive(n)
        /\ closed \in BOOLEAN
    BY <1>5 DEF FlushIndex, CloseIndex, WritePc, IInv, TypeOK, UpdateInv, IndexFiles
  <2>2. index[f].lo \in 1 .. n
    BY <1>0, <2>1 DEF IInv, PlaylistInv, HasActive, FirstActive
  <2>3. PICK p \in Playlist : p.lo = index[f].lo /\ p.hi <= n
                             /\ index' = [index EXCEPT ![f] = p]
    <3>1. CASE FlushIndex(f)
      <4>1. PICK h \in (index[f].hi + 1) .. n : index' = [index EXCEPT ![f].hi = h]
        BY <3>1 DEF FlushIndex
      <4>2. [index[f] EXCEPT !.hi = h] \in Playlist
        BY <2>1, <4>1 DEF Playlist
      <4>3. [index[f] EXCEPT !.hi = h].lo = index[f].lo /\ [index[f] EXCEPT !.hi = h].hi <= n
        BY <1>0, <2>1, <4>1 DEF Playlist
      <4> QED BY <4>1, <4>2, <4>3
    <3>2. CASE CloseIndex(f)
      <4>1. [index[f] EXCEPT !.hi = n, !.end = closed] \in Playlist
        <5>1. index'[f] \in Playlist
          BY TypeStep DEF IInv, TypeOK
        <5> QED BY <1>0, <3>2, <5>1 DEF CloseIndex
      <4>2. index' = [index EXCEPT ![f] = [index[f] EXCEPT !.hi = n, !.end = closed]]
        BY <1>0, <3>2 DEF CloseIndex
      <4>3. /\ [index[f] EXCEPT !.hi = n, !.end = closed].lo = index[f].lo
            /\ [index[f] EXCEPT !.hi = n, !.end = closed].hi <= n
        BY <1>0, <2>1 DEF Playlist
      <4> QED BY <4>1, <4>2, <4>3
    <3> QED BY <1>5, <3>1, <3>2
  <2>4. p.hi \in Int /\ UNCHANGED <<n, whole>>
    BY <1>5, <2>3 DEF FlushIndex, CloseIndex, Playlist, disk
  <2> QED BY <1>1, <2>2, <2>3, <2>4
<1>6. CASE DataReceived \/ Finish \/ OperationFails \/ (\E f \in IndexFiles : Poll(f))
           \/ UNCHANGED vars
  BY <1>6 DEF DataReceived, Finish, OperationFails, Poll, vars, disk, Stream!vars
<1>7. CASE ProcessDies \/ Restart
  BY <1>7 DEF ProcessDies, Restart, AliveInv
<1> QED BY <1>2, <1>3, <1>4, <1>5, <1>6, <1>7 DEF Next, Step, Stream!Next

\* The indexer keeps the promise of a live stream as long as fewer operations fail
\* than stale segments are kept and the process lives.
THEOREM ImplementsLiveStream ==
  ASSUME Windowed, MaxRestarts = 0, MaxFailures < STALE_TO_KEEP
  PROVE  Spec => LiveStream
<1>1. Init => AliveInv /\ Stream!Init
  <2>1. Listed(NoPlaylist) = {}
    BY DEF Listed, NoPlaylist
  <2> QED BY <2>1 DEF Init, AliveInv, Stream!Init
<1>2. IInv /\ AliveInv => ListedThere
  BY AliveListsFiles
<1>3. IInv /\ AliveInv /\ [Next]_vars => AliveInv'
  BY AliveStep
<1>4. IInv /\ AliveInv /\ ListedThere' /\ [Next]_vars => [Stream!Next]_(Stream!vars)
  BY StreamStep
<1>5. QED
  BY <1>1, <1>2, <1>3, <1>4, Invariance, PTL DEF Spec, LiveStream, Stream!Spec

-----------------------------------------------------------------------------
(* The disk. *)

OnDisk == whole \cup torn \cup old
Incarnations(r) == r * (Kept + 1)

\* The files of the running process that no failed operation has left.
Counted ==
  LET kept == IF n < Kept THEN n ELSE Kept IN
  IF pc = "down" THEN 0
  ELSE IF pc \in {"write_segment", "delete"} THEN kept + 1 ELSE kept

DiskInv ==
  /\ IsFiniteSet(OnDisk)
  /\ (whole \cup torn) \cap old = {}
  /\ pc = "write_segment" => n + 1 \in torn
  /\ pc = "delete" => n - Kept \in whole
  /\ Cardinality(OnDisk) <= Incarnations(restarts) + failures + Counted

LEMMA DiskStep ==
  ASSUME DeleteInactive, TypeOK, Retention, DiskInv, [Next]_vars
  PROVE  DiskInv'
<1> USE LimitAssumption, BoundAssumption
<1>0. /\ n \in Nat /\ failures \in Nat /\ restarts \in Nat /\ Kept \in Nat
      /\ Incarnations(restarts) \in Nat /\ IsFiniteSet(OnDisk)
      /\ Cardinality(OnDisk) \in Nat
      /\ whole \subseteq 1 .. n /\ torn \subseteq {n + 1}
  BY FS_CardinalityType DEF TypeOK, Kept, Incarnations, DiskInv
<1>1. CASE DataReceived
  <2>1. /\ OnDisk' = OnDisk \cup {n + 1} /\ pc = "idle" /\ pc' = "write_segment"
        /\ UNCHANGED <<n, failures, restarts>>
        /\ torn' = torn \cup {n + 1} /\ old' = old \ {n + 1} /\ UNCHANGED whole
    BY <1>0, <1>1 DEF DataReceived, OnDisk
  <2>2. IsFiniteSet(OnDisk') /\ Cardinality(OnDisk') <= Cardinality(OnDisk) + 1
    <3>1. /\ IsFiniteSet(OnDisk \cup {n + 1})
          /\ Cardinality(OnDisk \cup {n + 1}) =
               IF n + 1 \in OnDisk THEN Cardinality(OnDisk) ELSE Cardinality(OnDisk) + 1
      BY <1>0, FS_AddElement
    <3> QED BY <1>0, <2>1, <3>1
  <2>3. Counted' = Counted + 1
    BY <1>0, <2>1 DEF Counted, Kept
  <2>4. Incarnations(restarts)' = Incarnations(restarts) /\ Cardinality(OnDisk') \in Nat
    BY <2>1, <2>2, FS_CardinalityType DEF Incarnations, Kept
  <2>5. Counted \in Nat
    BY <1>0 DEF Counted
  <2>6. Cardinality(OnDisk') <= Incarnations(restarts)' + failures' + Counted'
    BY <1>0, <2>1, <2>2, <2>3, <2>4, <2>5 DEF DiskInv
  <2> QED BY <1>0, <2>1, <2>2, <2>6 DEF DiskInv
<1>2. CASE WriteSegment
  <2>1. /\ n + 1 \in torn /\ n' = n + 1 /\ torn' = torn \ {n + 1} /\ whole' = whole \cup {n + 1}
        /\ UNCHANGED <<old, failures, restarts>> /\ pc = "write_segment"
        /\ pc' = IF n + 1 > Kept THEN "delete" ELSE UpdatePc(n + 1)
    BY <1>2 DEF WriteSegment, DiskInv
  <2>2. OnDisk' = OnDisk
    BY <2>1 DEF OnDisk
  <2>3. Counted' = Counted
    BY <1>0, <2>1 DEF Counted, UpdatePc, Kept
  <2>4. pc' = "delete" => n' - Kept \in whole'
    BY <1>0, <2>1 DEF Retention, UpdatePc, Kept
  <2>5. (whole' \cup torn') \cap old' = {} /\ pc' # "write_segment"
    BY <2>1 DEF DiskInv, UpdatePc
  <2> QED BY <2>1, <2>2, <2>3, <2>4, <2>5 DEF DiskInv, Incarnations, Kept
<1>3. CASE DeleteStale
  <2>1. /\ n - Kept \in whole /\ whole' = whole \ {n - Kept} /\ n > Kept
        /\ UNCHANGED <<n, torn, old, failures, restarts>>
        /\ pc = "delete" /\ pc' = UpdatePc(n)
    BY <1>3 DEF DeleteStale, DiskInv, Retention
  <2>2. n - Kept \in OnDisk /\ OnDisk' = OnDisk \ {n - Kept}
    BY <1>0, <2>1 DEF OnDisk, DiskInv
  <2>3. IsFiniteSet(OnDisk') /\ Cardinality(OnDisk') = Cardinality(OnDisk) - 1
    BY <1>0, <2>2, FS_RemoveElement
  <2>4. Counted = Counted' + 1 /\ Counted' \in Nat
    BY <1>0, <2>1 DEF Counted, UpdatePc, Kept
  <2>5. Incarnations(restarts)' = Incarnations(restarts)
    BY <2>1 DEF Incarnations, Kept
  <2>6. Cardinality(OnDisk') <= Incarnations(restarts)' + failures' + Counted'
    BY <1>0, <2>1, <2>3, <2>4, <2>5 DEF DiskInv
  <2> QED BY <2>1, <2>3, <2>6 DEF DiskInv, UpdatePc
<1>4. ASSUME UNCHANGED <<n, whole, torn, old, failures, restarts>>,
             pc \notin {"write_segment", "delete", "down"},
             pc' \notin {"write_segment", "delete", "down"}
      PROVE  DiskInv'
  BY <1>4 DEF DiskInv, OnDisk, Counted, Incarnations, Kept
<1>5. ASSUME NEW f \in IndexFiles, OpenIndex(f) \/ FlushIndex(f) \/ CloseIndex(f)
      PROVE  DiskInv'
  BY <1>4, <1>5 DEF OpenIndex, FlushIndex, CloseIndex, OpenPc, WritePc, disk
<1>6. CASE Finish
  BY <1>4, <1>6 DEF Finish, UpdatePc, disk
<1>7. CASE OperationFails
  <2>1. /\ UNCHANGED <<n, whole, torn, old, restarts>> /\ pc' = "idle" /\ pc # "down"
        /\ failures' = failures + 1
    BY <1>7 DEF OperationFails, disk
  <2>2. OnDisk' = OnDisk /\ Incarnations(restarts)' = Incarnations(restarts)
    BY <2>1 DEF OnDisk, Incarnations, Kept
  <2>3. Counted <= Counted' + 1 /\ Counted \in Nat /\ Counted' \in Nat
    <3>1. Kept' = Kept
      BY DEF Kept
    <3> DEFINE kept == IF n < Kept THEN n ELSE Kept
    <3>2. Counted' = kept
      BY <1>0, <2>1, <3>1 DEF Counted
    <3>3. Counted = kept \/ Counted = kept + 1
      BY <2>1 DEF Counted
    <3>4. kept \in Nat
      BY <1>0
    <3> QED BY <3>2, <3>3, <3>4
  <2>4. Cardinality(OnDisk') <= Incarnations(restarts)' + failures' + Counted'
    <3>1. Cardinality(OnDisk) <= Incarnations(restarts) + failures + Counted
      BY DEF DiskInv
    <3>2. Cardinality(OnDisk') = Cardinality(OnDisk) /\ failures' = failures + 1
      BY <2>1, <2>2
    <3>3. Incarnations(restarts)' = Incarnations(restarts)
      BY <2>2
    <3> DEFINE files == Cardinality(OnDisk)
               crashed == Incarnations(restarts)
               counted == Counted
               countedNext == Counted'
    <3>4. /\ files \in Nat /\ crashed \in Nat /\ counted \in Nat /\ countedNext \in Nat
          /\ files <= crashed + failures + counted /\ counted <= countedNext + 1
      BY <1>0, <2>3, <3>1
    <3> HIDE DEF files, crashed, counted, countedNext
    <3>5. files <= crashed + (failures + 1) + countedNext
      BY <1>0, <3>4
    <3> QED BY <3>2, <3>3, <3>5 DEF files, crashed, countedNext
  <2> QED BY <2>1, <2>2, <2>4 DEF DiskInv
<1>8. CASE ProcessDies
  <2>1. /\ UNCHANGED <<n, whole, torn, old, failures>> /\ pc' = "down" /\ pc # "down"
        /\ restarts' = restarts + 1
    BY <1>8 DEF ProcessDies, disk
  <2>2. OnDisk' = OnDisk /\ Counted' = 0
    BY <2>1 DEF OnDisk, Counted
  <2>3. Incarnations(restarts)' = Incarnations(restarts) + Kept + 1
    BY <1>0, <2>1 DEF Incarnations, Kept
  <2>4. Counted <= Kept + 1 /\ Counted \in Nat
    BY <1>0, <2>1 DEF Counted
  <2> QED BY <1>0, <2>1, <2>2, <2>3, <2>4 DEF DiskInv
<1>9. CASE Restart
  <2>1. /\ n' = 0 /\ whole' = {} /\ torn' = {} /\ pc = "down" /\ pc' = "idle"
        /\ UNCHANGED <<failures, restarts>> /\ OnDisk' = OnDisk
    BY <1>9 DEF Restart, OnDisk
  <2>2. Counted = 0 /\ Counted' = 0
    BY <1>0, <2>1 DEF Counted, Kept
  <2> QED BY <2>1, <2>2 DEF DiskInv, Incarnations, Kept
<1>10. CASE UNCHANGED <<n, disk, pc, failures, restarts>>
  BY <1>10 DEF DiskInv, OnDisk, Counted, Incarnations, Kept, disk
<1> QED
  BY <1>1, <1>2, <1>3, <1>5, <1>6, <1>7, <1>8, <1>9, <1>10 DEF Next, Step, vars, Poll, disk

\* With delete_inactive_segments the disk does not fill: each incarnation leaves a
\* window of files, and each failed operation one more.
THEOREM DiskStaysBounded == Spec => []DiskBounded
<1>1. Init => DiskInv
  BY LimitAssumption, FS_EmptySet DEF Init, DiskInv, OnDisk, Counted, Incarnations, Kept
<1>2. DeleteInactive /\ TypeOK /\ Retention /\ DiskInv /\ [Next]_vars => DiskInv'
  BY DiskStep
<1>3. TypeOK /\ DiskInv => DiskBounded
  <2> SUFFICES ASSUME TypeOK, DiskInv PROVE DiskBounded
    OBVIOUS
  <2>1. /\ restarts \in Nat /\ failures \in Nat /\ Kept \in Nat /\ n \in Nat
        /\ Cardinality(OnDisk) \in Nat
    BY LimitAssumption, BoundAssumption, FS_CardinalityType DEF TypeOK, Kept, DiskInv
  <2>2. Counted <= Kept + 1 /\ Counted \in Nat
    BY <2>1 DEF Counted
  <2>3. Incarnations(restarts) + Kept + 1 = (restarts + 1) * (Kept + 1)
    BY <2>1 DEF Incarnations
  <2>4. Incarnations(restarts) \in Nat
    BY <2>1 DEF Incarnations
  <2> QED BY <2>1, <2>2, <2>3, <2>4 DEF DiskInv, DiskBounded, OnDisk
<1>4. IInv => TypeOK /\ Retention
  BY DEF IInv
<1>5. CASE DeleteInactive
  BY <1>1, <1>2, <1>3, <1>4, <1>5, Invariance, PTL DEF Spec
<1>6. CASE ~DeleteInactive
  <2>1. DiskBounded
    BY <1>6 DEF DiskBounded
  <2> QED BY <2>1, PTL
<1>7. QED
  BY <1>5, <1>6

-----------------------------------------------------------------------------
(* Deletion. *)

\* A segment file is removed only once no index file, of this process or of an
\* earlier one, lists it: what HTTPStream.py:82 says of delete_inactive_segments
\* holds for a limited indexer and fewer failures than stale segments.
THEOREM DelistedBeforeDeleted ==
  ASSUME Windowed, MaxFailures < STALE_TO_KEEP
  PROVE  Spec => DeletedAfterDelisted
<1> USE LimitAssumption, BoundAssumption
<1>1. ASSUME IInv, OldInv, DeleteStale, NEW f \in IndexFiles
      PROVE  n - Kept \notin Listed(index[f])
  <2>1. /\ n \in Nat /\ failures \in Nat /\ failures < STALE_TO_KEEP /\ index[f] \in Playlist
        /\ n > Kept /\ ActiveLimit > 0 /\ pc \in Behind(f)
    BY <1>1 DEF IInv, TypeOK, Retention, DeleteStale, Windowed, Behind
  <2>2. index[f].own
    BY <1>1, <2>1 DEF OldInv, HasActive, Kept
  <2>3. /\ n <= index[f].at + failures + 1 /\ index[f].at \in Nat
        /\ index[f].lo = FirstActive(index[f].at)
    BY <1>1, <2>1, <2>2 DEF IInv, LagInv, PlaylistInv, Playlist
  <2>4. n - Kept < index[f].lo
    BY <2>1, <2>3 DEF FirstActive, Kept
  <2> QED BY <2>1, <2>4 DEF Listed, Playlist
<1>2. ASSUME IInv, OldInv, [Next]_vars, NEW k \in whole \ whole', NEW f \in IndexFiles, n' # 0
      PROVE  k \notin Listed(index[f])
  <2>1. CASE DeleteStale
    BY <1>1, <1>2, <2>1 DEF DeleteStale
  <2>2. CASE WriteSegment
    BY <1>2, <2>2 DEF WriteSegment
  <2>3. CASE Restart
    BY <1>2, <2>3 DEF Restart
  <2>4. CASE UNCHANGED whole
    BY <1>2, <2>4
  <2> QED
    BY <1>2, <2>1, <2>2, <2>3, <2>4
    DEF Next, Step, vars, disk, DataReceived, Finish, OpenIndex, FlushIndex, CloseIndex,
        OperationFails, ProcessDies, Poll
<1>3. IInv /\ OldInv /\ [Next]_vars =>
        [\A k \in whole \ whole', f \in IndexFiles :
           k \notin Listed(index[f]) \/ restarts' # restarts \/ n' = 0]_disk
  BY <1>2
<1>4. Init => OldInv
  BY DEF Init, OldInv, HasActive, Behind, NoPlaylist, IndexFiles
<1>5. QED
  BY <1>3, <1>4, Invariance, OldStep, PTL DEF Spec, DeletedAfterDelisted

-----------------------------------------------------------------------------
(* The end of the stream, without its fairness. *)

\* finish writes no segment, and has ended the first index before the second.
EndInv ==
  closed => /\ pc \notin {"write_segment", "delete"}
            /\ pc \in {"open_m3u8", "write_m3u8"} => index["m3u"].end

\* A call of finish that returns, neither raising nor dying, leaves ENDLIST in both
\* index files.
FinishEnds ==
  [][closed /\ pc \notin {"idle", "down"} /\ pc' = "idle" /\ failures' = failures
       => \A f \in IndexFiles : index'[f].end]_vars

LEMMA EndStep ==
  ASSUME TypeOK, EndInv, [Next]_vars
  PROVE  EndInv'
<1> USE DEF EndInv, TypeOK, IndexFiles, disk
<1>1. CASE DataReceived
  BY <1>1 DEF DataReceived
<1>2. CASE WriteSegment \/ DeleteStale
  BY <1>2 DEF WriteSegment, DeleteStale, UpdatePc
<1>3. ASSUME NEW f \in IndexFiles, OpenIndex(f) PROVE EndInv'
  BY <1>3 DEF OpenIndex, OpenPc, WritePc
<1>4. ASSUME NEW f \in IndexFiles, FlushIndex(f) PROVE EndInv'
  BY <1>4 DEF FlushIndex, WritePc
<1>5. ASSUME NEW f \in IndexFiles, CloseIndex(f) PROVE EndInv'
  BY <1>5 DEF CloseIndex, WritePc, Playlist
<1>6. CASE Finish
  BY <1>6 DEF Finish, UpdatePc
<1>7. CASE OperationFails \/ ProcessDies \/ Restart
  BY <1>7 DEF OperationFails, ProcessDies, Restart
<1>8. ASSUME NEW f \in IndexFiles, Poll(f) PROVE EndInv'
  BY <1>8 DEF Poll
<1>9. CASE UNCHANGED vars
  BY <1>9 DEF vars
<1> QED BY <1>1, <1>2, <1>3, <1>4, <1>5, <1>6, <1>7, <1>8, <1>9 DEF Next, Step

\* The safety half of EndListPublished: what finish publishes when it returns.
THEOREM FinishPublishesEnd == Spec => FinishEnds
<1>1. Init => EndInv
  BY DEF Init, EndInv
<1>2. ASSUME TypeOK, EndInv, [Next]_vars, closed, pc \notin {"idle", "down"},
             pc' = "idle", failures' = failures, NEW f \in IndexFiles
      PROVE  index'[f].end
  <2>1. ~(DataReceived \/ Finish \/ ProcessDies \/ Restart \/ UNCHANGED vars)
    BY <1>2 DEF DataReceived, Finish, ProcessDies, Restart, vars
  <2>2. ~(WriteSegment \/ DeleteStale)
    BY <1>2 DEF WriteSegment, DeleteStale, EndInv
  <2>3. ~OperationFails
    <3>1. failures \in Nat /\ failures' = failures
      BY <1>2, BoundAssumption DEF TypeOK
    <3> SUFFICES ASSUME failures' = failures + 1 PROVE FALSE
      BY DEF OperationFails
    <3> QED BY <3>1
  <2>4. ~ \E g \in IndexFiles : OpenIndex(g) \/ FlushIndex(g) \/ Poll(g)
    BY <1>2 DEF OpenIndex, FlushIndex, Poll, WritePc
  <2>5. CloseIndex("m3u8")
    BY <1>2, <2>1, <2>2, <2>3, <2>4 DEF Next, Step, CloseIndex, IndexFiles
  <2> QED BY <1>2, <2>5 DEF CloseIndex, WritePc, EndInv, TypeOK, IndexFiles, Playlist
<1>3. TypeOK /\ EndInv /\ [Next]_vars =>
        [closed /\ pc \notin {"idle", "down"} /\ pc' = "idle" /\ failures' = failures
           => \A f \in IndexFiles : index'[f].end]_vars
  BY <1>2
<1>4. TypeOK /\ EndInv /\ [Next]_vars => EndInv'
  BY EndStep
<1>5. QED
  BY <1>1, <1>3, <1>4, TypeCorrect, PTL DEF Spec, FinishEnds

\* What a call has still to do: file operations, and lines of the file it writes.
Operations ==
  CASE pc = "write_segment" -> 6
    [] pc = "delete" -> 5
    [] pc = "open_m3u" -> 4
    [] pc = "write_m3u" -> 3
    [] pc = "open_m3u8" -> 2
    [] pc = "write_m3u8" -> 1
    [] OTHER -> 0
Lines ==
  CASE pc = "write_m3u" -> n - index["m3u"].hi
    [] pc = "write_m3u8" -> n - index["m3u8"].hi
    [] OTHER -> 0

\* Every statement of a call leaves it less to do.
CallProgresses ==
  [][Step => /\ Lines' \in Nat
             /\ \/ Operations' < Operations
                \/ Operations' = Operations /\ Lines' < Lines]_vars

\* The other half but for the fairness: no call of data_received or finish goes on
\* for ever, since its operations and lines left decrease in their lexical order.
THEOREM CallsReturn == Spec => CallProgresses
<1>1. ASSUME IInv, IInv', Step
      PROVE  /\ Lines' \in Nat
             /\ \/ Operations' < Operations
                \/ Operations' = Operations /\ Lines' < Lines
  <2>1. Lines' \in Nat
    BY <1>1 DEF IInv, TypeOK, Playlist, PlaylistInv, UpdateInv, Lines, IndexFiles
  <2>2. ASSUME WriteSegment PROVE Operations' < Operations
    <3>1. pc = "write_segment" /\ pc' \in {"delete", "open_m3u", "idle"}
      BY <2>2 DEF WriteSegment, UpdatePc
    <3> QED BY <3>1 DEF Operations
  <2>3. ASSUME DeleteStale PROVE Operations' < Operations
    <3>1. pc = "delete" /\ pc' \in {"open_m3u", "idle"}
      BY <2>3 DEF DeleteStale, UpdatePc
    <3> QED BY <3>1 DEF Operations
  <2>4. ASSUME NEW f \in IndexFiles, OpenIndex(f) PROVE Operations' < Operations
    BY <2>4 DEF OpenIndex, OpenPc, WritePc, Operations, IndexFiles
  <2>5. ASSUME NEW f \in IndexFiles, FlushIndex(f)
        PROVE  Operations' = Operations /\ Lines' < Lines
    <3>1. PICK h \in (index[f].hi + 1) .. n : index' = [index EXCEPT ![f].hi = h]
      BY <2>5 DEF FlushIndex
    <3>2. index[f].hi \in Int /\ index'[f].hi = h /\ h > index[f].hi
      BY <1>1, <3>1 DEF IInv, TypeOK, Playlist
    <3>3. pc = WritePc(f) /\ pc' = pc /\ n' = n /\ n \in Nat
      BY <1>1, <2>5 DEF FlushIndex, IInv, TypeOK
    <3> QED BY <3>2, <3>3 DEF WritePc, Operations, Lines, IndexFiles
  <2>6. ASSUME NEW f \in IndexFiles, CloseIndex(f) PROVE Operations' < Operations
    BY <2>6 DEF CloseIndex, WritePc, Operations, IndexFiles
  <2> QED BY <1>1, <2>1, <2>2, <2>3, <2>4, <2>5, <2>6 DEF Step
<1>2. IInv /\ IInv' /\ [Next]_vars =>
        [Step => /\ Lines' \in Nat
                 /\ \/ Operations' < Operations
                    \/ Operations' = Operations /\ Lines' < Lines]_vars
  BY <1>1
<1>3. QED
  BY <1>2, Invariance, PTL DEF Spec, CallProgresses
=============================================================================
