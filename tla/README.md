# Verification of django-webservice-tools

TLA+ modules, TLC configurations and TLAPS proofs for the parts of
django-webservice-tools whose correctness depends on the order in which things
happen. Paths are relative to `src/webservice_tools/`. Every finding, hazard, run,
mutant and mapped line is listed in `PROJECT.json`.

    tlc -workers 2 -config HlsLive.cfg MCHlsIndexer     # a run: config, module
    tlapm FriendsProofs.tla                             # the proofs of a module

## 1. The system

A toolbox for Python 2, Django 1.3 and Twisted services rather than one program: a
set of Django applications (requests served by several worker processes that share
one database), a set of Twisted modules (one reactor thread, callbacks) and a small
library that segments live media for HTTP streaming (called synchronously, its files
read by players through a web server).

| component | state | operations | talks to | hard behaviour | what makes it correct |
|---|---|---|---|---|---|
| HLS indexer, `lib/ApMediaStreamServer/ap_streamer/HTTPStream.py` | the list of segments, segment files, two index files | `data_received`, `finish` | called by a segmenter; files read by players at any moment | players read between any two file operations; operations fail; the process dies and starts over in the same directory | an index names complete, present segments; sequence numbers name the first of them; what was published stays fetchable for a while; the disk is bounded; the end is published |
| Media pipeline, `.../core.py` | the segmenter's buffer and chunk count; the FileWriter's file and counter | `data_received`, `finish`, `check_buffer`, `send` | elements call the elements connected to them | an element that raises aborts the chain of calls, of sending or of finishing, half-way | no byte is lost or overtaken, blocks have the promised size, an element is finished only with the whole stream |
| WebSocket server, `twisted/websocket.py` | per connection: handshake, handler, decoder buffer and length | handshakes 75 and 76, `dataReceived`, `loseConnection`, `_connectionLost` | Twisted's HTTP channel; the application's handler, which calls back | TCP cuts the stream anywhere; the handler closes or raises inside a callback; losses at any time | exactly the frames of the stream, in order; bounded memory; one connectionMade, one connectionLost |
| Friends, `apps/friends` | tables of requests, friendships, groups | request, accept, ignore, withdraw, unfriend, create and delete a group | database shared by all workers; signals | check-then-insert by concurrent read-committed transactions; rollbacks | one pending request per pair, none among friends; friendship mutual and asked for; unique group names; all of it until two requests to the service overtake each other on the same subject, and then on that subject only |
| Badges and messages, `apps/badges`, `response_util.py` | awarded badges; messages of the response being built; signal receivers | award on `post_save`; `message_sent` | signals between models and responses | look-up before insert by concurrent threads; messages sent before the insert; one receiver per process, held by a weak reference | a one-time badge is awarded twice only by requests that overlap; a response announces the awards of its own request |
| User accounts, `apps/user`, `views.py` | users, profiles, sessions, passwords | register, update, log in and out, reset and change the password | database, session store, mail | saves of whole rows read earlier; mail between a save and its COMMIT; logins under `SINGLE_SESSION` that overlap; sessions written after the COMMIT, or after the rollback of a login that failed | a password is known to its user; a login ends the sessions it can see; addresses are shared only after a race |
| Social networks, `apps/social`, `db_utils.py` | network settings, credentials, tokens in sessions | register, callback, save with encryption | OAuth providers, accounts | requests of one browser overlap while they wait for the provider; dirty-field comparison against the database; rollbacks that do not include the session | one credential per user and network, of the user who asked for it; keys encrypted once; no session names an account of a transaction that has not ended |
| Receipts, `apps/in_app_purchase` | receipts | verify, insert, redeem | Apple's servers | see below | a receipt is redeemed once |
| Database pool, `twisted/dbutil.py` | query backlog, outage clock | `execute`, `callProc`, emptying the backlog | MySQL, memcached | see below | a backlogged query completes once |
| Utilities, `utils.py`, `decorators.py`, `urbanairship.py` | site settings cache, process-wide socket timeout | remote calls, retry, paging, conversions | remote services | retries, process-wide state changed by threads | documented numbers of attempts, page bounds |
| Middleware, `middleware/` | none | transactions, exceptions, logging | every request | rollback on exceptions | part of `Friends`, `Social`, `Badges` and `Accounts` |
| the rest | none that outlives a call | generators, deployment scripts, templates, encoders (C), PayPal client, vendored packages in `misc/` | | | |

Two components cannot run at this commit, and a model of them would be one of
another program. The receipt handler uses the name `consts` (`handlers.py:44`), which
its module never imports: every receipt ends in a NameError. The pool's backlog is
never filled: `establishConnection` creates a plain `adbapi.ConnectionPool`
(`dbutil.py:502`), and the error paths that would queue a query raise NameError (857,
the import at 28 is commented out) or TypeError (611 passes one argument too few to
660).

## 2. Modules

| module | models | state and actions |
|---|---|---|
| `LivePlaylist` | what a live stream promises, independent of files | `newest`, `available`, `listed`; `Produce`, `Publish`, `Expire` |
| `FrameStream` | what a WebSocket session promises the handler, without chunks, buffers and closing | `heard`, `given`, `over`; `Hear`, `Give`, `End` |
| `FriendGraph` | what the friends application does, without tables, queries and transactions | `pending`, `friends`, `named`; `Ask`, `Befriend`, `Settle`, `Part`, `Name`, `Forget`; `contested` and the `Late...` actions are what requests that overtake each other may do |
| `HlsIndexer` | `Indexer`, `IndexerSegmentHandler`, `IndexerSegment` | one action per file operation, `pc` is the next one; `n` is `len(_segments)`; `whole`/`torn`/`old` are the files; `index` what is in the index files, `viewer` what players last read |
| `MediaPipeline` | `Segmenter`, `FileWriter`, `Element.send`, `finish_connected` | bytes are numbered, a block is an interval; `next` is the element that is called next, to be sent to or to be finished; `Writer` is the FileWriter's place among them |
| `WebSocketSession` | one connection of `websocket.py` | bytes are `z` (\x00), `f` (\xff), `c`; one action per turn of the decoder's loop, because each turn can call the handler |
| `Friends` | the handlers and tables of `apps/friends` | one step per query of a worker; the last write and COMMIT are one step, because nothing of a transaction is visible before; `behind` are the workers on whose two users, or group, another one has committed since they began, `contested` what such a worker has written |
| `Social` | the handlers and tables of `apps/social`, login and logout of `apps/user` | one step per wait of a worker: for the provider, for the database, for the session store; a worker carries the copy of the session that it loaded, in a login or logout too; `made` are accounts that callbacks made, those of transactions that were rolled back included |
| `NetworkKeys` | rows of `SocialNetwork` in the admin site, `save`, `isDirty` | a text is a secret and how often it was encrypted; a form is shown, posted, written |
| `Badges` | `BaseBadge.callback`, `BadgeToUser.save`, the signal `message_sent`, `ResponseObject` | a request is served by a thread, a signal stays in the thread's process; one action per query of the callback; `awards` are committed rows, `made` those of the transaction, `told` the messages of the response, `before` the awards committed when the request began |
| `Accounts` | the handlers and forms of `apps/user`, `newResetPass` and `changePass` of `views.py` | one action per query or wait of a worker; `copy` is the user's row as the request has read it; a reset that waits for its mail holds the lock of the row; sessions are written after the COMMIT; `lost` are accounts that were rolled back after their login, whose sessions are written all the same |
| `HlsIndexerProofs`, `MediaPipelineProofs`, `WebSocketSessionProofs`, `FriendsProofs`, `SocialProofs`, `NetworkKeysProofs`, `BadgesProofs`, `AccountsProofs` | proofs | |
| `MC...` | instances for TLC | `MCFriends`, `MCSocial`, `MCNetworkKeys`, `MCBadges` and `MCAccounts` add the symmetry of interchangeable values (only safety properties are checked with it) |

Operators whose name extends that of a mapped definition and whose comment says
`Faulty variant` are what a plausible bug would make of it; nothing uses them. They
are the `mutants` of `PROJECT.json`: with one of them in place of the original the
named property is violated.

Three modules are abstract and map to no code. `HlsIndexer`, `WebSocketSession` and
`Friends` each instantiate one of them with a refinement mapping and state it as a
property: `LiveStream`, `FrameByFrame`, `ServesAtOnce`. A stream and what was delivered
are histories that `WebSocketSession` keeps, and a session is over for `FrameStream` when
a frame was too long or the connection is not up and no chunk is left; in `Friends` a
request of two users is the pair of its row, and a handler's step is the one in which it
commits. A handler that was overtaken (`behind`) may do by halves what it does, or what
should have been refused: `FriendGraph` allows it that, on the rows of its own two users
or group only, and they are `contested` from then on. A handler that was not overtaken has
to make one of the abstract steps, with its guard.

What is abstracted. *HLS:* the media in the segments, target duration and file
names; a player is only its last read of each index. `data_received` is not called
after `finish` (the callers of the library do not), the index path is set before data
arrives, and the test file of `set_index_file_path` is not modelled; `finish_connected`
(HTTPStream.py:141) finishes elements connected behind the indexer and touches none of
its files. *Pipeline:*
`replace=True`, `set_path`, and a write that raises in a file that is open.
*WebSocket:* the headers of a handshake are `acceptable
or not', a callback of the handler may keep the connection, close it or raise (an
exception in `dataReceived` makes the reactor drop the connection), and what the server sends, the hixie-76 response included, is written to the
transport and never looked at again: it is not modelled. *Friends:* the text of a request, members of groups:
`GroupHandler.update` passes the builtin `id` to `objects.get` and so raises TypeError
before it changes anything; reading handlers change nothing. *Social:* what a provider
answers beyond yes or no, the redirects (`last_url`, `from_url`) and the access token in
the session (written, never read), but for the session's being written back because of them. Django's sessions are external and modelled as the
code relies on them: loaded at first use, flushed when another user logs in, written
as a whole after the COMMIT or the rollback, so that the last response decides, but not
when the COMMIT of `TransactionMiddleware` itself fails, which keeps the response from
`SessionMiddleware` (templateproject/settings.py:73, 79); `create_default` is the
site's. A provider's refusal includes keys it cannot read, which is all the social
handlers see of `NetworkKeys`; the two modules are therefore not composed. *NetworkKeys:*
one key stands for the three of a row, handled alike; rows are not deleted, and the
same `isDirty` on the access tokens of credentials edited in the admin site is not
modelled. *Badges:* what `check_badge` of a site decides (either answer is taken), the
text of a message, the images. No badge is configured for the action `be`, so that an
award awards no further badge. *Accounts:* names (the database keeps them unique, and a
name is the account's id), the profile, inserted and rolled back with its user, and the
content of sessions but for their user; an address is compared as the forms do, ignoring
its case. A password is a number, 0 the empty one; which old password a request of
`changePass` gives is left open, because the code does not depend on it in the way its
message says (section 3).

## 3. Runs

| run | question | size |
|---|---|---|
| `hls_live` | A stream of 8 segments, players polling at every step, one failure, one death with a restart: does what was published stay fetchable, do sequence numbers name the first segment, do viewers only move forward, is the disk bounded, is an old index replaced, do the two index files stay together? | 1.0 M states |
| `hls_stream` | Up to 3 failures: does the index on disk always name complete, present segments, does the indexer implement `LivePlaylist`, and is ENDLIST published? | 0.24 M states, liveness |
| `hls_unlimited` | Are files deleted only after they left the index, with `active_limit=0`? No | violation |
| `pipeline` | Three elements, both modes, with and without partial blocks, two calls that raise in sending or finishing: does every element get every byte, are blocks of the right size, is an element finished only with the whole stream, do the files hold it? | 1.8 M states |
| `ws_session` | Every stream of 8 bytes in every chunking of up to 4, closes and losses at any time: exactly its frames, bounded buffer, loss reported, is the session a `FrameStream`, which gives nothing after its end, by a frame that was too long or otherwise? The handler's callbacks close or raise | 0.11 M states |
| `friends_requests` | Two workers that interleave query by query, rollbacks anywhere: do the handlers implement `FriendGraph`, where each request to the service is a single step and nobody asks a friend, until they overtake each other, and are requests of one pair, duplicates by one worker and friends nobody asked excluded? | 1.7 M states |
| `friends_groups` | Three workers on the groups of two users: unique names and `FriendGraph`, until a worker writes a name after another one? | 0.25 M states |
| `social` | Two workers, one browser, three kinds of network, logins and logouts at any time, callbacks that fail after their login: credentials doubled only by two workers, permissions with who asked, no session of an account whose transaction has not ended? | 4.3 M states |
| `network_keys` | Three forms on two rows, four saves: is a key unreadable only by a form shown before the last save? | 0.11 M states |
| `badges` | Two threads of a process, two users, a badge won once and one won often, three awards, rollbacks anywhere: does no request award a one-time badge to who had it when it began, nor a thread twice, does a response announce its own awards and others only of the same user's requests? Deadlock checked | 4.4 M states |
| `accounts` | Two accounts and an address, two workers, mail and logins that fail, rollbacks anywhere: is every password known to its user, does a login end the other sessions, are addresses shared only after a race? Deadlock checked | 2.0 M states |
| `accounts_partial` | Does an account keep a password its user can log in with? Not when an update leaves it out | violation |

**Bounds, and why they are enough.** *HLS:* `ActiveLimit` 2 and the code's own
`STALE_TO_KEEP` 4 make seven files the steady state; 8 segments reach two deletions
after the first index. Properties that tolerate failures are stated with the number of
failures and checked up to the last number at which they hold. *Pipeline:* a limit of
3 with reads of up to 7 gives a read that fills two blocks and leaves a rest, and enough
blocks for two files; with three elements there is one before and one behind the writer,
and with two failures a retry that fails again. *WebSocket:* `MAX_LENGTH` 3 with 8 bytes allows two
complete frames, a frame that is too long in one read and one that becomes so over
several. *Friends:* requests of other pairs never meet, since no handler reads them, so
that two users are enough, and two workers, one to be overtaken and one to overtake; three
requests are one more than two workers can duplicate. Groups share nothing with requests
and have a run of their own: two names of two owners, three workers on them. *Social:* two workers overlap as any number do
pairwise; three callbacks are a pair that races and one that meets its result; two
tokens are a stale and a current one; one member and two new accounts let a session
belong to two users. *NetworkKeys:* three forms are two stale ones and a fresh one.
*Badges:* a second award of a badge needs two, an announcement that goes to the wrong
response two threads of one process; the third award lets a response announce two.
*Accounts:* two workers overlap pairwise, three session keys are two that race and one
that was there, two passwords are one that is replaced and its replacement.
The modules' main properties are also proved
for all constants (section 4). `CHECK_DEADLOCK FALSE` is set where the system may stop:
a stream ends, a connection closes, ids are bounded.

**Fairness.** Only `hls_stream` needs any: `WF_vars(Step)`, where `Step` is the
statements of a call that has begun. The code is sequential and its file operations
return, so a call that has begun runs to its end unless it fails or the process dies.
No fairness is assumed of the source of the media, of players or of failures.

**Findings.** Two runs expect a violation.
1. `hls_unlimited`: with `active_limit=0`, documented as `it will not limit them`
   (HTTPStream.py:81), segments are deleted while the index still names them (45-46
   does not treat 0 as unlimited as 49 and 57 do).
2. `accounts_partial`: `ExtModelForm` is there `to allow updating an instance without
   providing EVERY single field` (forms.py:12), but `BaseUserForm.clean_password`
   (apps/user/forms.py:28) hashes the empty password of an update that gives none, and
   `save` copies every value that is true: the user can not log in again.

**Observations**, met while modelling, which the properties allow for and no run
repeats.
- *Pipeline.* Once a connected element raised in chunk mode the count (core.py:84)
  stays at its limit, and each later `data_received` raises `More chunks than possible`
  (88) while the buffer grows; `BlockSizes` says that nothing else leads there.
  `FileWriter.finish` closes its file and keeps it, so that a `finish` repeated after a
  failure further on raises in the writer.
- *WebSocket.* The nonce of hixie-76 is whatever the first read holds (websocket.py:176):
  one that arrives in pieces is padded with zeros, and its rest decoded as frames. A
  handler that closes its own session is never told by `connectionLost` (372 forgets it;
  `LossReported` excepts it). A frame of exactly `MAX_LENGTH` bytes is refused, because
  the leading byte is counted (462), against the comment at 426.
- *Friends.* The check-then-insert of requests and groups lets two workers insert both,
  and later `objects.get` of the pair raises MultipleObjectsReturned; an acceptance that
  is overtaken by a removal, or the reverse, leaves one row of a friendship, and one that
  is overtaken by a withdrawal makes friends without a request. The properties say that
  nothing else does: whatever was not written by a handler that had been overtaken
  (`contested`) is as if each request had been served at a single moment.
- *Badges.* The same, with `AwardedTwiceOnlyByRace`: afterwards every save of that user
  raises. A response that begins while another of its process lives is not connected
  (response_util.py:33), and `AnnouncedExactly` excepts it; the response that lived before
  it announces its awards instead, if the user is the same, even when they are rolled back
  (`joined`). A refused update of a user (user/handlers.py:105) still announces the badges
  of the profile it rolled back. The
  example `BadgesEarnedBadge` (`Though it does work`, models.py:131) can not:
  `check_badge` takes two arguments (148) and is called with three (117).
- *Accounts.* Two accounts of one address (`AddressesUnique` says how they come about)
  make the authentication by email raise for both. `LoginHandler` lower-cases the name
  (136), registration stores it as it is given. `changePass` refuses only new passwords
  that differ together with an old one that is right (views.py:174), and saves an
  absent new one.
- *Social.* `isDirty`, which `tells you whether or not it has been altered since the
  last save()` (db_utils.py:54), says so of an unaltered key when another form has
  replaced it, and the ciphertext is encrypted again, so that `This field is encrypted`
  (apps/social/models.py:16) holds but for `UnreadableByStaleForm`. The callbacks of
  gowalla and latitude pass `timeout` (handlers.py:443, 516), no field of
  `UserNetworkCredentials`, and always end in a TypeError; those of the other networks can
  fail at the same place, after `login()`. The account made for a visitor is rolled back,
  and the session, written all the same, goes on naming it: `request.user` is anonymous
  then. The same holds for a registration that fails after its `login()` (`lost` in
  `Accounts`). `SessionsOfEndedTransactions` says what remains true of sessions: an account
  they name has been committed or rolled back, it is not still open.

## 4. Proofs

For every value of the constants, from the named assumptions of the modules
(`LimitAssumption`, `BoundAssumption`, `SizeAssumption`, `LengthAssumption`,
`NetworkAssumption`, `SaveAssumption`, `AwardAssumption`) and those stated with a theorem.

**HlsIndexerProofs.** `TypeCorrect`, `ViewersHaveGrace` (`GraceWindow`, for the limited
indexer: assumption `Windowed`, which finding 1 shows to be needed),
`IndexAlwaysServable` (`IndexServable`), `SequenceIsFirst`, `IndexFilesInOrder`. The
properties are not inductive: whether deleting a segment harms an index depends on how
old that index can be. The invariant `IInv` therefore adds
- `Retention`: the last `Kept` segments are whole (all of them when nothing is ever
  deleted), which the order write, delete, index gives;
- `PlaylistInv`: an index and a viewer's copy name a part of the window that ended at
  the segment `at` at which it was written;
- `UpdateInv`: what `pc` says about the two index files during a rewrite;
- `LagInv`: an index is behind `n` by at most the number of failures, plus the update
  in progress;
- `OrderInv`: the .m3u8 file is never ahead of the .m3u file.

Each part is preserved by every action (one lemma per part, one step per action), and
`ListedAreWhole` combines `Retention` with the lag: what is `Kept` beyond the active
window is exactly what the lag may use up.

On top of `IInv`, each with an invariant of its own:
- `RestartReplacesIndex` (`OldIndexReplaced`) by `OldInv`: while an index file is an
  earlier process's, each segment beyond the first `active_limit` failed to be indexed;
- `ViewersMoveForward` by `ViewerInv`: a viewer's playlist is not newer than the file;
- `ImplementsLiveStream`: the step of every action is one of `LivePlaylist` or a stutter,
  for a process that lives (`MaxRestarts = 0`), a limited indexer (`Windowed`) and fewer
  failures than stale segments; `AliveInv` says that a process without a predecessor
  finds no index of one;
- `DiskStaysBounded` (`DiskBounded`) by `DiskInv`: the files are at most a window and one
  per past process, one per failure, and those the running process still counts;
- `DelistedBeforeDeleted` (`DeletedAfterDelisted`) is the other side of finding 1: what
  `hls_unlimited` refutes for `active_limit=0` holds for every limited indexer with fewer
  failures than stale segments, through deaths and restarts. The lag of an index is then
  less than what is kept beyond it; an earlier process's index is covered by `OldInv`.

Two theorems are the safety half of `EndListPublished`: `FinishPublishesEnd`, by `EndInv`
(an ended stream writes no segment, and has ended the first file before it opens the
second): a `finish` that writes the indexes and returns leaves ENDLIST in both; and
`CallsReturn`, by a variant (the operations left, then the lines left of the file that
is written): no call goes on for ever. What is left to TLC is that a call which can go on
does, the fairness itself.

**MediaPipelineProofs.** For any limit and any number of elements: `TypeCorrect`;
`StreamWithoutGap` (`GapInv`: an element that was called in this round has the block, the
others the one before, and a block that was given but not cut off is paid for by a
failure); `FinishGivesAll` (`FinishedInv`: whom a finishing segmenter has called has the
stream to its end); `BlocksSized` (`SizeInv`: something is kept back for finish, and it is
no more than a block); `FilesHoldAll` (`FilesHoldBlocks`, by `FilesInv`: the files laid end
to end are what the writer was given, `inFile` is the length of the one that is open, and
when none is open all are full). `FlattenSeq` of the community modules is a recursive
function. The prover has no induction over it, but takes a least counterexample
(`LeastOf`, from the well-foundedness of the naturals): so `FlattenSeqIs` says that the
function exists, and `FlattenAppend` and `FlattenExtend` what a new file and a longer last
file make of it.

**WebSocketSessionProofs.** For any `MAX_LENGTH` and any stream: `TypeCorrect` (with
`CallsInv`: which callback was called in which phase); `BufferStaysBounded` and
`SilentAfterExceeded` (`BufferInv`: once a frame was too long the counter stays above the
limit, so that every later turn of the loop ends there); `LossIsReported` (`LossInv`:
while the connection is there, a handler that has not closed it is attached). That a
chunk with a \xff has a first one is `LeastOf`, by the well-foundedness of the naturals.

`FramesDelivered` (`DecodedExactly`) says that the decoder, which looks at chunks, finds
the frames of the stream, which are defined by where they end. Its invariant `DecodeInv`
says of the place `Seen`, up to which the stream has been decoded: what is left of the
chunk is the rest of the stream; the k-th frame delivered is the one at the k-th good end
(`DeliveredAt`); and, as long as no frame was too long, as many frames
were delivered as there are ends up to `Seen`, and the buffer holds the stream since the
last of them (`Synchronous`). `Rank`, the number of ends up to a place, orders the frames
(`RankNext`, `RankLess`, `RankUnique`), so that no induction over the stream is needed;
`FramesStay` says that a longer stream begins with the same frames. From it follows
`ImplementsFrameStream` (`FrameByFrame`): each turn of the loop gives the next frame,
or nothing.

**FriendsProofs.** For any users and any number of workers, interleaved query by query:
`TypeCorrect`, `DuplicatesNeedRace`, `FriendshipFollowsRequest`, `RequestsUncontested`
(`OneRequestPerPair`), `FriendsSettled`, `FriendsMutual`, `GroupNames`, and
`HandlersServeAtOnce` (`ServesAtOnce`, the refinement of `FriendGraph`). The argument is
about workers between their look-up and their write:
- `RaceInv`: a worker past its look-ups has itself no pending request of the pair.
  With it a second request of the same pair and worker is impossible;
- `AskedInv`: a request that exists, or that a worker holds in order to accept it, was
  asked for, and the rows a worker is about to insert are of that pair;
- `FreshInv`: what a worker has read (`Stage`) still holds unless it is `behind`. A write
  changes rows of its own keys only (`Outside`), and every worker with such a key is
  behind from then on;
- `RowsInv`: one request per pair, none among friends, both rows of a friendship or none,
  one group per name, of all that is not `contested`. A write by a worker that is not
  behind keeps it by `FreshInv`, any other one contests what it has written.

**SocialProofs.** `TypeCorrect`, `DuplicatesNeedTwoWorkers`, `PermissionsStay`,
`SessionsNameEnded` (`SessionsOfEndedTransactions`), each by an invariant of its own about what a request still
relies on after its wait:
- `RaceInv`: a worker about to replace credentials has, of the rows it inserted itself
  for that pair, every one among those it deletes;
- `TokenInv`: a request token that a user asked for is in that user's hands wherever it
  is: in a session, in the copy a request works on, in a callback, in a row. A login
  flushes the tokens of another user, a stale write of a session brings its user back
  together with its tokens (`LoginOwns`, `KeptTokenOwned`, `OwnershipLasts`);
- `AccountInv`: the account that an open callback is making is no other callback's, and
  only that callback's copy of the session names it; copies and sessions name an account
  whose transaction has ended (`Ended`), or nobody.

**NetworkKeysProofs.** `TypeCorrect`, `UnreadableNeedsStaleForm`, by `FormInv`: a form
shown since the last save holds the row's text, or a typed key encrypted once.

**BadgesProofs.** For any threads, processes and badges: `TypeCorrect`; `TwiceNeedsRace`
(`RaceInv`: a thread about to insert a one-time badge sees no row of it that it inserted
itself, in this request or an earlier one, nor one that was committed when it began);
`ResponsesAnnounce` (`TellInv`: a response that began alone is its process's receiver until
it is freed, and has been told what its transaction has inserted for its user; what else it
has been told is of another thread of the process, and has made it `joined`).

**AccountsProofs.** For any users, addresses and workers: `TypeCorrect` (`TypeInv`: a
session that is going to be saved has a key that was issued and an account that exists or
was rolled back);
`NoLostPassword` (`KnownInv`: so is every password that a request has read or mailed);
`LoginEndsSessions` (`LoggedOutInv`: a session of the user is one that the login is going
to delete, or was saved since it looked); `SharedAddressNeedsRace` (`FreeInv`: without a
race, what a worker that is not behind has found free is free when it writes).
`BlankNeedsUpdate` delimits finding 2: by `FilledInv` (what a login or a reset is going to
write is a password), only the saving of an update or a `changePass` that gave none makes
a password blank, however the saves of whole rows interleave.

**Only model-checked.** `EndListPublished`: fairness and ENABLED are out of the prover's
reach; its safety half is proved (`FinishPublishesEnd`, `CallsReturn`). Every other property
of a passing run is proved for all constants. The violations of `hls_unlimited` and
`accounts_partial` are TLC's.

## 5. What is not modelled, and the plan

The map covers a small share of the lines of Python and C in `src/`, and no model could
cover much of it: nine tenths are copies of third-party packages in `misc/` and
`lib/` (PyXML, pydevd, codecs), and of the rest most is conversions between formats,
clients of remote services and generators, without state. Left out for a reason each:
- the pool's backlog and the receipts, which cannot run (section 1);
- the encoders, which buffer as the segmenter does in byte mode and then call C;
- connecting elements to a segmenter while data flows, `replace=True`, and a write that
  raises in an open file: nothing in the repository does the former, and what a torn
  file holds is up to the file system;
- `makeAPICall`'s process-wide timeout and memcache's get-and-delete (hazards without a
  property);
- `retry`, paging and truncation: sequential functions that a unit test exhausts.

Done: `HlsIndexer` with `LivePlaylist`, `WebSocketSession`, `Friends`, `MediaPipeline`,
`Social`, `NetworkKeys`, `Badges`, `Accounts`, and proofs of all of them; the refinements
of `LivePlaylist`, `FrameStream` and `FriendGraph`, checked and proved. What would add
most next:
1. `MediaPipeline` composed with `HlsIndexer` as one of its elements: a segment for every
   block, whatever raises, and an index that ends when the segmenter is finished.
2. `Accounts` composed with `Social`: both create accounts and write sessions.
3. Credentials edited in the admin site while a callback replaces them, in `NetworkKeys`.
