# zaresd in TLA+

zaresd is the storage server of an instant-messaging system (a C++ rewrite of TeamTalk's
database proxy). Message servers connect to it; it stores messages, contacts, groups and file
records in MySQL, keeps unread counters in memory, and answers each request once. This
directory holds TLA+ modules that model it, TLC configurations that check them on small
instances, and TLAPS proofs for every instance. Paths below are relative to `src/`.

## 1. The system

| part | source | state | operations |
|---|---|---|---|
| server life cycle | `zaresd/zaresd_server.cc`, `client_comm_manager.cc` | the network engine, the acceptor | `Initialize`, `Destroy`, `SendSessionData` |
| client connections | `zaresd/client_comm_handler.cc` | open sessions | `OnNewConnection`, `OnDataReceived`, `OnConnectionClosed`, on one reactor thread |
| handler threads | `zaresd/zares_handler_thread*.{h,cc}` | thread pool, its size, a sequence number, one message loop per thread | `Run`, `Shutdown`, `GetNextThread`, `PostDataToDbHandler`, `OnMessageDataHandler` |
| message handlers | `zaresd/message_handler/` | none of their own | one `Execute` per kind of packet, 22 of them registered; each ends with one reply |
| relationship manager | `zaresd/model/zares/zares_relationship_manager_impl.cc` | table IMRecentContact | `GetRelateId`, `AddFriendship`, `CheckAndUpdateRelation`, `DeleteRecentContactByUserId`, `GetRecentContactByUserId` |
| message manager | `.../zares_message_manager_impl.cc` | table IMMessage | `SendIMMessage`, `GetMessages`; group, audio and history methods are stubs |
| counter manager | `.../zares_counter_manager_impl.{h,cc}` | three maps in memory behind one lock | increase, look up, clear |
| group manager | `.../zares_group_manager_impl.cc` | tables IMGroup, IMGroupRelation | `CreateGroup`, `JoinGroup`, `QuitGroup`, `GetGroupInfo`, listings |
| file manager | `.../zares_file_manager_impl.cc` | table IMTransmitFile | `SaveFileRecord`, `GetUserFiles`, `GetFileRecord`, `DeleteFileRecord` |
| user, login, department managers | `.../zares_*_manager_impl.cc` | tables nobody here writes | `GetUserInfo`, `GetAllUserInfo`, `Auth`, `GetDepartmentInfos` |
| audio manager | `.../zares_audio_manager_impl.cc` | none | stubs |
| protocol data units | `proto/` | the members of 46 classes | `ByteSize`, `ParseFromArray`, `SerializeToArray` |

Interaction. The reactor takes a packet, echoes it if it is a heartbeat, drops it if no handler
is registered, and otherwise posts it to the next handler thread in turn. That thread parses it
and runs the handler, which calls managers. A manager takes a connection from the pool for the
length of one method, runs one or more SQL statements without a transaction, and gives it back;
the message manager calls the relationship manager before and the counter manager after its own
INSERT. The handler then hands its response to the network engine.

What is hard here:

* there are several handler threads and no transactions, so the statements of two requests
  interleave anywhere (check-then-insert in `AddFriendship` and `JoinGroup`; select-then-update
  in `QuitGroup` and the deletion of files; lists that are put together from two SELECTs);
* a statement may fail between two others, and most results are ignored;
* counters are in memory and tables are not: a restart empties only the first, and the process
  may die between the INSERT and the increment;
* `FindUnreadCount` returns a pointer into a map that is used after the lock is released;
* as many threads as connections share the pool, and methods call each other;
* one session's requests are spread over all threads;
* every class of `proto/` lists its members three times by hand, to count, to write and to read
  them, and integers that are not read stay uninitialised;
* rows of the database are read by position, with the columns of the SELECT, the enum of their
  numbers and the members they go to written apart from each other;
* times are milliseconds and seconds, kept in 32 bits and compared with each other;
* start may fail half way and its result is ignored; stop must not lose queued tasks.

`PROJECT.json` lists these as hazards, each at its line, with the properties that cover it. Where
the bad outcome is simply what the code does, and nothing in the repository says otherwise, the
hazard names no property and its note says where the model has it.

## 2. The modules

| module | models | role |
|---|---|---|
| `MessageStore` | relationship, message and counter managers with the handlers of MSG_DATA, REMOVE_SESSION, MSG_READ_ACK, UNREAD_MSG, UNREAD_MSG_COUNT, FRIEND_LIST | state machine and its properties |
| `Conversations` | what users of one-to-one messages may rely on | abstract specification that `MessageStore` implements |
| `GroupManager` | group manager and group counters with the handlers of all nine kinds of group requests | state machine and its properties |
| `FileManager` | file manager with the handlers of FILE_ADD_OFFLINE, FILE_DEL_OFFLINE, FILE_HAS_OFFLINE | state machine and its properties |
| `HandlerPool` | server start and stop, connections, dispatch, handler threads, connection pool | state machine and its properties |
| `RequestService` | what a client may rely on | abstract specification that `HandlerPool` implements |
| `Pdu` | the classes of `proto/` and their base class | tables and operators |
| `Rows` | how rows become members of replies: user, login and department managers, `ParseFromDatabase` of the others | tables and operators |
| `Exchange` | a request and its reply as packets: sender, factory, parser, handler's reply, the rows it shows | state machine and its properties |
| `MessageStoreProofs`, `MessageAccountProofs`, `ConversationProofs` | links and contacts; counters and answers of `MessageStore`; the refinement | theorems |
| `GroupManagerProofs`, `GroupCountProofs` | requests, answers and lists; memberCnt of `GroupManager` | theorems |
| `FileManagerProofs` | | theorems |
| `HandlerPoolProofs` | connections, tasks, the refinement; order and dealing out | theorems |
| `ExchangeProofs` | rows in replies | theorems |
| `MCMessageStore`, `MCGroupManager`, `MCFileManager`, `MCHandlerPool`, `MCExchange` | | the requests that TLC's clients send |

Each state machine has one atomic step per thing other threads can see: in the three stores, one
SQL statement or one critical section of the cache's lock; in the pool, one task taken, one
connection taken or given back, one reply. `pc` says which step a thread takes next and `loc`
holds its local variables, so what was read earlier may be stale. `Accept` is the handler up to
its first statement (its checks and early returns); `SendSessionData` is its end.

Definitions that start with the comment "Mutant:" are wrong versions of the definition that
follows them. No specification uses them; they exist so that one can see which mistake in the
code each property would notice (`PROJECT.json`, "mutants").

### MessageStore and Conversations

`contacts` and `messages` are the two tables (a row's id is its index), `counter`, `unread` and
`unreadKeys` the cache, `answers` a history of what clients were told, and `boot` the number of
restarts. `MsgData` goes through `CheckSelect`, `CheckUpdate` (`CheckAndUpdateRelation`),
`GetRelate`, `AddGetRelate`, `AddInsert` (`AddFriendship`), `MsgInsert` and the two
increments. The reads of the cache are two steps, lookup under the lock and access after it;
when another thread writes the same map at that moment (`Racing`) entries may get lost, or the
process dies (`Restart`, possible at any time). `Fault` lets any statement fail.

`Conversations` says what users see of that: a text message is stored at most once, is never lost
again, and is confirmed only after it is stored and counted and refused only if it is not stored;
two users become each other's contacts in one step, and only by a message between them; only a
user himself hides a contact of his, and it is shown again only by a message of his or by one
that makes the two contacts anew; a restart loses requests under way and counts, and nothing
else. `MessageStore` maps `related` to the pairs that have a row, `hidden` to those none of whose
rows is shown, `log` to the table of messages, `counted` to the messages of this boot whose sender
has left `incr_total`, `pending` to the text messages and removals threads work on. Each of
`CheckUpdate`, `AddInsert`, `MsgInsert`, `IncrUserMsgCount`, `Remove`, `SendSessionData` and
`Restart` is then one step of `Conversations` (`Show`, `Relate`, `Store`, `Count`, `Hide`,
`Confirm`, `Refuse` or `Done`, `Restart`) or, when its statement fails or another row still shows
the contact, none; all other steps are invisible. What a removal or an unread list is answered
is no part of it.

### GroupManager

`groups` and `relations` are the tables. `CreateInsert`, `JoinSelect`, `JoinInsert`,
`JoinUpdate`, `JoinCount`, `QuitSelect`, `QuitUpdate`, `QuitCount` are the statements of
`CreateGroup`, `JoinGroup` and `QuitGroup` in their order. `Execute` returns the number of rows
it changed, and the sums that `JoinGroup` and `QuitGroup` make of it, error codes included, are
added to memberCnt as the code does. `GroupChangeMemberRequest` never parses its change type
(`ParsedKinds`), so what a client `asked` and the `kind` it is treated as may differ for every
change, and all runs include that.

`failed` keeps the requests of which a statement failed (so does `failed` of `FileManager`). What
an answer promises is excepted for that request only: a creation or a list must be true
whatever statements of other requests fail.

`ListGroups` and `GetGroupMembers` are the two statements of a list: the groups of a user, by the
SELECT of the request (`GetGroupsByUserId`, `GetRecentGroupsByUserId`, `GetGroupIdsByUserId`),
and then the members of all of them. A LIMIT that is reached leaves any subset of that size,
since the times the rows are ordered by are taken before they are written. `lists` keeps what
was sent, with who was a member of what when the request came (`before`). The group counters
(`group_counter_instance`) are a constant, the empty map, because `IncrGroupMsgCount` is
commented out: `GetUserGroupCount` is translated and always finds 0, although its declaration
and its definition disagree on which parameter is the group. `Stored` is what the tables hold
when the process starts first: groups of type 1 and dissolved ones come from other programs.

### FileManager

`files` is the table. A handler reads the clock when it starts (`loc.now`) and runs its
statement later; `Tick` lets time pass in between. `created` is a time in milliseconds modulo
2^32, as the code stores it, and `made` the time it was taken from (history). `Window` is the
bound of `GetUserFiles`: seconds subtracted from milliseconds, modulo 2^32, printed with `%d`.
`Deletable` is the check of the delete handler, which compares milliseconds with seconds. The
SELECT of `GetFileRecord` and the UPDATE ... LIMIT 1 of `DeleteFileRecord` may hit different rows
of one task id. `accepts` says whether the database takes the INSERT of `SaveFileRecord`.

### HandlerPool and RequestService

`phase` follows `Initialize` and `Destroy`. `RunThreads` either starts all threads or none (a
failed start stops those that ran); its result is ignored, so the server may listen with an
empty pool, and then the first packet with a handler divides by zero (phase "crashed").
`OnDataReceived` deals packets out with `NextThread` and `NextSeq`; a handler makes a number of
manager calls from `Scopes`, each an `Acquire` and a `Release`. `posted`, `done`, `sent`,
`dealt` are histories.

`RequestService` says: requests are taken with fresh ids, each pending one is answered once on
its session, heartbeats are answered at once, and nothing stays pending for ever. A request goes
without an answer only if its session is gone or it is one of `NoAnswer`, and those are never
answered. `HandlerPool` maps `taken` to `posted`, `pending` to the posted tasks that are not
done, `answered` to the ids of the replies sent, `gone` to the sessions that were accepted and
are not open, and `NoAnswer` to `Unanswered`: the packets that cannot be parsed and the requests
whose handler is not found, for a GroupHistoryMsgRequest gives itself the type of
HistoryMsgRequest, which has no handler (`Dispatched`).

### Pdu and Exchange

`Pdu` has one definition per class: the members that ByteSize counts, SerializeToByteStream
writes and ParseFromByteStream reads (`DB` and `Bare` when the three agree). `ByteSize`,
`SerializeToArray` and `ParseFromArray` work on bytes, because the widths 1, 2 and 4, the lengths
before strings and the sizes before lists are what a mistake would confuse. A member that no
method of a class transmits (a user's update time, and in ValidateResponse his name) is left out
of the object.

`Exchange` sends one unit: `Send` serializes it, `Receive` makes a new object of the class
registered for the packet's type, with uninitialised integers, and parses; if zaresd received
it, `Execute` makes the reply as the handler does (one definition per handler: what is copied
from the request and what is read from a row; the rest is any value) and posts it back. `Cut` is
a sender whose version of the class writes less.

`Rows` has, for each table that is listed, the columns in the order of the SELECT and the member
each one goes to in the order of the enum. `ParseFromDatabase` leaves at the first column that is
NULL and the row is listed all the same; `GetColumns` (files) reads each column for itself. The
table has one row, with every column in turn set, zero or NULL (`TableRows` in `Exchange`); the
handlers treat the rows of an answer alike, and what several rows and their changes do is the
subject of the stores. `RowsShown` follows a column from the table through the handler to the
member of the reply that shows it; `DeliveredAsSent` takes it from there to the peer.

### What is assumed of code outside the repository

* MySQL and `db::`: a statement is atomic; one that fails changes no row; `Query` then returns
  NULL, `Execute` 0 or -1, `ExecuteInsertID` 0; `Execute` otherwise returns the number of rows
  changed (`SendIMMessage` compares it with `> 0`); the tables have no unique keys besides their
  ids and new groups and relations have status 1 (the INSERTs name no status and the readers ask
  for `status >= 1`), as have new files.
* `db::MakeQueryString` puts parameters in the places `:1`, `:2`, ... of a statement. What it
  does with `CreateGroup`'s, which has a place `:8` and seven parameters, and with
  `SaveFileRecord`'s, which has the same and also lacks a comma, is left open: the first may be
  refused at any time without counting as a fault, the second always works or never does
  (`Accepts`).
* `DB_GET_RETURN_COLUMN` stores a column in a member, or leaves the `do` block if it cannot.
  `new UserInfo()` and the like set integers to 0, as C++ says of such classes.
* `base::NowMSTime` returns milliseconds in 64 bits and never goes back.
* `db::ScopedPtr_DatabaseConnection` waits for one of `max_conn_count` connections and gives it
  back at the end of its scope.
* `base::Thread::Stop` lets the queue run out before it joins; `PostTask` is first in, first out.
* `net::ByteStream` writes an integer in its full width, a string as a 32-bit length and its
  bytes, and fails for good at the first read beyond its end; a packet carries the type the
  object's constructor gave it.
* the network engine gives every connection a session id of its own, and drops data for a
  session that is closed.

## 3. What TLC checks

Passing runs:

| run | instance | properties |
|---|---|---|
| `MessageStoreSends` | 3 threads, 3 requests: messages between 2 users both ways, removals of their session, acknowledgements and unread counts, 1 fault, 1 restart | `MessagesLinkToPair`, `ContactsMirrored`, `CounterMatchesStore`, `AnswersTellTruth`, `UnreadWithinCounter`, `ImplementsConversations` |
| `MessageStoreHandlers` | 2 threads, every kind of request, accepted and refused, 1 fault, 1 restart, fairness | `TypeOK`, `ImplementsConversations`, `RequestAnswered` |
| `GroupManagerRequests` | 2 threads, 3 requests of 19, all kinds, each change treated either way, on empty tables and on ones with a fixed group that a member has left and a dissolved group, 1 fault, 1 restart | `TypeOK`, `RelationsHaveGroup`, `CreateAnswersTellTruth`, `MemberCntTracks`, `ListsTellTruth`, `QuitOnlyByCreator` |
| `FileManagerTasks` | 3 threads, 3 requests of 8, all kinds, on tables of 0, 1 and 2 files of a task, 3 moments between which the clock wraps, 1 fault, 1 restart, the INSERT taken or not | `TypeOK`, `AnswersTellTruth`, `ReceivedNotListed`, `FreshFilesListed` |
| `HandlerPoolSafety` | 2 threads, 2 sessions, 3 packets of 6 kinds, start to stop | `TypeOK`, `ConnAvailable`, `TaskOwned`, `RepliesInOrder`, `ImplementsService` |
| `HandlerPoolLiveness` | 2 threads, sequence numbers modulo 3, 4 packets, fairness | `Balanced`, `RequestsTreated` |
| `ExchangeUnits` | 43 of the 46 classes, each member set in turn, lists of 0, 1, 2 elements, cut at every byte, 2 values of uninitialised memory, rows with every column set, zero and NULL in turn | `DeliveredAsSent`, `BufferExact`, `ShortRefused`, `ReplyFound`, `RowsShown` |

Runs that end in a violation, each a place where the code does not do what a comment of the
repository says (quoted under "findings" in `PROJECT.json`):

| run | what it shows |
|---|---|
| `MessageStoreRelationRace` | two first messages of a pair insert its relation twice |
| `MessageStoreUnreadOwner` | unread messages are counted for their sender |
| `GroupManagerChangeType` | a request to join a group removes its members, because the change type is not parsed |
| `ExchangeValidate` | ValidateResponse writes its user when result is 0 and reads it when it is not |
| `FileManagerUnreceived` | a file is not listed to its receiver a little later, because seven days are counted as 604800 milliseconds, ten minutes |

Other places where the code does something else than one would expect are modelled as they are,
without a run of their own: a removal of a session that worked is answered with result 1
(`RemoveResult`); `GetMessages` returns none of the rows it found (`UnreadSelect`); group
messages are acknowledged and not stored; the group history request is never answered
(`Dispatched`); the reply to a group's unread messages carries the group's id in the place of
the command's and an uninitialised group_id (`GroupUnreadMsgRequestHandler`); `Auth` accepts a
user that is not stored (`Auth`), whose information is then empty; dissolved groups are listed
(`GetGroupsByUserId`) although `GetGroupInfo` does not find them; a file stored within the first
minutes after the 32-bit clock wrapped cannot be deleted (`Deletable`); adding and deleting a
file are answered with success when the statement failed (`AnswersTellTruth` excepts the failed
statement of that very request and an INSERT that is not taken), and so is a creation whose
relations could not be stored (`CreateAnswersTellTruth` still promises the group). The three classes
that are not in `ExchangeUnits` are GroupChangeMemberRequest and GroupHistoryMsgRequest, whose
receivers do not get what was sent, and ValidateResponse.

Bounds. `MaxReq`, `MaxFault`, `MaxBoot` and `MaxPackets` bound a behaviour's length and nothing
else; when they are used up the threads finish and nothing more happens, so deadlock is not
checked. Three threads with three requests are enough for two to race and a third to see
the result; two users give both directions of a pair, and a message to oneself is in
`MessageStoreHandlers`. `UNREAD_MAX_COUNTER`, `UNREAD_LIST_LIMIT`, `RECENT_LIMIT` are 1
(100, 300, 100 in the code) so that each limit is reached, and so are the limits of the group
lists (2, 2, 2 and 4 for 200, 100, 5000 and 10000) and of the file list (2 for 50): a user comes
to have three relations, a list five. In the group run two threads are enough: each property is
about one handler whose statements another one comes between, and the third request is what
happened before, or is asked after. In `FileManager` a second has 4 milliseconds, a week 2 seconds, and a uint32 32
values, so that a millisecond clock wraps within the run while a week is less
than half a wrap, as in the code. `SEQ` stands for 2^32 and is 3
so that the counter wraps, and is no multiple of the pool's size, as 2^32 is none of 5. User
ids are numbers because the code compares them; threads and sessions are symmetric.

`MemberCntTracks` says that memberCnt, with what handlers under way have yet to add and to take,
never exceeds the active relations, and equals them as long as nobody was removed. With one
removal it still does if the relations a user has to a group were alike when the process started
(`StoredAlike`). Otherwise not: without `StoredAlike` in the property TLC finds a behaviour where the
UPDATE of `QuitGroup` counts every row of the users it found, also a second row of a user that
had left before, because its `updated` changes. Two removals that race between their SELECT and
their UPDATE lower the count twice for one row in the same way. A failed statement or a death of
the process makes the count drift, because relations and count change in separate statements and
error codes are added to it; the property bounds the drift by what each of them can cost
(`Lost`), so that without any the count is exact.

`ListsTellTruth` and `FreshFilesListed` compare an answer with the tables when the request came
and when it was sent: what was there all the time is shown, what was never there is not. A list of
groups may leave members out when a statement of its own failed, or when the groups it lists have
more relations than `MEMBER_LIMIT`, which they share; however large other groups are, it may not.

`ReceivedNotListed` is about every task, also one with several files: of the files of a task that an
answer said is received, no list asked for later shows all. Which of two files the UPDATE hits is
not said, since the code leaves it to the database.

`CreateAnswersTellTruth` is about both answers: 0 names the group stored for the request, 1 means
that there is none, and no request has two. The one exception is the empty list of users, which
`JoinGroup` refuses after `CreateGroup` has stored the group.

Fairness. `FairSpec` of the two modules assumes only that a thread in the middle of a handler
takes its next step: threads run message loops, statements return or fail, and no handler
waits for another. In `HandlerPool` also that a thread with queued tasks goes on and that
`Destroy`, once called, does. Nobody has to connect, send, start or stop. Weak fairness of
`Acquire` is enough only because a thread that wants a connection always finds one
(`ConnAvailable`, proved).

## 4. What is proved

TLAPS proves, for every number of threads, users, sessions and kinds, every bound, every limit
and every set of requests and stored tables, from the named assumptions on the constants
(`...Assumption` in the module that declares them; TLC evaluates them in every run), each
theorem below. Most properties are not inductive; what each proof adds to them was checked
with TLC on a run's instance before it was proved.

* `MessageStoreProofs`: `TypeCorrect`, `MessagesLinked`, `ContactsAlwaysMirrored`,
  `ContactsNeverRebound`. The inductive invariant `IInv` is `TypeOK`, `MessagesLinkToPair`,
  `ContactsMirrored` and two facts about handlers under way: a handler past its checks works for
  real users (`ReqOK`), and one about to store a message has a relateId that is 0 or a row of
  the pair (`RelateOK`). The second is what makes `MessagesLinkToPair` inductive: the id was
  read several steps before it is stored, and stays good because no step ever removes a row or
  changes its users, which is `ContactsNeverRebound`.
* `MessageAccountProofs`: `CountersMatch`, `UnreadBounded`, `AnswersTrue`, on top of that
  invariant. The books (`AccountInv`) need that no stored message carries a later boot than the
  present one (`BootsPast`), or a restart could find messages it counts as its own; then each
  statement moves one thread from one label to the next, and a set that is counted gains or
  loses one element (`AtMoves`). The answers (`AnswerInv`) need that requests at work, stored and
  answered have numbers of their own (`RequestIds`), and how many rows a thread has stored for
  its request at each label (`OwnRow`): none before the INSERT, one after it, and
  `1 - result` when it is about to answer.
* `ConversationProofs`: `ConversationsKept`, the refinement of `Conversations`, on top of all of
  these. Each statement has a lemma that says which step of `Conversations` it is. What they need
  besides (`TalkInv`): the rows that `CheckUpdate` is about to show, read one statement earlier,
  are rows of the request's own contact (`StaleOK`), or it would show somebody else's; only text
  messages reach the INSERT and only removals the UPDATE of `Remove` (`PathsOK`); and what a
  thread has stored it has stored since the last start (`OwnBoot`), so that a message it is about
  to confirm is among those counted. A linked message has its contact because `RelateOK` gives
  the row one way and `ContactsMirrored` the other.
* `GroupManagerProofs`: `TypeCorrect`, `GroupsExist`, `CreationsTrue`, `ListsTrue`,
  `RemovalsByCreator`, `RowsNeverLost`. `IInv` says of each handler, label by label, what it
  has read and that it still holds: the group of its GroupInfo exists, with its type and
  creator (`WorkOK`), although other handlers have worked since; of a creation, that the group
  is its request's and that the users of its list outside `missing` have relations (`CreateOK`);
  of a list, that who was a member before is one now unless somebody was removed, that the
  groups read are all he had unless a limit was reached or its SELECT failed (`GroupsRead`), and
  that what it is about to send is true (`ListTrue`). What was sent stays true (`SentOK`). All of these survive the
  other handlers' steps because rows only grow in number and keep what they are (`RowsKept`,
  itself the theorem `RowsNeverLost`), so one lemma per part deals with all other threads
  (`WorkStays`, `CreateStays`, `ListThreadStays`) and one per statement with the thread that
  moves. That a group has more relations than the limit is never undone either (`CrowdStays`).
  `CreationsTrue` needs a second invariant on top of `IInv` (`SoleInv`, theorem `SoleInductive`):
  requests at work, stored and answered have numbers of their own (`NumbersOK`), and the group
  that is stored for a creation is the one its handler is joining users to, or about to answer
  with 0 (`SoleOK`), so that none is stored before its INSERT and no second one after it.
* `GroupCountProofs`: `MembersCounted`, on top of that invariant. What handlers are still to add
  is a set of units, one for each member a thread has counted, so that sums over the threads are
  cardinalities and one thread's step changes them by its own units (`UnitsMove`). `Drift` is how
  far memberCnt and these sums are off the active relations: a statement leaves it as it is, or
  it failed and a loss pays for the change, or it is the UPDATE of a removal that counted rows
  again (`StepBalance`). Three things had to be added to make that inductive (`CountInv`). The
  upper bound is not about `Drift` but about `Excess`, which leaves out what a join will take: its
  failed statements count -1, which is an excess again if the last UPDATE fails, too. What a
  handler has counted are rows of its group that it did not count before (`CountOK`), so that a
  loss costs no more than `Cost`. And the lower bound needs that a removal finds the relations
  of a user alike, which a failed SELECT of an earlier join can spoil, since it inserts rows for
  users that had left; `SpareOK` says that then what this fault may cost is still unspent, because
  the SELECT itself changes no count.
* `FileManagerProofs`: `TypeCorrect`, `AnswersTrue`, `ReceivedHidden`, `FreshListed`,
  `FilesNeverLost`. `IInv` has the same shape: what a handler read of the clock and of the number
  of files is not newer than the clock (`TimeOK`), a row's `created` is its time as a word
  (`RowsOK`), what a handler has done so far makes its answer true (`AnswerOK`, `ListOK`), and
  what was sent stays true (`SentOK`). `FreshListed` also needs the arithmetic of a wrapping
  word (`NoWrap` and the lemmas after it): it holds because a week, taken for milliseconds, is
  less than half of the word.
* `HandlerPoolProofs`: `TypeCorrect`, `ConnAlwaysAvailable`, `TasksAlwaysOwned`, `Refines`.
  `IInv` adds to `TypeOK` and `TaskOwned`: the connections in use are as many as the threads
  that hold one (`ConnInv`, by cardinality of finite sets; a thread that acquires holds none, so
  at most `max_conn_count - 1` are in use); all threads run while the network is up
  (`PhaseInv`); ids are fresh (`IdInv`); what a thread holds is pending (`TaskInv`) and in one
  place only (`PlaceInv`). The last three give the refinement: a reply finishes exactly the
  task it is for, so the step is `Answer` or `Drop` of a pending request. Which of the two needs
  `ServedInv`: a thread is in a handler only for a task that has one, so that task is not
  `Unanswered`, and the session of a posted task was accepted, so it is open or gone. `LeftInv` keeps the
  number of calls left from going below 0.
  `OrderKept` and `DealtEvenly` are on top of that invariant. Order: a queue is
  in the order of the packets, a thread's task came before its queue and after all it has
  answered (`OrderInv`). Balance: the sequence number is the number of posted tasks modulo
  `SEQ`, and thread i is ahead of thread j by at most the number of wraps, one more if only i
  had its turn in the present round and one less if only j had (`BalanceInv`); the bare
  property is not inductive, since it does not know whose turn is next. A round that wraps
  starts at thread 0 again, wherever it was.
* `ExchangeProofs`: `RowsShownTruly`, `HandlerShows`. A column is read at one position and into
  one member (`AllMatch`, for the five SELECTs and enums), so a member is the column it means or,
  when a NULL ended the reading before its position, what the new object held (`RowParsed`,
  `BlankUnset`). Each of the eight handlers that list puts such objects into the only list of
  its reply (`ReplyShows` and one lemma each). This is so for every request and every row;
  the rows of `TableRows` bound only the runs. The invariant adds that nothing is asked
  before the first unit is sent.

The action properties that are theorems but of no run (`ContactsNeverRebound`, `RowsNeverLost`,
`FilesNeverLost`) are what the other proofs rest on.

Three forms in the models were chosen with the proofs in mind: `JoinInsert` takes the missing
users as places in the request's list, put in order by `InOrder`; a request without a task id
carries `NoTask`; and `MemberCntTracks` sums over the threads with `Units`. The sums are why
`GroupThreadsAssumption` says that there are finitely many threads, as of any process.

Only model-checked:

* liveness (`RequestAnswered`, `RequestsTreated`): fairness and ENABLED are out of the prover's
  reach;
* the properties of `Exchange` but for `RowsShown` (`DeliveredAsSent`, `BufferExact`,
  `ShortRefused`, `ReplyFound`): what the folds over a class's members compute for objects of
  every length needs induction over data.

## 5. What is not modelled

* The audio manager is empty. `zares_model_module.cc` and `model_main_manager.cc` construct the
  managers once before the threads start and destroy them after they stopped; `config_info.cc`
  reads the configuration once, and what of it matters is the constant `max_conn_count`.
* `proto/attach_data.cc` is not used by any class or handler: attach data is copied as a string.
  `GetUserInfo` by one id and by several names have no caller.
* The numbers in which MySQL orders rows by time (`ORDER BY created`) in the group lists: which
  rows a reached limit leaves is any choice. Message contents, names and avatars are told apart
  only in `Exchange`.
* Clients' retries, which are not in the repository: a request carries no key by which the server could recognise one, so two
  requests are two requests.

## 6. Plan

Done: all state machines above, `RequestService` and `Conversations`, and the theorems of
section 4. Left: the codecs of `Pdu` (that ParseFromArray inverts SerializeToArray for objects
of every length), of which TLC checks bounded objects of every class.
