# TLA+ models of tc-muzi

tc-muzi is the HTTP server of a picture and file host. Clients log in, ask
whether a content is stored already ("instant upload", /api/md5), upload, list,
share, save and delete files. The contents lie in FastDFS, the tables in MySQL
(InnoDB), counters, tokens and the public ranking in Redis.

## 1. Inventory

| Part | State it keeps | Operations | Source |
|---|---|---|---|
| HTTP front (`TCServer`) | a parser per connection | `OnRead` (parse, route, queue a task), `_Handle*Request` (call an `Api*` function, send), close after the write | tc_server.cc, tc_server.h, base/http_parser_wrapper.cc |
| HTTP parser | parser record (state, nread, content_length, flags, marks) | `http_parser_execute` | base/http_parser.* |
| Thread pool | queue of tasks | run a task | library muzi (external); base/tc_thread_pool.* is compiled but not used by the server |
| MySQL pools (`CDBPool`, `CDBManager`) | free list, count, mutex, condition variable; pools `tuchuang_master`, `tuchuang_slave` | `GetDBConn`, `RelDBConn` | mysql/db_pool.* |
| Redis pools (`CachePool`, `CacheManager`) | the same; pool `token` (`ranking_list` is configured and never used) | `GetCacheConn`, `RelCacheConn`; commands of `CacheConn` with reconnection | redis/cache_pool.* |
| Redis client (hiredis) | context with its descriptor, buffers and error; the reader's stack; subscriptions | connect, write, read, reply; the asynchronous context with its callbacks | redis/hiredis.c, net.c, read.c, async.c, dict.c, sds.c |
| Stored files | `file_info` (md5, file id, reference count), `user_file_list` (who has which content under which name), files in FastDFS | `handleDealMd5`, `ApiUpload`, `handleSaveFile`, `handleDeleteFile` | api/api_md5.cc, api_upload.cc, api_deal_sharefile.cc, api_dealfile.cc |
| Sharing and ranking | `share_file_list`, `shared_status`, the Redis keys FILE_PUBLIC_ZSET, FILE_NAME_HASH, FILE_PUBLIC_COUNT | share, cancel, count a download, lists | api_dealfile.cc, api_deal_sharefile.cc, api_sharefiles.cc, api_common.cc |
| Picture sharing | `share_picture_list` | share, browse, list, cancel | api_sharepicture.cc |
| Accounts | `user_info`, a token per user in Redis | register, log in, `VerifyToken` | api_register.cc, api_login.cc, tc_common.cc |
| Texts | none | JSON (jsoncpp), upload forms, queries, suffixes, tc_http_server.conf | jsoncpp/, api_upload.cc, tc_common.cc, base/config_file_reader.cc |
| Startup | the Redis keys above | `InitializePvCache` before the server listens | main.cc, api_sharefiles.cc |

How the parts interact. Poller threads run `OnRead`, which binds a handler and
its arguments into a task; a thread of the pool runs the task. A handler takes
connections from the pools at the head of a function and gives them back when the function
returns (destructors of `AutoRelDBCon` and `AutoRelCacheCon`). All handlers
share the tables: a handler is a sequence of SQL statements between which
other handlers run. Only `handleDealMd5` and `handlePvFile` open a transaction.

What is hard in this code, and what makes each part correct:

- *Pools*: a mutex, a condition variable with `notify_one`, waiters with and
  without timeout, opening on demand that may fail. Correct: one user per
  connection, an exact count, no thread asleep beside a free connection.
- *Handlers over pools*: a handler holds a connection of one pool while it
  waits without a timeout for another. Correct: no circle of waiting.
- *Stored files*: reference counting in several statements over two tables and
  an external store, with row locks in one handler only, deadlocks resolved by the
  database, failures of each call, and crashes. Correct: a row has its file, the count is
  the number of users, the file goes with its last user.
- *Sharing*: one fact kept in five places, updated one after the other by four
  handlers, which a failure or a crash interrupts anywhere, and which a reload of
  the counter may overlap. Correct: between requests the ranking is the table; one
  failure does not put the counter above the shares, a reload no further than by the
  changes that ran beside it.
- *Accounts and views*: look-up and insert in two statements, a token whose
  storing is not checked, counts that are read and written back. Correct: one
  account per name, a token belongs to its account, a view is not added twice.
- *HTTP front and parser*: reads cut anywhere, one answer per request, close
  after it. Correct: a handler gets what a client sent or is not called.
- *Redis client*: a connection that breaks at any point of a command. Correct:
  a reply belongs to its command, nothing is done twice, no descriptor is lost,
  and commands work again.
- *Texts*: writers and readers of formats with escapes and limits. Correct: what is
  written is read back.

`PROJECT.json` lists the hazards with their lines and the properties that cover
them; a hazard that a property covers in part, or not, says so in a note.

## 2. Modules

| Module | Models |
|---|---|
| `ResourcePool` | abstract specification: what callers of a pool may rely on |
| `ConnPool` | `CDBPool` (and `CachePool`, the same algorithm with another minimum) |
| `RequestPools` | the nine `Api*` functions as users of the three pools; a pool is what `ConnPool` implements |
| `FileStore` | the four handlers of the stored files, MySQL, InnoDB's locks, FastDFS |
| `ShareBoard` | sharing, cancelling, downloads, deletion and the lists, over the two tables and the three Redis keys; `InitializePvCache` |
| `Accounts` | registration, login, tokens, shared pictures, view counts |
| `HttpFront` | `TCServer::OnRead`, `CHttpParserWrapper`, the tasks, the response; uses `HttpParser` |
| `HttpParser`, `HttpStream` | base/http_parser.cc as functions; a stream that reaches it in pieces |
| `RedisConn` | `CacheConn` over the blocking context of hiredis, and the server |
| `RedisProtocol`, `RedisStream` | the reader of replies and the formatting of commands; a stream of replies in pieces |
| `RedisAsync`, `RedisDict` | the asynchronous context; its hash table |
| `Sds`, `SdsText` | the strings of hiredis in memory; their text functions |
| `Json`, `JsonTypes` | jsoncpp: reader, two writers; the conversions between types of numbers |
| `RequestText` | upload forms, queries, suffixes, the configuration file |
| `ThreadPool` | base/tc_thread_pool.* |
| `MC*` | constants, inputs and symmetries of the runs; `MCPools` puts `ConnPool` and `RequestPools` side by side; `MCLibs` puts the instances of all libraries beside `MCHttpStream`: a variable says which of them a behaviour is about |
| `FileStoreProofs`, `ShareBoardProofs`, `AccountsProofs`, `RedisConnProofs`, `SdsProofs` | theorems about the module of that name |
| `PoolProofs` | theorems about `ConnPool` and `RequestPools` |
| `HttpProofs` | theorems about `HttpStream`, the parser, and `HttpFront` |
| `LibraryProofs` | theorems about `RedisDict`, `JsonTypes` and `RedisAsync` |

Operators named `X_Something` with a comment that begins "Mutant:" are
deliberate errors. No action uses them; each is put in the place of `X` to show
that a property notices it.

### ConnPool

Variables are the members of `CDBPool` (`free_list`, `cur_conn_cnt`) and, for
each thread, where it is and what it holds. Both operations hold the mutex from
beginning to end except inside `cond_var_.wait`, so an action is one hold of
the mutex: `GetFree`, `GetOpened`, `GetNotOpened`, `GetWait` are the four ways
through `GetDBConn` up to its return or its wait; `Wake` and `Timeout` the
ways out of the wait; `RelDBConn` the return of a connection. `SpuriousWake` and `NotifyOne` are the
condition variable. A woken thread is not served yet: another
thread may come before it. `CDBManager` always passes timeout 0;
`TimedWaits = BOOLEAN` covers the whole interface of the class. The
destructor and `abort_request_` are left out: nothing deletes a pool.

### RequestPools

`handleSaveFile == <<"slave", "token">>` and its like say which connections a
function takes, in order; `ApiMd5 == {<<>>, <<VerifyToken>>, <<VerifyToken,
handleDealMd5>>}` and its like say which functions an Api function may call one
after the other, early returns included. A thread takes a task (`Dispatch`),
takes connections (`Get`), runs the statements (`Body`), gives the connections
back last one first (`Release`), and goes on (`Return`). Master and slave are
different pools even if they are configured to the same host. With the shipped
configuration (96 threads, 128 connections per pool) no pool is ever exhausted;
the module asks what happens for every other choice of these numbers. Its threads are
called `Workers` and their requests tasks, since its proofs stand beside `ConnPool`'s.

### FileStore

One action is one SQL statement or one call of the FastDFS client. The
actions `Md5*`, `Up*`, `Save*`, `Del*` follow the handlers line by line,
including which results are looked at and which are not.

- *Data.* A user and a file name occur only together and are one value
  (`Owners`). A content is its md5. A file id is a number.
- *Counting.* `cnt` is the C++ variable that a count was read into, so a stale value is
  written back as the code does.
- *Transactions.* What `handleDealMd5` has written is pending (`pend`) until `Md5Commit`.
  `for update` locks the rows found, or the gap where they would be; gap
  locks are compatible with each other and block inserts. This is InnoDB at its
  default isolation level. A key is locked as a whole: the neighbours that a gap lock
  may cover as well are not modelled, so the model has fewer waits than InnoDB, not more
  freedom on the same key. Two transactions that wait for each other are a
  deadlock, one is rolled back (`DeadlockVictim`).
- *Failures.* `FaultKinds` says which calls may fail: `own` (the first query of
  `handleDealMd5`, whose failure is taken for "no record"), `query` (the count and status
  queries), `update`, `insert`, `delete`, `delete_info`, `redis`, `fdfs`, `drop`
  (the connection breaks in a transaction and `mysql_ping` replaces it), `crash`
  (the process dies and is restarted). A failed count or status query dereferences NULL,
  which is modelled as the death of the process.
- *Left out.* The answer of `StartTransaction` and of `Commit` is not looked at by the code; the model
  has them succeed, unless the connection is lost. The sharing tables and the Redis keys
  are in `ShareBoard`; `DelShare` keeps only whether that
  part of `handleDeleteFile` lets it go on.
- *Requests.* `Start` gives any request to an idle thread. `Orderly` names the
  requests that come in good order in an instance (an upload only of unknown
  content and one at a time, a deletion only of a file that the user has and not
  twice at a time); without it they come in any order.

### ShareBoard

One action is one SQL statement or one Redis command of `handleShareFile`,
`handleCancelShareFile`, `handlePvFile`, `handleDeleteFile` and the readers of
api_sharefiles.cc. A file is its md5 and name, which always occur together
(`fileid`). `share_file_list` is a set of rows [id, user, file, pv],
`shared_status` the column of `user_file_list`, `zset`, `hash` and `count` the
Redis keys. `handlePvFile` holds the lock of its `select ... for update` until
its commit (`pvLock`); the other handlers have no transaction. `CacheDecrCount`
is two commands. A failed `call` is one that returns its error; `crash` ends
the process, and `InitializePvCache` runs before requests are taken again. It
rebuilds the ranking, and only that: neither the counter nor `shared_status`.
`Start` gives any request to an idle thread, whatever the others are doing. Three
variables that no action looks at (`Note`) remember for the properties what has
happened: `astray`, that a request has come out of good order (`InGoodOrder`: a user
shares or deletes a file he has, cancels his own share, deletes no file that somebody
else has shared, and no change of a file's shares runs beside another change or a
download of that file; readers run beside everything); `beside`, for a thread that is reloading
FILE_PUBLIC_COUNT, how many changes have run beside its reload so far; `off`, the
same of the reload that wrote the counter last. They are needed because the counter goes
wrong without any failure, with requests in good order: `handleShareFile` inserts its row
(api_dealfile.cc:130); a list finds the counter at 0, selects 1 and sets 1
(api_sharefiles.cc:36-43); `handleShareFile` counts up (137): 2 for one row, and
nothing repairs it. The properties say how far that can go.
`db.sql` does not create `share_file_list`; its columns are taken from the
statements.

### Accounts

One action is one statement or command of `registerUser`, `ApiUserLogin`,
`VerifyToken`, `ApiSharePicture` and `handlePvFile`. The unique keys of `user_info` decide
an insert. `last_token` counts the calls of `RandomString` since the process
started: `rand()` is not seeded, so a restart gives the same tokens
again. `ExecuteUpdate` fails when no row has changed, which
makes the second of two equal updates of `pv` an error to its client. A statement that cannot be
prepared leaves the answer 0. Requests carry a token that some login was given,
never an empty one (an empty token is equal to the empty result of a failed `Get`).
The column `share_id` is the one the code names; the second `CREATE
TABLE` at db.sql:41 calls it `urlmd5`, and with that table the statements fail.

### HttpFront, HttpParser, HttpStream

The parser is a function from its record and the data of a read to a new record
and the callbacks it made. The input is a sequence of units: characters that
decide something, and words cut where the matching states of the parser branch,
so that a read may end inside a word. A turn of the loop (`Step`) takes one unit, or as much
of a body as there is; `Loop` is the sequence of turns up to the end of the data, a
function on the natural numbers. `HttpStream` delivers a stream in pieces;
`AtOnce` is what one call makes of it, and `Merge` joins callbacks that report one piece of data. In `HttpFront` a read is parsed from
the beginning, as `ParseHttpContent` does: a request that arrives in two reads
is never complete, and its connection stays open without an answer. What the
muzi library does (tasks, writing, closing) is modelled from its use in tc_server.cc.

### RedisConn

`ctx` is the context with its descriptor, its error and what was written and read;
`n` numbers the commands, so that a reply shows whose it is. A command is a record
that says what it does without a reply and with a reply of
another type (`Get`, `Incr`, `ZsetExist` ...): free the context, keep it with its
error, or use the missing reply and end the process. The server executes what was sent
whole, goes down and comes up, refuses a command or a password. `Init` connects once a second at
most (`Tick`). An AUTH that is refused leaves the context in place and not
authenticated (cache_pool.cc:102), so later commands get errors: modelled as it is.

### RedisAsync, RedisDict, Sds, Json and the other texts

`RedisAsync` is one event loop: commands, partial writes and reads, messages,
disconnect and free inside and outside of callbacks. The application is assumed to keep three
rules, without which the context goes wrong: no ordinary command while an
unsubscription is under way (`MayGet`), no repeated name in a subscription of several
names while one is pending (`MaySubscribe`), no unsubscription of what is not
subscribed (`MayUnsubscribe`). An error that arrives while no ordinary command waits
for an answer ends the context whether or not it is subscribed (async.c:528): also
the error with which a server answers an ordinary command of a subscribed client. The server itself never uses the asynchronous client.
`RedisDict` and `Sds` carry the value that is meant (`map`, `str`) beside the
data structure. `Json`, `JsonTypes`, `SdsText`, `RequestText` are operators; a
text is a sequence of characters, integers have small limits in place of
2^31, 2^63 and 2^64, and doubles a precision of 16 in place of 2^53. `strip` looks for the two ends of a text
independently; in a field that is empty or has line ends only they pass each other, and the
string that is made of them throws (`Throws`, as libstdc++ does; by the standard it
is undefined). A quote right before a boundary does the same in `decodeMsg`. Not taken as
inputs: the smallest integer of a signed type where negating it overflows in C, and a query
that ends in the key that is looked for.

### ThreadPool

What is done under `mutex_` between two waits is one step. Workers and the
callers of `WaitForAllDone` sleep on one condition variable. A caller waits for the empty
queue, either with a time, after which it returns (`timed`, `WaitTimeout`), or without one;
`Stop` is no part of what it waits for. A task may need the future of another one;
`Stop` and `WaitForAllDone` are then left out, because a `notify_one`
that was meant for a worker may reach a caller, and with one worker held by
the first task nobody would run the second.

## 3. Runs

| Run | Instance | Shows |
|---|---|---|
| `pools` | 4 threads, 1 to 2 of 3 connections, 2 requests each | `TypeOK`, `Exclusive`, `Accounting`, `NoLostWakeup`; that the pool implements `ResourcePool`; `WaitersServed`: whoever waits is served, or gets NULL after its timeout |
| the same | 3 threads, pools of 1, 2 and 1 connections, all Api functions | `HandlersTyped`, `NeverStuck`, and `RequestsEnd`: every request ends |
| `store_all` | all four handlers, 2 threads, 2 users, one failure of any kind but `delete_info`, 3 requests | `TypeOK`, `NoDangling`: a row has its file; `RequestsAnswered`: locks and deadlocks let every request end |
| `store_md5` | 3 threads, 3 users, 4 instant uploads, one failure | `RefCountExact`, `NoDuplicateOwner`, `AckedIsStored`: the locks of `handleDealMd5` do what its comments say |
| `store_upload` | 3 threads, 3 users, instant uploads and an upload, one failure | `NeverUndercounted` |
| `store_serial` | 1 thread, 2 contents, 6 requests of any kind, one failure of Redis | `SettledExact`, `SettledStore`, `ZeroMeansUnreferenced`: run one after the other, the handlers agree |
| `share` | 2 threads, 2 users, 2 files, 4 requests of any kind in any order and one failed call or crash, or 3 and two | `SettledRanking`, `SettledBoard`, `CountNeverOver`, `ShareAnswers`: which of the five places agree after what |
| `front` | 2 connections, 2 threads, five requests (sized, chunked, a NUL in an upload, an unknown url, one too long) | `DispatchedIsSent`, `OneAnswer`, `WholeIsAnswered` |
| `redis` | one connection with a password, five kinds of commands, two failures | `ReplyIsOwn`, `CheckedMeansDone`, `OneDescriptor`, `Recovers` |
| `users` | 2 threads, 2 names, nicks, passwords, a picture and a file, 4 requests, one failure or restart | `AccountsHold`, `ViewsCounted` |
| `libs` | about 260 HTTP streams, good ones and ones with an error inside a url, a field, a value, a chunk, and 70 of replies in pieces of up to 2 units, or whole; 3 commands of the asynchronous client; 2 threads, 2 waiting callers and 3 tasks; 4 keys of which 3 collide; strings over three header types; some 39,000 values and texts, forms with empty fields among them | `SplitInvariant`: several calls make of a stream what one makes of it; `AssertsHold`, `CallbackOnce`, `QuietAgrees`, `PoolServes`, `SdsIsString`, `DictIsMap`, `ReadsBack` |

Two runs end in a counterexample. `store_null`: two instant uploads by one user
deadlock; the query of the one that InnoDB rolls back gives NULL, and
`GetResultOneCount` uses it (`NeverCrashes`), where its comment promises -1.
`pool_stop` (`MCThreadPool`: one worker, one caller, one task): the comment at
tc_thread_pool.h:35 says that a wait without a time is left when somebody calls `Stop`
(`StopEndsWaits`). It is not: the worker leaves with the task still queued, and the caller sleeps on.

The passing runs say under which conditions a property holds, and some of the
conditions are there because without them the code does otherwise. Seen while
modelling, each by taking the condition away:

| Condition | Without it |
|---|---|
| `SettledExact` is for saves one after the other | `handleSaveFile` has no transaction: two overlapping saves read one count and an increment is lost (api_deal_sharefile.cc:257) |
| `ZeroMeansUnreferenced` is for one upload of a content at a time | two uploads make two rows with count 1; the first deletion removes the file of one of them (api_upload.cc:365) |
| and for deletions of what the user has | a repeated deletion counts down again (api_dealfile.cc:285) |
| `SettledExact` is for connections that live | `mysql_ping` replaces a connection inside a transaction, and what follows is committed by itself (db_pool.cc:208) |
| `NoDangling` is without `delete_info` | the failed delete is passed over and the file removed (api_dealfile.cc:311) |
| `SettledRanking` is without failed calls, `SettledBoard` without any failure | the updates of the five places are not undone when a later one fails |
| and both are for requests in good order (`~astray`) | a cancellation during a download of the file: ZREM and then ZINCRBY, which puts the file back into the ranking (api_deal_sharefile.cc:104); two shares of one file at once both insert a row |
| the count of `SettledBoard` is for `off = 0`, `CountNeverOver` allows `off` | a share or a cancellation between the select and the set of a reload is counted twice or not at all (api_sharefiles.cc:37) |
| `CountNeverOver` is for one failure, not of a deletion | `handleDeleteFile` deletes the row before it counts down |
| `SplitInvariant` lets a piece of data be reported in part when an error is found in it | what ends with a read is reported at once; a single call that finds an error in a url, field, value or chunk reports nothing of it (http_parser.cc:2089) |
| `WholeIsAnswered` is for one read | a request in two reads is never answered (tc_server.cc:46) |
| `Recovers` has the end of the process as an alternative | the `Zset*` commands look into a missing reply (cache_pool.cc:686) |
| `PoolServes` says that `WaitForAllDone` returns | not that all tasks are done by then (tc_thread_pool.cc:111) |
| and leaves out callers without a time after `Stop` with tasks in the queue | they sleep for ever (tc_thread_pool.cc:115; run `pool_stop`) |
| `ReadsBack` is for forms whose fields are not empty and have more than line ends | `strip` throws, nobody catches it, and the process ends (api_upload.cc:111); the property says that these forms, and no others, end so |
| `AssertsHold` is about the asserts on bodies and chunks | those on `header_state` (http_parser.cc:1520), the end of a message (1657), the marks at the end of a call (2079) and the error number at a callback are not represented |

*Bounds.* `MaxRequests`, `MaxTasks` and `MaxFaults` end a behaviour, so deadlock is not
checked there: an instance that has used its requests stops. Waiting that never
ends is what `NeverStuck` and the liveness properties are about. Four threads on two
connections have a newcomer, a woken thread and a sleeper at once. Three threads
on three pools are enough for a circle: one holds what two others wait for. In FileStore, rows of different
contents do not interact, so concurrent instances have one content; the
deadlock needs two transactions on one key, the phantom two users' requests on
one key, a lost increment two users beside the one who has the file; a third thread runs
against both. In ShareBoard any two requests overlap in every way,
and two requests before them can have shared two files, or one file and taken it back; the
first constraint in share.cfg only keeps TLC from following behaviours after a request out of
order, of which every property there is true at once. One failure per behaviour is
enough to leave a handler at each of its steps; RedisConn has two, so that a reconnection
may fail as well, and ShareBoard two for a request less (`FailuresForRequests`), since some commands
are reached only after a first failure. `Cuts` in `front` ends a read inside each part of a request. The limits of the
libraries (`ULLONG_MAX`, `MAX_DEPTH`, `DICT_HT_INITIAL_SIZE`, the widths of an
sds header, `rightMargin`, `Precision`) are so small that inputs of a few characters lie on
both sides of each. Symmetry (of threads, users, files, contents) is used in runs whose
properties speak of single states or steps only.

*Fairness.* Weak fairness of what a thread does by itself: a woken thread gets
the mutex, a deadline passes, a handler with its connections runs on (its
statements end), a statement that is not blocked is executed, a task that is queued is
taken, a response is written. This is what the operating system's
scheduler, the mutex and the database give. Nothing is assumed of which sleeper
`notify_one` picks, nor that requests keep coming, nor of clients and the network in `front`. `WaitersServed` holds under
these because an instance has finitely many requests: with newcomers without end, the
condition variable lets a sleeper be overtaken for ever, and the code does
nothing against it. `Recovers` assumes that a server that is down comes up,
that time passes, and that commands which free a broken context are called again and again
(strong fairness, since the connection may be busy with another command): a
connection that is used only by `Hget(char*)` keeps its broken context. In `libs` the fairness is
that of the thread pool, where the time of a wait passes as well; the other parts have safety
properties. In `pools` each half has its own, and the half that a behaviour is not about stands still.

## 4. Proofs

Every theorem holds for all values of the constants under the named assumptions
of the modules: `PoolAssumption`, `PoolsAssumption`, `StoreAssumption`,
`BoardAssumption` and `WorkersAssumption`, `AccountsAssumption`,
`CommandsAssumption`, `ResponseAssumption`, `ParserAssumption`,
`StreamsAssumption`, `DictAssumption`, `AsyncAssumption`, `SdsAssumption`,
`TypesAssumption`. They say that sets of processes are finite or that a value is not
among them, that limits are natural numbers, and the like; TLC evaluates them in the
runs. A theorem with a further hypothesis names it in its ASSUME, and the list
below says what it means.

- **PoolProofs.** `TypeCorrect`, `MutualExclusion`, `CountIsExact`,
  `WakeupsSuffice`: `Spec => []TypeOK`, `[]Exclusive`, `[]Accounting`,
  `[]NoLostWakeup`. The four are inductive only together (`IInv`): that a
  returned connection is not on the list needs `Exclusive`; that the set of open connections
  grows by one with the count needs `Exclusive` and `TypeOK`; that a thief of a
  connection takes one from the list for each woken thread it passes needs the
  list to be free of duplicates. One lemma per kind of step (`TakeFrontStep`,
  `RelStep`, `OpenStep`, `IdleStep`). `Refinement`: `Spec => ImplementsPool`,
  each action is a step of `ResourcePool` or a stutter; that a new connection is
  opened only when all are in use comes from `Accounting` and the empty list.
  `ApiTyped` and `HandlersNeverStuck` are about the handlers. Their invariant
  says that a thread holds a prefix of what its function takes, that a function
  takes one connection or first a slave and then a token connection, and that
  no pool is over its limit. If all threads waited, one waiting for `slave` or
  `master` would face holders that wait for `token`, and one waiting for `token` holders
  that wait for nothing: the order of the pools excludes the circle.
- **FileStoreProofs.** `TypeCorrect`. `RowsHaveFiles`: `Spec => []NoDangling`
  when a delete from `file_info` does not fail. `NoDangling` is not inductive:
  `FidInv` adds that a file id in use has been given out (`FidsGiven`), that the
  file of an upload under way is stored and not yet in a row other than its own
  (`FreshUploads`), and that the file a deletion is about to remove is in no row
  any more (`SafeRemovals`), since ids are not given out twice.
  `AcknowledgedUploads` (`AckedIsStored`) holds with all handlers and failures
  but a lost connection in a transaction (`NoDrop`): a transaction that is about
  to commit has its row among its pending writes (`TxnInv`).
  `CountCovers` (`NeverUndercounted`) is for instant uploads and uploads of new contents
  in good order (`Counted`). The count of a content, with what transactions have
  pending, is compared with the number of its rows and of its uploads half
  done (`CountInv`); a count that a transaction has read is the count of the row for as long as it
  holds the lock (`LockInv`). `CountIsExact` (`RefCountExact`) is the same where no
  upload runs, and `ListedOnce` (`NoDuplicateOwner`) says further that the first query does
  not fail. `CountSettles`, `StorageSettles`, `ZeroIsUnused` (`SettledExact`,
  `SettledStore`, `ZeroMeansUnreferenced`) are about all four handlers where requests about
  one content do not overlap: `Spec /\ []Apart => ...`, with requests in good
  order and no failure but of Redis (`InGoodOrder`). Requests about different contents overlap as
  they like, so the theorems also justify that the concurrent instances have one
  content. The invariant (`ContentInv`) says of each content, by the step its one request is at,
  how far count, lists, `file_info` and storage are apart.
- **ShareBoardProofs.** Four theorems about `Spec` as it is: requests come in any order, and
  the properties speak of behaviours whose requests have come in good order so far. The
  invariants are therefore of the form `~astray => ...`, and the step that begins a request is where
  the good order is used (`BegunInOrder`). `RankingIsTable`
  (`SettledRanking`): `RankInv` says which files may be missing from the ranking, or be in
  it with another number, by the step of the request or download that still has to bring it
  there. `BoardAgrees` and `CountErrsLow` (`SettledBoard`, `CountNeverOver`):
  the counter is compared with the number of rows that are counted already and of
  deletions that have not counted down yet (`Total`, `CountInv`); the status belongs to the sharer
  (`StatusInv`). What makes the counter hard is the reload, whose number is old when it is
  written: `LoadedInv` bounds it, while it waits, by what the total will be at least once
  those at work have taken off what they still may (`Least`), and by the changes beside the reload;
  each change that begins meanwhile is one of those (`CountsAtStart`). A counter below
  0 occurs only after a failure or such a reload. `AnswersOfShare`: `ShareAnswers`, an action property.
- **AccountsProofs.** `AccountsHoldAlways` and `ViewsCountedAlways`, with every
  failure and restart. `AccountsHold` lacks that the account whose password was
  checked is there when `setToken` runs (`TokenIsDue`); `ViewsCounted` lacks
  that a count which was read is not above the views so far (`ReadCounts`)
  and that an unused picture has none (`FreshPictures`).
- **RedisConnProofs.** `OwnReply`, `CheckedSuccess`, `DescriptorKept` (`ReplyIsOwn`,
  `CheckedMeansDone`, `OneDescriptor`), for all sets of commands. `Exchange`
  says where the one message under way is: in the output buffer, at the server, or in the
  answer; a context with an error may hold leftovers, since nothing is written to it or read from it
  (`Contexts`).
- **HttpProofs.** `AnsweredOnce` and `TasksAreSent` (`OneAnswer`,
  `DispatchedIsSent`). The hypotheses are about the clients: each sends one request on a
  connection (`OneMessage`: no part of it that ends before its end is a complete request) and the
  parser understands it (`Understood`). `MCHttpFront` assumes the same of its requests,
  and TLC checks that they satisfy it. A body that contains a request, and is read by itself, would be
  dispatched as one: the code parses every read from the beginning.
  The other theorems are about the parser: for all streams, of any length, and all ways to cut
  them. `ParserAsserts` (`AssertsHold`): each handler leaves a sound record
  (`Sound`): in the states of a body or chunk the flags, the counter and the length are those that the code
  asserts (its other asserts are not represented). `CutsDoNotMatter` (`SplitInvariant`): one call with c and d is followed
  beside a call with c and another with d. Each handler acts alike on two calls that stand at
  the same unit in the same state, wherever their data and marks begin (`ByteAlike`). Up to the
  end of c the calls are the same (`Same`). From there on (`Sim`) the record is the
  same, and of the one piece of data that is marked either both calls have reported the same, or
  its beginning was reported at the end of c and the callbacks make up the same piece (`Own`,
  `Carried`). A body is taken as much at a time as there is of it, so the one call may be a turn
  ahead at the cut (`Ahead`); a body that ends with c leaves the record the
  same. `Compose` is the result for two calls, and the invariant follows by adding one
  read at a time.
  `Turns`, the sequence of turns, is a recursive function on the natural numbers;
  `TurnsDef` derives its equations from the least number principle, and `SetInduction`
  replaces the induction theorems of the library, which take an operator as parameter.
- **LibraryProofs.** `TableIsTheMap` (`DictIsMap`), for every hash function. The table
  is inductive by itself (`TableInv`: an entry is in the chain of its hash, no key has two,
  the entries are the map's and as many as `used` says), each operation of dict.c
  has its lemma, and growing a table is an induction over its buckets. What makes the
  theorem hard is the iterator under deletions: it has returned exactly the keys of the chains and
  places behind it and keeps the key after next (`Walked`), and what it has not returned
  is still ahead (`Covered`). `ConversionsKeepTheirWord` is about the numbers of
  `Json::Value` at the limits of every type, where the limit of a 64-bit type is
  rounded when it becomes a double; `ReadsBack` checks the same on small limits.
  `AsyncNoneLeftOut` (the half of `CallbackOnce` that is called `NoneLeftOut`): no callback of an
  ordinary command is left out when the asynchronous context goes. What a step could forget is
  `Forgotten`: the commands whose callback has not run and is in no list; a reply takes one callback
  out of its list and runs it in the same step, or ends the context when it is an error nobody
  waits for. The context frees itself with callbacks that try to send
  more commands: they are refused by the flag that is set before (`Going`), so that the
  lists only get shorter while they are run (`RunAllOwesNone`). `AsyncTyped` is the type invariant.
- **SdsProofs.** `SdsHoldsTheString` (`SdsIsString`). Each operation makes a sound string of a
  sound one (`Good`): length and space are what the header's type can say, the space is
  in the memory, and the bytes are the string's, ended. While sdscatfmt puts its pieces
  together there is no terminator (`Open`). `SdsAssumption` says that the widest type
  holds what is reserved for the longest string, which the code takes for granted.

Only model-checked: liveness (`WaitersServed`, `RequestsEnd`, `RequestsAnswered`, `WholeIsAnswered`,
`Recovers`, `PoolServes`; fairness and ENABLED are out of the prover's reach); that a
callback of the asynchronous client is called with its own answer, and once (the other half of
`CallbackOnce`), and `QuietAgrees`; and what the readers and writers of texts compute
(`ReadsBack`): they are recursive over their data, and `libs` compares them with reference definitions on bounded inputs.

## 5. Not modelled

- *Generated code*: the stubs of the short-link service. `ApiUpload` keeps the full
  link when the call fails.
- *The muzi network library* and its thread pool are not in the repository; the models use
  only that a task is run by some thread, and that what is sent is written or the connection ends.
- *Logging, locks, PDU buffers* (base/dlog, lock, util, util_pdu): wrappers, or unused by the server.
- *Client-side tools*: upload_scripts/ (with the vendored httplib.h, over a quarter of the
  repository's lines), test/.
- *Parts of libraries that nobody calls*: `http_parser_parse_url` and `http_parser_pause`,
  the comments and stream writers of jsoncpp and its allocators, hiredis' adapters to event loops.
- *Read-only lists* (api_myfiles.cc, the list of pictures): the answers are not
  modelled, only the use of the pools. `FILE_USER_COUNT` goes the way of `FILE_PUBLIC_COUNT`.
- *fork and exec* of the FastDFS client: a call that gives a file id or fails.

## 6. Plan

1. `RedisAsync`: the rest of `CallbackOnce`, and `QuietAgrees`, for any sequence of commands and
   messages, from an invariant that pairs the callbacks waiting in the context with the
   commands that the server has not answered.
2. The unsubscriptions of the asynchronous client without the application's three rules, as
   runs that end in a counterexample, once the documentation of hiredis says what is meant.
