# A formal model of ylutils

The repository is `ylutils_lib`, a C++ library of threads, synchronisation,
containers, a cache, sockets, logs and MySQL access, beside a vendored copy of
the TLS part of `acl` and the headers of third-party libraries. The library is
what is specified here. All paths below are relative to
`src/ylutils_lib/src/` unless they start with `src/`. The sources are GBK-encoded.

The project is a set of TLA+ modules, TLC configurations that check them on
small instances, and TLAPS proofs for every instance: of the components through
which threads share data (the two thread-safe containers, the producer/consumer
queue, the connection pool and its use, the service), of the TCP client, of the cache
and its files, and of the dictionary, the index and the rotating log. Every safety property that
a passing run checks is also a theorem, some under an assumption that section 4 names. `PROJECT.json` maps every definition to the lines it
translates.

    tlc -config sem.cfg MCSafeContainerBySem.tla     # one run
    tlapm SafeContainerBySemProofs.tla               # the proofs of one component

## 1. The system

### Components, their state and operations

| Part | State | Operations | Modelled |
|---|---|---|---|
| `container/SafeContainerBySem.h` (and the Deque and Vector it wraps) | `mContainer`, `mSizeSem`, `mMutexSem` | put, get, push/pop at both ends, clear, size, empty | `SafeContainerBySem` |
| `container/SafeContainerByCond.h` | `mContainer`, `mCondLock` | the same | `SafeContainerByCond` |
| `container/PcQueue.h` | `mQueue`, mutex, condition variable | put, get, geto (timeout), size, empty | `PcQueue` |
| `sync/ThreadCondLock.cpp` | mutex, condition variable | lock, unlock, wait, timedwait, signal, broadcast | `ThreadCondLock` |
| `sync/ThreadSem.cpp` | semaphore | wait, timedwait, post, getValue | inside `SafeContainerBySem` |
| `mysql/MysqlConnPool.cpp` | `mysqlQueue`, `pMysqlArray`, mutex, condition variable | setMysqlConfig, initConnPool, initConnPoolCharSet, get, put | `MysqlConnPool` |
| `mysql/MysqlDB.cpp` | connection handle, result, last error | connect, reConnect, execute, getResult, nextRow, good | `MysqlDB` |
| `cache/CacheManager.h` | two arrays, two list heads, counters, `fmutex` | init, insert, remove, find, save, load | `CacheManager`, `CachePersistence` |
| `net/MTService.cpp`, `net/AcceptSocket.cpp` | accept descriptor, share count, mutex, condition variable | start, thread function | `MTService` |
| `net/Socket.cpp` | descriptor, connected flag, `errno`, file flags | initSocket, connect, reConnect, close | `SocketConnect` |
| `net/std_socket.cpp` | a stream, timeouts, `errno` | safeRead, safeReadHttpRequest, safeWrite | `SocketIO` |
| `log/Logger.cpp` (`log/yl_log.cpp` is an older copy) | a file and its numbered predecessors, a date | init, log, rotate | `Logger` |
| `log/LocalLog.cpp` | four streams shared by threads, a date, a mutex | four writers, reopen at midnight | `LocalLog` |
| `dict/` | a map of numbered terms, a file | insert, save, load | `Dict` |
| `container/CommonIndex.h` | two arrays, two files | resize, dump, load, destroy | `CommonIndex` |
| `log/SingleLog.cpp` | a stream per thread in a hash map | open, write | no (section 5) |
| `net/ServerSocket.cpp`, `UdpSocket.cpp`, `Host.cpp`, `thread/` | descriptors | one or two system calls each | no |
| `conf/`, `container/SimpleVector.h`, `BitVector.h` | sequential data | parse, get, set | no |
| `encoding`, `sign`, `zip`, `time`, `http`, `utils`, `chcode`, `segment`, `exception` | none, or an external library's | pure functions and wrappers | no |
| `src/acl/lib_tls` | TLS sessions | copied from Postfix | no |
| `src/acl/{packaging,res,test,unit_test}`, `src/jsoncpp` | | build files, third party | no |

### How they interact

* The thread-safe containers own a container (`Deque` or `Vector`, template
  argument) and either two `ThreadSem` or one `ThreadCondLock`. They share the
  container between the calling threads and nothing else.
* `PcQueue`, `MysqlConnPool` and `MTService` use a pthread mutex and condition
  variable directly. These four users are modelled over one module,
  `ThreadCondLock`, instantiated with their own variable names.
* `MTService::start` (the boss) accepts connections and creates a thread for
  each. The descriptor is handed over in the member `mAcceptSocketfd`, the
  callback in a struct on the boss's stack; a handshake with `mShareCount`
  keeps the member from being overwritten.
* `Socket::connect` drives the kernel through connect, select and getsockopt
  and decides by `errno`. The kernel's side is an environment variable. The reads
  and writes of `std_socket` use the connection that it leaves, `O_NONBLOCK` and all,
  and leave behind the `errno` that the next connect finds.
* A worker takes a `MysqlDB` from the pool, sends statements through it, fetches
  results or not, and puts it back in whatever state it is in.
* `CacheManager` keeps its structure in arrays that `save` and `load` write
  to and read from three files.

### What is hard here

1. Orders of the steps of several threads around a semaphore or condition
   variable: claims without the mutex, signals before the insertion (container),
   after the unlock (pool), spurious wakeups, timeouts that race an arriving item.
2. Waiting while holding a lock (`clear()` of the container by semaphore).
3. The hand-over of a descriptor, and of a pointer into another thread's stack.
4. Long histories of calls on the intrusive lists of the cache.
5. Partial failures: half of a pool connected, a save that fails at the second file,
   a connect that times out and is repeated while the kernel is still at it.
6. State that is stale when it is used: `errno` after a successful call, a
   semaphore's value read before a loop, the result that the holder before left in a connection,
   a pointer whose array is gone.
7. Files that are written without a check and read by a later process: rotated logs,
   dictionaries, indexes, the saved cache.

`PROJECT.json` lists the hazards with their lines and the properties that cover them.

## 2. The modules

Every thread takes one step per synchronisation call and per access to shared
state; `pc[t]` is the step that thread `t` takes next, `op[t]` the operation it
is in. Inside a mutex the steps of a take are kept apart too, in the containers, the queue and the
pool: the read and the removal, and the test of the loop where there is one, are steps of their own, so that mutual exclusion is
something to be checked and not something that is assumed. (A store is one call, `push` or
`push_back`, and one step.) Items are numbered in the order in which they are stored.

**Container** holds the operators of the two wrapped containers (`Inserted`,
`Chosen`, `Erased`). A Deque is FIFO under put/get, a Vector LIFO. The code
copies an item out and erases it afterwards; these are two steps.

**AbstractContainer** is what the callers are promised: atomic store, atomic take of
the right item, clear in one or more atomic pieces from the back. Operations that no
caller makes are not offered.

**SafeContainerBySem** has the two semaphores as numbers. A take does
`mSizeSem.wait()` before `mMutexSem.wait()`; clear reads `mSizeSem`'s value and
then waits for it that often, inside the mutex. The refinement mapping `Contents`
hides an item from the moment it was read.

**ThreadCondLock** is a mutex (`owner`) and the set of blocked `waiters`.
`wait` is two steps: release and block; lock again once out of `waiters`.
Leaving is by a signal (any one waiter), or spuriously.

**SafeContainerByCond**, **PcQueue**, **MysqlConnPool** use it. A
`PcQueue::geto` whose deadline passes leaves `waiters` at any moment, gets the mutex
back and gives up without a look at the queue. A mapping (`Contents`, `Queued`) hides an item from the moment
`front()` has copied it. The pool adds the thread that
fills it: `connect` of any connection may throw, the connections pushed so far stay
queued, and `initConnPool` may be called again (a new array). A connection is
`<<array, index>>`, so that a leaked or shared connection can be told.

**AbstractCache** is an LRU map: a sequence of key/value pairs in the order of
replacement. An insertion into a full cache first replaces a batch.

**CacheManager** is the array structure itself, list operation by list operation
(`get_from_free_list`, `insert_into_busy_list`, `del_from_busy_list`, ...), with
insert, remove, find and reclaim composed of them as in the code. The refinement mapping
reads the busy list from its head. An index of -1 used as a slot sets `broken`.

**CachePersistence** adds the three files and a save of three steps, beside which operations run. A file
may be missing, or be cut short by an `fwrite` that `save` notices or by the `fclose` that it does not.
A process may end at any moment, also in the middle of a save; the next one loads what the files hold, or starts
fresh when `load` refuses them. `sound` says that the last save returned true, `alone` that
the cache did not change while it ran.

**MysqlDB** extends the pool. The object behind each connection has a handle that is up or
not, the statement whose result is unfetched on the wire, the statement whose result is
in `mMysqlResult`, and what `good()` answers. `connect` is the pool's `Connect` with the
handle that it opens; `execute`, `getResult`, `nextRow` and `reConnect` are a
worker's steps between `get` and `put`. The client library is external: a query succeeds,
is refused, or fails, with or without a result.

**MTService** has the boss in `start()` and one child per connection. Descriptors
are reused after close, as the kernel reuses them. `accept` and `pthread_create` may
fail; `start()` then throws and its frame is gone.

**SocketConnect** has connect's loop over `_connect`, with `errno`, `O_NONBLOCK`
and the kernel's connection as separate variables. `conntimeo` is 0 for no timeout.

**SocketIO** extends it with the calls that use the connection. A byte that arrives is its number
in the stream, a byte that leaves is its number in the message, so that a byte that
is lost, repeated or moved shows. A call is a loop of waits and partial transfers; the
peer sends, reads, closes and resets at any moment. `timeout` is 0 for none. A write after a reset
throws, or ends the process by SIGPIPE (`"killed"`). `torn` remembers the
directions in which a call has ended inside a message: after that the library promises nothing
about where messages begin.

**Logger** is the files, each a sequence of lines, and `rotate_log()` as one step per `remove`,
`rename` and `fopen`, with midnight or the end of the process between any two of them and
renames that fail. A line has the day that the call reads at its beginning (Logger.cpp:143); `rotate_log()` reads the clock
again. **LocalLog** is the four streams (open, closed by somebody, null after a failed
`fopen`), the unlocked test of the date and the locked reopening.

**Dict** and **CommonIndex** are objects beside files whose writes nobody checks: a
file is what was meant to be written up to any point. `CommonIndex` gives each pointer the states null,
owned and dangling, and lets the unchecked `read()` of the items (CommonIndex.h:88) give less than there is.

**MC...** modules give values to the constants; `MCMysqlDB` names one worker for the liveness
property, `MCFiles` puts four modules that share nothing side by side.

**...Proofs** modules hold the theorems about the module of that name; `SocketIOProofs` those about
`SocketConnect` too, `MysqlConnPoolProofs` those about `MysqlDB`, `CacheProofs` those about `CacheManager` and
`CachePersistence`, `FilesProofs` those about `Dict`, `CommonIndex` and `Logger`.

## 3. The runs

| Run | Instance | Shows |
|---|---|---|
| `sem` | 2 producers, 2 consumers, Deque, both ends, one clears, 3 items | semaphores agree with the container at every step; nothing read from an empty container; each item kept, delivered once or discarded; the wrapper is atomic; only a clear can block the others |
| `sem_clear_beside` | 1 producer, one that clears, 1 consumer | violation: the mutex is not always released |
| `cond` | 2 producers, 2 consumers, Vector, one clears, 3 items | mutual exclusion, no lost wakeup, atomicity, nobody sleeps beside items |
| `pcqueue` | 2 producers, get, geto, 2 items | order, nothing lost at a timeout, no signal lost to a consumer that gives up, geto returns |
| `pool` | 3 workers, 2 connections, 2 calls of initConnPool, 2 statements | no connection shared or leaked, no lost wakeup although the signal follows the unlock, no worker reads another's rows, no worker waits for ever |
| `cache` | 4 slots, replaced by 2, 5 keys of which 4 share a bucket | lists and chains stay whole and are the LRU map |
| `cache_small` | the same with the code's share of a tenth | violation: insert goes on with the slot -1 |
| `cache_beside` | 2 slots, 2 keys | violation: an operation beside `save`, which returns true over files that do not belong together |
| `service` | 4 connections, 3 descriptors | each child serves its own connection, the boss returns to accept |
| `connect` | up to 3 attempts, 3 calls of connect or initSocket, 3 transfers over a connection, messages of 2 bytes | connect never returns unconnected, messages come and go whole or the call throws, every call ends, but for one that waits for a silent peer without a timeout |
| `files`, a log | 4 files, 9 lines, 3 days, 2 ends of the process | no gap and no line twice in what is kept, as much history as promised, files within bounds |
| `files`, a dictionary | 2 terms, 4 numbers | numbers stay dense, what loads is whole |
| `files`, an index | indexes of up to 3 elements | each array that load() answers with is the one dumped last, where read() gave it |
| `files`, a cache | 2 slots, 2 keys | a restart after a save that returned true finds that cache or an empty one |
| `locallog` | 2 threads, 1 midnight | violation: a thread prints to a stream that another has closed |

### Bounds, and why they are enough

* *Threads.* Two of a kind are what it takes for one consumer to come between
  another's claim (or wakeup) and its use of it; a third kind of interference, a
  clear, a size or a timeout, comes from one of them. The pool has more workers
  than connections, so that workers must wait for one another.
* *Items* (`MaxItems`, guard of `Call`): 3, or 2 with timeouts, is more than
  the consumers that can sleep at a time, and leaves a front and a back to be
  confused.
* *The cache.* Four slots are needed for a slot with a predecessor and a successor on
  the busy list while a further one is free. Five keys overfill it, four share a
  bucket so that removal in the middle of a chain occurs. `Share` is 10 in
  the code (CacheManager.h:306), 2 in `cache`, so that four slots stand for a cache of ten or more, which replaces
  something; `cache_small` is what the code does with four slots. Keys looked up, removed and given a second value are few, for the
  state space; the structure does not tell keys apart by anything but equality and bucket.
* *Service.* Four connections over three descriptors: a descriptor is reused while two
  other connections are alive.
* *The pool's use.* Two statements are what it takes for one worker to find the
  other's result. Liveness is checked of one worker: all run the same code, and
  `NotLeftWaiting` is the same formula for each.
* *Connect and transfer.* `Retries` \ {0}; `MaxCalls` bounds the calls on one object,
  `MaxTransfers` those over one connection, `MaxBytes` what the peer sends. Messages of
  two bytes can be cut; request buffers of one and three bytes are shorter and longer than a message;
  a kernel with `Room` for one byte makes every write partial. `Timeouts` has 0 and one other value: the model
  does not measure time.
* *Logs.* Four files: a newest, an oldest and two between which a rename can fail or
  the process end; nine lines fill them all and rotate once more.
* *Files.* The initial states choose which of the four is there, for they share nothing. Two terms, of which a file can hold none, one or both; IDs beyond them for a dictionary
  that was misled. Four indexes: empty, two small ones, and one longer than
  `MaxItems`. The saved cache has a free and a busy slot, and two keys to move between them.
* No symmetry is used: liveness is checked, and threads have different programs.

The runs that check temporal properties, and those whose bounds let every thread come to rest,
set `CHECK_DEADLOCK FALSE`: clients have no more to store and consumers wait, which is
no fault. The properties that say who must not wait take its place.

### Fairness

Weak fairness of `Step(t)`: the scheduler eventually runs a thread that can run.
It does not oblige a client to call anything. Where a mutex is contended, strong fairness of the
lock steps (one formula per thread, over `lock` and the second half of `wait`): a
blocked thread is not overtaken for ever. POSIX does not promise that in so many words; Linux
schedulers and futex queues give it in practice, and without it only properties of the kind "this very thread" would be
lost. `geto`'s deadline is an absolute time, so `Timeout` is strongly fair: it
passes however often the wait is interrupted. The pool's workers put back what they
took, and finish what they do with a connection (`FairClientSpec`). In `IOSpec` a wait with a
timeout ends, because select and poll end it; one with a timeout of 0, which means none (std_socket.cpp:256, 282;
Socket.cpp:305), ends only when the socket is ready. 0 is the default of the constructor's `conntimeo`
(Socket.h:92) and what MTService.cpp:109 sets for reads. The kernel finishes a connection that is under
way, or gives it up, since it repeats a SYN a bounded number of times: so `connect` ends also without a timeout. What
may last for ever is excepted in `CallsReturn`, and nothing else is (`HeldByPeer`): a read or write without a
timeout, and a `write(2)` on a blocking descriptor, while the peer neither sends, reads, nor leaves.
Spurious wakeups, connections and failures are never obliged to happen.
The container by semaphore needs only weak fairness for what it claims.

### Violations

Each contradicts what the repository says of itself (see `findings`):

1. `clear()` of the container by semaphore (SafeContainerBySem.h:154-158) beside
   a consumer. It reads the value 1; the consumer claims that token; clear waits
   for a token with the mutex held, and no store can get in to post one.
   `OnlyClearBlocks` in `sem` shows that this is the only way.
2. `LocalLog` at midnight (LocalLog.cpp:284): the thread that notices the new day closes
   the streams under the mutex, others print without it.
3. A cache of fewer than ten slots (`cache_small`, CacheManager.h:306): a tenth of its size is 0 in integers, so a full
   one replaces nothing, and insert goes on with the slot -1. The class promises that the least used is replaced
   (CacheManager.h:18).
4. `save` beside an insert, remove or find (`cache_beside`, CacheManager.h:204): each operation locks, `save` does not, though
   the class is said to be thread-safe (CacheManager.h:19).

Other behaviour a maintainer will want to know, seen in the models or by changing one
value of a configuration, without a run of its own:

* *Cache.* `operator==` of a signature (CacheManager.h:42) compares `sign2.sign2` with
  itself: keys that agree in the first word and share a bucket are one key. `save` returns true over a
  file whose end was lost in `fclose` (213, 219, 225): the next process starts empty. One that starts after a save was broken
  off may load files of two saves, which fit in length, and take them for a cache.
* *Service.* `start()` throws while a child is between the handshake and the call through
  `arg`: the child calls through a dead frame (MTService.cpp:94; state `"lost"`).
* *Connect.* The retry of a timed-out connect may find the connection established while
  `errno` still says `ETIMEDOUT`; connect then closes it and throws (Socket.cpp:180). `connect` with no
  attempts returns as if connected (Socket.cpp:162; `Retries = {0}` breaks
  `ReturnsConnected`, and the theorem assumes 0 is no argument). A retried connect leaves the descriptor
  non-blocking (Socket.cpp:331), and `reConnect` after a failure cannot succeed without
  `initSocket` (Socket.cpp:207).
* *Transfers.* A write after a reset raises SIGPIPE, which only `MTService::start` ignores (MTService.cpp:31): a client
  that has not started a service ends. A call that throws has consumed or sent part of a message (`torn`). On a blocking
  descriptor `write(2)` outlasts the timeout for as long as the peer does not read. A full
  request buffer looks like the end of the stream (std_socket.cpp:350). `safeWrite` returns
  what its last `write` returned where the header says the number of bytes (std_socket.h:174).
* *Logs.* By day, a call that begins before midnight and rotates after it leaves yesterday's last line at the head of
  today's file. `Logger.h:28` calls `rotate_count` the number of backup files; the code keeps one fewer, as does
  `HistoryKept`. A rotate count of one never rotates (`Count` is at least 2). `LocalLog` takes the date again after it has
  opened the files (LocalLog.cpp:299): a second midnight in between leaves yesterday's files under
  today's date. A file that cannot be opened leaves a null stream (285).
* *MySQL.* `reConnect` does nothing while the last call was good, even with a result
  unfetched, and forgets the character set.
* *Dict and index.* A load that is refused has already replaced `mCurrMaxID` (dict.cpp:48),
  or deleted an array and kept its pointer (CommonIndex.h:51). After the first, numbers collide or leave gaps: `misled`
  exempts that history from `IdsDense`, which fails without it. After the second, the next load, resize or destruction deletes the
  array again: the model goes there (`twice`) and ends, since nothing in the repository says what an index is worth
  after a load that threw. Two files of different dumps are not told apart, so an entry may point outside its array; and a
  `read()` that gives less leaves elements uninitialised (CommonIndex.h:88).

## 4. The proofs

Each theorem holds for every value of the constants: any finite set of threads, any
assignment of callable operations to them, either container, any bound on
items, any number of connections and of failed fillings, of slots and keys, of log files
and lines, any terms and indexes; where a theorem needs more than the module assumes, the table says so.

| Module | Theorem | Property |
|---|---|---|
| `SafeContainerBySemProofs` | `Typing` | `TypeOK` |
| | `Exclusion` | `MutualExclusion` |
| | `Balance` | `TokensMatchItems` |
| | `NothingReadFromEmpty` | `NeverEmptyAtTake` |
| | `NothingLostOrDoubled` | `ExactlyOnce` |
| | `Atomic` | `ImplementsAtomicContainer` |
| `SafeContainerByCondProofs` | `Typing` | `TypeOK` |
| | `Exclusion` | `MutualExclusion` |
| | `NothingReadFromEmpty` | `NeverEmptyAtTake` |
| | `WakeupsSuffice` | `NoLostWakeup` |
| | `Atomic` | `ImplementsAtomicContainer` |
| `PcQueueProofs` | `Typing` | `TypeOK` |
| | `Order` | `FifoNothingLost` |
| | `WakeupsSuffice` | `NoLostWakeup` |
| | `Atomic` | `ImplementsAtomicQueue` |
| `MysqlConnPoolProofs` | `Typing` | `TypeOK` |
| | `Exclusion` | `MutualExclusion` |
| | `NotShared` | `NeverShared` |
| | `NotLeaked` | `NeverLeaked` |
| | `WakeupsSuffice` | `NoLostWakeup` |
| | `NotSharedInUse` | `NeverShared` |
| | `RowsOwn` | `RowsAreOwn` |
| `MTServiceProofs` | `Typing` | `TypeOK` |
| | `ServesOwn` | `ServesOwnConnection` |
| | `OneHandoff` | `OneHandoffAtATime` |
| `SocketIOProofs` | `Typing` | `TypeOK` |
| | `ConnectsOrThrows` | `ReturnsConnected`, if 0 is not among `Retries` |
| | `MessagesIn` | `ReadsWhole` |
| | `MessagesOut` | `WritesWhole` |
| `CacheProofs` | `ListsStayWhole` | `ListsWhole` |
| | `ChainsStayWhole` | `ChainsWhole` |
| | `RoomIsMade` | `NeverOutOfSlots`, if `Share <= Size` (in the code: ten slots) |
| | `IsLruMap` | `ImplementsLruMap`, if `Share <= Size` and `ToldApart` |
| | `SavedIsRestored` | `RestartRestores` |
| `FilesProofs` | `NumbersDense` | `IdsDense` |
| | `AcceptsWhole` | `LoadsWhole` |
| | `AnswersAsDumped` | `ArraysAsDumped` |
| | `LogHasNoGap` | `NoGap` |
| | `HistoryIsKept` | `HistoryKept` |
| | `FilesAreBounded` | `FilesBounded` |

Types and mutual exclusion are proved and therefore not repeated in the runs.

Assumptions: the threads are finitely many (for cardinalities); the owner of a free mutex
is not a thread, the absent connection is not a connection and the absent descriptor is not a descriptor; a message has at least one byte; programs consist of
operations that the component has; bounds are numbers and a pool has at least one connection;
an index is a pair of arrays; a log file that does not exist is no sequence of lines. Of the cache:

* `Share <= Size`: a smaller cache replaces nothing and runs out of slots (section 3).
* `ToldApart`: no two keys in use have the same first word and the same bucket, since the cache takes such
  keys for one (section 3), which the map that it implements does not.

Nothing is assumed about scheduling: the theorems are about `Spec`, without fairness.

### The container by semaphore

`MutualExclusion` alone is not inductive: that a post leaves
`mMutexSem` at most one needs the poster to be inside, and that `Inside` is one
thread needs the semaphore to be binary. Nor is `TypeOK`: a take's step needs `op` to be a
take, and clear's counter stays a number because it is positive in
the loop. So `MutexInv` is `TypeOK`, `MutualExclusion` and `StepsOfOperation`
(which operation a step belongs to), and `NextMutexInv` proves it step by step.
Relative to it, `TokensMatchItems` is inductive: `NextTokens` says for each step
which of the three sets it moves an item between (free tokens, `Claims`,
`Uncounted`). The wait of `clear()` claims a token exactly as the wait of a take does, which is why
clear never pops from an empty container although it may block. Finally a thread
that reads is in `Claims`, hence the length is not zero (`ClaimIsBacked`).

The refinement hides an item from the moment it is read. `Contents` chooses the
eraser in progress; `ContentsAre` and `ContentsWillBe` show that exclusion leaves no choice.
The insertion maps to the atomic store, the read to the atomic take, a turn of clear
to the removal of one item, the rest to stutters.

`ExactlyOnce` speaks of `Contents`, which hides an item from the moment it was read. It is therefore proved of the
steps of the atomic container, each of which moves one number from one of the three sets (kept, delivered, discarded) to
another or adds the next number (`Accounted`), and carried over by the refinement.

### The container by condition variable

The signal comes *before* the insertion, so `NoLostWakeup`, which speaks of moments at which the
mutex is free, is not inductive. `EnoughAwake` says it of every step: the items, and
one more for a store that has signalled and not yet inserted, are at most the
consumers that are awake. A woken consumer pays for the item that is about to be stored; one
that finds nothing and waits again does so when there is nothing to count.

### The queue and the pool

The producer signals *after* it has stored (inside the mutex in the queue, outside in
the pool), so here the thread that still owes a signal counts as a consumer
(`EnoughLookers`, `EnoughAlert`): the push adds the thread, the signal replaces it by
the one it wakes, a pop removes one. A consumer that times out is in neither count,
before or after, which is why a `geto` that gives up takes no wakeup with it.

Order and refinement rest on the mutex in both (`HolderInside`, `Holder`): from `front()` to `pop()` the
consumer's item is still at the front, so nobody else may read the front or remove it, and a store may only add
behind it. Hence `front()` is the atomic take, and `pop()` is invisible (`Visible`, `FrontVisible`, `OthersInvisible`). The mutant
whose wait returns without the mutex breaks the refinement and shares a connection.

That no connection is shared or leaked rests on how connections are
made. `Numbered`: those in use are of the arrays and elements connected so far, so a
new one is nobody's. `Apart` and `Kept` are `NeverShared` and `NeverLeaked` said of
positions and workers one by one; `DistinctLength` turns the former into the
cardinality that the run checks. `BootAlone` (no worker has begun while the pool
is filled) is the use the model assumes of the class.

### Using the pool

What workers do with a connection does not touch the pool (`PoolUndisturbed`), so the pool's
invariant holds of their composition. `OwnUnfetched` says that between a worker's `execute` and
its `getResult` the connection holds the worker's own statement or none, `OwnResult` the same of the
fetched result: they are inductive because two workers never hold the same connection (`Apart`),
hence a step of one leaves the other's object alone.

### The service

`ServesOwnConnection` rests on three things. `Turns`: the children that have not reported are none,
or the child of the last connection alone, and `mShareCount` says which while the boss waits.
`InHand`: until that child has fetched it the member stands for the last connection.
And descriptors: one that stands for a connection is not free to be reused, nor closed by
another child, since it would have to stand for two connections. Mutual exclusion is needed only for
`HolderInside`; the handshake is safe because of the count.

### The client

`Attempts` says what each step of connect owes the next; its heart is that the loop is
left by a connection, or when the attempts are used up, and then `errno = ETIMEDOUT`, since that
is what the last attempt left. With no attempt to begin with there is no such last one: hence the assumption on `Retries`. Reads and
writes change `errno` only while no connect is in progress (`Transferring`). `InOrder` and `OutOrder` say of
every step of a call that the bytes before it are whole messages; a finished call adds
exactly one, for which `OneMore` does the arithmetic of remainders.

### The cache

What the arrays mean is stated by three witnesses: the sequence of slots on the free list, that
on the busy list, and for each bucket the sequence of slots on its chain. `Listed` says of a sequence that
the links of its slots lead along it and back. Each list operation of the code is then an operation on the
sequence, `Append` at the tail or `Without` one position, proved once (`TakeOut` and its neighbours) from the code's
case distinction on missing neighbours; insert, remove, find and reclaim are compositions of these. `ListsWhole` and
`ChainsWhole` walk the arrays, with a cut-off; that the walk finds the sequence, and that reclaim's loop
preserves what one turn preserves, would be inductions: they are proved from a least counterexample
instead (`Bad # {}` has a least element, its predecessor contradicts it).

`IsLruMap` reads the map from the busy sequence (`View`). Under `ToldApart` a chain holds at most one slot
that answers to a key (`Unlike`), so a lookup finds the entry if there is one, and each
operation maps to the abstract one (`Told` is the invariant); the replaced batch is a prefix of the map.

A save writes three files one after another, any of which may be lost or cut short, noticed or not. The invariant
(`SaveInv`) says that as long as no operation has changed the cache beside a save, it is as it was when the save began,
that each file the save has got past holds its part of just that or is too short to load, and that after a save that returned true all
three do; `load` undoes `save` (`LoadUndoes`). Nothing need be known of the files before the save, which is why
failed and broken-off saves before it need no assumption.

### Dictionary and index

A dictionary file is always a part of the dictionary that was saved last, with its term count and maximum
(`PartOfSaved`): a load that reads as many terms as are announced has read them all, since a part of equal
cardinality is the whole. Numbers are `Dense`: 0 to the maximum, as many as there are terms; this survives an insertion,
and a save and load, but not a refused load (`misled`). A file of an index is always the head and a part of the array
that was dumped last into it: one as long as its head says is the whole of it.

### The rotating log

`NoGap` is inductive as soon as a rename never meets a name in use (`RoomAbove`): the oldest was removed,
and each turn frees the name for the next. That the removed file is old enough needs a measure of age. By its
place `p` a file would have `p - 1` full files between it and the newest, but an interrupted rotation leaves
an empty place. `Distant` therefore counts them less the processes that have ended: a line at `p` is
at least as many lines old as the newest file has, and `FSize + 1` more for each of `p - 1 - crashes` places, one less above the
hole of the rotation in progress. Moving a file up uses the hole; opening a new file closes it; a crash pays for it. `HistoryKept`
follows where it matters, at the removal. `Sized` (all but the newest file are full) and `Dayed` give `FilesBounded`. `Dayed` says
of every step of a call which days the line in hand and the newest file may have: a stale line is possible only between a rotation and the
write that follows it, where the newest file is empty.

### Only model-checked

Everything that is temporal beyond invariance and refinement: `OnlyClearBlocks`, `NoConsumerLeftWaiting` and the other
liveness properties of the runs (liveness under fairness and `ENABLED` are outside the prover), and the four violations. `LocalLog` has no
theorem: the property it was modelled for does not hold.

## 5. What is left out, and why

* `size()` and `empty()` of the containers read without a lock; a data race on a
  `std::deque` has no outcome one could state a property of. `PcQueue`'s take the
  lock and are modelled.
* `ThreadSem::wait` is taken to succeed. Its result, -1 when a signal
  interrupts it, is ignored by every caller; after that nothing the container promises could be stated.
* The cache's statistics; `load` over a cache in use, which frees its arrays before it knows whether it will succeed and leaves
  the pointers (CacheManager.h:164-167); operations that overtake a single write of `save`: a file here is of one moment.
* `safeReadHttpRequest` writes a NUL behind what it has read (std_socket.cpp:370), one byte beyond a buffer that is full.
* What `safeWrite` returns (section 3), and `connect` with no attempts, of which the text promises nothing.
* Clients that break a protocol: putting back a connection twice, filling the
  pool while workers use it.
* `SingleLog` looks its streams up in a hash map that other threads insert into: a data race without a defined outcome.
* `MysqlDB`'s field accessors, table listings, escaping and character sets; `std_socket`'s vectored
  wrappers, `good()` and options; addresses and `bind`.
* `ServerSocket`, `UdpSocket`, `Host`, `Thread`: a system call or two per function and no state but the
  descriptor. `Config`, the plain containers, and the string functions: sequential, decided character by character.
* Everything outside `ylutils_lib`. Most of the repository's lines are generated or foreign: the four
  tables of 65536 lines under `chcode` (two, in two copies), a copy of Postfix's TLS code
  whose event loop is not in the repository, and the headers of OpenSSL, MySQL and jsoncpp. There is no behaviour in them to specify, so the share of
  all lines that `PROJECT.json` maps is small whatever is modelled of the library.
* Memory order: steps are sequentially consistent. Everything modelled is accessed
  under a mutex, or handed over by one, except where the text says otherwise.

## 6. Plan

The modules that were planned are written and their safety properties are proved; what is left of the library is in
section 5, with the reason. What could still be added:

1. Of the assumptions on the cache: `IsLruMap` without `ToldApart`, against an abstract map whose keys are
   classes of signatures that `operator==` takes for one.
2. Of `LocalLog`: that all streams are closed by their owner when only one thread writes.
3. Refinement of `AbstractContainer` by the container of the pool, whose items are connections.

If modules are added, the violation runs are the first to be folded together, and proofs are added to the modules that exist.
