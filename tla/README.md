# A verification project for eecs343

The repository holds four independent C programs: a seat reservation server with
a thread pool (`src/server`), a shell with job control (`src/tinyshell`), two
kernel memory allocators with their driver (`src/kma`) and a reader of ext2
images (`src/filesystem`). They share no state and no code. The server and the
shell are concurrent and come first; the allocators are sequential but run long
sequences of calls over intricate data; the reader is a walk over an image that
nobody else touches.

## Inventory

| Component | State | Operations | What is hard | What makes it correct |
|---|---|---|---|---|
| thread pool, `server/thread_pool.c` | circular array, `q_start`, `q_end`, shutdown flag, one mutex, one condition variable | create, add task, worker loop, destroy | workers against the accept loop; lost and spurious wakeups; destroy from a signal handler | tasks run once, in order, one at a time; none forgotten; nothing freed while used |
| accept loop, `server/http_server.c` | the global pool pointer | accept and add; `shutdown_server` on SIGINT | SIGINT runs on top of the main thread, wherever it is | shutdown ends the process |
| semaphore, `server/semaphore.c` | counter, mutex, condition variable | init, wait, post, destroy | broadcast and re-test | a counting semaphore; no sleeper forgotten |
| seats, `server/seats.c` | seats with a state, a customer and a mutex; a linked standby list with its length | list, view, confirm, cancel, load, unload | `view_seat` and `list_seats` lock nothing; the length is tested outside the semaphore | requests are atomic; a seat has one holder; the list is in order and bounded |
| requests, `server/util.c` | none kept | read line by line, parse, dispatch, reply | the handler calls the seats from any worker, and waits in `read` with the pool's mutex locked; line ends and full buffers | a request is complete exactly when the handler takes it for complete; it reaches the operation and the numbers the client gave |
| job table, `tinyshell/runtime.c` | `bgjobs`, `nextjid`, `fg_pid` | add, check, update, fg, bg, wait | handlers change entries while the loop walks them | the table matches the children; numbers name one job |
| command loop and handlers, `tinyshell/tsh.c`, `runtime.c` | signal mask, pending SIGCHLD | read, exec, the three handlers | signals between any two steps; one SIGCHLD for many children | zombies reaped; the prompt waits for the foreground job only |
| parsing and input, `tinyshell/interpreter.c`, `io.c`, `RunCmd` | the line buffer, shared by all lines; the working directory | read a line, cut it into tasks and words, find the program, `cd` | words are counted in one scan and cut in another, in place, over what earlier lines have left | a command comes out as typed |
| page layer, `kma/kma_page.c` | pool, stack of free pages, counters | get, free | the pool comes and goes with the first and the last page | a page is lent once |
| buddy allocator, `kma/kma_bud.c` | page list; on each page a count and a free list per size | malloc, free, split, recursive coalesce | any order of requests and frees | memory is never handed out twice; pages go back |
| resource map, `kma/kma_rm.c` | one list of free blocks over all pages, by address, inside the free memory | malloc, free, coalesce, clear pages | the same; pages come back at lower addresses; headers need room | the same; no byte is lost; failures only for the sizes and the pages named |
| driver, `kma/kma.c` | table of requests | allocate, deallocate, final test | errors end the process | all pages are back at the end |
| ext2 reader, `filesystem/lib/ext2_access.c`, `mmapfs.c`, `ext2cat.c` | none kept (a mapped image) | superblock, group, inode, path lookup, blocks of a file | boundaries of blocks, of names and of the indirect block | the inode the image lists under a path; the bytes of a file |

Interactions: `main` of the server calls the pool, whose workers call
`handle_connection`, which calls the seats, which use the semaphore; SIGINT calls
`pool_destroy`. The shell's loop and its handlers share the job table, `fg_pid`
and, through the kernel, the children. The driver calls an allocator, which calls
the page layer.

Files left out: `kma_dummy.c` (a page per request, no state), `kma_p2fl.c`, `kma_mck2.c` and
`kma_lzbud.c` (skeletons that return NULL), `kma/testsuite` (copies of the sources
and traces), `ext2_access_ref.c` (a wrapper of an object file), web pages,
scripts and reports. `PROJECT.json` lists every component with its status and,
under `hazards`, the places where this code is hard to test.

## Modules

| Module | Models |
|---|---|
| `ThreadPool` | the pool with the accept loop and SIGINT |
| `Executor` | abstract: one queue, one task at a time |
| `Semaphore` | `sem_wait`, `sem_post` and their callers, lock by lock |
| `CountingSemaphore` | abstract: P and V, one step each |
| `Seats` | the requests, one access to shared data per step |
| `SeatBook` | abstract: a request acts at one instant |
| `Server` | `ThreadPool` and `Seats` composed: a worker that has taken a connection runs `Seats` |
| `Tsh` | the shell's loop, job table and handlers, and its children |
| `KmaPage` | the page layer, as operators on the pool's value |
| `KmaDriver` | the driver: requests, the lines of a trace, how the process ends; extends `KmaPage` |
| `KmaBud`, `KmaRm` | the buddy allocator and the resource map; each extends `KmaDriver` |
| `Allocator` | abstract: memory is inside a page and belongs to one request; both allocators implement it |
| `HttpRequest` | what `handle_connection` does with the text of a request |
| `Interpreter` | how tinyshell makes a command, and a program to run, of a line |
| `Ext2Cat` | `ext2cat`: the walk along a path and the copy of the blocks |
| `ThreadPoolProofs`, `SemaphoreProofs`, `ServerProofs`, `TshProofs`, `KmaBudProofs`, `KmaRmProofs`, `Ext2CatProofs` | theorems |
| `KmaProofs` | lemmas about the page layer, sequences, minima and rounds, for the allocators' proofs |
| `MC...` | instances for TLC (symmetry; constants are in the `.cfg` files). `MCReaders` extends `Ext2Cat`, instantiates `HttpRequest` and `Interpreter` beside it, and gives the three their inputs; the two that do not run stay as they are, `ext2cat` in an initial state |

Definitions called `X_something` right before `X` are mutants of `X`, used to show
that a property notices such a bug; nothing refers to them.

### Thread pool (`ThreadPool`, `Executor`)

`mpc` is where the main thread is: in `pool_create`, the accept loop,
`pool_add_task`, or, after SIGINT, in `pool_destroy` and the rest of
`shutdown_server`. `pc[w]` is where worker `w` is in `thread_do_work`. One action
is the code between two points where another thread or the handler can come in:
`AddLock`, `AddEnqueue`, `AddSignal`, `AddUnlock` are the four calls of
`pool_add_task`; `WorkerWait` and `WorkerSleep` separate the test of the array from
`pthread_cond_wait`, which gives up the mutex and sleeps atomically. `WorkerTake`
keeps the mutex, as the code does, through the handler (`WorkerFinish`) up to
`WorkerUnlock`. `WorkerExit` keeps it too: the code breaks out of its loop without
an unlock. `Sigint` replaces whatever the main thread does and never returns
there. `SpuriousWake` is what POSIX allows. The ghost variable `conn` says what a
client could tell of its connection: accepted, queued, served.

The array is full when it looks empty. `NoTaskLost` therefore holds with fewer
connections than slots only; the server has 20 (`QUEUE_SIZE`, `http_server.c:23`), and 20 clients may well wait.

### Semaphore (`Semaphore`, `CountingSemaphore`)

Threads that call wait and then post, again and again, as `view_seat` and `cancel`
do. A wake, by a broadcast or not, leads back to the mutex and to the test.
`ImplementsCountingSemaphore` maps the steps onto P (the decrement) and V (the
increment).

### Reservations (`Seats`, `SeatBook`, `Server`)

`Seats` says nothing of who may run when: each access to a seat, to the standby
list or to its length is a step, under the locks the code takes, and no others.
It uses the semaphore as an atomic counter, which the semaphore's own refinement
justifies. `Server` lets a worker run the steps of `Seats` while `ThreadPool` has it in the
handler; every other step leaves the seats alone. That the pool's mutex is held
is not assumed anywhere: it follows from `HandlersSerialized`, and when the mutex is given up
before the handler (the mutant of `WorkerTake`) a request's reply is no longer true.
`TruthfulReply` has one exception, which the code needs: see "Where the code and its
documents disagree".
`ImplementsSeatBook` says that the interleaved steps amount to atomic requests.

### Requests (`HttpRequest`)

Text is a sequence of tokens, a character or a word that is only compared as a whole.
`client` is what the client has sent and whether it closes its side; `taken` is how
much has been read. One action is one turn of the loop of `get_line`: CR LF, CR and
something else, any other character, the end of the input. When a line is complete the same step
does what `handle_connection` does with it (`RequestRead`, `HeaderRead`), up to the
choice of an operation, a file or an error. `Clean` says for which clients the server
understands what was sent; the others are in the runs too, and show why each part of
`Clean` is there: a client that ends its lines in LF alone is answered only when
it closes its side (its blank line has length 1), and a header of exactly `BUFSIZE - 1` characters leaves
an empty line behind that ends the headers too early. Operations are recognised by
any beginning of their names (also the empty one), and an argument by a name that
ends in the one wanted: `reserveSeat.html` sends `userseat`, which works because of that.

### Shell (`Tsh`, `Interpreter`)

In `Tsh`, `mpc` is where the command loop is. The handler of SIGCHLD is a loop of its own
(`HandleChild` per child reported, `HandlerReturns`) that suspends the command loop;
SIGINT and SIGTSTP are one step each. `CheckJob` and `PrintJob` look at one entry of the
table each, so that handlers come in between. `child` is the kernel's view: a child is
forked, runs, stops, is a zombie, is reaped, at any time. SIGCHLD is one bit, as
in the kernel. Signals are blocked where `Exec` blocks them: around `fork`, and not
around `AddJob`, which is what `MCTshHang` runs into. `fg_pid` starts as 0, and
`kill(-0, SIGINT)` signals the shell itself: `intr` says what such a SIGINT has
interrupted, which does not go on before another handler changes `fg_pid`.

`Interpreter` keeps the one thing that survives a line, the buffer, place by place,
with what earlier lines have left in it. `Interpret` is one step and follows the
scans of the code in their order: the ampersand, the bars, and in each task the count
of words (`argc`), the cutting of so many words (`NextWord`), the targets
(`Redirect`). `RunCmd` decides what the result is: nothing, a built-in command, `cd`,
or the program `ResolveExternalCmd` finds. The commands in `Commands` come with
the words the user had in mind, which `WordsAsTyped` compares with the result;
`Lines` are lines of any other kind, which leave their remains in the buffer.

### Allocators (`KmaPage`, `KmaDriver`, `KmaBud`, `KmaRm`, `Allocator`)

One step is one `REQUEST` or `FREE` line of a trace, with the whole of `kma_malloc`
or `kma_free`. In `KmaBud`, `header[p]` is the header at the start of page `p`: its count `used`
and its free lists, as sequences of offsets. The code keeps the lists inside the
free blocks; a sequence is the same thing as long as nobody else writes there, which
is what `NothingOverlaps` establishes: the driver writes to the memory it got, only. The
recursion from `coalesce` to `kma_free` and back is a function over the number of
rounds (`coalesce`, `Round`), each of which removes a free block; the loop that splits a block
is one over the number of levels (`Carve`, `Halve`). Three oddities
of the code are in the model as they are: a free block is computed from the size
without the header that was added when it was taken; a block beyond the end of its
list is dropped; joining a pair drops the blocks in front of it.

In `KmaRm`, `blocks` is the one list of free blocks, of all pages, by address. Its
headers need room the allocator does not always keep; where a header would fall on
memory that is not free the model stops with the verdict "damage", and
`DamageIsBySize` says which sizes can do that. `new_page` follows a NULL pointer when
the pool returns a page below the first one: the verdict is "crash", and
`CrashNeedsLowerPage` says when. Short of these, `NothingLost` accounts for every
byte of every page lent, and `ListComplete` is what makes the insertion in `kma_free`
safe, which has no case for the end of the list. The loops of `coalesce` and
`clear_empty_pages` are recursive functions along the list (`joined`, `walk`); the second walks
the list as it was at the start, while what is linked changes under it, and `prev` says
what the variable `previous` of the code points to by then.

### The ext2 reader (`Ext2Cat`)

An image gives each block two readings, entries and pointers, because the code reads
whatever it is led to. Operators take the image as their first parameter, as the functions
of the code take `fs`. `Compared` and `Matches` are the search as it is: one entry
beyond the end of the block, and a comparison over the length of the entry's name.
`Named`, `BlockOf` and `BytesOf` are the references: what the image lists under a path, and which
block holds which part of a file, and how much of it. An image is one of those the program
can walk at all (`ImageOK`): entries name inodes of the table or, with 0, none; the pointers to
direct blocks lead into the image, not to its very last block, and are 0 behind the end of
the file; block 0, which an unused pointer names, has no entries. What an indirect block
holds is not restricted. `LookupExact` holds except for names with an
impostor (`Misleading`). That exception is large: ".", the first entry of each
directory, is a beginning of ".." and of every hidden file, which can therefore not be
read (the path leads to the directory itself). Of files that need more than one
indirect block the first part is right (`CopyExact`); the loop then goes on beyond
the pointers, so the message about a file cut short comes late or not at all. The code does
not test whether a block is in the image; where it is not, the behaviour ends with the
answer "fault", and `CopyExact` says when: the image itself must place a block of the file
outside, or the file must need more than one indirect block.

## Runs

| Run | Bounds | Shows |
|---|---|---|
| `thread_pool` | 1 and 2 workers, 3 slots, 2 connections | types, handlers one at a time, no task lost, no wakeup lost, no use after destroy, implements `Executor`, every queued task served |
| `thread_pool_shutdown` | 2 workers, 1 connection | violation of `ShutdownCompletes` |
| `thread_pool_overflow` | 2 slots, 2 connections | violation of `NoTaskLost` |
| `semaphore` | 4 threads | mutual exclusion, no sleeper forgotten, implements `CountingSemaphore`, every sleeper woken |
| `server` | 2 workers, 2 connections, 2 seats, 2 customers, standby list of 1 | truthful replies, listings are snapshots, the standby list is consistent, implements `SeatBook`, an occupied seat stays occupied, only its holder moves a pending seat |
| `server_standby` | 1 worker, 1 connection, 2 seats, 2 customers | violation of `CancelGivesUp` |
| `tsh` | 2 children | the table matches the children, job numbers, the foreground job is waited for, signals reach the shell's own jobs only, zombies are reaped |
| `tsh_hang` | 1 child | violation of `PromptComesBack` |
| `kma_bud` | 3 pages of 512 bytes, 5 block sizes, 4 requests, 7 sizes | nothing overlaps, lists ordered, pages accounted for, implements `Allocator` |
| `kma_bud_pages` | the same | violation of `AllPagesFreed` |
| `kma_rm` | 3 pages of 128 bytes, headers of 16, 4 requests, 7 sizes | no memory lost, the list complete, damage by size only, crash only with a lower page, implements `Allocator` |
| `readers` | 58 images and 13 paths; 525 clients; 94 commands and 18 other lines, two lines in a row | lookups and copies are exact, requests are understood as sent, words come out as typed |

Why the bounds are enough:

* Pool: with two workers every pair (main thread, worker) and (worker, worker)
  interferes, a third adds no new kind of meeting; three slots and two connections
  make both indices wrap, with 0, 1 and 2 tasks in the array. Connections come
  back for ever. The safety theorems lift the bounds for the properties they cover.
* Seats: two customers and two seats are the least with a seat that is pending for
  somebody else while a customer holds one; a standby list of one is empty, full
  and overfull (refused). A list of one has no order; with a list of two (4.9 million states,
  too many to be kept as a run) the same properties hold, and `ServerIsSeatBook` covers the
  order for every length. The 20 seats and the list of 8 (`STANDBY_SIZE`, `seats.c:9`) of the
  code differ in number only.
* Shell: two children are one in the foreground and one in the background, whose
  signals merge; three children (1.4 million states) were run for safety only.
  `MaxPid` bounds the programs run, never their order or state.
* Buddy: a page of 512 bytes keeps the real sizes of the two headers (24 and 168
  bytes on a 64-bit machine) and of the smallest block, so a page is half taken by
  its header block and the other half has up to four blocks of 64, enough for a pair behind
  another free block. The sizes are one per case: exact (40, 100), freed as
  half of what was taken (110), whole page freed as a smaller block (240), whole
  page (300), refused with an error (400), refused as the driver expects (510).

* Resource map: the sizes are again one per case: smaller than a header (8), exactly
  one (16), ordinary (40), one that leaves exactly a header (100), one that leaves
  less than a header (110, 118), refused as the driver expects (125). Three pages are needed for a
  page between the first and another, which can go first, in the middle or last.
* Readers: the images have blocks of two pointers and three direct blocks, so files of
  0 to 97 bytes end inside, at the end of and behind the direct blocks, the indirect
  block, and what it can point to; the block behind a block of the root is another
  block of it, one of zeros, of text, or of another directory. A line has 18 places and
  headers of 16 to 40 characters end before, at and behind one or two of them. All
  pairs of lines cover every remainder a line can leave under the next one.

Deadlock is not checked in the runs where the system stops on purpose or by its
own fault: the server and the pool exit or hang in `pthread_join`, the shell
exits or waits for input nobody types, the driver ends with an error. It is
checked for the semaphore.

## Fairness

* `ThreadPool`: weak fairness of the main thread's code and of each worker. It says that
  a runnable thread runs, that a mutex nobody takes is taken in the end, and that
  a handler returns, hence that clients finish their requests: without that the
  code, which holds the mutex meanwhile, promises nothing. Connecting, SIGINT and
  spurious wakeups need not happen. Nothing says which contender gets the mutex.
* `Semaphore`: the same for each thread, and strong fairness for the mutex in
  `sem_post`: the thread that posts is not overtaken for ever by threads that find the
  counter at zero. POSIX does not promise that; any mutex with a queue does.
* `Tsh`: weak fairness of the loop and of the handlers. Children need not end, nobody
  need type.
* The allocators and the readers are sequential and have safety properties only.

## Where the code and its documents disagree

* `ShutdownCompletes`: a worker that sees the flag exits with the mutex locked
  (`thread_pool.c:139`), so with a second worker `pool_destroy` never returns.
* `NoTaskLost` with as many connections as slots: `pool_add_task` has no test for a
  full array (`thread_pool.c:87`).
* `CancelGivesUp`: `cancel` hands the seat to the head of the standby list, who may
  be the customer who cancels (`seats.c:162`; `report.DOC` speaks of other users).
* `PromptComesBack`: a foreground program that ends before `AddJob` lists it leaves
  `WaitFg` waiting for ever.
* `AllPagesFreed`: the first page stays in use when the first request takes a page of
  its own (`kma_bud.c:172`; the driver ends with "not all pages freed").

Each of these has a run that shows it. One more is stated as the exception of a property
that holds: confirm and cancel answer "Permission denied - seat held by another user"
(`seats.c:121`, `seats.c:175`) of a seat that is available, because they compare the number
on the seat before they look at its state (`seats.c:119`). A fresh seat carries -1, a freed one its
last customer. `TruthfulReply` says that the answer is true of every seat that is pending or
occupied, and claims nothing of it on an available one.

So is a second: `filesystem/DOC:11` says that `strncmp` is used "to precisely compare" names, and
it compares no more than the length of the entry's name (`ext2_access.c:123`), so entries whose names
begin others win. `LookupExact` excludes these names (`Misleading`) and is exact for all others. Headers that
fill the buffer of a line exactly are excluded in the same way (`Clean` in `HttpRequest`), but no document says
anything of them.

## What is proved

Every theorem holds for every value of the constants, from the named assumptions
of the modules alone unless a hypothesis is mentioned. The inductive invariants
stand beside the properties, at the end of each module; TLC checked each of them
before it was proved.

### The pool (`ThreadPoolProofs`)

* `TypeCorrect`: types.
* `Serialized` (`HandlersSerialized`): who is between a lock and its unlock owns the
  mutex (`LockInv`). The property alone is not inductive: it does not say who may
  lock while a handler runs.
* `DestroySafe` (`NoUseAfterDestroy`): `LoopInv` relates the index of the creating and
  of the joining loop to the workers that exist and have exited. The pool is only
  freed when all workers can be joined. With two or more that never happens, since the first to
  see the flag keeps the mutex (`ShutdownCompletes`), so what the property says of the freed
  pool is about pools of one worker.
* `WakeupKept` (`NoLostWakeup`): a worker about to sleep has seen an empty array that is
  still empty because it owns the mutex (`WaitInv`), so the signal cannot fall
  between test and sleep.
* `TasksKept` (`NoTaskLost`) and `PoolIsExecutor` (`ImplementsExecutor`), under the
  hypothesis `FewerConnsThanSlots`. The code has no test for a full array, so this
  is what it relies on, and the run `thread_pool_overflow` shows that nothing less will do. A
  connection is in one hand at a time (`HandsInv`), the slots in use hold connections
  (`FilledInv`), and no connection is in two of them; so there are at most as many slots in use
  as connections, less than the array has (the pigeonhole principle), and
  `AddEnqueue` never closes the ring. For the refinement, adding a slot at the
  end and taking one at the start of the ring are `Append` and `Tail` of the queue wherever the indices
  wrap.

The conjunction of the first four with the types is `IInv`; `TaskInv` is proved on top of it.

### The semaphore (`SemaphoreProofs`)

`SemTypes`, `SemExcludes` (`MutualExclusion`), `SemForgetsNobody` (`NoSleeperForgotten`)
and the refinement `SemRefines` (`ImplementsCountingSemaphore`), for every set of threads.
The argument is again that who is inside owns the
mutex (`MutexInv`), together with: the unit is either in the counter or with one
thread.

### The composed server (`ServerProofs`)

For any number of workers, connections, seats and customers and any length of the
standby list:

* `ServerIsPool`: the server's steps, seen without the seats, are steps of `ThreadPool`, so
  that all invariants of the pool hold in it. What follows rests on one of them: a worker in the
  handler owns the pool's mutex, so there is one such worker, and no thread is inside
  `Seats` beside it (`ServeInv`).
* `ServerTypeCorrect`, `RepliesTrue` (`TruthfulReply`), `ListingsCorrect`
  (`ListingIsSnapshot`), `StandbyCorrect` (`StandbyConsistent`). What a request has read
  is still so when it acts on it: `RequestInv` says at each step what it knows of
  the seat, `HolderInv` that a seat in use has a customer, `ListInv` of the listing so far, `StandbyInv` and `LengthInv` of the list, its length and
  the semaphore, which are apart only while the one request is between two updates.
* `OccupiedStays` (`OccupiedIsFinal`) and `HolderMoves` (`OnlyHolderMoves`), the action properties.
* `ServerIsSeatBook` (`ImplementsSeatBook`): each request takes effect in one of its steps, and the
  others stutter.
* `InnerLocksCorrect`: no request ever waits for the semaphore or for a seat's mutex,
  and a seat's mutex is locked only by the request between its lock and unlock (`MutexInv`). Under the pool's mutex these
  locks are not needed; without it the readers would need them too.

### The shell (`TshProofs`)

For any number of children and any commands:

* `TableCorrect` (`TableMatchesChildren`) with `TypeCorrect`: children and entries match in every
  interleaving of the loop with the three handlers. `CommandInv` says what the loop knows of the
  child it has just forked, or of the job it resumes; handlers do not undo it.
* `ForegroundCorrect` (`ForegroundIsWaitedFor`).
* `NumbersCorrect` (`JobNumbers`): the number that the loop has read, and the one it writes a
  few steps later, is still free, although a handler gives out numbers too. That holds because
  `HandleChildren` gives one only to an entry without a number, hence in the foreground, and there is
  none while the loop links another (`GivenInv`).
* `OwnJobsCorrect` (`SignalsOwnJobs`): `FgPidInv`. The entry that `fg_pid` names is one that `CheckJobs` removes without a word,
  which is where it also clears `fg_pid`; were there another way, ctrl-c would reach a process that is not the shell's.
* That `nextjid` and the table stay inside their bounds (part of `TypeOK`) is a count: each number given
  belongs to a different child (`NumberedInv`).

### The buddy allocator (`KmaBudProofs`, `KmaProofs`)

For any number of pages, levels and requests and any sizes. The assumptions are that a page is
the smallest block times a power of two, that the two headers fill at most half of it, and that the block
the page header gets (`round_up(PageHeader)`: the code asks for it without the header
in front of it) has room for both: 256 bytes for 192 on a 64-bit machine.

The inductive invariant `IInv` says of each page that its lists are ordered, their blocks in
place and apart (`FreeOK`), that no free block touches the headers or the memory of a request
(`Clear`), and that the count is the number of requests (`HeapOK`, `BusyInv`, `PoolMatches`). Memory
of a request is what was taken, not what was asked for (`Extent`): kma_free puts back a block of
half the size at times, and it is only apart from the others because all of the block taken is.
From it follow

* `TypeCorrect` (`TypeOK`), `ListsStayOrdered` (`ListsOrdered`), `PagesStayAccounted` (`PagesAccounted`);
* `NothingEverOverlaps` (`NothingOverlaps`);
* `BuddyIsAllocator` (`ImplementsAllocator`).

The order is needed to join: `RoundKeeps` uses it where the two halves of a pair, and all in front of them, leave
a list, and `PairIs` that a pair which starts at an even multiple is a whole block. `coalesce` and `Carve` are
rounds; what a round keeps is kept by any number of them (`RoundsStay` in `KmaProofs`), so that nothing has to be
shown about how many it takes. `CarveKeeps` does count: after at most `Levels` halvings the block has the
size that was asked for.

### The resource map (`KmaRmProofs`, `KmaProofs`)

For any number of pages and requests, any sizes and any size of a header that leaves room for a
block on a page. Every safety property of the run is proved, the action property and the refinement:

* `TypeCorrect` (`TypeOK`), `ListStaysComplete` (`ListComplete`), `NothingEverLost` (`NothingLost`);
* `DamageBySizeOnly` (`DamageIsBySize`) and `CrashOnlyBelow` (`CrashNeedsLowerPage`);
* `MapIsAllocator` (`ImplementsAllocator`).

The inductive invariant `IInv` accounts for bytes instead of blocks: the list is ordered and no two
blocks of it touch (`Spaced`), and each byte of each page lent is free or taken, and not both
(`MapOK`). One more fact makes it inductive, of which neither the code nor `NothingLost` says anything: the last byte of a page
is never taken. First fit takes no block without leaving the room of a header, and what a new page leaves
over is a block. So every block that comes back finds one behind it on its page
(`BlockBehind`, `FreeFindsPlace`), and the loop in `kma_free`, which has no case for the end of the
list, needs none.

With bytes the loops can be followed. `Join` keeps the bytes that are free whatever it joins
(`JoinKeeps`, `CoalesceIs`), and once no two blocks touch, the blocks are determined by the bytes (`SameBytes`). A page without
requests is then one block of `REAL_PAGE_SIZE` bytes (`EmptyIsWhole`), and conversely (`WholeUntaken`).
`clear_empty_pages` gives back exactly the pages of such blocks although it cannot relink a list through a page
that has just gone: a free makes at most one page empty besides the first (`WholeOnly`), and
`ClearKeeps` goes through what `prev` can be under that condition. A header falls on memory that is not
free in two places only (`NoOverwrite`, `HeaderInside`), each with a size named by `DamageIsBySize`; and `new_page` finds no
predecessor for the rest of a page only if that page is below the first one
(`CrashIsBelow`).

### The ext2 reader (`Ext2CatProofs`)

For any images as above, any paths, any number of direct blocks and any size of a block.
What the run `readers` checks of it is proved (that entries name inodes of the table, and that a
read outside the image ends the behaviour, are assumptions of the model and not results):

* `PathsResolved` (`LookupExact`). `SplitIs` says what the cutting at the slashes makes of a path, as far
  as the walk needs it: there is at least one name. `WalkInv` says that after some names the walk
  is where the image lists these names, unless it has been misled (`Misleading`); and once the
  image lists nothing, it lists nothing further down (`LostStaysLost`). One directory is `SearchExact`: the first
  entry compared that matches has the inode listed, whichever it is (`SearchFinds`, `LeastOf`), if there
  is no impostor among those the loop compares, which `ComparedAre` places in the directory's blocks or at the
  start of the block behind one of them.
* `FilesCopied` (`CopyExact`). `CopyInv` counts: after `n` pieces `bytes_read` is `n` blocks or the size of the file,
  whichever is less, the last piece began inside the file (`NextPiece`), and each piece has been what it should
  be. A piece is only copied when the file has one more block, so a read outside the image is one of a
  block that the image places there, as long as one indirect block is enough. And when a loop leaves off, the number of pieces is the number of blocks (`BlocksAre`), if one indirect block is
  enough. The loop over the pointers is bounded by four times as many as there are; that it ends in
  time (`WriteKeeps`) follows from the size of the file alone.

`split_path` and `Named` are recursive functions; that such a function exists and what
its values are is an induction over sets of naturals (`RoundsExist`, as in `KmaProofs`, which
this module cannot use because it extends the driver).

### What stays with TLC

* Liveness (`TasksServed`, `EverySleeperWoken`, `ZombiesReaped`, and the violations of
  `ShutdownCompletes` and `PromptComesBack`), which the prover cannot do.
* `UnderstoodAsSent` and `WordsAsTyped`. They compare what loops over text make with what a
  client or a user meant by a text put together from names, numbers and quotes: inductions over the
  text itself, in which what is typed is a recursive definition as well as what is read.

## Not modelled

System calls that fail (accept, fork, pthread_create, malloc); the text of replies and
messages; the creation of the server's socket; `alias` and
`unalias`, which do nothing; pipelines and redirections beyond their parsing, because the
code parses and never carries them out; lines longer than the shell's buffer and the end
of its input; the reuse of process numbers; the handlers of SIGINT and SIGTSTP as more
than one step; the contents of allocated memory (what `fill` and `check` compare is
represented by who has which bytes) and the driver's statistics.

Left out as components: `kma_dummy.c`, given with the assignment, which has a page per
request and nothing of its own to go wrong; the three skeletons of allocators that
return NULL; `kma/testsuite`, whose sources are copies of those modelled, beside a
driver with random requests; the reference implementation of the ext2 reader, whose code
is an object file; the web pages; the headers of the ext2 format beyond the fields the
reader uses.

## Plan

1. (done) `ThreadPool`, `Semaphore`, `Seats`, `Server`, `Tsh`, `KmaPage`, `KmaDriver`, `KmaBud`,
   `KmaRm` with their abstract specifications; `HttpRequest`, `Interpreter`, `Ext2Cat`; runs
   and mutants; the first theorems.
2. (done) Theorems about the pool, the semaphore, the composed server and the shell: every safety
   property, both action properties and the refinements.
3. (done) Theorems about the buddy allocator: its lists, its pages, and that memory is never handed out twice.
4. (done) Theorems about the resource map: that no memory is lost or handed out twice, and when it fails.
5. (done) Theorems about the ext2 reader: the walk and the copy. The parsers of requests and
   commands are left to TLC.
