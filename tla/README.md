# LIBC/370: a TLA+ model of the runtime

LIBC/370 is a reentrant C runtime library for MVS 3.8j. This directory holds
TLA+ modules that model its concurrent and stateful parts, TLC configurations
that check them on small instances, and TLAPS proofs that hold for every
instance. Paths below are relative to the repository; `src/src/...` in
`PROJECT.json` is `src/...` of the repository.

    tlasany M.tla                      parse
    tlc -workers 2 -config X.cfg M     check the run whose cfg is X.cfg
    tlapm M.tla                        check the proofs of M, one of MutexProofs,
                                       ThreadProofs, TimerProofs, ThreadManagerProofs,
                                       ArrayFacts, ArrayProofs, ServiceProofs,
                                       SocketProofs

`PROJECT.json` lists the components, the runs with their properties, for each
property a mutant of the model that it catches, the source lines behind every
definition (`map`), the hazards and the theorems.

## 1. The system

### Components, their state and their operations

| Component | State | Operations | Modelled in |
|---|---|---|---|
| Mutexes, `src/mvs/mutex` | `CLIBMUTX` (owner, count), the ENQ named after its address, `crt->crtmutx` | `mtxnew/init/lock/try/unlk/free/held/avail` | `Mutex`, `RecursiveMutex` |
| Locks, `src/mvs/lock`, `src/mvs/enq` | ENQ resource queues of MVS | `lock`, `try`, `unlock`, shared forms | inside `Mutex`; elsewhere as atomic sections |
| Threads, `src/mvs/thread` | `CTHDTASK` handles with the subtask's stack in them, the table `grt->grtcthrd`, TCBs | `cthread_create_ex/wait/delete/detach/find/self`, the driver `CTHREAD` | `Thread` |
| Cleanup functions, `@@ctpush.c`, `@@ctpop.c`, `@@ctcrtx.c` | the paired arrays `crtpush`, `crtargs` | push, pop, the loop at thread end | `CleanupStack` |
| Thread manager (worker pool), `@@cm*.c` | `CTHDMGR`, `CTHDWORK`, item queue, ECBs, states | `cthread_manager_init/term`, `cthread_queue_add/del`, `cthread_worker_*`, the dispatcher | `ThreadManager` |
| ECBs, `src/mvs/ecb` | the ECB word, one STIMER interval per task | post, wait, timed wait | inside `ThreadManager`, `Timer` |
| Timer service, `src/mvs/timer` | flags, thread handle, the array of `TQE`s, two ECBs | `tmr_start/stop`, `tmr_ecb*`, `tmr_func*`, `tqe_*`, `tmr_thread` | `Timer` |
| stdio byte streams, `src/stdio` | `FILE` (flags, record buffer, position), DCB and block buffer, the data set | `fopen` ... `fclose`, `fseek`, `ungetc`, `rewind`, `clearerr` | `Stream` |
| Dynamic arrays, `src/ext/array` | a block with a header, the caller's pointer into it | `arraynew/add/addf/del/get/free` | `Array`; as sequences elsewhere |
| stdio: open streams, `@@fpopn.c` ... `@@fpterm.c`, `@@aopen.asm` | `grt->grtfile`, each stream's DD, DCB, OPEN and buffers, lazy `stdin/stdout/stderr` | `fopen` by every kind of name, `fclose`, `fflush(NULL)`, the end of the program | `OpenStreams` |
| Dynamic allocation, `src/mvs/dynalloc`, `src/dynit` | lists of text units, DDs | the `__tx` functions, `__dsalc`, `__dsfree`, `dynalloc`, `dynfree` | `DynAlloc` |
| JES2, `src/mvs/jes2*` | handles of checkpoint and spool, readers, the lists they return | `jesopen/close`, `jesiropn/put/cls`, `jesjob`, `jesprint`, `jesdelj`, the external writer | `Jes`, `JesSpool` |
| VSAM, `src/mvs/vsam` | `VSFILE`: ACB, RPL options, flags, exits | open, read, write, update, delete, start, clear | `VsamFile` |
| BSAM, BDAM, EXCP, record files, `src/mvs/osio`, `rfile`, `file` | DCB with exit list, the outstanding request, `RFILE` | `osb*/osd*/osx*`, `oscheck`, `ropen` ... `rclose`, the x37 exit | `OsFiles` |
| Lists, `src/mvs/dslist`, `dscb`, `dd` | arrays of blocks that share strings | `__listds/al/vl/pd`, `__free*`, `__walkpd`, formatting of entries | `DsLists` |
| Members and data sets, `src/mvs/pds`, `idcams`, `@@dadsm.c`, `remove.c`, `rename.c` | directories, VTOCs, catalog | delete and rename, IDCAMS records | `Members` |
| Sockets, `src/net`, `src/net/dyn75` | the list of sockets with their addresses, the emulator's table | every call of the vector, the end of the program, address conversions | `Sockets` |
| Pure functions: `int64`, `time`, `time64`, `string`, `ctype`, conversions, `qsort`, `printf`, `scanf` | none | algorithms | `Int64`, `Calendar`, `Strings`, `Ctype`, `Stdlib`, `Printf`, `Scanf` |
| C runtime, `src/mvs/crt`, `exit`, `atexit` | PPA, GRT and CRT of each program, the word in the first save area | start, exit, `on_exit`, anchors | `Programs` |
| Recovery, `src/mvs/recovery` | the ESTAEs and retry points of a program | `try`, `estae`, the harvest of dead programs | `Programs` |
| Environment, `src/mvs/env` | the array of variables, the DD that is read on first use | `getenv`, `setenv`, `unsetenv`, `loadenv` | `Environment` |
| Heap | subpools | `malloc`, `free` | not modelled |
| racf, apf, wto, tso, ispf, smf, subsystem, link, locale, math, setjmp | control blocks of MVS, registers | SVCs with a parameter list, functions | not modelled |

`PROJECT.json` ("components") names every source file under exactly one
component, with the reason where it is not modelled.

### How they interact

A program is one MVS job step with several tasks (TCBs) that share storage.
Every task has a CRT; all share the GRT. Serialization is by ENQ: `lock(&x)` is
an ENQ on a name made from the address of `x`, and ENQ is released by MVS when
its task ends. Mutexes are built on ENQ and remember their owner in storage
that anybody reads. Threads are subtasks made by ATTACH; their driver calls the
program's function and `@@CTEXIT`, which pops the cleanup functions and
releases the mutexes of the thread. The thread manager runs a dispatcher thread
and workers, all threads, which talk through ECBs and a lock. The timer service
runs one thread that walks an array of requests under a lock and calls
functions of the program from inside the walk. A `FILE` has a lock of its own,
held for the whole of a call. Below streams, record files, members and JES2
handles lies dynamic allocation: a DD is obtained for them and has to go back
whichever later step fails. The services build their results as dynamic arrays
of blocks that their callers free with a function of the service. A socket
number belongs to the emulator, which serves all programs; the program keeps a
list of its own to remember addresses and to close what is left.

### What is hard here

* Words that are read without the lock that protects their writers (mutex
  owner and count, the manager's state, the handle of a thread).
* Addresses that are reused: TCBs and heap blocks identify threads and mutexes.
* ATTACH, where the subtask can run to its end before its creator has stored
  the results.
* ECBs, which hold one post: a second post, or one between a read and a clear,
  is lost; every wait can run out.
* Shutdown protocols with a limited number of tries (`cthread_manager_term`,
  `tmr_start`, `tmr_stop`), whose peers may just then answer.
* Callbacks that change the data structure the caller is walking.
* `+` streams, which close and reopen their DCB when they turn from reading to
  writing, with bytes in three buffers and a position counted in units of what
  a reader would see; failures of the device and of storage in between.
* Calls that obtain six or eight things one after another, any of which can be
  refused: what was obtained goes back once, and what is returned is whole.
* Words of a shared table that are changed in two steps with a request of the
  emulator in between (`closesocket`, `socket`, `accept`).
* Programs that call programs in one task: one that abends never runs its own
  exit, and the recovery of a program above it has to free what it left without
  touching what lives.
* Input nobody can trust: spool blocks that JES2 has given to another job,
  catalog listings, directories, IOT chains.
* Arithmetic at the edge of a word: carries, shifts by a whole word, 2106, the
  rounding that adds a digit.

The hazards in `PROJECT.json` give these with their lines.

## 2. The modules

### `Mutex`, `RecursiveMutex`, `MCMutex`, `MutexProofs`

`RecursiveMutex` is the promise: a mutex has at most one holder and a number of
times it is held; acquire, release one level, and the end of a thread. `Mutex` is
the code: every store to `owner` and `count`, the ENQ, the `arrayadd` and the DEQ
is a step of its own, for any number of tasks. `mtxheld()` is one step although
it loads two words: only the owner stores into either, and for another task the
load of `owner` decides. A thread that ends goes through the cleanup loop of
`cleanup_thread()`, after which MVS gives back its ENQs and its TCB address can
be used by a new thread.

`ImplementsRecursiveMutex` maps the holder to the task whose ENQ it is, from the
step where it obtains it, and the level to the history `depth`.

### `Thread`

Handles, TCBs and the table. The sections under `lock(&grt->grtcthrd)` are one
step; the words of a handle are not locked, so their stores are separate steps.
TCB addresses and handle blocks are reused freely. Sizes of stacks keep their
arithmetic: rounding, the save area and the refusal of sizes over 16 MB.

`ThreadProofs` proves its properties.

### `ThreadManager`

The dispatcher (`dispatch_thread` and what it calls, section by section; inside
`dispatch_thread_work()` it looks at one worker after the other, with the lock
held), the workers inside `cthread_worker_wait()`, clients that add items, and
`cthread_manager_term()` with its two join loops. ECBs are values that a post
sets only if they are not posted. Waits end by a post or by time, STIMER may
fail, worker functions may return unasked. `orphans` are the workers that run on when
their manager has been freed: what they post may be the storage of the next manager.
With `MemFails` the arrays of items and of workers may refuse an entry; the code does
not look, so that an item is lost and a worker runs unlisted. Constants: `Tries` bounds the tries
of the join loops; `Outlasts` says how long a try is compared with the other
tasks ("nothing": a try may be over at any time; "calls": no try is over while
a worker is inside a library call; "functions": nor while it is in its function).
`ThreadManagerProofs` proves its properties.

### `Timer`

A section under `lock(tmr)` is one step; the pass over the array is one step per
element, with the lock held, and each due element calls a function that may use
the service (`Called`). A time is abstracted to whether it has come. `stopped`
and `st` are history. `TimerProofs` proves its property.

### `Stream`, `MCStream`

One data set, one stream, three layers as in the code: access method (blocks),
`FILE` (record buffer), calls. A call holds the FILE lock, so it is one action;
inside it the functions of the code are operators from a world (data set, FILE,
DCB, return code, what the device will do) to a world. A byte is one of a few
values; a record is a sequence of bytes and a block a sequence of records, so
that lengths, padding, the newline that a text record does not store, and the
BDW and RDW lengths are real. `job` is the format of the data set, what the program may do with it, whether it seeks, and what will fail: nothing, writes
for want of space, the read of one block, or the opens, chosen at first.
`Avoid` lists situations that the runs keep the program out of because the code
does not do there what it promises (section 5); take one out and a property
fails.

### The services: `Ledger` and the modules on it

A call of a service runs in its caller's task and shares nothing before it
returns (`Sockets` excepted), so it is one action. Inside it the functions of
the code are operators from a record `c` to a record: `c.held` is what has been
obtained (blocks, DDs, DCBs, OPENs, each with a number), `c.twice` whether
something was given back that was not held, `c.faults` which of the requests
made on the way will be refused. An action chooses the faults, runs the whole
call, and leaves in `result` what the caller sees. The invariant `NothingLost`
compares `ledger.held` with what the callers still own, over all services.

* `Array`: the block, the growth by `ARRAY_DEFAULT`, the slots that are cleared; the
  modules below build their lists with its operators. `ArrayProofs` proves its property.
* `CleanupStack`: `cthread_push()`, `cthread_pop()` and the loop at thread end on
  the paired arrays of functions and arguments. A cleanup function is the
  program: it may push, pop and call `cthread_exit()`, which starts the loop again.
  `ServiceProofs` proves its property.
* `DynAlloc`: every `__tx` function with its table of words or its range, `__dsalc()`
  with each of its options, `dynalloc()`, `dynfree()` and the fixed room of their
  request, SVC 99. A value is its length and what `atoi()` makes of it.
* `Jes`: `jesopen()` with the DDs of the step, the catalog and the volumes, in the
  order in which they are tried; the internal reader; the external writer;
  requests to the subsystem. `JesSpool`: a spool data set as blocks of records
  by their header fields and lengths, `jesprint()` with spanned lines,
  `jesjob()` with IOT chains and JCL text.
* `OpenStreams`: everything `fopen()` obtains and the attributes it arrives at
  in the open exit; the list, `fflush(NULL)`, the lazy standard streams and
  `__fpterm()`. What a stream does with its records is `Stream`.
* `VsamFile`: a handle and a cluster of two keys; the requests of VSAM are
  external and answer by the RPL's options, which the functions of the library
  set and put back. `ServiceProofs` proves its property for any number of keys.
* `DsLists`: listings of LISTCAT as lines, chains of DSABs, UCBs and directory blocks
  as data; the lists with their sharing of catalog names.
* `OsFiles`: DCBs of the three kinds and their exit lists, the outstanding request,
  block addresses by extents, record files. `Members` extends it: directories, a VTOC and
  a catalog that STOW, IDCAMS, SCRATCH and RENAME change.
* `Environment`: the variables as an array with holes; `SYSENV` or `ENVIRON`, read line
  by line by the first task that asks, while the others wait. Names differ in
  their word, their case and blanks around them. `map` is the history of what the
  program has set. `ServiceProofs` proves its property.
* `Programs`: the frames of a task (programs, functions under `try()`, exit functions),
  the PPA of each program with what its GRT and CRT lead to, the word that names the
  PPA of the program that runs, and the ESTAEs of MVS. A program may abend
  wherever it runs. `lost` is history: what an abend inside the recovery leaves;
  `stale` marks a program one of whose routines let an abend go on.
* `Sockets`: two tasks inside calls at once; a call is a step for each request
  of the emulator and for each section under the lock of the list. The emulator
  gives out a number again as soon as it is closed. The transfer loops of `send()`
  and `recv()`, the wait loop of `selectex()` and the address conversions are
  functions of what the emulator answers. `SocketProofs` proves `SocketsAreOwn`.

### Pure functions: `Library` and the modules on it

A state is one finished call with its arguments and its result, and a property
compares the two with a definition written from the standard: `Int64` (a word has 8
bits and two of them make a number), `Calendar` (years 1970 to 9998 at the edges
of every rule), `Strings` and `Ctype` (memory as a function), `Stdlib`, `Printf` and
`Scanf`. `LibraryCalls` puts them together; `MCLibrary` gives the arguments, next to
each carry, sign, range and rounding.

### `MCServices`

All services and the pure functions in one specification: `of` is the component
whose calls a behaviour makes. They share the ledger and its one invariant, and
`Components` says which of them are checked.

## 3. The runs

| Run | Configuration | Shows | States |
|---|---|---|---|
| `mutex` | 3 tasks, 1 mutex, depth 2 | `mtxheld()` true only in the task that has the ENQ; owner, count, list and ENQ in step; the refinement; a waiter gets the mutex | 7 thousand |
| `thread` | main and 2 subtask TCBs, 4 handles | `StackInUse`: no stack freed in use; `EndIsTold`: return values kept, ends seen; `HandlesAreExact`: the table, and `cthread_self()` | 310 thousand |
| `pool` | 2 workers, 2 items, tries that are over at any time, pools created again | `FreedUnused`; `WorkersAreKnown`: a running worker is listed, the pool bound; `ItemsAreKept`: every item in exactly one place, no post hides one | 3.4 million |
| `pool_stuck` | maximum of 4, hence a minimum of one worker, workers that want timer posts and take no items, `calloc()` and `arrayadd()` may fail, tries that outlast library calls | only a worker inside its own function is declared stuck | 4.3 million |
| `pool_live` | fair, 2 workers, timer option | items are served, timer posts arrive, `term` frees the pool | 55 thousand |
| `timer` | 2 clients, 2 threads, 2 requests of all kinds, failures of storage, ATTACH, STIMER, late starts | `ServiceIsExact`: the array holds exactly the live requests, one thread walks it | 1.8 million |
| `timer_live` | fair, 2 clients, 1 request | due requests fire until the service is stopped; a thread that is told ends | 157 thousand |
| `timer_restart` | fair, 1 client | *violated*: a request after `tmr_stop()` never fires | |
| `stream` | 10 jobs: F text, F binary, F without UPDAT, F with `r+` over two blocks, VB, V, U; space runs out, a block is bad, opens find no storage | position, data, writes, close, seeks, the error indicator; no access without a DCB | 105 thousand |
| `stream_kept` | `r+`, one block | *violated*: a write after a seek back from the end is lost | |
| `services` | every service, any request of a call refused; the pure functions at their boundaries | nothing is lost or given back twice (`NothingLost`), and each service does what it promises | 671 thousand |
| `sockets_race` | 2 tasks | *violated*: `getsockname()` answers from the entry of another socket | |

### Why the bounds are enough

*Mutex.* Two tasks can contend and a third can have a reused TCB; the code
keeps nothing per pair of mutexes but the order in `crtmutx`, which the proofs
cover for every number of mutexes, tasks and levels.
*Thread.* A creator, a subtask and a second one that reuses the TCB; four handles
let two creations overlap with a deletion.
*ThreadManager.* With two workers the dispatcher chooses among several, rotates,
grows from one to two and stops one while the other works; two items make
queueing behind an item possible. A `maxtask` of 4 or 5 gives a minimum
of one worker (`mintask`), which `pool_stuck` has with `Counts = {4}`.
*Timer.* Two requests make the walk meet an element after one it has deleted, two
clients make every pair of sections meet. Interval 0 only makes a request due
at once, which the other interval allows too; with one client and
`Intervals = {0, 1}` the run holds as well (0.9 million states).
*Stream.* Records of one or two bytes, two to a block, and up to seven bytes of
data give: an empty, a partly filled and a full record buffer, the last record
of a block and the last block, a short last block, overwriting across records
and blocks, an append to a full and to a short block. `MaxPos` only stops
growth.
*Services.* `MaxFault` is larger than the number of requests of any call, so each
request is refused once in some behaviour. `ARRAY_DEFAULT` = 2 and `MaxEntries` = 4
make arrays grow twice. `MC_Values` holds both sides of every range of `DynAlloc`,
and `MC_Dyns` requests that fill `DYNRQ_TU` and `DYNRQ_BUF`. `BUFSIZE` = 40 lets a spool
block hold two records, and lines of 24 and more bytes meet `LINE_MAX` and the
end of a block; a chain meets `JESPR_MAXBLK`. Two streams share DDs and the list.
Two keys make a sequential position before, between and after records.
`IDCREC_MAX` = 6 and commands of up to that many words break lines at, before and
after a quote and a blank. Two socket numbers, one of another program, two tasks
and a list that begins with one entry make numbers reused and the list grow;
`SEND_STALL_MAX`, `SEND_SEG` and `RECV_CHUNK` of 2 let every loop run through its limit.
Four frames hold a program under a `try()` under a program under a `try()`; with two
abends, four things asked for and `ESTAE_LEVELS` = 2 the list of routines runs full and
an abend meets one that passed on another. One variable, of four names in two cases
with and without blanks, is replaced, removed and set again into its hole.
`MaxChanges` ends a chain of changes to directories, `MaxPush` and `MaxUnits` only
stop growth.
*Pure functions.* Words of 8 bits, so that carries and wraps are reached; every
conversion and flag of the formats, with widths and precisions of 0, 1 and more
than the digits; the `tm` fields out of range on both sides.

### Views and symmetry

`Stated` in `MCStream` leaves the history `call` out, which no invariant reads and
which the action properties read only in the second state of a step; TLC checks
an action property on every step it generates. `Stated` in `MCTimer` leaves out
the history `stopped`, which no property of that run reads, and the handle a
client still holds after the tries of `tmr_start()`, which no step reads. None
of them influences a guard. Symmetry sets are used in safety runs only, over constants the
specification treats alike.

### Fairness

* `mutex`: weak fairness of a task inside a call or in the end of its thread;
  strong fairness of the ENQ (MVS queues waiters in order) and of a program's
  coming back to release what it holds.
* `pool_live`: weak fairness of the dispatcher, of `cthread_manager_term()`, of
  each worker and of a worker's end (MVS dispatches ready tasks, timers run
  out, and in this run worker functions return). Strong fairness of `Join2Post`:
  the second join loop posts every 0.1 s, no less often than the dispatcher's
  shortest wait, so that one of its posts finds the dispatcher waiting.
* `timer_live`: strong fairness of the timer thread and of a client inside a
  call, because they compete for a lock whose waiters ENQ queues. Programs need
  not call anything and time need not pass.

Deadlock is checked in every run.

`Thread`, `ThreadManager` and `Timer` state a type invariant `TypeOK` for proofs;
their runs spend their time on the other properties.

## 4. What is proved

Eight modules hold theorems; `tlapm` checks every leaf. Each theorem is about the
specification of one component, for every value of its constants but for the
assumptions named here. TLC checked the inductive invariants of the four
concurrent components on the states of their runs before they were proved.

| Module | Theorems | Obligations | Assumed |
|---|---|---|---|
| `MutexProofs` | type, 7 invariants, the refinement | 1648 | `MemFails = FALSE` |
| `ThreadProofs` | type, `StackInUse`, `EndIsTold`, `HandlesAreExact` | 2088 | |
| `TimerProofs` | type, one thread at most, `ServiceIsExact` | 1306 | `"purge" \notin CallOps` for the last |
| `ThreadManagerProofs` | type, `FreedUnused`, `WorkersAreKnown`, `ItemsAreKept`, `StuckIsBusy` | 2111 | `~MemFails` for the three invariants, `Outlasts = "calls"` for `StuckIsBusy` |
| `ArrayProofs` | `ArrayInv`, `ArrayIsList`, nothing lost | 1326 | |
| `ServiceProofs` | `StackInv`, `StackIsPopped`, `EnvInv`, `EnvironmentIsTrue`, `VsInv`, `VsamIsTrue`, nothing lost in the three | 5225 | |
| `SocketProofs` | `SocketsAreOwn` with its part `SocketsAreListed`, nothing lost | 3457 | |
| `ArrayFacts` | lemmas on arrays as sequences, least elements, and what a ledger can number | 144 | |

The assumptions are where section 5 has the code do something else: each names
a situation in which the property is false, and the counterexample can be had
by changing that one constant in the run's cfg. `ArrayAssumption`,
`EnvAssumption`, `VsamAssumption` and `SoAssumption` say that `ARRAY_DEFAULT` is at least 1, that names,
values, lines and the parameters of an open are records of their fields, that the
keys of a cluster are the numbers from 1 to any n, that a record is not empty, that
there are finitely many tasks and socket numbers (X'75' has a table of them), and that no
socket's address is the empty one that stands for none.

### Mutex

`HeldIsSerializedThm` (`mtxheld()` is true only in the task that has the ENQ),
`MutualExclusionThm`, `CountIsDepthThm`, `ListIsExactThm`, `FreedIsCleanThm`,
`EndedHoldsNothingThm`, their conjunction `BooksAreExactThm`, and `Refinement`:
`Spec => ImplementsRecursiveMutex`.

None of the invariants is inductive alone, since owner, count, list and ENQ are
stored in separate steps. `IndInv` says, for each place of a task in a call,
which of the four are ahead of the others: `EnqInv` (who can have the ENQ at
which label), `HolderInv` (the words of the mutex as its holder's label demands),
`OthersInv` (a task that has not the ENQ is not the owner), `ListInv` and `DupInv`
(the list holds what the task has, once, but for the one between the stores),
`StateInv` (storage that is freed or on its way has nobody in it), `ArgInv` (the
argument of a call is a mutex).

All of it needs storage for the list. With `MemFails = TRUE` a mutex that
`arrayadd()` did not list keeps the address of an ended thread as its owner; a new
thread at that address is then taken for the owner, and TLC finds
`HeldIsSerialized`, `MutualExclusion`, `CountIsDepth`, `FreedIsClean` and the refinement
violated (443 thousand states). Only `TypeOK` holds.

### Thread

The hard part is which handle belongs to which task, while TCB addresses and
blocks are reused. `IndInv` ties them in three ways: by the register the task was
started with (`MineInv`), by the TCB address in the handle (`TcbInv`), and by the
call that creates or deletes it (`CallInv`, `PlaceInv`). Between ATTACH and the store
of the address the handle has none (`Pending`), between DETACH and the store of
NULL it has one that MVS has taken back (`Stale`), and a handle that is being
deleted is off the table before its storage is free (`Gone`). The three theorems
follow for any number of tasks, handles and stack sizes.

### Timer

`OneThreadAlways`: however starts and stops interleave, at most one timer thread
has not ended and `tmr->task` is its handle. `ServiceIsExactAlways`: `GoodQueue` says
that the array holds the queued requests, each once and none of them freed, and
`MadeInv` that a request made and not yet queued is in the hands of one client
only. A function that purges is excluded: the pass then deletes another element
than the one it called (`@@tmthrd.c:110`, section 5).

### ThreadManager

`IndInv` has one part for each thing that two tasks know: the life of the manager
(who reaches it at which label, `LifeInv`), the worker array (`PoolInv`: each worker
once, and every live worker in it unless storage may fail; `UnlistedInv`: a worker that
runs without a place in the array needs `MemFails`, and so does one that outlives its
manager; `IndexInv`: the loops of the dispatcher stay inside
it), the worker and its ECB (`WorkerInv`: one that waits has nothing to do, and
before the shutdown it is posted only with DISPATCH), the items (`ItemInv`: each in
one place; `HeldInv`: the worker that holds one has been told). `FreedUnused`,
`WorkersAreKnown` and `ItemsAreKept` need storage for the two arrays, whose `arrayadd()`
nobody looks at (section 5 has what happens without it);
`StuckIsBusy`, an action property, needs that a try of the join outlasts a call of the
library, and holds with storage refused.

### The services

`Array`, `CleanupStack`, `Environment` and `VsamFile` are about one call at a time; what
is hard is any length, any mix of calls and any refused request. In `Sockets` the calls
of any number of tasks interleave.

* `ArrayInv`: the slots up to `count` are the list, the others NULL, the block is
  the one that is held, its strings are distinct blocks. The numbers of the ledger
  are always found (`NumberFacts`, by the pigeonhole principle).
* `StackInv`: the two arrays hold, in order, the functions and the arguments of what
  is still due, in distinct blocks; the arguments have no block before the first
  push; in the cleanup loop what is due is covered by the number of functions
  taken before it and those that came late; at the end both arrays are freed.
* `EnvInv`: `VarsOK` (the array with its holes, each name once, blocks of the
  variables and of one that is built and not yet stored), `MapOK` (the pairs in the
  array are those the program has set), `LoadOK` (the three flags of the load).
  `FoundFacts` shows that `__findenv()`'s comparison finds the one entry of a name,
  which `setenv()`, `unsetenv()`, the load of a DD and `loadenv()` rest on.

* `VsInv`: on an open handle `RplOK` (the options of the RPL against the access and mode
  of the open) and `HandleOK` (a record held for update is in the cluster, the
  records of an ESDS follow one another); what is held is the handle and its ACB;
  and what the last answer says of its own request. The proof goes by what a request
  may do: `GetFacts`, `PointFacts`, `PutFacts` and `EraseFacts` say that it is carried
  out, meets the end or fails through `__vsxerr()`, with which options and which
  feedback. A `vsread()` by key can then not meet the end (`ReadFacts`), and an
  insertion gives back UPD both where `__vswrit()` and where the exit restores it
  (`InsertOptions`, `WriteFacts`). The opens give back what they had at each of their
  failures (`OpnFacts`, `TypedFacts`). Without the contiguity of an ESDS the address of a
  new record could be that of an old one, so `NothingReplaced` is not inductive alone.

The release of a list, the loop of `unsetenv()` and the reading of lines are
recursive functions. What they compute is proved from the least index at which
a fact about them fails (`Least`, from the well-foundedness of the naturals),
for the invariant that each turn of the loop keeps.

The sockets are proved in three layers, each on the ones before it; `SoNextFacts` says once
what a step of a call does to the state (`Opens`, `Binds`, `Connects`, `Closes`, ...), and
the layers are proved from these summaries.
* `SoStored`: the array and the entries are one to one, and what is held is the block of
  the array, the entries and those that `arrayadd()` refused: `SocketBlocksAreKept`.
* `SoListed`: `SoOpened` (who may be inside which call of which socket: one task at most
  opens or names it) and `SoCounted`: a socket in use has an entry, and as each
  `closesocket()` that has closed the number and not yet been to the list may find one
  more, it has at most one more than there are such calls. That is inductive where "one
  entry for each socket" is not, since a number is given again as soon as it is closed.
  `SocketsStayListed` follows when all tasks are idle.
* `SoNamed`: in every socket that `so.mixed` does not name, an entry's addresses are those of
  the socket, or a task in `accept()` or `connect()` is about to write the peer's into
  that very block (`Clean`); and none of these sockets writes a block that was freed:
  `SocketsStayOwn`.

`so.mixed` is history: the sockets whose number was given again while an entry of the
former socket was in the list, and those whose block a late `__soupd()` wrote
(section 5). `sockets_race` is what happens to them.

The theorems are about `ArraySpec`, `StackSpec`, `EnvSpec`, `VsamSpec` and `SoSpec`, each the
component with the ledger; that their invariants also hold when all services share one
ledger is the run `services`.

### What stays with TLC

* Liveness (`pool_live`, `timer_live`, `mutex`, `stream`) and anything with `ENABLED`: out
  of the prover's reach.
* `Stream` and the pure functions: what they say is what recursive operators
  compute, and TLAPS has no SMT backend in a module that declares one.
* `DynAlloc`, `Jes`, `JesSpool`, `OpenStreams`, `DsLists`, `OsFiles`, `Members`,
  `Programs`: not proved yet, or built on the folds of the community
  modules, whose results need an induction over data. So is
  `SocketCallsAreTrue`, what the loops of `recv()`, `send()` and `selectex()` add up to.

## 5. Where the code and its documentation part

Three are runs of this project (`timer_restart`, `stream_kept`, `sockets_race`); the
others were met in the same way, and where a change is given TLC finds them with it. Quotes are from
`docs/books/ref/mvs-sync.typ` (S) and `docs/books/ref/std-stdio.typ` (IO).

Mutexes, threads
* `mtxlock.c:27` ignores the return code of `arrayadd()`: a mutex taken without
  storage for the list is not released at thread end; S:573 "When a thread ends
  while it holds mutexes, the library releases them." (`MemFails = TRUE` in
  `Mutex.cfg`: `EndedHoldsNothing`, and with it `BooksAreExact`.)
* `@@ctdet.c:84` stores NULL over the TCB after DETACH: a thread that reuses the
  TCB in between finds the other handle with `cthread_self()`; S:886 "returns the
  handle of the calling task". (Drop `~Detaching(u)` from `SelfIsOwn`.)
* `@@ctcrtx.c:218` takes the number of functions before the loop: functions
  pushed by cleanup functions are not called; S:975 "When a thread ends, every
  function still on its stack is popped and called". (`stack.due = <<>>` instead of
  `<= stack.late` in `StackIsPopped`.)

Thread manager
* `@@cmterm.c:41` sets QUIESCE only below state 2, but a waiting dispatcher has
  state 4, and the dispatcher stores over QUIESCE: items are accepted after
  `cthread_manager_term()` has begun and then discarded; S:1203 "New items are no
  longer accepted". (State that no item becomes "queued" while `tpc # "idle"`.)
* `@@cminit.c:176` takes a waiting worker with `CTHDWORK_OPT_NOWORK` for a free
  one and starts no other: items can stay queued for ever below the maximum;
  S:1064 the dispatcher "starts another worker when items are waiting and the pool
  is below its maximum". (`Opts = {{}, {"NOWORK"}}` in `ThreadManagerLive.cfg`:
  `ItemServed`.)
* `@@cmqadd.c:42` returns 0 when `arrayadd()` failed; S:1149 "-1 when the item was
  not queued: ... or no storage is available". (`MemFails = TRUE` in
  `ThreadManager.cfg`: `ItemsAreKept`.)
* `@@cmwadd.c:33` ignores the return code of `arrayadd()` and starts the thread: the
  worker is in no array, so nobody stops it or counts it as running, and
  `cthread_manager_term()` frees the manager it goes on to use; `@@cmterm.c:160` "it
  already tore down every worker, so no subtask is active and mgr is ours alone".
  (`MemFails = TRUE`, `Outlasts = "functions"`, `Quits = FALSE`, `Counts = {2}` in
  `ThreadManager.cfg`: `FreedUnused`, in 27 steps, and `WorkersAreKnown`.)

Timer
* `@@tmstop.c:28`: QUIESCE and SHUTDOWN stay on after `tmr_stop()`, so that a request made
  later never fires; S:1331 "The timer thread is started if it is not running."
  (`timer_restart`.)
* `@@tmthrd.c:206` goes on to WAIT when STIMER failed: nothing wakes the thread for
  a due request; S:1305 "wakes when the next request is due, and at least every 2
  seconds". (`TimerFails = TRUE` in `TimerLive.cfg`.)
* `@@tmthrd.c:110` keeps its index over the call of a function; when that purges a
  request at or before it, another request is deleted from the array; S:1288
  "fires every interval until it is purged". (Add `"purge"` to `CallOps` in
  `Timer.cfg`: `ServiceIsExact`.)
* `@@tmstrt.c:54` clears RUNNING without testing it again after its last try: a
  thread that has just begun runs on unflagged, and `tmr_stop()` does not ask it to
  end. (`SlowStart`; state that a thread in its loop has RUNNING.)
* `@@tmrid.c:37` releases the lock before the request is queued: two tasks can get
  the same identifier; S:1454 "unique among the current requests".
* `@@tmstop.c:45` waits only when SHUTDOWN was set, which needs RUNNING: a thread
  that leaves after QUIESCE is not waited for and still attached when
  `tmr_stop()` returns; S:1449 "waits up to 5 seconds for it, and deletes it".

Streams (take the situation in quotes out of `Avoid`, or add the environment)
* `@@awrite.asm:41`: a write after a seek back from the end of the file finds KEPTREC
  cleared and is lost. (`stream_kept`.)
* "empty line", `@@atrout.asm:45`: a V block whose only record is without data is
  taken for empty and not written; IO:295 "An empty line is a record of its own".
* "seek after ungetc", `@@fseek.c:138`: on `r` the pushed-back character counts as a
  byte skipped, and `fseek()` ends one byte short; IO:1277.
* "seek to the end of r", `@@fseek.c:56`: returns 0 with the end-of-file indicator
  set; IO:1303 "A successful fseek() or fsetpos() clears the end-of-file
  indicator".
* "negative seek on r": a negative target returns 0 at position 0.
* "flush of half a record", `@@fflush.c:117`: the padding of a binary F record is not
  counted by `ftell()`; IO:404, IO:406.
* "seek without a DCB", `@@fseek.c:21`: clears the indicator that alone keeps a
  stream whose reopen failed from `@@AREAD`; the same for `clearerr()` and
  `rewind()` ("clearerr without a DCB"); `@@fpswt.c:40`.
* `@@fseek.c:118`: a backward seek on `r` whose reopen fails returns 0 and has not
  moved; IO:1289. (Mode `r` with `OpenFails`: `SeekLands`.)
* `@@fpswt.c:124`: a reopen that gets its DCB and no record buffer leaves the stream
  open and not in error; `@@fpswt.c:39`. (An environment `Short(<<TRUE, FALSE>>)`:
  `NoAbend`.)
* `@@fpswt.c:134`: an I/O error while skipping to the position after a turn is not
  returned, and `fgetc()` returns a byte from behind the bad block;
  `@@fgetc.c:35`. (`PlusText` on `TwoFixed` with `WriteFails`: `ReadsAreTrue`.)
* `@@awrite.asm:139`: a V record refused with ENOSPC is in the new block all the
  same and may be written by `fclose()`; IO:390 "nothing more is written".
  (`WriteFails` on `VarJob`: `ErrorHolds`.)
* `@@fgetc.c:147`: an empty record of a binary V stream reads as one byte of the
  record before it; IO:404. (Binary `r` on V records: `ReadsAreTrue`.)
* `@@fflush.c:172`: overwriting a byte of an F text record that ends in X'00' turns
  these into blanks, and every later position moves; `@@fpswt.c:192` "A record
  never grows and never moves". (A data set with a record `<<"a", NUL>>`:
  `PositionTracks`.)

Services. Where a property had to leave a case out, its module says so
(`lost`, `kept`, `stale`, or a condition with a comment).
* Most `__tx` functions (all but `__txdsn`, `__txdcbd`, `__txclos`) drop the text
  unit they made when `arrayadd()` fails (`@@txddn.c:18`): the storage is lost.
  `__txunct()` does not check for more than 255.
* `@@txspac.c:41` forgets the error of the secondary quantity when a directory follows,
  and `__dsalc()` issues its request without it and answers 0; so it does without a volume
  that `@@txvols.c:22` dropped. `mvs-dynalloc.typ:222` "1 when ... storage for the request
  ran out". `RequestsComplete` allows these two, and nothing else, to be missing. (Drop
  `result.short` and what follows it from `AllocationComplete`, or from `VolumesBuilt`.)
* `dynfree()` with neither a DD nor a data set is refused, says its comment; a
  lone `__normdisp` or member is issued all the same.
* `@@fpopn.c:103`: `fopen("*dd")` whose first `__fpopen()` fails after OPEN goes on
  with a second DD and stores over `fp->dcb`: DCB, OPEN and buffers are lost.
* `@@aopen.asm:758` says "For FB, if LRECL > BLKSIZE, make LRECL=BLKSIZE"; the code
  makes BLKSIZE the LRECL.
* `__fpnew()` ignores the errors of `__txcyl()`, `__txtrk()` and `__txblk()`.
* `fclose()` of a standard stream leaves `grtin`, `grtout` or `grterr` pointing at it.
* `__cpopen()` returns an open handle without blocks when its buffer is refused; the
  DD that `open_checkpoint()` allocated is lost if the handle is.
* `jesjob()` walks IOT chains without the guard that `jesprint()` has. A chain that
  ends, or a new first part, inside an open spanned line drops the fragment with
  the reason of a regular end.
* `@@vsread.c:48` takes reason 4 for the end of file without asking for return
  code 8: a physical error with that reason is answered as the end.
* `__listc()` leaves its temporary DD allocated when the file cannot be reopened;
  a catalog name that finds no storage leaves an entry without one, and no error.
* `osbopen()` ignores the return code of OPEN; a DCB that is kept over a close
  points at its freed exit list.
* `__idcrec()`: a line broken before trailing blanks only ends with "-" and is
  followed by an empty continuation.
* `@@75clos.c:30` frees the number in the emulator before it takes the entry out of the
  list; the socket that gets the number meanwhile has two entries; `sockets.typ:594`.
  (`sockets_race`.)
* `@@soupd.c:21` returns when there is no entry; `sockets.typ:1173` says it adds one.
  `__soupd()` writes the entry after it has given the lock of the list back: by then the block may
  be freed, or be the entry of a socket opened since. `@@75acce.c:57` remembers the local address as the peer's when `getpeername()`
  fails. A socket that `__soadd()` cannot list stays open at the end; `sockets.typ:88`.
* `@@estae.c:97`: a routine that lets the abend go on to `try()` stays counted in `crtestct`,
  and a failed OVERLAY counts too: fewer than ten levels remain, and `try()` answers -1
  early; `mvs-program.typ:1228` "ten routines established already". (Drop `stale` from
  `ProgramsAreTrue`.)
* `@@exit.c:32` takes the number of functions before its loop: a function that an exit
  function registers is not called; `std-stdlib.typ` "called in the reverse order".
* `@@crtset.c:59` loses the CRT when `arrayadd()` fails.
* `mvs-program.typ:1183` "A missing `fp` is reported on stderr"; `@@estae.c:30` uses a WTO.
* `std-stdlib.typ:82` and `mvs-program.typ:372` say that a blank before "=" stays in the name
  and that `setenv()` ignores case; `setenv.c:35` trims and compares exactly.
* `__64_isqrt()` overflows above 2^33-2; `ext.typ:630`. `mktime()` of 2106 returns -1.

Known and documented, so no disagreement: a thread that abends does not come
through `@@CTEXIT` (`@@cthrd.asm:99`); its cleanup functions are not called and
the words of its mutexes stay.

## 6. What is left out of the modelled parts

* Mutex: the name of the ENQ (its injectivity is assumed: it is made of the address).
* Thread: the contents of the stack, the parameters of ATTACH but for what can
  fail, abends.
* ThreadManager: the trimming of a pool above its maximum; `WorkersAreKnown` shows
  that it is not reached while `maxtask` is not changed from outside.
* Timer: the values of times and `tmr_secs()`.
* Stream: record mode, terminal and PUTLINE streams, PDS members, spanned records,
  EXCP tape, `freopen()` to another file, several streams on one data set.
* OpenStreams: `tmpnam()`, `setvbuf()`, `freopen()`; two tasks inside `fopen()` at once
  (the list is changed under its lock only).
* DynAlloc: the characters of names and the layout of text units.
* Jes, JesSpool: the layout of JES2's control blocks; the emit function of the
  caller, which may stop but not abend.
* VsamFile: alternate indexes, buffers, sequential insert strategy, passwords.
* DsLists: dates within a year, more than three extents, names of 44 characters.
* OsFiles, Members: one DCB or record file at a time; `lock("IDCAMS")`; the limit of
  255 characters of a command.
* Sockets: the phases of X'75', the ASCII tables, the 100 tries for a random port,
  one local address; tasks are idle when the program ends.
* Pure functions: floating point but for the decimal digits that `__dblcvt()` works
  on, locale, `rand()`, the time zone of MVS.

Not modelled at all, and why: see the component's note in `PROJECT.json`. What is
one SVC with a parameter list (program management, authorization, console, SMF)
has no state here; what moves registers and save areas (`setjmp`, `CTHREAD`'s
linkage, the retry of `try()`) is not of the kind this project can state; floating
point is out of TLC's reach.

## 7. What is left

1. Proofs for the services that keep state across calls: `Programs` (every abend
   frees what a dead program left and nothing else), `OpenStreams`.
2. Abstract specifications of a stream as a sequence of bytes with a position, and
   of a worker pool as a bag of items each served at most once, the second proved
   from `ItemInv`.
