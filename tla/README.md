# Models of the course programs

This directory holds TLA+ models of the programs in this repository, TLC
configurations that check them on small instances, and TLAPS proofs.  The
repository is a collection of course work on operating systems: a simulation of
the banker's algorithm, a packet generator with a router, a file server with its
client, a scan of the address space, and small programs about threads and locks.
Its programs share no code.

Contents: [inventory](#inventory), [modules](#modules),
[runs](#runs-what-each-checks-and-shows), [fairness](#fairness),
[proofs](#proofs), [disagreements](#where-code-and-texts-disagree),
[not modelled](#not-modelled), [plan](#plan).

## Inventory

### Banker simulation (Assignment3/Banker.c)

State: the tables `processes` (claims), `allocation`, `request_Table`, the pool
`current_Avail`, the flags `locking` (1 = waiting) and `stop_flag`.  One thread
repeats a round: draw a process that is not waiting, draw a request within what
its claim still allows, grant it if the pool has it and else make the process
wait; a granted process releases some units, and then the waiting requests are
scanned and granted if they fit.  The SIGINT handler clears `stop_flag`.
`safety_Checker` is defined and never called.

Hard: requests are granted by two pieces of code and added up in a table; a
wake-up takes from the pool what an earlier process of the scan could have used;
all processes may come to wait.  Correct means: claims respected, units neither
lost nor made, no waiting process forgotten, SIGINT ends the program.

### Packet generator and router (Asn2a)

`pktgen.c` draws pairs of hosts in different networks, counts the pair, and sends
a packet to the router, which decides by its table and counts the decision; both
rewrite a log now and then.  They share nothing but the socket. Hard: lost
packets, an interrupt at any point, also with a packet in hand, an uninitialised
counter, bit arithmetic.  Correct means: each packet is counted once on either
side, the two statistics are compatible, little is missing from the logs.

### File server and client (Asn2b)

The parent of `file_server.c` receives a file name and forks a child that sends
the file in chunks, or a 404 message, and writes the log; SIGCHLD makes the
parent collect a dead child.  `file_client.c` binds the server's port plus one,
asks for a file and prints what arrives until nothing has arrived for five
seconds.  They interact through two socket buffers, the children through the
log file, children and parent through SIGCHLD.  Hard: interleavings of children,
signals that coalesce, dropped datagrams, late answers, failing calls, files that
open and cannot be read, chunk boundaries, log lines written over each other byte
by byte.  Correct means: one child per request, children collected, pieces in
order, nothing in the log that is not true.

### Memory layout (Assignment1)

`get_mem_layout` touches every page; a SIGSEGV jumps out of the loop body.  From
the flags the touches leave behind it lists the stretches of accessible memory.
Hard: flags half updated when the jump happens and used one turn later, the
signal mask, the end of the caller's list and of the address space.

### Threads and one file (Midterm2/mutex.c)

Ten threads append to one file under a mutex, each through a stream buffer of
its own; main joins them and destroys the mutex.  Hard: any order of the threads,
`fopen` failing in any of them while others wait, `fclose` failing unnoticed.
Correct means: the file follows the order of the announcements, the mutex is
unused when destroyed.

### Synchronisation sketches (Final/Lock.c)

Textbook algorithms written down in C: producer and consumer, Peterson, spin
locks, bounded waiting, a semaphore with a list, philosophers with chopsticks
and with a monitor.  They share nothing with each other.  Several differ from
the textbook, and the text beside them says which steps must be atomic.  Hard:
every interleaving of machine steps.  Correct means: what the text says of each.
Sketches that cannot do that whatever the order of their steps are listed under
[not modelled](#not-modelled).

### Pipe handshake (Final/Pthread.c)

Parent and child are to print in turns and tell each other by a byte in one of
two pipes.  Correct would mean six messages in turn.

## Modules

| module | what it models | state and actions |
|---|---|---|
| `Banker` | main's loop and the handler | the tables under the code's names; one action per branch of the round: `LoopHead`, `DrawAgain`, `Request`, `Refuse`, `Grant`, `Release`, `WakeUp`, `PassOver`, `ScanDone`, `sig_handler`. `rand()` is a choice. |
| `ResourcePool` | what the simulation promises: processes borrow from and return to a pool within their claims | `BankerPool` maps `Banker` onto it |
| `SafeState`, `SafetyChecker` | when a state is safe, by definition; `safety_Checker` pass by pass | `Run`, `Stuck`, `AllRun`, `Verdict` |
| `PktGen`, `Router`, `PacketNetwork` | the two programs and their composition | `queue` is the router's socket buffer, `listening` whether the socket exists; `Receive` takes a packet off the socket, `Decide` counts it, and `buf` holds it in between; `dropped` is a history variable |
| `Routing` | address arithmetic and the table scan, used by `Router` | octets of any width, prefixes of any length; a comparison gives the set of its possible results, since a shift by less than 0 has none defined; no state |
| `FileServer`, `FileClient`, `FileService` | server, client runs, composition | per child a record: where it is, its copy of the request, its position in the log; `queue`, `mailbox`, `bound` are the sockets; `sigchld`, `handling` the signal; `log` is a sequence of bytes, each named by the line it is of, and each child writes at its own position; `SendBlank` is the round of a child whose file cannot be read; `coalesced` is a history variable |
| `SendFile` | the chunk loop byte by byte | `FileServer` uses its result: a file is a fixed number of datagrams, `canRead` tells whether its end can be reached |
| `MemChunk` | `get_mem_layout` | one action per part of the loop body; `blocked` is the signal mask, `overrun` a history variable |
| `TestMem` | testmem.c, the caller of `get_mem_layout` | `shown` is what it prints; EXTENDS `MemChunk` |
| `MutexFile` | Midterm2/mutex.c | threads with their own stream buffers; `Close` and `CloseFails` are `fclose`; `failed` is a history variable |
| `PipeHandshake` | Final/Pthread.c | two pipes as sequences of bytes; `Say`, `Notify`, `Await` for the calls of each process |
| `BoundedWaiting` | `bounded` in Lock.c (177) | one action per access to shared memory; `passed` counts who has entered while another asked |
| `ProducerConsumer` | Lock.c:11 | the ring, and `counter++` and `counter--` as load and store; `overlap` tells that an update has undone another |
| `Semaphore` | `xwait`, `xsignal` (Lock.c:278, 287) | one action per line, and `value--` and `value++` as load and store, as Lock.c:36 says of such updates; `torn` tells that a call has begun in the midst of another |
| `Philosophers` | Lock.c:313 | atomic waits for two chopsticks, none put back |

`MC*` modules give constants their values, and compose what runs side by side.
Reference definitions stand beside the properties that use them, in
`SafetyChecker`, `SendFile` and `TestMem`.  `MCPacketNetwork` uses the addresses
of pktgen.h with seven bits to an octet, because TLC's integers have 32 bits with
a sign; the operators are written for any width.  `MCAlgorithms` and
`MCSynchronisation` put programs that share nothing side by side: a behaviour is
one of the program the variable `part` or `program` names, and the variables of
the others rest. `*Proofs` modules hold the proofs. Operators marked "Faulty" are
used by no model: each is a plausible mistake in the definition after it, and
shows that a property would notice that mistake.

Choices that are worth knowing:

* A SIGINT, a SIGCHLD or a thread switch may come between any two actions.
* UDP on one machine drops datagrams (no socket bound, buffer full) and does not
  reorder or duplicate them.  `ip_aton` in file_client.c answers 0 for every
  address, so the client always talks to its own machine.
* The router's `counter` is never initialised: it starts anywhere.
* Writing a log of Asn2a is one step, and so is taking the file lock, one write
  and giving it back in Asn2b.  Opening that log takes no lock, empties the file
  and is a step of its own; a write covers the bytes from the position of its
  child on, and a gap before it reads as zero bytes.
* The zero byte that `memset` and `strcat` write one past `chunk`, `buffer` and
  `input_filepath` in file_server.c is taken to change nothing else.
* An access to a shared variable in Lock.c is one step; `test_and_set` is one step
  because it stands for an atomic instruction (Lock.c:114).  The spinning `wait`
  of the philosophers takes its semaphore by value (Lock.c:237) and is read as
  the text means it, an atomic access to the semaphore itself (Lock.c:234).
  `xwait` and `xsignal` are several steps, and `value--` and `value++` are two.
* In mutex.c all threads can be created: the code does not look, and to join one
  that was not has no defined result.  `output` is what was handed to standard
  output; if that is a file, a crash may lose the last of it.
* Assignment1 is built without optimisation, so locals keep their values across
  `siglongjmp`.

## Runs: what each checks and shows

Runs that pass:

| run | instance | shows |
|---|---|---|
| `banker` | 3 processes, 1 type, quantities 0 to 2 | claims, no waiter forgotten, units only move between the pool and one process, a waiter keeps its place, SIGINT ends the program unless all wait, refinement of `ResourcePool`. Three processes are the fewest with a scan in which one wake-up can starve a later one while a third drives the round. Requests that fit in one type and not in another need two types; the theorems below hold for any number |
| `network` | all 9 x 10 host pairs, 2 packets, a buffer of 1, a log every 2 | the books of generator, socket and router balance, also when the router is interrupted between receiving and deciding; no packet is counted for a network it was not generated for; the router's log lags by less than an interval; every pair is counted once, and the generator ends after SIGINT and has saved everything. One packet can be in the buffer while another is in hand or lost, and a log can be due or not; a third packet only repeats this |
| `file_service` | 2 client runs, 2 children, a file of two pieces, a missing one and a directory, lines of 1, 2 and 3 bytes | deaths accounted for, one child per request, pieces in order, every byte of the log is of a line true of its child but for the success after a failure, zombies go unless signals coalesced; children and clients end unless a child sends for ever. Two runs are enough for the second to take over the port, and the late answer, of the first; two children for a SIGCHLD to find another pending, and for one to empty the log of the other and for a short line to leave the end of a long one |
| `algorithms` | `safety_Checker`: 3 processes, 2 types, all tables over 0..1; the chunk loop: all files up to 5 bytes, chunks of 2; `testmem`: all layouts of 7 pages, list of 2 | `safety_Checker` answers 1 exactly for safe states, and always answers; the text arrives, `$` marks a file of full chunks, a file takes one datagram more than it has full chunks, the loop ends for what can be read; what `testmem` prints is what the memory says, up to the shift and marks described below, and it ends. Sizes 0, 2 and 4 end with a full chunk; 7 pages hold up to four stretches, twice the list |
| `synchronisation` | `bounded` and the semaphore with 3 processes, a ring of 2 with 5 items, 5 philosophers, mutex.c with 3 threads, Pthread.c | see below |

`synchronisation` shows of each program:

* bounded waiting: mutual exclusion; while a process asks each other one enters
  once at most; everyone is served (`MutualExclusion`, `OvertakenOnceByEach`,
  `Served`);
* producer and consumer: the counter stays in range whatever updates are lost,
  and items come out in order as long as none has been (`FirstInFirstOut`).  Five
  items take a ring of two round twice;
* the semaphore: as long as no call has begun in the midst of another, the value
  counts the units taken, no more processes than units are inside, and list,
  sleepers and value agree (`SemaphoreCounts`).  Three processes for one unit give
  two in the list.  When calls do overlap nothing of this holds: updates are lost;
* the philosophers all end up waiting for ever after one meal at most each
  (`PhilosophersStarve`).  Five is the number in the code;
* mutex.c: the file follows the announcements, also when the process crashes or a
  write fails, and lacks nothing unless one fails (`FileFollowsOutput`); the mutex
  is destroyed unused (`DestroyedWhenUnused`); the program finishes
  (`MutexFileFinishes`).  Three threads give two that wait while one writes;
* Pthread.c: nobody speaks out of turn (`InTurns`).  The run `handshake` shows that
  the conversation does not get beyond its first message.

Runs that find a counterexample to something the texts say (see
[disagreements](#where-code-and-texts-disagree)): `banker_sigint`,
`banker_release`, `network_prefix`, `file_zombies`, `file_success`, `mem_start`,
`handshake`.

The bounds are named constants: `Units`, `MaxPacket`, `QueueLen`, `LogEvery`,
`MaxSize`, `MaxItems`, `Drift`, `Pages`, `size`, `CHUNKLEN`, `BUFFER_SIZE`, the
numbers of processes, threads, sessions and children.  `MaxPacket`, `MaxItems` and
the sets of sessions and children stop the programs where the real ones would go
on; properties about the end of a generator or client are unaffected, because each
is reached by SIGINT or a time limit and not by the bound.  `Drift` bounds the
semaphore's value at which a call may begin: updates that undo each other can move
it without end, but without them it stays between -2 and 1 for one unit and three
processes, so that no behaviour `SemaphoreCounts` speaks of is cut off.  The
others are sizes of the program, and the theorems hold for any.

No run lists the type invariants: they are theorems (`TypeCorrect` and `ChunksFit`
below), or parts of the invariants proved (`Types` in `MemChunkProofs`, `PhilInv`,
`HandshakeInv` and the like for the sketches).

`CHECK_DEADLOCK FALSE` stands where a program really ends, or where the clients
have all been run.

## Fairness

* `Banker`, `PktGen`: main keeps running (WF), and a `rand()` asked again and
  again sooner or later gives a value that ends the redraw (WF on that draw).
  With a fair generator this has probability one.  SIGINT itself is never
  assumed.
* `FileService`: every process keeps running, pending signals are delivered, the
  five seconds pass.  Starting a client and failing calls are not assumed.
* `MCAlgorithms`: one program that keeps running; `sendto` need not fail.
* `MutexFile`: threads keep running.  The mutex need not be fair: each thread
  takes it once.
* `BoundedWaiting`: a process that has asked keeps running; none has to ask.
* `Philosophers`: each keeps running (WF on its step).
* `PipeHandshake`, `ProducerConsumer`, `Semaphore`: none, only safety is claimed.

## Proofs

Every theorem holds for all values of the constants that satisfy the named
assumption of its module (`...Assumption`): numbers are natural or positive, sets
of processes finite where they are counted, nothing else.

**`BankerProofs`**: `TypeCorrect`, `WithinClaims`, `ScanIsEnough`, `CleanBooks`;
the action properties `UnitsMove`, `DeadlockStays`, `WaitersStay`; and
`Refinement`: every step of `Banker` is a step of `ResourcePool` or a stutter.
`ClaimsRespected` alone is not inductive, since `Request` draws from the claim
minus the holding and adds to whatever is in `request_Table`.  It needs
`BooksClean`: the row of a process that may be drawn is zero.  `BooksClean` in
turn needs `DriverRuns`: between its request and the end of the scan the process
drawn is not waiting, so the scan cannot take its row away or leave it behind.
`NoForgottenWaiter` needs none of the sums: `Refuse` adds a waiter that does not
fit, a grant only shrinks the pool, and after a release the scan tests each
waiter in turn while later wake-ups only shrink the pool again.

**`SafetyCheckerProofs`**: `TypeCorrect`; `AnswerIsEarned`: the answer is 1 exactly
when every process has been run, and 0 only when none of those left can be run
with what is free then.  `checked` is the number of processes not yet run
(`Counted`), and the loop is left only with none left or none runnable (`Left`).
`GreedyDecides` is the stronger `DecidesSafety`: the answer is that of the
definition in `SafeState`, for tables of any size and contents.  What is free is
what was free at first and what the processes run have held (`Freed`), and these
form a line in which each could run (`Lined`).  When no process can run any more, a
line of all of them cannot exist: the first process of it that has not been run has
only such before it as have, so it would fit what is free (`NoOtherOrder`).  What a
set of processes holds is a fold in `SafeState`; `SumRule` and `SumGrows` are proved
of it by induction.

**`PacketNetworkProofs`**: `TypeCorrect`; `PacketsBalance`; `GeneratorCountsAll`;
`LogKeepsUp`; `SidesAlwaysAgree`.  The packet drawn is legal while it is drawn and
sent (`DrawnInv`); the generator's counters add up to the packets drawn to the end
(`GeneratedInv`), because redraw condition and chain of tests partition the pairs;
the router's lag is at most its counter while it waits, and 0 or less than the
counter when a log is due (`LagInv`), so it does not matter that the counter has
no initial value.  A packet is in hand exactly between `Receive` and `Decide`, and
goes into `dropped` when the handler exits there. `SidesAlwaysAgree` is about two
programs that describe the networks differently, by ranges of an index and by
address prefixes.  Its assumption, `NetworksAssumption`, is what the tables are
made for (router.c:219, pktgen.h:32): on the `prefix_length` bits of which
router.c:187 speaks, an entry holds the hosts of its network and no others, and
hosts have different addresses.  That the code compares a bit more is not assumed
but met in the proof: what agrees on more bits agrees on fewer, so a packet may
miss its entry, but never finds another's (`HalvesAgree`, `MasksBlock`); and a
prefix of all bits, for which the shift is undefined, cannot hold the several
hosts of a network (`ShiftDefined`).  TLC evaluates the assumption for the
repository's addresses.  For each entry the packets counted, waiting and in hand
are no more than those the generator has counted or is about to count
(`AgreeInv`).

**`FileServiceProofs`**: `TypeCorrect`; `Zombies_Accounted`, inductive by itself;
`OneChild`, from `FromInv`: a session's one request is at most in one place,
buffer, queue or child; `PiecesArriveInOrder`, from `GrowInv`: the pieces of one
answer increase along a mailbox and along what its client has printed, what is
printed stays below what waits, and a child sends only above what it has sent
(`KnownInv`); and `LogTrue`, from `ReadyInv` and `LinesInv`: a child that has not
written stands at position 0, one that gave up writes two lines one after the
other, and every byte of the log, and every zero byte nobody wrote, is at a place
where a line of its child that is true has that byte, whatever others write over
it or empty away.

**`SendFileProofs`**: `ChunksFit`, the type invariant with the bound on the chunk,
which needs that the chunk is no longer than `index` (`FitInv`); `DatagramsOfAFile`,
from `CutInv`: at every stage of the loop the position in the file is that of the
chunks sent and the bytes of this one.  `TextArrives`: the datagrams put together
are the text of the file, and the end mark is a datagram of its own exactly after
a file of full chunks.  Text and datagrams are recursive functions; the invariants
(`TextInv`, `JoinInv`, `SameInv`) speak of any function that obeys the rule of the
recursion up to where the loop has got, and only the end of the proof names the
functions themselves.

**`MutexFileProofs`**: `TextsTogether`, `DestroyedLast`, `TypeCorrect`.  Inside the
critical section exactly the owner (`LockInv`), main creates and joins in order
(`MainInv`), a buffer holds its thread's texts in order (`BufInv`), the last
announcement is that of the thread that writes (`OutInv`), and unless a write has
failed the file has three texts for each announcement but that one (`FileInv`).
When one has failed, `OrderInv` remains: what the file has of a thread begins with
its first text and is together, and belongs to a thread whose announcement comes
before that of the one that writes now.  The module also holds what is safety in
Final/Pthread.c: `TurnsKept`, nobody speaks out of turn, the child indeed not at
all; and `WaitsForEver`, once the parent is gone no step is left.

**`MemChunkProofs`**: `StretchesShown`, `ShowsStretches` for memories and lists of
any size, and `FaultsAreCaught`: the scan is never killed by a signal it has
blocked.  Up to the probe of a page the two permissions are those of the page
before (`ScanInv`), which is the shift by one.  The list holds, in order, the
stretches whose end has been noticed, as many as it has places for, and at most
one more entry for the stretch that is open (`Lists`, `IsOpen`, in `ListInv`).  A
page that is decided either ends no stretch (`SameList`), or the open one, which is
then the next of the list (`LongerList`) or finds it full (`FullList`).

**`LockProofs`**: `Exclusion` and `Overtaking` of `bounded`.  Ownership begins when
`test_and_set` finds the lock free, or when a process's `waiting` is cleared by
another, and ends with `Unlock` or `HandOver`; there is at most one owner, an owner
implies a set lock, and the process to be handed over to really waits.  For
overtaking, the lock once set is handed around the ring, so the distance from the
owner (or from the position of its scan) to a waiting process shrinks with every
critical section that passes it (`Unpassed`).

The other sketches, in the same module: `MealsAreFew` (a chopstick taken is gone,
and each is taken once); `HungerStays` (who waits for a chopstick, or has eaten,
waits for ever); `InOrder` (`counter` is the number of items between the two ends,
up to the updates under way, and the ring holds those items); `ValueMeans` (while
only one call is under way its load and store cannot be cut in two, so the value
counts those who hold a unit, and each step of the call fixes what list, sleepers
and value are, `Phase`).

Induction.  The library's induction theorems take an operator as a parameter and
cannot be used here.  Where an argument needs induction it is stated of a set
instead: `EveryNat` (a set with 0 and with each successor has all naturals) and
`EverySubset`, both from the fact that a set of naturals has a least element
(`WFMin`).  The functions `Pow2`, `Text` and the fold behind a sum are recursive
`CHOOSE`s; each is shown to obey its rule by building it up to n for every n
(`PowersObey`, `IterObeys`).

TLC only: liveness and whatever else needs ENABLED, that is `GeneratorStops`,
`ReapedUnlessCoalesced`, `ChildrenEnd`, `ClientsEnd`, `StopsUnlessAllWait`,
`CheckerReturns`, `LoopEnds`, `ScanReturns`, `MutexFileFinishes`, `Served` and
`PhilosophersStarve`.  Every invariant and every action property of a passing run
is a theorem, and so is the refinement.

## Where code and texts disagree

A run finds a counterexample to each of these:

| run | the code does | the text says |
|---|---|---|
| `banker_sigint` | spins in the redraw loop when all wait, and never looks at `stop_flag` (Banker.c:117) | "Termination signal" (Banker.c:77) |
| `banker_release` | makes no process release anything when all wait: `release` is for the process just drawn, if it does not wait (Banker.c:171). `DeadlockStays` is the stronger statement | "if yes, I'll just let one of them release all their allocations" (Assignment3/README:30) |
| `network_prefix` | compares `prefix_length + 1` bits (router.c:197), so that a host of network C is counted as an invalid destination when C is listed by the longest prefix its hosts share | "Extract the `<prefix_length>` number of bits" (router.c:187) |
| `file_zombies` | calls `waitpid` once for several coalesced signals (file_server.c:284) | "without leaving zombies around" (file_server.c:94) |
| `file_success` | logs a failed transmission as a success too (file_server.c:203) | "If success, write all the message to the log" (file_server.c:207) |
| `mem_start` | lists each stretch one page late, because the flags are those of the page before (memchunk.c:91) | "Then we need to check if it is readable" (memchunk.c:81) |
| `handshake` | writes both processes' bytes into `pfd2` (Pthread.c:46), so the parent reads its own and ends | "WFC:incorrect data" for any byte but the other's (Pthread.c:64) |

The models behave like the code in these further points, which no run is spent
on because each is plain from the lines given:

* `release` may take everything a process holds when the type it spares is one
  the process holds none of (Banker.c:318), against Banker.c:302.
* Requests are granted into unsafe states, and the simulation is played with
  claims beyond the system's units: `safety_Checker` is not called (Banker.c:86,
  Assignment3/README:26).
* The router exits in its handler and leaves up to a logging interval of
  decisions unlogged (router.c:264), against Asn2a/README:20; `LogLagBounded`
  bounds the loss.
* Every child truncates the log (file_server.c:153), so earlier results are lost
  (Asn2b/README:24), and a line may be read pieced together from several;
  `LogBytesTrue` says what remains.
* A directory opens and cannot be read: its child sends empty chunks for ever
  (file_server.c:178-197), and no client ends as long as they reach it.
* The client compares with "404 Not Found!" what is sent as "404 Not found!"
  (file_client.c:90, file_server.c:166): `SaysNotFound` is never true.
* A client run prints the late answer to an earlier run that had its port
  (file_client.c:86).
* A full list does not keep `RW` behind it from being written (memchunk.c:113):
  `overrun`.
* "Two atomic operations" (Lock.c:234): `xwait` and `xsignal` are not, and
  `SemaphoreCounts` holds as long as no two calls overlap.

`ShowsStretches` also documents that `RW` is overwritten with -1 in every stretch
followed by an inaccessible page, and that a stretch reaching into the last two
pages of the scan is not counted.

## Not modelled

* Assignment3/Asn3/Asn3/Banker.c: a copy with another `sleep`, described by
  `Banker` as it stands.
* Lock.c, Peterson (89): `turn` and `flag` are locals, which no other process
  writes, and the assignment meant to follow the waiting loop is its body, as only
  comments stand between the two.  Read literally it excludes nobody; read as
  intended it would not be this code.
* Lock.c, the locks of `using_test_and_set` and `using_compare_and_swap` (136, 161)
  are passed by value, so each caller locks a copy of its own, against Lock.c:134;
  `acquire` and `release` (209) are a test and a set that the text wants atomic
  (Lock.c:203) and that are not.  None of the three excludes anybody, and what
  could be said of them is that.
* Lock.c, the monitor (364): `test` lets a philosopher eat only while its neighbour
  on the right is eating (Lock.c:386), so nobody ever does, and `pickup` is called
  with an index beyond `state[5]`.
* Lock.c: the spinning `signal` (no caller), `locks`, the shared counter and the
  general critical section, which are comments around an empty loop or a single
  statement.
* Thread1-4.c and Multi-test.c: threads that sum disjoint parts and are joined;
  four of the five do not compile.
* NewFork.c, forktester.c, testpipe.c, testsharem.c: straight-line exercises.
* Final/mutex.c, demandPaging.c, task.h: do not compile or do nothing.
* Input and output: the banker's prompts and tables, parsing the router's table
  file, `itoa` and `random_payload`, the text of log lines, start-up as a daemon;
  `get_file_size` is never called.
* Notes, Makefiles, archives.

## Plan

Done: every program with state of its own; every invariant and action property
the runs check as a theorem; a refinement for the banker.  What could follow:

* an abstract reliable file service that `FileService` implements when nothing is
  dropped, and a bounded queue that `ProducerConsumer` implements while no update
  overlaps;
* the safety halves of further liveness properties: what has to have happened when
  a client or child of `FileService` ends.
