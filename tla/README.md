# A verification project for ring3k

ring3k runs Windows NT programs on Linux with a kernel that is an ordinary
process. This directory holds TLA+ models of that kernel, of the libraries in
its tree and of two of its programs, the TLC runs that check them, and TLAPS
proofs. Paths are relative to `src/`; `PROJECT.json` maps every definition to
the lines it stands for (a helper whose lines are part of a mapped definition's may
be left out), and lists every component and every hazard.

## 1. The system

The kernel is one OS thread. Every user thread has a fiber, and so have the two
kernel threads; fibers switch only in `yield()` and `stop()`. A system call is
therefore atomic until it blocks, and what can go wrong lies between the moment
when a blocked thread is *started* (linked into the run list) and the moment
when it *runs*. Calls that go back into user code half way through (window
procedures) open a second kind of gap. User code runs in traced host processes,
one for each address space. Assertions are compiled in: one that fails ends the
kernel.

How the parts meet: every blocking call ends in `fiber_t::stop` and every
wake-up in `fiber_t::start`. `thread_impl_t::set_state` tells the completion
ports when the last running thread stops. The main fiber expires timeouts, which
start threads or signal timers. Closing a handle may delete a port, a pipe, a
key or a process, and so wakes or strands those who wait for it. Ending a thread
sends LPC messages and, for the last thread of a process, ends the process.
Every system call copies its arguments and answers through the address space of
the calling process.

## 2. Modules

Kernel, concurrency:

| Module | Models | Correspondence |
|---|---|---|
| `Fibers` | run list (`fiber.cpp`, `main.cpp`) | `next`, `prev`, `current` are the pointers; one action per call, `Schedule` is the main fiber |
| `FiberRing` | what the run list promises | a queue; `RingOfLinks` in `Fibers` maps the pointers to it |
| `Waits` | threads, waits, termination (`thread.cpp`, `event.cpp`, `semaphore.cpp`, `mutant.cpp`, `process.cpp`) | one action per system call, `Resumed` for the rest of a call that blocked |
| `Completion` | completion ports (`completion.cpp`) | `set`, `remove`, `start_waiter`, `set_state`; waits for other things are `Sleep` and `Wake` |
| `Timers` | timeouts, timers, the sleep of the main fiber (`timer.cpp`, `main.cpp`) | time left per timeout instead of a clock: `Tick` |
| `Lpc` | LPC ports (`port.cpp`) | a name in `-ed` is the second half of a call that blocked |
| `Pipes` | named pipes and the plug and play thread (`namedpipe.cpp`, `kthread.cpp`) | as in `Lpc`; pointers to deleted ends are kept and may not be followed |
| `MessageQueue` | one thread's queue of window messages (`queue.cpp`) | |
| `Input` | the loop over SDL events (`sdl.cpp`, `main.cpp`) | one action per step of `check_events`; SDL's queue and timer thread are external |
| `Tracer` | the traced host processes (`tt.cpp`, `ptrace_base.cpp`, `client.c`) | kernel, stub, user code, interval timer and signals are separate actors |
| `UserContext` | registers under exceptions, APCs and callbacks (`thread.cpp`) | a context is which activation of user code it belongs to |

Kernel, objects and data:

| Module | Models |
|---|---|
| `Handles`, `Objects` | handle tables and counts; names, links and the object factory on top of them (`object.cpp`, `objdir.cpp`, `symlink.cpp`) |
| `Memory`, `AddressSpace` | blocks, page table, views (`mem.cpp`, `block.cpp`); what they promise, page by page |
| `Processes` | images and processes made from them (`section.cpp`, `process.cpp`) |
| `UserMemory` | copies, counted strings, UTF-8 (`mem.cpp`, `unicode.cpp`) |
| `Queries`, `Tokens` | system calls that answer into a buffer; tokens (`token.cpp` and the query handlers of the others) |
| `Files`, `Registry` | `file.cpp`; `reg.cpp` |
| `Windows`, `Graphics`, `AllocBitmap` | `ntuser.cpp`; `ntgdi.cpp`, `bitmap.cpp`, `region.cpp`; `alloc_bitmap.cpp` |

Libraries and programs:

| Module | Models |
|---|---|
| `Hive` | hive files (`libntreg/ntreg.c`) |
| `Archives`, `Codes`, `Decompressors` | cabinets and help files; Huffman and arithmetic codes; windows and output of MSZIP, LZX, Quantum (`libmspack`) |
| `Disassembler` | opcode map and decoder (`libudis86`) and the loop that prints (`kernel/debug.cpp`) |
| `Games` | winemine and minitris |

In `Completion`, `Timers` and `Lpc` a failed assertion sets `failed`, after
which nothing happens. `TypeOK` leaves out of its type the assertion that can
never fail, so that it states something about the code.

`Waits`, `Completion`, `Timers` and `Lpc` let any linked fiber run next, which
covers the order that `Fibers` produces; each abstracts its neighbours. The
`MC` modules of runs with several components say in `which` which of them a
behaviour is about: the components share a run, not a state.

## 3. Runs

| Run | Shows |
|---|---|
| `fibers` | the asserts of the run list hold, it implements a queue, and every linked fiber runs |
| `waits_join` | joins, events and termination: no thread is stranded, the address space lives as long as its threads |
| `waits_apc` | alerts, APCs and timeouts: no lost or double wake-up, joins end |
| `waits_sem` | a semaphore is brought above its limit only by a wait for all that names it more often than it counts, and mutants change hands only by release |
| `io` | a packet is in one place, waiters are blocked, work is listed; a pipe delivers in order what was written and nobody sleeps beside a message; whoever is owed a turn gets it |
| `clock` | the list of timeouts is ordered, every sleeper has a timeout or a waker; window messages and input arrive once and in order; a traced child's pages are as the kernel's blocks say; every timed wait ends |
| `lpc` | listeners are blocked, connecting threads are restarted once, ports are paired, no message lies unread beside a sleeping receiver, and a request returns the reply to a request that is outstanding on its port |
| `objects` | the tree of names is a tree, counts are exact, `Objects` implements `Handles`, `Memory` implements `AddressSpace`, both views of memory agree |
| `desktop` | window tree and handle table agree whatever is created, shown, destroyed or terminated inside the callbacks of what, except for windows that outlive their parents; the active window exists, unless a window was deleted inside an operation on it; graphics objects live while selected, regions agree with sets of points and drawing with the lines and copies it stands for, with the exceptions listed below; allocated blocks are disjoint and the lowest that fit, or the allocation fails its assertion |
| `storage` | registry and hives stay well formed; decoding tables and decompressors produce the text, of which Quantum may write more than asked; listings are snapshots of the directory; archives give back what was stored, also when cabinets are joined between extractions |
| `system` | registers come back after nested APCs and callbacks; images, processes, tokens, copies and strings are sound; the disassembler keeps its place and, but for `ReadWrong`, finds the length of instructions; the games keep their boards, and what is on the screen is the board; a query repeated with the length it was told is answered |
| `input_quit` | violation: a quit event taken by the first check of the loop is dropped (`findings`) |

The comments of the properties in the modules say precisely what is claimed.

### Other disagreements

The modules also state these properties, which the code does not keep with the
constants given here. To reproduce a violation, check the property alone, with
these constants and the others as in the run's configuration:

| Property | Constants | The code | What says otherwise |
|---|---|---|---|
| `SemaphoreWithinLimit` | `MCWaitsSem.cfg` | a wait for all that names a semaphore twice counts it down twice | `tests/sema.c:80` |
| `ReleaseRespectsLimit` | `MCWaitsSem.cfg` | the limit is tested on a sum that wraps | `tests/sema.c:42` |
| `WaitMakesOwner` | `MCWaitsSem.cfg` | a wait for a mutant that another thread owns succeeds | `tests/mutant.c:54-61` |
| `DeadThreadsTakeNothing` | `MCWaitsJoin.cfg` | a thread terminated between start and run still uses up a signal | `kernel/thread.cpp:1069`; open in `TODO:7` |
| `TerminateProcessKillsAll` | `MCWaitsJoin.cfg` | a thread that ends its own process never reaches the threads after it | the use in `tests/log.c:82` |
| `OnePacketInQueue` (`Completion`) | one port with limit 2, `Killable = {}` | `set()` finds two packets | comment and assertion, `kernel/completion.cpp:224-226` |
| `PacketForWaiter`, `DeletedUnlisted`, `ReturnsWithinLimit` (`Completion`) | one port with limit 1, `Killable = {}` | a listed port has no packet left to hand out; a port is deleted while it is listed; a started thread is not counted, and one too many runs | assertions, `kernel/completion.cpp:231`, `170`; `tests/completion.c:147` |
| `DeadTakeNoPacket` | `MCIo.cfg` | a packet goes to a terminated thread | open in `TODO:7` |
| `SleepsWithoutActive`, `AddedOnce` (`Timers`) | `MCClock.cfg`, `Delays = {1, 3, 6}` | the second check of the timeouts starts a fiber, and the main fiber sleeps; a timer that is set again is linked twice | `kernel/main.cpp:120`; assertion, `kernel/list.h:114` |
| `ListenFindsRequest`, `ReceiverFindsMessage` (`Lpc`) | `Ports = {p1, p2}`, `Killable = {}`, `MaxId = 4` | another thread takes the request or message first | assertion, `kernel/port.cpp:548`; `tests/port.c:1592` |
| `QueueDeletable` (`Lpc`) | the same, `Killable = {s2}` | a terminated thread stays in the list of listeners | assertion, `kernel/port.cpp:369` |
| `NoRequestForgotten` (`Lpc`) | three servers, two clients, four ports, `Killable = {}`, `MaxId = 4`; by simulation | a request starts a thread that fetches another message, and lies unread beside a thread asleep in `NtListenPort` | comment, `kernel/port.cpp:540` |
| `CompletesOwn` (`Lpc`) | `Servers = {s1}`, `Clients = {c1, c2}` | completing an old connection restarts a new one, as refused | `kernel/port.cpp:627` |
| `OneReplyAtATime` (`Lpc`) | `Servers = {s1}`, `Clients = {c1, c2}`, `Ports = {p1, p2}`, `Killable = {}`, `MaxId = 4` | two threads wait for replies on one client port | assertion, `kernel/port.cpp:772` |
| `ReaderIsAlone` (`Pipes`) | as in `MCIo`, `Clients = {c1, c2}` | two threads read one end | assertion, `kernel/namedpipe.cpp:444` |
| `TimersSorted` (`MessageQueue`) | `Periods = {1, 2}`, `MaxPost = 3`, `MaxTime = 4` | a window timer is inserted one place early | comment before the insertion in `kernel/queue.cpp` |
| `UnlinkFindsWindow` (`Windows`) | as in `MCDesktop` | a window destroyed, or deleted with its process, inside a callback of another operation on it is unlinked twice | assertion, `kernel/ntuser.cpp:1102` |
| `SplitAssertsHold` (`Memory`) | `MaxCalls = 4` | a split asks for the whole length | assertion in `mblock::split`, `kernel/block.cpp` |
| `IndexCountsMatch` (`Hive`) | as in `MCStorage` | the first index of a key counts one entry too many | `libntreg/ntreg.h` |
| `SearchFindsAll` (`Archives`) | as in `MCStorage` | a false start hides a cabinet that begins inside it | `libmspack/mspack.h` |
| `QtmWritesNoMore` (`Decompressors`) | as in `MCStorage` | a Quantum match over the end of the window is written out whole, more than was asked, and the rest of the count is negative (`libmspack/qtmd.c:418-422`, `500-506`) | `libmspack/qtm.h:96` |
| `AngleMatchesDotless` (`Files`) | as in `MCStorage` | the loop behind `<` runs to the number of bytes, past the end of a name without a dot | comment, `kernel/file.cpp:441` |
| `MatchGivesAddress` (`Processes`) | as in `MCSystem` | a name behind as many names as there are functions is found and gives 0 (`kernel/section.cpp:538`) | comment, `kernel/section.cpp:525` |
| `ReleasedScreenIsBoard` (`Games`) | as in `MCSystem` | a press of one box and one of nine, with two buttons held, leaves boxes drawn as pressed (`programs/winemine/main.c:206-230`) | the redrawing there |
| `AllMinesOnBoard` (`Games`) | `RandTop = TRUE` | `rand()` at its maximum puts a mine outside the board | comment in `programs/winemine/main.c` |

In these cases no text of the repository says what should happen. The models
have them as the code does, and the properties name them as exceptions:

| Property | The code |
|---|---|
| `DrawingIsTrue` (`Graphics`) | `pen_dot` exchanges x and y, so that lines of width 1 are transposed (`kernel/bitmap.cpp:234`); `bitblt` moves a negative position to 0 without moving the other side or the size (`kernel/ntgdi.cpp:701-718`) |
| `QueriesAgree` (`Graphics`) | a region combined into its own second source is intersected with what was just stored in it (`kernel/region.cpp:398-400`) |
| `FirstFit` (`AllocBitmap`) | an allocation whose place ends at the last bit fails the assertion of `set_bits` (`kernel/alloc_bitmap.cpp:73`) |
| `NamesAreUnique` (`Registry`) | behind two backslashes in a row the name of a new key is not looked for, so that a key may get two subkeys of one name (`kernel/reg.cpp:241-254`, `326-341`) |
| `EnumerationIsSnapshot` (`Files`) | only the first buffer of the host's entries is read (`kernel/file.cpp:538`) |
| `StringsOwnTheirBuffers` (`UserMemory`) | `operator=` keeps a freed `buf` when the other string has none (`kernel/unicode.cpp:311-329`); nothing in the kernel calls it |
| `CopiesArePrefixes` (`UserMemory`) | with a count to write, `NtWriteVirtualMemory` returns the status of writing the count, not of the copy (`kernel/mem.cpp:946-949`) |
| `WindowTree`, `ActiveWindowLives` (`Windows`) | children are not destroyed with their parent; an operation goes on with a window deleted in its callback |

### Bounds

Two or three threads are enough for the races here: one that is started, one
that takes what it was started for, one that terminates. `ULONG_SIZE` is 8,
and 4 in `waits_sem`, for 2^32, so that sums wrap. `MaxApcs`, `MaxHeld`, `MaxId`, `Packets`, `MaxPost`,
`MaxTime`, `MaxEvents`, `MaxCalls`, `MaxOps`, `MaxAsked` and the like bound
counters; behaviours that would pass a bound are cut off there. `Slices` is 1
for 10. In `Timers`, `Forever`, `Period`, `MinWait`, `MsTicks` and `IntMax` scale
the clock down and keep its order; `IntMax` is below `Forever`, so that the cut
to an int happens. Windows, frames, pages, buffers, caches and tables are a few
cells long, chosen so that they wrap, fill and are crossed by what is put in
them: the LZX codes of `Codes` are longer than the table that is looked up
first, `Files` has more names than fit in one buffer, and in `Windows` two
operations are in progress at once (`MaxDepth`) among five calls (`MaxCalls`).
Symmetry is used for safety and action properties only: on ports, servers and
clients in `lpc`, on objects, and on the programs in `desktop`. Deadlock is not checked: a system whose threads have all
ended or wait for ever stops, and so does one that has failed an assertion or
used up a bound.

### Restrictions

Some properties hold only in part of what the code allows, and are checked there:

* `WaiterServed` excludes behaviours in which a thread was terminated by another,
  and `NoMessageForgotten` is checked with clients as the only threads that may
  be: a terminated thread that stays in a list may be handed the work.
* After a failed assertion the models stop, so what they show of `Completion`,
  `Timers` and `Lpc` is about executions in which no modelled assertion has
  failed. In `Timers` the timer that is set twice is such a case.
* `Lpc`: user threads only; replies carry a message id other than 0; no port is
  deleted while a thread is in a call on it or has it as its terminate port.
* `Timers`: no APC routine. `Fibers`: no completion packets handed out by a
  thread that is about to block.
* `Windows`: messages to a window of another thread are answered without kernel
  calls.
* `Files`: the directory that is enumerated is the one the names are in; its
  subdirectories are opened and not enumerated. Listings are compared with the
  directory if it fits in one buffer, and are a part of it otherwise.
* `Tracer`: one traced page of one space; the thread that is single-stepped
  does not block.
* `Objects` follows at most `MaxDepth` links; `LengthIsX86` leaves out the
  instructions whose operands the decoder reads wrongly (`ReadWrong`).
* `Archives`: no block with a bad checksum; with one, extraction returns the
  bytes before it and the error.

### Fairness

* `Fibers`: weak fairness of the current fiber's progress. The kernel is one
  thread and no system call loops for ever.
* `Waits`: strong fairness of `Resumed` and `Timeout`, since the loop of
  `NtTerminateProcess` disables both while it runs. The run list is a ring
  (`EveryLinkedFiberRuns`), and the main fiber, which is in it, expires
  timeouts in each round. Weak fairness of `TerminateNext`, a loop.
* `Completion`, `Pipes`: weak fairness of a woken thread, for the same reason;
  in `Pipes` only of the kernel's own, which is the one waited for.
* `Timers`, `MessageQueue`: weak fairness of time, of the main fiber's steps and
  of `Resumed`.
* `Input`: weak fairness of the loop, of time and of SDL's timer thread.
* `Tracer`: weak fairness of the kernel's steps, of the stub, which is a few
  instructions, of the interval timer and of the delivery of its signal. None
  of user code, which may run for ever.
* The other modules: none; only safety is checked.

## 4. Proofs

TLAPS proves the following for every value of the constants that the named
assumptions allow. Each proof module EXTENDS the module it is about. No proof
uses fairness.

| Module | Theorems | Assumption |
|---|---|---|
| `FibersProof` | `RunListCorrect`, `StopAsserts`, `LastFiberExact`, `RunListIsQueue` | `FiberAssumption` |
| `WaitsProof` | `WaitsCorrect`, `WakeupsDelivered`, `StartAsserts`, `RunningCountExact`, `NoThreadStranded`, `AddressSpaceLifetime`, `MutantCount`, `MutantNeverStolen`, `SemaphoreLimit` | `WaitsAssumption` |
| `HandlesProof` | `CountsAreExact`, `NoDanglingHandle`; lemmas about trees of lists | `HandlesAssumption` |
| `ObjectsProof`, on `HandlesProof` | `NamesAreATree`, `ObjectsImplementHandles`, `CountsAreExactWithNames`, `NamesKeepTheirMeaning` | `HandlesAssumption`, `ObjectsAssumption` |
| `CompletionProof` | `CompletionCorrect`, `PacketsAreConserved`, `WaitersAreBlocked`, `ReadyPortsAreListed`, `CheckWaitersAssert`, `IdleWithoutWork` | `CompletionAssumption`; the last also `Killable = {}` |
| `TimersProof` | `TimersCorrect`, `QueueStaysInOrder`, `SleepersAreListed`, `NoEarlyQuit`, `NeverLate`, `NeverSpins`, `NoSignalMissed` | `TimerAssumption`; the last also `0 \notin Delays` |
| `LpcProof` | `LpcCorrect`, `ListenersAreBlocked`, `ConnectingIsExact`, `ConnectionsArePaired`, `ConnectionsAreSound`, `ConnectAsserts`, `MessagesAreFetched`, `RepliesMatch` | `LpcAssumption`; `MessagesAreFetched` also `Killable \cap Servers = {}` and finitely many servers |
| `Lists` | lemmas about append, unlink, insert and suffixes of the lists of `kernel/list.h` | none |

The arguments:

* **Run list.** `FiberInv` is the type, `RingLinked` (links are inverse to each
  other), `OneCycle` and `ModeLinked`. The links alone would allow a thread
  linked to itself beside the list of the main fiber; that no set of fibers
  without the main fiber is closed under `next` excludes it. `RunListIsQueue` is
  the refinement of `FiberRing`. `RingInv` says that some sequence lists the
  runnable fibers in the order of their links; each operation turns it into the
  sequence that `FiberRing` asks for, and `WalkIsRing` shows that the refinement
  mapping, which follows the links, finds that sequence and no other. The mapping
  is a recursive function; the sequence is a witness that it is well defined, and
  a least place at which the two differ gives the contradiction that an induction
  would.
* **Waits.** `WaitsInv` joins the type, `ThreadShape`, `NoDoubleStart`,
  `RunlistExact`, `WaiterReachable`, `NoLostWakeup` and `VmOutlivesThreads`. None
  is inductive alone: that a wake-up is not lost needs that the thread is in the
  lists of watchers of what it waits for, that in turn needs to know which calls
  block. The module starts with what one round of the loop over the watchers does.
  `SemaphoreLimit` is about steps: `NtReleaseSemaphore` tests the sum that it
  stores, wrapped or not, so that no release exceeds the limit; a wait counts a
  semaphore down once for each place in its list, and passes zero, to a number
  above the limit, only if the list names the semaphore more often than it counts.
* **Handles.** A count is the number of handles plus the kernel's own references;
  the proof follows each operation's change of that sum.
* **Names.** `TreeInv` is the type, `Tree` (parents and lists agree, and names
  differ within a list) and `RootStays`: the kernel's reference keeps the root
  directory. A walk along a path and the links on it is safe (`WalkSafe`): what it
  comes to is alive, and a name that is to be appended is new in its directory.
  `open()` calls itself through directories and links, so that the lemma is about
  every depth of nested calls, by a least depth at which it would fail. Given
  that, each call is one of `Handles`' steps, and the names change in two ways
  only: an entry is appended (`TreeAppended`), or what is deleted leaves its
  parent's list and its entries lose their parent (`TreeDestructed`). Both also
  keep the first entry that a lookup meets, which is `NamesKeepTheirMeaning`.
* **Completion ports.** `CompletionInv` joins `PacketInOnePlace`,
  `WaiterIsBlocked`, `ListedPortHasWaiter` and `WorkIsListed`: a packet is handed
  over by unlinking a waiter, so that the first cannot be kept without the
  second, and a port leaves the list of ports when its last waiter goes. A waiter
  may be terminated: `fiber_t::start` is not virtual, so the hand-over starts it
  all the same, and its packet goes when it finishes `remove`.
* **Clock.** `TimersInv` is the type, the order of the list, `Sleepers` (who is in
  the list), and, for the main fiber, `MainIsAlone`, `QuitsOnlyStuck` and
  `SleepInTime`. `Sorted` is about the times that are left, which all shrink
  together in `Tick`; insertion keeps it because it stops at the first timeout
  that expires later.
* **LPC.** `LpcInv` is the type, `ListenersIn`, `ConnectingIn`, `PairedIn` and
  `UsersIn`. The last is there only for the proof: a port that a call or a
  termination still has to use exists, and a port that is being connected has
  one user. Terminated threads are among these users: an answer starts them, and
  they release the port of their call in `DeadReturns`.
* **Messages.** `MessageInv` adds to it that only servers fetch messages, that
  none of them is terminated, and `NoMessageForgotten`. Every step is one of
  three kinds (`Fetch`): no fetcher goes and no message comes, a fetcher goes
  with a message, or a message comes with a new fetcher. The last needs that the
  list is searched from its head and that a thread asleep in
  `NtReplyWaitReceivePort` takes any message, so that a message that starts
  nobody finds none asleep; `FetchCount` turns the three kinds into the
  inequality of cardinalities. For threads asleep in `NtListenPort` the same
  (`NoRequestForgotten`) is false once three threads serve the port.
* **Replies.** `RepliesInv` adds `AnswersIn`, that what a port has received is the
  answer to a call on it in which some thread still is, and `IdsIn`, that a
  connecting thread keeps the id of its call. Every step leaves what the ports
  hold (`Quiet`), gives one port the answer to a call on it, or ends a call that
  takes what its port holds; each of the three keeps `AnswersIn`. Threads may
  share a port, so that the answer may be to the other thread's request.

Every inductive invariant was checked by TLC on the constants of its run before
it was proved.

What stays with TLC, and why:

* `PipesDeliver`, `MessagesDelivered` and `KidMatchesBlocks`: nothing in them is
  beyond the prover in principle, but they have no proof. Their invariants relate
  a history of what was sent to what has arrived, or the kernel's blocks to the
  mappings of the child at every step of a request, and have only been checked on
  the small instances of their runs.
* `EveryLinkedFiberRuns`, `JoinReturns`, `WaitersGetTheirTurn`, `TimedWaitsEnd`
  and the other temporal properties: liveness under fairness is out of the
  prover's reach.
* `ImplementsPages`, `ViewsAgree` and the properties of the runs `desktop`,
  `storage` and `system`: their modules use `RECURSIVE` operators, which the
  prover cannot load, for what is a recursion in the code, or state what a
  recursive algorithm computes, which needs an induction over data.

## 5. Not modelled

Stubs that return a fixed status (mail slots, jobs, profiles, drivers, atoms,
the waits for event pairs), the `skas` variant of address spaces, the other
formats and the compressors of libmspack, which are stubs, exports of hives, the
programs that only draw, the tools, and the text of what is printed: I/O or data
without control of its own. Within the modelled parts `PROJECT.json` says of each
component what is left out.
