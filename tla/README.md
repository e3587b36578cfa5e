# A verification of 9vx and libvx32 in TLA+

This directory models the parts of vx32 whose correctness depends on the order in which
things happen: 9vx, the port of the Plan 9 kernel to a single Unix process
(`src/9vx`), and libvx32, the user-level sandbox that runs Plan 9 user code for it
(`src/libvx32`).  Paths below are relative to the `src` directory of the repository, and
9vx's own files are meant where no directory is given (`a/proc.c` is `9vx/a/proc.c`).

## 1. The system

9vx runs the whole Plan 9 kernel in one host process.

* User processes run one at a time on *cpu0*, the host's main thread, under the scheduler
  of `a/proc.c`; a user process executes inside libvx32, which scans and translates its x86
  code, and enters the kernel by a trap.
* Kernel processes (kprocs) run each on a "processor" that is a host thread, made on demand
  (`sched.c`), never given up.
* Calls that may block in the host (reads of a file or a socket) are passed from cpu0 to
  server threads (`kprocdev.c`).
* All of them share the kernel's data under spin locks (`stub.c`), queueing locks
  (`a/qlock.c`), Rendezes (`sleep`/`wakeup`, `a/proc.c`) and host condition variables
  (`plock`/`psleep`/`pwakeup`, `sched.c`).

### 1.1 Inventory

| Component | State | Operations | Interacts with | What is hard | What makes it correct |
|---|---|---|---|---|---|
| Queueing locks, `a/qlock.c` | `locked`, `readers`, `writer`, list of waiters, `p->state` | `qlock canqlock qunlock rlock canrlock runlock wlock wunlock` | `ready` and `sched` | ownership is handed over without being released; `ready` after the spin lock is let go | one owner or several readers, no waiter lost, first come first served |
| Kproc scheduler, `sched.c`, `a/proc.c` `schedinit`, `sched` | `kprocq`, `nrunproc`, stack of sleeping processors, `m->new`, `p->mach`, `p->state` | `ready runproc newmach psleep pwakeup schedinit sched` | everything that sleeps or wakes | a process is taken by a second processor while the first still runs on its stack; the count of waiting processors against wakeups that overtake each other | no stack with two threads, enough processors awake, every ready kproc runs |
| cpu0 scheduler, `a/proc.c`, `sched.c` | `runq`, `m->readied`, `idlewakeup` | `_ready _runproc queueproc dequeueproc idlehands noidlehands` | kproc threads ready user processes | a process readied between the last look at the run queue and falling asleep | cpu0 does not sleep while a process is ready |
| Sleep and wakeup, `a/proc.c` | `r->p`, `p->r`, `p->state`, two spin locks, `p->notepending` | `sleep tsleep wakeup postnote` | scheduler, timers, notes | locks taken in opposite orders; a wakeup between the test and the sleep | no lost wakeup, panics unreachable |
| Rendezvous and notes, `a/sysproc.c`, `a/proc.c`, `trap.c` | rendezvous hash, `p->rendval`, note queue, `p->notified` | `sysrendezvous postnote notify noted` | scheduler | a note while the partner arrives | values are exchanged between exactly two, a noted process leaves |
| Semaphores, `a/sysproc.c` | queue of `Sema`s, the user's word, `waiting` | `semacquire tsemacquire semrelease semwakeup` | sleep/wakeup, user code that changes the word | the three races its comment lists | no unit lost, no waiter left while the value is positive |
| Process life, `a/proc.c`, `a/sysproc.c` | `nchild`, wait queue, `nwait`, broken list, free list | `rfork pexit pwait addbroken unbreak` | locks, notes, memory | parent and child exit together | every wait record reaches a parent that waits, `nchild` is right |
| Server threads, `kprocdev.c` | list of idle servers, the call's record | `kcall kserver` and the wrapped device calls | notes, sleep/wakeup | an interrupt races the answer | one answer per call, no call left behind |
| Timers and alarms, `time.c` | sorted list of timers, alarm list | `timeradd timerdel timerkproc procalarm` | tsleep, notes | a timer that is deleted while its function runs | fires at most once per add, never before its time |
| Address spaces, `mmu.c` | LRU list of user spaces, `pmmu.us` | `mmuswitch putmmu flushmmu mmurelease` | page, fault | an address space is stolen while its process sleeps | a process sees only its own pages |
| Pages and image cache, `a/page.c` | free list, hash, reference counts | `newpage putpage duppage cachepage lookpage` | fault, swap | a page is looked up while it leaves the cache | reference counts, cached page has the image's data |
| Segments, faults and swap, `a/segment.c`, `a/fault.c`, `a/swap.c` | segment maps, swap map | `fault fixfault segpage pager` | page | copy on write against a reference that goes away | the frame is shared only read-only |
| Queues, `a/qio.c` | `Queue`: block list, `dlen`, `Qflow`, `Qstarve`, `Qclosed` | `qbread qbwrite qproduce qclose qhangup` ... | sleep/wakeup | reader and writer that each wait for the other | data in order, no reader asleep with data |
| Pipes, `a/devpipe.c` | two queues, reference counts per end | `pipeopen piperead pipewrite pipeclose` | qio, notes | both ends close at once | end of file exactly when the other end is closed |
| Mount driver, `a/devmnt.c` | request queue, tags, `m->rip` | `mountio mntflushalloc mountmux mntgate` | qlock, sleep/wakeup | replies out of order, interrupts and Tflush | a reply goes to its request, one reader at a time |
| Channels and groups, `a/chan.c`, `a/pgrp.c` | reference counts, mount table, closeproc queue | `newchan cclose cmount cunmount` | everything with files | last close by two holders | a channel is freed once |
| Translator, `libvx32/emu.c`, `sig.c` | fragment cache, entry table, `cpu_trap` | `vxproc_run xlate vxemu_flush vxemu_sighandler` | signals | a signal in the middle of a translation; flush against patched jumps | a jump goes to the translation of its target |
| User memory, `libvx32/chunk.c`, `mem.c`, `proc.c` | permissions, mapping | `chunk_resize chunk_map chunk_setperm` | translator | mapping and permissions out of step | the mapping has the permissions recorded |
| Network stack, disks, AoE, draw, mouse, console, audio, TLS/SSL (`a/ip`, `a/dev*.c`, `dev*.c`, `libdraw` ...) | | | | | not modelled: device detail, I/O |
| vxa codecs, vxrun, libvxc, `libmemdraw`, `libsec` | | | | | not modelled: guest libraries, data processing |

### 1.2 Plan

In order of importance; what is done is marked.

1. (done, proved) the locks `QLock` and `RWLock` with their abstract specifications,
   because all else relies on them;
2. (done, proved) the scheduler of kprocs (`KprocSched`), of cpu0 (`Cpu0Sched`), and
   sleep and wakeup (`SleepWakeup`);
3. (done, proved) libvx32: translated code under signals (`VxRun`);
4. (done, proved) the users of sleep and wakeup with a protocol of their own: the server threads of
   cpu0 (`KprocDev`) and the mount driver (`Devmnt`);
5. (done, proved) semaphores, with what they promise (`Semaphores`, `CountingSemaphore`);
6. (done, proved) address spaces, segments, pages and faults, with the memory they give to programs
   (`UserMemory`, `Memory`);
7. (done, proved) timers and `tsleep` (`Timers`); the list of alarms is left;
8. left: rendezvous and notes; exit and wait;
9. left: the entry table of libvx32 (`growetab` and the insertion into it with a signal in the
   middle); queues and pipes.

## 2. The modules

| Module | Models | Run(s) |
|---|---|---|
| `QLock`, `FifoMutex` (what it promises), `LockProofs`, `QueueLemmas` | `qlock canqlock qunlock` | `qlock` |
| `RWLock`, `FairRW` (what it promises), `LockProofs` | `rlock canrlock runlock wlock wunlock` | `rwlock` |
| `KprocSched`, `SchedProofs` | scheduling of kprocs on host threads | `kproc_sched` |
| `Cpu0Sched`, `SchedProofs` | scheduling of user processes on cpu0 | `cpu0_sched` |
| `SleepWakeup`, `SleepWakeupProofs` | `sleep wakeup postnote`, lock by lock | `sleep_wakeup` |
| `KprocDev`, `KprocDevProofs` | device calls handed to server threads | `kprocdev` |
| `Devmnt`, `DevmntProofs` | sharing of a 9P connection | `devmnt` |
| `VxRun`, `VxRunProofs` | translated code, the runtime and the signal handlers | `vxrun` |
| `Semaphores`, `CountingSemaphore` (what they promise), `SleepWakeupProofs` | `semacquire tsemacquire semrelease` | `semaphores` |
| `UserMemory`, `Memory` (what it promises), `UserMemoryProofs` | address spaces, segments, pages, image cache, faults | `memory`, `memory_race` |
| `Timers`, `SchedProofs` | timers, their kproc, `tsleep` | `timers` |

`MC...` modules only give TLC symmetries (`UserMemory`) and a guest program (`VxRun`).  Operators
whose comment calls them a slip are not part of a specification: each is a plausible
mistake in the definition after it, which the run named with it in `PROJECT.json` detects.

Layers use each other's results.  The locks take the processor's `sched`/`ready` as given
(`Sched` and `Resume` in `QLock`, `SwitchOut` and `Dispatch` in `RWLock`), which `KprocSched` and `Cpu0Sched` model; these take spin locks
and the host's condition variables as given.  `KprocDev`, `Devmnt`, `Semaphores` and `Timers` take
`sleep` and `wakeup` as single steps, which `SleepWakeup` takes apart; `UserMemory` takes the
`qlock` of a segment as mutual exclusion.

### 2.1 Queueing locks

State and names of `RWLock` are those of `struct RWlock`: `readers`, `writer`, the list as a sequence
(`queue`), `p->state` (`state`).  In `QLock` the list is `waitlist`, `p->state` is `runstate`, and what is `pc`
and `handing` in `RWLock` is `place` and `passing`: the two share no name that stands for state, so that one module can
have the proofs about both.  What happens under `q->use` is one action.
Two moments are actions of their own, because other threads run there: between
`unlock(&q->use)` and `ready(p)` in `qunlock`, `runlock` and `wunlock` (`ReadyHead`,
`ReadyOwner`; the process is in `passing` or `handing`), and between a waiter's `unlock(&q->use)` and
the end of its `sched()` (`Sched`, `SwitchOut`).  `wunlock`'s batch of readers is let in in one action,
as in the code, which holds the spin lock meanwhile.

`FifoMutex` and `FairRW` say what users may rely on: arrivals are put in a line, and served
in its order; for `FairRW` readers enter together when no writer is before them.  The
refinements map the owner to "in its critical section, or off the queue and only to be run":
`q->locked` is never cleared in a handoff.  *Fairness*: a process that holds a lock lets go of
it, and the scheduler runs what is ready.  Nothing is assumed of arrivals.  *Bounds*: four
processes, so that two can queue while a third is handed the lock and a fourth arrives,
and (RWLock) a reader and a writer can queue behind a batch of two readers.

### 2.2 Kproc scheduler

`at` says where each processor's host thread is, from `newmach` to the loop on `p->mach` at
the end of `runproc`; `waiter` is `run.waiter`, which `psleep` and `pwakeup` use as a stack.
`Wake` and `Create` call `ready`, from whatever thread.  A process that gives up its processor
leaves the locks (`Sleep`, `Yield`, `Exit`), goes on to `schedinit` on its own kernel stack, and
only there clears `p->mach`: in between `ready` may queue it, and a second processor take it and
spin.  `newmach` panics when there are no more processors; the model stops there (`Halted`),
and says nothing of a system after its panic.

`PromptReuse` asks whether `newproc` may take a slot whose last processor has not yet
cleared `p->mach`.  The code permits it (see the findings), for the moment between two statements of
`schedinit`; everything else is checked and proved for histories in which it does not happen.

*Fairness*: the host runs every thread that is in the scheduler (weak fairness of
`Schedule(m)`); a kproc need not give up its processor, ever.  That `EveryReadyRuns` holds
nevertheless is the purpose of `nrunproc`.  *Bounds*: three kprocs, three processors; two of them are needed for a double sleep, the third to overtake.

### 2.3 cpu0 scheduler

The run queues are the set of processes on them; cpu0 scans them without `runq->lk`.
`late` remembers processes queued since the scan began, which the scan may or may not see.
`ready` on a kproc thread is four steps: state, lock, queue, kick (`pwakeup` on cpu0's
`idling`); the one on cpu0 itself is whole, since only cpu0 would be disturbed by it.
`idlehands` tests and sleeps under a host mutex and is one step.  *Fairness*: every
thread runs, and a spin lock that is free again and again is got (strong fairness of
`ThreadLock`: the code's `lock` retries without end, and its holder never holds it for long).
*Bounds*: three users, two threads that may be at work on different processes while
cpu0 runs the third.  Which of several ready processes is preferred is not modelled.
The names of `Cpu0Sched`'s specification and variables are prefixed, so that one module can have the
proofs about both schedulers.

### 2.4 Sleep and wakeup

Each lock, unlock, test and assignment that others can see is an action, in the code's order;
`sleep` and `wakeup` take `r->lk` then `p->rlock`, `postnote` the reverse, with `canlock`.
`cond` stands for what the sleeper's function would return; only the sleeper clears it (it
consumed the event), anybody sets it before calling `wakeup`.  *Fairness*: weak for every
step, strong for the lock steps (as above).  `WakersReturn` speaks of `wakeup` only: a
`postnote` whose `canlock` fails each time starts again for ever, and nothing bounds how
often.  *Bounds*: two sleepers, two threads, two Rendezes.  Two threads are needed so that a
wakeup and a note come from both sides at once, two Rendezes so that a late waker finds
its process asleep elsewhere.

### 2.5 Server threads

`Caller`s run on cpu0 and hand a `Kcall` in their own stack frame to a `Server`.  `CallerWaits`
says that the frame is alive until the server says done.  After that it need not be: `kserver`
still reads `kc->p` to wake the caller, and if the caller has seen `kc->done` and left the frame, it
follows whatever is there now (`crashed`, or not, in `WakeCaller`).  The model stops when it
crashes, and the hazard is listed in `PROJECT.json`.  A note makes the caller send a signal to
`kc->pthread`, read earlier (`target`).  A server is a kproc and may sleep in its driver and
go on in another thread; then the signal can hit another server's call.  It can also without: the test
of `kc->done` (`TestDone`, `kprocdev.c:211`) and `pthread_kill` (`Kill`, line 212) are two steps, and between them
the server may say done, sleep, and its thread pass to another server, which enters the host.
`overtaken[c]` records that `c`'s call has been done since that test.  `NoStrayInterrupt` says that these are
the only two ways: a call that had been done when `kcall` looked causes no signal, and while the server stays
at the call, in the thread that was read, no other is hit.  Deadlock is not checked in this run,
because a crash is the end of the program.  *Fairness*: strong for the return of a device call,
during which the driver may sleep again and again; weak for the rest.  *Bounds*: two of each, so
that a server passes from one caller to the other while the first one's signal is on its way.

### 2.6 Mount driver

`chain[p]` has the Mntrpcs of p's call: the request last, before it the flushes that notes have
caused.  `mountio` is `Mountrpc`, `Write`, `Gate`, `Sleep`, `Awake`, the reader's loop
`Mountmux`/`ReadEnds`, and for its error handler `...Interrupted`/`Flush` (the error is `Eintr`) and
`WriteFails`, `ReadFails`, `Abandon` (any other); `Leave` is one turn of the loop of `mntflushfree`, which locks
the connection for each message it takes off the queue.  Tags are those of the
Mntrpcs, which keep them; the free list is a set from which any may be taken, which includes the
code's choice of the last one freed.  The connection neither loses nor reorders messages; the server
answers in any order, and may hang up.  When it gets a Tflush it notes what it is to forget before
it answers it: the request, and the earlier flushes of it (`over`; flush(5)).
After a hangup answers already sent are still read.  *Fairness*: processes go on, except that
nobody need call or be noted; the server answers each request.  *Bounds*: two
processes, three Mntrpcs: a call interrupted while another process reads or sleeps,
or a call interrupted twice, after which the tags are used again.  The mutant of `Send`
(a Tflush that names the flush before it, not the request) needs all three.
The bound is on Mntrpcs only, and calls repeat for ever.

Not in the model: errors other than a hangup on a connection that lives on (a message that
does not parse); they free tags whose answers may still come.

### 2.7 Translated code under signals

One host instruction of translated code is one step; the runtime and the C code are a step for
each stretch in which a signal is treated alike.  Guest instructions are of the kinds the translator
tells apart (`Type`); lengths of their translations, the limit on a fragment, short jumps, prologs and
trampolines are computed as the four passes do, because the handlers work from host offsets.  `tx` is the fragment
under translation (`emu->txfrag`): `Begin` and `ScanInsn` are `xscan` with its loop over instructions, `Simplify` is `xsimp`,
`PlaceInsn` a turn of `xplace`'s loop and `Emit` is `xemit`.  `Tick`, `Fault` and `Stepped` are SIGVTALRM, SIGSEGV and SIGTRAP;
`Saved` and `PutBack` what `vxemu_sighandler` and `vx32_sighandler` do.  `Run` is 9vx between two
`vxproc_run`s, which may deliver a note or flush the translations.  Registers have two or three
values each: enough to tell a stale one.  `arch` is a history variable, the guest's own processor.

`Window` names the places where a tick may arrive (`Where` says which is which).  `vxrun` checks all properties
with ticks in translated code, in the middle of a call, in the runtime on its way to a translated target, in the
translator and in C (`MCSafe`).  Each of five more windows violates `PreciseTrap` when `Window` has it:

* `tramp`, `miss`: see the findings (`MCTramp`, `MCMiss`);
* `return`: in `vxrun_return` after `%ds` is restored and before the guest's eflags are saved
  (`run32.S:98`) a tick is taken for one outside guest code;
* `note`: `emu->ininst` is left set when the translator faults or is interrupted (`emu.c:240`); if the
  kernel then sends the guest to a note handler that is already translated, the next tick is taken for
  one in the translator, and nothing is saved;
* `int3`: in C after an `INT3` has been recorded, see the findings.

The middle of a call (`call`) is safe for the program of the run only, see the findings too: no conditional jump comes in straight
line before a call in it (`CallsFirst`, which TLC evaluates for it).

*Fairness*: weak for `Host`, the host processor executes.  Nothing is assumed of ticks and faults.
*Bounds*: a program of 15 instructions of all kinds, with five entries of fragments, room for
three fragments in the buffer (so that flushes happen) and a limit of 36 bytes a fragment (so that
fragments are cut short; the code's is 255).  The program is fixed, and other programs
may have branch patterns this one has not; the proofs are for all of them.

### 2.8 Semaphores

A semaphore is a word in user memory (`value`); reading or changing it may fault, so it
is never looked at with the list's spin lock held.  Each step of `semacquire`, `tsemacquire`, `semrelease`
and `semwakeup` between two such places is an action: `Semqueue` puts the process on the list,
`Announce` sets `waiting`, `TryAgain` looks once more, `Sleep` sleeps unless `waiting` has been cleared,
`Semdequeue` and `PassOn` hand an unneeded wakeup on, and `Clear`/`Wakeup` are the two halves of waking one.
A compare-and-swap loop is the one step in which it succeeds.  Timeouts and notes come at any point of
a sleep.  User programs do not change the word by themselves in this model.

`WakeupsSuffice` is the comment's "a releaser of n must wake up n acquirers", made into an invariant of all
the places a wakeup can be in.  While somebody sleeps whose `waiting` nobody has cleared (`Unheard`), there is no more to acquire
than `Coming` counts: the calls releasers have still to issue (`Calls`), the processes that have
announced themselves and are about to look (`Looking`), and the Semas on which a call has been spent
whose owner has not announced itself again nor handed it on (`Heard`).  One process may account for two of these at
different times: woken, announced again and found by a second releaser, it takes one unit and
hands the second wakeup on.  `CountingSemaphore` says what callers may rely on, liveness included: while the
semaphore is positive, somebody who waits gets it.  *Fairness*: a process in the kernel goes
on, and a spin lock that is free again and again is got; nobody has to call or to be noted.  *Bounds*: three
processes (one to time out, one to wait on, one to release), one semaphore of at most two.  Three are not enough for everything:
an invariant that counts every process at most once holds for three and fails for four.  `WakeupsSuffice` counts
one twice where it is due, is proved for any number, and its inductive invariant was checked by TLC with four.

### 2.9 User memory

User processes all run on cpu0 and give it up in the kernel only where they sleep, so a step goes from one such
place to the next.  `Switch` is `sched` with `mmuswitch`, and gives p a host address space: its own
(`Keepspace`, flushed if `newtlb` or `m->flushmmu` asks for it), its own taken back (`Takespace`), or the one
used longest ago (`Getspace`).  A fault is `FaultCall`, `Lock` (of `s->lk`) and one of `HasPage`,
`ZeroFill`, `LookPage`, `Load`/`Loaded` (with `s->lk` let go of for the read); for a store it goes
on to `CopyOnWrite`, `Own` (with `duppage`) or `ReadOnly`, and ends in `Putmmu`.  `Exec`, `Share` and `Copy` (`rfork`
with and without `RFMEM`), `Brk`, `Putsegs` and `Mmurelease` change what there is to map, and each flushes
what the code flushes: the others who have the segment are only told (`newtlb`).

`Memory` is what programs may rely on: a store changes the segment of the process that does it and
no other, a fork copies, fresh memory is the file's or zeros.  Faults, eviction and the image cache are
invisible to it.  `Coherent` says why: what a running process has mapped is its segment's page, and is writable only if nobody
else can come to see it.  `SpaceKept` is about pointers of the kernel into user memory (buffers and arguments
of system calls), which are addresses in the process's host space.

`Contents` is the refinement mapping: the byte of a segment at an offset is that of the page in the slot, or what a
load would put there (`View`), and gone where the segment ends or nobody has it.  A process gives up the processor
only where `Waits` says: in user mode, for the lock of its segment or a free page, for a read, or in `duppage`.  Between
`HasPage` or the like and the end of the fault it does not, which is what makes the test of the page's users in
`fixfault` mean anything.

The code violates `ImplementsMemory` (see the findings).  The run `memory` is cut, by the constraint
`NoRace`, where that race has happened: nothing is said of what comes after it, all else is explored.
`memory_race` has no constraint.  *Bounds*: three processes, two segments, two pages and two spaces, one page a segment:
a process loses its space to another, comes back to it after a fork, and runs out of pages.  Symmetry
is sound: no liveness is checked.  A second page in a segment, text, stack and physical segments, the limit of the image
cache and swap (`conf.nswap` is 0 in 9vx) are not modelled.

### 2.10 Timers

`list` is `timers.head`; what is done under its lock is one step, so that `setalarm` is two (`SoundDel` and `SoundAdd` in
`soundalarms`, `AlarmDel` and `AlarmAdd` in `procalarm`), between which the timer of the alarms is not set.  `left` counts down to the time a timer is due
(`twhen`).  The timer kproc looks at the head (`LookNone`, `LookLater`, `LookDue`) and then waits in `sigwait` or
`pselect` for SIGURG, which is blocked elsewhere and so stays pending (`pend`); the function of a timer is `twakeup`, in three
steps because it takes no lock, or `soundalarms`, which may wait for `alarms.lk`.  After that wait `ready` gives the kproc to
any thread, while `timer_pid` stays the first one.  The list of alarms is abstracted to "some time or none" in
`SoundAdd` (`procalarm` has just put its own process on the list, so that `AlarmAdd` sets the timer in any case).

`HeadWatched` is the promise of the comment at `time.c:144`; it and `TsleepReturns` are stated for a timer kproc on its
first thread, and fail without that condition: SIGURG is then pending for a thread that does not wait for it.
`TsleepReturns` also excepts a `twakeup` that comes late: its process has been woken by somebody else and has called `tsleep`
again, and the late one clears the new `p->trend`, so that the new time limit is lost.  *Fairness*: time goes on, the
timer kproc and the holder of `alarms.lk` go on.  *Bounds*: two processes, two Rendezes, two threads, times of at most
two ticks, so that a timer can come before, after and together with another.  There are no periodic timers in
9vx (`addclock0link` adds none).

## 3. What is proved

By TLAPS, for every value of the constants, from the modules' named assumptions only:

* `LockProofs`, of `QLock`: `QLockSafe` (`OneOwner`, `LockedIffOwned`, `NoLostWaiter`) and `QLockIsFifo` (the lock
  implements `FifoMutex`).  The invariant `QLockIInv` adds to them that the list has no process twice, that
  who is on it waits and that the lock is then locked (`ListInv`), and that states, places and
  `passing` agree (`WaiterInv`).  Without the first, a process taken off the list could still be on it
  and be readied twice; without the last, `passing` could name a process that runs.
* `LockProofs`, of `RWLock`, for a finite set of processes (its size is what `q->readers` counts): `RWLockExclusive`
  (`Exclusive`), `RWLockCounts` (`CountsOwners`), `RWLockNoPanic` (`HeadIsWriterUnderReaders`) and `RWLockIsFair` (the
  lock implements `FairRW`).  `IInv` adds `QueueInv` and `PlaceInv`, as `QLockIInv` its two; the new part is that a
  free lock has an empty queue and a writer inside means no readers.  Each way a call may end is one lemma
  that says at once who owns the lock after it, that `IInv` is kept, and which step of
  `FairRW` it is.  Of `wunlock`'s batch, `CountFirst` (k places of a list without
  repetitions are k processes) gives the count and `DropFirst` the rest of the queue.
* `SchedProofs`, of `KprocSched`, assuming `~PromptReuse`: `KprocStacksSafe` (`NoTwoStacks`), `KprocMachSaved`
  (`MachZeroOnlyWhenSaved`), `KprocQueueSafe` (`QueuedOnce`) and `KprocEnoughAwake` (`EnoughAwake`).  `IInv` adds
  `WaiterInv` (the waiters' stack is exactly the sleeping processors) and `HoldInv` (`p->mach` is the
  processor until it clears it, and one processor spins for a process).  `HoldInv` is why two stacks
  are impossible: two threads on p's stack would both be `p->mach`.  `EnoughAwake` needs the
  count of awake processors against the queue's length across a wakeup that
  overtakes another; the lemmas `KickWakes`, `ReadyKeeps` and `CountsKept` are about that.
  The assumption is needed: with `PromptReuse = TRUE` and four processors TLC finds `MachZeroOnlyWhenSaved` false.
* `SchedProofs`, of `Cpu0Sched`: `Cpu0NoSleepOverWork` (`NoSleepOverWork`) and `Cpu0ReadyIsQueued`
  (`ReadyIsQueued`).  `Cpu0IInv` adds `ScanInv`: what was
  queued since the search began (`late`) is a reason not to sleep after it, and after a fruitless
  search nothing else is queued; and `ReadyingInv`: a process is readied by one thread, before it
  is queued.  Without the first the invariant says nothing of the time between the last look
  and the sleep, without the second a dequeued process could be queued once more.
* `SchedProofs`, of `Timers`, for any times and any number of processes, Rendezes and threads: `TimersListSound` (`ListSound`) and
  `TimersHeadWatched` (`HeadWatched`).  `TimersIInv` adds to them `AlarmInv` (who has `alarms.lk`, and that between
  the halves of its holder's `setalarm` the timer of the alarms is not in the list) and `DueInv` (what the kproc runs).
  Without the first, `timeradd` could meet a timer that is in the list already; a `tsleep` that begins
  meets none because of `ListSound`'s own last part.  `ListStep` says what `timerdel` and `timeradd` have in common: the order
  is kept, no signal is taken back, and what is in front afterwards is due no earlier than what was, or the kproc is told;
  `TimerdelStep` and `TimeraddStep` show it of each, and `WatchKept` gets `HeadWatched` from it.  Dividing
  `setalarm` is a correction the proof led to: it had been one step.
* `SleepWakeupProofs`, of `Semaphores`, for any finite set of processes, any addresses and any largest value: `SemaphoresWakeupsSuffice`
  (`WakeupsSuffice`) and `SemaphoresCount` (each step is a step of `CountingSemaphore` or leaves its state as it is: all of
  `ImplementsSemaphore` but the liveness).  `SemIInv` adds who has the lock (`SemLockInv`) and is on the list (`SemListInv`), and that
  a walk along the list meets only those who still are on it (`SemWalkInv`).  The hard step is the end of
  `semwakeup`, which may drop calls it has not needed.  `SemSpareInv` says why it may: at each point of a walk, either the
  wakeups suffice without those of this walk, or whoever is unheard is still in front of it.  A process that goes to
  sleep behind the walk has found the semaphore at zero just before, which makes the first true.
  `SemStepKeeps` reduces an action to three facts: nobody becomes unheard, `Coming` loses no more than `value`
  (with and without the calls of a walk: `SemGain`), and nobody unheard in front of a walk gets behind it.  Only the failed last look
  makes somebody unheard, and has a lemma of its own; the other lemmas count what enters and leaves `Calls`, `Looking` and
  `Heard`.  `SemCallInv` (a call is settled when it neither looks nor waits) is what the refinement needs besides.
* `QueueLemmas`: sequences as queues (appending, taking the head, pushing, taking out of the middle and putting in, with what
  becomes of members, order and injectivity), which most of the others cite.
* `SleepWakeupProofs`, for any number of sleepers, threads and Rendezes: `SleepWakeupLinks` (`LinksAgree`),
  `SleepWakeupNoPanic` (`NoPanic`) and `SleepWakeupNoLostWakeup` (`NoLostWakeup`).  `IInv` adds where everybody may be and what he has found by then (`SleeperInv`,
  `OneSleeperEach`, `ThreadInv`), who has a spin lock there (`RLockInv`, `PLockInv`), what `r->p`, `p->r` and
  `p->state` are (`StateInv`, `LinkInv`), and that what a waker has read is still so (`WakerInv`).  Without the two about locks a
  waker could find the links half made; without `WakerInv`, one between its two locks could find its
  process gone.  `WakeupFinds` and `PostnoteFinds` are the two ways to the same place: the holder of both locks finds the
  process asleep.

  `NoLostWakeup` is not inductive even with that.  `sleep` looks at its condition, then at `notepending`, and not at the
  condition again: if that comes true between the two looks, the process goes to sleep over it.  That is
  right because it holds `r->lk` from before the first look, so the wakeup that goes with the condition is still in front of
  that lock.  `LateWakeupWaits` says so, and `WakeInv` is both.  `WakesKept` is what all steps have in common: whoever is to be
  woken after it had a waker before it or gets one by it, and the step does not lose the waker it moves.
* `KprocDevProofs`, for any number of processes, servers and threads: `KprocDevSafe` (`OneCallPerServer`, with
  `CallerWaits`) and `KprocDevInterrupts` (`NoStrayInterrupt`).  `IInv` adds that a caller has a server of its own while it is in `kcall`
  (`CallerInv`), that a request handed over or worked on is its server's and not done (`ServerInv`), and that a server made is
  on the list or has a call (`FreeInv`): a server whose request is done has no other, so that returning may put it
  on the list.  `InterruptInv` adds that a thread runs one server, and that what a caller has read of `kc->pthread` is, until
  the call is done, the thread of the server that works for it, or was; and that a caller on its way to `pthread_kill` whose call
  is done has been overtaken, so that only the two excepted ways are left for a signal that goes astray.
* `DevmntProofs`, for any number of processes and Mntrpcs, and calls interrupted any number of times: `DevmntRightReply`
  (`RightReply`), `DevmntTags` (until a hangup, what is free has no message under way, and nothing is in two calls) and
  `DevmntQueueOK` (`QueueOK`).
  The core of `IInv` is `InOrder`: of a call's messages and replies under way, a Tflush is over all the older ones, a
  reply follows the older ones' replies, and once a message is answered nothing older is under way.  So when a
  call ends with an answer to its newest message, nothing of it is under way and its tags may be used again.  After a
  hangup this fails for tags given up with an error; `Calls` then claims it only of processes past writing (`Past`), and the others
  can only fail.  Pushing a flush, sending it, its answer and the answer's arrival each have a lemma about one
  chain and the wire, without processes; the lemmas about steps apply them to every chain.

  `QueueOK` needs `GateInv` besides: who reads is `m->rip`; a process that sleeps although its reply has come is about to be
  woken by a reader that has just found it (`wake`); and a message that is about to go on the queue, or is free, has not
  been answered.  With the second, the reader may leave (`mntgate`) without a look at those whose reply it has read, and whom it
  wakes to read after it has not been answered: it is on the queue, for each sleeper has its unanswered message there.
* `UserMemoryProofs`, for any finite sets of processes, segments, pages and spaces: `UserMemoryPagesCounted` (`PagesCounted`) and
  `UserMemorySpaceKept` (`SpaceKept`), by the inductive invariant `IInv`; and, for histories in which no fork or load has raced
  `duppage` (`[]NoRace`), `UserMemoryCoherent` (`Coherent`), `UserMemoryCacheClean` (`CacheClean`) and
  `UserMemoryImplementsMemory` (it implements `Memory`).
  `IInv` is about where things are: what a process has at its place in a fault, and that the page it holds the segment for stays in
  its slot (`PlaceInv`); that the running process has a space mapped for it and nothing is mapped in a free one
  (`SpaceInv`); and that a page is at one offset, in all segments and the cache, and a page being read in nobody's (`OffsetInv`).
  Without the last, a segment could have a page twice, and a fork, which counts it once more, would be wrong.
  `PagesCounted` is counting: `SlotsPut`, `SlotsCut`, `SlotsCopy` and `OwnersPut` say what one change of a table does to the number
  of slots of every page, and each step is one or two of these.
  `MapInv` is `Coherent` of everybody who need not flush before he runs, with one thing more: a page mapped to be read only is
  mapped to the only user of its segment.  Without that, another user of the segment could copy the page on write and leave the
  reader with the old one.  `CleanInv` adds to `CacheClean` that a page being read in has what is in the file.  The two need each other: the cache
  stays clean because what may be stored to is not in it.  For the refinement each action is a step of `Memory` or leaves
  `Contents` as it is (`...Seen`, `...Unseen`).
  `NoRace` cannot be dropped from the last three: TLC finds each of them violated without it (`memory_race` keeps one
  counterexample).  The proof found a mistake in the model:
  `Waits` had let a process be preempted at `common`, with the segment locked, which no statement of `fixfault` permits.

* `VxRunProofs`, of `VxRun`, for every guest program, every limit on a fragment and every size of the buffer:
  `VxRunRegistersAtHome` (`RegistersAtHome`) and `VxRunNoDeadCode` (`NoDeadCode`), assuming that no tick is taken in a
  trampoline that is not its fragment's last; and `VxRunPreciseTrap` (`PreciseTrap`), assuming `SafeWindow`: no tick in any of the five
  windows above, and none in the middle of a call unless the program is as `CallsFirst` says.  Each of these assumptions excludes
  ticks which the handlers treat wrongly, and TLC finds `PreciseTrap` violated when any one of them is dropped.

  `IInv` has, besides types, three parts.  `CodeInv` says what the passes make of the guest's code: each fragment is a
  translation of what is at its eip, instruction after instruction (`Follows`), placed without overlap in the room it has
  (`Placed`), and the same, as far as they have got, of the passes in progress.  `HereInv` says where in it the host may be, and that a
  backpatched jump goes between fragments that exist.  `RegsInv` says, for each host instruction of each translation and each
  stretch of the runtime, which of the guest's registers are in the host's, which in `emu->cpu`, and whether they are the guest's
  before or after its instruction.  `RegistersAtHome` alone is not inductive: it looks only at the beginnings, and says nothing
  of what a translation has done halfway.  One lemma for each action shows that it keeps `IInv` (`PrologKeeps`, `CopiedKeeps`,
  ..., `StutterKeeps`).

  `PreciseTrap` needs of the handlers that they find the right instruction from the host's eip (`BlamedInside`, and
  `BlamedBeyond` for trampolines), how far its translation has got (`HostInside`), and the target of a call (`WordIsTarget`); and that
  single-stepping ends in a prolog (`StepInv`).  Translations follow each other at increasing offsets, so that the last one that starts at or
  before an offset is the one the offset is in; where an induction over a fragment would be needed, the least
  instruction that is an exception is considered instead (`LeastNat`).

Each inductive invariant has been checked by TLC before it was proved; the runs do not repeat it.  Every invariant that
a passing run checks has a theorem.  Only model-checked are

* all liveness properties, which are out of the prover's reach;
* that some process gets a semaphore that is positive, the liveness part of `ImplementsSemaphore`.

## 4. Findings

The run `memory_race` keeps a counterexample of:

* `duppage` (`a/page.c:291-303`) lets go of the page's lock and of the processor when `palloc.lk` is busy, and then goes on
  without counting the page's users again.  A process of another segment may meanwhile have found the page in the image
  cache; it is then mapped for writing all the same, and a store of one process is seen by the other.
  `palloc.lk` must be held by a kproc that exits on another thread at that moment.  `Coherent` and, later, `CacheClean` fail after it too:
  the page may be freed while it is mapped, and is written to by the one and put in the cache by another.

Five more were found by runs that are not kept; each is a change of one of the kept ones:

* `KprocSched.cfg` with `PromptReuse = TRUE` and four processors violates `MachZeroOnlyWhenSaved`: `schedinit` puts a dead
  process on the free list and unlocks it before it clears `up->mach` (`a/proc.c:96`).  If the slot is reused and run in
  between, its `mach` is set to 0 while it runs, against the comment at `a/proc.c:392`.
* `VxRun.cfg` with `Window <- MCTramp` violates `PreciseTrap`: a tick in a trampoline is blamed on the last instruction of
  the fragment, whichever branch the trampoline belongs to (`libvx32/sig.c:132`).
* `VxRun.cfg` with `Window <- MCMiss` violates `PreciseTrap`: single-stepping out of the runtime ends in `vxrun_return` when
  the target is not translated, and `vxproc_run` returns `VXTRAP_SINGLESTEP` (`libvx32/sig.c:47`), which no caller knows.
* `VxRun.cfg` with a program that has a `jcc` before a `call` violates `PreciseTrap`: for a tick after the call's push the
  handler reads the target from "the word at byte 26 in the translation" (`libvx32/sig.c:179`), which is in the first
  trampoline of the fragment, the call's own only when no jump of the fragment comes before it.  The guest goes on where the jump leads, with the
  return address pushed.  With `call` taken out of `Window` the same program passes.
* `VxRun.cfg` with `int3` in `Window` violates `PreciseTrap`: `libvx32/linux.c:302` puts the eip back for a system call or
  `INT n` whose trap is superseded by a tick, not for `INT3`, and the breakpoint is lost.

`KprocDev` shows two more, as the two exceptions of `NoStrayInterrupt`, each of which TLC reaches when it is taken out of the
formula: the signal for one process's call interrupts another's when the server has moved to another thread in its driver
(`kprocdev.c:154`), or when it has done the call after `kcall`'s test of `kc->done` and before `pthread_kill`
(`kprocdev.c:211-212`), its thread by then being another server's.

`Timers` shows two more, as the two exceptions of `TsleepReturns`: SIGURG goes to the thread the timer kproc began on
after the kproc has moved (`time.c:160`, against "the timer is guaranteed to get the signal", `time.c:144`), and a late `twakeup` takes a
newer `tsleep`'s time limit away (`a/proc.c:858`).

Met while reading, in what is modelled only in part or not at all: `xscan` produces `VXI_RETURN_IMM` (`emu.c:427`), for which `xemit` has no case; the room it
leaves for translations (`emu.c:206`) is less than the longest; `setalarm` computes
`(p->alarm-now)` from unsigned numbers, so that an alarm that is past, and that `soundalarms` left because
`canqlock` failed, sounds 49 days later; `pexit` clears `alarm` without `alarms.lk`; `pexit` of a process
without a parent compares `parentpid` 0 with the pid of a slot that is free (`a/proc.c:1147`); and `addbroken`
sets the state of the process after it has let go of `broken.lk` (`a/proc.c:1026`).

## 5. What is not modelled

The components with status `not_modelled` in `PROJECT.json` say why: those of the plan are to
follow; devices, network, graphics, cryptography and codecs are data processing and input/output;
other hosts than 32-bit Linux differ in signal frames and entry code.
