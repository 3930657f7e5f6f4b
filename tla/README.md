# Verification of TME, the machine emulator

TME (`src/contrib/tme-0.8`) emulates whole workstations: a machine is a graph
of *elements* (CPU, bus, memory, serial chip, host serial line, disk, ...) that
`tmesh` builds and connects.  Elements call each other through function
pointers of their *connections*, keep their own state behind a mutex of their
own, and many of them have threads.  The threads are either real ones
(`TME_THREADS_POSIX`) or the cooperative ones of `libtme/threads-sjlj.c`.

This directory has TLA+ models of the parts of TME whose correctness depends on
the order of things, TLC runs that check them, and TLAPS proofs about them.
Line numbers below are those of the files under `src/contrib/tme-0.8`.

## 1. Inventory

### Components, their state and operations

| Component | State | Operations | Hard behaviour | Here |
|---|---|---|---|---|
| Cooperative threads, `libtme/threads-sjlj.c` | five linked lists, per thread state, condition, event set, sleep and due time, dispatch number; minimum timeout | create, exit, yield, wait, sleep, notify, wait for events, main loop | lists shared by every operation, wrap around of dispatch numbers, stale timeout, starvation | modelled, proved |
| Event sets of the threads, same file 590-817 | per set: events, `max_event`; the main set shared by all threads | init, reset, del, ctl, merge on yield | two threads on one descriptor, indices kept across deletions | modelled |
| Serial buffers, `generic/serial.c` | head, tail, data, flags | init, copyin, copyout, peek, space | wrap around, full or empty, flags that change in mid run | modelled, proved |
| Host serial device, `host/posix/posix-serial.c` | two buffers, control bits in and out and last called out, break counter, `callouts_running` | reader, writer and control threads; control, read and config call-ins; connection | callouts with the mutex unlocked, "somebody else is running it", lost wakeups | modelled, proved |
| Z8530 serial chip, `ic/z8530.c` | registers, transmit and receive buffers, FIFO, pending callouts of two channels, interrupt | bus cycles, interrupt acknowledge, serial call-ins, callout loop | the same, nested in one another, and the interrupt line | modelled, proved |
| Thread entry, event yield, `libtme/threads.c` | start lock | init, run, enter, event yield | threads started before the machine is complete | as used by the scheduler |
| Stopping the world, `tme/threads-posix.h`; tokens, `libtme/token.c` | one global rwlock; busy and invalid flags | suspend and resume others, busy, unbusy, invalidate, clear | spinning for a token while holding or giving up the lock | modelled, proved |
| Keyboards and mice on serial lines, `serial/*.c` | buffers, callout flags | the callout convention again | as for the host serial device | later |
| Generic keyboard and mouse, `generic/keyboard.c`, `mouse.c` | key states, modes, event queue | key events, modes, repeat | long sequences of events | later |
| Generic bus, `generic/bus.c`, `bus-el.c`, `bus-device.c` | slots, interrupt levels, address map | routing, interrupts, tlb fill | arbitration and call back into the caller | later |
| SCSI, `scsi/*.c`, `generic/scsi.c` | bus signals, phase, messages | bus cycles, events, actions | phase machine over two elements | later |
| Controllers `ic/ncr*.c`, `nec765.c`, `acb4000.c`, `emulexmt02.c` | registers | bus cycles | register details | no |
| Ethernet `ic/am7990.c`, `i825x6.c`, `generic/ethernet.c`, `host/tun` ... | descriptor rings | transmit, receive | ownership bits shared with the CPU | am7990 perhaps |
| Timers `ic/am9513.c`, `mk48txx.c`, ... | registers, host time | bus cycles, callouts | timer against register write | no |
| CPUs and recode, `ic/m68k`, `ic/sparc`, `libtme/recode-*.c` | registers, TLBs, translated code | instructions | two entries pinned over fills, faults and slow cycles | read-modify-write cycles of the m68k |
| MMUs and machines, `machine/*` | page maps, rings of TLB tokens, control registers | map and register writes, tlb fill | which entries a change must invalidate, rings that forget | Sun-3 modelled, proved |
| Host disks and tapes | file, cache of mapped windows | open a region, close it | reuse of a window in use | perhaps |
| Displays, frame buffers | pixels | translate | none | no |
| Elements, modules, hash, log, `tmesh` | the graph | parse, connect | sequential | no |
| `libopenvpn`, `edist/softfloat`, `lib`, `src/src` | | | third party, prototype | no |

### How they interact

* **Calls across a connection.**  An element calls `ctrl`, `read`, `config`,
  `signal` ... of the element at the other end.  The rule is that it unlocks
  its own mutex first, so the world can change during the call, and the other
  end may call back.
* **The callout convention.**  An element that finds it has something to call
  out runs a *callout loop*, at most one at a time.  Whoever finds the loop
  running leaves the work to it: "the other thread will do our work"
  (`posix-serial.c` 131, `z8530.c` 656).
* **The readability convention.**  `OK_READ` in a control call says that there
  is something to read.  A read that gives less than was asked for makes *both*
  ends forget it, without a call.
* **Conditions and descriptors.**  Threads of an element wait for one another
  with conditions, and for the host with descriptors.

### What makes each component correct

* Scheduler: a thread is on the list its state says; whoever waits can be
  woken and is; whoever can run does; one turn per pass.
* Serial buffers: a bounded queue of characters and their flags.
* Serial line (device and chip): when everything is at rest nothing is left to
  do: every control change called out, no input unannounced, no output
  unfetched; a writer that was notified has data, and what it looked at stays.
* Z8530: at rest the interrupt line agrees with the registers, a break comes
  to be shown although it has gone, and what waits on either side is known of
  on the other.
* Tokens: after an invalidation nobody uses the old state, and an invalidation
  returns; who stops the world is alone.
* MMU: what a TLB entry says is what the maps say, or its token is invalid;
  every use of a page is recorded in it; a fill gives what was asked for.
* Read-modify-write cycles: both entries are there when memory is changed, and
  none is left pinned.

The hazards, each at its line, are in `PROJECT.json`; those that no property
covers yet say so, and the plan below follows them.

## 2. Plan

Done, in this order:

1. `CoopScheduler`, `SjljThreads`, `SjljThreadsProofs`: everything else runs on
   the scheduler.
   `SjljEvents`, `SjljEventsProofs`: what it assumes of descriptors.
2. `ByteQueue`, `SerialRing`, `SerialBuffer`, `SerialLoops`, `SerialSizes`,
   `SerialBufferProofs`.
3. `PosixSerial`, `PosixSerialProofs`: the device, its threads and the transmit side of a chip.
4. `Tokens`, `TokensProofs`: the tokens and the lock that stops the world, with
   CPUs and other threads that use them.
5. `Z8530`, `Z8530Proofs`: both channels, interrupts, the receive FIFO with a
   bounded buffer, the callouts put off for later.
6. `SunMmu`, `Sun3Mmu`, `Sun3MmuProofs`: who keeps what in TLB entries, and
   what must go when.
7. `M68kRmw`, `M68kRmwProofs`: a CPU that pins two entries.

Left, in this order: `SerialLine`, which composes `Z8530` with the device of
`PosixSerial` in place of the small chip that is in there now; `SerialKb`, the
keyboard side of the same convention; `ScsiBus` and the targets; the windows
of `posix-disk`; `keyboard`; the other Sun machines on top of `SunMmu`.

Every property that a passing run checks is stated by a theorem, but for the
five liveness properties.  Theorems left: what the new modules bring.

## 3. The modules

### The cooperative scheduler

`SjljThreads` is `libtme/threads-sjlj.c` without the bodies of the threads.  A
pass of `tme_sjlj_threads_main_iter` is the sequence of phases

    iter -MainIter-> select -SelectReturn-> timeouts -(DispatchingTimeout)*,
    TimeoutsDone-> events -(DispatchingEvent)*, EventsDone-> dispatch
    -(Dispatch-> run -calls, then a yield-> dispatch)*, DispatchEnd-> iter

* Lists are sequences.  The dispatching list is split at the active thread:
  `dispatched` is the part before it (the threads that have yielded without
  blocking), `dispatching` the part from it on.  The pointers `state_prev`
  and `timeout_prev` are not there; what they are for is that a thread can be
  unlinked from whatever list it is on (`Unlink` in `Lists`).
* `thread[t]` has the fields of the structure: state, condition, descriptor,
  whether it sleeps, due time, dispatch number.  NEW and EXITED stand for
  structures that are not allocated; each structure is used for one thread.
* Calls of a running thread: `ThreadCreate`, `CondNotify` with
  `BroadcastNext`/`BroadcastEnd` for a broadcast (one step per thread woken),
  and the ways to leave the processor, all of which go through `Yield`
  (`tme_sjlj_yield`): `PlainYield`, `CondWaitYield`, `CondSleepYield`,
  `SleepYield`, `EventWait`, and `Exit`.
* Time is relative to now and moves by `Tick`; it stands still in the two
  loops that read the clock once.  `FdReady` and `FdDrain` are the host.
* `SelectTimeout` is nondeterministic where the code leaves the variable
  unassigned.
* Descriptors are (descriptor, direction) pairs and belong to one waiting
  thread; the bookkeeping of event sets is left to `SjljEvents`.

`SjljEvents` is that bookkeeping, `tme_sjlj_event_set_init`, `_del`, `_ctl`
and the middle of `tme_sjlj_yield`: `main` is the main set with its entries,
`max_event` and what the host's own set (`epoll`) is asked for; `args` are the
arguments on the heap, which say whom to wake; `set` is what each thread waits
for.  `WaitAgain`, `WaitNew` and `WaitListed` are the ways through the merging,
`Leave` a yield without descriptors.  Every caller hands over one descriptor
and one direction, and no two threads wait for the same direction (`MayWait`).
`LastShared` says whether two threads may share the last entry of the set:
where they do not, `EventsServed` justifies what `SjljThreads` takes for
granted, where they do it fails (finding 6).

`CoopScheduler` is what the scheduler is for, in 60 lines: threads are admitted,
run one at a time, at most once per pass, and a pass ends when every turn has
been taken.  `SjljThreads!Cooperates` is the refinement, with `status`
computed from the lists.

### Serial buffers

`SerialRing` has the operations as functions of a ring, in closed form: how
many characters are taken (`Taken`) and given (`Given`), and the ring
afterwards.  `SerialBuffer` is one ring with its users, who ask for the free
space first (`Checked`; the callout loops and the transmitter) or do not (the
reader thread, the keyboards).  `ByteQueue` is the abstract bounded queue.

`SerialLoops` has `copyin` and `copyout` as they are written, a step for each
turn of their loops: `call` holds the arguments and the locals (`buffer_head`
or `buffer_tail`, `resid`), `StartIn` and `StartOut` are the lines before a
loop, `InPiece` and `OutPiece` a turn that copies, `EndIn` and `EndOut` the
turn that breaks or the end of the loop, with the lines after it.  `SpaceAhead`,
`CharsAhead` and `Alike` are the lengths of a piece.  `call.before`, the buffer
as the call met it, is the one component that the code does not have: the users
hold their lock, so that until the call ends the buffer they know is that one
(`Seen`).  With it, `SerialLoops` implements `SerialBuffer` (`Atomic`), which
implements `ByteQueue`.

`SerialSizes` has the rounding of the size in `init`.  Its one assumption, which
TLC evaluates for sizes up to 40, says that the result is the least power of two
that is not below the size, and that masking a pointer with it less one is what
`Wrap` does; `SizeAssumption` and `Wrap` rest on that.

### The serial line

`PosixSerial` is `host/posix/posix-serial.c` with a chip at the other end.
What one thread does between unlocking the mutex and locking it again is one
step: `callout.at` says where `_tme_posix_serial_callout` is (out in a
control call, back from it, out in a read, back from it), and for whom it runs.

* Device: `Check` is a turn of the control thread, `WriterLoop`,
  `WriterWakes`, `WriterWakesAlone`, `Write` the writer,
  `ReaderGets` ... `ScanEnd` the reader
  (what it scans is a sequence of runs of good characters, bad characters and
  breaks), `CtrlArrives` and `ReadArrives` the call-ins, `Connect` the
  connection.  `CtrlReturn` and `ReadReturn` are the two halves of the loop.
  `lock` is held where a thread goes on after a callout without waiting.
* Chip (`z8530.c`): `CtrlCall` and `ReadCall` are its call-ins with their
  effect on the pending callouts, `Transmit` the CPU writing register 8,
  `ChipTurn`, `ChipCtrl` and the call-ins of the device the callout loop.
  That loop is run by the CPU's thread or nested in the call of the device.
* `Preemptive` chooses the build.  With preemptive threads every step between
  two mutex operations interleaves.  With cooperative ones nobody starts
  anything while a loop runs, since calls between elements do not yield; and
  a thread that waited starts its function again, so that the writer looks
  at its data anew (`Offered`).
* `WriterWakes` is the end of the writer's wait after a notification,
  `WriterWakesAlone` one without, which pthreads allow.  The wait is not in a
  loop: if there is no data then the assertion that follows fails, the writer
  is "aborted", and nothing moves any more (`Alive`).

### The Z8530

`Z8530` is all of `ic/z8530.c`: `chan[c]` are the registers and buffers of a
channel, `callouts[c]` its pending callouts, `ip`, `ius` and `mie` the shared
registers, `asserted` the interrupt signal as last called out.  `loop` is where
`_tme_z8530_callout` is, with its locals.

* CPU: one action per command or register (`WriteWr1`, `WriteWr8`, `ReadData`,
  `ResetStatus`, ...) and `IntAck`; each ends in the callouts it asks for
  (`CallOut`).
* Lines: `LineChanges` and `LineReceives` are their control calls, `ReadIn`
  their read.
* Loop: `CallCtrl`, `CallConfig`, `CallRead`, `CallSignal` unlock the mutex,
  `CtrlTaken` and `ReadAnswer` are what happens at the other end, and
  `CallReturn`, `ReadTaken`, `SignalReturn` go on.  `ReadLater` puts a read
  off while the buffer is full, `CheckInt` works out the interrupt,
  `CalloutEnd` stores what was put off.
* `Refill` and `Updated` are the receive FIFO and the status latch, with
  `unseen` remembering breaks that are due to be shown to the CPU
  (`StillUnseen`): those that came while RR0 showed none, and those that came
  while it still showed the last one, unless they end before the CPU has
  acknowledged that one.
* `PosixThreads` chooses the build, as `Preemptive` does for the device: with
  cooperative threads only the line that the loop is calling can call back.

### Tokens and the world

`Tokens` is `libtme/token.c` with the lock of `tme/threads-posix.h`, seen by
CPUs that use an entry of their own and threads that invalidate it.  `pc[t]`
says what a thread does.  `Busy`, `Check`, `UseEnd`, `Unbusy`, `Clear`, `Fill`,
`Rebusy` are a use as the CPUs make it (a valid entry may be for another
address; filling is done with the token not busy), `Invalidate` ...
`InvalidateEnd` an invalidation, with the spin on a busy token that lets go of
the world at every turn, `StopOthers` ... `ResumeEnd` a cas2 that stops the
world.  Every place where a thread may block gives up
`tme_rwlock_suspere` and takes it again.  `writersFirst` is the policy of the C
library's rwlock, which nothing in the code fixes.

### The MMU of the Sun-3

`SunMmu` is `machine/sun/sun-mmu.c`: segment maps, PMEGs, and the rings of TLB
tokens, one for each PMEG and one for the entries that depend on the context.
`Sun3Mmu` is the machine around it: `WritePte`, `WriteSegmap`, the context and
enable registers, the fills for the CPU's entries (tagged with a context) and
for those of bus masters (not tagged).  `PromFill` is the fill for the
supervisor's program in the boot state, for any access, of which the MMU does
not know, and `AppliesTo` the condition of the CPU's loop.  `tlb[e]` is what an
entry holds, or
`NoFilling` once its token is invalid; that an invalidation takes effect at
once is what `Tokens` shows.  Everything here is sequential; the difficulty is
which entries a change has to reach.

### Read-modify-write cycles

`M68kRmw` is `tme_m68k_rmw_start` and `tme_m68k_rmw_finish` for one or two
operands.  `at` says where the CPU is in the loop, `rmw` has the locals
(entries held, how the fills went, what was read slowly), `entry`, `inval` and
`busy` are its two TLB entries, which others invalidate at any step.  `Kinds`
are the kinds of memory that the loop treats differently.

### Modules with several parts

The number of runs is kept small by MC modules that hold two unrelated small
instances: their variable `part` says which one a behaviour is of, and nothing
of the other moves.  `MCSjljSets` has the scheduler and the sets of events,
`MCSjljLive` two instances of the scheduler, `MCSerialHost` the serial buffer
and the device with cooperative threads, `MCSerialChip` the chip with
cooperative and the device with preemptive threads (`MCZ8530` says what the
channels are set up for), `MCSun3` the MMU and the read-modify-write cycles.

## 4. The runs

| Run | Shows | Instance |
|---|---|---|
| `SjljThreads` | types, lists, timeouts, reachability, one turn per pass, the invariant of the proofs; implements `CoopScheduler`; sets of events say what threads wait for | 3 threads (symmetric), 1 condition, 1 descriptor, sleeps of 1 and 2 ticks, numbers modulo 2; 3 threads, 2 descriptors, 2 directions |
| `SjljThreads_live` | every ready thread gets its turn; a ready descriptor wakes its thread without the clock; every sleeper runs again | 3 threads that do not sleep; 2 threads, sleeps of 1 and 2 ticks |
| `SjljThreads_unset` | finding 1 | 2 threads, longest sleep 3 |
| `SjljEvents_shared` | finding 6 | 2 threads, 2 descriptors, the last one shared |
| `PosixSerial` | a ring used with care is a bounded queue; the loops do in their turns what the closed forms do in one step; with cooperative threads, at rest nothing is left to do, output is fetched | ring of 4 slots, 2 characters, 2 kinds of flags, copies in of 1 to 3, out of up to 3; 4 calls of the loops, in of up to 5 characters, out of up to 5; input ring of 4, output room 3, transmit room 2, runs of characters, bad ones, breaks |
| `PosixSerial_unannounced` | finding 2 | preemptive, input ring of 4 |
| `Z8530` | the interrupt signal is what the registers say, lines and chip know of each other's data, a break stays pending until it is shown; with preemptive threads the device's reads fit, a notified writer has data and keeps what it looked at | cooperative, transmit room 1, receive buffer 2, 1 character in a line; device with an input ring of 2, rooms of 2 |
| `Z8530_lost` | finding 5 | preemptive, receive buffer 1 |
| `Sun3` | entries agree with the maps, are remembered, record use, suffice for all but a write to the PROM in the boot state; no entry is left pinned, both are there for a cas2, no torn access | 2 contexts, 2 PMEGs, 1 page, 1 CPU entry, 2 DVMA entries, rings of 1; cas2 with 3 fills for each address |
| `Sun3Mmu_proterr` | finding 3 | the same MMU |
| `M68kRmw_leak` | finding 4 | the same CPU |
| `Tokens` | no use after invalidation, who stops the world is alone, invalidations return | 2 CPUs, 1 other thread, either policy of the lock |

`TypeOK` and its like are one property for each run.

**Why the bounds are enough.**  The scheduler's decisions compare a thread
with at most the active one and one neighbour on a list, so three threads have
all the shapes: the one that runs, the one that is moved, and one before or
behind it.  Dispatch numbers modulo 2 are the worst case, they come round
every second pass.  Two sleep lengths (the second is the longest, of an event
wait) give equal, earlier and later times.  In `MCSjljLive` the threads are
created in order, which loses nothing since they are alike; three threads do
not sleep there, for two of them can do all that a sleeper can meet.  Two
descriptors and three threads make entries at the end and below it, shared and
not.  (Three descriptors and four threads were run once, with the same result.)

Four slots let pieces of every kind wrap, and a call longer than the ring is
among those of the loops.  `Texts` and `Inputs` are what is copied in: neighbours
differ, and so do the characters that would share a slot, so that an order or a
place that is wrong is seen.  Four calls (`MaxCalls`) bring head and tail to
any slots and then copy in and out once more; without the bound there are a
million states and the result is the same.  In the serial line, rings of two slots hold one
character, so full and empty are always one step away; the runs with four slots
have room for runs of characters that are read in two pieces.  `MaxRead` is
below the device's capacity so that a read can leave something behind.  The
preemptive device in `Z8530` gets breaks only from its host: good characters
make `PosixSerial_unannounced` fail and have no part in what is checked there.

In the chip the two channels have roles (`MCRoles`): one receives while the
other sends, or one sends while its line changes; a channel has nothing to do
with itself but through the flags and the interrupt, which two roles share.
A receive buffer of two holds the error of the last character back behind
the first.

Rings of one token forget at every second fill, which is when forgetting can
go wrong.  One page in two contexts and two PMEGs has all that `SegmapSet` and
the context ring distinguish: the same PMEG in both, or not.  Three fills
instead of twenty (`MaxFills`) let a cas2 fill either entry again after the
other, and run out.  Two CPUs and a third thread have two that stop each other
while one is invalidated.

**Deadlock** is checked everywhere except for the scheduler: a machine whose
threads have all exited stops, and `main_iter` asserts that there is
somebody to wait for (line 434).

**Fairness.**  The scheduler: weak fairness of the main loop (nothing blocks
it but `select`), of a broadcast (a loop), and of the running thread leaving
the processor (that is what cooperation means; a thread that never yields
stops everything).  For sleepers also strong fairness of the clock, strong
because the model stops the clock in two loops; the threads that do not sleep
do without it.  The serial line: weak fairness of the callout loops and
the scan, which are loops that run on a processor, and strong fairness of the
writer, which competes for the mutex and the processor; the scheduler's
`EveryTurnComes` is what justifies it.  Nothing is asked of the host, the CPU or
the control thread, and no wait has to end without a notification.  `Tokens`:
weak fairness of every thread's steps, since
threads are scheduled by the host; strong fairness of taking a mutex, the lock
or a token that comes free again and again, which a thread library gives; and
of ending a burst of instructions, which every CPU does.  `InvalidationReturns`
is claimed only where the lock puts waiting writers first: where it does not, other
CPUs may keep it from one that wants to stop the world with a busy token.

## 5. Findings

Each has a run with the counterexample, and `PROJECT.json` has the quotes.

1. `main_iter` gives `select` a timeout that nothing has set, when threads
   sleep and the recorded minimum has passed (`threads-sjlj.c` 439).  Sleepers
   are late then, not lost, since `select` is given some finite time:
   `SleeperWakes` holds.
2. A read by the other end during the control call is undone by the stale
   value that is stored afterwards, and later input is not announced
   (`posix-serial.c` 164), with preemptive threads.
3. The entry that says "protection error" after a user access to a page of the
   system says it to the system too (`sun-mmu.c` 415).
4. A cas2 with a slow access leaves the token of its other entry busy: the
   index is of the entry that is used (`m68k-misc.c` 1938).
5. The chip's callout loop overwrites callouts that are added while it
   calls out the interrupt, and nobody takes them up (`z8530.c` 932), with
   preemptive threads.
6. A thread that waits for the last descriptor of the main set, which another
   waits for already, makes the set look empty: `main_iter` does not select,
   and wakes neither of them before their time (`threads-sjlj.c` 751).  A
   reader and a writer of one serial device do that.

Other places that a reader of the models will notice, which have no run of
their own:

* Scheduler.  The recorded minimum is taken before the pass in which threads
  go to sleep, so that `select` can wait past the first of them
  (`threads-sjlj.c` 311).  `epoll` reports an error or a hangup as readable
  (`libopenvpn/event.c` 557) to one who only writes, and there is no reader to
  wake.
* Buffers.  `copyin` fills the ring to the brim when the tail is at slot 0 and
  its caller did not check the space, and the ring is empty then (`serial.c`
  110); it marks an overrun on the unused slot, whose flags the next copy sets
  again (98).
* Device.  With preemptive threads `NothingLeft` and `OutputFetched` fail like
  `InputAnnounced` does, because of what happens during the last, unsuccessful
  read of a callout loop (`posix-serial.c` 208-209): put them in
  `PosixSerial_unannounced.cfg` to see it.  The writer waits with an `if`
  (322), "after which there must be data to write", and `tme_cond_wait_yield`
  is a plain `pthread_cond_wait` (`threads-posix.h` 184), which may return
  without a notification: the assertion at 334 fails then.  The model has it
  (`WriterWakesAlone`); an invariant that the writer is never "aborted" fails.
  `WriterHasData` says that this is the only way to get there.
* Chip.  The latch makes up for two changes of a break, not for three: if RR0
  shows a break and the next one starts and ends before the CPU has
  acknowledged that, the chip shows the end of the first one only
  (`z8530.c` 406-438), though "break transitions are not aggregated so they are
  not missed" (1420) and it is to "interrupt for multiple transitions" (414).
  Likewise, breaks that come and go while RR0 is latched without one are shown
  as one.  `BreaksShown` is about all the others.  Whether an interrupt is wanted never goes back to no within one run
  of the loop (`z8530.c` 886); a special receive condition is looked for
  before the character is available (318-347); a reset of one channel clears
  the pending bits of both (190) and leaves the buffers (`ReceivingOwed`
  excepts them); a read of an empty transmit buffer asks for an interrupt
  every time (1504).
* Sun-3.  In the boot state a fill for the supervisor's program gives an entry
  that can be read only, also when it was asked to write (`sun3-mmu.c` 291,
  which `tme_bus_tlb_map` makes the entry's cycles).  A `moves` that writes with
  function code 6 then fills for ever, as the entry never applies
  (`m68k-insns-auto.m4` 1628): `FillSuffices` says that this is the one access
  whose fill does not suffice.  A context register that is written keeps all
  its bits (`sun3-control.c` 163), of which the MMU has fewer; the model has
  legal contexts only.
* CPU.  The access of a read-modify-write cycle asserts that it need not fill
  its entry (`m68k-insns-auto.m4` 1637).  An invalidation marks the entry before
  it waits for the busy token, so that it can come between the look of
  `rmw_start` at the entry and the access, and the assertion fails; `M68kRmw`
  has this as the place "aborted".  An operand that ends at the last address of
  its entry is refused (`m68k-misc.c` 1701).  A cas2 that faults or goes slow gives up the stopped
  world and then goes on as if it had it.

With cooperative threads the runs `PosixSerial` and `Z8530` show that both
ends of a serial line serve each other completely, and the theorems of
`Z8530Proofs` and `PosixSerialProofs` that they do so for any sizes and setups.

## 6. The proofs

| Module | Theorem | Property |
|---|---|---|
| `SjljThreadsProofs` | `Invariance` | `IInv`, the inductive invariant |
| | `TypeCorrect` | `TypeOK` |
| | `ListsAgree` | `OnOneList` |
| | `TimeoutsAgree` | `TimeoutListed` |
| | `TimeoutsOrdered` | `TimeoutsSorted` |
| | `Reachability` | `NobodyStranded` |
| | `OneTurnPerPass` | `DispatchOnce` |
| | `SchedulerRefines` | `Cooperates` |
| `TokensProofs` | `TokensInvariance` | its `IInv` |
| | `TokensTypeCorrect` | `TypeOK` |
| | `NoUseAfterInvalidation` | `UsesLive` |
| | `StopperAlone` | `Alone` |
| `Sun3MmuProofs` | `Sun3Invariance` | its `IInv` |
| | `Sun3TypeCorrect` | `TypeOK` |
| | `EntriesRemembered` | `Remembered` |
| | `CpuEntriesAgree`, `DvmaEntriesAgree` | `CpuAgrees`, `DvmaAgrees` |
| | `UseIsRecorded` | `ChangesRecorded` |
| | `FillsSuffice` | `FillSuffices` |
| `SjljEventsProofs` | `EventsInvariance` | its `EventsIInv` |
| | `WaitersServed` | `EventsServed` |
| `SerialBufferProofs` | `BufferTypeCorrect` | `BufferTypeOK` |
| | `QueueKept` | `KeepsQueue` |
| | `LoopInvariant` | `LoopInv` |
| | `LoopsImplement` | `LoopsAtomic` |
| | `LoopsRefine` | `Atomic!BufferSpec` |
| | `LoopsAdvance` | `SpaceFound`, `CharsFound` |
| | `LoopsEnd` | turns leave less to copy (`TurnShortens`) |
| | `LoopsKeepQueue` | `LoopQueue!Spec` |
| `PosixSerialProofs` | `OutputInvariance` | its `IInv` |
| | `ReadsFit` | `ReadFits` |
| | `WriterServed` | `WriterHasData` |
| | `DeviceTypeCorrect` | `TypeOK` |
| | `DeviceInvariance` | its `Cooperative` |
| | `ChangesCalledOut` | `NothingLeft` |
| | `InputComes` | `InputAnnounced` |
| | `OutputComes` | `OutputFetched` |
| `M68kRmwProofs` | `RmwInvariance` | its `RmwIInv` |
| | `RmwTypeCorrect` | `RmwTypeOK` |
| | `TokensLetGo` | `NothingLeftBusy` |
| | `StartPrepares` | `Prepared` |
| | `WritesFollowReads` | `NotTorn` |
| `Z8530Proofs` | `ChipInvariance` | its `ChipIInv` |
| | `ChipTypeCorrect` | `ChipTypeOK` |
| | `BreaksComeThrough` | `BreaksShown` |
| | `CooperativeInvariance` | its `Cooperative` |
| | `SignalTellsTruth` | `SignalAgrees` |
| | `CharactersOffered` | `SendingOffered` |
| | `CharactersRead` | `ReceivingOwed` |

Each is for every value of the constants that the named assumptions of its
module allow.  `SjljThreads`: the longest sleep is a positive number, sleeps
are between 1 and it, dispatch numbers are taken modulo something above 1, and
the null values are none of the real ones.  The sets of events
(`SetsAssumption`): the main set has some number of entries, and the null value
is no descriptor, argument or thread, and not what an argument says;
`WaitersServed` adds `~LastShared`, and is false without (finding 6).
`Tokens` (`TokensAssumption`): CPUs and other threads are different, and none
is `Nobody`.  The MMU
(`MmuAssumption`, `Sun3Assumption`): rings have at least one place, the last
PMEG is one of them, there are two contexts with the context register's reset
value among them, and the entries are those of the CPU and those of bus
masters.  The serial buffer (`SizeAssumption`): it has at least two slots;
`QueueKept` is for `Checked` users, and is false for others, since a copy beyond
the space can fill the ring to the brim; what is copied in at once
(`TextsAssumption`, `InputsAssumption`) are any sequences of characters but the
empty one, which no caller copies in.  The theorems about the loops are for any
users, but for `LoopsKeepQueue`, which says `AsksFirst`.  The device
(`SizeAssumption`, `RoomAssumption`, `InputAssumption`):
its input ring has at least two slots, there is room for a character in its
output buffer and in the chip, what comes from the host are runs of characters
and breaks in any order, with bad characters if there is a flag for them, and
the threads are of one kind or the other.  The last four theorems about it add
`~Preemptive`, and need it: `InputAnnounced` is finding 2, and the other two
properties fail likewise.  The read-modify-write
cycles (`RmwAssumption`): the operand has at least one byte, any number of
fills is allowed, and the null value is no entry.  The chip
(`ChipAssumption`): there is room for a character in each buffer, what is
written to WR1 and WR15 are values of these registers, and the threads are of
one kind or the other; the characters that wait, their errors and the roles of
the channels are arbitrary.  The last four theorems about the chip add
`~PosixThreads`, and need it: with preemptive threads `SendingOffered` is
finding 5.

**The scheduler.**  None of the properties is inductive.  `OnOneList` alone
says nothing of *where* a thread is taken from, so `PassShape` adds which lists
are empty in which phase: a thread moved to the dispatching list by a timeout is
on that list or on none because the runnable list has just been emptied.
`TimeoutListed` needs that a thread that is not created or has exited does not
sleep (`AllListed`), and `NobodyStranded` that a blocked thread waits for
something (`BlockedWaits`) and is on the list of all threads.  `DispatchOnce`
needs `Turns`: in a pass, a thread that has had its turn has the number of the
pass, so that a notification sends it to the runnable list; and a thread in the
rest of the dispatching list has not had one.  This is where wrap around could
hurt, and does not: an old number that has come round again only makes a thread
wait for the next pass.  `IInv` is the conjunction; the run `SjljThreads`
checks it, and `NextIInv` has one lemma per action.  `TimeoutsSorted` is proved
from `IInv` by a second induction: only `Yield` inserts, at a place that
`TimeoutPlace` describes, `Dispatch` removes one thread, and `Tick` lowers all
due times monotonically.

The lemmas on lists come first: what pushing, appending, joining, inserting and
unlinking do to `NoRepeats` and `ToSet`.

**The refinement.**  `SchedulerRefines` maps the lists to a status of each
thread: on the rest of the dispatching list it has a turn, elsewhere on a run
list it has one later.  Every action of `SjljThreads` is then an `Admit`, `Run`,
`Leave` or `NextPass` of `CoopScheduler` or changes nothing there.  The
delicate step is a thread that is woken: by its number it joins the pass or
the next one, and `Turns` says that one which joins has had no turn in it.

**The sets of events.**  `EventsServed` compares the host with the threads, and
nothing keeps that but the entries between them.  `EventsIInv` says what they
are: they end at `max_event` and are of different descriptors (`Placed`), each
has an argument of its own (`Backed`), together they ask for what is demanded
and the arguments say by whom (`Served`), and the host is asked for the same
(`AsksBut`).  It is a predicate of a main set, a heap and a set of demands, since
`Merge` makes the new demand while the old one is still there: `SoundBut` is the
state in between, in which one entry is being changed.  `MoreFlags` and
`FewerFlags` change what an entry asks for, `Settles` tells the host, `Drops`
erases the entry, `Adds` finds a free one (`FreeIs`, from a least number), and
each action is two or three of these.  That the host is asked for a direction
by one thread only is `MayWait`; that deleting a listed descriptor and putting
it back changes nothing needs that it is not the last one, which is where
`~LastShared` is used (`WaitListedSound`) and finding 6 lies.

**Tokens.**  `UsesLive` is not inductive: that an invalidation returns says
nothing of a user unless the token is busy wherever its user relies on it
(`Pinned`), stays invalid until the invalidator releases its mutex, and has no
user from the moment it was seen not busy (`Released`); the user marks it busy
before it looks whether it is valid, the invalidator the other way round.
`Locked` says whose the mutex is, `Targeted` whose token, and `StaleInvalid`
what remains of an invalidation that has returned.  `Alone` follows from
`OneWriter`: the writer is the thread that stopped the world and there is no
reader, while by `TypeOK` the readers are the threads that run.

**The MMU.**  `CpuAgrees` and `DvmaAgrees` are not inductive: that a change
reaches every entry needs `Remembered`, an entry is in the ring of its PMEG, and
in the context ring if its page differs between contexts.  `AllAgree` has the
entries of both kinds agree with the context they were filled in, whichever is
current; `Labelled` says who can have an entry of the PROM, or one that is
disabled, and when; and `ChangesRecorded` is needed where a fill sets the bits
of a page table entry that other entries were filled from.

**Serial buffers.**  The lemmas say what the operations of a ring do to the
characters by their distance from the tail (`Nth`): the head is as far from
the tail as there are characters (`HeadIs`), places within one turn are
different (`PlacesDiffer`), so that a copy in with room for it adds its
characters behind those that were there (`CopyInRoom`), one into a full ring
changes none (`CopyInFull`, where it marks an unused slot), and a copy out moves
the others to the front (`CopyOutLess`).  How many it gives is the greatest of a
set of numbers, which `GreatestExists` finds from the well-foundedness of the
numbers; all of these have the flags of the first (`GivenIs`).  With `Held`, the
queue that a ring stands for, `QueueKept` is one step: a copy in is a `Put` or
nothing, a copy out a `Look` or a `Take`.

**Their loops.**  `LoopsAtomic` compares the end of a call with the buffer of
its beginning, so the invariant has to say what happened between.  `InSoFar`:
`done` characters are stored, the ring is the old one with them in its slots
(`SlotsAfter`: the last one that came to a slot, since a copy beyond the space
may go round), the head is that far from where it was, and `done` is at most
what the closed form takes.  That does not keep itself where the tail is at
slot 0: only there may the head pass the tail, and it does so only from slot 0,
where it is after a piece that reached the end of the buffer; this is the third
conjunct.  `PieceFits` shows that one more piece stays within what is taken,
`PieceStored` that it makes `SlotsAfter` of one piece more, and `LastTurn` that
a loop that breaks has taken all of it.  `OutSoFar` is the same for `copyout`:
`done` slots from the tail on were given, all with the flags of the first.
`PieceGives` works out where a scan stops: at the end of a piece that the end of
the buffer cut, where the next turn goes on, or where the closed form stops.
`LoopsKeep` does all six actions, and the end of each call is then the closed
form's step.  Every turn leaves less to copy, so that both loops end (`LoopsEnd`).  The chain is complete with `LoopsRefine` and `LoopsKeepQueue`:
loops, closed forms, bounded queue.

**The device.**  The mutex is unlocked between measuring the output buffer and
the read, during the read, and during the writer's write.  `ReadFits` needs
`AskedFits`: from the measuring on, what is asked for fits.  It is kept because
only the end of a read adds characters, there is one callout loop at a time,
and a writer that takes some out only makes room.  `WriterHasData` is kept
because the writer is the only one who takes characters out, and whoever puts
some in notifies it in the same step; a wait that ends by itself finds nothing
and is the one that aborts.

`TypeOK` of the device is about the ring more than anything: both copies leave a
ring (`SerialBufferProofs`), and a copy out that gives nothing found it empty.

With cooperative threads, `Cooperative` says what the three properties of the
device at rest leave unsaid while it is not.  `CallsNest`: at most one callout
is running, in the chip's loop or with that loop nested in it, and whoever keeps
the mutex found neither.  `ControlOwed`: the values differ only while a loop is
going to compare them again, which is what its second turn (`again`) is for.
`InputOwed`: input is either new to the reader thread, which then finds that the
ring was empty, or the chip is going to read (`Coming`), and so is it while the
device has `OK_READ` set; a read that leaves something was given all it asked
for, and comes again.  `OutputOwed`: characters in the chip are known to the
device or are about to be called out, and a device that knows of them is at rest
only with a full buffer, so that the writer is not waiting.  Each action of the
two loops hands on what is owed (`ContinueOwes`, `StartOwes`); what preemptive
threads add is a step of the other side between a value's reading and its
storing, which `CallsNest` excludes.

**Read-modify-write cycles.**  `Prepared` and `NothingLeftBusy` are about two
entries that are found, filled, invalidated and filled again in any order, so
the invariant says at each place in the loop what `tlbs_busy` means.  `Held` is
the delicate part: after an access by a bus cycle an entry that the CPU counts
as busy need not be busy any more, and is harmless because it cannot be
written (`Wanted`: only protected memory is read apart from its write, and an
entry of its page gives no pointer for writing, `Entries`).  `Found` and
`FillFor` say that an entry stays of the page it was found for, which is why
`FillStart` may only refill the one that no address uses, `StaleInvalid` that
an entry whose invalidation returned is invalid until it is filled.  With one
address the busy entry is counted exactly (`Single`); with two it is not, which
is the leak of the run `M68kRmw_leak`.  `NotTorn` follows from the kinds of
memory: what is read apart from its write is a device or protected.

**The chip.**  With either kind of threads, `ChipIInv` is kept.  `AnswerFits`
says that the answer to a read still fits after the mutex was unlocked, since
only the loop fills the receive buffer, there is one loop, and everybody else
only takes out.  `Received` relates the FIFO to that buffer and to the receive
interrupt.  `BreaksLatched` is what `BreaksShown` needs
to be kept.  A break that is due is in the difference mask, and if RR0 shows
the last one it is still on (`Due`): then the next update shows the end of that
one and keeps the difference, and the update after it shows the break.  That a
new break is in the mask although RR0 shows the last one needs `DiffKept`: the
end of the last one is there already.

With cooperative threads, `Cooperative` adds what is owed.  Each of `SignalOwed`,
`SendOwed` and `ReadOwed` says of the loop's every place that what is not yet so
is among the pending callouts, among those of this turn, or just being done: a
change of the registers adds the callout in the same step (`CallOwes...`
lemmas), a step of the loop hands it on, and when the loop is at rest only the
first is left.  A line may call back while it is being called, and the
interrupt is worked out later in the same turn; the delicate case is an
interrupt already worked out when another channel's turn adds to the pending
ones.  `PendingStays` shows that what is pending does not end while the loop
runs, since no CPU is running: interrupts are only added, and the highest of
them is then as high as it was.  At the signal's own call the CPU is what
preemptive threads let in, and what it adds there is overwritten.

**Only model-checked:** liveness (out of the prover's reach: `EveryTurnComes`,
`SleeperWakes`, `EventWakes`, `InvalidationReturns`, `OutputServed`), and what
`SerialSizes` assumes of rounding and masks, which is about a recursive operator
and bits.

## 7. What is not modelled

* The debugging rwlocks of the cooperative threads: they abort on misuse and
  change nothing else.
* In the serial line: the device's configuration call (it only forwards
  terminal settings), more than one modem line (they are all treated alike),
  the identity of characters (only `SerialBuffer` has it), the escape bytes of
  the scanner (a break and a bad character are one item each), data written by
  the CPU before the connection is made.  The chip within `PosixSerial` takes
  all it is given; `Z8530` has the bounded buffer, and a line of its own in
  place of the device.  A break in the middle of input calls out while
  `buffer_was_empty` is remembered (`posix-serial.c` 404), which would need
  both together.
* In the chip: the interrupt vector, registers that are only read back, and
  the interrupt priority chain, which the code ties off.
* In the Sun-3: the memory error test beyond its first step, the address hole;
  the Sun-2 and Sun-4, which use the same MMU with other control registers.
* In the CPU: values, and instructions that are rerun in part after a fault.
  `Walk` busies and looks at both entries of a cas2 in one step, where the code
  takes one after the other.
* The windows of disks, SCSI, Ethernet, timers, keyboards, generic busses:
  left for later or, where a component is a set of registers, left out.
* WIN32 code throughout.
* Register-level emulation, instruction semantics and code generation, whose
  correctness is about data and not about order; `libopenvpn` and `softfloat`,
  which are third-party code.  They are the greater part of the repository's
  lines.

## 8. Running

    tlc -workers 2 -config SjljThreads.cfg MCSjljSets
    tlc -workers 2 -config SjljThreads_live.cfg MCSjljLive
    tlc -workers 2 -config PosixSerial.cfg MCSerialHost
    tlc -workers 2 -config Z8530.cfg MCSerialChip
    tlc -workers 2 -config Sun3.cfg MCSun3
    tlc -workers 2 -config Tokens.cfg Tokens
    tlapm SjljThreadsProofs.tla        (and the other modules ...Proofs)

`PROJECT.json` names the module of every other `.cfg`.  Definitions whose
comment begins with "Mutant" are wrong on purpose: put in the place of the
definition that follows, they make the property named in `PROJECT.json` fail,
which shows that it can.
