# Verification of Limbo

Limbo runs QEMU (a fork of 1.1/1.2) inside an Android application.  An
activity starts the emulator as a native library in the application's own
process, talks to it through JNI and through the monitor of its VNC console,
and keeps its machines in a SQLite database.  Source paths below are relative
to `src/`; QEMU is `jni/qemu`.

This directory holds TLA+ modules for the parts of the program where order
matters, TLC configurations that check them on small instances, and TLAPS
proofs.  `PROJECT.json` lists components, runs, mutants (the faults each
property detects), the lines each definition stands for, findings, hazards
and theorems.

    tlc -workers 2 -config PosixAioSafety.cfg MCPosixAio
    tlapm PosixAio_proofs.tla

## The system

### Threads and what they share

| thread | code | runs under |
|---|---|---|
| I/O thread | `vl.c` main_loop, `main-loop.c`; handlers, timers, bottom halves, device AIO completions | the global mutex, released around a blocking select and inside `pause_all_vcpus` |
| TCG thread | `cpus.c` qemu_tcg_cpu_thread_fn, executes every vCPU in turn, devices' register accesses | the global mutex, released when idle and when the I/O thread asks |
| disk workers | `posix-aio-compat.c` aio_thread | the pool's own mutex around the queue; no lock during a transfer |
| VNC worker | `ui/vnc-jobs-async.c` | its queue's lock |
| Java threads | `LimboActivity`, `LimboVNCActivity`, `VMExecutor` and their `AsyncTask`s | **nothing**: JNI calls `stop_vm`, `set_vm_*`, `change_dev` directly |

### Components

| component | state | operations | who it talks to | what is hard | what makes it correct |
|---|---|---|---|---|---|
| **Disk thread pool** `posix-aio-compat.c` | request list, list of outstanding aiocbs, four thread counters, notification pipe, spawn bottom half | submit, worker life cycle, completion scan, flush, cancel | block layer above, host threads and the pipe below | workers that time out while being signalled; the pipe filling; callbacks that submit, cancel or wait; `max_threads` lowered to 1 | every request performed at most once, called back once or cancelled, and in the end; counters exact; limit kept |
| **VM control** `cpus.c`, `vl.c`, `main-loop.c`, `cpu-exec.c` | run state, request flags, per-vCPU `stop`/`stopped`/`halted`/exit request, mutex, event descriptor | start, stop, reset, suspend, wake, shut down, savevm/loadvm around it, `stop_vm` | every device and the app make requests; the main loop serves them | three kinds of threads; signals that race cpu_exec; condition variables; a lock-free caller in Java | the guest runs only in RUNNING; no lost wake-up; pause completes; no illegal transition; no frozen machine |
| **Bottom halves, AIO wait** `async.c`, `aio.c` | two linked lists walked with callbacks, nesting counters, deleted flags | create, schedule, cancel, delete, poll; set handler, wait, flush | everything in QEMU | callbacks that change the list being walked, nested walks | no walk on freed memory; flush complete; what is scheduled runs |
| **JNI layer** `vm-executor-jni.c`, `VMExecutor.java` | `started`, the dlopen handle, argument strings | start, stop/restart, save, change device, set DNS and VNC password | loads QEMU, calls its exported functions | `started` is checked long before it is set and cleared while QEMU goes on | a second start in a process is refused (not shown: assumed, see Session) |
| **Launcher and database** `LimboActivity`, `MachineOpenHelper`, `FavOpenHelper` | SQLite rows of machines and their status; the selected machine; the status listener | create, select, delete, import, mark saved | JNI layer, dialogs, SharedPreferences | rows rewritten as delete + insert; a flag that listeners of several resumes share | the list agrees with the images; somebody watches the status |
| **Snapshots** `savevm.c`, `LimboVNCActivity` | `saving_state`, the snapshot in the image, the row's snapshot name | do_savevm, load_vmstate, the activity's key strokes and polling | VM control, block layer, database | early returns; the poll races the start of the command | DONE means saved; the dialog ends |
| **Drive changes** `DrivesDialogBox`, `qmp.c`, `blockdev.c` | medium of each drive | change, eject | monitor | the guest locks the tray | the medium shown is the one inserted |
| **SDL activity** `SDLActivity` | the surface, pause flag | surface events, pause, resume | SDL's native thread | surface destroyed while drawing | no use of a dead surface |
| **Coroutines and locks** `qemu-coroutine*.c` | wait queues, one global queue of woken coroutines, its bottom half | enter, yield, wait, lock, unlock, read/write locks | block layer, bottom halves | a woken waiter may find the lock taken again | exclusion, no lost wake-up |
| **Block layer, formats** `block.c`, `block/*.c` | qcow2: L1, L2 tables, refcounts, two caches with dependencies, allocations in flight; block.c: tracked requests, throttling, copy-on-read | read, write, discard, flush, drain, snapshot | pool, coroutine locks | requests that overlap while the lock is free; failures half way; metadata order and crashes | no cluster with two owners, flushed data and snapshots intact after a crash, waiters woken |
| **Timers** `qemu-timer.c` | three clocks, a sorted list each, the host alarm | mod, del, run | main loop, devices | re-arming inside callbacks; stopped vm_clock | none lost, none early |
| **VNC server and worker** `ui/vnc*.c` | job queue, clients' output buffers | push, join, stop, disconnect | main loop, sockets | client freed while encoded | no job on a dead client |
| **Network queues** `net/queue.c` | queued packets, delivering flag | send, flush, purge | devices, slirp, tap | delivery re-enters | order, no loss while queued |
| **Handlers, DMA, signalfd** `iohandler.c`, `dma-helpers.c`, `compatfd.c` | lists with deleted flags, scatter lists | set, poll, cancel | main loop, block layer | deletion while iterating; cancellation mid-transfer | as AIO wait |
| **Migration stream** `migration.c`, `buffered_file.c`, `arch_init.c` | state, buffer, dirty bitmap | start, put, complete, cancel | VM control | freeze and thaw; cancel while putting | completes or fails once |
| **Image creator** `image-creator-jni.c` | none kept | create | block layer in a library of its own | pure I/O | - |
| **Monitor** `monitor.c`, `qmp.c` | command parser, event throttling | commands | everything | parsing | - |
| **Devices, targets, translator** `hw`, `target-*`, `tcg` | too large to model, mostly sequential per access | | | | |
| **VNC viewer** `src/android/androidVNC` | third-party client | | | | |
| **Vendored libraries** SDL, glib, libpng, ... | third party | | | | |

## Modules

### AsyncIO and PosixAio - the disk thread pool (`jni/qemu/posix-aio-compat.c`)

`AsyncIO` is what the block layer is promised: per request a phase (`free`,
`queued`, `running`, `performed`, `calling`) and a result.  A request is
performed at most once, its callback runs once, after the transfer and with
the result of that transfer, a short transfer is an error, and a cancelled
request is not called back.

`PosixAio` is the implementation.  `request_list`, `first_aio`, `cur_threads`,
`idle_threads`, `new_threads` and `pending_threads` are the file's own
variables; `pc` and `job` are the workers, `pipe` the bytes in the
notification pipe, and `at`, `arg`, `cursor`, `callbacks` say where the thread
that owns the pool is (the holder of QEMU's global mutex; `callbacks` holds
the calls of posix_aio_read in progress, since a callback may wait for AIO and
re-enter it).  A section of code under the pool's `lock` is one action;
transfers, the byte written to the pipe and the signal of the condition
variable are separate actions, because they happen outside the lock.

- submission: `Enqueue`, `SignalQueue`, `RunSpawnBH` and `DoSpawn`
  (qemu_paio_submit, spawn_thread_bh_fn, do_spawn_thread);
- a worker: start, take a request, perform, post, notify, wait, time out, exit
  (aio_thread);
- completion: `Select`, drain the pipe, scan the list, call back, return,
  return (posix_aio_read, posix_aio_process_queue);
- cancellation: unlink, or spin until the worker is done, then remove
  (paio_cancel).

A timed wait may time out whenever the thread waits, and a signal is delivered
to any waiter: a superset of what the kernel does.

### VmControl - how a machine runs, stops and restarts

One module for three files, because no action makes sense alone.  `vpc`, `ipc`
and `upc` say where the TCG thread, the I/O thread and each Java thread are;
`mutex` is `qemu_global_mutex`; other variables carry the source's names.
`requested` is the set of `*_requested` flags that are set; `vmstop_requested`
is `"max"` for RUN_STATE_MAX.

- TCG thread: `VcpuStart` ... `VcpuLock` follow qemu_tcg_cpu_thread_fn,
  tcg_exec_all, cpu_exec's entry and exits and qemu_tcg_wait_io_event; guest
  actions stand for what a translated block may cause (a device asks for a
  reset, suspends, reports an I/O error, halts, interrupts another vCPU, hits
  a breakpoint).
- I/O thread: one iteration is `Poll` or `Block` + `SelectReturns` + lock
  (`TryLock`, `Kick`, `IoLock` are qemu_mutex_lock_iothread with its SIG_IPI),
  handlers, `Drain` of the event descriptor, timers and bottom halves, then
  one step per check of main_loop_should_exit.  pause_all_vcpus is
  `BeginPause`, `PauseSleep`, `PauseAgain`, `PauseDone`: the gap between
  looking at the vCPUs and sleeping is a place of its own since Java threads
  do not take the mutex.
- Java threads: `UiRequest`, `UiTest`, `UiLoad`, `UiStop`, `UiExit`,
  `UiSignal`, `UiNotify` are stop_vm.  cpu_stop_current names `cpu_single_env`
  four times, and it is a plain global (`qemu-tls.h:47`): the test is `UiTest`,
  each of the three uses a `UiLoad` of its own followed by a store through what
  was loaded (`UiStop` twice, `UiExit`).  A load of NULL ends the process
  (`upc[u] = "crashed"`).  The library is built with -fno-strict-aliasing, so
  the compiler may not keep the pointer across the stores to the vCPU; that it
  may keep the first load for the test and the first store gives no behaviour
  that the separate loads do not.

A vCPU that another device interrupts is woken; everything else a guest
computes is left out.  `no_reboot` and `no_shutdown`, which the command line
sets, are free in the initial state.

### AioLoop - bottom halves and qemu_aio_wait (`async.c`, `aio.c`)

The calls in progress are the frames of `stack`: qemu_bh_poll, qemu_aio_wait,
and the callbacks they make.  A callback - and the main program, when the stack
is empty - may create, schedule, cancel and delete bottom halves, set and
remove handlers, submit requests and wait.  Freed structures go back to the
pool `BHs` or `Nodes` and may be allocated again at once, as by malloc.
`inflight` and `readable` stand for what a driver's io_flush counts and for
the descriptors on which an answer has arrived.

A signal may end the select without a descriptor (`WaitInterrupted`): the wait
returns true and walks nothing.

Assumed of callers: io_read does not itself call qemu_aio_wait (one path
does, see the hazards: a block_stream job that ends there closes images);
io_write behaves like io_read; an owner uses a bottom half only between
qemu_bh_new and qemu_bh_delete.

### CoLocks - the coroutines' mutex and read/write lock (`qemu-coroutine.c`, `qemu-coroutine-lock.c`)

No two coroutines run at once, so code between two yields is one action;
`stack` is the chain of callers, the running coroutine last, with `Bh` for the
bottom half qemu_co_queue_next_bh in its loop.  `locked`, `reader`, `writer`,
`queue` and `unlock_bh_queue` are the source's fields, `scheduled` says that
the bottom half is due.  `want` and `held` say in which call a coroutine is and
what it holds; `in_io` are those that yielded in a driver.  `Lock` is one turn
of the loop in qemu_co_mutex_lock, qemu_co_rwlock_rdlock or _wrlock: take it,
or queue and yield.  Unlocking moves waiters to the global queue; `BhEnters`
enters them one by one, and in between newcomers may take the lock.

Assumed of callers: a coroutine holds one lock at a time, and enters others
only from outside the calls of this module.  There is one mutex and one
read/write lock; what they share is the global queue.  Of the wait queues used
without a lock, the one of qcow2's dependent requests is in `Qcow2`.

### Qcow2 - an image file under concurrent requests (`block/qcow2*.c`)

`file` is what reading the image returns, and `lost` what else a crash of the
host may leave there: a write goes to the host's page cache and an entry or
sector of it may be undone until the file is flushed (with `writethrough` the
file is opened O_DSYNC and nothing is ever lost).  `CrashImages` is the set of
images a crash may leave now, so an invariant over it speaks of a crash at
every moment without taking one; `Crash` opens one of them again.

A unit of the file is a refcount, the L1 entry, or a half of a cluster: a
sector of data or an entry of an L2 table, since a cluster freed and taken
again changes from one to the other.  `refcount`, `l2`, `dirty`, `depends` and
`depends_on_flush` are the two caches of qcow2-cache.c.  Their functions call
one another (writing an entry flushes the other cache first, which writes
entries ...): `stack` holds these calls of the coroutine that owns `s->lock`,
`CallStep` does one of their steps, and what they return is in `ret`.

Per coroutine, `pc` is the place in qcow2_co_writev (or _discard, _flush_to_os,
bdrv_co_flush), `req` the request, `m` its QCowL2Meta, `waits` the allocation
in flight whose `dependent_requests` it queues in.  `GetClusterTable`, the four
steps of l2_allocate, `AllocClusterOffset`, `WriteData`, `CopySectors`,
`LinkL2`, `FreeOld`, `Unmap` and the failures of each are actions; between two
of them the lock is kept unless the code gives it up.  Every I/O may fail
(`MayFail`).  `promise` and `latest` are ghosts: what a sector may read as after
a crash, and its last completed write.

Abstracted: an image has one L1 entry, tables of two entries, clusters of two
sectors and one refcount block; data is a number per write.  `Setups` are images
at opening: empty, with one cluster, shared with a snapshot (`snap`), or with a
compressed cluster.

### Session - the app around the machine

`LimboActivity`, `LimboVNCActivity`, `VMExecutor`, `vm-executor-jni.c` and
`do_savevm`, with QEMU reduced to its main loop: `vm` is where it is (starting,
in its loop, or at which drive of do_savevm).  `inbox` holds what the UI thread
will handle, in order: clicks and the messages `started` and `stopped`.

- launcher: `OnStartButton` (creates `vmexecutor` once, starts a thread, sends
  the message), `OnVmStarted`, `OnVmStopped`, `OnStopButton`, `OnRestartButton`
  with `RestartVm` on a thread of its own, `SelectSnapshot`, and the two ways
  between the activities;
- `CheckStarted`, `LoadLib`, `StartReturns`: start() of vm-executor-jni.c, with
  a library that does not load or lacks a symbol; QEMU runs inside it, and its
  end is the end of the process (`Dies`);
- `SaveStart` ... `SaveEnd`: do_savevm drive by drive, with its early return
  and each failure; `TypeCommand`, `DeleteRow`, `InsertRow`, `Poll` ...: the
  activity that types the command, sleeps a second, rewrites the row in the
  database and polls `saving_state`;
- `StopOthers` ... `WaitQuit`: startTimeListener on the thread of each resume.

`snaps` (in the images) and `rows` (in the database) outlive the process;
everything else is gone with it (`Kill`: Android ends the process).  `Prompt`
says that a second is enough for the main loop to take the command.

`OneMachine` - no thread passes the check of `started` while another has passed
it - is an assumption, not a property: nothing in the code keeps it (start()
looks at `started` on a thread per press and sets it 500 lines later, and a
double tap queues two presses before `vmStarted` is set).  What a second
qemu_start does to the first machine's variables is not modelled, so the runs
take `OneMachine` as a CONSTRAINT and the theorems as a hypothesis.

stop_vm and the assignment to `started` after it are one action here, as is the
shared field `restart`: `VmControl` has stop_vm's accesses one by one.

## Runs

| run | instance | question |
|---|---|---|
| `aio_pool` | 3 requests, 3 thread structures, 2 threads, pipe of 2, reads of 2, one nested callback | safety of the pool and refinement of AsyncIO |
| `aio_pool_live` | 2 requests, 2 threads, pipe of 1, reads of 1 | every request ends |
| `vm_stop` | 2 vCPUs, every guest and monitor operation, no Java thread | the two threads that share the mutex are right |
| `vm_live` | 1 vCPU, no suspend | no illegal transition, requests are handled, the machine runs on |
| `vm_restart` | 1 vCPU, 2 Java threads, a monitor that stops and continues | what survives lock-free restarts |
| `vm_null` | 1 vCPU, 1 Java thread | what does not (finding) |
| `co_locks` | 3 coroutines, 1 call each, 4 deep | exclusion and wake-ups of the coroutine locks, a waiter gets its lock |
| `aio_loop` | 2 bottom halves, 2 handlers, 2 descriptors, 3 nested calls | lists under re-entrant callbacks, flushes complete, scheduled bottom halves run |
| `qcow2` | 2 coroutines, 2 requests of any kind, 7 clusters, 1 I/O error, 1 crash; 7 images and modes | the image after a crash at any moment, sharing, leaks, waiters |
| `qcow2_ioerror` | the same, writeback, shared image, an L2 or refcount write fails | order of refcount and table after an error (finding) |
| `session` | 2 start threads, 3 listeners, 2 drives, 2 names, 2 clicks, 2 savevms, 1 death; `OneMachine` assumed | a truthful dialog and list, a watched status |
| `session_early` | the same, a slow main loop | the first poll (finding) |

### Why the bounds are enough

- *Pool*: three requests against two threads give a queue with both threads
  busy, a thread owed and one pending at the same time, and a cancellation of
  a queued, a running and a finished request beside another.  A pipe of two
  with three requests can overflow; a read takes at most two bytes, so the
  drain loop iterates.  Two levels of posix_aio_read are the recursion; a third
  is the second again.  `MaxThreads = 2` separates "at the limit" from "one";
  Limbo's own setting, 1, is a special case the proofs cover.
- *VM control*: vCPUs share one thread, so two show everything a list of vCPUs
  can do.  The Java threads meet one another at `stop`/`stopped` only; two are
  used where they could.
- *AioLoop*: two bottom halves are a pair "current, next", two handlers "at,
  after"; three frames allow a poll inside a wait inside a callback.  Freed
  structures are allocated again, so a stale pointer meets a new owner.
- *CoLocks*: three coroutines are a holder, a woken waiter and the newcomer that
  takes the lock before it, or a writer and a reader that wait for another
  writer.  Four on the stack is everybody and the bottom half.  The safety
  properties are proved for any number; the bound matters for `EveryLockTaken`.
- *Qcow2*: two requests are an allocation in flight and the one that meets it,
  or a write and the flush or discard that races it; a request touches one of two
  guest clusters, in one half (with copy on write of the other) or in both.
  Seven clusters never run out: the image's two, and for two requests a table,
  a copy of it and data each.  A table and the refcounts are more than one
  entry, so a crash may tear them.  One error at any I/O and one crash at any
  moment; after a crash the image serves on as a fresh one would.
- *Session*: two start threads are a machine and the start that is refused or
  follows one that failed; three listeners are the two that a new process starts
  (onCreate and onResume) and that of the next resume (a listener is used again,
  so there are as many resumes as wanted); two drives make a snapshot partial; two names tell the
  snapshot that is replaced from the one that must stay.  Two clicks are a
  start and a stop, a restart or another start; the process that follows a death
  starts afresh.

### Fairness

- Pool: each worker, and the owner's steps inside a call, weakly fair - host
  threads are scheduled.  The bottom half, the select and the start of a read
  strongly fair: the main loop comes back to them however often a guest's
  submissions are served first.  Nothing obliges a guest to submit, or a device
  to cancel.
- VM control: each thread weakly fair; a translation block ends; select
  returns when its event descriptor is readable.  The timeout of select is not
  fair, nor is any guest, monitor or app request.  `LeftAloneRuns` assumes a
  main loop that goes back to sleep: while descriptors are always ready it polls
  and keeps the mutex.
- AioLoop: the main loop polls again and again, callbacks return.  Idle
  bottom halves run without a notification since the main loop's timeout is
  lowered to 10 ms for them.
- Qcow2 and Session state no fairness and no liveness: what must eventually
  happen there is put as a state from which it does (`WaitersAreWoken`: the
  queue belongs to an allocation that goes on; `DialogTruthful`: the next poll
  ends it).
- CoLocks: a coroutine that holds a lock gives it back and in the end yields or
  terminates (strongly fair: it may be interrupted by what it enters), I/O
  completes, the bottom half is polled.  The locks themselves are not fair - a
  waiter that finds the lock taken queues again at the tail - so `EveryLockTaken`
  is about finitely many calls (`MaxCalls`).

## What the checks show

The pool is right: in every interleaving no completion, thread or request is
lost, and it implements AsyncIO.  The machine is right as long as all callers
hold the mutex: no lost SIG_IPI, notification or pause answer, no guest code
outside RUNNING.  The list walks are safe under nested callbacks of bottom
halves (io_read is assumed not to wait), and a flush returns only when nothing
is pending (but for bottom halves that an idle one scheduled).  The coroutine locks exclude and lose no wake-up although a
woken waiter is not handed the lock.  qcow2 keeps its promises across crashes,
and under I/O errors with writethrough caches; waiting requests always wait for
one that goes on.  If no second machine is started in a process and the main
loop is quick enough, the dialog and the list of snapshots tell the truth of
the saves that succeed.

Three runs find what the program says of itself violated:

1. **`vm_null`** - `stop_vm` (`vl.c:1393`), called on a Java thread, tests
   `cpu_single_env` and goes through it again (`cpus.c:1061`-`1064`) after the
   TCG thread has left cpu_exec and cleared it (`cpu-exec.c:649`, whose comment
   says "never use cpu_single_env outside cpu_exec()"): the process ends.
2. **`qcow2_ioerror`** - update_refcount ignores the result of
   qcow2_cache_set_dependency (`qcow2-refcount.c:435`).  When the L2 cache
   depends on the refcount cache, the latter is flushed first
   (`qcow2-cache.c:168`).  If writing the refcount block fails there, the
   dependency is not set, and the decremented refcount may reach the file with a
   later write, before the table that gave the cluster up, against the comment
   in qcow2-cluster.c:692.  (This is why `qcow2` has failures of table writes
   with writethrough caches only.)
3. **`session_early`** - the activity starts polling `saving_state` a second
   after it typed savevm (`LimboVNCActivity.java:312`); 0 means "not begun" as
   well as "done".  (`session` assumes `Prompt`.)

Met while modelling, and stated here only:

- the same stop_vm can leave a vCPU stopped in a machine that is RUNNING, when
  all its loads find the vCPU but its stores land after the reset was handled
  (`NoFrozenCpu` fails with a Java thread; `vm_stop` has none);
- it clears `stop` during a pause, so `PauseAnswered` fails with a Java thread,
  too.  In the traces looked at that thread then loads NULL, which `vm_null` has;
  whether the main loop may also sleep for good is not settled here;
- a suspend request pending while a handler stops the machine makes
  runstate_set abort (`vl.c:1408`); `vm_live` leaves suspend out and `vm_stop`,
  which has it, does not check `NoAbort`;
- a handler deleted during a walk that has already passed it stays in the list
  until another walk passes it (`aio.c:184`);
- two presses of Start handled before the first one's message start two machines
  (`OneMachine` fails without the CONSTRAINT; `vm-executor-jni.c:412`);
- after a savevm that fails `saving_state` stays 1 and the dialog never ends
  (`DialogEnds` excepts it);
- with a writeback cache a cluster of compressed data may be given away before
  the table that replaces it is on the disk (the image `compressed` is in
  `Setups` with writethrough only).

## What is proved

`PosixAio_proofs` proves, for every set of requests and threads, every
`max_threads`, pipe size and nesting:

- `TypeCorrect`: `Spec => []TypeOK`
- `CountersAlwaysExact`: the four counters agree with the threads there are
- `PoolLimited`: never more than `max_threads`
- `SpawnNeverLost`: a thread owed is on its way
- `QueueAlwaysWatched`: a queued request is never left to sleeping workers

They come from one inductive invariant, `PoolInv`: types, `CountersExact`,
`cur_threads <= MaxThreads`, `NoLostSpawn` and `QueueWatched`.  None is
inductive alone.  That a thread dying by timeout leaves somebody to watch the
queue needs the counters (if the submitter found an idle worker, `idle_threads`
counted a real one); that `new_threads` may be decremented at all needs
`CountersExact`; and the limit counts promised threads, so it needs
`cur_threads = new + pending + in the pool`.  The counters are cardinalities
of sets of threads; the lemmas on `Count` say what moving one thread from one
place to another does to them, so that every action's proof reduces to
arithmetic.  Assumptions: `PoolAssumption` (finite sets, positive bounds),
evaluated by TLC in each run.

It proves further, for the same instances:

- `ImplementsAsyncIO`: `Spec => Implements`, that is `Abs!Spec`
- `RequestsOwned` (`WorkersOwnTheirRequest`) and `CompletionsNeverLost`
  (`NoLostCompletion`)

The invariant is `OwnInv`.  Every request is in one `Stage`: free, submitted but
not queued, queued, running, done, cancelled but not removed, or in its callback;
each stage says in which lists the request is, whether a worker or a callback has
it, and what `ret` and `active` hold.  `OnceEach` says that no list has a request
twice, which is what makes taking one out remove it, and `OwnerHolds` what the
request of the owner's current operation is like.  A step moves one request from
one stage to another, or none (`Still`): one lemma per action that moves one says
which, and the phase AsyncIO sees follows from the stage (`Seen`).  Queueing a
submitted request and removing a cancelled one are stutters of AsyncIO.
`CompletionsNeverLost` adds that a result is ahead of the scan's cursor unless a
byte, a notifying worker or a callback is there: only skipping a request in
progress moves the cursor past one, and a callback restarts the scan.

`CoLocks_proofs` proves, for any number of coroutines and calls:

- `CoTypeCorrect`, `LocksExclude` (`Exclusion`), `WakeupNeverLost`
  (`NoLostWakeup`), `OneWriterIsEnough` (`ReadersWaitForAWriter`),
  `WokenAreEntered` (`WokenEntered`) and `NoReentry` (`NeverReentered`)

The inductive invariant `CoInv` adds to these `Apart`: each coroutine is in one
place only - in one of the two queues or among the woken, there once and inside
a call; or on the stack, or in I/O.  It is what lets an unlock count: the
coroutine it wakes is in no other queue and wants that lock, so it is the
witness `NoLostWakeup` needs, until it runs and takes the lock or queues with
somebody holding it.  That `reader` is the number of readers rests on the
library's facts about cardinalities.  Assumption: `CoAssumption`.

`Session_proofs` proves, for any threads, listeners, drives, names and failures:

- `SessionTypeCorrect` (`TypeOK`) and `ResumedAlwaysWatched` (`ResumedIsWatched`,
  inductive with the types: the step that stops the others belongs to a listener
  that is about to listen itself, and the one that clears `timeQuit` listens);
- `DialogIsTruthful` (`DialogTruthful`) and `ListAlwaysAgrees` (`ListAgrees`),
  assuming `[]OneMachine`, a session in which no second machine is started, and
  `Prompt`, a monitor that takes the command up before the dialog first polls
  (the run `session_early` shows what happens otherwise).  Nothing is assumed of
  how many presses wait for the UI thread.

Their invariant is `SaveInv`: a save is `Waiting` (the viewer is in front, or
has typed the command, and the main loop is not in it) or `Taken`.  When it is
taken, `Progress` relates where the main loop is in do_savevm to `saving_state`
and to the drives that have the snapshot, up to the command's end, by which
every drive has it or taking it failed.  `Listed` says that every other name is
in the database exactly if every drive has the snapshot; only the name on its
way may be ahead of the drives.  `Hosted`: the main loop runs on a thread that
started the machine.  Neither property is inductive without the rest: what the
dialog waits for is what makes the row true that was written before.

`Qcow2_proofs` proves, for any number of requests, clusters, errors and crashes:

- `WaitersAlwaysWoken` (`WaitersAreWoken`), from `WaitInv`: a request owns the
  lock exactly in the places in `Locked`, its allocation is in flight only in
  those in `InFlight`, and a request in `waiting`, and no other, waits for one
  whose allocation is in flight.  Each step keeps it because an allocation
  leaves `InFlight` only in the steps that also wake its waiters.
- `DependenciesNeverCycle` (`NoDependencyCycle`), from `DependInv`.  The property
  alone is not inductive: `set_dependency` is two calls, and the dependency is
  set when the flush in between has returned.  `Careful` says what is true
  meanwhile: a pending `set_dependency` is the innermost call with the other
  cache depending on nothing, or directly outside the flush of the dependency
  that makes it so; and without the lock no call is pending.

Assumption: `QcowAssumption`, evaluated by TLC in both runs.

`Qcow2_crash` proves what the image holds, in memory and after a crash, for any
number of coroutines, clusters, requests, crashes and failed transfers of data:

- `ImageTypeCorrect` (`TypeOK`), `ClustersNeverShared` (`NoClusterShared`),
  `SnapshotStaysIntact` (`SnapshotIntact`) and `NothingEverLeaks`
  (`NothingLeaked`)

Their hypothesis is `OnlyDataFails`: transfers of the guest's data may fail, with
either kind of cache, but no write of a table and no flush.  With a writeback
cache and a failed table write the second is false (run `qcow2_ioerror`).  With
a writethrough cache run `qcow2` lets those fail as well; that part of it stays
model-checked.

The invariant is `AllInv`.  None of the three image properties is inductive: each
speaks about a moment after a crash, and what a crash leaves depends on which
tables are dirty, which writes the disk may still lose, and which cache waits for
which.

- Three countings of the references to a cluster, those a crash may leave in the
  file (`OnDisk`), those in memory (`InMemory`) and those in either (`Anywhere`),
  stand against two refcounts: what the file may say after a crash (`DiskInv`)
  and what the refcount block says (`CountInv`; `HeldInv` for a cluster a request
  has taken and no table refers to yet).  Which refcount covers which counting
  depends on which cache depends on the other: this is the use of the
  dependencies.  `PrivateInv`: what any entry calls COPIED has one reference
  anywhere.
- `FileInv` and `CacheInv`: what kind of thing each unit of the file may hold
  after a crash, and that a clean table in the cache is the one in the file.
- `RequestInv`, `ShapeInv` and `OwnerInv`: which clusters a request touches at
  each place, which calls may be on the stack, who awaits whom.
- `FlushInv` and `TableInv`: what a flush in progress has achieved so far, and
  that a new L2 table is linked only after what it needs is durable.
- `Opened` and `ImageGood`: what a crash, or creation, leaves to be opened again.

`CrashImages` folds over the units with unflushed writes.  Lemma `CrashImagesAre`
reasons about the function the fold stands for: that it exists, by the least
number of units for which it would not, and that each image it gives holds in
every unit something `Possible` there.  Opening any such image gives back
`AllInv`.

`Qcow2_flushed` proves what survives of the guest's data, for the same:

- `FlushedAlwaysSurvives` (`FlushedSurvives`): whatever a crash leaves, a sector
  reads as the last write the guest flushed, or as a later one

It has a second hypothesis, `NoWritebackCompressed`: no image with compressed
clusters is opened with a writeback cache.  Without it the theorem is false (see
above: such a cluster is freed, and may be written, before the entry that
replaces it is in the file).

The invariant is `FlushedInv`, that is `AllInv` and six parts.  A crash may leave
any entry in `Stored`, and behind an entry any content in `Behind`; the guest
itself reads what is `Shown` in memory.

- `StoredInv` is what the theorem needs at once: what a crash may leave to be read
  is promised (`StoredPromised`; `EmptyPromised` for an image that may still have
  no L2 table).  To keep it through a write, `StoredSolid`: an entry that may be
  in the file, though memory has another by now, refers to a cluster that still
  has its data, because the snapshot has it or the request that replaced it has
  not freed it yet; or else the guest discarded those sectors and nothing is
  promised of them.  To keep it when a flush ends and the promise narrows,
  `PastReads`: a flush that has the L2 tables behind it reads at least its floor
  through the tables of the file, so that flushing the file leaves nothing older.
- `ShownInv`: what the guest reads in memory is promised and at least the latest
  write; and as soon as the L2 tables may go to the file (`MayWrite`: they wait
  for nothing) so is everything a crash may leave behind their entries.  This is
  the use of the dependency of the L2 cache on the refcounts: it has the file
  flushed between the data and the entry.  Also what a request has put in its
  new cluster so far: its data, and the rest by copy on write.
- `PledgeInv`: writes are numbered in the order they are submitted, and two
  requests under way never touch the same sectors, so that a write is later than
  what its sectors held.
- `KindInv`: which entries lack the flag COPIED, and that the entry in memory of a
  request that writes in place, or has linked its cluster, is its own.
- `ThroughInv`: with a writethrough cache nothing is left to lose when a request
  is done, which is why its promise narrows without a flush.
- `TabledInv`: a cluster that has held a table, perhaps only in what a crash may
  leave, is never given to data.  Without it the sectors a crash shows could be
  entries.

TLC checked every part on the images of run `qcow2` before it was proved.

`VmControl_proofs` proves, for any number of vCPUs and Java threads and any
guest:

- `VmTypeCorrect` (`TypeOK`), `GuestNeedsRunning` (`GuestOnlyWhenRunning`),
  `AlwaysQuiesced` (`Quiesced`) and `NothingEverMissed` (`NothingMissed`);
- assuming `UiThreads = {}`, that no Java thread is in `stop_vm`: `PauseEnds`
  (`PauseAnswered`) and `NeverFrozen` (`NoFrozenCpu`).  The assumption is needed:
  both fail with one Java thread (see "Met while modelling").

All rest on `MutexPlaces`: the holder of the mutex is the thread that is at a
place where it holds it, so the I/O thread's steps and the TCG thread's, which
change the same variables, never meet.  `ExitInv` follows a request for the
mutex through cpu_exec: from the kick on, `exit_request` is set while the TCG
thread could still enter the guest, and it is cleared only on the way to the
wait that lets the I/O thread through; the TCG thread is past its initial wait,
or the kick would be missed.  `NotifyInv` says that a request whose check the
main loop has passed in this round comes with a notification; the place to come
back to after a pause, `op.next`, counts as the place the loop is at.
`PauseInv`: during a pause every vCPU is asked or stopped, the TCG thread
cannot get past its answer, and the I/O thread sleeps only if somebody is not
stopped.  `FrozenInv`: outside a pause a RUNNING machine has a stopped vCPU only
if a request is pending whose handling pauses and resumes, or exits.
- `StateNeverAborts` (`NoAbort`), assuming a guest that does not suspend the
  machine, for any requests, errors, handlers and Java threads: more than the run
  checks, which leaves some handlers out.  The assumption is needed: a paused
  machine that is asked to suspend aborts.  `StateInv` says that a pause that
  ends in another state began in RUNNING, that RUNNING may turn into that state,
  and that the state is still RUNNING when the pause ends, since the I/O thread
  does nothing else meanwhile; and that saving and loading happen in the states
  named for them.

Assumption: `VmAssumption`.

`AioLoop_proofs` proves, for any bottom halves, handlers and nesting:

- `LoopTypeCorrect` (`TypeOK`), `WalksStayLive` (`WalksLiveMemory`) and
  `FlushIsComplete` (`FlushComplete`).

The invariant is `LoopInv`.  `BhInv` and `NodeInv` say that both lists hold an
element once and that what is scheduled, or marked as gone, is in its list;
`StackInv` that polls and waits are nested the one way the code allows, that
`nesting` is the number of polls on the stack, and that each stands at a bottom
half of the list, since only the outermost frees any; `WalkInv` that only the
innermost call walks the handlers, with `walking_handlers` set; `ProgressInv`
that a poll that has run nothing yet has every bottom half that is to run
`Ahead` of it, so that a wait that finds nothing busy has missed none.  That
freeing elements keeps the order of the others is what the lemmas on `Rank` and
`Live` say.

Every safety property that a passing run checks is stated by a theorem, some
under a hypothesis given above.  Model-checked only: the guarantees of Qcow2's
image when a table write or a flush fails with a writethrough cache; and the
liveness properties (`EveryRequestEnds`, `EveryRequestHandled`, `LeftAloneRuns`,
`EveryLockTaken`, `EveryBhRuns`), which are out of the prover's reach, as are
ENABLED and recursion over data.

## Not modelled

Components without a module are listed in `PROJECT.json` with their reason.
In the modelled ones:

- PosixAio: ioctl requests other than as one more kind of transfer.
- VmControl: `-icount`, KVM; the end of `main` after main_loop.
- Qcow2: taking, loading and deleting snapshots; allocating refcount blocks and
  growing the L1 table; requests over more than one cluster; writing compressed
  clusters, zero clusters, encryption, backing files; `block.c`'s tracked
  requests, throttling and drain.
- Session: the SDL user interface; creating, editing and deleting machines; the
  settings; the path of LimboActivity to `and_do_savevm`, which no widget
  reaches; delvm typed into the monitor.

## Plan

1. Qcow2: snapshots taken and deleted while requests are under way (do_savevm
   stops the guest, not the requests), refcount blocks.
2. `BlockRequests` (`block.c`): tracked requests and overlap, drain, throttling.
3. `Timers`, `NetQueue`, `VncJobs`, `SdlLife`.

Proofs planned: the theorems of `Qcow2_crash` and `Qcow2_flushed` with failing
table writes and flushes, writethrough caches.  Calls then return FALSE, and the
error paths of the L2 allocation run.
