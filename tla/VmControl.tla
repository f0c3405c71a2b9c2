------------------------------ MODULE VmControl -----------------------------
(***************************************************************************)
(* cpus.c, vl.c, main-loop.c, cpu-exec.c: how a virtual machine is run,    *)
(* paused, reset and shut down.                                            *)
(*                                                                         *)
(* The I/O thread runs main_loop, one TCG thread runs every vCPU in turn,  *)
(* and the Java threads of the app call stop_vm through JNI.  The first    *)
(* two exclude each other by qemu_global_mutex; the Java threads take no   *)
(* lock.  Steps of a thread that holds the mutex are as large as the other *)
(* threads' view of them allows.                                           *)
(***************************************************************************)
EXTENDS Naturals

CONSTANTS
  NCPU,         \* -smp
  UiThreads,    \* Java threads that call stop_vm
  GuestOps,     \* what the guest does, a subset of AllGuestOps
  IoOps,        \* what handlers, timers and bottom halves do: AllIoOps
  UiOps         \* what stop_vm asks for: "reset" or "shutdown"

AllGuestOps == {"reset", "shutdown", "suspend", "io-error", "debug", "halt",
                "ipi"}
AllIoOps == {"stop", "cont", "system_reset", "system_powerdown", "quit",
             "system_wakeup", "savevm", "loadvm", "io-error", "interrupt"}

ASSUME VmAssumption ==
  /\ NCPU \in Nat \ {0}
  /\ GuestOps \subseteq AllGuestOps
  /\ IoOps \subseteq AllIoOps
  /\ UiOps \subseteq {"reset", "shutdown"}

VARIABLES
  runstate,             \* current_run_state
  requested,            \* the *_requested flags that are set
  vmstop_requested,     \* the state of vmstop_requested, or "max"
  no_reboot, no_shutdown,   \* from the command line; quit clears the latter
  stop, stopped,        \* per vCPU: asked to stop, has stopped
  halted,               \* per vCPU: halted and without work
  env_exit,             \* per vCPU: env->exit_request
  exit_request,         \* the global of the same name
  cpu_single_env,       \* the vCPU in cpu_exec, or NoCpu
  next_cpu,
  mutex,                \* the holder of qemu_global_mutex
  iothread_requesting_mutex,
  event,                \* the event descriptor is readable
  select_saw,           \* what the last select found readable
  vpc, ipc,             \* where the TCG thread and the I/O thread are
  op,                   \* what the I/O thread does once all vCPUs are paused
  upc, uenv             \* where each Java thread is, the vCPU it loaded

flags == <<requested, vmstop_requested, no_reboot, no_shutdown>>
stops == <<stop, stopped>>
tcg == <<exit_request, cpu_single_env, next_cpu>>
lock == <<mutex, iothread_requesting_mutex>>
poll == <<event, select_saw>>
ui == <<upc, uenv>>
vars == <<runstate, flags, stops, halted, env_exit, tcg, lock, poll,
          vpc, ipc, op, ui>>

Cpus == 1..NCPU
NoCpu == 0
Requests == {"debug", "suspend", "shutdown", "reset", "powerdown"}
NoOp == [kind |-> "none", state |-> "max", next |-> "top"]

RunStates == {"prelaunch", "running", "paused", "io-error", "save-vm",
              "restore-vm", "shutdown", "suspended", "debug"}
Transitions ==   \* runstate_transitions_def, for these states
  ({"prelaunch", "paused", "io-error", "save-vm", "restore-vm", "suspended",
    "debug"} \X {"running"})
    \cup ({"running"} \X {"debug", "io-error", "paused", "restore-vm",
                          "save-vm", "shutdown", "suspended"})
    \cup {<<"shutdown", "paused">>, <<"debug", "suspended">>}

VcpuPlaces == {"start_wait", "start_woken", "next", "enter", "entered",
               "boundary", "guest", "clear", "wait", "halt_wait",
               "halt_woken", "proceed", "proceed_wait", "proceed_woken"}
Checks == {"debug", "suspend", "shutdown", "reset", "powerdown", "vmstop"}
IoPlaces == Checks \cup
  {"boot", "top", "select", "trylock", "kick", "lock", "handlers", "drain",
   "timers", "pause_check", "pause_sleep", "pause_wait", "pause_woken",
   "saving", "loading", "exited", "aborted"}
Loads == {"load_stop", "load_stopped", "load_exit"}
UiPlaces == Loads \cup {"idle", "test", "stop", "stopped", "exit", "signal",
                       "notify", "crashed"}

Init ==
  /\ runstate = "prelaunch" /\ requested = {} /\ vmstop_requested = "max"
  /\ no_reboot \in BOOLEAN /\ no_shutdown \in BOOLEAN
  /\ stop = [c \in Cpus |-> FALSE] /\ stopped = [c \in Cpus |-> TRUE]
  /\ halted = [c \in Cpus |-> c # 1] /\ env_exit = [c \in Cpus |-> FALSE]
  /\ exit_request = FALSE /\ cpu_single_env = NoCpu /\ next_cpu = NoCpu
  /\ mutex = "io" /\ iothread_requesting_mutex = FALSE
  /\ event = FALSE /\ select_saw = {}
  /\ vpc = "start_wait" /\ ipc = "boot" /\ op = NoOp
  /\ upc = [u \in UiThreads |-> "idle"] /\ uenv = [u \in UiThreads |-> NoCpu]

Alive ==
  /\ ipc \notin {"exited", "aborted"}
  /\ \A u \in UiThreads : upc[u] # "crashed"

-----------------------------------------------------------------------------
(* Condition variables and requests.                                       *)

Kicked ==   \* qemu_cpu_kick: broadcast of halt_cond
  CASE vpc = "halt_wait" -> "halt_woken"
    [] vpc = "start_wait" -> "start_woken"
    [] OTHER -> vpc

Proceeded == IF vpc = "proceed_wait" THEN "proceed_woken" ELSE vpc

PauseSignalled == IF ipc = "pause_wait" THEN "pause_woken" ELSE ipc

Request(r) == requested' = requested \cup {r}

ResetRequest == Request(IF no_reboot THEN "shutdown" ELSE "reset")

-----------------------------------------------------------------------------
(* The TCG thread: qemu_tcg_cpu_thread_fn.                                 *)

CpuAfter_NoEnd(c) == c + 1     \* fault: the list of vCPUs has no end

CpuAfter(c) == IF c < NCPU THEN c + 1 ELSE NoCpu

FirstOrNext == IF next_cpu = NoCpu THEN 1 ELSE next_cpu

CanRun_AnyState(c) == ~stop[c] /\ ~stopped[c]   \* fault: no run state check

CanRun(c) == ~stop[c] /\ ~stopped[c] /\ runstate = "running"

AllIdle ==
  \A c \in Cpus :
    ~stop[c] /\ (stopped[c] \/ runstate # "running" \/ halted[c])

(* qemu_wait_io_event_common, for every vCPU.                              *)
AnswerStop_NoSignal ==   \* fault: qemu_pause_cond is not signalled
  /\ stopped' = [c \in Cpus |-> stopped[c] \/ stop[c]]
  /\ stop' = [c \in Cpus |-> FALSE]
  /\ ipc' = ipc

AnswerStop ==
  /\ stopped' = [c \in Cpus |-> stopped[c] \/ stop[c]]
  /\ stop' = [c \in Cpus |-> FALSE]
  /\ ipc' = IF \E c \in Cpus : stop[c] THEN PauseSignalled ELSE ipc

(* The wait for the initial kick-off.                                      *)
VcpuStart ==
  /\ vpc = "start_woken" /\ mutex = "none"
  /\ AnswerStop
  /\ IF stopped'[1]
     THEN vpc' = "start_wait" /\ UNCHANGED <<mutex, next_cpu>>
     ELSE vpc' = "next" /\ mutex' = "vcpu" /\ next_cpu' = FirstOrNext
  /\ UNCHANGED <<runstate, flags, halted, env_exit, exit_request,
                 cpu_single_env, iothread_requesting_mutex, poll, op, ui>>

(* The loop of tcg_exec_all, up to the call of cpu_exec.                   *)
NextCpu ==
  /\ vpc = "next"
  /\ LET c == next_cpu
         done == c = NoCpu \/ exit_request
     IN \/ done /\ vpc' = "clear" /\ UNCHANGED next_cpu
        \/ /\ ~done /\ (stop[c] \/ stopped[c])
           /\ vpc' = "clear" /\ UNCHANGED next_cpu
        \/ /\ ~done /\ CanRun(c) /\ ~halted[c]
           /\ vpc' = "enter" /\ UNCHANGED next_cpu
        \/ /\ ~done /\ ~stop[c] /\ ~stopped[c] /\ (CanRun(c) => halted[c])
           /\ next_cpu' = CpuAfter(c) /\ UNCHANGED vpc
  /\ UNCHANGED <<runstate, flags, stops, halted, env_exit, exit_request,
                 cpu_single_env, lock, poll, ipc, op, ui>>

(* The start of cpu_exec: publish the vCPU, then look at exit_request.     *)
Enter ==
  /\ vpc = "enter"
  /\ cpu_single_env' = next_cpu /\ vpc' = "entered"
  /\ UNCHANGED <<runstate, flags, stops, halted, env_exit, exit_request,
                 next_cpu, lock, poll, ipc, op, ui>>

TakeExitRequest ==
  /\ vpc = "entered" /\ vpc' = "boundary"
  /\ env_exit' = [env_exit EXCEPT ![cpu_single_env] = @ \/ exit_request]
  /\ UNCHANGED <<runstate, flags, stops, halted, tcg, lock, poll, ipc, op, ui>>

(* Between translation blocks: leave cpu_exec or run the next block.       *)
LeaveGuest ==
  /\ cpu_single_env' = NoCpu /\ next_cpu' = CpuAfter(next_cpu)
  /\ vpc' = "next"

Boundary ==
  /\ vpc = "boundary"
  /\ \/ /\ env_exit[cpu_single_env] /\ LeaveGuest
        /\ env_exit' = [env_exit EXCEPT ![cpu_single_env] = FALSE]
     \/ /\ ~env_exit[cpu_single_env] /\ vpc' = "guest"
        /\ UNCHANGED <<env_exit, cpu_single_env, next_cpu>>
  /\ UNCHANGED <<runstate, flags, stops, halted, exit_request, lock, poll,
                 ipc, op, ui>>

BlockDone ==
  /\ vpc = "guest" /\ vpc' = "boundary"
  /\ UNCHANGED <<runstate, flags, stops, halted, env_exit, tcg, lock, poll,
                 ipc, op, ui>>

(* cpu_stop_current, called by a device on the TCG thread.                 *)
StopSelf ==
  /\ stop' = [stop EXCEPT ![cpu_single_env] = FALSE]
  /\ stopped' = [stopped EXCEPT ![cpu_single_env] = TRUE]
  /\ env_exit' = [env_exit EXCEPT ![cpu_single_env] = TRUE]
  /\ ipc' = PauseSignalled

(* The requests a device makes for the guest.                              *)
GuestRequest ==
  /\ vpc = "guest" /\ event' = TRUE
  /\ \/ /\ "reset" \in GuestOps /\ ResetRequest /\ StopSelf
        /\ UNCHANGED vmstop_requested
     \/ /\ "suspend" \in GuestOps /\ runstate # "suspended"
        /\ Request("suspend") /\ StopSelf /\ UNCHANGED vmstop_requested
     \/ /\ "shutdown" \in GuestOps /\ Request("shutdown")
        /\ UNCHANGED <<stops, env_exit, ipc, vmstop_requested>>
     \/ /\ "io-error" \in GuestOps /\ vmstop_requested' = "io-error"
        /\ StopSelf /\ UNCHANGED requested     \* vm_stop, off the I/O thread
  /\ UNCHANGED <<runstate, no_reboot, no_shutdown, halted, tcg, lock,
                 select_saw, vpc, op, ui>>

GuestHalt ==
  /\ vpc = "guest" /\ "halt" \in GuestOps
  /\ halted' = [halted EXCEPT ![cpu_single_env] = TRUE] /\ LeaveGuest
  /\ UNCHANGED <<runstate, flags, stops, env_exit, exit_request, lock, poll,
                 ipc, op, ui>>

GuestInterruptsOther ==
  /\ vpc = "guest" /\ "ipi" \in GuestOps
  /\ \E c \in Cpus : halted[c] /\ halted' = [halted EXCEPT ![c] = FALSE]
  /\ UNCHANGED <<runstate, flags, stops, env_exit, tcg, lock, poll, vpc, ipc,
                 op, ui>>

(* EXCP_DEBUG: cpu_handle_guest_debug, and out of the loop.                *)
GuestDebug ==
  /\ vpc = "guest" /\ "debug" \in GuestOps
  /\ Request("debug") /\ event' = TRUE
  /\ stopped' = [stopped EXCEPT ![cpu_single_env] = TRUE]
  /\ cpu_single_env' = NoCpu /\ vpc' = "clear"
  /\ UNCHANGED <<runstate, vmstop_requested, no_reboot, no_shutdown, stop,
                 halted, env_exit, exit_request, next_cpu, lock, select_saw, ipc, op,
                 ui>>

ClearExitRequest ==
  /\ vpc = "clear" /\ vpc' = "wait" /\ exit_request' = FALSE
  /\ UNCHANGED <<runstate, flags, stops, halted, env_exit, cpu_single_env,
                 next_cpu, lock, poll, ipc, op, ui>>

(* qemu_tcg_wait_io_event: sleep while idle, let the I/O thread through,   *)
(* then answer stop requests.                                              *)
WaitIoEvent ==
  /\ vpc = "wait"
  /\ IF AllIdle THEN vpc' = "halt_wait" /\ mutex' = "none"
                ELSE vpc' = "proceed" /\ UNCHANGED mutex
  /\ UNCHANGED <<runstate, flags, stops, halted, env_exit, tcg,
                 iothread_requesting_mutex, poll, ipc, op, ui>>

Proceed ==
  /\ vpc = "proceed"
  /\ \/ /\ iothread_requesting_mutex
        /\ vpc' = "proceed_wait" /\ mutex' = "none"
        /\ UNCHANGED <<stops, next_cpu, ipc>>
     \/ /\ ~iothread_requesting_mutex /\ AnswerStop
        /\ vpc' = "next" /\ next_cpu' = FirstOrNext /\ UNCHANGED mutex
  /\ UNCHANGED <<runstate, flags, halted, env_exit, exit_request,
                 cpu_single_env, iothread_requesting_mutex, poll, op, ui>>

VcpuLock ==
  /\ mutex = "none" /\ mutex' = "vcpu"
  /\ \/ vpc = "halt_woken" /\ vpc' = "wait"
     \/ vpc = "proceed_woken" /\ vpc' = "proceed"
  /\ UNCHANGED <<runstate, flags, stops, halted, env_exit, tcg,
                 iothread_requesting_mutex, poll, ipc, op, ui>>

-----------------------------------------------------------------------------
(* What the I/O thread's steps are built from.                             *)

SetRunState(state, next) ==   \* runstate_set: aborts if not a transition
  IF <<runstate, state>> \in Transitions
  THEN runstate' = state /\ ipc' = next
  ELSE ipc' = "aborted" /\ UNCHANGED runstate

Resume_NotKicked ==   \* fault: the sleeping TCG thread is not woken
  /\ stop' = [c \in Cpus |-> FALSE] /\ stopped' = [c \in Cpus |-> FALSE]
  /\ vpc' = vpc

Resume ==   \* resume_all_vcpus
  /\ stop' = [c \in Cpus |-> FALSE] /\ stopped' = [c \in Cpus |-> FALSE]
  /\ vpc' = Kicked

VmStart(next) ==   \* vm_start
  IF runstate = "running"
  THEN ipc' = next /\ UNCHANGED <<runstate, stops, vpc>>
  ELSE SetRunState("running", next) /\ Resume

BeginPause(then) ==   \* pause_all_vcpus, until it first looks at the vCPUs
  /\ stop' = [c \in Cpus |-> TRUE] /\ vpc' = Kicked
  /\ ipc' = "pause_check" /\ op' = then
  /\ UNCHANGED stopped

VmStop_NoPause(kind, state, next) ==   \* fault: does not wait for the vCPUs
  IF runstate = "running" /\ kind = "stop"
  THEN SetRunState(state, next) /\ UNCHANGED <<stops, vpc, op>>
  ELSE ipc' = next /\ UNCHANGED <<runstate, stops, vpc, op>>

VmStop(kind, state, next) ==   \* do_vm_stop, and the savevm around it
  /\ IF runstate = "running"
     THEN BeginPause([kind |-> kind, state |-> state, next |-> next])
     ELSE ipc' = next /\ UNCHANGED <<stops, vpc, op>>
  /\ UNCHANGED runstate

SystemReset ==   \* the CPU's reset handler: only the boot processor runs
  halted' = [c \in Cpus |-> c # 1]

-----------------------------------------------------------------------------
(* The I/O thread: main_loop and main_loop_wait.                           *)

(* The end of main: load the snapshot, start the machine if wanted.        *)
Boot ==
  /\ ipc = "boot"
  /\ Resume
  /\ \/ SetRunState("running", "top")
     \/ ipc' = "top" /\ UNCHANGED runstate
  /\ UNCHANGED <<flags, halted, env_exit, tcg, lock, poll, op, ui>>

Selected(saw) == event <=> "event" \in saw

(* After an iteration that found something, select only polls and the      *)
(* mutex is kept; otherwise the mutex is released while select blocks.     *)
Poll ==
  /\ ipc = "top" /\ select_saw # {}
  /\ select_saw' \in {saw \in SUBSET {"event", "fd"} : Selected(saw)}
  /\ ipc' = "handlers"
  /\ UNCHANGED <<runstate, flags, stops, halted, env_exit, tcg, lock, event,
                 vpc, op, ui>>

Block ==
  /\ ipc = "top" /\ select_saw = {}
  /\ mutex' = "none" /\ ipc' = "select"
  /\ UNCHANGED <<runstate, flags, stops, halted, env_exit, tcg,
                 iothread_requesting_mutex, poll, vpc, op, ui>>

(* select returns: for the event, another descriptor or the timeout.       *)
SelectReturns ==
  /\ ipc = "select" /\ ipc' = "trylock"
  /\ select_saw' \in {saw \in SUBSET {"event", "fd"} : Selected(saw)}
  /\ iothread_requesting_mutex' = TRUE
  /\ UNCHANGED <<runstate, flags, stops, halted, env_exit, tcg, mutex, event,
                 vpc, op, ui>>

(* qemu_mutex_lock_iothread.                                               *)
Acquire ==
  /\ mutex = "none" /\ mutex' = "io"
  /\ iothread_requesting_mutex' = FALSE /\ vpc' = Proceeded
  /\ ipc' = "handlers"

TryLock ==
  /\ ipc = "trylock"
  /\ \/ Acquire
     \/ mutex # "none" /\ ipc' = "kick" /\ UNCHANGED <<lock, vpc>>
  /\ UNCHANGED <<runstate, flags, stops, halted, env_exit, tcg, poll, op, ui>>

Kick ==   \* SIG_IPI: cpu_signal runs on the TCG thread
  /\ ipc = "kick" /\ ipc' = "lock"
  /\ exit_request' = TRUE
  /\ env_exit' = [c \in Cpus |-> env_exit[c] \/ c = cpu_single_env]
  /\ UNCHANGED <<runstate, flags, stops, halted, cpu_single_env, next_cpu,
                 lock, poll, vpc, op, ui>>

IoLock ==
  /\ ipc = "lock" /\ Acquire
  /\ UNCHANGED <<runstate, flags, stops, halted, env_exit, tcg, poll, op, ui>>

(* qemu_event_read runs after the other handlers: it was registered first. *)
Drain ==
  /\ ipc = "drain" /\ ipc' = "timers"
  /\ event' = (event /\ "event" \notin select_saw)
  /\ UNCHANGED <<runstate, flags, stops, halted, env_exit, tcg, lock,
                 select_saw, vpc, op, ui>>

NextPlace == IF ipc = "handlers" THEN "drain" ELSE "debug"

NoHandler ==
  /\ ipc \in {"handlers", "timers"} /\ ipc' = NextPlace
  /\ UNCHANGED <<runstate, flags, stops, halted, env_exit, tcg, lock, poll,
                 vpc, op, ui>>

(* Handlers that stop the machine: the monitor's stop, savevm and loadvm,  *)
(* and the disk whose request failed.                                      *)
StopHandler ==
  /\ ipc \in {"handlers", "timers"}
  /\ \/ "stop" \in IoOps /\ VmStop("stop", "paused", NextPlace)
     \/ "io-error" \in IoOps /\ VmStop("stop", "io-error", NextPlace)
     \/ "savevm" \in IoOps /\ VmStop("savevm", "save-vm", NextPlace)
     \/ /\ "loadvm" \in IoOps /\ runstate = "running"
        /\ VmStop("loadvm", "restore-vm", NextPlace)
  /\ UNCHANGED <<flags, halted, env_exit, tcg, lock, poll, ui>>

(* do_loadvm of a machine that is not running.                             *)
LoadHandler ==
  /\ ipc \in {"handlers", "timers"} /\ ipc' = NextPlace
  /\ "loadvm" \in IoOps /\ runstate # "running"
  /\ halted' \in [Cpus -> BOOLEAN]
  /\ UNCHANGED <<runstate, flags, stops, env_exit, tcg, lock, poll, vpc, op,
                 ui>>

Cont_AfterShutdown ==   \* fault: does not ask for a reset first
  /\ "cont" \in IoOps /\ runstate # "suspended" /\ VmStart(NextPlace)
  /\ UNCHANGED <<requested, event>>

Cont ==
  /\ "cont" \in IoOps
  /\ runstate \notin {"shutdown", "suspended"} /\ VmStart(NextPlace)
  /\ UNCHANGED <<requested, event>>

Wakeup ==
  /\ "system_wakeup" \in IoOps /\ runstate = "suspended"
  /\ SetRunState("running", NextPlace)
  /\ Request("reset") /\ event' = TRUE /\ UNCHANGED <<stops, vpc>>

StartHandler ==
  /\ ipc \in {"handlers", "timers"} /\ (Cont \/ Wakeup)
  /\ UNCHANGED <<vmstop_requested, no_reboot, no_shutdown, halted, env_exit,
                 tcg, lock, select_saw, op, ui>>

(* Handlers that leave a request.  cpu_stop_current finds no vCPU: the TCG *)
(* thread is outside cpu_exec while the I/O thread has the mutex.          *)
RequestHandler ==
  /\ ipc \in {"handlers", "timers"} /\ ipc' = NextPlace /\ event' = TRUE
  /\ \/ "system_reset" \in IoOps /\ ResetRequest /\ UNCHANGED no_shutdown
     \/ /\ "system_powerdown" \in IoOps /\ Request("powerdown")
        /\ UNCHANGED no_shutdown
     \/ "quit" \in IoOps /\ Request("shutdown") /\ no_shutdown' = FALSE
  /\ UNCHANGED <<runstate, no_reboot, vmstop_requested, stops, halted,
                 env_exit, tcg, lock, select_saw, vpc, op, ui>>

(* A device interrupts a halted vCPU: tcg_handle_interrupt.                *)
InterruptHandler ==
  /\ ipc \in {"handlers", "timers"} /\ ipc' = NextPlace
  /\ "interrupt" \in IoOps
  /\ \E c \in Cpus : halted[c] /\ halted' = [halted EXCEPT ![c] = FALSE]
  /\ vpc' = Kicked
  /\ UNCHANGED <<runstate, flags, stops, env_exit, tcg, lock, poll, op, ui>>

-----------------------------------------------------------------------------
(* pause_all_vcpus, after it has asked every vCPU to stop.                 *)

PauseSleep ==   \* some vCPU runs: release the mutex until it answers
  \/ /\ ipc = "pause_check" /\ \E c \in Cpus : ~stopped[c]
     /\ ipc' = "pause_sleep"
     /\ UNCHANGED <<runstate, flags, stops, halted, env_exit, tcg, lock, poll,
                    vpc, op, ui>>
  \/ /\ ipc = "pause_sleep" /\ ipc' = "pause_wait" /\ mutex' = "none"
     /\ UNCHANGED <<runstate, flags, stops, halted, env_exit, tcg,
                    iothread_requesting_mutex, poll, vpc, op, ui>>

PauseAgain ==
  /\ ipc = "pause_woken" /\ mutex = "none" /\ mutex' = "io"
  /\ ipc' = "pause_check" /\ vpc' = Kicked
  /\ UNCHANGED <<runstate, flags, stops, halted, env_exit, tcg,
                 iothread_requesting_mutex, poll, op, ui>>

ResetDone_NotResumed ==   \* fault: resume_all_vcpus is missing
  /\ op.kind = "reset" /\ SystemReset
  /\ UNCHANGED <<stops, vpc>>
  /\ IF runstate = "shutdown" THEN SetRunState("paused", op.next)
                              ELSE ipc' = op.next /\ UNCHANGED runstate

ResetDone ==
  /\ op.kind = "reset" /\ SystemReset /\ Resume
  /\ IF runstate = "shutdown" THEN SetRunState("paused", op.next)
                              ELSE ipc' = op.next /\ UNCHANGED runstate

(* Every vCPU is stopped: do what they were stopped for.                   *)
PauseDone ==
  /\ ipc = "pause_check" /\ \A c \in Cpus : stopped[c]
  /\ \/ /\ op.kind \in {"stop", "suspend"} /\ SetRunState(op.state, op.next)
        /\ UNCHANGED <<stops, halted, vpc>>
     \/ /\ op.kind = "savevm" /\ SetRunState(op.state, "saving")
        /\ UNCHANGED <<stops, halted, vpc>>
     \/ /\ op.kind = "loadvm" /\ SetRunState(op.state, "loading")
        /\ UNCHANGED <<stops, halted, vpc>>
     \/ ResetDone
  /\ op' = IF ipc' \in {"saving", "loading"} THEN op ELSE NoOp
  /\ UNCHANGED <<flags, env_exit, tcg, lock, poll, ui>>

(* do_savevm and do_loadvm of a machine that was running, once stopped.    *)
SaveOrLoad ==
  /\ \/ ipc = "saving" /\ VmStart(op.next) /\ UNCHANGED halted
     \/ ipc = "loading" /\ VmStart(op.next) /\ halted' \in [Cpus -> BOOLEAN]
     \/ /\ ipc = "loading" /\ ipc' = op.next    \* load_vmstate failed
        /\ halted' \in [Cpus -> BOOLEAN]
        /\ UNCHANGED <<runstate, stops, vpc>>
  /\ op' = NoOp
  /\ UNCHANGED <<flags, env_exit, tcg, lock, poll, ui>>

-----------------------------------------------------------------------------
(* main_loop_should_exit, one check after the other.                       *)

AfterCheck_Early ==   \* fault: a reset ends the round of checks
  CASE ipc = "debug" -> "suspend" [] ipc = "suspend" -> "shutdown"
    [] ipc = "shutdown" -> "reset" [] ipc = "reset" -> "top"

AfterCheck ==
  CASE ipc = "debug" -> "suspend" [] ipc = "suspend" -> "shutdown"
    [] ipc = "shutdown" -> "reset" [] ipc = "reset" -> "powerdown"
    [] ipc = "powerdown" -> "vmstop" [] ipc = "vmstop" -> "top"

Pending == IF ipc = "vmstop" THEN vmstop_requested # "max"
                             ELSE ipc \in requested

NotRequested ==
  /\ ipc \in Checks /\ ~Pending /\ ipc' = AfterCheck
  /\ UNCHANGED <<runstate, flags, stops, halted, env_exit, tcg, lock, poll,
                 vpc, op, ui>>

ThenDo(kind) == [kind |-> kind, next |-> AfterCheck,
                 state |-> IF kind = "suspend" THEN "suspended" ELSE "max"]

HandleStop ==   \* vm_stop for a debug exception or a vmstop request
  /\ \/ ipc = "debug" /\ VmStop("stop", "debug", AfterCheck)
     \/ ipc = "vmstop" /\ VmStop("stop", vmstop_requested, AfterCheck)
  /\ UNCHANGED halted

HandlePause ==
  /\ ipc \in {"suspend", "reset"} /\ BeginPause(ThenDo(ipc))
  /\ UNCHANGED <<runstate, halted>>

HandleShutdown ==
  /\ ipc = "shutdown"
  /\ IF no_shutdown THEN VmStop("stop", "shutdown", AfterCheck)
     ELSE ipc' = "exited" /\ UNCHANGED <<runstate, stops, vpc, op>>
  /\ UNCHANGED halted

HandlePowerdown ==   \* raises the ACPI interrupt, if the board has one
  /\ ipc = "powerdown" /\ ipc' = AfterCheck
  /\ \/ halted' = [halted EXCEPT ![1] = FALSE] /\ vpc' = Kicked
     \/ UNCHANGED <<halted, vpc>>
  /\ UNCHANGED <<runstate, stops, op>>

Requested ==
  /\ ipc \in Checks /\ Pending
  /\ requested' = requested \ {ipc}
  /\ vmstop_requested' = IF ipc = "vmstop" THEN "max" ELSE vmstop_requested
  /\ HandleStop \/ HandlePause \/ HandleShutdown \/ HandlePowerdown
  /\ UNCHANGED <<no_reboot, no_shutdown, env_exit, tcg, lock, poll, ui>>

-----------------------------------------------------------------------------
(* The Java threads: stop_vm, without the mutex.  cpu_stop_current names    *)
(* the plain global cpu_single_env four times, and each is a load of its   *)
(* own: the code is compiled with -fno-strict-aliasing, so the stores      *)
(* through the pointer may change it.                                      *)

UiGo(u, place) == upc' = [upc EXCEPT ![u] = place]

UiRequest(u) ==
  /\ upc[u] = "idle" /\ UiGo(u, "test")
  /\ \E r \in UiOps : Request(r)
  /\ UNCHANGED <<runstate, vmstop_requested, no_reboot, no_shutdown, stops,
                 halted,
                 env_exit, tcg, lock, poll, vpc, ipc, op, uenv>>

UiTest(u) ==
  /\ upc[u] = "test"
  /\ UiGo(u, IF cpu_single_env = NoCpu THEN "notify" ELSE "load_stop")
  /\ UNCHANGED <<runstate, flags, stops, halted, env_exit, tcg, lock, poll,
                 vpc, ipc, op, uenv>>

AfterLoad(u) == CASE upc[u] = "load_stop" -> "stop"
                  [] upc[u] = "load_stopped" -> "stopped"
                  [] upc[u] = "load_exit" -> "exit"

UiLoad(u) ==   \* of NULL: the access through it ends the process
  /\ upc[u] \in Loads
  /\ UiGo(u, IF cpu_single_env = NoCpu THEN "crashed" ELSE AfterLoad(u))
  /\ uenv' = [uenv EXCEPT ![u] = cpu_single_env]
  /\ UNCHANGED <<runstate, flags, stops, halted, env_exit, tcg, lock, poll,
                 vpc, ipc, op>>

UiStop(u) ==
  /\ \/ /\ upc[u] = "stop" /\ UiGo(u, "load_stopped")
        /\ stop' = [stop EXCEPT ![uenv[u]] = FALSE] /\ UNCHANGED stopped
     \/ /\ upc[u] = "stopped" /\ UiGo(u, "load_exit")
        /\ stopped' = [stopped EXCEPT ![uenv[u]] = TRUE] /\ UNCHANGED stop
  /\ UNCHANGED <<runstate, flags, halted, env_exit, tcg, lock, poll, vpc, ipc,
                 op, uenv>>

UiExit(u) ==   \* cpu_exit
  /\ upc[u] = "exit" /\ UiGo(u, "signal")
  /\ env_exit' = [env_exit EXCEPT ![uenv[u]] = TRUE]
  /\ UNCHANGED <<runstate, flags, stops, halted, tcg, lock, poll, vpc, ipc, op,
                 uenv>>

UiSignal(u) ==   \* qemu_pause_cond
  /\ upc[u] = "signal" /\ UiGo(u, "notify") /\ ipc' = PauseSignalled
  /\ UNCHANGED <<runstate, flags, stops, halted, env_exit, tcg, lock, poll,
                 vpc, op, uenv>>

UiNotify_NoEvent(u) ==   \* fault: qemu_notify_event is missing
  /\ upc[u] = "notify" /\ UiGo(u, "idle")
  /\ uenv' = [uenv EXCEPT ![u] = NoCpu]
  /\ UNCHANGED <<runstate, flags, stops, halted, env_exit, tcg, lock, poll,
                 vpc, ipc, op>>

UiNotify(u) ==
  /\ upc[u] = "notify" /\ UiGo(u, "idle")
  /\ event' = TRUE /\ uenv' = [uenv EXCEPT ![u] = NoCpu]
  /\ UNCHANGED <<runstate, flags, stops, halted, env_exit, tcg, lock,
                 select_saw, vpc, ipc, op>>

-----------------------------------------------------------------------------
VcpuStep ==
  \/ VcpuStart \/ NextCpu \/ Enter \/ TakeExitRequest \/ Boundary
  \/ ClearExitRequest \/ WaitIoEvent \/ Proceed \/ VcpuLock

GuestStep ==
  BlockDone \/ GuestRequest \/ GuestHalt \/ GuestInterruptsOther \/ GuestDebug

Handlers ==
  \/ NoHandler \/ StopHandler \/ LoadHandler \/ StartHandler
  \/ RequestHandler \/ InterruptHandler

IoStep ==
  \/ Boot \/ Poll \/ Block \/ TryLock \/ Kick \/ IoLock \/ Handlers \/ Drain
  \/ PauseSleep \/ PauseAgain \/ PauseDone \/ SaveOrLoad
  \/ NotRequested \/ Requested

UiStep(u) ==
  UiTest(u) \/ UiLoad(u) \/ UiStop(u) \/ UiExit(u) \/ UiSignal(u) \/ UiNotify(u)

(* The process is gone: exit after main_loop, abort, or a crash.           *)
Gone == ~Alive /\ UNCHANGED vars

Next ==
  \/ Alive /\ (VcpuStep \/ GuestStep)
  \/ Alive /\ (IoStep \/ SelectReturns)
  \/ \E u \in UiThreads : Alive /\ (UiRequest(u) \/ UiStep(u))
  \/ Gone

Spec == Init /\ [][Next]_vars

(* Every thread is scheduled; a translation block ends; select returns     *)
(* when the event descriptor is readable.  Nothing makes a guest, a        *)
(* monitor user or an app user ask for anything.                           *)
Fairness ==
  /\ WF_vars(Alive /\ VcpuStep)
  /\ WF_vars(Alive /\ BlockDone)
  /\ WF_vars(Alive /\ IoStep)
  /\ WF_vars(Alive /\ event /\ SelectReturns)
  /\ \A u \in UiThreads : WF_vars(Alive /\ UiStep(u))

FairSpec == Spec /\ Fairness

-----------------------------------------------------------------------------
(* Properties.                                                             *)

(* Every variable keeps its type, and each vCPU a Java thread or the TCG   *)
(* thread works on exists.                                                 *)
TypeOK ==
  /\ runstate \in RunStates /\ requested \subseteq Requests
  /\ vmstop_requested \in {"io-error", "max"}
  /\ no_reboot \in BOOLEAN /\ no_shutdown \in BOOLEAN
  /\ stop \in [Cpus -> BOOLEAN] /\ stopped \in [Cpus -> BOOLEAN]
  /\ halted \in [Cpus -> BOOLEAN] /\ env_exit \in [Cpus -> BOOLEAN]
  /\ exit_request \in BOOLEAN
  /\ cpu_single_env \in Cpus \cup {NoCpu} /\ next_cpu \in Cpus \cup {NoCpu}
  /\ mutex \in {"none", "io", "vcpu"} /\ iothread_requesting_mutex \in BOOLEAN
  /\ event \in BOOLEAN /\ select_saw \subseteq {"event", "fd"}
  /\ vpc \in VcpuPlaces /\ ipc \in IoPlaces
  /\ op \in [kind : {"none", "stop", "savevm", "loadvm", "suspend", "reset"},
             state : RunStates \cup {"max"}, next : Checks \cup {"top", "drain"}]
  /\ upc \in [UiThreads -> UiPlaces] /\ uenv \in [UiThreads -> Cpus \cup {NoCpu}]
  /\ vpc \in {"enter", "entered", "boundary", "guest"} => next_cpu \in Cpus
  /\ vpc \in {"entered", "boundary", "guest"} <=> cpu_single_env # NoCpu
  /\ \A u \in UiThreads : upc[u] \in {"stop", "stopped", "exit"} => uenv[u] # NoCpu

(* The guest executes nothing while the machine is in a state other than   *)
(* RUNNING, however it got there: cpu_can_run and the pauses around every  *)
(* change of state.                                                        *)
GuestOnlyWhenRunning ==
  vpc \in {"enter", "entered", "boundary", "guest"} => runstate = "running"

(* The request of the I/O thread for the mutex is never lost: a guest that *)
(* runs after the signal was sent has an exit request it has yet to see,   *)
(* wherever cpu_exec was when the signal arrived.                          *)
ExitNotLost ==
  ipc = "lock" =>
    /\ vpc \in {"boundary", "guest"} => env_exit[cpu_single_env]
    /\ vpc = "entered" => exit_request \/ env_exit[cpu_single_env]
    /\ vpc = "enter" => exit_request

(* When the I/O thread sleeps in pause_all_vcpus some vCPU still has to    *)
(* answer: the last answer cannot have been given before the I/O thread    *)
(* slept.                                                                  *)
PauseAnswered == ipc = "pause_wait" => \E c \in Cpus : stop[c] /\ ~stopped[c]

(* No Java thread goes through cpu_single_env while it is NULL: cpu-exec.c *)
(* clears it so that it is never used outside cpu_exec.                    *)
NeverUsedOutside == \A u \in UiThreads : upc[u] # "crashed"

(* While the I/O thread sleeps in select, every request left for it comes  *)
(* with a notification, sent or about to be sent: set the flag first, then *)
(* notify; drain first, then look at the flags.                            *)
NoLostNotify ==
  ipc = "select" /\ (requested # {} \/ vmstop_requested # "max") =>
    event \/ \E u \in UiThreads : upc[u] # "idle"

(* Neither the I/O thread's request for the mutex nor a request left for it*)
(* is missed, also when Java threads interfere.                            *)
NothingMissed == ExitNotLost /\ NoLostNotify

(* No frozen machine: if the machine is RUNNING and the I/O thread has     *)
(* nothing to do, then no vCPU is left stopped.                            *)
NoFrozenCpu ==
  ipc = "select" /\ runstate = "running" /\ requested = {} /\ vmstop_requested = "max"
    /\ (\A u \in UiThreads : upc[u] = "idle")
  => \A c \in Cpus : ~stopped[c] /\ ~stop[c]

(* runstate_set is never asked for a transition missing from the table, so *)
(* its abort is unreachable.                                               *)
NoAbort == ipc # "aborted"

(* A machine that leaves RUNNING, and one about to be saved, has all its   *)
(* vCPUs stopped and none of them in cpu_exec.                             *)
Quiesced ==
  [][runstate = "running" /\ runstate' # "running"
       => cpu_single_env = NoCpu /\ \A c \in Cpus : stopped'[c]]_vars

(* Every request is taken up by the main loop, unless the process ends.    *)
EveryRequestHandled ==
  /\ \A r \in Requests : r \in requested ~> r \notin requested \/ ~Alive
  /\ vmstop_requested # "max" ~> vmstop_requested = "max" \/ ~Alive

(* A RUNNING machine whose main loop has gone to sleep for good executes   *)
(* the guest over and over, or has every vCPU halted.                      *)
LeftAloneRuns ==
  <>[](ipc = "select" /\ runstate = "running") =>
    []<>(vpc = "guest" \/ \A c \in Cpus : halted[c])

=============================================================================
