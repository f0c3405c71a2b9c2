------------------------------ MODULE Session -------------------------------
(***************************************************************************)
(* A session of the app: the launcher (LimboActivity), the threads it      *)
(* starts the machine on (VMExecutor and vm-executor-jni.c), the viewer    *)
(* that saves the machine's state (LimboVNCActivity, do_savevm), the       *)
(* listeners that show the machine's status, and what outlives the         *)
(* process: the snapshots in the drives' images and those the database     *)
(* lists.                                                                  *)
(*                                                                         *)
(* The UI thread handles the events in `inbox' in their order.  QEMU's     *)
(* main loop runs on the thread that called start(), and the process ends  *)
(* when it does.                                                           *)
(***************************************************************************)
EXTENDS Integers, Sequences

CONSTANTS
  Threads,    \* the threads that call startvm
  Listeners,  \* the threads that onCreate and onResume start
  NDrives,    \* the machine's drives, in the order of bdrv_next
  Names,      \* of snapshots
  None,       \* no name: machines are listed under "" without a snapshot
  Prompt,     \* whether a second is enough for the main loop to take a command
  MayFail,    \* a subset of AllMayFail
  MaxClicks,  \* bound: buttons pressed
  MaxSaves,   \* bound: snapshots asked for
  MaxDeaths   \* bound: ends of the process

AllMayFail == {"lib", "symbol", "delete", "state", "create"}

ASSUME SessionAssumption ==
  /\ Prompt \in BOOLEAN
  /\ NDrives \in Nat \ {0}
  /\ None \notin Names /\ MayFail \subseteq AllMayFail
  /\ MaxClicks \in Nat /\ MaxSaves \in Nat /\ MaxDeaths \in Nat

Drives == 1..NDrives

VARIABLES
  snaps, rows,        \* per drive, the snapshots in its image; those listed
  raw,                \* the drives whose format has no snapshots
  ui, inbox,          \* the activity in front, the UI thread's events
  vmStarted, currMachine,               \* currMachine.snapshot_name
  vmexecutor,         \* {} for null, or the snapshot it was created for
  thread,             \* where each start thread is
  started, handle,    \* of vm-executor-jni.c
  vm, running,        \* the main loop: place, drive, snapshot; the guest
  saving_state,
  monitor, requested, \* commands typed, and requests, not yet handled
  restarting,         \* how many threads are about to restart the machine
  poller,             \* the SaveVM task: its place, the name it saves
  timeQuit, listener, \* of LimboActivity
  failed,             \* the names whose last savevm failed
  clicks, saves, deaths

disk == <<snaps, rows, raw>>
launcher == <<vmStarted, vmexecutor, currMachine>>
executor == <<thread, started, handle>>
qemu == <<vm, running, saving_state>>
todo == <<monitor, requested, restarting>>
status == <<timeQuit, listener>>
ghosts == <<failed, saves, deaths>>
vars == <<disk, ui, inbox, launcher, executor, qemu, todo, poller, status,
          ghosts, clicks>>

Off == [at |-> "off", drive |-> 0, name |-> None, resume |-> FALSE]
NoPoll == [at |-> "none", name |-> None]

(* A new process: the launcher is in front; onCreate and onResume have     *)
(* started a listener each.                                                *)
FreshListeners(k, l) ==
  [x \in Listeners |-> IF x \in {k, l} THEN "new" ELSE "none"]

Init ==
  /\ raw \in {{}, {1}} /\ snaps = [d \in Drives |-> {}] /\ rows = {}
  /\ ui = "console" /\ inbox = <<>>
  /\ vmStarted = FALSE /\ vmexecutor = {} /\ currMachine = None
  /\ thread = [t \in Threads |-> "none"] /\ started = 0 /\ handle = FALSE
  /\ vm = Off /\ running = FALSE /\ saving_state = 0
  /\ monitor = <<>> /\ requested = {} /\ restarting = 0 /\ poller = NoPoll
  /\ timeQuit = FALSE
  /\ \E k, l \in Listeners : k # l /\ listener = FreshListeners(k, l)
  /\ failed = {} /\ clicks = 0 /\ saves = 0 /\ deaths = 0

(* The end of the process leaves the images and the database.              *)
Dies ==
  /\ deaths' = deaths + 1
  /\ ui' = "console" /\ inbox' = <<>>
  /\ vmStarted' = FALSE /\ vmexecutor' = {} /\ currMachine' = None
  /\ thread' = [t \in Threads |-> "none"] /\ started' = 0 /\ handle' = FALSE
  /\ vm' = Off /\ running' = FALSE /\ saving_state' = 0
  /\ monitor' = <<>> /\ requested' = {} /\ restarting' = 0 /\ poller' = NoPoll
  /\ timeQuit' = FALSE
  /\ \E k, l \in Listeners : k # l /\ listener' = FreshListeners(k, l)
  /\ UNCHANGED <<disk, failed, saves, clicks>>

-----------------------------------------------------------------------------
(* The launcher.                                                           *)

Buttons == {"start", "stop", "restart"}

Click ==    \* a button of the launcher, or Shutdown in the viewer
  /\ clicks < MaxClicks /\ clicks' = clicks + 1
  /\ \/ ui = "console" /\ inbox' \in {Append(inbox, b) : b \in Buttons}
     \/ ui = "vnc" /\ inbox' = Append(inbox, "stop")
  /\ UNCHANGED <<disk, ui, launcher, executor, qemu, todo, poller, status,
                 ghosts>>

(* The list of snapshots is disabled while vmStarted.                      *)
SelectSnapshot ==
  /\ ui = "console" /\ ~ vmStarted /\ inbox = <<>>
  /\ currMachine' \in (rows \cup {None}) \ {currMachine}
  /\ UNCHANGED <<disk, ui, inbox, vmStarted, vmexecutor, executor, qemu,
                 todo, poller, status, ghosts, clicks>>

(* The UI thread sleeps while a savevm is typed.                           *)
Event(e) == ui \notin {"typed", "insert"} /\ inbox # <<>> /\ Head(inbox) = e
Handled == inbox' = Tail(inbox)

OnStartButton ==
  /\ Event("start") /\ inbox' = Append(Tail(inbox), "started")
  /\ vmexecutor' = IF vmexecutor = {} THEN {currMachine} ELSE vmexecutor
  /\ IF vmStarted THEN UNCHANGED thread
     ELSE \E t \in Threads : thread[t] = "none"
            /\ thread' = [thread EXCEPT ![t] = "start"]
  /\ UNCHANGED <<disk, ui, vmStarted, currMachine, started, handle, qemu,
                 todo, poller, status, ghosts, clicks>>

OnVmStarted ==
  /\ Event("started") /\ Handled /\ vmStarted' = TRUE
  /\ UNCHANGED <<disk, ui, vmexecutor, currMachine, executor, qemu, todo,
                 poller, status, ghosts, clicks>>

OnVmStopped ==
  /\ Event("stopped") /\ Handled /\ vmStarted' = FALSE
  /\ UNCHANGED <<disk, ui, vmexecutor, currMachine, executor, qemu, todo,
                 poller, status, ghosts, clicks>>

(* stopvm, down to stop_vm: the main loop finds the request.               *)
StopVm(restart) ==
  IF vmexecutor # {} /\ handle
  THEN /\ started' = IF restart THEN 1 ELSE 0
       /\ requested' = requested \cup {IF restart THEN "restart" ELSE "stop"}
  ELSE UNCHANGED <<started, requested>>

OnStopButton ==
  /\ Event("stop") /\ Handled /\ StopVm(FALSE)
  /\ UNCHANGED <<disk, ui, launcher, thread, handle, qemu, monitor,
                 restarting, poller, status, ghosts, clicks>>

OnRestartButton ==
  /\ Event("restart") /\ Handled /\ restarting' = restarting + 1
  /\ UNCHANGED <<disk, ui, launcher, executor, qemu, monitor, requested,
                 poller, status, ghosts, clicks>>

RestartVm ==        \* restartvm, on a thread of its own
  /\ restarting > 0 /\ restarting' = restarting - 1 /\ StopVm(TRUE)
  /\ UNCHANGED <<disk, ui, inbox, launcher, thread, handle, qemu, monitor,
                 poller, status, ghosts, clicks>>

(* startvnc puts the viewer in front, once a start was pressed; the user   *)
(* comes back.  LimboActivity is paused and resumed.                       *)
ShowViewer ==
  /\ ui = "console" /\ vmexecutor # {} /\ ui' = "vnc"
  /\ timeQuit' = TRUE
  /\ UNCHANGED <<disk, inbox, launcher, executor, qemu, todo, poller,
                 listener, ghosts, clicks>>

ShowConsole ==
  /\ ui = "vnc" /\ ui' = "console"
  /\ \E l \in Listeners :
       listener[l] \in {"none", "done"} /\ listener' = [listener EXCEPT ![l] = "new"]
  /\ UNCHANGED <<disk, inbox, launcher, executor, qemu, todo, poller,
                 timeQuit, ghosts, clicks>>

-----------------------------------------------------------------------------
(* start() of vm-executor-jni.c, on its thread.  QEMU runs inside it.      *)

CheckStarted(t) ==
  /\ thread[t] = "start"
  /\ thread' = [thread EXCEPT ![t] = IF started = 1 THEN "return" ELSE "load"]
  /\ UNCHANGED <<disk, ui, inbox, launcher, started, handle, qemu, todo,
                 poller, status, ghosts, clicks>>

(* The library does not load, or lacks a symbol: started stays set.  Only  *)
(* for qemu_start is the library closed, with all it keeps.                *)
LoadLib(t) ==
  /\ thread[t] = "load" /\ started' = 1
  /\ \/ /\ handle' = TRUE /\ thread' = [thread EXCEPT ![t] = "qemu"]
        /\ \E n \in vmexecutor : vm' = [Off EXCEPT !.at = "init", !.name = n]
        /\ UNCHANGED requested
     \/ /\ thread' = [thread EXCEPT ![t] = "return"] /\ UNCHANGED vm
        /\ \/ ~ handle /\ "lib" \in MayFail /\ UNCHANGED <<handle, requested>>
           \/ "symbol" \in MayFail /\ handle' = TRUE /\ UNCHANGED requested
           \/ "symbol" \in MayFail /\ handle' = FALSE /\ requested' = {}
  /\ UNCHANGED <<disk, ui, inbox, launcher, running, saving_state, monitor,
                 restarting, poller, status, ghosts, clicks>>

StartReturns(t) ==
  /\ thread[t] = "return" /\ inbox' = Append(inbox, "stopped")
  /\ thread' = [thread EXCEPT ![t] = "none"]
  /\ UNCHANGED <<disk, ui, launcher, started, handle, qemu, todo, poller,
                 status, ghosts, clicks>>

(* main() of vl.c: a machine whose snapshot cannot be loaded stays stopped.*)
VmInit ==
  /\ vm.at = "init" /\ vm' = [Off EXCEPT !.at = "loop"]
  /\ running' = (vm.name # None => raw = {} /\ \A d \in Drives : vm.name \in snaps[d])
  /\ UNCHANGED <<disk, ui, inbox, launcher, executor, saving_state, todo,
                 poller, status, ghosts, clicks>>

(* Requests; after a shutdown main() returns and start() calls exit.       *)
VmReset ==
  /\ vm.at = "loop" /\ "restart" \in requested
  /\ requested' = requested \ {"restart"}
  /\ UNCHANGED <<disk, ui, inbox, launcher, executor, qemu, monitor,
                 restarting, poller, status, ghosts, clicks>>

VmShutdown == vm.at = "loop" /\ "stop" \in requested /\ Dies

-----------------------------------------------------------------------------
(* do_savevm, in the main loop.                                            *)

CanSnapshot(d) == d \notin raw
VmAt(at) ==
  /\ vm.at = at
  /\ UNCHANGED <<rows, raw, ui, inbox, launcher, executor, requested,
                 restarting, poller, status, saves, deaths, clicks>>
Fails == failed' = failed \cup {vm.name} /\ vm' = [vm EXCEPT !.at = "end"]
NextDrive == IF vm.drive = NDrives THEN 0 ELSE vm.drive + 1

SaveStart_NotStopped ==   \* fault: the guest runs on
  /\ VmAt("loop") /\ raw = {} /\ monitor # <<>> /\ monitor' = Tail(monitor)
  /\ saving_state' = 1
  /\ vm' = [at |-> "delete", drive |-> 1, name |-> Head(monitor), resume |-> running]
  /\ failed' = failed \ {Head(monitor)} /\ UNCHANGED <<running, snaps>>

SaveStart ==
  /\ VmAt("loop") /\ monitor # <<>> /\ monitor' = Tail(monitor)
  /\ saving_state' = 1
  /\ LET n == Head(monitor) IN
     IF raw # {}
     THEN failed' = failed \cup {n} /\ UNCHANGED <<vm, running>>  \* returns
     ELSE /\ vm' = [at |-> "delete", drive |-> 1, name |-> n, resume |-> running]
          /\ running' = FALSE /\ failed' = failed \ {n}
  /\ UNCHANGED snaps

SaveDelete ==
  /\ VmAt("delete")
  /\ \/ /\ snaps' = [snaps EXCEPT ![vm.drive] = @ \ {vm.name}]
        /\ vm' = IF NextDrive = 0 THEN [vm EXCEPT !.at = "state"]
                 ELSE [vm EXCEPT !.drive = NextDrive]
        /\ UNCHANGED failed
     \/ /\ vm.name \in snaps[vm.drive] /\ "delete" \in MayFail
        /\ Fails /\ UNCHANGED snaps
  /\ UNCHANGED <<running, saving_state, monitor>>

SaveState_Cleared ==   \* fault: saving_state is cleared before the snapshots
  /\ VmAt("state") /\ saving_state' = 0
  /\ vm' = [vm EXCEPT !.at = "create", !.drive = 1]
  /\ UNCHANGED <<snaps, running, monitor, failed>>

SaveState ==
  /\ VmAt("state")
  /\ \/ vm' = [vm EXCEPT !.at = "create", !.drive = 1] /\ UNCHANGED failed
     \/ "state" \in MayFail /\ Fails
  /\ UNCHANGED <<snaps, running, saving_state, monitor>>

(* A snapshot that cannot be created is only logged.                       *)
SaveCreate ==
  /\ VmAt("create")
  /\ \/ snaps' = [snaps EXCEPT ![vm.drive] = @ \cup {vm.name}] /\ UNCHANGED failed
     \/ /\ "create" \in MayFail /\ failed' = failed \cup {vm.name}
        /\ UNCHANGED snaps
  /\ vm' = IF NextDrive = 0 THEN [vm EXCEPT !.at = "clear"]
           ELSE [vm EXCEPT !.drive = NextDrive]
  /\ UNCHANGED <<running, saving_state, monitor>>

SaveClear ==
  /\ VmAt("clear") /\ saving_state' = 0 /\ vm' = [vm EXCEPT !.at = "end"]
  /\ UNCHANGED <<snaps, running, monitor, failed>>

SaveEnd ==
  /\ VmAt("end") /\ running' = vm.resume /\ vm' = [Off EXCEPT !.at = "loop"]
  /\ UNCHANGED <<snaps, saving_state, monitor, failed>>

VmStep ==
  \/ VmInit \/ VmReset \/ VmShutdown
  \/ SaveStart \/ SaveDelete \/ SaveState \/ SaveCreate \/ SaveClear \/ SaveEnd

-----------------------------------------------------------------------------
(* The viewer saves the machine's state: on the UI thread it types the     *)
(* command, sleeps a second and changes the database; then a task waits    *)
(* for the command to end.                                                 *)

TypeCommand ==
  /\ ui = "vnc" /\ saves < MaxSaves /\ vm.at \notin {"off", "init"}
  /\ saves' = saves + 1
  /\ raw # Drives                            \* promptStateName
  /\ \E n \in Names : /\ monitor' = Append(monitor, n)
                       /\ poller' = [NoPoll EXCEPT !.name = n]
  /\ ui' = "typed"
  /\ UNCHANGED <<disk, inbox, launcher, executor, qemu, requested, restarting,
                 status, failed, deaths, clicks>>

DeleteRow_All ==   \* fault: deletes the machine with all its snapshots
  /\ ui = "typed" /\ ui' = "insert" /\ (Prompt => monitor = <<>>)
  /\ currMachine' = poller.name /\ rows' = {}
  /\ UNCHANGED <<snaps, raw, inbox, vmStarted, vmexecutor, executor, qemu,
                 todo, poller, status, ghosts, clicks>>

DeleteRow ==    \* saveStateDB
  /\ ui = "typed" /\ ui' = "insert" /\ (Prompt => monitor = <<>>)
  /\ currMachine' = poller.name /\ rows' = rows \ {poller.name}
  /\ UNCHANGED <<snaps, raw, inbox, vmStarted, vmexecutor, executor, qemu,
                 todo, poller, status, ghosts, clicks>>

InsertRow ==
  /\ ui = "insert" /\ ui' = "dialog" /\ rows' = rows \cup {currMachine}
  /\ poller' = [poller EXCEPT !.at = "look"]
  /\ UNCHANGED <<snaps, raw, inbox, launcher, executor, qemu, todo, status,
                 ghosts, clicks>>

(* checkCompletion: "VM not running", SAVING or DONE.                      *)
Poll ==
  /\ poller.at = "look"
  /\ IF handle /\ saving_state = 0
     THEN poller' = [poller EXCEPT !.at = "done"]
     ELSE poller' = [poller EXCEPT !.at = "sleep"]
  /\ UNCHANGED <<disk, ui, inbox, launcher, executor, qemu, todo, status,
                 ghosts, clicks>>

PollAgain ==
  /\ poller.at = "sleep" /\ poller' = [poller EXCEPT !.at = "look"]
  /\ UNCHANGED <<disk, ui, inbox, launcher, executor, qemu, todo, status,
                 ghosts, clicks>>

DismissDialog ==    \* onPostExecute
  /\ poller.at = "done" /\ poller' = NoPoll /\ ui' = "vnc"
  /\ UNCHANGED <<disk, inbox, launcher, executor, qemu, todo, status,
                 ghosts, clicks>>

-----------------------------------------------------------------------------
(* The status listeners: startTimeListener stops whoever listens, clears   *)
(* timeQuit without the lock and listens, then waits to be stopped.        *)

Moves(l, from, to) ==
  listener[l] = from /\ listener' = [listener EXCEPT ![l] = to]

StopOthers(l) == Moves(l, "new", "clear") /\ timeQuit' = TRUE
ClearQuit_Missing(l) ==   \* fault: listens although it stopped itself
  Moves(l, "clear", "listen") /\ UNCHANGED timeQuit
ClearQuit(l) == Moves(l, "clear", "listen") /\ timeQuit' = FALSE
Listen(l) ==        \* leaves timeListener; a look that finds FALSE goes on
  Moves(l, "listen", "wait") /\ timeQuit /\ UNCHANGED timeQuit
WaitQuit(l) ==      \* waits as long as somebody has cleared timeQuit since
  Moves(l, "wait", "done") /\ timeQuit /\ UNCHANGED timeQuit

ListenerStep(l) ==
  /\ StopOthers(l) \/ ClearQuit(l) \/ Listen(l) \/ WaitQuit(l)
  /\ UNCHANGED <<disk, ui, inbox, launcher, executor, qemu, todo, poller,
                 ghosts, clicks>>

-----------------------------------------------------------------------------
Kill == deaths < MaxDeaths /\ Dies

User == Click \/ SelectSnapshot \/ ShowViewer \/ ShowConsole \/ TypeCommand

UiStep ==
  \/ OnStartButton \/ OnVmStarted \/ OnVmStopped
  \/ OnStopButton \/ OnRestartButton
  \/ DeleteRow \/ InsertRow

ThreadStep(t) == CheckStarted(t) \/ LoadLib(t) \/ StartReturns(t)

PollerStep == Poll \/ PollAgain \/ DismissDialog

Next ==
  \/ User \/ UiStep \/ RestartVm \/ VmStep \/ PollerStep \/ Kill
  \/ \E t \in Threads : ThreadStep(t)
  \/ \E l \in Listeners : ListenerStep(l)

Spec == Init /\ [][Next]_vars

-----------------------------------------------------------------------------
(* Properties.                                                             *)

DiskType ==
  /\ snaps \in [Drives -> SUBSET Names] /\ rows \subseteq Names
  /\ raw \subseteq Drives /\ failed \subseteq Names

LauncherType ==
  /\ inbox \in Seq(Buttons \cup {"started", "stopped"})
  /\ vmStarted \in BOOLEAN /\ currMachine \in Names \cup {None}
  /\ vmexecutor = {} \/ \E n \in Names \cup {None} : vmexecutor = {n}
  /\ thread \in [Threads -> {"none", "start", "load", "qemu", "return"}]
  /\ started \in {0, 1} /\ handle \in BOOLEAN
  /\ timeQuit \in BOOLEAN
  /\ listener \in [Listeners -> {"none", "new", "clear", "listen", "wait", "done"}]

VmType ==
  /\ vm \in [at : {"off", "init", "loop", "delete", "state", "create", "clear", "end"},
             drive : 0..NDrives, name : Names \cup {None}, resume : BOOLEAN]
  /\ vm.at \in {"delete", "create"} => vm.drive \in Drives
  /\ vm.at \in {"delete", "state", "create"} => vm.name \in Names
  /\ running \in BOOLEAN /\ (running => vm.at \in {"loop", "init"})
  /\ saving_state \in {0, 1}
  /\ monitor \in Seq(Names) /\ requested \subseteq {"stop", "restart"}
  /\ restarting \in Nat

ViewerType ==
  /\ ui \in {"console", "vnc", "typed", "insert", "dialog"}
  /\ poller \in [at : {"none", "look", "sleep", "done"}, name : Names \cup {None}]
  /\ ui = "dialog" <=> poller.at # "none"
  /\ ui = "typed" => poller.name \in Names
  /\ ui = "insert" => currMachine \in Names

TypeOK == DiskType /\ LauncherType /\ VmType /\ ViewerType

(* Assumed, not promised: no thread passes the check of started while      *)
(* another has passed it.  What a second qemu_start does in a process is   *)
(* beyond this module.                                                     *)
OneMachine ==
  \A s, t \in Threads :
    thread[s] \in {"load", "qemu"} /\ thread[t] \in {"load", "qemu"} => s = t

(* When the poll of the dialog says DONE the snapshot is in every drive,   *)
(* unless creating it failed there, which nobody is told.                  *)
DoneMeansSaved ==
  poller.at = "done" /\ poller.name \notin failed =>
    \A d \in Drives : poller.name \in snaps[d]

(* At rest the database lists the snapshots that were taken and no others, *)
(* unless taking one failed or the process ended meanwhile.                *)
ListAgrees ==
  deaths = 0 /\ ui \in {"console", "vnc"} /\ monitor = <<>> /\ vm.at \in {"off", "loop"} =>
    \A n \in Names \ failed :
      n \in rows <=> \A d \in Drives : n \in snaps[d]

(* Once the main loop is done with the command the dialog's next poll ends *)
(* it, unless the command failed: then saving_state stays set.             *)
DialogEnds ==
  ui = "dialog" /\ monitor = <<>> /\ vm.at = "loop" =>
    saving_state = 0 \/ poller.name \in failed

(* The dialog is told the truth: not DONE too early, nor SAVING for ever.  *)
DialogTruthful == DoneMeansSaved /\ DialogEnds

(* While the launcher is in front somebody looks at the machine's status,  *)
(* however often it was paused and resumed, in whatever order the threads  *)
(* of earlier and later listeners run.                                     *)
ResumedIsWatched ==
  ui = "console" =>
    \E l \in Listeners : \/ listener[l] \in {"new", "clear"}
                         \/ listener[l] = "listen" /\ ~ timeQuit

=============================================================================
