--------------------------- MODULE Session_proofs ---------------------------
(***************************************************************************)
(* Proofs about a session of the app, for any number of threads,           *)
(* listeners, drives, snapshots and presses of buttons.                    *)
(***************************************************************************)
EXTENDS Session, TLAPS

-----------------------------------------------------------------------------
(* Types.  Each part is disturbed by a few actions only.                   *)

LEMMA SameDisk == DiskType /\ UNCHANGED disk /\ UNCHANGED failed => DiskType'
BY DEF DiskType, disk

LEMMA SameLauncher ==
  LauncherType /\ UNCHANGED <<inbox, launcher, executor, status>> => LauncherType'
BY DEF LauncherType, launcher, executor, status

LEMMA SameVm == VmType /\ UNCHANGED <<qemu, todo>> => VmType'
BY DEF VmType, qemu, todo

LEMMA SameViewer ==
  ViewerType /\ UNCHANGED <<ui, poller, currMachine>> => ViewerType'
BY DEF ViewerType

LEMMA InitTypes == Init => TypeOK
<1> SUFFICES ASSUME Init PROVE TypeOK
  OBVIOUS
<1>1. raw \in {{}, {1}} /\ snaps = [d \in Drives |-> {}] /\ rows = {} /\ failed = {}
  BY DEF Init
<1>2. DiskType
  BY <1>1, SessionAssumption DEF DiskType, Drives
<1>3. /\ inbox = <<>> /\ vmStarted = FALSE /\ vmexecutor = {} /\ currMachine = None
      /\ thread = [t \in Threads |-> "none"] /\ started = 0 /\ handle = FALSE
      /\ timeQuit = FALSE /\ \E k, l \in Listeners : listener = FreshListeners(k, l)
  BY DEF Init
<1>4. LauncherType
  <2>1. inbox \in Seq(Buttons \cup {"started", "stopped"})
    BY <1>3
  <2>2. thread \in [Threads -> {"none", "start", "load", "qemu", "return"}]
    BY <1>3
  <2>3. listener \in [Listeners -> {"none", "new", "clear", "listen", "wait", "done"}]
    BY <1>3 DEF FreshListeners
  <2>4. QED BY <1>3, <2>1, <2>2, <2>3 DEF LauncherType
<1>5. /\ vm = Off /\ running = FALSE /\ saving_state = 0 /\ monitor = <<>>
      /\ requested = {} /\ restarting = 0
  BY DEF Init
<1>6. VmType
  <2>1. /\ vm \in [at : {"off", "init", "loop", "delete", "state", "create", "clear", "end"},
                    drive : 0..NDrives, name : Names \cup {None}, resume : BOOLEAN]
        /\ vm.at = "off" /\ running = FALSE
    BY <1>5, SessionAssumption DEF Off
  <2>2. /\ monitor \in Seq(Names) /\ requested = {} /\ saving_state = 0
        /\ restarting \in Nat
    BY <1>5
  <2>3. QED BY <2>1, <2>2 DEF VmType
<1>7. ViewerType
  BY DEF Init, ViewerType, NoPoll
<1>8. QED BY <1>2, <1>4, <1>6, <1>7 DEF TypeOK

(* A new process: all of its variables are fresh.                          *)
LEMMA DiesTypes ==
  ASSUME TypeOK, Dies
  PROVE  TypeOK'
<1>1. DiskType'
  BY SameDisk DEF TypeOK, Dies
<1>2. /\ inbox' = <<>> /\ vmStarted' = FALSE /\ vmexecutor' = {}
      /\ currMachine' = None /\ thread' = [t \in Threads |-> "none"]
      /\ started' = 0 /\ handle' = FALSE /\ timeQuit' = FALSE
      /\ \E k, l \in Listeners : listener' = FreshListeners(k, l)
  BY DEF Dies
<1>3. LauncherType'
  <2>1. inbox' \in Seq(Buttons \cup {"started", "stopped"})
    BY <1>2
  <2>2. thread' \in [Threads -> {"none", "start", "load", "qemu", "return"}]
    BY <1>2
  <2>3. listener' \in [Listeners -> {"none", "new", "clear", "listen", "wait", "done"}]
    BY <1>2 DEF FreshListeners
  <2>4. QED BY <1>2, <2>1, <2>2, <2>3 DEF LauncherType
<1>4. /\ vm' = Off /\ running' = FALSE /\ saving_state' = 0 /\ monitor' = <<>>
      /\ requested' = {} /\ restarting' = 0
  BY DEF Dies
<1>5. VmType'
  <2>1. /\ vm' \in [at : {"off", "init", "loop", "delete", "state", "create", "clear", "end"},
                    drive : 0..NDrives, name : Names \cup {None}, resume : BOOLEAN]
        /\ vm'.at = "off" /\ running' = FALSE
    BY <1>4, SessionAssumption DEF Off
  <2>2. /\ monitor' \in Seq(Names) /\ requested' = {} /\ saving_state' = 0
        /\ restarting' \in Nat
    BY <1>4
  <2>3. QED BY <2>1, <2>2 DEF VmType
<1>6. ui' = "console" /\ poller' = NoPoll
  BY DEF Dies
<1>7. ViewerType'
  BY <1>6 DEF ViewerType, NoPoll
<1>8. QED BY <1>1, <1>3, <1>5, <1>7 DEF TypeOK

(* The launcher and the viewer.                                            *)
LEMMA LauncherTypes ==
  ASSUME TypeOK, User \/ UiStep \/ RestartVm
  PROVE  TypeOK'
<1> USE DEF launcher, executor, qemu, todo, status, disk, ghosts
<1>0. DiskType /\ LauncherType /\ VmType /\ ViewerType
  BY DEF TypeOK
<1> DEFINE Events == Buttons \cup {"started", "stopped"}
<1>1. CASE Click
  <2>1. /\ DiskType' /\ VmType' /\ ViewerType'
    BY <1>0, <1>1, SameDisk, SameVm, SameViewer DEF Click
  <2>2. inbox' \in Seq(Events)
    <3>1. inbox \in Seq(Events)
      BY <1>0 DEF LauncherType
    <3>2. \E e \in Events : inbox' = Append(inbox, e)
      BY <1>1 DEF Click, Buttons
    <3>3. QED BY <3>1, <3>2
  <2>3. LauncherType'
    BY <1>0, <1>1, <2>2 DEF LauncherType, Click
  <2>4. QED BY <2>1, <2>3 DEF TypeOK
<1>2. CASE SelectSnapshot
  <2>1. DiskType' /\ VmType'
    BY <1>0, <1>2, SameDisk, SameVm DEF SelectSnapshot
  <2>2. currMachine' \in Names \cup {None} /\ ui' = ui /\ ui = "console" /\ poller' = poller
    BY <1>0, <1>2 DEF SelectSnapshot, DiskType
  <2>3. LauncherType'
    BY <1>0, <1>2, <2>2 DEF LauncherType, SelectSnapshot
  <2>4. ViewerType'
    BY <1>0, <2>2 DEF ViewerType
  <2>5. QED BY <2>1, <2>3, <2>4 DEF TypeOK
<1>3. CASE ShowViewer
  <2>1. DiskType' /\ VmType'
    BY <1>0, <1>3, SameDisk, SameVm DEF ShowViewer
  <2>2. LauncherType'
    BY <1>0, <1>3 DEF LauncherType, ShowViewer
  <2>3. ViewerType'
    BY <1>0, <1>3 DEF ViewerType, ShowViewer
  <2>4. QED BY <2>1, <2>2, <2>3 DEF TypeOK
<1>4. CASE ShowConsole
  <2>1. DiskType' /\ VmType'
    BY <1>0, <1>4, SameDisk, SameVm DEF ShowConsole
  <2>2. LauncherType'
    BY <1>0, <1>4 DEF LauncherType, ShowConsole
  <2>3. ViewerType'
    BY <1>0, <1>4 DEF ViewerType, ShowConsole
  <2>4. QED BY <2>1, <2>2, <2>3 DEF TypeOK
<1>5. CASE TypeCommand
  <2>1. DiskType' /\ LauncherType'
    BY <1>0, <1>5, SameDisk, SameLauncher DEF TypeCommand
  <2>2. PICK n \in Names : /\ monitor' = Append(monitor, n)
                           /\ poller' = [NoPoll EXCEPT !.name = n]
    BY <1>5 DEF TypeCommand
  <2>3. monitor' \in Seq(Names)
    BY <1>0, <2>2 DEF VmType
  <2>4. VmType'
    BY <1>0, <1>5, <2>3 DEF VmType, TypeCommand
  <2>5. ui' = "typed"
    BY <1>5 DEF TypeCommand
  <2>6. ViewerType'
    BY <2>2, <2>5 DEF ViewerType, NoPoll
  <2>7. QED BY <2>1, <2>4, <2>6 DEF TypeOK
<1>6. CASE OnStartButton
  <2>1. DiskType' /\ VmType' /\ ViewerType'
    BY <1>0, <1>6, SameDisk, SameVm, SameViewer DEF OnStartButton
  <2>2. inbox' \in Seq(Events)
    <3>1. inbox \in Seq(Events) /\ inbox # <<>>
      BY <1>0, <1>6 DEF LauncherType, OnStartButton, Event
    <3>2. inbox' = Append(Tail(inbox), "started")
      BY <1>6 DEF OnStartButton
    <3>3. QED BY <3>1, <3>2
  <2>3. vmexecutor' = {} \/ \E n \in Names \cup {None} : vmexecutor' = {n}
    BY <1>0, <1>6 DEF LauncherType, OnStartButton
  <2>4. thread' \in [Threads -> {"none", "start", "load", "qemu", "return"}]
    BY <1>0, <1>6 DEF LauncherType, OnStartButton
  <2>5. LauncherType'
    BY <1>0, <1>6, <2>2, <2>3, <2>4 DEF LauncherType, OnStartButton
  <2>6. QED BY <2>1, <2>5 DEF TypeOK
<1>7. CASE OnVmStarted \/ OnVmStopped
  <2>1. DiskType' /\ VmType' /\ ViewerType'
    BY <1>0, <1>7, SameDisk, SameVm, SameViewer DEF OnVmStarted, OnVmStopped
  <2>2. inbox' \in Seq(Events)
    <3>1. inbox \in Seq(Events) /\ inbox # <<>> /\ inbox' = Tail(inbox)
      BY <1>0, <1>7 DEF LauncherType, OnVmStarted, OnVmStopped, Event, Handled
    <3>2. QED BY <3>1
  <2>3. LauncherType'
    BY <1>0, <1>7, <2>2 DEF LauncherType, OnVmStarted, OnVmStopped
  <2>4. QED BY <2>1, <2>3 DEF TypeOK
<1>8. CASE OnStopButton \/ OnRestartButton \/ RestartVm
  <2>1. DiskType' /\ ViewerType'
    BY <1>0, <1>8, SameDisk, SameViewer DEF OnStopButton, OnRestartButton, RestartVm
  <2>2. inbox' \in Seq(Events)
    <3>1. inbox \in Seq(Events)
      BY <1>0 DEF LauncherType
    <3>2. inbox' = inbox \/ (inbox # <<>> /\ inbox' = Tail(inbox))
      BY <1>8 DEF OnStopButton, OnRestartButton, RestartVm, Event, Handled
    <3>3. QED BY <3>1, <3>2
  <2>3. started' \in {0, 1}
    BY <1>0, <1>8 DEF LauncherType, OnStopButton, OnRestartButton, RestartVm, StopVm
  <2>4. LauncherType'
    BY <1>0, <1>8, <2>2, <2>3
    DEF LauncherType, OnStopButton, OnRestartButton, RestartVm
  <2>5. VmType'
    <3>1. restarting' \in Nat
      <4>1. restarting \in Nat
        BY <1>0 DEF VmType
      <4>2. \/ restarting' = restarting \/ restarting' = restarting + 1
            \/ restarting > 0 /\ restarting' = restarting - 1
        BY <1>8 DEF OnStopButton, OnRestartButton, RestartVm
      <4>3. QED BY <4>1, <4>2
    <3>2. requested' \subseteq {"stop", "restart"}
      <4>1. requested \subseteq {"stop", "restart"}
        BY <1>0 DEF VmType
      <4>2. \/ requested' = requested \/ requested' = requested \cup {"stop"}
            \/ requested' = requested \cup {"restart"}
        BY <1>8 DEF OnStopButton, OnRestartButton, RestartVm, StopVm
      <4>3. QED BY <4>1, <4>2
    <3>3. UNCHANGED <<vm, running, saving_state, monitor>>
      BY <1>8 DEF OnStopButton, OnRestartButton, RestartVm
    <3>4. QED BY <1>0, <3>1, <3>2, <3>3 DEF VmType
  <2>6. QED BY <2>1, <2>4, <2>5 DEF TypeOK
<1>9. CASE DeleteRow
  <2>1. VmType'
    BY <1>0, <1>9, SameVm DEF DeleteRow
  <2>2. DiskType'
    BY <1>0, <1>9 DEF DiskType, DeleteRow
  <2>3. currMachine' \in Names /\ ui = "typed" /\ ui' = "insert" /\ poller' = poller
    BY <1>0, <1>9 DEF ViewerType, DeleteRow
  <2>4. LauncherType'
    BY <1>0, <1>9, <2>3 DEF LauncherType, DeleteRow
  <2>5. ViewerType'
    BY <1>0, <2>3 DEF ViewerType
  <2>6. QED BY <2>1, <2>2, <2>4, <2>5 DEF TypeOK
<1>10. CASE InsertRow
  <2>1. VmType' /\ LauncherType'
    BY <1>0, <1>10, SameVm, SameLauncher DEF InsertRow
  <2>2. DiskType'
    BY <1>0, <1>10 DEF DiskType, ViewerType, InsertRow
  <2>3. ViewerType'
    BY <1>0, <1>10 DEF ViewerType, InsertRow
  <2>4. QED BY <2>1, <2>2, <2>3 DEF TypeOK
<1>11. QED
  BY <1>1, <1>2, <1>3, <1>4, <1>5, <1>6, <1>7, <1>8, <1>9, <1>10
  DEF User, UiStep

(* The main loop.                                                          *)
LEMMA MachineTypes ==
  ASSUME TypeOK, VmStep
  PROVE  TypeOK'
<1> USE DEF launcher, executor, qemu, todo, status, disk, ghosts
<1>0. DiskType /\ LauncherType /\ VmType /\ ViewerType
  BY DEF TypeOK
<1> DEFINE At == {"off", "init", "loop", "delete", "state", "create", "clear", "end"}
           Vms == [at : At, drive : 0..NDrives, name : Names \cup {None},
                   resume : BOOLEAN]
<1>a. /\ vm \in Vms /\ monitor \in Seq(Names)
      /\ vm.at \in {"delete", "create"} => vm.drive \in Drives
      /\ vm.at \in {"delete", "state", "create"} => vm.name \in Names
  BY <1>0 DEF VmType
<1>b. NDrives \in Nat \ {0}
  BY SessionAssumption
<1>1. CASE VmInit
  <2>1. /\ DiskType' /\ LauncherType' /\ ViewerType'
    BY <1>0, <1>1, SameDisk, SameLauncher, SameViewer DEF VmInit
  <2>2. vm' \in Vms /\ vm'.at = "loop" /\ running' \in BOOLEAN
    <3>1. vm' = [at |-> "loop", drive |-> 0, name |-> None, resume |-> FALSE]
      BY <1>1 DEF VmInit, Off
    <3>2. running' \in BOOLEAN
      BY <1>1 DEF VmInit
    <3>3. QED BY <1>b, <3>1, <3>2
  <2>3. VmType'
    BY <1>0, <1>1, <2>2 DEF VmType, VmInit
  <2>4. QED BY <2>1, <2>3 DEF TypeOK
<1>2. CASE VmReset
  <2>1. /\ DiskType' /\ LauncherType' /\ ViewerType'
    BY <1>0, <1>2, SameDisk, SameLauncher, SameViewer DEF VmReset
  <2>2. VmType'
    BY <1>0, <1>2 DEF VmType, VmReset
  <2>3. QED BY <2>1, <2>2 DEF TypeOK
<1>3. CASE VmShutdown
  BY <1>3, DiesTypes DEF VmShutdown
<1>4. ASSUME NEW at, VmAt(at)
      PROVE  LauncherType' /\ ViewerType'
  BY <1>0, <1>4, SameLauncher, SameViewer DEF VmAt
<1>5. CASE SaveStart
  <2>1. LauncherType' /\ ViewerType'
    BY <1>4, <1>5 DEF SaveStart
  <2>2. Head(monitor) \in Names /\ monitor' \in Seq(Names)
    <3>1. monitor # <<>> /\ monitor' = Tail(monitor)
      BY <1>5 DEF SaveStart
    <3>2. QED BY <1>a, <3>1
  <2>3. DiskType'
    BY <1>0, <1>5, <2>2 DEF DiskType, SaveStart, VmAt
  <2>4. CASE raw # {}
    <3>1. /\ vm.at = "loop" /\ saving_state' = 1
          /\ UNCHANGED <<vm, running, requested, restarting>>
      BY <1>5, <2>4 DEF SaveStart, VmAt
    <3>2. QED BY <1>0, <2>1, <2>2, <2>3, <3>1 DEF VmType, TypeOK
  <2>5. CASE raw = {}
    <3>1. /\ vm' = [at |-> "delete", drive |-> 1, name |-> Head(monitor),
                    resume |-> running]
          /\ running' = FALSE /\ saving_state' = 1
          /\ UNCHANGED <<requested, restarting>>
      BY <1>5, <2>5 DEF SaveStart, VmAt
    <3>2. running \in BOOLEAN
      BY <1>0 DEF VmType
    <3>3. vm' \in Vms /\ vm'.drive \in Drives /\ vm'.name \in Names
      BY <1>b, <2>2, <3>1, <3>2 DEF Drives
    <3>4. VmType'
      BY <1>0, <2>2, <3>1, <3>3 DEF VmType
    <3>5. QED BY <2>1, <2>3, <3>4 DEF TypeOK
  <2>6. QED BY <2>4, <2>5
<1>6. CASE SaveDelete
  <2>1. LauncherType' /\ ViewerType' /\ vm.at = "delete"
    BY <1>4, <1>6 DEF SaveDelete, VmAt
  <2>2. DiskType'
    BY <1>0, <1>a, <1>6, <2>1 DEF DiskType, SaveDelete, VmAt, Fails
  <2>3. \/ vm' = [vm EXCEPT !.at = "state"] \/ vm' = [vm EXCEPT !.at = "end"]
        \/ vm.drive # NDrives /\ vm' = [vm EXCEPT !.drive = vm.drive + 1]
    BY <1>a, <1>6, <2>1 DEF SaveDelete, Fails, NextDrive, Drives
  <2>4. /\ vm' \in Vms /\ vm'.name \in Names /\ vm'.at \in {"state", "end", "delete"}
        /\ vm'.at = "delete" => vm'.drive \in Drives
    BY <1>a, <1>b, <2>1, <2>3 DEF Drives
  <2>5. running' = running /\ ~ running
    BY <1>0, <1>6, <2>1 DEF SaveDelete, VmType
  <2>6. VmType'
    BY <1>0, <1>6, <2>4, <2>5 DEF VmType, SaveDelete, VmAt
  <2>7. QED BY <2>1, <2>2, <2>6 DEF TypeOK
<1>7. CASE SaveState
  <2>1. LauncherType' /\ ViewerType' /\ vm.at = "state"
    BY <1>4, <1>7 DEF SaveState, VmAt
  <2>2. DiskType'
    BY <1>0, <1>a, <1>7, <2>1 DEF DiskType, SaveState, VmAt, Fails
  <2>3. \/ vm' = [vm EXCEPT !.at = "create", !.drive = 1]
        \/ vm' = [vm EXCEPT !.at = "end"]
    BY <1>7 DEF SaveState, Fails
  <2>4. /\ vm' \in Vms /\ vm'.name \in Names /\ vm'.at \in {"create", "end"}
        /\ vm'.at = "create" => vm'.drive \in Drives
    <3>1. CASE vm' = [vm EXCEPT !.at = "create", !.drive = 1]
      <4>1. 1 \in 0..NDrives /\ 1 \in Drives
        BY <1>b DEF Drives
      <4>2. QED BY <1>a, <2>1, <3>1, <4>1
    <3>2. CASE vm' = [vm EXCEPT !.at = "end"]
      BY <1>a, <2>1, <3>2
    <3>3. QED BY <2>3, <3>1, <3>2
  <2>5. running' = running /\ ~ running
    BY <1>0, <1>7, <2>1 DEF SaveState, VmType
  <2>6. VmType'
    BY <1>0, <1>7, <2>4, <2>5 DEF VmType, SaveState, VmAt
  <2>7. QED BY <2>1, <2>2, <2>6 DEF TypeOK
<1>8. CASE SaveCreate
  <2>1. LauncherType' /\ ViewerType' /\ vm.at = "create"
    BY <1>4, <1>8 DEF SaveCreate, VmAt
  <2>2. DiskType'
    BY <1>0, <1>a, <1>8, <2>1 DEF DiskType, SaveCreate, VmAt
  <2>3. \/ vm' = [vm EXCEPT !.at = "clear"]
        \/ vm.drive # NDrives /\ vm' = [vm EXCEPT !.drive = vm.drive + 1]
    BY <1>a, <1>8, <2>1 DEF SaveCreate, NextDrive, Drives
  <2>4. /\ vm' \in Vms /\ vm'.name \in Names /\ vm'.at \in {"clear", "create"}
        /\ vm'.at = "create" => vm'.drive \in Drives
    <3>1. CASE vm' = [vm EXCEPT !.at = "clear"]
      BY <1>a, <2>1, <3>1
    <3>2. CASE vm.drive # NDrives /\ vm' = [vm EXCEPT !.drive = vm.drive + 1]
      <4>1. vm.drive + 1 \in 0..NDrives /\ vm.drive + 1 \in Drives
        BY <1>a, <1>b, <2>1, <3>2 DEF Drives
      <4>2. QED BY <1>a, <2>1, <3>2, <4>1
    <3>3. QED BY <2>3, <3>1, <3>2
  <2>5. running' = running /\ ~ running
    BY <1>0, <1>8, <2>1 DEF SaveCreate, VmType
  <2>6. VmType'
    BY <1>0, <1>8, <2>4, <2>5 DEF VmType, SaveCreate, VmAt
  <2>7. QED BY <2>1, <2>2, <2>6 DEF TypeOK
<1>9. CASE SaveClear
  <2>1. LauncherType' /\ ViewerType' /\ vm.at = "clear"
    BY <1>4, <1>9 DEF SaveClear, VmAt
  <2>2. DiskType'
    BY <1>0, <1>9, SameDisk DEF SaveClear, VmAt
  <2>3. vm' \in Vms /\ vm'.at = "end" /\ running' = running /\ ~ running
    BY <1>0, <1>a, <1>9, <2>1 DEF SaveClear, VmType
  <2>4. VmType'
    BY <1>0, <1>9, <2>3 DEF VmType, SaveClear, VmAt
  <2>5. QED BY <2>1, <2>2, <2>4 DEF TypeOK
<1>10. CASE SaveEnd
  <2>1. LauncherType' /\ ViewerType'
    BY <1>4, <1>10 DEF SaveEnd
  <2>2. DiskType'
    BY <1>0, <1>10, SameDisk DEF SaveEnd, VmAt
  <2>3. vm' \in Vms /\ vm'.at = "loop" /\ running' \in BOOLEAN
    <3>1. vm' = [at |-> "loop", drive |-> 0, name |-> None, resume |-> FALSE]
      BY <1>10 DEF SaveEnd, Off
    <3>2. running' \in BOOLEAN
      BY <1>a, <1>10 DEF SaveEnd
    <3>3. QED BY <1>b, <3>1, <3>2
  <2>4. VmType'
    BY <1>0, <1>10, <2>3 DEF VmType, SaveEnd, VmAt
  <2>5. QED BY <2>1, <2>2, <2>4 DEF TypeOK
<1>11. QED
  BY <1>1, <1>2, <1>3, <1>5, <1>6, <1>7, <1>8, <1>9, <1>10 DEF VmStep

(* The other threads.                                                      *)
LEMMA ThreadTypes ==
  ASSUME TypeOK, NEW t \in Threads, ThreadStep(t)
  PROVE  TypeOK'
<1> USE DEF launcher, executor, qemu, todo, status, disk, ghosts
<1>0. DiskType /\ LauncherType /\ VmType /\ ViewerType
  BY DEF TypeOK
<1>1. DiskType' /\ ViewerType'
  BY <1>0, SameDisk, SameViewer DEF ThreadStep, CheckStarted, LoadLib, StartReturns
<1>2. thread' \in [Threads -> {"none", "start", "load", "qemu", "return"}]
  BY <1>0 DEF ThreadStep, CheckStarted, LoadLib, StartReturns, LauncherType
<1>3. inbox' \in Seq(Buttons \cup {"started", "stopped"})
  <2>1. inbox \in Seq(Buttons \cup {"started", "stopped"})
    BY <1>0 DEF LauncherType
  <2>2. inbox' = inbox \/ inbox' = Append(inbox, "stopped")
    BY DEF ThreadStep, CheckStarted, LoadLib, StartReturns
  <2>3. QED BY <2>1, <2>2
<1>4. started' \in {0, 1} /\ handle' \in BOOLEAN
  BY <1>0 DEF ThreadStep, CheckStarted, LoadLib, StartReturns, LauncherType
<1>5. LauncherType'
  BY <1>0, <1>2, <1>3, <1>4
  DEF ThreadStep, CheckStarted, LoadLib, StartReturns, LauncherType
<1>6. CASE UNCHANGED vm
  <2>1. UNCHANGED <<running, saving_state, monitor, restarting>>
    BY DEF ThreadStep, CheckStarted, LoadLib, StartReturns
  <2>2. requested' = requested \/ requested' = {}
    BY DEF ThreadStep, CheckStarted, LoadLib, StartReturns
  <2>3. VmType'
    BY <1>0, <1>6, <2>1, <2>2 DEF VmType
  <2>4. QED BY <1>1, <1>5, <2>3 DEF TypeOK
<1>7. CASE ~ UNCHANGED vm
  <2>1. PICK n \in vmexecutor : vm' = [Off EXCEPT !.at = "init", !.name = n]
    BY <1>7 DEF ThreadStep, CheckStarted, LoadLib, StartReturns
  <2>2. n \in Names \cup {None}
    BY <1>0, <2>1 DEF LauncherType
  <2>3. /\ vm' \in [at : {"off", "init", "loop", "delete", "state", "create", "clear", "end"},
                     drive : 0..NDrives, name : Names \cup {None}, resume : BOOLEAN]
        /\ vm'.at = "init"
    <3>1. vm' = [at |-> "init", drive |-> 0, name |-> n, resume |-> FALSE]
      BY <2>1 DEF Off
    <3>2. QED BY <2>2, <3>1, SessionAssumption
  <2>4. UNCHANGED <<running, saving_state, monitor, requested, restarting>>
    BY <1>7 DEF ThreadStep, CheckStarted, LoadLib, StartReturns
  <2>5. VmType'
    BY <1>0, <2>3, <2>4 DEF VmType
  <2>6. QED BY <1>1, <1>5, <2>5 DEF TypeOK
<1>8. QED BY <1>6, <1>7

LEMMA StepTypes == TypeOK /\ [Next]_vars => TypeOK'
<1> USE DEF disk, launcher, executor, qemu, todo, status, ghosts
<1> SUFFICES ASSUME TypeOK, [Next]_vars
             PROVE  TypeOK'
  OBVIOUS
<1>0. DiskType /\ LauncherType /\ VmType /\ ViewerType
  BY DEF TypeOK
<1>1. CASE User \/ UiStep \/ RestartVm
  BY <1>1, LauncherTypes
<1>2. CASE VmStep
  BY <1>2, MachineTypes
<1>3. CASE PollerStep
  <2>1. DiskType' /\ LauncherType' /\ VmType'
    BY <1>0, <1>3, SameDisk, SameLauncher, SameVm
    DEF PollerStep, Poll, PollAgain, DismissDialog
  <2>2. ViewerType'
    BY <1>0, <1>3 DEF PollerStep, Poll, PollAgain, DismissDialog, NoPoll, ViewerType
  <2>3. QED BY <2>1, <2>2 DEF TypeOK
<1>4. CASE Kill
  BY <1>4, DiesTypes DEF Kill
<1>5. CASE \E t \in Threads : ThreadStep(t)
  BY <1>5, ThreadTypes
<1>6. ASSUME NEW l \in Listeners, ListenerStep(l)
      PROVE  TypeOK'
  <2>1. DiskType' /\ VmType' /\ ViewerType'
    BY <1>0, <1>6, SameDisk, SameVm, SameViewer DEF ListenerStep
  <2>2. LauncherType'
    BY <1>0, <1>6
    DEF ListenerStep, StopOthers, ClearQuit, Listen, WaitQuit, Moves, LauncherType
  <2>3. QED BY <2>1, <2>2 DEF TypeOK
<1>7. CASE UNCHANGED vars
  BY <1>0, <1>7, SameDisk, SameLauncher, SameVm, SameViewer DEF vars, TypeOK
<1>8. QED
  BY <1>1, <1>2, <1>3, <1>4, <1>5, <1>6, <1>7 DEF Next

(* The variables of a session keep their types.                            *)
THEOREM SessionTypeCorrect == Spec => []TypeOK
BY InitTypes, StepTypes, PTL DEF Spec

-----------------------------------------------------------------------------
(* The listeners.                                                          *)

(* Whoever sets timeQuit clears it afterwards, unless the launcher is      *)
(* paused; so the last to clear it listens on.                             *)
THEOREM ResumedAlwaysWatched == Spec => []ResumedIsWatched
<1> DEFINE Inv == TypeOK /\ ResumedIsWatched
<1>1. Init => Inv
  <2>1. Init => ResumedIsWatched
    BY DEF Init, FreshListeners, ResumedIsWatched
  <2>2. QED BY <2>1, InitTypes
<1>2. Inv /\ [Next]_vars => Inv'
  <2> USE DEF launcher, executor, qemu, todo, status, disk, ghosts
  <2> SUFFICES ASSUME Inv, [Next]_vars
               PROVE  ResumedIsWatched'
    BY StepTypes
  <2>0. listener \in [Listeners -> {"none", "new", "clear", "listen", "wait", "done"}]
    BY DEF TypeOK, LauncherType
  <2>1. CASE UNCHANGED <<ui, listener, timeQuit>>
    BY <2>1 DEF ResumedIsWatched
  <2>2. CASE ui' # "console"
    BY <2>2 DEF ResumedIsWatched
  <2>3. CASE Dies
    BY <2>3 DEF Dies, FreshListeners, ResumedIsWatched
  <2>4. CASE ShowConsole
    BY <2>0, <2>4 DEF ShowConsole, ResumedIsWatched
  <2>5. ASSUME NEW l \in Listeners, ListenerStep(l)
        PROVE  ResumedIsWatched'
    <3>1. CASE StopOthers(l) \/ ClearQuit(l)
      BY <2>0, <3>1 DEF StopOthers, ClearQuit, Moves, ResumedIsWatched
    <3>2. CASE Listen(l) \/ WaitQuit(l)
      <4>1. /\ timeQuit /\ listener[l] \in {"listen", "wait"}
            /\ \A x \in Listeners : x # l => listener'[x] = listener[x]
        BY <2>0, <3>2 DEF Listen, WaitQuit, Moves
      <4>2. ui' = ui
        BY <2>5 DEF ListenerStep
      <4>3. QED BY <4>1, <4>2 DEF ResumedIsWatched
    <3>3. QED BY <2>5, <3>1, <3>2 DEF ListenerStep
  <2>6. CASE UiStep
    BY <2>1, <2>2, <2>6
    DEF UiStep, OnStartButton, OnVmStarted, OnVmStopped, OnStopButton,
        OnRestartButton, DeleteRow, InsertRow
  <2>7. CASE VmStep
    BY <2>1, <2>3, <2>7
    DEF VmStep, VmInit, VmReset, VmShutdown, SaveStart, SaveDelete, SaveState,
        SaveCreate, SaveClear, SaveEnd, VmAt
  <2>8. CASE PollerStep
    BY <2>1, <2>2, <2>8 DEF PollerStep, Poll, PollAgain, DismissDialog
  <2>9. CASE User
    BY <2>1, <2>2, <2>4, <2>9 DEF User, Click, SelectSnapshot, ShowViewer, TypeCommand
  <2>10. CASE \E t \in Threads : ThreadStep(t)
    BY <2>1, <2>10 DEF ThreadStep, CheckStarted, LoadLib, StartReturns
  <2>11. QED
    BY <2>1, <2>3, <2>5, <2>6, <2>7, <2>8, <2>9, <2>10
    DEF Next, Kill, RestartVm, vars
<1>3. QED BY <1>1, <1>2, PTL DEF Spec

-----------------------------------------------------------------------------
(* The dialog and the list.  A savevm is waited for or taken: it is        *)
(* waiting while the viewer is in front or has typed it, taken from then   *)
(* until the dialog is dismissed, and meanwhile the main loop works on it  *)
(* or has ended it.                                                        *)

InAll(n) == \A d \in Drives : n \in snaps[d]

Waiting ==
  /\ ui \in {"console", "vnc", "typed"}
  /\ monitor = IF ui = "typed" THEN <<poller.name>> ELSE <<>>
  /\ vm.at \in {"off", "init", "loop", "end"} /\ saving_state = 0
  /\ ui = "typed" => vm.at \notin {"off", "init"}

Progress(n) ==
  \/ /\ vm.at \in {"delete", "state", "create", "clear"} /\ vm.name = n
     /\ saving_state = 1
     /\ vm.at = "create" => n \in failed \/ \A d \in 1..(vm.drive - 1) : n \in snaps[d]
     /\ vm.at = "clear" => n \in failed \/ InAll(n)
  \/ /\ vm.at \in {"end", "loop"}
     /\ n \in failed \/ (saving_state = 0 /\ InAll(n))

Taken ==
  /\ ui \in {"typed", "insert", "dialog"} /\ monitor = <<>>
  /\ Progress(poller.name)
  /\ ui = "insert" => currMachine = poller.name
  /\ poller.at = "done" => saving_state = 0

(* While the process is the first one, the list names what the drives      *)
(* hold, apart from what a savevm failed to save and what it is saving.    *)
Listed ==
  deaths = 0 =>
    /\ \A n \in Names \ failed :
         (n \in rows <=> InAll(n)) \/ (Taken /\ n = poller.name)
    /\ ui = "dialog" => poller.name \in rows

(* The main loop runs on a thread that started the machine.                *)
Hosted == vm.at # "off" => \E t \in Threads : thread[t] = "qemu"

SaveInv == (Waiting \/ Taken) /\ Listed /\ Hosted /\ deaths \in Nat

LEMMA SameSave ==
  ASSUME SaveInv, UNCHANGED <<ui, monitor, poller, vm, saving_state, snaps, rows,
                              failed, deaths>>,
         ui = "insert" => currMachine' = currMachine,
         \A t \in Threads : thread[t] = "qemu" => thread'[t] = "qemu"
  PROVE  SaveInv'
<1>1. InAll(poller.name)' <=> InAll(poller.name)
  BY DEF InAll
<1>2. Progress(poller.name)' <=> Progress(poller.name)
  BY <1>1 DEF Progress
<1>3. /\ Waiting => Waiting'
      /\ Taken => Taken'
  BY <1>2 DEF Waiting, Taken
<1>4. Listed'
  BY <1>3 DEF SaveInv, Listed, InAll
<1>5. QED BY <1>3, <1>4 DEF SaveInv, Hosted

LEMMA InitSaves == Init => SaveInv
<1> SUFFICES ASSUME Init PROVE SaveInv
  OBVIOUS
<1>1. /\ ui = "console" /\ monitor = <<>> /\ vm.at = "off" /\ saving_state = 0
      /\ deaths = 0 /\ rows = {} /\ snaps = [d \in Drives |-> {}]
  BY DEF Init, Off
<1>2. 1 \in Drives
  BY SessionAssumption DEF Drives
<1>3. \A n \in Names : n \notin rows /\ ~ InAll(n)
  BY <1>1, <1>2 DEF InAll
<1>4. QED BY <1>1, <1>3 DEF SaveInv, Waiting, Listed, Hosted

LEMMA DiesSaves ==
  ASSUME SaveInv, Dies
  PROVE  SaveInv'
<1>1. /\ ui' = "console" /\ monitor' = <<>> /\ vm'.at = "off" /\ saving_state' = 0
      /\ deaths' \in Nat /\ deaths' # 0
  BY DEF Dies, Off, SaveInv
<1>2. QED BY <1>1 DEF SaveInv, Waiting, Listed, Hosted

(* The launcher and the viewer.                                            *)
LEMMA UserSaves ==
  ASSUME TypeOK, SaveInv, User \/ RestartVm
  PROVE  SaveInv'
<1> USE DEF launcher, executor, qemu, todo, status, disk, ghosts
<1>1. CASE Click \/ SelectSnapshot \/ RestartVm
  BY <1>1, SameSave DEF Click, SelectSnapshot, RestartVm
<1>2. CASE ShowViewer \/ ShowConsole
  <2>1. /\ ui \in {"console", "vnc"} /\ ui' \in {"console", "vnc"}
        /\ UNCHANGED <<monitor, poller, vm, saving_state, snaps, rows, failed,
                       deaths, thread>>
    BY <1>2 DEF ShowViewer, ShowConsole
  <2>2. Waiting /\ ~ Taken /\ Waiting'
    BY <2>1 DEF SaveInv, Waiting, Taken
  <2>3. QED BY <2>1, <2>2 DEF SaveInv, Listed, Hosted, InAll
<1>3. CASE TypeCommand
  <2>1. PICK n \in Names : /\ monitor' = Append(monitor, n)
                           /\ poller' = [NoPoll EXCEPT !.name = n]
    BY <1>3 DEF TypeCommand
  <2>2. /\ ui = "vnc" /\ ui' = "typed" /\ vm.at \notin {"off", "init"}
        /\ UNCHANGED <<vm, saving_state, snaps, rows, failed, deaths, thread>>
    BY <1>3 DEF TypeCommand
  <2>3. Waiting /\ ~ Taken /\ monitor = <<>>
    BY <2>2 DEF SaveInv, Waiting, Taken
  <2>4. monitor' = <<poller.name>>'
    BY <2>1, <2>3 DEF NoPoll
  <2>5. Waiting'
    BY <2>2, <2>3, <2>4 DEF Waiting
  <2>6. QED BY <2>2, <2>3, <2>5 DEF SaveInv, Listed, Hosted, InAll
<1>4. QED BY <1>1, <1>2, <1>3 DEF User

LEMMA UiSaves ==
  ASSUME Prompt, TypeOK, SaveInv, UiStep
  PROVE  SaveInv'
<1> USE DEF launcher, executor, qemu, todo, status, disk, ghosts
<1>0. /\ thread \in [Threads -> {"none", "start", "load", "qemu", "return"}]
      /\ ui = "dialog" <=> poller.at # "none"
      /\ poller \in [at : {"none", "look", "sleep", "done"}, name : Names \cup {None}]
  BY DEF TypeOK, LauncherType, ViewerType
<1>1. CASE OnStartButton \/ OnVmStarted \/ OnVmStopped \/ OnStopButton \/ OnRestartButton
  <2>1. /\ UNCHANGED <<ui, monitor, poller, vm, saving_state, snaps, rows, failed,
                       deaths, currMachine>>
        /\ \A t \in Threads : thread[t] = "qemu" => thread'[t] = "qemu"
    BY <1>0, <1>1
    DEF OnStartButton, OnVmStarted, OnVmStopped, OnStopButton, OnRestartButton
  <2>2. QED BY <2>1, SameSave
<1>2. CASE DeleteRow
  <2>1. /\ ui = "typed" /\ ui' = "insert" /\ monitor = <<>>
        /\ currMachine' = poller.name /\ rows' = rows \ {poller.name}
        /\ UNCHANGED <<monitor, poller, vm, saving_state, snaps, failed, deaths, thread>>
    BY <1>2 DEF DeleteRow
  <2>2. Taken
    BY <2>1 DEF SaveInv, Waiting
  <2>3. Progress(poller.name)' <=> Progress(poller.name)
    BY <2>1 DEF Progress, InAll
  <2>4. Taken'
    BY <2>1, <2>2, <2>3 DEF Taken
  <2>5. QED BY <2>1, <2>4 DEF SaveInv, Listed, Hosted, InAll
<1>3. CASE InsertRow
  <2>1. /\ ui = "insert" /\ ui' = "dialog" /\ rows' = rows \cup {currMachine}
        /\ poller'.name = poller.name /\ poller'.at = "look"
        /\ UNCHANGED <<monitor, vm, saving_state, snaps, failed, deaths, thread>>
    BY <1>0, <1>3 DEF InsertRow
  <2>2. Taken /\ currMachine = poller.name
    BY <2>1 DEF SaveInv, Waiting, Taken
  <2>3. Progress(poller.name)' <=> Progress(poller.name)
    BY <2>1 DEF Progress, InAll
  <2>4. Taken'
    BY <2>1, <2>2, <2>3 DEF Taken
  <2>5. QED BY <2>1, <2>2, <2>4 DEF SaveInv, Listed, Hosted, InAll
<1>4. QED BY <1>1, <1>2, <1>3 DEF UiStep

(* The task of the dialog.                                                 *)
LEMMA PollerSaves ==
  ASSUME TypeOK, SaveInv, PollerStep
  PROVE  SaveInv'
<1> USE DEF launcher, executor, qemu, todo, status, disk, ghosts
<1>0. /\ ui = "dialog" <=> poller.at # "none"
      /\ poller \in [at : {"none", "look", "sleep", "done"}, name : Names \cup {None}]
  BY DEF TypeOK, ViewerType
<1>1. CASE Poll \/ PollAgain
  <2>1. /\ poller'.name = poller.name /\ poller.at # "none"
        /\ poller'.at = "done" => saving_state = 0
        /\ UNCHANGED <<ui, monitor, vm, saving_state, snaps, rows, failed, deaths,
                       thread, currMachine>>
    BY <1>0, <1>1 DEF Poll, PollAgain
  <2>2. ui = "dialog" /\ Taken
    BY <1>0, <2>1 DEF SaveInv, Waiting
  <2>3. Progress(poller.name)' <=> Progress(poller.name)
    BY <2>1 DEF Progress, InAll
  <2>4. Taken'
    BY <2>1, <2>2, <2>3 DEF Taken
  <2>5. QED BY <2>1, <2>2, <2>4 DEF SaveInv, Listed, Hosted, InAll
<1>2. CASE DismissDialog
  <2>1. /\ poller.at = "done" /\ ui' = "vnc"
        /\ UNCHANGED <<monitor, vm, saving_state, snaps, rows, failed, deaths, thread>>
    BY <1>2 DEF DismissDialog
  <2>2. ui = "dialog" /\ Taken /\ saving_state = 0
    BY <1>0, <2>1 DEF SaveInv, Waiting, Taken
  <2>3. vm.at \in {"end", "loop"} /\ (poller.name \in failed \/ InAll(poller.name))
    BY <2>2 DEF Taken, Progress
  <2>4. Waiting'
    BY <2>1, <2>2, <2>3 DEF Waiting, Taken
  <2>5. deaths = 0 => poller.name \in rows
    BY <2>2 DEF SaveInv, Listed
  <2>6. Listed'
    BY <2>1, <2>3, <2>5 DEF SaveInv, Listed, InAll
  <2>7. QED BY <2>1, <2>4, <2>6 DEF SaveInv, Hosted
<1>3. QED BY <1>1, <1>2 DEF PollerStep

(* The threads that start a machine: by hypothesis none does while one runs.*)
LEMMA ThreadSaves ==
  ASSUME TypeOK, OneMachine, SaveInv, NEW t \in Threads, ThreadStep(t)
  PROVE  SaveInv'
<1> USE DEF launcher, executor, qemu, todo, status, disk, ghosts
<1>0. thread \in [Threads -> {"none", "start", "load", "qemu", "return"}]
  BY DEF TypeOK, LauncherType
<1>1. CASE CheckStarted(t) \/ StartReturns(t)
  <2>1. /\ UNCHANGED <<ui, monitor, poller, vm, saving_state, snaps, rows, failed,
                       deaths, currMachine>>
        /\ \A u \in Threads : thread[u] = "qemu" => thread'[u] = "qemu"
    BY <1>0, <1>1 DEF CheckStarted, StartReturns
  <2>2. QED BY <2>1, SameSave
<1>2. CASE LoadLib(t)
  <2>1. /\ thread[t] = "load"
        /\ UNCHANGED <<ui, monitor, poller, saving_state, snaps, rows, failed,
                       deaths, currMachine>>
    BY <1>2 DEF LoadLib
  <2>2. CASE vm' = vm /\ thread' = [thread EXCEPT ![t] = "return"]
    <3>1. \A u \in Threads : thread[u] = "qemu" => thread'[u] = "qemu"
      BY <1>0, <2>1, <2>2
    <3>2. QED BY <2>1, <2>2, <3>1, SameSave
  <2>3. CASE vm'.at = "init" /\ thread' = [thread EXCEPT ![t] = "qemu"]
    <3>1. vm.at = "off"
      BY <1>0, <2>1 DEF SaveInv, Hosted, OneMachine
    <3>2. Waiting /\ ~ Taken /\ ui # "typed"
      BY <3>1 DEF SaveInv, Waiting, Taken, Progress
    <3>3. Waiting'
      BY <2>1, <2>3, <3>2 DEF Waiting
    <3>4. Hosted'
      BY <1>0, <2>3 DEF Hosted
    <3>5. QED BY <2>1, <3>2, <3>3, <3>4 DEF SaveInv, Listed, InAll
  <2>4. QED BY <1>2, <2>2, <2>3 DEF LoadLib, Off
<1>3. QED BY <1>1, <1>2 DEF ThreadStep

(* The main loop takes the command and works on it.                        *)
LEMMA MachineSaves ==
  ASSUME TypeOK, SaveInv, VmStep
  PROVE  SaveInv'
<1> USE DEF launcher, executor, qemu, todo, status, disk, ghosts
<1>0. /\ vm \in [at : {"off", "init", "loop", "delete", "state", "create", "clear", "end"},
                 drive : 0..NDrives, name : Names \cup {None}, resume : BOOLEAN]
      /\ vm.at \in {"delete", "create"} => vm.drive \in Drives
      /\ vm.at \in {"delete", "state", "create"} => vm.name \in Names
      /\ snaps \in [Drives -> SUBSET Names] /\ NDrives \in Nat \ {0}
      /\ deaths \in Nat
  BY SessionAssumption DEF TypeOK, DiskType, VmType, SaveInv
<1>1. CASE VmInit
  <2>1. /\ vm.at = "init" /\ vm'.at = "loop"
        /\ UNCHANGED <<ui, monitor, poller, saving_state, snaps, rows, failed,
                       deaths, thread>>
    BY <1>1 DEF VmInit, Off
  <2>2. Waiting /\ ~ Taken
    BY <2>1 DEF SaveInv, Taken, Progress
  <2>3. Waiting'
    BY <2>1, <2>2 DEF Waiting
  <2>4. QED BY <2>1, <2>2, <2>3 DEF SaveInv, Listed, Hosted, InAll
<1>2. CASE VmReset
  BY <1>2, SameSave DEF VmReset
<1>3. CASE VmShutdown
  BY <1>3, DiesSaves DEF VmShutdown
<1>4. CASE SaveStart
  <2>1. /\ vm.at = "loop" /\ monitor # <<>> /\ monitor' = Tail(monitor)
        /\ saving_state' = 1
        /\ UNCHANGED <<ui, poller, snaps, rows, deaths, thread>>
    BY <1>4 DEF SaveStart, VmAt
  <2>2. ui = "typed" /\ monitor = <<poller.name>> /\ Waiting /\ ~ Taken
    BY <2>1 DEF SaveInv, Waiting, Taken
  <2>3. monitor' = <<>> /\ Head(monitor) = poller.name
    BY <2>1, <2>2
  <2>4. poller'.at # "done"
    BY <2>1, <2>2 DEF TypeOK, ViewerType
  <2>5. CASE raw # {}
    <3>1. vm' = vm /\ failed' = failed \cup {poller.name}
      BY <1>4, <2>3, <2>5 DEF SaveStart
    <3>2. Taken'
      BY <2>1, <2>2, <2>3, <2>4, <3>1 DEF Taken, Progress
    <3>3. QED BY <2>1, <2>2, <3>1, <3>2 DEF SaveInv, Listed, Hosted, InAll
  <2>6. CASE raw = {}
    <3>1. /\ vm'.at = "delete" /\ vm'.name = poller.name
          /\ failed' = failed \ {poller.name}
      BY <1>4, <2>3, <2>6 DEF SaveStart
    <3>2. Taken'
      BY <2>1, <2>2, <2>3, <2>4, <3>1 DEF Taken, Progress
    <3>3. QED BY <2>1, <2>2, <3>1, <3>2 DEF SaveInv, Listed, Hosted, InAll
  <2>7. QED BY <2>5, <2>6
(* The steps of the work itself.                                           *)
<1>5. ASSUME vm.at \in {"delete", "state", "create", "clear"}, VmAt(vm.at),
             UNCHANGED monitor, vm'.at # "off", vm'.name = vm.name, Progress(vm.name)',
             snaps' \in [Drives -> SUBSET Names],
             \A d \in Drives : \A n \in Names \ {vm.name} :
               n \in snaps'[d] <=> n \in snaps[d],
             failed' \ {vm.name} = failed \ {vm.name},
             poller.at = "done" => saving_state' = 0
      PROVE  SaveInv'
  <2>1. /\ UNCHANGED <<ui, poller, rows, deaths, thread, currMachine>>
    BY <1>5 DEF VmAt
  <2>2. Taken /\ vm.name = poller.name
    BY <1>5 DEF SaveInv, Waiting, Taken, Progress
  <2>3. Taken'
    BY <1>5, <2>1, <2>2 DEF Taken
  <2>4. \A n \in Names \ {vm.name} :
          /\ InAll(n)' <=> InAll(n)
          /\ n \in failed' <=> n \in failed
    BY <1>5 DEF InAll
  <2>5. Listed'
    BY <2>1, <2>2, <2>3, <2>4 DEF SaveInv, Listed
  <2>6. QED BY <1>5, <2>1, <2>3, <2>5 DEF SaveInv, Hosted
<1>6. CASE SaveDelete
  <2>1. /\ vm.at = "delete" /\ VmAt(vm.at) /\ UNCHANGED <<monitor, saving_state>>
        /\ vm.name \in Names /\ vm.drive \in Drives
    BY <1>0, <1>6 DEF SaveDelete, VmAt
  <2>2. Taken /\ vm.name = poller.name /\ saving_state = 1
    BY <2>1 DEF SaveInv, Waiting, Taken, Progress
  <2>3. CASE /\ snaps' = [snaps EXCEPT ![vm.drive] = @ \ {vm.name}]
             /\ vm'.at \in {"delete", "state"} /\ vm'.name = vm.name
             /\ UNCHANGED failed
    <3>1. Progress(vm.name)'
      BY <2>1, <2>2, <2>3 DEF Progress
    <3>2. \A d \in Drives : \A n \in Names \ {vm.name} :
            n \in snaps'[d] <=> n \in snaps[d]
      BY <1>0, <2>1, <2>3
    <3>3. snaps' \in [Drives -> SUBSET Names]
      BY <1>0, <2>1, <2>3
    <3>4. QED BY <1>5, <2>1, <2>2, <2>3, <3>1, <3>2, <3>3 DEF Taken
  <2>4. CASE Fails /\ UNCHANGED snaps
    <3>1. vm'.at = "end" /\ vm'.name = vm.name /\ failed' = failed \cup {vm.name}
      BY <1>0, <2>4 DEF Fails
    <3>2. Progress(vm.name)'
      BY <3>1 DEF Progress
    <3>3. QED BY <1>0, <1>5, <2>1, <2>2, <2>4, <3>1, <3>2 DEF Taken
  <2>5. vm.at = "delete" =>
          /\ [vm EXCEPT !.at = "state"].at = "state"
          /\ [vm EXCEPT !.at = "state"].name = vm.name
          /\ [vm EXCEPT !.drive = NextDrive].at = "delete"
          /\ [vm EXCEPT !.drive = NextDrive].name = vm.name
    BY <1>0
  <2>6. QED BY <1>6, <2>1, <2>3, <2>4, <2>5 DEF SaveDelete
<1>7. CASE SaveState
  <2>1. /\ vm.at = "state" /\ VmAt(vm.at) /\ UNCHANGED <<snaps, monitor, saving_state>>
    BY <1>7 DEF SaveState, VmAt
  <2>2. Taken /\ vm.name = poller.name /\ saving_state = 1
    BY <2>1 DEF SaveInv, Waiting, Taken, Progress
  <2>3. CASE vm' = [vm EXCEPT !.at = "create", !.drive = 1] /\ UNCHANGED failed
    <3>1. vm'.at = "create" /\ vm'.name = vm.name /\ vm'.drive = 1
      BY <1>0, <2>3
    <3>2. Progress(vm.name)'
      BY <2>1, <2>2, <3>1 DEF Progress
    <3>3. QED BY <1>0, <1>5, <2>1, <2>2, <2>3, <3>1, <3>2 DEF Taken
  <2>4. CASE Fails
    <3>1. vm'.at = "end" /\ vm'.name = vm.name /\ failed' = failed \cup {vm.name}
      BY <1>0, <2>4 DEF Fails
    <3>2. Progress(vm.name)'
      BY <3>1 DEF Progress
    <3>3. QED BY <1>0, <1>5, <2>1, <2>2, <3>1, <3>2 DEF Taken
  <2>5. QED BY <1>7, <2>3, <2>4 DEF SaveState
<1>8. CASE SaveCreate
  <2> DEFINE d == vm.drive
             n == vm.name
  <2>1. /\ vm.at = "create" /\ VmAt(vm.at) /\ UNCHANGED <<monitor, saving_state>>
        /\ n \in Names /\ d \in Drives
    BY <1>0, <1>8 DEF SaveCreate, VmAt
  <2>2. /\ Taken /\ n = poller.name /\ saving_state = 1
        /\ n \in failed \/ \A x \in 1..(d - 1) : n \in snaps[x]
    BY <2>1 DEF SaveInv, Waiting, Taken, Progress
  <2>3. \/ snaps' = [snaps EXCEPT ![d] = @ \cup {n}] /\ UNCHANGED failed
        \/ failed' = failed \cup {n} /\ UNCHANGED snaps
    BY <1>8 DEF SaveCreate
  <2>4. n \in failed' \/ \A x \in 1..d : n \in snaps'[x]
    <3>1. \A x \in 1..d : x \in Drives /\ (x = d \/ x \in 1..(d - 1))
      BY <1>0, <2>1 DEF Drives
    <3>2. QED BY <1>0, <2>1, <2>2, <2>3, <3>1
  <2>5. \/ d = NDrives /\ vm'.at = "clear" /\ vm'.name = n
        \/ vm'.at = "create" /\ vm'.name = n /\ vm'.drive = d + 1
    BY <1>0, <1>8, <2>1 DEF SaveCreate, NextDrive, Drives
  <2>6. Progress(n)'
    <3>1. d + 1 - 1 = d
      BY <2>1 DEF Drives
    <3>2. QED BY <2>1, <2>2, <2>4, <2>5, <3>1 DEF Progress, InAll, Drives
  <2>7. /\ \A x \in Drives : \A m \in Names \ {n} :
             m \in snaps'[x] <=> m \in snaps[x]
        /\ snaps' \in [Drives -> SUBSET Names]
        /\ failed' \ {n} = failed \ {n}
    BY <1>0, <2>1, <2>3
  <2>8. QED BY <1>5, <2>1, <2>2, <2>5, <2>6, <2>7 DEF Taken
<1>9. CASE SaveClear
  <2>1. /\ vm.at = "clear" /\ VmAt(vm.at) /\ UNCHANGED <<snaps, monitor, failed>>
        /\ saving_state' = 0 /\ vm'.at = "end" /\ vm'.name = vm.name
    BY <1>0, <1>9 DEF SaveClear, VmAt
  <2>2. vm.name \in failed \/ InAll(vm.name)
    BY <2>1 DEF SaveInv, Waiting, Taken, Progress
  <2>3. Progress(vm.name)'
    BY <2>1, <2>2 DEF Progress, InAll
  <2>4. QED BY <1>0, <1>5, <2>1, <2>3
<1>10. CASE SaveEnd
  <2>1. /\ vm.at = "end" /\ vm'.at = "loop"
        /\ UNCHANGED <<ui, monitor, poller, saving_state, snaps, rows, failed,
                       deaths, thread, currMachine>>
    BY <1>10 DEF SaveEnd, VmAt, Off
  <2>2. Progress(poller.name) => Progress(poller.name)'
    <3>1. InAll(poller.name)' <=> InAll(poller.name)
      BY <2>1 DEF InAll
    <3>2. QED BY <2>1, <3>1 DEF Progress
  <2>3. (Taken => Taken') /\ (Waiting => Waiting')
    BY <2>1, <2>2 DEF Taken, Waiting
  <2>4. QED BY <2>1, <2>3 DEF SaveInv, Listed, Hosted, InAll
<1>11. QED
  BY <1>1, <1>2, <1>3, <1>4, <1>6, <1>7, <1>8, <1>9, <1>10 DEF VmStep

LEMMA SaveStep ==
  ASSUME Prompt, TypeOK, OneMachine, SaveInv, [Next]_vars
  PROVE  SaveInv'
<1> USE DEF launcher, executor, qemu, todo, status, disk, ghosts
<1>1. CASE UNCHANGED vars
  BY <1>1, SameSave DEF vars
<1>2. CASE \E l \in Listeners : ListenerStep(l)
  BY <1>2, SameSave DEF ListenerStep
<1>3. QED
  BY <1>1, <1>2, UserSaves, UiSaves, MachineSaves, PollerSaves, ThreadSaves,
     DiesSaves
  DEF Next, Kill

LEMMA SaveMeaning == TypeOK /\ SaveInv => DialogTruthful /\ ListAgrees
<1> SUFFICES ASSUME TypeOK, SaveInv PROVE DialogTruthful /\ ListAgrees
  OBVIOUS
<1>1. ui = "dialog" <=> poller.at # "none"
  BY DEF TypeOK, ViewerType
<1>2. DoneMeansSaved
  BY <1>1 DEF DoneMeansSaved, SaveInv, Waiting, Taken, Progress, InAll
<1>3. DialogEnds
  BY DEF DialogEnds, SaveInv, Waiting, Taken, Progress
<1>4. ListAgrees
  BY DEF ListAgrees, SaveInv, Listed, Taken, InAll
<1>5. QED BY <1>2, <1>3, <1>4 DEF DialogTruthful

LEMMA SavesInvariant ==
  ASSUME Prompt
  PROVE  Spec /\ []OneMachine => [](TypeOK /\ SaveInv)
<1>1. Spec => []TypeOK
  BY SessionTypeCorrect
<1>2. TypeOK /\ OneMachine /\ SaveInv /\ [Next]_vars => SaveInv'
  BY SaveStep
<1>3. QED BY <1>1, <1>2, InitSaves, PTL DEF Spec

(* In a session in which no thread starts a machine while another runs     *)
(* one, if the main loop takes a command within the second that the UI     *)
(* thread sleeps: DONE means that the snapshot is in every drive where     *)
(* creating it did not fail, and the dialog of a command that is over and  *)
(* did not fail ends with its next poll.                                   *)
THEOREM DialogIsTruthful ==
  ASSUME Prompt
  PROVE  Spec /\ []OneMachine => []DialogTruthful
<1>1. Spec /\ []OneMachine => [](TypeOK /\ SaveInv)
  BY SavesInvariant
<1>2. QED BY <1>1, SaveMeaning, PTL

(* In such a session, until the process ends for the first time, the       *)
(* database lists, whenever nothing is being saved, just the snapshots     *)
(* that every drive holds, of those whose last savevm did not fail.        *)
THEOREM ListAlwaysAgrees ==
  ASSUME Prompt
  PROVE  Spec /\ []OneMachine => []ListAgrees
<1>1. Spec /\ []OneMachine => [](TypeOK /\ SaveInv)
  BY SavesInvariant
<1>2. QED BY <1>1, SaveMeaning, PTL

=============================================================================
