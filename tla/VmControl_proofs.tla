---------------------------- MODULE VmControl_proofs ------------------------
(***************************************************************************)
(* Proofs about VmControl, for any number of vCPUs and Java threads, and   *)
(* whatever the guest and the handlers do.                                 *)
(***************************************************************************)
EXTENDS VmControl, TLAPS

(* The TCG thread is past the check of cpu_can_run; it is in cpu_exec.     *)
InLoop == {"enter", "entered", "boundary", "guest"}
InExec == InLoop \ {"enter"}

(* TypeOK, by what each part is about.                                     *)
MachineType ==
  /\ runstate \in RunStates /\ requested \subseteq Requests
  /\ vmstop_requested \in {"io-error", "max"}
  /\ no_reboot \in BOOLEAN /\ no_shutdown \in BOOLEAN
  /\ halted \in [Cpus -> BOOLEAN]
  /\ mutex \in {"none", "io", "vcpu"} /\ iothread_requesting_mutex \in BOOLEAN
  /\ event \in BOOLEAN /\ select_saw \subseteq {"event", "fd"}
StopType ==
  /\ stop \in [Cpus -> BOOLEAN] /\ stopped \in [Cpus -> BOOLEAN]
VcpuType ==
  /\ env_exit \in [Cpus -> BOOLEAN] /\ exit_request \in BOOLEAN
  /\ cpu_single_env \in Cpus \cup {NoCpu} /\ next_cpu \in Cpus \cup {NoCpu}
  /\ vpc \in VcpuPlaces
  /\ vpc \in InLoop => next_cpu \in Cpus
  /\ vpc \in InExec <=> cpu_single_env # NoCpu
OpType ==
  /\ ipc \in IoPlaces
  /\ op \in [kind : {"none", "stop", "savevm", "loadvm", "suspend", "reset"},
             state : RunStates \cup {"max"},
             next : Checks \cup {"top", "drain"}]
UiType ==
  /\ upc \in [UiThreads -> UiPlaces]
  /\ uenv \in [UiThreads -> Cpus \cup {NoCpu}]
  /\ \A u \in UiThreads : upc[u] \in {"stop", "stopped", "exit"}
       => uenv[u] # NoCpu

(* TypeOK is the conjunction of its parts.                                 *)
LEMMA TypeParts ==
  TypeOK <=> MachineType /\ StopType /\ VcpuType /\ OpType /\ UiType
BY DEF TypeOK, MachineType, StopType, VcpuType, OpType, UiType, InLoop, InExec

(* Waking threads moves them from one sleep to another place.              *)
LEMMA Awake ==
  ASSUME TypeOK
  PROVE  /\ Kicked \in VcpuPlaces /\ Proceeded \in VcpuPlaces
         /\ PauseSignalled \in IoPlaces
         /\ \/ Kicked = vpc
            \/ /\ Kicked \in {"halt_woken", "start_woken"}
               /\ vpc \in {"halt_wait", "start_wait"}
         /\ \/ Proceeded = vpc
            \/ Proceeded = "proceed_woken" /\ vpc = "proceed_wait"
BY DEF TypeOK, Kicked, Proceeded, PauseSignalled, VcpuPlaces, IoPlaces

(* Every step keeps the types.                                             *)
LEMMA TypeStep == TypeOK /\ [Next]_vars => TypeOK'
<1> SUFFICES ASSUME TypeOK, [Next]_vars PROVE TypeOK'
  OBVIOUS
<1> USE VmAssumption DEF flags, stops, tcg, lock, poll, ui
<1>a. /\ MachineType /\ StopType /\ VcpuType /\ OpType /\ UiType
  BY TypeParts
<1>b. /\ Kicked \in VcpuPlaces /\ (Kicked \in InExec <=> vpc \in InExec)
      /\ (Kicked \in InLoop <=> vpc \in InLoop)
  BY Awake DEF InExec, InLoop
<1>c. PauseSignalled \in IoPlaces /\ Proceeded \in VcpuPlaces
      /\ (Proceeded \in InExec <=> vpc \in InExec)
      /\ (Proceeded \in InLoop <=> vpc \in InLoop)
  BY Awake DEF InExec, InLoop
<1>1. CASE VcpuStart
  BY <1>1
  DEF VcpuStart, AnswerStop, FirstOrNext, PauseSignalled, TypeOK, Checks,
      IoPlaces, VcpuPlaces, UiPlaces, RunStates, Requests, NoCpu, Cpus
<1>2. CASE NextCpu
  BY <1>2
  DEF NextCpu, CpuAfter, CanRun, TypeOK, Checks, IoPlaces, VcpuPlaces,
      UiPlaces, RunStates, Requests, NoCpu, Cpus
<1>3. CASE Enter
  BY <1>3
  DEF Enter, TypeOK, Checks, IoPlaces, VcpuPlaces, UiPlaces, RunStates,
      Requests, NoCpu, Cpus
<1>4. CASE TakeExitRequest
  BY <1>4
  DEF TakeExitRequest, TypeOK, Checks, IoPlaces, VcpuPlaces, UiPlaces,
      RunStates, Requests, NoCpu, Cpus
<1>5. CASE Boundary
  <2>1. MachineType'
    BY <1>a, <1>b, <1>c, <1>5
    DEF Boundary, LeaveGuest, CpuAfter, MachineType, Requests
  <2>2. StopType'
    BY <1>a, <1>b, <1>c, <1>5 DEF Boundary, LeaveGuest, CpuAfter, StopType
  <2>3. VcpuType'
    <3>1. next_cpu \in 1..NCPU => CpuAfter(next_cpu) \in Cpus \cup {NoCpu}
      BY DEF CpuAfter, Cpus, NoCpu
    <3>2. vpc = "boundary" /\ next_cpu \in 1..NCPU
      BY <1>a, <1>5 DEF Boundary, VcpuType, InLoop, Cpus
    <3>3. CASE LeaveGuest /\ env_exit' = [env_exit EXCEPT ![cpu_single_env] = FALSE]
      BY <1>a, <1>5, <3>1, <3>2, <3>3
      DEF Boundary, LeaveGuest, VcpuType, InLoop, InExec, VcpuPlaces
    <3>4. CASE vpc' = "guest" /\ UNCHANGED <<env_exit, cpu_single_env, next_cpu>>
      BY <1>a, <1>5, <3>2, <3>4
      DEF Boundary, VcpuType, InLoop, InExec, VcpuPlaces
    <3>5. QED BY <1>5, <3>3, <3>4 DEF Boundary
  <2>4. OpType'
    BY <1>a, <1>b, <1>c, <1>5
    DEF Boundary, LeaveGuest, CpuAfter, OpType, IoPlaces, Checks
  <2>5. UiType'
    BY <1>a, <1>b, <1>c, <1>5
    DEF Boundary, LeaveGuest, CpuAfter, UiType, UiPlaces
  <2>6. QED BY <2>1, <2>2, <2>3, <2>4, <2>5
        DEF TypeOK, MachineType, StopType, VcpuType, OpType, UiType, InLoop,
            InExec
<1>6. CASE ClearExitRequest
  <2>1. MachineType'
    BY <1>a, <1>b, <1>c, <1>6 DEF ClearExitRequest, MachineType, Requests
  <2>2. StopType'
    BY <1>a, <1>b, <1>c, <1>6 DEF ClearExitRequest, StopType
  <2>3. VcpuType'
    BY <1>a, <1>b, <1>c, <1>6
    DEF ClearExitRequest, VcpuType, InLoop, InExec, VcpuPlaces, Cpus, NoCpu
  <2>4. OpType'
    BY <1>a, <1>b, <1>c, <1>6 DEF ClearExitRequest, OpType, IoPlaces, Checks
  <2>5. UiType'
    BY <1>a, <1>b, <1>c, <1>6 DEF ClearExitRequest, UiType, UiPlaces
  <2>6. QED BY <2>1, <2>2, <2>3, <2>4, <2>5
        DEF TypeOK, MachineType, StopType, VcpuType, OpType, UiType, InLoop,
            InExec
<1>7. CASE WaitIoEvent
  BY <1>7
  DEF WaitIoEvent, TypeOK, Checks, IoPlaces, VcpuPlaces, UiPlaces, RunStates,
      Requests, NoCpu, Cpus
<1>8. CASE Proceed
  <2>1. MachineType'
    BY <1>a, <1>b, <1>c, <1>8
    DEF Proceed, AnswerStop, FirstOrNext, MachineType, Requests
  <2>2. StopType'
    BY <1>a, <1>b, <1>c, <1>8 DEF Proceed, AnswerStop, FirstOrNext, StopType
  <2>3. VcpuType'
    BY <1>a, <1>b, <1>c, <1>8
    DEF Proceed, AnswerStop, FirstOrNext, VcpuType, InLoop, InExec,
        VcpuPlaces, Cpus, NoCpu
  <2>4. OpType'
    BY <1>a, <1>b, <1>c, <1>8
    DEF Proceed, AnswerStop, FirstOrNext, OpType, IoPlaces, Checks
  <2>5. UiType'
    BY <1>a, <1>b, <1>c, <1>8
    DEF Proceed, AnswerStop, FirstOrNext, UiType, UiPlaces
  <2>6. QED BY <2>1, <2>2, <2>3, <2>4, <2>5
        DEF TypeOK, MachineType, StopType, VcpuType, OpType, UiType, InLoop,
            InExec
<1>9. CASE VcpuLock
  BY <1>9
  DEF VcpuLock, TypeOK, Checks, IoPlaces, VcpuPlaces, UiPlaces, RunStates,
      Requests, NoCpu, Cpus
<1>10. CASE BlockDone
  BY <1>10
  DEF BlockDone, TypeOK, Checks, IoPlaces, VcpuPlaces, UiPlaces, RunStates,
      Requests, NoCpu, Cpus
<1>11. CASE GuestRequest
  <2>1. MachineType'
    BY <1>a, <1>b, <1>c, <1>11
    DEF GuestRequest, ResetRequest, Request, StopSelf, MachineType, Requests
  <2>2. StopType'
    BY <1>a, <1>b, <1>c, <1>11
    DEF GuestRequest, ResetRequest, Request, StopSelf, StopType
  <2>3. VcpuType'
    BY <1>a, <1>b, <1>c, <1>11
    DEF GuestRequest, ResetRequest, Request, StopSelf, VcpuType, InLoop,
        InExec, VcpuPlaces, Cpus, NoCpu
  <2>4. OpType'
    BY <1>a, <1>b, <1>c, <1>11
    DEF GuestRequest, ResetRequest, Request, StopSelf, OpType, IoPlaces,
        Checks
  <2>5. UiType'
    BY <1>a, <1>b, <1>c, <1>11
    DEF GuestRequest, ResetRequest, Request, StopSelf, UiType, UiPlaces
  <2>6. QED BY <2>1, <2>2, <2>3, <2>4, <2>5
        DEF TypeOK, MachineType, StopType, VcpuType, OpType, UiType, InLoop,
            InExec
<1>12. CASE GuestHalt
  BY <1>12
  DEF GuestHalt, LeaveGuest, CpuAfter, TypeOK, Checks, IoPlaces, VcpuPlaces,
      UiPlaces, RunStates, Requests, NoCpu, Cpus
<1>13. CASE GuestInterruptsOther
  BY <1>13
  DEF GuestInterruptsOther, TypeOK, Checks, IoPlaces, VcpuPlaces, UiPlaces,
      RunStates, Requests, NoCpu, Cpus
<1>14. CASE GuestDebug
  BY <1>14
  DEF GuestDebug, Request, TypeOK, Checks, IoPlaces, VcpuPlaces, UiPlaces,
      RunStates, Requests, NoCpu, Cpus
<1>15. CASE Boot
  BY <1>15
  DEF Boot, Resume, SetRunState, Kicked, TypeOK, Checks, IoPlaces, VcpuPlaces,
      UiPlaces, RunStates, Requests, NoCpu, Cpus
<1>16. CASE Poll
  BY <1>16
  DEF Poll, TypeOK, Checks, IoPlaces, VcpuPlaces, UiPlaces, RunStates,
      Requests, NoCpu, Cpus
<1>17. CASE Block
  BY <1>17
  DEF Block, TypeOK, Checks, IoPlaces, VcpuPlaces, UiPlaces, RunStates,
      Requests, NoCpu, Cpus
<1>18. CASE TryLock
  <2>1. MachineType'
    BY <1>a, <1>b, <1>c, <1>18 DEF TryLock, Acquire, MachineType, Requests
  <2>2. StopType'
    BY <1>a, <1>b, <1>c, <1>18 DEF TryLock, Acquire, StopType
  <2>3. VcpuType'
    BY <1>a, <1>b, <1>c, <1>18
    DEF TryLock, Acquire, VcpuType, InLoop, InExec, VcpuPlaces, Cpus, NoCpu
  <2>4. OpType'
    BY <1>a, <1>b, <1>c, <1>18 DEF TryLock, Acquire, OpType, IoPlaces, Checks
  <2>5. UiType'
    BY <1>a, <1>b, <1>c, <1>18 DEF TryLock, Acquire, UiType, UiPlaces
  <2>6. QED BY <2>1, <2>2, <2>3, <2>4, <2>5
        DEF TypeOK, MachineType, StopType, VcpuType, OpType, UiType, InLoop,
            InExec
<1>19. CASE Kick
  BY <1>19
  DEF Kick, TypeOK, Checks, IoPlaces, VcpuPlaces, UiPlaces, RunStates,
      Requests, NoCpu, Cpus
<1>20. CASE IoLock
  <2>1. MachineType'
    BY <1>a, <1>b, <1>c, <1>20 DEF IoLock, Acquire, MachineType, Requests
  <2>2. StopType'
    BY <1>a, <1>b, <1>c, <1>20 DEF IoLock, Acquire, StopType
  <2>3. VcpuType'
    BY <1>a, <1>b, <1>c, <1>20
    DEF IoLock, Acquire, VcpuType, InLoop, InExec, VcpuPlaces, Cpus, NoCpu
  <2>4. OpType'
    BY <1>a, <1>b, <1>c, <1>20 DEF IoLock, Acquire, OpType, IoPlaces, Checks
  <2>5. UiType'
    BY <1>a, <1>b, <1>c, <1>20 DEF IoLock, Acquire, UiType, UiPlaces
  <2>6. QED BY <2>1, <2>2, <2>3, <2>4, <2>5
        DEF TypeOK, MachineType, StopType, VcpuType, OpType, UiType, InLoop,
            InExec
<1>21. CASE NoHandler
  BY <1>21
  DEF NoHandler, NextPlace, TypeOK, Checks, IoPlaces, VcpuPlaces, UiPlaces,
      RunStates, Requests, NoCpu, Cpus
<1>22. CASE StopHandler
  <2>1. MachineType'
    BY <1>a, <1>b, <1>c, <1>22
    DEF StopHandler, VmStop, BeginPause, NextPlace, MachineType, Requests
  <2>2. StopType'
    BY <1>a, <1>b, <1>c, <1>22
    DEF StopHandler, VmStop, BeginPause, NextPlace, StopType
  <2>3. VcpuType'
    BY <1>a, <1>b, <1>c, <1>22
    DEF StopHandler, VmStop, BeginPause, NextPlace, VcpuType, InLoop, InExec,
        VcpuPlaces, Cpus, NoCpu
  <2>4. OpType'
    BY <1>a, <1>b, <1>c, <1>22
    DEF StopHandler, VmStop, BeginPause, NextPlace, OpType, IoPlaces, Checks,
        MachineType, RunStates
  <2>5. UiType'
    BY <1>a, <1>b, <1>c, <1>22
    DEF StopHandler, VmStop, BeginPause, NextPlace, UiType, UiPlaces
  <2>6. QED BY <2>1, <2>2, <2>3, <2>4, <2>5
        DEF TypeOK, MachineType, StopType, VcpuType, OpType, UiType, InLoop,
            InExec
<1>23. CASE LoadHandler
  BY <1>23
  DEF LoadHandler, NextPlace, TypeOK, Checks, IoPlaces, VcpuPlaces, UiPlaces,
      RunStates, Requests, NoCpu, Cpus
<1>24. CASE StartHandler
  <2>1. MachineType'
    BY <1>a, <1>b, <1>c, <1>24
    DEF StartHandler, Cont, Wakeup, VmStart, SetRunState, Resume, NextPlace,
        Request, MachineType, Requests, RunStates, Transitions
  <2>2. StopType'
    BY <1>a, <1>b, <1>c, <1>24
    DEF StartHandler, Cont, Wakeup, VmStart, SetRunState, Resume, NextPlace,
        Request, StopType
  <2>3. VcpuType'
    BY <1>a, <1>b, <1>c, <1>24
    DEF StartHandler, Cont, Wakeup, VmStart, SetRunState, Resume, NextPlace,
        Request, VcpuType, InLoop, InExec, VcpuPlaces, Cpus, NoCpu
  <2>4. OpType'
    BY <1>a, <1>b, <1>c, <1>24
    DEF StartHandler, Cont, Wakeup, VmStart, SetRunState, Resume, NextPlace,
        Request, OpType, IoPlaces, Checks
  <2>5. UiType'
    BY <1>a, <1>b, <1>c, <1>24
    DEF StartHandler, Cont, Wakeup, VmStart, SetRunState, Resume, NextPlace,
        Request, UiType, UiPlaces
  <2>6. QED BY <2>1, <2>2, <2>3, <2>4, <2>5
        DEF TypeOK, MachineType, StopType, VcpuType, OpType, UiType, InLoop,
            InExec
<1>25. CASE RequestHandler
  <2>1. MachineType'
    BY <1>a, <1>b, <1>c, <1>25
    DEF RequestHandler, ResetRequest, Request, NextPlace, MachineType,
        Requests
  <2>2. StopType'
    BY <1>a, <1>b, <1>c, <1>25
    DEF RequestHandler, ResetRequest, Request, NextPlace, StopType
  <2>3. VcpuType'
    BY <1>a, <1>b, <1>c, <1>25
    DEF RequestHandler, ResetRequest, Request, NextPlace, VcpuType, InLoop,
        InExec, VcpuPlaces, Cpus, NoCpu
  <2>4. OpType'
    BY <1>a, <1>b, <1>c, <1>25
    DEF RequestHandler, ResetRequest, Request, NextPlace, OpType, IoPlaces,
        Checks
  <2>5. UiType'
    BY <1>a, <1>b, <1>c, <1>25
    DEF RequestHandler, ResetRequest, Request, NextPlace, UiType, UiPlaces
  <2>6. QED BY <2>1, <2>2, <2>3, <2>4, <2>5
        DEF TypeOK, MachineType, StopType, VcpuType, OpType, UiType, InLoop,
            InExec
<1>26. CASE InterruptHandler
  BY <1>26
  DEF InterruptHandler, NextPlace, Kicked, TypeOK, Checks, IoPlaces,
      VcpuPlaces, UiPlaces, RunStates, Requests, NoCpu, Cpus
<1>27. CASE Drain
  BY <1>27
  DEF Drain, TypeOK, Checks, IoPlaces, VcpuPlaces, UiPlaces, RunStates,
      Requests, NoCpu, Cpus
<1>28. CASE PauseSleep
  <2>1. MachineType'
    BY <1>a, <1>b, <1>c, <1>28 DEF PauseSleep, MachineType, Requests
  <2>2. StopType'
    BY <1>a, <1>b, <1>c, <1>28 DEF PauseSleep, StopType
  <2>3. VcpuType'
    BY <1>a, <1>b, <1>c, <1>28
    DEF PauseSleep, VcpuType, InLoop, InExec, VcpuPlaces, Cpus, NoCpu
  <2>4. OpType'
    BY <1>a, <1>b, <1>c, <1>28 DEF PauseSleep, OpType, IoPlaces, Checks
  <2>5. UiType'
    BY <1>a, <1>b, <1>c, <1>28 DEF PauseSleep, UiType, UiPlaces
  <2>6. QED BY <2>1, <2>2, <2>3, <2>4, <2>5
        DEF TypeOK, MachineType, StopType, VcpuType, OpType, UiType, InLoop,
            InExec
<1>29. CASE PauseAgain
  BY <1>29
  DEF PauseAgain, Kicked, TypeOK, Checks, IoPlaces, VcpuPlaces, UiPlaces,
      RunStates, Requests, NoCpu, Cpus
<1>30. CASE PauseDone
  <2>1. MachineType'
    BY <1>a, <1>b, <1>c, <1>30
    DEF PauseDone, ResetDone, SystemReset, Resume, SetRunState, NoOp,
        MachineType, Requests, RunStates, Transitions
  <2>2. StopType'
    BY <1>a, <1>b, <1>c, <1>30
    DEF PauseDone, ResetDone, SystemReset, Resume, SetRunState, NoOp, StopType
  <2>3. VcpuType'
    BY <1>a, <1>b, <1>c, <1>30
    DEF PauseDone, ResetDone, SystemReset, Resume, SetRunState, NoOp,
        VcpuType, InLoop, InExec, VcpuPlaces, Cpus, NoCpu
  <2>4. OpType'
    BY <1>a, <1>b, <1>c, <1>30
    DEF PauseDone, ResetDone, SystemReset, Resume, SetRunState, NoOp, OpType,
        IoPlaces, Checks
  <2>5. UiType'
    BY <1>a, <1>b, <1>c, <1>30
    DEF PauseDone, ResetDone, SystemReset, Resume, SetRunState, NoOp, UiType,
        UiPlaces
  <2>6. QED BY <2>1, <2>2, <2>3, <2>4, <2>5
        DEF TypeOK, MachineType, StopType, VcpuType, OpType, UiType, InLoop,
            InExec
<1>31. CASE SaveOrLoad
  <2>1. MachineType'
    BY <1>a, <1>b, <1>c, <1>31
    DEF SaveOrLoad, VmStart, SetRunState, Resume, NoOp, MachineType, Requests,
        RunStates, Transitions
  <2>2. StopType'
    BY <1>a, <1>b, <1>c, <1>31
    DEF SaveOrLoad, VmStart, SetRunState, Resume, NoOp, StopType
  <2>3. VcpuType'
    BY <1>a, <1>b, <1>c, <1>31
    DEF SaveOrLoad, VmStart, SetRunState, Resume, NoOp, VcpuType, InLoop,
        InExec, VcpuPlaces, Cpus, NoCpu
  <2>4. OpType'
    BY <1>a, <1>b, <1>c, <1>31
    DEF SaveOrLoad, VmStart, SetRunState, Resume, NoOp, OpType, IoPlaces,
        Checks
  <2>5. UiType'
    BY <1>a, <1>b, <1>c, <1>31
    DEF SaveOrLoad, VmStart, SetRunState, Resume, NoOp, UiType, UiPlaces
  <2>6. QED BY <2>1, <2>2, <2>3, <2>4, <2>5
        DEF TypeOK, MachineType, StopType, VcpuType, OpType, UiType, InLoop,
            InExec
<1>32. CASE NotRequested
  BY <1>32
  DEF NotRequested, Pending, AfterCheck, TypeOK, Checks, IoPlaces, VcpuPlaces,
      UiPlaces, RunStates, Requests, NoCpu, Cpus
<1>33. CASE Requested
  <2>1. MachineType'
    BY <1>a, <1>b, <1>c, <1>33
    DEF Requested, Pending, AfterCheck, HandleStop, HandlePause,
        HandleShutdown, HandlePowerdown, VmStop, BeginPause, ThenDo,
        MachineType, Requests
  <2>2. StopType'
    BY <1>a, <1>b, <1>c, <1>33
    DEF Requested, Pending, AfterCheck, HandleStop, HandlePause,
        HandleShutdown, HandlePowerdown, VmStop, BeginPause, ThenDo, StopType
  <2>3. VcpuType'
    BY <1>a, <1>b, <1>c, <1>33
    DEF Requested, Pending, AfterCheck, HandleStop, HandlePause,
        HandleShutdown, HandlePowerdown, VmStop, BeginPause, ThenDo, VcpuType,
        InLoop, InExec, VcpuPlaces, Cpus, NoCpu
  <2>4. OpType'
    BY <1>a, <1>b, <1>c, <1>33
    DEF Requested, Pending, AfterCheck, HandleStop, HandlePause,
        HandleShutdown, HandlePowerdown, VmStop, BeginPause, ThenDo, OpType,
        IoPlaces, Checks, MachineType, RunStates
  <2>5. UiType'
    BY <1>a, <1>b, <1>c, <1>33
    DEF Requested, Pending, AfterCheck, HandleStop, HandlePause,
        HandleShutdown, HandlePowerdown, VmStop, BeginPause, ThenDo, UiType,
        UiPlaces
  <2>6. QED BY <2>1, <2>2, <2>3, <2>4, <2>5
        DEF TypeOK, MachineType, StopType, VcpuType, OpType, UiType, InLoop,
            InExec
<1>34. CASE SelectReturns
  BY <1>34
  DEF SelectReturns, TypeOK, Checks, IoPlaces, VcpuPlaces, UiPlaces,
      RunStates, Requests, NoCpu, Cpus
<1>35. ASSUME NEW u \in UiThreads, UiRequest(u) PROVE TypeOK'
  BY <1>35
  DEF UiRequest, UiGo, Request, TypeOK, Checks, IoPlaces, VcpuPlaces,
      UiPlaces, RunStates, Requests, NoCpu, Cpus
<1>36. ASSUME NEW u \in UiThreads, UiTest(u) PROVE TypeOK'
  BY <1>36
  DEF UiTest, UiGo, TypeOK, Checks, IoPlaces, VcpuPlaces, UiPlaces, Loads,
      RunStates, Requests, NoCpu, Cpus
<1>36a. ASSUME NEW u \in UiThreads, UiLoad(u) PROVE TypeOK'
  <2>1. MachineType' /\ OpType'
    BY <1>a, <1>b, <1>c, <1>36a
    DEF UiLoad, UiGo, MachineType, OpType, Requests, IoPlaces, Checks
  <2>2. StopType'
    BY <1>a, <1>b, <1>c, <1>36a DEF UiLoad, UiGo, StopType
  <2>3. VcpuType'
    BY <1>a, <1>b, <1>c, <1>36a
    DEF UiLoad, UiGo, VcpuType, InLoop, InExec, VcpuPlaces, Cpus, NoCpu
  <2>4. UiType'
    BY <1>a, <1>b, <1>c, <1>36a
    DEF UiLoad, UiGo, UiType, UiPlaces, Loads, VcpuType, AfterLoad, NoCpu
  <2>5. QED BY <2>1, <2>2, <2>3, <2>4
        DEF TypeOK, MachineType, StopType, VcpuType, OpType, UiType, InLoop,
            InExec
<1>37. ASSUME NEW u \in UiThreads, UiStop(u) PROVE TypeOK'
  <2>1. MachineType' /\ OpType'
    BY <1>a, <1>b, <1>c, <1>37
    DEF UiStop, UiGo, MachineType, OpType, Requests, IoPlaces, Checks
  <2>2. StopType'
    BY <1>a, <1>b, <1>c, <1>37 DEF UiStop, UiGo, StopType
  <2>3. VcpuType'
    BY <1>a, <1>b, <1>c, <1>37
    DEF UiStop, UiGo, VcpuType, InLoop, InExec, VcpuPlaces, Cpus, NoCpu
  <2>4. UiType'
    BY <1>a, <1>b, <1>c, <1>37
    DEF UiStop, UiGo, UiType, UiPlaces, Loads, VcpuType
  <2>5. QED BY <2>1, <2>2, <2>3, <2>4
        DEF TypeOK, MachineType, StopType, VcpuType, OpType, UiType, InLoop,
            InExec
<1>37a. ASSUME NEW u \in UiThreads, UiExit(u) PROVE TypeOK'
  <2>1. MachineType' /\ OpType'
    BY <1>a, <1>b, <1>c, <1>37a
    DEF UiExit, UiGo, MachineType, OpType, Requests, IoPlaces, Checks
  <2>2. StopType'
    BY <1>a, <1>b, <1>c, <1>37a DEF UiExit, UiGo, StopType
  <2>3. VcpuType'
    BY <1>a, <1>b, <1>c, <1>37a
    DEF UiExit, UiGo, VcpuType, InLoop, InExec, VcpuPlaces, Cpus, NoCpu
  <2>4. UiType'
    BY <1>a, <1>b, <1>c, <1>37a
    DEF UiExit, UiGo, UiType, UiPlaces, Loads, VcpuType
  <2>5. QED BY <2>1, <2>2, <2>3, <2>4
        DEF TypeOK, MachineType, StopType, VcpuType, OpType, UiType, InLoop,
            InExec
<1>38. ASSUME NEW u \in UiThreads, UiSignal(u) PROVE TypeOK'
  BY <1>38
  DEF UiSignal, UiGo, PauseSignalled, TypeOK, Checks, IoPlaces, VcpuPlaces,
      UiPlaces, RunStates, Requests, NoCpu, Cpus
<1>39. ASSUME NEW u \in UiThreads, UiNotify(u) PROVE TypeOK'
  BY <1>39
  DEF UiNotify, UiGo, TypeOK, Checks, IoPlaces, VcpuPlaces, UiPlaces,
      RunStates, Requests, NoCpu, Cpus
<1>40. CASE UNCHANGED vars
  BY <1>40
  DEF vars, TypeOK, Checks, IoPlaces, VcpuPlaces, UiPlaces, RunStates,
      Requests, NoCpu, Cpus
<1>41. QED
  BY <1>1, <1>2, <1>3, <1>4, <1>5, <1>6, <1>7, <1>8, <1>9, <1>10, <1>11,
     <1>12, <1>13, <1>14, <1>15, <1>16, <1>17, <1>18, <1>19, <1>20, <1>21,
     <1>22, <1>23, <1>24, <1>25, <1>26, <1>27, <1>28, <1>29, <1>30, <1>31,
     <1>32, <1>33, <1>34, <1>35, <1>36, <1>36a, <1>37, <1>37a, <1>38, <1>39,
     <1>40
  DEF Next, VcpuStep, GuestStep, IoStep, Handlers, UiStep, Gone

-----------------------------------------------------------------------------
(* The mutex, and the guest.                                               *)

VcpuHolds == {"next", "enter", "entered", "boundary", "guest", "clear",
              "wait", "proceed"}
IoReleased == {"select", "trylock", "kick", "lock", "pause_wait", "pause_woken"}

(* Who holds the mutex is where one holds it.                              *)
MutexPlaces ==
  /\ mutex = "vcpu" <=> vpc \in VcpuHolds
  /\ mutex = "io" <=> ipc \notin IoReleased

MutexInv == TypeOK /\ MutexPlaces

(* Every step takes and releases the mutex as its places say.              *)
LEMMA MutexStep ==
  ASSUME MutexInv, [Next]_vars
  PROVE  MutexPlaces'
<1> USE VmAssumption DEF flags, stops, tcg, lock, poll, ui
<1>a. /\ MutexPlaces /\ vpc \in VcpuPlaces
      /\ op.next \notin IoReleased
      /\ (Kicked \in VcpuHolds <=> vpc \in VcpuHolds)
      /\ (Proceeded \in VcpuHolds <=> vpc \in VcpuHolds)
      /\ (PauseSignalled \in IoReleased <=> ipc \in IoReleased)
  BY DEF MutexInv, TypeOK, Kicked, Proceeded, PauseSignalled, VcpuHolds,
     IoReleased, Checks
<1>1. CASE VcpuStart \/ NextCpu \/ Enter \/ TakeExitRequest \/ Boundary \/
           ClearExitRequest \/ WaitIoEvent \/ Proceed \/ VcpuLock
  BY <1>a, <1>1
  DEF VcpuStart, AnswerStop, FirstOrNext, NextCpu, CpuAfter, CanRun, Enter,
      TakeExitRequest, Boundary, LeaveGuest, ClearExitRequest, WaitIoEvent,
      Proceed, VcpuLock, MutexPlaces, VcpuHolds, IoReleased
<1>2. CASE BlockDone \/ GuestRequest \/ GuestHalt \/ GuestInterruptsOther \/
           GuestDebug
  BY <1>a, <1>2
  DEF BlockDone, GuestRequest, ResetRequest, Request, StopSelf, GuestHalt,
      LeaveGuest, CpuAfter, GuestInterruptsOther, GuestDebug, MutexPlaces,
      VcpuHolds, IoReleased
<1>3. CASE Boot \/ Poll \/ Block \/ TryLock \/ Kick \/ IoLock \/ Drain \/
           SelectReturns
  BY <1>a, <1>3
  DEF Boot, Resume, SetRunState, Poll, Block, TryLock, Acquire, Kick, IoLock,
      Drain, SelectReturns, MutexPlaces, VcpuHolds, IoReleased
<1>4. CASE NoHandler \/ StopHandler \/ LoadHandler \/ StartHandler \/
           RequestHandler \/ InterruptHandler
  BY <1>a, <1>4
  DEF NoHandler, NextPlace, StopHandler, VmStop, BeginPause, LoadHandler,
      StartHandler, Cont, Wakeup, VmStart, SetRunState, Resume, Request,
      RequestHandler, ResetRequest, InterruptHandler, MutexPlaces, VcpuHolds,
      IoReleased
<1>5. CASE PauseSleep \/ PauseAgain \/ PauseDone \/ SaveOrLoad
  BY <1>a, <1>5
  DEF PauseSleep, PauseAgain, PauseDone, ResetDone, SystemReset, Resume,
      SetRunState, NoOp, SaveOrLoad, VmStart, MutexPlaces, VcpuHolds,
      IoReleased
<1>6. CASE NotRequested
  BY <1>a, <1>6
  DEF NotRequested, Pending, AfterCheck, Checks, MutexPlaces, VcpuHolds,
      IoReleased
<1>7. CASE Requested
  BY <1>a, <1>7
  DEF Requested, Pending, AfterCheck, HandleStop, HandlePause, HandleShutdown,
      HandlePowerdown, VmStop, BeginPause, ThenDo, Checks, MutexPlaces,
      VcpuHolds, IoReleased
<1>8. ASSUME NEW u \in UiThreads, UiRequest(u) \/ UiStep(u) PROVE MutexPlaces'
  BY <1>a, <1>8
  DEF UiRequest, UiGo, Request, UiStep, UiTest, UiLoad, UiStop, UiExit,
      UiSignal, UiNotify,
      MutexPlaces, VcpuHolds, IoReleased
<1>9. CASE UNCHANGED vars
  BY <1>a, <1>9 DEF vars, MutexPlaces, VcpuHolds, IoReleased
<1>10. QED
  BY <1>1, <1>2, <1>3, <1>4, <1>5, <1>6, <1>7, <1>8, <1>9
  DEF Next, VcpuStep, GuestStep, IoStep, Handlers, UiStep, Gone

(* Only the I/O thread, with the mutex, changes the state.                 *)
LEMMA GuestStays ==
  ASSUME MutexInv, GuestOnlyWhenRunning, [Next]_vars
  PROVE  GuestOnlyWhenRunning'
<1> USE VmAssumption DEF flags, stops, tcg, lock, poll, ui
<1>a. /\ GuestOnlyWhenRunning /\ MutexPlaces
      /\ (Kicked \in InLoop <=> vpc \in InLoop)
      /\ (Proceeded \in InLoop <=> vpc \in InLoop)
  BY Awake DEF MutexInv, InLoop
<1>1. CASE VcpuStart \/ NextCpu \/ Enter \/ TakeExitRequest \/ Boundary \/
           ClearExitRequest \/ WaitIoEvent \/ Proceed \/ VcpuLock
  BY <1>a, <1>1
  DEF VcpuStart, AnswerStop, FirstOrNext, NextCpu, CpuAfter, CanRun, Enter,
      TakeExitRequest, Boundary, LeaveGuest, ClearExitRequest, WaitIoEvent,
      Proceed, VcpuLock, GuestOnlyWhenRunning, InLoop, MutexPlaces, VcpuHolds,
      IoReleased
<1>2. CASE BlockDone \/ GuestRequest \/ GuestHalt \/ GuestInterruptsOther \/
           GuestDebug
  BY <1>a, <1>2
  DEF BlockDone, GuestRequest, ResetRequest, Request, StopSelf, GuestHalt,
      LeaveGuest, CpuAfter, GuestInterruptsOther, GuestDebug,
      GuestOnlyWhenRunning, InLoop, MutexPlaces, VcpuHolds, IoReleased
<1>3. CASE Boot \/ Poll \/ Block \/ TryLock \/ Kick \/ IoLock \/ Drain \/
           SelectReturns
  BY <1>a, <1>3
  DEF Boot, Resume, SetRunState, Poll, Block, TryLock, Acquire, Kick, IoLock,
      Drain, SelectReturns, GuestOnlyWhenRunning, InLoop, MutexPlaces,
      VcpuHolds, IoReleased
<1>4. CASE NoHandler \/ StopHandler \/ LoadHandler \/ StartHandler \/
           RequestHandler \/ InterruptHandler
  BY <1>a, <1>4
  DEF NoHandler, NextPlace, StopHandler, VmStop, BeginPause, LoadHandler,
      StartHandler, Cont, Wakeup, VmStart, SetRunState, Resume, Request,
      RequestHandler, ResetRequest, InterruptHandler, GuestOnlyWhenRunning,
      InLoop, MutexPlaces, VcpuHolds, IoReleased
<1>5. CASE PauseSleep \/ PauseAgain \/ PauseDone \/ SaveOrLoad
  BY <1>a, <1>5
  DEF PauseSleep, PauseAgain, PauseDone, ResetDone, SystemReset, Resume,
      SetRunState, NoOp, SaveOrLoad, VmStart, GuestOnlyWhenRunning, InLoop,
      MutexPlaces, VcpuHolds, IoReleased
<1>6. CASE NotRequested \/ Requested
  BY <1>a, <1>6
  DEF NotRequested, Pending, AfterCheck, Requested, HandleStop, HandlePause,
      HandleShutdown, HandlePowerdown, VmStop, BeginPause, ThenDo, Checks,
      GuestOnlyWhenRunning, InLoop, MutexPlaces, VcpuHolds, IoReleased
<1>7. ASSUME NEW u \in UiThreads, UiRequest(u) \/ UiStep(u) PROVE GuestOnlyWhenRunning'
  BY <1>a, <1>7
  DEF UiRequest, UiGo, Request, UiStep, UiTest, UiLoad, UiStop, UiExit,
      UiSignal, UiNotify,
      GuestOnlyWhenRunning, InLoop, MutexPlaces, VcpuHolds, IoReleased
<1>8. CASE UNCHANGED vars
  BY <1>a, <1>8
  DEF vars, GuestOnlyWhenRunning, InLoop, MutexPlaces, VcpuHolds, IoReleased
<1>9. QED
  BY <1>1, <1>2, <1>3, <1>4, <1>5, <1>6, <1>7, <1>8
  DEF Next, VcpuStep, GuestStep, IoStep, Handlers, UiStep, Gone

(* The only step that leaves RUNNING is the end of a pause.                *)
LEMMA QuiescedStep ==
  ASSUME MutexInv, [Next]_vars
  PROVE  (runstate = "running" /\ runstate' # "running"
             => cpu_single_env = NoCpu /\ \A c \in Cpus : stopped'[c])
<1> USE VmAssumption DEF flags, stops, tcg, lock, poll, ui
<1>a. /\ MutexPlaces /\ (mutex = "io" => cpu_single_env = NoCpu)
  BY DEF MutexInv, MutexPlaces, TypeOK, VcpuHolds
<1>1. CASE VcpuStart \/ NextCpu \/ Enter \/ TakeExitRequest \/ Boundary \/
           ClearExitRequest \/ WaitIoEvent \/ Proceed \/ VcpuLock \/ BlockDone
           \/ GuestRequest \/ GuestHalt \/ GuestInterruptsOther \/ GuestDebug
           \/ Poll \/ Block \/ TryLock \/ Kick \/ IoLock \/ Drain \/
           SelectReturns
  BY <1>a, <1>1
  DEF VcpuStart, AnswerStop, FirstOrNext, NextCpu, CpuAfter, CanRun, Enter,
      TakeExitRequest, Boundary, LeaveGuest, ClearExitRequest, WaitIoEvent,
      Proceed, VcpuLock, BlockDone, GuestRequest, ResetRequest, Request,
      StopSelf, GuestHalt, GuestInterruptsOther, GuestDebug, Poll, Block,
      TryLock, Acquire, Kick, IoLock, Drain, SelectReturns, MutexPlaces,
      IoReleased
<1>2. CASE Boot
  BY <1>a, <1>2 DEF Boot, Resume, SetRunState, MutexPlaces, IoReleased
<1>3. CASE NoHandler \/ StopHandler \/ LoadHandler \/ StartHandler \/
           RequestHandler \/ InterruptHandler
  BY <1>a, <1>3
  DEF NoHandler, NextPlace, StopHandler, VmStop, BeginPause, LoadHandler,
      StartHandler, Cont, Wakeup, VmStart, SetRunState, Resume, Request,
      RequestHandler, ResetRequest, InterruptHandler, MutexPlaces, IoReleased
<1>4. CASE PauseSleep \/ PauseAgain \/ PauseDone \/ SaveOrLoad
  BY <1>a, <1>4
  DEF PauseSleep, PauseAgain, PauseDone, ResetDone, SystemReset, Resume,
      SetRunState, NoOp, SaveOrLoad, VmStart, MutexPlaces, IoReleased
<1>5. CASE NotRequested \/ Requested
  BY <1>a, <1>5
  DEF NotRequested, Pending, AfterCheck, Requested, HandleStop, HandlePause,
      HandleShutdown, HandlePowerdown, VmStop, BeginPause, ThenDo,
      MutexPlaces, IoReleased
<1>6. ASSUME NEW u \in UiThreads, UiRequest(u) \/ UiStep(u) PROVE (runstate = "running" /\ runstate' #
   "running"
             => cpu_single_env = NoCpu /\ \A c \in Cpus : stopped'[c])
  BY <1>a, <1>6
  DEF UiRequest, UiGo, Request, UiStep, UiTest, UiLoad, UiStop, UiExit,
      UiSignal, UiNotify,
      MutexPlaces, IoReleased
<1>7. CASE UNCHANGED vars
  BY <1>a, <1>7 DEF vars, MutexPlaces, IoReleased
<1>8. QED
  BY <1>1, <1>2, <1>3, <1>4, <1>5, <1>6, <1>7
  DEF Next, VcpuStep, GuestStep, IoStep, Handlers, UiStep, Gone

(* What the I/O thread's request for the mutex rests on while it waits.    *)
ExitInv ==
  /\ ipc \in {"trylock", "kick", "lock"} => iothread_requesting_mutex
  /\ ipc \in {"kick", "lock"} => vpc \notin {"start_wait", "start_woken"}
  /\ ipc = "lock" /\ vpc \in {"next", "enter", "entered", "boundary", "guest"}
       => exit_request
  /\ ipc = "lock" /\ vpc \in {"boundary", "guest"} => env_exit[cpu_single_env]

(* An exit request stays until the TCG thread is on its way to let the I/O *)
(* thread through.                                                         *)
LEMMA ExitStep ==
  ASSUME MutexInv, ExitInv, [Next]_vars
  PROVE  ExitInv'
<1> USE VmAssumption DEF flags, stops, tcg, lock, poll, ui
<1>a. /\ ExitInv /\ MutexPlaces /\ VcpuType
      /\ mutex \in {"none", "io", "vcpu"}
      /\ op.next \notin IoReleased
      /\ (Kicked = vpc \/ Kicked \in {"halt_woken", "start_woken"})
      /\ (Proceeded = vpc \/ Proceeded = "proceed_woken")
      /\ PauseSignalled \in {ipc, "pause_woken"}
  BY TypeParts, Awake DEF MutexInv, TypeOK, IoReleased, Checks, PauseSignalled
<1>1. CASE VcpuStart \/ NextCpu \/ Enter \/ TakeExitRequest \/
           ClearExitRequest \/ WaitIoEvent \/ Proceed \/ VcpuLock
  BY <1>a, <1>1
  DEF VcpuStart, AnswerStop, FirstOrNext, NextCpu, CpuAfter, CanRun, Enter,
      TakeExitRequest, ClearExitRequest, WaitIoEvent, Proceed, VcpuLock,
      ExitInv, MutexPlaces, VcpuHolds, IoReleased, VcpuType, InExec, InLoop,
      NoCpu
<1>2. CASE Boundary
  BY <1>a, <1>2
  DEF Boundary, LeaveGuest, CpuAfter, ExitInv, MutexPlaces, VcpuHolds,
      IoReleased, VcpuType, InExec, InLoop, NoCpu
<1>3. CASE BlockDone \/ GuestRequest \/ GuestHalt \/ GuestInterruptsOther \/
           GuestDebug
  BY <1>a, <1>3
  DEF BlockDone, GuestRequest, ResetRequest, Request, StopSelf, GuestHalt,
      LeaveGuest, CpuAfter, GuestInterruptsOther, GuestDebug, ExitInv,
      MutexPlaces, VcpuHolds, IoReleased, VcpuType, InExec, InLoop, NoCpu
<1>4. CASE Kick
  BY <1>a, <1>4
  DEF Kick, ExitInv, MutexPlaces, VcpuHolds, IoReleased, VcpuType, InExec,
      InLoop, NoCpu
<1>5. CASE Boot \/ Poll \/ Block \/ TryLock \/ IoLock \/ Drain \/
           SelectReturns
  BY <1>a, <1>5
  DEF Boot, Resume, SetRunState, Poll, Block, TryLock, Acquire, IoLock, Drain,
      SelectReturns, ExitInv, MutexPlaces, VcpuHolds, IoReleased, VcpuType,
      InExec, InLoop, NoCpu
<1>6. CASE NoHandler \/ StopHandler \/ LoadHandler \/ StartHandler \/
           RequestHandler \/ InterruptHandler
  BY <1>a, <1>6
  DEF NoHandler, NextPlace, StopHandler, VmStop, BeginPause, LoadHandler,
      StartHandler, Cont, Wakeup, VmStart, SetRunState, Resume, Request,
      RequestHandler, ResetRequest, InterruptHandler, ExitInv, MutexPlaces,
      VcpuHolds, IoReleased, VcpuType, InExec, InLoop, NoCpu
<1>7. CASE PauseSleep \/ PauseAgain \/ PauseDone \/ SaveOrLoad
  BY <1>a, <1>7
  DEF PauseSleep, PauseAgain, PauseDone, ResetDone, SystemReset, Resume,
      SetRunState, NoOp, SaveOrLoad, VmStart, ExitInv, MutexPlaces, VcpuHolds,
      IoReleased, VcpuType, InExec, InLoop, NoCpu
<1>8. CASE NotRequested
  BY <1>a, <1>8
  DEF NotRequested, Pending, AfterCheck, Checks, ExitInv, MutexPlaces,
      VcpuHolds, IoReleased, VcpuType, InExec, InLoop, NoCpu
<1>9. CASE Requested
  BY <1>a, <1>9
  DEF Requested, Pending, AfterCheck, HandleStop, HandlePause, HandleShutdown,
      HandlePowerdown, VmStop, BeginPause, ThenDo, Checks, ExitInv,
      MutexPlaces, VcpuHolds, IoReleased, VcpuType, InExec, InLoop, NoCpu
<1>10. ASSUME NEW u \in UiThreads, UiRequest(u) \/ UiStep(u) PROVE ExitInv'
  BY <1>a, <1>10
  DEF UiRequest, UiGo, Request, UiStep, UiTest, UiLoad, UiStop, UiExit,
      UiSignal, UiNotify, ExitInv,
      MutexPlaces, VcpuHolds, IoReleased, VcpuType, InExec, InLoop, NoCpu
<1>11. CASE UNCHANGED vars
  BY <1>a, <1>11
  DEF vars, ExitInv, MutexPlaces, VcpuHolds, IoReleased, VcpuType, InExec,
      InLoop, NoCpu
<1>12. QED
  BY <1>1, <1>2, <1>3, <1>4, <1>5, <1>6, <1>7, <1>8, <1>9, <1>10, <1>11
  DEF Next, VcpuStep, GuestStep, IoStep, Handlers, UiStep, Gone

-----------------------------------------------------------------------------
(* Requests and notifications.                                             *)

Wanted(r) == IF r = "vmstop" THEN vmstop_requested # "max" ELSE r \in requested

(* The place the I/O thread is at, or comes back to after a pause.         *)
Pausing == {"pause_check", "pause_sleep", "pause_wait", "pause_woken",
            "saving", "loading"}
At == IF ipc \in Pausing THEN op.next ELSE ipc

(* The checks it makes before it sleeps in select again.                   *)
ToCome(place) ==
  CASE place = "suspend" -> Checks \ {"debug"}
    [] place = "shutdown" -> Checks \ {"debug", "suspend"}
    [] place = "reset" -> {"reset", "powerdown", "vmstop"}
    [] place = "powerdown" -> {"powerdown", "vmstop"}
    [] place = "vmstop" -> {"vmstop"}
    [] place \in {"debug", "handlers", "drain", "timers", "exited",
                     "aborted"} -> Checks
    [] OTHER -> {}

(* Requests whose check has been passed come with a notification.          *)
Told == event \/ \E u \in UiThreads : upc[u] # "idle"
NotifyInv == \A r \in Checks : Wanted(r) /\ r \notin ToCome(At) => Told

(* Who leaves a request notifies; who drains the event looks at the        *)
(* requests afterwards.                                                    *)
LEMMA NotifyStep ==
  ASSUME TypeOK, NotifyInv, [Next]_vars
  PROVE  NotifyInv'
<1> USE VmAssumption DEF flags, stops, tcg, lock, poll, ui
<1>a. /\ NotifyInv /\ upc \in [UiThreads -> UiPlaces]
      /\ op.next \in Checks \cup {"top", "drain"}
      /\ PauseSignalled \in {ipc, "pause_woken"}
      /\ (PauseSignalled = "pause_woken"
            => ipc \in {"pause_wait", "pause_woken"})
  BY DEF TypeOK, PauseSignalled
<1>1. CASE VcpuStart \/ NextCpu \/ Enter \/ TakeExitRequest \/ Boundary \/
           ClearExitRequest \/ WaitIoEvent \/ Proceed \/ VcpuLock
  BY <1>a, <1>1
  DEF VcpuStart, AnswerStop, FirstOrNext, NextCpu, CpuAfter, CanRun, Enter,
      TakeExitRequest, Boundary, LeaveGuest, ClearExitRequest, WaitIoEvent,
      Proceed, VcpuLock, NotifyInv, Told, Wanted, At, Pausing, ToCome, Checks
<1>2. CASE BlockDone \/ GuestHalt \/ GuestInterruptsOther \/ GuestDebug
  BY <1>a, <1>2
  DEF BlockDone, GuestHalt, LeaveGuest, CpuAfter, GuestInterruptsOther,
      GuestDebug, Request, NotifyInv, Told, Wanted, At, Pausing, ToCome,
      Checks
<1>3. CASE GuestRequest
  BY <1>a, <1>3
  DEF GuestRequest, ResetRequest, Request, StopSelf, NotifyInv, Told, Wanted,
      At, Pausing, ToCome, Checks
<1>4. CASE Boot \/ Poll \/ Block \/ TryLock \/ Kick \/ IoLock \/ Drain \/
           SelectReturns
  BY <1>a, <1>4
  DEF Boot, Resume, SetRunState, Poll, Block, TryLock, Acquire, Kick, IoLock,
      Drain, SelectReturns, NotifyInv, Told, Wanted, At, Pausing, ToCome,
      Checks
<1>5. CASE NoHandler \/ StopHandler \/ LoadHandler \/ StartHandler \/
           RequestHandler \/ InterruptHandler
  BY <1>a, <1>5
  DEF NoHandler, NextPlace, StopHandler, VmStop, BeginPause, LoadHandler,
      StartHandler, Cont, Wakeup, VmStart, SetRunState, Resume, Request,
      RequestHandler, ResetRequest, InterruptHandler, NotifyInv, Told, Wanted,
      At, Pausing, ToCome, Checks
<1>6. CASE PauseSleep \/ PauseAgain \/ PauseDone \/ SaveOrLoad
  BY <1>a, <1>6
  DEF PauseSleep, PauseAgain, PauseDone, ResetDone, SystemReset, Resume,
      SetRunState, NoOp, SaveOrLoad, VmStart, NotifyInv, Told, Wanted, At,
      Pausing, ToCome, Checks
<1>7. CASE NotRequested
  BY <1>a, <1>7
  DEF NotRequested, Pending, AfterCheck, NotifyInv, Told, Wanted, At, Pausing,
      ToCome, Checks
<1>8. CASE Requested
  BY <1>a, <1>8
  DEF Requested, Pending, AfterCheck, HandleStop, HandlePause, HandleShutdown,
      HandlePowerdown, VmStop, BeginPause, ThenDo, NotifyInv, Told, Wanted,
      At, Pausing, ToCome, Checks
<1>9. ASSUME NEW u \in UiThreads, UiRequest(u) PROVE NotifyInv'
  BY <1>a, <1>9
  DEF UiRequest, UiGo, Request, NotifyInv, Told, Wanted, At, Pausing, ToCome,
      Checks
<1>10. ASSUME NEW u \in UiThreads, UiStep(u) PROVE NotifyInv'
  BY <1>a, <1>10
  DEF UiStep, UiTest, UiLoad, AfterLoad, UiGo, UiStop, UiExit, UiSignal,
      UiNotify, UiPlaces, Loads, NotifyInv, Told, Wanted, At,
      Pausing, ToCome, Checks
<1>11. CASE UNCHANGED vars
  BY <1>a, <1>11
  DEF vars, NotifyInv, Told, Wanted, At, Pausing, ToCome, Checks
<1>12. QED
  BY <1>1, <1>2, <1>3, <1>4, <1>5, <1>6, <1>7, <1>8, <1>9, <1>10, <1>11
  DEF Next, VcpuStep, GuestStep, IoStep, Handlers, UiStep, Gone

-----------------------------------------------------------------------------
(* Pauses and resumes, when no Java thread interferes.                     *)

Asked == {"pause_check", "pause_sleep", "pause_wait", "pause_woken"}

(* Every vCPU has been asked, none runs before all have answered, and the  *)
(* I/O thread sleeps only while one has not.                               *)
PauseInv ==
  ipc \in Asked =>
    /\ \A c \in Cpus : stop[c] \/ stopped[c]
    /\ (\E c \in Cpus : ~stopped[c]) => vpc \notin InLoop \cup {"next", "clear"}
    /\ ipc \in {"pause_sleep", "pause_wait"} => \E c \in Cpus : ~stopped[c]

(* The last answer wakes the I/O thread.                                   *)
LEMMA PauseStep ==
  ASSUME UiThreads = {}, MutexInv, PauseInv, [Next]_vars
  PROVE  PauseInv'
<1> USE VmAssumption DEF flags, stops, tcg, lock, poll, ui
<1>a. /\ PauseInv /\ MutexPlaces /\ VcpuType /\ StopType
      /\ op.next \notin Asked
      /\ (Kicked = vpc \/ Kicked \in {"halt_woken", "start_woken"})
      /\ (Proceeded = vpc \/ Proceeded = "proceed_woken")
      /\ PauseSignalled \in {ipc, "pause_woken"}
      /\ (PauseSignalled = "pause_woken"
            <=> ipc \in {"pause_wait", "pause_woken"})
  BY TypeParts, Awake DEF MutexInv, TypeOK, Asked, Checks, PauseSignalled
<1>1. CASE VcpuStart
  BY <1>a, <1>1
  DEF VcpuStart, AnswerStop, FirstOrNext, PauseInv, MutexPlaces, VcpuHolds,
      IoReleased, Asked, VcpuType, StopType, InLoop, InExec
<1>2. CASE NextCpu
  BY <1>a, <1>2
  DEF NextCpu, CpuAfter, CanRun, PauseInv, MutexPlaces, VcpuHolds, IoReleased,
      Asked, VcpuType, StopType, InLoop, InExec
<1>3. CASE Enter
  BY <1>a, <1>3
  DEF Enter, PauseInv, MutexPlaces, VcpuHolds, IoReleased, Asked, VcpuType,
      StopType, InLoop, InExec
<1>4. CASE TakeExitRequest
  BY <1>a, <1>4
  DEF TakeExitRequest, PauseInv, MutexPlaces, VcpuHolds, IoReleased, Asked,
      VcpuType, StopType, InLoop, InExec
<1>5. CASE Boundary
  BY <1>a, <1>5
  DEF Boundary, LeaveGuest, CpuAfter, PauseInv, MutexPlaces, VcpuHolds,
      IoReleased, Asked, VcpuType, StopType, InLoop, InExec
<1>6. CASE ClearExitRequest
  BY <1>a, <1>6
  DEF ClearExitRequest, PauseInv, MutexPlaces, VcpuHolds, IoReleased, Asked,
      VcpuType, StopType, InLoop, InExec
<1>7. CASE WaitIoEvent
  BY <1>a, <1>7
  DEF WaitIoEvent, PauseInv, MutexPlaces, VcpuHolds, IoReleased, Asked,
      VcpuType, StopType, InLoop, InExec
<1>8. CASE Proceed
  BY <1>a, <1>8
  DEF Proceed, AnswerStop, FirstOrNext, PauseInv, MutexPlaces, VcpuHolds,
      IoReleased, Asked, VcpuType, StopType, InLoop, InExec
<1>9. CASE VcpuLock
  BY <1>a, <1>9
  DEF VcpuLock, PauseInv, MutexPlaces, VcpuHolds, IoReleased, Asked, VcpuType,
      StopType, InLoop, InExec
<1>10. CASE BlockDone
  BY <1>a, <1>10
  DEF BlockDone, PauseInv, MutexPlaces, VcpuHolds, IoReleased, Asked,
      VcpuType, StopType, InLoop, InExec
<1>11. CASE GuestRequest
  BY <1>a, <1>11
  DEF GuestRequest, ResetRequest, Request, StopSelf, PauseInv, MutexPlaces,
      VcpuHolds, IoReleased, Asked, VcpuType, StopType, InLoop, InExec
<1>12. CASE GuestHalt
  BY <1>a, <1>12
  DEF GuestHalt, LeaveGuest, CpuAfter, PauseInv, MutexPlaces, VcpuHolds,
      IoReleased, Asked, VcpuType, StopType, InLoop, InExec
<1>13. CASE GuestInterruptsOther
  BY <1>a, <1>13
  DEF GuestInterruptsOther, PauseInv, MutexPlaces, VcpuHolds, IoReleased,
      Asked, VcpuType, StopType, InLoop, InExec
<1>14. CASE GuestDebug
  BY <1>a, <1>14
  DEF GuestDebug, Request, PauseInv, MutexPlaces, VcpuHolds, IoReleased,
      Asked, VcpuType, StopType, InLoop, InExec
<1>15. CASE Boot \/ Poll \/ Block \/ TryLock \/ Kick \/ IoLock \/ Drain \/
            SelectReturns
  BY <1>a, <1>15
  DEF Boot, Resume, SetRunState, Poll, Block, TryLock, Acquire, Kick, IoLock,
      Drain, SelectReturns, PauseInv, MutexPlaces, VcpuHolds, IoReleased,
      Asked, VcpuType, StopType, InLoop, InExec
<1>16. CASE NoHandler \/ StopHandler \/ LoadHandler \/ StartHandler \/
            RequestHandler \/ InterruptHandler
  BY <1>a, <1>16
  DEF NoHandler, NextPlace, StopHandler, VmStop, BeginPause, LoadHandler,
      StartHandler, Cont, Wakeup, VmStart, SetRunState, Resume, Request,
      RequestHandler, ResetRequest, InterruptHandler, PauseInv, MutexPlaces,
      VcpuHolds, IoReleased, Asked, VcpuType, StopType, InLoop, InExec
<1>17. CASE PauseSleep
  BY <1>a, <1>17
  DEF PauseSleep, PauseInv, MutexPlaces, VcpuHolds, IoReleased, Asked,
      VcpuType, StopType, InLoop, InExec
<1>18. CASE PauseAgain
  BY <1>a, <1>18
  DEF PauseAgain, PauseInv, MutexPlaces, VcpuHolds, IoReleased, Asked,
      VcpuType, StopType, InLoop, InExec
<1>19. CASE PauseDone
  BY <1>a, <1>19
  DEF PauseDone, ResetDone, SystemReset, Resume, SetRunState, NoOp, PauseInv,
      MutexPlaces, VcpuHolds, IoReleased, Asked, VcpuType, StopType, InLoop,
      InExec
<1>20. CASE SaveOrLoad
  BY <1>a, <1>20
  DEF SaveOrLoad, VmStart, SetRunState, Resume, NoOp, PauseInv, MutexPlaces,
      VcpuHolds, IoReleased, Asked, VcpuType, StopType, InLoop, InExec
<1>21. CASE NotRequested
  BY <1>a, <1>21
  DEF NotRequested, Pending, AfterCheck, Checks, PauseInv, MutexPlaces,
      VcpuHolds, IoReleased, Asked, VcpuType, StopType, InLoop, InExec
<1>22. CASE Requested
  BY <1>a, <1>22
  DEF Requested, Pending, AfterCheck, HandleStop, HandlePause, HandleShutdown,
      HandlePowerdown, VmStop, BeginPause, ThenDo, Checks, PauseInv,
      MutexPlaces, VcpuHolds, IoReleased, Asked, VcpuType, StopType, InLoop,
      InExec
<1>23. ASSUME NEW u \in UiThreads, UiRequest(u) \/ UiStep(u) PROVE PauseInv'
  BY <1>a, <1>23
  DEF UiRequest, UiGo, Request, UiStep, UiTest, UiLoad, UiStop, UiExit,
      UiSignal, UiNotify, PauseInv,
      MutexPlaces, VcpuHolds, IoReleased, Asked, VcpuType, StopType, InLoop,
      InExec
<1>24. CASE UNCHANGED vars
  BY <1>a, <1>24
  DEF vars, PauseInv, MutexPlaces, VcpuHolds, IoReleased, Asked, VcpuType,
      StopType, InLoop, InExec
<1>25. QED
  BY <1>1, <1>2, <1>3, <1>4, <1>5, <1>6, <1>7, <1>8, <1>9, <1>10, <1>11,
     <1>12, <1>13, <1>14, <1>15, <1>16, <1>17, <1>18, <1>19, <1>20, <1>21,
     <1>22, <1>23, <1>24
  DEF Next, VcpuStep, GuestStep, IoStep, Handlers, UiStep, Gone

(* A vCPU of a RUNNING machine that is stopped, or asked to, is in a pause *)
(* or has left a request that ends in a pause and a resume.                *)
FrozenInv ==
  /\ op.state # "running"
  /\ runstate = "running" /\ ipc \notin Asked \cup {"exited", "aborted"} =>
       \/ \A c \in Cpus : ~stop[c] /\ ~stopped[c]
       \/ requested \cap {"debug", "suspend", "shutdown", "reset"} # {}
       \/ vmstop_requested # "max"

(* Taking a request up ends in a pause; the pause ends in another state or *)
(* resumes every vCPU.                                                     *)
LEMMA FrozenStep ==
  ASSUME UiThreads = {}, MutexInv, PauseInv, FrozenInv, [Next]_vars
  PROVE  FrozenInv'
<1> USE VmAssumption DEF flags, stops, tcg, lock, poll, ui
<1>a. /\ PauseInv /\ FrozenInv
      /\ MutexPlaces /\ VcpuType /\ StopType
      /\ vmstop_requested \in {"io-error", "max"} /\ OpType
      /\ op.next \notin Asked
      /\ (Kicked = vpc \/ Kicked \in {"halt_woken", "start_woken"})
      /\ (Proceeded = vpc \/ Proceeded = "proceed_woken")
      /\ PauseSignalled \in {ipc, "pause_woken"}
      /\ (PauseSignalled = "pause_woken"
            <=> ipc \in {"pause_wait", "pause_woken"})
  BY TypeParts, Awake DEF MutexInv, TypeOK, Asked, Checks, PauseSignalled
<1>1. CASE VcpuStart \/ NextCpu \/ Enter \/ TakeExitRequest \/ Boundary \/
           ClearExitRequest \/ WaitIoEvent \/ Proceed \/ VcpuLock
  BY <1>a, <1>1
  DEF VcpuStart, AnswerStop, FirstOrNext, NextCpu, CpuAfter, CanRun, Enter,
      TakeExitRequest, Boundary, LeaveGuest, ClearExitRequest, WaitIoEvent,
      Proceed, VcpuLock, FrozenInv, OpType, PauseInv, MutexPlaces, VcpuHolds,
      IoReleased, Asked, VcpuType, StopType, InLoop, InExec
<1>2. CASE BlockDone \/ GuestRequest \/ GuestHalt \/ GuestInterruptsOther \/
           GuestDebug
  BY <1>a, <1>2
  DEF BlockDone, GuestRequest, ResetRequest, Request, StopSelf, GuestHalt,
      LeaveGuest, CpuAfter, GuestInterruptsOther, GuestDebug, FrozenInv,
      OpType, PauseInv, MutexPlaces, VcpuHolds, IoReleased, Asked, VcpuType,
      StopType, InLoop, InExec
<1>3. CASE Boot \/ Poll \/ Block \/ TryLock \/ Kick \/ IoLock \/ Drain \/
           SelectReturns
  BY <1>a, <1>3
  DEF Boot, Resume, SetRunState, Poll, Block, TryLock, Acquire, Kick, IoLock,
      Drain, SelectReturns, FrozenInv, OpType, PauseInv, MutexPlaces,
      VcpuHolds, IoReleased, Asked, VcpuType, StopType, InLoop, InExec
<1>4. CASE NoHandler \/ StopHandler \/ LoadHandler \/ StartHandler \/
           RequestHandler \/ InterruptHandler
  BY <1>a, <1>4
  DEF NoHandler, NextPlace, StopHandler, VmStop, BeginPause, LoadHandler,
      StartHandler, Cont, Wakeup, VmStart, SetRunState, Resume, Request,
      RequestHandler, ResetRequest, InterruptHandler, FrozenInv, OpType,
      PauseInv, MutexPlaces, VcpuHolds, IoReleased, Asked, VcpuType, StopType,
      InLoop, InExec
<1>5. CASE PauseSleep \/ PauseAgain
  BY <1>a, <1>5
  DEF PauseSleep, PauseAgain, FrozenInv, OpType, PauseInv, MutexPlaces,
      VcpuHolds, IoReleased, Asked, VcpuType, StopType, InLoop, InExec
<1>6. CASE PauseDone
  BY <1>a, <1>6
  DEF PauseDone, ResetDone, SystemReset, Resume, SetRunState, NoOp, FrozenInv,
      OpType, PauseInv, MutexPlaces, VcpuHolds, IoReleased, Asked, VcpuType,
      StopType, InLoop, InExec
<1>7. CASE SaveOrLoad
  BY <1>a, <1>7
  DEF SaveOrLoad, VmStart, SetRunState, Resume, NoOp, FrozenInv, OpType,
      PauseInv, MutexPlaces, VcpuHolds, IoReleased, Asked, VcpuType, StopType,
      InLoop, InExec
<1>8. CASE NotRequested
  BY <1>a, <1>8
  DEF NotRequested, Pending, AfterCheck, Checks, FrozenInv, OpType, PauseInv,
      MutexPlaces, VcpuHolds, IoReleased, Asked, VcpuType, StopType, InLoop,
      InExec
<1>9. CASE Requested
  BY <1>a, <1>9
  DEF Requested, Pending, AfterCheck, HandleStop, HandlePause, HandleShutdown,
      HandlePowerdown, VmStop, BeginPause, ThenDo, Checks, FrozenInv, OpType,
      PauseInv, MutexPlaces, VcpuHolds, IoReleased, Asked, VcpuType, StopType,
      InLoop, InExec
<1>10. ASSUME NEW u \in UiThreads, UiRequest(u) \/ UiStep(u) PROVE FrozenInv'
  BY <1>a, <1>10
  DEF UiRequest, UiGo, Request, UiStep, UiTest, UiLoad, UiStop, UiExit,
      UiSignal, UiNotify, FrozenInv,
      OpType, PauseInv, MutexPlaces, VcpuHolds, IoReleased, Asked, VcpuType,
      StopType, InLoop, InExec
<1>11. CASE UNCHANGED vars
  BY <1>a, <1>11
  DEF vars, FrozenInv, OpType, PauseInv, MutexPlaces, VcpuHolds, IoReleased,
      Asked, VcpuType, StopType, InLoop, InExec
<1>12. QED
  BY <1>1, <1>2, <1>3, <1>4, <1>5, <1>6, <1>7, <1>8, <1>9, <1>10, <1>11
  DEF Next, VcpuStep, GuestStep, IoStep, Handlers, UiStep, Gone

-----------------------------------------------------------------------------
(* What runstate_set is asked for.                                         *)

(* A guest that does not suspend leaves no request to.  A pause begins in  *)
(* RUNNING, for a state that RUNNING may turn into, and the state is the   *)
(* same when it ends; the machine is saved in SAVE_VM and loaded in        *)
(* RESTORE_VM, which both may turn into RUNNING.                           *)
StateInv ==
  /\ ipc # "aborted" /\ "suspend" \notin requested
  /\ ipc = "boot" => runstate = "prelaunch"
  /\ ipc = "saving" => runstate = "save-vm"
  /\ ipc = "loading" => runstate = "restore-vm"
  /\ op.kind # "suspend"
  /\ ipc \in Asked /\ op.kind # "reset" =>
       runstate = "running" /\ <<"running", op.state>> \in Transitions
  /\ op.kind = "savevm" => op.state = "save-vm"
  /\ op.kind = "loadvm" => op.state = "restore-vm"

(* The entries of runstate_transitions_def that the steps rely on.         *)
LEMMA Entries ==
  /\ \A s \in {"prelaunch", "paused", "io-error", "save-vm", "restore-vm",
               "suspended", "debug"} : <<s, "running">> \in Transitions
  /\ \A s \in {"debug", "io-error", "paused", "restore-vm", "save-vm",
               "shutdown"} : <<"running", s>> \in Transitions
  /\ <<"shutdown", "paused">> \in Transitions
BY DEF Transitions

(* Only the I/O thread changes the state, and while it waits for the vCPUs *)
(* it does nothing else.                                                   *)
LEMMA StateStep ==
  ASSUME "suspend" \notin GuestOps, MutexInv, StateInv, [Next]_vars
  PROVE  StateInv'
<1> USE VmAssumption DEF flags, stops, tcg, lock, poll, ui
<1>a. /\ StateInv /\ OpType /\ runstate \in RunStates
      /\ vmstop_requested \in {"io-error", "max"}
      /\ PauseSignalled \in {ipc, "pause_woken"}
      /\ (PauseSignalled = "pause_woken"
            <=> ipc \in {"pause_wait", "pause_woken"})
      /\ op.next \notin Asked \cup {"boot", "saving", "loading", "aborted"}
  BY TypeParts DEF MutexInv, TypeOK, Asked, Checks, PauseSignalled,
     MachineType
<1>1. CASE VcpuStart \/ NextCpu \/ Enter \/ TakeExitRequest \/ Boundary \/
           ClearExitRequest \/ WaitIoEvent \/ Proceed \/ VcpuLock
  BY <1>a, <1>1
  DEF VcpuStart, AnswerStop, NextCpu, Enter, TakeExitRequest, Boundary,
      LeaveGuest, ClearExitRequest, WaitIoEvent, Proceed, VcpuLock, StateInv,
      Asked
<1>2. CASE BlockDone \/ GuestRequest \/ GuestHalt \/ GuestInterruptsOther \/
           GuestDebug
  BY <1>a, <1>2
  DEF BlockDone, GuestRequest, ResetRequest, Request, StopSelf, GuestHalt,
      LeaveGuest, GuestInterruptsOther, GuestDebug, StateInv, Asked
<1>3. CASE Boot
  BY <1>a, <1>3, Entries DEF Boot, Resume, SetRunState, StateInv, Asked
<1>4. CASE Poll \/ Block \/ TryLock \/ Kick \/ IoLock \/ Drain \/
           SelectReturns \/ PauseSleep \/ PauseAgain
  BY <1>a, <1>4
  DEF Poll, Block, TryLock, Acquire, Kick, IoLock, Drain, SelectReturns,
      PauseSleep, PauseAgain, StateInv, Asked
<1>5. CASE NoHandler \/ LoadHandler \/ RequestHandler \/ InterruptHandler
  BY <1>a, <1>5
  DEF NoHandler, NextPlace, LoadHandler, RequestHandler, ResetRequest,
      Request, InterruptHandler, StateInv, Asked
<1>6. CASE StopHandler
  BY <1>a, <1>6, Entries
  DEF StopHandler, VmStop, BeginPause, NextPlace, StateInv, Asked
<1>7. CASE StartHandler
  BY <1>a, <1>7, Entries
  DEF StartHandler, Cont, Wakeup, VmStart, SetRunState, Resume, NextPlace,
      Request, RunStates, StateInv, Asked
<1>8. CASE PauseDone
  BY <1>a, <1>8, Entries
  DEF PauseDone, ResetDone, Resume, SetRunState, NoOp, OpType, StateInv,
      Asked
<1>9. CASE SaveOrLoad
  BY <1>a, <1>9, Entries
  DEF SaveOrLoad, VmStart, SetRunState, Resume, NoOp, StateInv, Asked
<1>10. CASE NotRequested
  BY <1>a, <1>10 DEF NotRequested, AfterCheck, Checks, StateInv, Asked
<1>11. CASE Requested
  <2>1. ipc \in Checks /\ ipc # "suspend"
    BY <1>a, <1>11 DEF Requested, Pending, StateInv
  <2>2. AfterCheck \notin Asked \cup {"boot", "saving", "loading", "aborted"}
    BY <2>1 DEF AfterCheck, Checks, Asked
  <2>3. "suspend" \notin requested'
    BY <1>a, <1>11 DEF Requested, StateInv
  <2>4. CASE HandleStop
    BY <1>a, <1>11, <2>1, <2>2, <2>3, <2>4, Entries
    DEF Requested, Pending, HandleStop, VmStop, BeginPause, Checks, StateInv,
        Asked
  <2>5. CASE HandlePause
    BY <1>a, <1>11, <2>1, <2>2, <2>3, <2>5
    DEF Requested, HandlePause, BeginPause, ThenDo, Checks, StateInv, Asked
  <2>6. CASE HandleShutdown
    BY <1>a, <1>11, <2>1, <2>2, <2>3, <2>6, Entries
    DEF Requested, HandleShutdown, VmStop, BeginPause, Checks, StateInv,
        Asked
  <2>7. CASE HandlePowerdown
    BY <1>a, <1>11, <2>1, <2>2, <2>3, <2>7
    DEF Requested, HandlePowerdown, Checks, StateInv, Asked
  <2>8. QED BY <1>11, <2>4, <2>5, <2>6, <2>7 DEF Requested
<1>12. ASSUME NEW u \in UiThreads, UiRequest(u) \/ UiStep(u) PROVE StateInv'
  BY <1>a, <1>12
  DEF UiRequest, UiGo, Request, UiStep, UiTest, UiLoad, UiStop, UiExit,
      UiSignal, UiNotify, StateInv,
      Asked
<1>13. CASE UNCHANGED vars
  BY <1>a, <1>13 DEF vars, StateInv, Asked
<1>14. QED
  BY <1>1, <1>2, <1>3, <1>4, <1>5, <1>6, <1>7, <1>8, <1>9, <1>10, <1>11,
     <1>12, <1>13
  DEF Next, VcpuStep, GuestStep, IoStep, Handlers, UiStep, Gone

-----------------------------------------------------------------------------
(* The theorems.                                                           *)

(* The machine before main_loop.                                           *)
LEMMA Started ==
  Init => MutexInv /\ GuestOnlyWhenRunning /\ ExitInv /\ NotifyInv
            /\ PauseInv /\ FrozenInv
<1> SUFFICES ASSUME Init
             PROVE  MutexInv /\ GuestOnlyWhenRunning /\ ExitInv /\ NotifyInv
                      /\ PauseInv /\ FrozenInv
  OBVIOUS
<1> USE VmAssumption
<1>1. TypeOK
  BY DEF Init, NoOp, TypeOK, RunStates, Requests, Cpus, NoCpu, VcpuPlaces,
         IoPlaces, Checks, UiPlaces
<1>2. MutexPlaces
  BY DEF Init, MutexPlaces, VcpuHolds, IoReleased
<1>3. GuestOnlyWhenRunning /\ ExitInv /\ PauseInv /\ FrozenInv
  BY DEF Init, NoOp, GuestOnlyWhenRunning, ExitInv, PauseInv, FrozenInv, Asked
<1>4. NotifyInv
  BY DEF Init, NotifyInv, Wanted
<1>5. QED BY <1>1, <1>2, <1>3, <1>4 DEF MutexInv

(* The invariant the others rest on.                                       *)
LEMMA Machine == Spec => []MutexInv
<1>1. Init => MutexInv
  BY Started
<1>2. MutexInv /\ [Next]_vars => MutexInv'
  BY TypeStep, MutexStep DEF MutexInv
<1>3. QED BY <1>1, <1>2, PTL DEF Spec

(* The variables of the virtual machine keep their types, and each vCPU    *)
(* that a Java thread or the TCG thread works on exists.                   *)
THEOREM VmTypeCorrect == Spec => []TypeOK
<1>1. MutexInv => TypeOK
  BY DEF MutexInv
<1>2. QED BY <1>1, Machine, PTL

(* The guest executes nothing while the machine is not RUNNING: the check  *)
(* of cpu_can_run, made with the mutex, is good until the TCG thread lets  *)
(* go of the mutex, which is the only time the state may change.           *)
THEOREM GuestNeedsRunning == Spec => []GuestOnlyWhenRunning
<1>1. Init => GuestOnlyWhenRunning
  BY Started
<1>2. MutexInv /\ GuestOnlyWhenRunning /\ [Next]_vars => GuestOnlyWhenRunning'
  BY GuestStays
<1>3. QED BY <1>1, <1>2, Machine, PTL DEF Spec

(* No step takes the machine out of RUNNING while a vCPU is in cpu_exec or *)
(* has not stopped, so a saved state is not changed while it is saved.     *)
THEOREM AlwaysQuiesced == Spec => Quiesced
<1>1. MutexInv /\ [Next]_vars =>
        [runstate = "running" /\ runstate' # "running"
           => cpu_single_env = NoCpu /\ \A c \in Cpus : stopped'[c]]_vars
  BY QuiescedStep
<1>2. QED BY <1>1, Machine, PTL DEF Spec, Quiesced

(* Neither the I/O thread's request for the mutex nor a request left for   *)
(* it is missed, wherever cpu_exec and the Java threads are at the time.   *)
THEOREM NothingEverMissed == Spec => []NothingMissed
<1>1. Init => ExitInv /\ NotifyInv
  BY Started
<1>2. MutexInv /\ ExitInv /\ NotifyInv /\ [Next]_vars => (ExitInv /\ NotifyInv)'
  BY ExitStep, NotifyStep DEF MutexInv
<1>3. MutexInv /\ ExitInv /\ NotifyInv => NothingMissed
  <2> SUFFICES ASSUME MutexInv, ExitInv, NotifyInv PROVE NothingMissed
    OBVIOUS
  <2>1. ExitNotLost
    BY DEF ExitInv, ExitNotLost
  <2>2. NoLostNotify
    <3> SUFFICES ASSUME ipc = "select", requested # {} \/ vmstop_requested # "max"
                 PROVE  Told
      BY DEF NoLostNotify, Told
    <3>1. requested \subseteq Checks /\ "vmstop" \in Checks /\ "vmstop" \notin requested
      BY DEF MutexInv, TypeOK, Requests, Checks
    <3>2. ToCome(At) = {}
      BY DEF At, Pausing, ToCome
    <3>3. \E r \in Checks : Wanted(r)
      BY <3>1 DEF Wanted
    <3>4. QED BY <3>2, <3>3 DEF NotifyInv
  <2>3. QED BY <2>1, <2>2 DEF NothingMissed
<1>4. QED BY <1>1, <1>2, <1>3, Machine, PTL DEF Spec

(* The invariants about pauses hold together.                              *)
LEMMA Pauses ==
  ASSUME UiThreads = {} PROVE Spec => [](MutexInv /\ PauseInv /\ FrozenInv)
<1>1. Init => PauseInv /\ FrozenInv
  BY Started
<1>2. MutexInv /\ PauseInv /\ FrozenInv /\ [Next]_vars => (PauseInv /\ FrozenInv)'
  BY PauseStep, FrozenStep
<1>3. QED BY <1>1, <1>2, Machine, PTL DEF Spec

(* Without Java threads in stop_vm, the I/O thread sleeps in               *)
(* pause_all_vcpus only while some vCPU has still to answer it.            *)
THEOREM PauseEnds == ASSUME UiThreads = {} PROVE Spec => []PauseAnswered
<1>1. PauseInv => PauseAnswered
  BY DEF PauseInv, Asked, PauseAnswered
<1>2. QED BY <1>1, Pauses, PTL

(* Without Java threads in stop_vm, a RUNNING machine whose main loop has  *)
(* nothing left to do has no stopped vCPU.                                 *)
THEOREM NeverFrozen == ASSUME UiThreads = {} PROVE Spec => []NoFrozenCpu
<1>1. FrozenInv => NoFrozenCpu
  BY DEF FrozenInv, Asked, NoFrozenCpu
<1>2. QED BY <1>1, Pauses, PTL

(* As long as the guest does not suspend the machine, whatever else it and *)
(* the handlers do and with any number of Java threads in stop_vm, no      *)
(* transition outside the table is asked for: runstate_set never aborts.   *)
THEOREM StateNeverAborts ==
  ASSUME "suspend" \notin GuestOps PROVE Spec => []NoAbort
<1>1. Init => StateInv
  BY DEF Init, NoOp, StateInv, Asked
<1>2. MutexInv /\ StateInv /\ [Next]_vars => StateInv'
  BY StateStep
<1>3. StateInv => NoAbort
  BY DEF StateInv, NoAbort
<1>4. QED BY <1>1, <1>2, <1>3, Machine, PTL DEF Spec
=============================================================================
