------------------------------- MODULE AsyncIO -------------------------------
(***************************************************************************)
(* What the POSIX emulation of asynchronous I/O promises the block layer   *)
(* (struct AIOPool, paio_submit, paio_ioctl, paio_cancel): every request   *)
(* is performed at most once, its callback runs once, after the transfer,  *)
(* and reports success exactly when the transfer was complete; a cancelled *)
(* request's callback never runs, and no transfer is in flight once the    *)
(* cancellation is over.                                                   *)
(***************************************************************************)
CONSTANTS
  Requests,   \* the aiocb slots
  Results,    \* what the host can return for a transfer
  Codes       \* what a callback can be told

CONSTANTS Full, Success

VARIABLES
  phase,      \* how far each request has got
  result      \* what the transfer returned, then what the callback is told

vars == <<phase, result>>

Phases == {"free", "queued", "running", "performed", "calling"}

Init ==
  /\ phase = [r \in Requests |-> "free"]
  /\ result = [r \in Requests |-> "none"]

Move(r, from, to, res) ==
  /\ phase[r] = from
  /\ phase' = [phase EXCEPT ![r] = to]
  /\ result' = [result EXCEPT ![r] = res]

Submit(r) == Move(r, "free", "queued", "none")

Start(r) == Move(r, "queued", "running", "none")

Perform(r) == \E res \in Results : Move(r, "running", "performed", res)

(* The callback is told of success iff the whole transfer was made.        *)
Complete(r) ==
  \E code \in Codes :
    /\ (code = Success) <=> (result[r] = Full)
    /\ Move(r, "performed", "calling", code)

Return(r) == Move(r, "calling", "free", "none")

(* A request is cancelled before its transfer starts or after it ended.    *)
Cancel(r) == Move(r, "queued", "free", "none")
          \/ Move(r, "performed", "free", "none")

Next ==
  \E r \in Requests :
    \/ Submit(r) \/ Start(r) \/ Perform(r)
    \/ Complete(r) \/ Return(r) \/ Cancel(r)

Spec == Init /\ [][Next]_vars

(* Every request handed over is, sooner or later, called back or cancelled.*)
EveryRequestEnds == \A r \in Requests : phase[r] = "queued" ~> phase[r] = "free"
=============================================================================
