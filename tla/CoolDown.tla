------------------------------ MODULE CoolDown ------------------------------
(* The cool-down between commands: the Orchestrator's coolDown timer, its     *)
(* callback, which posts TxReady, and the machine, which consults the timer   *)
(* before it sends and lets a request rest in SendCommand while it runs.      *)
(* Whoever starts and stops the timer does so at will.  The machine steps     *)
(* under Orchestrator::mtx, so a handler or a process is one action; the      *)
(* timer's steps come in between.                                             *)
EXTENDS Timer

VARIABLES
    machine,  \* Orchestrator::state: "Idle", "SendCommand", "WaitForResponse"
    txReady,  \* TxReady events in Orchestrator::events
    loop,     \* the loop thread: "get", or "handle" a TxReady it has taken
    missed    \* history: the request came to rest when its TxReady was gone

machineVars == <<machine, txReady, loop, missed>>
allVars == <<vars, machineVars>>

-----------------------------------------------------------------------------
CanSend == ~running

\* Where the machine is once Context::send has returned.
AfterSend == {"WaitForResponse", "Idle"}

\* A TxReady that the loop is still to handle.
Announced == txReady > 0 \/ loop = "handle"

\* sendCommand has passed the gate: Idle::process, SendCommand::start.
Request ==
    /\ machine = "Idle"
    /\ machine' \in (IF CanSend THEN AfterSend ELSE {"SendCommand"})
    /\ missed' = (machine' = "SendCommand" /\ worker = "fired" /\ ~Announced)
    /\ UNCHANGED <<vars, txReady, loop>>

\* The answer is there: WaitForResponse::handle of an RxReady.
Answered ==
    /\ machine = "WaitForResponse"
    /\ machine' = "Idle"
    /\ UNCHANGED <<vars, txReady, loop, missed>>

TakeTxReady ==
    /\ loop = "get" /\ txReady > 0
    /\ txReady' = txReady - 1
    /\ loop' = "handle"
    /\ UNCHANGED <<vars, machine, missed>>

\* handle of a TxReady: it means something to SendCommand only.
AfterTxReady_Rests == {machine}
AfterTxReady == IF machine = "SendCommand" THEN AfterSend ELSE {machine}
HandleTxReady ==
    /\ loop = "handle"
    /\ loop' = "get"
    /\ machine' \in AfterTxReady
    /\ missed' = FALSE
    /\ UNCHANGED <<vars, txReady>>

\* The worker calls timerCallback.
TimerCallback ==
    /\ Fire
    /\ txReady' = txReady + 1
    /\ UNCHANGED <<machine, loop, missed>>

TimerStep ==
    /\ Start \/ Stop \/ OwnerStep \/ Wait \/ GiveUp \/ Expire \/ Return
    /\ UNCHANGED machineVars

CoolDownInit ==
    /\ Init
    /\ machine = "Idle" /\ txReady = 0 /\ loop = "get" /\ missed = FALSE

LoopStep == TakeTxReady \/ HandleTxReady
CoolDownNext == Request \/ Answered \/ LoopStep \/ TimerCallback \/ TimerStep

\* The fairness of Timer, and the loop runs on.
CoolDownSpec ==
    /\ CoolDownInit /\ [][CoolDownNext]_allVars
    /\ WF_allVars(OwnerStep /\ TimerStep)
    /\ WF_allVars(Expire /\ TimerStep)
    /\ WF_allVars(TimerCallback)
    /\ WF_allVars((GiveUp \/ Return \/ (worker = "begin" /\ Wait)) /\ TimerStep)
    /\ WF_allVars(LoopStep)

-----------------------------------------------------------------------------
(* Properties.                                                              *)

MachineTypeOK ==
    /\ machine \in {"Idle", "SendCommand", "WaitForResponse"}
    /\ txReady \in Nat /\ loop \in {"get", "handle"} /\ missed \in BOOLEAN

\* A request that rests in SendCommand is sent when the cool-down is over, unless
\* the timer is stopped or started anew, or the request found `running' still set
\* by a worker whose TxReady an idle machine has already taken and ignored.
RestingIsSent ==
    machine = "SendCommand" ~> (machine # "SendCommand" \/ wanted = 0 \/ missed)

\* While a request rests, its cool-down is not forgotten: as long as the timer is
\* not stopped, either a TxReady is on its way to the loop or a worker that has
\* not called back yet is, or is about to be, alive.
RestingIsAnnounced ==
    machine = "SendCommand" /\ wanted # 0 /\ owner = "out" /\ ~missed =>
        Announced \/ worker \in {"begin", "waiting", "firing"}
=============================================================================
