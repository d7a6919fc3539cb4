----------------------------- MODULE TimerProofs -----------------------------
(* What Timer promises, for any number of starts.  The invariant says what    *)
(* the owner may rely on at each of its steps: which thread object it owns,   *)
(* whether that thread can still do something, and which start it belongs to. *)
(* The composition of the timer with the machine keeps all of it, and a       *)
(* request that rests is never forgotten.                                     *)
EXTENDS CoolDown, TLAPS

\* Where the owner is agrees with the call it executes.
OwnerInv ==
    /\ owner = "out" <=> op = "none"
    /\ owner \in {"arm", "spawn"} => op = "start"

\* A thread that can still act is owned by the timer's thread object, and after
\* the join there is none.
JoinInv ==
    /\ Alive => joinable
    /\ owner \in {"clear", "arm", "spawn"} => ~joinable

\* The flag is set from the arming to the end of the worker.
RunningInv == running <=> (Alive \/ owner = "spawn")

\* The worker is that of the last start, which no stop has replaced; generations
\* to come have not fired.
GenerationInv ==
    /\ Alive => gen = wanted /\ gen > 0
    /\ owner = "spawn" => wanted = generation /\ generation > 0
    /\ gen <= generation
    /\ \A g \in Fired : g \in Nat /\ g <= generation
    /\ owner = "spawn" => generation \notin Fired
    /\ worker \in {"begin", "waiting", "firing"} => gen \notin Fired

Inv == TypeOK /\ OwnerInv /\ JoinInv /\ RunningInv /\ GenerationInv

\* A callback adds its generation, and no other step changes what has fired.
LEMMA FireAdds ==
    ASSUME TypeOK, Fire
    PROVE  /\ fired' \in Seq(Nat) /\ Fired' = Fired \cup {gen}
           /\ fired' # fired /\ fired'[Len(fired')] = gen
  <1>1. fired \in Seq(Nat) /\ gen \in Nat /\ fired' = Append(fired, gen)
    BY DEF TypeOK, Fire
  <1>2. /\ fired' \in Seq(Nat) /\ Len(fired) \in Nat /\ Len(fired') = Len(fired) + 1
        /\ fired'[Len(fired) + 1] = gen
        /\ \A i \in 1..Len(fired) : fired'[i] = fired[i]
    BY <1>1
  <1>3. Fired' \subseteq Fired \cup {gen}
    BY <1>2 DEF Fired
  <1>4. Fired \subseteq Fired'
    BY <1>2 DEF Fired
  <1>5. gen \in Fired'
    BY <1>2 DEF Fired
  <1> QED  BY <1>2, <1>3, <1>4, <1>5

LEMMA OthersKeepFired ==
    ASSUME [Next]_vars, ~Fire
    PROVE  fired' = fired
  BY DEF Next, OwnerStep, WorkerStep, Start, Stop, Begin, Cancel, Join, Clear, Arm,
         Spawn, Wait, GiveUp, Expire, Return, workerVars, vars

LEMMA InvInit == Init => Inv
  <1> SUFFICES ASSUME Init PROVE Inv
    OBVIOUS
  <1>1. TypeOK
    <2>1. fired \in Seq(Nat)
      BY DEF Init
    <2> QED  BY <2>1 DEF Init, TypeOK
  <1>2. OwnerInv /\ JoinInv /\ ~Alive
    BY DEF Init, OwnerInv, JoinInv, Alive
  <1>3. RunningInv
    BY <1>2 DEF Init, RunningInv
  <1>4. GenerationInv
    <2>1. Fired = {}
      BY DEF Init, Fired
    <2> QED  BY <1>2, <2>1 DEF Init, GenerationInv
  <1> QED
    BY <1>1, <1>2, <1>3, <1>4 DEF Inv

LEMMA InvStep == Inv /\ [Next]_vars => Inv'
  <1> SUFFICES ASSUME Inv, [Next]_vars PROVE Inv'
    OBVIOUS
  <1> USE DEF Inv, TypeOK, OwnerInv, JoinInv, RunningInv, GenerationInv, Alive
  <1>0. fired' = fired => Fired' = Fired
    BY DEF Fired
  <1>1. CASE Start
    BY <1>1, <1>0 DEF Start, Begin, workerVars
  <1>2. CASE Stop
    BY <1>2, <1>0 DEF Stop, Begin, workerVars
  <1>3. CASE Cancel
    BY <1>3, <1>0 DEF Cancel, workerVars
  <1>4. CASE Join
    BY <1>4, <1>0 DEF Join, JoinReturns, workerVars
  <1>5. CASE Clear
    BY <1>5, <1>0 DEF Clear, workerVars
  <1>6. CASE Arm
    <2>0. stopFlag' \in BOOLEAN /\ running' \in BOOLEAN /\ joinable' \in BOOLEAN
      BY <1>6, Zenon DEF Arm, ArmedFlag
    <2>1. TypeOK'
      BY <1>6, <1>0, <2>0 DEF Arm, workerVars
    <2>2. OwnerInv' /\ JoinInv' /\ RunningInv'
      BY <1>6, <1>0 DEF Arm, workerVars
    <2>3. ~Alive /\ ~Alive'
      BY <1>6, <1>0 DEF Arm, workerVars
    <2>4. generation' \notin Fired' /\ \A g \in Fired' : g \in Nat /\ g <= generation'
      BY <1>6, <1>0 DEF Arm, workerVars
    <2>5. GenerationInv'
      BY <1>6, <1>0, <2>3, <2>4 DEF Arm, workerVars
    <2> QED
      BY <2>1, <2>2, <2>5
  <1>7. CASE Spawn
    BY <1>7, <1>0 DEF Spawn
  <1>8. CASE Wait
    BY <1>8, <1>0 DEF Wait, ownerVars
  <1>9. CASE GiveUp
    BY <1>9, <1>0 DEF GiveUp, Finish, ownerVars
  <1>10. CASE Expire
    BY <1>10, <1>0 DEF Expire, ownerVars
  <1>11. CASE Fire
    BY <1>11, FireAdds DEF Fire, AfterFire, ownerVars
  <1>12. CASE Return
    BY <1>12, <1>0 DEF Return, Finish, ownerVars
  <1>13. CASE UNCHANGED vars
    BY <1>13, <1>0 DEF vars
  <1> QED
    BY <1>1, <1>2, <1>3, <1>4, <1>5, <1>6, <1>7, <1>8, <1>9, <1>10, <1>11,
       <1>12, <1>13 DEF Next, OwnerStep, WorkerStep

LEMMA SpecInv == Spec => []Inv
  BY InvInit, InvStep, PTL DEF Spec

\* Every variable stays in its type.
THEOREM TypeCorrect == Spec => []TypeOK
  <1>1. Inv => TypeOK  BY DEF Inv
  <1> QED  BY <1>1, SpecInv, PTL

\* start never assigns a thread object that still owns a thread.
THEOREM SpecSpawnIsFree == Spec => []SpawnIsFree
  <1>1. Inv => SpawnIsFree  BY DEF Inv, JoinInv, SpawnIsFree
  <1> QED  BY <1>1, SpecInv, PTL

\* After stop has returned no callback is under way or to come.
THEOREM SpecSilentAfterStop == Spec => []SilentAfterStop
  <1>1. Inv => SilentAfterStop
    BY DEF Inv, TypeOK, GenerationInv, SilentAfterStop
  <1> QED  BY <1>1, SpecInv, PTL

\* Outside of start and stop, isRunning reports whether a worker can still fire.
THEOREM SpecRunningMeansAlive == Spec => []RunningMeansAlive
  <1>1. Inv => RunningMeansAlive
    BY DEF Inv, RunningInv, RunningMeansAlive
  <1> QED  BY <1>1, SpecInv, PTL

\* No start fires twice, and none fires that was stopped or replaced.
THEOREM SpecFiresOnceForCurrent == Spec => FiresOnceForCurrent
  <1> DEFINE A == fired' # fired =>
                    LET g == fired'[Len(fired')]
                    IN g \notin Fired /\ (owner = "out" => g = wanted)
  <1>1. Inv /\ [Next]_vars => [A]_vars
    <2> SUFFICES ASSUME Inv, [Next]_vars, fired' # fired
                 PROVE  fired'[Len(fired')] \notin Fired
                        /\ (owner = "out" => fired'[Len(fired')] = wanted)
      OBVIOUS
    <2>1. Fire
      BY OthersKeepFired
    <2>2. fired'[Len(fired')] = gen
      BY <2>1, FireAdds DEF Inv
    <2> QED
      BY <2>1, <2>2 DEF Fire, Inv, GenerationInv, Alive
  <1> QED  BY <1>1, SpecInv, PTL DEF Spec, FiresOnceForCurrent

-----------------------------------------------------------------------------
(* The cool-down: a step of the composition is a step of the timer, or none.  *)

LEMMA TimerMoves ==
    ASSUME [CoolDownNext]_allVars
    PROVE  [Next]_vars
  <1>1. CASE Request
    BY <1>1 DEF Request
  <1>2. CASE Answered
    BY <1>2 DEF Answered
  <1>3. CASE LoopStep
    BY <1>3 DEF LoopStep, TakeTxReady, HandleTxReady
  <1>4. CASE TimerCallback
    BY <1>4 DEF TimerCallback, Next, WorkerStep
  <1>5. CASE TimerStep
    BY <1>5 DEF TimerStep, Next, OwnerStep, WorkerStep
  <1>6. CASE UNCHANGED allVars
    BY <1>6 DEF allVars
  <1> QED
    BY <1>1, <1>2, <1>3, <1>4, <1>5, <1>6 DEF CoolDownNext

\* Everything the timer promises holds of the timer in the engine.
THEOREM CoolDownIsTimer == CoolDownSpec => Spec
  <1>1. CoolDownInit => Init
    BY DEF CoolDownInit
  <1>2. [CoolDownNext]_allVars => [Next]_vars
    BY TimerMoves
  <1> QED
    BY <1>1, <1>2, PTL DEF CoolDownSpec, Spec

-----------------------------------------------------------------------------
Calling == {"begin", "waiting", "firing"}

\* Before the owner's next stop takes effect no worker of the last start gives up.
ArmedInv ==
    /\ owner = "spawn" => ~stopFlag
    /\ worker \in {"begin", "waiting"} /\ owner \in {"out", "cancel"} => ~Canceled

\* RestingIsAnnounced, as long as the owner has not taken the worker down.
RestInv ==
    machine = "SendCommand" /\ wanted # 0 /\ owner \in {"out", "cancel", "spawn"}
        /\ ~missed
      => Announced \/ worker \in Calling \/ owner = "spawn"

CoolInv == Inv /\ MachineTypeOK /\ ArmedInv /\ RestInv

LEMMA MachineTypeStep ==
    ASSUME MachineTypeOK, [CoolDownNext]_allVars
    PROVE  MachineTypeOK'
  <1> USE DEF MachineTypeOK
  <1>1. CASE Request
    <2>1. missed' \in BOOLEAN
      BY <1>1, Zenon DEF Request
    <2> QED
      BY <1>1, <2>1 DEF Request, AfterSend
  <1>2. CASE Answered
    BY <1>2 DEF Answered
  <1>3. CASE TakeTxReady
    BY <1>3 DEF TakeTxReady
  <1>4. CASE HandleTxReady
    BY <1>4 DEF HandleTxReady, AfterTxReady, AfterSend
  <1>5. CASE TimerCallback
    BY <1>5 DEF TimerCallback
  <1>6. CASE TimerStep
    BY <1>6 DEF TimerStep, machineVars
  <1>7. CASE UNCHANGED allVars
    BY <1>7 DEF allVars, machineVars
  <1> QED
    BY <1>1, <1>2, <1>3, <1>4, <1>5, <1>6, <1>7 DEF CoolDownNext, LoopStep

LEMMA ArmedStep ==
    ASSUME Inv, ArmedInv, [Next]_vars
    PROVE  ArmedInv'
  <1> USE DEF Inv, TypeOK, ArmedInv, Canceled
  <1>1. CASE Start \/ Stop
    BY <1>1 DEF Start, Stop, Begin, workerVars
  <1>2. CASE Cancel
    BY <1>2 DEF Cancel, workerVars
  <1>3. CASE Join
    BY <1>3 DEF Join, workerVars
  <1>4. CASE Clear
    BY <1>4 DEF Clear, workerVars, JoinInv, Alive
  <1>5. CASE Arm
    BY <1>5 DEF Arm, ArmedFlag, workerVars
  <1>6. CASE Spawn
    BY <1>6 DEF Spawn
  <1>7. CASE Wait
    BY <1>7 DEF Wait, ownerVars
  <1>8. CASE GiveUp
    BY <1>8 DEF GiveUp, Finish, ownerVars
  <1>9. CASE Expire \/ Fire
    BY <1>9 DEF Expire, Fire, AfterFire, ownerVars
  <1>10. CASE Return
    BY <1>10 DEF Return, Finish, ownerVars
  <1>11. CASE UNCHANGED vars
    BY <1>11 DEF vars, ownerVars, workerVars
  <1> QED
    BY <1>1, <1>2, <1>3, <1>4, <1>5, <1>6, <1>7, <1>8, <1>9, <1>10, <1>11
    DEF Next, OwnerStep, WorkerStep

\* The timer moves and the machine does not.
LEMMA RestTimerStep ==
    ASSUME CoolInv, TimerStep
    PROVE  RestInv'
  <1> USE DEF CoolInv, MachineTypeOK, RestInv, Announced, Calling, machineVars
  <1> UNCHANGED machineVars
    BY DEF TimerStep
  <1>1. CASE Start \/ Stop
    BY <1>1 DEF Start, Stop, Begin, workerVars
  <1>2. CASE Cancel \/ Join
    BY <1>2 DEF Cancel, Join
  <1>3. CASE Clear
    BY <1>3 DEF Clear
  <1>4. CASE Arm
    BY <1>4 DEF Arm
  <1>5. CASE Spawn
    BY <1>5 DEF Spawn
  <1>6. CASE Wait \/ Expire
    BY <1>6 DEF Wait, Expire, ownerVars
  <1>7. CASE GiveUp
    <2>1. owner \notin {"out", "cancel"}
      BY <1>7 DEF GiveUp, ArmedInv
    <2> QED
      BY <1>7, <2>1 DEF GiveUp, ownerVars
  <1>8. CASE Return
    BY <1>8 DEF Return, ownerVars
  <1> QED
    BY <1>1, <1>2, <1>3, <1>4, <1>5, <1>6, <1>7, <1>8 DEF TimerStep, OwnerStep

LEMMA RestStep ==
    ASSUME CoolInv, [CoolDownNext]_allVars
    PROVE  RestInv'
  <1> USE DEF CoolInv, MachineTypeOK, RestInv, Announced, Calling
  <1>1. CASE Request
    <2> SUFFICES ASSUME machine' = "SendCommand", owner \in {"out", "cancel"}
                 PROVE  missed' \/ Announced \/ worker \in Calling
      BY <1>1 DEF Request, vars, ownerVars, workerVars
    <2>1. running
      BY <1>1 DEF Request, CanSend, AfterSend
    <2>2. Alive
      BY <2>1 DEF Inv, RunningInv
    <2>3. worker = "fired" \/ worker \in Calling
      BY <2>2 DEF Alive
    <2>4. CASE worker = "fired"
      BY <1>1, <2>4, Zenon DEF Request
    <2> QED
      BY <2>3, <2>4
  <1>2. CASE Answered
    BY <1>2 DEF Answered
  <1>3. CASE TakeTxReady
    BY <1>3 DEF TakeTxReady, vars, ownerVars, workerVars
  <1>4. CASE HandleTxReady
    BY <1>4 DEF HandleTxReady, AfterTxReady, AfterSend
  <1>5. CASE TimerCallback
    BY <1>5 DEF TimerCallback
  <1>6. CASE TimerStep
    BY <1>6, RestTimerStep
  <1>7. CASE UNCHANGED allVars
    BY <1>7 DEF allVars, machineVars, vars, ownerVars, workerVars
  <1> QED
    BY <1>1, <1>2, <1>3, <1>4, <1>5, <1>6, <1>7 DEF CoolDownNext, LoopStep

LEMMA SpecCoolInv == CoolDownSpec => []CoolInv
  <1>1. CoolDownInit => CoolInv
    <2> SUFFICES ASSUME CoolDownInit PROVE CoolInv
      OBVIOUS
    <2>1. Inv
      BY InvInit DEF CoolDownInit
    <2> QED
      BY <2>1 DEF CoolDownInit, Init, CoolInv, MachineTypeOK, ArmedInv, RestInv
  <1>2. CoolInv /\ [CoolDownNext]_allVars => CoolInv'
    <2> SUFFICES ASSUME CoolInv, [CoolDownNext]_allVars PROVE CoolInv'
      OBVIOUS
    <2>1. [Next]_vars
      BY TimerMoves
    <2>2. Inv' /\ ArmedInv'
      BY <2>1, InvStep, ArmedStep DEF CoolInv
    <2>3. MachineTypeOK' /\ RestInv'
      BY MachineTypeStep, RestStep DEF CoolInv
    <2> QED
      BY <2>2, <2>3 DEF CoolInv
  <1> QED
    BY <1>1, <1>2, PTL DEF CoolDownSpec

\* A request that rests, found its cool-down running and was not stopped is always
\* about to be sent: a TxReady is queued or in hand, or a worker will post it.
THEOREM SpecRestingIsAnnounced == CoolDownSpec => []RestingIsAnnounced
  <1>1. CoolInv => RestingIsAnnounced
    BY DEF CoolInv, RestInv, RestingIsAnnounced, Calling
  <1> QED
    BY <1>1, SpecCoolInv, PTL
=============================================================================
