-------------------------------- MODULE Timer --------------------------------
(* Platform::Impl::Linux::Timer, the one-shot timer behind the cool-down.     *)
(* One owner thread calls start and stop (the destructor is a stop); every    *)
(* start spawns a worker thread that waits out the duration under the mutex,  *)
(* fires the callback outside of it, and clears `running'.  Observers read    *)
(* isRunning at any time.  A section under the mutex is one action; a worker  *)
(* that sleeps in condvar.wait_for has given the mutex up.                    *)
EXTENDS Naturals, Sequences

CONSTANT MaxStarts  \* bound: starts of the owner

ASSUME StartsAssumption == MaxStarts \in Nat

VARIABLES
    running,     \* the atomic flag isRunning reports
    stopFlag,
    generation,
    op,          \* the owner's call: "none", "start" or "stop"
    owner,       \* where the owner is in it
    joinable,    \* does `worker' own a thread?
    worker,      \* where that thread is, "none" before the first start
    gen,         \* the generation the worker was started with
    fired,       \* history: the generation of each callback, in their order
    wanted       \* history: generation of the last start, 0 after a stop

vars == <<running, stopFlag, generation, op, owner, joinable, worker, gen,
          fired, wanted>>
ownerVars == <<op, owner, joinable>>
workerVars == <<worker, gen, fired>>

-----------------------------------------------------------------------------
(* The owner: start(d) is stop() followed by arming and spawning.            *)

Begin(o) ==
    /\ owner = "out"
    /\ op' = o
    /\ owner' = "cancel"
    /\ UNCHANGED <<running, stopFlag, generation, joinable, workerVars, wanted>>

Start == generation < 2 * MaxStarts /\ Begin("start")
Stop == Begin("stop")

\* stop(), the section under the mutex.
Cancel ==
    /\ owner = "cancel"
    /\ stopFlag' = (stopFlag \/ running)
    /\ generation' = IF running THEN generation + 1 ELSE generation
    /\ owner' = "join"
    /\ UNCHANGED <<running, op, joinable, workerVars, wanted>>

\* if (worker.joinable()) worker.join()
JoinReturns_AtOnce == TRUE
JoinReturns == joinable => worker = "done"

Join_OnlyRunning ==
    /\ owner = "join"
    /\ running => JoinReturns
    /\ joinable' = (joinable /\ ~running)
    /\ owner' = "clear"
    /\ UNCHANGED <<running, stopFlag, generation, op, workerVars, wanted>>

Join ==
    /\ owner = "join"
    /\ JoinReturns
    /\ joinable' = FALSE
    /\ owner' = "clear"
    /\ UNCHANGED <<running, stopFlag, generation, op, workerVars, wanted>>

\* The last line of stop().
Clear ==
    /\ owner = "clear"
    /\ running' = FALSE
    /\ owner' = IF op = "start" THEN "arm" ELSE "out"
    /\ wanted' = 0
    /\ op' = IF op = "start" THEN op ELSE "none"
    /\ UNCHANGED <<stopFlag, generation, joinable, workerVars>>

\* start(): arm under the mutex, then read the generation and spawn.
ArmedFlag_Stale == stopFlag
ArmedFlag == FALSE

Arm ==
    /\ owner = "arm"
    /\ stopFlag' = ArmedFlag
    /\ running' = TRUE
    /\ generation' = generation + 1
    /\ owner' = "spawn"
    /\ wanted' = generation + 1
    /\ UNCHANGED <<op, joinable, workerVars>>

Spawn ==
    /\ owner = "spawn"
    /\ worker' = "begin"
    /\ gen' = generation
    /\ joinable' = TRUE
    /\ owner' = "out"
    /\ op' = "none"
    /\ UNCHANGED <<running, stopFlag, generation, fired, wanted>>

-----------------------------------------------------------------------------
(* The worker.                                                              *)

\* The predicate of wait_for.
Canceled == stopFlag \/ gen # generation

\* The owner's sections under the mutex are single actions, and stop has left the
\* mutex when it joins: the worker always gets it.
MutexFree_JoinInside == owner # "join"
MutexFree == TRUE

\* The end of the worker, still under the mutex.
Finish_ForgetsFlag == worker' = "done" /\ UNCHANGED running
Finish == worker' = "done" /\ running' = FALSE

\* On entry, when notified or woken spuriously: canceled, or (back) to sleep.
Wait ==
    /\ worker \in {"begin", "waiting"} /\ MutexFree
    /\ ~Canceled
    /\ worker' = "waiting"
    /\ UNCHANGED <<running, stopFlag, generation, ownerVars, gen, fired, wanted>>

GiveUp ==
    /\ worker \in {"begin", "waiting"} /\ MutexFree
    /\ Canceled
    /\ Finish
    /\ UNCHANGED <<stopFlag, generation, ownerVars, gen, fired, wanted>>

\* The duration is over and the predicate still false: unlock, call back.
Expire ==
    /\ worker = "waiting" /\ MutexFree
    /\ ~Canceled
    /\ worker' = "firing"
    /\ UNCHANGED <<running, stopFlag, generation, ownerVars, gen, fired, wanted>>

\* One shot: after its callback a worker never waits again.
AfterFire_Periodic == "begin"
AfterFire == "fired"

Fire ==
    /\ worker = "firing"
    /\ fired' = Append(fired, gen)
    /\ worker' = AfterFire
    /\ UNCHANGED <<running, stopFlag, generation, ownerVars, gen, wanted>>

\* Lock again and clear running.
Return ==
    /\ worker = "fired" /\ MutexFree
    /\ Finish
    /\ UNCHANGED <<stopFlag, generation, ownerVars, gen, fired, wanted>>

-----------------------------------------------------------------------------
Init ==
    /\ running = FALSE /\ stopFlag = FALSE /\ generation = 0
    /\ op = "none" /\ owner = "out" /\ joinable = FALSE
    /\ worker = "none" /\ gen = 0 /\ fired = << >> /\ wanted = 0

OwnerStep == Cancel \/ Join \/ Clear \/ Arm \/ Spawn
WorkerStep == Wait \/ GiveUp \/ Expire \/ Fire \/ Return

Next == Start \/ Stop \/ OwnerStep \/ WorkerStep

Spec == Init /\ [][Next]_vars

\* Both threads run on, and time passes for a worker that is not canceled.
FairSpec ==
    Spec /\ WF_vars(OwnerStep) /\ WF_vars(Expire)
         /\ WF_vars(GiveUp \/ Fire \/ Return \/ (worker = "begin" /\ Wait))

-----------------------------------------------------------------------------
(* Properties.                                                              *)

TypeOK ==
    /\ running \in BOOLEAN /\ stopFlag \in BOOLEAN /\ joinable \in BOOLEAN
    /\ generation \in Nat /\ gen \in Nat /\ wanted \in Nat
    /\ op \in {"none", "start", "stop"}
    /\ owner \in {"out", "cancel", "join", "clear", "arm", "spawn"}
    /\ worker \in {"none", "begin", "waiting", "firing", "fired", "done"}
    /\ fired \in Seq(Nat)

\* The thread object is never assigned while it still owns a thread (that would
\* terminate the program).
SpawnIsFree == owner = "spawn" => ~joinable

Alive == worker \in {"begin", "waiting", "firing", "fired"}

\* Once stop has returned no callback is under way or to come, until the next
\* start: the handler's context may be destroyed.
SilentAfterStop == owner = "out" /\ wanted = 0 => ~Alive

\* A timer that is reported idle does not fire any more; one that was started
\* and not stopped and is reported running has a worker that will clear the flag.
\* canSend relies on both.
RunningMeansAlive ==
    owner = "out" => (running <=> Alive)

\* A callback is never called twice for one start, and never for a start that a
\* stop which has returned, or a later start, has replaced.
Fired == {fired[i] : i \in 1..Len(fired)}
FiresOnceForCurrent ==
    [][fired' # fired =>
         LET g == fired'[Len(fired')]
         IN g \notin Fired /\ (owner = "out" => g = wanted)]_vars

\* Every start ends: the callback is called or the owner calls start or stop.
Ends == worker = "begin" ~> (gen \in Fired \/ owner # "out")

\* stop never hangs, whatever the worker is doing (the handler does not call back
\* into the timer).
StopReturns == owner # "out" ~> owner = "out"
=============================================================================
