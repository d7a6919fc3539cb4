------------------------------ MODULE AppProofs ------------------------------
(* The example program ends in the right order, for any number of URCs and    *)
(* any bound on the queue: no call outlives the loop, none outlives the       *)
(* device, and the poller never outlives the descriptor it polls.             *)
EXTENDS ExampleApp, SequenceTheorems, TLAPS

\* Only the AT thread asks the loop to end, and it asks when it is done.
StopInv ==
    /\ events \in Seq({"RxReady", "ShutDown"})
    /\ \A i \in 1..Len(events) : events[i] = "ShutDown" => at = "ended"
    /\ NoCallAfterLoop

\* main goes on only when it has joined the AT thread.
JoinedInv == main \in {"detach", "return", "destroyed", "exited"} => at = "ended"

\* main constructs the device before it starts a thread; the constructor has a
\* descriptor and no poller yet.
OpenInv ==
    /\ io = "opening" => ~tty
    /\ io = "configuring" => tty
    /\ io \in {"opening", "configuring"} => poller = "none"

\* There is no AT thread before main has started it.
StartInv == main = "construct" => at = "none"

AppInv == StopInv /\ JoinedInv /\ StartInv /\ OpenInv /\ DescriptorOwned

-----------------------------------------------------------------------------
\* A queue after an append holds what it held, and the new event.
LEMMA Queued ==
    ASSUME NEW S, NEW q \in Seq(S), NEW e \in S, NEW i \in 1..Len(Append(q, e))
    PROVE  Append(q, e)[i] = e \/ \E j \in 1..Len(q) : Append(q, e)[i] = q[j]
  OBVIOUS

\* A queue after its head was taken holds no more than it held.
LEMMA Dequeued ==
    ASSUME NEW S, NEW q \in Seq(S), q # << >>
    PROVE  /\ Tail(q) \in Seq(S) /\ Head(q) = q[1] /\ 1 \in 1..Len(q)
           /\ \A i \in 1..Len(Tail(q)) : Tail(q)[i] = q[i + 1] /\ i + 1 \in 1..Len(q)
  OBVIOUS

LEMMA StopStep ==
    ASSUME StopInv, StartInv, [Next]_vars
    PROVE  StopInv' /\ StartInv'
  <1> USE DEF StopInv, StartInv, NoCallAfterLoop
  <1>1. CASE CtrlC
    BY <1>1 DEF CtrlC
  <1>2. CASE AtTest \/ AtReturn \/ AtNap
    BY <1>2 DEF AtTest, AtReturn, AtNap
  <1>3. CASE AtShutDown
    <2>1. events' \in Seq({"RxReady", "ShutDown"})
      BY <1>3 DEF AtShutDown
    <2> QED
      BY <1>3, <2>1 DEF AtShutDown
  <1>4. CASE DevGet
    <2>1. Head(events) = events[1] /\ 1 \in 1..Len(events)
      BY <1>4, Dequeued DEF DevGet
    <2>2. events' \in Seq({"RxReady", "ShutDown"})
      BY <1>4, Dequeued DEF DevGet
    <2>3. \A i \in 1..Len(events') : events'[i] = "ShutDown" => at = "ended"
      BY <1>4, Dequeued DEF DevGet
    <2>4. dev' = "ended" => at = "ended"
      BY <1>4, <2>1 DEF DevGet
    <2> QED
      BY <1>4, <2>2, <2>3, <2>4 DEF DevGet
  <1>5. CASE DevHandle
    BY <1>5 DEF DevHandle
  <1>6. CASE PollerStep
    <2>1. /\ events' \in Seq({"RxReady", "ShutDown"})
          /\ \A i \in 1..Len(events') : events'[i] = "ShutDown" => at = "ended"
      <3>1. CASE events' = events
        BY <3>1
      <3>2. CASE events' = Append(events, "RxReady")
        BY <3>2, Queued
      <3> QED
        BY <1>6, <3>1, <3>2 DEF PollerStep, Notified
    <2> QED
      BY <1>6, <2>1 DEF PollerStep
  <1>7. CASE Answer \/ Urc \/ Unplug
    BY <1>7 DEF Answer, Urc, Unplug
  <1>8. CASE Construct
    BY <1>8 DEF Construct
  <1>9. CASE Leave \/ DestroyIo
    BY <1>9 DEF Leave, DestroyIo
  <1>10. CASE UNCHANGED vars
    BY <1>10 DEF vars
  <1> QED
    BY <1>1, <1>2, <1>3, <1>4, <1>5, <1>6, <1>7, <1>8, <1>9, <1>10
    DEF Next, AtStep, DevStep, MainStep, Exited

LEMMA JoinedStep ==
    ASSUME JoinedInv, [Next]_vars
    PROVE  JoinedInv'
  <1> USE DEF JoinedInv
  <1>1. CASE Construct
    BY <1>1 DEF Construct
  <1>2. CASE Leave
    BY <1>2 DEF Leave, Joined
  <1>3. CASE AtStep
    BY <1>3 DEF AtStep, AtTest, AtReturn, AtNap, AtShutDown
  <1>4. CASE CtrlC \/ DevStep \/ PollerStep \/ Answer \/ Urc \/ Unplug \/ DestroyIo
    BY <1>4 DEF CtrlC, DevStep, DevGet, DevHandle, PollerStep, Answer, Urc, Unplug,
                DestroyIo
  <1>5. CASE UNCHANGED vars
    BY <1>5 DEF vars
  <1> QED
    BY <1>1, <1>2, <1>3, <1>4, <1>5 DEF Next, MainStep, Exited

LEMMA DescriptorStep ==
    ASSUME OpenInv, DescriptorOwned, [Next]_vars
    PROVE  OpenInv' /\ DescriptorOwned'
  <1> USE DEF OpenInv, DescriptorOwned
  <1>1. CASE Construct
    <2>1. CASE OpenTty
      BY <2>1 DEF OpenTty
    <2>2. CASE Configure
      BY <2>2 DEF Configure, Abandon, StartPolling
    <2>3. CASE Subscribe
      BY <2>3 DEF Subscribe
    <2> QED
      BY <1>1, <2>1, <2>2, <2>3 DEF Construct
  <1>2. CASE PollerStep
    <2>1. tty' = tty /\ io' = io
      BY <1>2 DEF PollerStep, PollTest, PollIdle, PollReady, NotifyRx
    <2>2. poller \in {"test", "poll", "notify"}
      BY <1>2 DEF PollerStep, PollTest, PollIdle, PollReady, NotifyRx
    <2> QED
      BY <2>1, <2>2
  <1>3. CASE DestroyIo
    BY <1>3 DEF DestroyIo, StopPolling, Close, JoinPoller
  <1>4. CASE DevHandle
    BY <1>4 DEF DevHandle, Read
  <1>5. CASE Answer \/ Urc \/ Unplug
    BY <1>5 DEF Answer, Urc, Unplug, Arrive, HangUp
  <1>6. CASE CtrlC \/ AtStep \/ DevGet \/ Leave
    BY <1>6 DEF CtrlC, AtStep, AtTest, AtReturn, AtNap, AtShutDown, DevGet, Leave, ioVars
  <1>7. CASE UNCHANGED vars
    BY <1>7 DEF vars, ioVars
  <1> QED
    BY <1>1, <1>2, <1>3, <1>4, <1>5, <1>6, <1>7 DEF Next, DevStep, MainStep, Exited

LEMMA SpecAppInv == Spec => []AppInv
  <1>1. Init => AppInv
    <2> SUFFICES ASSUME Init PROVE AppInv
      OBVIOUS
    <2>1. events = << >> /\ Len(events) = 0 /\ events \in Seq({"RxReady", "ShutDown"})
      BY DEF Init
    <2> QED
      BY <2>1 DEF Init, IoInit, AppInv, StopInv, NoCallAfterLoop, JoinedInv, StartInv,
                  OpenInv, DescriptorOwned
  <1>2. AppInv /\ [Next]_vars => AppInv'
    BY StopStep, JoinedStep, DescriptorStep DEF AppInv
  <1> QED
    BY <1>1, <1>2, PTL DEF Spec

-----------------------------------------------------------------------------
\* main.cpp: whatever the modem, the TTY and Ctrl-C do, the loop has ended only
\* when the AT thread has, so no call waits for an answer nobody will read.
THEOREM SpecNoCallAfterLoop == Spec => []NoCallAfterLoop
  <1>1. AppInv => NoCallAfterLoop
    BY DEF AppInv, StopInv
  <1> QED
    BY <1>1, SpecAppInv, PTL

\* main.cpp: the AT thread has ended when main destroys the device it calls.
THEOREM SpecCallsEnd == Spec => []CallsEndBeforeDestruction
  <1>1. AppInv => CallsEndBeforeDestruction
    BY DEF AppInv, JoinedInv, CallsEndBeforeDestruction, DeviceAlive
  <1> QED
    BY <1>1, SpecAppInv, PTL

\* DeviceIO.h: a live poller has an open descriptor to poll, and neither a failed
\* constructor nor the destructor leaves one open.
THEOREM SpecDescriptorOwned == Spec => []DescriptorOwned
  <1>1. AppInv => DescriptorOwned
    BY DEF AppInv
  <1> QED
    BY <1>1, SpecAppInv, PTL
=============================================================================
