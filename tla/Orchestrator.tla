---------------------------- MODULE Orchestrator ----------------------------
(* The command/response engine of ATLink: Core::Fsm::Orchestrator together   *)
(* with the three states of its machine (Idle, SendCommand, WaitForResponse). *)
(*                                                                           *)
(* Client threads call sendCommand(); one thread runs loop(); the poller     *)
(* thread of DeviceIO posts RxReady events; the modem answers over the       *)
(* serial line and emits unsolicited result codes (URCs) of its own accord.  *)
(* Every atomic step of a thread is one action; `mtx' makes the steps of a   *)
(* critical section exclusive, and nothing else does.                        *)
(*                                                                           *)
(* Bytes are abstracted to parts of records:                                 *)
(*   "R1" "R2"  first and remaining lines of an information response         *)
(*   "F1" "F2"  halves of a final result line (OK, ERROR, +CME ERROR: n ...) *)
(*   "U1" "U2"  halves of a URC line                                         *)
(* so a read may end inside a record as well as between two records.         *)
EXTENDS Naturals, Sequences

CONSTANTS
    Clients,     \* threads that call sendCommand
    Loop,        \* the thread that runs loop()
    Nobody,      \* holder of a free mutex
    NoMsg,       \* no request: the payload of Idle, the owner of a URC
    Wants,       \* may a caller pass a Response object?  a subset of BOOLEAN
    Replies,     \* what the modem sends: "full" and/or "error" (no response)
    Dispatcher,  \* the application's URC dispatcher: "none", "known", "any"
    RxCapacity,  \* parts that fit into rxstorage
    Chunked,     \* may the serial line deliver an answer piecemeal?
    MayFail,     \* may serialization or the write of a command fail?
    MayStop,     \* may somebody call shutDown?
    MaxCalls,    \* bound: calls of each client
    MaxUrcs,     \* bound: URCs of the modem
    MaxEvents    \* bound: events the poller keeps queued

ASSUME ThreadsAssumption ==
    /\ Loop \notin Clients
    /\ Nobody \notin Clients \cup {Loop}

ASSUME BoundsAssumption ==
    /\ RxCapacity \in Nat
    /\ MaxCalls \in Nat
    /\ MaxUrcs \in Nat
    /\ MaxEvents \in Nat

ASSUME OptionsAssumption ==
    /\ Wants \subseteq BOOLEAN
    /\ Replies \subseteq {"full", "error"}
    /\ Dispatcher \in {"none", "known", "any"}
    /\ Chunked \in BOOLEAN /\ MayFail \in BOOLEAN /\ MayStop \in BOOLEAN

\* One sendCommand call: the objects its SendCommand payload points to (ec,
\* result, command, response, sem) live in that call's frame.
Msgs == [client : Clients, call : 1..MaxCalls, wants : BOOLEAN]

ASSUME NoMsgAssumption == NoMsg \notin Msgs

Idle == [kind |-> "Idle", msg |-> NoMsg]
SendCommand(m) == [kind |-> "SendCommand", msg |-> m]
WaitForResponse(m) == [kind |-> "WaitForResponse", msg |-> m]

VARIABLES
    mtx,           \* who holds Orchestrator::mtx
    state,         \* Orchestrator::state
    next,          \* local `next' of the critical section under way, else Idle
    events,        \* Orchestrator::events, oldest first
    rxbuf,         \* the first `leftover' (+ just read) parts of rxbuf
    lpc,           \* where the loop thread is
    haveResponse,  \* locals of receive()
    haveResult,
    pc,            \* where each client is
    call,          \* calls each client has started
    wants,         \* does the current call expect a Response?
    ec,            \* local ErrorCode of sendCommand
    sem,           \* count of the call's semaphore
    failed,        \* history: the command of the current call was not sent
    respOf,        \* whose response the call's Response object holds
    frcOf,         \* whose result the call's AResponsePack holds
    outbox,        \* parts the modem has produced and not yet delivered
    tty,           \* parts in the kernel's receive buffer
    urcs           \* URCs emitted so far

fsmVars == <<mtx, state, next>>
loopVars == <<lpc, haveResponse, haveResult, rxbuf>>
clientVars == <<pc, call, wants, ec, sem, failed>>
answerVars == <<respOf, frcOf>>
lineVars == <<outbox, tty, urcs>>
vars == <<fsmVars, events, loopVars, clientVars, answerVars, lineVars>>

-----------------------------------------------------------------------------
(* Records on the line, and what the parsers make of the front of a buffer. *)

Part(p, m) == [part |-> p, of |-> m]

FinalResult(m) == <<Part("F1", m), Part("F2", m)>>
Response(m) == <<Part("R1", m), Part("R2", m)>>
Urc == <<Part("U1", NoMsg), Part("U2", NoMsg)>>

Answer(m, reply) ==
    IF m.wants /\ reply = "full" THEN Response(m) \o FinalResult(m)
                                 ELSE FinalResult(m)

StartsWith(s, p, q) == Len(s) >= 2 /\ s[1].part = p /\ s[2].part = q

ResponseAt(s) == StartsWith(s, "R1", "R2")
ResultAt(s) == StartsWith(s, "F1", "F2")

\* Parts the dispatcher consumes.  A Core::Urc pack ends in AnyUrc, which takes
\* any complete line; the two lines of a response are complete lines.
UrcLen_NoProgress(s) == 0
UrcLen(s) ==
    CASE Dispatcher = "none" -> 0
      [] Dispatcher = "known" -> IF StartsWith(s, "U1", "U2") THEN 2 ELSE 0
      [] Dispatcher = "any" ->
            IF s = << >> THEN 0
            ELSE IF s[1].part \in {"R1", "R2"} THEN 1
            ELSE IF ResultAt(s) \/ StartsWith(s, "U1", "U2") THEN 2 ELSE 0

Drop(s, n) == SubSeq(s, n + 1, Len(s))

\* Parts that one read can add: it reads into rxbuf.subspan(leftover).
Room_IgnoresLeftover(buf) == RxCapacity
Room(buf) == RxCapacity - Len(buf)

-----------------------------------------------------------------------------
(* The decisions of the state machine.                                      *)

IsIdle == state.kind = "Idle"
Receiving == state.kind = "WaitForResponse"

\* canSend: Orchestrator never starts its cool-down timer, so it never runs.
CanSend == TRUE

\* SendCommand::start, `sent' being what Context::send returned.
StartState_KeepsFailed(m, sent) ==
    IF CanSend THEN WaitForResponse(m) ELSE SendCommand(m)

StartState(m, sent) ==
    IF ~CanSend THEN SendCommand(m)
    ELSE IF sent THEN WaitForResponse(m) ELSE Idle

\* The verdict of receive.
Complete_OnResultAlone == haveResult
Complete_OnEither == haveResult \/ (haveResponse /\ state.msg.wants)
Complete == haveResult /\ haveResponse

\* Idle::handle and WaitForResponse::handle of RxReady, after the buffer has
\* been parsed.
AfterRxReady_ForgetsRequest == Idle
AfterRxReady_KeepsWaiting == state
AfterRxReady == IF Receiving /\ Complete THEN Idle ELSE state

\* Where a client goes when condvar.wait returns: the while of sendCommand
\* tests the state again.
AfterWait_If == "process"
AfterWait == "gate"

\* pc of the clients once handle has stored state t: it notifies all waiters
\* when the machine becomes idle.
Woken_Never(t) == pc
Woken_One(t) ==
    IF IsIdle \/ t.kind # "Idle" \/ ~\E c \in Clients : pc[c] = "cond" THEN pc
    ELSE [pc EXCEPT ![CHOOSE c \in Clients : pc[c] = "cond"] = "relock"]
Woken(t) ==
    IF IsIdle \/ t.kind # "Idle" THEN pc
    ELSE [c \in Clients |-> IF pc[c] = "cond" THEN "relock" ELSE pc[c]]

-----------------------------------------------------------------------------
(* sendCommand, step by step.                                               *)

Request(c) == [client |-> c, call |-> call[c], wants |-> wants[c]]

\* A client thread calls sendCommand, with or without a Response object.
Call(c) ==
    /\ pc[c] = "out"
    /\ call[c] < MaxCalls
    /\ pc' = [pc EXCEPT ![c] = "lock"]
    /\ call' = [call EXCEPT ![c] = @ + 1]
    /\ \E w \in Wants : wants' = [wants EXCEPT ![c] = w]
    /\ failed' = [failed EXCEPT ![c] = FALSE]
    /\ respOf' = [respOf EXCEPT ![c] = NoMsg]
    /\ frcOf' = [frcOf EXCEPT ![c] = NoMsg]
    /\ UNCHANGED <<fsmVars, events, loopVars, ec, sem, lineVars>>

\* mtx.lock(), on entry and inside condvar.wait once woken.
Lock(c) ==
    /\ pc[c] \in {"lock", "relock"}
    /\ mtx = Nobody
    /\ mtx' = c
    /\ pc' = [pc EXCEPT ![c] = IF pc[c] = "lock" THEN "gate" ELSE AfterWait]
    /\ UNCHANGED <<state, next, events, loopVars, call, wants, ec, sem, failed,
                   answerVars, lineVars>>

\* The machine is busy: condvar.wait gives the mutex up and sleeps.
GateWait(c) ==
    /\ pc[c] = "gate"
    /\ ~IsIdle
    /\ mtx' = Nobody
    /\ pc' = [pc EXCEPT ![c] = "cond"]
    /\ UNCHANGED <<state, next, events, loopVars, call, wants, ec, sem, failed,
                   answerVars, lineVars>>

\* pthread_cond_wait may return without a notification.
SpuriousWake(c) ==
    /\ pc[c] = "cond"
    /\ pc' = [pc EXCEPT ![c] = "relock"]
    /\ UNCHANGED <<fsmVars, events, loopVars, call, wants, ec, sem, failed,
                   answerVars, lineVars>>

\* Past the gate: the frame's ErrorCode and Semaphore are created.
GatePass(c) ==
    /\ pc[c] = "gate"
    /\ IsIdle
    /\ pc' = [pc EXCEPT ![c] = "process"]
    /\ ec' = [ec EXCEPT ![c] = "NoError"]
    /\ sem' = [sem EXCEPT ![c] = 0]
    /\ UNCHANGED <<fsmVars, events, loopVars, call, wants, failed, answerVars,
                   lineVars>>

\* What Context::send may return.
SendOutcomes == IF MayFail THEN BOOLEAN ELSE {TRUE}

\* idle->process(payload) sends the command, and the modem will answer it in its
\* own time; a machine that is not idle after gating is an InternalError.
Process(c) ==
    /\ pc[c] = "process"
    /\ \E sent \in SendOutcomes, reply \in Replies :
          /\ next' = IF IsIdle THEN StartState(Request(c), sent) ELSE next
          /\ failed' = [failed EXCEPT ![c] = IsIdle /\ CanSend /\ ~sent]
          /\ outbox' = IF IsIdle /\ CanSend /\ sent
                       THEN outbox \o Answer(Request(c), reply) ELSE outbox
    /\ ec' = [ec EXCEPT ![c] = IF IsIdle THEN @ ELSE "InternalError"]
    /\ pc' = [pc EXCEPT ![c] = IF IsIdle THEN "store" ELSE "unlock"]
    /\ UNCHANGED <<mtx, state, events, loopVars, call, wants, sem, answerVars,
                   tty, urcs>>

\* state = std::move(next)
Store(c) ==
    /\ pc[c] = "store"
    /\ state' = next
    /\ next' = Idle
    /\ pc' = [pc EXCEPT ![c] = "unlock"]
    /\ UNCHANGED <<mtx, events, loopVars, call, wants, ec, sem, failed,
                   answerVars, lineVars>>

\* Only a call whose ErrorCode is NoError waits for its semaphore.
Unlock(c) ==
    /\ pc[c] = "unlock"
    /\ mtx' = Nobody
    /\ pc' = [pc EXCEPT ![c] = IF ec[c] = "NoError" THEN "acquire" ELSE "out"]
    /\ UNCHANGED <<state, next, events, loopVars, call, wants, ec, sem, failed,
                   answerVars, lineVars>>

\* sem.acquire() returns, and with it sendCommand: the frame is gone.
Acquire(c) ==
    /\ pc[c] = "acquire"
    /\ sem[c] > 0
    /\ sem' = [sem EXCEPT ![c] = @ - 1]
    /\ pc' = [pc EXCEPT ![c] = "out"]
    /\ UNCHANGED <<fsmVars, events, loopVars, call, wants, ec, failed,
                   answerVars, lineVars>>

\* What a thread inside sendCommand does next; when it is woken is not its choice.
ClientStep(c) ==
    \/ Lock(c) \/ GateWait(c) \/ GatePass(c) \/ Process(c)
    \/ Store(c) \/ Unlock(c) \/ Acquire(c)

-----------------------------------------------------------------------------
(* loop, handle and receive / dispatchUrcs, step by step.                   *)

\* events.get(); ShutDown ends the loop.
LoopGet ==
    /\ lpc = "get"
    /\ events # << >>
    /\ events' = Tail(events)
    /\ lpc' = IF Head(events) = "ShutDown" THEN "stopped" ELSE "lock"
    /\ UNCHANGED <<fsmVars, haveResponse, haveResult, rxbuf, clientVars,
                   answerVars, lineVars>>

\* handle takes the LockGuard.
LoopLock ==
    /\ lpc = "lock"
    /\ mtx = Nobody
    /\ mtx' = Loop
    /\ lpc' = "read"
    /\ UNCHANGED <<state, next, events, haveResponse, haveResult, rxbuf,
                   clientVars, answerVars, lineVars>>

\* The state's handler reads what fits behind the leftover and starts afresh.
LoopRead ==
    /\ lpc = "read"
    /\ LET n == IF Len(tty) <= Room(rxbuf) THEN Len(tty) ELSE Room(rxbuf)
       IN /\ rxbuf' = rxbuf \o SubSeq(tty, 1, n)
          /\ tty' = Drop(tty, n)
    /\ haveResponse' = (Receiving /\ ~state.msg.wants)
    /\ haveResult' = FALSE
    /\ lpc' = "parse"
    /\ UNCHANGED <<fsmVars, events, clientVars, answerVars, outbox, urcs>>

\* What receive tries at the front of the input, in this order; the handler of
\* Idle tries the dispatcher only.
ResultNext_UrcFirst ==
    Receiving /\ ~haveResult /\ UrcLen(rxbuf) = 0 /\ ResultAt(rxbuf)

ResponseNext_AfterResult ==
    Receiving /\ haveResult /\ ~haveResponse /\ ResponseAt(rxbuf)

ResponseNext == Receiving /\ ~haveResponse /\ ResponseAt(rxbuf)
ResultNext == Receiving /\ ~haveResult /\ ~ResponseNext /\ ResultAt(rxbuf)
UrcNext == ~ResponseNext /\ ~ResultNext /\ UrcLen(rxbuf) > 0

TakeResponse ==
    /\ lpc = "parse"
    /\ ResponseNext
    /\ respOf' = [respOf EXCEPT ![state.msg.client] = rxbuf[1].of]
    /\ rxbuf' = Drop(rxbuf, 2)
    /\ haveResponse' = TRUE
    /\ UNCHANGED <<fsmVars, events, lpc, haveResult, clientVars, frcOf, lineVars>>

TakeResult ==
    /\ lpc = "parse"
    /\ ResultNext
    /\ frcOf' = [frcOf EXCEPT ![state.msg.client] = rxbuf[1].of]
    /\ rxbuf' = Drop(rxbuf, 2)
    /\ haveResult' = TRUE
    /\ UNCHANGED <<fsmVars, events, lpc, haveResponse, clientVars, respOf, lineVars>>

TakeUrc ==
    /\ lpc = "parse"
    /\ UrcNext
    /\ rxbuf' = Drop(rxbuf, UrcLen(rxbuf))
    /\ UNCHANGED <<fsmVars, events, lpc, haveResponse, haveResult, clientVars,
                   answerVars, lineVars>>

\* Nothing more to parse: the rest stays in rxbuf; a completed request has its
\* semaphore released before the state changes.
ParseDone ==
    /\ lpc = "parse"
    /\ ~ResponseNext /\ ~ResultNext /\ ~UrcNext
    /\ sem' = IF Receiving /\ Complete
              THEN [sem EXCEPT ![state.msg.client] = @ + 1] ELSE sem
    /\ next' = AfterRxReady
    /\ lpc' = "store"
    /\ UNCHANGED <<mtx, state, events, haveResponse, haveResult, rxbuf, pc, call,
                   wants, ec, failed, answerVars, lineVars>>

\* handle stores the next state, notifies, and its guard unlocks.
LoopStore ==
    /\ lpc = "store"
    /\ state' = next
    /\ pc' = Woken(next)
    /\ next' = Idle
    /\ mtx' = Nobody
    /\ lpc' = "get"
    /\ UNCHANGED <<events, haveResponse, haveResult, rxbuf, call, wants, ec, sem,
                   failed, answerVars, lineVars>>

LoopStep ==
    \/ LoopGet \/ LoopLock \/ LoopRead \/ TakeResponse \/ TakeResult
    \/ TakeUrc \/ ParseDone \/ LoopStore

-----------------------------------------------------------------------------
(* The surroundings: the poller of DeviceIO, a caller of shutDown, the modem. *)

\* poll() reports POLLIN for as long as bytes are unread, so the poller may
\* post RxReady again and again.
Poll ==
    /\ tty # << >>
    /\ Len(events) < MaxEvents
    /\ events' = Append(events, "RxReady")
    /\ UNCHANGED <<fsmVars, loopVars, clientVars, answerVars, lineVars>>

ShutDown ==
    /\ MayStop
    /\ lpc # "stopped"
    /\ \A i \in 1..Len(events) : events[i] # "ShutDown"
    /\ events' = Append(events, "ShutDown")
    /\ UNCHANGED <<fsmVars, loopVars, clientVars, answerVars, lineVars>>

\* Bytes reach the receive buffer, a few at a time or all at once.
ModemEmit ==
    /\ outbox # << >>
    /\ \E n \in (IF Chunked THEN 1 ELSE Len(outbox))..Len(outbox) :
          /\ tty' = tty \o SubSeq(outbox, 1, n)
          /\ outbox' = Drop(outbox, n)
    /\ UNCHANGED <<fsmVars, events, loopVars, clientVars, answerVars, urcs>>

InsideRecord(s) == s # << >> /\ s[1].part \in {"R2", "F2", "U2"}

\* A URC may come at any time, but not inside a record.
ModemUrc ==
    /\ urcs < MaxUrcs
    /\ ~InsideRecord(outbox)
    /\ outbox' = Urc \o outbox
    /\ urcs' = urcs + 1
    /\ UNCHANGED <<fsmVars, events, loopVars, clientVars, answerVars, tty>>

\* All calls are made and have returned, and the line is quiet.
Quiet ==
    /\ \A c \in Clients : pc[c] = "out" /\ call[c] = MaxCalls
    /\ urcs = MaxUrcs /\ outbox = << >> /\ tty = << >> /\ events = << >>
    /\ lpc \in {"get", "stopped"}
    /\ UNCHANGED vars

-----------------------------------------------------------------------------
Init ==
    /\ mtx = Nobody /\ state = Idle /\ next = Idle
    /\ events = << >> /\ rxbuf = << >>
    /\ lpc = "get" /\ haveResponse = FALSE /\ haveResult = FALSE
    /\ pc = [c \in Clients |-> "out"]
    /\ call = [c \in Clients |-> 0]
    /\ wants = [c \in Clients |-> FALSE]
    /\ ec = [c \in Clients |-> "NoError"]
    /\ sem = [c \in Clients |-> 0]
    /\ failed = [c \in Clients |-> FALSE]
    /\ respOf = [c \in Clients |-> NoMsg]
    /\ frcOf = [c \in Clients |-> NoMsg]
    /\ outbox = << >> /\ tty = << >> /\ urcs = 0

Next ==
    \/ \E c \in Clients : Call(c) \/ SpuriousWake(c) \/ ClientStep(c)
    \/ LoopStep
    \/ Poll \/ ShutDown \/ ModemEmit \/ ModemUrc
    \/ Quiet

Spec == Init /\ [][Next]_vars

\* The threads run when they can, poll() reports unread bytes, and the line
\* delivers what the modem has sent.  A thread that asks for a mutex which is
\* free again and again gets it (strong fairness: a sleeper that keeps waking up
\* spuriously does not keep the others out).  Nobody has to call, to stop the
\* loop, to emit a URC or to be woken spuriously.
Fairness ==
    /\ \A c \in Clients : WF_vars(ClientStep(c)) /\ SF_vars(Lock(c))
    /\ WF_vars(LoopStep) /\ SF_vars(LoopLock)
    /\ WF_vars(Poll) /\ WF_vars(ModemEmit)

FairSpec == Spec /\ Fairness

-----------------------------------------------------------------------------
(* Properties.                                                              *)

Parts == {"R1", "R2", "F1", "F2", "U1", "U2"}
Tokens == [part : Parts, of : Msgs \cup {NoMsg}]
Posted == [part : {"R1", "R2", "F1", "F2"}, of : Msgs]
          \cup [part : {"U1", "U2"}, of : {NoMsg}]
States == {Idle} \cup {WaitForResponse(m) : m \in Msgs}
Places == {"out", "lock", "gate", "cond", "relock", "process", "store",
           "unlock", "acquire"}

\* Types, and the bounds of the code's own storage: the receive buffer never
\* holds more than rxstorage, a binary semaphore is never released twice, and
\* the machine never rests in SendCommand.
TypeOK ==
    /\ mtx \in Clients \cup {Loop, Nobody}
    /\ state \in States
    /\ next \in States
    /\ events \in Seq({"RxReady", "ShutDown"})
    /\ rxbuf \in Seq(Posted) /\ Len(rxbuf) <= RxCapacity
    /\ lpc \in {"get", "lock", "read", "parse", "store", "stopped"}
    /\ haveResponse \in BOOLEAN /\ haveResult \in BOOLEAN
    /\ pc \in [Clients -> Places]
    /\ call \in [Clients -> 0..MaxCalls]
    /\ wants \in [Clients -> BOOLEAN]
    /\ ec \in [Clients -> {"NoError", "InternalError"}]
    /\ sem \in [Clients -> 0..1]
    /\ failed \in [Clients -> BOOLEAN]
    /\ respOf \in [Clients -> Msgs \cup {NoMsg}]
    /\ frcOf \in [Clients -> Msgs \cup {NoMsg}]
    /\ outbox \in Seq(Posted) /\ tty \in Seq(Posted)
    /\ urcs \in 0..MaxUrcs

\* The call of c has handed its request over and is still to be answered.
Served(c) ==
    /\ pc[c] \in {"unlock", "acquire"}
    /\ ec[c] = "NoError" /\ ~failed[c] /\ sem[c] = 0

\* A request that was sent is never forgotten: as long as its caller blocks, the
\* machine waits for exactly this request's answer.  Hence one request at a time.
NoOrphan ==
    \A c \in Clients : Served(c) => state = WaitForResponse(Request(c))

\* Whenever the loop may follow the pointers of the payload it keeps (result,
\* response, sem), the frame they point into is alive: that very call is still
\* inside sendCommand and its semaphore has not been released.
LiveFrame ==
    (Receiving /\ lpc # "store") =>
        LET m == state.msg IN Served(m.client) /\ Request(m.client) = m

\* Nobody sleeps on the condition variable while the machine is idle: the test
\* of the gate and the notification of handle cannot miss each other.
NoLostWakeup == (\E c \in Clients : pc[c] = "cond") => ~IsIdle

\* Past the gate the machine is idle, whatever woke the caller up: the branch
\* that reports InternalError is never taken.
GateHolds == \A c \in Clients : ec[c] = "NoError"

\* The objects of a call are only ever filled from the answer to that call, and
\* a call that returns NoError has its result and the response it asked for.
OwnAnswer ==
    \A c \in Clients :
        /\ respOf[c] \in {NoMsg, Request(c)}
        /\ frcOf[c] \in {NoMsg, Request(c)}
        /\ pc[c] = "out" /\ call[c] > 0 /\ ec[c] = "NoError" =>
              /\ frcOf[c] = Request(c)
              /\ wants[c] => respOf[c] = Request(c)

\* The machine leaves WaitForResponse for Idle only, and only when the request it
\* waited for has its final result and its response.
ServedUntilAnswered ==
    [][Receiving /\ state' # state =>
         /\ state' = Idle
         /\ LET m == state.msg
            IN (Request(m.client) = m) =>
                  frcOf[m.client] = m /\ (m.wants => respOf[m.client] = m)]_vars

\* The final result a blocked caller needs is still on its way to it or has been
\* parsed into its pack: no handler drops it and no dispatcher swallows it.
Holds(s, m) == \E i \in 1..Len(s) : s[i] = Part("F1", m)
ResultKept ==
    \A c \in Clients : Served(c) =>
        \/ Holds(outbox, Request(c)) \/ Holds(tty, Request(c))
        \/ Holds(rxbuf, Request(c))
        \/ frcOf[c] = Request(c)

\* receive has parsed the response of the pending call in an earlier read, and
\* with the next one it starts afresh.
HalfRead(c) ==
    pc[c] = "acquire" /\ sem[c] = 0 /\ respOf[c] = Request(c) /\ lpc = "get"

\* Every call returns, unless its command was not sent, the loop was stopped, or
\* some call's response and final result are read apart.
CallReturns ==
    \A c \in Clients :
        pc[c] = "lock" ~>
            \/ pc[c] = "out" \/ failed[c] \/ lpc = "stopped"
            \/ \E d \in Clients : HalfRead(d)

\* receive: "RX: incomplete response, waiting".  Once the modem has answered, the
\* waiting ends.
WaitingEnds == \A c \in Clients : Served(c) ~> ~Served(c)

\* main.cpp: "Inspect final result code if you want to log more detail".  A call
\* whose final result has been parsed, OK or ERROR, returns.
ResultEndsCall ==
    \A c \in Clients :
        (pc[c] = "acquire" /\ frcOf[c] = Request(c)) ~> pc[c] = "out"

\* main.cpp: "ATI command failed (sendCommand error)".  A call whose command
\* could not be sent returns.
SendFailureReturns == \A c \in Clients : failed[c] ~> pc[c] = "out"

\* Bytes in the receive buffer of the kernel are read in the end.
InputDrained == tty # << >> ~> (tty = << >> \/ lpc = "stopped")

\* What callers see: requests are served one at a time, each answered once.
Phase(c) ==
    CASE pc[c] = "out" -> "out"
      [] pc[c] # "out" /\ failed[c] -> "lost"
      [] ~failed[c] /\ pc[c] \in {"lock", "gate", "cond", "relock", "process"}
            -> "waiting"
      [] ~failed[c] /\ pc[c] \in {"store", "unlock", "acquire"}
            -> IF sem[c] = 0 THEN "served" ELSE "answered"

Service == INSTANCE CommandService WITH phase <- [c \in Clients |-> Phase(c)]
ServiceSpec == Service!Spec
=============================================================================
