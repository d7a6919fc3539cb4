------------------------- MODULE OrchestratorProofs -------------------------
(* Safety of the command/response engine for any number of clients, calls,   *)
(* URCs and any receive buffer: type correctness, mutual exclusion, and the   *)
(* inductive invariant behind NoOrphan, LiveFrame, NoLostWakeup, GateHolds.   *)
EXTENDS Orchestrator, SequenceTheorems, TLAPS

-----------------------------------------------------------------------------
(* The inductive invariant.                                                 *)

ClientSection == {"gate", "process", "store", "unlock"}
LoopSection == {"read", "parse", "store"}

Gating == {"lock", "gate", "cond", "relock", "process"}

\* mtx names the one thread that is inside a critical section.
MutexInv ==
    /\ \A c \in Clients : pc[c] \in ClientSection <=> mtx = c
    /\ lpc \in LoopSection <=> mtx = Loop

\* A client on its way to the gate, past it, and up to its semaphore.
ClientInv ==
    \A c \in Clients :
        /\ pc[c] # "out" => call[c] > 0
        /\ pc[c] \in Gating => ~failed[c]
        /\ sem[c] > 0 => pc[c] = "acquire" /\ ~failed[c]
        /\ pc[c] = "process" => IsIdle
        /\ pc[c] = "store" =>
              /\ IsIdle
              /\ next = IF failed[c] THEN Idle ELSE WaitForResponse(Request(c))

\* The loop about to store: either nothing changes, or the request it served is
\* answered and nobody is being served any more.
LoopInv ==
    lpc = "store" =>
        \/ next = state
        \/ Receiving /\ next = Idle /\ \A c \in Clients : ~Served(c)

\* LiveFrame, also while the loop is about to store an unchanged state.
FrameInv ==
    (Receiving /\ (lpc = "store" => next = state)) =>
        LET m == state.msg IN Served(m.client) /\ Request(m.client) = m

Inv ==
    /\ TypeOK
    /\ MutexInv
    /\ ClientInv
    /\ LoopInv
    /\ FrameInv
    /\ NoOrphan
    /\ NoLostWakeup
    /\ GateHolds

-----------------------------------------------------------------------------
(* Lemmas about the operators the model is built from.                      *)

\* Cutting a buffer in two keeps its elements.
LEMMA CutProperties ==
    ASSUME NEW S, NEW s \in Seq(S), NEW n \in 0..Len(s)
    PROVE  /\ SubSeq(s, 1, n) \in Seq(S) /\ Len(SubSeq(s, 1, n)) = n
           /\ Drop(s, n) \in Seq(S) /\ Len(Drop(s, n)) = Len(s) - n
  <1>1. \A i \in 1..Len(s) : s[i] \in S  OBVIOUS
  <1>2. Len(s) \in Nat  OBVIOUS
  <1>3. SubSeq(s, 1, n) \in Seq(S) /\ Len(SubSeq(s, 1, n)) = n
    <2>1. \A i \in 1..n : s[i] \in S  BY <1>1, <1>2
    <2> QED  BY <2>1, <1>2, SubSeqProperties
  <1>4. Drop(s, n) \in Seq(S) /\ Len(Drop(s, n)) = Len(s) - n
    <2>1. \A i \in (n + 1)..Len(s) : s[i] \in S  BY <1>1, <1>2
    <2> QED  BY <2>1, <1>2, SubSeqProperties DEF Drop
  <1> QED  BY <1>3, <1>4

\* What the modem answers, and what it reports unasked, are parts of records.
LEMMA PostedRecords ==
    /\ \A m \in Msgs, r \in Replies : Answer(m, r) \in Seq(Posted)
    /\ Urc \in Seq(Posted)
  <1>1. ASSUME NEW m \in Msgs
        PROVE  Response(m) \in Seq(Posted) /\ FinalResult(m) \in Seq(Posted)
    BY DEF Response, FinalResult, Part, Posted
  <1>2. Urc \in Seq(Posted)
    BY DEF Urc, Part, Posted
  <1>3. ASSUME NEW m \in Msgs, NEW r \in Replies
        PROVE  Answer(m, r) \in Seq(Posted)
    <2>1. Response(m) \o FinalResult(m) \in Seq(Posted)
      BY <1>1, ConcatProperties
    <2> QED  BY <1>1, <2>1 DEF Answer
  <1> QED  BY <1>2, <1>3

\* The dispatcher consumes no more than there is.
LEMMA UrcLenBound ==
    ASSUME NEW s \in Seq(Posted)
    PROVE  UrcLen(s) \in 0..Len(s)
  <1>1. Len(s) \in Nat /\ (s # << >> => Len(s) > 0)  OBVIOUS
  <1>2. CASE Dispatcher = "none"
    BY <1>1, <1>2 DEF UrcLen
  <1>3. CASE Dispatcher = "known"
    BY <1>1, <1>3 DEF UrcLen, StartsWith
  <1>4. CASE Dispatcher = "any"
    BY <1>1, <1>4 DEF UrcLen, ResultAt, StartsWith
  <1> QED  BY <1>2, <1>3, <1>4, OptionsAssumption

\* The two states the machine rests in.
LEMMA StateShapes ==
    ASSUME TypeOK
    PROVE  /\ IsIdle <=> state = Idle
           /\ Receiving => state.msg \in Msgs /\ state = WaitForResponse(state.msg)
           /\ Receiving <=> ~IsIdle
  BY DEF TypeOK, States, IsIdle, Receiving, Idle, WaitForResponse

\* A call under way has an identity.
LEMMA RequestTyped ==
    ASSUME TypeOK, ClientInv, NEW c \in Clients, pc[c] # "out"
    PROVE  Request(c) \in Msgs
  <1>1. call[c] > 0  BY DEF ClientInv
  <1>2. call[c] \in 0..MaxCalls /\ wants[c] \in BOOLEAN  BY DEF TypeOK
  <1>3. call[c] \in 1..MaxCalls  BY <1>1, <1>2, BoundsAssumption
  <1> QED  BY <1>2, <1>3 DEF Request, Msgs

-----------------------------------------------------------------------------
(* The invariant is inductive.                                              *)

\* It holds initially.
LEMMA InvInit == Init => Inv
  <1> SUFFICES ASSUME Init PROVE Inv
    OBVIOUS
  <1> USE DEF Init
  <1>1. TypeOK
    <2>1. Idle \in States  BY DEF States
    <2>2. 0 \in 0..MaxCalls /\ 0 \in 0..MaxUrcs /\ 0 <= RxCapacity
      BY BoundsAssumption
    <2>3. << >> \in Seq(Posted) /\ << >> \in Seq({"RxReady", "ShutDown"})
          /\ Len(<< >>) = 0
      OBVIOUS
    <2>4. pc \in [Clients -> Places] /\ ec \in [Clients -> {"NoError", "InternalError"}]
      BY DEF Places
    <2>5. call \in [Clients -> 0..MaxCalls] /\ sem \in [Clients -> 0..1]
      BY <2>2
    <2>6. wants \in [Clients -> BOOLEAN] /\ failed \in [Clients -> BOOLEAN]
      BY Zenon
    <2>7. /\ respOf \in [Clients -> Msgs \cup {NoMsg}]
          /\ frcOf \in [Clients -> Msgs \cup {NoMsg}]
      OBVIOUS
    <2> QED  BY <2>1, <2>2, <2>3, <2>4, <2>5, <2>6, <2>7 DEF TypeOK
  <1>2. MutexInv
    BY ThreadsAssumption DEF MutexInv, ClientSection, LoopSection
  <1>3. ClientInv /\ LoopInv
    BY DEF ClientInv, LoopInv, Gating
  <1>4. FrameInv /\ NoOrphan
    BY DEF FrameInv, NoOrphan, Served, Receiving, Idle
  <1>5. NoLostWakeup /\ GateHolds
    BY DEF NoLostWakeup, GateHolds
  <1> QED  BY <1>1, <1>2, <1>3, <1>4, <1>5 DEF Inv

\* A caller enters sendCommand outside any critical section.
LEMMA CallKeepsInv ==
    ASSUME Inv, NEW c \in Clients, Call(c)
    PROVE  Inv'
  <1>1. TypeOK /\ MutexInv /\ ClientInv /\ LoopInv /\ FrameInv /\ NoOrphan
        /\ NoLostWakeup /\ GateHolds
    BY DEF Inv
  <1>2. TypeOK'
    <2>1. call' \in [Clients -> 0..MaxCalls]
      BY <1>1, BoundsAssumption DEF Call, TypeOK
    <2>2. wants' \in [Clients -> BOOLEAN]
      BY <1>1, OptionsAssumption DEF Call, TypeOK
    <2> QED
      BY <1>1, <2>1, <2>2 DEF Call, fsmVars, loopVars, lineVars, TypeOK, Places
  <1>3. MutexInv'
    BY <1>1, ThreadsAssumption DEF Call, fsmVars, loopVars, lineVars,
       MutexInv, ClientSection, LoopSection, TypeOK
  <1>4. ClientInv'
    BY <1>1 DEF Call, fsmVars, loopVars, lineVars, ClientInv, Gating,
       MutexInv, ClientSection, LoopSection, TypeOK, IsIdle, Request
  <1>5. LoopInv'
    BY <1>1, ThreadsAssumption DEF Call, fsmVars, loopVars, lineVars,
       LoopInv, MutexInv, ClientSection, LoopSection, TypeOK, Receiving,
       Served
  <1>6. FrameInv'
    BY <1>1, ThreadsAssumption DEF Call, fsmVars, loopVars, lineVars,
       FrameInv, LoopInv, MutexInv, ClientSection, LoopSection, TypeOK,
       Receiving, Served, Request
  <1>7. NoOrphan'
    BY <1>1, ThreadsAssumption DEF Call, fsmVars, loopVars, lineVars,
       NoOrphan, MutexInv, ClientSection, LoopSection, TypeOK, Served,
       Request
  <1>8. NoLostWakeup' /\ GateHolds'
    BY <1>1 DEF Call, fsmVars, loopVars, lineVars, NoLostWakeup,
       GateHolds, IsIdle, TypeOK
  <1> QED  BY <1>2, <1>3, <1>4, <1>5, <1>6, <1>7, <1>8 DEF Inv

\* A spurious wake-up leads back to the gate only.
LEMMA SpuriousWakeKeepsInv ==
    ASSUME Inv, NEW c \in Clients, SpuriousWake(c)
    PROVE  Inv'
  <1>1. TypeOK /\ MutexInv /\ ClientInv /\ LoopInv /\ FrameInv /\ NoOrphan
        /\ NoLostWakeup /\ GateHolds
    BY DEF Inv
  <1>2. TypeOK'
    BY <1>1, BoundsAssumption DEF SpuriousWake, fsmVars, loopVars,
       answerVars, lineVars, TypeOK, Places
  <1>3. MutexInv'
    BY <1>1, ThreadsAssumption DEF SpuriousWake, fsmVars, loopVars,
       answerVars, lineVars, MutexInv, ClientSection, LoopSection,
       TypeOK
  <1>4. ClientInv'
    BY <1>1 DEF SpuriousWake, fsmVars, loopVars, answerVars, lineVars,
       ClientInv, Gating, MutexInv, ClientSection, LoopSection, TypeOK,
       IsIdle, Request
  <1>5. LoopInv'
    BY <1>1, ThreadsAssumption DEF SpuriousWake, fsmVars, loopVars,
       answerVars, lineVars, LoopInv, MutexInv, ClientSection,
       LoopSection, TypeOK, Receiving, Served
  <1>6. FrameInv'
    BY <1>1, ThreadsAssumption DEF SpuriousWake, fsmVars, loopVars,
       answerVars, lineVars, FrameInv, LoopInv, MutexInv, ClientSection,
       LoopSection, TypeOK, Receiving, Served, Request
  <1>7. NoOrphan'
    BY <1>1, ThreadsAssumption DEF SpuriousWake, fsmVars, loopVars,
       answerVars, lineVars, NoOrphan, MutexInv, ClientSection,
       LoopSection, TypeOK, Served, Request
  <1>8. NoLostWakeup' /\ GateHolds'
    BY <1>1 DEF SpuriousWake, fsmVars, loopVars, answerVars, lineVars,
       NoLostWakeup, GateHolds, IsIdle, TypeOK
  <1> QED  BY <1>2, <1>3, <1>4, <1>5, <1>6, <1>7, <1>8 DEF Inv

\* A free mutex means nobody is in a critical section.
LEMMA LockKeepsInv ==
    ASSUME Inv, NEW c \in Clients, Lock(c)
    PROVE  Inv'
  <1>1. TypeOK /\ MutexInv /\ ClientInv /\ LoopInv /\ FrameInv /\ NoOrphan
        /\ NoLostWakeup /\ GateHolds
    BY DEF Inv
  <1>2. TypeOK'
    BY <1>1, BoundsAssumption DEF Lock, AfterWait, loopVars, answerVars,
       lineVars, TypeOK, Places
  <1>3. MutexInv'
    BY <1>1, ThreadsAssumption DEF Lock, AfterWait, loopVars,
       answerVars, lineVars, MutexInv, ClientSection, LoopSection,
       TypeOK
  <1>4. ClientInv'
    BY <1>1 DEF Lock, AfterWait, loopVars, answerVars, lineVars,
       ClientInv, Gating, MutexInv, ClientSection, LoopSection, TypeOK,
       IsIdle, Request
  <1>5. LoopInv'
    BY <1>1, ThreadsAssumption DEF Lock, AfterWait, loopVars,
       answerVars, lineVars, LoopInv, MutexInv, ClientSection,
       LoopSection, TypeOK, Receiving, Served
  <1>6. FrameInv'
    BY <1>1, ThreadsAssumption DEF Lock, AfterWait, loopVars,
       answerVars, lineVars, FrameInv, LoopInv, MutexInv, ClientSection,
       LoopSection, TypeOK, Receiving, Served, Request
  <1>7. NoOrphan'
    BY <1>1, ThreadsAssumption DEF Lock, AfterWait, loopVars,
       answerVars, lineVars, NoOrphan, MutexInv, ClientSection,
       LoopSection, TypeOK, Served, Request
  <1>8. NoLostWakeup' /\ GateHolds'
    BY <1>1 DEF Lock, AfterWait, loopVars, answerVars, lineVars,
       NoLostWakeup, GateHolds, IsIdle, TypeOK
  <1> QED  BY <1>2, <1>3, <1>4, <1>5, <1>6, <1>7, <1>8 DEF Inv

\* A caller goes to sleep only when the machine is busy.
LEMMA GateWaitKeepsInv ==
    ASSUME Inv, NEW c \in Clients, GateWait(c)
    PROVE  Inv'
  <1>1. TypeOK /\ MutexInv /\ ClientInv /\ LoopInv /\ FrameInv /\ NoOrphan
        /\ NoLostWakeup /\ GateHolds
    BY DEF Inv
  <1>2. TypeOK'
    BY <1>1, BoundsAssumption DEF GateWait, loopVars, answerVars,
       lineVars, TypeOK, Places
  <1>3. MutexInv'
    BY <1>1, ThreadsAssumption DEF GateWait, loopVars, answerVars,
       lineVars, MutexInv, ClientSection, LoopSection, TypeOK
  <1>4. ClientInv'
    BY <1>1 DEF GateWait, loopVars, answerVars, lineVars, ClientInv,
       Gating, MutexInv, ClientSection, LoopSection, TypeOK, IsIdle,
       Request
  <1>5. LoopInv'
    BY <1>1, ThreadsAssumption DEF GateWait, loopVars, answerVars,
       lineVars, LoopInv, MutexInv, ClientSection, LoopSection, TypeOK,
       Receiving, Served
  <1>6. FrameInv'
    BY <1>1, ThreadsAssumption DEF GateWait, loopVars, answerVars,
       lineVars, FrameInv, LoopInv, MutexInv, ClientSection,
       LoopSection, TypeOK, Receiving, Served, Request
  <1>7. NoOrphan'
    BY <1>1, ThreadsAssumption DEF GateWait, loopVars, answerVars,
       lineVars, NoOrphan, MutexInv, ClientSection, LoopSection, TypeOK,
       Served, Request
  <1>8. NoLostWakeup' /\ GateHolds'
    BY <1>1 DEF GateWait, loopVars, answerVars, lineVars, NoLostWakeup,
       GateHolds, IsIdle, TypeOK
  <1> QED  BY <1>2, <1>3, <1>4, <1>5, <1>6, <1>7, <1>8 DEF Inv

\* Past the gate the machine is idle and its holder keeps it so.
LEMMA GatePassKeepsInv ==
    ASSUME Inv, NEW c \in Clients, GatePass(c)
    PROVE  Inv'
  <1>1. TypeOK /\ MutexInv /\ ClientInv /\ LoopInv /\ FrameInv /\ NoOrphan
        /\ NoLostWakeup /\ GateHolds
    BY DEF Inv
  <1>2. TypeOK'
    BY <1>1, BoundsAssumption DEF GatePass, fsmVars, loopVars,
       answerVars, lineVars, TypeOK, Places
  <1>3. MutexInv'
    BY <1>1, ThreadsAssumption DEF GatePass, fsmVars, loopVars,
       answerVars, lineVars, MutexInv, ClientSection, LoopSection,
       TypeOK
  <1>4. ClientInv'
    BY <1>1 DEF GatePass, fsmVars, loopVars, answerVars, lineVars,
       ClientInv, Gating, MutexInv, ClientSection, LoopSection, TypeOK,
       IsIdle, Request
  <1>5. LoopInv'
    BY <1>1, ThreadsAssumption DEF GatePass, fsmVars, loopVars,
       answerVars, lineVars, LoopInv, MutexInv, ClientSection,
       LoopSection, TypeOK, Receiving, Served
  <1>6. FrameInv'
    BY <1>1, ThreadsAssumption DEF GatePass, fsmVars, loopVars,
       answerVars, lineVars, FrameInv, LoopInv, MutexInv, ClientSection,
       LoopSection, TypeOK, Receiving, Served, Request
  <1>7. NoOrphan'
    BY <1>1, ThreadsAssumption DEF GatePass, fsmVars, loopVars,
       answerVars, lineVars, NoOrphan, MutexInv, ClientSection,
       LoopSection, TypeOK, Served, Request
  <1>8. NoLostWakeup' /\ GateHolds'
    BY <1>1 DEF GatePass, fsmVars, loopVars, answerVars, lineVars,
       NoLostWakeup, GateHolds, IsIdle, TypeOK
  <1> QED  BY <1>2, <1>3, <1>4, <1>5, <1>6, <1>7, <1>8 DEF Inv

\* The request sent is the request the next state will hold.
LEMMA ProcessKeepsInv ==
    ASSUME Inv, NEW c \in Clients, Process(c)
    PROVE  Inv'
  <1>1. TypeOK /\ MutexInv /\ ClientInv /\ LoopInv /\ FrameInv /\ NoOrphan
        /\ NoLostWakeup /\ GateHolds
    BY DEF Inv
  <1>2. TypeOK'
    <2>1. Request(c) \in Msgs
      BY <1>1, RequestTyped DEF Process
    <2>2. PICK sent \in SendOutcomes, reply \in Replies :
            /\ next' = IF IsIdle THEN StartState(Request(c), sent) ELSE next
            /\ failed' = [failed EXCEPT ![c] = IsIdle /\ CanSend /\ ~sent]
            /\ outbox' = IF IsIdle /\ CanSend /\ sent
                         THEN outbox \o Answer(Request(c), reply) ELSE outbox
      BY DEF Process
    <2>3. next' \in States
      BY <1>1, <2>1, <2>2 DEF TypeOK, StartState, CanSend, States
    <2>4. outbox' \in Seq(Posted)
      <3>1. outbox \o Answer(Request(c), reply) \in Seq(Posted)
        BY <1>1, <2>1, PostedRecords, ConcatProperties DEF TypeOK
      <3> QED  BY <1>1, <2>2, <3>1 DEF TypeOK
    <2>5. failed' \in [Clients -> BOOLEAN]
      BY <1>1, <2>2 DEF TypeOK
    <2>6. ec' \in [Clients -> {"NoError", "InternalError"}]
      BY <1>1 DEF Process, TypeOK
    <2> QED
      BY <1>1, <2>3, <2>4, <2>5, <2>6 DEF Process, loopVars, answerVars, TypeOK, Places
  <1>3. MutexInv'
    BY <1>1, ThreadsAssumption DEF Process, StartState, CanSend,
       SendOutcomes, loopVars, answerVars, MutexInv, ClientSection,
       LoopSection, TypeOK
  <1>4. ClientInv'
    BY <1>1, ZenonT(40) DEF Process, StartState, CanSend, SendOutcomes, loopVars,
       answerVars, ClientInv, Gating, MutexInv, ClientSection,
       LoopSection, TypeOK, IsIdle, Request
  <1>5. LoopInv'
    BY <1>1, ThreadsAssumption DEF Process, StartState, CanSend,
       SendOutcomes, loopVars, answerVars, LoopInv, MutexInv,
       ClientSection, LoopSection, TypeOK, Receiving, Served
  <1>6. FrameInv'
    BY <1>1, ThreadsAssumption DEF Process, StartState, CanSend,
       SendOutcomes, loopVars, answerVars, FrameInv, LoopInv, MutexInv,
       ClientSection, LoopSection, TypeOK, Receiving, Served, Request
  <1>7. NoOrphan'
    BY <1>1, ThreadsAssumption DEF Process, StartState, CanSend,
       SendOutcomes, loopVars, answerVars, NoOrphan, MutexInv,
       ClientSection, LoopSection, TypeOK, Served, Request
  <1>8. NoLostWakeup' /\ GateHolds'
    <2>1. IsIdle
      BY <1>1 DEF Process, ClientInv
    <2> QED
      BY <1>1, <2>1 DEF Process, NoLostWakeup, GateHolds, IsIdle, TypeOK
  <1> QED  BY <1>2, <1>3, <1>4, <1>5, <1>6, <1>7, <1>8 DEF Inv

\* From now on the machine waits for this caller.
LEMMA StoreKeepsInv ==
    ASSUME Inv, NEW c \in Clients, Store(c)
    PROVE  Inv'
  <1>1. TypeOK /\ MutexInv /\ ClientInv /\ LoopInv /\ FrameInv /\ NoOrphan
        /\ NoLostWakeup /\ GateHolds
    BY DEF Inv
  <1>2. TypeOK'
    <2>1. Idle \in States  BY DEF States
    <2> QED
      BY <1>1, <2>1 DEF Store, loopVars, answerVars, lineVars, TypeOK, Places
  <1>3. MutexInv'
    BY <1>1, ThreadsAssumption DEF Store, loopVars, answerVars,
       lineVars, MutexInv, ClientSection, LoopSection, TypeOK
  <1>4. ClientInv'
    BY <1>1 DEF Store, loopVars, answerVars, lineVars, ClientInv,
       Gating, MutexInv, ClientSection, LoopSection, TypeOK, IsIdle,
       Request
  <1>5. LoopInv'
    BY <1>1, ThreadsAssumption DEF Store, loopVars, answerVars,
       lineVars, LoopInv, MutexInv, ClientSection, LoopSection, TypeOK,
       Receiving, Served
  <1>6. FrameInv'
    <2>1. next = IF failed[c] THEN Idle ELSE WaitForResponse(Request(c))
      BY <1>1 DEF Store, ClientInv
    <2>2. ec[c] = "NoError" /\ sem[c] = 0
      <3>1. pc[c] = "store" /\ sem[c] \in 0..1 /\ (sem[c] > 0 => pc[c] = "acquire")
        BY <1>1 DEF Store, ClientInv, TypeOK
      <3> QED  BY <1>1, <3>1 DEF GateHolds
    <2>3. lpc # "store" /\ lpc' = lpc
      BY <1>1, ThreadsAssumption DEF Store, loopVars, MutexInv, ClientSection, LoopSection
    <2>4. CASE failed[c]
      BY <2>1, <2>4 DEF Store, FrameInv, Receiving, Idle
    <2>5. CASE ~failed[c]
      <3>1. state' = WaitForResponse(Request(c))  BY <2>1, <2>5 DEF Store
      <3>2. state'.msg = Request(c)  BY <3>1 DEF WaitForResponse
      <3>3. Request(c)' = Request(c)  BY DEF Store, Request
      <3>4. Request(c).client = c  BY DEF Request
      <3>5. Served(c)'
        BY <1>1, <2>2, <2>5 DEF Store, Served, TypeOK
      <3> QED  BY <3>2, <3>3, <3>4, <3>5 DEF FrameInv
    <2> QED  BY <2>4, <2>5
  <1>7. NoOrphan'
    <2>1. /\ IsIdle
          /\ next = IF failed[c] THEN Idle ELSE WaitForResponse(Request(c))
      BY <1>1 DEF Store, ClientInv
    <2>2. \A d \in Clients : ~Served(d)
      BY <1>1, <2>1 DEF NoOrphan, IsIdle, WaitForResponse
    <2>3. ASSUME NEW d \in Clients, Served(d)'
          PROVE  d = c /\ ~failed[c]
      BY <1>1, <2>2, <2>3 DEF Store, Served, TypeOK
    <2>4. Request(c)' = Request(c)  BY DEF Store, Request
    <2> QED
      BY <2>1, <2>3, <2>4 DEF Store, NoOrphan
  <1>8. NoLostWakeup' /\ GateHolds'
    <2>1. IsIdle
      BY <1>1 DEF Store, ClientInv
    <2> QED
      BY <1>1, <2>1 DEF Store, NoLostWakeup, GateHolds, TypeOK
  <1> QED  BY <1>2, <1>3, <1>4, <1>5, <1>6, <1>7, <1>8 DEF Inv

\* A caller gives the mutex up with its request stored.
LEMMA UnlockKeepsInv ==
    ASSUME Inv, NEW c \in Clients, Unlock(c)
    PROVE  Inv'
  <1>1. TypeOK /\ MutexInv /\ ClientInv /\ LoopInv /\ FrameInv /\ NoOrphan
        /\ NoLostWakeup /\ GateHolds
    BY DEF Inv
  <1>2. TypeOK'
    BY <1>1, BoundsAssumption DEF Unlock, loopVars, answerVars,
       lineVars, TypeOK, Places
  <1>3. MutexInv'
    BY <1>1, ThreadsAssumption DEF Unlock, loopVars, answerVars,
       lineVars, MutexInv, ClientSection, LoopSection, TypeOK
  <1>4. ClientInv'
    BY <1>1 DEF Unlock, loopVars, answerVars, lineVars, ClientInv,
       Gating, MutexInv, ClientSection, LoopSection, TypeOK, IsIdle,
       Request
  <1>5. LoopInv'
    BY <1>1, ThreadsAssumption DEF Unlock, loopVars, answerVars,
       lineVars, LoopInv, MutexInv, ClientSection, LoopSection, TypeOK,
       Receiving, Served
  <1>6. FrameInv'
    BY <1>1, ThreadsAssumption DEF Unlock, loopVars, answerVars,
       lineVars, FrameInv, LoopInv, MutexInv, ClientSection,
       LoopSection, TypeOK, Receiving, Served, Request
  <1>7. NoOrphan'
    BY <1>1, ThreadsAssumption DEF Unlock, loopVars, answerVars,
       lineVars, NoOrphan, MutexInv, ClientSection, LoopSection, TypeOK,
       Served, Request
  <1>8. NoLostWakeup' /\ GateHolds'
    BY <1>1 DEF Unlock, loopVars, answerVars, lineVars, NoLostWakeup,
       GateHolds, IsIdle, TypeOK
  <1> QED  BY <1>2, <1>3, <1>4, <1>5, <1>6, <1>7, <1>8 DEF Inv

\* A call returns only after its semaphore was released.
LEMMA AcquireKeepsInv ==
    ASSUME Inv, NEW c \in Clients, Acquire(c)
    PROVE  Inv'
  <1>1. TypeOK /\ MutexInv /\ ClientInv /\ LoopInv /\ FrameInv /\ NoOrphan
        /\ NoLostWakeup /\ GateHolds
    BY DEF Inv
  <1>2. TypeOK'
    BY <1>1, BoundsAssumption DEF Acquire, fsmVars, loopVars,
       answerVars, lineVars, TypeOK, Places
  <1>3. MutexInv'
    BY <1>1, ThreadsAssumption DEF Acquire, fsmVars, loopVars,
       answerVars, lineVars, MutexInv, ClientSection, LoopSection,
       TypeOK
  <1>4. ClientInv'
    <2>1. ASSUME NEW d \in Clients
          PROVE  /\ pc'[d] # "out" => call'[d] > 0
                 /\ sem'[d] > 0 => pc'[d] = "acquire" /\ ~failed'[d]
      <3>1. /\ pc[d] # "out" => call[d] > 0
            /\ sem[d] > 0 => pc[d] = "acquire" /\ ~failed[d]
            /\ sem[c] \in 0..1
        BY <1>1 DEF ClientInv, TypeOK
      <3>2. CASE d = c
        BY <1>1, <3>1, <3>2 DEF Acquire, TypeOK
      <3>3. CASE d # c
        BY <1>1, <3>1, <3>3 DEF Acquire, TypeOK
      <3> QED  BY <3>2, <3>3
    <2>2. ASSUME NEW d \in Clients, pc'[d] \in Gating \cup {"store"}
          PROVE  pc[d] = pc'[d]
      BY <1>1, <2>2 DEF Acquire, TypeOK, Gating
    <2> QED
      BY <1>1, <2>1, <2>2 DEF Acquire, ClientInv, Gating, fsmVars, IsIdle, Request
  <1>5. LoopInv'
    BY <1>1, ThreadsAssumption DEF Acquire, fsmVars, loopVars,
       answerVars, lineVars, LoopInv, MutexInv, ClientSection,
       LoopSection, TypeOK, Receiving, Served
  <1>6. FrameInv'
    BY <1>1, ThreadsAssumption DEF Acquire, fsmVars, loopVars,
       answerVars, lineVars, FrameInv, LoopInv, MutexInv, ClientSection,
       LoopSection, TypeOK, Receiving, Served, Request
  <1>7. NoOrphan'
    BY <1>1, ThreadsAssumption DEF Acquire, fsmVars, loopVars,
       answerVars, lineVars, NoOrphan, MutexInv, ClientSection,
       LoopSection, TypeOK, Served, Request
  <1>8. NoLostWakeup' /\ GateHolds'
    BY <1>1 DEF Acquire, fsmVars, loopVars, answerVars, lineVars,
       NoLostWakeup, GateHolds, IsIdle, TypeOK
  <1> QED  BY <1>2, <1>3, <1>4, <1>5, <1>6, <1>7, <1>8 DEF Inv

\* Taking an event touches nothing the clients see.
LEMMA LoopGetKeepsInv ==
    ASSUME Inv, LoopGet
    PROVE  Inv'
  <1>1. TypeOK /\ MutexInv /\ ClientInv /\ LoopInv /\ FrameInv /\ NoOrphan
        /\ NoLostWakeup /\ GateHolds
    BY DEF Inv
  <1>2. TypeOK'
    BY <1>1, BoundsAssumption DEF LoopGet, fsmVars, clientVars,
       answerVars, lineVars, TypeOK, Places
  <1>3. MutexInv'
    BY <1>1, ThreadsAssumption DEF LoopGet, fsmVars, clientVars,
       answerVars, lineVars, MutexInv, ClientSection, LoopSection,
       TypeOK
  <1>4. ClientInv'
    BY <1>1 DEF LoopGet, fsmVars, clientVars, answerVars, lineVars,
       ClientInv, Gating, MutexInv, ClientSection, LoopSection, TypeOK,
       IsIdle, Request
  <1>5. LoopInv'
    BY <1>1, ThreadsAssumption DEF LoopGet, fsmVars, clientVars,
       answerVars, lineVars, LoopInv, MutexInv, ClientSection,
       LoopSection, TypeOK, Receiving, Served
  <1>6. FrameInv'
    BY <1>1, ThreadsAssumption DEF LoopGet, fsmVars, clientVars,
       answerVars, lineVars, FrameInv, LoopInv, MutexInv, ClientSection,
       LoopSection, TypeOK, Receiving, Served, Request
  <1>7. NoOrphan'
    BY <1>1, ThreadsAssumption DEF LoopGet, fsmVars, clientVars,
       answerVars, lineVars, NoOrphan, MutexInv, ClientSection,
       LoopSection, TypeOK, Served, Request
  <1>8. NoLostWakeup' /\ GateHolds'
    BY <1>1 DEF LoopGet, fsmVars, clientVars, answerVars, lineVars,
       NoLostWakeup, GateHolds, IsIdle, TypeOK
  <1> QED  BY <1>2, <1>3, <1>4, <1>5, <1>6, <1>7, <1>8 DEF Inv

\* The loop enters its critical section when nobody is in one.
LEMMA LoopLockKeepsInv ==
    ASSUME Inv, LoopLock
    PROVE  Inv'
  <1>1. TypeOK /\ MutexInv /\ ClientInv /\ LoopInv /\ FrameInv /\ NoOrphan
        /\ NoLostWakeup /\ GateHolds
    BY DEF Inv
  <1>2. TypeOK'
    BY <1>1, BoundsAssumption DEF LoopLock, clientVars, answerVars,
       lineVars, TypeOK, Places
  <1>3. MutexInv'
    BY <1>1, ThreadsAssumption DEF LoopLock, clientVars, answerVars,
       lineVars, MutexInv, ClientSection, LoopSection, TypeOK
  <1>4. ClientInv'
    BY <1>1 DEF LoopLock, clientVars, answerVars, lineVars, ClientInv,
       Gating, MutexInv, ClientSection, LoopSection, TypeOK, IsIdle,
       Request
  <1>5. LoopInv'
    BY <1>1, ThreadsAssumption DEF LoopLock, clientVars, answerVars,
       lineVars, LoopInv, MutexInv, ClientSection, LoopSection, TypeOK,
       Receiving, Served
  <1>6. FrameInv'
    BY <1>1, ThreadsAssumption DEF LoopLock, clientVars, answerVars,
       lineVars, FrameInv, LoopInv, MutexInv, ClientSection,
       LoopSection, TypeOK, Receiving, Served, Request
  <1>7. NoOrphan'
    BY <1>1, ThreadsAssumption DEF LoopLock, clientVars, answerVars,
       lineVars, NoOrphan, MutexInv, ClientSection, LoopSection, TypeOK,
       Served, Request
  <1>8. NoLostWakeup' /\ GateHolds'
    BY <1>1 DEF LoopLock, clientVars, answerVars, lineVars,
       NoLostWakeup, GateHolds, IsIdle, TypeOK
  <1> QED  BY <1>2, <1>3, <1>4, <1>5, <1>6, <1>7, <1>8 DEF Inv

\* One read never overruns rxstorage.
LEMMA LoopReadKeepsInv ==
    ASSUME Inv, LoopRead
    PROVE  Inv'
  <1>1. TypeOK /\ MutexInv /\ ClientInv /\ LoopInv /\ FrameInv /\ NoOrphan
        /\ NoLostWakeup /\ GateHolds
    BY DEF Inv
  <1>2. TypeOK'
    <2> DEFINE n == IF Len(tty) <= Room(rxbuf) THEN Len(tty) ELSE Room(rxbuf)
    <2>1. n \in 0..Len(tty) /\ Len(rxbuf) + n <= RxCapacity
      BY <1>1, BoundsAssumption DEF TypeOK, Room
    <2>2. /\ SubSeq(tty, 1, n) \in Seq(Posted) /\ Len(SubSeq(tty, 1, n)) = n
          /\ Drop(tty, n) \in Seq(Posted)
      BY <1>1, <2>1, CutProperties DEF TypeOK
    <2>3. rxbuf' = rxbuf \o SubSeq(tty, 1, n) /\ tty' = Drop(tty, n)
      BY DEF LoopRead
    <2>4. tty' \in Seq(Posted)  BY <2>2, <2>3
    <2>5. rxbuf' \in Seq(Posted) /\ Len(rxbuf') <= RxCapacity
      <3> HIDE DEF n
      <3>1. rxbuf \in Seq(Posted)  BY <1>1 DEF TypeOK
      <3> QED  BY <2>1, <2>2, <2>3, <3>1, ConcatProperties
    <2>6. haveResponse' \in BOOLEAN /\ haveResult' \in BOOLEAN
      BY DEF LoopRead
    <2> QED
      BY <1>1, <2>4, <2>5, <2>6 DEF LoopRead, fsmVars, clientVars, answerVars, TypeOK, Places
  <1>3. MutexInv'
    BY <1>1, ThreadsAssumption DEF LoopRead, Room, fsmVars, clientVars,
       answerVars, MutexInv, ClientSection, LoopSection, TypeOK
  <1>4. ClientInv'
    BY <1>1 DEF LoopRead, Room, fsmVars, clientVars, answerVars,
       ClientInv, Gating, MutexInv, ClientSection, LoopSection, TypeOK,
       IsIdle, Request
  <1>5. LoopInv'
    BY <1>1, ThreadsAssumption DEF LoopRead, Room, fsmVars, clientVars,
       answerVars, LoopInv, MutexInv, ClientSection, LoopSection,
       TypeOK, Receiving, Served
  <1>6. FrameInv'
    BY <1>1, ThreadsAssumption DEF LoopRead, Room, fsmVars, clientVars,
       answerVars, FrameInv, LoopInv, MutexInv, ClientSection,
       LoopSection, TypeOK, Receiving, Served, Request
  <1>7. NoOrphan'
    BY <1>1, ThreadsAssumption DEF LoopRead, Room, fsmVars, clientVars,
       answerVars, NoOrphan, MutexInv, ClientSection, LoopSection,
       TypeOK, Served, Request
  <1>8. NoLostWakeup' /\ GateHolds'
    BY <1>1 DEF LoopRead, Room, fsmVars, clientVars, answerVars,
       NoLostWakeup, GateHolds, IsIdle, TypeOK
  <1> QED  BY <1>2, <1>3, <1>4, <1>5, <1>6, <1>7, <1>8 DEF Inv

\* Parsing a response consumes two parts and keeps the frame.
LEMMA TakeResponseKeepsInv ==
    ASSUME Inv, TakeResponse
    PROVE  Inv'
  <1>1. TypeOK /\ MutexInv /\ ClientInv /\ LoopInv /\ FrameInv /\ NoOrphan
        /\ NoLostWakeup /\ GateHolds
    BY DEF Inv
  <1>2. TypeOK'
    <2>1. 2 \in 0..Len(rxbuf) /\ rxbuf[1] \in Posted
      BY <1>1 DEF TakeResponse, ResponseNext, ResponseAt, StartsWith, TypeOK
    <2>2. rxbuf' \in Seq(Posted) /\ Len(rxbuf') <= RxCapacity
      BY <1>1, <2>1, CutProperties, BoundsAssumption DEF TakeResponse, TypeOK
    <2>3. respOf' \in [Clients -> Msgs \cup {NoMsg}]
      BY <1>1, <2>1 DEF TakeResponse, TypeOK, Posted
    <2> QED
      BY <1>1, <2>2, <2>3 DEF TakeResponse, fsmVars, clientVars, lineVars, TypeOK, Places
  <1>3. MutexInv'
    BY <1>1, ThreadsAssumption DEF TakeResponse, ResponseNext,
       ResponseAt, StartsWith, fsmVars, clientVars, lineVars, MutexInv,
       ClientSection, LoopSection, TypeOK
  <1>4. ClientInv'
    BY <1>1 DEF TakeResponse, ResponseNext, ResponseAt, StartsWith,
       fsmVars, clientVars, lineVars, ClientInv, Gating, MutexInv,
       ClientSection, LoopSection, TypeOK, IsIdle, Request
  <1>5. LoopInv'
    BY <1>1, ThreadsAssumption DEF TakeResponse, ResponseNext,
       ResponseAt, StartsWith, fsmVars, clientVars, lineVars, LoopInv,
       MutexInv, ClientSection, LoopSection, TypeOK, Receiving, Served
  <1>6. FrameInv'
    BY <1>1, ThreadsAssumption DEF TakeResponse, ResponseNext,
       ResponseAt, StartsWith, fsmVars, clientVars, lineVars, FrameInv,
       LoopInv, MutexInv, ClientSection, LoopSection, TypeOK, Receiving,
       Served, Request
  <1>7. NoOrphan'
    BY <1>1, ThreadsAssumption DEF TakeResponse, ResponseNext,
       ResponseAt, StartsWith, fsmVars, clientVars, lineVars, NoOrphan,
       MutexInv, ClientSection, LoopSection, TypeOK, Served, Request
  <1>8. NoLostWakeup' /\ GateHolds'
    BY <1>1 DEF TakeResponse, ResponseNext, ResponseAt, StartsWith,
       fsmVars, clientVars, lineVars, NoLostWakeup, GateHolds, IsIdle,
       TypeOK
  <1> QED  BY <1>2, <1>3, <1>4, <1>5, <1>6, <1>7, <1>8 DEF Inv

\* Parsing a result consumes two parts and keeps the frame.
LEMMA TakeResultKeepsInv ==
    ASSUME Inv, TakeResult
    PROVE  Inv'
  <1>1. TypeOK /\ MutexInv /\ ClientInv /\ LoopInv /\ FrameInv /\ NoOrphan
        /\ NoLostWakeup /\ GateHolds
    BY DEF Inv
  <1>2. TypeOK'
    <2>1. 2 \in 0..Len(rxbuf) /\ rxbuf[1] \in Posted
      BY <1>1 DEF TakeResult, ResultNext, ResultAt, StartsWith, TypeOK
    <2>2. rxbuf' \in Seq(Posted) /\ Len(rxbuf') <= RxCapacity
      BY <1>1, <2>1, CutProperties, BoundsAssumption DEF TakeResult, TypeOK
    <2>3. frcOf' \in [Clients -> Msgs \cup {NoMsg}]
      BY <1>1, <2>1 DEF TakeResult, TypeOK, Posted
    <2> QED
      BY <1>1, <2>2, <2>3 DEF TakeResult, fsmVars, clientVars, lineVars, TypeOK, Places
  <1>3. MutexInv'
    BY <1>1, ThreadsAssumption DEF TakeResult, ResultNext, ResultAt,
       StartsWith, fsmVars, clientVars, lineVars, MutexInv,
       ClientSection, LoopSection, TypeOK
  <1>4. ClientInv'
    BY <1>1 DEF TakeResult, ResultNext, ResultAt, StartsWith, fsmVars,
       clientVars, lineVars, ClientInv, Gating, MutexInv, ClientSection,
       LoopSection, TypeOK, IsIdle, Request
  <1>5. LoopInv'
    BY <1>1, ThreadsAssumption DEF TakeResult, ResultNext, ResultAt,
       StartsWith, fsmVars, clientVars, lineVars, LoopInv, MutexInv,
       ClientSection, LoopSection, TypeOK, Receiving, Served
  <1>6. FrameInv'
    BY <1>1, ThreadsAssumption DEF TakeResult, ResultNext, ResultAt,
       StartsWith, fsmVars, clientVars, lineVars, FrameInv, LoopInv,
       MutexInv, ClientSection, LoopSection, TypeOK, Receiving, Served,
       Request
  <1>7. NoOrphan'
    BY <1>1, ThreadsAssumption DEF TakeResult, ResultNext, ResultAt,
       StartsWith, fsmVars, clientVars, lineVars, NoOrphan, MutexInv,
       ClientSection, LoopSection, TypeOK, Served, Request
  <1>8. NoLostWakeup' /\ GateHolds'
    BY <1>1 DEF TakeResult, ResultNext, ResultAt, StartsWith, fsmVars,
       clientVars, lineVars, NoLostWakeup, GateHolds, IsIdle, TypeOK
  <1> QED  BY <1>2, <1>3, <1>4, <1>5, <1>6, <1>7, <1>8 DEF Inv

\* The dispatcher consumes no more than the buffer holds.
LEMMA TakeUrcKeepsInv ==
    ASSUME Inv, TakeUrc
    PROVE  Inv'
  <1>1. TypeOK /\ MutexInv /\ ClientInv /\ LoopInv /\ FrameInv /\ NoOrphan
        /\ NoLostWakeup /\ GateHolds
    BY DEF Inv
  <1>2. TypeOK'
    <2>1. rxbuf \in Seq(Posted) /\ UrcLen(rxbuf) \in 0..Len(rxbuf)
      BY <1>1, UrcLenBound DEF TypeOK
    <2>2. rxbuf' \in Seq(Posted) /\ Len(rxbuf') <= RxCapacity
      BY <1>1, <2>1, CutProperties, BoundsAssumption DEF TakeUrc, TypeOK
    <2> QED
      BY <1>1, <2>2 DEF TakeUrc, fsmVars, clientVars, answerVars, lineVars, TypeOK, Places
  <1>3. MutexInv'
    BY <1>1, ThreadsAssumption DEF TakeUrc, UrcNext, fsmVars,
       clientVars, answerVars, lineVars, MutexInv, ClientSection,
       LoopSection, TypeOK
  <1>4. ClientInv'
    BY <1>1 DEF TakeUrc, UrcNext, fsmVars, clientVars, answerVars,
       lineVars, ClientInv, Gating, MutexInv, ClientSection,
       LoopSection, TypeOK, IsIdle, Request
  <1>5. LoopInv'
    BY <1>1, ThreadsAssumption DEF TakeUrc, UrcNext, fsmVars,
       clientVars, answerVars, lineVars, LoopInv, MutexInv,
       ClientSection, LoopSection, TypeOK, Receiving, Served
  <1>6. FrameInv'
    BY <1>1, ThreadsAssumption DEF TakeUrc, UrcNext, fsmVars,
       clientVars, answerVars, lineVars, FrameInv, LoopInv, MutexInv,
       ClientSection, LoopSection, TypeOK, Receiving, Served, Request
  <1>7. NoOrphan'
    BY <1>1, ThreadsAssumption DEF TakeUrc, UrcNext, fsmVars,
       clientVars, answerVars, lineVars, NoOrphan, MutexInv,
       ClientSection, LoopSection, TypeOK, Served, Request
  <1>8. NoLostWakeup' /\ GateHolds'
    BY <1>1 DEF TakeUrc, UrcNext, fsmVars, clientVars, answerVars,
       lineVars, NoLostWakeup, GateHolds, IsIdle, TypeOK
  <1> QED  BY <1>2, <1>3, <1>4, <1>5, <1>6, <1>7, <1>8 DEF Inv

\* Releasing the semaphore ends the service of exactly one request.
LEMMA ParseDoneKeepsInv ==
    ASSUME Inv, ParseDone
    PROVE  Inv'
  <1>1. TypeOK /\ MutexInv /\ ClientInv /\ LoopInv /\ FrameInv /\ NoOrphan
        /\ NoLostWakeup /\ GateHolds
    BY DEF Inv
  <1>2. TypeOK'
    <2>1. sem' \in [Clients -> 0..1]
      <3>1. CASE Receiving
        <4>1. state.msg.client \in Clients /\ sem[state.msg.client] = 0
          BY <1>1, <3>1, StateShapes DEF ParseDone, FrameInv, Served, Msgs
        <4> QED  BY <1>1, <4>1 DEF ParseDone, TypeOK
      <3>2. CASE ~Receiving
        BY <1>1, <3>2 DEF ParseDone, TypeOK
      <3> QED  BY <3>1, <3>2
    <2>2. next' \in States
      BY <1>1 DEF ParseDone, AfterRxReady, TypeOK, States
    <2> QED
      BY <1>1, <2>1, <2>2 DEF ParseDone, answerVars, lineVars, TypeOK, Places
  <1>3. MutexInv'
    BY <1>1, ThreadsAssumption DEF ParseDone, AfterRxReady, Complete,
       answerVars, lineVars, MutexInv, ClientSection, LoopSection,
       TypeOK
  <1>4. ClientInv'
    <2>1. \A d \in Clients : pc[d] \notin ClientSection
      BY <1>1, ThreadsAssumption DEF ParseDone, MutexInv, LoopSection
    <2>2. ASSUME NEW d \in Clients, sem'[d] > 0
          PROVE  pc[d] = "acquire" /\ ~failed[d]
      <3>1. CASE Receiving /\ d = state.msg.client
        BY <1>1, <2>1, <3>1 DEF ParseDone, FrameInv, Served, ClientSection
      <3>2. CASE ~(Receiving /\ d = state.msg.client)
        BY <1>1, <2>2, <3>2 DEF ParseDone, ClientInv, TypeOK
      <3> QED  BY <3>1, <3>2
    <2> QED
      BY <1>1, <2>1, <2>2 DEF ParseDone, ClientInv, ClientSection
  <1>5. LoopInv'
    <2>1. CASE Receiving /\ Complete
      <3>1. /\ Served(state.msg.client) /\ Request(state.msg.client) = state.msg
            /\ state.msg.client \in Clients
        BY <1>1, <2>1, StateShapes DEF ParseDone, FrameInv, Msgs
      <3>2. sem'[state.msg.client] = 1
        BY <1>1, <2>1, <3>1 DEF ParseDone, Served, TypeOK
      <3>3. ASSUME NEW d \in Clients, Served(d)' PROVE FALSE
        <4>1. d # state.msg.client  BY <3>2, <3>3 DEF Served
        <4>2. Served(d)
          BY <1>1, <2>1, <3>3, <4>1 DEF ParseDone, Served, TypeOK
        <4>3. state.msg = Request(d)
          BY <1>1, <4>2 DEF NoOrphan, WaitForResponse
        <4> QED  BY <4>1, <4>3 DEF Request
      <3>4. Receiving' /\ next' = Idle
        BY <2>1 DEF ParseDone, Receiving, AfterRxReady
      <3> QED  BY <3>3, <3>4 DEF LoopInv
    <2>2. CASE ~(Receiving /\ Complete)
      BY <2>2 DEF ParseDone, LoopInv, AfterRxReady
    <2> QED  BY <2>1, <2>2
  <1>6. FrameInv'
    <2>1. CASE Receiving /\ Complete
      <3>1. Receiving' /\ lpc' = "store" /\ next' # state'
        BY <1>1, <2>1, StateShapes
           DEF ParseDone, AfterRxReady, Receiving, Idle
      <3> QED  BY <3>1 DEF FrameInv
    <2>2. CASE ~(Receiving /\ Complete)
      <3>1. sem' = sem  BY <2>2 DEF ParseDone
      <3> QED
        BY <1>1, <3>1 DEF ParseDone, FrameInv, Receiving, Served, Request
    <2> QED  BY <2>1, <2>2
  <1>7. NoOrphan'
    BY <1>1, ThreadsAssumption DEF ParseDone, AfterRxReady, Complete,
       answerVars, lineVars, NoOrphan, MutexInv, ClientSection,
       LoopSection, TypeOK, Served, Request
  <1>8. NoLostWakeup' /\ GateHolds'
    BY <1>1 DEF ParseDone, AfterRxReady, Complete, answerVars, lineVars,
       NoLostWakeup, GateHolds, IsIdle, TypeOK
  <1> QED  BY <1>2, <1>3, <1>4, <1>5, <1>6, <1>7, <1>8 DEF Inv

\* Becoming idle wakes every sleeper and forgets nobody.
LEMMA LoopStoreKeepsInv ==
    ASSUME Inv, LoopStore
    PROVE  Inv'
  <1>1. TypeOK /\ MutexInv /\ ClientInv /\ LoopInv /\ FrameInv /\ NoOrphan
        /\ NoLostWakeup /\ GateHolds
    BY DEF Inv
  <1>2. TypeOK'
    <2>1. pc' \in [Clients -> Places]
      BY <1>1 DEF LoopStore, Woken, TypeOK, Places
    <2>2. Idle \in States  BY DEF States
    <2> QED
      BY <1>1, <2>1, <2>2 DEF LoopStore, answerVars, lineVars, TypeOK
  <1>3. MutexInv'
    BY <1>1, ThreadsAssumption DEF LoopStore, Woken, answerVars,
       lineVars, MutexInv, ClientSection, LoopSection, TypeOK
  <1>4. ClientInv'
    <2>1. \A d \in Clients : pc[d] \notin ClientSection
      BY <1>1, ThreadsAssumption DEF LoopStore, MutexInv, LoopSection
    <2>2. ASSUME NEW d \in Clients
          PROVE  \/ pc'[d] = pc[d]
                 \/ pc[d] = "cond" /\ pc'[d] = "relock"
      BY <1>1 DEF LoopStore, Woken, TypeOK
    <2> QED
      BY <1>1, <2>1, <2>2 DEF LoopStore, ClientInv, ClientSection, Gating
  <1>5. LoopInv'
    BY <1>1, ThreadsAssumption DEF LoopStore, Woken, answerVars,
       lineVars, LoopInv, MutexInv, ClientSection, LoopSection, TypeOK,
       Receiving, Served
  <1>6. FrameInv'
    <2>1. ASSUME NEW d \in Clients, Served(d)
          PROVE  Served(d)' /\ Request(d)' = Request(d)
      BY <1>1, <2>1 DEF LoopStore, Woken, Served, Request, TypeOK
    <2>2. CASE next = state
      <3>1. state' = state /\ Receiving' = Receiving
        BY <2>2 DEF LoopStore, Receiving
      <3>2. CASE Receiving
        <4>1. /\ state.msg.client \in Clients
              /\ Served(state.msg.client) /\ Request(state.msg.client) = state.msg
          BY <1>1, <2>2, <3>2, StateShapes DEF FrameInv, Msgs
        <4> QED  BY <2>1, <3>1, <4>1 DEF FrameInv
      <3>3. CASE ~Receiving
        BY <3>1, <3>3 DEF FrameInv
      <3> QED  BY <3>2, <3>3
    <2>3. CASE next = Idle
      BY <2>3 DEF LoopStore, FrameInv, Receiving, Idle
    <2> QED  BY <1>1, <2>2, <2>3 DEF LoopStore, LoopInv
  <1>7. NoOrphan'
    <2>1. ASSUME NEW d \in Clients, Served(d)'
          PROVE  Served(d) /\ Request(d)' = Request(d)
      BY <1>1, <2>1 DEF LoopStore, Woken, Served, Request, TypeOK
    <2> QED
      BY <1>1, <2>1 DEF LoopStore, LoopInv, NoOrphan
  <1>8. NoLostWakeup' /\ GateHolds'
    BY <1>1 DEF LoopStore, Woken, answerVars, lineVars, NoLostWakeup,
       GateHolds, IsIdle, TypeOK
  <1> QED  BY <1>2, <1>3, <1>4, <1>5, <1>6, <1>7, <1>8 DEF Inv

\* The poller only posts.
LEMMA PollKeepsInv ==
    ASSUME Inv, Poll
    PROVE  Inv'
  <1>1. TypeOK /\ MutexInv /\ ClientInv /\ LoopInv /\ FrameInv /\ NoOrphan
        /\ NoLostWakeup /\ GateHolds
    BY DEF Inv
  <1>2. TypeOK'
    BY <1>1, BoundsAssumption DEF Poll, fsmVars, loopVars, clientVars,
       answerVars, lineVars, TypeOK, Places
  <1>3. MutexInv'
    BY <1>1, ThreadsAssumption DEF Poll, fsmVars, loopVars, clientVars,
       answerVars, lineVars, MutexInv, ClientSection, LoopSection,
       TypeOK
  <1>4. ClientInv'
    BY <1>1 DEF Poll, fsmVars, loopVars, clientVars, answerVars,
       lineVars, ClientInv, Gating, MutexInv, ClientSection,
       LoopSection, TypeOK, IsIdle, Request
  <1>5. LoopInv'
    BY <1>1, ThreadsAssumption DEF Poll, fsmVars, loopVars, clientVars,
       answerVars, lineVars, LoopInv, MutexInv, ClientSection,
       LoopSection, TypeOK, Receiving, Served
  <1>6. FrameInv'
    BY <1>1, ThreadsAssumption DEF Poll, fsmVars, loopVars, clientVars,
       answerVars, lineVars, FrameInv, LoopInv, MutexInv, ClientSection,
       LoopSection, TypeOK, Receiving, Served, Request
  <1>7. NoOrphan'
    BY <1>1, ThreadsAssumption DEF Poll, fsmVars, loopVars, clientVars,
       answerVars, lineVars, NoOrphan, MutexInv, ClientSection,
       LoopSection, TypeOK, Served, Request
  <1>8. NoLostWakeup' /\ GateHolds'
    BY <1>1 DEF Poll, fsmVars, loopVars, clientVars, answerVars,
       lineVars, NoLostWakeup, GateHolds, IsIdle, TypeOK
  <1> QED  BY <1>2, <1>3, <1>4, <1>5, <1>6, <1>7, <1>8 DEF Inv

\* shutDown only posts.
LEMMA ShutDownKeepsInv ==
    ASSUME Inv, ShutDown
    PROVE  Inv'
  <1>1. TypeOK /\ MutexInv /\ ClientInv /\ LoopInv /\ FrameInv /\ NoOrphan
        /\ NoLostWakeup /\ GateHolds
    BY DEF Inv
  <1>2. TypeOK'
    BY <1>1, BoundsAssumption DEF ShutDown, fsmVars, loopVars,
       clientVars, answerVars, lineVars, TypeOK, Places
  <1>3. MutexInv'
    BY <1>1, ThreadsAssumption DEF ShutDown, fsmVars, loopVars,
       clientVars, answerVars, lineVars, MutexInv, ClientSection,
       LoopSection, TypeOK
  <1>4. ClientInv'
    BY <1>1 DEF ShutDown, fsmVars, loopVars, clientVars, answerVars,
       lineVars, ClientInv, Gating, MutexInv, ClientSection,
       LoopSection, TypeOK, IsIdle, Request
  <1>5. LoopInv'
    BY <1>1, ThreadsAssumption DEF ShutDown, fsmVars, loopVars,
       clientVars, answerVars, lineVars, LoopInv, MutexInv,
       ClientSection, LoopSection, TypeOK, Receiving, Served
  <1>6. FrameInv'
    BY <1>1, ThreadsAssumption DEF ShutDown, fsmVars, loopVars,
       clientVars, answerVars, lineVars, FrameInv, LoopInv, MutexInv,
       ClientSection, LoopSection, TypeOK, Receiving, Served, Request
  <1>7. NoOrphan'
    BY <1>1, ThreadsAssumption DEF ShutDown, fsmVars, loopVars,
       clientVars, answerVars, lineVars, NoOrphan, MutexInv,
       ClientSection, LoopSection, TypeOK, Served, Request
  <1>8. NoLostWakeup' /\ GateHolds'
    BY <1>1 DEF ShutDown, fsmVars, loopVars, clientVars, answerVars,
       lineVars, NoLostWakeup, GateHolds, IsIdle, TypeOK
  <1> QED  BY <1>2, <1>3, <1>4, <1>5, <1>6, <1>7, <1>8 DEF Inv

\* Delivery moves a prefix of the outbox.
LEMMA ModemEmitKeepsInv ==
    ASSUME Inv, ModemEmit
    PROVE  Inv'
  <1>1. TypeOK /\ MutexInv /\ ClientInv /\ LoopInv /\ FrameInv /\ NoOrphan
        /\ NoLostWakeup /\ GateHolds
    BY DEF Inv
  <1>2. TypeOK'
    <2>1. PICK n \in (IF Chunked THEN 1 ELSE Len(outbox))..Len(outbox) :
            /\ tty' = tty \o SubSeq(outbox, 1, n)
            /\ outbox' = Drop(outbox, n)
      BY DEF ModemEmit
    <2>2. outbox \in Seq(Posted) /\ tty \in Seq(Posted)
      BY <1>1 DEF TypeOK
    <2>3. n \in 0..Len(outbox)
      BY <2>2 DEF ModemEmit
    <2>4. SubSeq(outbox, 1, n) \in Seq(Posted) /\ outbox' \in Seq(Posted)
      BY <2>1, <2>2, <2>3, CutProperties
    <2>5. tty' \in Seq(Posted)
      BY <2>1, <2>2, <2>4, ConcatProperties
    <2> QED
      BY <1>1, <2>4, <2>5 DEF ModemEmit, fsmVars, loopVars, clientVars, answerVars, TypeOK
  <1>3. MutexInv'
    BY <1>1, ThreadsAssumption DEF ModemEmit, fsmVars, loopVars,
       clientVars, answerVars, MutexInv, ClientSection, LoopSection,
       TypeOK
  <1>4. ClientInv'
    BY <1>1 DEF ModemEmit, fsmVars, loopVars, clientVars, answerVars,
       ClientInv, Gating, MutexInv, ClientSection, LoopSection, TypeOK,
       IsIdle, Request
  <1>5. LoopInv'
    BY <1>1, ThreadsAssumption DEF ModemEmit, fsmVars, loopVars,
       clientVars, answerVars, LoopInv, MutexInv, ClientSection,
       LoopSection, TypeOK, Receiving, Served
  <1>6. FrameInv'
    BY <1>1, ThreadsAssumption DEF ModemEmit, fsmVars, loopVars,
       clientVars, answerVars, FrameInv, LoopInv, MutexInv,
       ClientSection, LoopSection, TypeOK, Receiving, Served, Request
  <1>7. NoOrphan'
    BY <1>1, ThreadsAssumption DEF ModemEmit, fsmVars, loopVars,
       clientVars, answerVars, NoOrphan, MutexInv, ClientSection,
       LoopSection, TypeOK, Served, Request
  <1>8. NoLostWakeup' /\ GateHolds'
    BY <1>1 DEF ModemEmit, fsmVars, loopVars, clientVars, answerVars,
       NoLostWakeup, GateHolds, IsIdle, TypeOK
  <1> QED  BY <1>2, <1>3, <1>4, <1>5, <1>6, <1>7, <1>8 DEF Inv

\* A URC is a record of its own.
LEMMA ModemUrcKeepsInv ==
    ASSUME Inv, ModemUrc
    PROVE  Inv'
  <1>1. TypeOK /\ MutexInv /\ ClientInv /\ LoopInv /\ FrameInv /\ NoOrphan
        /\ NoLostWakeup /\ GateHolds
    BY DEF Inv
  <1>2. TypeOK'
    <2>1. outbox' \in Seq(Posted)
      BY <1>1, PostedRecords, ConcatProperties DEF ModemUrc, TypeOK
    <2>2. urcs' \in 0..MaxUrcs
      BY <1>1, BoundsAssumption DEF ModemUrc, TypeOK
    <2> QED
      BY <1>1, <2>1, <2>2 DEF ModemUrc, fsmVars, loopVars, clientVars, answerVars, TypeOK
  <1>3. MutexInv'
    BY <1>1, ThreadsAssumption DEF ModemUrc, fsmVars, loopVars,
       clientVars, answerVars, MutexInv, ClientSection, LoopSection,
       TypeOK
  <1>4. ClientInv'
    BY <1>1 DEF ModemUrc, fsmVars, loopVars, clientVars, answerVars,
       ClientInv, Gating, MutexInv, ClientSection, LoopSection, TypeOK,
       IsIdle, Request
  <1>5. LoopInv'
    BY <1>1, ThreadsAssumption DEF ModemUrc, fsmVars, loopVars,
       clientVars, answerVars, LoopInv, MutexInv, ClientSection,
       LoopSection, TypeOK, Receiving, Served
  <1>6. FrameInv'
    BY <1>1, ThreadsAssumption DEF ModemUrc, fsmVars, loopVars,
       clientVars, answerVars, FrameInv, LoopInv, MutexInv,
       ClientSection, LoopSection, TypeOK, Receiving, Served, Request
  <1>7. NoOrphan'
    BY <1>1, ThreadsAssumption DEF ModemUrc, fsmVars, loopVars,
       clientVars, answerVars, NoOrphan, MutexInv, ClientSection,
       LoopSection, TypeOK, Served, Request
  <1>8. NoLostWakeup' /\ GateHolds'
    BY <1>1 DEF ModemUrc, fsmVars, loopVars, clientVars, answerVars,
       NoLostWakeup, GateHolds, IsIdle, TypeOK
  <1> QED  BY <1>2, <1>3, <1>4, <1>5, <1>6, <1>7, <1>8 DEF Inv

\* Every step of every thread keeps it.
LEMMA InvStep == Inv /\ [Next]_vars => Inv'
  <1> SUFFICES ASSUME Inv, [Next]_vars PROVE Inv'
    OBVIOUS
  <1>1. ASSUME NEW c \in Clients, Call(c) \/ SpuriousWake(c) \/ ClientStep(c)
        PROVE  Inv'
    BY <1>1, CallKeepsInv, SpuriousWakeKeepsInv, LockKeepsInv, GateWaitKeepsInv,
       GatePassKeepsInv, ProcessKeepsInv, StoreKeepsInv, UnlockKeepsInv,
       AcquireKeepsInv DEF ClientStep
  <1>2. CASE LoopStep
    BY <1>2, LoopGetKeepsInv, LoopLockKeepsInv, LoopReadKeepsInv,
       TakeResponseKeepsInv, TakeResultKeepsInv, TakeUrcKeepsInv,
       ParseDoneKeepsInv, LoopStoreKeepsInv DEF LoopStep
  <1>3. CASE Poll \/ ShutDown \/ ModemEmit \/ ModemUrc
    BY <1>3, PollKeepsInv, ShutDownKeepsInv, ModemEmitKeepsInv, ModemUrcKeepsInv
  <1>4. CASE Quiet \/ UNCHANGED vars
    <2>1. UNCHANGED vars  BY <1>4 DEF Quiet
    <2> QED
      BY <2>1 DEF Inv, TypeOK, MutexInv, ClientInv, LoopInv, FrameInv, NoOrphan,
         NoLostWakeup, GateHolds, Served, Receiving, IsIdle, Request,
         vars, fsmVars, loopVars, clientVars, answerVars, lineVars
  <1> QED  BY <1>1, <1>2, <1>3, <1>4 DEF Next

-----------------------------------------------------------------------------
(* Refinement: the engine implements CommandService.                        *)

Phases == [c \in Clients |-> Phase(c)]

\* A step in which every client keeps its phase is a stutter of the service.
LEMMA SamePhases ==
    ASSUME \A c \in Clients : Phase(c)' = Phase(c)
    PROVE  [Service!Next]_Phases
  BY DEF Phases

\* A step in which one client changes its phase changes phase there only.
LEMMA OnePhase ==
    ASSUME NEW c \in Clients, NEW from, NEW to,
           Phase(c) = from, Phase(c)' = to,
           \A d \in Clients \ {c} : Phase(d)' = Phase(d)
    PROVE  Service!Become(c, from, to)
  BY DEF Service!Become, Phases

LEMMA RefineInit == Init => Service!Init
  BY Zenon DEF Init, Service!Init, Phase

LEMMA RefineStep == Inv /\ [Next]_vars => [Service!Next]_Phases
  <1> SUFFICES ASSUME Inv, [Next]_vars PROVE [Service!Next]_Phases
    OBVIOUS
  <1>1. TypeOK /\ MutexInv /\ ClientInv /\ FrameInv /\ NoOrphan /\ GateHolds
    BY DEF Inv
  <1>2. ASSUME NEW c \in Clients, Call(c)
        PROVE  Service!Next
    <2>1. Phase(c) = "out" /\ Phase(c)' = "waiting"
      BY <1>1, <1>2 DEF Call, Phase, TypeOK
    <2>2. \A d \in Clients \ {c} : Phase(d)' = Phase(d)
      BY <1>1, <1>2 DEF Call, Phase, TypeOK, loopVars
    <2> QED  BY <2>1, <2>2, OnePhase DEF Service!Next, Service!Request
  <1>3. ASSUME NEW c \in Clients, Process(c)
        PROVE  Service!Next
    <2>1. IsIdle /\ ~failed[c] /\ sem[c] = 0 /\ mtx = c
      <3>1. pc[c] = "process" /\ sem[c] \in 0..1 /\ (sem[c] > 0 => pc[c] = "acquire")
        BY <1>1, <1>3 DEF Process, ClientInv, TypeOK
      <3>2. sem[c] = 0  BY <3>1
      <3> QED
        BY <1>1, <3>1, <3>2 DEF ClientInv, Gating, MutexInv, ClientSection
    <2>2. \A d \in Clients \ {c} : Phase(d)' = Phase(d)
      BY <1>1, <1>3 DEF Process, Phase, TypeOK
    <2>3. Phase(c) = "waiting"
      BY <1>1, <1>3, <2>1 DEF Process, Phase
    <2>4. Phase(c)' \in {"served", "lost"}
      BY <1>1, <1>3, <2>1 DEF Process, Phase, TypeOK
    <2>5. \A d \in Clients : Phase(d) # "served"
      <3>1. ASSUME NEW d \in Clients, Phase(d) = "served" PROVE FALSE
        <4>1. pc[d] \in {"store", "unlock", "acquire"} /\ ~failed[d] /\ sem[d] = 0
          BY <1>1, <3>1 DEF Phase, TypeOK, Places
        <4>2. pc[d] # "store"
          BY <1>1, <1>3, <2>1 DEF Process, MutexInv, ClientSection
        <4>3. Served(d)
          BY <1>1, <4>1, <4>2 DEF Served, GateHolds
        <4> QED  BY <1>1, <2>1, <4>3 DEF NoOrphan, IsIdle, WaitForResponse
      <3> QED  BY <3>1
    <2>6. CASE Phase(c)' = "served"
      <3>1. Service!Become(c, "waiting", "served")
        BY <2>2, <2>3, <2>6, OnePhase
      <3> QED  BY <2>5, <3>1 DEF Service!Next, Service!Serve
    <2>7. CASE Phase(c)' = "lost"
      <3>1. Service!Become(c, "waiting", "lost")
        BY <2>2, <2>3, <2>7, OnePhase
      <3> QED  BY <2>5, <3>1 DEF Service!Next, Service!Lose
    <2> QED  BY <2>4, <2>6, <2>7
  <1>4. ASSUME NEW c \in Clients, Acquire(c)
        PROVE  Service!Next
    <2>1. Phase(c) = "answered" /\ Phase(c)' = "out"
      BY <1>1, <1>4 DEF Acquire, Phase, ClientInv, TypeOK
    <2>2. \A d \in Clients \ {c} : Phase(d)' = Phase(d)
      BY <1>1, <1>4 DEF Acquire, Phase, TypeOK
    <2> QED  BY <2>1, <2>2, OnePhase DEF Service!Next, Service!Return
  <1>5. ASSUME ParseDone
        PROVE  [Service!Next]_Phases
    <2>1. CASE Receiving /\ Complete
      <3>1. PICK c \in Clients : c = state.msg.client /\ Served(c)
        BY <1>1, <1>5, <2>1, StateShapes DEF ParseDone, FrameInv, Msgs
      <3>2. Phase(c) = "served" /\ Phase(c)' = "answered"
        BY <1>1, <1>5, <2>1, <3>1 DEF ParseDone, Phase, Served, TypeOK
      <3>3. \A d \in Clients \ {c} : Phase(d)' = Phase(d)
        BY <1>1, <1>5, <2>1, <3>1 DEF ParseDone, Phase, TypeOK
      <3>4. Service!Become(c, "served", "answered")
        BY <3>1, <3>2, <3>3, OnePhase
      <3> QED  BY <3>1, <3>4 DEF Service!Next, Service!Reply
    <2>2. CASE ~(Receiving /\ Complete)
      <3>1. \A d \in Clients : Phase(d)' = Phase(d)
        BY <1>5, <2>2 DEF ParseDone, Phase
      <3> QED  BY <3>1, SamePhases
    <2> QED  BY <2>1, <2>2
  <1>6. ASSUME NEW c \in Clients,
               \/ SpuriousWake(c) \/ Lock(c) \/ GateWait(c) \/ GatePass(c)
               \/ Store(c) \/ Unlock(c)
        PROVE  \A d \in Clients : Phase(d)' = Phase(d)
    <2>1. CASE SpuriousWake(c) \/ Lock(c) \/ GateWait(c)
      BY <1>1, <2>1 DEF SpuriousWake, Lock, AfterWait, GateWait, Phase, TypeOK
    <2>2. CASE GatePass(c)
      BY <1>1, <2>2 DEF GatePass, Phase, TypeOK
    <2>3. CASE Store(c) \/ Unlock(c)
      BY <1>1, <2>3 DEF Store, Unlock, GateHolds, Phase, TypeOK
    <2> QED  BY <1>6, <2>1, <2>2, <2>3
  <1>7. ASSUME LoopStore
        PROVE  \A d \in Clients : Phase(d)' = Phase(d)
    BY <1>1, <1>7 DEF LoopStore, Woken, Phase, TypeOK
  <1>8. CASE \/ LoopGet \/ LoopLock \/ LoopRead \/ TakeResponse \/ TakeResult
             \/ TakeUrc \/ Poll \/ ShutDown \/ ModemEmit \/ ModemUrc
             \/ Quiet \/ UNCHANGED vars
    <2>1. UNCHANGED clientVars
      BY <1>8 DEF LoopGet, LoopLock, LoopRead, TakeResponse, TakeResult, TakeUrc,
         Poll, ShutDown, ModemEmit, ModemUrc, Quiet, vars
    <2>2. \A d \in Clients : Phase(d)' = Phase(d)
      BY <2>1 DEF clientVars, Phase
    <2> QED  BY <2>2, SamePhases
  <1> QED
    BY <1>2, <1>3, <1>4, <1>5, <1>6, <1>7, <1>8, SamePhases
       DEF Next, ClientStep, LoopStep

-----------------------------------------------------------------------------
(* What callers rely on, for every value of the constants.                   *)

\* The strengthened invariant holds of every behaviour.
THEOREM SpecInv == Spec => []Inv
  <1> QED  BY InvInit, InvStep, PTL DEF Spec

\* Type correctness: the receive buffer is never overrun, no semaphore is
\* released twice for one call, and the machine never rests in SendCommand.
THEOREM TypeCorrect == Spec => []TypeOK
  <1>1. Inv => TypeOK  BY DEF Inv
  <1> QED  BY <1>1, SpecInv, PTL

\* At most one thread is inside a critical section of mtx, and mtx names it.
MutualExclusion ==
    /\ \A c, d \in Clients :
          pc[c] \in ClientSection /\ pc[d] \in ClientSection => c = d
    /\ lpc \in LoopSection => \A c \in Clients : pc[c] \notin ClientSection

\* Requests, the state machine and the receive buffer are handled by one thread
\* at a time.
THEOREM SpecMutualExclusion == Spec => []MutualExclusion
  <1>1. Inv => MutualExclusion
    BY ThreadsAssumption DEF Inv, MutexInv, MutualExclusion
  <1> QED  BY <1>1, SpecInv, PTL

\* A caller that blocks after a successful send is never forgotten.
THEOREM SpecNoOrphan == Spec => []NoOrphan
  <1>1. Inv => NoOrphan  BY DEF Inv
  <1> QED  BY <1>1, SpecInv, PTL

\* The loop never follows a pointer into a frame that has been left.
THEOREM SpecLiveFrame == Spec => []LiveFrame
  <1>1. Inv => LiveFrame  BY DEF Inv, FrameInv, LiveFrame
  <1> QED  BY <1>1, SpecInv, PTL

\* Waiting and notifying on the condition variable never miss each other.
THEOREM SpecNoLostWakeup == Spec => []NoLostWakeup
  <1>1. Inv => NoLostWakeup  BY DEF Inv
  <1> QED  BY <1>1, SpecInv, PTL

\* The branch of sendCommand that reports InternalError is dead.
THEOREM SpecGateHolds == Spec => []GateHolds
  <1>1. Inv => GateHolds  BY DEF Inv
  <1> QED  BY <1>1, SpecInv, PTL

\* Callers are served one at a time, each answered once and before it returns:
\* the engine implements the abstract service.
THEOREM SpecImplementsService == Spec => ServiceSpec
  <1>1. Inv /\ [Next]_vars => [Service!Next]_[c \in Clients |-> Phase(c)]
    BY RefineStep DEF Phases
  <1> QED  BY <1>1, RefineInit, SpecInv, PTL DEF Spec, ServiceSpec, Service!Spec
=============================================================================
