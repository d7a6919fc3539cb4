---------------------------- MODULE AnswerProofs ----------------------------
(* Whose answer is where: the final result of the pending request is never    *)
(* lost, a call is only ever filled from its own answer, and a caller that is *)
(* let go has it, for any number of clients, calls and URCs, any receive      *)
(* buffer, any dispatcher and any way the line cuts an answer into pieces.    *)
EXTENDS OrchestratorProofs

-----------------------------------------------------------------------------
(* What a stretch of the line holds.                                          *)

\* Requests that some part answers, and those whose final result begins here.
Owned(p) == p.part \in {"R1", "R2", "F1", "F2"}
Owners(s) == {s[i].of : i \in {k \in 1..Len(s) : Owned(s[k])}}
Results(s) == {s[i].of : i \in {k \in 1..Len(s) : s[k].part = "F1"}}

\* A final result is complete, and an answer ends with it.
Ended(s) == \E i \in 1..Len(s) : s[i].part = "F2"
ResultLast(s) ==
    \A i, j \in 1..Len(s) : s[i].part = "F2" /\ i < j => ~Owned(s[j])

\* The call of c has handed its request over and is still to be answered.
Pending(c) == pc[c] \in {"store", "unlock", "acquire"} /\ ~failed[c] /\ sem[c] = 0
PendingRequests == {Request(c) : c \in {d \in Clients : Pending(d)}}

\* The call of c has what it asked for.
Answered(c) ==
    frcOf[c] = Request(c) /\ (wants[c] => respOf[c] = Request(c))

-----------------------------------------------------------------------------
(* The inductive invariant.                                                 *)

\* The line holds answers to the pending request only: nothing stale is left when
\* the next request is sent.
OwnersInv == Owners(rxbuf) \cup Owners(tty) \cup Owners(outbox) \subseteq PendingRequests

\* Behind a final result there are only URCs, wherever the line was cut.
OrderInv ==
    /\ ResultLast(rxbuf) /\ ResultLast(tty) /\ ResultLast(outbox)
    /\ Ended(rxbuf) => Owners(tty) = {} /\ Owners(outbox) = {}
    /\ Ended(tty) => Owners(outbox) = {}

\* ResultKept, from the moment the command is sent.
KeptInv ==
    \A c \in Clients : Pending(c) =>
        \/ Request(c) \in Results(rxbuf) \cup Results(tty) \cup Results(outbox)
        \/ frcOf[c] = Request(c)

\* The verdict of the handler under way is about the pending request.
FilledInv ==
    lpc = "parse" /\ Receiving =>
        LET m == state.msg
        IN  /\ haveResult =>
                  /\ frcOf[m.client] = m
                  /\ Owners(rxbuf) = {} /\ Owners(tty) = {} /\ Owners(outbox) = {}
            /\ haveResponse /\ m.wants => respOf[m.client] = m

\* A handler that is about to end the request has let its caller go with an
\* answer; the caller may be in its next call by now.
VerdictInv ==
    lpc = "store" /\ Receiving /\ next # state =>
        LET m == state.msg
        IN  /\ m.call <= call[m.client]
            /\ Request(m.client) = m => Answered(m.client)

\* A caller holds nothing but its own answer, and leaves with it.
ReturnInv ==
    \A c \in Clients :
        /\ respOf[c] \in {NoMsg, Request(c)}
        /\ frcOf[c] \in {NoMsg, Request(c)}
        /\ sem[c] > 0 \/ (pc[c] = "out" /\ call[c] > 0) => Answered(c)

AnswerInv ==
    /\ OwnersInv /\ OrderInv /\ KeptInv
    /\ FilledInv /\ VerdictInv /\ ReturnInv
-----------------------------------------------------------------------------
(* Lemmas about joining and cutting stretches of the line.                    *)

LEMMA JoinFacts ==
    ASSUME NEW s \in Seq(Posted), NEW t \in Seq(Posted)
    PROVE  /\ Owners(s \o t) = Owners(s) \cup Owners(t)
           /\ Results(s \o t) = Results(s) \cup Results(t)
           /\ Ended(s \o t) <=> Ended(s) \/ Ended(t)
           /\ ResultLast(s \o t) <=>
                  ResultLast(s) /\ ResultLast(t) /\ (Ended(s) => Owners(t) = {})
  <1> DEFINE u == s \o t
  <1>1. Len(s) \in Nat /\ Len(t) \in Nat /\ Len(u) = Len(s) + Len(t)
    BY ConcatProperties
  <1>2. \A i \in 1..Len(s) : i \in 1..Len(u) /\ u[i] = s[i]
    BY <1>1, ConcatProperties
  <1>3. \A i \in 1..Len(t) : i + Len(s) \in 1..Len(u) /\ u[i + Len(s)] = t[i]
    BY <1>1, ConcatProperties
  <1>4. \A i \in 1..Len(u) :
           \/ i \in 1..Len(s) /\ u[i] = s[i]
           \/ /\ i - Len(s) \in 1..Len(t) /\ u[i] = t[i - Len(s)]
              /\ i = (i - Len(s)) + Len(s)
    BY <1>1, ConcatProperties
  <1> HIDE DEF u
  <1>5. Owners(u) = Owners(s) \cup Owners(t)
    <2>1. Owners(u) \subseteq Owners(s) \cup Owners(t)
      BY <1>4 DEF Owners
    <2>2. Owners(s) \subseteq Owners(u)
      BY <1>2 DEF Owners
    <2>3. Owners(t) \subseteq Owners(u)
      BY <1>3 DEF Owners
    <2> QED
      BY <2>1, <2>2, <2>3
  <1>6. Results(u) = Results(s) \cup Results(t)
    <2>1. Results(u) \subseteq Results(s) \cup Results(t)
      BY <1>4 DEF Results
    <2>2. Results(s) \subseteq Results(u)
      BY <1>2 DEF Results
    <2>3. Results(t) \subseteq Results(u)
      BY <1>3 DEF Results
    <2> QED
      BY <2>1, <2>2, <2>3
  <1>7. Ended(u) <=> Ended(s) \/ Ended(t)
    <2>1. Ended(u) => Ended(s) \/ Ended(t)
      BY <1>4 DEF Ended
    <2>2. Ended(s) => Ended(u)
      BY <1>2 DEF Ended
    <2>3. Ended(t) => Ended(u)
      BY <1>3 DEF Ended
    <2> QED
      BY <2>1, <2>2, <2>3
  <1>8. ResultLast(u) => ResultLast(s) /\ ResultLast(t) /\ (Ended(s) => Owners(t) = {})
    <2> SUFFICES ASSUME ResultLast(u)
                 PROVE  ResultLast(s) /\ ResultLast(t) /\ (Ended(s) => Owners(t) = {})
      OBVIOUS
    <2>1. ResultLast(s)
      BY <1>2 DEF ResultLast
    <2>2. ResultLast(t)
      <3> SUFFICES ASSUME NEW i \in 1..Len(t), NEW j \in 1..Len(t),
                          t[i].part = "F2", i < j
                   PROVE  ~Owned(t[j])
        BY DEF ResultLast
      <3>1. i + Len(s) < j + Len(s)
        BY <1>1
      <3> QED
        BY <1>3, <3>1 DEF ResultLast
    <2>3. ASSUME Ended(s) PROVE Owners(t) = {}
      <3>1. PICK i \in 1..Len(s) : s[i].part = "F2"
        BY <2>3 DEF Ended
      <3>2. ASSUME NEW j \in 1..Len(t) PROVE ~Owned(t[j])
        <4>1. i < j + Len(s)
          BY <1>1
        <4> QED
          BY <1>2, <1>3, <3>1, <4>1 DEF ResultLast
      <3> QED
        BY <3>2 DEF Owners
    <2> QED
      BY <2>1, <2>2, <2>3
  <1>9. ASSUME ResultLast(s), ResultLast(t), Ended(s) => Owners(t) = {}
        PROVE  ResultLast(u)
    <2> SUFFICES ASSUME NEW i \in 1..Len(u), NEW j \in 1..Len(u),
                        u[i].part = "F2", i < j
                 PROVE  ~Owned(u[j])
      BY DEF ResultLast
    <2>1. CASE j \in 1..Len(s)
      <3>1. i \in 1..Len(s)
        BY <2>1, <1>1
      <3> QED
        BY <2>1, <3>1, <1>2, <1>9 DEF ResultLast
    <2>2. CASE j \notin 1..Len(s) /\ i \in 1..Len(s)
      <3>1. Owners(t) = {}
        BY <2>2, <1>2, <1>9 DEF Ended
      <3>2. j - Len(s) \in 1..Len(t) /\ u[j] = t[j - Len(s)]
        BY <2>2, <1>4
      <3> QED
        BY <3>1, <3>2 DEF Owners
    <2>3. CASE j \notin 1..Len(s) /\ i \notin 1..Len(s)
      <3>1. /\ i - Len(s) \in 1..Len(t) /\ u[i] = t[i - Len(s)]
            /\ j - Len(s) \in 1..Len(t) /\ u[j] = t[j - Len(s)]
        BY <2>3, <1>4
      <3>2. i - Len(s) < j - Len(s)
        BY <1>1
      <3> QED
        BY <3>1, <3>2, <1>9 DEF ResultLast
    <2> QED
      BY <2>1, <2>2, <2>3
  <1> QED
    BY <1>5, <1>6, <1>7, <1>8, <1>9 DEF u

\* A buffer is what a read took of it and the rest.
LEMMA CutFacts ==
    ASSUME NEW s \in Seq(Posted), NEW n \in 0..Len(s)
    PROVE  /\ SubSeq(s, 1, n) \in Seq(Posted) /\ Drop(s, n) \in Seq(Posted)
           /\ s = SubSeq(s, 1, n) \o Drop(s, n)
  <1>1. Len(s) \in Nat
    OBVIOUS
  <1>2. /\ SubSeq(s, 1, n) \in Seq(Posted) /\ Len(SubSeq(s, 1, n)) = n
        /\ Drop(s, n) \in Seq(Posted) /\ Len(Drop(s, n)) = Len(s) - n
    BY CutProperties
  <1>3. \A i \in 1..Len(s) : s[i] \in Posted
    BY ElementOfSeq
  <1>4. \A i \in 1..n : SubSeq(s, 1, n)[i] = s[i]
    <2>1. \A i \in 1..n : s[i] \in Posted
      BY <1>1, <1>3
    <2> QED
      BY <1>1, <2>1, SubSeqProperties
  <1>5. \A i \in 1..(Len(s) - n) : Drop(s, n)[i] = s[i + n]
    <2>1. \A i \in (n + 1)..Len(s) : s[i] \in Posted
      BY <1>1, <1>3
    <2>2. \A i \in 1..(Len(s) - (n + 1) + 1) : Drop(s, n)[i] = s[(n + 1) + i - 1]
      BY <1>1, <2>1, SubSeqProperties DEF Drop
    <2>3. \A i \in 1..(Len(s) - n) :
             i \in 1..(Len(s) - (n + 1) + 1) /\ (n + 1) + i - 1 = i + n
      BY <1>1
    <2> QED
      BY <2>2, <2>3
  <1> DEFINE u == SubSeq(s, 1, n) \o Drop(s, n)
  <1>6. u \in Seq(Posted) /\ Len(u) = Len(s)
    BY <1>1, <1>2, ConcatProperties
  <1>7. ASSUME NEW i \in 1..Len(s) PROVE s[i] = u[i]
    <2> DEFINE p == SubSeq(s, 1, n)
               d == Drop(s, n)
    <2>1. u[i] = IF i <= n THEN p[i] ELSE d[i - n]
      BY <1>1, <1>2, ConcatProperties
    <2>2. \A j \in 1..n : p[j] = s[j]
      BY <1>4
    <2>3. \A j \in 1..(Len(s) - n) : d[j] = s[j + n]
      BY <1>5
    <2> HIDE DEF p, d, u
    <2>4. CASE i <= n
      BY <2>1, <2>2, <2>4
    <2>5. CASE ~(i <= n)
      <3>1. i - n \in 1..(Len(s) - n) /\ (i - n) + n = i
        BY <2>5, <1>1
      <3>2. d[i - n] = s[(i - n) + n]
        BY <2>3, <3>1
      <3> QED
        BY <2>1, <2>5, <3>1, <3>2
    <2> QED
      BY <2>4, <2>5
  <1> HIDE DEF u
  <1>8. s = u
    BY <1>6, <1>7, SeqEqual
  <1> QED
    BY <1>2, <1>8 DEF u
\* The end of a final result has an owner.
LEMMA EndedIsOwned ==
    ASSUME NEW s, Owners(s) = {}
    PROVE  ~Ended(s)
  BY DEF Owners, Ended, Owned

\* What a URC, a final result and an answer hold.
LEMMA RecordFacts ==
    /\ Urc \in Seq(Posted)
    /\ Owners(Urc) = {} /\ Results(Urc) = {} /\ ~Ended(Urc) /\ ResultLast(Urc)
    /\ \A m \in Msgs, r \in Replies :
          /\ Answer(m, r) \in Seq(Posted)
          /\ Owners(Answer(m, r)) = {m} /\ m \in Results(Answer(m, r))
          /\ ResultLast(Answer(m, r))
  <1>1. /\ Owners(Urc) = {} /\ Results(Urc) = {} /\ ~Ended(Urc) /\ ResultLast(Urc)
    <2>1. Len(Urc) = 2 /\ Urc[1].part = "U1" /\ Urc[2].part = "U2"
      BY DEF Urc, Part
    <2>2. \A i \in 1..Len(Urc) : Urc[i].part \in {"U1", "U2"}
      BY <2>1
    <2> QED
      BY <2>2 DEF Owners, Results, Ended, ResultLast, Owned
  <1>2. ASSUME NEW m \in Msgs
        PROVE  /\ Owners(FinalResult(m)) = {m} /\ Results(FinalResult(m)) = {m}
               /\ ResultLast(FinalResult(m)) /\ FinalResult(m) \in Seq(Posted)
    <2> DEFINE s == FinalResult(m)
    <2>1. Len(s) = 2 /\ s[1] = Part("F1", m) /\ s[2] = Part("F2", m)
      BY DEF FinalResult
    <2>2. s \in Seq(Posted)
      BY DEF FinalResult, Part, Posted
    <2> HIDE DEF s
    <2>3. \A i \in 1..Len(s) : i \in {1, 2} /\ s[i].of = m /\ Owned(s[i])
      BY <2>1 DEF Part, Owned
    <2>4. 1 \in 1..Len(s) /\ s[1].part = "F1" /\ s[1].of = m
      BY <2>1 DEF Part
    <2>5. Owners(s) = {m} /\ Results(s) = {m}
      BY <2>3, <2>4 DEF Owners, Results
    <2>6. ResultLast(s)
      BY <2>1 DEF ResultLast, Part
    <2> QED
      BY <2>2, <2>5, <2>6 DEF s
  <1>3. ASSUME NEW m \in Msgs
        PROVE  /\ Owners(Response(m)) = {m} /\ ~Ended(Response(m))
               /\ ResultLast(Response(m)) /\ Response(m) \in Seq(Posted)
    <2> DEFINE s == Response(m)
    <2>1. Len(s) = 2 /\ s[1] = Part("R1", m) /\ s[2] = Part("R2", m)
      BY DEF Response
    <2>2. s \in Seq(Posted)
      BY DEF Response, Part, Posted
    <2> HIDE DEF s
    <2>3. \A i \in 1..Len(s) : s[i].of = m /\ Owned(s[i]) /\ s[i].part # "F2"
      BY <2>1 DEF Part, Owned
    <2>4. 1 \in 1..Len(s)
      BY <2>1
    <2>5. Owners(s) = {m}
      BY <2>3, <2>4 DEF Owners
    <2>6. ~Ended(s) /\ ResultLast(s)
      BY <2>3 DEF Ended, ResultLast
    <2> QED
      BY <2>2, <2>5, <2>6 DEF s
  <1>4. ASSUME NEW m \in Msgs, NEW r \in Replies
        PROVE  /\ Owners(Answer(m, r)) = {m} /\ m \in Results(Answer(m, r))
               /\ ResultLast(Answer(m, r))
    <2>1. CASE Answer(m, r) = FinalResult(m)
      BY <2>1, <1>2
    <2>2. CASE Answer(m, r) = Response(m) \o FinalResult(m)
      BY <2>2, <1>2, <1>3, JoinFacts
    <2> QED
      BY <2>1, <2>2 DEF Answer
  <1> QED
    BY <1>1, <1>4, PostedRecords

\* What the loop takes off the front of its buffer.
LEMMA FrontFacts ==
    ASSUME NEW s \in Seq(Posted)
    PROVE  /\ ResponseAt(s) => /\ 2 \in 0..Len(s) /\ s[1].of \in Owners(s)
                               /\ Results(SubSeq(s, 1, 2)) = {}
           /\ ResultAt(s) => /\ 2 \in 0..Len(s) /\ s[1].of \in Owners(s)
                             /\ Results(SubSeq(s, 1, 2)) = {s[1].of}
                             /\ Ended(SubSeq(s, 1, 2))
           /\ ~ResultAt(s) => Results(SubSeq(s, 1, UrcLen(s))) = {}
  <1>1. Len(s) \in Nat /\ \A i \in 1..Len(s) : s[i] \in Posted
    BY ElementOfSeq
  <1>2. ASSUME NEW n \in 0..Len(s)
        PROVE  /\ Len(SubSeq(s, 1, n)) = n
               /\ \A i \in 1..n : SubSeq(s, 1, n)[i] = s[i]
    <2>1. \A i \in 1..n : s[i] \in Posted
      BY <1>1
    <2>2. Len(SubSeq(s, 1, n)) = IF 1 <= n THEN n - 1 + 1 ELSE 0
      BY <1>1, <2>1, SubSeqProperties
    <2>3. \A i \in 1..(n - 1 + 1) : SubSeq(s, 1, n)[i] = s[1 + i - 1]
      BY <1>1, <2>1, SubSeqProperties
    <2> QED
      BY <2>2, <2>3
  <1>3. ASSUME ResponseAt(s)
        PROVE  2 \in 0..Len(s) /\ s[1].of \in Owners(s) /\ Results(SubSeq(s, 1, 2)) = {}
    <2>1. Len(s) >= 2 /\ s[1].part = "R1" /\ s[2].part = "R2"
      BY <1>3 DEF ResponseAt, StartsWith
    <2>2. 2 \in 0..Len(s) /\ 1 \in 1..Len(s)
      BY <1>1, <2>1
    <2>3. s[1].of \in Owners(s)
      BY <2>1, <2>2 DEF Owners, Owned
    <2>4. \A i \in 1..2 : SubSeq(s, 1, 2)[i].part # "F1"
      BY <1>2, <2>1, <2>2
    <2>5. Results(SubSeq(s, 1, 2)) = {}
      BY <1>2, <2>2, <2>4 DEF Results
    <2> QED
      BY <2>2, <2>3, <2>5
  <1>4. ASSUME ResultAt(s)
        PROVE  /\ 2 \in 0..Len(s) /\ s[1].of \in Owners(s)
               /\ Results(SubSeq(s, 1, 2)) = {s[1].of} /\ Ended(SubSeq(s, 1, 2))
    <2> DEFINE p == SubSeq(s, 1, 2)
    <2>1. Len(s) >= 2 /\ s[1].part = "F1" /\ s[2].part = "F2"
      BY <1>4 DEF ResultAt, StartsWith
    <2>2. 2 \in 0..Len(s) /\ 1 \in 1..Len(s)
      BY <1>1, <2>1
    <2>3. s[1].of \in Owners(s)
      BY <2>1, <2>2 DEF Owners, Owned
    <2>4. Len(p) = 2 /\ p[1] = s[1] /\ p[2] = s[2]
      BY <1>2, <2>2
    <2> HIDE DEF p
    <2>5. \A i \in 1..Len(p) : p[i].part = "F1" <=> i = 1
      BY <2>1, <2>4
    <2>6. Results(p) = {s[1].of}
      BY <2>4, <2>5 DEF Results
    <2>7. Ended(p)
      BY <2>1, <2>4 DEF Ended
    <2> QED
      BY <2>2, <2>3, <2>6, <2>7 DEF p
  <1>5. ASSUME ~ResultAt(s)
        PROVE  Results(SubSeq(s, 1, UrcLen(s))) = {}
    <2>1. UrcLen(s) \in 0..Len(s)
      BY UrcLenBound
    <2>2. ASSUME NEW i \in 1..UrcLen(s) PROVE s[i].part # "F1"
      <3>1. CASE UrcLen(s) = 0
        BY <3>1
      <3>2. CASE UrcLen(s) = 1 /\ s[1].part \in {"R1", "R2"}
        BY <3>2
      <3>3. CASE UrcLen(s) = 2 /\ s[1].part = "U1" /\ s[2].part = "U2"
        BY <3>3
      <3> QED
        BY <1>5, <3>1, <3>2, <3>3, OptionsAssumption DEF UrcLen, StartsWith
    <2> DEFINE p == SubSeq(s, 1, UrcLen(s))
    <2>3. Len(p) = UrcLen(s) /\ \A i \in 1..UrcLen(s) : p[i] = s[i]
      BY <1>2, <2>1
    <2> HIDE DEF p
    <2>4. Results(p) = {}
      BY <2>2, <2>3 DEF Results
    <2> QED
      BY <2>4 DEF p
  <1> QED
    BY <1>3, <1>4, <1>5
-----------------------------------------------------------------------------
(* The invariant is inductive: lemmas about the pending request and the line. *)

\* While the loop is in its critical section the pending request is the one the
\* machine waits for.
LEMMA PendingIsState ==
    ASSUME Inv, mtx = Loop, NEW m \in PendingRequests
    PROVE  state = WaitForResponse(m) /\ Receiving /\ state.msg = m
  <1>1. PICK c \in Clients : Pending(c) /\ m = Request(c)
    BY DEF PendingRequests
  <1>2. pc[c] \notin ClientSection
    BY ThreadsAssumption DEF Inv, MutexInv
  <1>3. Served(c)
    BY <1>1, <1>2 DEF Inv, GateHolds, Served, Pending, ClientSection
  <1> QED
    BY <1>1, <1>3 DEF Inv, NoOrphan, WaitForResponse, Receiving

\* The request the loop is serving.
LEMMA StateIsPending ==
    ASSUME Inv, Receiving, lpc # "store"
    PROVE  /\ state.msg \in Msgs /\ state.msg.client \in Clients
           /\ Pending(state.msg.client) /\ Request(state.msg.client) = state.msg
  <1>1. state.msg \in Msgs
    BY StateShapes DEF Inv
  <1>2. state.msg.client \in Clients
    BY <1>1 DEF Msgs
  <1> QED
    BY <1>1, <1>2 DEF Inv, FrameInv, Served, Pending

\* Only a call that blocks can find its semaphore released.
LEMMA NotReleased ==
    ASSUME Inv, NEW c \in Clients, pc[c] # "acquire"
    PROVE  sem[c] = 0
  <1>1. sem[c] \in 0..1
    BY DEF Inv, TypeOK
  <1>2. ~(sem[c] > 0)
    BY DEF Inv, ClientInv
  <1> QED
    BY <1>1, <1>2

\* The same calls are pending.
LEMMA SamePending ==
    ASSUME \A c \in Clients : Pending(c)' = Pending(c) /\ (Pending(c) => Request(c)' = Request(c))
    PROVE  PendingRequests' = PendingRequests
  BY DEF PendingRequests

\* A step of the surroundings, and those of the loop between two handlers.
LEMMA IdleStepKeepsAnswer ==
    ASSUME AnswerInv,
           UNCHANGED <<clientVars, answerVars, rxbuf, tty, outbox, state, next,
                       haveResponse, haveResult>>,
           lpc' = lpc \/ lpc' \in {"lock", "read", "get", "stopped"}
    PROVE  AnswerInv'
  <1> USE DEF clientVars, answerVars
  <1>1. OwnersInv'
    BY DEF AnswerInv, OwnersInv, PendingRequests, Pending, Request
  <1>2. OrderInv'
    BY DEF AnswerInv, OrderInv
  <1>3. KeptInv'
    BY DEF AnswerInv, KeptInv, Pending, Request
  <1>4. FilledInv'
    BY DEF AnswerInv, FilledInv, Receiving
  <1>5. VerdictInv'
    BY DEF AnswerInv, VerdictInv, Receiving, Request, Answered
  <1>6. ReturnInv'
    BY DEF AnswerInv, ReturnInv, Request, Answered
  <1> QED
    BY <1>1, <1>2, <1>3, <1>4, <1>5, <1>6 DEF AnswerInv

\* Parts taken off the front of the buffer leave the rest in order.
LEMMA TakeFacts ==
    ASSUME TypeOK, OrderInv, NEW n \in 0..Len(rxbuf),
           rxbuf' = Drop(rxbuf, n), UNCHANGED <<tty, outbox>>
    PROVE  /\ OrderInv'
           /\ Owners(rxbuf') \subseteq Owners(rxbuf)
           /\ Results(rxbuf) = Results(SubSeq(rxbuf, 1, n)) \cup Results(rxbuf')
           /\ Ended(SubSeq(rxbuf, 1, n)) =>
                 Owners(rxbuf') = {} /\ Owners(tty) = {} /\ Owners(outbox) = {}
  <1> DEFINE p == SubSeq(rxbuf, 1, n)
             d == Drop(rxbuf, n)
  <1>1. rxbuf \in Seq(Posted)
    BY DEF TypeOK
  <1>2. p \in Seq(Posted) /\ d \in Seq(Posted) /\ rxbuf = p \o d
    BY <1>1, CutFacts
  <1> HIDE DEF p, d
  <1>3. /\ Owners(rxbuf) = Owners(p) \cup Owners(d)
        /\ Results(rxbuf) = Results(p) \cup Results(d)
        /\ Ended(rxbuf) <=> Ended(p) \/ Ended(d)
        /\ ResultLast(rxbuf) => ResultLast(d) /\ (Ended(p) => Owners(d) = {})
    BY <1>2, JoinFacts
  <1>4. rxbuf' = d
    BY DEF d
  <1> QED
    BY <1>3, <1>4 DEF OrderInv, p

-----------------------------------------------------------------------------
(* One lemma per step.                                                        *)

\* A new call starts with empty objects; the call it follows is over.
LEMMA CallKeepsAnswer ==
    ASSUME Inv, AnswerInv, NEW c \in Clients, Call(c)
    PROVE  AnswerInv'
  <1> USE DEF Call, lineVars, loopVars, fsmVars
  <1>1. TypeOK /\ ClientInv /\ FrameInv
    BY DEF Inv
  <1>2. pc[c] = "out" /\ pc'[c] = "lock" /\ sem[c] = 0
    BY <1>1, NotReleased DEF TypeOK
  <1>3. \A d \in Clients \ {c} :
           /\ pc'[d] = pc[d] /\ call'[d] = call[d] /\ wants'[d] = wants[d]
           /\ failed'[d] = failed[d] /\ respOf'[d] = respOf[d] /\ frcOf'[d] = frcOf[d]
    BY <1>1 DEF TypeOK
  <1>4. \A d \in Clients : Pending(d)' = Pending(d) /\ (Pending(d) => Request(d)' = Request(d))
    BY <1>2, <1>3 DEF Pending, Request
  <1>5. OwnersInv'
    BY <1>4, SamePending DEF AnswerInv, OwnersInv
  <1>6. OrderInv'
    BY DEF AnswerInv, OrderInv
  <1>7. KeptInv'
    BY <1>2, <1>3, <1>4 DEF AnswerInv, KeptInv, Pending
  <1>8. FilledInv'
    <2> SUFFICES ASSUME lpc = "parse", Receiving PROVE FilledInv'
      BY DEF FilledInv, Receiving
    <2>1. state.msg.client \in Clients \ {c}
      BY <1>2, StateIsPending DEF Pending
    <2> QED
      BY <1>3, <2>1 DEF AnswerInv, FilledInv, Receiving
  <1>9. VerdictInv'
    <2> SUFFICES ASSUME lpc = "store", Receiving, next # state PROVE VerdictInv'
      BY DEF VerdictInv, Receiving
    <2>1. state.msg \in Msgs /\ state.msg.client \in Clients
      BY <1>1, StateShapes DEF Msgs
    <2>2. CASE state.msg.client # c
      BY <1>3, <2>1, <2>2 DEF AnswerInv, VerdictInv, Answered, Request
    <2>3. CASE state.msg.client = c
      <3>1. call'[c] = call[c] + 1 /\ call[c] \in Nat
        BY <1>1 DEF TypeOK
      <3>2. state.msg.call <= call[c] /\ state.msg.call \in Nat
        BY <2>1, <2>3 DEF AnswerInv, VerdictInv, Msgs
      <3>3. Request(c)'.call = call'[c]
        BY DEF Request
      <3>4. state.msg.call <= call'[c] /\ Request(c)' # state.msg
        BY <3>1, <3>2, <3>3
      <3> QED
        BY <2>3, <3>4 DEF VerdictInv
    <2> QED
      BY <2>2, <2>3
  <1>10. ReturnInv'
    <2> SUFFICES ASSUME NEW d \in Clients
                 PROVE  /\ respOf'[d] \in {NoMsg, Request(d)'}
                        /\ frcOf'[d] \in {NoMsg, Request(d)'}
                        /\ sem'[d] > 0 \/ (pc'[d] = "out" /\ call'[d] > 0) => Answered(d)'
      BY DEF ReturnInv
    <2>1. CASE d = c
      <3>1. respOf'[c] = NoMsg /\ frcOf'[c] = NoMsg
        BY <1>1 DEF TypeOK
      <3> QED
        BY <1>2, <2>1, <3>1
    <2>2. CASE d # c
      BY <1>3, <2>2 DEF AnswerInv, ReturnInv, Answered, Request
    <2> QED
      BY <2>1, <2>2
  <1> QED
    BY <1>5, <1>6, <1>7, <1>8, <1>9, <1>10 DEF AnswerInv

\* A client on its way to the gate, and past it, has nothing on the line.
LEMMA GateKeepsAnswer ==
    ASSUME Inv, AnswerInv, NEW c \in Clients,
           SpuriousWake(c) \/ Lock(c) \/ GateWait(c) \/ GatePass(c)
    PROVE  AnswerInv'
  <1> USE DEF SpuriousWake, Lock, AfterWait, GateWait, GatePass, fsmVars, loopVars,
              answerVars, lineVars
  <1>1. TypeOK /\ ClientInv
    BY DEF Inv
  <1>2. UNCHANGED <<state, next, loopVars, call, wants, failed, answerVars, lineVars>>
    OBVIOUS
  <1>3. \A d \in Clients : sem'[d] = sem[d]
    <2>1. CASE GatePass(c)
      <3>1. sem[c] = 0
        BY <2>1, NotReleased
      <3> QED
        BY <1>1, <2>1, <3>1 DEF TypeOK
    <2>2. CASE SpuriousWake(c) \/ Lock(c) \/ GateWait(c)
      BY <2>2 DEF clientVars
    <2> QED
      BY <2>1, <2>2
  <1>4. \A d \in Clients :
           pc'[d] = pc[d] \/ (pc[d] \in Gating /\ pc'[d] \in Gating)
    BY <1>1 DEF TypeOK, Gating
  <1>5. \A d \in Clients : Pending(d)' = Pending(d) /\ Request(d)' = Request(d)
    BY <1>2, <1>3, <1>4 DEF Pending, Request, Gating
  <1>6. OwnersInv'
    BY <1>2, <1>5, SamePending DEF AnswerInv, OwnersInv
  <1>7. OrderInv'
    BY <1>2 DEF AnswerInv, OrderInv
  <1>8. KeptInv'
    BY <1>2, <1>5 DEF AnswerInv, KeptInv
  <1>9. FilledInv'
    BY <1>2 DEF AnswerInv, FilledInv, Receiving
  <1>10. VerdictInv'
    BY <1>2 DEF AnswerInv, VerdictInv, Receiving, Answered, Request
  <1>11. ReturnInv'
    BY <1>2, <1>3, <1>4, <1>5 DEF AnswerInv, ReturnInv, Answered, Gating
  <1> QED
    BY <1>6, <1>7, <1>8, <1>9, <1>10, <1>11 DEF AnswerInv
\* A request is sent while none is pending, so behind an answer that is complete.
LEMMA ProcessKeepsAnswer ==
    ASSUME Inv, AnswerInv, NEW c \in Clients, Process(c)
    PROVE  AnswerInv'
  <1> USE DEF Process, lineVars, loopVars, answerVars
  <1>1. TypeOK /\ ClientInv
    BY DEF Inv
  <1>2. pc[c] = "process" /\ mtx = c /\ IsIdle /\ sem[c] = 0 /\ Request(c) \in Msgs
    BY <1>1, NotReleased, RequestTyped DEF Inv, MutexInv, ClientInv, ClientSection
  <1>3. \A d \in Clients : ~Pending(d)
    <2> SUFFICES ASSUME NEW d \in Clients, Pending(d) PROVE FALSE
      OBVIOUS
    <2>1. pc[d] # "store"
      BY <1>2 DEF Inv, MutexInv, ClientSection
    <2>2. Served(d)
      BY <2>1 DEF Pending, Served, Inv, GateHolds
    <2> QED
      BY <1>2, <2>2 DEF Inv, NoOrphan, IsIdle, WaitForResponse
  <1>4. Owners(rxbuf) = {} /\ Owners(tty) = {} /\ Owners(outbox) = {}
    BY <1>3 DEF AnswerInv, OwnersInv, PendingRequests
  <1>5. ~Ended(rxbuf) /\ ~Ended(tty) /\ ~Ended(outbox)
    BY <1>4, EndedIsOwned
  <1>6. lpc' = lpc /\ lpc \notin {"parse", "store"}
    BY <1>2, ThreadsAssumption DEF Inv, MutexInv, LoopSection
  <1>7. UNCHANGED <<state, rxbuf, tty, call, wants, sem, respOf, frcOf>>
    OBVIOUS
  <1>8. pc'[c] = "store" /\ \A d \in Clients \ {c} : pc'[d] = pc[d] /\ failed'[d] = failed[d]
    BY <1>1, <1>2 DEF TypeOK
  <1>9. \A d \in Clients : Request(d)' = Request(d)
    BY <1>7 DEF Request
  <1>10. \A d \in Clients \ {c} : ~Pending(d)'
    BY <1>3, <1>7, <1>8 DEF Pending
  <1>11. PICK sent \in SendOutcomes, reply \in Replies :
            /\ failed' = [failed EXCEPT ![c] = ~sent]
            /\ outbox' = IF sent THEN outbox \o Answer(Request(c), reply) ELSE outbox
    BY <1>2 DEF CanSend
  <1>12. OwnersInv' /\ OrderInv' /\ KeptInv'
    <2>1. CASE sent
      <3>1. outbox' = outbox \o Answer(Request(c), reply)
        BY <1>11, <2>1
      <3>2. outbox \in Seq(Posted)
        BY <1>1 DEF TypeOK
      <3>3. /\ Owners(outbox') = {Request(c)} /\ Request(c) \in Results(outbox')
            /\ ResultLast(outbox) => ResultLast(outbox')
        <4> DEFINE a == Answer(Request(c), reply)
        <4>1. /\ a \in Seq(Posted) /\ Owners(a) = {Request(c)}
              /\ Request(c) \in Results(a) /\ ResultLast(a)
          BY <1>2, RecordFacts
        <4> HIDE DEF a
        <4>2. /\ Owners(outbox \o a) = Owners(outbox) \cup Owners(a)
              /\ Results(outbox \o a) = Results(outbox) \cup Results(a)
              /\ ResultLast(outbox \o a) <=>
                    ResultLast(outbox) /\ ResultLast(a) /\ (Ended(outbox) => Owners(a) = {})
          BY <3>2, <4>1, JoinFacts
        <4>3. outbox' = outbox \o a
          BY <3>1 DEF a
        <4> QED
          BY <1>4, <1>5, <4>1, <4>2, <4>3
      <3>4. failed'[c] = FALSE
        BY <1>1, <1>11, <2>1, Zenon DEF TypeOK
      <3>5. Pending(c)'
        BY <1>2, <1>7, <1>8, <3>4 DEF Pending
      <3>6. Request(c)' \in PendingRequests'
        BY <3>5 DEF PendingRequests
      <3>7. OwnersInv'
        BY <1>4, <1>7, <1>9, <3>3, <3>6 DEF OwnersInv
      <3>8. OrderInv'
        BY <1>5, <1>7, <3>3 DEF AnswerInv, OrderInv
      <3>9. KeptInv'
        BY <1>9, <1>10, <3>3 DEF KeptInv
      <3> QED
        BY <3>7, <3>8, <3>9
    <2>2. CASE ~sent
      <3>1. outbox' = outbox
        BY <1>11, <2>2
      <3>2. failed'[c] = TRUE
        BY <1>1, <1>11, <2>2, Zenon DEF TypeOK
      <3>3. \A d \in Clients : ~Pending(d)'
        BY <1>10, <3>2 DEF Pending
      <3> QED
        BY <1>4, <1>7, <3>1, <3>3 DEF AnswerInv, OwnersInv, OrderInv, KeptInv
    <2> QED
      BY <2>1, <2>2
  <1>13. FilledInv' /\ VerdictInv'
    BY <1>6 DEF FilledInv, VerdictInv
  <1>14. ReturnInv'
    <2>1. ~(sem'[c] > 0) /\ pc'[c] # "out"
      BY <1>2, <1>7, <1>8
    <2>2. \A d \in Clients : Answered(d)' = Answered(d)
      BY <1>7, <1>9 DEF Answered
    <2> QED
      BY <1>7, <1>8, <1>9, <2>1, <2>2 DEF AnswerInv, ReturnInv
  <1> QED
    BY <1>12, <1>13, <1>14 DEF AnswerInv

\* The rest of sendCommand moves a call that is pending, and one that is answered,
\* to its end.
LEMMA EndKeepsAnswer ==
    ASSUME Inv, AnswerInv, NEW c \in Clients, Store(c) \/ Unlock(c) \/ Acquire(c)
    PROVE  AnswerInv'
  <1> USE DEF Store, Unlock, Acquire, fsmVars, loopVars, answerVars, lineVars
  <1>1. TypeOK /\ ClientInv /\ GateHolds
    BY DEF Inv
  <1>2. UNCHANGED <<lpc, haveResponse, haveResult, rxbuf, call, wants, failed, respOf,
                    frcOf, tty, outbox>>
    OBVIOUS
  <1>3. \A d \in Clients : Request(d)' = Request(d) /\ Answered(d)' = Answered(d)
    BY <1>2 DEF Request, Answered
  <1>4. \A d \in Clients \ {c} : pc'[d] = pc[d] /\ sem'[d] = sem[d]
    BY <1>1 DEF TypeOK
  <1>5. Pending(c)' = Pending(c) /\ (sem'[c] > 0 \/ pc'[c] = "out" => sem[c] > 0)
    <2>1. CASE Store(c) \/ Unlock(c)
      BY <1>1, <2>1 DEF TypeOK, GateHolds, Pending
    <2>2. CASE Acquire(c)
      BY <1>1, <2>2 DEF TypeOK, Pending
    <2> QED
      BY <2>1, <2>2
  <1>6. \A d \in Clients : Pending(d)' = Pending(d)
    BY <1>2, <1>4, <1>5 DEF Pending
  <1>7. OwnersInv' /\ OrderInv' /\ KeptInv'
    BY <1>2, <1>3, <1>6, SamePending DEF AnswerInv, OwnersInv, OrderInv, KeptInv
  <1>8. FilledInv' /\ VerdictInv'
    <2>1. CASE Store(c)
      <3>1. lpc \notin {"parse", "store"}
        BY <2>1, ThreadsAssumption DEF Inv, MutexInv, LoopSection, ClientSection
      <3> QED
        BY <1>2, <3>1 DEF FilledInv, VerdictInv
    <2>2. CASE Unlock(c) \/ Acquire(c)
      <3>1. state' = state /\ next' = next
        BY <2>2
      <3> QED
        BY <1>2, <3>1 DEF AnswerInv, FilledInv, VerdictInv, Receiving, Answered, Request
    <2> QED
      BY <2>1, <2>2
  <1>9. ReturnInv'
    BY <1>2, <1>3, <1>4, <1>5 DEF AnswerInv, ReturnInv
  <1> QED
    BY <1>7, <1>8, <1>9 DEF AnswerInv
\* A read moves parts from the kernel's buffer behind the leftover.
LEMMA LoopReadKeepsAnswer ==
    ASSUME Inv, AnswerInv, LoopRead
    PROVE  AnswerInv'
  <1> USE DEF LoopRead, fsmVars, clientVars, answerVars
  <1>1. rxbuf \in Seq(Posted) /\ tty \in Seq(Posted) /\ Len(rxbuf) <= RxCapacity
    BY DEF Inv, TypeOK
  <1>2. PICK n \in 0..Len(tty) : rxbuf' = rxbuf \o SubSeq(tty, 1, n) /\ tty' = Drop(tty, n)
    <2>1. Len(tty) \in 0..Len(tty) /\ Len(rxbuf) \in Nat /\ Len(tty) \in Nat
      BY <1>1
    <2>2. ~(Len(tty) <= Room(rxbuf)) => Room(rxbuf) \in 0..Len(tty)
      BY <1>1, <2>1, BoundsAssumption DEF Room
    <2> QED
      BY <2>1, <2>2
  <1> DEFINE p == SubSeq(tty, 1, n)
             d == Drop(tty, n)
  <1>3. p \in Seq(Posted) /\ d \in Seq(Posted) /\ tty = p \o d
    BY <1>1, CutFacts
  <1>4. rxbuf' = rxbuf \o p /\ tty' = d
    BY <1>2
  <1> HIDE DEF p, d
  <1>5. /\ Owners(tty) = Owners(p) \cup Owners(d)
        /\ Results(tty) = Results(p) \cup Results(d)
        /\ Ended(tty) <=> Ended(p) \/ Ended(d)
        /\ ResultLast(tty) <=>
              ResultLast(p) /\ ResultLast(d) /\ (Ended(p) => Owners(d) = {})
    BY <1>3, JoinFacts
  <1>6. /\ Owners(rxbuf') = Owners(rxbuf) \cup Owners(p)
        /\ Results(rxbuf') = Results(rxbuf) \cup Results(p)
        /\ Ended(rxbuf') <=> Ended(rxbuf) \/ Ended(p)
        /\ ResultLast(rxbuf') <=>
              ResultLast(rxbuf) /\ ResultLast(p) /\ (Ended(rxbuf) => Owners(p) = {})
    <2> DEFINE b == rxbuf \o p
    <2>1. /\ Owners(b) = Owners(rxbuf) \cup Owners(p)
          /\ Results(b) = Results(rxbuf) \cup Results(p)
          /\ Ended(b) <=> Ended(rxbuf) \/ Ended(p)
          /\ ResultLast(b) <=>
                ResultLast(rxbuf) /\ ResultLast(p) /\ (Ended(rxbuf) => Owners(p) = {})
      BY <1>1, <1>3, JoinFacts
    <2>2. rxbuf' = b
      BY <1>4
    <2> HIDE DEF b
    <2> QED
      BY <2>1, <2>2
  <1>7. UNCHANGED <<state, next, clientVars, answerVars, outbox>>
    OBVIOUS
  <1>8. \A c \in Clients : /\ Pending(c)' = Pending(c) /\ Request(c)' = Request(c)
                          /\ Answered(c)' = Answered(c)
    BY <1>7 DEF Pending, Request, Answered
  <1>9. OwnersInv'
    BY <1>4, <1>5, <1>6, <1>7, <1>8, SamePending DEF AnswerInv, OwnersInv
  <1>10. OrderInv'
    BY <1>4, <1>5, <1>6, <1>7 DEF AnswerInv, OrderInv
  <1>11. KeptInv'
    BY <1>4, <1>5, <1>6, <1>7, <1>8 DEF AnswerInv, KeptInv
  <1>12. FilledInv' /\ VerdictInv'
    BY <1>7, Zenon DEF FilledInv, VerdictInv, Receiving
  <1>13. ReturnInv'
    BY <1>7, <1>8 DEF AnswerInv, ReturnInv
  <1> QED
    BY <1>9, <1>10, <1>11, <1>12, <1>13 DEF AnswerInv

\* The response in front of the buffer is that of the pending request.
LEMMA TakeResponseKeepsAnswer ==
    ASSUME Inv, AnswerInv, TakeResponse
    PROVE  AnswerInv'
  <1> USE DEF TakeResponse, fsmVars, clientVars, lineVars
  <1>1. TypeOK /\ rxbuf \in Seq(Posted) /\ respOf \in [Clients -> Msgs \cup {NoMsg}]
    BY DEF Inv, TypeOK
  <1>2. lpc = "parse" /\ mtx = Loop /\ Receiving /\ ResponseAt(rxbuf)
    BY DEF Inv, MutexInv, LoopSection, ResponseNext
  <1>3. /\ 2 \in 0..Len(rxbuf) /\ rxbuf[1].of \in Owners(rxbuf)
        /\ Results(SubSeq(rxbuf, 1, 2)) = {}
    BY <1>1, <1>2, FrontFacts
  <1>4. state.msg = rxbuf[1].of
    BY <1>2, <1>3, PendingIsState DEF AnswerInv, OwnersInv
  <1> DEFINE m == state.msg
             c == m.client
  <1>5. m \in Msgs /\ c \in Clients /\ Request(c) = m
    BY <1>2, StateIsPending
  <1>6. respOf'[c] = m /\ \A d \in Clients \ {c} : respOf'[d] = respOf[d]
    BY <1>1, <1>4, <1>5
  <1> HIDE DEF m, c
  <1>7. /\ OrderInv' /\ Owners(rxbuf') \subseteq Owners(rxbuf)
        /\ Results(rxbuf') = Results(rxbuf)
    BY <1>1, <1>3, TakeFacts DEF AnswerInv
  <1>8. UNCHANGED <<state, next, lpc, haveResult, clientVars, frcOf, tty, outbox>>
    OBVIOUS
  <1>9. \A d \in Clients : Pending(d)' = Pending(d) /\ Request(d)' = Request(d)
    BY <1>8 DEF Pending, Request
  <1>10. OwnersInv'
    BY <1>7, <1>8, <1>9, SamePending DEF AnswerInv, OwnersInv
  <1>11. KeptInv'
    BY <1>7, <1>8, <1>9 DEF AnswerInv, KeptInv
  <1>12. FilledInv'
    BY <1>2, <1>6, <1>7, <1>8 DEF AnswerInv, FilledInv, m, c, Receiving
  <1>13. VerdictInv'
    BY <1>2, <1>8 DEF VerdictInv
  <1>14. ReturnInv'
    <2> SUFFICES ASSUME NEW d \in Clients
                 PROVE  /\ respOf'[d] \in {NoMsg, Request(d)'}
                        /\ Answered(d) => Answered(d)'
      BY <1>8, <1>9 DEF AnswerInv, ReturnInv
    <2>1. CASE d = c
      BY <1>5, <1>6, <1>8, <1>9, <2>1 DEF Answered
    <2>2. CASE d # c
      BY <1>6, <1>8, <1>9, <2>2 DEF AnswerInv, ReturnInv, Answered
    <2> QED
      BY <2>1, <2>2
  <1> QED
    BY <1>7, <1>10, <1>11, <1>12, <1>13, <1>14 DEF AnswerInv

\* So is the final result, and nothing of the answer is left behind it.
LEMMA TakeResultKeepsAnswer ==
    ASSUME Inv, AnswerInv, TakeResult
    PROVE  AnswerInv'
  <1> USE DEF TakeResult, fsmVars, clientVars, lineVars
  <1>1. TypeOK /\ rxbuf \in Seq(Posted) /\ frcOf \in [Clients -> Msgs \cup {NoMsg}]
    BY DEF Inv, TypeOK
  <1>2. lpc = "parse" /\ mtx = Loop /\ Receiving /\ ResultAt(rxbuf)
    BY DEF Inv, MutexInv, LoopSection, ResultNext
  <1>3. /\ 2 \in 0..Len(rxbuf) /\ rxbuf[1].of \in Owners(rxbuf)
        /\ Results(SubSeq(rxbuf, 1, 2)) = {rxbuf[1].of} /\ Ended(SubSeq(rxbuf, 1, 2))
    BY <1>1, <1>2, FrontFacts
  <1>4. state.msg = rxbuf[1].of
    BY <1>2, <1>3, PendingIsState DEF AnswerInv, OwnersInv
  <1> DEFINE m == state.msg
             c == m.client
  <1>5. m \in Msgs /\ c \in Clients /\ Request(c) = m
    BY <1>2, StateIsPending
  <1>6. frcOf'[c] = m /\ \A d \in Clients \ {c} : frcOf'[d] = frcOf[d]
    BY <1>1, <1>4, <1>5
  <1>7. Results(SubSeq(rxbuf, 1, 2)) = {m}
    BY <1>3, <1>4
  <1> HIDE DEF m, c
  <1>8. /\ OrderInv'
        /\ Results(rxbuf) = {m} \cup Results(rxbuf')
        /\ Owners(rxbuf') = {} /\ Owners(tty) = {} /\ Owners(outbox) = {}
    BY <1>1, <1>3, <1>7, TakeFacts DEF AnswerInv
  <1>9. UNCHANGED <<state, next, lpc, haveResponse, clientVars, respOf, tty, outbox>>
    OBVIOUS
  <1>10. \A d \in Clients : Pending(d)' = Pending(d) /\ Request(d)' = Request(d)
    BY <1>9 DEF Pending, Request
  <1>11. OwnersInv'
    BY <1>8, <1>9 DEF OwnersInv
  <1>12. KeptInv'
    <2> SUFFICES ASSUME NEW d \in Clients, Pending(d)
                 PROVE  \/ Request(d) \in Results(rxbuf') \cup Results(tty) \cup Results(outbox)
                        \/ frcOf'[d] = Request(d)
      BY <1>9, <1>10 DEF KeptInv
    <2>1. CASE d = c
      BY <1>5, <1>6, <2>1
    <2>2. CASE d # c
      <3>1. m = Request(d)
        BY <1>2, PendingIsState DEF PendingRequests, m
      <3>2. Request(d).client = d /\ Request(c).client = c
        BY DEF Request
      <3> QED
        BY <1>5, <2>2, <3>1, <3>2
    <2> QED
      BY <2>1, <2>2
  <1>13. FilledInv'
    BY <1>2, <1>6, <1>8, <1>9 DEF AnswerInv, FilledInv, m, c, Receiving
  <1>14. VerdictInv'
    BY <1>2, <1>9 DEF VerdictInv
  <1>15. ReturnInv'
    <2> SUFFICES ASSUME NEW d \in Clients
                 PROVE  /\ frcOf'[d] \in {NoMsg, Request(d)'}
                        /\ Answered(d) => Answered(d)'
      BY <1>9, <1>10 DEF AnswerInv, ReturnInv
    <2>1. CASE d = c
      BY <1>5, <1>6, <1>9, <1>10, <2>1 DEF Answered
    <2>2. CASE d # c
      BY <1>6, <1>9, <1>10, <2>2 DEF AnswerInv, ReturnInv, Answered
    <2> QED
      BY <2>1, <2>2
  <1> QED
    BY <1>8, <1>11, <1>12, <1>13, <1>14, <1>15 DEF AnswerInv

\* The dispatcher never takes a final result: one that is owned is the pending
\* call's, and that call takes it first.
LEMMA TakeUrcKeepsAnswer ==
    ASSUME Inv, AnswerInv, TakeUrc
    PROVE  AnswerInv'
  <1> USE DEF TakeUrc, fsmVars, clientVars, answerVars, lineVars
  <1>1. TypeOK /\ rxbuf \in Seq(Posted)
    BY DEF Inv, TypeOK
  <1>2. lpc = "parse" /\ mtx = Loop
    BY DEF Inv, MutexInv, LoopSection
  <1>3. ~ResultAt(rxbuf)
    <2> SUFFICES ASSUME ResultAt(rxbuf) PROVE FALSE
      OBVIOUS
    <2>1. rxbuf[1].of \in Owners(rxbuf)
      BY <1>1, FrontFacts
    <2>2. Receiving
      BY <1>2, <2>1, PendingIsState DEF AnswerInv, OwnersInv
    <2>3. haveResult
      BY <2>2 DEF UrcNext, ResultNext
    <2> QED
      BY <1>2, <2>1, <2>2, <2>3 DEF AnswerInv, FilledInv
  <1>4. UrcLen(rxbuf) \in 0..Len(rxbuf) /\ Results(SubSeq(rxbuf, 1, UrcLen(rxbuf))) = {}
    BY <1>1, <1>3, UrcLenBound, FrontFacts
  <1>5. /\ OrderInv' /\ Owners(rxbuf') \subseteq Owners(rxbuf)
        /\ Results(rxbuf') = Results(rxbuf)
    BY <1>1, <1>4, TakeFacts DEF AnswerInv
  <1>6. UNCHANGED <<state, next, lpc, haveResponse, haveResult, clientVars, answerVars,
                    tty, outbox>>
    OBVIOUS
  <1>7. \A d \in Clients : /\ Pending(d)' = Pending(d) /\ Request(d)' = Request(d)
                          /\ Answered(d)' = Answered(d)
    BY <1>6 DEF Pending, Request, Answered
  <1>8. OwnersInv' /\ KeptInv'
    BY <1>5, <1>6, <1>7, SamePending DEF AnswerInv, OwnersInv, KeptInv
  <1>9. FilledInv' /\ VerdictInv'
    BY <1>2, <1>5, <1>6 DEF AnswerInv, FilledInv, VerdictInv, Receiving
  <1>10. ReturnInv'
    BY <1>6, <1>7 DEF AnswerInv, ReturnInv
  <1> QED
    BY <1>5, <1>8, <1>9, <1>10 DEF AnswerInv
\* The caller that is let go has its answer, and the line holds no more of it.
LEMMA ParseDoneKeepsAnswer ==
    ASSUME Inv, AnswerInv, ParseDone
    PROVE  AnswerInv'
  <1> USE DEF ParseDone
  <1>1. TypeOK
    BY DEF Inv
  <1>2. lpc = "parse" /\ lpc' = "store" /\ mtx = Loop
    BY DEF Inv, MutexInv, LoopSection
  <1>3. UNCHANGED <<state, rxbuf, tty, outbox, pc, call, wants, failed, respOf, frcOf>>
    BY DEF answerVars, lineVars
  <1>4. \A d \in Clients : Request(d)' = Request(d) /\ Answered(d)' = Answered(d)
    BY <1>3 DEF Request, Answered
  <1>5. OrderInv'
    BY <1>3 DEF AnswerInv, OrderInv
  <1>6. CASE Receiving /\ Complete
    <2> DEFINE m == state.msg
               c == m.client
    <2>1. m \in Msgs /\ c \in Clients /\ Request(c) = m /\ Pending(c)
      BY <1>2, <1>6, StateIsPending
    <2>2. /\ frcOf[c] = m /\ (m.wants => respOf[c] = m)
          /\ Owners(rxbuf) = {} /\ Owners(tty) = {} /\ Owners(outbox) = {}
      BY <1>2, <1>6 DEF AnswerInv, FilledInv, Complete
    <2>3. sem' = [sem EXCEPT ![c] = @ + 1]
      BY <1>6
    <2> HIDE DEF m, c
    <2>4. Answered(c)
      BY <2>1, <2>2 DEF Answered, Request
    <2>5. sem'[c] = 1 /\ \A d \in Clients \ {c} : sem'[d] = sem[d]
      BY <1>1, <2>1, <2>3 DEF TypeOK, Pending
    <2>6. \A d \in Clients : Pending(d)' => Pending(d)
      BY <1>3, <2>5 DEF Pending
    <2>7. OwnersInv'
      BY <1>3, <2>2 DEF OwnersInv
    <2>8. KeptInv'
      BY <1>3, <1>4, <2>6 DEF AnswerInv, KeptInv
    <2>9. VerdictInv'
      <3>1. m.call <= call[c]
        BY <1>1, <2>1 DEF Request, Msgs, TypeOK
      <3> QED
        BY <1>3, <1>4, <2>1, <2>4, <3>1 DEF VerdictInv, m, c
    <2>10. ReturnInv'
      <3> SUFFICES ASSUME NEW d \in Clients,
                          sem'[d] > 0 \/ (pc'[d] = "out" /\ call'[d] > 0)
                   PROVE  Answered(d)
        BY <1>3, <1>4 DEF AnswerInv, ReturnInv
      <3>1. CASE d = c
        BY <2>4, <3>1
      <3>2. CASE d # c
        BY <1>3, <2>5, <3>2 DEF AnswerInv, ReturnInv
      <3> QED
        BY <3>1, <3>2
    <2> QED
      BY <1>2, <1>5, <2>7, <2>8, <2>9, <2>10 DEF AnswerInv, FilledInv
  <1>7. CASE ~(Receiving /\ Complete)
    <2>1. sem' = sem /\ next' = state
      BY <1>7 DEF AfterRxReady
    <2>2. \A d \in Clients : Pending(d)' = Pending(d)
      BY <1>3, <2>1 DEF Pending
    <2>3. OwnersInv' /\ KeptInv'
      BY <1>3, <1>4, <2>2, SamePending DEF AnswerInv, OwnersInv, KeptInv
    <2>4. VerdictInv'
      BY <1>3, <2>1 DEF VerdictInv
    <2>5. ReturnInv'
      BY <1>3, <1>4, <2>1 DEF AnswerInv, ReturnInv
    <2> QED
      BY <1>2, <1>5, <2>3, <2>4, <2>5 DEF AnswerInv, FilledInv
  <1> QED
    BY <1>6, <1>7

\* handle stores the next state and wakes callers up at the gate.
LEMMA LoopStoreKeepsAnswer ==
    ASSUME Inv, AnswerInv, LoopStore
    PROVE  AnswerInv'
  <1> USE DEF LoopStore, answerVars, lineVars
  <1>1. lpc' = "get"
    OBVIOUS
  <1>2. UNCHANGED <<rxbuf, tty, outbox, call, wants, sem, failed, respOf, frcOf>>
    OBVIOUS
  <1>3. \A d \in Clients : pc'[d] = pc[d] \/ (pc[d] = "cond" /\ pc'[d] = "relock")
    BY DEF Inv, TypeOK, Woken
  <1>4. \A d \in Clients : /\ Pending(d)' = Pending(d) /\ Request(d)' = Request(d)
                          /\ Answered(d)' = Answered(d)
    BY <1>2, <1>3 DEF Pending, Request, Answered
  <1>5. OwnersInv' /\ OrderInv' /\ KeptInv'
    BY <1>2, <1>4, SamePending DEF AnswerInv, OwnersInv, OrderInv, KeptInv
  <1>6. FilledInv' /\ VerdictInv'
    BY <1>1 DEF FilledInv, VerdictInv
  <1>7. ReturnInv'
    BY <1>2, <1>3, <1>4 DEF AnswerInv, ReturnInv
  <1> QED
    BY <1>5, <1>6, <1>7 DEF AnswerInv

\* The line delivers in order.
LEMMA ModemEmitKeepsAnswer ==
    ASSUME Inv, AnswerInv, ModemEmit
    PROVE  AnswerInv'
  <1> USE DEF ModemEmit, fsmVars, loopVars, clientVars, answerVars
  <1>1. tty \in Seq(Posted) /\ outbox \in Seq(Posted) /\ Len(outbox) \in Nat
    BY DEF Inv, TypeOK
  <1>2. PICK n \in 0..Len(outbox) :
           tty' = tty \o SubSeq(outbox, 1, n) /\ outbox' = Drop(outbox, n)
    <2>1. PICK n \in (IF Chunked THEN 1 ELSE Len(outbox))..Len(outbox) :
             tty' = tty \o SubSeq(outbox, 1, n) /\ outbox' = Drop(outbox, n)
      OBVIOUS
    <2>2. n \in 0..Len(outbox)
      BY <1>1, <2>1
    <2> QED
      BY <2>1, <2>2
  <1> DEFINE p == SubSeq(outbox, 1, n)
             d == Drop(outbox, n)
             b == tty \o p
  <1>3. p \in Seq(Posted) /\ d \in Seq(Posted) /\ outbox = p \o d
    BY <1>1, CutFacts
  <1>4. tty' = b /\ outbox' = d
    BY <1>2
  <1> HIDE DEF p, d
  <1>5. /\ Owners(outbox) = Owners(p) \cup Owners(d)
        /\ Results(outbox) = Results(p) \cup Results(d)
        /\ ResultLast(outbox) <=>
              ResultLast(p) /\ ResultLast(d) /\ (Ended(p) => Owners(d) = {})
    BY <1>3, JoinFacts
  <1>6. /\ Owners(b) = Owners(tty) \cup Owners(p)
        /\ Results(b) = Results(tty) \cup Results(p)
        /\ Ended(b) <=> Ended(tty) \/ Ended(p)
        /\ ResultLast(b) <=>
              ResultLast(tty) /\ ResultLast(p) /\ (Ended(tty) => Owners(p) = {})
    BY <1>1, <1>3, JoinFacts
  <1> HIDE DEF b
  <1>7. UNCHANGED <<state, next, lpc, haveResponse, haveResult, rxbuf, clientVars,
                    answerVars>>
    OBVIOUS
  <1>8. \A c \in Clients : /\ Pending(c)' = Pending(c) /\ Request(c)' = Request(c)
                          /\ Answered(c)' = Answered(c)
    BY <1>7 DEF Pending, Request, Answered
  <1>9. OwnersInv'
    BY <1>4, <1>5, <1>6, <1>7, <1>8, SamePending DEF AnswerInv, OwnersInv
  <1>10. OrderInv'
    BY <1>4, <1>5, <1>6, <1>7 DEF AnswerInv, OrderInv
  <1>11. KeptInv'
    BY <1>4, <1>5, <1>6, <1>7, <1>8 DEF AnswerInv, KeptInv
  <1>12. FilledInv'
    <2>1. Owners(tty) = {} /\ Owners(outbox) = {} => Owners(tty') = {} /\ Owners(outbox') = {}
      BY <1>4, <1>5, <1>6
    <2> QED
      BY <1>7, <2>1 DEF AnswerInv, FilledInv, Receiving
  <1>13. VerdictInv'
    BY <1>7 DEF AnswerInv, VerdictInv, Receiving, Answered, Request
  <1>14. ReturnInv'
    BY <1>7, <1>8 DEF AnswerInv, ReturnInv
  <1> QED
    BY <1>9, <1>10, <1>11, <1>12, <1>13, <1>14 DEF AnswerInv

\* A URC owns nothing, wherever it squeezes in.
LEMMA ModemUrcKeepsAnswer ==
    ASSUME Inv, AnswerInv, ModemUrc
    PROVE  AnswerInv'
  <1> USE DEF ModemUrc, fsmVars, loopVars, clientVars, answerVars
  <1> DEFINE b == Urc \o outbox
  <1>1. outbox \in Seq(Posted) /\ outbox' = b
    BY DEF Inv, TypeOK
  <1>2. /\ Owners(b) = Owners(outbox)
        /\ Results(b) = Results(outbox)
        /\ ResultLast(b) <=> ResultLast(outbox)
    <2> DEFINE u == Urc
    <2>1. /\ u \in Seq(Posted)
          /\ Owners(u) = {} /\ Results(u) = {} /\ ~Ended(u) /\ ResultLast(u)
      BY RecordFacts
    <2> HIDE DEF u
    <2>2. /\ Owners(u \o outbox) = Owners(u) \cup Owners(outbox)
          /\ Results(u \o outbox) = Results(u) \cup Results(outbox)
          /\ ResultLast(u \o outbox) <=>
                ResultLast(u) /\ ResultLast(outbox) /\ (Ended(u) => Owners(outbox) = {})
      BY <1>1, <2>1, JoinFacts
    <2> QED
      BY <2>1, <2>2 DEF u
  <1> HIDE DEF b
  <1>3. UNCHANGED <<state, next, lpc, haveResponse, haveResult, rxbuf, tty, clientVars,
                    answerVars>>
    OBVIOUS
  <1>4. \A c \in Clients : /\ Pending(c)' = Pending(c) /\ Request(c)' = Request(c)
                          /\ Answered(c)' = Answered(c)
    BY <1>3 DEF Pending, Request, Answered
  <1>5. OwnersInv' /\ OrderInv' /\ KeptInv'
    BY <1>1, <1>2, <1>3, <1>4, SamePending DEF AnswerInv, OwnersInv, OrderInv, KeptInv
  <1>6. FilledInv'
    BY <1>1, <1>2, <1>3 DEF AnswerInv, FilledInv, Receiving
  <1>7. VerdictInv'
    BY <1>3 DEF AnswerInv, VerdictInv, Receiving, Answered, Request
  <1>8. ReturnInv'
    BY <1>3, <1>4 DEF AnswerInv, ReturnInv
  <1> QED
    BY <1>5, <1>6, <1>7, <1>8 DEF AnswerInv
LEMMA AnswerStep == Inv /\ AnswerInv /\ [Next]_vars => AnswerInv'
  <1> SUFFICES ASSUME Inv, AnswerInv, [Next]_vars PROVE AnswerInv'
    OBVIOUS
  <1>1. CASE LoopGet \/ LoopLock \/ Poll \/ ShutDown \/ Quiet \/ UNCHANGED vars
    BY <1>1, IdleStepKeepsAnswer
       DEF LoopGet, LoopLock, Poll, ShutDown, Quiet, vars, fsmVars, loopVars, lineVars
  <1>2. CASE LoopStep /\ ~LoopGet /\ ~LoopLock
    BY <1>2, LoopReadKeepsAnswer, TakeResponseKeepsAnswer, TakeResultKeepsAnswer,
       TakeUrcKeepsAnswer, ParseDoneKeepsAnswer, LoopStoreKeepsAnswer DEF LoopStep
  <1>3. CASE ModemEmit \/ ModemUrc
    BY <1>3, ModemEmitKeepsAnswer, ModemUrcKeepsAnswer
  <1>4. ASSUME NEW c \in Clients, Call(c) \/ SpuriousWake(c) \/ ClientStep(c)
        PROVE  AnswerInv'
    BY <1>4, CallKeepsAnswer, GateKeepsAnswer, ProcessKeepsAnswer, EndKeepsAnswer
       DEF ClientStep
  <1> QED
    BY <1>1, <1>2, <1>3, <1>4 DEF Next

LEMMA AnswerInit == Init => AnswerInv
  <1> SUFFICES ASSUME Init PROVE AnswerInv
    OBVIOUS
  <1>1. Len(<< >>) = 0
    OBVIOUS
  <1>2. Owners(<< >>) = {} /\ ~Ended(<< >>) /\ ResultLast(<< >>)
    BY <1>1 DEF Owners, Ended, ResultLast
  <1>3. OwnersInv /\ OrderInv
    BY <1>2 DEF Init, OwnersInv, OrderInv
  <1>4. KeptInv /\ FilledInv /\ VerdictInv /\ ReturnInv
    BY DEF Init, KeptInv, Pending, FilledInv, VerdictInv, ReturnInv
  <1> QED
    BY <1>3, <1>4 DEF AnswerInv

-----------------------------------------------------------------------------
(* What callers rely on, for every value of the constants.                   *)

\* The invariant holds of every behaviour, beside that of OrchestratorProofs.
THEOREM SpecAnswerInv == Spec => [](Inv /\ AnswerInv)
  <1>1. Init => Inv /\ AnswerInv
    BY InvInit, AnswerInit
  <1>2. (Inv /\ AnswerInv) /\ [Next]_vars => (Inv /\ AnswerInv)'
    BY InvStep, AnswerStep
  <1> QED
    BY <1>1, <1>2, PTL DEF Spec

\* A call's objects are filled from its own answer only, and a call that returns
\* NoError has its final result and the response it asked for.
THEOREM SpecOwnAnswer == Spec => []OwnAnswer
  <1>1. AnswerInv => OwnAnswer
    BY DEF AnswerInv, ReturnInv, Answered, OwnAnswer
  <1> QED
    BY <1>1, SpecAnswerInv, PTL

\* The final result a blocked caller waits for is on the line, in the kernel, in
\* the buffer, or parsed: no handler drops it and no dispatcher swallows it.
THEOREM SpecResultKept == Spec => []ResultKept
  <1>1. Inv /\ AnswerInv => ResultKept
    <2> SUFFICES ASSUME Inv, AnswerInv, NEW c \in Clients, Served(c)
                 PROVE  \/ Holds(outbox, Request(c)) \/ Holds(tty, Request(c))
                        \/ Holds(rxbuf, Request(c)) \/ frcOf[c] = Request(c)
      BY DEF ResultKept
    <2>1. Pending(c)
      BY DEF Served, Pending
    <2>2. ASSUME NEW s \in Seq(Posted), Request(c) \in Results(s)
          PROVE  Holds(s, Request(c))
      <3>1. PICK i \in 1..Len(s) : s[i].part = "F1" /\ s[i].of = Request(c)
        BY <2>2 DEF Results
      <3>2. s[i] \in Posted
        BY <3>1, ElementOfSeq
      <3>3. s[i] = Part("F1", Request(c))
        BY <3>1, <3>2 DEF Posted, Part
      <3> QED
        BY <3>1, <3>3 DEF Holds
    <2>3. rxbuf \in Seq(Posted) /\ tty \in Seq(Posted) /\ outbox \in Seq(Posted)
      BY DEF Inv, TypeOK
    <2> QED
      BY <2>1, <2>2, <2>3 DEF AnswerInv, KeptInv
  <1> QED
    BY <1>1, SpecAnswerInv, PTL

\* The machine gives a request up for Idle only, and only when it is answered.
THEOREM SpecServedUntilAnswered == Spec => ServedUntilAnswered
  <1> DEFINE Verdict ==
        Receiving /\ state' # state =>
          /\ state' = Idle
          /\ LET m == state.msg
             IN (Request(m.client) = m) =>
                   frcOf[m.client] = m /\ (m.wants => respOf[m.client] = m)
  <1>1. Inv /\ AnswerInv /\ [Next]_vars => Verdict
    <2> SUFFICES ASSUME Inv, AnswerInv, [Next]_vars, Receiving, state' # state
                 PROVE  /\ state' = Idle
                        /\ Request(state.msg.client) = state.msg =>
                              /\ frcOf[state.msg.client] = state.msg
                              /\ state.msg.wants => respOf[state.msg.client] = state.msg
      OBVIOUS
    <2>1. LoopStore
      <3>1. ASSUME NEW c \in Clients PROVE ~Store(c)
        BY StateShapes DEF Inv, ClientInv, Store
      <3> QED
        BY <3>1 DEF Next, ClientStep, LoopStep, Call, SpuriousWake, Lock, GateWait,
           GatePass, Process, Unlock, Acquire, LoopGet, LoopLock, LoopRead,
           TakeResponse, TakeResult, TakeUrc, ParseDone, Poll, ShutDown, ModemEmit,
           ModemUrc, Quiet, vars, fsmVars
    <2>2. lpc = "store" /\ next # state /\ state' = next
      BY <2>1 DEF LoopStore
    <2>3. state' = Idle
      BY <2>2 DEF Inv, LoopInv
    <2>4. Request(state.msg.client) = state.msg => Answered(state.msg.client)
      BY <2>2 DEF AnswerInv, VerdictInv
    <2>5. Request(state.msg.client).wants = wants[state.msg.client]
      BY DEF Request
    <2> QED
      BY <2>3, <2>4, <2>5 DEF Answered
  <1> QED
    BY <1>1, SpecAnswerInv, PTL DEF Spec, ServedUntilAnswered
=============================================================================
