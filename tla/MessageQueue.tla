---------------------------- MODULE MessageQueue ----------------------------
(* Platform::Impl::Linux::MessageQueue: an unbounded FIFO under a mutex with  *)
(* one condition variable.  Each section under the mutex is one action; put   *)
(* notifies after it has left the mutex, so the wake-up is an action of its   *)
(* own.  The orchestrator's event queue has several producers (poller, timer, *)
(* callers of shutDown) and one consumer; the class allows several.           *)
EXTENDS Naturals, Sequences, FiniteSets

CONSTANTS
    Producers,  \* threads that put
    Consumers,  \* threads that get
    MaxPuts     \* bound: messages each producer puts

ASSUME QueueAssumption ==
    /\ Producers \cap Consumers = {}
    /\ IsFiniteSet(Producers) /\ IsFiniteSet(Consumers)
    /\ MaxPuts \in Nat

VARIABLES
    queue,  \* messages <<producer, n>>, oldest first
    ppc,    \* producer: "out" or "notify" (pushed, about to notify_one)
    cpc,    \* consumer: "out", "test" (awake in get), "asleep" (in condvar.wait)
    sent,   \* messages each producer has put
    got,    \* history: the messages handed out, in this order
    urgent  \* has some message overtaken others by putFront?

vars == <<queue, ppc, cpc, sent, got, urgent>>

Asleep == {c \in Consumers : cpc[c] = "asleep"}
Awake == {c \in Consumers : cpc[c] = "test"}
Notifying == {p \in Producers : ppc[p] = "notify"}

-----------------------------------------------------------------------------
\* put and putFront: push under the mutex, notify later.
Push(p, q) ==
    /\ ppc[p] = "out"
    /\ sent[p] < MaxPuts
    /\ queue' = q
    /\ sent' = [sent EXCEPT ![p] = @ + 1]
    /\ ppc' = [ppc EXCEPT ![p] = "notify"]
    /\ UNCHANGED <<cpc, got>>

Put_AtFront(p) ==
    /\ Push(p, << <<p, sent[p] + 1>> >> \o queue)
    /\ UNCHANGED urgent

Put(p) ==
    /\ Push(p, Append(queue, <<p, sent[p] + 1>>))
    /\ UNCHANGED urgent

PutFront(p) ==
    /\ Push(p, << <<p, sent[p] + 1>> >> \o queue)
    /\ urgent' = TRUE

\* condvar.notify_one(): one sleeper, if there is any, is to test the queue.
Woken_Never(c) == FALSE
Woken_WhenSingle(c) == Len(queue) = 1 /\ cpc[c] = "asleep"
Woken(c) == cpc[c] = "asleep"

NotifyOne(p) ==
    /\ ppc[p] = "notify"
    /\ ppc' = [ppc EXCEPT ![p] = "out"]
    /\ IF \E c \in Consumers : Woken(c)
       THEN \E c \in Consumers : Woken(c) /\ cpc' = [cpc EXCEPT ![c] = "test"]
       ELSE UNCHANGED cpc
    /\ UNCHANGED <<queue, sent, got, urgent>>

CallGet(c) ==
    /\ cpc[c] = "out"
    /\ cpc' = [cpc EXCEPT ![c] = "test"]
    /\ UNCHANGED <<queue, ppc, sent, got, urgent>>

\* The predicate of condvar.wait: only an empty queue puts the caller to sleep.
MustWait == queue = << >>

Sleep(c) ==
    /\ cpc[c] = "test"
    /\ MustWait
    /\ cpc' = [cpc EXCEPT ![c] = "asleep"]
    /\ UNCHANGED <<queue, ppc, sent, got, urgent>>

SpuriousWake(c) ==
    /\ cpc[c] = "asleep"
    /\ cpc' = [cpc EXCEPT ![c] = "test"]
    /\ UNCHANGED <<queue, ppc, sent, got, urgent>>

\* std::move(queue.front()), pop_front()
Taken(q) == Head(q)
Rest_Keeps(q) == q
Rest_Clears(q) == << >>
Rest(q) == Tail(q)

Pop(c) ==
    /\ cpc[c] = "test"
    /\ ~MustWait
    /\ queue' = Rest(queue)
    /\ got' = Append(got, Taken(queue))
    /\ cpc' = [cpc EXCEPT ![c] = "out"]
    /\ UNCHANGED <<ppc, sent, urgent>>

-----------------------------------------------------------------------------
Init ==
    /\ queue = << >>
    /\ ppc = [p \in Producers |-> "out"]
    /\ cpc = [c \in Consumers |-> "out"]
    /\ sent = [p \in Producers |-> 0]
    /\ got = << >>
    /\ urgent = FALSE

Get(c) == Sleep(c) \/ Pop(c)

Next ==
    \/ \E p \in Producers : Put(p) \/ PutFront(p) \/ NotifyOne(p)
    \/ \E c \in Consumers : CallGet(c) \/ Sleep(c) \/ SpuriousWake(c) \/ Pop(c)

Spec == Init /\ [][Next]_vars

\* Threads inside put and get run on, and consumers call get again, as loop()
\* does; nobody has to put, and nobody has to be woken spuriously.
Fairness ==
    /\ \A p \in Producers : WF_vars(NotifyOne(p))
    /\ \A c \in Consumers : WF_vars(Get(c)) /\ WF_vars(CallGet(c))

FairSpec == Spec /\ Fairness

-----------------------------------------------------------------------------
(* Properties.                                                              *)

Messages == Producers \X (1..MaxPuts)

\* Types; a producer's messages are numbered in the order it put them.
TypeOK ==
    /\ queue \in Seq(Messages)
    /\ ppc \in [Producers -> {"out", "notify"}]
    /\ cpc \in [Consumers -> {"out", "test", "asleep"}]
    /\ sent \in [Producers -> 0..MaxPuts]
    /\ got \in Seq(Messages)
    /\ urgent \in BOOLEAN

\* put notifies one sleeper after it has left the mutex.  Nevertheless no wake-up
\* is lost: while somebody sleeps there are at least as many threads about to
\* notify or about to test the queue as there are messages.
NoLostWakeup ==
    Asleep # {} => Len(queue) <= Cardinality(Notifying) + Cardinality(Awake)

\* A message is handed out once, to one consumer, and none is lost or invented: the
\* messages handed out and those still queued are the messages put, each once.
GotOrQueued == got \o queue
WasPut == {m \in Messages : m[2] <= sent[m[1]]}
HandedOutOnce ==
    /\ \A i, j \in 1..Len(GotOrQueued) :
          GotOrQueued[i] = GotOrQueued[j] => i = j
    /\ {GotOrQueued[i] : i \in 1..Len(GotOrQueued)} = WasPut

\* Without putFront, a message is handed out only after every message its producer
\* has put before it, whichever consumers take them.
InOrder ==
    ~urgent =>
        \A i \in 1..Len(got), m \in WasPut :
            m[1] = got[i][1] /\ m[2] < got[i][2] => \E k \in 1..(i - 1) : got[k] = m

\* What is put is got.
Drained == queue # << >> ~> queue = << >>
=============================================================================
