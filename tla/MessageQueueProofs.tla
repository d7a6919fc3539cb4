-------------------------- MODULE MessageQueueProofs --------------------------
(* What MessageQueue promises, for any number of producers, consumers and     *)
(* messages.  Three arguments: counting (threads that will look against       *)
(* messages that wait); that what was got followed by what is queued only     *)
(* changes when a message is put, which inserts one that was not there; and,  *)
(* as long as nobody calls putFront, that it is in order.                     *)
EXTENDS MessageQueue, FiniteSetTheorems, TLAPS

\* Without putFront the messages got and then those queued are in order.
Ordered ==
    ~urgent =>
        \A i, j \in 1..Len(GotOrQueued) :
            i < j /\ GotOrQueued[i][1] = GotOrQueued[j][1]
                => GotOrQueued[i][2] < GotOrQueued[j][2]

-----------------------------------------------------------------------------
\* What put does to the queue: one message more at the back ...
LEMMA AppendFacts ==
    ASSUME NEW S, NEW q \in Seq(S), NEW m \in S
    PROVE  /\ Append(q, m) \in Seq(S) /\ Len(Append(q, m)) = Len(q) + 1
           /\ \A i \in 1..Len(q) : Append(q, m)[i] = q[i]
           /\ Append(q, m)[Len(q) + 1] = m
  OBVIOUS

\* ... or at the front, which moves the others back by one.
LEMMA PrependFacts ==
    ASSUME NEW S, NEW q \in Seq(S), NEW m \in S
    PROVE  /\ <<m>> \o q \in Seq(S) /\ Len(<<m>> \o q) = Len(q) + 1
           /\ \A i \in 1..Len(q) : (<<m>> \o q)[i + 1] = q[i]
           /\ (<<m>> \o q)[1] = m
  OBVIOUS

\* pop_front moves the others one to the front.
LEMMA TailFacts ==
    ASSUME NEW S, NEW q \in Seq(S), q # << >>
    PROVE  /\ Tail(q) \in Seq(S) /\ Len(Tail(q)) = Len(q) - 1 /\ Len(q) > 0
           /\ Head(q) = q[1] /\ q[1] \in S
           /\ \A i \in 1..Len(Tail(q)) : Tail(q)[i] = q[i + 1]
  OBVIOUS

-----------------------------------------------------------------------------
LEMMA TypeInit == Init => TypeOK
  <1> SUFFICES ASSUME Init PROVE TypeOK
    OBVIOUS
  <1>1. urgent \in BOOLEAN
    BY Zenon DEF Init
  <1>2. queue \in Seq(Messages)
    BY DEF Init
  <1>3. 0 \in 0..MaxPuts
    BY QueueAssumption
  <1> QED  BY <1>1, <1>2, <1>3 DEF Init, TypeOK

\* The message that put makes of the producer and its next number.
LEMMA NewMessage ==
    ASSUME TypeOK, NEW p \in Producers, sent[p] < MaxPuts
    PROVE  <<p, sent[p] + 1>> \in Messages
  BY QueueAssumption DEF TypeOK, Messages

LEMMA TypeStep == TypeOK /\ [Next]_vars => TypeOK'
  <1> SUFFICES ASSUME TypeOK, [Next]_vars PROVE TypeOK'
    OBVIOUS
  <1> USE DEF TypeOK
  <1> USE QueueAssumption
  <1>1. ASSUME NEW p \in Producers, Put(p) PROVE TypeOK'
    <2>1. <<p, sent[p] + 1>> \in Messages
      BY <1>1, NewMessage DEF Put, Push
    <2>2. queue' \in Seq(Messages)
      BY <1>1, <2>1, AppendFacts DEF Put, Push
    <2> QED  BY <1>1, <2>2 DEF Put, Push
  <1>2. ASSUME NEW p \in Producers, PutFront(p) PROVE TypeOK'
    <2>1. <<p, sent[p] + 1>> \in Messages
      BY <1>2, NewMessage DEF PutFront, Push
    <2>2. queue' \in Seq(Messages)
      BY <1>2, <2>1, PrependFacts DEF PutFront, Push
    <2> QED  BY <1>2, <2>2 DEF PutFront, Push
  <1>3. ASSUME NEW p \in Producers, NotifyOne(p) PROVE TypeOK'
    BY <1>3 DEF NotifyOne, Woken
  <1>4. ASSUME NEW c \in Consumers, CallGet(c) \/ Sleep(c) \/ SpuriousWake(c)
        PROVE  TypeOK'
    BY <1>4 DEF CallGet, Sleep, SpuriousWake
  <1>5. ASSUME NEW c \in Consumers, Pop(c) PROVE TypeOK'
    <2>1. queue # << >>
      BY <1>5 DEF Pop, MustWait
    <2>2. queue' \in Seq(Messages) /\ Head(queue) \in Messages
      BY <1>5, <2>1, TailFacts DEF Pop, Rest
    <2>3. got' \in Seq(Messages)
      BY <1>5, <2>2, AppendFacts DEF Pop, Taken
    <2> QED  BY <1>5, <2>2, <2>3 DEF Pop
  <1>6. CASE UNCHANGED vars
    BY <1>6 DEF vars
  <1> QED
    BY <1>1, <1>2, <1>3, <1>4, <1>5, <1>6 DEF Next

\* Types; a producer's messages are numbered up to what it has put.
THEOREM TypeCorrect == Spec => []TypeOK
  BY TypeInit, TypeStep, PTL DEF Spec

-----------------------------------------------------------------------------
\* The two sets that are counted are finite, and disjoint from each other's
\* steps: what happens to their sizes when one thread enters or leaves.
LEMMA Counts ==
    /\ IsFiniteSet(Notifying) /\ Cardinality(Notifying) \in Nat
    /\ IsFiniteSet(Awake) /\ Cardinality(Awake) \in Nat
  <1>1. Notifying \in SUBSET Producers /\ Awake \in SUBSET Consumers
    BY DEF Notifying, Awake
  <1> QED  BY <1>1, QueueAssumption, FS_Subset, FS_CardinalityType

LEMMA CountStep == TypeOK /\ NoLostWakeup /\ [Next]_vars => NoLostWakeup'
  <1> SUFFICES ASSUME TypeOK, NoLostWakeup, [Next]_vars PROVE NoLostWakeup'
    OBVIOUS
  <1>0. /\ IsFiniteSet(Notifying') /\ Cardinality(Notifying') \in Nat
        /\ IsFiniteSet(Awake') /\ Cardinality(Awake') \in Nat
    <2>1. Notifying' \in SUBSET Producers /\ Awake' \in SUBSET Consumers
      BY DEF Notifying, Awake
    <2> QED  BY <2>1, QueueAssumption, FS_Subset, FS_CardinalityType
  <1>1. ASSUME NEW p \in Producers, Put(p) \/ PutFront(p) PROVE NoLostWakeup'
    <2>1. Len(queue') = Len(queue) + 1 /\ Len(queue) \in Nat
      <3>1. <<p, sent[p] + 1>> \in Messages
        BY <1>1, NewMessage DEF Put, PutFront, Push
      <3> QED
        BY <1>1, <3>1, AppendFacts, PrependFacts DEF Put, PutFront, Push, TypeOK
    <2>2. p \notin Notifying /\ Notifying' = Notifying \cup {p}
      BY <1>1 DEF Put, PutFront, Push, Notifying, TypeOK
    <2>3. Awake' = Awake /\ Asleep' = Asleep
      BY <1>1 DEF Put, PutFront, Push, Awake, Asleep
    <2>4. Cardinality(Notifying') = Cardinality(Notifying) + 1
      BY <2>2, Counts, FS_AddElement
    <2> QED  BY <2>1, <2>3, <2>4, Counts DEF NoLostWakeup
  <1>2. ASSUME NEW p \in Producers, NotifyOne(p) PROVE NoLostWakeup'
    <2>1. p \in Notifying /\ Notifying' = Notifying \ {p} /\ queue' = queue
      BY <1>2 DEF NotifyOne, Notifying, TypeOK
    <2>2. Cardinality(Notifying') = Cardinality(Notifying) - 1
      BY <2>1, Counts, FS_RemoveElement
    <2>3. CASE Asleep = {}
      <3>1. Asleep' = {}
        BY <1>2, <2>3 DEF NotifyOne, Woken, Asleep
      <3> QED  BY <3>1 DEF NoLostWakeup
    <2>4. CASE Asleep # {}
      <3>1. PICK c \in Consumers : cpc[c] = "asleep" /\ cpc' = [cpc EXCEPT ![c] = "test"]
        BY <1>2, <2>4 DEF NotifyOne, Woken, Asleep
      <3>2. c \notin Awake /\ Awake' = Awake \cup {c}
        BY <3>1 DEF Awake, TypeOK
      <3>3. Cardinality(Awake') = Cardinality(Awake) + 1
        BY <3>2, Counts, FS_AddElement
      <3> QED  BY <2>1, <2>2, <2>4, <3>3, Counts DEF NoLostWakeup, TypeOK
    <2> QED  BY <2>3, <2>4
  <1>3. ASSUME NEW c \in Consumers, CallGet(c) \/ SpuriousWake(c)
        PROVE  NoLostWakeup'
    <2>1. /\ c \notin Awake /\ Awake' = Awake \cup {c}
          /\ Notifying' = Notifying /\ queue' = queue /\ Asleep' \subseteq Asleep
      BY <1>3 DEF CallGet, SpuriousWake, Awake, Notifying, Asleep, TypeOK
    <2>2. Cardinality(Awake') = Cardinality(Awake) + 1
      BY <2>1, Counts, FS_AddElement
    <2> QED  BY <2>1, <2>2, Counts DEF NoLostWakeup, TypeOK
  <1>4. ASSUME NEW c \in Consumers, Sleep(c) PROVE NoLostWakeup'
    <2>1. Len(queue') = 0
      BY <1>4 DEF Sleep, MustWait
    <2> QED  BY <2>1, <1>0 DEF NoLostWakeup
  <1>5. ASSUME NEW c \in Consumers, Pop(c) PROVE NoLostWakeup'
    <2>1. Len(queue') = Len(queue) - 1 /\ Len(queue) \in Nat
      BY <1>5, TailFacts DEF Pop, Rest, MustWait, TypeOK
    <2>2. /\ c \in Awake /\ Awake' = Awake \ {c}
          /\ Notifying' = Notifying /\ Asleep' = Asleep
      BY <1>5 DEF Pop, Awake, Notifying, Asleep, TypeOK
    <2>3. Cardinality(Awake') = Cardinality(Awake) - 1
      BY <2>2, Counts, FS_RemoveElement
    <2> QED  BY <2>1, <2>2, <2>3, Counts DEF NoLostWakeup
  <1>6. CASE UNCHANGED vars
    BY <1>6 DEF vars, NoLostWakeup, Asleep, Awake, Notifying
  <1> QED
    BY <1>1, <1>2, <1>3, <1>4, <1>5, <1>6 DEF Next

\* However late put notifies: while somebody sleeps, no message waits without a
\* thread that is about to look after it.
THEOREM SpecNoLostWakeup == Spec => []NoLostWakeup
  <1>1. Init => NoLostWakeup
    BY DEF Init, NoLostWakeup, Asleep
  <1> QED  BY <1>1, CountStep, TypeCorrect, PTL DEF Spec

-----------------------------------------------------------------------------
\* t is s with m put in at place k, the others in their order.
Inserted(s, t, k, m) ==
    /\ Len(t) = Len(s) + 1 /\ k \in 1..Len(t) /\ t[k] = m
    /\ \A i \in 1..Len(s) : t[IF i < k THEN i ELSE i + 1] = s[i]

NoneTwice(s) == \A i, j \in 1..Len(s) : s[i] = s[j] => i = j
Elements(s) == {s[i] : i \in 1..Len(s)}

LEMMA InsertKeeps ==
    ASSUME NEW S, NEW s \in Seq(S), NEW t \in Seq(S), NEW k, NEW m,
           Inserted(s, t, k, m), NoneTwice(s), m \notin Elements(s)
    PROVE  NoneTwice(t) /\ Elements(t) = Elements(s) \cup {m}
  <1>0. Len(s) \in Nat /\ Len(t) = Len(s) + 1 /\ k \in 1..Len(t) /\ t[k] = m
    BY DEF Inserted
  <1>1. ASSUME NEW i \in 1..Len(t), i # k
        PROVE  \E j \in 1..Len(s) : t[i] = s[j] /\ j = (IF i < k THEN i ELSE i - 1)
    <2>1. CASE i < k
      <3>1. i \in 1..Len(s)
        BY <2>1, <1>0
      <3>2. t[i] = s[i]
        BY <3>1, <2>1 DEF Inserted
      <3> QED  BY <3>1, <3>2, <2>1
    <2>2. CASE ~(i < k)
      <3>1. i - 1 \in 1..Len(s) /\ ~(i - 1 < k) /\ (i - 1) + 1 = i
        BY <2>2, <1>0, <1>1
      <3>2. t[i] = s[i - 1]
        BY <3>1 DEF Inserted
      <3> QED  BY <3>1, <3>2, <2>2
    <2> QED  BY <2>1, <2>2
  <1>2. ASSUME NEW i \in 1..Len(t), NEW j \in 1..Len(t), t[i] = t[j]
        PROVE  i = j
    <2>0. \A a \in 1..Len(s) : s[a] # m
      BY DEF Elements
    <2>1. CASE i = k /\ j = k
      BY <2>1
    <2>2. CASE i = k /\ j # k
      <3>1. PICK b \in 1..Len(s) : t[j] = s[b]
        BY <1>1, <2>2
      <3> QED  BY <3>1, <2>0, <2>2, <1>0, <1>2
    <2>3. CASE i # k /\ j = k
      <3>1. PICK a \in 1..Len(s) : t[i] = s[a]
        BY <1>1, <2>3
      <3> QED  BY <3>1, <2>0, <2>3, <1>0, <1>2
    <2>4. CASE i # k /\ j # k
      <3>1. PICK a \in 1..Len(s) : t[i] = s[a] /\ a = (IF i < k THEN i ELSE i - 1)
        BY <1>1, <2>4
      <3>2. PICK b \in 1..Len(s) : t[j] = s[b] /\ b = (IF j < k THEN j ELSE j - 1)
        BY <1>1, <2>4
      <3>3. a = b
        BY <3>1, <3>2, <1>2 DEF NoneTwice
      <3> QED  BY <3>1, <3>2, <3>3, <2>4, <1>0
    <2> QED  BY <2>1, <2>2, <2>3, <2>4
  <1>3. ASSUME NEW i \in 1..Len(t)
        PROVE  t[i] \in Elements(s) \cup {m}
    BY <1>0, <1>1 DEF Elements
  <1>4. ASSUME NEW i \in 1..Len(s)
        PROVE  s[i] \in Elements(t)
    <2>1. t[IF i < k THEN i ELSE i + 1] = s[i]
      BY DEF Inserted
    <2>2. (IF i < k THEN i ELSE i + 1) \in 1..Len(t)
      BY <1>0
    <2> QED  BY <2>1, <2>2 DEF Elements
  <1>5. m \in Elements(t)
    BY <1>0 DEF Elements
  <1>6. Elements(t) \subseteq Elements(s) \cup {m}
    BY <1>3 DEF Elements
  <1>7. Elements(s) \subseteq Elements(t)
    BY <1>4 DEF Elements
  <1>8. NoneTwice(t)
    BY <1>2 DEF NoneTwice
  <1> QED  BY <1>5, <1>6, <1>7, <1>8

\* What the three operations do to what was got and what is queued, taken together.
LEMMA PutAtBack ==
    ASSUME NEW S, NEW g \in Seq(S), NEW q \in Seq(S), NEW m \in S
    PROVE  /\ g \o Append(q, m) \in Seq(S)
           /\ Inserted(g \o q, g \o Append(q, m), Len(g \o q) + 1, m)
  <1>1. /\ g \o q \in Seq(S) /\ g \o Append(q, m) \in Seq(S)
        /\ Len(g) \in Nat /\ Len(q) \in Nat
        /\ Len(g \o q) = Len(g) + Len(q) /\ Len(g \o Append(q, m)) = Len(g) + Len(q) + 1
    OBVIOUS
  <1>2. (g \o Append(q, m))[Len(g \o q) + 1] = m
    OBVIOUS
  <1>3. \A i \in 1..Len(g \o q) : (g \o Append(q, m))[i] = (g \o q)[i]
    OBVIOUS
  <1>4. \A i \in 1..Len(g \o q) : i < Len(g \o q) + 1
    BY <1>1
  <1> QED  BY <1>1, <1>2, <1>3, <1>4 DEF Inserted

LEMMA ConcatFacts ==
    ASSUME NEW S, NEW g \in Seq(S), NEW q \in Seq(S)
    PROVE  /\ g \o q \in Seq(S) /\ Len(g) \in Nat /\ Len(q) \in Nat
           /\ Len(g \o q) = Len(g) + Len(q)
  OBVIOUS

LEMMA PutAtFront ==
    ASSUME NEW S, NEW g \in Seq(S), NEW q \in Seq(S), NEW m \in S
    PROVE  /\ g \o (<<m>> \o q) \in Seq(S)
           /\ Inserted(g \o q, g \o (<<m>> \o q), Len(g) + 1, m)
  <1> DEFINE r == <<m>> \o q
  <1>0. r[1] = m /\ \A i \in 1..Len(q) : r[i + 1] = q[i]
    BY PrependFacts
  <1>10. r \in Seq(S) /\ Len(r) = Len(q) + 1
    BY PrependFacts
  <1> HIDE DEF r
  <1>1. /\ g \o q \in Seq(S) /\ g \o r \in Seq(S)
        /\ Len(g) \in Nat /\ Len(q) \in Nat
        /\ Len(g \o q) = Len(g) + Len(q) /\ Len(g \o r) = Len(g) + Len(q) + 1
    <2>1. Len(g \o r) = Len(g) + Len(r) /\ g \o r \in Seq(S)
      BY <1>10, ConcatFacts
    <2> QED  BY <2>1, <1>10, ConcatFacts
  <1>2. (g \o r)[Len(g) + 1] = m
    <2>1. Len(g) + 1 \in (Len(g) + 1)..(Len(g) + Len(r)) /\ (Len(g) + 1) - Len(g) = 1
      BY <1>0, <1>10, <1>1
    <2>2. (g \o r)[Len(g) + 1] = r[(Len(g) + 1) - Len(g)]
      BY <2>1, <1>10, <1>1
    <2> QED  BY <2>1, <2>2, <1>0
  <1>3. ASSUME NEW i \in 1..Len(g \o q)
        PROVE  (g \o r)[IF i < Len(g) + 1 THEN i ELSE i + 1] = (g \o q)[i]
    <2>1. CASE i < Len(g) + 1
      BY <2>1, <1>0, <1>10, <1>1
    <2>2. CASE ~(i < Len(g) + 1)
      <3>1. (g \o r)[i + 1] = r[i + 1 - Len(g)]
        BY <2>2, <1>10, <1>1
      <3>2. (g \o q)[i] = q[i - Len(g)]
        BY <2>2, <1>1
      <3>3. i - Len(g) \in 1..Len(q) /\ (i - Len(g)) + 1 = i + 1 - Len(g)
        BY <2>2, <1>1
      <3> QED  BY <2>2, <3>1, <3>2, <3>3, <1>0
    <2> QED  BY <2>1, <2>2
  <1>4. Inserted(g \o q, g \o r, Len(g) + 1, m)
    BY <1>1, <1>2, <1>3 DEF Inserted
  <1> QED  BY <1>1, <1>4 DEF r

LEMMA HandOver ==
    ASSUME NEW S, NEW g \in Seq(S), NEW q \in Seq(S), q # << >>
    PROVE  Append(g, Head(q)) \o Tail(q) = g \o q
  OBVIOUS

-----------------------------------------------------------------------------
LEMMA AllType == TypeOK => GotOrQueued \in Seq(Messages)
  BY DEF TypeOK, GotOrQueued

\* Both ways to put, by the place k where the message comes in.
LEMMA PutKeepsOnce ==
    ASSUME TypeOK, HandedOutOnce, NEW p \in Producers, Push(p, queue'),
           GotOrQueued' \in Seq(Messages), NEW k,
           Inserted(GotOrQueued, GotOrQueued', k, <<p, sent[p] + 1>>)
    PROVE  HandedOutOnce'
  <1> DEFINE m == <<p, sent[p] + 1>>
  <1>1. m \in Messages /\ sent' = [sent EXCEPT ![p] = @ + 1]
    BY NewMessage DEF Push
  <1>2. m \notin WasPut
    BY DEF WasPut, TypeOK
  <1>3. WasPut' = WasPut \cup {m}
    <2>1. \A x \in Messages : x[2] <= sent'[x[1]] <=> x[2] <= sent[x[1]] \/ x = m
      <3> SUFFICES ASSUME NEW x \in Messages
                   PROVE  x[2] <= sent'[x[1]] <=> x[2] <= sent[x[1]] \/ x = m
        OBVIOUS
      <3>0. x[1] \in Producers /\ x[2] \in Nat /\ x = <<x[1], x[2]>> /\ sent[x[1]] \in Nat
        BY QueueAssumption DEF Messages, TypeOK
      <3>1. CASE x[1] = p
        <4>1. sent'[x[1]] = sent[p] + 1
          BY <3>1, <1>1 DEF TypeOK
        <4>2. x = m <=> x[2] = sent[p] + 1
          BY <3>0, <3>1
        <4> HIDE DEF m
        <4> QED  BY <4>1, <4>2, <3>0, <3>1
      <3>2. CASE x[1] # p
        <4>1. sent'[x[1]] = sent[x[1]]
          BY <3>2, <3>0, <1>1 DEF TypeOK
        <4>2. x # m
          BY <3>2
        <4> QED  BY <4>1, <4>2
      <3> QED  BY <3>1, <3>2
    <2> HIDE DEF m
    <2> QED  BY <1>1, <2>1 DEF WasPut
  <1>4. NoneTwice(GotOrQueued) /\ Elements(GotOrQueued) = WasPut
    BY DEF HandedOutOnce, NoneTwice, Elements
  <1>5. NoneTwice(GotOrQueued') /\ Elements(GotOrQueued') = WasPut \cup {m}
    <2>1. GotOrQueued \in Seq(Messages)
      BY AllType
    <2>2. Inserted(GotOrQueued, GotOrQueued', k, m)
      OBVIOUS
    <2> HIDE DEF m
    <2> QED  BY <1>2, <1>4, <2>1, <2>2, InsertKeeps
  <1>6. /\ \A i, j \in 1..Len(GotOrQueued') : GotOrQueued'[i] = GotOrQueued'[j] => i = j
        /\ {GotOrQueued'[i] : i \in 1..Len(GotOrQueued')} = WasPut \cup {m}
    <2> HIDE DEF m
    <2> QED  BY <1>5 DEF NoneTwice, Elements
  <1> QED  BY <1>3, <1>6 DEF HandedOutOnce

\* Where put and putFront insert.
LEMMA PutInserts ==
    ASSUME TypeOK, NEW p \in Producers, Put(p)
    PROVE  /\ Push(p, queue') /\ GotOrQueued' \in Seq(Messages)
           /\ Inserted(GotOrQueued, GotOrQueued', Len(GotOrQueued) + 1, <<p, sent[p] + 1>>)
  <1>1. /\ <<p, sent[p] + 1>> \in Messages /\ Push(p, queue')
        /\ queue' = Append(queue, <<p, sent[p] + 1>>) /\ got' = got
    BY NewMessage DEF Put, Push
  <1> QED  BY <1>1, PutAtBack DEF TypeOK, GotOrQueued

LEMMA PutFrontInserts ==
    ASSUME TypeOK, NEW p \in Producers, PutFront(p)
    PROVE  /\ Push(p, queue') /\ GotOrQueued' \in Seq(Messages)
           /\ Inserted(GotOrQueued, GotOrQueued', Len(got) + 1, <<p, sent[p] + 1>>)
  <1>1. /\ <<p, sent[p] + 1>> \in Messages /\ Push(p, queue')
        /\ queue' = << <<p, sent[p] + 1>> >> \o queue /\ got' = got
    BY NewMessage DEF PutFront, Push
  <1> QED  BY <1>1, PutAtFront DEF TypeOK, GotOrQueued

\* Every other step leaves the messages where they are, or hands the oldest over.
LEMMA OthersKeepAll ==
    ASSUME TypeOK, [Next]_vars,
           ~ \E p \in Producers : Put(p) \/ PutFront(p)
    PROVE  GotOrQueued' = GotOrQueued /\ sent' = sent /\ urgent' = urgent
  <1>1. ASSUME NEW c \in Consumers, Pop(c)
        PROVE  GotOrQueued' = GotOrQueued /\ sent' = sent /\ urgent' = urgent
    BY <1>1, HandOver DEF Pop, MustWait, Taken, Rest, GotOrQueued, TypeOK
  <1>2. ASSUME UNCHANGED <<queue, got, sent, urgent>>
        PROVE  GotOrQueued' = GotOrQueued /\ sent' = sent /\ urgent' = urgent
    BY <1>2 DEF GotOrQueued
  <1> QED
    BY <1>1, <1>2 DEF Next, NotifyOne, CallGet, Sleep, SpuriousWake, vars

LEMMA OnceInit == Init => HandedOutOnce
  <1> SUFFICES ASSUME Init PROVE HandedOutOnce
    OBVIOUS
  <1>1. GotOrQueued = << >> /\ Len(GotOrQueued) = 0
    BY DEF Init, GotOrQueued
  <1>2. WasPut = {}
    <2>1. \A m \in Messages : m[1] \in Producers /\ m[2] > 0 /\ m[2] \in Nat
      BY QueueAssumption DEF Messages
    <2> QED  BY <2>1 DEF WasPut, Init
  <1>3. {GotOrQueued[i] : i \in 1..Len(GotOrQueued)} = {}
    BY <1>1
  <1>4. \A i, j \in 1..Len(GotOrQueued) : GotOrQueued[i] = GotOrQueued[j] => i = j
    BY <1>1
  <1> QED  BY <1>2, <1>3, <1>4 DEF HandedOutOnce

LEMMA OnceStep == TypeOK /\ HandedOutOnce /\ [Next]_vars => HandedOutOnce'
  <1> SUFFICES ASSUME TypeOK, HandedOutOnce, [Next]_vars PROVE HandedOutOnce'
    OBVIOUS
  <1>1. ASSUME NEW p \in Producers, Put(p) PROVE HandedOutOnce'
    BY <1>1, PutInserts, PutKeepsOnce
  <1>2. ASSUME NEW p \in Producers, PutFront(p) PROVE HandedOutOnce'
    BY <1>2, PutFrontInserts, PutKeepsOnce
  <1>3. CASE ~ \E p \in Producers : Put(p) \/ PutFront(p)
    <2>1. GotOrQueued' = GotOrQueued /\ sent' = sent
      BY <1>3, OthersKeepAll
    <2> QED  BY <2>1 DEF HandedOutOnce, WasPut
  <1> QED  BY <1>1, <1>2, <1>3

\* Every message that was put is queued or has been handed out, and only once.
THEOREM SpecHandedOutOnce == Spec => []HandedOutOnce
  BY OnceInit, OnceStep, TypeCorrect, PTL DEF Spec

-----------------------------------------------------------------------------
LEMMA OrderedStep == TypeOK /\ HandedOutOnce /\ Ordered /\ [Next]_vars => Ordered'
  <1> SUFFICES ASSUME TypeOK, HandedOutOnce, Ordered, [Next]_vars, ~urgent' PROVE Ordered'
    BY DEF Ordered
  <1>1. ASSUME NEW p \in Producers, Put(p) PROVE Ordered'
    <2> DEFINE m == <<p, sent[p] + 1>>
    <2>1. ~urgent
      BY <1>1 DEF Put
    <2>2. /\ GotOrQueued \in Seq(Messages) /\ GotOrQueued' \in Seq(Messages)
          /\ Len(GotOrQueued) \in Nat /\ Len(GotOrQueued') = Len(GotOrQueued) + 1
          /\ GotOrQueued'[Len(GotOrQueued) + 1] = m
          /\ \A i \in 1..Len(GotOrQueued) : GotOrQueued'[i] = GotOrQueued[i]
      <3>1. GotOrQueued \in Seq(Messages) /\ Len(GotOrQueued) \in Nat
        BY AllType
      <3>2. \A i \in 1..Len(GotOrQueued) : i < Len(GotOrQueued) + 1
        BY <3>1
      <3> QED  BY <1>1, <3>1, <3>2, PutInserts DEF Inserted
    <2>3. ASSUME NEW i \in 1..Len(GotOrQueued), GotOrQueued[i][1] = p
          PROVE  GotOrQueued[i][2] < m[2]
      <3>1. GotOrQueued[i] \in WasPut
        BY DEF HandedOutOnce
      <3>2. GotOrQueued[i][2] <= sent[p] /\ GotOrQueued[i][2] \in Nat /\ sent[p] \in Nat
        BY <2>3, <3>1, QueueAssumption DEF WasPut, Messages, TypeOK
      <3> QED  BY <3>2
    <2>4. \A i, j \in 1..Len(GotOrQueued) :
             i < j /\ GotOrQueued[i][1] = GotOrQueued[j][1]
                => GotOrQueued[i][2] < GotOrQueued[j][2]
      BY <2>1 DEF Ordered
    <2>5. ASSUME NEW i \in 1..Len(GotOrQueued'), NEW j \in 1..Len(GotOrQueued'), i < j,
                 GotOrQueued'[i][1] = GotOrQueued'[j][1]
          PROVE  GotOrQueued'[i][2] < GotOrQueued'[j][2]
      <3>0. i \in 1..Len(GotOrQueued) /\ GotOrQueued'[i] = GotOrQueued[i]
        BY <2>2, <2>5
      <3>1. CASE j = Len(GotOrQueued) + 1
        <4>1. GotOrQueued'[j] = m /\ m[1] = p
          BY <2>2, <3>1
        <4> HIDE DEF m
        <4> QED  BY <2>3, <2>5, <3>0, <4>1
      <3>2. CASE j # Len(GotOrQueued) + 1
        <4>1. j \in 1..Len(GotOrQueued) /\ GotOrQueued'[j] = GotOrQueued[j]
          BY <2>2, <3>2
        <4> QED  BY <2>4, <2>5, <3>0, <4>1
      <3> QED  BY <3>1, <3>2
    <2> QED  BY <2>5 DEF Ordered
  <1>2. ASSUME NEW p \in Producers, PutFront(p) PROVE Ordered'
    BY <1>2 DEF PutFront
  <1>3. CASE ~ \E p \in Producers : Put(p) \/ PutFront(p)
    <2>1. GotOrQueued' = GotOrQueued /\ urgent' = urgent
      BY <1>3, OthersKeepAll
    <2> QED  BY <2>1 DEF Ordered
  <1> QED  BY <1>1, <1>2, <1>3

\* A message put before m by the same producer is somewhere; order says it is in
\* front of m.
LEMMA OrderedImplies == TypeOK /\ HandedOutOnce /\ Ordered => InOrder
  <1> SUFFICES ASSUME TypeOK, HandedOutOnce, Ordered, ~urgent,
                      NEW i \in 1..Len(got), NEW m \in WasPut,
                      m[1] = got[i][1], m[2] < got[i][2]
               PROVE  \E k \in 1..(i - 1) : got[k] = m
    BY DEF InOrder
  <1>1. /\ Len(got) \in Nat /\ Len(GotOrQueued) \in Nat /\ Len(got) <= Len(GotOrQueued)
        /\ \A k \in 1..Len(got) : GotOrQueued[k] = got[k]
    BY DEF TypeOK, GotOrQueued
  <1>2. PICK k \in 1..Len(GotOrQueued) : GotOrQueued[k] = m
    BY DEF HandedOutOnce
  <1>3. i \in 1..Len(GotOrQueued) /\ GotOrQueued[i] = got[i]
    BY <1>1
  <1>4. m[2] \in Nat /\ got[i][2] \in Nat
    <2>1. got[i] \in Messages /\ m \in Messages
      BY DEF TypeOK, WasPut
    <2> QED  BY <2>1, QueueAssumption DEF Messages
  <1>5. ~(i < k)
    <2> SUFFICES ASSUME i < k PROVE FALSE
      OBVIOUS
    <2>1. got[i][2] < m[2]
      BY <1>2, <1>3 DEF Ordered
    <2> QED  BY <2>1, <1>4
  <1>6. i # k
    BY <1>2, <1>3, <1>4
  <1>7. k \in 1..(i - 1) /\ k \in 1..Len(got)
    BY <1>1, <1>5, <1>6
  <1> QED  BY <1>1, <1>2, <1>7

\* Without putFront, a message is handed out after all its producer put before it.
THEOREM SpecInOrder == Spec => []InOrder
  <1>1. Init => Ordered
    <2> SUFFICES ASSUME Init PROVE Ordered
      OBVIOUS
    <2>1. Len(GotOrQueued) = 0
      BY DEF Init, GotOrQueued
    <2> QED  BY <2>1 DEF Ordered
  <1> QED
    BY <1>1, OnceInit, OnceStep, OrderedStep, OrderedImplies, TypeCorrect, PTL DEF Spec
=============================================================================
