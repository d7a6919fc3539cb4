----------------------------- MODULE CodecProofs -----------------------------
(* What the two visitors do, for texts, numbers and buffers of any size: the   *)
(* serializer never writes past its buffer and writes whole pieces only, and   *)
(* the deserializer's cursor stays inside the text, at the end of a beginning  *)
(* of the packet it tries.                                                     *)
EXTENDS Codec, Induction, SequenceTheorems, FiniteSetTheorems

\* The characters the packets are made of are strings too, which no prover knows.
Chars ==
    STRING \cup {Digit[i] : i \in 1..10}
           \cup {"-", "\r", "\n", ",", Quote, Backslash, " ", "\t"}
           \cup {"AT", "ATI", "+ATI:", "+CPIN? ", "+CPIN=", "+CPIN: ", "OK", "ERROR",
                 "+CMS ERROR:", "+CME ERROR:", "+TEST:"}
           \cup {"PH_SIM_PIN", "READY", "SIM_PIN", "Five", "Nine"}
Words == Seq(Chars)

-----------------------------------------------------------------------------
(* What the operators of the model build.                                     *)

LEMMA ConcatWords ==
    ASSUME NEW s \in Words, NEW t \in Words
    PROVE  s \o t \in Words /\ Len(s \o t) = Len(s) + Len(t) /\ Len(s) \in Nat
  BY DEF Words

LEMMA DigitIsCharacter == \A i \in 1..10 : Digit[i] \in Chars
  BY DEF Chars

DecimalStep(d, n) ==
    IF n < 10 THEN <<Digit[n + 1]>> ELSE Append(d[n \div 10], Digit[(n % 10) + 1])

\* d is the decimal notation of the numbers up to n.
DecimalUpto(d, n) == \A i \in 0..n : d[i] = DecimalStep(d, i)

LEMMA SmallerTenth ==
    ASSUME NEW n \in Nat
    PROVE  /\ n % 10 \in 0..9
           /\ n \div 10 \in Nat
           /\ n >= 10 => n \div 10 < n
           /\ n = 10 * (n \div 10) + (n % 10)
  OBVIOUS

LEMMA DecimalStepText ==
    ASSUME NEW n \in Nat, NEW d, n >= 10 => d[n \div 10] \in Words
    PROVE  DecimalStep(d, n) \in Words /\ DecimalStep(d, n) # << >>
  <1>1. CASE n < 10
    <2>1. Digit[n + 1] \in Chars
      BY <1>1, DigitIsCharacter
    <2> QED
      BY <1>1, <2>1 DEF DecimalStep, Words
  <1>2. CASE ~(n < 10)
    <2>1. Digit[(n % 10) + 1] \in Chars
      BY SmallerTenth, DigitIsCharacter
    <2>2. d[n \div 10] \in Seq(Chars)
      BY <1>2 DEF Words
    <2> DEFINE x == Digit[(n % 10) + 1]
               y == d[n \div 10]
    <2> HIDE DEF x, y
    <2>3. x \in Chars /\ y \in Seq(Chars)
      BY <2>1, <2>2 DEF x, y
    <2>4. Append(y, x) \in Seq(Chars) /\ Append(y, x) # << >>
      BY <2>3, AppendProperties
    <2>5. DecimalStep(d, n) = Append(y, x)
      BY <1>2 DEF DecimalStep, x, y
    <2> QED
      BY <2>4, <2>5 DEF Words
  <1> QED
    BY <1>1, <1>2

\* Two notations agree where both are given.
LEMMA DecimalUnique ==
    ASSUME NEW m \in Nat, NEW n \in Nat, NEW d, NEW e, DecimalUpto(d, m), DecimalUpto(e, n)
    PROVE  \A i \in Nat : i <= m /\ i <= n => d[i] = e[i]
  <1> DEFINE Differ == {i \in Nat : i <= m /\ i <= n /\ d[i] # e[i]}
  <1> SUFFICES ASSUME Differ # {} PROVE FALSE
    OBVIOUS
  <1>1. PICK i \in Differ : \A j \in Differ : i <= j
    <2>1. Differ \subseteq Nat
      OBVIOUS
    <2> HIDE DEF Differ
    <2> QED  BY <2>1, LeastNat
  <1>2. i \in 0..m /\ i \in 0..n /\ d[i] # e[i] /\ i \in Nat
    BY <1>1
  <1>3. d[i] = DecimalStep(d, i) /\ e[i] = DecimalStep(e, i)
    BY <1>2 DEF DecimalUpto
  <1>4. ~(i < 10)
    BY <1>2, <1>3 DEF DecimalStep
  <1>5. i \div 10 \in Nat /\ i \div 10 < i
    BY <1>2, <1>4, SmallerTenth
  <1>6. d[i \div 10] = e[i \div 10]
    BY <1>1, <1>2, <1>5
  <1> QED
    BY <1>2, <1>3, <1>4, <1>6 DEF DecimalStep

LEMMA DecimalExists ==
    ASSUME NEW n \in Nat
    PROVE  \E d \in [0..n -> Words] : DecimalUpto(d, n)
  <1> DEFINE T == {k \in Nat : \E d \in [0..k -> Words] : DecimalUpto(d, k)}
  <1>1. 0 \in T
    <2> DEFINE d == [i \in 0..0 |-> DecimalStep(0, i)]
    <2>1. DecimalStep(0, 0) \in Words
      BY DecimalStepText
    <2>2. \A i \in 0..0 : i = 0 /\ d[i] = DecimalStep(0, 0)
      OBVIOUS
    <2>3. d \in [0..0 -> Words]
      BY <2>1, <2>2
    <2>4. DecimalUpto(d, 0)
      BY <2>2 DEF DecimalUpto, DecimalStep
    <2> HIDE DEF d
    <2> QED
      BY <2>3, <2>4
  <1>2. ASSUME NEW k \in Nat, k \in T PROVE k + 1 \in T
    <2>1. PICK d \in [0..k -> Words] : DecimalUpto(d, k)
      BY <1>2
    <2> DEFINE e == [i \in 0..(k + 1) |-> IF i <= k THEN d[i] ELSE DecimalStep(d, i)]
    <2>2. \A i \in 0..(k + 1) : i >= 10 => i \div 10 \in 0..k
      BY SmallerTenth
    <2>3. DecimalStep(d, k + 1) \in Words
      <3>1. k + 1 >= 10 => d[(k + 1) \div 10] \in Words
        BY <2>1, <2>2
      <3> QED
        BY <3>1, DecimalStepText
    <2>4. e \in [0..(k + 1) -> Words]
      BY <2>1, <2>3
    <2>5. /\ \A i \in 0..k : e[i] = d[i]
          /\ e[k + 1] = DecimalStep(d, k + 1)
      OBVIOUS
    <2> HIDE DEF e
    <2>6. \A i \in 0..(k + 1) : DecimalStep(e, i) = DecimalStep(d, i)
      BY <2>2, <2>5 DEF DecimalStep
    <2>7. \A i \in 0..(k + 1) : e[i] = DecimalStep(d, i)
      BY <2>1, <2>5 DEF DecimalUpto
    <2>8. DecimalUpto(e, k + 1)
      BY <2>6, <2>7 DEF DecimalUpto
    <2> QED
      BY <2>4, <2>8
  <1>3. Nat \subseteq T
    <2> HIDE DEF T
    <2> QED  BY <1>1, <1>2, SetInduction
  <1> QED
    BY <1>3

LEMMA DecimalText ==
    ASSUME NEW n \in Nat
    PROVE  /\ Decimal[n] = DecimalStep(Decimal, n)
           /\ Decimal[n] \in Words /\ Decimal[n] # << >>
  <1> DEFINE upto(k) == CHOOSE d \in [0..k -> Words] : DecimalUpto(d, k)
             D == [k \in Nat |-> upto(k)[k]]
  <1>1. \A k \in Nat : upto(k) \in [0..k -> Words] /\ DecimalUpto(upto(k), k)
    BY DecimalExists
  <1> HIDE DEF upto
  <1>2. \A k \in Nat : D[k] = upto(k)[k] /\ upto(k)[k] \in Words
    BY <1>1
  <1> HIDE DEF D
  <1>3. ASSUME NEW k \in Nat PROVE D[k] = DecimalStep(D, k)
    <2>1. upto(k)[k] = DecimalStep(upto(k), k)
      BY <1>1 DEF DecimalUpto
    <2>2. CASE k >= 10
      <3> DEFINE j == k \div 10
      <3>1. j \in Nat /\ j < k
        BY <2>2, SmallerTenth
      <3> HIDE DEF j
      <3>2. upto(k)[j] = upto(j)[j]
        BY <1>1, <3>1, DecimalUnique
      <3>3. upto(k)[j] = D[j]
        BY <1>2, <3>1, <3>2
      <3> QED
        BY <1>2, <2>1, <3>3 DEF DecimalStep, j
    <2>3. CASE ~(k >= 10)
      BY <1>2, <2>1, <2>3 DEF DecimalStep
    <2> QED
      BY <2>2, <2>3
  <1>4. D = [k \in Nat |-> IF k < 10 THEN <<Digit[k + 1]>>
                           ELSE Append(D[k \div 10], Digit[(k % 10) + 1])]
    BY <1>3 DEF DecimalStep, D
  <1>5. Decimal = [k \in Nat |-> IF k < 10 THEN <<Digit[k + 1]>>
                           ELSE Append(Decimal[k \div 10], Digit[(k % 10) + 1])]
    BY <1>4 DEF Decimal
  <1>6. \A k \in Nat : Decimal[k] = DecimalStep(Decimal, k)
    BY <1>5 DEF DecimalStep
  <1>7. \A k \in Nat : Decimal[k] = D[k]
    <2>1. \A k \in Nat : DecimalUpto(Decimal, k) /\ DecimalUpto(D, k)
      BY <1>3, <1>6 DEF DecimalUpto
    <2> QED
      BY <2>1, DecimalUnique
  <1>8. n >= 10 => Decimal[n \div 10] \in Words
    BY <1>2, <1>7, SmallerTenth
  <1> QED
    BY <1>6, <1>8, DecimalStepText

LEMMA ToCharsText ==
    ASSUME NEW n \in Int
    PROVE  ToChars(n) \in Words /\ ToChars(n) # << >>
  <1>1. CASE n < 0
    <2>1. 0 - n \in Nat
      BY <1>1
    <2> DEFINE d == Decimal[0 - n]
    <2>2. d \in Words
      BY <2>1, DecimalText
    <2> HIDE DEF d
    <2>3. "-" \in Chars
      BY DEF Chars
    <2>4. <<"-">> \in Words
      BY <2>3 DEF Words
    <2>5. <<"-">> \o d \in Words /\ <<"-">> \o d # << >>
      BY <2>2, <2>4, ConcatProperties DEF Words
    <2> QED
      BY <1>1, <2>5 DEF ToChars, d
  <1>2. CASE ~(n < 0)
    BY <1>2, DecimalText DEF ToChars
  <1> QED
    BY <1>1, <1>2

\* d holds the concatenations of the first words of w.
Joins(d, N, w) == d[0] = << >> /\ \A i \in 1..N : d[i] = d[i - 1] \o w[i]

LEMMA ConcatRecursion ==
    ASSUME NEW N \in Nat, NEW w \in [1..N -> Words]
    PROVE  \E f \in [0..N -> Words] : f[0] = << >> /\ \A i \in 1..N : f[i] = f[i - 1] \o w[i]
  <1> DEFINE g == [p \in (1..N) \X Words |-> p[2] \o w[p[1]]]
  <1>1. << >> \in Words
    BY DEF Words
  <1>2. g \in [(1..N) \X Words -> Words]
    BY ConcatWords
  <1>3. \A i \in 1..N, x \in Words : g[<<i, x>>] = x \o w[i]
    OBVIOUS
  <1> HIDE DEF g
  <1>4. PICK f : Unrolls(f, N, Words, << >>, g)
    BY <1>1, <1>2, BoundedRecursion
  <1>5. f \in [0..N -> Words] /\ f[0] = << >> /\ \A i \in 1..N : f[i] = g[<<i, f[i - 1]>>]
    BY <1>4 DEF Unrolls
  <1>6. \A i \in 1..N : f[i - 1] \in Words
    BY <1>5
  <1> QED
    BY <1>3, <1>5, <1>6

LEMMA ConcatUnique ==
    ASSUME NEW N \in Nat, NEW w, NEW d, NEW e, Joins(d, N, w), Joins(e, N, w)
    PROVE  \A i \in 0..N : d[i] = e[i]
  <1> DEFINE S == {i \in 0..N : d[i] = e[i]}
  <1>1. 0 \in S
    BY DEF Joins
  <1>2. ASSUME NEW i \in 1..N, i - 1 \in S PROVE i \in S
    <2>1. d[i - 1] = e[i - 1] /\ i \in 0..N
      BY <1>2
    <2>2. d[i] = e[i]
      BY <2>1, Zenon DEF Joins
    <2> QED
      BY <2>1, <2>2
  <1> HIDE DEF S
  <1>3. 0..N \subseteq S
    BY <1>1, <1>2, BoundedInduction
  <1> QED
    BY <1>3 DEF S

LEMMA EscapeWord ==
    ASSUME NEW c \in Chars
    PROVE  Escape(c) \in Words
  <1>1. Backslash \in Chars
    BY DEF Chars
  <1> QED
    BY <1>1 DEF Escape, Words

\* An escaped text is made of its escaped characters.
LEMMA EscapedJoins ==
    ASSUME NEW text \in Words
    PROVE  \E e : /\ Joins(e, Len(text), [i \in 1..Len(text) |-> Escape(text[i])])
                  /\ Escaped(text) = e[Len(text)] /\ Escaped(text) \in Words
  <1> DEFINE N == Len(text)
             w == [i \in 1..N |-> Escape(text[i])]
             unrolled(e) == [i \in 0..N |-> IF i = 0 THEN << >> ELSE e[i - 1] \o Escape(text[i])]
             E == CHOOSE e : e = unrolled(e)
  <1>1. N \in Nat /\ \A i \in 1..N : text[i] \in Chars
    BY ElementOfSeq DEF Words
  <1>2. w \in [1..N -> Words] /\ \A i \in 1..N : w[i] = Escape(text[i])
    BY <1>1, EscapeWord
  <1> HIDE DEF w
  <1>3. PICK f \in [0..N -> Words] : f[0] = << >> /\ \A i \in 1..N : f[i] = f[i - 1] \o w[i]
    BY <1>1, <1>2, ConcatRecursion
  <1>4. f = unrolled(f)
    <2> HIDE DEF N
    <2>0. \A i \in 0..N : i # 0 => i \in 1..N
      BY <1>1
    <2>1. \A i \in 0..N : f[i] = IF i = 0 THEN << >> ELSE f[i - 1] \o Escape(text[i])
      BY <1>1, <1>2, <1>3, <2>0, Zenon
    <2> QED
      BY <1>3, <2>1
  <1> HIDE DEF N
  <1>5. E = unrolled(E)
    BY <1>4
  <1>6. Escaped(text) = E[N]
    BY DEF Escaped, N
  <1> HIDE DEF E
  <1>7. E[0] = << >> /\ \A i \in 1..N : E[i] = E[i - 1] \o w[i]
    BY <1>1, <1>2, <1>5
  <1>8. E[N] = f[N]
    <2>1. Joins(E, N, w) /\ Joins(f, N, w)
      BY <1>3, <1>7 DEF Joins
    <2>2. \A i \in 0..N : E[i] = f[i]
      BY <1>1, <2>1, ConcatUnique
    <2> QED
      BY <1>1, <2>2
  <1>9. Joins(E, N, w)
    BY <1>7 DEF Joins
  <1>10. E[N] \in Words
    BY <1>1, <1>3, <1>8
  <1> QED
    BY <1>6, <1>9, <1>10 DEF N, w

LEMMA EscapedWord ==
    ASSUME NEW text \in Words
    PROVE  Escaped(text) \in Words
  BY EscapedJoins

LEMMA QuotedWord ==
    ASSUME NEW text \in Words
    PROVE  WithQuotes(text) \in Words /\ WithQuotes(text) # << >>
  <1> DEFINE e == Escaped(text)
             q == <<Quote>>
  <1>1. Quote \in Chars
    BY DEF Chars
  <1>2. e \in Words /\ q \in Words /\ Len(q) = 1
    BY <1>1, EscapedWord DEF Words
  <1> HIDE DEF e, q
  <1>3. q \o e \in Words /\ Len(q \o e) = 1 + Len(e) /\ Len(e) \in Nat
    BY <1>2, ConcatWords
  <1>4. (q \o e) \o q \in Words /\ Len((q \o e) \o q) = 2 + Len(e)
    BY <1>2, <1>3, ConcatWords
  <1>5. (q \o e) \o q # << >>
    BY <1>3, <1>4
  <1> QED
    BY <1>4, <1>5 DEF WithQuotes, e, q

-----------------------------------------------------------------------------
(* The sentence a command is written as.                                      *)

LEMMA SentenceSteps ==
    ASSUME NEW N \in Nat, \A i \in 1..N : Piece(i) \in Words
    PROVE  /\ Sentence(0) = << >>
           /\ \A i \in 1..N : Sentence(i) = Sentence(i - 1) \o Piece(i)
           /\ \A i \in 0..N : Sentence(i) \in Words
  <1> DEFINE w == [i \in 1..N |-> Piece(i)]
  <1>1. w \in [1..N -> Words] /\ \A i \in 1..N : w[i] = Piece(i)
    OBVIOUS
  <1> HIDE DEF w
  <1>2. PICK f \in [0..N -> Words] : f[0] = << >> /\ \A i \in 1..N : f[i] = f[i - 1] \o w[i]
    BY <1>1, ConcatRecursion
  <1>3. ASSUME NEW n \in 0..N PROVE Sentence(n) = f[n]
    <2> DEFINE unrolled(e) == [i \in 0..n |-> IF i = 0 THEN << >> ELSE e[i - 1] \o Piece(i)]
               d == [i \in 0..n |-> f[i]]
               S == CHOOSE s : s = unrolled(s)
    <2>1. d = unrolled(d)
      <3>1. \A i \in 0..n : i # 0 => i \in 1..N /\ i - 1 \in 0..n
        OBVIOUS
      <3>2. \A i \in 0..n : i # 0 => f[i] = d[i - 1] \o Piece(i)
        BY <1>1, <1>2, <3>1
      <3>3. \A i \in 0..n : f[i] = IF i = 0 THEN << >> ELSE d[i - 1] \o Piece(i)
        BY <1>2, <3>2
      <3> QED
        BY <3>3
    <2> HIDE DEF d
    <2>2. S = unrolled(S)
      BY <2>1
    <2>3. Sentence(n) = S[n]
      BY DEF Sentence
    <2> HIDE DEF S
    <2>4. n \in Nat /\ 0 \in 0..n /\ \A i \in 1..n : i \in 1..N /\ i \in 0..n /\ i # 0
      OBVIOUS
    <2>5. \A i \in 0..n : S[i] = IF i = 0 THEN << >> ELSE S[i - 1] \o Piece(i)
      BY <2>2, Zenon
    <2>6. S[0] = f[0]
      BY <1>2, <2>4, <2>5
    <2>7. Joins(S, n, w) /\ Joins(f, n, w)
      BY <1>1, <1>2, <2>4, <2>5, <2>6, Zenon DEF Joins
    <2>8. \A i \in 0..n : S[i] = f[i]
      BY <2>4, <2>7, ConcatUnique
    <2> QED
      BY <2>3, <2>4, <2>8
  <1>4. \A i \in 1..N : i \in 0..N /\ i - 1 \in 0..N
    OBVIOUS
  <1>5. 0 \in 0..N /\ \A i \in 0..N : Sentence(i) = f[i] /\ f[i] \in Words
    BY <1>2, <1>3
  <1> QED
    BY <1>1, <1>2, <1>4, <1>5, Zenon

\* It gets longer with every item.
LEMMA SentenceLonger ==
    ASSUME NEW N \in Nat, \A i \in 1..N : Piece(i) \in Words, NEW n \in 0..N
    PROVE  Len(Sentence(n)) <= Len(Sentence(N))
  <1> DEFINE S == {i \in 0..N : i >= n => Len(Sentence(n)) <= Len(Sentence(i))}
  <1>0. /\ \A i \in 1..N : Sentence(i) = Sentence(i - 1) \o Piece(i)
        /\ \A i \in 0..N : Sentence(i) \in Words
    BY SentenceSteps, Zenon
  <1>1. \A i \in 0..N : Len(Sentence(i)) \in Nat
    BY <1>0 DEF Words
  <1>2. 0 \in S
    BY <1>1
  <1>3. ASSUME NEW i \in 1..N, i - 1 \in S PROVE i \in S
    <2>1. Sentence(i) = Sentence(i - 1) \o Piece(i) /\ Sentence(i - 1) \in Words /\ Piece(i) \in Words
      BY <1>0
    <2>2. Len(Sentence(i)) = Len(Sentence(i - 1)) + Len(Piece(i)) /\ Len(Piece(i)) \in Nat
      BY <2>1, ConcatWords
    <2>3. CASE i = n
      BY <1>1, <2>3
    <2>4. CASE i # n
      BY <1>1, <1>3, <2>2, <2>4
    <2> QED
      BY <2>3, <2>4
  <1> HIDE DEF S
  <1>4. 0..N \subseteq S
    BY <1>2, <1>3, BoundedInduction
  <1> QED
    BY <1>4 DEF S

-----------------------------------------------------------------------------
(* The items of the commands.                                                 *)

Around(a, s, b) == (<<a>> \o s) \o <<b>>

LEMMA Surrounded ==
    ASSUME NEW X, NEW s \in Seq(X), NEW a \in X, NEW b \in X
    PROVE  /\ Around(a, s, b) \in Seq(X)
           /\ Len(Around(a, s, b)) = Len(s) + 2
           /\ \A i \in 1..(Len(s) + 2) : Around(a, s, b)[i] =
                    IF i = 1 THEN a ELSE IF i = Len(s) + 2 THEN b ELSE s[i - 1]
  <1> DEFINE t == <<a>> \o s
  <1>1. <<a>> \in Seq(X) /\ <<b>> \in Seq(X) /\ Len(s) \in Nat
    OBVIOUS
  <1>2. /\ t \in Seq(X) /\ Len(t) = 1 + Len(s)
        /\ \A i \in 1..(Len(s) + 1) : t[i] = IF i = 1 THEN a ELSE s[i - 1]
    BY <1>1, ConcatProperties
  <1> HIDE DEF t
  <1>3. /\ t \o <<b>> \in Seq(X) /\ Len(t \o <<b>>) = Len(s) + 2
        /\ \A i \in 1..(Len(s) + 2) : (t \o <<b>>)[i] = IF i <= Len(s) + 1 THEN t[i] ELSE b
    BY <1>1, <1>2, ConcatProperties
  <1>4. \A i \in 1..(Len(s) + 2) : (t \o <<b>>)[i] =
            IF i = 1 THEN a ELSE IF i = Len(s) + 2 THEN b ELSE s[i - 1]
    BY <1>1, <1>2, <1>3
  <1> QED
    BY <1>3, <1>4 DEF Around, t

LEMMA NoFieldItems ==
    ASSUME NEW tag, NEW term, tag # << >>
    PROVE  AcceptWithTerm(tag, << >>, term) = <<Must(tag), Must(term)>>
  <1> DEFINE a == Must(tag)
             b == Must(term)
  <1>1. AcceptWithTerm(tag, << >>, term) = (<<a>> \o << >>) \o <<b>>
    BY DEF AcceptWithTerm, IfTagged, WithCommas
  <1> HIDE DEF a, b
  <1>2. (<<a>> \o << >>) \o <<b>> = <<a, b>>
    <2> DEFINE u == << >>
               t == Around(a, u, b)
               X == {a, b}
    <2>1. u \in Seq(X) /\ a \in X /\ b \in X
      OBVIOUS
    <2>0. Len(u) = 0
      OBVIOUS
    <2> HIDE DEF u, X
    <2>2. t \in Seq(X)
      BY <2>1, Surrounded
    <2>3. Len(t) = Len(u) + 2
      BY <2>1, Surrounded
    <2>4. \A i \in 1..(Len(u) + 2) :
             t[i] = IF i = 1 THEN a ELSE IF i = Len(u) + 2 THEN b ELSE u[i - 1]
      BY <2>1, Surrounded
    <2> HIDE DEF t
    <2>5. Len(t) = 2 /\ t[1] = a /\ t[2] = b
      BY <2>0, <2>3, <2>4
    <2>6. t = <<a, b>>
      BY <2>2, <2>5
    <2> QED
      BY <2>6 DEF t, u, Around
  <1> QED
    BY <1>1, <1>2 DEF a, b

LEMMA OneFieldItems ==
    ASSUME NEW tag, NEW term, NEW item, tag # << >>
    PROVE  AcceptWithTerm(tag, <<item>>, term) = <<Must(tag), item, Must(term)>>
  <1> DEFINE a == Must(tag)
             b == Must(term)
             c == WithCommas(<<item>>)
  <1>1. AcceptWithTerm(tag, <<item>>, term) = (<<a>> \o c) \o <<b>>
    BY DEF AcceptWithTerm, IfTagged
  <1>2. c = <<item>>
    <2>1. c = [i \in 1..1 |-> IF i % 2 = 1 THEN <<item>>[(i + 1) \div 2] ELSE Must(Comma)]
      BY DEF WithCommas
    <2>2. \A i \in 1..1 : i % 2 = 1 /\ (i + 1) \div 2 = 1
      OBVIOUS
    <2>3. c = [i \in 1..1 |-> item]
      BY <2>1, <2>2
    <2> HIDE DEF c
    <2> QED
      BY <2>3
  <1> HIDE DEF a, b, c
  <1>3. (<<a>> \o <<item>>) \o <<b>> = <<a, item, b>>
    <2> DEFINE u == <<item>>
               t == Around(a, u, b)
               X == {a, b, item}
    <2>1. u \in Seq(X) /\ a \in X /\ b \in X
      OBVIOUS
    <2>0. Len(u) = 1 /\ u[1] = item
      OBVIOUS
    <2> HIDE DEF u, X
    <2>2. t \in Seq(X)
      BY <2>1, Surrounded
    <2>3. Len(t) = Len(u) + 2
      BY <2>1, Surrounded
    <2>4. \A i \in 1..(Len(u) + 2) :
             t[i] = IF i = 1 THEN a ELSE IF i = Len(u) + 2 THEN b ELSE u[i - 1]
      BY <2>1, Surrounded
    <2> HIDE DEF t
    <2>5. Len(t) = 3 /\ t[1] = a /\ t[2] = item /\ t[3] = b
      BY <2>0, <2>3, <2>4
    <2>6. t = <<a, item, b>>
      BY <2>2, <2>5
    <2> QED
      BY <2>6 DEF t, u, Around
  <1> QED
    BY <1>1, <1>2, <1>3 DEF a, b

LEMMA FourFieldItems ==
    ASSUME NEW tag, NEW term, NEW i1, NEW i2, NEW i3, NEW i4, tag # << >>
    PROVE  AcceptWithTerm(tag, <<i1, i2, i3, i4>>, term) =
             <<Must(tag), i1, Must(Comma), i2, Must(Comma), i3, Must(Comma), i4, Must(term)>>
  <1> DEFINE a == Must(tag)
             b == Must(term)
             m == Must(Comma)
             fs == <<i1, i2, i3, i4>>
             c == WithCommas(fs)
  <1>1. AcceptWithTerm(tag, fs, term) = (<<a>> \o c) \o <<b>>
    BY DEF AcceptWithTerm, IfTagged
  <1>2. c = <<i1, m, i2, m, i3, m, i4>>
    <2>1. c = [i \in 1..7 |-> IF i % 2 = 1 THEN fs[(i + 1) \div 2] ELSE m]
      BY DEF WithCommas
    <2> HIDE DEF c, m
    <2>2. c \in Seq({i1, i2, i3, i4, m}) /\ Len(c) = 7
      <3>1. \A i \in 1..7 : (i + 1) \div 2 \in 1..4
        OBVIOUS
      <3>2. \A i \in 1..7 : (IF i % 2 = 1 THEN fs[(i + 1) \div 2] ELSE m) \in {i1, i2, i3, i4, m}
        BY <3>1
      <3> QED
        BY <2>1, <3>2
    <2>3. c[1] = i1 /\ c[2] = m /\ c[3] = i2 /\ c[4] = m
      BY <2>1
    <2>4. c[5] = i3 /\ c[6] = m /\ c[7] = i4
      BY <2>1
    <2> QED
      BY <2>2, <2>3, <2>4
  <1> HIDE DEF a, b, c, m
  <1>3. (<<a>> \o <<i1, m, i2, m, i3, m, i4>>) \o <<b>> = <<a, i1, m, i2, m, i3, m, i4, b>>
    <2> DEFINE u == <<i1, m, i2, m, i3, m, i4>>
               t == Around(a, u, b)
               X == {a, b, m, i1, i2, i3, i4}
    <2>1. u \in Seq(X) /\ a \in X /\ b \in X
      OBVIOUS
    <2>0. Len(u) = 7
      OBVIOUS
    <2>2. u[1] = i1 /\ u[2] = m /\ u[3] = i2 /\ u[4] = m /\ u[5] = i3 /\ u[6] = m /\ u[7] = i4
      OBVIOUS
    <2> HIDE DEF X, u
    <2>30. t \in Seq(X)
      BY <2>1, Surrounded
    <2>31. Len(t) = Len(u) + 2
      BY <2>1, Surrounded
    <2>32. \A i \in 1..(Len(u) + 2) :
             t[i] = IF i = 1 THEN a ELSE IF i = Len(u) + 2 THEN b ELSE u[i - 1]
      BY <2>1, Surrounded
    <2> HIDE DEF t
    <2>4. Len(t) = 9 /\ \A i \in 1..9 : t[i] = IF i = 1 THEN a ELSE IF i = 9 THEN b ELSE u[i - 1]
      BY <2>0, <2>31, <2>32
    <2>5. t[1] = a /\ t[2] = i1 /\ t[3] = m /\ t[4] = i2 /\ t[5] = m
      BY <2>2, <2>4
    <2>6. t[6] = i3 /\ t[7] = m /\ t[8] = i4 /\ t[9] = b
      BY <2>2, <2>4
    <2> DEFINE r == <<a, i1, m, i2, m, i3, m, i4, b>>
    <2>7. r \in Seq(X) /\ Len(r) = 9
      BY DEF X
    <2>8. r[1] = a /\ r[2] = i1 /\ r[3] = m /\ r[4] = i2 /\ r[5] = m
      OBVIOUS
    <2>9. r[6] = i3 /\ r[7] = m /\ r[8] = i4 /\ r[9] = b
      OBVIOUS
    <2> HIDE DEF r
    <2>10. \A i \in 1..9 : t[i] = r[i]
      BY <2>5, <2>6, <2>8, <2>9
    <2>11. t = r
      BY <2>30, <2>4, <2>7, <2>10, SeqEqual
    <2> QED
      BY <2>11 DEF t, u, r, Around
  <1> QED
    BY <1>1, <1>2, <1>3 DEF a, b, m

LEMMA CommandItems ==
    /\ CommandOf["At"] = <<Must(<<"AT">>), Must(Cr)>>
    /\ CommandOf["Ati"] = <<Must(<<"ATI">>), Must(Cr)>>
    /\ CommandOf["CpinRead"] = <<Must(<<"+CPIN? ">>), Must(CrLf)>>
    /\ CommandOf["CpinWrite"] = <<Must(<<"+CPIN=">>), Integer, Must(CrLf)>>
    /\ CommandOf["Test"] =
         <<Must(<<"+TEST:">>), Integer, Must(Comma), Quoted, Must(Comma), Numeric(0..4),
           Must(Comma), Named(<<"Five", "Nine">>), Must(CrLf)>>
  <1>1. At = <<Must(<<"AT">>), Must(Cr)>> /\ Ati = <<Must(<<"ATI">>), Must(Cr)>>
    BY NoFieldItems DEF At, Ati, Command
  <1>2. CpinRead = <<Must(<<"+CPIN? ">>), Must(CrLf)>>
    BY NoFieldItems DEF CpinRead, Accept
  <1>3. CpinWrite = <<Must(<<"+CPIN=">>), Integer, Must(CrLf)>>
    BY OneFieldItems DEF CpinWrite, Accept
  <1>4. TestCommand =
         <<Must(<<"+TEST:">>), Integer, Must(Comma), Quoted, Must(Comma), Numeric(0..4),
           Must(Comma), Named(<<"Five", "Nine">>), Must(CrLf)>>
    BY FourFieldItems DEF TestCommand, TestFields, Accept
  <1> QED
    BY <1>1, <1>2, <1>3, <1>4 DEF CommandOf

\* Counting the fields item by item.
LEMMA FieldNoSteps ==
    /\ FieldNo(0) = 0
    /\ \A i \in Nat : FieldNo(i) \in Nat
    /\ \A i \in Nat : FieldNo(i + 1) = FieldNo(i) + IF IsField(Items[i + 1]) THEN 1 ELSE 0
  <1> DEFINE F(i) == {k \in 1..i : IsField(Items[k])}
  <1>1. \A i \in Nat : IsFiniteSet(F(i))
    <2> TAKE i \in Nat
    <2>1. IsFiniteSet(1..i)
      BY FS_Interval
    <2> QED
      BY <2>1, FS_Subset
  <1>2. F(0) = {}
    OBVIOUS
  <1>3. ASSUME NEW i \in Nat
        PROVE  F(i + 1) = IF IsField(Items[i + 1]) THEN F(i) \cup {i + 1} ELSE F(i)
    OBVIOUS
  <1>4. \A i \in Nat : i + 1 \notin F(i)
    OBVIOUS
  <1>5. \A i \in Nat : FieldNo(i) = Cardinality(F(i))
    BY DEF FieldNo
  <1> HIDE DEF F
  <1>6. \A i \in Nat : FieldNo(i) \in Nat
    BY <1>1, <1>5, FS_CardinalityType
  <1>7. FieldNo(0) = 0
    BY <1>2, <1>5, FS_EmptySet
  <1>8. ASSUME NEW i \in Nat
        PROVE  FieldNo(i + 1) = FieldNo(i) + IF IsField(Items[i + 1]) THEN 1 ELSE 0
    <2>1. FieldNo(i) = Cardinality(F(i)) /\ FieldNo(i + 1) = Cardinality(F(i + 1))
      BY <1>5
    <2>2. CASE IsField(Items[i + 1])
      <3>1. F(i + 1) = F(i) \cup {i + 1}
        BY <1>3, <2>2
      <3>2. Cardinality(F(i) \cup {i + 1}) = Cardinality(F(i)) + 1
        BY <1>1, <1>4, FS_AddElement
      <3> QED
        BY <2>1, <2>2, <3>1, <3>2
    <2>3. CASE ~IsField(Items[i + 1])
      <3>1. F(i + 1) = F(i)
        BY <1>3, <2>3
      <3>2. FieldNo(i) \in Nat
        BY <1>6
      <3> QED
        BY <2>1, <2>3, <3>1, <3>2
    <2> QED
      BY <2>2, <2>3
  <1> QED
    BY <1>6, <1>7, <1>8

\* What a command is sent with.
ValuesOk == field \in Words /\ values \in ValuesOf(command, field)

Kinds == {"sequence", "quoted", "number", "name", "int"}

\* The items of every command are of the kinds a command has, and each of them
\* stands for at least a character.
PiecesOk ==
    /\ Len(Items) \in Nat /\ Len(Items) >= 1
    /\ \A i \in 1..Len(Items) :
          /\ Items[i].visit \in Kinds
          /\ Piece(i) \in Words /\ Piece(i) # << >>

LEMMA Literals ==
    /\ <<"AT">> \in Words /\ <<"ATI">> \in Words /\ <<"+CPIN? ">> \in Words
    /\ <<"+CPIN=">> \in Words /\ <<"+TEST:">> \in Words /\ <<"Nine">> \in Words
    /\ Cr \in Words /\ CrLf \in Words /\ Comma \in Words
    /\ Cr # << >> /\ CrLf # << >> /\ Comma # << >>
  <1>1. \A c \in Chars : <<c>> \in Words
    BY DEF Words
  <1>2. {"AT", "ATI", "+CPIN? ", "+CPIN=", "+TEST:", "Nine", "\r", "\n", ","} \subseteq Chars
    BY DEF Chars
  <1>3. CrLf \in Words
    <2>1. \A c, d \in Chars : <<c, d>> \in Words
      BY DEF Words
    <2> QED
      BY <1>2, <2>1 DEF CrLf
  <1>4. Cr # << >> /\ CrLf # << >> /\ Comma # << >>
    BY DEF Cr, CrLf, Comma
  <1> QED
    BY <1>1, <1>2, <1>3, <1>4 DEF Cr, Comma

LEMMA MustPiece ==
    ASSUME NEW i \in Nat, NEW seq, Items[i] = Must(seq)
    PROVE  Items[i].visit = "sequence" /\ Items[i].arg = seq /\ Piece(i) = seq
  <1>1. Must(seq).visit = "sequence" /\ Must(seq).arg = seq
    BY DEF Must
  <1> QED
    BY <1>1 DEF Piece

LEMMA TwoItemPieces ==
    ASSUME NEW a \in Words, NEW b \in Words, a # << >>, b # << >>,
           CommandOf[command] = <<Must(a), Must(b)>>
    PROVE  PiecesOk
  <1>1. Len(Items) = 2 /\ Items[1] = Must(a) /\ Items[2] = Must(b)
    BY DEF Items
  <1>2. \A i \in 1..2 : Items[i].visit = "sequence" /\ Piece(i) \in {a, b}
    BY <1>1, MustPiece
  <1> QED
    BY <1>1, <1>2 DEF PiecesOk, Kinds

LEMMA CpinWritePieces ==
    ASSUME command = "CpinWrite", ValuesOk
    PROVE  PiecesOk
  <1>1. Items = <<Must(<<"+CPIN=">>), Integer, Must(CrLf)>>
    BY CommandItems DEF Items
  <1>2. Len(Items) = 3 /\ Items[1] = Must(<<"+CPIN=">>) /\ Items[2] = Integer /\ Items[3] = Must(CrLf)
    BY <1>1
  <1>3. PICK n \in Numbers : values = <<n>>
    BY DEF ValuesOk, ValuesOf
  <1>4. n \in Int
    BY SerializerAssumption, PacketAssumption
  <1>5. Items[2].visit = "int"
    BY <1>2 DEF Integer
  <1>6. FieldNo(2) = 1
    <2>1. IsField(Items[2]) /\ ~IsField(Items[1])
      BY <1>2, <1>5, MustPiece DEF IsField
    <2>2. FieldNo(0 + 1) = FieldNo(0) /\ FieldNo(1 + 1) = FieldNo(1) + 1
      BY <2>1, FieldNoSteps
    <2> QED
      BY <2>2, FieldNoSteps
  <1>7. Piece(2) = ToChars(n)
    BY <1>3, <1>5, <1>6 DEF Piece
  <1>8. Piece(1) = <<"+CPIN=">> /\ Piece(3) = CrLf /\ Items[1].visit = "sequence" /\ Items[3].visit = "sequence"
    BY <1>2, MustPiece
  <1>9. <<"+CPIN=">> # << >>
    OBVIOUS
  <1>10. \A i \in 1..3 : Piece(i) \in Words /\ Piece(i) # << >> /\ Items[i].visit \in {"int", "sequence"}
    <2>1. Piece(2) \in Words /\ Piece(2) # << >>
      BY <1>4, <1>7, ToCharsText
    <2>2. Piece(1) \in Words /\ Piece(1) # << >> /\ Piece(3) \in Words /\ Piece(3) # << >>
      BY <1>8, <1>9, Literals
    <2> QED
      BY <1>5, <1>8, <2>1, <2>2
  <1> QED
    BY <1>2, <1>10 DEF PiecesOk, Kinds

\* The command that has a field of each kind.
TestPiecesAre(n) ==
    /\ Len(Items) = 9
    /\ Items[1] = Must(<<"+TEST:">>) /\ Items[2] = Integer /\ Items[3] = Must(Comma)
    /\ Items[4] = Quoted /\ Items[5] = Must(Comma) /\ Items[6] = Numeric(0..4)
    /\ Items[7] = Must(Comma) /\ Items[8] = Named(<<"Five", "Nine">>) /\ Items[9] = Must(CrLf)
    /\ values = <<n, field, 4, "Nine">>
    /\ Piece(1) = <<"+TEST:">> /\ Piece(2) = ToChars(n) /\ Piece(3) = Comma
    /\ Piece(4) = WithQuotes(field) /\ Piece(5) = Comma /\ Piece(6) = ToChars(4)
    /\ Piece(7) = Comma /\ Piece(8) = <<"Nine">> /\ Piece(9) = CrLf
    /\ FieldNo(1) = 0 /\ FieldNo(2) = 1 /\ FieldNo(3) = 1 /\ FieldNo(4) = 2 /\ FieldNo(5) = 2
    /\ FieldNo(6) = 3 /\ FieldNo(7) = 3 /\ FieldNo(8) = 4 /\ FieldNo(9) = 4
    /\ Items[1].visit = "sequence" /\ Items[2].visit = "int" /\ Items[3].visit = "sequence"
    /\ Items[4].visit = "quoted" /\ Items[5].visit = "sequence" /\ Items[6].visit = "number"
    /\ Items[7].visit = "sequence" /\ Items[8].visit = "name" /\ Items[9].visit = "sequence"

LEMMA TestItemPieces ==
    ASSUME command = "Test", ValuesOk
    PROVE  \E n \in Numbers : TestPiecesAre(n)
  <1>1. Items = <<Must(<<"+TEST:">>), Integer, Must(Comma), Quoted, Must(Comma), Numeric(0..4),
                 Must(Comma), Named(<<"Five", "Nine">>), Must(CrLf)>>
    BY CommandItems DEF Items
  <1>2. /\ Len(Items) = 9
        /\ Items[1] = Must(<<"+TEST:">>) /\ Items[2] = Integer /\ Items[3] = Must(Comma)
        /\ Items[4] = Quoted /\ Items[5] = Must(Comma) /\ Items[6] = Numeric(0..4)
        /\ Items[7] = Must(Comma) /\ Items[8] = Named(<<"Five", "Nine">>) /\ Items[9] = Must(CrLf)
    BY <1>1
  <1>3. PICK n \in Numbers : values = <<n, field, 4, "Nine">>
    BY DEF ValuesOk, ValuesOf
  <1>4. n \in Int
    BY SerializerAssumption, PacketAssumption
  <1>5. /\ Items[2].visit = "int" /\ Items[4].visit = "quoted"
        /\ Items[6].visit = "number" /\ Items[8].visit = "name"
    BY <1>2 DEF Integer, Quoted, Numeric, Named
  <1>6. /\ Piece(1) = <<"+TEST:">> /\ Piece(3) = Comma /\ Piece(5) = Comma
        /\ Piece(7) = Comma /\ Piece(9) = CrLf
        /\ Items[1].visit = "sequence" /\ Items[3].visit = "sequence" /\ Items[5].visit = "sequence"
        /\ Items[7].visit = "sequence" /\ Items[9].visit = "sequence"
    BY <1>2, MustPiece
  <1>7. /\ FieldNo(1) = 0 /\ FieldNo(2) = 1 /\ FieldNo(3) = 1 /\ FieldNo(4) = 2 /\ FieldNo(5) = 2
        /\ FieldNo(6) = 3 /\ FieldNo(7) = 3 /\ FieldNo(8) = 4 /\ FieldNo(9) = 4
    <2>1. /\ ~IsField(Items[1]) /\ IsField(Items[2]) /\ ~IsField(Items[3]) /\ IsField(Items[4])
          /\ ~IsField(Items[5]) /\ IsField(Items[6]) /\ ~IsField(Items[7]) /\ IsField(Items[8])
          /\ ~IsField(Items[9])
      BY <1>5, <1>6 DEF IsField
    <2>2. FieldNo(0 + 1) = FieldNo(0) /\ FieldNo(1 + 1) = FieldNo(1) + 1
      BY <2>1, FieldNoSteps
    <2>3. FieldNo(2 + 1) = FieldNo(2) /\ FieldNo(3 + 1) = FieldNo(3) + 1
      BY <2>1, FieldNoSteps
    <2>4. FieldNo(4 + 1) = FieldNo(4) /\ FieldNo(5 + 1) = FieldNo(5) + 1
      BY <2>1, FieldNoSteps
    <2>5. FieldNo(6 + 1) = FieldNo(6) /\ FieldNo(7 + 1) = FieldNo(7) + 1
      BY <2>1, FieldNoSteps
    <2>6. FieldNo(8 + 1) = FieldNo(8)
      BY <2>1, FieldNoSteps
    <2> QED
      BY <2>2, <2>3, <2>4, <2>5, <2>6, FieldNoSteps
  <1>8. Piece(2) = ToChars(n) /\ Piece(4) = WithQuotes(field) /\ Piece(6) = ToChars(4) /\ Piece(8) = <<"Nine">>
    <2>1. values[1] = n /\ values[2] = field /\ values[3] = 4 /\ values[4] = "Nine"
      BY <1>3
    <2> QED
      BY <1>5, <1>7, <2>1 DEF Piece
  <1> QED
    BY <1>2, <1>3, <1>5, <1>6, <1>7, <1>8 DEF TestPiecesAre

LEMMA TestPieces ==
    ASSUME command = "Test", ValuesOk
    PROVE  PiecesOk
  <1>1. PICK n \in Numbers : TestPiecesAre(n)
    BY TestItemPieces
  <1>2. n \in Int
    BY SerializerAssumption, PacketAssumption
  <1>3. <<"+TEST:">> # << >> /\ <<"Nine">> # << >>
    OBVIOUS
  <1>4. \A i \in {1, 3, 5, 7, 9} : Piece(i) \in Words /\ Piece(i) # << >> /\ Items[i].visit \in Kinds
    BY <1>1, <1>3, Literals DEF Kinds, TestPiecesAre
  <1>5. \A i \in {2, 4, 6, 8} : Piece(i) \in Words /\ Piece(i) # << >> /\ Items[i].visit \in Kinds
    <2>1. Piece(2) \in Words /\ Piece(2) # << >> /\ Piece(6) \in Words /\ Piece(6) # << >>
      <3>1. 4 \in Int
        OBVIOUS
      <3> QED
        BY <1>1, <1>2, <3>1, ToCharsText DEF TestPiecesAre
    <2>2. Piece(4) \in Words /\ Piece(4) # << >>
      BY <1>1, QuotedWord DEF ValuesOk, TestPiecesAre
    <2>3. Piece(8) \in Words /\ Piece(8) # << >>
      BY <1>1, <1>3, Literals DEF TestPiecesAre
    <2> QED
      BY <1>1, <2>1, <2>2, <2>3 DEF Kinds, TestPiecesAre
  <1>6. \A i \in 1..9 : i \in {1, 3, 5, 7, 9} \/ i \in {2, 4, 6, 8}
    OBVIOUS
  <1> QED
    BY <1>1, <1>4, <1>5, <1>6 DEF PiecesOk, TestPiecesAre

LEMMA CommandPieces ==
    ASSUME command \in DOMAIN CommandOf, ValuesOk
    PROVE  PiecesOk
  <1>1. command \in {"At", "Ati", "CpinRead", "CpinWrite", "Test"}
    BY DEF CommandOf
  <1>2. <<"AT">> # << >> /\ <<"ATI">> # << >> /\ <<"+CPIN? ">> # << >>
    OBVIOUS
  <1>3. CASE command \in {"At", "Ati", "CpinRead"}
    BY <1>2, <1>3, CommandItems, Literals, TwoItemPieces
  <1> QED
    BY <1>1, <1>3, CpinWritePieces, TestPieces

-----------------------------------------------------------------------------
(* The serializer.                                                            *)

Stages == {"filling", "writing", "written", "refused"}

\* Before it is sent a command has written nothing; then its values stay, and
\* what is written are its first pieces.
WriteInv ==
    /\ command \in DOMAIN CommandOf /\ stage \in Stages
    /\ field \in Words /\ room \in Nat /\ out \in Words
    /\ Len(out) <= room
    /\ stage = "filling" => out = << >> /\ next = 1
    /\ stage # "filling" =>
          /\ ValuesOk
          /\ next \in 1..(Len(Items) + 1)
          /\ \A n \in Nat : next = n + 1 => out = Sentence(n)
    /\ stage = "written" => next = Len(Items) + 1
    /\ stage = "refused" =>
          /\ next <= Len(Items)
          /\ \A n \in Nat : next = n => Len(Sentence(n)) >= room

LEMMA WriteInvInit ==
    ASSUME SerializerInit
    PROVE  WriteInv
  <1>1. room \in Nat
    BY SerializerAssumption DEF SerializerInit
  <1>2. << >> \in Words /\ Len(<< >>) = 0
    BY DEF Words
  <1> QED
    BY <1>1, <1>2 DEF SerializerInit, WriteInv, Stages

\* A text is cut to what fits, and a number that does not fit is left out.
LEMMA FillWord ==
    ASSUME field \in Words, Fill
    PROVE  field' \in Words
  <1>1. ASSUME NEW text \in Texts PROVE StreamText(text) \in Words
    <2>1. text \in Seq(Chars)
      <3>1. STRING \subseteq Chars
        BY DEF Chars
      <3>2. text \in Seq(STRING)
        BY SerializerAssumption
      <3> QED
        BY <3>1, <3>2, SeqMonotonic
    <2> DEFINE fits == Capacity - Len(field)
               n == IF Len(text) < fits THEN Len(text) ELSE fits
    <2>2. Len(text) \in Nat /\ n \in Int /\ n <= Len(text)
      BY <2>1, PacketAssumption DEF Capacity, Words
    <2> HIDE DEF n
    <2>3. SubSeq(text, 1, n) \in Seq(Chars)
      BY <2>1, <2>2
    <2> QED
      BY <2>3, ConcatWords DEF StreamText, n, Words
  <1>2. ASSUME NEW n \in Numbers PROVE StreamNumber(n) \in Words
    <2>1. n \in Int
      BY SerializerAssumption, PacketAssumption
    <2> QED
      BY <2>1, ToCharsText, ConcatWords DEF StreamNumber
  <1> QED
    BY <1>1, <1>2 DEF Fill

LEMMA SameItems ==
    ASSUME command' = command
    PROVE  Items' = Items /\ \A i : FieldNo(i)' = FieldNo(i)
  BY DEF Items, FieldNo

LEMMA SameSentence ==
    ASSUME command' = command, values' = values
    PROVE  \A n : Sentence(n)' = Sentence(n)
  <1>1. \A i : Piece(i)' = Piece(i)
    BY SameItems DEF Piece
  <1> QED
    BY <1>1 DEF Sentence

LEMMA CommandSentence ==
    ASSUME PiecesOk
    PROVE  /\ Sentence(0) = << >>
           /\ \A i \in 1..Len(Items) : Sentence(i) = Sentence(i - 1) \o Piece(i)
           /\ \A i \in 0..Len(Items) : Sentence(i) \in Words
  <1> DEFINE N == Len(Items)
  <1>1. N \in Nat /\ \A i \in 1..N : Piece(i) \in Words
    BY DEF PiecesOk
  <1> HIDE DEF N
  <1>2. /\ Sentence(0) = << >>
        /\ \A i \in 1..N : Sentence(i) = Sentence(i - 1) \o Piece(i)
        /\ \A i \in 0..N : Sentence(i) \in Words
    BY <1>1, SentenceSteps, Zenon
  <1> QED
    BY <1>2 DEF N

\* The whole piece of the item is written, or none of it and only when it leaves
\* no character to spare.
WritesPiece ==
    /\ UNCHANGED <<command, field, values, room>>
    /\ \/ /\ Len(Piece(next)) <= Left
          /\ out' = out \o Piece(next) /\ next' = next + 1 /\ stage' = "writing"
       \/ /\ Len(Piece(next)) >= Left
          /\ out' = out /\ next' = next /\ stage' = "refused"

LEMMA PieceStep ==
    ASSUME WriteInv, stage = "writing", next <= Len(Items), WritesPiece
    PROVE  WriteInv'
  <1> DEFINE p == Piece(next)
  <1>1. command' = command /\ values' = values /\ field' = field /\ room' = room
    BY DEF WritesPiece
  <1>2. PiecesOk
    BY CommandPieces DEF WriteInv
  <1>3. next \in 1..Len(Items) /\ Len(Items) \in Nat
    BY <1>2 DEF PiecesOk, WriteInv
  <1>4. p \in Words /\ Len(p) \in Nat
    BY <1>2, <1>3 DEF PiecesOk, Words
  <1>5. PICK k \in Nat : next = k + 1
    <2>1. next - 1 \in Nat /\ next = (next - 1) + 1
      BY <1>3
    <2> QED
      BY <2>1
  <1>6. /\ Sentence(k + 1) = Sentence(k) \o p
        /\ Sentence(k) \in Words /\ Sentence(k + 1) \in Words
    <2>1. k + 1 \in 1..Len(Items) /\ (k + 1) - 1 = k /\ k \in 0..Len(Items) /\ k + 1 \in 0..Len(Items)
      BY <1>3, <1>5
    <2> HIDE DEF p
    <2>2. Sentence(k + 1) = Sentence((k + 1) - 1) \o Piece(k + 1)
      BY <1>2, <2>1, CommandSentence
    <2>3. Sentence(k) \in Words /\ Sentence(k + 1) \in Words
      BY <1>2, <2>1, CommandSentence
    <2> QED
      BY <1>5, <2>1, <2>2, <2>3 DEF p
  <1>7. out = Sentence(k) /\ Len(out) \in Nat /\ room \in Nat /\ Left = room - Len(out)
    BY <1>5 DEF WriteInv, Left, Words
  <1> HIDE DEF p
  <1>8. Len(Sentence(k + 1)) = Len(out) + Len(p)
    BY <1>4, <1>6, <1>7, ConcatWords
  <1>9. Items' = Items /\ \A n : Sentence(n)' = Sentence(n)
    BY <1>1, SameItems, SameSentence
  <1>10. ValuesOk'
    BY <1>1 DEF WriteInv, ValuesOk
  <1>11. CASE out' = out \o p /\ next' = next + 1 /\ stage' = "writing" /\ Len(p) <= Left
    <2>1. out' = Sentence(k + 1) /\ next' = (k + 1) + 1
      BY <1>5, <1>6, <1>7, <1>11
    <2>2. \A n \in Nat : next' = n + 1 => n = k + 1
      BY <2>1
    <2>3. \A n \in Nat : next' = n + 1 => out' = Sentence(n)'
      BY <1>9, <2>1, <2>2
    <2>4. Len(out') <= room' /\ out' \in Words
      BY <1>1, <1>4, <1>6, <1>7, <1>8, <1>11, <2>1
    <2>5. next' \in 1..(Len(Items') + 1)
      BY <1>3, <1>9, <1>11
    <2> QED
      BY <1>1, <1>10, <1>11, <2>3, <2>4, <2>5 DEF WriteInv, Stages
  <1>12. CASE out' = out /\ next' = next /\ stage' = "refused" /\ Len(p) >= Left
    <2>1. \A n \in Nat : next' = n + 1 => n = k
      BY <1>5, <1>12
    <2>2. \A n \in Nat : next' = n + 1 => out' = Sentence(n)'
      BY <1>7, <1>9, <1>12, <2>1
    <2>3. \A n \in Nat : next' = n => Len(Sentence(n)') >= room'
      <3>1. Len(Sentence(k + 1)) >= room
        BY <1>4, <1>7, <1>8, <1>12
      <3>2. \A n \in Nat : next' = n => n = k + 1
        BY <1>5, <1>12
      <3> QED
        BY <1>1, <1>9, <3>1, <3>2
    <2>4. next' \in 1..(Len(Items') + 1) /\ next' <= Len(Items')
      BY <1>3, <1>9, <1>12
    <2> QED
      BY <1>1, <1>10, <1>12, <2>2, <2>3, <2>4 DEF WriteInv, Stages
  <1> QED
    BY <1>11, <1>12 DEF WritesPiece, p

LEMMA WriteStep ==
    ASSUME WriteInv, Write
    PROVE  WriteInv'
  <1>1. CASE Written
    <2>1. /\ command' = command /\ values' = values /\ field' = field /\ room' = room
          /\ out' = out /\ next' = next /\ stage' = "written" /\ stage = "writing" /\ next > Len(Items)
      BY <1>1 DEF Written
    <2>2. Items' = Items /\ \A n : Sentence(n)' = Sentence(n)
      BY <2>1, SameItems, SameSentence
    <2>3. ValuesOk'
      BY <2>1 DEF WriteInv, ValuesOk
    <2>4. Len(Items) \in Nat
      BY <2>1, CommandPieces DEF WriteInv, PiecesOk
    <2>5. next' = Len(Items') + 1 /\ next' \in 1..(Len(Items') + 1)
      BY <2>1, <2>2, <2>4 DEF WriteInv
    <2>6. \A n \in Nat : next' = n + 1 => out' = Sentence(n)'
      BY <2>1, <2>2 DEF WriteInv
    <2> QED
      BY <2>1, <2>3, <2>5, <2>6 DEF WriteInv, Stages
  <1>2. CASE ~Written
    <2>1. stage = "writing" /\ next <= Len(Items)
      BY <1>2 DEF Write, WriteSequence, WriteQuoted, WriteNumber, WriteName, WriteInt, Visits
    <2>2. Piece(next) # << >> /\ Len(Piece(next)) \in Nat /\ Left \in Int
      <3>1. PiecesOk /\ next \in 1..Len(Items)
        BY <2>1, CommandPieces DEF WriteInv, PiecesOk
      <3> QED
        BY <3>1 DEF PiecesOk, Words, WriteInv, Left
    <2>3. WritesPiece
      <3>1. CASE WriteSequence
        <4>1. Piece(next) = Item.arg
          BY <3>1 DEF WriteSequence, Visits, Piece, Item
        <4> QED
          BY <2>1, <2>2, <3>1, <4>1 DEF WriteSequence, Put, WritesPiece
      <3>2. CASE WriteQuoted
        <4>1. Piece(next) = WithQuotes(Value)
          BY <3>2 DEF WriteQuoted, Visits, Piece, Item, Value
        <4>2. Need(Value) = Len(Piece(next))
          BY <4>1 DEF Need
        <4> QED
          BY <2>1, <2>2, <3>2, <4>1, <4>2 DEF WriteQuoted, Put, WritesPiece
      <3>3. CASE WriteNumber
        <4>1. Piece(next) = ToChars(Value)
          BY <3>3 DEF WriteNumber, Visits, Piece, Item, Value
        <4> QED
          BY <2>1, <2>2, <3>3, <4>1 DEF WriteNumber, Put, WritesPiece
      <3>4. CASE WriteName
        <4>1. Piece(next) = <<Value>>
          BY <3>4 DEF WriteName, Visits, Piece, Item, Value
        <4>2. Len(Piece(next)) = 1
          BY <4>1
        <4> QED
          BY <2>1, <2>2, <3>4, <4>1, <4>2 DEF WriteName, Put, WritesPiece
      <3>5. CASE WriteInt
        <4>1. Piece(next) = ToChars(Value)
          BY <3>5 DEF WriteInt, Visits, Piece, Item, Value
        <4> QED
          BY <2>1, <2>2, <3>5, <4>1 DEF WriteInt, Put, WritesPiece
      <3> QED
        BY <1>2, <3>1, <3>2, <3>3, <3>4, <3>5 DEF Write
    <2> QED
      BY <2>1, <2>3, PieceStep
  <1> QED
    BY <1>1, <1>2

LEMMA SentenceBegins ==
    command \in DOMAIN CommandOf /\ ValuesOk => Len(Items) \in Nat /\ Sentence(0) = << >>
  BY CommandPieces, CommandSentence DEF PiecesOk

LEMMA SerializerStep ==
    ASSUME WriteInv, [SerializerNext]_serializerVars
    PROVE  WriteInv'
  <1>1. CASE Fill
    <2>1. field' \in Words
      BY <1>1, FillWord DEF WriteInv
    <2> QED
      BY <1>1, <2>1 DEF WriteInv, Fill, Stages
  <1>2. CASE Send
    <2>1. /\ stage = "filling" /\ stage' = "writing" /\ values' \in ValuesOf(command, field)
          /\ command' = command /\ field' = field /\ room' = room /\ out' = out /\ next' = next
      BY <1>2 DEF Send
    <2>2. ValuesOk'
      BY <2>1 DEF WriteInv, ValuesOk
    <2>3. out' = << >> /\ next' = 1
      BY <2>1 DEF WriteInv
    <2>4. (command \in DOMAIN CommandOf /\ ValuesOk => Len(Items) \in Nat /\ Sentence(0) = << >>)'
      BY SentenceBegins, PTL
    <2>5. Len(Items)' \in Nat /\ Sentence(0)' = << >>
      BY <2>1, <2>2, <2>4 DEF WriteInv
    <2>6. \A n \in Nat : next' = n + 1 => out' = Sentence(n)'
      <3>1. \A n \in Nat : next' = n + 1 => n = 0
        BY <2>3
      <3> QED
        BY <2>3, <2>5, <3>1
    <2>7. next' \in 1..(Len(Items)' + 1)
      BY <2>3, <2>5
    <2> QED
      BY <2>1, <2>2, <2>6, <2>7 DEF WriteInv, Stages
  <1>3. CASE Write
    BY <1>3, WriteStep
  <1>4. CASE UNCHANGED serializerVars
    <2>1. Items' = Items /\ \A n : Sentence(n)' = Sentence(n)
      BY <1>4, SameItems, SameSentence DEF serializerVars
    <2> QED
      BY <1>4, <2>1 DEF serializerVars, WriteInv, ValuesOk
  <1> QED
    BY <1>1, <1>2, <1>3, <1>4 DEF SerializerNext

THEOREM SpecWriteInv == Spec => []WriteInv
  <1>1. Init => WriteInv
    BY WriteInvInit DEF Init
  <1>2. WriteInv /\ [Next]_vars => WriteInv'
    <2> SUFFICES ASSUME WriteInv, [Next]_vars PROVE WriteInv'
      OBVIOUS
    <2>1. [SerializerNext]_serializerVars
      BY DEF Next, Transmit, vars
    <2> QED
      BY <2>1, SerializerStep
  <1> QED
    BY <1>1, <1>2, PTL DEF Spec

\* The output is a whole number of the command's pieces, an accepted command is
\* written to its end, and one that fits with a character to spare is accepted.
THEOREM SpecWritesWhole == Spec => []WritesWhole
  <1>1. WriteInv => WritesWhole
    <2> SUFFICES ASSUME WriteInv, stage # "filling"
                 PROVE  /\ out = Sentence(next - 1)
                        /\ stage = "written" => next = Len(Items) + 1
                        /\ stage = "refused" => Len(Sentence(Len(Items))) >= room
      BY DEF WritesWhole
    <2>1. PiecesOk /\ next \in 1..(Len(Items) + 1)
      BY CommandPieces DEF WriteInv
    <2>2. Len(Items) \in Nat /\ \A i \in 1..Len(Items) : Piece(i) \in Words
      BY <2>1 DEF PiecesOk
    <2>3. next - 1 \in Nat /\ next = (next - 1) + 1 /\ next \in Nat
      BY <2>1, <2>2
    <2>4. out = Sentence(next - 1)
      BY <2>3 DEF WriteInv
    <2>5. ASSUME stage = "refused" PROVE Len(Sentence(Len(Items))) >= room
      <3>1. next \in 0..Len(Items) /\ Len(Sentence(next)) >= room
        BY <2>2, <2>3, <2>5 DEF WriteInv
      <3>2. Len(Sentence(next)) <= Len(Sentence(Len(Items)))
        BY <2>2, <3>1, SentenceLonger
      <3>3. Sentence(next) \in Words /\ Sentence(Len(Items)) \in Words
        BY <2>1, <2>2, <3>1, CommandSentence
      <3>4. Len(Sentence(next)) \in Nat /\ Len(Sentence(Len(Items))) \in Nat /\ room \in Nat
        BY <3>3 DEF Words, WriteInv
      <3> QED
        BY <3>1, <3>2, <3>4
    <2> QED
      BY <2>4, <2>5 DEF WriteInv
  <1> QED
    BY <1>1, SpecWriteInv, PTL

-----------------------------------------------------------------------------
(* Positions in a text.                                                       *)

Digits == DOMAIN DigitValue

LEMMA CharacterClasses ==
    /\ Digits \cap Blank = {}
    /\ "-" \notin Digits /\ "-" \notin Blank /\ Quote \notin Blank
    /\ "\r" \notin Digits /\ "," \notin Digits /\ "\r" \notin Blank /\ "," \notin Blank
    /\ "\n" \notin Blank /\ "\n" # "\r"
  <1>1. Digits = {Digit[i] : i \in 1..10}
    BY DEF Digits, DigitValue
  <1>2. {Digit[i] : i \in 1..10} = {"0", "1", "2", "3", "4", "5", "6", "7", "8", "9"}
    <2>1. 1..10 = {1, 2, 3, 4, 5, 6, 7, 8, 9, 10}
      OBVIOUS
    <2>2. {Digit[i] : i \in 1..10} =
            {Digit[1], Digit[2], Digit[3], Digit[4], Digit[5],
             Digit[6], Digit[7], Digit[8], Digit[9], Digit[10]}
      BY <2>1
    <2> QED
      BY <2>2 DEF Digit
  <1> QED
    BY <1>1, <1>2 DEF Blank, Quote

LEMMA FirstOfLeast ==
    ASSUME NEW S, S \subseteq Nat, S # {}, NEW text
    PROVE  FirstOf(S, text) \in S /\ \A y \in S : FirstOf(S, text) <= y
  <1>1. \E x \in S : \A y \in S : x <= y
    BY LeastNat
  <1> QED
    BY <1>1 DEF FirstOf, Least

\* All characters from p to q are blank.
Blanks(text, p, q) == \A i \in p..(q - 1) : text[i + 1] \in Blank

LEMMA AllBlankIsBlanks ==
    ASSUME NEW text \in Words, NEW p \in Nat, NEW q \in Nat, p <= q, q <= Len(text)
    PROVE  AllBlank(SubSeq(text, p + 1, q)) <=> Blanks(text, p, q)
  <1> DEFINE s == SubSeq(text, p + 1, q)
  <1>1. text \in Seq(Chars) /\ Len(text) \in Nat
    BY DEF Words
  <1>2. /\ s \in Seq(Chars) /\ DOMAIN s = 1..(q - p) /\ Len(s) = q - p
        /\ \A j \in 1..(q - p) : s[j] = text[p + j]
    BY <1>1, SubSeqProperties
  <1> HIDE DEF s
  <1>3. ASSUME AllBlank(s), NEW i \in p..(q - 1) PROVE text[i + 1] \in Blank
    <2>1. i - p + 1 \in 1..(q - p) /\ p + (i - p + 1) = i + 1
      OBVIOUS
    <2> QED
      BY <1>2, <1>3, <2>1 DEF AllBlank
  <1>4. ASSUME Blanks(text, p, q), NEW j \in DOMAIN s PROVE s[j] \in Blank
    <2>1. j \in 1..(q - p)
      BY <1>2
    <2>2. p + j - 1 \in p..(q - 1) /\ (p + j - 1) + 1 = p + j
      BY <2>1
    <2> QED
      BY <1>2, <1>4, <2>1, <2>2 DEF Blanks
  <1> QED
    BY <1>3, <1>4 DEF AllBlank, Blanks, s

\* skipWhitespaces: to the first character that is not blank, or to the end.
LEMMA SkipIs ==
    ASSUME NEW text \in Words, NEW at \in 0..Len(text)
    PROVE  /\ Skip(text, at) \in at..Len(text)
           /\ Blanks(text, at, Skip(text, at))
           /\ Skip(text, at) < Len(text) => text[Skip(text, at) + 1] \notin Blank
  <1> DEFINE P == {p \in at..(Len(text) - 1) : text[p + 1] \notin Blank}
  <1>1. Len(text) \in Nat /\ at \in Nat
    BY DEF Words
  <1>2. Skip(text, at) = FirstOf(P, text)
    BY DEF Skip
  <1>3. CASE P = {}
    <2>1. Skip(text, at) = Len(text)
      BY <1>2, <1>3 DEF FirstOf
    <2>2. \A p \in at..(Len(text) - 1) : text[p + 1] \in Blank
      BY <1>3
    <2> QED
      BY <1>1, <2>1, <2>2 DEF Blanks
  <1>4. CASE P # {}
    <2>1. P \subseteq Nat
      BY <1>1
    <2> HIDE DEF P
    <2>2. Skip(text, at) \in P /\ \A y \in P : Skip(text, at) <= y
      <3>1. FirstOf(P, text) \in P /\ \A y \in P : FirstOf(P, text) <= y
        BY <1>4, <2>1, FirstOfLeast, Zenon
      <3> QED
        BY <1>2, <3>1
    <2>3. \A p \in at..(Skip(text, at) - 1) : text[p + 1] \in Blank
      BY <1>1, <2>2 DEF P
    <2> QED
      BY <1>1, <2>2, <2>3 DEF Blanks, P
  <1> QED
    BY <1>3, <1>4

\* There is one such position.
LEMMA SkipUnique ==
    ASSUME NEW text \in Words, NEW at \in 0..Len(text), NEW q \in at..Len(text),
           Blanks(text, at, q), q < Len(text) => text[q + 1] \notin Blank
    PROVE  Skip(text, at) = q
  <1>1. Len(text) \in Nat /\ at \in Nat /\ q \in Nat
    BY DEF Words
  <1>2. /\ Skip(text, at) \in at..Len(text)
        /\ Blanks(text, at, Skip(text, at))
        /\ Skip(text, at) < Len(text) => text[Skip(text, at) + 1] \notin Blank
    BY SkipIs
  <1>3. ~(q < Skip(text, at))
    <2> SUFFICES ASSUME q < Skip(text, at) PROVE FALSE
      OBVIOUS
    <2>1. q \in at..(Skip(text, at) - 1) /\ q < Len(text)
      BY <1>1, <1>2
    <2> QED
      BY <1>2, <2>1 DEF Blanks
  <1>4. ~(Skip(text, at) < q)
    <2> SUFFICES ASSUME Skip(text, at) < q PROVE FALSE
      OBVIOUS
    <2>1. Skip(text, at) \in at..(q - 1) /\ Skip(text, at) < Len(text)
      BY <1>1, <1>2
    <2> QED
      BY <1>2, <2>1 DEF Blanks
  <1> QED
    BY <1>1, <1>2, <1>3, <1>4

\* From every position among the blanks it is the same one.
LEMMA SkipAmongBlanks ==
    ASSUME NEW text \in Words, NEW at \in 0..Len(text), NEW q \in at..Skip(text, at)
    PROVE  q \in 0..Len(text) /\ Skip(text, q) = Skip(text, at)
  <1>1. Len(text) \in Nat /\ at \in Nat
    BY DEF Words
  <1>2. /\ Skip(text, at) \in at..Len(text)
        /\ Blanks(text, at, Skip(text, at))
        /\ Skip(text, at) < Len(text) => text[Skip(text, at) + 1] \notin Blank
    BY SkipIs
  <1>3. q \in 0..Len(text) /\ Skip(text, at) \in q..Len(text)
    BY <1>1, <1>2
  <1>4. Blanks(text, q, Skip(text, at))
    BY <1>1, <1>2 DEF Blanks
  <1> QED
    BY <1>2, <1>3, <1>4, SkipUnique

-----------------------------------------------------------------------------
(* What an item may be, and the texts it stands for.                          *)

GoodLiterals ==
    [visit : {"sequence"}, arg : {s \in Words : s # << >> /\ s[1] \notin Blank}, must : BOOLEAN]
GoodStrings == [visit : {"quoted"}, arg : Nat, must : {TRUE}]
GoodLines == [visit : {"line"}, arg : Nat \ {0}, must : {TRUE}]
GoodInts == [visit : {"int"}, arg : {0}, must : {TRUE}]
GoodNumbers == [visit : {"number"}, arg : SUBSET (Int \ {NoNumber}), must : {TRUE}]
GoodNames ==
    [visit : {"name"}, arg : {s \in Words : \A i \in DOMAIN s : s[i] \notin Blank}, must : {TRUE}]
GoodItems ==
    GoodLiterals \cup GoodStrings \cup GoodLines \cup GoodInts \cup GoodNumbers \cup GoodNames

LEMMA GoodKinds ==
    ASSUME NEW item \in GoodItems
    PROVE  /\ item.visit \in {"sequence", "quoted", "line", "int", "number", "name"}
           /\ item.must \in BOOLEAN
           /\ ~item.must => item.visit = "sequence"
           /\ item.visit = "sequence" =>
                 item.arg \in Words /\ item.arg # << >> /\ item.arg[1] \notin Blank
           /\ item.visit \in {"quoted", "line"} => item.arg \in Nat
           /\ item.visit = "line" => item.arg > 0
           /\ item.visit = "number" => item.arg \subseteq Int /\ NoNumber \notin item.arg
           /\ item.visit = "name" => item.arg \in Words /\ \A i \in DOMAIN item.arg : item.arg[i] \notin Blank
  <1>1. CASE item \in GoodLiterals
    BY <1>1 DEF GoodLiterals
  <1>2. CASE item \in GoodStrings
    BY <1>2 DEF GoodStrings
  <1>3. CASE item \in GoodLines
    <2>1. item.visit = "line" /\ item.must = TRUE /\ item.arg \in Nat \ {0}
      BY <1>3 DEF GoodLines
    <2>2. item.arg \in Nat /\ item.arg > 0
      BY <2>1
    <2> QED
      BY <2>1, <2>2
  <1>4. CASE item \in GoodInts
    BY <1>4 DEF GoodInts
  <1>5. CASE item \in GoodNumbers
    BY <1>5 DEF GoodNumbers
  <1>6. CASE item \in GoodNames
    BY <1>6 DEF GoodNames
  <1> QED
    BY <1>1, <1>2, <1>3, <1>4, <1>5, <1>6 DEF GoodItems

\* What is cut out of a text.
LEMMA CutOut ==
    ASSUME NEW text \in Words, NEW p \in Nat, NEW q \in Nat, p <= q, q <= Len(text)
    PROVE  /\ SubSeq(text, p + 1, q) \in Words
           /\ Len(SubSeq(text, p + 1, q)) = q - p
           /\ DOMAIN SubSeq(text, p + 1, q) = 1..(q - p)
           /\ \A j \in 1..(q - p) : SubSeq(text, p + 1, q)[j] = text[p + j]
  <1>1. text \in Seq(Chars) /\ Len(text) \in Nat
    BY DEF Words
  <1> QED
    BY <1>1, SubSeqProperties DEF Words

\* Apart from a line nothing stands for a text that begins with a blank.
LEMMA StandsBegins ==
    ASSUME NEW item \in GoodItems, item.visit # "line", NEW s \in Words, Stands(item, s)
    PROVE  Len(s) >= 1 /\ s[1] \notin Blank
  <1>1. Len(s) \in Nat /\ DOMAIN s = 1..Len(s)
    BY DEF Words
  <1>2. CASE item.visit = "sequence"
    BY <1>1, <1>2, GoodKinds DEF Stands, Words
  <1>3. CASE item.visit = "quoted"
    <2>1. Len(s) \in 2..(item.arg + 1) /\ s[1] = Quote
      BY <1>3 DEF Stands
    <2>2. item.arg \in Nat
      BY <1>3, GoodKinds
    <2>3. Len(s) >= 1
      BY <1>1, <2>1, <2>2
    <2>4. s[1] \notin Blank
      BY <2>1, CharacterClasses
    <2> QED
      BY <2>3, <2>4
  <1>4. CASE item.visit \in {"int", "number"}
    <2>1. IsNumeral(s)
      BY <1>4 DEF Stands
    <2>2. CASE s # << >> /\ s[1] = "-"
      <3>1. Len(s) >= 1
        BY <1>1, <2>2 DEF Words
      <3>2. s[1] \notin Blank
        BY <2>2, CharacterClasses
      <3> QED
        BY <3>1, <3>2
    <2>3. CASE ~(s # << >> /\ s[1] = "-")
      <3>1. s # << >> /\ \A i \in DOMAIN s : s[i] \in Digits
        BY <2>1, <2>3 DEF IsNumeral, Digits
      <3>2. Len(s) >= 1 /\ 1 \in DOMAIN s
        BY <1>1, <3>1 DEF Words
      <3> QED
        BY <3>1, <3>2, CharacterClasses
    <2> QED
      BY <2>2, <2>3
  <1>5. CASE item.visit = "name"
    <2>1. Len(s) = 1 /\ \E i \in DOMAIN item.arg : item.arg[i] = s[1]
      BY <1>5 DEF Stands, Occurs
    <2> QED
      BY <1>5, <2>1, GoodKinds
  <1> QED
    BY <1>2, <1>3, <1>4, <1>5, GoodKinds

\* Where texts of the item end that begin after the blanks.
Here(item, p, text) ==
    {r \in Skip(text, p)..Len(text) : Stands(item, SubSeq(text, Skip(text, p) + 1, r))}

\* So apart from a line an item begins where skipWhitespaces stops.
LEMMA AfterIsHere ==
    ASSUME NEW item \in GoodItems, item.visit # "line",
           NEW text \in Words, NEW p \in 0..Len(text)
    PROVE  /\ Here(item, p, text) # {} \/ item.must => After(item, p, text) = Here(item, p, text)
           /\ Here(item, p, text) = {} /\ ~item.must =>
                 After(item, p, text) = p..Skip(text, p)
  <1> DEFINE present == {r \in p..Len(text) : \E q \in p..r :
                           /\ item.visit = "line" => q = p
                           /\ AllBlank(SubSeq(text, p + 1, q)) /\ Stands(item, SubSeq(text, q + 1, r))}
             blanks == {q \in p..Len(text) : AllBlank(SubSeq(text, p + 1, q))}
  <1>1. After(item, p, text) = IF present = {} /\ ~item.must THEN blanks ELSE present
    BY DEF After
  <1> HIDE DEF present, blanks
  <1>2. Len(text) \in Nat /\ p \in Nat
    BY DEF Words
  <1>3. Skip(text, p) \in p..Len(text) /\ Blanks(text, p, Skip(text, p))
    BY SkipIs
  <1>4. ASSUME NEW r \in present PROVE r \in Here(item, p, text)
    <2>1. PICK q \in p..r : AllBlank(SubSeq(text, p + 1, q)) /\ Stands(item, SubSeq(text, q + 1, r))
      BY DEF present
    <2>2. r \in p..Len(text)
      BY DEF present
    <2>3. q \in Nat /\ r \in Nat /\ p <= q /\ q <= r /\ r <= Len(text)
      BY <1>2, <2>1, <2>2
    <2>4. Blanks(text, p, q)
      BY <1>2, <2>1, <2>3, AllBlankIsBlanks
    <2> DEFINE s == SubSeq(text, q + 1, r)
    <2>5. s \in Words /\ Len(s) = r - q /\ \A j \in 1..(r - q) : s[j] = text[q + j]
      BY <2>3, CutOut
    <2> HIDE DEF s
    <2>6. Len(s) >= 1 /\ s[1] \notin Blank
      BY <2>1, <2>5, StandsBegins DEF s
    <2>7. text[q + 1] \notin Blank /\ q \in p..Len(text)
      BY <1>2, <2>3, <2>5, <2>6
    <2>8. Skip(text, p) = q
      BY <1>2, <2>4, <2>7, SkipUnique
    <2> QED
      BY <2>1, <2>3, <2>8 DEF Here
  <1>5. ASSUME NEW r \in Here(item, p, text) PROVE r \in present
    <2>1. r \in Skip(text, p)..Len(text) /\ Stands(item, SubSeq(text, Skip(text, p) + 1, r))
      BY DEF Here
    <2>2. Skip(text, p) \in p..r /\ r \in p..Len(text) /\ Skip(text, p) \in Nat
      BY <1>2, <1>3, <2>1
    <2>3. AllBlank(SubSeq(text, p + 1, Skip(text, p)))
      BY <1>2, <1>3, <2>2, AllBlankIsBlanks
    <2> QED
      BY <2>1, <2>2, <2>3 DEF present
  <1>6. present = Here(item, p, text)
    BY <1>4, <1>5
  <1>7. blanks = p..Skip(text, p)
    <2>1. ASSUME NEW q \in p..Len(text)
          PROVE  AllBlank(SubSeq(text, p + 1, q)) <=> q <= Skip(text, p)
      <3>1. AllBlank(SubSeq(text, p + 1, q)) <=> Blanks(text, p, q)
        BY <1>2, AllBlankIsBlanks
      <3>2. ASSUME q <= Skip(text, p) PROVE Blanks(text, p, q)
        <4> SUFFICES ASSUME NEW i \in p..(q - 1) PROVE text[i + 1] \in Blank
          BY DEF Blanks
        <4>1. i \in p..(Skip(text, p) - 1)
          BY <1>2, <1>3, <3>2
        <4> QED
          BY <1>3, <4>1 DEF Blanks
      <3>3. ASSUME Skip(text, p) < q PROVE ~Blanks(text, p, q)
        <4>1. Skip(text, p) \in p..(q - 1) /\ Skip(text, p) < Len(text)
          BY <1>2, <1>3, <3>3
        <4>2. text[Skip(text, p) + 1] \notin Blank
          BY <4>1, SkipIs
        <4> QED
          BY <4>1, <4>2 DEF Blanks
      <3> QED
        BY <1>2, <1>3, <3>1, <3>2, <3>3
    <2> QED
      BY <1>2, <1>3, <2>1 DEF blanks
  <1> QED
    BY <1>1, <1>6, <1>7

-----------------------------------------------------------------------------
(* What the visits do.                                                        *)

\* A literal is in front, character by character.
LEMMA AtFrontIs ==
    ASSUME NEW s \in Words, NEW text \in Words, NEW p \in Nat
    PROVE  AtFront(s, text, p) <=>
             p + Len(s) <= Len(text) /\ \A j \in 1..Len(s) : text[p + j] = s[j]
  <1>1. Len(s) \in Nat /\ Len(text) \in Nat /\ s \in Seq(Chars)
    BY DEF Words
  <1>2. CASE p + Len(s) <= Len(text)
    <2> DEFINE t == SubSeq(text, p + 1, p + Len(s))
    <2>1. p + Len(s) \in Nat /\ p <= p + Len(s) /\ (p + Len(s)) - p = Len(s)
      BY <1>1
    <2>2. t \in Words /\ Len(t) = Len(s) /\ \A j \in 1..Len(s) : t[j] = text[p + j]
      BY <1>2, <2>1, CutOut
    <2> HIDE DEF t
    <2>3. t \in Seq(Chars)
      BY <2>2 DEF Words
    <2>4. t = s <=> \A j \in 1..Len(s) : t[j] = s[j]
      BY <1>1, <2>2, <2>3, SeqEqual
    <2> QED
      BY <1>2, <2>2, <2>4 DEF AtFront, t
  <1> QED
    BY <1>2 DEF AtFront

LEMMA CrLfIs == CrLf \in Words /\ Len(CrLf) = 2 /\ CrLf[1] = "\r" /\ CrLf[2] = "\n"
  BY DEF CrLf, Words, Chars

LEMMA CrLfAtFront ==
    ASSUME NEW text \in Words, NEW p \in Nat
    PROVE  AtFront(CrLf, text, p) <=>
             p + 2 <= Len(text) /\ text[p + 1] = "\r" /\ text[p + 2] = "\n"
  <1>1. 1..2 = {1, 2}
    OBVIOUS
  <1>2. AtFront(CrLf, text, p) <=>
          p + Len(CrLf) <= Len(text) /\ \A j \in 1..Len(CrLf) : text[p + j] = CrLf[j]
    BY CrLfIs, AtFrontIs
  <1> QED
    BY <1>1, <1>2, CrLfIs

\* What an item stands for where its visit begins.
LEMMA HereRange ==
    ASSUME NEW item, NEW text \in Words, NEW p \in 0..Len(text), NEW r \in Here(item, p, text)
    PROVE  /\ Skip(text, p) \in Nat /\ r \in Nat /\ p <= Skip(text, p)
           /\ Skip(text, p) <= r /\ r <= Len(text) /\ Len(text) \in Nat
           /\ Stands(item, SubSeq(text, Skip(text, p) + 1, r))
  <1>1. Len(text) \in Nat /\ p \in Nat
    BY DEF Words
  <1>2. Skip(text, p) \in p..Len(text)
    BY SkipIs
  <1> QED
    BY <1>1, <1>2 DEF Here

LEMMA LiteralHere ==
    ASSUME NEW item \in GoodItems, item.visit = "sequence",
           NEW text \in Words, NEW p \in 0..Len(text)
    PROVE  Here(item, p, text) =
             IF AtFront(item.arg, text, Skip(text, p)) THEN {Skip(text, p) + Len(item.arg)} ELSE {}
  <1> DEFINE q == Skip(text, p)
             s == item.arg
  <1>1. s \in Words /\ s # << >> /\ Len(s) \in Nat /\ Len(text) \in Nat /\ p \in Nat
    BY GoodKinds DEF Words
  <1>2. q \in p..Len(text) /\ q \in Nat
    BY <1>1, SkipIs
  <1> HIDE DEF q, s
  <1>3. ASSUME NEW r \in Here(item, p, text) PROVE r = q + Len(s) /\ AtFront(s, text, q)
    <2>1. r \in Nat /\ q <= r /\ r <= Len(text) /\ Stands(item, SubSeq(text, q + 1, r))
      BY HereRange DEF q
    <2>2. SubSeq(text, q + 1, r) = s
      BY <2>1 DEF Stands, s
    <2>3. Len(s) = r - q
      BY <1>2, <2>1, <2>2, CutOut
    <2>4. r = q + Len(s)
      BY <1>1, <1>2, <2>1, <2>3
    <2> QED
      BY <2>1, <2>2, <2>4 DEF AtFront
  <1>4. ASSUME AtFront(s, text, q) PROVE q + Len(s) \in Here(item, p, text)
    <2>1. q + Len(s) <= Len(text) /\ SubSeq(text, q + 1, q + Len(s)) = s
      BY <1>4 DEF AtFront
    <2>2. q + Len(s) \in q..Len(text)
      BY <1>1, <1>2, <2>1
    <2>3. Stands(item, SubSeq(text, q + 1, q + Len(s)))
      BY <1>1, <2>1 DEF Stands, s
    <2> QED
      BY <2>2, <2>3 DEF Here, q
  <1>5. CASE AtFront(s, text, q)
    BY <1>3, <1>4, <1>5 DEF q, s
  <1>6. CASE ~AtFront(s, text, q)
    BY <1>3, <1>6 DEF q, s
  <1> QED
    BY <1>5, <1>6

LEMMA NameHere ==
    ASSUME NEW item \in GoodItems, item.visit = "name",
           NEW text \in Words, NEW p \in 0..Len(text)
    PROVE  Here(item, p, text) =
             IF \E i \in DOMAIN item.arg : AtFront(<<item.arg[i]>>, text, Skip(text, p))
             THEN {Skip(text, p) + 1} ELSE {}
  <1> DEFINE q == Skip(text, p)
  <1>1. item.arg \in Words /\ Len(text) \in Nat /\ p \in Nat
    BY GoodKinds DEF Words
  <1>2. q \in p..Len(text) /\ q \in Nat
    BY <1>1, SkipIs
  <1> HIDE DEF q
  <1>3. ASSUME NEW i \in DOMAIN item.arg
        PROVE  AtFront(<<item.arg[i]>>, text, q) <=> q + 1 <= Len(text) /\ text[q + 1] = item.arg[i]
    <2> DEFINE c == item.arg[i]
    <2>1. c \in Chars
      BY <1>1 DEF Words
    <2> HIDE DEF c
    <2>2. <<c>> \in Words /\ Len(<<c>>) = 1 /\ <<c>>[1] = c /\ 1..1 = {1}
      BY <2>1 DEF Words
    <2>3. AtFront(<<c>>, text, q) <=>
            q + Len(<<c>>) <= Len(text) /\ \A j \in 1..Len(<<c>>) : text[q + j] = <<c>>[j]
      BY <1>2, <2>2, AtFrontIs
    <2> QED
      BY <2>2, <2>3 DEF c
  <1>4. ASSUME NEW r \in Here(item, p, text)
        PROVE  r = q + 1 /\ \E i \in DOMAIN item.arg : AtFront(<<item.arg[i]>>, text, q)
    <2> DEFINE s == SubSeq(text, q + 1, r)
    <2>1. r \in Nat /\ q <= r /\ r <= Len(text) /\ Stands(item, s)
      BY HereRange DEF q
    <2>2. Len(s) = r - q /\ \A j \in 1..(r - q) : s[j] = text[q + j]
      BY <1>2, <2>1, CutOut
    <2> HIDE DEF s
    <2>3. Len(s) = 1 /\ \E i \in DOMAIN item.arg : item.arg[i] = s[1]
      BY <2>1 DEF Stands, Occurs
    <2>4. r = q + 1
      <3>1. r - q = 1
        BY <2>2, <2>3
      <3>2. r \in Nat /\ q \in Nat
        BY <1>2, <2>1
      <3> QED
        BY <3>1, <3>2
    <2>5. 1 \in 1..(r - q)
      BY <1>2, <2>4
    <2>6. s[1] = text[q + 1]
      BY <2>2, <2>5
    <2> QED
      BY <1>3, <2>1, <2>3, <2>4, <2>6
  <1>5. ASSUME NEW i \in DOMAIN item.arg, AtFront(<<item.arg[i]>>, text, q)
        PROVE  q + 1 \in Here(item, p, text)
    <2> DEFINE s == SubSeq(text, q + 1, q + 1)
    <2>1. q + 1 <= Len(text) /\ text[q + 1] = item.arg[i]
      BY <1>3, <1>5
    <2>2. q + 1 \in q..Len(text) /\ q + 1 \in Nat /\ q <= q + 1 /\ (q + 1) - q = 1
      BY <1>1, <1>2, <2>1
    <2>3. Len(s) = 1 /\ \A j \in 1..1 : s[j] = text[q + j]
      BY <1>2, <2>1, <2>2, CutOut
    <2> HIDE DEF s
    <2>4. s[1] = item.arg[i]
      BY <2>1, <2>3
    <2>5. Stands(item, s)
      BY <2>3, <2>4 DEF Stands, Occurs
    <2> QED
      BY <2>2, <2>5 DEF Here, q, s
  <1>6. CASE \E i \in DOMAIN item.arg : AtFront(<<item.arg[i]>>, text, q)
    BY <1>4, <1>5, <1>6 DEF q
  <1>7. CASE ~\E i \in DOMAIN item.arg : AtFront(<<item.arg[i]>>, text, q)
    BY <1>4, <1>7 DEF q
  <1> QED
    BY <1>6, <1>7

\* A numeral is the digits after the sign, if there is one.
FirstDigit(text, p) == IF AtFront(<<"-">>, text, p) THEN p + 1 ELSE p

LEMMA FirstDigitIs ==
    ASSUME NEW text \in Words, NEW p \in 0..Len(text)
    PROVE  /\ FirstDigit(text, p) =
                 IF p + 1 <= Len(text) /\ text[p + 1] = "-" THEN p + 1 ELSE p
           /\ FirstDigit(text, p) \in p..Len(text)
  <1>1. Len(text) \in Nat /\ p \in Nat
    BY DEF Words
  <1> DEFINE m == <<"-">>
  <1>2. m \in Words /\ Len(m) = 1 /\ m[1] = "-" /\ 1..1 = {1}
    <2>1. "-" \in Chars
      BY DEF Chars
    <2> QED
      BY <2>1 DEF Words
  <1> HIDE DEF m
  <1>3. AtFront(m, text, p) <=>
          p + Len(m) <= Len(text) /\ \A j \in 1..Len(m) : text[p + j] = m[j]
    BY <1>1, <1>2, AtFrontIs
  <1>4. AtFront(m, text, p) <=> p + 1 <= Len(text) /\ text[p + 1] = "-"
    BY <1>2, <1>3
  <1> QED
    BY <1>1, <1>4 DEF FirstDigit, m

LEMMA NumeralEndIs ==
    ASSUME NEW text \in Words, NEW p \in 0..Len(text)
    PROVE  /\ NumeralEnd(text, p) \in FirstDigit(text, p)..Len(text)
           /\ \A i \in FirstDigit(text, p)..(NumeralEnd(text, p) - 1) : text[i + 1] \in Digits
           /\ NumeralEnd(text, p) < Len(text) => text[NumeralEnd(text, p) + 1] \notin Digits
  <1> DEFINE first == FirstDigit(text, p)
             P == {i \in first..(Len(text) - 1) : text[i + 1] \notin Digits}
             e == NumeralEnd(text, p)
  <1>1. Len(text) \in Nat /\ p \in Nat /\ first \in p..Len(text)
    BY FirstDigitIs DEF Words
  <1>2. e = FirstOf(P, text)
    BY DEF NumeralEnd, FirstDigit, Digits
  <1> HIDE DEF first, e
  <1>3. CASE P = {}
    <2>1. e = Len(text)
      BY <1>2, <1>3 DEF FirstOf
    <2>2. \A i \in first..(Len(text) - 1) : text[i + 1] \in Digits
      BY <1>3
    <2> QED
      BY <1>1, <2>1, <2>2 DEF first, e
  <1>4. CASE P # {}
    <2>1. P \subseteq Nat
      BY <1>1
    <2> HIDE DEF P
    <2>2. e \in P /\ \A y \in P : e <= y
      <3>1. FirstOf(P, text) \in P /\ \A y \in P : FirstOf(P, text) <= y
        BY <1>4, <2>1, FirstOfLeast, Zenon
      <3> QED
        BY <1>2, <3>1
    <2>3. \A i \in first..(e - 1) : text[i + 1] \in Digits
      BY <1>1, <2>2 DEF P
    <2>4. e \in first..Len(text) /\ text[e + 1] \notin Digits
      BY <1>1, <2>2 DEF P
    <2> QED
      BY <2>3, <2>4 DEF first, e
  <1> QED
    BY <1>3, <1>4

\* So a numeral that begins at p ends there or is followed by a digit.
LEMMA NumeralIs ==
    ASSUME NEW text \in Words, NEW p \in 0..Len(text), NEW r \in p..Len(text),
           IsNumeral(SubSeq(text, p + 1, r))
    PROVE  /\ r <= NumeralEnd(text, p)
           /\ r < NumeralEnd(text, p) => text[r + 1] \in Digits
  <1> DEFINE s == SubSeq(text, p + 1, r)
             first == FirstDigit(text, p)
             e == NumeralEnd(text, p)
  <1>1. Len(text) \in Nat /\ p \in Nat /\ r \in Nat /\ p <= r /\ r <= Len(text)
    BY DEF Words
  <1>2. /\ s \in Words /\ Len(s) = r - p /\ DOMAIN s = 1..(r - p)
        /\ \A j \in 1..(r - p) : s[j] = text[p + j]
    BY <1>1, CutOut
  <1>3. IsNumeral(s)
    OBVIOUS
  <1>4. /\ e \in first..Len(text) /\ first \in p..Len(text)
        /\ \A i \in first..(e - 1) : text[i + 1] \in Digits
        /\ e < Len(text) => text[e + 1] \notin Digits
        /\ first = IF p + 1 <= Len(text) /\ text[p + 1] = "-" THEN p + 1 ELSE p
    BY NumeralEndIs, FirstDigitIs
  <1> HIDE DEF s, first, e
  <1>5. s = << >> <=> r = p
    <2>1. s \in Seq(Chars) /\ (Len(s) = 0 <=> s = << >>)
      BY <1>2, EmptySeq DEF Words
    <2> QED
      BY <1>1, <1>2, <2>1
  <1>6. first < r /\ \A i \in first..(r - 1) : text[i + 1] \in Digits
    <2>1. CASE s # << >> /\ s[1] = "-"
      <3>1. 1 \in 1..(r - p) /\ p + 1 <= Len(text)
        BY <1>1, <1>5, <2>1
      <3>2. text[p + 1] = "-"
        BY <1>2, <2>1, <3>1
      <3>3. first = p + 1
        BY <1>4, <3>1, <3>2
      <3>4. Tail(s) # << >> /\ \A j \in DOMAIN Tail(s) : Tail(s)[j] \in Digits
        BY <1>3, <2>1 DEF IsNumeral, Digits
      <3>5. /\ Tail(s) \in Seq(Chars) /\ Len(Tail(s)) = Len(s) - 1
            /\ \A j \in 1..(Len(s) - 1) : Tail(s)[j] = s[j + 1]
            /\ DOMAIN Tail(s) = 1..(Len(s) - 1)
        <4>1. s \in Seq(Chars) /\ s # << >>
          BY <1>2, <2>1 DEF Words
        <4>2. /\ Tail(s) \in Seq(Chars) /\ Len(Tail(s)) = Len(s) - 1
              /\ \A j \in 1..Len(Tail(s)) : Tail(s)[j] = s[j + 1]
          BY <4>1, HeadTailProperties
        <4> QED
          BY <4>2
      <3>6. r - p >= 2
        <4>1. Len(Tail(s)) # 0
          BY <3>4, <3>5, EmptySeq
        <4> QED
          BY <1>1, <1>2, <3>1, <3>5, <4>1
      <3>7. ASSUME NEW i \in first..(r - 1) PROVE text[i + 1] \in Digits
        <4>1. i - p \in 1..((r - p) - 1) /\ (i - p) + 1 \in 1..(r - p) /\ p + ((i - p) + 1) = i + 1
          BY <1>1, <3>3
        <4>2. Tail(s)[i - p] \in Digits
          BY <1>2, <3>4, <3>5, <4>1
        <4>3. Tail(s)[i - p] = s[(i - p) + 1]
          BY <1>2, <3>5, <4>1
        <4> QED
          BY <1>2, <4>1, <4>2, <4>3
      <3> QED
        BY <1>1, <3>3, <3>6, <3>7
    <2>2. CASE ~(s # << >> /\ s[1] = "-")
      <3>1. s # << >> /\ s[1] # "-" /\ \A j \in DOMAIN s : s[j] \in Digits
        BY <1>3, <2>2 DEF IsNumeral, Digits
      <3>2. 1 \in 1..(r - p) /\ p < r
        BY <1>1, <1>5, <3>1
      <3>3. text[p + 1] # "-"
        BY <1>2, <3>1, <3>2
      <3>4. first = p
        BY <1>4, <3>3
      <3>5. ASSUME NEW i \in p..(r - 1) PROVE text[i + 1] \in Digits
        <4>1. (i - p) + 1 \in 1..(r - p) /\ p + ((i - p) + 1) = i + 1
          BY <1>1
        <4> QED
          BY <1>2, <3>1, <4>1
      <3> QED
        BY <3>2, <3>4, <3>5
    <2> QED
      BY <2>1, <2>2
  <1>7. ~(e < r)
    <2> SUFFICES ASSUME e < r PROVE FALSE
      OBVIOUS
    <2>1. e \in first..(r - 1) /\ e < Len(text)
      BY <1>1, <1>4
    <2> QED
      BY <1>4, <1>6, <2>1
  <1>8. ASSUME r < e PROVE text[r + 1] \in Digits
    <2>1. r \in first..(e - 1)
      BY <1>1, <1>4, <1>6, <1>8
    <2> QED
      BY <1>4, <2>1
  <1> QED
    BY <1>1, <1>4, <1>7, <1>8 DEF e

\* A number is read when the whole numeral is one of its texts.
LEMMA NumberHere ==
    ASSUME NEW item \in GoodItems, item.visit \in {"int", "number"},
           NEW text \in Words, NEW p \in 0..Len(text)
    PROVE  LET q == Skip(text, p)
               e == NumeralEnd(text, q)
               v == Visit(item, text, p)
           IN  /\ e \in q..Len(text) /\ v.ok \in BOOLEAN
               /\ v.ok <=> e \in Here(item, p, text)
               /\ v.at = IF v.ok THEN e ELSE q
               /\ \A r \in Here(item, p, text) :
                     r <= e /\ (r < e => text[r + 1] \in Digits)
  <1> DEFINE q == Skip(text, p)
             e == NumeralEnd(text, q)
             s == SubSeq(text, q + 1, e)
             n == FromChars(text, q)
             v == Visit(item, text, p)
  <1>1. Len(text) \in Nat /\ p \in Nat
    BY DEF Words
  <1>2. q \in p..Len(text)
    BY SkipIs
  <1>3. q \in 0..Len(text)
    BY <1>1, <1>2
  <1>4. e \in q..Len(text)
    <2> HIDE DEF q
    <2>1. e \in FirstDigit(text, q)..Len(text) /\ FirstDigit(text, q) \in q..Len(text)
      BY <1>3, NumeralEndIs, FirstDigitIs
    <2> QED
      BY <1>1, <1>3, <2>1
  <1>5. n = IF IsNumeral(s) THEN Number(s) ELSE NoNumber
    BY DEF FromChars
  <1>6. v.ok \in BOOLEAN /\ (v.ok <=> Stands(item, s)) /\ v.at = IF v.ok THEN e ELSE q
    <2>1. CASE item.visit = "int"
      <3>1. v = IF n # NoNumber THEN Result(TRUE, e, <<n>>) ELSE Result(FALSE, q, << >>)
        BY <2>1 DEF Visit, VisitInt
      <3>2. Stands(item, s) <=> IsNumeral(s) /\ Number(s) # NoNumber
        BY <2>1 DEF Stands
      <3> HIDE DEF n, s, e, q, v
      <3>3. Stands(item, s) <=> n # NoNumber
        BY <1>5, <3>2
      <3> QED
        BY <3>1, <3>3 DEF Result
    <2>2. CASE item.visit = "number"
      <3>1. v = IF n \in item.arg THEN Result(TRUE, e, <<n>>) ELSE Result(FALSE, q, << >>)
        BY <2>2 DEF Visit, VisitNumber
      <3>2. Stands(item, s) <=> IsNumeral(s) /\ Number(s) \in item.arg
        BY <2>2 DEF Stands
      <3>3. NoNumber \notin item.arg
        BY <2>2, GoodKinds
      <3> HIDE DEF n, s, e, q, v
      <3>4. Stands(item, s) <=> n \in item.arg
        BY <1>5, <3>2, <3>3
      <3> QED
        BY <3>1, <3>4 DEF Result
    <2> QED
      BY <2>1, <2>2
  <1>7. e \in Here(item, p, text) <=> Stands(item, s)
    BY <1>4 DEF Here
  <1>8. ASSUME NEW r \in Here(item, p, text)
        PROVE  r <= e /\ (r < e => text[r + 1] \in Digits)
    <2>1. r \in q..Len(text) /\ Stands(item, SubSeq(text, q + 1, r))
      BY DEF Here
    <2>2. IsNumeral(SubSeq(text, q + 1, r))
      BY <2>1 DEF Stands
    <2> HIDE DEF q
    <2> QED
      BY <1>3, <2>1, <2>2, NumeralIs
  <1> QED
    BY <1>4, <1>6, <1>7, <1>8

\* A set has more than one element when two can be told apart in it.
LEMMA MoreThanOne ==
    ASSUME NEW S, IsFiniteSet(S)
    PROVE  /\ Cardinality(S) \in Nat
           /\ \A x : Cardinality(S) > 1 => S # {} /\ S \ {x} # {}
           /\ \A x, y \in S : x # y => Cardinality(S) > 1
  <1>1. Cardinality(S) \in Nat /\ (Cardinality(S) = 0 <=> S = {})
    BY FS_CardinalityType, FS_EmptySet
  <1>2. ASSUME NEW x
        PROVE  /\ IsFiniteSet(S \ {x}) /\ Cardinality(S \ {x}) \in Nat
               /\ (Cardinality(S \ {x}) = 0 <=> S \ {x} = {})
               /\ Cardinality(S \ {x}) = IF x \in S THEN Cardinality(S) - 1 ELSE Cardinality(S)
    <2>1. /\ IsFiniteSet(S \ {x})
          /\ Cardinality(S \ {x}) = IF x \in S THEN Cardinality(S) - 1 ELSE Cardinality(S)
      BY FS_RemoveElement
    <2> QED
      BY <2>1, FS_CardinalityType, FS_EmptySet
  <1>3. ASSUME NEW x, Cardinality(S) > 1 PROVE S # {} /\ S \ {x} # {}
    <2>1. Cardinality(S) # 0 /\ Cardinality(S) - 1 # 0
      BY <1>1, <1>3
    <2>2. Cardinality(S \ {x}) # 0
      BY <1>2, <2>1
    <2> QED
      BY <1>1, <1>2, <2>1, <2>2
  <1>4. ASSUME NEW x \in S, NEW y \in S, x # y PROVE Cardinality(S) > 1
    <2>1. y \in S \ {x}
      BY <1>4
    <2>2. Cardinality(S \ {x}) = Cardinality(S) - 1 /\ Cardinality(S \ {x}) \in Nat /\ Cardinality(S \ {x}) # 0
      BY <1>2, <2>1
    <2> QED
      BY <1>1, <2>2
  <1> QED
    BY <1>1, <1>3, <1>4

\* The cursor moves two characters at least; where a quoted text that fits
\* begins after the blanks, to its end.
LEMMA QuotedHere ==
    ASSUME NEW item \in GoodItems, item.visit = "quoted",
           NEW text \in Words, NEW p \in 0..Len(text)
    PROVE  LET v == Visit(item, text, p)
           IN  /\ v.ok = TRUE /\ v.at \in Nat
               /\ \A r \in Here(item, p, text) :
                     /\ v.at = r
                     /\ v.stored = <<SubSeq(text, Skip(text, p) + 2, r - 1)>>
  <1> DEFINE q == Skip(text, p)
             quotes == {i \in q..(Len(text) - 1) : text[i + 1] = Quote}
             start == FirstOf(quotes, text)
             end == FirstOf(quotes \ {start}, text)
             count == IF Cardinality(quotes) > 1 /\ end - start - 1 < item.arg
                       THEN end - start - 1 ELSE 0
             v == Visit(item, text, p)
  <1>1. Len(text) \in Nat /\ p \in Nat /\ item.arg \in Nat
    BY GoodKinds DEF Words
  <1>2. q \in p..Len(text) /\ q \in Nat
    BY <1>1, SkipIs
  <1>3. /\ v.ok = TRUE /\ v.at = q + count + 2
        /\ v.stored = <<SubSeq(text, start + 2, start + 1 + count)>>
    BY DEF Visit, VisitQuoted, Result
  <1> HIDE DEF q
  <1>4. IsFiniteSet(quotes) /\ quotes \subseteq Nat
    <2>1. IsFiniteSet(q..(Len(text) - 1))
      BY <1>1, <1>2, FS_Interval
    <2>2. quotes \subseteq q..(Len(text) - 1)
      OBVIOUS
    <2>3. IsFiniteSet(quotes)
      BY <2>1, <2>2, FS_Subset
    <2> QED
      BY <1>2, <2>3
  <1>5. \A i : i \in quotes <=> i \in q..(Len(text) - 1) /\ text[i + 1] = Quote
    OBVIOUS
  <1> HIDE DEF quotes
  <1>6. ASSUME quotes # {}
        PROVE  start \in quotes /\ \A y \in quotes : start <= y
    BY <1>4, <1>6, FirstOfLeast
  <1> HIDE DEF start
  <1>7. ASSUME quotes \ {start} # {}
        PROVE  end \in quotes /\ end # start /\ \A y \in quotes \ {start} : end <= y
    <2>1. quotes \ {start} \subseteq Nat
      BY <1>4
    <2>2. end \in quotes \ {start} /\ \A y \in quotes \ {start} : end <= y
      BY <1>7, <2>1, FirstOfLeast
    <2> QED
      BY <2>2
  <1> HIDE DEF end
  <1>8. /\ Cardinality(quotes) > 1 => quotes # {} /\ quotes \ {start} # {}
        /\ \A x, y \in quotes : x # y => Cardinality(quotes) > 1
    BY <1>4, MoreThanOne
  <1>9. count \in Nat
    <2>1. CASE Cardinality(quotes) > 1
      <3>1. start \in quotes /\ end \in quotes /\ end # start /\ start <= end
        BY <1>6, <1>7, <1>8, <2>1
      <3>2. start \in Nat /\ end \in Nat
        BY <1>4, <3>1
      <3> QED
        BY <3>1, <3>2
    <2>2. CASE ~(Cardinality(quotes) > 1)
      BY <2>2
    <2> QED
      BY <2>1, <2>2
  <1>10. ASSUME NEW r \in Here(item, p, text)
         PROVE  count = r - q - 2 /\ r \in Nat /\ start = q
    <2> DEFINE s == SubSeq(text, q + 1, r)
    <2>1. r \in Nat /\ q <= r /\ r <= Len(text) /\ Stands(item, s)
      BY HereRange DEF q
    <2>2. Len(s) = r - q /\ s \in Words /\ \A j \in 1..(r - q) : s[j] = text[q + j]
      BY <1>2, <2>1, CutOut
    <2> HIDE DEF s
    <2>3. /\ Len(s) \in 2..(item.arg + 1) /\ s[1] = Quote /\ s[Len(s)] = Quote
          /\ ~Occurs(Quote, SubSeq(s, 2, Len(s) - 1))
      BY <2>1 DEF Stands
    <2>4. r - q \in 2..(item.arg + 1) /\ s[1] = Quote /\ s[r - q] = Quote
      BY <2>2, <2>3
    <2>5. r - q >= 2 /\ r - q <= item.arg + 1
      BY <1>1, <1>2, <2>1, <2>4
    <2>6. 1 \in 1..(r - q) /\ r - q \in 1..(r - q) /\ q + (r - q) = r
      BY <1>2, <2>1, <2>5
    <2>7. text[q + 1] = Quote /\ text[r] = Quote
      BY <2>2, <2>4, <2>6
    <2>8. ASSUME NEW i \in (q + 1)..(r - 2) PROVE text[i + 1] # Quote
      <3> DEFINE t == SubSeq(s, 2, Len(s) - 1)
                 j == i - q
      <3>1. 1 + 1 = 2 /\ Len(s) - 1 \in Nat /\ 1 <= Len(s) - 1 /\ Len(s) - 1 <= Len(s)
        BY <1>2, <2>1, <2>2, <2>5
      <3>2. DOMAIN t = 1..((Len(s) - 1) - 1) /\ \A k \in 1..((Len(s) - 1) - 1) : t[k] = s[1 + k]
        BY <2>2, <3>1, CutOut
      <3>3. j \in 1..((Len(s) - 1) - 1) /\ 1 + j \in 1..(r - q) /\ q + (1 + j) = i + 1
        BY <1>2, <2>1, <2>2
      <3> HIDE DEF t, j
      <3>4. t[j] # Quote
        BY <2>3, <3>2, <3>3 DEF Occurs, t
      <3>5. t[j] = text[i + 1]
        BY <2>2, <3>2, <3>3
      <3> QED
        BY <3>4, <3>5
    <2>9. q \in quotes /\ r - 1 \in quotes /\ r - 1 # q
      <3>1. q \in q..(Len(text) - 1) /\ r - 1 \in q..(Len(text) - 1) /\ (r - 1) + 1 = r /\ r - 1 # q
        BY <1>1, <1>2, <2>1, <2>5
      <3> QED
        BY <1>5, <2>7, <3>1
    <2>10. start = q
      <3>1. start \in quotes /\ start <= q
        BY <1>6, <2>9
      <3>2. start \in q..(Len(text) - 1)
        BY <1>5, <3>1
      <3> QED
        BY <1>1, <1>2, <3>1, <3>2
    <2>11. end = r - 1
      <3>1. r - 1 \in quotes \ {start}
        BY <2>9, <2>10
      <3>2. end \in quotes /\ end # start /\ end <= r - 1
        BY <1>7, <3>1
      <3>3. end \in q..(Len(text) - 1) /\ text[end + 1] = Quote
        BY <1>5, <3>2
      <3>4. end \notin (q + 1)..(r - 2)
        BY <2>8, <3>3
      <3>5. end \in Int /\ q <= end /\ end # q
        BY <1>1, <1>2, <2>10, <3>2, <3>3
      <3> QED
        BY <1>2, <2>1, <3>2, <3>4, <3>5
    <2>12. Cardinality(quotes) > 1
      BY <1>8, <2>9
    <2>13. end - start - 1 = r - q - 2 /\ r - q - 2 < item.arg
      BY <1>1, <1>2, <2>1, <2>5, <2>10, <2>11
    <2> QED
      BY <2>1, <2>10, <2>12, <2>13
  <1> HIDE DEF count, v
  <1>11. v.at \in Nat
    BY <1>2, <1>3, <1>9
  <1>12. ASSUME NEW r \in Here(item, p, text)
         PROVE  v.at = r /\ v.stored = <<SubSeq(text, q + 2, r - 1)>>
    <2>1. count = r - q - 2 /\ r \in Nat /\ start = q
      BY <1>10
    <2>2. q + count + 2 = r /\ q + 1 + count = r - 1
      BY <1>2, <2>1
    <2> QED
      BY <1>3, <2>1, <2>2
  <1> QED
    BY <1>3, <1>11, <1>12 DEF v, q

\* A line ends at the first CRLF, or with the text.
LEMMA LineEndIs ==
    ASSUME NEW text \in Words, NEW p \in 0..Len(text)
    PROVE  /\ LineEnd(text, p) \in p..Len(text)
           /\ \A i \in p..(LineEnd(text, p) - 1) : ~AtFront(CrLf, text, i)
           /\ LineEnd(text, p) < Len(text) => AtFront(CrLf, text, LineEnd(text, p))
  <1> DEFINE P == {i \in p..(Len(text) - 1) : AtFront(CrLf, text, i)}
             e == LineEnd(text, p)
  <1>1. Len(text) \in Nat /\ p \in Nat
    BY DEF Words
  <1>2. e = FirstOf(P, text)
    BY DEF LineEnd
  <1> HIDE DEF e
  <1>3. CASE P = {}
    <2>1. e = Len(text)
      BY <1>2, <1>3 DEF FirstOf
    <2>2. \A i \in p..(Len(text) - 1) : ~AtFront(CrLf, text, i)
      BY <1>3
    <2> QED
      BY <1>1, <2>1, <2>2 DEF e
  <1>4. CASE P # {}
    <2>1. P \subseteq Nat
      BY <1>1
    <2> HIDE DEF P
    <2>2. e \in P /\ \A y \in P : e <= y
      <3>1. FirstOf(P, text) \in P /\ \A y \in P : FirstOf(P, text) <= y
        BY <1>4, <2>1, FirstOfLeast, Zenon
      <3> QED
        BY <1>2, <3>1
    <2>3. \A i \in p..(e - 1) : ~AtFront(CrLf, text, i)
      BY <1>1, <2>2 DEF P
    <2>4. e \in p..Len(text) /\ AtFront(CrLf, text, e)
      BY <1>1, <2>2 DEF P
    <2> QED
      BY <2>3, <2>4 DEF e
  <1> QED
    BY <1>3, <1>4

\* A line has no CRLF in it, but may end within one.
LEMMA LineAfter ==
    ASSUME NEW item \in GoodItems, item.visit = "line",
           NEW text \in Words, NEW p \in 0..Len(text)
    PROVE  After(item, p, text) =
             {r \in p..Len(text) : /\ r - p \in 1..item.arg
                                   /\ \A i \in p..(r - 2) : ~AtFront(CrLf, text, i)}
  <1> DEFINE present == {r \in p..Len(text) : \E q \in p..r :
                           /\ item.visit = "line" => q = p
                           /\ AllBlank(SubSeq(text, p + 1, q)) /\ Stands(item, SubSeq(text, q + 1, r))}
  <1>1. Len(text) \in Nat /\ p \in Nat /\ item.arg \in Nat /\ item.must
    BY GoodKinds DEF Words
  <1>2. After(item, p, text) = present
    BY <1>1 DEF After
  <1>3. AllBlank(SubSeq(text, p + 1, p))
    <2>1. Blanks(text, p, p)
      BY <1>1 DEF Blanks
    <2> QED
      BY <1>1, <2>1, AllBlankIsBlanks
  <1>4. ASSUME NEW r \in p..Len(text)
        PROVE  r \in present <=> Stands(item, SubSeq(text, p + 1, r))
    BY <1>1, <1>3
  <1> HIDE DEF present
  <1>5. ASSUME NEW r \in p..Len(text)
        PROVE  Stands(item, SubSeq(text, p + 1, r)) <=>
                 r - p \in 1..item.arg /\ \A i \in p..(r - 2) : ~AtFront(CrLf, text, i)
    <2> DEFINE s == SubSeq(text, p + 1, r)
    <2>1. r \in Nat /\ p <= r /\ r <= Len(text)
      BY <1>1
    <2>2. s \in Words /\ Len(s) = r - p /\ \A j \in 1..(r - p) : s[j] = text[p + j]
      BY <1>1, <2>1, CutOut
    <2> HIDE DEF s
    <2>3. Stands(item, s) <=> Len(s) \in 1..item.arg /\ \A i \in 0..Len(s) : ~AtFront(CrLf, s, i)
      BY DEF Stands
    <2>4. ASSUME NEW i \in 0..(r - p)
          PROVE  AtFront(CrLf, s, i) <=> p + i <= r - 2 /\ AtFront(CrLf, text, p + i)
      <3>1. i \in Nat /\ p + i \in Nat
        BY <1>1, <2>1
      <3>2. AtFront(CrLf, s, i) <=> i + 2 <= Len(s) /\ s[i + 1] = "\r" /\ s[i + 2] = "\n"
        BY <2>2, <3>1, CrLfAtFront
      <3>3. AtFront(CrLf, text, p + i) <=>
              (p + i) + 2 <= Len(text) /\ text[(p + i) + 1] = "\r" /\ text[(p + i) + 2] = "\n"
        BY <3>1, CrLfAtFront
      <3>4. i + 2 <= Len(s) <=> p + i <= r - 2
        BY <1>1, <2>1, <2>2, <3>1
      <3>5. ASSUME p + i <= r - 2
            PROVE  s[i + 1] = text[(p + i) + 1] /\ s[i + 2] = text[(p + i) + 2] /\ (p + i) + 2 <= Len(text)
        <4>1. /\ i + 1 \in 1..(r - p) /\ i + 2 \in 1..(r - p)
              /\ p + (i + 1) = (p + i) + 1 /\ p + (i + 2) = (p + i) + 2
          BY <1>1, <2>1, <3>1, <3>5
        <4>2. (p + i) + 2 <= Len(text)
          BY <1>1, <2>1, <3>1, <3>5
        <4> QED
          BY <2>2, <4>1, <4>2
      <3> QED
        BY <3>2, <3>3, <3>4, <3>5
    <2>5. ASSUME \A i \in 0..(r - p) : ~AtFront(CrLf, s, i), NEW i \in p..(r - 2)
          PROVE  ~AtFront(CrLf, text, i)
      <3>1. i - p \in 0..(r - p) /\ p + (i - p) = i /\ i <= r - 2
        BY <1>1, <2>1
      <3> QED
        BY <2>4, <2>5, <3>1
    <2>6. ASSUME \A i \in p..(r - 2) : ~AtFront(CrLf, text, i), NEW i \in 0..(r - p)
          PROVE  ~AtFront(CrLf, s, i)
      <3>1. p + i <= r - 2 => p + i \in p..(r - 2)
        BY <1>1, <2>1
      <3> QED
        BY <2>4, <2>6, <3>1
    <2>7. Stands(item, s) <=> r - p \in 1..item.arg /\ \A i \in 0..(r - p) : ~AtFront(CrLf, s, i)
      BY <2>2, <2>3
    <2>8. (\A i \in 0..(r - p) : ~AtFront(CrLf, s, i)) <=> (\A i \in p..(r - 2) : ~AtFront(CrLf, text, i))
      BY <2>5, <2>6
    <2> QED
      BY <2>7, <2>8 DEF s
  <1>6. present \subseteq p..Len(text)
    BY DEF present
  <1> QED
    BY <1>2, <1>4, <1>5, <1>6

\* A line is read up to the CRLF, or as much of it as fits.
LEMMA LineVisit ==
    ASSUME NEW item \in GoodItems, item.visit = "line",
           NEW text \in Words, NEW p \in 0..Len(text)
    PROVE  LET v == Visit(item, text, p)
               e == LineEnd(text, p)
           IN  /\ v.at \in p..e /\ v.at <= p + item.arg /\ v.at \in {e, p + item.arg}
               /\ v.ok \in BOOLEAN /\ (v.ok <=> v.at # p)
               /\ v.ok => v.at \in After(item, p, text)
  <1> DEFINE v == Visit(item, text, p)
             e == LineEnd(text, p)
             take == Taken(item.arg, text, p)
  <1>1. Len(text) \in Nat /\ p \in Nat /\ item.arg \in Nat /\ item.arg > 0
    BY GoodKinds DEF Words
  <1>2. e \in p..Len(text) /\ \A i \in p..(e - 1) : ~AtFront(CrLf, text, i)
    BY LineEndIs
  <1>3. v.ok = (take > 0) /\ v.at = p + take
    BY DEF Visit, VisitLine, Result
  <1>4. take = IF e - p <= item.arg THEN e - p ELSE item.arg
    BY DEF Taken
  <1> HIDE DEF e, take, v
  <1>5. take \in Nat /\ take <= e - p /\ take <= item.arg /\ take \in {e - p, item.arg}
    BY <1>1, <1>2, <1>4
  <1>6. v.at \in p..e /\ v.at <= p + item.arg /\ v.at \in {e, p + item.arg}
    BY <1>1, <1>2, <1>3, <1>5
  <1>7. v.ok \in BOOLEAN /\ (v.ok <=> v.at # p)
    <2>1. take > 0 <=> v.at # p
      BY <1>1, <1>3, <1>5
    <2>2. (take > 0) \in BOOLEAN
      BY <1>5
    <2>3. v.ok \in BOOLEAN
      BY <1>3, <2>2, Zenon
    <2>4. v.ok <=> take > 0
      BY <1>3, <2>2, Zenon
    <2> QED
      BY <2>1, <2>3, <2>4, Zenon
  <1>8. ASSUME v.ok PROVE v.at \in After(item, p, text)
    <2>1. v.at - p \in 1..item.arg /\ v.at \in p..Len(text)
      BY <1>1, <1>2, <1>6, <1>7, <1>8
    <2>2. \A i \in p..(v.at - 2) : ~AtFront(CrLf, text, i)
      BY <1>1, <1>2, <1>6
    <2> QED
      BY <2>1, <2>2, LineAfter
  <1> QED
    BY <1>6, <1>7, <1>8 DEF v, e

LEMMA AfterRange ==
    ASSUME NEW item, NEW text, NEW p
    PROVE  After(item, p, text) \subseteq p..Len(text)
  BY DEF After

\* A visit that does not end the trial ends where the item may end: a quoted
\* field, when there is one.  Only that may take the cursor out of the text.
LEMMA VisitSound ==
    ASSUME NEW item \in GoodItems, NEW text \in Words, NEW p \in 0..Len(text)
    PROVE  LET v == Visit(item, text, p)
           IN  /\ v.ok \in BOOLEAN /\ v.at \in Nat
               /\ item.visit # "quoted" => v.at \in 0..Len(text)
               /\ item.visit = "quoted" => v.ok
               /\ /\ v.ok \/ ~item.must
                  /\ item.visit = "quoted" => After(item, p, text) # {}
                  => v.at \in After(item, p, text)
  <1> DEFINE v == Visit(item, text, p)
             q == Skip(text, p)
             Sound == /\ v.ok \in BOOLEAN /\ v.at \in Nat
                      /\ item.visit # "quoted" => v.at \in 0..Len(text)
                      /\ item.visit = "quoted" => v.ok
                      /\ /\ v.ok \/ ~item.must
                         /\ item.visit = "quoted" => After(item, p, text) # {}
                         => v.at \in After(item, p, text)
  <1> SUFFICES Sound
    BY DEF Sound
  <1> HIDE DEF Sound
  <1>1. Len(text) \in Nat /\ p \in Nat
    BY DEF Words
  <1>2. q \in p..Len(text) /\ q \in Nat
    BY <1>1, SkipIs
  <1>3. ASSUME item.visit # "line"
        PROVE  /\ Here(item, p, text) # {} \/ item.must => After(item, p, text) = Here(item, p, text)
               /\ Here(item, p, text) = {} /\ ~item.must => After(item, p, text) = p..q
    BY <1>3, AfterIsHere
  <1>4. Here(item, p, text) \subseteq q..Len(text)
    BY DEF Here
  <1> HIDE DEF q
  <1>5. q \in p..q /\ q \in 0..Len(text) /\ q..Len(text) \subseteq 0..Len(text)
    BY <1>1, <1>2
  <1>6. 0..Len(text) \subseteq Nat
    BY <1>1
  <1>7. CASE item.visit = "sequence"
    <2> DEFINE front == AtFront(item.arg, text, q)
    <2>1. v = IF item.arg # << >> /\ front THEN Result(TRUE, q + Len(item.arg), << >>)
                                           ELSE Result(FALSE, q, << >>)
      BY <1>7 DEF Visit, VisitSequence, q
    <2>2. Here(item, p, text) = IF front THEN {q + Len(item.arg)} ELSE {}
      BY <1>7, LiteralHere DEF q
    <2>3. item.arg # << >>
      BY <1>7, GoodKinds
    <2> HIDE DEF front, v
    <2>4. CASE front
      <3>1. v.ok = TRUE /\ v.at = q + Len(item.arg)
        BY <2>1, <2>3, <2>4 DEF Result
      <3>2. v.at \in Here(item, p, text)
        BY <2>2, <2>4, <3>1
      <3>3. v.at \in After(item, p, text)
        BY <1>3, <1>7, <3>2
      <3> QED
        BY <1>4, <1>5, <1>6, <1>7, <3>1, <3>2, <3>3 DEF Sound
    <2>5. CASE ~front
      <3>1. v.ok = FALSE /\ v.at = q
        BY <2>1, <2>5 DEF Result
      <3>2. ~item.must => v.at \in After(item, p, text)
        BY <1>3, <1>5, <1>7, <2>2, <2>5, <3>1
      <3> QED
        BY <1>2, <1>5, <1>7, <3>1, <3>2 DEF Sound
    <2> QED
      BY <2>4, <2>5
  <1>8. CASE item.visit = "name"
    <2> DEFINE found == {i \in DOMAIN item.arg : AtFront(<<item.arg[i]>>, text, q)}
    <2>1. v = IF found # {} THEN Result(TRUE, q + 1, <<item.arg[Least(found)]>>)
                            ELSE Result(FALSE, q, << >>)
      BY <1>8 DEF Visit, VisitName, q
    <2>2. Here(item, p, text) = IF found # {} THEN {q + 1} ELSE {}
      BY <1>8, NameHere DEF q
    <2>3. item.must
      BY <1>8, GoodKinds
    <2> HIDE DEF found, v
    <2>4. CASE found # {}
      <3>1. v.ok = TRUE /\ v.at = q + 1
        BY <2>1, <2>4 DEF Result
      <3>2. v.at \in Here(item, p, text)
        BY <2>2, <2>4, <3>1
      <3>3. v.at \in After(item, p, text)
        BY <1>3, <1>8, <3>2
      <3> QED
        BY <1>4, <1>5, <1>6, <1>8, <3>1, <3>2, <3>3 DEF Sound
    <2>5. CASE found = {}
      <3>1. v.ok = FALSE /\ v.at = q
        BY <2>1, <2>5 DEF Result
      <3> QED
        BY <1>2, <1>5, <1>8, <2>3, <3>1 DEF Sound
    <2> QED
      BY <2>4, <2>5
  <1>9. CASE item.visit \in {"int", "number"}
    <2> DEFINE e == NumeralEnd(text, q)
    <2>1. /\ e \in q..Len(text) /\ v.ok \in BOOLEAN
          /\ v.ok <=> e \in Here(item, p, text)
          /\ v.at = IF v.ok THEN e ELSE q
      BY <1>9, NumberHere DEF q
    <2>2. item.must
      BY <1>9, GoodKinds
    <2> HIDE DEF e, v
    <2>3. v.ok => v.at \in After(item, p, text)
      BY <1>3, <1>9, <2>1
    <2>4. v.at \in 0..Len(text)
      BY <1>5, <2>1
    <2> QED
      BY <1>6, <1>9, <2>1, <2>2, <2>3, <2>4 DEF Sound
  <1>10. CASE item.visit = "quoted"
    <2>1. v.ok = TRUE /\ v.at \in Nat /\ \A r \in Here(item, p, text) : v.at = r
      BY <1>10, QuotedHere
    <2> HIDE DEF v
    <2>2. item.must
      BY <1>10, GoodKinds
    <2>3. After(item, p, text) # {} => v.at \in After(item, p, text)
      BY <1>3, <1>10, <2>1, <2>2
    <2> QED
      BY <1>10, <2>1, <2>3 DEF Sound
  <1>11. CASE item.visit = "line"
    <2> DEFINE e == LineEnd(text, p)
    <2>1. v.at \in p..e /\ v.ok \in BOOLEAN /\ (v.ok => v.at \in After(item, p, text))
      BY <1>11, LineVisit
    <2>2. item.must
      BY <1>11, GoodKinds
    <2>3. e \in p..Len(text)
      BY LineEndIs
    <2> HIDE DEF e, v
    <2>4. v.at \in 0..Len(text)
      BY <1>1, <2>1, <2>3
    <2> QED
      BY <1>6, <1>11, <2>1, <2>2, <2>4 DEF Sound
  <1> QED
    BY <1>7, <1>8, <1>9, <1>10, <1>11, GoodKinds

-----------------------------------------------------------------------------
(* The ends of the beginnings of a packet, item by item.                      *)

Onward(item, S, text) == UNION {After(item, p, text) : p \in S}

\* d holds the ends of the first items.
Reaches(d, N, items, text) ==
    d[0] = {0} /\ \A i \in 1..N : d[i] = Onward(items[i], d[i - 1], text)

LEMMA ReachesUnique ==
    ASSUME NEW N \in Nat, NEW items, NEW text, NEW d, NEW e,
           Reaches(d, N, items, text), Reaches(e, N, items, text)
    PROVE  \A i \in 0..N : d[i] = e[i]
  <1> DEFINE S == {i \in 0..N : d[i] = e[i]}
  <1>1. 0 \in S
    BY DEF Reaches
  <1>2. ASSUME NEW i \in 1..N, i - 1 \in S PROVE i \in S
    <2>1. d[i - 1] = e[i - 1] /\ i \in 0..N
      BY <1>2
    <2>2. d[i] = e[i]
      BY <2>1, Zenon DEF Reaches
    <2> QED
      BY <2>1, <2>2
  <1> HIDE DEF S
  <1>3. 0..N \subseteq S
    BY <1>1, <1>2, BoundedInduction
  <1> QED
    BY <1>3 DEF S

LEMMA EndsSteps ==
    ASSUME NEW items, NEW text \in Words, NEW N \in Nat
    PROVE  /\ Ends(items, 0, text) = {0}
           /\ \A i \in 1..N : Ends(items, i, text) = Onward(items[i], Ends(items, i - 1, text), text)
           /\ \A i \in 0..N : Ends(items, i, text) \subseteq 0..Len(text)
  <1> DEFINE X == SUBSET (0..Len(text))
             g == [p \in (1..N) \X X |-> Onward(items[p[1]], p[2], text)]
  <1>1. Len(text) \in Nat
    BY DEF Words
  <1>2. \A i, S : S \in X => Onward(items[i], S, text) \in X
    <2> TAKE i, S
    <2>1. HAVE S \in X
    <2>2. ASSUME NEW p \in S PROVE After(items[i], p, text) \subseteq 0..Len(text)
      <3>1. p \in 0..Len(text)
        BY <2>1
      <3>2. p..Len(text) \subseteq 0..Len(text)
        BY <1>1, <3>1
      <3> QED
        BY <3>2, AfterRange
    <2> QED
      BY <2>2 DEF Onward
  <1>3. {0} \in X
    BY <1>1
  <1> HIDE DEF X
  <1>4. g \in [(1..N) \X X -> X]
    BY <1>2
  <1>5. \A i \in 1..N, S \in X : g[<<i, S>>] = Onward(items[i], S, text)
    OBVIOUS
  <1> HIDE DEF g
  <1>6. PICK f : Unrolls(f, N, X, {0}, g)
    BY <1>3, <1>4, BoundedRecursion
  <1>7. f \in [0..N -> X] /\ f[0] = {0} /\ \A i \in 1..N : f[i] = g[<<i, f[i - 1]>>]
    BY <1>6 DEF Unrolls
  <1>8. \A i \in 1..N : f[i - 1] \in X
    BY <1>7
  <1>9. Reaches(f, N, items, text)
    BY <1>5, <1>7, <1>8 DEF Reaches
  <1>10. ASSUME NEW n \in 0..N PROVE Ends(items, n, text) = f[n]
    <2> DEFINE unrolled(e) == [i \in 0..n |-> IF i = 0 THEN {0} ELSE Onward(items[i], e[i - 1], text)]
               d == [i \in 0..n |-> f[i]]
               S == CHOOSE s : s = unrolled(s)
    <2>1. d = unrolled(d)
      <3>1. \A i \in 0..n : i # 0 => i \in 1..N /\ i - 1 \in 0..n
        OBVIOUS
      <3>2. \A i \in 0..n : i # 0 => f[i] = Onward(items[i], d[i - 1], text)
        BY <1>9, <3>1 DEF Reaches
      <3>3. \A i \in 0..n : f[i] = IF i = 0 THEN {0} ELSE Onward(items[i], d[i - 1], text)
        BY <1>7, <3>2
      <3> QED
        BY <3>3
    <2> HIDE DEF d
    <2>2. S = unrolled(S)
      BY <2>1
    <2>3. Ends(items, n, text) = S[n]
      BY DEF Ends, Onward
    <2> HIDE DEF S
    <2>4. n \in Nat /\ 0 \in 0..n /\ \A i \in 1..n : i \in 1..N /\ i \in 0..n /\ i # 0
      OBVIOUS
    <2>5. \A i \in 0..n : S[i] = IF i = 0 THEN {0} ELSE Onward(items[i], S[i - 1], text)
      BY <2>2, Zenon
    <2>6. S[0] = {0}
      BY <2>4, <2>5
    <2>7. Reaches(S, n, items, text)
      BY <2>4, <2>5, <2>6, Zenon DEF Reaches
    <2>8. Reaches(f, n, items, text)
      BY <1>9, <2>4, Zenon DEF Reaches
    <2>9. \A i \in 0..n : S[i] = f[i]
      BY <2>4, <2>7, <2>8, ReachesUnique
    <2> QED
      BY <2>3, <2>4, <2>9
  <1>11. \A i \in 1..N : i \in 0..N /\ i - 1 \in 0..N
    OBVIOUS
  <1>12. 0 \in 0..N /\ \A i \in 0..N : Ends(items, i, text) = f[i] /\ f[i] \in X
    BY <1>7, <1>10
  <1>13. \A i \in 0..N : Ends(items, i, text) \subseteq 0..Len(text)
    BY <1>12 DEF X
  <1> QED
    BY <1>7, <1>9, <1>11, <1>12, <1>13, Zenon DEF Reaches

-----------------------------------------------------------------------------
(* The items of the packs.                                                    *)

Stops(item) == item.visit = "sequence" /\ item.must /\ item.arg[1] \notin Digits

\* What may follow an optional CRLF: it does not begin with half of one.
Opens(item) ==
    \/ item.visit = "line"
    \/ item.visit = "sequence" /\ item.must /\ item.arg[1] # "\r"

\* What every packet of a pack has: a number is followed by a literal that is no
\* digit, a line is between an optional CRLF and a CRLF, nothing but a CRLF is
\* optional, and a CRLF is the last item.
WellFormed(items) ==
    /\ items \in Seq(GoodItems)
    /\ Len(items) >= 1 /\ items[Len(items)] = Must(CrLf)
    /\ \A i \in 1..Len(items) :
          /\ ~items[i].must =>
                items[i] = May(CrLf) /\ i + 1 \in 1..Len(items) /\ Opens(items[i + 1])
          /\ items[i].visit \in {"int", "number"} => i + 1 \in 1..Len(items) /\ Stops(items[i + 1])
          /\ items[i].visit = "line" =>
                /\ i - 1 \in 1..Len(items) /\ items[i - 1] = May(CrLf)
                /\ i + 1 \in 1..Len(items) /\ items[i + 1] = Must(CrLf)

LEMMA Prepend ==
    ASSUME NEW X, NEW a \in X, NEW s \in Seq(X)
    PROVE  /\ <<a>> \o s \in Seq(X)
           /\ Len(<<a>> \o s) = Len(s) + 1 /\ Len(s) \in Nat
           /\ (<<a>> \o s)[1] = a
           /\ \A i \in 1..Len(s) : (<<a>> \o s)[i + 1] = s[i]
  <1> DEFINE u == <<a>>
             t == u \o s
  <1>1. u \in Seq(X) /\ Len(u) = 1 /\ u[1] = a /\ Len(s) \in Nat
    OBVIOUS
  <1> HIDE DEF u
  <1>2. /\ t \in Seq(X) /\ Len(t) = Len(u) + Len(s)
        /\ \A i \in 1..(Len(u) + Len(s)) : t[i] = IF i <= Len(u) THEN u[i] ELSE s[i - Len(u)]
    BY <1>1, ConcatProperties
  <1> HIDE DEF t
  <1>3. ASSUME NEW i \in 1..Len(s) PROVE t[i + 1] = s[i]
    <2>1. i + 1 \in 1..(Len(u) + Len(s)) /\ ~(i + 1 <= Len(u)) /\ (i + 1) - Len(u) = i
      BY <1>1
    <2> QED
      BY <1>2, <2>1
  <1>4. t[1] = a
    <2>1. 1 \in 1..(Len(u) + Len(s)) /\ 1 <= Len(u)
      BY <1>1
    <2> QED
      BY <1>1, <1>2, <2>1
  <1> QED
    BY <1>1, <1>2, <1>3, <1>4 DEF t, u

LEMMA WellFormedPrepend ==
    ASSUME NEW m \in GoodLiterals, NEW s, WellFormed(s),
           m.must \/ (m = May(CrLf) /\ Opens(s[1]))
    PROVE  WellFormed(<<m>> \o s)
  <1> DEFINE t == <<m>> \o s
  <1>1. m \in GoodItems /\ m.visit = "sequence" /\ s \in Seq(GoodItems)
    BY DEF GoodItems, GoodLiterals, WellFormed
  <1>2. /\ t \in Seq(GoodItems) /\ Len(t) = Len(s) + 1 /\ Len(s) \in Nat
        /\ t[1] = m /\ \A i \in 1..Len(s) : t[i + 1] = s[i]
    BY <1>1, Prepend
  <1> HIDE DEF t
  <1>0. Len(s) >= 1 /\ s[Len(s)] = Must(CrLf)
    BY DEF WellFormed
  <1>3. ASSUME NEW i \in 1..Len(t)
        PROVE  /\ ~t[i].must => t[i] = May(CrLf) /\ i + 1 \in 1..Len(t) /\ Opens(t[i + 1])
               /\ t[i].visit \in {"int", "number"} => i + 1 \in 1..Len(t) /\ Stops(t[i + 1])
               /\ t[i].visit = "line" =>
                     /\ i - 1 \in 1..Len(t) /\ t[i - 1] = May(CrLf)
                     /\ i + 1 \in 1..Len(t) /\ t[i + 1] = Must(CrLf)
    <2>1. CASE i = 1
      <3>1. t[1 + 1] = s[1] /\ 1 + 1 \in 1..Len(t)
        BY <1>0, <1>2
      <3> QED
        BY <1>1, <1>2, <2>1, <3>1
    <2>2. CASE i # 1
      <3> DEFINE k == i - 1
      <3>1. k \in 1..Len(s) /\ i = k + 1
        BY <1>2, <2>2
      <3> HIDE DEF k
      <3>2. /\ ~s[k].must => s[k] = May(CrLf) /\ k + 1 \in 1..Len(s) /\ Opens(s[k + 1])
            /\ s[k].visit \in {"int", "number"} => k + 1 \in 1..Len(s) /\ Stops(s[k + 1])
            /\ s[k].visit = "line" =>
                  /\ k - 1 \in 1..Len(s) /\ s[k - 1] = May(CrLf)
                  /\ k + 1 \in 1..Len(s) /\ s[k + 1] = Must(CrLf)
        BY <3>1 DEF WellFormed
      <3>3. t[k + 1] = s[k]
        BY <1>2, <3>1
      <3>4. k + 1 \in 1..Len(s) => t[(k + 1) + 1] = s[k + 1] /\ (k + 1) + 1 \in 1..Len(t)
        BY <1>2, <3>1
      <3>5. k - 1 \in 1..Len(s) => t[(k + 1) - 1] = s[k - 1] /\ (k + 1) - 1 \in 1..Len(t)
        <4>1. (k - 1) + 1 = (k + 1) - 1
          BY <3>1
        <4> QED
          BY <1>2, <3>1, <4>1
      <3> QED
        BY <3>1, <3>2, <3>3, <3>4, <3>5
    <2> QED
      BY <2>1, <2>2
  <1>4. Len(t) >= 1 /\ t[Len(t)] = Must(CrLf)
    BY <1>0, <1>2
  <1> QED
    BY <1>2, <1>3, <1>4 DEF WellFormed, t

LEMMA PackLiterals ==
    /\ \A c \in {"+ATI:", "+CPIN: ", "OK", "ERROR", "+CMS ERROR:", "+CME ERROR:", "+TEST:"} :
          Must(<<c>>) \in GoodLiterals
    /\ May(CrLf) \in GoodLiterals /\ Must(CrLf) \in GoodLiterals /\ Must(Comma) \in GoodLiterals
    /\ Stops(Must(CrLf)) /\ Stops(Must(Comma))
  <1>1. ASSUME NEW s \in Words, s # << >>, s[1] \notin Blank, NEW b \in BOOLEAN
        PROVE  [visit |-> "sequence", arg |-> s, must |-> b] \in GoodLiterals
    BY <1>1 DEF GoodLiterals
  <1>2. ASSUME NEW s \in Words, s # << >>, s[1] \notin Blank
        PROVE  Must(s) \in GoodLiterals /\ May(s) \in GoodLiterals
    <2>1. Must(s) = [visit |-> "sequence", arg |-> s, must |-> TRUE]
      BY DEF Must
    <2>2. Must(s) \in GoodLiterals
      BY <1>1, <1>2, <2>1
    <2>3. [Must(s) EXCEPT !.must = FALSE] \in GoodLiterals
      BY <2>2 DEF GoodLiterals
    <2> QED
      BY <2>2, <2>3 DEF May
  <1>0. \A c \in Chars : <<c>> \in Words
    BY DEF Words
  <1>3. ASSUME NEW c \in {"+ATI:", "+CPIN: ", "OK", "ERROR", "+CMS ERROR:", "+CME ERROR:", "+TEST:"}
        PROVE  Must(<<c>>) \in GoodLiterals
    <2>1. c \in Chars /\ c \notin Blank
      BY DEF Chars, Blank
    <2>2. <<c>> \in Words
      BY <1>0, <2>1
    <2>3. <<c>> # << >> /\ <<c>>[1] = c
      OBVIOUS
    <2> QED
      BY <1>2, <2>1, <2>2, <2>3
  <1>4. CrLf \in Words /\ CrLf # << >> /\ CrLf[1] = "\r" /\ Comma \in Words /\ Comma # << >> /\ Comma[1] = ","
    BY Literals DEF CrLf, Comma
  <1>5. May(CrLf) \in GoodLiterals /\ Must(CrLf) \in GoodLiterals /\ Must(Comma) \in GoodLiterals
    BY <1>2, <1>4, CharacterClasses
  <1>6. Stops(Must(CrLf)) /\ Stops(Must(Comma))
    BY <1>4, CharacterClasses DEF Stops, Must
  <1> QED
    BY <1>3, <1>5, <1>6

LEMMA PackFields ==
    /\ Integer \in GoodItems /\ Integer.visit = "int"
    /\ Quoted \in GoodItems /\ Quoted.visit = "quoted"
    /\ LineText \in GoodItems /\ LineText.visit = "line"
    /\ \A codes \in {{500}, {0}, 0..4} : Numeric(codes) \in GoodItems /\ Numeric(codes).visit = "number"
    /\ Named(<<"Five", "Nine">>) \in GoodItems /\ Named(<<"Five", "Nine">>).visit = "name"
    /\ Named(<<"PH_SIM_PIN", "READY", "SIM_PIN">>) \in GoodItems
    /\ Named(<<"PH_SIM_PIN", "READY", "SIM_PIN">>).visit = "name"
  <1>1. Integer \in GoodInts /\ Integer.visit = "int"
    BY DEF Integer, GoodInts
  <1>2. Quoted \in GoodStrings /\ Quoted.visit = "quoted"
    BY PacketAssumption DEF Quoted, GoodStrings
  <1>3. LineText \in GoodLines /\ LineText.visit = "line"
    BY PacketAssumption DEF LineText, GoodLines
  <1>4. ASSUME NEW codes \in {{500}, {0}, 0..4}
        PROVE  Numeric(codes) \in GoodNumbers /\ Numeric(codes).visit = "number"
    <2>1. codes \subseteq 0..500
      OBVIOUS
    <2>2. NoNumber \notin 0..500 /\ 0..500 \subseteq Int
      BY PacketAssumption DEF NoNumber
    <2>3. codes \in SUBSET (Int \ {NoNumber})
      BY <2>1, <2>2
    <2> HIDE DEF NoNumber
    <2> QED
      BY <2>3 DEF Numeric, GoodNumbers
  <1>5. ASSUME NEW names \in Words, \A i \in DOMAIN names : names[i] \notin Blank
        PROVE  Named(names) \in GoodNames /\ Named(names).visit = "name"
    BY <1>5 DEF Named, GoodNames
  <1>6. /\ "Five" \in Chars \ Blank /\ "Nine" \in Chars \ Blank /\ "PH_SIM_PIN" \in Chars \ Blank
        /\ "READY" \in Chars \ Blank /\ "SIM_PIN" \in Chars \ Blank
    BY DEF Chars, Blank
  <1>7. \A c, d \in Chars \ Blank :
          <<c, d>> \in Words /\ \A i \in DOMAIN <<c, d>> : <<c, d>>[i] \notin Blank
    BY DEF Words
  <1>8. \A c, d, e \in Chars \ Blank :
          <<c, d, e>> \in Words /\ \A i \in DOMAIN <<c, d, e>> : <<c, d, e>>[i] \notin Blank
    BY DEF Words
  <1>9. Named(<<"Five", "Nine">>) \in GoodNames /\ Named(<<"Five", "Nine">>).visit = "name"
    BY <1>5, <1>6, <1>7
  <1>10. /\ Named(<<"PH_SIM_PIN", "READY", "SIM_PIN">>) \in GoodNames
         /\ Named(<<"PH_SIM_PIN", "READY", "SIM_PIN">>).visit = "name"
    BY <1>5, <1>6, <1>8
  <1> QED
    BY <1>1, <1>2, <1>3, <1>4, <1>9, <1>10 DEF GoodItems

LEMMA NoFieldWellFormed ==
    ASSUME NEW a \in GoodLiterals, a.must
    PROVE  WellFormed(<<a, Must(CrLf)>>)
  <1> DEFINE b == Must(CrLf)
             s == <<a, b>>
  <1>1. /\ a \in GoodItems /\ b \in GoodItems /\ a.visit = "sequence" /\ b.visit = "sequence"
        /\ b.must
    BY PackLiterals DEF GoodItems, GoodLiterals, Must
  <1> HIDE DEF b
  <1>2. s \in Seq(GoodItems) /\ Len(s) = 2 /\ s[1] = a /\ s[2] = b
    BY <1>1
  <1> HIDE DEF s
  <1>3. \A i \in 1..Len(s) : s[i].visit = "sequence" /\ s[i].must
    BY <1>1, <1>2
  <1> QED
    BY <1>2, <1>3 DEF WellFormed, s, b

LEMMA OneFieldWellFormed ==
    ASSUME NEW a \in GoodLiterals, a.must, NEW item \in GoodItems, item.must,
           item.visit # "line"
    PROVE  WellFormed(<<a, item, Must(CrLf)>>)
  <1> DEFINE b == Must(CrLf)
             s == <<a, item, b>>
  <1>1. /\ a \in GoodItems /\ b \in GoodItems /\ a.visit = "sequence" /\ b.visit = "sequence"
        /\ b.must /\ Stops(b)
    BY PackLiterals DEF GoodItems, GoodLiterals, Must
  <1> HIDE DEF b
  <1>2. s \in Seq(GoodItems) /\ Len(s) = 3 /\ s[1] = a /\ s[2] = item /\ s[3] = b
    BY <1>1
  <1> HIDE DEF s
  <1>3. ASSUME NEW i \in 1..Len(s)
        PROVE  /\ s[i].visit # "line" /\ s[i].must
               /\ s[i].visit # "sequence" => i + 1 \in 1..Len(s) /\ Stops(s[i + 1])
    <2>1. i \in {1, 2, 3}
      BY <1>2
    <2> QED
      BY <1>1, <1>2, <2>1
  <1> QED
    BY <1>2, <1>3 DEF WellFormed, s, b

LEMMA LineWellFormed ==
    ASSUME NEW items, items = <<May(CrLf)>> \o <<LineText, Must(CrLf)>>
    PROVE  WellFormed(items)
  <1> DEFINE s == <<LineText, Must(CrLf)>>
             a == May(CrLf)
             b == Must(CrLf)
             l == LineText
  <1>1. /\ a \in GoodItems /\ b \in GoodItems /\ a.visit = "sequence" /\ b.visit = "sequence"
        /\ b.must
    BY PackLiterals DEF GoodItems, GoodLiterals, Must
  <1>2. l \in GoodItems /\ l.visit = "line" /\ l.must /\ Opens(l)
    BY PackFields, GoodKinds DEF Opens
  <1> HIDE DEF a, b, l
  <1>3. <<l, b>> \in Seq(GoodItems) /\ Len(<<l, b>>) = 2 /\ <<l, b>>[1] = l /\ <<l, b>>[2] = b
    BY <1>1, <1>2
  <1>4. s = <<l, b>>
    BY DEF l, b
  <1> HIDE DEF s
  <1>5. /\ items \in Seq(GoodItems) /\ Len(items) = Len(s) + 1 /\ items[1] = a
        /\ \A i \in 1..Len(s) : items[i + 1] = s[i]
    BY <1>1, <1>3, <1>4, Prepend DEF a, s
  <1>6. Len(items) = 3 /\ items[1] = a /\ items[2] = l /\ items[3] = b
    <2>1. items[1 + 1] = s[1] /\ items[2 + 1] = s[2]
      BY <1>3, <1>4, <1>5
    <2> QED
      BY <1>3, <1>4, <1>5, <2>1
  <1>7. ASSUME NEW i \in 1..Len(items)
        PROVE  /\ items[i].visit \notin {"int", "number"}
               /\ ~items[i].must => items[i] = a /\ i + 1 \in 1..Len(items) /\ Opens(items[i + 1])
               /\ items[i].visit = "line" =>
                     /\ i - 1 \in 1..Len(items) /\ items[i - 1] = a
                     /\ i + 1 \in 1..Len(items) /\ items[i + 1] = b
    <2>1. i \in {1, 2, 3}
      BY <1>6
    <2> QED
      BY <1>1, <1>2, <1>6, <2>1
  <1> QED
    BY <1>5, <1>6, <1>7 DEF WellFormed, a, b

LEMMA TestWellFormed ==
    ASSUME NEW a \in GoodLiterals, a.must
    PROVE  WellFormed(<<a, Integer, Must(Comma), Quoted, Must(Comma), Numeric(0..4),
                        Must(Comma), Named(<<"Five", "Nine">>), Must(CrLf)>>)
  <1> DEFINE m == Must(Comma)
             z == Must(CrLf)
             f1 == Integer
             f2 == Quoted
             f3 == Numeric(0..4)
             f4 == Named(<<"Five", "Nine">>)
             s == <<a, f1, m, f2, m, f3, m, f4, z>>
  <1>1. /\ m \in GoodItems /\ z \in GoodItems /\ a \in GoodItems
        /\ m.visit = "sequence" /\ z.visit = "sequence" /\ a.visit = "sequence"
        /\ m.must /\ z.must /\ Stops(m) /\ Stops(z)
    BY PackLiterals DEF GoodItems, GoodLiterals, Must
  <1>2. /\ f1 \in GoodItems /\ f2 \in GoodItems /\ f3 \in GoodItems /\ f4 \in GoodItems
        /\ f1.visit # "line" /\ f2.visit # "line" /\ f3.visit # "line" /\ f4.visit # "line"
        /\ f1.must /\ f2.must /\ f3.must /\ f4.must
    BY PackFields, GoodKinds
  <1> HIDE DEF m, z, f1, f2, f3, f4
  <1>3. s \in Seq(GoodItems) /\ Len(s) = 9
    BY <1>1, <1>2
  <1>4. s[1] = a /\ s[2] = f1 /\ s[3] = m /\ s[4] = f2 /\ s[5] = m
    OBVIOUS
  <1>5. s[6] = f3 /\ s[7] = m /\ s[8] = f4 /\ s[9] = z
    OBVIOUS
  <1> HIDE DEF s
  <1>6. ASSUME NEW i \in 1..Len(s)
        PROVE  /\ s[i].visit # "line" /\ s[i].must
               /\ s[i].visit # "sequence" => i + 1 \in 1..Len(s) /\ Stops(s[i + 1])
    <2>1. i \in {1, 3, 5, 7, 9} \/ i \in {2, 4, 6, 8}
      BY <1>3
    <2>2. CASE i \in {1, 3, 5, 7, 9}
      BY <1>1, <1>4, <1>5, <2>2
    <2>3. CASE i \in {2, 4, 6, 8}
      <3>1. s[i + 1] \in {m, z} /\ i + 1 \in 1..9
        BY <1>4, <1>5, <2>3
      <3> QED
        BY <1>1, <1>2, <1>3, <1>4, <1>5, <2>3, <3>1
    <2> QED
      BY <2>1, <2>2, <2>3
  <1> QED
    BY <1>3, <1>5, <1>6 DEF WellFormed, s, m, z, f1, f2, f3, f4

WellFormedPackets == {s \in Seq(GoodItems) : WellFormed(s)}

\* The packets of the packs, item by item.
TestItems ==
    <<Must(<<"+TEST:">>), Integer, Must(Comma), Quoted, Must(Comma), Numeric(0..4),
      Must(Comma), Named(<<"Five", "Nine">>), Must(CrLf)>>

LEMMA PackItems ==
    /\ Ok = <<May(CrLf)>> \o <<Must(<<"OK">>), Must(CrLf)>>
    /\ Error = <<Must(<<"ERROR">>), Must(CrLf)>>
    /\ CmsError = <<Must(<<"+CMS ERROR:">>), Numeric({500}), Must(CrLf)>>
    /\ CmeError = <<Must(<<"+CME ERROR:">>), Numeric({0}), Must(CrLf)>>
    /\ CpinReadResponse =
         <<Must(<<"+CPIN: ">>), Named(<<"PH_SIM_PIN", "READY", "SIM_PIN">>), Must(CrLf)>>
    /\ AnyUrc = <<May(CrLf)>> \o <<LineText, Must(CrLf)>>
    /\ AtiResponse =
         <<May(CrLf)>> \o (<<Must(<<"+ATI:">>)>> \o (<<May(CrLf)>> \o <<LineText, Must(CrLf)>>))
    /\ TestResponse = <<May(CrLf)>> \o TestItems
  <1>1. Ok = <<May(CrLf)>> \o <<Must(<<"OK">>), Must(CrLf)>>
    BY NoFieldItems DEF Ok, Response
  <1>2. Error = <<Must(<<"ERROR">>), Must(CrLf)>>
    BY NoFieldItems DEF Error, Accept
  <1>3. CmsError = <<Must(<<"+CMS ERROR:">>), Numeric({500}), Must(CrLf)>>
    <2>1. CmsError = AcceptWithTerm(<<"+CMS ERROR:">>, <<Numeric({500})>>, CrLf)
      BY DEF CmsError, Accept
    <2>2. <<"+CMS ERROR:">> # << >>
      OBVIOUS
    <2> QED
      BY <2>1, <2>2, OneFieldItems
  <1>4. CmeError = <<Must(<<"+CME ERROR:">>), Numeric({0}), Must(CrLf)>>
    <2>1. CmeError = AcceptWithTerm(<<"+CME ERROR:">>, <<Numeric({0})>>, CrLf)
      BY DEF CmeError, Accept
    <2>2. <<"+CME ERROR:">> # << >>
      OBVIOUS
    <2> QED
      BY <2>1, <2>2, OneFieldItems
  <1>5. CpinReadResponse =
          <<Must(<<"+CPIN: ">>), Named(<<"PH_SIM_PIN", "READY", "SIM_PIN">>), Must(CrLf)>>
    BY OneFieldItems DEF CpinReadResponse, Accept
  <1>6. TestResponse = <<May(CrLf)>> \o TestItems
    <2>1. AcceptWithTerm(<<"+TEST:">>, TestFields, CrLf) = TestItems
      BY FourFieldItems DEF TestFields, TestItems
    <2> QED
      BY <2>1 DEF TestResponse, Response
  <1>7. AcceptWithTerm(<< >>, <<LineText>>, CrLf) = <<LineText, Must(CrLf)>>
    <2> DEFINE l == LineText
               z == Must(CrLf)
               c == WithCommas(<<l>>)
    <2>1. c = <<l>>
      <3>1. c = [i \in 1..1 |-> IF i % 2 = 1 THEN <<l>>[(i + 1) \div 2] ELSE Must(Comma)]
        BY DEF WithCommas
      <3>2. \A i \in 1..1 : i % 2 = 1 /\ (i + 1) \div 2 = 1
        OBVIOUS
      <3>3. c = [i \in 1..1 |-> l]
        BY <3>1, <3>2
      <3> HIDE DEF c, l
      <3> QED
        BY <3>3
    <2>2. AcceptWithTerm(<< >>, <<l>>, CrLf) = (<< >> \o c) \o <<z>>
      BY DEF AcceptWithTerm, IfTagged
    <2> HIDE DEF l, z, c
    <2>3. <<l>> \in Seq({l, z}) /\ z \in {l, z}
      OBVIOUS
    <2>4. << >> \o <<l>> = <<l>>
      BY <2>3, ConcatEmptySeq
    <2>5. Append(<<l>>, z) = <<l>> \o <<z>>
      BY <2>3, AppendIsConcat
    <2>6. Append(<<l>>, z) = <<l, z>>
      <3> DEFINE a == Append(<<l>>, z)
      <3>1. Len(<<l>>) = 1 /\ <<l>>[1] = l
        OBVIOUS
      <3>2. /\ a \in Seq({l, z}) /\ Len(a) = Len(<<l>>) + 1 /\ a[Len(<<l>>) + 1] = z
            /\ \A i \in 1..Len(<<l>>) : a[i] = <<l>>[i]
        BY <2>3, AppendProperties
      <3> HIDE DEF a
      <3>3. Len(a) = 2 /\ a[1] = l /\ a[2] = z
        BY <3>1, <3>2
      <3>4. a = <<l, z>>
        BY <3>2, <3>3
      <3> QED
        BY <3>4 DEF a
    <2> QED
      BY <2>1, <2>2, <2>4, <2>5, <2>6 DEF l, z
  <1>8. AnyUrc = <<May(CrLf)>> \o <<LineText, Must(CrLf)>>
    BY <1>7 DEF AnyUrc, Response
  <1>9. AtiResponse =
          <<May(CrLf)>> \o (<<Must(<<"+ATI:">>)>> \o (<<May(CrLf)>> \o <<LineText, Must(CrLf)>>))
    <2> DEFINE m == May(CrLf)
               t == Must(<<"+ATI:">>)
               u == <<LineText, Must(CrLf)>>
    <2>1. Manufacturer = << >> \o u
      BY <1>7 DEF Manufacturer, Line, IfTagged, Accept
    <2>2. AtiResponse = ((<<m>> \o <<t>>) \o <<m>>) \o Manufacturer
      BY DEF AtiResponse, MultiLineResponse, IfTagged
    <2>3. m \in GoodItems /\ t \in GoodItems /\ u \in Seq(GoodItems)
      <3>1. Must(CrLf) \in GoodItems /\ LineText \in GoodItems /\ m \in GoodItems /\ t \in GoodItems
        BY PackLiterals, PackFields DEF GoodItems
      <3>2. \A x, y \in GoodItems : <<x, y>> \in Seq(GoodItems)
        OBVIOUS
      <3> QED
        BY <3>1, <3>2
    <2> HIDE DEF m, t, u
    <2>4. <<m>> \in Seq(GoodItems) /\ <<t>> \in Seq(GoodItems)
      BY <2>3
    <2>5. << >> \o u = u /\ <<m>> \o u \in Seq(GoodItems) /\ <<m>> \o <<t>> \in Seq(GoodItems)
      BY <2>3, <2>4, ConcatEmptySeq, ConcatProperties
    <2>6. ((<<m>> \o <<t>>) \o <<m>>) \o u = (<<m>> \o <<t>>) \o (<<m>> \o u)
      BY <2>3, <2>4, <2>5, ConcatAssociative
    <2>7. (<<m>> \o <<t>>) \o (<<m>> \o u) = <<m>> \o (<<t>> \o (<<m>> \o u))
      BY <2>4, <2>5, ConcatAssociative
    <2>8. AtiResponse = <<m>> \o (<<t>> \o (<<m>> \o u))
      BY <2>1, <2>2, <2>5, <2>6, <2>7
    <2> QED
      BY <2>8 DEF m, t, u
  <1> QED
    BY <1>1, <1>2, <1>3, <1>4, <1>5, <1>6, <1>8, <1>9

LEMMA Tags ==
    ASSUME NEW c \in {"+ATI:", "+CPIN: ", "OK", "ERROR", "+CMS ERROR:", "+CME ERROR:", "+TEST:"}
    PROVE  Must(<<c>>) \in GoodLiterals /\ Must(<<c>>).must /\ Opens(Must(<<c>>))
  <1>1. Must(<<c>>) \in GoodLiterals
    BY PackLiterals
  <1>2. c # "\r" /\ <<c>>[1] = c
    OBVIOUS
  <1>3. Must(<<c>>).must = TRUE /\ Must(<<c>>).visit = "sequence" /\ Must(<<c>>).arg = <<c>>
    BY DEF Must
  <1> QED
    BY <1>1, <1>2, <1>3 DEF Opens

LEMMA PacketsWellFormed ==
    {Ok, Error, CmsError, CmeError, AtiResponse, CpinReadResponse, AnyUrc, TestResponse}
        \subseteq WellFormedPackets
  <1>1. \A s : WellFormed(s) => s \in WellFormedPackets
    BY DEF WellFormed, WellFormedPackets
  <1>2. May(CrLf) \in GoodLiterals
    BY PackLiterals
  <1>3. \A x, y : <<x, y>>[1] = x
    OBVIOUS
  <1>4. WellFormed(Error)
    BY PackItems, Tags, NoFieldWellFormed
  <1>5. WellFormed(Ok)
    <2> DEFINE s == <<Must(<<"OK">>), Must(CrLf)>>
    <2>1. WellFormed(s)
      BY Tags, NoFieldWellFormed
    <2>2. Opens(s[1])
      BY <1>3, Tags
    <2>3. Ok = <<May(CrLf)>> \o s
      BY PackItems
    <2> HIDE DEF s
    <2> QED
      BY <1>2, <2>1, <2>2, <2>3, WellFormedPrepend
  <1>6. WellFormed(CmsError)
    <2>1. Numeric({500}) \in GoodItems /\ Numeric({500}).visit # "line" /\ Numeric({500}).must
      BY PackFields, GoodKinds
    <2> QED
      BY <2>1, PackItems, Tags, OneFieldWellFormed
  <1>7. WellFormed(CmeError)
    <2>1. Numeric({0}) \in GoodItems /\ Numeric({0}).visit # "line" /\ Numeric({0}).must
      BY PackFields, GoodKinds
    <2> QED
      BY <2>1, PackItems, Tags, OneFieldWellFormed
  <1>8. WellFormed(CpinReadResponse)
    <2> DEFINE n == Named(<<"PH_SIM_PIN", "READY", "SIM_PIN">>)
    <2>1. n \in GoodItems /\ n.visit # "line" /\ n.must
      BY PackFields, GoodKinds
    <2>2. CpinReadResponse = <<Must(<<"+CPIN: ">>), n, Must(CrLf)>>
      BY PackItems
    <2> HIDE DEF n
    <2> QED
      BY <2>1, <2>2, Tags, OneFieldWellFormed
  <1>9. WellFormed(AnyUrc)
    BY PackItems, LineWellFormed
  <1>10. WellFormed(AtiResponse)
    <2> DEFINE m == May(CrLf)
               t == Must(<<"+ATI:">>)
               u == <<LineText, Must(CrLf)>>
    <2>1. WellFormed(<<m>> \o u)
      BY LineWellFormed
    <2>2. t \in GoodLiterals /\ t.must /\ Opens(t)
      BY Tags
    <2>3. AtiResponse = <<m>> \o (<<t>> \o (<<m>> \o u))
      BY PackItems
    <2> HIDE DEF u, t
    <2>4. WellFormed(<<t>> \o (<<m>> \o u))
      BY <2>1, <2>2, WellFormedPrepend
    <2>5. (<<t>> \o (<<m>> \o u))[1] = t
      <3>1. t \in GoodItems /\ <<m>> \o u \in Seq(GoodItems)
        BY <2>1, <2>2 DEF WellFormed, GoodItems
      <3> QED
        BY <3>1, Prepend
    <2> QED
      BY <1>2, <2>2, <2>3, <2>4, <2>5, WellFormedPrepend
  <1>11. WellFormed(TestResponse)
    <2>1. WellFormed(TestItems)
      BY Tags, TestWellFormed DEF TestItems
    <2>2. Opens(TestItems[1])
      <3>1. TestItems[1] = Must(<<"+TEST:">>)
        BY DEF TestItems
      <3> QED
        BY <3>1, Tags
    <2> QED
      BY <1>2, <2>1, <2>2, PackItems, WellFormedPrepend
  <1> QED
    BY <1>1, <1>4, <1>5, <1>6, <1>7, <1>8, <1>9, <1>10, <1>11

LEMMA PacksWellFormed ==
    \A p \in DOMAIN PackOf : PackOf[p] \in Seq(WellFormedPackets) /\ Len(PackOf[p]) >= 1
  <1> DEFINE X == WellFormedPackets
             f == <<Ok, Error, CmsError, CmeError>>
  <1>1. f \in Seq(X) /\ Len(f) = 4
    BY PacketsWellFormed
  <1>2. /\ <<AtiResponse>> \in Seq(X) /\ <<CpinReadResponse>> \in Seq(X)
        /\ <<AnyUrc>> \in Seq(X) /\ <<TestResponse>> \in Seq(X) /\ << >> \in Seq(X)
    BY PacketsWellFormed
  <1> HIDE DEF X
  <1>3. /\ Len(<<AtiResponse>>) = 1 /\ Len(<<CpinReadResponse>>) = 1
        /\ Len(<<AnyUrc>>) = 1 /\ Len(<<TestResponse>>) = 1 /\ Len(<< >>) = 0
    OBVIOUS
  <1> HIDE DEF f
  <1>4. << >> \o f \in Seq(X) /\ Len(<< >> \o f) = 4
    BY <1>1, <1>2, ConcatEmptySeq
  <1>5. <<AtiResponse>> \o f \in Seq(X) /\ Len(<<AtiResponse>> \o f) = 5
    <2> DEFINE g == <<AtiResponse>>
    <2>1. g \in Seq(X) /\ Len(g) = 1
      BY <1>2, <1>3
    <2> HIDE DEF g
    <2>2. g \o f \in Seq(X) /\ Len(g \o f) = Len(g) + Len(f)
      BY <1>1, <2>1, ConcatProperties
    <2>3. Len(g \o f) = 5
      BY <1>1, <2>1, <2>2
    <2> QED
      BY <2>2, <2>3 DEF g
  <1>6. <<CpinReadResponse>> \o <<AnyUrc>> \in Seq(X) /\ Len(<<CpinReadResponse>> \o <<AnyUrc>>) = 2
    BY <1>2, <1>3, ConcatProperties
  <1>7. DOMAIN PackOf = {"result", "ati", "urc", "test"}
    BY DEF PackOf
  <1>8. /\ PackOf["result"] = << >> \o f /\ PackOf["ati"] = <<AtiResponse>> \o f
        /\ PackOf["urc"] = <<CpinReadResponse>> \o <<AnyUrc>>
        /\ PackOf["test"] = <<TestResponse>>
    BY DEF PackOf, FinalResultCode, Urc, f
  <1> DEFINE ok(s) == s \in Seq(X) /\ Len(s) >= 1
  <1>9. ok(<< >> \o f) /\ ok(<<AtiResponse>> \o f)
    BY <1>4, <1>5
  <1>10. ok(<<CpinReadResponse>> \o <<AnyUrc>>) /\ ok(<<TestResponse>>)
    BY <1>2, <1>3, <1>6
  <1> HIDE DEF ok
  <1>11. \A p \in DOMAIN PackOf : ok(PackOf[p])
    BY <1>7, <1>8, <1>9, <1>10, Zenon
  <1> QED
    BY <1>11 DEF ok, X

-----------------------------------------------------------------------------
(* The cursor stands for every way of cutting what was visited into texts of  *)
(* the items: where one of them can go on, the visitor goes on alike.         *)

Covers(item, p, c, text) ==
    \/ After(item, p, text) = {}
    \/ /\ Skip(text, p) = Skip(text, c)
       /\ item.visit = "line" => p <= c /\ (p < c => ~AtFront(CrLf, text, c))

Covered(items, n, c, text) ==
    n + 1 \in 1..Len(items) =>
        \A p \in Ends(items, n, text) : Covers(items[n + 1], p, c, text)

\* What cannot go on has no end.
LEMMA NoEnd ==
    ASSUME NEW items, NEW text \in Words, NEW N \in Nat, NEW n \in 0..N,
           Ends(items, n, text) = {}
    PROVE  Ends(items, N, text) = {}
  <1> DEFINE S == {i \in 0..N : i >= n => Ends(items, i, text) = {}}
  <1>1. /\ Ends(items, 0, text) = {0}
        /\ \A i \in 1..N : Ends(items, i, text) = Onward(items[i], Ends(items, i - 1, text), text)
    BY EndsSteps
  <1>2. 0 \in S
    <2>1. 0 >= n => n = 0
      OBVIOUS
    <2> QED
      BY <2>1
  <1>3. ASSUME NEW i \in 1..N, i - 1 \in S PROVE i \in S
    <2>1. CASE i <= n
      <3>1. i >= n => i = n
        BY <2>1
      <3> QED
        BY <3>1
    <2>2. CASE i > n
      <3>1. i - 1 >= n /\ Ends(items, i - 1, text) = {}
        BY <1>3, <2>2
      <3>2. Onward(items[i], {}, text) = {}
        BY DEF Onward
      <3>3. Ends(items, i, text) = Onward(items[i], Ends(items, i - 1, text), text)
        BY <1>1
      <3>4. Ends(items, i, text) = {}
        BY <3>1, <3>2, <3>3
      <3> QED
        BY <3>4
    <2> QED
      BY <2>1, <2>2
  <1> HIDE DEF S
  <1>4. 0..N \subseteq S
    BY <1>2, <1>3, BoundedInduction
  <1> QED
    BY <1>4 DEF S

\* After a part of a numeral no literal follows that is not a digit.
LEMMA DigitStops ==
    ASSUME NEW item \in GoodItems, Stops(item), NEW text \in Words,
           NEW r \in 0..Len(text), r < Len(text), text[r + 1] \in Digits
    PROVE  After(item, r, text) = {}
  <1>1. Len(text) \in Nat /\ r \in Nat
    BY DEF Words
  <1>2. item.visit = "sequence" /\ item.must /\ item.arg[1] \notin Digits
    BY DEF Stops
  <1>3. item.arg \in Words /\ Len(item.arg) >= 1
    <2>1. item.arg \in Words /\ item.arg # << >>
      BY <1>2, GoodKinds
    <2> QED
      BY <2>1, EmptySeq DEF Words
  <1>4. Skip(text, r) = r
    <2>1. Blanks(text, r, r)
      BY <1>1 DEF Blanks
    <2>2. text[r + 1] \notin Blank
      BY CharacterClasses
    <2> QED
      BY <1>1, <2>1, <2>2, SkipUnique
  <1>5. ~AtFront(item.arg, text, r)
    <2> SUFFICES ASSUME AtFront(item.arg, text, r) PROVE FALSE
      OBVIOUS
    <2>1. \A j \in 1..Len(item.arg) : text[r + j] = item.arg[j]
      BY <1>1, <1>3, AtFrontIs
    <2>2. 1 \in 1..Len(item.arg)
      BY <1>3 DEF Words
    <2>3. text[r + 1] = item.arg[1]
      BY <2>1, <2>2
    <2> QED
      BY <1>2, <2>3
  <1>6. Here(item, r, text) = {}
    BY <1>2, <1>4, <1>5, LiteralHere
  <1>7. item.visit # "line" /\ item.must
    BY <1>2
  <1>8. After(item, r, text) = Here(item, r, text)
    BY <1>7, AfterIsHere
  <1> QED
    BY <1>6, <1>8

\* A line that is followed by a CRLF ends with the one that is read, blanks aside.
LEMMA LineStops ==
    ASSUME NEW item \in GoodItems, item.visit = "line", NEW text \in Words,
           NEW c \in 0..Len(text), NEW p \in 0..Len(text), Covers(item, p, c, text),
           NEW r \in After(item, p, text)
    PROVE  \/ After(Must(CrLf), r, text) = {}
           \/ /\ Visit(item, text, c).ok
              /\ Skip(text, r) = Skip(text, Visit(item, text, c).at)
  <1> DEFINE v == Visit(item, text, c)
             e == LineEnd(text, c)
             k == Skip(text, r)
  <1>1. Len(text) \in Nat /\ c \in Nat /\ p \in Nat /\ item.arg \in Nat /\ item.arg > 0
    BY GoodKinds DEF Words
  <1>2. /\ r \in p..Len(text) /\ r - p \in 1..item.arg
        /\ \A i \in p..(r - 2) : ~AtFront(CrLf, text, i)
    BY LineAfter
  <1>3. r \in Nat /\ p < r /\ r <= p + item.arg /\ r \in 0..Len(text)
    BY <1>1, <1>2
  <1>4. k \in r..Len(text) /\ k \in Nat /\ Blanks(text, r, k)
    BY <1>1, <1>3, SkipIs
  <1>5. /\ Skip(text, p) = Skip(text, c)
        /\ p <= c /\ (p < c => ~AtFront(CrLf, text, c))
    BY DEF Covers
  <1>6. /\ Blanks(text, p, Skip(text, p)) /\ Skip(text, c) \in c..Len(text)
    BY SkipIs
  <1>7. /\ e \in c..Len(text)
        /\ \A i \in c..(e - 1) : ~AtFront(CrLf, text, i)
        /\ e < Len(text) => AtFront(CrLf, text, e)
    BY LineEndIs
  <1>8. v.at \in c..e /\ v.at <= c + item.arg /\ v.at \in {e, c + item.arg} /\ (v.ok <=> v.at # c)
    BY LineVisit
  <1> HIDE DEF e, k, v
  <1>9. CASE ~AtFront(CrLf, text, k)
    <2> DEFINE m == Must(CrLf)
    <2>1. m \in GoodItems /\ m.visit = "sequence" /\ m.must /\ m.arg = CrLf
      BY PackLiterals DEF GoodItems, Must
    <2> HIDE DEF m
    <2>2. Here(m, r, text) = {}
      BY <1>3, <1>9, <2>1, LiteralHere DEF k
    <2>3. m.visit # "line"
      BY <2>1
    <2>4. After(m, r, text) = Here(m, r, text)
      BY <1>3, <2>1, <2>3, AfterIsHere
    <2> QED
      BY <2>2, <2>4 DEF m
  <1>10. CASE AtFront(CrLf, text, k)
    <2>1. k + 2 <= Len(text) /\ text[k + 1] = "\r" /\ text[k + 2] = "\n"
      BY <1>4, <1>10, CrLfAtFront
    <2>2. c < k
      <3>1. CASE p = c
        BY <1>1, <1>3, <1>4, <3>1
      <3>2. CASE p < c
        <4>1. k # c
          BY <1>5, <1>10, <3>2
        <4>2. ~(k < c)
          <5> SUFFICES ASSUME k < c PROVE FALSE
            OBVIOUS
          <5>1. k \in p..(Skip(text, p) - 1)
            BY <1>1, <1>3, <1>4, <1>5, <1>6
          <5>2. text[k + 1] \in Blank
            BY <1>6, <5>1 DEF Blanks
          <5> QED
            BY <2>1, <5>2, CharacterClasses
        <4> QED
          BY <1>1, <1>4, <4>1, <4>2
      <3> QED
        BY <1>1, <1>5, <3>1, <3>2
    <2>3. ~(k < e)
      <3> SUFFICES ASSUME k < e PROVE FALSE
        OBVIOUS
      <3>1. k \in c..(e - 1)
        BY <1>1, <1>4, <1>7, <2>2
      <3> QED
        BY <1>7, <1>10, <3>1
    <2>4. ~(e < k)
      <3> SUFFICES ASSUME e < k PROVE FALSE
        OBVIOUS
      <3>1. e \in Nat /\ c <= e /\ e < Len(text)
        BY <1>1, <1>4, <1>7, <2>1
      <3>2. AtFront(CrLf, text, e)
        BY <1>7, <3>1
      <3>3. text[e + 1] = "\r" /\ text[e + 2] = "\n"
        BY <3>1, <3>2, CrLfAtFront
      <3>4. CASE e < r - 1
        <4>1. e \in p..(r - 2)
          BY <1>1, <1>3, <1>5, <3>1, <3>4
        <4> QED
          BY <1>2, <3>2, <4>1
      <3>5. CASE e = r - 1
        <4>1. r + 1 = e + 2
          BY <1>3, <3>5
        <4>2. text[r + 1] = "\n"
          BY <3>3, <4>1
        <4>3. CASE r = k
          BY <2>1, <4>2, <4>3, CharacterClasses
        <4>4. CASE r < k
          <5>1. r \in r..(k - 1)
            BY <1>3, <1>4, <4>4
          <5>2. text[r + 1] \in Blank
            BY <1>4, <5>1 DEF Blanks
          <5> QED
            BY <4>2, <5>2, CharacterClasses
        <4> QED
          BY <1>3, <1>4, <4>3, <4>4
      <3>6. CASE e >= r
        <4>1. e \in r..(k - 1)
          BY <1>3, <1>4, <3>1, <3>6
        <4>2. text[e + 1] \in Blank
          BY <1>4, <4>1 DEF Blanks
        <4> QED
          BY <3>3, <4>2, CharacterClasses
      <3> QED
        BY <1>3, <3>1, <3>4, <3>5, <3>6
    <2>5. e = k
      BY <1>1, <1>4, <1>7, <2>3, <2>4
    <2>6. v.at \in Nat /\ v.at # c /\ r <= v.at /\ v.at <= k
      BY <1>1, <1>3, <1>4, <1>5, <1>8, <2>2, <2>5
    <2>7. v.at \in r..k
      BY <1>3, <1>4, <2>6
    <2>8. Skip(text, v.at) = Skip(text, r)
      BY <1>3, <2>7, SkipAmongBlanks DEF k
    <2> QED
      BY <1>8, <2>6, <2>8 DEF v
  <1> QED
    BY <1>9, <1>10

\* From the same place an item ends in the same places.
LEMMA CoversHere ==
    ASSUME NEW item \in GoodItems, item.visit # "line", item.must, NEW text \in Words,
           NEW c \in 0..Len(text), NEW p \in 0..Len(text), Covers(item, p, c, text)
    PROVE  After(item, p, text) \subseteq Here(item, c, text)
  <1>1. After(item, p, text) = Here(item, p, text)
    BY AfterIsHere
  <1>2. CASE Skip(text, p) = Skip(text, c)
    <2>1. Here(item, p, text) = Here(item, c, text)
      BY <1>2 DEF Here
    <2> QED
      BY <1>1, <2>1
  <1>3. CASE Skip(text, p) # Skip(text, c)
    BY <1>3 DEF Covers
  <1> QED
    BY <1>2, <1>3

\* One visit further the cursor still stands for every way that can go on: r is
\* where the visited item may end, `follower' the item after it.
LEMMA CoverLiteral ==
    ASSUME NEW item \in GoodItems, item.visit = "sequence", NEW text \in Words,
           NEW c \in 0..Len(text), NEW p \in 0..Len(text), Covers(item, p, c, text),
           NEW follower, follower.visit = "line" => item = May(CrLf),
           NEW r \in After(item, p, text)
    PROVE  LET v == Visit(item, text, c)
           IN  (v.ok \/ ~item.must) /\ Covers(follower, r, v.at, text)
  <1> DEFINE v == Visit(item, text, c)
             q == Skip(text, c)
             front == AtFront(item.arg, text, q)
  <1>1. Len(text) \in Nat /\ c \in Nat /\ p \in Nat /\ item.arg # << >>
    BY GoodKinds DEF Words
  <1>2. q \in c..Len(text) /\ q \in 0..Len(text) /\ Skip(text, p) = q
    <2>1. q \in c..Len(text)
      BY SkipIs
    <2>2. Skip(text, p) = q
      BY DEF Covers
    <2> QED
      BY <1>1, <2>1, <2>2
  <1>3. v = IF item.arg # << >> /\ front THEN Result(TRUE, q + Len(item.arg), << >>)
                                         ELSE Result(FALSE, q, << >>)
    BY DEF Visit, VisitSequence
  <1>4. Here(item, p, text) = IF front THEN {q + Len(item.arg)} ELSE {}
    BY <1>2, LiteralHere
  <1>5. /\ Here(item, p, text) # {} \/ item.must => After(item, p, text) = Here(item, p, text)
        /\ Here(item, p, text) = {} /\ ~item.must => After(item, p, text) = p..q
    BY <1>2, AfterIsHere
  <1> HIDE DEF v, q
  <1>6. CASE front
    <2> HIDE DEF front
    <2>1. v.ok = TRUE /\ v.at = q + Len(item.arg)
      BY <1>1, <1>3, <1>6 DEF Result
    <2>2. r = v.at
      BY <1>4, <1>5, <1>6, <2>1
    <2>3. r \in Nat
      BY <1>1, AfterRange
    <2>4. Covers(follower, r, v.at, text)
      BY <2>2, <2>3 DEF Covers
    <2> QED
      BY <2>1, <2>4 DEF v
  <1>7. CASE ~front
    <2>1. v.at = q /\ ~item.must /\ After(item, p, text) = p..q
      <3> HIDE DEF front
      <3>1. v.at = q
        BY <1>3, <1>7 DEF Result
      <3>2. Here(item, p, text) = {}
        BY <1>4, <1>7
      <3>3. ~item.must
        BY <1>5, <3>2
      <3> QED
        BY <1>5, <3>1, <3>2, <3>3
    <2>2. r \in p..q
      BY <2>1
    <2>3. Skip(text, r) = q
      <3>1. r \in p..Skip(text, p)
        BY <1>2, <2>2
      <3> QED
        BY <1>2, <3>1, SkipAmongBlanks
    <2>4. Skip(text, q) = q
      <3>1. q \in c..q
        BY <1>1, <1>2
      <3> QED
        BY <3>1, SkipAmongBlanks DEF q
    <2>5. r <= q
      BY <1>1, <1>2, <2>2
    <2>6. follower.visit = "line" => ~AtFront(CrLf, text, q)
      <3>1. May(CrLf).arg = CrLf
        BY DEF May, Must
      <3> QED
        BY <1>7, <3>1
    <2>7. Covers(follower, r, q, text)
      BY <2>3, <2>4, <2>5, <2>6 DEF Covers
    <2> QED
      BY <2>1, <2>7 DEF v
  <1> QED
    BY <1>6, <1>7

LEMMA CoverName ==
    ASSUME NEW item \in GoodItems, item.visit = "name", NEW text \in Words,
           NEW c \in 0..Len(text), NEW p \in 0..Len(text), Covers(item, p, c, text),
           NEW r \in After(item, p, text)
    PROVE  Visit(item, text, c).ok /\ r = Visit(item, text, c).at
  <1> DEFINE v == Visit(item, text, c)
             q == Skip(text, c)
             found == {i \in DOMAIN item.arg : AtFront(<<item.arg[i]>>, text, q)}
  <1>1. v = IF found # {} THEN Result(TRUE, q + 1, <<item.arg[Least(found)]>>)
                          ELSE Result(FALSE, q, << >>)
    BY DEF Visit, VisitName
  <1>2. Here(item, c, text) = IF found # {} THEN {q + 1} ELSE {}
    BY NameHere
  <1>3. r \in Here(item, c, text)
    BY CoversHere, GoodKinds
  <1> HIDE DEF v, q, found
  <1>4. found # {} /\ r = q + 1
    BY <1>2, <1>3
  <1>5. v.ok = TRUE /\ v.at = q + 1
    BY <1>1, <1>4 DEF Result
  <1> QED
    BY <1>4, <1>5 DEF v

LEMMA CoverQuoted ==
    ASSUME NEW item \in GoodItems, item.visit = "quoted", NEW text \in Words,
           NEW c \in 0..Len(text), NEW p \in 0..Len(text), Covers(item, p, c, text),
           NEW r \in After(item, p, text)
    PROVE  Visit(item, text, c).ok /\ r = Visit(item, text, c).at
  <1>1. r \in Here(item, c, text)
    BY CoversHere, GoodKinds
  <1>2. Visit(item, text, c).ok = TRUE /\ \A s \in Here(item, c, text) : Visit(item, text, c).at = s
    BY QuotedHere
  <1> QED
    BY <1>1, <1>2

LEMMA CoverNumber ==
    ASSUME NEW item \in GoodItems, item.visit \in {"int", "number"}, NEW text \in Words,
           NEW c \in 0..Len(text), NEW p \in 0..Len(text), Covers(item, p, c, text),
           NEW follower \in GoodItems, Stops(follower), NEW r \in After(item, p, text)
    PROVE  \/ After(follower, r, text) = {}
           \/ Visit(item, text, c).ok /\ r = Visit(item, text, c).at
  <1> DEFINE v == Visit(item, text, c)
             q == Skip(text, c)
             e == NumeralEnd(text, q)
  <1>1. r \in Here(item, c, text)
    BY CoversHere, GoodKinds
  <1>2. /\ e \in q..Len(text) /\ v.ok \in BOOLEAN
        /\ v.ok <=> e \in Here(item, c, text)
        /\ v.at = IF v.ok THEN e ELSE q
        /\ r <= e /\ (r < e => text[r + 1] \in Digits)
    BY <1>1, NumberHere
  <1>3. Len(text) \in Nat /\ r \in Nat /\ q \in Nat /\ r <= Len(text)
    BY <1>1, HereRange DEF Words
  <1> HIDE DEF v, q, e
  <1>4. CASE r = e
    <2>1. v.ok /\ v.at = r
      BY <1>1, <1>2, <1>4
    <2> QED
      BY <2>1 DEF v
  <1>5. CASE r # e
    <2>1. r < e /\ r < Len(text) /\ r \in 0..Len(text)
      BY <1>2, <1>3, <1>5
    <2>2. text[r + 1] \in Digits
      BY <1>2, <2>1
    <2> QED
      BY <2>1, <2>2, DigitStops
  <1> QED
    BY <1>4, <1>5

Goes(item, text, c) == Visit(item, text, c).ok \/ ~item.must

\* What the four of them say, for the items of a packet.
LEMMA CoverItem ==
    ASSUME NEW items, WellFormed(items), NEW n \in Nat, n + 1 \in 1..Len(items),
           NEW text \in Words, NEW c \in 0..Len(text), NEW p \in 0..Len(text),
           Covers(items[n + 1], p, c, text), NEW r \in After(items[n + 1], p, text)
    PROVE  /\ n + 2 \in 1..Len(items) =>
                 \/ After(items[n + 2], r, text) = {}
                 \/ /\ Goes(items[n + 1], text, c)
                    /\ Covers(items[n + 2], r, Visit(items[n + 1], text, c).at, text)
           /\ n + 2 \notin 1..Len(items) => Goes(items[n + 1], text, c)
  <1> DEFINE item == items[n + 1]
             follower == items[n + 2]
             inside == n + 2 \in 1..Len(items)
             v == Visit(item, text, c)
  <1>1. item \in GoodItems /\ (inside => follower \in GoodItems)
    BY DEF WellFormed
  <1>2. (n + 1) + 1 = n + 2 /\ (n + 2) - 1 = n + 1
    OBVIOUS
  <1>3. /\ item.visit \in {"int", "number"} => inside /\ Stops(follower)
        /\ item.visit = "line" => inside /\ follower = Must(CrLf)
    BY <1>2 DEF WellFormed
  <1>4. inside => (follower.visit = "line" => item = May(CrLf))
    BY <1>2 DEF WellFormed
  <1>5. Covers(item, p, c, text) /\ r \in After(item, p, text)
    OBVIOUS
  <1>6. r \in Nat
    BY AfterRange DEF Words
  <1> HIDE DEF item, follower, inside, v
  <1>7. ASSUME v.ok, r = v.at, inside
        PROVE  Goes(item, text, c) /\ Covers(follower, r, v.at, text)
    <2>1. Covers(follower, r, v.at, text)
      BY <1>6, <1>7 DEF Covers
    <2> QED
      BY <1>7, <2>1 DEF Goes, v
  <1>8. /\ inside => \/ After(follower, r, text) = {}
                     \/ Goes(item, text, c) /\ Covers(follower, r, v.at, text)
        /\ ~inside => Goes(item, text, c)
    <2>1. CASE item.visit = "sequence"
      <3>1. CASE inside
        <4>1. (v.ok \/ ~item.must) /\ Covers(follower, r, v.at, text)
          BY <1>1, <1>4, <1>5, <2>1, <3>1, CoverLiteral DEF v
        <4> QED
          BY <3>1, <4>1 DEF Goes, v
      <3>2. CASE ~inside
        <4> DEFINE any == May(CrLf)
        <4>1. any.visit # "line"
          BY DEF May, Must
        <4> HIDE DEF any
        <4>2. v.ok \/ ~item.must
          BY <1>1, <1>5, <2>1, <4>1, CoverLiteral DEF v
        <4> QED
          BY <3>2, <4>2 DEF Goes, v
      <3> QED
        BY <3>1, <3>2
    <2>2. CASE item.visit = "name"
      <3>1. v.ok /\ r = v.at
        BY <1>1, <1>5, <2>2, CoverName DEF v
      <3> QED
        BY <1>7, <3>1 DEF Goes, v
    <2>3. CASE item.visit = "quoted"
      <3>1. v.ok /\ r = v.at
        BY <1>1, <1>5, <2>3, CoverQuoted DEF v
      <3> QED
        BY <1>7, <3>1 DEF Goes, v
    <2>4. CASE item.visit \in {"int", "number"}
      <3>1. inside /\ Stops(follower) /\ follower \in GoodItems
        BY <1>1, <1>3, <2>4
      <3>2. After(follower, r, text) = {} \/ (v.ok /\ r = v.at)
        BY <1>1, <1>5, <2>4, <3>1, CoverNumber DEF v
      <3> QED
        BY <1>7, <3>1, <3>2
    <2>5. CASE item.visit = "line"
      <3>1. inside /\ follower = Must(CrLf)
        BY <1>3, <2>5
      <3>2. After(follower, r, text) = {} \/ (v.ok /\ Skip(text, r) = Skip(text, v.at))
        BY <1>1, <1>5, <2>5, <3>1, LineStops DEF v
      <3>3. follower.visit # "line"
        BY <3>1 DEF Must
      <3> QED
        BY <3>1, <3>2, <3>3 DEF Covers, Goes, v
    <2> QED
      BY <1>1, <2>1, <2>2, <2>3, <2>4, <2>5, GoodKinds
  <1> QED
    BY <1>8 DEF item, follower, inside, v

LEMMA CoverStep ==
    ASSUME NEW items, WellFormed(items), NEW n \in Nat, n + 1 \in 1..Len(items),
           NEW text \in Words, NEW c \in 0..Len(text), Covered(items, n, c, text)
    PROVE  /\ Goes(items[n + 1], text, c) =>
                 Covered(items, n + 1, Visit(items[n + 1], text, c).at, text)
           /\ ~Goes(items[n + 1], text, c) => Ends(items, Len(items), text) = {}
  <1> DEFINE N == Len(items)
             item == items[n + 1]
             follower == items[n + 2]
             v == Visit(item, text, c)
             S == Ends(items, n, text)
             T == Ends(items, n + 1, text)
  <1>1. N \in Nat
    BY DEF WellFormed
  <1>2. /\ n + 1 \in 1..N /\ n + 1 \in 0..N /\ (n + 1) + 1 = n + 2 /\ (n + 2) - 1 = n + 1
        /\ (n + 1) - 1 = n /\ n \in 0..N
    BY <1>1
  <1>3. /\ \A i \in 1..N : Ends(items, i, text) = Onward(items[i], Ends(items, i - 1, text), text)
        /\ \A i \in 0..N : Ends(items, i, text) \subseteq 0..Len(text)
    BY <1>1, EndsSteps
  <1>4. T = Onward(item, S, text) /\ S \subseteq 0..Len(text)
    BY <1>2, <1>3
  <1>5. \A p \in S : Covers(item, p, c, text)
    BY <1>2 DEF Covered
  <1>6. n + 2 \in 1..N => Ends(items, n + 2, text) = Onward(follower, T, text)
    BY <1>2, <1>3
  <1> HIDE DEF N, S, T
  <1>7. ASSUME NEW r \in T
        PROVE  /\ n + 2 \in 1..N =>
                     \/ After(follower, r, text) = {}
                     \/ Goes(item, text, c) /\ Covers(follower, r, v.at, text)
               /\ n + 2 \notin 1..N => Goes(item, text, c)
    <2>1. PICK p \in S : r \in After(item, p, text)
      BY <1>4 DEF Onward
    <2>2. p \in 0..Len(text) /\ Covers(item, p, c, text)
      BY <1>4, <1>5
    <2> QED
      BY <1>2, <2>1, <2>2, CoverItem DEF N
  <1> HIDE DEF item, follower, v
  <1>8. ASSUME Goes(item, text, c) PROVE Covered(items, n + 1, v.at, text)
    <2> SUFFICES ASSUME n + 2 \in 1..N, NEW r \in T PROVE Covers(follower, r, v.at, text)
      BY <1>2 DEF Covered, N, T, follower
    <2>1. After(follower, r, text) = {} \/ Covers(follower, r, v.at, text)
      BY <1>7
    <2> QED
      BY <2>1 DEF Covers
  <1>9. ASSUME ~Goes(item, text, c) PROVE Ends(items, N, text) = {}
    <2>1. CASE n + 2 \in 1..N
      <3>1. \A r \in T : After(follower, r, text) = {}
        BY <1>7, <1>9, <2>1
      <3>2. Ends(items, n + 2, text) = {}
        BY <1>6, <2>1, <3>1 DEF Onward
      <3>3. n + 2 \in 0..N
        BY <2>1
      <3> QED
        BY <1>1, <3>2, <3>3, NoEnd
    <2>2. CASE n + 2 \notin 1..N
      <3>1. T = {}
        BY <1>7, <1>9, <2>2
      <3> QED
        BY <1>1, <1>2, <3>1, NoEnd DEF T
    <2> QED
      BY <2>1, <2>2
  <1> QED
    BY <1>8, <1>9 DEF N, item, v

-----------------------------------------------------------------------------
(* The parser.                                                                *)

Phases == {"idle", "trying", "failed", "matched", "none", "threw"}

ParseTypes ==
    /\ pack \in DOMAIN PackOf /\ input \in Words /\ length \in Nat
    /\ alt \in 1..Len(Alternatives) /\ phase \in Phases
    /\ phase = "trying" => step \in 1..(Len(OnTrial) + 1)
    /\ phase # "idle" => input # << >>
    /\ phase \in {"idle", "failed", "none"} => length <= Len(input)

\* Unless a quoted field is due where none fits: the cursor is at an end of the
\* items visited and stands for the others; no alternative before the one on
\* trial has a sentence the text begins with.
Verdicts ==
    ~IllQuoted(input) =>
        /\ phase # "threw"
        /\ phase = "trying" =>
              length \in Ends(OnTrial, step - 1, input) /\ Covered(OnTrial, step - 1, length, input)
        /\ phase = "matched" => length \in SentenceEnds(alt, input)
        /\ phase \in {"trying", "failed", "matched"} =>
              \A a \in 1..(alt - 1) : SentenceEnds(a, input) = {}
        /\ phase = "failed" => SentenceEnds(alt, input) = {}
        /\ phase = "none" => \A a \in DOMAIN Alternatives : SentenceEnds(a, input) = {}

Held == phase = "matched" => value = [alt |-> alt, fields |-> fields]

ParseInv == ParseTypes /\ Verdicts /\ Held

LEMMA Packs ==
    ASSUME ParseTypes
    PROVE  /\ Len(Alternatives) \in Nat /\ Len(Alternatives) >= 1
           /\ DOMAIN Alternatives = 1..Len(Alternatives)
           /\ \A a \in 1..Len(Alternatives) : WellFormed(Alternatives[a])
           /\ WellFormed(OnTrial) /\ Len(OnTrial) \in Nat
  <1>1. Alternatives \in Seq(WellFormedPackets) /\ Len(Alternatives) >= 1
    BY PacksWellFormed DEF ParseTypes, Alternatives
  <1> HIDE DEF Alternatives
  <1>2. /\ Len(Alternatives) \in Nat /\ DOMAIN Alternatives = 1..Len(Alternatives)
        /\ \A a \in 1..Len(Alternatives) : Alternatives[a] \in WellFormedPackets
    BY <1>1
  <1>3. \A a \in 1..Len(Alternatives) : WellFormed(Alternatives[a])
    BY <1>2 DEF WellFormedPackets
  <1>4. WellFormed(OnTrial)
    BY <1>3 DEF ParseTypes, OnTrial
  <1>5. Len(OnTrial) \in Nat
    BY <1>4 DEF WellFormed
  <1> QED
    BY <1>1, <1>2, <1>3, <1>4, <1>5

\* What the modem sends and what is left of a text are texts.
LEMMA ReceivedWords ==
    ASSUME pack \in DOMAIN PackOf, NEW c \in Chunks[pack]
    PROVE  c \in Words
  <1>1. c \in Seq(STRING)
    BY ResponsePackAssumption
  <1>2. STRING \subseteq Chars
    BY DEF Chars
  <1>3. \A X, Y : X \subseteq Y => Seq(X) \subseteq Seq(Y)
    OBVIOUS
  <1> HIDE DEF Chars
  <1> QED
    BY <1>1, <1>2, <1>3 DEF Words

LEMMA RestWord ==
    ASSUME NEW text \in Words, NEW p \in Nat
    PROVE  Rest(text, p) \in Words
  <1>1. text \in Seq(Chars) /\ Len(text) \in Nat
    BY DEF Words
  <1>2. CASE p <= Len(text)
    BY <1>1, <1>2, CutOut DEF Rest
  <1>3. CASE p > Len(text)
    <2>1. SubSeq(text, p + 1, Len(text)) = << >>
      BY <1>1, <1>3
    <2> QED
      BY <2>1 DEF Rest, Words
  <1> QED
    BY <1>1, <1>2, <1>3

LEMMA ParseInvInit ==
    ASSUME PackInit
    PROVE  ParseInv
  <1>1. pack \in DOMAIN PackOf /\ input = << >> /\ phase = "idle" /\ alt = 1 /\ length = 0
    BY DEF PackInit
  <1>2. input \in Words /\ Len(input) = 0 /\ length \in Nat
    BY <1>1 DEF Words
  <1>3. Len(Alternatives) \in Nat /\ Len(Alternatives) >= 1
    <2>1. Alternatives \in Seq(WellFormedPackets) /\ Len(Alternatives) >= 1
      BY <1>1, PacksWellFormed DEF Alternatives
    <2> HIDE DEF Alternatives
    <2> QED
      BY <2>1
  <1>4. alt \in 1..Len(Alternatives)
    BY <1>1, <1>3
  <1>5. ParseTypes
    BY <1>1, <1>2, <1>4 DEF ParseTypes, Phases
  <1>6. Verdicts /\ Held
    BY <1>1 DEF Verdicts, Held
  <1> QED
    BY <1>5, <1>6 DEF ParseInv

\* A text that grows or is cut, a pack that waits.
LEMMA IdleStep ==
    ASSUME ParseTypes, pack' = pack, phase' = "idle", input' \in Words,
           length' \in Nat, length' <= Len(input'), alt' \in 1..Len(Alternatives)
    PROVE  ParseInv'
  <1>1. Alternatives' = Alternatives
    BY DEF Alternatives
  <1>2. ParseTypes'
    BY <1>1 DEF ParseTypes, Phases
  <1>3. Verdicts' /\ Held'
    BY DEF Verdicts, Held
  <1> QED
    BY <1>2, <1>3 DEF ParseInv

LEMMA ReceiveStep ==
    ASSUME ParseInv, Receive
    PROVE  ParseInv'
  <1>1. ParseTypes
    BY DEF ParseInv
  <1>2. PICK c \in Chunks[pack] : input' = input \o c
    BY DEF Receive
  <1>3. /\ pack' = pack /\ phase' = "idle" /\ length' = length /\ alt' = alt
        /\ phase \in {"idle", "none"}
    BY DEF Receive
  <1>4. c \in Words /\ input \in Words /\ length \in Nat /\ length <= Len(input)
    BY <1>1, <1>3, ReceivedWords DEF ParseTypes
  <1>5. input' \in Words /\ Len(input') = Len(input) + Len(c)
    BY <1>2, <1>4, ConcatWords
  <1>6. Len(input) \in Nat /\ Len(c) \in Nat
    BY <1>4 DEF Words
  <1>7. length' <= Len(input')
    BY <1>3, <1>4, <1>5, <1>6
  <1> QED
    BY <1>1, <1>3, <1>4, <1>5, <1>7, IdleStep DEF ParseTypes

LEMMA TransmitStep ==
    ASSUME ParseInv, WriteInv, Transmit
    PROVE  ParseInv'
  <1>1. ParseTypes /\ out \in Words
    BY DEF ParseInv, WriteInv
  <1>2. /\ input' = out /\ pack' = pack /\ phase' = phase /\ length' = length /\ alt' = alt
        /\ input = << >>
    BY DEF Transmit
  <1>3. phase = "idle"
    BY <1>1, <1>2 DEF ParseTypes
  <1>4. length \in Nat /\ length <= 0 /\ Len(out) \in Nat
    BY <1>1, <1>2, <1>3 DEF ParseTypes, Words
  <1>5. length' <= Len(input')
    BY <1>2, <1>4
  <1> QED
    BY <1>1, <1>2, <1>3, <1>5, IdleStep DEF ParseTypes

LEMMA ResetStep ==
    ASSUME ParseInv, Reset
    PROVE  ParseInv'
  <1>1. ParseTypes
    BY DEF ParseInv
  <1>2. /\ pack' = pack /\ phase' = "idle" /\ length' = 0 /\ alt' = 1
        /\ input' = Rest(input, length)
    BY DEF Reset
  <1>3. input' \in Words
    BY <1>1, <1>2, RestWord DEF ParseTypes
  <1>4. 1 \in 1..Len(Alternatives)
    BY <1>1, Packs
  <1>5. Len(input') \in Nat
    BY <1>3 DEF Words
  <1> QED
    BY <1>1, <1>2, <1>3, <1>4, <1>5, IdleStep

\* With its pack and its text a state keeps what is said of them.
LEMMA SameText ==
    ASSUME pack' = pack, input' = input
    PROVE  /\ Alternatives' = Alternatives
           /\ IllQuoted(input)' <=> IllQuoted(input)
           /\ \A a : SentenceEnds(a, input)' = SentenceEnds(a, input)
  BY DEF Alternatives, IllQuoted, SentenceEnds

LEMMA BeginStep ==
    ASSUME ParseInv, NEW a \in 1..Len(Alternatives), Begin(a), input # << >>,
           ~IllQuoted(input) => \A b \in 1..(a - 1) : SentenceEnds(b, input) = {}
    PROVE  ParseInv'
  <1>1. ParseTypes
    BY DEF ParseInv
  <1>2. /\ pack' = pack /\ input' = input /\ phase' = "trying" /\ length' = 0
        /\ alt' = a /\ step' = 1
    BY DEF Begin, Rewind
  <1>3. /\ Alternatives' = Alternatives /\ (IllQuoted(input)' <=> IllQuoted(input))
        /\ \A b : SentenceEnds(b, input)' = SentenceEnds(b, input)
    BY <1>2, SameText
  <1> DEFINE items == Alternatives[a]
  <1>4. OnTrial' = items
    BY <1>2, <1>3 DEF OnTrial
  <1>5. WellFormed(items) /\ Len(items) \in Nat
    BY <1>1, Packs DEF WellFormed
  <1> HIDE DEF items
  <1>6. ParseTypes'
    <2>1. step' \in 1..(Len(items) + 1)
      BY <1>2, <1>5
    <2> QED
      BY <1>1, <1>2, <1>3, <1>4, <2>1 DEF ParseTypes, Phases
  <1>7. Ends(items, 0, input) = {0}
    BY <1>1, <1>5, EndsSteps DEF ParseTypes
  <1>8. Covered(items, 0, 0, input)
    <2> SUFFICES ASSUME NEW p \in Ends(items, 0, input), NEW item PROVE Covers(item, p, 0, input)
      BY DEF Covered
    <2>1. p = 0
      BY <1>7
    <2> QED
      BY <2>1 DEF Covers
  <1>9. Verdicts'
    <2>1. step' - 1 = 0
      BY <1>2
    <2>2. ASSUME ~IllQuoted(input) PROVE \A b \in 1..(alt' - 1) : SentenceEnds(b, input)' = {}
      BY <1>2, <1>3, <2>2
    <2> QED
      BY <1>2, <1>3, <1>4, <1>7, <1>8, <2>1, <2>2 DEF Verdicts
  <1>10. Held'
    BY <1>2 DEF Held
  <1> QED
    BY <1>6, <1>9, <1>10 DEF ParseInv

LEMMA TryFirstStep ==
    ASSUME ParseInv, TryFirst
    PROVE  ParseInv'
  <1>1. 1 \in 1..Len(Alternatives) /\ Begin(1) /\ input # << >>
    BY Packs DEF TryFirst, ParseInv
  <1>2. \A b \in 1..(1 - 1) : SentenceEnds(b, input) = {}
    OBVIOUS
  <1> QED
    BY <1>1, <1>2, BeginStep

LEMMA TryNextStep ==
    ASSUME ParseInv, TryNext
    PROVE  ParseInv'
  <1>1. phase = "failed" /\ alt < Len(Alternatives) /\ Begin(alt + 1)
    BY DEF TryNext
  <1>2. Len(Alternatives) \in Nat /\ alt \in 1..Len(Alternatives) /\ input # << >>
    BY <1>1, Packs DEF ParseInv, ParseTypes
  <1>3. alt + 1 \in 1..Len(Alternatives)
    BY <1>1, <1>2
  <1>4. ASSUME ~IllQuoted(input), NEW b \in 1..((alt + 1) - 1) PROVE SentenceEnds(b, input) = {}
    <2>1. b = alt \/ b \in 1..(alt - 1)
      BY <1>2
    <2> QED
      BY <1>1, <1>4, <2>1 DEF ParseInv, Verdicts
  <1> QED
    BY <1>1, <1>2, <1>3, <1>4, BeginStep

LEMMA GiveUpStep ==
    ASSUME ParseInv, GiveUp
    PROVE  ParseInv'
  <1>1. /\ phase = "failed" /\ alt = Len(Alternatives) /\ phase' = "none"
        /\ pack' = pack /\ input' = input /\ length' = length /\ alt' = alt
    BY DEF GiveUp
  <1>2. /\ Alternatives' = Alternatives /\ (IllQuoted(input)' <=> IllQuoted(input))
        /\ \A b : SentenceEnds(b, input)' = SentenceEnds(b, input)
    BY <1>1, SameText
  <1>3. ParseTypes'
    BY <1>1, <1>2 DEF ParseInv, ParseTypes, Phases
  <1>4. Len(Alternatives) \in Nat /\ DOMAIN Alternatives = 1..Len(Alternatives)
    BY Packs DEF ParseInv
  <1>5. ASSUME ~IllQuoted(input), NEW a \in DOMAIN Alternatives PROVE SentenceEnds(a, input) = {}
    <2>1. a = alt \/ a \in 1..(alt - 1)
      BY <1>1, <1>4
    <2> QED
      BY <1>1, <1>5, <2>1 DEF ParseInv, Verdicts
  <1>6. Verdicts' /\ Held'
    BY <1>1, <1>2, <1>5 DEF Verdicts, Held
  <1> QED
    BY <1>3, <1>6 DEF ParseInv

LEMMA ThrowStep ==
    ASSUME ParseInv, Throw
    PROVE  ParseInv'
  <1>1. /\ phase = "trying" /\ step <= Len(OnTrial) /\ length > Len(input) /\ phase' = "threw"
        /\ pack' = pack /\ input' = input /\ length' = length /\ alt' = alt
    BY DEF Throw
  <1>2. ParseTypes /\ Verdicts
    BY DEF ParseInv
  <1>3. Alternatives' = Alternatives /\ (IllQuoted(input)' <=> IllQuoted(input))
    BY <1>1, SameText
  <1>4. ParseTypes'
    BY <1>1, <1>2, <1>3 DEF ParseTypes, Phases
  <1>5. IllQuoted(input)
    <2> SUFFICES ASSUME ~IllQuoted(input) PROVE FALSE
      OBVIOUS
    <2>1. length \in Ends(OnTrial, step - 1, input)
      BY <1>1, <1>2 DEF Verdicts
    <2>2. input \in Words /\ step - 1 \in Nat
      BY <1>1, <1>2, Packs DEF ParseTypes
    <2>3. step - 1 \in 0..(step - 1)
      BY <2>2
    <2>4. Ends(OnTrial, step - 1, input) \subseteq 0..Len(input)
      BY <2>2, <2>3, EndsSteps
    <2>5. length \in 0..Len(input) /\ Len(input) \in Nat
      BY <2>1, <2>2, <2>4 DEF Words
    <2> QED
      BY <1>1, <2>5
  <1>6. Verdicts' /\ Held'
    BY <1>1, <1>3, <1>5 DEF Verdicts, Held
  <1> QED
    BY <1>4, <1>6 DEF ParseInv

LEMMA MatchStep ==
    ASSUME ParseInv, Match
    PROVE  ParseInv'
  <1>1. /\ phase = "trying" /\ step > Len(OnTrial) /\ phase' = "matched"
        /\ value' = [alt |-> alt, fields |-> fields]
        /\ pack' = pack /\ input' = input /\ length' = length /\ alt' = alt /\ fields' = fields
    BY DEF Match
  <1>2. /\ Alternatives' = Alternatives /\ (IllQuoted(input)' <=> IllQuoted(input))
        /\ \A b : SentenceEnds(b, input)' = SentenceEnds(b, input)
    BY <1>1, SameText
  <1>3. ParseTypes /\ Verdicts
    BY DEF ParseInv
  <1>4. ParseTypes'
    BY <1>1, <1>2, <1>3 DEF ParseTypes, Phases
  <1>5. step - 1 = Len(OnTrial)
    <2>1. Len(OnTrial) \in Nat /\ step \in 1..(Len(OnTrial) + 1)
      BY <1>1, <1>3, Packs DEF ParseTypes
    <2> QED
      BY <1>1, <2>1
  <1>6. ASSUME ~IllQuoted(input) PROVE length \in SentenceEnds(alt, input)
    BY <1>1, <1>3, <1>5, <1>6 DEF Verdicts, SentenceEnds, OnTrial
  <1>7. Verdicts'
    BY <1>1, <1>2, <1>3, <1>6 DEF Verdicts
  <1>8. Held'
    BY <1>1 DEF Held
  <1> QED
    BY <1>4, <1>7, <1>8 DEF ParseInv

LEMMA VisitStep ==
    ASSUME ParseInv, VisitItem
    PROVE  ParseInv'
  <1> DEFINE items == OnTrial
             n == step - 1
             item == items[n + 1]
             v == Visit(item, input, length)
             N == Len(items)
  <1>1. ParseTypes /\ Verdicts
    BY DEF ParseInv
  <1>2. /\ phase = "trying" /\ step <= N /\ length <= Len(input)
        /\ pack' = pack /\ input' = input /\ alt' = alt
    BY DEF VisitItem
  <1>3. /\ WellFormed(items) /\ N \in Nat /\ step \in 1..(N + 1) /\ input \in Words /\ length \in Nat
        /\ alt \in 1..Len(Alternatives) /\ DOMAIN Alternatives = 1..Len(Alternatives)
    BY <1>1, <1>2, Packs DEF ParseTypes
  <1>4. n \in Nat /\ n + 1 \in 1..N /\ n + 1 = step /\ length \in 0..Len(input) /\ n \in 0..N
    BY <1>2, <1>3 DEF Words
  <1>5. /\ length' = v.at
        /\ IF Goes(item, input, length)
           THEN step' = step + 1 /\ phase' = phase
           ELSE phase' = "failed" /\ step' = step
    BY <1>4 DEF VisitItem, Goes
  <1>6. /\ Alternatives' = Alternatives /\ (IllQuoted(input)' <=> IllQuoted(input))
        /\ \A b : SentenceEnds(b, input)' = SentenceEnds(b, input)
    BY <1>2, SameText
  <1>7. OnTrial' = items
    BY <1>2, <1>6 DEF OnTrial
  <1>8. item \in GoodItems /\ DOMAIN items = 1..N
    BY <1>3, <1>4 DEF WellFormed
  <1>9. SentenceEnds(alt, input) = Ends(items, N, input)
    BY DEF SentenceEnds, OnTrial
  <1>10. items = Alternatives[alt]
    BY DEF OnTrial
  <1> HIDE DEF items, n
  <1>11. /\ v.ok \in BOOLEAN /\ v.at \in Nat
         /\ item.visit # "quoted" => v.at \in 0..Len(input)
         /\ item.visit = "quoted" => v.ok
         /\ Goes(item, input, length) /\ (item.visit = "quoted" => After(item, length, input) # {})
            => v.at \in After(item, length, input)
    <2> HIDE DEF item
    <2> QED
      BY <1>3, <1>4, <1>8, VisitSound DEF Goes
  <1> HIDE DEF N, item, v
  <1>12. ParseTypes'
    <2>1. CASE Goes(item, input, length)
      <3>1. step' \in 1..(N + 1) /\ phase' = "trying" /\ length' \in Nat
        BY <1>2, <1>3, <1>4, <1>5, <1>11, <2>1
      <3> QED
        BY <1>1, <1>2, <1>6, <1>7, <3>1 DEF ParseTypes, Phases, N
    <2>2. CASE ~Goes(item, input, length)
      <3>1. item.visit # "quoted"
        BY <1>11, <2>2 DEF Goes, v
      <3>2. length' \in 0..Len(input) /\ Len(input) \in Nat
        BY <1>3, <1>5, <1>11, <3>1 DEF Words
      <3>3. length' \in Nat /\ length' <= Len(input)
        BY <3>2
      <3> QED
        BY <1>1, <1>2, <1>5, <1>6, <2>2, <3>3 DEF ParseTypes, Phases
    <2> QED
      BY <2>1, <2>2
  <1>13. ASSUME ~IllQuoted(input)
         PROVE  /\ length \in Ends(items, n, input) /\ Covered(items, n, length, input)
                /\ \A a \in 1..(alt - 1) : SentenceEnds(a, input) = {}
    BY <1>1, <1>2, <1>13 DEF Verdicts, items, n
  <1>14. ASSUME ~IllQuoted(input), Goes(item, input, length)
         PROVE  v.at \in Ends(items, n + 1, input) /\ Covered(items, n + 1, v.at, input)
    <2>1. item.visit = "quoted" => After(item, length, input) # {}
      <3> SUFFICES ASSUME item.visit = "quoted", After(item, length, input) = {} PROVE FALSE
        OBVIOUS
      <3>1. step \in DOMAIN items /\ items[step] = item
        BY <1>4, <1>8 DEF item
      <3>2. step - 1 = n
        BY <1>4 DEF n
      <3> QED
        BY <1>3, <1>10, <1>13, <1>14, <3>1, <3>2 DEF IllQuoted
    <2>2. v.at \in After(item, length, input)
      BY <1>11, <1>14, <2>1
    <2>3. Ends(items, n + 1, input) = Onward(item, Ends(items, n, input), input)
      <3>1. (n + 1) - 1 = n
        BY <1>4
      <3>2. Ends(items, n + 1, input) = Onward(items[n + 1], Ends(items, (n + 1) - 1, input), input)
        BY <1>3, <1>4, EndsSteps
      <3> QED
        BY <3>1, <3>2 DEF item
    <2>4. v.at \in Ends(items, n + 1, input)
      BY <1>13, <1>14, <2>2, <2>3 DEF Onward
    <2>5. Covered(items, n + 1, v.at, input)
      BY <1>3, <1>4, <1>13, <1>14, CoverStep DEF N, item, v
    <2> QED
      BY <2>4, <2>5
  <1>15. ASSUME ~IllQuoted(input), ~Goes(item, input, length)
         PROVE  SentenceEnds(alt, input) = {}
    BY <1>3, <1>4, <1>9, <1>13, <1>15, CoverStep DEF N, item
  <1>16. Verdicts'
    <2>1. CASE Goes(item, input, length)
      <3>1. phase' = "trying" /\ step' - 1 = n + 1
        BY <1>2, <1>4, <1>5, <2>1
      <3>2. ASSUME ~IllQuoted(input)
            PROVE  /\ length' \in Ends(OnTrial', step' - 1, input')
                   /\ Covered(OnTrial', step' - 1, length', input')
        BY <1>2, <1>5, <1>7, <1>14, <2>1, <3>1, <3>2
      <3> QED
        BY <1>2, <1>6, <1>13, <3>1, <3>2 DEF Verdicts
    <2>2. CASE ~Goes(item, input, length)
      <3>1. phase' = "failed"
        BY <1>5, <2>2
      <3> QED
        BY <1>2, <1>6, <1>13, <1>15, <2>2, <3>1 DEF Verdicts
    <2> QED
      BY <2>1, <2>2
  <1>17. Held'
    BY <1>2, <1>5 DEF Held
  <1> QED
    BY <1>12, <1>16, <1>17 DEF ParseInv

LEMMA ParseUnchanged ==
    ASSUME ParseInv, UNCHANGED packVars
    PROVE  ParseInv'
  <1>1. /\ pack' = pack /\ input' = input /\ phase' = phase /\ alt' = alt /\ step' = step
        /\ length' = length /\ fields' = fields /\ value' = value
    BY DEF packVars
  <1>2. /\ Alternatives' = Alternatives /\ (IllQuoted(input)' <=> IllQuoted(input))
        /\ \A b : SentenceEnds(b, input)' = SentenceEnds(b, input)
    BY <1>1, SameText
  <1>3. OnTrial' = OnTrial
    BY <1>1, <1>2 DEF OnTrial
  <1>4. ParseTypes'
    BY <1>1, <1>2, <1>3 DEF ParseInv, ParseTypes
  <1>5. Verdicts'
    BY <1>1, <1>2, <1>3 DEF ParseInv, Verdicts
  <1>6. Held'
    BY <1>1 DEF ParseInv, Held
  <1> QED
    BY <1>4, <1>5, <1>6 DEF ParseInv

THEOREM SpecParseInv == Spec => []ParseInv
  <1>1. Init => ParseInv
    BY ParseInvInit DEF Init
  <1>2. WriteInv /\ ParseInv /\ [Next]_vars => ParseInv'
    <2> SUFFICES ASSUME WriteInv, ParseInv, [Next]_vars PROVE ParseInv'
      OBVIOUS
    <2>1. CASE Transmit
      BY <2>1, TransmitStep
    <2>2. CASE Receive
      BY <2>2, ReceiveStep
    <2>3. CASE Try
      BY <2>3, TryFirstStep, TryNextStep, GiveUpStep, VisitStep, ThrowStep, MatchStep DEF Try
    <2>4. CASE Reset
      BY <2>4, ResetStep
    <2>5. CASE UNCHANGED packVars
      BY <2>5, ParseUnchanged
    <2> QED
      BY <2>1, <2>2, <2>3, <2>4, <2>5 DEF Next, vars
  <1> QED
    BY <1>1, <1>2, SpecWriteInv, PTL DEF Spec

\* The cursor leaves the text, and substr throws, only where a quoted field is
\* due and none fits: for texts of any length, split anywhere, and packets, lines
\* and fields of any size.
THEOREM SpecCursorInUnlessIllQuoted == Spec => []CursorInUnlessIllQuoted
  <1>1. ParseInv => CursorInUnlessIllQuoted
    <2> SUFFICES ASSUME ParseInv, ~IllQuoted(input)
                 PROVE  length <= Len(input) /\ phase # "threw"
      BY DEF CursorInUnlessIllQuoted, CursorInInput
    <2>1. ParseTypes /\ Verdicts
      BY DEF ParseInv
    <2>2. input \in Words /\ Len(OnTrial) \in Nat /\ Len(input) \in Nat
      BY <2>1, Packs DEF ParseTypes, Words
    <2>3. \A i \in 0..Len(OnTrial) : Ends(OnTrial, i, input) \subseteq 0..Len(input)
      BY <2>2, EndsSteps
    <2>4. CASE phase = "trying"
      <3>1. length \in Ends(OnTrial, step - 1, input) /\ step - 1 \in 0..Len(OnTrial)
        BY <2>1, <2>2, <2>4 DEF Verdicts, ParseTypes
      <3>2. length \in 0..Len(input)
        BY <2>3, <3>1
      <3> QED
        BY <2>2, <2>4, <3>2
    <2>5. CASE phase = "matched"
      <3>1. length \in Ends(OnTrial, Len(OnTrial), input)
        BY <2>1, <2>5 DEF Verdicts, SentenceEnds, OnTrial
      <3>2. Len(OnTrial) \in 0..Len(OnTrial)
        BY <2>2
      <3>3. length \in 0..Len(input)
        BY <2>3, <3>1, <3>2
      <3> QED
        BY <2>2, <2>5, <3>3
    <2> QED
      BY <2>1, <2>4, <2>5 DEF ParseTypes, Verdicts, Phases
  <1> QED
    BY <1>1, SpecParseInv, PTL

\* The pack takes the first alternative that has a sentence the text begins with,
\* and that sentence; it takes none only when there is none: for any text and
\* any bounds of lines, fields and numbers.
THEOREM SpecFirstMatch == Spec => []FirstMatch
  <1>1. ParseInv => FirstMatch
    BY DEF ParseInv, Verdicts, Held, FirstMatch
  <1> QED
    BY <1>1, SpecParseInv, PTL

-----------------------------------------------------------------------------
(* Texts of which only the beginning has arrived.                             *)

Begins(text, ext) ==
    /\ text \in Words /\ ext \in Words /\ Len(text) <= Len(ext)
    /\ \A j \in 1..Len(text) : ext[j] = text[j]

LEMMA ConcatBegins ==
    ASSUME NEW text \in Words, NEW c \in Words
    PROVE  Begins(text, text \o c)
  <1>1. text \in Seq(Chars) /\ c \in Seq(Chars) /\ Len(text) \in Nat /\ Len(c) \in Nat
    BY DEF Words
  <1>2. /\ text \o c \in Seq(Chars) /\ Len(text \o c) = Len(text) + Len(c)
        /\ \A i \in 1..(Len(text) + Len(c)) :
              (text \o c)[i] = IF i <= Len(text) THEN text[i] ELSE c[i - Len(text)]
    BY <1>1, ConcatProperties
  <1>3. ASSUME NEW j \in 1..Len(text) PROVE (text \o c)[j] = text[j]
    <2>1. j \in 1..(Len(text) + Len(c)) /\ j <= Len(text)
      BY <1>1
    <2> QED
      BY <1>2, <2>1
  <1>4. Len(text) <= Len(text \o c)
    BY <1>1, <1>2
  <1> QED
    BY <1>2, <1>3, <1>4 DEF Begins, Words

LEMMA SamePart ==
    ASSUME NEW text, NEW ext, Begins(text, ext), NEW p \in Nat, NEW q \in Nat,
           p <= q, q <= Len(text)
    PROVE  SubSeq(ext, p + 1, q) = SubSeq(text, p + 1, q)
  <1> DEFINE s == SubSeq(text, p + 1, q)
             t == SubSeq(ext, p + 1, q)
  <1>1. /\ text \in Words /\ ext \in Words /\ Len(text) \in Nat /\ Len(ext) \in Nat
        /\ q <= Len(ext) /\ \A j \in 1..Len(text) : ext[j] = text[j]
    BY DEF Begins, Words
  <1>2. s \in Words /\ Len(s) = q - p /\ \A j \in 1..(q - p) : s[j] = text[p + j]
    BY <1>1, CutOut
  <1>3. t \in Words /\ Len(t) = q - p /\ \A j \in 1..(q - p) : t[j] = ext[p + j]
    BY <1>1, CutOut
  <1> HIDE DEF s, t
  <1>4. ASSUME NEW j \in 1..(q - p) PROVE s[j] = t[j]
    <2>1. p + j \in 1..Len(text)
      BY <1>1
    <2> QED
      BY <1>1, <1>2, <1>3, <2>1
  <1>5. s = t
    BY <1>2, <1>3, <1>4, SeqEqual DEF Words
  <1> QED
    BY <1>5 DEF s, t

LEMMA AtFrontLonger ==
    ASSUME NEW text, NEW ext, Begins(text, ext), NEW s \in Words, NEW p \in Nat
    PROVE  /\ AtFront(s, text, p) => AtFront(s, ext, p)
           /\ AtFront(s, ext, p) /\ p + Len(s) <= Len(text) => AtFront(s, text, p)
  <1>1. /\ text \in Words /\ ext \in Words /\ Len(text) \in Nat /\ Len(ext) \in Nat
        /\ Len(s) \in Nat /\ Len(text) <= Len(ext)
    BY DEF Begins, Words
  <1>2. p + Len(s) \in Nat /\ p <= p + Len(s)
    BY <1>1
  <1>3. ASSUME p + Len(s) <= Len(text)
        PROVE  SubSeq(ext, p + 1, p + Len(s)) = SubSeq(text, p + 1, p + Len(s))
    BY <1>2, <1>3, SamePart
  <1>4. p + Len(s) <= Len(text) => p + Len(s) <= Len(ext)
    BY <1>1
  <1> QED
    BY <1>3, <1>4 DEF AtFront

LEMMA SkipLonger ==
    ASSUME NEW text, NEW ext, Begins(text, ext), NEW p \in 0..Len(text),
           Skip(text, p) < Len(text)
    PROVE  Skip(ext, p) = Skip(text, p)
  <1> DEFINE q == Skip(text, p)
  <1>1. /\ text \in Words /\ ext \in Words /\ Len(text) \in Nat /\ Len(ext) \in Nat
        /\ Len(text) <= Len(ext) /\ \A j \in 1..Len(text) : ext[j] = text[j]
    BY DEF Begins, Words
  <1>2. q \in p..Len(text) /\ Blanks(text, p, q) /\ text[q + 1] \notin Blank
    BY <1>1, SkipIs
  <1> HIDE DEF q
  <1>3. q \in p..Len(ext) /\ p \in 0..Len(ext) /\ q < Len(text)
    BY <1>1, <1>2 DEF q
  <1>4. ext[q + 1] \notin Blank
    <2>1. q + 1 \in 1..Len(text)
      BY <1>1, <1>2, <1>3
    <2> QED
      BY <1>1, <1>2, <2>1
  <1>5. Blanks(ext, p, q)
    <2> SUFFICES ASSUME NEW i \in p..(q - 1) PROVE ext[i + 1] \in Blank
      BY DEF Blanks
    <2>1. i + 1 \in 1..Len(text)
      BY <1>1, <1>2
    <2> QED
      BY <1>1, <1>2, <2>1 DEF Blanks
  <1> QED
    BY <1>1, <1>3, <1>4, <1>5, SkipUnique DEF q

\* What an item may stand for stays; only an optional literal may turn up later.
LEMMA AfterLonger ==
    ASSUME NEW text, NEW ext, Begins(text, ext), NEW item \in GoodItems, item.must,
           NEW p \in 0..Len(text)
    PROVE  After(item, p, text) \subseteq After(item, p, ext)
  <1> DEFINE present(t) == {r \in p..Len(t) : \E q \in p..r :
                           /\ item.visit = "line" => q = p
                           /\ AllBlank(SubSeq(t, p + 1, q)) /\ Stands(item, SubSeq(t, q + 1, r))}
  <1>1. Len(text) \in Nat /\ Len(ext) \in Nat /\ Len(text) <= Len(ext) /\ p \in Nat
    BY DEF Begins, Words
  <1>2. After(item, p, text) = present(text) /\ After(item, p, ext) = present(ext)
    BY DEF After
  <1>3. ASSUME NEW r \in present(text) PROVE r \in present(ext)
    <2>1. PICK q \in p..r : /\ item.visit = "line" => q = p
                            /\ AllBlank(SubSeq(text, p + 1, q)) /\ Stands(item, SubSeq(text, q + 1, r))
      OBVIOUS
    <2>2. /\ r \in Nat /\ q \in Nat /\ p <= q /\ q <= r /\ r <= Len(text) /\ q <= Len(text)
          /\ r \in p..Len(ext)
      BY <1>1, <2>1
    <2>3. SubSeq(ext, p + 1, q) = SubSeq(text, p + 1, q)
      BY <1>1, <2>2, SamePart
    <2>4. SubSeq(ext, q + 1, r) = SubSeq(text, q + 1, r)
      BY <2>2, SamePart
    <2> QED
      BY <2>1, <2>2, <2>3, <2>4
  <1> QED
    BY <1>2, <1>3

LEMMA AfterMay ==
    ASSUME NEW text, NEW ext, Begins(text, ext), NEW item \in GoodItems, ~item.must,
           NEW p \in 0..Len(text), Skip(text, p) < Len(text),
           AtFront(item.arg, ext, Skip(text, p)) => AtFront(item.arg, text, Skip(text, p))
    PROVE  After(item, p, text) = After(item, p, ext)
  <1> DEFINE q == Skip(text, p)
             s == item.arg
  <1>1. /\ Len(text) \in Nat /\ Len(ext) \in Nat /\ Len(text) <= Len(ext) /\ p \in Nat
        /\ text \in Words /\ ext \in Words
    BY DEF Begins, Words
  <1>2. p \in 0..Len(ext) /\ q \in Nat
    <2>1. p \in 0..Len(ext)
      BY <1>1
    <2>2. q \in p..Len(text)
      BY <1>1, SkipIs
    <2> HIDE DEF q
    <2> QED
      BY <1>1, <2>1, <2>2
  <1>3. Skip(ext, p) = q
    BY SkipLonger
  <1>4. item.visit = "sequence" /\ s \in Words
    BY GoodKinds
  <1>5. AtFront(s, text, q) <=> AtFront(s, ext, q)
    BY <1>2, <1>4, AtFrontLonger
  <1>6. /\ Here(item, p, text) = IF AtFront(s, text, q) THEN {q + Len(s)} ELSE {}
        /\ Here(item, p, ext) = IF AtFront(s, ext, q) THEN {q + Len(s)} ELSE {}
    BY <1>1, <1>2, <1>3, <1>4, LiteralHere
  <1>7. Here(item, p, text) = Here(item, p, ext)
    BY <1>5, <1>6
  <1>8. /\ Here(item, p, text) # {} \/ item.must => After(item, p, text) = Here(item, p, text)
        /\ Here(item, p, text) = {} /\ ~item.must => After(item, p, text) = p..q
    BY <1>1, <1>4, AfterIsHere
  <1>9. /\ Here(item, p, ext) # {} \/ item.must => After(item, p, ext) = Here(item, p, ext)
        /\ Here(item, p, ext) = {} /\ ~item.must => After(item, p, ext) = p..q
    BY <1>1, <1>2, <1>3, <1>4, AfterIsHere
  <1> QED
    BY <1>7, <1>8, <1>9

\* Every item ends behind the ones before it.
LEMMA EndsGrow ==
    ASSUME NEW items, NEW text \in Words, NEW N \in Nat, NEW n \in 0..N, NEW m \in Nat,
           \A p \in Ends(items, n, text) : m <= p
    PROVE  \A i \in n..N : \A p \in Ends(items, i, text) : m <= p
  <1> DEFINE S == {i \in 0..N : i >= n => \A p \in Ends(items, i, text) : m <= p}
  <1>1. /\ \A i \in 1..N : Ends(items, i, text) = Onward(items[i], Ends(items, i - 1, text), text)
        /\ \A i \in 0..N : Ends(items, i, text) \subseteq 0..Len(text)
    BY EndsSteps
  <1>2. 0 \in S
    <2>1. 0 >= n => n = 0
      OBVIOUS
    <2> QED
      BY <2>1
  <1>3. ASSUME NEW i \in 1..N, i - 1 \in S PROVE i \in S
    <2>1. CASE i <= n
      <3>1. i >= n => i = n
        BY <2>1
      <3> QED
        BY <3>1
    <2>2. CASE i > n
      <3>1. i - 1 >= n /\ i - 1 \in 0..N
        BY <2>2
      <3>2. \A p \in Ends(items, i - 1, text) : m <= p
        BY <1>3, <3>1
      <3>3. ASSUME NEW r \in Ends(items, i, text) PROVE m <= r
        <4>1. PICK p \in Ends(items, i - 1, text) : r \in After(items[i], p, text)
          BY <1>1 DEF Onward
        <4>2. p \in 0..Len(text) /\ m <= p /\ Len(text) \in Nat
          BY <1>1, <3>1, <3>2, <4>1 DEF Words
        <4>3. r \in p..Len(text)
          BY <4>1, AfterRange
        <4> QED
          BY <4>2, <4>3
      <3> QED
        BY <3>3
    <2> QED
      BY <2>1, <2>2
  <1> HIDE DEF S
  <1>4. 0..N \subseteq S
    BY <1>2, <1>3, BoundedInduction
  <1> QED
    BY <1>4 DEF S

\* What begins with a sentence has a cursor for every one of its items.
LEMMA SomeCursor ==
    ASSUME NEW items, WellFormed(items), NEW text \in Words,
           Ends(items, Len(items), text) # {}
    PROVE  \A n \in 0..Len(items) : \E c \in 0..Len(text) : Covered(items, n, c, text)
  <1> DEFINE N == Len(items)
             S == {n \in 0..N : \E c \in 0..Len(text) : Covered(items, n, c, text)}
  <1>1. N \in Nat /\ Len(text) \in Nat
    BY DEF WellFormed, Words
  <1>2. /\ Ends(items, 0, text) = {0}
        /\ \A i \in 1..N : Ends(items, i, text) = Onward(items[i], Ends(items, i - 1, text), text)
        /\ \A i \in 0..N : Ends(items, i, text) \subseteq 0..Len(text)
    BY <1>1, EndsSteps
  <1>3. 0 \in S
    <2>1. Covered(items, 0, 0, text)
      BY <1>2 DEF Covered, Covers
    <2> QED
      BY <1>1, <2>1
  <1>4. ASSUME NEW i \in 1..N, i - 1 \in S PROVE i \in S
    <2>1. PICK c \in 0..Len(text) : Covered(items, i - 1, c, text)
      BY <1>4
    <2>2. i - 1 \in Nat /\ (i - 1) + 1 = i /\ i - 1 \in 0..N
      BY <1>1
    <2> DEFINE item == items[i]
               v == Visit(item, text, c)
    <2>3. item \in GoodItems
      BY DEF WellFormed
    <2>4. Goes(item, text, c) => Covered(items, i, v.at, text)
      BY <2>1, <2>2, CoverStep
    <2>5. ~Goes(item, text, c) => Ends(items, N, text) = {}
      BY <2>1, <2>2, CoverStep
    <2>6. item.visit # "quoted" => v.at \in 0..Len(text)
      BY <2>3, VisitSound
    <2>7. Ends(items, i, text) # {}
      BY <1>1, NoEnd
    <2>8. PICK r \in Ends(items, i, text) : TRUE
      BY <2>7
    <2>9. PICK p \in Ends(items, i - 1, text) : r \in After(item, p, text)
      BY <1>2 DEF Onward
    <2>10. p \in 0..Len(text) /\ Covers(item, p, c, text)
      BY <1>2, <2>1, <2>2 DEF Covered
    <2>11. r \in p..Len(text)
      BY <2>9, AfterRange
    <2>12. item.visit = "quoted" => r = v.at
      BY <2>3, <2>9, <2>10, CoverQuoted
    <2>13. v.at \in 0..Len(text)
      <3> HIDE DEF v, item
      <3>1. r \in 0..Len(text)
        BY <1>1, <2>10, <2>11
      <3> QED
        BY <2>6, <2>12, <3>1
    <2> QED
      BY <2>4, <2>5, <2>13
  <1> HIDE DEF S
  <1>5. 0..N \subseteq S
    BY <1>1, <1>3, <1>4, BoundedInduction
  <1> QED
    BY <1>5 DEF S

\* The CRLF a sentence ends with is found at one place.
LEMMA LastItem ==
    ASSUME NEW items, WellFormed(items), NEW text \in Words,
           NEW k \in Ends(items, Len(items), text)
    PROVE  \E p \in Ends(items, Len(items) - 1, text) :
              /\ p \in 0..Len(text) /\ Skip(text, p) \in p..Len(text)
              /\ k = Skip(text, p) + 2 /\ AtFront(CrLf, text, Skip(text, p))
  <1> DEFINE N == Len(items)
             item == Must(CrLf)
  <1>1. N \in Nat \ {0} /\ items[N] = item /\ item \in GoodItems /\ N - 1 \in 0..N
    BY DEF WellFormed
  <1>2. PICK p \in Ends(items, N - 1, text) : k \in After(item, p, text)
    <2>1. N \in 1..N
      BY <1>1
    <2>2. Ends(items, N, text) = Onward(items[N], Ends(items, N - 1, text), text)
      BY <1>1, <2>1, EndsSteps
    <2> QED
      BY <1>1, <2>2 DEF Onward
  <1>3. p \in 0..Len(text)
    BY <1>1, EndsSteps
  <1>4. item.visit = "sequence" /\ item.must = TRUE /\ item.arg = CrLf
    BY DEF Must
  <1> HIDE DEF item
  <1>5. After(item, p, text) = Here(item, p, text)
    BY <1>1, <1>3, <1>4, AfterIsHere
  <1>6. Here(item, p, text) =
          IF AtFront(CrLf, text, Skip(text, p)) THEN {Skip(text, p) + 2} ELSE {}
    BY <1>1, <1>3, <1>4, CrLfIs, LiteralHere
  <1>7. Skip(text, p) \in p..Len(text)
    BY <1>3, SkipIs
  <1> QED
    BY <1>2, <1>3, <1>5, <1>6, <1>7

\* So a text begins with one sentence of a packet at most.
LEMMA OneEnd ==
    ASSUME NEW items, WellFormed(items), NEW text \in Words,
           NEW k \in Ends(items, Len(items), text), NEW l \in Ends(items, Len(items), text)
    PROVE  k = l
  <1> DEFINE N == Len(items)
  <1>1. N \in Nat \ {0} /\ items[N] = Must(CrLf) /\ Must(CrLf) \in GoodItems /\ N - 1 \in 0..N
        /\ (N - 1) + 1 = N /\ N \in 1..N
    BY DEF WellFormed
  <1>2. PICK c \in 0..Len(text) : Covered(items, N - 1, c, text)
    BY <1>1, SomeCursor
  <1>3. ASSUME NEW m \in Ends(items, N, text) PROVE m \in Here(Must(CrLf), c, text)
    <2>1. PICK p \in Ends(items, N - 1, text) : m \in After(Must(CrLf), p, text)
      <3>1. Ends(items, N, text) = Onward(items[N], Ends(items, N - 1, text), text)
        BY <1>1, EndsSteps
      <3> QED
        BY <1>1, <3>1 DEF Onward
    <2>2. p \in 0..Len(text)
      BY <1>1, EndsSteps
    <2>3. Covers(Must(CrLf), p, c, text)
      BY <1>1, <1>2 DEF Covered
    <2>4. Must(CrLf).visit # "line" /\ Must(CrLf).must
      BY DEF Must
    <2> QED
      BY <1>1, <2>1, <2>2, <2>3, <2>4, CoversHere
  <1>4. Must(CrLf).visit = "sequence"
    BY DEF Must
  <1>5. \A m \in Here(Must(CrLf), c, text) : m = Skip(text, c) + Len(Must(CrLf).arg)
    BY <1>1, <1>4, LiteralHere
  <1> QED
    BY <1>3, <1>5

\* An optional literal is due only where a CRLF still has room: the sentence ends
\* with one behind it.
LEMMA OptionalHasRoom ==
    ASSUME NEW items, WellFormed(items), NEW text \in Words, Ends(items, Len(items), text) # {},
           NEW n \in Nat, n + 1 \in 1..Len(items), ~items[n + 1].must,
           NEW p \in Ends(items, n, text)
    PROVE  Skip(text, p) + 2 <= Len(text)
  <1> DEFINE N == Len(items)
             item == items[n + 1]
             q == Skip(text, p)
             S == Ends(items, n, text)
  <1>1. /\ N \in Nat /\ n \in 0..N /\ n \in 0..(N - 1) /\ N - 1 \in 0..N /\ N - 1 \in n..N
        /\ Len(text) \in Nat
    BY DEF WellFormed, Words
  <1>2. S \subseteq 0..Len(text) /\ S \subseteq Nat /\ S # {}
    <2>1. S \subseteq 0..Len(text)
      BY <1>1, EndsSteps
    <2>2. S # {}
      BY <1>1, NoEnd
    <2> QED
      BY <1>1, <2>1, <2>2
  <1>3. item \in GoodItems /\ ~item.must
    BY DEF WellFormed
  <1>4. PICK c \in 0..Len(text) : Covered(items, n, c, text)
    BY <1>1, SomeCursor
  <1>5. ASSUME NEW r \in S PROVE Skip(text, r) = Skip(text, c)
    <2>1. r \in 0..Len(text) /\ item.visit # "line"
      BY <1>2, <1>3, GoodKinds
    <2>2. Skip(text, r) \in r..Len(text)
      BY <2>1, SkipIs
    <2>3. Here(item, r, text) # {} => After(item, r, text) = Here(item, r, text)
      BY <1>3, <2>1, AfterIsHere
    <2>4. Here(item, r, text) = {} => After(item, r, text) = r..Skip(text, r)
      BY <1>3, <2>1, AfterIsHere
    <2>5. r \in r..Skip(text, r)
      BY <2>1, <2>2
    <2>6. After(item, r, text) # {}
      BY <2>3, <2>4, <2>5
    <2> QED
      BY <1>4, <2>6 DEF Covered, Covers
  <1> HIDE DEF S
  <1>6. PICK m \in S : \A r \in S : m <= r
    BY <1>2, LeastNat
  <1>7. m \in 0..Len(text) /\ m \in Nat /\ Skip(text, m) = q
    <2>1. p \in S
      BY DEF S
    <2> QED
      BY <1>2, <1>5, <1>6, <2>1
  <1>8. PICK k \in Ends(items, N, text) : TRUE
    OBVIOUS
  <1>9. PICK r \in Ends(items, N - 1, text) :
           /\ r \in 0..Len(text) /\ Skip(text, r) \in r..Len(text)
           /\ k = Skip(text, r) + 2 /\ AtFront(CrLf, text, Skip(text, r))
    BY LastItem
  <1>10. m <= r
    <2>1. \A i \in n..N : \A l \in Ends(items, i, text) : m <= l
      BY <1>1, <1>6, <1>7, EndsGrow DEF S
    <2> QED
      BY <1>1, <1>9, <2>1
  <1> DEFINE s == Skip(text, r)
  <1>11. s \in r..Len(text) /\ s \in Nat /\ AtFront(CrLf, text, s)
    BY <1>1, <1>9
  <1> HIDE DEF s
  <1>12. s + 2 <= Len(text) /\ text[s + 1] = "\r"
    BY <1>11, CrLfAtFront
  <1>13. q \in m..Len(text) /\ Blanks(text, m, q)
    BY <1>7, SkipIs
  <1> HIDE DEF q
  <1>14. ASSUME s < q PROVE FALSE
    <2>1. s \in m..(q - 1)
      BY <1>1, <1>7, <1>9, <1>10, <1>11, <1>13, <1>14
    <2>2. text[s + 1] \in Blank
      BY <1>13, <2>1 DEF Blanks
    <2> QED
      BY <1>12, <2>2 DEF Blank
  <1>15. q <= s
    BY <1>1, <1>7, <1>11, <1>13, <1>14
  <1>16. q + 2 <= Len(text)
    BY <1>1, <1>7, <1>11, <1>12, <1>13, <1>15
  <1> QED
    BY <1>16 DEF q

\* More text takes nothing from a sentence.
LEMMA EndsLonger ==
    ASSUME NEW items, WellFormed(items), NEW text, NEW ext, Begins(text, ext),
           Ends(items, Len(items), text) # {}
    PROVE  Ends(items, Len(items), text) \subseteq Ends(items, Len(items), ext)
  <1> DEFINE N == Len(items)
             S == {n \in 0..N : Ends(items, n, text) \subseteq Ends(items, n, ext)}
  <1>1. /\ N \in Nat /\ text \in Words /\ ext \in Words /\ Len(text) \in Nat
        /\ Len(ext) \in Nat /\ Len(text) <= Len(ext)
    BY DEF WellFormed, Begins, Words
  <1>2. /\ Ends(items, 0, text) = {0} /\ Ends(items, 0, ext) = {0}
        /\ \A i \in 1..N : Ends(items, i, text) = Onward(items[i], Ends(items, i - 1, text), text)
        /\ \A i \in 1..N : Ends(items, i, ext) = Onward(items[i], Ends(items, i - 1, ext), ext)
        /\ \A i \in 0..N : Ends(items, i, text) \subseteq 0..Len(text)
    BY <1>1, EndsSteps
  <1>3. 0 \in S
    BY <1>1, <1>2
  <1>4. ASSUME NEW i \in 1..N, i - 1 \in S PROVE i \in S
    <2> DEFINE item == items[i]
    <2>1. /\ i - 1 \in Nat /\ (i - 1) + 1 = i /\ i - 1 \in 0..N /\ i \in 0..N
      BY <1>1
    <2>2. item \in GoodItems
      BY DEF WellFormed
    <2>3. ASSUME NEW p \in Ends(items, i - 1, text)
          PROVE  After(item, p, text) \subseteq After(item, p, ext)
      <3>1. p \in 0..Len(text)
        BY <1>2, <2>1
      <3>2. CASE item.must
        BY <2>2, <3>1, <3>2, AfterLonger
      <3>3. CASE ~item.must
        <4> DEFINE q == Skip(text, p)
        <4>1. item = May(CrLf)
          BY <3>3 DEF WellFormed
        <4>2. item.arg = CrLf
          BY <4>1 DEF May, Must
        <4>3. q + 2 <= Len(text)
          BY <1>1, <2>1, <3>3, OptionalHasRoom
        <4>4. q \in p..Len(text)
          BY <1>1, <3>1, SkipIs
        <4> HIDE DEF q
        <4>5. q \in Nat /\ q < Len(text) /\ q + Len(CrLf) <= Len(text) /\ CrLf \in Words
          BY <1>1, <3>1, <4>3, <4>4, CrLfIs
        <4>6. AtFront(CrLf, ext, q) => AtFront(CrLf, text, q)
          BY <4>5, AtFrontLonger
        <4>7. After(item, p, text) = After(item, p, ext)
          BY <2>2, <3>1, <3>3, <4>2, <4>5, <4>6, AfterMay DEF q
        <4> QED
          BY <4>7
      <3> QED
        BY <3>2, <3>3
    <2>4. Ends(items, i - 1, text) \subseteq Ends(items, i - 1, ext)
      BY <1>4
    <2> HIDE DEF item
    <2>5. Onward(item, Ends(items, i - 1, text), text) \subseteq Onward(item, Ends(items, i - 1, ext), ext)
      BY <2>3, <2>4 DEF Onward
    <2> QED
      BY <1>2, <2>1, <2>5 DEF item
  <1> HIDE DEF S
  <1>5. 0..N \subseteq S
    BY <1>1, <1>3, <1>4, BoundedInduction
  <1>6. N \in S
    BY <1>1, <1>5
  <1> QED
    BY <1>6 DEF S

-----------------------------------------------------------------------------
(* A tag decides the alternative.                                             *)

TagWords == {"+ATI:", "OK", "ERROR", "+CMS ERROR:", "+CME ERROR:"}

\* The packet begins with a tag, an optional CRLF aside.
Tagged(items, tag) ==
    /\ tag \in TagWords
    /\ \/ items[1] = Must(<<tag>>)
       \/ Len(items) >= 2 /\ items[1] = May(CrLf) /\ items[2] = Must(<<tag>>)

TagAt(text) ==
    LET q == Skip(text, 0) IN IF AtFront(CrLf, text, q) THEN Skip(text, q + 2) ELSE q

LEMMA TagHere ==
    ASSUME NEW tag \in TagWords, NEW text \in Words, NEW p \in 0..Len(text),
           After(Must(<<tag>>), p, text) # {}
    PROVE  text[Skip(text, p) + 1] = tag
  <1> DEFINE item == Must(<<tag>>)
             q == Skip(text, p)
             s == <<tag>>
  <1>1. item \in GoodItems
    BY Tags DEF TagWords, GoodItems
  <1>2. item.visit = "sequence" /\ item.must = TRUE /\ item.arg = s
    BY DEF Must
  <1>3. s \in Words /\ Len(s) = 1 /\ s[1] = tag
    <2>1. Len(s) = 1 /\ s[1] = tag
      OBVIOUS
    <2>2. s \in Words
      BY <1>1, <1>2, GoodKinds
    <2> QED
      BY <2>1, <2>2
  <1>4. After(item, p, text) = Here(item, p, text)
    BY <1>1, <1>2, AfterIsHere
  <1>5. Here(item, p, text) = IF AtFront(s, text, q) THEN {q + Len(s)} ELSE {}
    BY <1>1, <1>2, LiteralHere
  <1>6. q \in Nat
    BY SkipIs DEF Words
  <1> HIDE DEF item, s, q
  <1>7. AtFront(s, text, q)
    BY <1>4, <1>5 DEF item
  <1>8. \A j \in 1..Len(s) : text[q + j] = s[j]
    BY <1>3, <1>6, <1>7, AtFrontIs
  <1>9. 1 \in 1..Len(s)
    BY <1>3
  <1> QED
    BY <1>3, <1>8, <1>9 DEF q

LEMMA TagFound ==
    ASSUME NEW items, WellFormed(items), NEW tag, Tagged(items, tag), NEW text \in Words,
           Ends(items, Len(items), text) # {}
    PROVE  text[TagAt(text) + 1] = tag
  <1> DEFINE N == Len(items)
             q == Skip(text, 0)
             front == AtFront(CrLf, text, q)
  <1>1. N \in Nat /\ N >= 1 /\ 0 \in 0..Len(text) /\ Len(text) \in Nat
    BY DEF WellFormed, Words
  <1>2. q \in 0..Len(text) /\ q \in Nat
    BY <1>1, SkipIs
  <1>3. tag \in TagWords /\ tag # "\r"
    BY DEF Tagged, TagWords
  <1>4. /\ Ends(items, 0, text) = {0}
        /\ \A i \in 1..N : Ends(items, i, text) = Onward(items[i], Ends(items, i - 1, text), text)
    BY <1>1, EndsSteps
  <1>5. Ends(items, 1, text) = After(items[1], 0, text)
    <2>1. 1 \in 1..N /\ 1 - 1 = 0
      BY <1>1
    <2>2. Ends(items, 1, text) = Onward(items[1], {0}, text)
      BY <1>4, <2>1
    <2>3. \A it : Onward(it, {0}, text) = After(it, 0, text)
      BY DEF Onward
    <2> QED
      BY <2>2, <2>3
  <1>6. CASE items[1] = Must(<<tag>>)
    <2>1. Ends(items, 1, text) # {}
      BY <1>1, NoEnd
    <2>2. text[q + 1] = tag
      BY <1>1, <1>3, <1>5, <1>6, <2>1, TagHere
    <2>3. ~front
      BY <1>2, <1>3, <2>2, CrLfAtFront
    <2> QED
      BY <2>2, <2>3 DEF TagAt
  <1>7. CASE N >= 2 /\ items[1] = May(CrLf) /\ items[2] = Must(<<tag>>)
    <2> DEFINE item == May(CrLf)
    <2>1. Ends(items, 2, text) # {}
      BY <1>1, <1>7, NoEnd
    <2>2. Ends(items, 2, text) = Onward(items[2], Ends(items, 1, text), text)
      <3>1. 2 \in 1..N /\ 2 - 1 = 1
        BY <1>1, <1>7
      <3> QED
        BY <1>4, <3>1
    <2>3. PICK p \in After(item, 0, text) : After(Must(<<tag>>), p, text) # {}
      BY <1>5, <1>7, <2>1, <2>2 DEF Onward
    <2>4. p \in 0..Len(text)
      BY <2>3, AfterRange
    <2>5. text[Skip(text, p) + 1] = tag
      BY <1>3, <2>3, <2>4, TagHere
    <2>6. item \in GoodItems
      BY PackLiterals DEF GoodItems
    <2>7. item.visit = "sequence" /\ item.must = FALSE /\ item.arg = CrLf
      BY DEF May, Must
    <2>8. Here(item, 0, text) = IF front THEN {q + 2} ELSE {}
      BY <1>1, <2>6, <2>7, LiteralHere, CrLfIs
    <2>9. /\ Here(item, 0, text) # {} => After(item, 0, text) = Here(item, 0, text)
          /\ Here(item, 0, text) = {} => After(item, 0, text) = 0..q
      BY <1>1, <2>6, <2>7, AfterIsHere
    <2> HIDE DEF item, q, front
    <2>10. CASE front
      <3>1. p = q + 2
        BY <2>3, <2>8, <2>9, <2>10
      <3> QED
        BY <2>5, <2>10, <3>1 DEF TagAt, q, front
    <2>11. CASE ~front
      <3>1. p \in 0..q
        BY <2>3, <2>8, <2>9, <2>11
      <3>2. Skip(text, p) = q
        BY <1>1, <3>1, SkipAmongBlanks DEF q
      <3> QED
        BY <2>5, <2>11, <3>2 DEF TagAt, q, front
    <2> QED
      BY <2>10, <2>11
  <1> QED
    BY <1>6, <1>7 DEF Tagged

\* The tags of the packs all of whose packets have one.
TagOf == [
    result |-> <<"OK", "ERROR", "+CMS ERROR:", "+CME ERROR:">>,
    ati    |-> <<"+ATI:", "OK", "ERROR", "+CMS ERROR:", "+CME ERROR:">>]

LEMMA PacketTags ==
    /\ Tagged(Ok, "OK") /\ Tagged(Error, "ERROR") /\ Tagged(CmsError, "+CMS ERROR:")
    /\ Tagged(CmeError, "+CME ERROR:") /\ Tagged(AtiResponse, "+ATI:")
  <1>1. /\ Must(<<"OK">>) \in GoodItems /\ Must(<<"+ATI:">>) \in GoodItems
        /\ May(CrLf) \in GoodItems /\ Must(CrLf) \in GoodItems /\ LineText \in GoodItems
    <2>1. \A x \in GoodLiterals : x \in GoodItems
      BY DEF GoodItems
    <2>2. Must(<<"OK">>) \in GoodLiterals /\ Must(<<"+ATI:">>) \in GoodLiterals
      BY Tags
    <2>3. May(CrLf) \in GoodLiterals /\ Must(CrLf) \in GoodLiterals
      BY PackLiterals
    <2> QED
      BY <2>1, <2>2, <2>3, PackFields
  <1>2. \A t : \A s \in Seq(GoodItems) :
           /\ t \in TagWords /\ Must(<<t>>) \in GoodItems /\ Len(s) >= 1 /\ s[1] = Must(<<t>>)
           => Tagged(<<May(CrLf)>> \o s, t)
    <2> SUFFICES ASSUME NEW t \in TagWords, NEW s \in Seq(GoodItems), Len(s) >= 1, s[1] = Must(<<t>>)
                 PROVE  Tagged(<<May(CrLf)>> \o s, t)
      OBVIOUS
    <2> DEFINE w == <<May(CrLf)>> \o s
    <2>1. Len(w) = Len(s) + 1 /\ Len(s) \in Nat /\ w[1] = May(CrLf)
      BY <1>1, Prepend
    <2>2. w[2] = s[1]
      BY <1>1, Prepend
    <2> HIDE DEF w
    <2> QED
      BY <2>1, <2>2 DEF Tagged, w
  <1>3. Tagged(Ok, "OK")
    <2> DEFINE s == <<Must(<<"OK">>), Must(CrLf)>>
    <2>1. s \in Seq(GoodItems) /\ Len(s) >= 1 /\ s[1] = Must(<<"OK">>)
      BY <1>1
    <2> HIDE DEF s
    <2>2. Ok = <<May(CrLf)>> \o s
      BY PackItems DEF s
    <2> QED
      BY <1>1, <1>2, <2>1, <2>2 DEF TagWords
  <1>4. Tagged(AtiResponse, "+ATI:")
    <2> DEFINE u == <<May(CrLf)>> \o <<LineText, Must(CrLf)>>
               s == <<Must(<<"+ATI:">>)>> \o u
    <2>1. u \in Seq(GoodItems)
      <3>1. <<LineText, Must(CrLf)>> \in Seq(GoodItems)
        BY <1>1
      <3> QED
        BY <1>1, <3>1, Prepend
    <2>2. AtiResponse = <<May(CrLf)>> \o s
      BY PackItems
    <2> HIDE DEF u
    <2>3. s \in Seq(GoodItems) /\ Len(s) >= 1 /\ s[1] = Must(<<"+ATI:">>)
      BY <1>1, <2>1, Prepend
    <2> HIDE DEF s
    <2> QED
      BY <1>1, <1>2, <2>2, <2>3 DEF TagWords
  <1>5. \A x, y : <<x, y>>[1] = x
    OBVIOUS
  <1>6. \A x, y, z : <<x, y, z>>[1] = x
    OBVIOUS
  <1>7. Error[1] = Must(<<"ERROR">>) /\ CmsError[1] = Must(<<"+CMS ERROR:">>)
        /\ CmeError[1] = Must(<<"+CME ERROR:">>)
    BY <1>5, <1>6, PackItems, Zenon
  <1> QED
    BY <1>3, <1>4, <1>7 DEF Tagged, TagWords

LEMMA PackTags ==
    ASSUME NEW p \in {"result", "ati"}, NEW a \in 1..Len(PackOf[p])
    PROVE  /\ Tagged(PackOf[p][a], TagOf[p][a])
           /\ \A b \in 1..Len(PackOf[p]) : b # a => TagOf[p][b] # TagOf[p][a]
  <1> DEFINE X == WellFormedPackets
             f == <<Ok, Error, CmsError, CmeError>>
             g == <<AtiResponse>> \o f
             t == TagOf[p]
  <1>1. /\ f \in Seq(X) /\ Len(f) = 4
        /\ f[1] = Ok /\ f[2] = Error /\ f[3] = CmsError /\ f[4] = CmeError
    BY PacketsWellFormed
  <1>2. AtiResponse \in X
    BY PacketsWellFormed
  <1> HIDE DEF X, f
  <1>3. PackOf["result"] = f /\ PackOf["ati"] = g
    <2>1. << >> \o f = f
      BY <1>1, ConcatEmptySeq
    <2>2. PackOf["result"] = << >> \o f /\ PackOf["ati"] = <<AtiResponse>> \o f
      BY DEF PackOf, FinalResultCode, f
    <2> QED
      BY <2>1, <2>2
  <1>4. /\ Len(g) = 5 /\ g[1] = AtiResponse
        /\ g[2] = Ok /\ g[3] = Error /\ g[4] = CmsError /\ g[5] = CmeError
    <2>1. /\ Len(g) = Len(f) + 1 /\ g[1] = AtiResponse
          /\ \A i \in 1..Len(f) : g[i + 1] = f[i]
      <3> DEFINE u == AtiResponse
      <3>1. u \in X /\ f \in Seq(X)
        BY <1>1, <1>2
      <3> HIDE DEF u
      <3>2. /\ Len(<<u>> \o f) = Len(f) + 1 /\ (<<u>> \o f)[1] = u
            /\ \A i \in 1..Len(f) : (<<u>> \o f)[i + 1] = f[i]
        BY <3>1, Prepend
      <3> QED
        BY <3>2 DEF g, u
    <2>2. /\ 1 \in 1..Len(f) /\ 2 \in 1..Len(f) /\ 3 \in 1..Len(f) /\ 4 \in 1..Len(f)
          /\ 1 + 1 = 2 /\ 2 + 1 = 3 /\ 3 + 1 = 4 /\ 4 + 1 = 5
      BY <1>1
    <2>3. g[1 + 1] = f[1] /\ g[2 + 1] = f[2] /\ g[3 + 1] = f[3] /\ g[4 + 1] = f[4]
      BY <2>1, <2>2
    <2>4. g[2] = f[1] /\ g[3] = f[2] /\ g[4] = f[3] /\ g[5] = f[4]
      BY <2>2, <2>3
    <2> QED
      BY <1>1, <2>1, <2>4
  <1> HIDE DEF g, t
  <1>5. CASE p = "result"
    <2>1. t[1] = "OK" /\ t[2] = "ERROR" /\ t[3] = "+CMS ERROR:" /\ t[4] = "+CME ERROR:"
      BY <1>5 DEF TagOf, t
    <2>2. PackOf[p] = f
      BY <1>3, <1>5
    <2>3. a \in {1, 2, 3, 4}
      <3>1. a \in 1..Len(f)
        BY <2>2, Zenon
      <3>2. a \in 1..4
        BY <1>1, <3>1
      <3> QED
        BY <3>2
    <2>4. Tagged(f[a], t[a])
      <3>1. Tagged(f[1], t[1]) /\ Tagged(f[2], t[2]) /\ Tagged(f[3], t[3]) /\ Tagged(f[4], t[4])
        BY <1>1, <2>1, PacketTags, Zenon
      <3> QED
        BY <2>3, <3>1
    <2>5. \A b \in {1, 2, 3, 4} : b # a => t[b] # t[a]
      <3>1. CASE a = 1
        BY <2>1, <3>1
      <3>2. CASE a = 2
        BY <2>1, <3>2
      <3>3. CASE a = 3
        BY <2>1, <3>3
      <3>4. CASE a = 4
        BY <2>1, <3>4
      <3> QED
        BY <2>3, <3>1, <3>2, <3>3, <3>4
    <2>6. \A b \in 1..Len(f) : b \in {1, 2, 3, 4}
      BY <1>1
    <2> QED
      BY <2>2, <2>4, <2>5, <2>6, Zenon DEF t
  <1>6. CASE p = "ati"
    <2>1. /\ t[1] = "+ATI:" /\ t[2] = "OK" /\ t[3] = "ERROR"
          /\ t[4] = "+CMS ERROR:" /\ t[5] = "+CME ERROR:"
      BY <1>6 DEF TagOf, t
    <2>2. PackOf[p] = g
      BY <1>3, <1>6
    <2>3. a \in {1, 2, 3, 4, 5}
      <3>1. a \in 1..Len(g)
        BY <2>2, Zenon
      <3>2. a \in 1..5
        BY <1>4, <3>1
      <3> QED
        BY <3>2
    <2>4. Tagged(g[a], t[a])
      <3>1. /\ Tagged(g[1], t[1]) /\ Tagged(g[2], t[2]) /\ Tagged(g[3], t[3])
            /\ Tagged(g[4], t[4]) /\ Tagged(g[5], t[5])
        BY <1>4, <2>1, PacketTags, Zenon
      <3> QED
        BY <2>3, <3>1
    <2>5. \A b \in {1, 2, 3, 4, 5} : b # a => t[b] # t[a]
      <3>1. CASE a = 1
        BY <2>1, <3>1
      <3>2. CASE a = 2
        BY <2>1, <3>2
      <3>3. CASE a = 3
        BY <2>1, <3>3
      <3>4. CASE a = 4
        BY <2>1, <3>4
      <3>5. CASE a = 5
        BY <2>1, <3>5
      <3> QED
        BY <2>3, <3>1, <3>2, <3>3, <3>4, <3>5
    <2>6. \A b \in 1..Len(g) : b \in {1, 2, 3, 4, 5}
      BY <1>4
    <2> QED
      BY <2>2, <2>4, <2>5, <2>6, Zenon DEF t
  <1> QED
    BY <1>5, <1>6

-----------------------------------------------------------------------------
(* A pack that ends in AnyUrc: a named URC cannot turn up in front of the line *)
(* that was taken, since nothing in it but its end is part of a CRLF.          *)

NoCr(text, p) == \A i \in 1..p : text[i] # "\r"

LEMMA BlanksNoCr ==
    ASSUME NEW text \in Words, NEW p \in 0..Len(text), NoCr(text, p)
    PROVE  NoCr(text, Skip(text, p))
  <1> DEFINE q == Skip(text, p)
  <1>1. q \in p..Len(text) /\ Blanks(text, p, q) /\ p \in Nat /\ Len(text) \in Nat
    BY SkipIs DEF Words
  <1> HIDE DEF q
  <1>2. ASSUME NEW i \in 1..q PROVE text[i] # "\r"
    <2>1. CASE i <= p
      BY <1>1, <2>1 DEF NoCr
    <2>2. CASE i > p
      <3>1. i - 1 \in p..(q - 1) /\ (i - 1) + 1 = i
        BY <1>1, <2>2
      <3>2. text[i] \in Blank
        BY <1>1, <3>1 DEF Blanks
      <3> QED
        BY <3>2 DEF Blank
    <2> QED
      BY <1>1, <2>1, <2>2
  <1> QED
    BY <1>2 DEF NoCr, q

\* One character further: a tag, or the name of an enum value.
LEMMA WordNoCr ==
    ASSUME NEW text \in Words, NEW p \in 0..Len(text), NoCr(text, p),
           text[Skip(text, p) + 1] # "\r"
    PROVE  NoCr(text, Skip(text, p) + 1)
  <1>1. NoCr(text, Skip(text, p)) /\ Skip(text, p) \in Nat
    BY BlanksNoCr, SkipIs DEF Words
  <1>2. \A i \in 1..(Skip(text, p) + 1) : i \in 1..Skip(text, p) \/ i = Skip(text, p) + 1
    BY <1>1
  <1> QED
    BY <1>1, <1>2 DEF NoCr

LEMMA CpinNoCr ==
    ASSUME NEW text \in Words, NEW k \in Ends(CpinReadResponse, 3, text)
    PROVE  k - 2 \in Nat /\ NoCr(text, k - 2)
  <1> DEFINE names == <<"PH_SIM_PIN", "READY", "SIM_PIN">>
             tag == <<"+CPIN: ">>
             items == CpinReadResponse
             q == Skip(text, 0)
  <1>1. items[1] = Must(tag) /\ items[2] = Named(names) /\ items[3] = Must(CrLf)
    <2>1. \A x, y, z : <<x, y, z>>[1] = x /\ <<x, y, z>>[2] = y /\ <<x, y, z>>[3] = z
      OBVIOUS
    <2> QED
      BY <2>1, PackItems, Zenon
  <1>2. /\ Ends(items, 0, text) = {0}
        /\ \A i \in 1..3 : Ends(items, i, text) = Onward(items[i], Ends(items, i - 1, text), text)
        /\ \A i \in 0..3 : Ends(items, i, text) \subseteq 0..Len(text)
    BY EndsSteps
  <1> HIDE DEF items
  <1>3. /\ 1 \in 1..3 /\ 2 \in 1..3 /\ 3 \in 1..3 /\ 1 - 1 = 0 /\ 2 - 1 = 1 /\ 3 - 1 = 2
        /\ 1 \in 0..3 /\ 2 \in 0..3 /\ 0 \in 0..Len(text) /\ Len(text) \in Nat
    BY DEF Words
  <1>4. /\ Ends(items, 1, text) = Onward(items[1], {0}, text)
        /\ Ends(items, 2, text) = Onward(items[2], Ends(items, 1, text), text)
        /\ Ends(items, 3, text) = Onward(items[3], Ends(items, 2, text), text)
    BY <1>2, <1>3, Zenon
  <1>5. Must(tag) \in GoodItems /\ Named(names) \in GoodItems /\ Must(CrLf) \in GoodItems
    <2>1. \A x \in GoodLiterals : x \in GoodItems
      BY DEF GoodItems
    <2>2. Must(tag) \in GoodLiterals
      BY Tags
    <2>3. Must(CrLf) \in GoodLiterals
      BY PackLiterals
    <2>4. Named(names) \in GoodItems
      BY PackFields
    <2> QED
      BY <2>1, <2>2, <2>3, <2>4
  <1>6. NoCr(text, 0)
    BY DEF NoCr
  <1>7. ASSUME NEW p \in Ends(items, 1, text) PROVE p \in 0..Len(text) /\ NoCr(text, p)
    <2>1. p \in After(Must(tag), 0, text)
      BY <1>1, <1>4 DEF Onward
    <2>2. Must(tag).visit = "sequence" /\ Must(tag).must = TRUE /\ Must(tag).arg = tag
      BY DEF Must
    <2>3. p \in Here(Must(tag), 0, text)
      BY <1>3, <1>5, <2>1, <2>2, AfterIsHere
    <2>4. Len(tag) = 1 /\ tag[1] = "+CPIN: "
      OBVIOUS
    <2>5. tag \in Words
      BY <1>5, <2>2, GoodKinds
    <2> HIDE DEF tag
    <2>6. AtFront(tag, text, q) /\ p = q + 1
      <3> DEFINE item == Must(tag)
      <3>1. item \in GoodItems /\ item.visit = "sequence" /\ item.arg = tag /\ p \in Here(item, 0, text)
        BY <1>5, <2>2, <2>3
      <3> HIDE DEF item
      <3>2. Here(item, 0, text) = IF AtFront(item.arg, text, q) THEN {q + Len(item.arg)} ELSE {}
        BY <1>3, <3>1, LiteralHere
      <3> QED
        BY <2>4, <3>1, <3>2
    <2>7. q \in Nat
      BY <1>3, SkipIs
    <2> HIDE DEF q
    <2>8. \A j \in 1..1 : text[q + j] = tag[j]
      <3>1. \A j \in 1..Len(tag) : text[q + j] = tag[j]
        BY <2>5, <2>6, <2>7, AtFrontIs
      <3> QED
        BY <2>4, <3>1
    <2>9. text[q + 1] # "\r"
      <3>1. 1 \in 1..1
        OBVIOUS
      <3>2. text[q + 1] = "+CPIN: "
        BY <2>4, <2>8, <3>1
      <3> QED
        BY <3>2
    <2>10. NoCr(text, q + 1)
      BY <1>3, <1>6, <2>9, WordNoCr DEF q
    <2> QED
      BY <1>2, <1>3, <2>6, <2>10
  <1>8. ASSUME NEW p \in Ends(items, 2, text) PROVE p \in 0..Len(text) /\ NoCr(text, p)
    <2> DEFINE item == Named(names)
    <2>1. PICK r \in Ends(items, 1, text) : p \in After(item, r, text)
      BY <1>1, <1>4 DEF Onward
    <2>2. r \in 0..Len(text) /\ NoCr(text, r)
      BY <1>7
    <2>3. item.visit = "name" /\ item.must = TRUE /\ item.arg = names
      BY DEF Named
    <2>4. item \in GoodItems
      BY <1>5
    <2> HIDE DEF item
    <2>5. p \in Here(item, r, text)
      BY <2>1, <2>2, <2>3, <2>4, AfterIsHere
    <2> DEFINE s == Skip(text, r)
    <2>6. Here(item, r, text) =
             IF \E i \in DOMAIN item.arg : AtFront(<<item.arg[i]>>, text, s) THEN {s + 1} ELSE {}
      BY <2>2, <2>3, <2>4, NameHere
    <2>7. s \in Nat
      BY <2>2, SkipIs DEF Words
    <2> HIDE DEF s
    <2>8. p = s + 1
      BY <2>5, <2>6
    <2>9. PICK i \in DOMAIN names : AtFront(<<names[i]>>, text, s)
      BY <2>3, <2>5, <2>6
    <2>10. names[i] \in {"PH_SIM_PIN", "READY", "SIM_PIN"}
      <3>1. DOMAIN names = 1..3
        OBVIOUS
      <3>2. i \in {1, 2, 3}
        BY <3>1
      <3> QED
        BY <3>2
    <2> DEFINE w == names[i]
    <2>11. w # "\r"
      BY <2>10
    <2>12. w \in Chars
      BY <2>10 DEF Chars
    <2> HIDE DEF w
    <2>13. <<w>> \in Words /\ Len(<<w>>) = 1 /\ <<w>>[1] = w
      BY <2>12 DEF Words
    <2>14. AtFront(<<w>>, text, s)
      BY <2>9 DEF w
    <2>15. \A j \in 1..Len(<<w>>) : text[s + j] = <<w>>[j]
      BY <2>7, <2>13, <2>14, AtFrontIs
    <2>16. text[s + 1] = w
      <3>1. 1 \in 1..Len(<<w>>)
        BY <2>13
      <3>2. text[s + 1] = <<w>>[1]
        BY <2>15, <3>1
      <3> QED
        BY <2>13, <3>2
    <2>17. NoCr(text, s + 1)
      BY <2>2, <2>11, <2>16, WordNoCr DEF s
    <2> QED
      BY <1>2, <1>3, <2>8, <2>17
  <1>9. PICK p \in Ends(items, 2, text) : k \in After(Must(CrLf), p, text)
    BY <1>1, <1>4 DEF Onward, items
  <1>10. p \in 0..Len(text) /\ NoCr(text, p)
    BY <1>8
  <1>11. Must(CrLf).visit = "sequence" /\ Must(CrLf).must = TRUE /\ Must(CrLf).arg = CrLf
    BY DEF Must
  <1>12. k \in Here(Must(CrLf), p, text)
    BY <1>5, <1>9, <1>10, <1>11, AfterIsHere
  <1>13. k = Skip(text, p) + 2
    BY <1>5, <1>10, <1>11, <1>12, CrLfIs, LiteralHere
  <1>14. Skip(text, p) \in Nat /\ NoCr(text, Skip(text, p))
    BY <1>10, SkipIs, BlanksNoCr DEF Words
  <1>15. k - 2 = Skip(text, p)
    BY <1>13, <1>14
  <1> QED
    BY <1>14, <1>15

\* What is there of an item without options was there before more text came.
LEMMA AfterShorter ==
    ASSUME NEW text, NEW ext, Begins(text, ext), NEW item \in GoodItems, item.must,
           NEW p \in 0..Len(text), NEW r \in After(item, p, ext), r <= Len(text)
    PROVE  r \in After(item, p, text)
  <1> DEFINE present(t) == {e \in p..Len(t) : \E q \in p..e :
                           /\ item.visit = "line" => q = p
                           /\ AllBlank(SubSeq(t, p + 1, q)) /\ Stands(item, SubSeq(t, q + 1, e))}
  <1>1. Len(text) \in Nat /\ Len(ext) \in Nat /\ Len(text) <= Len(ext) /\ p \in Nat
    BY DEF Begins, Words
  <1>2. After(item, p, text) = present(text) /\ After(item, p, ext) = present(ext)
    BY DEF After
  <1>3. r \in present(ext)
    BY <1>2
  <1>4. PICK q \in p..r : /\ item.visit = "line" => q = p
                          /\ AllBlank(SubSeq(ext, p + 1, q)) /\ Stands(item, SubSeq(ext, q + 1, r))
    BY <1>3
  <1>5. /\ r \in Nat /\ q \in Nat /\ p <= q /\ q <= r /\ r <= Len(text) /\ q <= Len(text)
        /\ r \in p..Len(text)
    BY <1>1, <1>3, <1>4
  <1>6. SubSeq(ext, p + 1, q) = SubSeq(text, p + 1, q) /\ SubSeq(ext, q + 1, r) = SubSeq(text, q + 1, r)
    BY <1>1, <1>5, SamePart
  <1>7. r \in present(text)
    BY <1>4, <1>5, <1>6
  <1> QED
    BY <1>2, <1>7

LEMMA EndsShorter ==
    ASSUME NEW items, WellFormed(items), \A i \in 1..Len(items) : items[i].must,
           NEW text, NEW ext, Begins(text, ext),
           NEW k \in Ends(items, Len(items), ext), k <= Len(text)
    PROVE  k \in Ends(items, Len(items), text)
  <1> DEFINE N == Len(items)
             S == {n \in 0..N : \A r \in Ends(items, n, ext) :
                                   r <= Len(text) => r \in Ends(items, n, text)}
  <1>1. /\ N \in Nat /\ text \in Words /\ ext \in Words /\ Len(text) \in Nat
        /\ Len(ext) \in Nat /\ Len(text) <= Len(ext)
    BY DEF WellFormed, Begins, Words
  <1>2. /\ Ends(items, 0, text) = {0} /\ Ends(items, 0, ext) = {0}
        /\ \A i \in 1..N : Ends(items, i, text) = Onward(items[i], Ends(items, i - 1, text), text)
        /\ \A i \in 1..N : Ends(items, i, ext) = Onward(items[i], Ends(items, i - 1, ext), ext)
        /\ \A i \in 0..N : Ends(items, i, ext) \subseteq 0..Len(ext)
    BY <1>1, EndsSteps
  <1>3. 0 \in S
    BY <1>1, <1>2
  <1>4. ASSUME NEW i \in 1..N, i - 1 \in S PROVE i \in S
    <2>1. i - 1 \in 0..N /\ i \in 0..N
      BY <1>1
    <2>2. items[i] \in GoodItems /\ items[i].must
      BY DEF WellFormed
    <2>3. ASSUME NEW r \in Ends(items, i, ext), r <= Len(text) PROVE r \in Ends(items, i, text)
      <3>1. PICK p \in Ends(items, i - 1, ext) : r \in After(items[i], p, ext)
        BY <1>2 DEF Onward
      <3>2. p \in 0..Len(ext) /\ r \in p..Len(ext)
        <4>1. p \in 0..Len(ext)
          BY <1>2, <2>1, <3>1
        <4> QED
          BY <3>1, <4>1, AfterRange
      <3>3. p <= Len(text) /\ p \in 0..Len(text)
        BY <1>1, <2>3, <3>2
      <3>4. p \in Ends(items, i - 1, text)
        BY <1>4, <3>1, <3>3
      <3>5. r \in After(items[i], p, text)
        BY <2>2, <2>3, <3>1, <3>3, AfterShorter
      <3> QED
        BY <1>2, <3>4, <3>5 DEF Onward
    <2> QED
      BY <2>1, <2>3
  <1> HIDE DEF S
  <1>5. 0..N \subseteq S
    BY <1>1, <1>3, <1>4, BoundedInduction
  <1>6. N \in S
    BY <1>1, <1>5
  <1> QED
    BY <1>6 DEF S

\* A text a line was taken from has no named URC in front, and gets none.
LEMMA CpinStaysAbsent ==
    ASSUME NEW items, WellFormed(items), NEW text, NEW ext, Begins(text, ext),
           Ends(items, Len(items), text) # {},
           Ends(CpinReadResponse, Len(CpinReadResponse), text) = {}
    PROVE  Ends(CpinReadResponse, Len(CpinReadResponse), ext) = {}
  <1> DEFINE cpin == CpinReadResponse
  <1>1. /\ text \in Words /\ ext \in Words /\ Len(text) \in Nat /\ Len(ext) \in Nat
        /\ \A j \in 1..Len(text) : ext[j] = text[j]
    BY DEF Begins, Words
  <1>2. WellFormed(cpin)
    BY PacketsWellFormed DEF WellFormedPackets
  <1>3. Len(cpin) = 3 /\ \A i \in 1..3 : cpin[i].must = TRUE
    <2> DEFINE name == Named(<<"PH_SIM_PIN", "READY", "SIM_PIN">>)
               tag == Must(<<"+CPIN: ">>)
               last == Must(CrLf)
    <2>1. tag.must = TRUE /\ name.must = TRUE /\ last.must = TRUE
      BY DEF Must, Named
    <2>2. cpin = <<tag, name, last>>
      BY PackItems
    <2> HIDE DEF cpin, tag, name, last
    <2>3. Len(cpin) = 3 /\ cpin[1] = tag /\ cpin[2] = name /\ cpin[3] = last
      BY <2>2
    <2>4. \A i \in 1..3 : i \in {1, 2, 3}
      OBVIOUS
    <2> QED
      BY <2>1, <2>3, <2>4
  <1> HIDE DEF cpin
  <1>4. PICK k \in Ends(items, Len(items), text) : TRUE
    OBVIOUS
  <1>5. PICK p \in 0..Len(text) :
           Skip(text, p) \in p..Len(text) /\ AtFront(CrLf, text, Skip(text, p))
    BY <1>1, <1>4, LastItem
  <1> DEFINE s == Skip(text, p)
  <1>6. s \in Nat /\ AtFront(CrLf, text, s)
    BY <1>1, <1>5
  <1> HIDE DEF s
  <1>7. s + 2 <= Len(text) /\ text[s + 1] = "\r"
    BY <1>1, <1>6, CrLfAtFront
  <1>8. ASSUME NEW l \in Ends(cpin, 3, ext) PROVE FALSE
    <2>1. l \in 0..Len(ext)
      <3>1. \A i \in 0..3 : Ends(cpin, i, ext) \subseteq 0..Len(ext)
        BY <1>1, EndsSteps
      <3>2. 3 \in 0..3
        OBVIOUS
      <3> QED
        BY <3>1, <3>2
    <2>2. ~(l <= Len(text))
      <3> SUFFICES ASSUME l <= Len(text) PROVE FALSE
        OBVIOUS
      <3>1. \A i \in 1..Len(cpin) : cpin[i].must
        BY <1>3
      <3>2. l \in Ends(cpin, Len(cpin), text)
        BY <1>2, <1>3, <3>1, EndsShorter
      <3> QED
        BY <3>2 DEF cpin
    <2>3. NoCr(ext, l - 2)
      BY <1>1, CpinNoCr DEF cpin
    <2>4. s + 1 \in 1..(l - 2) /\ s + 1 \in 1..Len(text)
      BY <1>1, <1>6, <1>7, <2>1, <2>2
    <2>5. ext[s + 1] = "\r"
      BY <1>1, <1>7, <2>4
    <2> QED
      BY <2>3, <2>4, <2>5 DEF NoCr
  <1> QED
    BY <1>3, <1>8 DEF cpin

-----------------------------------------------------------------------------
(* The verdict stands.                                                        *)

LEMMA UrcPack == Len(PackOf["urc"]) = 2 /\ PackOf["urc"][1] = CpinReadResponse
  <1> DEFINE X == WellFormedPackets
             c == CpinReadResponse
             u == <<AnyUrc>>
  <1>1. c \in X /\ u \in Seq(X) /\ Len(u) = 1
    BY PacketsWellFormed
  <1>2. PackOf["urc"] = <<c>> \o u
    BY DEF PackOf, Urc
  <1> HIDE DEF X, c, u
  <1>3. Len(<<c>> \o u) = Len(u) + 1 /\ (<<c>> \o u)[1] = c
    <2>1. \A a \in X, t \in Seq(X) : Len(<<a>> \o t) = Len(t) + 1 /\ (<<a>> \o t)[1] = a
      BY Prepend
    <2> QED
      BY <1>1, <2>1
  <1>4. Len(<<c>> \o u) = 2
    BY <1>1, <1>3
  <1> QED
    BY <1>2, <1>3, <1>4 DEF c

\* What was taken is what would be taken with more text there, and no packet that
\* comes earlier in the pack gets a sentence.
LEMMA VerdictStands ==
    ASSUME ParseTypes, NEW text, NEW ext, Begins(text, ext), NEW k,
           k \in SentenceEnds(alt, text), \A a \in 1..(alt - 1) : SentenceEnds(a, text) = {}
    PROVE  /\ SentenceEnds(alt, ext) = {k}
           /\ \A a \in 1..(alt - 1) : SentenceEnds(a, ext) = {}
  <1> DEFINE M == Len(Alternatives)
             items == Alternatives[alt]
  <1>1. M \in Nat /\ alt \in 1..M /\ \A a \in 1..M : WellFormed(Alternatives[a])
    BY Packs DEF ParseTypes
  <1>2. text \in Words /\ ext \in Words
    BY DEF Begins
  <1>3. WellFormed(items) /\ k \in Ends(items, Len(items), text)
    BY <1>1 DEF SentenceEnds
  <1> HIDE DEF items
  <1>4. k \in Ends(items, Len(items), ext)
    BY <1>3, EndsLonger
  <1>5. \A l \in Ends(items, Len(items), ext) : l = k
    BY <1>2, <1>3, <1>4, OneEnd
  <1>6. SentenceEnds(alt, ext) = {k}
    BY <1>4, <1>5 DEF SentenceEnds, items
  <1>7. ASSUME NEW a \in 1..(alt - 1) PROVE SentenceEnds(a, ext) = {}
    <2> DEFINE other == Alternatives[a]
    <2>1. a \in 1..M /\ a # alt /\ WellFormed(other)
      BY <1>1
    <2>2. Ends(other, Len(other), text) = {}
      BY DEF SentenceEnds
    <2>3. pack \in {"result", "ati", "urc", "test"}
      BY DEF ParseTypes, PackOf
    <2> HIDE DEF other
    <2>4. CASE pack \in {"result", "ati"}
      <3>1. Tagged(items, TagOf[pack][alt]) /\ Tagged(other, TagOf[pack][a])
            /\ TagOf[pack][a] # TagOf[pack][alt]
        BY <1>1, <2>1, <2>4, PackTags DEF items, other, Alternatives
      <3> SUFFICES ASSUME Ends(other, Len(other), ext) # {} PROVE FALSE
        BY DEF SentenceEnds, other
      <3>2. ext[TagAt(ext) + 1] = TagOf[pack][a]
        BY <1>2, <2>1, <3>1, TagFound
      <3>3. ext[TagAt(ext) + 1] = TagOf[pack][alt]
        BY <1>2, <1>3, <1>4, <3>1, TagFound
      <3> QED
        BY <3>1, <3>2, <3>3
    <2>5. CASE pack = "urc"
      <3>1. M = 2 /\ Alternatives[1] = CpinReadResponse
        BY <2>5, UrcPack DEF Alternatives
      <3>2. a = 1
        BY <1>1, <3>1
      <3>3. other = CpinReadResponse
        BY <3>1, <3>2 DEF other
      <3>4. Ends(other, Len(other), ext) = {}
        BY <1>3, <2>2, <3>3, CpinStaysAbsent
      <3> QED
        BY <3>4 DEF SentenceEnds, other
    <2>6. CASE pack = "test"
      <3>1. M = 1
        BY <2>6 DEF Alternatives, PackOf
      <3> QED
        BY <1>1, <3>1
    <2> QED
      BY <2>3, <2>4, <2>5, <2>6
  <1> QED
    BY <1>6, <1>7

\* Parsing before all of an answer has been read takes nothing that the rest of it
\* would have made something else, whatever the rest is: for every pack, every
\* text, every way of cutting it into reads.
THEOREM SpecSplitKeepsVerdict == Spec => []SplitKeepsVerdict
  <1>1. ASSUME ParseInv PROVE SplitKeepsVerdict
    <2> SUFFICES ASSUME phase = "matched", ~IllQuoted(input), NEW c \in Chunks[pack]
                 PROVE  /\ SentenceEnds(alt, input \o c) = {length}
                        /\ \A a \in 1..(alt - 1) : SentenceEnds(a, input \o c) = {}
      BY DEF SplitKeepsVerdict
    <2>1. ParseTypes /\ input \in Words /\ pack \in DOMAIN PackOf
      BY <1>1 DEF ParseInv, ParseTypes
    <2>2. Begins(input, input \o c)
      BY <2>1, ReceivedWords, ConcatBegins
    <2>3. /\ length \in SentenceEnds(alt, input)
          /\ \A a \in 1..(alt - 1) : SentenceEnds(a, input) = {}
      BY <1>1 DEF ParseInv, Verdicts
    <2> QED
      BY <2>1, <2>2, <2>3, VerdictStands
  <1> QED
    BY <1>1, SpecParseInv, PTL

-----------------------------------------------------------------------------
(* What from_chars makes of what to_chars has written.                        *)

LEMMA DigitValues == \A k \in 0..9 : Digit[k + 1] \in Digits /\ DigitValue[Digit[k + 1]] = k
  <1> SUFFICES ASSUME NEW k \in 0..9
               PROVE  Digit[k + 1] \in Digits /\ DigitValue[Digit[k + 1]] = k
    OBVIOUS
  <1>1. \A i, j \in 1..10 : Digit[i] = Digit[j] => i = j
    <2>1. /\ Digit[1] = "0" /\ Digit[2] = "1" /\ Digit[3] = "2" /\ Digit[4] = "3" /\ Digit[5] = "4"
          /\ Digit[6] = "5" /\ Digit[7] = "6" /\ Digit[8] = "7" /\ Digit[9] = "8" /\ Digit[10] = "9"
      BY DEF Digit
    <2>2. \A i \in 1..10 : i \in {1, 2, 3, 4, 5, 6, 7, 8, 9, 10}
      OBVIOUS
    <2> QED
      BY <2>1, <2>2
  <1> DEFINE d == Digit[k + 1]
  <1>2. k + 1 \in 1..10
    OBVIOUS
  <1>3. d \in {Digit[i] : i \in 1..10}
    BY <1>2
  <1> DEFINE c == CHOOSE i \in 1..10 : Digit[i] = d
  <1>4. c = k + 1
    <2>1. \A i \in 1..10 : Digit[i] = d <=> i = k + 1
      BY <1>1, <1>2
    <2> HIDE DEF d
    <2> QED
      BY <1>2, <2>1
  <1>5. DigitValue[d] = c - 1
    BY <1>3 DEF DigitValue
  <1>6. d \in Digits
    BY <1>3 DEF Digits, DigitValue
  <1> HIDE DEF c, d
  <1>7. DigitValue[d] = k
    BY <1>4, <1>5
  <1> QED
    BY <1>6, <1>7 DEF d

\* v follows the value of the numeral d from its place o on.
Reads(v, o, d) ==
    v[o] = 0 /\ \A i \in 1..Len(d) : v[o + i] = 10 * v[o + i - 1] + DigitValue[d[i]]

\* The decimal notation of n is read as n.
ReadAs(n) ==
    /\ \A i \in 1..Len(Decimal[n]) : Decimal[n][i] \in Digits
    /\ \A v : \A o \in Nat : Reads(v, o, Decimal[n]) => v[o + Len(Decimal[n])] = n

LEMMA ReadsShorter ==
    ASSUME NEW y \in Words, NEW x \in Chars, NEW v, NEW o \in Nat, Reads(v, o, Append(y, x))
    PROVE  /\ Reads(v, o, y) /\ Len(Append(y, x)) = Len(y) + 1
           /\ v[o + (Len(y) + 1)] = 10 * v[o + Len(y)] + DigitValue[x]
  <1> DEFINE d == Append(y, x)
  <1>1. y \in Seq(Chars) /\ Len(y) \in Nat
    BY DEF Words
  <1>2. Len(d) = Len(y) + 1 /\ d[Len(y) + 1] = x /\ \A i \in 1..Len(y) : d[i] = y[i]
    BY <1>1, AppendProperties
  <1>3. v[o] = 0 /\ \A i \in 1..Len(d) : v[o + i] = 10 * v[o + i - 1] + DigitValue[d[i]]
    BY DEF Reads
  <1> HIDE DEF d
  <1>4. ASSUME NEW i \in 1..Len(y) PROVE v[o + i] = 10 * v[o + i - 1] + DigitValue[y[i]]
    <2>1. i \in 1..Len(d) /\ d[i] = y[i]
      BY <1>1, <1>2
    <2>2. v[o + i] = 10 * v[o + i - 1] + DigitValue[d[i]]
      BY <1>3, <2>1
    <2> QED
      BY <2>1, <2>2
  <1>5. Len(y) + 1 \in 1..Len(d) /\ o + (Len(y) + 1) - 1 = o + Len(y)
    BY <1>1, <1>2
  <1>6. v[o + (Len(y) + 1)] = 10 * v[o + (Len(y) + 1) - 1] + DigitValue[d[Len(y) + 1]]
    BY <1>3, <1>5
  <1>7. v[o + (Len(y) + 1)] = 10 * v[o + Len(y)] + DigitValue[x]
    BY <1>2, <1>5, <1>6
  <1> QED
    BY <1>2, <1>3, <1>4, <1>7 DEF Reads, d

LEMMA DecimalReadAs == \A n \in Nat : ReadAs(n)
  <1> DEFINE T == {n \in Nat : \A k \in 0..n : ReadAs(k)}
  <1>1. ASSUME NEW n \in Nat, \A k \in 0..(n - 1) : ReadAs(k) PROVE ReadAs(n)
    <2> DEFINE d == Decimal[n]
    <2>1. CASE n < 10
      <3> DEFINE x == Digit[n + 1]
      <3>1. x \in Digits /\ DigitValue[x] = n
        BY <2>1, DigitValues
      <3>2. d = <<x>>
        BY <2>1, DecimalText DEF DecimalStep
      <3> HIDE DEF x, d
      <3>3. Len(d) = 1 /\ d[1] = x
        BY <3>2
      <3>4. \A i \in 1..Len(d) : d[i] \in Digits
        <4>1. \A i \in 1..Len(d) : i = 1
          BY <3>3
        <4> QED
          BY <3>1, <3>3, <4>1
      <3>5. ASSUME NEW v, NEW o \in Nat, Reads(v, o, d) PROVE v[o + Len(d)] = n
        <4>1. 1 \in 1..Len(d) /\ o + 1 - 1 = o
          BY <3>3
        <4>2. v[o + 1] = 10 * v[o + 1 - 1] + DigitValue[d[1]] /\ v[o] = 0
          BY <3>5, <4>1 DEF Reads
        <4>3. v[o + 1] = 10 * 0 + n
          BY <3>1, <3>3, <4>1, <4>2
        <4>4. v[o + 1] = n
          BY <4>3
        <4> QED
          BY <3>3, <4>4
      <3> QED
        BY <3>4, <3>5 DEF ReadAs, d
    <2>2. CASE ~(n < 10)
      <3> DEFINE x == Digit[(n % 10) + 1]
                 m == n \div 10
                 y == Decimal[m]
      <3>1. n % 10 \in 0..9 /\ m \in Nat /\ m < n /\ n = 10 * m + (n % 10)
        BY <2>2, SmallerTenth
      <3>2. x \in Digits /\ DigitValue[x] = n % 10 /\ x \in Chars
        <4>1. (n % 10) + 1 \in 1..10
          BY <3>1
        <4> QED
          BY <3>1, <4>1, DigitValues, DigitIsCharacter
      <3>3. d = Append(y, x)
        BY <2>2, DecimalText DEF DecimalStep
      <3> HIDE DEF m
      <3>4. y \in Words /\ ReadAs(m)
        <4>1. m \in 0..(n - 1)
          BY <3>1
        <4> QED
          BY <1>1, <3>1, <4>1, DecimalText
      <3>5. /\ \A i \in 1..Len(y) : y[i] \in Digits
            /\ \A v : \A o \in Nat : Reads(v, o, y) => v[o + Len(y)] = m
        BY <3>4 DEF ReadAs
      <3> HIDE DEF x, y, d
      <3>6. /\ Len(y) \in Nat /\ Len(d) = Len(y) + 1 /\ d[Len(y) + 1] = x
            /\ \A i \in 1..Len(y) : d[i] = y[i]
        BY <3>2, <3>3, <3>4, AppendProperties DEF Words
      <3>7. ASSUME NEW i \in 1..Len(d) PROVE d[i] \in Digits
        <4>1. i \in 1..Len(y) \/ i = Len(y) + 1
          BY <3>6
        <4> QED
          BY <3>2, <3>5, <3>6, <4>1
      <3>8. ASSUME NEW v, NEW o \in Nat, Reads(v, o, d) PROVE v[o + Len(d)] = n
        <4>1. Reads(v, o, y) /\ v[o + (Len(y) + 1)] = 10 * v[o + Len(y)] + DigitValue[x]
          BY <3>2, <3>3, <3>4, <3>8, ReadsShorter
        <4>2. v[o + Len(y)] = m
          BY <3>5, <4>1
        <4>3. 10 * v[o + Len(y)] = 10 * m
          BY <4>2
        <4>4. v[o + (Len(y) + 1)] = 10 * m + (n % 10)
          BY <3>2, <4>1, <4>3
        <4> QED
          BY <3>1, <3>6, <4>4
      <3> QED
        BY <3>7, <3>8 DEF ReadAs, d
    <2> QED
      BY <2>1, <2>2
  <1>2. 0 \in T
    <2>1. ReadAs(0)
      <3>1. \A k \in 0..(0 - 1) : ReadAs(k)
        OBVIOUS
      <3> QED
        BY <1>1, <3>1
    <2>2. \A k \in 0..0 : k = 0
      OBVIOUS
    <2> QED
      BY <2>1, <2>2
  <1>3. ASSUME NEW n \in Nat, n \in T PROVE n + 1 \in T
    <2>1. n + 1 \in Nat /\ (n + 1) - 1 = n
      OBVIOUS
    <2>2. \A k \in 0..n : ReadAs(k)
      BY <1>3
    <2>3. ReadAs(n + 1)
      BY <1>1, <2>1, <2>2
    <2>4. \A k \in 0..(n + 1) : k \in 0..n \/ k = n + 1
      OBVIOUS
    <2> QED
      BY <2>1, <2>2, <2>3, <2>4
  <1>4. Nat \subseteq T
    <2> HIDE DEF T
    <2> QED
      BY <1>2, <1>3, SetInduction
  <1>5. \A n \in Nat : n \in 0..n
    OBVIOUS
  <1> QED
    BY <1>4, <1>5

\* The value that from_chars computes, place by place.
LEMMA NumberReads ==
    ASSUME NEW s \in Words, \A i \in 1..Len(s) : s[i] # "-" => s[i] \in Digits
    PROVE  \E v : /\ v[0] = 0
                  /\ \A i \in 1..Len(s) : /\ s[i] = "-" => v[i] = 0
                                          /\ s[i] # "-" => v[i] = 10 * v[i - 1] + DigitValue[s[i]]
                  /\ LET n == IF s[1] = "-" THEN 0 - v[Len(s)] ELSE v[Len(s)]
                     IN  Number(s) = IF n \in (0 - IntMax - 1)..IntMax THEN n ELSE NoNumber
  <1> DEFINE N == Len(s)
             unrolled(e) == [i \in 0..N |->
                 IF i = 0 THEN 0 ELSE IF s[i] = "-" THEN 0 ELSE 10 * e[i - 1] + DigitValue[s[i]]]
             E == CHOOSE e : e = unrolled(e)
             g == [p \in (1..N) \X Int |-> IF s[p[1]] = "-" THEN 0 ELSE 10 * p[2] + DigitValue[s[p[1]]]]
             n == IF s[1] = "-" THEN 0 - E[N] ELSE E[N]
  <1>1. N \in Nat
    BY DEF Words
  <1>2. \A c \in Digits : DigitValue[c] \in Int
    <2> SUFFICES ASSUME NEW c \in Digits PROVE DigitValue[c] \in Int
      OBVIOUS
    <2>1. PICK i \in 1..10 : c = Digit[i]
      BY DEF Digits, DigitValue
    <2>2. i - 1 \in 0..9 /\ (i - 1) + 1 = i
      OBVIOUS
    <2>3. DigitValue[c] = i - 1
      BY <2>1, <2>2, DigitValues
    <2> QED
      BY <2>2, <2>3
  <1>3. g \in [(1..N) \X Int -> Int]
    <2>1. ASSUME NEW p \in (1..N) \X Int
          PROVE  (IF s[p[1]] = "-" THEN 0 ELSE 10 * p[2] + DigitValue[s[p[1]]]) \in Int
      <3>1. p[1] \in 1..N /\ p[2] \in Int
        OBVIOUS
      <3>2. s[p[1]] # "-" => DigitValue[s[p[1]]] \in Int
        BY <1>2, <3>1
      <3> QED
        BY <3>1, <3>2
    <2> QED
      BY <2>1
  <1>4. \A i \in 1..N, x \in Int :
           g[<<i, x>>] = IF s[i] = "-" THEN 0 ELSE 10 * x + DigitValue[s[i]]
    OBVIOUS
  <1> HIDE DEF g, N
  <1>5. PICK f : Unrolls(f, N, Int, 0, g)
    <2>1. 0 \in Int
      OBVIOUS
    <2> QED
      BY <1>1, <1>3, <2>1, BoundedRecursion
  <1>6. f \in [0..N -> Int] /\ f[0] = 0 /\ \A i \in 1..N : f[i] = g[<<i, f[i - 1]>>]
    BY <1>5 DEF Unrolls
  <1>7. \A i \in 1..N : f[i] = IF s[i] = "-" THEN 0 ELSE 10 * f[i - 1] + DigitValue[s[i]]
    <2>1. \A i \in 1..N : f[i - 1] \in Int
      BY <1>1, <1>6
    <2> QED
      BY <1>4, <1>6, <2>1
  <1>8. f = unrolled(f)
    <2>1. \A i \in 0..N : i # 0 => i \in 1..N
      BY <1>1
    <2>2. \A i \in 0..N : f[i] =
             IF i = 0 THEN 0 ELSE IF s[i] = "-" THEN 0 ELSE 10 * f[i - 1] + DigitValue[s[i]]
      BY <1>6, <1>7, <2>1, Zenon
    <2> QED
      BY <1>6, <2>2
  <1>9. E = unrolled(E)
    BY <1>8
  <1>10. Number(s) = IF n \in (0 - IntMax - 1)..IntMax THEN n ELSE NoNumber
    BY DEF Number, N
  <1> HIDE DEF E
  <1>11. /\ E[0] = 0
         /\ \A i \in 1..N : E[i] = IF s[i] = "-" THEN 0 ELSE 10 * E[i - 1] + DigitValue[s[i]]
    <2>1. \A i \in 0..N : E[i] =
             IF i = 0 THEN 0 ELSE IF s[i] = "-" THEN 0 ELSE 10 * E[i - 1] + DigitValue[s[i]]
      BY <1>9, Zenon
    <2>2. 0 \in 0..N /\ \A i \in 1..N : i \in 0..N /\ i # 0
      BY <1>1
    <2> QED
      BY <2>1, <2>2, Zenon
  <1>12. \A i \in 1..N : /\ s[i] = "-" => E[i] = 0
                         /\ s[i] # "-" => E[i] = 10 * E[i - 1] + DigitValue[s[i]]
    BY <1>11, Zenon
  <1> QED
    BY <1>10, <1>11, <1>12, Zenon DEF N

\* What to_chars writes from_chars reads.
LEMMA NumberOf ==
    ASSUME NEW n \in (0 - IntMax - 1)..IntMax
    PROVE  IsNumeral(ToChars(n)) /\ Number(ToChars(n)) = n /\ ToChars(n)[1] \notin Blank
  <1>1. n \in Int /\ IntMax \in Nat
    BY PacketAssumption
  <1> DEFINE s == ToChars(n)
             m == IF n < 0 THEN 0 - n ELSE n
             d == Decimal[m]
  <1>2. m \in Nat
    BY <1>1
  <1>3. d \in Words /\ d # << >> /\ Len(d) \in Nat /\ Len(d) >= 1 /\ ReadAs(m)
    <2>1. d \in Words /\ d # << >> /\ ReadAs(m)
      BY <1>2, DecimalText, DecimalReadAs
    <2> HIDE DEF d
    <2> QED
      BY <2>1, EmptySeq DEF Words
  <1>4. /\ \A i \in 1..Len(d) : d[i] \in Digits
        /\ \A v : \A o \in Nat : Reads(v, o, d) => v[o + Len(d)] = m
    BY <1>3 DEF ReadAs
  <1>5. s = IF n < 0 THEN <<"-">> \o d ELSE d
    BY <1>1 DEF ToChars
  <1>6. s \in Words
    BY <1>1, ToCharsText
  <1> HIDE DEF s, m, d
  <1>7. DOMAIN d = 1..Len(d) /\ 1 \in 1..Len(d)
    BY <1>3 DEF Words
  <1>8. CASE n < 0
    <2> DEFINE u == <<"-">>
    <2>1. u \in Words /\ Len(u) = 1 /\ u[1] = "-"
      <3>1. \A c \in Chars : <<c>> \in Words
        BY DEF Words
      <3>2. "-" \in Chars
        BY DEF Chars
      <3> QED
        BY <3>1, <3>2
    <2>2. s = u \o d
      BY <1>5, <1>8
    <2> HIDE DEF u
    <2>3. /\ Len(s) = 1 + Len(d)
          /\ \A i \in 1..(1 + Len(d)) : s[i] = IF i <= 1 THEN u[i] ELSE d[i - 1]
      <3>1. /\ Len(u \o d) = Len(u) + Len(d)
            /\ \A i \in 1..(Len(u) + Len(d)) :
                  (u \o d)[i] = IF i <= Len(u) THEN u[i] ELSE d[i - Len(u)]
        BY <1>3, <2>1, ConcatProperties DEF Words
      <3> QED
        BY <2>1, <2>2, <3>1
    <2>4. s[1] = "-" /\ s # << >>
      <3>1. 1 \in 1..(1 + Len(d)) /\ 1 <= 1
        BY <1>3
      <3>2. s[1] = "-"
        BY <2>1, <2>3, <3>1
      <3>3. Len(s) # 0
        BY <1>3, <2>3
      <3> QED
        BY <1>6, <3>2, <3>3, EmptySeq DEF Words
    <2>5. \A i \in 1..Len(d) : s[i + 1] = d[i]
      <3> SUFFICES ASSUME NEW i \in 1..Len(d) PROVE s[i + 1] = d[i]
        OBVIOUS
      <3>1. i + 1 \in 1..(1 + Len(d)) /\ ~(i + 1 <= 1) /\ (i + 1) - 1 = i
        BY <1>3
      <3> QED
        BY <2>3, <3>1
    <2>6. \A i \in 1..Len(s) : s[i] # "-" => s[i] \in Digits
      <3> SUFFICES ASSUME NEW i \in 1..Len(s), s[i] # "-" PROVE s[i] \in Digits
        OBVIOUS
      <3>1. i - 1 \in 1..Len(d) /\ (i - 1) + 1 = i
        BY <1>3, <2>3, <2>4
      <3> QED
        BY <1>4, <2>5, <3>1
    <2>7. PICK v : /\ v[0] = 0
                   /\ \A i \in 1..Len(s) : /\ s[i] = "-" => v[i] = 0
                                           /\ s[i] # "-" => v[i] = 10 * v[i - 1] + DigitValue[s[i]]
                   /\ LET k == IF s[1] = "-" THEN 0 - v[Len(s)] ELSE v[Len(s)]
                      IN  Number(s) = IF k \in (0 - IntMax - 1)..IntMax THEN k ELSE NoNumber
      BY <1>6, <2>6, NumberReads
    <2>8. Reads(v, 1, d)
      <3>1. v[1] = 0
        <4>1. 1 \in 1..Len(s)
          BY <1>3, <2>3
        <4> QED
          BY <2>4, <2>7, <4>1
      <3>2. ASSUME NEW i \in 1..Len(d)
            PROVE  v[1 + i] = 10 * v[1 + i - 1] + DigitValue[d[i]]
        <4>1. 1 + i \in 1..Len(s) /\ s[1 + i] = d[i]
          BY <1>3, <2>3, <2>5
        <4>2. s[1 + i] # "-"
          BY <1>4, <4>1, CharacterClasses
        <4> QED
          BY <2>7, <4>1, <4>2
      <3> QED
        BY <3>1, <3>2 DEF Reads
    <2>9. v[Len(s)] = m
      <3>1. v[1 + Len(d)] = m
        BY <1>4, <2>8
      <3> QED
        BY <2>3, <3>1
    <2>10. Number(s) = n
      <3> DEFINE k == 0 - v[Len(s)]
      <3>1. k = n
        BY <1>1, <1>8, <2>9 DEF m
      <3>2. Number(s) = IF k \in (0 - IntMax - 1)..IntMax THEN k ELSE NoNumber
        BY <2>4, <2>7
      <3> HIDE DEF k
      <3> QED
        BY <3>1, <3>2
    <2>11. IsNumeral(s)
      <3>1. /\ Tail(s) \in Seq(Chars) /\ Len(Tail(s)) = Len(d)
            /\ \A i \in 1..Len(d) : Tail(s)[i] = d[i]
        <4>1. s \in Seq(Chars) /\ s # << >>
          BY <1>6, <2>4 DEF Words
        <4>2. /\ Tail(s) \in Seq(Chars) /\ Len(Tail(s)) = Len(s) - 1
              /\ \A i \in 1..Len(Tail(s)) : Tail(s)[i] = s[i + 1]
          BY <4>1, HeadTailProperties
        <4>3. Len(Tail(s)) = Len(d)
          BY <1>3, <2>3, <4>2
        <4> QED
          BY <2>5, <4>2, <4>3
      <3>2. Tail(s) # << >>
        <4>1. Len(Tail(s)) # 0
          BY <1>3, <3>1
        <4> QED
          BY <3>1, <4>1, EmptySeq
      <3>3. DOMAIN Tail(s) = 1..Len(d)
        BY <3>1
      <3>4. \A i \in DOMAIN Tail(s) : Tail(s)[i] \in Digits
        BY <1>4, <3>1, <3>3
      <3> QED
        BY <2>4, <3>2, <3>4 DEF IsNumeral, Digits
    <2> QED
      BY <2>4, <2>10, <2>11, CharacterClasses DEF s
  <1>9. CASE ~(n < 0)
    <2>1. s = d /\ m = n
      BY <1>5, <1>9 DEF m
    <2>2. s[1] \in Digits /\ s[1] # "-"
      BY <1>4, <1>7, <2>1, CharacterClasses
    <2>3. \A i \in 1..Len(s) : s[i] \in Digits /\ s[i] # "-"
      BY <1>4, <2>1, CharacterClasses
    <2>4. PICK v : /\ v[0] = 0
                   /\ \A i \in 1..Len(s) : /\ s[i] = "-" => v[i] = 0
                                           /\ s[i] # "-" => v[i] = 10 * v[i - 1] + DigitValue[s[i]]
                   /\ LET k == IF s[1] = "-" THEN 0 - v[Len(s)] ELSE v[Len(s)]
                      IN  Number(s) = IF k \in (0 - IntMax - 1)..IntMax THEN k ELSE NoNumber
      BY <1>6, <2>3, NumberReads
    <2>5. Reads(v, 0, d)
      <3>1. ASSUME NEW i \in 1..Len(d)
            PROVE  v[0 + i] = 10 * v[0 + i - 1] + DigitValue[d[i]]
        <4>1. 0 + i = i /\ 0 + i - 1 = i - 1
          BY <1>3
        <4>2. v[i] = 10 * v[i - 1] + DigitValue[d[i]]
          BY <2>1, <2>3, <2>4
        <4> QED
          BY <4>1, <4>2
      <3> QED
        BY <2>4, <3>1 DEF Reads
    <2>6. v[Len(s)] = n
      <3>1. v[0 + Len(d)] = m
        BY <1>4, <2>5
      <3>2. 0 + Len(d) = Len(s)
        BY <1>3, <2>1
      <3> QED
        BY <2>1, <3>1, <3>2
    <2>7. Number(s) = n
      BY <2>2, <2>4, <2>6
    <2>8. IsNumeral(s)
      BY <1>3, <1>7, <2>1, <2>2, <2>3 DEF IsNumeral, Digits
    <2> QED
      BY <2>2, <2>7, <2>8, CharacterClasses DEF s
  <1> QED
    BY <1>8, <1>9

\* A text without a quote is its own escape.
LEMMA NothingToEscape ==
    ASSUME NEW text \in Words, ~Occurs(Quote, text)
    PROVE  Escaped(text) = text
  <1> DEFINE N == Len(text)
             w == [i \in 1..N |-> Escape(text[i])]
             f == [i \in 0..N |-> SubSeq(text, 1, i)]
  <1>1. N \in Nat /\ text \in Seq(Chars) /\ DOMAIN text = 1..N
    BY DEF Words
  <1>2. PICK e : Joins(e, N, w) /\ Escaped(text) = e[N]
    BY EscapedJoins
  <1>3. \A i \in 1..N : w[i] = <<text[i]>>
    BY <1>1 DEF Escape, Occurs
  <1> HIDE DEF w
  <1>4. ASSUME NEW i \in 1..N PROVE f[i] = f[i - 1] \o w[i]
    <2>1. i \in 0..N /\ i - 1 \in 0..N /\ i \in Nat /\ i - 1 \in Nat /\ i - 1 <= N /\ i <= N /\ 0 + 1 = 1
      BY <1>1
    <2> DEFINE s == SubSeq(text, 1, i)
               t == SubSeq(text, 1, i - 1)
               c == <<text[i]>>
    <2>2. s \in Words /\ Len(s) = i /\ \A j \in 1..i : s[j] = text[j]
      <3>1. 0 \in Nat /\ 0 <= i /\ i - 0 = i
        BY <2>1
      <3>2. /\ SubSeq(text, 0 + 1, i) \in Words /\ Len(SubSeq(text, 0 + 1, i)) = i - 0
            /\ \A j \in 1..(i - 0) : SubSeq(text, 0 + 1, i)[j] = text[0 + j]
        BY <1>1, <2>1, <3>1, CutOut
      <3>3. \A j \in 1..i : 0 + j = j
        OBVIOUS
      <3> QED
        BY <2>1, <3>1, <3>2, <3>3
    <2>3. t \in Words /\ Len(t) = i - 1 /\ \A j \in 1..(i - 1) : t[j] = text[j]
      <3>1. 0 \in Nat /\ 0 <= i - 1 /\ (i - 1) - 0 = i - 1
        BY <2>1
      <3>2. /\ SubSeq(text, 0 + 1, i - 1) \in Words /\ Len(SubSeq(text, 0 + 1, i - 1)) = (i - 1) - 0
            /\ \A j \in 1..((i - 1) - 0) : SubSeq(text, 0 + 1, i - 1)[j] = text[0 + j]
        BY <1>1, <2>1, <3>1, CutOut
      <3>3. \A j \in 1..(i - 1) : 0 + j = j
        OBVIOUS
      <3> QED
        BY <2>1, <3>1, <3>2, <3>3
    <2>4. c \in Words /\ Len(c) = 1 /\ c[1] = text[i]
      <3>1. \A x \in Chars : <<x>> \in Words
        BY DEF Words
      <3>2. text[i] \in Chars
        BY <1>1, ElementOfSeq
      <3> QED
        BY <3>1, <3>2
    <2>5. f[i] = s /\ f[i - 1] = t /\ w[i] = c
      BY <1>3, <2>1
    <2> HIDE DEF s, t, c, f
    <2>6. /\ t \o c \in Words /\ Len(t \o c) = i
          /\ \A j \in 1..i : (t \o c)[j] = IF j <= i - 1 THEN t[j] ELSE c[j - (i - 1)]
      <3>1. /\ t \o c \in Words /\ Len(t \o c) = Len(t) + Len(c)
            /\ \A j \in 1..(Len(t) + Len(c)) : (t \o c)[j] = IF j <= Len(t) THEN t[j] ELSE c[j - Len(t)]
        BY <2>3, <2>4, ConcatProperties DEF Words
      <3>2. Len(t) + Len(c) = i
        BY <2>1, <2>3, <2>4
      <3> QED
        BY <2>3, <3>1, <3>2
    <2>7. ASSUME NEW j \in 1..i PROVE (t \o c)[j] = s[j]
      <3>1. CASE j <= i - 1
        <4>1. j \in 1..(i - 1)
          BY <2>1, <3>1
        <4> QED
          BY <2>2, <2>3, <2>6, <3>1, <4>1
      <3>2. CASE ~(j <= i - 1)
        <4>1. j = i /\ j - (i - 1) = 1
          BY <2>1, <3>2
        <4> QED
          BY <2>2, <2>4, <2>6, <3>2, <4>1
      <3> QED
        BY <3>1, <3>2
    <2>8. t \o c = s
      BY <2>2, <2>6, <2>7, SeqEqual DEF Words
    <2> QED
      BY <2>5, <2>8
  <1>5. f[0] = << >>
    <2>1. 0 \in 0..N
      BY <1>1
    <2>2. SubSeq(text, 1, 0) = << >>
      BY <1>1, EmptySeq, CutOut
    <2> QED
      BY <2>1, <2>2
  <1>6. f[N] = text
    <2>1. N \in 0..N
      BY <1>1
    <2>2. SubSeq(text, 1, N) = text
      BY <1>1
    <2> QED
      BY <2>1, <2>2
  <1> HIDE DEF f, N
  <1>7. Joins(f, N, w)
    BY <1>4, <1>5 DEF Joins
  <1>8. e[N] = f[N]
    <2>1. \A i \in 0..N : e[i] = f[i]
      BY <1>1, <1>2, <1>7, ConcatUnique
    <2> QED
      BY <1>1, <2>1
  <1> QED
    BY <1>2, <1>6, <1>8

-----------------------------------------------------------------------------
(* What has been written is in its place, and is visited there.               *)

\* A field never holds more than there is room for before its NUL.
LEMMA FillFits ==
    ASSUME field \in Words, Len(field) <= Capacity, Fill
    PROVE  Len(field') <= Capacity
  <1>1. Len(field) \in Nat /\ Capacity \in Nat
    BY PacketAssumption DEF Capacity, Words
  <1>2. ASSUME NEW text \in Texts PROVE Len(StreamText(text)) <= Capacity
    <2>1. text \in Seq(Chars)
      <3>1. STRING \subseteq Chars
        BY DEF Chars
      <3>2. text \in Seq(STRING)
        BY SerializerAssumption
      <3> QED
        BY <3>1, <3>2, SeqMonotonic
    <2> DEFINE fits == Capacity - Len(field)
               n == IF Len(text) < fits THEN Len(text) ELSE fits
    <2>2. Len(text) \in Nat /\ n \in Nat /\ n <= Len(text) /\ Len(field) + n <= Capacity
      BY <1>1, <2>1
    <2>3. StreamText(text) = field \o SubSeq(text, 1, n)
      BY DEF StreamText
    <2> HIDE DEF n
    <2>4. SubSeq(text, 0 + 1, n) \in Words /\ Len(SubSeq(text, 0 + 1, n)) = n - 0
      BY <2>1, <2>2, CutOut DEF Words
    <2>5. 0 + 1 = 1 /\ n - 0 = n
      BY <2>2
    <2> QED
      BY <1>1, <2>2, <2>3, <2>4, <2>5, ConcatWords
  <1>3. ASSUME NEW n \in Numbers PROVE Len(StreamNumber(n)) <= Capacity
    <2>1. n \in Int
      BY SerializerAssumption, PacketAssumption
    <2>2. ToChars(n) \in Words
      BY <2>1, ToCharsText
    <2>3. Len(field \o ToChars(n)) = Len(field) + Len(ToChars(n))
      BY <2>2, ConcatWords
    <2> QED
      BY <1>1, <2>3 DEF StreamNumber
  <1> QED
    BY <1>2, <1>3 DEF Fill

\* A command is written piece after piece, and nothing that is written changes.
LEMMA PieceBegins ==
    ASSUME PiecesOk, NEW i \in 0..Len(Items)
    PROVE  Begins(Sentence(i), Sentence(Len(Items)))
  <1> DEFINE N == Len(Items)
             T == {j \in Nat : i <= j /\ j <= N => Begins(Sentence(i), Sentence(j))}
  <1>1. /\ N \in Nat /\ i \in Nat /\ i <= N
        /\ \A j \in 1..N : Sentence(j) = Sentence(j - 1) \o Piece(j) /\ Piece(j) \in Words
        /\ \A j \in 0..N : Sentence(j) \in Words
    BY CommandSentence DEF PiecesOk
  <1> HIDE DEF N
  <1>2. Begins(Sentence(i), Sentence(i))
    <2>1. Sentence(i) \in Words /\ Len(Sentence(i)) \in Nat
      BY <1>1 DEF Words
    <2> QED
      BY <2>1 DEF Begins
  <1>3. 0 \in T
    <2>1. i <= 0 => i = 0
      BY <1>1
    <2> QED
      BY <1>2, <2>1
  <1>4. ASSUME NEW j \in Nat, j \in T PROVE j + 1 \in T
    <2>1. j + 1 \in Nat
      OBVIOUS
    <2>2. ASSUME i <= j + 1, j + 1 <= N PROVE Begins(Sentence(i), Sentence(j + 1))
      <3>1. CASE i = j + 1
        BY <1>2, <3>1
      <3>2. CASE i # j + 1
        <4>1. i <= j /\ j <= N /\ j + 1 \in 1..N /\ (j + 1) - 1 = j /\ j \in 0..N
          BY <1>1, <2>2, <3>2
        <4>2. Begins(Sentence(i), Sentence(j))
          BY <1>4, <4>1
        <4>3. Sentence(j + 1) = Sentence(j) \o Piece(j + 1) /\ Piece(j + 1) \in Words
          BY <1>1, <4>1
        <4>4. Begins(Sentence(j), Sentence(j + 1))
          BY <1>1, <4>1, <4>3, ConcatBegins
        <4>5. /\ Len(Sentence(i)) \in Nat /\ Len(Sentence(j)) \in Nat /\ Len(Sentence(j + 1)) \in Nat
          BY <4>2, <4>4 DEF Begins, Words
        <4> QED
          BY <4>2, <4>4, <4>5 DEF Begins
      <3> QED
        BY <3>1, <3>2
    <2> QED
      BY <2>1, <2>2
  <1>5. Nat \subseteq T
    <2> HIDE DEF T
    <2> QED
      BY <1>3, <1>4, SetInduction
  <1> QED
    BY <1>1, <1>5 DEF N

\* A piece in what is written.
PieceAt(s, text, p) ==
    /\ s \in Words /\ s # << >> /\ text \in Words /\ p \in 0..Len(text)
    /\ AtFront(s, text, p)

LEMMA PieceThere ==
    ASSUME PiecesOk, NEW i \in 1..Len(Items)
    PROVE  /\ PieceAt(Piece(i), Sentence(Len(Items)), Len(Sentence(i - 1)))
           /\ Len(Sentence(i)) = Len(Sentence(i - 1)) + Len(Piece(i))
  <1> DEFINE text == Sentence(Len(Items))
             s == Sentence(i - 1)
             p == Len(s)
             x == Piece(i)
  <1>1. Len(Items) \in Nat /\ x \in Words /\ x # << >>
    BY DEF PiecesOk
  <1>2. i - 1 \in 0..Len(Items) /\ i \in 0..Len(Items)
    BY <1>1
  <1>3. s \in Words /\ Sentence(i) = s \o x
    BY <1>2, CommandSentence
  <1>4. Begins(s, text) /\ Begins(Sentence(i), text)
    BY <1>2, PieceBegins
  <1> HIDE DEF s, text, x
  <1>5. /\ p \in Nat /\ Len(x) \in Nat /\ Len(text) \in Nat
        /\ Len(s \o x) = p + Len(x) /\ s \o x \in Words
    BY <1>1, <1>3, <1>4, ConcatWords DEF Begins, Words
  <1>6. \A j \in 1..Len(x) : (s \o x)[p + j] = x[j]
    <2> SUFFICES ASSUME NEW j \in 1..Len(x) PROVE (s \o x)[p + j] = x[j]
      OBVIOUS
    <2>1. p + j \in 1..(p + Len(x)) /\ ~(p + j <= p) /\ (p + j) - p = j
      BY <1>5
    <2>2. \A k \in 1..(p + Len(x)) : (s \o x)[k] = IF k <= p THEN s[k] ELSE x[k - p]
      BY <1>1, <1>3, ConcatProperties DEF Words
    <2> QED
      BY <2>1, <2>2
  <1>7. AtFront(x, s \o x, p)
    <2>1. p + Len(x) <= Len(s \o x)
      BY <1>5
    <2>2. AtFront(x, s \o x, p) <=>
             p + Len(x) <= Len(s \o x) /\ \A j \in 1..Len(x) : (s \o x)[p + j] = x[j]
      BY <1>1, <1>5, AtFrontIs
    <2> QED
      BY <1>6, <2>1, <2>2
  <1>8. AtFront(x, text, p)
    BY <1>1, <1>3, <1>4, <1>5, <1>7, AtFrontLonger
  <1>9. p \in 0..Len(text) /\ text \in Words
    BY <1>4, <1>5 DEF Begins
  <1> QED
    BY <1>1, <1>3, <1>5, <1>8, <1>9 DEF PieceAt, s, text, x

\* What a visit makes of an item that is there.
Visited(item, text, p, r, stored) ==
    LET v == Visit(item, text, p) IN v.ok = TRUE /\ v.at = r /\ v.stored = stored

LEMMA PieceIs ==
    ASSUME NEW s, NEW text, NEW p, PieceAt(s, text, p)
    PROVE  /\ Len(s) \in Nat /\ Len(s) >= 1 /\ p \in Nat /\ Len(text) \in Nat
           /\ p + Len(s) \in p..Len(text)
           /\ SubSeq(text, p + 1, p + Len(s)) = s
           /\ \A j \in 1..Len(s) : text[p + j] = s[j]
           /\ text[p + 1] = s[1]
           /\ s[1] \notin Blank => Skip(text, p) = p
  <1>1. s \in Words /\ s # << >> /\ text \in Words /\ p \in 0..Len(text) /\ AtFront(s, text, p)
    BY DEF PieceAt
  <1>2. Len(s) \in Nat /\ Len(s) >= 1 /\ p \in Nat /\ Len(text) \in Nat
    <2>1. Len(s) \in Nat /\ Len(s) # 0 /\ Len(text) \in Nat
      BY <1>1, EmptySeq DEF Words
    <2> QED
      BY <1>1, <2>1
  <1>3. p + Len(s) <= Len(text) /\ SubSeq(text, p + 1, p + Len(s)) = s
    BY <1>1 DEF AtFront
  <1>4. \A j \in 1..Len(s) : text[p + j] = s[j]
    BY <1>1, <1>2, AtFrontIs
  <1>5. text[p + 1] = s[1]
    <2>1. 1 \in 1..Len(s)
      BY <1>2
    <2> QED
      BY <1>4, <2>1
  <1>6. ASSUME s[1] \notin Blank PROVE Skip(text, p) = p
    <2>1. p \in p..Len(text)
      BY <1>1, <1>2
    <2>2. Blanks(text, p, p)
      BY <1>2 DEF Blanks
    <2> QED
      BY <1>1, <1>5, <1>6, <2>1, <2>2, SkipUnique
  <1> QED
    BY <1>2, <1>3, <1>4, <1>5, <1>6

LEMMA LiteralVisited ==
    ASSUME NEW s, NEW text, NEW p, PieceAt(s, text, p), s[1] \notin Blank
    PROVE  Visited(Must(s), text, p, p + Len(s), << >>)
  <1>1. Skip(text, p) = p /\ AtFront(s, text, p) /\ s # << >>
    BY PieceIs DEF PieceAt
  <1>2. Must(s).visit = "sequence" /\ Must(s).arg = s
    BY DEF Must
  <1>3. Visit(Must(s), text, p) = VisitSequence(s, text, p)
    BY <1>2 DEF Visit
  <1>4. VisitSequence(s, text, p) = Result(TRUE, p + Len(s), << >>)
    BY <1>1 DEF VisitSequence
  <1> QED
    BY <1>3, <1>4 DEF Visited, Result

\* A number ends at the first character that is no digit.
LEMMA NumeralAt ==
    ASSUME NEW n \in (0 - IntMax - 1)..IntMax, NEW text, NEW p, PieceAt(ToChars(n), text, p),
           p + Len(ToChars(n)) < Len(text), text[p + Len(ToChars(n)) + 1] \notin Digits
    PROVE  /\ Skip(text, p) = p /\ NumeralEnd(text, p) = p + Len(ToChars(n))
           /\ FromChars(text, p) = n /\ n # NoNumber
  <1> DEFINE s == ToChars(n)
             r == p + Len(s)
             e == NumeralEnd(text, p)
  <1>1. IsNumeral(s) /\ Number(s) = n /\ s[1] \notin Blank
    BY NumberOf
  <1>2. /\ Len(s) \in Nat /\ p \in Nat /\ Len(text) \in Nat /\ r \in p..Len(text)
        /\ SubSeq(text, p + 1, r) = s /\ Skip(text, p) = p
    BY <1>1, PieceIs
  <1>3. text \in Words /\ p \in 0..Len(text)
    BY DEF PieceAt
  <1>4. e \in Nat
    <2>1. e \in FirstDigit(text, p)..Len(text) /\ FirstDigit(text, p) \in p..Len(text)
      BY <1>3, NumeralEndIs, FirstDigitIs
    <2> QED
      BY <1>2, <2>1
  <1>5. r <= e /\ (r < e => text[r + 1] \in Digits)
    <2> HIDE DEF r, s, e
    <2> QED
      BY <1>1, <1>2, <1>3, NumeralIs DEF e
  <1>6. e = r
    BY <1>2, <1>4, <1>5
  <1>7. FromChars(text, p) = n
    BY <1>1, <1>2, <1>6 DEF FromChars
  <1>8. n # NoNumber
    BY PacketAssumption DEF NoNumber
  <1> QED
    BY <1>2, <1>6, <1>7, <1>8

LEMMA IntVisited ==
    ASSUME NEW n \in (0 - IntMax - 1)..IntMax, NEW text, NEW p, PieceAt(ToChars(n), text, p),
           p + Len(ToChars(n)) < Len(text), text[p + Len(ToChars(n)) + 1] \notin Digits
    PROVE  Visited(Integer, text, p, p + Len(ToChars(n)), <<n>>)
  <1>1. /\ Skip(text, p) = p /\ NumeralEnd(text, p) = p + Len(ToChars(n))
        /\ FromChars(text, p) = n /\ n # NoNumber
    BY NumeralAt
  <1>2. Visit(Integer, text, p) = VisitInt(text, p)
    BY DEF Visit, Integer
  <1>3. VisitInt(text, p) = Result(TRUE, p + Len(ToChars(n)), <<n>>)
    BY <1>1 DEF VisitInt
  <1> QED
    BY <1>2, <1>3 DEF Visited, Result

LEMMA NumberVisited ==
    ASSUME NEW n \in 0..4, NEW text, NEW p, PieceAt(ToChars(n), text, p),
           p + Len(ToChars(n)) < Len(text), text[p + Len(ToChars(n)) + 1] \notin Digits
    PROVE  Visited(Numeric(0..4), text, p, p + Len(ToChars(n)), <<n>>)
  <1>1. n \in (0 - IntMax - 1)..IntMax
    BY PacketAssumption
  <1>2. /\ Skip(text, p) = p /\ NumeralEnd(text, p) = p + Len(ToChars(n))
        /\ FromChars(text, p) = n
    BY <1>1, NumeralAt
  <1>3. Visit(Numeric(0..4), text, p) = VisitNumber(0..4, text, p)
    BY DEF Visit, Numeric
  <1>4. VisitNumber(0..4, text, p) = Result(TRUE, p + Len(ToChars(n)), <<n>>)
    BY <1>2 DEF VisitNumber
  <1> QED
    BY <1>3, <1>4 DEF Visited, Result

LEMMA NameVisited ==
    ASSUME NEW text, NEW p, PieceAt(<<"Nine">>, text, p)
    PROVE  Visited(Named(<<"Five", "Nine">>), text, p, p + 1, <<"Nine">>)
  <1> DEFINE names == <<"Five", "Nine">>
             found == {i \in DOMAIN names : AtFront(<<names[i]>>, text, p)}
  <1>1. "Nine" \notin Blank
    BY DEF Blank
  <1>2. /\ Skip(text, p) = p /\ text[p + 1] = "Nine" /\ p \in Nat
        /\ AtFront(<<"Nine">>, text, p) /\ text \in Words
    <2> DEFINE s == <<"Nine">>
    <2>1. s[1] = "Nine" /\ PieceAt(s, text, p)
      OBVIOUS
    <2> HIDE DEF s
    <2>2. Skip(text, p) = p /\ p \in Nat
      BY <1>1, <2>1, PieceIs
    <2>3. text[p + 1] = s[1]
      BY <2>1, PieceIs
    <2>4. AtFront(s, text, p) /\ text \in Words
      BY <2>1 DEF PieceAt
    <2> QED
      BY <2>1, <2>2, <2>3, <2>4 DEF s
  <1>3. ~AtFront(<<"Five">>, text, p)
    <2>1. \A c \in Chars : <<c>> \in Words
      BY DEF Words
    <2>2. "Five" \in Chars
      BY DEF Chars
    <2>3. <<"Five">> \in Words /\ Len(<<"Five">>) = 1 /\ <<"Five">>[1] = "Five" /\ 1 \in 1..1
      BY <2>1, <2>2
    <2>4. AtFront(<<"Five">>, text, p) => text[p + 1] = "Five"
      BY <1>2, <2>3, AtFrontIs
    <2> QED
      BY <1>2, <2>4
  <1>4. DOMAIN names = {1, 2} /\ names[1] = "Five" /\ names[2] = "Nine"
    OBVIOUS
  <1>5. found = {2}
    <2> HIDE DEF names
    <2> QED
      BY <1>2, <1>3, <1>4
  <1>6. Least({2}) = 2
    BY DEF Least
  <1>7. Visit(Named(names), text, p) = VisitName(names, text, p)
    BY DEF Visit, Named
  <1>8. VisitName(names, text, p) = Result(TRUE, p + 1, <<"Nine">>)
    <2>1. found # {} /\ names[Least(found)] = "Nine"
      BY <1>4, <1>5, <1>6
    <2> HIDE DEF names
    <2> QED
      BY <1>2, <2>1 DEF VisitName
  <1> QED
    BY <1>7, <1>8 DEF Visited, Result

LEMMA QuotedVisited ==
    ASSUME NEW f \in Words, ~Occurs(Quote, f), Len(f) <= Capacity,
           NEW text, NEW p, PieceAt(WithQuotes(f), text, p)
    PROVE  Visited(Quoted, text, p, p + Len(WithQuotes(f)), <<f>>)
  <1> DEFINE w == WithQuotes(f)
             n == Len(f)
             r == p + Len(w)
  <1>1. n \in Nat /\ n + 1 <= FieldSize /\ FieldSize \in Nat
    BY PacketAssumption DEF Capacity, Words
  <1>2. w \in Words /\ Len(w) = n + 2
        /\ \A j \in 1..(n + 2) : w[j] = IF j = 1 THEN Quote ELSE IF j = n + 2 THEN Quote ELSE f[j - 1]
    <2>1. Quote \in Chars
      BY DEF Chars
    <2>2. w = Around(Quote, f, Quote)
      BY NothingToEscape DEF WithQuotes, Around
    <2> HIDE DEF w
    <2>3. /\ Around(Quote, f, Quote) \in Seq(Chars) /\ Len(Around(Quote, f, Quote)) = Len(f) + 2
          /\ \A j \in 1..(Len(f) + 2) : Around(Quote, f, Quote)[j] =
                IF j = 1 THEN Quote ELSE IF j = Len(f) + 2 THEN Quote ELSE f[j - 1]
      <3>1. f \in Seq(Chars)
        BY DEF Words
      <3> QED
        BY <2>1, <3>1, Surrounded
    <2> QED
      BY <2>2, <2>3 DEF Words
  <1> HIDE DEF n, w
  <1>3. w[1] = Quote /\ w[n + 2] = Quote /\ \A j \in 1..n : w[1 + j] = f[j]
    <2>1. 1 \in 1..(n + 2) /\ n + 2 \in 1..(n + 2)
      BY <1>1
    <2>2. w[1] = Quote
      BY <1>2, <2>1
    <2>3. w[n + 2] = Quote
      BY <1>2, <2>1
    <2>4. ASSUME NEW j \in 1..n PROVE w[1 + j] = f[j]
      <3>1. 1 + j \in 1..(n + 2) /\ 1 + j # 1 /\ 1 + j # n + 2 /\ (1 + j) - 1 = j
        BY <1>1
      <3> QED
        BY <1>2, <3>1
    <2> QED
      BY <2>2, <2>3, <2>4
  <1>4. /\ p \in Nat /\ Len(text) \in Nat /\ r \in p..Len(text) /\ SubSeq(text, p + 1, r) = w
        /\ Skip(text, p) = p /\ \A j \in 1..Len(w) : text[p + j] = w[j]
    <2>1. PieceAt(w, text, p) /\ w[1] \notin Blank
      <3>1. PieceAt(w, text, p)
        BY DEF w
      <3> QED
        BY <1>3, <3>1, CharacterClasses
    <2> HIDE DEF r
    <2>2. Skip(text, p) = p
      BY <2>1, PieceIs
    <2>3. \A j \in 1..Len(w) : text[p + j] = w[j]
      BY <2>1, PieceIs
    <2>4. SubSeq(text, p + 1, p + Len(w)) = w
      BY <2>1, PieceIs
    <2>5. p \in Nat /\ Len(text) \in Nat /\ p + Len(w) \in p..Len(text)
      BY <2>1, PieceIs
    <2> QED
      BY <2>2, <2>3, <2>4, <2>5 DEF r
  <1>5. text \in Words /\ p \in 0..Len(text)
    BY DEF PieceAt
  <1>6. SubSeq(w, 2, Len(w) - 1) = f
    <2>1. 1 \in Nat /\ n + 1 \in Nat /\ 1 <= n + 1 /\ n + 1 <= Len(w) /\ (n + 1) - 1 = n
          /\ Len(w) - 1 = n + 1 /\ 1 + 1 = 2
      BY <1>1, <1>2
    <2>2. /\ SubSeq(w, 1 + 1, n + 1) \in Words /\ Len(SubSeq(w, 1 + 1, n + 1)) = (n + 1) - 1
          /\ \A j \in 1..((n + 1) - 1) : SubSeq(w, 1 + 1, n + 1)[j] = w[1 + j]
      BY <1>2, <2>1, CutOut
    <2> DEFINE t == SubSeq(w, 2, n + 1)
    <2>3. t \in Words /\ Len(t) = n /\ \A j \in 1..n : t[j] = f[j]
      BY <1>3, <2>1, <2>2
    <2> HIDE DEF t
    <2>4. t = f
      BY <2>3, SeqEqual DEF n, Words
    <2> QED
      BY <2>1, <2>4 DEF t
  <1>7. Stands(Quoted, w)
    <2>1. Quoted.visit = "quoted" /\ Quoted.arg = FieldSize
      BY DEF Quoted
    <2>2. Len(w) \in 2..(FieldSize + 1)
      BY <1>1, <1>2
    <2> QED
      BY <1>2, <1>3, <1>6, <2>1, <2>2 DEF Stands
  <1>8. r \in Here(Quoted, p, text)
    BY <1>4, <1>7 DEF Here
  <1>9. LET v == Visit(Quoted, text, p)
        IN  v.ok = TRUE /\ v.at = r /\ v.stored = <<SubSeq(text, p + 2, r - 1)>>
    <2> HIDE DEF r
    <2>1. Quoted \in GoodItems /\ Quoted.visit = "quoted"
      BY PackFields
    <2>2. LET v == Visit(Quoted, text, p)
          IN  /\ v.ok = TRUE
              /\ \A k \in Here(Quoted, p, text) :
                    v.at = k /\ v.stored = <<SubSeq(text, Skip(text, p) + 2, k - 1)>>
      BY <1>5, <2>1, QuotedHere
    <2> QED
      BY <1>4, <1>8, <2>2
  <1>10. SubSeq(text, p + 2, r - 1) = f
    <2> DEFINE q == p + 1
               e == p + 1 + n
    <2>1. q \in Nat /\ e \in Nat /\ q <= e /\ e <= Len(text) /\ e - q = n /\ q + 1 = p + 2 /\ r - 1 = e
      BY <1>1, <1>2, <1>4
    <2> HIDE DEF r, q, e
    <2> DEFINE t == SubSeq(text, q + 1, e)
    <2>2. t \in Words /\ Len(t) = e - q /\ \A j \in 1..(e - q) : t[j] = text[q + j]
      BY <1>5, <2>1, CutOut
    <2>3. ASSUME NEW j \in 1..n PROVE t[j] = f[j]
      <3>1. 1 + j \in 1..Len(w) /\ q + j = p + (1 + j)
        BY <1>1, <1>2, <1>4 DEF q
      <3> QED
        BY <1>3, <1>4, <2>1, <2>2, <3>1
    <2> HIDE DEF t
    <2>4. t = f
      BY <2>1, <2>2, <2>3, SeqEqual DEF n, Words
    <2> QED
      BY <2>1, <2>4 DEF t
  <1> QED
    BY <1>9, <1>10 DEF Visited, w

-----------------------------------------------------------------------------
\* Item i of the command that was written is found where its piece was put.
ReadsPiece(i) ==
    Visited(Items[i], Sentence(9), Len(Sentence(i - 1)), Len(Sentence(i)),
            IF IsField(Items[i]) THEN <<values[FieldNo(i)]>> ELSE << >>)

Fits == Len(field) <= Capacity /\ ~Occurs(Quote, field)

LEMMA ReadLiteral ==
    ASSUME command = "Test", ValuesOk, NEW i \in {1, 3, 5, 7, 9}
    PROVE  ReadsPiece(i)
  <1>1. PICK n \in Numbers : TestPiecesAre(n)
    BY TestItemPieces
  <1>2. PiecesOk /\ Len(Items) = 9 /\ i \in 1..Len(Items)
    BY <1>1, TestPieces DEF TestPiecesAre
  <1>3. PICK s : Items[i] = Must(s) /\ Piece(i) = s /\ s[1] \notin Blank
    <2>1. \A a : <<a>>[1] = a
      OBVIOUS
    <2>2. "+TEST:" \notin Blank
      BY DEF Blank
    <2>3. /\ <<"+TEST:">>[1] \notin Blank /\ Comma[1] \notin Blank /\ CrLf[1] \notin Blank
      BY <2>1, <2>2, CharacterClasses, CrLfIs DEF Comma
    <2> QED
      BY <1>1, <2>3 DEF TestPiecesAre
  <1>4. PieceAt(Piece(i), Sentence(9), Len(Sentence(i - 1)))
        /\ Len(Sentence(i)) = Len(Sentence(i - 1)) + Len(Piece(i))
    BY <1>2, PieceThere
  <1>5. ~IsField(Items[i])
    BY <1>3 DEF IsField, Must
  <1> QED
    BY <1>3, <1>4, <1>5, LiteralVisited DEF ReadsPiece

\* Every field but the last is followed by a comma, and the last by a CRLF.
LEMMA CommaFollows ==
    ASSUME command = "Test", ValuesOk, NEW i \in {2, 4, 6}
    PROVE  LET e == Len(Sentence(i - 1)) + Len(Piece(i))
           IN  e < Len(Sentence(9)) /\ Sentence(9)[e + 1] \notin Digits
  <1>1. PICK n \in Numbers : TestPiecesAre(n)
    BY TestItemPieces
  <1>2. PiecesOk /\ Len(Items) = 9 /\ i \in 1..Len(Items) /\ i + 1 \in 1..Len(Items) /\ (i + 1) - 1 = i
    BY <1>1, TestPieces DEF TestPiecesAre
  <1>3. Piece(i + 1) = Comma
    <2>1. 2 + 1 = 3 /\ 4 + 1 = 5 /\ 6 + 1 = 7
      OBVIOUS
    <2> QED
      BY <1>1, <2>1 DEF TestPiecesAre
  <1> DEFINE e == Len(Sentence(i - 1)) + Len(Piece(i))
  <1>4. e = Len(Sentence(i))
    BY <1>2, PieceThere
  <1>5. PieceAt(Comma, Sentence(9), Len(Sentence(i)))
    <2>1. PieceAt(Piece(i + 1), Sentence(9), Len(Sentence((i + 1) - 1)))
      BY <1>2, PieceThere
    <2> QED
      BY <1>2, <1>3, <2>1
  <1> HIDE DEF e
  <1>6. PieceAt(Comma, Sentence(9), e)
    BY <1>4, <1>5
  <1>7. /\ Len(Comma) \in Nat /\ Len(Comma) >= 1 /\ e \in Nat /\ Len(Sentence(9)) \in Nat
        /\ e + Len(Comma) \in e..Len(Sentence(9)) /\ Sentence(9)[e + 1] = Comma[1]
    BY <1>6, PieceIs
  <1>8. Comma[1] = ","
    BY DEF Comma
  <1>9. e < Len(Sentence(9))
    BY <1>7
  <1>10. Sentence(9)[e + 1] \notin Digits
    BY <1>7, <1>8, CharacterClasses
  <1> QED
    BY <1>9, <1>10 DEF e

LEMMA ReadPiece ==
    ASSUME command = "Test", ValuesOk, Fits, NEW i \in 1..9
    PROVE  ReadsPiece(i)
  <1>1. PICK n \in Numbers : TestPiecesAre(n)
    BY TestItemPieces
  <1>2. PiecesOk /\ Len(Items) = 9 /\ i \in 1..Len(Items)
    BY <1>1, TestPieces DEF TestPiecesAre
  <1>3. PieceAt(Piece(i), Sentence(9), Len(Sentence(i - 1)))
        /\ Len(Sentence(i)) = Len(Sentence(i - 1)) + Len(Piece(i))
    BY <1>2, PieceThere
  <1>4. values[1] = n /\ values[2] = field /\ values[3] = 4 /\ values[4] = "Nine"
    BY <1>1 DEF TestPiecesAre
  <1>5. n \in (0 - IntMax - 1)..IntMax
    BY SerializerAssumption
  <1>6. CASE i \in {1, 3, 5, 7, 9}
    BY <1>6, ReadLiteral
  <1>7. CASE i = 2
    <2>1. Items[i] = Integer /\ Piece(i) = ToChars(n) /\ FieldNo(i) = 1 /\ IsField(Items[i])
      BY <1>1, <1>7 DEF TestPiecesAre, IsField
    <2>2. Visited(Integer, Sentence(9), Len(Sentence(i - 1)), Len(Sentence(i)), <<n>>)
      BY <1>3, <1>5, <1>7, <2>1, CommaFollows, IntVisited
    <2> QED
      BY <1>4, <2>1, <2>2 DEF ReadsPiece
  <1>8. CASE i = 4
    <2>1. Items[i] = Quoted /\ Piece(i) = WithQuotes(field) /\ FieldNo(i) = 2 /\ IsField(Items[i])
      BY <1>1, <1>8 DEF TestPiecesAre, IsField
    <2>2. Visited(Quoted, Sentence(9), Len(Sentence(i - 1)), Len(Sentence(i)), <<field>>)
      BY <1>3, <2>1, QuotedVisited DEF Fits, ValuesOk
    <2> QED
      BY <1>4, <2>1, <2>2 DEF ReadsPiece
  <1>9. CASE i = 6
    <2>1. Items[i] = Numeric(0..4) /\ Piece(i) = ToChars(4) /\ FieldNo(i) = 3 /\ IsField(Items[i])
      BY <1>1, <1>9 DEF TestPiecesAre, IsField
    <2>2. Visited(Numeric(0..4), Sentence(9), Len(Sentence(i - 1)), Len(Sentence(i)), <<4>>)
      <3>1. 4 \in 0..4
        OBVIOUS
      <3> QED
        BY <1>3, <1>9, <2>1, <3>1, CommaFollows, NumberVisited
    <2> QED
      BY <1>4, <2>1, <2>2 DEF ReadsPiece
  <1>10. CASE i = 8
    <2>1. /\ Items[i] = Named(<<"Five", "Nine">>) /\ Piece(i) = <<"Nine">> /\ FieldNo(i) = 4
          /\ IsField(Items[i])
      BY <1>1, <1>10 DEF TestPiecesAre, IsField
    <2>2. Len(<<"Nine">>) = 1
      OBVIOUS
    <2>3. Visited(Named(<<"Five", "Nine">>), Sentence(9), Len(Sentence(i - 1)), Len(Sentence(i)), <<"Nine">>)
      BY <1>3, <2>1, <2>2, NameVisited
    <2> QED
      BY <1>4, <2>1, <2>3 DEF ReadsPiece
  <1> QED
    BY <1>6, <1>7, <1>8, <1>9, <1>10

-----------------------------------------------------------------------------
(* What was written is read back.                                             *)

FieldsAre(k) ==
    /\ fields \in Seq({values[1], values[2], values[3], values[4]})
    /\ Len(fields) = k /\ \A j \in 1..k : fields[j] = values[j]

\* The candidate has visited the optional CRLF, which is not there, and then as
\* many pieces of the command as its cursor and its fields say.
ReadsBack ==
    /\ phase \in {"idle", "trying", "matched"}
    /\ phase = "idle" => input \in {<< >>, out}
    /\ phase # "idle" => input = out /\ alt = 1
    /\ phase = "trying" =>
          /\ step \in 1..11
          /\ step = 1 => length = 0 /\ fields = << >>
          /\ \A i \in 0..9 : step = i + 2 => length = Len(Sentence(i)) /\ FieldsAre(FieldNo(i))
    /\ phase = "matched" => length = Len(out) /\ FieldsAre(4)

\* A command that was written and sent off, from a field without a quote.
Sent ==
    /\ command = "Test" /\ pack = "test" /\ ValuesOk /\ Fits
    /\ out = Sentence(9) /\ ReadsBack

TripInv ==
    /\ chunks \in Nat /\ Len(field) <= Capacity
    /\ origin = "host" =>
          /\ pack = "test"
          /\ chunks = 0 => phase = "idle" /\ input = << >>
          /\ chunks > 0 => chunks = MaxChunks /\ stage = "written" /\ command = "Test"
          /\ chunks > 0 /\ ~Occurs(Quote, field) => ReadsBack

LEMMA SentFacts ==
    ASSUME WriteInv, TripInv, origin = "host", chunks > 0, ~Occurs(Quote, field)
    PROVE  Sent
  <1>1. stage = "written" /\ command = "Test" /\ pack = "test" /\ ReadsBack /\ Fits
    BY DEF TripInv, Fits
  <1>2. ValuesOk /\ next = Len(Items) + 1 /\ \A n \in Nat : next = n + 1 => out = Sentence(n)
    BY <1>1 DEF WriteInv
  <1>3. Len(Items) = 9
    BY <1>1, <1>2, TestItemPieces DEF TestPiecesAre
  <1>4. out = Sentence(9)
    <2>1. 9 \in Nat /\ next = 9 + 1
      BY <1>2, <1>3
    <2> QED
      BY <1>2, <2>1
  <1> QED
    BY <1>1, <1>2, <1>4 DEF Sent

LEMMA TestOnTrial ==
    ASSUME Sent, alt = 1
    PROVE  /\ Len(OnTrial) = 10 /\ OnTrial[1] = May(CrLf)
           /\ \A i \in 1..9 : OnTrial[i + 1] = Items[i]
           /\ Len(Alternatives) = 1
  <1>1. Items = TestItems /\ Len(TestItems) = 9
    <2>1. Items = TestItems
      BY CommandItems DEF Items, Sent, TestItems
    <2>2. Len(TestItems) = 9
      BY DEF TestItems
    <2> QED
      BY <2>1, <2>2
  <1>2. Alternatives = <<TestResponse>>
    BY DEF Alternatives, PackOf, Sent
  <1>3. OnTrial = <<May(CrLf)>> \o TestItems
    <2>1. <<TestResponse>>[1] = TestResponse
      OBVIOUS
    <2> QED
      BY <1>2, <2>1, PackItems DEF OnTrial
  <1> DEFINE X == {May(CrLf)} \cup {TestItems[i] : i \in 1..9}
  <1>4. TestItems \in Seq(X)
    <2>1. \A i \in 1..9 : TestItems[i] \in X
      OBVIOUS
    <2>2. TestItems = [i \in 1..9 |-> TestItems[i]]
      BY DEF TestItems
    <2> HIDE DEF X
    <2>3. TestItems \in [1..9 -> X]
      BY <2>1, <2>2, Zenon
    <2>4. 9 \in Nat
      OBVIOUS
    <2>5. \A n \in Nat : [1..n -> X] \subseteq Seq(X)
      OBVIOUS
    <2> QED
      BY <2>3, <2>4, <2>5
  <1> HIDE DEF TestItems
  <1>5. May(CrLf) \in X
    OBVIOUS
  <1> HIDE DEF X
  <1>6. /\ Len(<<May(CrLf)>> \o TestItems) = Len(TestItems) + 1
        /\ (<<May(CrLf)>> \o TestItems)[1] = May(CrLf)
        /\ \A i \in 1..Len(TestItems) : (<<May(CrLf)>> \o TestItems)[i + 1] = TestItems[i]
    BY <1>4, <1>5, Prepend
  <1>7. Len(<<TestResponse>>) = 1
    OBVIOUS
  <1> QED
    BY <1>1, <1>2, <1>3, <1>6, <1>7

\* The optional CRLF of a response is not there.
LEMMA NoCrLfFirst ==
    ASSUME Sent
    PROVE  Visit(May(CrLf), out, 0) = Result(FALSE, 0, << >>)
  <1>1. PICK n \in Numbers : TestPiecesAre(n)
    BY TestItemPieces DEF Sent
  <1>2. PiecesOk /\ Len(Items) = 9 /\ 1 \in 1..Len(Items) /\ 1 - 1 = 0
    BY <1>1, TestPieces DEF TestPiecesAre, Sent
  <1>3. Sentence(0) = << >> /\ Len(<< >>) = 0
    BY <1>2, CommandSentence
  <1>4. PieceAt(<<"+TEST:">>, out, 0)
    <2>1. PieceAt(Piece(1), Sentence(9), Len(Sentence(1 - 1)))
      BY <1>2, PieceThere
    <2> QED
      BY <1>1, <1>2, <1>3, <2>1 DEF TestPiecesAre, Sent
  <1>5. out[0 + 1] = "+TEST:" /\ Skip(out, 0) = 0
    <2>1. <<"+TEST:">>[1] = "+TEST:" /\ "+TEST:" \notin Blank
      BY DEF Blank
    <2>2. out[0 + 1] = "+TEST:"
      <3> DEFINE tag == <<"+TEST:">>
      <3>1. tag[1] = "+TEST:" /\ PieceAt(tag, out, 0)
        BY <1>4
      <3> HIDE DEF tag
      <3>2. \A q : PieceAt(tag, out, q) => out[q + 1] = tag[1]
        BY PieceIs
      <3> QED
        BY <3>1, <3>2
    <2>3. Skip(out, 0) = 0
      BY <1>4, <2>1, PieceIs
    <2> QED
      BY <2>1, <2>2, <2>3
  <1>6. ~AtFront(CrLf, out, 0)
    <2>1. out \in Words /\ 0 \in Nat
      BY <1>4 DEF PieceAt
    <2>2. AtFront(CrLf, out, 0) => out[0 + 1] = "\r"
      BY <2>1, CrLfAtFront
    <2> QED
      BY <1>5, <2>2
  <1>7. May(CrLf).visit = "sequence" /\ May(CrLf).arg = CrLf
    BY DEF May, Must
  <1>8. Visit(May(CrLf), out, 0) = VisitSequence(CrLf, out, 0)
    BY <1>7 DEF Visit
  <1> QED
    BY <1>5, <1>6, <1>8 DEF VisitSequence

\* One more field, or none.
LEMMA FieldsGrow ==
    ASSUME Sent, NEW i \in 0..8, FieldsAre(FieldNo(i)), UNCHANGED values,
           fields' = fields \o (IF IsField(Items[i + 1]) THEN <<values[FieldNo(i + 1)]>> ELSE << >>)
    PROVE  /\ fields' \in Seq({values[1], values[2], values[3], values[4]})
           /\ Len(fields') = FieldNo(i + 1)
           /\ \A j \in 1..FieldNo(i + 1) : fields'[j] = values[j]
  <1> DEFINE V == {values[1], values[2], values[3], values[4]}
             k == FieldNo(i)
             x == values[FieldNo(i + 1)]
  <1>1. fields \in Seq(V) /\ Len(fields) = k /\ \A j \in 1..k : fields[j] = values[j]
    BY DEF FieldsAre
  <1>2. i \in Nat /\ k \in Nat /\ FieldNo(i + 1) = k + IF IsField(Items[i + 1]) THEN 1 ELSE 0
    <2>1. i \in Nat
      OBVIOUS
    <2> QED
      BY <2>1, FieldNoSteps, Zenon
  <1>3. FieldNo(i + 1) \in 0..4
    <2>1. PICK n \in Numbers : TestPiecesAre(n)
      BY TestItemPieces DEF Sent
    <2>2. i + 1 \in {1, 2, 3, 4, 5, 6, 7, 8, 9}
      OBVIOUS
    <2> QED
      BY <2>1, <2>2 DEF TestPiecesAre
  <1>4. CASE IsField(Items[i + 1])
    <2>1. FieldNo(i + 1) = k + 1 /\ fields' = fields \o <<x>> /\ k + 1 \in 1..4
      BY <1>2, <1>3, <1>4
    <2>2. x \in V
      <3>1. \A j \in 1..4 : values[j] \in V
        OBVIOUS
      <3> HIDE DEF V
      <3> QED
        BY <2>1, <3>1
    <2> HIDE DEF V, x, k
    <2>3. <<x>> \in Seq(V) /\ Len(<<x>>) = 1 /\ <<x>>[1] = x
      BY <2>2
    <2>4. /\ fields \o <<x>> \in Seq(V) /\ Len(fields \o <<x>>) = Len(fields) + Len(<<x>>)
          /\ \A j \in 1..(Len(fields) + Len(<<x>>)) :
                (fields \o <<x>>)[j] = IF j <= Len(fields) THEN fields[j] ELSE <<x>>[j - Len(fields)]
      BY <1>1, <2>3, ConcatProperties
    <2>5. ASSUME NEW j \in 1..(k + 1) PROVE fields'[j] = values[j]
      <3>1. fields'[j] = IF j <= k THEN fields[j] ELSE <<x>>[j - k]
        BY <1>1, <2>1, <2>3, <2>4
      <3>2. CASE j <= k
        <4>1. j \in 1..k
          BY <1>2, <3>2
        <4> QED
          BY <1>1, <3>1, <3>2, <4>1
      <3>3. CASE ~(j <= k)
        <4>1. j = k + 1 /\ j - k = 1
          BY <1>2, <3>3
        <4>2. x = values[k + 1]
          BY <2>1 DEF x
        <4> QED
          BY <2>3, <3>1, <3>3, <4>1, <4>2
      <3> QED
        BY <3>2, <3>3
    <2>6. fields' \in Seq(V) /\ Len(fields') = k + 1
      BY <1>1, <2>1, <2>3, <2>4
    <2> QED
      BY <2>1, <2>5, <2>6 DEF V
  <1>5. CASE ~IsField(Items[i + 1])
    <2>1. FieldNo(i + 1) = k /\ fields' = fields \o << >>
      BY <1>2, <1>5
    <2>2. fields \o << >> = fields
      BY <1>1, ConcatEmptySeq
    <2> QED
      BY <1>1, <2>1, <2>2
  <1> QED
    BY <1>4, <1>5

\* One visit.
LEMMA TripVisit ==
    ASSUME Sent, VisitItem, UNCHANGED serializerVars
    PROVE  ReadsBack'
  <1>1. phase = "trying" /\ input = out /\ alt = 1 /\ step \in 1..11 /\ step <= Len(OnTrial)
    BY DEF Sent, ReadsBack, VisitItem
  <1> DEFINE item == OnTrial[step]
             v == Visit(item, out, length)
  <1>2. /\ length' = v.at /\ alt' = 1 /\ input' = out'
        /\ v.ok \/ ~item.must => step' = step + 1 /\ fields' = fields \o v.stored /\ phase' = "trying"
    BY <1>1 DEF VisitItem, serializerVars
  <1>3. /\ \A i : Sentence(i)' = Sentence(i)
        /\ \A i : FieldNo(i)' = FieldNo(i)
        /\ values' = values
    BY SameItems, SameSentence DEF serializerVars
  <1>4. CASE step = 1
    <2>1. item = May(CrLf) /\ ~item.must /\ length = 0 /\ fields = << >>
      <3>1. OnTrial[1] = May(CrLf)
        BY <1>1, TestOnTrial
      <3>2. May(CrLf).must = FALSE
        BY DEF May, Must
      <3>3. length = 0 /\ fields = << >>
        BY <1>1, <1>4 DEF Sent, ReadsBack
      <3> QED
        BY <1>4, <3>1, <3>2, <3>3
    <2>2. v.at = 0 /\ v.stored = << >>
      <3>1. v = Result(FALSE, 0, << >>)
        BY <2>1, NoCrLfFirst
      <3> HIDE DEF v
      <3> QED
        BY <3>1 DEF Result
    <2>3. length' = 0 /\ step' = 2 /\ phase' = "trying" /\ fields' = << >> \o << >>
      BY <1>2, <1>4, <2>1, <2>2
    <2>4. fields' = << >>
      BY <2>3
    <2>5. FieldNo(0) = 0 /\ Sentence(0) = << >>
      BY FieldNoSteps, CommandPieces, CommandSentence, TestPieces DEF Sent
    <2>6. (FieldsAre(FieldNo(0)))'
      <3>1. Len(<< >>) = 0 /\ \A V : << >> \in Seq(V)
        OBVIOUS
      <3>2. \A j \in 1..0 : fields'[j] = values'[j]
        OBVIOUS
      <3> QED
        BY <1>3, <2>4, <2>5, <3>1, <3>2 DEF FieldsAre
    <2>7. \A i \in 0..9 : step' = i + 2 => i = 0
      BY <2>3
    <2>8. Len(<< >>) = 0
      OBVIOUS
    <2> QED
      BY <1>2, <1>3, <2>3, <2>5, <2>6, <2>7, <2>8 DEF ReadsBack
  <1>5. CASE step # 1
    <2>1. PICK i \in 0..8 : step = i + 2
      <3>1. Len(OnTrial) = 10
        BY <1>1, TestOnTrial
      <3>2. step - 2 \in 0..8 /\ step = (step - 2) + 2
        BY <1>1, <1>5, <3>1
      <3> QED
        BY <3>2
    <2>2. /\ step = i + 2 /\ i + 2 = (i + 1) + 1 /\ i + 1 \in 1..9 /\ (i + 1) - 1 = i
          /\ step \in Nat
      BY <2>1
    <2>3. item = Items[i + 1]
      <3>1. OnTrial[(i + 1) + 1] = Items[i + 1]
        BY <1>1, <2>2, TestOnTrial
      <3> QED
        BY <2>2, <3>1
    <2>4. length = Len(Sentence(i)) /\ FieldsAre(FieldNo(i))
      <3>1. i \in 0..9
        BY <2>2
      <3> QED
        BY <1>1, <2>2, <3>1 DEF Sent, ReadsBack
    <2>5. ReadsPiece(i + 1)
      BY <2>2, ReadPiece DEF Sent
    <2>6. /\ v.ok = TRUE /\ v.at = Len(Sentence(i + 1))
          /\ v.stored = IF IsField(Items[i + 1]) THEN <<values[FieldNo(i + 1)]>> ELSE << >>
      <3>1. Visited(Items[i + 1], Sentence(9), Len(Sentence((i + 1) - 1)), Len(Sentence(i + 1)),
                    IF IsField(Items[i + 1]) THEN <<values[FieldNo(i + 1)]>> ELSE << >>)
        BY <2>5 DEF ReadsPiece
      <3>2. Visited(item, out, length, Len(Sentence(i + 1)),
                    IF IsField(Items[i + 1]) THEN <<values[FieldNo(i + 1)]>> ELSE << >>)
        BY <2>2, <2>3, <2>4, <3>1 DEF Sent
      <3> HIDE DEF item
      <3> QED
        BY <3>2 DEF Visited
    <2> HIDE DEF v, item
    <2>7. /\ length' = Len(Sentence(i + 1)) /\ step' = step + 1 /\ phase' = "trying"
          /\ fields' = fields \o (IF IsField(Items[i + 1]) THEN <<values[FieldNo(i + 1)]>> ELSE << >>)
      BY <1>2, <2>6
    <2>8. /\ fields' \in Seq({values[1], values[2], values[3], values[4]})
          /\ Len(fields') = FieldNo(i + 1)
          /\ \A j \in 1..FieldNo(i + 1) : fields'[j] = values[j]
      BY <1>3, <2>2, <2>4, <2>7, FieldsGrow
    <2>9. (FieldsAre(FieldNo(i + 1)))'
      BY <1>3, <2>8 DEF FieldsAre
    <2>10. \A k \in 0..9 : step' = k + 2 => k = i + 1
      BY <2>2, <2>7
    <2>11. step' \in 1..11 /\ step' # 1
      BY <2>2, <2>7
    <2>12. \A k \in 0..9 : step' = k + 2 => length' = Len(Sentence(k))' /\ (FieldsAre(FieldNo(k)))'
      BY <1>3, <2>7, <2>9, <2>10
    <2> QED
      BY <1>2, <2>7, <2>11, <2>12 DEF ReadsBack
  <1> QED
    BY <1>4, <1>5

\* Nothing that is written afterwards changes what has been sent.
LEMMA TripTry ==
    ASSUME Sent, ParseInv, Try \/ Reset, UNCHANGED serializerVars
    PROVE  ReadsBack'
  <1>1. out' = out /\ values' = values
    BY DEF serializerVars
  <1>2. ReadsBack /\ out \in Words /\ Len(out) \in Nat
    <2>1. PiecesOk /\ Len(Items) = 9
      BY TestPieces, TestItemPieces DEF Sent, TestPiecesAre
    <2>2. 9 \in 0..Len(Items)
      BY <2>1
    <2>3. Sentence(9) \in Words
      BY <2>1, <2>2, CommandSentence
    <2>4. \A w \in Words : Len(w) \in Nat
      BY DEF Words
    <2> QED
      BY <2>3, <2>4 DEF Sent
  <1>3. CASE TryFirst
    <2>1. phase = "idle" /\ input # << >> /\ input' = input
          /\ alt' = 1 /\ step' = 1 /\ length' = 0 /\ fields' = << >> /\ phase' = "trying"
      BY <1>3 DEF TryFirst, Begin, Rewind
    <2>2. input' = out'
      BY <1>1, <1>2, <2>1 DEF ReadsBack
    <2>3. \A i \in 0..9 : 1 # i + 2
      OBVIOUS
    <2> QED
      BY <2>1, <2>2, <2>3 DEF ReadsBack
  <1>4. CASE TryNext \/ GiveUp
    BY <1>2, <1>4 DEF TryNext, GiveUp, ReadsBack
  <1>5. CASE VisitItem
    BY <1>5, TripVisit
  <1>6. CASE Throw
    <2>1. phase = "trying" /\ length > Len(input) /\ step <= Len(OnTrial)
      BY <1>6 DEF Throw
    <2>2. input = out /\ alt = 1 /\ step \in 1..11
      BY <1>2, <2>1 DEF ReadsBack
    <2>3. CASE step = 1
      BY <1>2, <2>1, <2>2, <2>3 DEF ReadsBack
    <2>4. CASE step # 1
      <3>1. PICK i \in 0..9 : step = i + 2
        <4>1. step - 2 \in 0..9 /\ step = (step - 2) + 2
          BY <2>2, <2>4
        <4> QED
          BY <4>1
      <3>2. length = Len(Sentence(i))
        BY <1>2, <2>1, <3>1 DEF ReadsBack
      <3>3. Len(Sentence(i)) <= Len(out)
        <4>1. PiecesOk /\ Len(Items) = 9
          BY TestPieces, TestItemPieces DEF Sent, TestPiecesAre
        <4> QED
          BY <4>1, PieceBegins DEF Begins, Sent
      <3>4. Len(Sentence(i)) \in Nat
        <4>1. PiecesOk /\ Len(Items) = 9
          BY TestPieces, TestItemPieces DEF Sent, TestPiecesAre
        <4> QED
          BY <4>1, CommandSentence DEF Words
      <3> QED
        BY <1>2, <2>1, <2>2, <3>2, <3>3, <3>4
    <2> QED
      BY <2>3, <2>4
  <1>7. CASE Match
    <2>1. /\ phase = "trying" /\ step > Len(OnTrial) /\ phase' = "matched"
          /\ input' = input /\ alt' = alt /\ length' = length /\ fields' = fields
      BY <1>7 DEF Match
    <2>2. input = out /\ alt = 1 /\ step \in 1..11
      BY <1>2, <2>1 DEF ReadsBack
    <2>3. step = 9 + 2 /\ 9 \in 0..9
      <3>1. Len(OnTrial) = 10
        BY <2>2, TestOnTrial
      <3> QED
        BY <2>1, <2>2, <3>1
    <2>4. length = Len(Sentence(9)) /\ FieldsAre(FieldNo(9))
      BY <1>2, <2>1, <2>3 DEF ReadsBack
    <2>5. FieldNo(9) = 4
      BY TestItemPieces DEF Sent, TestPiecesAre
    <2>6. FieldsAre(4)'
      BY <1>1, <2>1, <2>4, <2>5 DEF FieldsAre
    <2>7. length' = Len(out)'
      BY <1>1, <2>1, <2>4 DEF Sent
    <2> QED
      BY <1>1, <2>1, <2>2, <2>6, <2>7 DEF ReadsBack
  <1>8. CASE Reset
    <2>1. phase = "matched" /\ input' = Rest(input, length) /\ phase' = "idle"
      BY <1>8 DEF Reset
    <2>2. input = out /\ length = Len(out)
      BY <1>2, <2>1 DEF ReadsBack
    <2>3. input' = SubSeq(out, Len(out) + 1, Len(out))
      BY <2>1, <2>2 DEF Rest
    <2>4. SubSeq(out, Len(out) + 1, Len(out)) = << >>
      <3>1. Len(out) <= Len(out) /\ Len(out) - Len(out) = 0
        BY <1>2
      <3>2. /\ SubSeq(out, Len(out) + 1, Len(out)) \in Words
            /\ Len(SubSeq(out, Len(out) + 1, Len(out))) = Len(out) - Len(out)
        BY <1>2, <3>1, CutOut
      <3> QED
        BY <3>1, <3>2, EmptySeq DEF Words
    <2> QED
      BY <2>1, <2>3, <2>4 DEF ReadsBack
  <1> QED
    BY <1>3, <1>4, <1>5, <1>6, <1>7, <1>8 DEF Try

LEMMA TripSerializer ==
    ASSUME WriteInv, TripInv, SerializerNext, UNCHANGED packVars, UNCHANGED origin
    PROVE  TripInv'
  <1>1. stage \in {"filling", "writing"}
    BY DEF SerializerNext, Fill, Send, Write, WriteSequence, WriteQuoted, WriteNumber, WriteName,
           WriteInt, Written, Visits
  <1>2. origin = "host" => chunks = 0
    <2>1. stage # "written"
      BY <1>1
    <2>2. chunks \in Nat /\ ~(origin = "host" /\ chunks > 0)
      BY <2>1 DEF TripInv
    <2> QED
      BY <2>2
  <1>3. Len(field') <= Capacity
    <2>1. CASE Fill
      BY <2>1, FillFits DEF WriteInv, TripInv
    <2>2. CASE field' = field
      BY <2>2 DEF TripInv
    <2> QED
      BY <2>1, <2>2 DEF SerializerNext, Send, Write, WriteSequence, WriteQuoted, WriteNumber,
                        WriteName, WriteInt, Written, Put
  <1>4. chunks' = chunks /\ phase' = phase /\ input' = input /\ pack' = pack /\ origin' = origin
    BY DEF packVars
  <1> QED
    BY <1>2, <1>3, <1>4 DEF TripInv, Capacity

LEMMA TripTransmit ==
    ASSUME TripInv, Transmit
    PROVE  TripInv'
  <1>1. /\ stage = "written" /\ command = "Test" /\ chunks < MaxChunks /\ input' = out
        /\ chunks' = MaxChunks /\ pack' = pack /\ phase' = phase /\ origin' = origin
        /\ field' = field /\ stage' = stage /\ command' = command /\ out' = out
    BY DEF Transmit, serializerVars
  <1>2. MaxChunks \in Nat /\ chunks \in Nat /\ MaxChunks > 0
    BY <1>1, ResponsePackAssumption DEF TripInv
  <1>3. CASE origin = "host"
    <2>1. pack = "test" /\ (chunks > 0 => chunks = MaxChunks)
          /\ (chunks = 0 => phase = "idle" /\ input = << >>)
      BY <1>3 DEF TripInv
    <2>2. phase = "idle"
      BY <1>1, <1>2, <2>1
    <2>3. ReadsBack'
      BY <1>1, <2>2 DEF ReadsBack
    <2> QED
      BY <1>1, <1>2, <2>1, <2>3 DEF TripInv, Capacity
  <1>4. CASE origin # "host"
    BY <1>1, <1>2, <1>4 DEF TripInv, Capacity
  <1> QED
    BY <1>3, <1>4

LEMMA TripParse ==
    ASSUME WriteInv, ParseInv, TripInv, Try \/ Reset, UNCHANGED serializerVars, UNCHANGED origin
    PROVE  TripInv'
  <1>1. /\ stage' = stage /\ command' = command /\ field' = field /\ origin' = origin
        /\ chunks' = chunks /\ pack' = pack
    BY DEF serializerVars, Try, TryFirst, TryNext, GiveUp, VisitItem, Throw, Match, Reset, Begin
  <1>2. CASE origin # "host"
    BY <1>1, <1>2 DEF TripInv, Capacity
  <1>3. CASE origin = "host" /\ chunks = 0
    <2>1. phase = "idle" /\ input = << >>
      BY <1>3 DEF TripInv
    <2> QED
      BY <2>1 DEF Try, TryFirst, TryNext, GiveUp, VisitItem, Throw, Match, Reset
  <1>4. CASE origin = "host" /\ chunks > 0
    <2>1. ~Occurs(Quote, field) => ReadsBack'
      BY <1>4, SentFacts, TripTry
    <2> QED
      BY <1>1, <1>4, <2>1 DEF TripInv, Capacity
  <1>5. chunks = 0 \/ chunks > 0
    BY DEF TripInv
  <1> QED
    BY <1>2, <1>3, <1>4, <1>5

LEMMA TripStep ==
    ASSUME WriteInv, ParseInv, TripInv, [Next]_vars
    PROVE  TripInv'
  <1>1. CASE origin = "host" /\ SerializerNext /\ UNCHANGED <<packVars, origin>>
    BY <1>1, TripSerializer
  <1>2. CASE Transmit
    BY <1>2, TripTransmit
  <1>3. CASE origin = "modem" /\ Receive /\ UNCHANGED <<serializerVars, origin>>
    <2>1. chunks' = chunks + 1 /\ field' = field /\ origin' = "modem"
      BY <1>3 DEF Receive, serializerVars
    <2>2. chunks \in Nat /\ Len(field) <= Capacity
      BY DEF TripInv
    <2>3. chunks' \in Nat
      BY <2>1, <2>2
    <2> QED
      BY <2>1, <2>2, <2>3 DEF TripInv, Capacity
  <1>4. CASE (Try \/ Reset) /\ UNCHANGED <<serializerVars, origin>>
    BY <1>4, TripParse
  <1>5. CASE UNCHANGED vars
    <2>1. UNCHANGED <<serializerVars, packVars, origin>>
      BY <1>5 DEF vars
    <2>2. ReadsBack' = ReadsBack
      <3>1. \A i : Sentence(i)' = Sentence(i) /\ FieldNo(i)' = FieldNo(i)
        BY <2>1, SameItems, SameSentence DEF serializerVars
      <3> QED
        BY <2>1, <3>1 DEF ReadsBack, FieldsAre, serializerVars, packVars
    <2> QED
      BY <2>1, <2>2 DEF TripInv, serializerVars, packVars, Capacity
  <1> QED
    BY <1>1, <1>2, <1>3, <1>4, <1>5 DEF Next

THEOREM SpecTripInv == Spec => []TripInv
  <1>1. Init => TripInv
    <2> SUFFICES ASSUME Init PROVE TripInv
      OBVIOUS
    <2>1. field = << >> /\ chunks = 0 /\ phase = "idle" /\ input = << >>
          /\ (origin = "host" => pack = "test")
      BY DEF Init, SerializerInit, PackInit
    <2>2. Len(<< >>) = 0 /\ 0 <= Capacity
      BY PacketAssumption DEF Capacity
    <2> QED
      BY <2>1, <2>2 DEF TripInv
  <1>2. WriteInv /\ ParseInv /\ TripInv /\ [Next]_vars => TripInv'
    BY TripStep
  <1> QED
    BY <1>1, <1>2, SpecWriteInv, SpecParseInv, PTL DEF Spec

\* Neither the buffer nor the field's storage is ever overrun: for buffers of any
\* size, fields of any capacity, and whatever texts and numbers they hold.
THEOREM SpecOutputFits == Spec => []OutputFits
  <1>1. WriteInv /\ TripInv => OutputFits
    <2> SUFFICES ASSUME WriteInv, TripInv PROVE OutputFits
      OBVIOUS
    <2>1. Len(out) <= room
      BY DEF WriteInv
    <2>2. Len(field) \in Nat /\ Len(field) <= Capacity
      BY DEF WriteInv, TripInv, Words
    <2>3. Len(field) < FieldSize
      BY <2>2, PacketAssumption DEF Capacity
    <2> QED
      BY <2>1, <2>3 DEF OutputFits
  <1> QED
    BY <1>1, SpecWriteInv, SpecTripInv, PTL

\* What was written is read back whole and with the same values: for numbers up to
\* INT_MAX, texts of any length streamed into a field of any capacity, and buffers
\* of any size.
THEOREM SpecRoundTrip == Spec => []RoundTrip
  <1>1. WriteInv /\ ParseInv /\ TripInv => RoundTrip
    <2> SUFFICES ASSUME WriteInv, ParseInv, TripInv, origin = "host", chunks > 0,
                        ~Occurs(Quote, field)
                 PROVE  /\ phase \notin {"failed", "none", "threw"}
                        /\ phase = "matched" => value.fields = values /\ length = Len(out)
      BY DEF RoundTrip
    <2>1. Sent /\ ReadsBack
      BY SentFacts DEF Sent
    <2>2. phase \notin {"failed", "none", "threw"}
      BY <2>1 DEF ReadsBack
    <2>3. ASSUME phase = "matched" PROVE value.fields = values /\ length = Len(out)
      <3>1. length = Len(out) /\ FieldsAre(4)
        BY <2>1, <2>3 DEF ReadsBack
      <3>2. value.fields = fields
        BY <2>3 DEF ParseInv, Held
      <3>3. PICK n \in Numbers : values = <<n, field, 4, "Nine">>
        BY <2>1, TestItemPieces DEF Sent, TestPiecesAre
      <3> DEFINE V == {values[1], values[2], values[3], values[4]}
      <3>4. values \in Seq(V) /\ Len(values) = 4
        <4>1. Len(values) = 4 /\ values = [i \in 1..4 |-> values[i]]
          BY <3>3
        <4>2. \A i \in 1..4 : values[i] \in V
          OBVIOUS
        <4> HIDE DEF V
        <4>3. values \in [1..4 -> V]
          BY <4>1, <4>2, Zenon
        <4>4. 4 \in Nat /\ \A k \in Nat : [1..k -> V] \subseteq Seq(V)
          OBVIOUS
        <4> QED
          BY <4>1, <4>3, <4>4
      <3>5. fields \in Seq(V) /\ Len(fields) = 4 /\ \A j \in 1..4 : fields[j] = values[j]
        BY <3>1 DEF FieldsAre
      <3> HIDE DEF V
      <3>6. fields = values
        BY <3>4, <3>5, SeqEqual
      <3> QED
        BY <3>1, <3>2, <3>6
    <2> QED
      BY <2>2, <2>3
  <1> QED
    BY <1>1, SpecWriteInv, SpecParseInv, SpecTripInv, PTL
=============================================================================
