---------------------------- MODULE LookupProofs ----------------------------
(* The lookup of EnumCustomStringConverter is right for tables and inputs of  *)
(* any size over any alphabet, as long as no string of the table is a prefix  *)
(* of another: what lower_bound requires holds, what is in front of the input *)
(* is found, and every string is parsed back to its value.                    *)
EXTENDS EnumLookup, Induction, SequenceTheorems

Text == Seq(Nat)

\* s and t agree on n letters, and s is smaller in the next.
Parts(s, t, n) ==
    /\ n < Len(s) /\ n < Len(t)
    /\ \A k \in 1..n : s[k] = t[k]
    /\ s[n + 1] < t[n + 1]
Precedes(s, t) == \E n \in Nat : Parts(s, t, n)

-----------------------------------------------------------------------------
(* What the operators of the model say of single letters.                     *)

LEMMA SameFront ==
    ASSUME NEW s \in Text, NEW t \in Text, NEW n \in Nat, n <= Len(s), n <= Len(t)
    PROVE  SubSeq(s, 1, n) = SubSeq(t, 1, n) <=> \A k \in 1..n : s[k] = t[k]
  BY DEF Text

LEMMA CutLetters ==
    ASSUME NEW s \in Text, NEW n \in Nat
    PROVE  /\ Cut(s, n) \in Text
           /\ Len(Cut(s, n)) = IF n < Len(s) THEN n ELSE Len(s)
           /\ \A k \in 1..Len(Cut(s, n)) : Cut(s, n)[k] = s[k]
  BY DEF Text, Cut

LEMMA PrefixLetters ==
    ASSUME NEW s \in Text, NEW t \in Text
    PROVE  IsPrefix(s, t) <=> Len(s) <= Len(t) /\ \A k \in 1..Len(s) : s[k] = t[k]
  <1>1. Len(s) \in Nat /\ Len(t) \in Nat
    BY DEF Text
  <1> QED
    BY <1>1, SameFront DEF IsPrefix

\* Less, index by index.
LEMMA LessLetters ==
    ASSUME NEW s \in Text, NEW t \in Text
    PROVE  Less(s, t) <=> Precedes(s, t) \/ (Len(s) < Len(t) /\ IsPrefix(s, t))
  <1>1. Len(s) \in Nat /\ Len(t) \in Nat
    BY DEF Text
  <1>2. ASSUME Less(s, t)
        PROVE  Precedes(s, t) \/ (Len(s) < Len(t) /\ IsPrefix(s, t))
    <2>1. PICK n \in 0..Len(s) : /\ n < Len(t) /\ SubSeq(s, 1, n) = SubSeq(t, 1, n)
                                 /\ n < Len(s) => s[n + 1] < t[n + 1]
      BY <1>2 DEF Less
    <2>2. \A k \in 1..n : s[k] = t[k]
      BY <1>1, <2>1, SameFront
    <2>3. CASE n < Len(s)
      BY <1>1, <2>1, <2>2, <2>3 DEF Precedes, Parts
    <2>4. CASE n = Len(s)
      BY <1>1, <2>1, <2>2, <2>4, PrefixLetters
    <2> QED
      BY <1>1, <2>3, <2>4
  <1>3. ASSUME Precedes(s, t)
        PROVE  Less(s, t)
    <2>1. PICK n \in Nat : Parts(s, t, n)
      BY <1>3 DEF Precedes
    <2>2. SubSeq(s, 1, n) = SubSeq(t, 1, n) /\ n \in 0..Len(s)
      BY <1>1, <2>1, SameFront DEF Parts
    <2> QED
      BY <2>1, <2>2 DEF Parts, Less
  <1>4. ASSUME Len(s) < Len(t), IsPrefix(s, t)
        PROVE  Less(s, t)
    <2>1. SubSeq(s, 1, Len(s)) = SubSeq(t, 1, Len(s)) /\ Len(s) \in 0..Len(s)
      BY <1>1, <1>4 DEF IsPrefix
    <2> QED
      BY <1>1, <1>4, <2>1 DEF Less
  <1> QED
    BY <1>2, <1>3, <1>4

\* The comparison of lower_bound: a letter of the record is the smaller one.
LEMMA BeforeLetters ==
    ASSUME NEW key \in Text, NEW str \in Text
    PROVE  Before(key, str) <=> Precedes(key, str)
  <1> DEFINE c == Cut(str, Len(key))
  <1>1. Len(key) \in Nat /\ Len(str) \in Nat
    BY DEF Text
  <1>2. /\ c \in Text
        /\ Len(c) = IF Len(key) < Len(str) THEN Len(key) ELSE Len(str)
        /\ \A k \in 1..Len(c) : c[k] = str[k]
    BY <1>1, CutLetters
  <1> HIDE DEF c
  <1>3. Less(key, c) <=> Precedes(key, c)
    BY <1>1, <1>2, LessLetters
  <1>4. \A n \in Nat : Parts(key, c, n) <=> Parts(key, str, n)
    BY <1>1, <1>2 DEF Parts
  <1> QED
    BY <1>3, <1>4 DEF Before, Precedes, c

\* lookup's test of the record found.
LEMMA MatchesPrefix ==
    ASSUME NEW key \in Text, NEW str \in Text
    PROVE  Matches(key, str) <=> IsPrefix(key, str)
  <1>1. Len(key) \in Nat /\ Len(str) \in Nat
    BY DEF Text
  <1>2. /\ Cut(str, Len(key)) \in Text
        /\ Len(Cut(str, Len(key))) = IF Len(key) < Len(str) THEN Len(key) ELSE Len(str)
        /\ \A k \in 1..Len(Cut(str, Len(key))) : Cut(str, Len(key))[k] = str[k]
    BY <1>1, CutLetters
  <1>3. ASSUME Len(key) <= Len(str), \A k \in 1..Len(key) : key[k] = str[k]
        PROVE  Cut(str, Len(key)) = key
    <2>1. Len(Cut(str, Len(key))) = Len(key)
      BY <1>1, <1>2, <1>3
    <2>2. \A k \in 1..Len(key) : Cut(str, Len(key))[k] = key[k]
      BY <1>2, <1>3, <2>1
    <2> QED
      BY <1>2, <2>1, <2>2, SeqEqual DEF Text
  <1>4. ASSUME Len(key) <= Len(str), Cut(str, Len(key)) = key
        PROVE  \A k \in 1..Len(key) : key[k] = str[k]
    BY <1>2, <1>4
  <1> QED
    BY <1>3, <1>4, PrefixLetters DEF Matches

-----------------------------------------------------------------------------
(* The order.                                                                 *)

LEMMA PrecedesTransitive ==
    ASSUME NEW s \in Text, NEW t \in Text, NEW u \in Text,
           Precedes(s, t), Precedes(t, u)
    PROVE  Precedes(s, u)
  <1>1. PICK m \in Nat : Parts(s, t, m)
    BY DEF Precedes
  <1>2. PICK n \in Nat : Parts(t, u, n)
    BY DEF Precedes
  <1>3. /\ \A k \in 1..Len(s) : s[k] \in Nat
        /\ \A k \in 1..Len(t) : t[k] \in Nat
        /\ \A k \in 1..Len(u) : u[k] \in Nat
        /\ Len(s) \in Nat /\ Len(t) \in Nat /\ Len(u) \in Nat
    BY ElementOfSeq DEF Text
  <1>4. CASE m < n
    <2>1. Parts(s, u, m)
      BY <1>1, <1>2, <1>3, <1>4 DEF Parts
    <2> QED
      BY <2>1 DEF Precedes
  <1>5. CASE n < m
    <2>1. Parts(s, u, n)
      BY <1>1, <1>2, <1>3, <1>5 DEF Parts
    <2> QED
      BY <2>1 DEF Precedes
  <1>6. CASE m = n
    <2>1. Parts(s, u, n)
      BY <1>1, <1>2, <1>3, <1>6 DEF Parts
    <2> QED
      BY <2>1 DEF Precedes
  <1> QED
    BY <1>4, <1>5, <1>6

\* A text in front of another is not apart from it, and what precedes it also
\* precedes the other.
LEMMA PrefixPrecedes ==
    ASSUME NEW s \in Text, NEW t \in Text, NEW u \in Text, IsPrefix(t, u)
    PROVE  /\ ~Precedes(t, u)
           /\ Precedes(s, t) => Precedes(s, u)
  <1>1. /\ \A k \in 1..Len(t) : t[k] \in Nat /\ t[k] = u[k]
        /\ Len(s) \in Nat /\ Len(t) \in Nat /\ Len(u) \in Nat /\ Len(t) <= Len(u)
    BY ElementOfSeq, PrefixLetters DEF Text
  <1>2. ~Precedes(t, u)
    <2> SUFFICES ASSUME NEW n \in Nat, Parts(t, u, n) PROVE FALSE
      BY DEF Precedes
    <2>1. n + 1 \in 1..Len(t)
      BY <1>1 DEF Parts
    <2>2. t[n + 1] \in Nat /\ t[n + 1] = u[n + 1]
      BY <1>1, <2>1
    <2> QED
      BY <2>2 DEF Parts
  <1>3. ASSUME Precedes(s, t) PROVE Precedes(s, u)
    <2>1. PICK n \in Nat : Parts(s, t, n)
      BY <1>3 DEF Precedes
    <2>2. Parts(s, u, n)
      BY <1>1, <2>1 DEF Parts
    <2> QED
      BY <2>2 DEF Precedes
  <1> QED
    BY <1>2, <1>3

-----------------------------------------------------------------------------
(* The table.                                                                 *)

\* No string of the table is in front of another, as in all but Cpin.h's table.
PrefixFree(tbl) == \A i, j \in 1..Len(tbl) : IsPrefix(tbl[i], tbl[j]) => i = j

LEMMA StringsAreTexts ==
    ASSUME NEW n \in Nat, NEW s \in Strings(n)
    PROVE  s \in Text /\ Len(s) \in 1..n
  <1>1. PICK k \in 1..n : s \in [1..k -> Letters]
    BY DEF Strings
  <1>2. Letters \subseteq Nat
    BY LookupAssumption
  <1>3. k \in Nat
    BY <1>1
  <1>4. s \in [1..k -> Nat]
    BY <1>1, <1>2
  <1>5. s \in Seq(Nat)
    BY <1>3, <1>4, SeqDef
  <1>6. DOMAIN s = 1..k
    BY <1>4
  <1>7. Len(s) = k
    BY <1>3, <1>5, <1>6, LenProperties
  <1> QED
    BY <1>1, <1>5, <1>7 DEF Text

LEMMA TablesAreTexts ==
    ASSUME NEW tbl \in Tables
    PROVE  /\ Len(tbl) \in Nat /\ Sorted(tbl)
           /\ \A i \in 1..Len(tbl) : tbl[i] \in Text /\ Len(tbl[i]) >= 1
           /\ Shadowing = FALSE => PrefixFree(tbl)
  <1>1. PICK n \in 1..TableSize : tbl \in [1..n -> Strings(MaxKey)]
    BY DEF Tables
  <1>2. n \in Nat /\ MaxKey \in Nat
    BY LookupAssumption
  <1>3. Len(tbl) = n
    BY <1>1, <1>2
  <1>4. ASSUME NEW i \in 1..Len(tbl)
        PROVE  tbl[i] \in Text /\ Len(tbl[i]) >= 1
    <2>1. tbl[i] \in Strings(MaxKey)
      BY <1>1, <1>3
    <2> QED
      BY <1>2, <2>1, StringsAreTexts
  <1>5. Sorted(tbl) /\ (Shadowing = FALSE => PrefixFree(tbl))
    BY DEF Tables, PrefixFree
  <1> QED
    BY <1>2, <1>3, <1>4, <1>5

\* Neighbours in order make all records of the table be in order.
LEMMA SortedPairs ==
    ASSUME NEW tbl, Len(tbl) \in Nat, \A i \in 1..Len(tbl) : tbl[i] \in Text,
           Sorted(tbl), PrefixFree(tbl)
    PROVE  \A i, j \in 1..Len(tbl) : i < j => Precedes(tbl[i], tbl[j])
  <1>1. ASSUME NEW j \in 2..Len(tbl)
        PROVE  Precedes(tbl[j - 1], tbl[j])
    <2>1. j \in 1..Len(tbl) /\ j - 1 \in 1..Len(tbl) /\ j - 1 # j
      OBVIOUS
    <2>2. Less(tbl[j - 1], tbl[j])
      BY DEF Sorted
    <2>3. ~IsPrefix(tbl[j - 1], tbl[j])
      BY <2>1 DEF PrefixFree
    <2>4. tbl[j - 1] \in Text /\ tbl[j] \in Text
      BY <2>1
    <2> QED
      BY <2>2, <2>3, <2>4, LessLetters
  <1> DEFINE Distances ==
               {d \in Nat : \A i, j \in 1..Len(tbl) : j = i + d + 1 => Precedes(tbl[i], tbl[j])}
  <1>2. 0 \in Distances
    <2> SUFFICES ASSUME NEW i \in 1..Len(tbl), NEW j \in 1..Len(tbl), j = i + 0 + 1
                 PROVE  Precedes(tbl[i], tbl[j])
      OBVIOUS
    <2>1. j \in 2..Len(tbl) /\ i = j - 1
      OBVIOUS
    <2> QED
      BY <1>1, <2>1
  <1>3. ASSUME NEW d \in Nat, d \in Distances PROVE d + 1 \in Distances
    <2> SUFFICES ASSUME NEW i \in 1..Len(tbl), NEW j \in 1..Len(tbl), j = i + (d + 1) + 1
                 PROVE  Precedes(tbl[i], tbl[j])
      OBVIOUS
    <2>1. j \in 2..Len(tbl) /\ j - 1 \in 1..Len(tbl) /\ j - 1 = i + d + 1
      OBVIOUS
    <2>2. Precedes(tbl[i], tbl[j - 1])
      BY <1>3, <2>1
    <2>3. Precedes(tbl[j - 1], tbl[j])
      BY <1>1, <2>1
    <2>4. tbl[i] \in Text /\ tbl[j - 1] \in Text /\ tbl[j] \in Text
      BY <2>1
    <2> QED
      BY <2>2, <2>3, <2>4, PrecedesTransitive
  <1>4. Nat \subseteq Distances
    <2> HIDE DEF Distances
    <2> QED  BY <1>2, <1>3, SetInduction
  <1>5. ASSUME NEW i \in 1..Len(tbl), NEW j \in 1..Len(tbl), i < j
        PROVE  Precedes(tbl[i], tbl[j])
    <2>1. j - i - 1 \in Nat /\ j = i + (j - i - 1) + 1
      BY <1>5
    <2>2. j - i - 1 \in Distances
      BY <1>4, <2>1
    <2> QED
      BY <2>1, <2>2
  <1> QED
    BY <1>5

-----------------------------------------------------------------------------
(* The search.  A table and an input do not change, and lower_bound keeps the *)
(* first record that does not come before the input inside its range.         *)

Given == table \in Tables /\ (input \in Strings(MaxInput) \/ input = << >>)

SearchInv ==
    /\ first \in 1..(Len(table) + 1)
    /\ count \in 0..(Len(table) + 1 - first)
    /\ \A i \in 1..Len(table) :
          /\ i < first => Before(table[i], input)
          /\ i >= first + count => ~Before(table[i], input)

DoneInv ==
    done => /\ count = 0
            /\ found = IF first <= Len(table) /\ Matches(table[first], input)
                       THEN first ELSE 0

LookupInv == Given /\ SearchInv /\ DoneInv

LEMMA GivenTexts ==
    ASSUME Given
    PROVE  /\ Len(table) \in Nat /\ input \in Text
           /\ \A i \in 1..Len(table) : table[i] \in Text /\ Len(table[i]) >= 1
           /\ Sorted(table) /\ (Shadowing = FALSE => PrefixFree(table))
  <1>1. MaxInput \in Nat
    BY LookupAssumption
  <1>2. << >> \in Text
    BY DEF Text
  <1>3. input \in Text
    BY <1>1, <1>2, StringsAreTexts DEF Given
  <1> QED
    BY <1>3, TablesAreTexts DEF Given

\* The order of the table carries over to lower_bound's comparison.
LEMMA GivenPartitioned ==
    ASSUME Given, Shadowing = FALSE
    PROVE  Partitioned
  <1> SUFFICES ASSUME NEW i \in 1..Len(table), NEW j \in 1..Len(table),
                      i < j, Before(table[j], input)
               PROVE  Before(table[i], input)
    BY DEF Partitioned
  <1>1. table[i] \in Text /\ table[j] \in Text /\ input \in Text
    BY GivenTexts
  <1>2. Precedes(table[i], table[j])
    BY GivenTexts, SortedPairs
  <1>3. Precedes(table[j], input)
    BY <1>1, BeforeLetters
  <1>4. Precedes(table[i], input)
    BY <1>1, <1>2, <1>3, PrecedesTransitive
  <1> QED
    BY <1>1, <1>4, BeforeLetters

LEMMA InitLookupInv ==
    ASSUME Init
    PROVE  LookupInv
  <1>1. Given
    BY DEF Init, Given
  <1>2. /\ Len(table) \in Nat
        /\ \A i \in 1..Len(table) : table[i] \in Text /\ Len(table[i]) >= 1
    BY <1>1, GivenTexts
  <1>3. ASSUME input = << >>, NEW i \in 1..Len(table)
        PROVE  ~Before(table[i], input) /\ ~Matches(table[i], input)
    <2>1. table[i] \in Text /\ input \in Text /\ Len(input) = 0 /\ Len(table[i]) >= 1
      BY <1>2, <1>3 DEF Text
    <2>2. ~Precedes(table[i], input)
      BY <2>1 DEF Precedes, Parts
    <2> QED
      BY <2>1, <2>2, BeforeLetters DEF Matches
  <1>4. /\ first = 1 /\ found = 0 /\ (done <=> input = << >>)
        /\ input = << >> => count = 0
        /\ input # << >> => count = Len(table)
    BY DEF Init
  <1>5. SearchInv
    <2>1. first \in 1..(Len(table) + 1) /\ count \in 0..(Len(table) + 1 - first)
      BY <1>2, <1>4
    <2>2. ASSUME NEW i \in 1..Len(table), i >= first + count
          PROVE  ~Before(table[i], input)
      BY <1>2, <1>3, <1>4, <2>2
    <2> QED
      BY <1>4, <2>1, <2>2 DEF SearchInv
  <1>6. DoneInv
    <2>1. ASSUME input = << >>, first <= Len(table) PROVE ~Matches(table[first], input)
      BY <1>2, <1>3, <1>4, <2>1
    <2> QED
      BY <1>4, <2>1 DEF DoneInv
  <1> QED
    BY <1>1, <1>5, <1>6 DEF LookupInv

LEMMA HalveLookupInv ==
    ASSUME LookupInv, Halve, Shadowing = FALSE
    PROVE  LookupInv'
  <1> DEFINE half == count \div 2
             goRight == Before(table[first + half], input)
  <1>1. Given' /\ table' = table /\ input' = input
    BY DEF LookupInv, Given, Halve
  <1>2. Len(table) \in Nat /\ Partitioned
    BY GivenTexts, GivenPartitioned DEF LookupInv
  <1>3. first \in Nat /\ count \in Nat /\ count > 0 /\ first >= 1
        /\ first + count <= Len(table) + 1
    BY <1>2 DEF LookupInv, SearchInv, Halve
  <1>4. half \in Nat /\ half < count
    BY <1>3
  <1>5. /\ first' = IF goRight THEN first + half + 1 ELSE first
        /\ count' = IF goRight THEN count - half - 1 ELSE half
    BY DEF Halve
  <1>6. \A i \in 1..Len(table) : /\ i < first => Before(table[i], input)
                                 /\ i >= first + count => ~Before(table[i], input)
    BY DEF LookupInv, SearchInv
  <1>7. \A i, j \in 1..Len(table) :
            i < j /\ Before(table[j], input) => Before(table[i], input)
    BY <1>2 DEF Partitioned
  <1>8. first + half \in 1..Len(table)
    BY <1>2, <1>3, <1>4
  <1>9. ~done' /\ count # 0
    BY <1>3 DEF LookupInv, DoneInv, Halve
  <1> HIDE DEF half
  <1>10. SearchInv'
    <2>1. CASE goRight
      <3>1. first' = first + half + 1 /\ count' = count - half - 1
        BY <1>5, <2>1
      <3>2. \A i \in 1..Len(table) : i < first + half + 1 => Before(table[i], input)
        BY <1>2, <1>3, <1>4, <1>7, <1>8, <2>1
      <3> QED
        BY <1>1, <1>2, <1>3, <1>4, <1>6, <3>1, <3>2 DEF SearchInv
    <2>2. CASE ~goRight
      <3>1. first' = first /\ count' = half
        BY <1>5, <2>2
      <3>2. \A i \in 1..Len(table) : i >= first + half => ~Before(table[i], input)
        BY <1>2, <1>3, <1>4, <1>7, <1>8, <2>2
      <3> QED
        BY <1>1, <1>2, <1>3, <1>4, <1>6, <3>1, <3>2 DEF SearchInv
    <2> QED
      BY <2>1, <2>2
  <1>11. DoneInv'
    BY <1>9 DEF DoneInv
  <1> QED
    BY <1>1, <1>10, <1>11 DEF LookupInv

LEMMA DecideLookupInv ==
    ASSUME LookupInv, Decide
    PROVE  LookupInv'
  <1>1. Given' /\ SearchInv'
    BY DEF LookupInv, Given, SearchInv, Decide
  <1>2. DoneInv'
    BY DEF DoneInv, Decide
  <1> QED
    BY <1>1, <1>2 DEF LookupInv

THEOREM SpecLookupInv ==
    ASSUME Shadowing = FALSE
    PROVE  Spec => []LookupInv
  <1>1. Init => LookupInv
    BY InitLookupInv
  <1>2. LookupInv /\ [Next]_vars => LookupInv'
    <2> SUFFICES ASSUME LookupInv, [Next]_vars PROVE LookupInv'
      OBVIOUS
    <2>1. CASE Halve
      BY <2>1, HalveLookupInv
    <2>2. CASE Decide
      BY <2>2, DecideLookupInv
    <2>3. CASE UNCHANGED vars
      BY <2>3 DEF LookupInv, Given, SearchInv, DoneInv, vars
    <2> QED
      BY <2>1, <2>2, <2>3 DEF Next
  <1> QED
    BY <1>1, <1>2, PTL DEF Spec

-----------------------------------------------------------------------------
(* The theorems.                                                              *)

\* lower_bound's requirement holds of every table none of whose strings is a
\* prefix of another, for every input.
THEOREM SpecPartitioned ==
    ASSUME Shadowing = FALSE
    PROVE  Spec => []Partitioned
  <1>1. LookupInv => Partitioned
    BY GivenPartitioned DEF LookupInv
  <1> QED
    BY <1>1, SpecLookupInv, PTL

\* Where the search ends, a record in front of the input can only be the first
\* one that does not come before it.
LEMMA InvFindsPrefix ==
    ASSUME LookupInv, Shadowing = FALSE
    PROVE  FindsPrefix
  <1> SUFFICES ASSUME done
               PROVE  IF found = 0 THEN \A i \in 1..Len(table) : ~IsPrefix(table[i], input)
                      ELSE IsPrefix(table[found], input)
    BY DEF FindsPrefix
  <1>1. /\ Len(table) \in Nat /\ input \in Text
        /\ \A i \in 1..Len(table) : table[i] \in Text
    BY GivenTexts DEF LookupInv
  <1>2. /\ count = 0 /\ first \in 1..(Len(table) + 1)
        /\ found = IF first <= Len(table) /\ Matches(table[first], input) THEN first ELSE 0
    BY DEF LookupInv, SearchInv, DoneInv
  <1>3. CASE first <= Len(table) /\ Matches(table[first], input)
    <2>1. first \in 1..Len(table) /\ found = first /\ found # 0
      BY <1>1, <1>2, <1>3
    <2>2. IsPrefix(table[first], input)
      BY <1>1, <1>3, <2>1, MatchesPrefix
    <2> QED
      BY <2>1, <2>2
  <1>4. CASE ~(first <= Len(table) /\ Matches(table[first], input))
    <2> SUFFICES ASSUME NEW i \in 1..Len(table), IsPrefix(table[i], input) PROVE FALSE
      BY <1>2, <1>4
    <2>1. table[i] \in Text
      BY <1>1
    <2>2. ~Precedes(table[i], input)
      BY <1>1, <2>1, PrefixPrecedes
    <2>3. ~(i < first)
      <3>1. i < first => Before(table[i], input)
        BY DEF LookupInv, SearchInv
      <3> QED
        BY <1>1, <2>1, <2>2, <3>1, BeforeLetters
    <2>4. first \in 1..Len(table)
      BY <1>1, <1>2, <2>3
    <2>5. table[first] \in Text
      BY <1>1, <2>4
    <2>6. i # first
      BY <1>1, <1>4, <2>4, <2>5, MatchesPrefix
    <2>7. Precedes(table[first], table[i])
      <3>1. first < i
        BY <1>2, <2>3, <2>6
      <3> QED
        BY <2>4, <3>1, GivenTexts, SortedPairs DEF LookupInv
    <2>8. Precedes(table[first], input)
      BY <1>1, <2>1, <2>5, <2>7, PrefixPrecedes
    <2>9. ~Before(table[first], input)
      BY <1>2, <2>4 DEF LookupInv, SearchInv
    <2> QED
      BY <1>1, <2>5, <2>8, <2>9, BeforeLetters
  <1> QED
    BY <1>3, <1>4

\* parse finds the record whose string is in front of the input, and none only
\* when there is none.
THEOREM SpecFindsPrefix ==
    ASSUME Shadowing = FALSE
    PROVE  Spec => []FindsPrefix
  <1>1. LookupInv => FindsPrefix
    BY InvFindsPrefix
  <1> QED
    BY <1>1, SpecLookupInv, PTL

\* The string of every record is parsed back to its value.
LEMMA InvRoundTrip ==
    ASSUME LookupInv, Shadowing = FALSE
    PROVE  RoundTrip
  <1> SUFFICES ASSUME NEW i \in 1..Len(table), done, input = table[i]
               PROVE  found = i
    BY DEF RoundTrip, Stringify
  <1>1. FindsPrefix
    BY InvFindsPrefix
  <1>2. Len(table) \in Nat /\ table[i] \in Text /\ PrefixFree(table)
    BY GivenTexts DEF LookupInv
  <1>3. IsPrefix(table[i], input)
    BY <1>2, PrefixLetters DEF Text
  <1>4. found # 0 /\ IsPrefix(table[found], table[i])
    BY <1>1, <1>3 DEF FindsPrefix
  <1>5. found \in 1..Len(table)
    BY <1>2, <1>4 DEF LookupInv, SearchInv, DoneInv
  <1> QED
    BY <1>2, <1>4, <1>5 DEF PrefixFree

THEOREM SpecRoundTrip ==
    ASSUME Shadowing = FALSE
    PROVE  Spec => []RoundTrip
  <1>1. LookupInv => RoundTrip
    BY InvRoundTrip
  <1> QED
    BY <1>1, SpecLookupInv, PTL
=============================================================================
