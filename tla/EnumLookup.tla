----------------------------- MODULE EnumLookup -----------------------------
(* Utils::EnumCustomStringConverter: enum values and the strings that stand    *)
(* for them, in a table strictly sorted by string.  parse finds the record    *)
(* for the front of an input by std::lower_bound with a comparison that looks *)
(* only at as many characters of the input as the record's string has.        *)
(* A string is a sequence of letters, a letter is a number, and the value of  *)
(* a record is its index in the table.  Every table and every input is a      *)
(* behaviour of its own; the binary search takes one step per iteration.      *)
EXTENDS Naturals, Sequences, SequencesExt

CONSTANTS
    Letters,    \* the alphabet, a set of numbers
    MaxKey,     \* bound: length of a table's string
    MaxInput,   \* bound: length of an input
    TableSize,  \* bound: records of a table
    Shadowing    \* may a string of the table be a prefix of another?

ASSUME LookupAssumption ==
    /\ Letters \subseteq Nat
    /\ MaxKey \in Nat /\ MaxInput \in Nat /\ TableSize \in Nat
    /\ Shadowing \in BOOLEAN

VARIABLES
    table,   \* the strings of the map, by record
    input,
    first, count,  \* lower_bound: first record and size of the range searched
    found,   \* the record parse finds, 0 for none
    done     \* has lookup returned?

vars == <<table, input, first, count, found, done>>

-----------------------------------------------------------------------------
\* operator< of string_view.
Less(s, t) ==
    \E n \in 0..Len(s) :
        /\ n < Len(t) /\ SubSeq(s, 1, n) = SubSeq(t, 1, n)
        /\ n < Len(s) => s[n + 1] < t[n + 1]

\* value.substr(0, n)
Cut(s, n) == IF n < Len(s) THEN SubSeq(s, 1, n) ELSE s

\* isStrictlySortedByString, which the tables are asserted to satisfy.
Sorted_Unchecked(tbl) == TRUE
Sorted(tbl) == \A i \in 2..Len(tbl) : Less(tbl[i - 1], tbl[i])

\* The comparison handed to lower_bound.
Before_WholeInput(key, str) == Less(key, str)
Before(key, str) == Less(key, Cut(str, Len(key)))

\* lookup's test of the record found.
Matches_LengthOnly(key, str) == Len(key) <= Len(str)
Matches(key, str) == Len(key) <= Len(str) /\ Cut(str, Len(key)) = key

\* stringify of a value into a buffer with enough room.
Stringify(i) == table[i]

-----------------------------------------------------------------------------
Strings(n) == UNION {[1..k -> Letters] : k \in 1..n}

Tables ==
    {tbl \in UNION {[1..n -> Strings(MaxKey)] : n \in 1..TableSize} :
        /\ Sorted(tbl)
        /\ Shadowing \/ \A i, j \in 1..Len(tbl) : IsPrefix(tbl[i], tbl[j]) => i = j}

Init ==
    /\ table \in Tables
    /\ input \in Strings(MaxInput) \cup {<< >>}
    /\ first = 1 /\ found = 0
    /\ done = (input = << >>)
    /\ count = IF done THEN 0 ELSE Len(table)

\* One iteration of lower_bound.
Halve ==
    /\ count > 0
    /\ LET half == count \div 2
           goRight == Before(table[first + half], input)
       IN /\ first' = IF goRight THEN first + half + 1 ELSE first
          /\ count' = IF goRight THEN count - half - 1 ELSE half
    /\ UNCHANGED <<table, input, found, done>>

\* lower_bound has returned: is its record the one?
Decide ==
    /\ count = 0 /\ ~done
    /\ found' = IF first <= Len(table) /\ Matches(table[first], input)
                THEN first ELSE 0
    /\ done' = TRUE
    /\ UNCHANGED <<table, input, first, count>>

Next == Halve \/ Decide

Spec == Init /\ [][Next]_vars

-----------------------------------------------------------------------------
(* Properties.                                                              *)

\* What lower_bound requires of its range: the records before the input come
\* first.  The comparison cuts the input to each record's length, so this does
\* not follow from the table being sorted alone.
Partitioned ==
    \A i, j \in 1..Len(table) :
        i < j /\ Before(table[j], input) => Before(table[i], input)

\* A record is found exactly when its string is at the front of the input.
FindsPrefix ==
    done => IF found = 0 THEN \A i \in 1..Len(table) : ~IsPrefix(table[i], input)
            ELSE IsPrefix(table[found], input)

\* utEnumStringConverter.cpp: "The associated variant is returned".  The string
\* of every record is parsed back to its value.
RoundTrip == \A i \in 1..Len(table) : done /\ input = Stringify(i) => found = i
=============================================================================
