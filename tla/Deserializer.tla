---------------------------- MODULE Deserializer ----------------------------
(* utils/Deserializer.h: the visitor that reads a response from a text.  A     *)
(* visit from position `at' (as many characters are consumed) gives whether it *)
(* succeeded, the position after it, and what it stored, as a sequence of at   *)
(* most one value.                                                             *)
EXTENDS Packet, FiniteSets

Least(S) == CHOOSE x \in S : \A y \in S : x <= y

\* The first of the positions, and the end of the text when there is none.
FirstOf(positions, text) == IF positions = {} THEN Len(text) ELSE Least(positions)

Skip_Adds(text, at) ==
    at + FirstOf({p \in at..(Len(text) - 1) : text[p + 1] \notin Blank}, text)
Skip(text, at) == FirstOf({p \in at..(Len(text) - 1) : text[p + 1] \notin Blank}, text)

\* input.substr(at).
Rest(text, at) == SubSeq(text, at + 1, Len(text))

AtFront(seq, text, at) ==
    at + Len(seq) <= Len(text) /\ SubSeq(text, at + 1, at + Len(seq)) = seq

Result(ok, at, stored) == [ok |-> ok, at |-> at, stored |-> stored]

-----------------------------------------------------------------------------
\* Sequence::parse: an empty literal matches nothing.
VisitSequence(seq, text, at) ==
    LET p == Skip(text, at)
    IN  IF seq # << >> /\ AtFront(seq, text, p)
        THEN Result(TRUE, p + Len(seq), << >>)
        ELSE Result(FALSE, p, << >>)

\* parseStringLiteral looks for two quotes anywhere in the rest, copies what is
\* between them when there is something and it fits with its NUL, and reports
\* two more characters than it has copied whether or not it found the quotes.
VisitQuoted(size, text, at) ==
    LET p == Skip(text, at)
        quotes == {q \in p..(Len(text) - 1) : text[q + 1] = Quote}
        start == FirstOf(quotes, text)
        end == FirstOf(quotes \ {start}, text)
        length == IF Cardinality(quotes) > 1 /\ end - start - 1 < size
                  THEN end - start - 1 ELSE 0
    IN  Result(TRUE, p + length + 2, <<SubSeq(text, start + 2, start + 1 + length)>>)

\* The line up to CRLF, or all there is; what does not fit is left behind.
LineEnd(text, at) ==
    FirstOf({p \in at..(Len(text) - 1) : AtFront(CrLf, text, p)}, text)
Taken(size, text, at) ==
    IF LineEnd(text, at) - at <= size THEN LineEnd(text, at) - at ELSE size
VisitLine(size, text, at) ==
    LET take == Taken(size, text, at)
    IN  Result(take > 0, at + take, <<SubSeq(text, at + 1, at + take)>>)

\* std::from_chars: the longest numeral at the front, when it is in range.
NumeralEnd(text, at) ==
    LET first == IF AtFront(<<"-">>, text, at) THEN at + 1 ELSE at
    IN  FirstOf({p \in first..(Len(text) - 1) : text[p + 1] \notin DOMAIN DigitValue}, text)
FromChars(text, at) ==
    LET s == SubSeq(text, at + 1, NumeralEnd(text, at))
    IN  IF IsNumeral(s) THEN Number(s) ELSE NoNumber

VisitInt(text, at) ==
    LET p == Skip(text, at)
        n == FromChars(text, p)
    IN  IF n # NoNumber
        THEN Result(TRUE, NumeralEnd(text, p), <<n>>)
        ELSE Result(FALSE, p, << >>)

\* EnumStringConverter: a number that is one of the enum's.
VisitNumber(codes, text, at) ==
    LET p == Skip(text, at)
        n == FromChars(text, p)
    IN  IF n \in codes
        THEN Result(TRUE, NumeralEnd(text, p), <<n>>)
        ELSE Result(FALSE, p, << >>)

\* EnumCustomStringConverter: the first name of the table that is at the front;
\* EnumLookup models how it is found.
VisitName(names, text, at) ==
    LET p == Skip(text, at)
        found == {i \in DOMAIN names : AtFront(<<names[i]>>, text, p)}
    IN  IF found # {}
        THEN Result(TRUE, p + 1, <<names[Least(found)]>>)
        ELSE Result(FALSE, p, << >>)

Visit(item, text, at) ==
    CASE item.visit = "sequence" -> VisitSequence(item.arg, text, at)
      [] item.visit = "quoted" -> VisitQuoted(item.arg, text, at)
      [] item.visit = "line" -> VisitLine(item.arg, text, at)
      [] item.visit = "int" -> VisitInt(text, at)
      [] item.visit = "number" -> VisitNumber(item.arg, text, at)
      [] item.visit = "name" -> VisitName(item.arg, text, at)

\* Deserializer::rewind.
Rewind_Not(at) == at
Rewind(at) == 0
=============================================================================
