------------------------------- MODULE Packet -------------------------------
(* core/Packet.h, Command.h, Response.h, ResponsePack.h and the packets of     *)
(* protocols/standard: what each packet lets a visitor visit, in which order,  *)
(* as a sequence of items.  A text is a sequence of characters; a word that    *)
(* is only ever matched or written as a whole (a tag, the name of an enum      *)
(* value) counts as one character.                                             *)
EXTENDS Integers, Sequences

CONSTANTS
    IntMax,     \* bound: INT_MAX; a number has at most that magnitude
    LineSize,   \* bound: storage of a line (32 in Ati.h, 512 in Urc.h)
    FieldSize   \* bound: storage of a quoted field, its final NUL included

\* Every code of an enum is an int.
ASSUME PacketAssumption ==
    /\ IntMax \in Nat /\ IntMax >= 500
    /\ LineSize \in Nat \ {0} /\ FieldSize \in Nat \ {0}

Cr == <<"\r">>
CrLf == <<"\r", "\n">>
Comma == <<",">>
Quote == "\""
Backslash == "\\"
Blank == {" ", "\t"}

-----------------------------------------------------------------------------
(* Items: one visit each, of a literal, of a field of some kind and size, or  *)
(* of an enum with the texts of its values.                                   *)

Must(seq) == [visit |-> "sequence", arg |-> seq, must |-> TRUE]
May(seq) == [Must(seq) EXCEPT !.must = FALSE]
Integer == [visit |-> "int", arg |-> 0, must |-> TRUE]
Quoted == [visit |-> "quoted", arg |-> FieldSize, must |-> TRUE]
LineText == [visit |-> "line", arg |-> LineSize, must |-> TRUE]
Numeric(codes) == [visit |-> "number", arg |-> codes, must |-> TRUE]
Named(names) == [visit |-> "name", arg |-> names, must |-> TRUE]

IsField(item) == item.visit # "sequence"

-----------------------------------------------------------------------------
(* Packet.h, Command.h, Response.h.                                           *)

IfTagged(tag, items) == IF tag = << >> THEN << >> ELSE items

WithCommas(fields) ==
    IF fields = << >> THEN << >> ELSE
    [i \in 1..(2 * Len(fields) - 1) |->
        IF i % 2 = 1 THEN fields[(i + 1) \div 2] ELSE Must(Comma)]

AcceptWithTerm_Lax(tag, fields, term) ==
    IfTagged(tag, <<Must(tag)>>) \o WithCommas(fields) \o <<May(term)>>
AcceptWithTerm(tag, fields, term) ==
    IfTagged(tag, <<Must(tag)>>) \o WithCommas(fields) \o <<Must(term)>>

Accept(tag, fields) == AcceptWithTerm(tag, fields, CrLf)
Command(tag, fields) == AcceptWithTerm(tag, fields, Cr)
Response(tag, fields) == <<May(CrLf)>> \o AcceptWithTerm(tag, fields, CrLf)
Line(tag, fields) == IfTagged(tag, <<May(tag)>>) \o Accept(tag, fields)
MultiLineResponse(tag, lines) ==
    <<May(CrLf)>> \o IfTagged(tag, <<Must(tag)>>) \o <<May(CrLf)>> \o lines

-----------------------------------------------------------------------------
(* protocols/standard, FinalResultCode.h and Urc.h.                           *)

At == Command(<<"AT">>, << >>)
Ati == Command(<<"ATI">>, << >>)
Manufacturer == Line(<< >>, <<LineText>>)
AtiResponse == MultiLineResponse(<<"+ATI:">>, Manufacturer)
CpinRead == Accept(<<"+CPIN? ">>, << >>)
CpinWrite == Accept(<<"+CPIN=">>, <<Integer>>)
CpinReadResponse == Accept(<<"+CPIN: ">>, <<Named(<<"PH_SIM_PIN", "READY", "SIM_PIN">>)>>)
Ok == Response(<<"OK">>, << >>)
Error == Accept(<<"ERROR">>, << >>)
CmsError == Accept(<<"+CMS ERROR:">>, <<Numeric({500})>>)
CmeError == Accept(<<"+CME ERROR:">>, <<Numeric({0})>>)
AnyUrc == Response(<< >>, <<LineText>>)

\* TestCommand and TestResponse of the unit tests: one field of each kind.
TestFields == <<Integer, Quoted, Numeric(0..4), Named(<<"Five", "Nine">>)>>
TestCommand == Accept(<<"+TEST:">>, TestFields)
TestResponse == Response(<<"+TEST:">>, TestFields)

FinalResultCode(rs) == rs \o <<Ok, Error, CmsError, CmeError>>
Urc(rs) == rs \o <<AnyUrc>>

\* The packs a text is parsed with.
PackOf == [
    result |-> FinalResultCode(<< >>),
    ati    |-> FinalResultCode(<<AtiResponse>>),
    urc    |-> Urc(<<CpinReadResponse>>),
    test   |-> <<TestResponse>>]

\* The commands and the fields they are written with.
CommandOf == [At |-> At, Ati |-> Ati, CpinRead |-> CpinRead,
              CpinWrite |-> CpinWrite, Test |-> TestCommand]

-----------------------------------------------------------------------------
(* Numbers: std::to_chars and std::from_chars, base 10.                       *)

Digit == <<"0", "1", "2", "3", "4", "5", "6", "7", "8", "9">>
DigitValue == [d \in {Digit[i] : i \in 1..10} |-> (CHOOSE i \in 1..10 : Digit[i] = d) - 1]

Decimal[n \in Nat] ==
    IF n < 10 THEN <<Digit[n + 1]>> ELSE Append(Decimal[n \div 10], Digit[(n % 10) + 1])
ToChars(n) == IF n < 0 THEN <<"-">> \o Decimal[0 - n] ELSE Decimal[n]

\* The number a text stands for; a text that stands for none in range: NoNumber.
NoNumber == IntMax + 1
IsNumeral(s) ==
    LET digits == IF s # << >> /\ s[1] = "-" THEN Tail(s) ELSE s
    IN  digits # << >> /\ \A i \in DOMAIN digits : digits[i] \in DOMAIN DigitValue
Number(s) ==
    LET value[i \in 0..Len(s)] ==
            IF i = 0 THEN 0
            ELSE IF s[i] = "-" THEN 0 ELSE 10 * value[i - 1] + DigitValue[s[i]]
        n == IF s[1] = "-" THEN 0 - value[Len(s)] ELSE value[Len(s)]
    IN  IF n \in (0 - IntMax - 1)..IntMax THEN n ELSE NoNumber
=============================================================================
