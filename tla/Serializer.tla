----------------------------- MODULE Serializer -----------------------------
(* utils/Serializer.h: the visitor that writes a command's items into a buffer *)
(* of fixed size, and core/Types.h: the bounded stream a quoted field is       *)
(* filled with.  One step per operation on the stream and one per visit.       *)
EXTENDS Packet, FiniteSets

CONSTANTS
    Rooms,      \* sizes of the output buffer
    Texts,      \* texts streamed into a quoted field
    Numbers,    \* values of an int field, and numbers streamed
    MaxPieces   \* bound: streaming operations on one field

ASSUME SerializerAssumption ==
    /\ Rooms \subseteq Nat /\ MaxPieces \in Nat
    /\ Texts \subseteq Seq(STRING)
    /\ Numbers \subseteq (0 - IntMax - 1)..IntMax

VARIABLES
    command,   \* the command written, by name
    field,     \* content of its QuotedField, up to the NUL
    pieces,    \* operations on the field's stream so far
    values,    \* what its fields hold
    room,      \* size of the buffer
    out,       \* what the visitor has written
    next,      \* the next item to visit
    stage      \* "filling", "writing", "written", "refused"

serializerVars == <<command, field, pieces, values, room, out, next, stage>>

-----------------------------------------------------------------------------
(* FixedBufStream and QuotedField.                                            *)

\* Characters that fit before the NUL.
Capacity_NoNul == FieldSize
Capacity == FieldSize - 1

\* << of a text: as much of it as fits; << of a number: all of it or nothing.
StreamText(text) ==
    LET fits == Capacity - Len(field)
    IN  field \o SubSeq(text, 1, IF Len(text) < fits THEN Len(text) ELSE fits)
StreamNumber(n) ==
    IF Len(field) + Len(ToChars(n)) <= Capacity THEN field \o ToChars(n) ELSE field

Fill ==
    /\ stage = "filling" /\ command = "Test" /\ pieces < MaxPieces
    /\ \/ \E text \in Texts : field' = StreamText(text)
       \/ \E n \in Numbers : field' = StreamNumber(n)
    /\ pieces' = pieces + 1
    /\ UNCHANGED <<command, values, room, out, next, stage>>

-----------------------------------------------------------------------------
(* The visits.  Each writes its whole piece or nothing and fails.             *)

Items == CommandOf[command]
Item == Items[next]

\* Among the items, an item's number as a field; the value visited.
FieldNo(i) == Cardinality({k \in 1..i : IsField(Items[k])})
Value == values[FieldNo(next)]

Left == room - Len(out)

Escape(c) == IF c = Quote THEN <<Backslash, c>> ELSE <<c>>
Escaped(text) ==
    LET e[i \in 0..Len(text)] == IF i = 0 THEN << >> ELSE e[i - 1] \o Escape(text[i])
    IN  e[Len(text)]
WithQuotes(text) == <<Quote>> \o Escaped(text) \o <<Quote>>

\* The room writeQuoted asks for.
Need_NoEscapes(text) == 2 + Len(text)
Need(text) == Len(WithQuotes(text))

Visits(kind) == stage = "writing" /\ next <= Len(Items) /\ Item.visit = kind

Put_SkipsFailed(piece, fits) ==
    /\ out' = IF fits THEN out \o piece ELSE out
    /\ next' = next + 1
    /\ UNCHANGED <<command, field, pieces, values, room, stage>>
Put(piece, fits) ==
    /\ IF fits /\ piece # << >>
       THEN out' = out \o piece /\ next' = next + 1 /\ UNCHANGED stage
       ELSE stage' = "refused" /\ UNCHANGED <<out, next>>
    /\ UNCHANGED <<command, field, pieces, values, room>>

WriteSequence == Visits("sequence") /\ Put(Item.arg, Len(Item.arg) < Left)
WriteQuoted == Visits("quoted") /\ Put(WithQuotes(Value), Need(Value) < Left)
WriteNumber ==
    Visits("number") /\ Put(ToChars(Value), Left > 0 /\ Len(ToChars(Value)) <= Left - 1)
WriteName == Visits("name") /\ Put(<<Value>>, 1 < Left)
WriteInt == Visits("int") /\ Put(ToChars(Value), Len(ToChars(Value)) <= Left)

\* accept has visited every item.
Written ==
    /\ stage = "writing" /\ next > Len(Items)
    /\ stage' = "written"
    /\ UNCHANGED <<command, field, pieces, values, room, out, next>>

-----------------------------------------------------------------------------
\* The values of a command's fields, the quoted one being str.
ValuesOf(cmd, str) ==
    CASE cmd = "Test" -> {<<n, str, code, name>> :
                            n \in Numbers, code \in {4}, name \in {"Nine"}}
      [] cmd = "CpinWrite" -> {<<n>> : n \in Numbers}
      [] OTHER -> {<< >>}

Send ==
    /\ stage = "filling"
    /\ values' \in ValuesOf(command, field)
    /\ stage' = "writing"
    /\ UNCHANGED <<command, field, pieces, room, out, next>>

SerializerInit ==
    /\ command \in DOMAIN CommandOf
    /\ field = << >> /\ pieces = 0 /\ values = << >>
    /\ room \in Rooms /\ out = << >> /\ next = 1
    /\ stage = "filling"

Write == WriteSequence \/ WriteQuoted \/ WriteNumber \/ WriteName \/ WriteInt \/ Written
SerializerNext == Fill \/ Send \/ Write

-----------------------------------------------------------------------------
(* Properties.                                                              *)

\* What the item with that number stands for.
Piece(i) ==
    LET value == values[FieldNo(i)]
    IN  CASE Items[i].visit = "sequence" -> Items[i].arg
          [] Items[i].visit = "quoted" -> WithQuotes(value)
          [] Items[i].visit = "name" -> <<value>>
          [] OTHER -> ToChars(value)
Sentence(n) ==
    LET s[i \in 0..n] == IF i = 0 THEN << >> ELSE s[i - 1] \o Piece(i)
    IN  s[n]

\* Serializer.h and Types.h: no visit writes past the buffer, whatever the fields
\* hold, and no streaming past a field's storage, which keeps room for the NUL.
OutputFits == Len(out) <= room /\ Len(field) < FieldSize

\* Packet.h acceptWithTerm and Serializer.h: the output is always a whole number
\* of pieces of the command, a command that is accepted is written to its end,
\* and one that fits with a character to spare is accepted.
WritesWhole ==
    stage # "filling" =>
        /\ out = Sentence(next - 1)
        /\ stage = "written" => next = Len(Items) + 1
        /\ stage = "refused" => Len(Sentence(Len(Items))) >= room
=============================================================================
