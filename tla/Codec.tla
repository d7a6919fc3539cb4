------------------------------- MODULE Codec -------------------------------
(* The two visitors together: a command is filled in, written, and what was    *)
(* written is read back by the packet with the same fields, as a modem that    *)
(* understands the command would; or the modem sends texts of its own, in      *)
(* pieces, to one of the packs the library parses with.                        *)
EXTENDS Serializer, ResponsePack

VARIABLE origin  \* of the text that is read: "host" or "modem"

vars == <<serializerVars, packVars, origin>>

Init ==
    /\ SerializerInit /\ PackInit
    /\ \/ origin = "host" /\ pack = "test"
       \/ origin = "modem" /\ command = "At" /\ room = 0

\* What a TestCommand was written to arrives at once.
Transmit ==
    /\ stage = "written" /\ command = "Test" /\ input = << >> /\ chunks < MaxChunks
    /\ input' = out
    /\ chunks' = MaxChunks
    /\ UNCHANGED <<serializerVars, pack, phase, alt, step, length, fields, value, origin>>

Next ==
    \/ origin = "host" /\ SerializerNext /\ UNCHANGED <<packVars, origin>>
    \/ Transmit
    \/ origin = "modem" /\ Receive /\ UNCHANGED <<serializerVars, origin>>
    \/ Try /\ UNCHANGED <<serializerVars, origin>>
    \/ Reset /\ UNCHANGED <<serializerVars, origin>>

Spec == Init /\ [][Next]_vars

-----------------------------------------------------------------------------
(* Properties.                                                              *)

\* utResponse.cpp: a rejected response consumes at most "all available input".
\* consumed() never exceeds the text, however much of an answer has arrived.
CursorInInput == length <= Len(input)

\* Deserializer.h: apart from a quoted field that is not there or does not fit,
\* no visit moves the cursor past the text, and substr never throws.
CursorInUnlessIllQuoted == (CursorInInput /\ phase # "threw") \/ IllQuoted(input)

\* ResponsePack.h "Try to parse with each alternative in order": whatever a failed
\* alternative has consumed, the pack takes the first alternative the text begins
\* with a sentence of, exactly that sentence, and none only when there is none.
FirstMatch ==
    /\ phase = "matched" /\ ~IllQuoted(input) =>
            /\ value = [alt |-> alt, fields |-> fields]
            /\ length \in SentenceEnds(alt, input)
            /\ \A a \in 1..(alt - 1) : SentenceEnds(a, input) = {}
    /\ phase = "none" /\ ~IllQuoted(input) =>
            \A a \in DOMAIN Alternatives : SentenceEnds(a, input) = {}

\* Orchestrator.h receive: parsing before all of an answer has been read takes
\* nothing that the rest of it would have made something else.
SplitKeepsVerdict ==
    phase = "matched" /\ ~IllQuoted(input) =>
        \A c \in Chunks[pack] :
            /\ SentenceEnds(alt, input \o c) = {length}
            /\ \A a \in 1..(alt - 1) : SentenceEnds(a, input \o c) = {}

\* Serializer.h, Deserializer.h and QuotedField: what was written is read back
\* whole and with the same values.  A field that holds a quote is not: writeQuoted
\* escapes it and parseStringLiteral ends the string there.
RoundTrip ==
    origin = "host" /\ chunks > 0 /\ ~Occurs(Quote, field) =>
        /\ phase \notin {"failed", "none", "threw"}
        /\ phase = "matched" => value.fields = values /\ length = Len(out)
=============================================================================
