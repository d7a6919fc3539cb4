---------------------------- MODULE ResponsePack ----------------------------
(* core/ResponsePack.h: a text is tried with every alternative of a pack in    *)
(* order, each by a fresh candidate and a rewound visitor, one step per visit. *)
(* The text grows as the modem's characters are read and shrinks by what was   *)
(* matched, as in Orchestrator::receive and dispatchUrcs.                      *)
EXTENDS Deserializer

CONSTANTS
    Chunks,    \* what the modem may send at a time, by pack
    MaxChunks  \* bound: chunks read

ASSUME ResponsePackAssumption ==
    /\ MaxChunks \in Nat
    /\ \A p \in DOMAIN PackOf : Chunks[p] \subseteq Seq(STRING)

VARIABLES
    pack,    \* the pack, by name
    input,   \* text in front of the parser
    chunks,  \* chunks read so far
    phase,   \* "idle", "trying", "failed", "matched", "none", "threw"
    alt,     \* alternative on trial
    step,    \* its next item
    length,  \* characters consumed
    fields,  \* values of the candidate
    value    \* what the pack holds: an alternative and its fields, or nothing

packVars == <<pack, input, chunks, phase, alt, step, length, fields, value>>

Monostate == [alt |-> 0, fields |-> << >>]
Alternatives == PackOf[pack]
OnTrial == Alternatives[alt]

-----------------------------------------------------------------------------
\* One more chunk from the modem.
Receive ==
    /\ phase \in {"idle", "none"} /\ chunks < MaxChunks
    /\ \E c \in Chunks[pack] : input' = input \o c
    /\ chunks' = chunks + 1
    /\ phase' = "idle"
    /\ UNCHANGED <<pack, alt, step, length, fields, value>>

\* tryOne: a candidate, a visitor at the start.
Begin(a) ==
    /\ alt' = a /\ step' = 1
    /\ length' = Rewind(length) /\ fields' = << >>
    /\ phase' = "trying"
    /\ UNCHANGED <<pack, input, chunks, value>>

TryFirst == phase = "idle" /\ input # << >> /\ Begin(1)
TryNext == phase = "failed" /\ alt < Len(Alternatives) /\ Begin(alt + 1)
GiveUp ==
    /\ phase = "failed" /\ alt = Len(Alternatives)
    /\ phase' = "none"
    /\ UNCHANGED <<pack, input, chunks, alt, step, length, fields, value>>

\* A visit of the candidate; accept stops at the first one that fails and counts.
VisitItem ==
    /\ phase = "trying" /\ step <= Len(OnTrial) /\ length <= Len(input)
    /\ LET item == OnTrial[step]
           result == Visit(item, input, length)
       IN  /\ length' = result.at
           /\ IF result.ok \/ ~item.must
              THEN step' = step + 1 /\ fields' = fields \o result.stored /\ UNCHANGED phase
              ELSE phase' = "failed" /\ UNCHANGED <<step, fields>>
    /\ UNCHANGED <<pack, input, chunks, alt, value>>

\* substr throws when the cursor is past the end of the text.
Throw ==
    /\ phase = "trying" /\ step <= Len(OnTrial) /\ length > Len(input)
    /\ phase' = "threw"
    /\ UNCHANGED <<pack, input, chunks, alt, step, length, fields, value>>

\* value.emplace.
Match ==
    /\ phase = "trying" /\ step > Len(OnTrial)
    /\ value' = [alt |-> alt, fields |-> fields]
    /\ phase' = "matched"
    /\ UNCHANGED <<pack, input, chunks, alt, step, length, fields>>

\* The caller takes the value, resets the pack and keeps the rest of the text.
Reset ==
    /\ phase = "matched"
    /\ value' = Monostate
    /\ input' = Rest(input, length)
    /\ length' = 0 /\ alt' = 1 /\ step' = 1 /\ fields' = << >>
    /\ phase' = "idle"
    /\ UNCHANGED <<pack, chunks>>

PackInit ==
    /\ pack \in DOMAIN PackOf /\ input = << >> /\ chunks = 0
    /\ phase = "idle" /\ alt = 1 /\ step = 1 /\ length = 0
    /\ fields = << >> /\ value = Monostate

Try == TryFirst \/ TryNext \/ GiveUp \/ VisitItem \/ Throw \/ Match
PackNext == Receive \/ Try \/ Reset

-----------------------------------------------------------------------------
(* The sentences of a packet, stated without a cursor: each item stands for a  *)
(* set of texts, and a packet for what can be cut into texts of its items.     *)

Occurs(c, s) == \E i \in DOMAIN s : s[i] = c

Stands(item, s) ==
    CASE item.visit = "sequence" -> s = item.arg /\ s # << >>
      [] item.visit = "quoted" ->
            /\ Len(s) \in 2..(item.arg + 1) /\ s[1] = Quote /\ s[Len(s)] = Quote
            /\ ~Occurs(Quote, SubSeq(s, 2, Len(s) - 1))
      [] item.visit = "int" -> IsNumeral(s) /\ Number(s) # NoNumber
      [] item.visit = "number" -> IsNumeral(s) /\ Number(s) \in item.arg
      [] item.visit = "name" -> Len(s) = 1 /\ Occurs(s[1], item.arg)
      [] item.visit = "line" ->
            Len(s) \in 1..item.arg /\ \A i \in 0..Len(s) : ~AtFront(CrLf, s, i)

AllBlank(s) == \A i \in DOMAIN s : s[i] \in Blank

\* Where an item that begins at p may end.  Blanks are allowed in front of
\* everything but a line; an optional literal is absent only where it is not there.
After(item, p, text) ==
    LET between(q, r) == SubSeq(text, q + 1, r)
        present == {r \in p..Len(text) : \E q \in p..r :
                        /\ item.visit = "line" => q = p
                        /\ AllBlank(between(p, q)) /\ Stands(item, between(q, r))}
    IN  IF present = {} /\ ~item.must
        THEN {q \in p..Len(text) : AllBlank(between(p, q))}
        ELSE present

\* Where the first n items of a packet may end in a text.
Ends(items, n, text) ==
    LET ends[i \in 0..n] ==
            IF i = 0 THEN {0} ELSE UNION {After(items[i], p, text) : p \in ends[i - 1]}
    IN  ends[n]

SentenceEnds(a, text) == Ends(Alternatives[a], Len(Alternatives[a]), text)

\* A quoted field is due and the text there is not one that fits.
IllQuoted(text) ==
    \E a \in DOMAIN Alternatives : \E i \in DOMAIN Alternatives[a] :
        /\ Alternatives[a][i].visit = "quoted"
        /\ \E p \in Ends(Alternatives[a], i - 1, text) :
                After(Alternatives[a][i], p, text) = {}
=============================================================================
