---------------------------- MODULE TokenTracker ----------------------------
(***************************************************************************)
(* Counting the tokens of a response while it is passed on (TokenTracker,  *)
(* src/metrics.rs 141-255).                                                *)
(*                                                                         *)
(* A body is a sequence of atoms, the places where the network may cut it: *)
(* a line's JSON before and after its text, the bytes of the text, a count *)
(* of completion tokens, the end of the line.  A character of several      *)
(* bytes is several atoms, "a" is one of a single byte, and "empty" a text *)
(* of none.  Whatever is neither JSON nor "[DONE]" is "junk".              *)
(***************************************************************************)
EXTENDS Naturals, Sequences, SequencesExt

CONSTANTS
    UsageOf, \* UsageOf[a]: the completion_tokens the atom a reports
    ByteOf   \* ByteOf[a]: which byte of how many of its character a is

Marks == {"{", "}", "nl", "a", "empty", "replaced", "merged"}

ASSUME UsageAssumption ==
    /\ UsageOf \in [DOMAIN UsageOf -> Nat]
    /\ DOMAIN UsageOf \cap Marks = {}

\* UTF-8 has characters of at most four bytes.
ASSUME ByteAssumption ==
    /\ ByteOf \in [DOMAIN ByteOf -> [at : 1..4, of : 2..4]]
    /\ \A a \in DOMAIN ByteOf : ByteOf[a].at <= ByteOf[a].of
    /\ DOMAIN ByteOf \cap (Marks \cup DOMAIN UsageOf) = {}

\* usage is {} or {n}.
NewTracker == [buf |-> <<>>, acc |-> 0, usage |-> {}, started |-> FALSE]

\* The character of which chunk[i] is a byte lies within the chunk.
Uncut(chunk, i) ==
    LET c == ByteOf[chunk[i]]
    IN  c.at <= i /\ i + c.of <= Len(chunk) + c.at

\* from_utf8_lossy: the first bytes of a character are one U+FFFD together, and
\* each byte that comes without its first byte is one of its own.
Lossy(chunk) ==
    [i \in DOMAIN chunk |->
        IF chunk[i] \notin DOMAIN ByteOf \/ Uncut(chunk, i) THEN chunk[i]
        ELSE IF ByteOf[chunk[i]].at = 1 \/ i < ByteOf[chunk[i]].at
             THEN "replaced" ELSE "merged"]

\* The line is a JSON object.
IsValue(line) ==
    Len(line) >= 2 /\ line[1] = "{" /\ line[Len(line)] = "}"

Usages(line) == {UsageOf[a] : a \in ToSet(line) \cap DOMAIN UsageOf}

\* U+FFFD takes three bytes.
Plain == {"a"} \cup DOMAIN ByteOf
TextLen(line) ==
    Cardinality({i \in DOMAIN line : line[i] \in Plain})
      + 3 * Cardinality({i \in DOMAIN line : line[i] = "replaced"})

\* The object has a content or a text, be it empty.
HasText(line) == ToSet(line) \cap (Plain \cup {"empty", "replaced"}) # {}

Approximate(len) == IF len = 0 THEN 0 ELSE (len + 3) \div 4

\* A usage replaces the one before it and hides the text beside it.
ObserveLine(t, line) ==
    CASE ~IsValue(line) -> t
      [] IsValue(line) /\ Usages(line) # {} ->
           [t EXCEPT !.usage = Usages(line)]
      [] OTHER -> [t EXCEPT !.acc = @ + Approximate(TextLen(line)),
                            !.started = @ \/ HasText(line)]

\* One atom is appended to line_buf, and a line taken out when it is complete.
Feed(t, a) ==
    IF a = "nl" THEN ObserveLine([t EXCEPT !.buf = <<>>], t.buf)
                ELSE [t EXCEPT !.buf = Append(@, a)]

ObserveChunk(t, chunk) == FoldLeft(Feed, t, Lossy(chunk))

\* What is left without the end of its line is a line too.
FinishTracker(t) == ObserveLine([t EXCEPT !.buf = <<>>], t.buf)

TotalTokens(t) ==
    IF t.usage # {} THEN CHOOSE n \in t.usage : TRUE ELSE t.acc

-----------------------------------------------------------------------------
(* What the counting is for, read off the whole body at once: the last     *)
(* reported usage, or else the sum of the estimates of the lines.          *)

Lines(body) ==
    {l \in (1..Len(body) + 1) \X (0..Len(body)) :
        /\ l[1] <= l[2] + 1
        /\ \A k \in l[1]..l[2] : body[k] # "nl"
        /\ l[1] = 1 \/ body[l[1] - 1] = "nl"
        /\ l[2] = Len(body) \/ body[l[2] + 1] = "nl"}

Values(body) == {l \in Lines(body) : IsValue(SubSeq(body, l[1], l[2]))}
Bytes(body, l) ==
    Cardinality({k \in l[1]..l[2] : body[k] \in Plain})
InValue(body, k) == \E l \in Values(body) : k \in l[1]..l[2]
Reports(body) ==
    {k \in DOMAIN body : body[k] \in DOMAIN UsageOf /\ InValue(body, k)}

Estimate(body) ==
    SumFunction([l \in Values(body) |-> (Bytes(body, l) + 3) \div 4])

Reported(body) == UsageOf[body[CHOOSE k \in Reports(body) :
                                  \A j \in Reports(body) : j <= k]]
=============================================================================
