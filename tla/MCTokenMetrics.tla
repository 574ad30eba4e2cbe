--------------------------- MODULE MCTokenMetrics ---------------------------
(***************************************************************************)
(* TokenMetrics for TLC: two streams, and bodies that end with and without *)
(* a newline, a usage or a whole line; whose usage comes beside a text, is *)
(* repeated, zero or followed by a text; and whose texts are empty or have *)
(* characters of one to four bytes and lengths at either side of a token's *)
(* four bytes.                                                             *)
(***************************************************************************)
EXTENDS TokenMetrics

CONSTANTS s1, s2

TwoStreams == {s1, s2}

Usage == [none |-> 0, two |-> 2, three |-> 3]

\* bij is the ith of j bytes.
Bytes2 == [b12 |-> [at |-> 1, of |-> 2], b22 |-> [at |-> 2, of |-> 2]]
Bytes3 == [b13 |-> [at |-> 1, of |-> 3], b23 |-> [at |-> 2, of |-> 3],
           b33 |-> [at |-> 3, of |-> 3]]
Bytes4 == [b14 |-> [at |-> 1, of |-> 4], b24 |-> [at |-> 2, of |-> 4],
           b34 |-> [at |-> 3, of |-> 4], b44 |-> [at |-> 4, of |-> 4]]

BytesOf == Bytes2 @@ Bytes3 @@ Bytes4

Bodies == {
    <<"{", "a", "b13", "b23", "b33", "}", "nl", "{", "b12", "b22", "}", "nl">>,
    <<"{", "empty", "}", "nl", "{", "b14", "b24", "b34", "b44", "}">>,
    <<"{", "b12", "b22", "two", "}", "nl", "{", "three", "}">>,
    <<"junk", "nl", "{", "three", "}", "nl", "{", "a", "}">>,
    <<"{", "a", "}", "nl", "nl", "{", "none", "}">>,
    <<"{", "a", "}", "nl", "{", "b12", "b22">> }

\* Scaled so that no two of the instance's speeds and averages are equal by
\* the rounding of the division.
PerSecond(n, secs) == (n * 50) \div secs
=============================================================================
