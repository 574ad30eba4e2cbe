------------------------------ MODULE MCAccess ------------------------------
(***************************************************************************)
(* Access for TLC: keys as a list and as a map, with ids and patterns,     *)
(* each from a variable that is set, from one that is not, and as written; *)
(* keys with blanks around and beyond visible ASCII, an empty id, patterns *)
(* with and without a star; with and without an admin token and /metrics.  *)
(***************************************************************************)
EXTENDS Access

Padded(core) == [core |-> core, padded |-> TRUE]
Entry(text, id, allowed, limited) ==
    [text |-> text, id |-> id, allowed |-> allowed, limited |-> limited]
Listed(text) == Entry(text, NoId, {}, FALSE)
Pattern(stem, star) == [stem |-> stem, star |-> star]

KeyLists == {
    {},
    {Listed(Text("k1")), Listed(Text("$K"))},
    {Listed(Padded("k1")), Listed(Text("accented"))} }
KeyMaps == {
    {Entry(Text("k1"), "$ID", {Pattern("gpt", TRUE)}, TRUE),
     Entry(Text("$K"), NoId, {Pattern("qwen", FALSE)}, FALSE)},
    {Entry(Text("k1"), Blank, {}, FALSE),
     Entry(Text("k2"), NoId, {Pattern("$M", FALSE)}, TRUE)} }
Admins == {{}, {Text("$K")}, {Padded("k1")}}

Config(form, entries, admin, served, sound) ==
    [form |-> form, keys |-> entries, admin |-> admin, metrics |-> served,
     sound |-> sound]

Accepted ==
    {Config("list", l, a, TRUE, TRUE) : l \in KeyLists, a \in Admins}
    \cup {Config("map", l, a, TRUE, TRUE) : l \in KeyMaps, a \in Admins}
    \cup {Config("map", l, {}, FALSE, TRUE) : l \in KeyMaps}

\* Variables that are not set, blank texts and patterns, an unsound rest.
Refused == {
    Config("list", {Listed(Text("$UNSET"))}, {}, TRUE, TRUE),
    Config("list", {Listed(Padded(Blank))}, {}, TRUE, TRUE),
    Config("list", {}, {Padded(Blank)}, TRUE, TRUE),
    Config("map", {Entry(Text("k1"), "$UNSET", {}, FALSE)}, {}, TRUE, TRUE),
    Config("map", {Entry(Text("k1"), NoId, {Pattern("$UNSET", TRUE)}, FALSE)},
           {}, TRUE, TRUE),
    Config("map", {Entry(Text("k2"), "bob", {Pattern(Blank, FALSE)}, TRUE)},
           {}, TRUE, TRUE),
    Config("list", {}, {}, TRUE, FALSE) }
Raws == Accepted \cup Refused

Vars == {"$K", "$ID", "$M", "$UNSET"}
Environment == [v \in {"$K", "$ID", "$M"} |->
    CASE v = "$K" -> "k2" [] v = "$ID" -> "alice" [] v = "$M" -> "gpt-4"]
Masks == [c \in {"k1", "k2", "$K", "accented"} |->
    CASE c \in {"k1", "k2"} -> "k..." [] c = "$K" -> "$..."
      [] c = "accented" -> "a..."]
Stems == [m \in {"gpt-4", "qwen"} |->
    CASE m = "gpt-4" -> {"gpt", "gpt-4"} [] m = "qwen" -> {"qwen"}]

AnyCase == {"Bearer", "bearer", "BEARER"}
Ascii == {Blank, "k1", "k2", "$K"}
Sent(scheme, text) == [scheme |-> scheme, text |-> text]
Headers == {
    Sent("Bearer", Text("k1")), Sent("Bearer", Padded("k2")),
    Sent("Bearer", Text("$K")), Sent("Bearer", Text("accented")),
    Sent("bearer", Text("k1")), Sent("BEARER", Text("k1")),
    Sent("Basic", Text("k1")) }
=============================================================================
