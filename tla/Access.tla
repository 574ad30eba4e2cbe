------------------------------- MODULE Access -------------------------------
(***************************************************************************)
(* Who may do what: the configuration of keys and tokens from its text to  *)
(* the map the server uses (src/config.rs), the middleware that resolves a *)
(* request's key (src/auth.rs), the router table and its handlers up to    *)
(* the routing (src/main.rs, src/models.rs, src/proxy.rs), and the access  *)
(* log around them (src/access_log.rs).                                    *)
(*                                                                         *)
(* A text is its core and whether blanks surround it; a core, an id or the *)
(* stem of a pattern may be the name of a variable, standing for ${VAR}.   *)
(* A pattern is a stem and whether a star follows.  A header is the word   *)
(* for its scheme and a text.  The process may stop and start again with   *)
(* another configuration at any moment.                                    *)
(***************************************************************************)
EXTENDS Naturals

CONSTANTS Raw,       \* configurations the process may be started with
          Var,       \* the variables their texts refer to
          Env,       \* Env[v]: the value of v, for those that are set
          Mask,      \* Mask[c]: the first characters of the core c
          Model,     \* model names
          Prefixes,  \* Prefixes[m]: the stems that model name m begins with
          Header,    \* the Authorization headers clients send
          Spellings, \* the words that say "bearer" if case does not matter
          Visible    \* the cores written in visible ASCII alone

ASSUME EnvAssumption == DOMAIN Env \subseteq Var
ASSUME ModelAssumption == \A m \in Model : m \in Prefixes[m]
ASSUME SpellingAssumption == {"Bearer", "bearer"} \subseteq Spellings

\* Texts and patterns as they are written.
ASSUME RawAssumption ==
    \A c \in Raw :
        /\ c.admin \subseteq [core : STRING, padded : BOOLEAN]
        /\ \A e \in c.keys :
              /\ e.text \in [core : STRING, padded : BOOLEAN]
              /\ e.allowed \subseteq [stem : STRING, star : BOOLEAN]

Blank == ""
NoId == "no id"
Text(core) == [core |-> core, padded |-> FALSE]
NoToken == Text(Blank)
NoModel == "no model"
Nobody == "-"

VARIABLES stage,     \* down, refused, or serving
          raw,       \* the configuration the process was started with
          keys,      \* the key map: entries with text, id, allowed, limited
          published, \* the ids of the merged list
          line,      \* the last line of the access log
          client,    \* the token of one client, whose lists are remembered:
          seen,      \* the models listed to it so far
          hidden     \* the published models its last list left out

vars == <<stage, raw, keys, published, line, client, seen, hidden>>

-----------------------------------------------------------------------------
(* Loading.                                                                *)

\* Every string value is expanded, but not the keys of a mapping.
Value(w) == IF w \in Var THEN Env[w] ELSE w

Expandable(w) == w \in Var => w \in DOMAIN Env

Expand(t) == [t EXCEPT !.core = Value(@)]

\* The items of a list are taken as they are written.
KeyText_written(c, e) == e.text

KeyText(c, e) == IF c.form = "list" THEN Expand(e.text) ELSE e.text

\* A key without an id is logged by what the configuration writes for it.
KeyId_early(e, text) == IF e.id # NoId THEN Value(e.id) ELSE Mask[e.text.core]

KeyId(e, text) == IF e.id # NoId THEN Value(e.id) ELSE Mask[text.core]

Allowed(e) == {[p EXCEPT !.stem = Value(@)] : p \in e.allowed}

\* A key listed twice is one key.
ApiKeyMap(c) ==
    {[text |-> KeyText(c, e), id |-> KeyId(e, KeyText(c, e)),
      allowed |-> Allowed(e), limited |-> e.limited] : e \in c.keys}

\* One variable that is not set is an error.
Expands(c) ==
    /\ \A t \in c.admin : Expandable(t.core)
    /\ \A e \in c.keys :
          /\ c.form = "list" => Expandable(e.text.core)
          /\ e.id # NoId => Expandable(e.id)
          /\ \A p \in e.allowed : Expandable(p.stem)

\* sound stands for the checks of addresses, files, names and aliases.
Validates(c) ==
    /\ c.sound
    /\ \A t \in c.admin : Expand(t).core # Blank
    /\ \A e \in c.keys :
          /\ KeyText(c, e).core # Blank
          /\ \A p \in Allowed(e) : p.stem # Blank \/ p.star

AdminTokens == {Expand(t) : t \in raw.admin}

-----------------------------------------------------------------------------
(* The middleware.                                                         *)

\* A header beyond visible ASCII is not read, and only two spellings of the
\* scheme are known.  What surrounds the token is trimmed; an empty one is none.
BearerToken(h) ==
    IF h.scheme \in {"Bearer", "bearer"} /\ h.text.core \in Visible
    THEN Text(h.text.core) ELSE NoToken

\* Every path begins with "/".
IsPublic_prefix(path) == TRUE

IsPublic(path) == path \in {"/", "/healthz", "/readyz"}

IsAdmin(path) == path = "/metrics"

AuthEnabled == keys # {}

\* The entry the client's token is looked up as: one or none.
Found(q) == {e \in keys : /\ BearerToken(q.header) # NoToken
                          /\ e.text = BearerToken(q.header)}

\* The entry that is attached to the request.
Holder(q) == IF IsPublic(q.path) \/ IsAdmin(q.path) \/ ~AuthEnabled
             THEN {} ELSE Found(q)

Passes(q) ==
    \/ IsPublic(q.path)
    \/ /\ ~IsPublic(q.path) /\ IsAdmin(q.path)
       /\ raw.admin = {} \/ BearerToken(q.header) \in AdminTokens \ {NoToken}
    \/ /\ ~IsPublic(q.path) /\ ~IsAdmin(q.path)
       /\ AuthEnabled => Found(q) # {}

-----------------------------------------------------------------------------
(* The handlers, and the line each response makes the access log write.    *)

Matches(p, m) == IF p.star THEN p.stem \in Prefixes[m] ELSE m = p.stem

ModelAllowed(allowed, m) ==
    allowed = {} \/ \E p \in allowed : Matches(p, m)

\* The access log's line, with the header and model for the properties.
Line(q, m, verdict, user) == [sent |-> q.header, model |-> m,
                              verdict |-> verdict, user |-> user]

\* A response of no particular model or user.
Plain(q, verdict) == Line(q, NoModel, verdict, Nobody)

\* A handler that attaches the user's id to its response.
Named(q, verdict) ==
    Line(q, q.model, verdict,
         IF Holder(q) = {} THEN Nobody ELSE (CHOOSE e \in Holder(q) : TRUE).id)

\* The list shows every model to a key whose patterns have a star.
Render_stars(q) ==
    {m \in published : \A e \in Holder(q) :
        (\E p \in e.allowed : p.star) \/ ModelAllowed(e.allowed, m)}

Render(q) ==
    {m \in published : \A e \in Holder(q) : ModelAllowed(e.allowed, m)}

Permitted(q) == \A e \in Holder(q) : ModelAllowed(e.allowed, q.model)

\* The proxy handler.  What it returns as an error carries no user.
HandledLines(q) ==
    IF q.path # "/v1/chat/completions" THEN {Plain(q, "not_found")}
    ELSE IF q.model = NoModel THEN {Plain(q, "bad_request")}
    ELSE IF ~Permitted(q) THEN {Named(q, "forbidden")}
    ELSE {Line(q, q.model, "unavailable", Nobody), Named(q, "answered")}
         \cup {Named(q, "rate_limited") : e \in {f \in Holder(q) : f.limited}}

\* Before it runs, the whole body is read, which may fail: it may be too large.
ProxyLines(q) == {Plain(q, "too_large")} \cup HandledLines(q)

\* The line of a request the middleware refuses.
Refusal(q) ==
    Plain(q, IF IsAdmin(q.path) THEN "not_admin" ELSE "unauthorized")

Pages == {"/", "/healthz", "/readyz"}
ListPaths == {"/v1/models", "/models"}
Routes == Pages \cup ListPaths \cup (IF raw.metrics THEN {"/metrics"} ELSE {})

HandlerLines(q) ==
    IF q.path \notin Routes THEN ProxyLines(q)
    ELSE {Plain(q, IF q.method # "GET" THEN "bad_method"
                   ELSE IF q.path \in ListPaths THEN "listed"
                   ELSE "page")}

-----------------------------------------------------------------------------
(* The process.                                                            *)

\* The token that a header carries, whatever the code makes of it.
Meant(h) == IF h.scheme \in Spellings THEN Text(h.text.core) ELSE NoToken
Token == {Meant(h) : h \in Header}

Request == [method : {"GET", "POST"}, header : Header,
            path : Pages \cup ListPaths
                   \cup {"/metrics", "/v1/chat/completions", "/other"},
            model : Model \cup {NoModel}]

NoHeader == [scheme |-> Blank, text |-> NoToken]
NoLine == [sent |-> NoHeader, model |-> NoModel, verdict |-> "none",
           user |-> Nobody]

Init ==
    /\ stage = "down"
    /\ raw \in Raw
    /\ keys = {}
    /\ published = {}
    /\ line = NoLine
    /\ client \in Token
    /\ seen = {}
    /\ hidden = {}

Forget ==
    /\ published' = {}
    /\ line' = NoLine
    /\ seen' = {}
    /\ hidden' = {}

\* The process is started with a configuration; one it cannot use ends it.
Start ==
    /\ stage \in {"down", "refused"}
    /\ \E c \in Raw :
          /\ raw' = c
          /\ IF Expands(c) /\ Validates(c)
             THEN stage' = "serving" /\ keys' = ApiKeyMap(c)
             ELSE stage' = "refused" /\ keys' = {}
    /\ Forget
    /\ UNCHANGED client

Stop ==
    /\ stage = "serving"
    /\ stage' = "down"
    /\ keys' = {}
    /\ Forget
    /\ UNCHANGED <<raw, client>>

\* A refresh publishes a list.
Publish ==
    /\ stage = "serving"
    /\ published' \in SUBSET Model
    /\ UNCHANGED <<stage, raw, keys, line, client, seen, hidden>>

\* The client remembers what the list it is shown has and lacks.
Remember(q) ==
    IF line'.verdict = "listed" /\ Meant(line'.sent) = client
    THEN /\ seen' = seen \cup Render(q)
         /\ hidden' = published \ Render(q)
    ELSE UNCHANGED <<seen, hidden>>

\* A request goes through the middleware and, if it passes, to its handler.
Serve ==
    /\ stage = "serving"
    /\ \E q \in Request :
          /\ line' \in IF Passes(q) THEN HandlerLines(q) ELSE {Refusal(q)}
          /\ Remember(q)
    /\ UNCHANGED <<stage, raw, keys, published, client>>

Next == Start \/ Stop \/ Publish \/ Serve

Spec == Init /\ [][Next]_vars

-----------------------------------------------------------------------------
(* What the configuration says, read off its text and not off the key map: *)
(* w stands for v, as it is written or as a variable with that value.      *)

Says(w, v) == \/ w \notin Var /\ v = w
              \/ w \in DOMAIN Env /\ v = Env[w]

\* The entries written for a token, which has no blanks around it.
Written(t) ==
    {e \in raw.keys :
        /\ e.text.padded = t.padded
        /\ IF raw.form = "list" THEN Says(e.text.core, t.core)
                                ELSE e.text.core = t.core}

WrittenAdmin(t) ==
    {w \in raw.admin : w.padded = t.padded /\ Says(w.core, t.core)}

\* An entry without patterns lets use every model, and a pattern with a star
\* every model that begins with its stem.
Lets(e, m) ==
    e.allowed = {} \/ \E p \in e.allowed : \E stem \in Prefixes[m] :
                          Says(p.stem, stem) /\ (p.star \/ stem = m)

Sender == Meant(line.sent)
Routed == line.verdict \in {"rate_limited", "unavailable", "answered"}

\* With keys configured, a request gets as far as the routing only with a key
\* that the configuration contains and that it lets use the model: no other
\* path, method, header or token leads there.
OnlyHoldersRoute ==
    Routed /\ raw.keys # {} =>
        \E e \in Written(Sender) : Lets(e, line.model)

\* A key of an accepted configuration works, from the environment or not, when
\* it is sent with one of the two spellings and in visible ASCII, unless the
\* configuration has blanks around it; and so does an admin token.
KeysWork ==
    /\ line.sent.scheme \in {"Bearer", "bearer"}
    /\ line.sent.text.core \in Visible
    => /\ line.verdict = "unauthorized" => Written(Sender) = {}
       /\ line.verdict = "not_admin" /\ Sender # NoToken =>
             WrittenAdmin(Sender) = {}

\* The list and the proxy agree, however much the list changes between: what
\* was listed to a token is not forbidden to it, and what was published but
\* left out of its list is not routed for it.
ListMatchesPermission ==
    Sender = client =>
        /\ line.verdict = "forbidden" => line.model \notin seen
        /\ Routed => line.model \notin hidden

\* The user of a line is the id the configuration gives the client's key, an
\* empty one included, or else the first characters of the key.
UserIsHolder ==
    line.user # Nobody =>
        \E e \in Written(Sender) :
            IF e.id # NoId THEN Says(e.id, line.user)
                           ELSE line.user = Mask[Sender.core]
=============================================================================
