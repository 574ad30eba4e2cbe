---------------------------- MODULE AccessProofs ----------------------------
(***************************************************************************)
(* Proofs about Access, for every set of configurations, environments,     *)
(* patterns and headers: who reaches the routing, that keys work, that the *)
(* list agrees with the permission, and who is logged.                     *)
(***************************************************************************)
EXTENDS Access, TLAPS

\* The key map is that of an accepted configuration, and a process that does
\* not serve has answered nothing.
Loaded ==
    /\ keys = IF stage = "serving" THEN ApiKeyMap(raw) ELSE {}
    /\ stage = "serving" => raw \in Raw /\ Expands(raw) /\ Validates(raw)
    /\ stage # "serving" => line = NoLine /\ seen = {} /\ hidden = {}

\* What the lists of the client say of the key it has.
Shown == \A m \in seen : \A e \in keys :
            e.text = client => ModelAllowed(e.allowed, m)
LeftOut == \A m \in hidden : \E e \in keys :
            e.text = client /\ ~ModelAllowed(e.allowed, m)

Rights ==
    /\ OnlyHoldersRoute /\ KeysWork /\ UserIsHolder /\ ListMatchesPermission

IInv == Loaded /\ Shown /\ LeftOut /\ Rights

-----------------------------------------------------------------------------
(* The key map and the middleware.                                         *)

\* What a configuration with all its variables set says is what it is expanded
\* to.
LEMMA ValueSays ==
    ASSUME NEW w, NEW v, Expandable(w)
    PROVE  Says(w, v) <=> v = Value(w)
BY EnvAssumption DEF Says, Value, Expandable

\* A text is a token if its core is, and no blanks are around; an expanded one
\* if the value of its core is.
LEMMA TextFields ==
    ASSUME NEW w \in [core : STRING, padded : BOOLEAN], NEW core
    PROVE  /\ Expand(w) = Text(core)
                <=> Value(w.core) = core /\ w.padded = Text(core).padded
           /\ w = Text(core)
                <=> w.core = core /\ w.padded = Text(core).padded
<1> DEFINE v == Value(w.core)
<1>1. /\ Expand(w) = [core |-> v, padded |-> w.padded]
      /\ w = [core |-> w.core, padded |-> w.padded]
  BY DEF Expand
<1>2. /\ Text(core) = [core |-> core, padded |-> Text(core).padded]
      /\ Text(core).core = core
  BY DEF Text
<1>3. Expand(w).core = v /\ Expand(w).padded = w.padded
  BY <1>1
<1>4. v = core /\ w.padded = Text(core).padded => Expand(w) = Text(core)
  BY <1>1, <1>2
<1>5. w.core = core /\ w.padded = Text(core).padded => w = Text(core)
  BY <1>1, <1>2
<1> QED
  BY <1>2, <1>3, <1>4, <1>5

\* What is written for a token without blanks are the entries whose texts are
\* that token after expansion.
LEMMA WrittenText ==
    ASSUME raw \in Raw, Expands(raw), NEW x \in raw.keys, NEW core
    PROVE  x \in Written(Text(core)) <=> KeyText(raw, x) = Text(core)
<1> DEFINE bare == x.text.padded = Text(core).padded
<1>1. x.text \in [core : STRING, padded : BOOLEAN]
  BY RawAssumption
<1>2. Text(core).core = core
  BY DEF Text
<1>3. x \in Written(Text(core)) <=>
         /\ bare
         /\ IF raw.form = "list" THEN Says(x.text.core, core)
                                 ELSE x.text.core = core
  BY <1>2 DEF Written
<1>4. /\ Expand(x.text) = Text(core) <=> Value(x.text.core) = core /\ bare
      /\ x.text = Text(core) <=> x.text.core = core /\ bare
  BY <1>1, TextFields, Zenon
<1>5. raw.form = "list" =>
          (Says(x.text.core, core) <=> core = Value(x.text.core))
  BY ValueSays DEF Expands
<1> QED
  BY <1>3, <1>4, <1>5 DEF KeyText

\* The same of the admin token.
LEMMA WrittenAdminText ==
    ASSUME raw \in Raw, Expands(raw), NEW w \in raw.admin, NEW core
    PROVE  w \in WrittenAdmin(Text(core)) <=> Expand(w) = Text(core)
<1>1. w \in [core : STRING, padded : BOOLEAN]
  BY RawAssumption
<1>2. Says(w.core, core) <=> core = Value(w.core)
  BY ValueSays DEF Expands
<1>3. Text(core).core = core
  BY DEF Text
<1>4. Expand(w) = Text(core) <=>
          Value(w.core) = core /\ w.padded = Text(core).padded
  BY <1>1, TextFields, Zenon
<1> QED
  BY <1>2, <1>3, <1>4 DEF WrittenAdmin

\* What the expanded patterns of an entry allow, the entry lets use.
LEMMA AllowedLets ==
    ASSUME raw \in Raw, Expands(raw), NEW x \in raw.keys, NEW m \in Model,
           ModelAllowed(Allowed(x), m)
    PROVE  Lets(x, m)
<1>1. CASE x.allowed = {}
  BY <1>1 DEF Lets
<1>2. CASE x.allowed # {}
  <2>1. Allowed(x) # {}
    BY <1>2 DEF Allowed
  <2>2. PICK p \in x.allowed : Matches([p EXCEPT !.stem = Value(@)], m)
    BY <2>1 DEF ModelAllowed, Allowed
  <2>3. p \in [stem : STRING, star : BOOLEAN]
    BY RawAssumption
  <2>4. IF p.star THEN Value(p.stem) \in Prefixes[m] ELSE m = Value(p.stem)
    BY <2>2, <2>3 DEF Matches
  <2>5. Says(p.stem, Value(p.stem))
    BY ValueSays DEF Expands
  <2>6. Value(p.stem) \in Prefixes[m]
    BY <2>4, ModelAssumption
  <2> QED
    BY <2>4, <2>5, <2>6 DEF Lets
<1> QED
  BY <1>1, <1>2

\* The entries of the key map are those that are written down.
LEMMA Entries ==
    ASSUME Loaded, stage = "serving"
    PROVE  /\ \A e \in keys : \E x \in raw.keys :
                 /\ e.text = KeyText(raw, x)
                 /\ e.id = KeyId(x, e.text)
                 /\ e.allowed = Allowed(x)
           /\ \A x \in raw.keys : \E e \in keys : e.text = KeyText(raw, x)
           /\ \A x \in raw.keys : KeyText(raw, x) # NoToken
<1>1. /\ keys = {[text |-> KeyText(raw, x), id |-> KeyId(x, KeyText(raw, x)),
                  allowed |-> Allowed(x), limited |-> x.limited] :
                    x \in raw.keys}
  BY DEF Loaded, ApiKeyMap
<1>2. \A x \in raw.keys : KeyText(raw, x).core # Blank
  BY DEF Loaded, Validates
<1>3. NoToken.core = Blank
  BY DEF NoToken, Text
<1>4. \A x \in raw.keys : KeyText(raw, x) # NoToken
  BY <1>2, <1>3
<1>5. ASSUME NEW x \in raw.keys PROVE \E e \in keys : e.text = KeyText(raw, x)
  <2> DEFINE e == [text |-> KeyText(raw, x), id |-> KeyId(x, KeyText(raw, x)),
                   allowed |-> Allowed(x), limited |-> x.limited]
  <2>1. e \in keys
    BY <1>1
  <2>2. e.text = KeyText(raw, x)
    OBVIOUS
  <2> QED
    BY <2>1, <2>2
<1>6. \A e \in keys : \E x \in raw.keys :
          /\ e.text = KeyText(raw, x)
          /\ e.id = KeyId(x, e.text)
          /\ e.allowed = Allowed(x)
  BY <1>1
<1> QED
  BY <1>4, <1>5, <1>6

\* The header is one that the middleware reads.
Readable(h) == h.scheme \in {"Bearer", "bearer"} /\ h.text.core \in Visible

\* The middleware reads the token that the header carries, or none; and a token
\* is a text without blanks around it.
LEMMA TokenRead ==
    ASSUME NEW h
    PROVE  /\ BearerToken(h) \in {NoToken, Meant(h)}
           /\ Readable(h) => BearerToken(h) = Meant(h)
           /\ \E core : Meant(h) = Text(core)
BY SpellingAssumption DEF BearerToken, Meant, Readable, NoToken

\* The entries found for a request are those of the token it carries, all of
\* them if there is one, and there is one for a header that can be read.
LEMMA FoundByToken ==
    ASSUME NEW q
    PROVE  /\ \A e \in Found(q) : /\ e \in keys /\ e.text = Meant(q.header)
                                  /\ Meant(q.header) # NoToken
           /\ Found(q) # {} \/ Readable(q.header) =>
                 \A e \in keys : /\ Meant(q.header) # NoToken
                                 /\ e.text = Meant(q.header)
                                 => e \in Found(q)
BY TokenRead DEF Found

\* On the paths of clients, a request that passes holds what was found for it,
\* and that is something when there are keys.
LEMMA ClientPaths ==
    ASSUME NEW q \in Request, Passes(q),
           q.path \in ListPaths \cup {"/v1/chat/completions"}
    PROVE  /\ AuthEnabled => Holder(q) = Found(q) /\ Found(q) # {}
           /\ ~AuthEnabled => Holder(q) = {}
<1>1. ~IsPublic(q.path) /\ ~IsAdmin(q.path)
  BY DEF IsPublic, IsAdmin, ListPaths
<1> QED
  BY <1>1 DEF Passes, Holder

\* What a line of the access log says of the request that caused it.
LEMMA LineMeans ==
    ASSUME NEW q \in Request,
           line' \in IF Passes(q) THEN HandlerLines(q) ELSE {Refusal(q)}
    PROVE  /\ line'.sent = q.header
           /\ Routed' => /\ Passes(q) /\ Permitted(q)
                         /\ q.path = "/v1/chat/completions"
                         /\ line'.model = q.model /\ q.model # NoModel
           /\ line'.verdict = "forbidden" =>
                 /\ Passes(q) /\ ~Permitted(q)
                 /\ q.path = "/v1/chat/completions"
                 /\ line'.model = q.model
           /\ line'.verdict = "unauthorized" =>
                 ~Passes(q) /\ ~IsAdmin(q.path)
           /\ line'.verdict = "not_admin" => ~Passes(q) /\ IsAdmin(q.path)
           /\ line'.verdict = "listed" => Passes(q) /\ q.path \in ListPaths
           /\ line'.user # Nobody =>
                 /\ Holder(q) # {}
                 /\ line'.user = (CHOOSE e \in Holder(q) : TRUE).id
<1>1. ASSUME NEW v, NEW m, NEW u, line' = Line(q, m, v, u)
      PROVE  /\ line'.sent = q.header /\ line'.model = m
             /\ line'.verdict = v /\ line'.user = u
  BY <1>1 DEF Line
<1> DEFINE id == IF Holder(q) = {} THEN Nobody
                 ELSE (CHOOSE e \in Holder(q) : TRUE).id
<1>2. ASSUME NEW v, line' = Named(q, v)
      PROVE  /\ line'.sent = q.header /\ line'.model = q.model
             /\ line'.verdict = v /\ line'.user = id
  BY <1>2 DEF Line, Named
<1>3. ASSUME NEW v, line' = Plain(q, v)
      PROVE  /\ line'.sent = q.header
             /\ line'.verdict = v /\ line'.user = Nobody
  BY <1>3 DEF Line, Plain
<1>4. CASE ~Passes(q)
  <2>1. line' = Plain(q, IF IsAdmin(q.path) THEN "not_admin"
                                            ELSE "unauthorized")
    BY <1>4 DEF Refusal
  <2>2. line'.verdict = IF IsAdmin(q.path) THEN "not_admin"
                                           ELSE "unauthorized"
    BY <1>3, <2>1
  <2> QED
    BY <1>3, <1>4, <2>1, <2>2 DEF Routed
<1>5. CASE Passes(q) /\ q.path \in Routes
  <2>1. PICK v \in {"bad_method", "listed", "page"} :
            /\ line' = Plain(q, v)
            /\ v = "listed" => q.path \in ListPaths
    BY <1>5 DEF HandlerLines
  <2> QED
    BY <1>3, <1>5, <2>1 DEF Routed
<1>6. CASE Passes(q) /\ q.path \notin Routes
  <2>0. line' \in {Plain(q, "too_large")} \cup HandledLines(q)
    BY <1>6 DEF HandlerLines, ProxyLines
  <2>1. CASE line' = Plain(q, "too_large")
    BY <1>3, <2>1 DEF Routed
  <2>2. CASE /\ line' \in HandledLines(q)
             /\ q.path # "/v1/chat/completions" \/ q.model = NoModel
    <3>1. line' \in {Plain(q, "not_found"), Plain(q, "bad_request")}
      BY <2>2 DEF HandledLines
    <3> QED
      BY <1>3, <3>1 DEF Routed
  <2>3. CASE /\ line' \in HandledLines(q)
             /\ q.path = "/v1/chat/completions" /\ q.model # NoModel
             /\ ~Permitted(q)
    <3>1. line' = Named(q, "forbidden")
      BY <2>3 DEF HandledLines
    <3>2. /\ line'.sent = q.header /\ line'.model = q.model
          /\ line'.verdict = "forbidden" /\ line'.user = id
      BY <1>2, <3>1
    <3> QED
      BY <1>6, <2>3, <3>2 DEF Routed
  <2>4. CASE /\ line' \in HandledLines(q)
             /\ q.path = "/v1/chat/completions" /\ q.model # NoModel
             /\ Permitted(q)
    <3>1. \/ line' = Line(q, q.model, "unavailable", Nobody)
          \/ line' = Named(q, "answered")
          \/ line' = Named(q, "rate_limited")
      BY <2>4 DEF HandledLines
    <3>2. CASE line' = Line(q, q.model, "unavailable", Nobody)
      BY <1>1, <1>6, <2>4, <3>2 DEF Routed
    <3>3. CASE line' = Named(q, "answered") \/ line' = Named(q, "rate_limited")
      BY <1>2, <1>6, <2>4, <3>3 DEF Routed
    <3> QED
      BY <3>1, <3>2, <3>3
  <2> QED
    BY <2>0, <2>1, <2>2, <2>3, <2>4
<1> QED
  BY <1>4, <1>5, <1>6

-----------------------------------------------------------------------------
(* The invariant is inductive.                                             *)

\* Nothing has been answered: there is nothing to be wrong about.
LEMMA NothingSaid ==
    ASSUME line = NoLine, seen = {}, hidden = {}
    PROVE  Shown /\ LeftOut /\ Rights
<1>1. line.verdict = "none" /\ line.user = Nobody
  BY DEF NoLine
<1> QED
  BY <1>1 DEF Shown, LeftOut, Rights, OnlyHoldersRoute, KeysWork,
     UserIsHolder, ListMatchesPermission, Routed

\* The process starts down.
LEMMA InitInv == Init => IInv
BY NothingSaid DEF Init, IInv, Loaded

\* A served request changes the line and, for the client, its lists.
LEMMA ServeInv ==
    ASSUME IInv, Serve
    PROVE  IInv'
<1>1. stage = "serving" /\ Loaded
  BY DEF Serve, IInv
<1>2. PICK q \in Request :
          /\ line' \in IF Passes(q) THEN HandlerLines(q) ELSE {Refusal(q)}
          /\ Remember(q)
  BY DEF Serve
<1>3. /\ stage' = stage /\ raw' = raw /\ keys' = keys
      /\ client' = client /\ published' = published
  BY DEF Serve
<1>4. Loaded'
  BY <1>1, <1>3 DEF Loaded, Expands, Validates, ApiKeyMap
<1> DEFINE t == Meant(q.header)
<1>5. /\ line'.sent = q.header
      /\ Routed' => /\ Passes(q) /\ Permitted(q)
                    /\ q.path = "/v1/chat/completions"
                    /\ line'.model = q.model /\ q.model # NoModel
      /\ line'.verdict = "forbidden" =>
            /\ Passes(q) /\ ~Permitted(q)
            /\ q.path = "/v1/chat/completions"
            /\ line'.model = q.model
      /\ line'.verdict = "unauthorized" => ~Passes(q) /\ ~IsAdmin(q.path)
      /\ line'.verdict = "not_admin" => ~Passes(q) /\ IsAdmin(q.path)
      /\ line'.verdict = "listed" => Passes(q) /\ q.path \in ListPaths
      /\ line'.user # Nobody =>
            /\ Holder(q) # {}
            /\ line'.user = (CHOOSE e \in Holder(q) : TRUE).id
  BY <1>2, LineMeans
<1>6. \A e \in Found(q) : e \in keys /\ e.text = t /\ t # NoToken
  BY FoundByToken
<1>7. Found(q) # {} \/ Readable(q.header) =>
          \A e \in keys : t # NoToken /\ e.text = t => e \in Found(q)
  BY FoundByToken
<1>8. Holder(q) \subseteq Found(q)
  BY DEF Holder
<1>9. /\ \A e \in keys : \E x \in raw.keys :
             /\ e.text = KeyText(raw, x)
             /\ e.id = KeyId(x, e.text)
             /\ e.allowed = Allowed(x)
      /\ \A x \in raw.keys : \E e \in keys : e.text = KeyText(raw, x)
      /\ \A x \in raw.keys : KeyText(raw, x) # NoToken
  BY <1>1, Entries
<1>10. \A e \in keys : e.text # NoToken
  BY <1>9
<1>11. /\ Shown' /\ LeftOut'
  <2>1. CASE line'.verdict = "listed" /\ t = client
    <3>1. /\ seen' = seen \cup Render(q)
          /\ hidden' = published \ Render(q)
      BY <1>2, <1>5, <2>1 DEF Remember
    <3>2. /\ AuthEnabled => Holder(q) = Found(q) /\ Found(q) # {}
          /\ ~AuthEnabled => Holder(q) = {}
      BY <1>5, <2>1, ClientPaths
    <3>3. \A e \in keys : e.text = client => e \in Holder(q)
      BY <1>7, <1>10, <2>1, <3>2 DEF AuthEnabled
    <3>4. Shown'
      BY <1>3, <3>1, <3>3 DEF IInv, Shown, Render, ModelAllowed, Matches
    <3>5. LeftOut'
      BY <1>3, <1>6, <1>8, <2>1, <3>1
         DEF LeftOut, Render, ModelAllowed, Matches
    <3> QED
      BY <3>4, <3>5
  <2>2. CASE ~(line'.verdict = "listed" /\ t = client)
    <3>1. seen' = seen /\ hidden' = hidden
      BY <1>2, <1>5, <2>2 DEF Remember
    <3> QED
      BY <1>3, <3>1 DEF IInv, Shown, LeftOut, ModelAllowed, Matches
  <2> QED
    BY <2>1, <2>2
<1>12. /\ Sender' = t /\ \A x : Written(x)' = Written(x)
       /\ \A x : WrittenAdmin(x)' = WrittenAdmin(x)
  BY <1>3, <1>5 DEF Sender, Written, WrittenAdmin
<1>13. raw \in Raw /\ Expands(raw)
  BY <1>1 DEF Loaded
<1>14. PICK core : t = Text(core)
  BY TokenRead
<1>15. \A x \in raw.keys : x \in Written(t) <=> KeyText(raw, x) = t
  BY <1>13, <1>14, WrittenText
<1>16. OnlyHoldersRoute'
  <2>1. SUFFICES ASSUME Routed', raw.keys # {}
                 PROVE  \E e \in Written(t) : Lets(e, q.model)
    BY <1>3, <1>5, <1>12 DEF OnlyHoldersRoute
  <2>2. AuthEnabled
    BY <1>9, <2>1 DEF AuthEnabled
  <2>3. Holder(q) = Found(q) /\ Found(q) # {}
    BY <1>5, <2>1, <2>2, ClientPaths
  <2>4. PICK e \in Found(q) : ModelAllowed(e.allowed, q.model)
    BY <1>5, <2>1, <2>3 DEF Permitted
  <2>5. PICK x \in raw.keys : KeyText(raw, x) = t /\ e.allowed = Allowed(x)
    BY <1>6, <1>9, <2>4
  <2>6. q.model \in Model
    BY <1>5, <2>1 DEF Request
  <2>7. Lets(x, q.model)
    BY <1>13, <2>4, <2>5, <2>6, AllowedLets
  <2> QED
    BY <1>15, <2>5, <2>7
<1>17. KeysWork'
  <2>1. SUFFICES ASSUME Readable(q.header)
                 PROVE  /\ line'.verdict = "unauthorized" => Written(t) = {}
                        /\ line'.verdict = "not_admin" /\ t # NoToken =>
                              WrittenAdmin(t) = {}
    BY <1>5, <1>12 DEF KeysWork, Readable
  <2>2. ASSUME line'.verdict = "unauthorized" PROVE Written(t) = {}
    <3>1. AuthEnabled /\ Found(q) = {}
      BY <1>5, <2>2 DEF Passes
    <3>2. SUFFICES ASSUME NEW x \in raw.keys, KeyText(raw, x) = t PROVE FALSE
      BY <1>15 DEF Written
    <3>3. PICK e \in keys : e.text = t
      BY <1>9, <3>2
    <3>4. e \in Found(q)
      BY <1>7, <1>10, <2>1, <3>3
    <3> QED
      BY <3>1, <3>4
  <2>3. ASSUME line'.verdict = "not_admin", t # NoToken,
               NEW w \in WrittenAdmin(t)
        PROVE  FALSE
    <3>1. BearerToken(q.header) = t
      BY <2>1, TokenRead
    <3>2. ~IsPublic(q.path)
      BY <1>5, <2>3 DEF IsAdmin, IsPublic
    <3>3. w \in raw.admin
      BY <2>3 DEF WrittenAdmin
    <3>4. Expand(w) = t
      BY <1>13, <1>14, <2>3, <3>3, WrittenAdminText
    <3>5. t \in AdminTokens \ {NoToken}
      BY <2>3, <3>3, <3>4 DEF AdminTokens
    <3> QED
      BY <1>5, <2>3, <3>1, <3>2, <3>5 DEF Passes
  <2> QED
    BY <2>2, <2>3
<1>18. UserIsHolder'
  <2>1. SUFFICES ASSUME line'.user # Nobody
                 PROVE  \E e \in Written(t) :
                            IF e.id # NoId THEN Says(e.id, line'.user)
                                           ELSE line'.user = Mask[t.core]
    BY <1>5, <1>12 DEF UserIsHolder
  <2>2. PICK e \in Holder(q) : line'.user = e.id
    BY <1>5, <2>1
  <2>3. PICK x \in raw.keys : KeyText(raw, x) = t /\ e.id = KeyId(x, t)
    BY <1>6, <1>8, <1>9, <2>2
  <2>4. x.id # NoId => Says(x.id, Value(x.id))
    BY <1>13, ValueSays DEF Expands
  <2>5. IF x.id # NoId THEN Says(x.id, line'.user)
                       ELSE line'.user = Mask[t.core]
    BY <2>2, <2>3, <2>4 DEF KeyId
  <2> QED
    BY <1>15, <2>3, <2>5
<1>19. ListMatchesPermission'
  <2>1. SUFFICES ASSUME t = client
                 PROVE  /\ line'.verdict = "forbidden" => q.model \notin seen'
                        /\ Routed' => q.model \notin hidden'
    BY <1>3, <1>5, <1>12 DEF ListMatchesPermission
  <2>2. ASSUME line'.verdict = "forbidden" PROVE q.model \notin seen'
    <3>1. PICK e \in Holder(q) : ~ModelAllowed(e.allowed, q.model)
      BY <1>5, <2>2 DEF Permitted
    <3>2. e \in keys /\ e.text = client
      BY <1>6, <1>8, <2>1, <3>1
    <3> QED
      BY <1>3, <1>11, <3>1, <3>2 DEF Shown, ModelAllowed, Matches
  <2>3. ASSUME Routed' PROVE q.model \notin hidden'
    <3>1. SUFFICES ASSUME NEW e \in keys, e.text = client,
                          ~ModelAllowed(e.allowed, q.model)
                   PROVE  FALSE
      BY <1>3, <1>11 DEF LeftOut, ModelAllowed, Matches
    <3>2. Holder(q) = Found(q) /\ Found(q) # {}
      BY <1>5, <2>3, <3>1, ClientPaths DEF AuthEnabled
    <3>3. e \in Holder(q)
      BY <1>7, <1>10, <2>1, <3>1, <3>2
    <3> QED
      BY <1>5, <2>3, <3>1, <3>3 DEF Permitted
  <2> QED
    BY <2>2, <2>3
<1> QED
  BY <1>4, <1>11, <1>16, <1>17, <1>18, <1>19 DEF IInv, Rights

\* Every step keeps the invariant.
LEMMA StepInv == IInv /\ [Next]_vars => IInv'
<1> SUFFICES ASSUME IInv, [Next]_vars PROVE IInv'
  OBVIOUS
<1>1. CASE Start \/ Stop
  <2>1. line' = NoLine /\ seen' = {} /\ hidden' = {}
    BY <1>1 DEF Start, Stop, Forget
  <2>2. Loaded'
    <3>1. CASE Start
      <4>1. PICK c \in Raw :
                /\ raw' = c
                /\ \/ stage' = "serving" /\ keys' = ApiKeyMap(c)
                      /\ Expands(c) /\ Validates(c)
                   \/ stage' = "refused" /\ keys' = {}
        BY <3>1 DEF Start
      <4>2. stage' = "serving" =>
                /\ keys' = ApiKeyMap(raw)'
                /\ raw' \in Raw /\ Expands(raw)' /\ Validates(raw)'
        BY <4>1 DEF ApiKeyMap, Expands, Validates
      <4> QED
        BY <2>1, <4>1, <4>2 DEF Loaded
    <3>2. CASE Stop
      BY <2>1, <3>2 DEF Stop, Loaded
    <3> QED
      BY <1>1, <3>1, <3>2
  <2>3. (Shown /\ LeftOut /\ Rights)'
    <3>1. line'.verdict = "none" /\ line'.user = Nobody
      BY <2>1 DEF NoLine
    <3> QED
      BY <2>1, <3>1 DEF Shown, LeftOut, Rights, OnlyHoldersRoute, KeysWork,
         UserIsHolder, ListMatchesPermission, Routed
  <2> QED
    BY <2>2, <2>3 DEF IInv
<1>2. CASE Serve
  BY <1>2, ServeInv
<1>3. CASE Publish \/ UNCHANGED vars
  <2>1. UNCHANGED <<stage, raw, keys, line, client, seen, hidden>>
    BY <1>3 DEF Publish, vars
  <2>2. Loaded'
    BY <2>1 DEF IInv, Loaded, ApiKeyMap, Expands, Validates
  <2>3. Shown' /\ LeftOut'
    BY <2>1 DEF IInv, Shown, LeftOut, ModelAllowed, Matches
  <2>4. Rights'
    BY <2>1 DEF IInv, Rights, OnlyHoldersRoute, KeysWork, UserIsHolder,
       ListMatchesPermission, Routed, Sender, Written, WrittenAdmin
  <2> QED
    BY <2>2, <2>3, <2>4 DEF IInv
<1> QED
  BY <1>1, <1>2, <1>3 DEF Next

\* The invariant holds in every run of the process, restarts included.
THEOREM Invariance == Spec => []IInv
BY InitInv, StepInv, PTL DEF Spec

\* Whatever keys, patterns and variables are configured, nobody but the holder
\* of a written key that lets use the model gets past the middleware and the
\* checks of the proxy handler.
THEOREM RoutedHoldAKey == Spec => []OnlyHoldersRoute
BY Invariance, PTL DEF IInv, Rights

\* A header with one of the two spellings, in visible ASCII, is refused only if
\* the configuration, with its variables expanded, holds no such key, or no such
\* admin token.  (What else may be refused is the subject of two other runs.)
THEOREM WrittenKeysWork == Spec => []KeysWork
BY Invariance, PTL DEF IInv, Rights

\* The list and the proxy handler apply the same patterns of the same entry.
THEOREM ListAgrees == Spec => []ListMatchesPermission
BY Invariance, PTL DEF IInv, Rights

\* The user in the access log is the configured id of the client's key.
THEOREM LoggedUser == Spec => []UserIsHolder
BY Invariance, PTL DEF IInv, Rights
=============================================================================
