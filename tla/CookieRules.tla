---------------------------- MODULE CookieRules ----------------------------
(***************************************************************************)
(* What happens to the cookies of one exchange: the Cookie header the      *)
(* backend sees (prepareUpstreamCookies), the fate of each Set-Cookie      *)
(* header of its response (the loop of processLocked, internal/filter,     *)
(* cookieDeletesNow), and the cache after ApplyResponse has applied the    *)
(* mutations in order.  A header of the response is one step.              *)
(*                                                                         *)
(* The Max-Age attributes of a header are kept as written, trimmed and     *)
(* split into characters, since telling a number from noise is what        *)
(* maxAgeDeletes does; Expires is the instant net/http parsed, 0 if there  *)
(* is none.  Cookies with one name and different paths or domains are one  *)
(* cookie here, as in the cache.  Values are opaque: that net/http strips  *)
(* the quotes of a quoted value is left out.  A header net/http rejects is *)
(* taken to be rejected by the browser as well.                            *)
(***************************************************************************)
EXTENDS Integers, SequencesExt

CONSTANTS
    NAME,        \* names of cookies, PROXY apart
    PROXY,       \* the name of the proxy cookie
    VAL,         \* values of cookies
    MAXAGES,     \* sequences of Max-Age attributes a header can carry
    EXPIRES,     \* instants in Expires attributes; 0 is none
    MaxHeaders,  \* bound: Set-Cookie headers per response
    Absent       \* no cookie

ASSUME CookieAssumption == MAXAGES \subseteq Seq(Seq(STRING))

VARIABLES
    forward, store,  \* the configured name lists
    step,       \* "idle", "request", "response", "done"
    held,       \* NAME -> the cached value, or Absent
    sent,       \* the Cookie header of the browser: set of <<name, value>>
    upstream,   \* the one the backend sees: set of <<origin, name, value>>
    live,       \* the interceptor has a session
    mutations,  \* the cookie mutations collected so far
    passed,     \* names whose Set-Cookie reached the browser
    seen,       \* Set-Cookie headers processed
    ua          \* history: the jar of a browser that had received them all

cookieVars == <<forward, store, step, held, sent, upstream, live, mutations, passed, seen, ua>>

Now == 2

Malformed == [wellFormed |-> FALSE]

SetCookie ==
    [wellFormed : {TRUE}, name : NAME, value : VAL, maxAge : MAXAGES, expires : EXPIRES]
        \union {Malformed}

Nothing == [n \in NAME |-> Absent]

\* A request and a response share only the session and its cache, so each
\* starts from any of these.
CookieInit ==
    /\ forward \in SUBSET NAME /\ store \in SUBSET NAME
    /\ step \in {"request", "response"}
    /\ live \in BOOLEAN
    /\ held \in IF live THEN [NAME -> VAL \union {Absent}] ELSE {Nothing}
    /\ sent \in IF step = "request" THEN SUBSET ((NAME \union {PROXY}) \X VAL) ELSE {{}}
    /\ upstream = {}
    /\ mutations = <<>>
    /\ passed = {}
    /\ seen = 0
    /\ ua = held

-----------------------------------------------------------------------------

\* Mutant: forward wins over store.
DecideForwardFirst(name) ==
    IF name \in forward THEN "forward" ELSE IF name \in store THEN "store" ELSE "drop"

Decide(name) ==
    IF name \in store THEN "store" ELSE IF name \in forward THEN "forward" ELSE "drop"

Kept == {c \in sent : c[1] # PROXY /\ Decide(c[1]) # "store"}

prepareUpstreamCookies ==
    /\ step = "request"
    /\ step' = "done"
    /\ upstream' = {<<"client", c[1], c[2]>> : c \in Kept}
           \union {<<"cache", n, held[n]>> : n \in {m \in NAME : held[m] # Absent}}
    /\ UNCHANGED <<forward, store, held, sent, live, mutations, passed, seen, ua>>

-----------------------------------------------------------------------------

Digit == {"0", "1"}

Negative(v) == v # <<>> /\ v[1] = "-"
Digits(v) == IF Negative(v) THEN Tail(v) ELSE v
Valid(v) == Digits(v) # <<>> /\ Range(Digits(v)) \subseteq Digit

\* Mutant: the first valid attribute decides.
FirstValid(v, w) == IF v = <<>> /\ Valid(w) THEN w ELSE v

LastValid(v, w) == IF Valid(w) THEN w ELSE v

\* The loop of maxAgeDeletes: the last syntactically valid attribute, <<>> if
\* there is none.
Deciding(maxAge) == FoldLeft(LastValid, <<>>, maxAge)

maxAgeDeletes(v) == Negative(v) \/ Range(Digits(v)) = {"0"}

cookieDeletesNow(sc) ==
    IF Deciding(sc.maxAge) # <<>> THEN maxAgeDeletes(Deciding(sc.maxAge))
                                  ELSE sc.expires # 0 /\ sc.expires <= Now

\* The browser's reading of RFC 6265 (section 5.2.2 and step 3 of 5.3): the
\* last Max-Age attribute that is a number, minus sign allowed, sets the
\* lifetime, which deletes unless positive; Expires counts without one.
AppendDigit(n, d) == 10 * n + (IF d = "1" THEN 1 ELSE 0)

Value(digits) == FoldLeft(AppendDigit, 0, digits)

Number(v) == IF Negative(v) THEN 0 - Value(Digits(v)) ELSE Value(Digits(v))

UserAgentDeletes(sc) ==
    LET numbers == {i \in DOMAIN sc.maxAge : Valid(sc.maxAge[i])}
        last == CHOOSE i \in numbers : \A j \in numbers : j <= i
    IN  IF numbers # {} THEN Number(sc.maxAge[last]) <= 0
                        ELSE sc.expires # 0 /\ sc.expires <= Now

UserAgent(sc) ==
    IF ~sc.wellFormed THEN ua
    ELSE [ua EXCEPT ![sc.name] = IF UserAgentDeletes(sc) THEN Absent ELSE sc.value]

-----------------------------------------------------------------------------

Header(sc) ==
    /\ seen' = seen + 1
    /\ ua' = UserAgent(sc)
    /\ UNCHANGED <<forward, store, step, held, sent, upstream>>

Reject(sc) ==
    /\ ~sc.wellFormed
    /\ Header(sc)
    /\ UNCHANGED <<live, mutations, passed>>

Drop(sc) ==
    /\ sc.wellFormed /\ Decide(sc.name) = "drop"
    /\ Header(sc)
    /\ UNCHANGED <<live, mutations, passed>>

Pass(sc) ==
    /\ sc.wellFormed /\ Decide(sc.name) = "forward"
    /\ Header(sc)
    /\ passed' = passed \union {sc.name}
    /\ UNCHANGED <<live, mutations>>

DeleteStored(sc) ==
    /\ sc.wellFormed /\ Decide(sc.name) = "store" /\ cookieDeletesNow(sc)
    /\ Header(sc)
    /\ mutations' = IF live THEN Append(mutations, [name |-> sc.name, value |-> Absent])
                            ELSE mutations
    /\ UNCHANGED <<live, passed>>

\* ensureLive begins a session if there is none.
PutStored(sc) ==
    /\ sc.wellFormed /\ Decide(sc.name) = "store" /\ ~cookieDeletesNow(sc)
    /\ Header(sc)
    /\ live' = TRUE
    /\ mutations' = Append(mutations, [name |-> sc.name, value |-> sc.value])
    /\ UNCHANGED passed

SetIn(jar, m) == [jar EXCEPT ![m.name] = m.value]

Replay(jar, ms) == FoldLeft(SetIn, jar, ms)

\* ApplyResponse: the mutations take effect in the order of the headers.
ApplyMutations ==
    /\ step = "response"
    /\ step' = "done"
    /\ held' = Replay(held, mutations)
    /\ UNCHANGED <<forward, store, sent, upstream, live, mutations, passed, seen, ua>>

CookieNext ==
    \/ prepareUpstreamCookies
    \/ /\ step = "response" /\ seen < MaxHeaders
       /\ \E sc \in SetCookie :
             Reject(sc) \/ Drop(sc) \/ Pass(sc) \/ DeleteStored(sc) \/ PutStored(sc)
    \/ ApplyMutations

CookieSpec == CookieInit /\ [][CookieNext]_cookieVars

-----------------------------------------------------------------------------
(* Properties.                                                             *)

\* The cache does for the names it stores what the browser's jar would have
\* done: whatever mixture of values, deletions, malformed attributes and
\* repeated names a response carries, the value kept afterwards is the one a
\* browser receiving the same headers would hold.
CacheActsAsBrowser == step = "done" => \A n \in store : held[n] = ua[n]

\* A stored name stays on the server even if the lists overlap ("a
\* misconfigured overlap never leaks to the client", filter.go:35): no
\* Set-Cookie for it reaches the browser, and the backend never sees a copy of
\* it, or the proxy cookie, that the browser sent.
StoredStaysServerSide ==
    /\ passed \intersect store = {}
    /\ \A c \in upstream : c[1] = "client" => c[2] \notin store \union {PROXY}
=============================================================================
