------------------------------- MODULE Proxy --------------------------------
(***************************************************************************)
(* The request pipeline of gosestor over the store contract: ServeHTTP and *)
(* the response interceptor of session_store.go, driving the session       *)
(* manager of internal/session/manager.go.  Requests run concurrently (one *)
(* goroutine each, possibly in several Caddy processes sharing one Redis); *)
(* every store call and every clock reading is a step of its own, and what *)
(* lies between two of them is local to the request and folded into the    *)
(* step before.                                                            *)
(*                                                                         *)
(* A store call can fail without effect (FailedCall) or take effect and    *)
(* report an error (LostReply): connection loss, a timeout, a cancelled    *)
(* request context.  Staging of the response body is abstracted to its     *)
(* outcome: UpstreamFails stands for a downstream error, a staging limit   *)
(* or a hijacked connection, none of which applies a session mutation.     *)
(***************************************************************************)
EXTENDS SessionManager, FiniteSets

CONSTANTS
    REQ,          \* the requests, each served once
    CLIENT,       \* browsers; parallel requests of one share its cookie jar
    REQUIRED,     \* labels the requested paths require; None: anonymous path
    RESPONSE,     \* what the backend may answer
    Synchronize,  \* synchronize_sessions
    FailOpen,     \* on_store_error fail_open (FALSE: fail_closed)
    MaxFaults,    \* bound: store calls that report an error
    EffectLost    \* whether a failed store call may have taken effect

ASSUME ProxyAssumption ==
    /\ REQ \subseteq HOLDER
    /\ REQUIRED \subseteq LABEL \union {None}
    /\ RESPONSE \subseteq Response
    /\ Synchronize \in BOOLEAN /\ FailOpen \in BOOLEAN /\ EffectLost \in BOOLEAN
    /\ MaxFaults \in Nat

\* Each request and each client's first session draws at most one id of each kind.
ASSUME IdBound ==
    /\ Cardinality(SID) >= Cardinality(REQ) + Cardinality(CLIENT)
    /\ Cardinality(KEY) >= Cardinality(REQ) + Cardinality(CLIENT)

\* That bound lets the clients' first sessions have distinct ids and keys.
ASSUME FirstIds ==
    /\ \E f \in [CLIENT -> SID] : \A c, d \in CLIENT : f[c] = f[d] => c = d
    /\ \E f \in [CLIENT -> KEY] : \A c, d \in CLIENT : f[c] = f[d] => c = d

ASSUME ProxySentinels == None \notin KEY \union {"ok"} /\ Keep \notin KEY
ASSUME GrantSentinel ==
    None \notin [sid : SID, owner : OWNER \union {NoOwner}, labels : SUBSET LABEL]

VARIABLES
    req,        \* REQ -> the request: its program counter, inputs, handle and answer
    jar,        \* CLIENT -> the proxy cookie the browser holds, or None
    mintedSid,  \* session ids drawn so far
    mintedKey,  \* keys drawn so far
    faults,     \* store calls that have reported an error so far
    granted     \* history: KEY -> session, owner and labels when the key was issued, or None

vars == <<storeVars, req, jar, mintedSid, mintedKey, faults, granted>>

IdleRequest ==
    [pc |-> "idle", client |-> None, presented |-> None, required |-> None,
     live |-> FALSE, sid |-> None, key |-> None, rewrite |-> FALSE,
     owner |-> NoOwner, labels |-> {},
     row |-> None, t |-> 0, resolveErr |-> FALSE, resp |-> None,
     locked |-> FALSE, status |-> None, setCookie |-> Keep,
     target |-> None, swapped |-> FALSE]

\* A session a client may hold when the model starts: created at time 1, by this
\* version (rotation stamp 1) or by one without rotate_interval (stamp 0), then
\* bound and labelled by earlier responses.
EstablishedRows ==
    [creation : {1}, lastAccess : {1}, inactive : {Inactive}, final : {Final},
     owner : OWNER \union {NoOwner}, lastRotation : {0, 1}, labels : SUBSET LABEL]

Grant(id, row) == [sid |-> id, owner |-> row.owner, labels |-> row.labels]

Init ==
    LET idOf == CHOOSE f \in [CLIENT -> SID] : \A c, d \in CLIENT : f[c] = f[d] => c = d
        keyOf == CHOOSE f \in [CLIENT -> KEY] : \A c, d \in CLIENT : f[c] = f[d] => c = d
    IN  \E first \in [CLIENT -> EstablishedRows \union {None}] :
          LET has == {c \in CLIENT : first[c] # None}
              holder(s) == {c \in has : idOf[c] = s}
          IN  /\ sessions = [s \in SID |-> IF holder(s) = {} THEN None
                                           ELSE first[CHOOSE c \in holder(s) : TRUE]]
              /\ keys = [k \in KEY |-> IF \E c \in has : keyOf[c] = k
                                         THEN idOf[CHOOSE c \in has : keyOf[c] = k] ELSE None]
              /\ cookies = [s \in SID |-> NoCookies]
              /\ owners = [o \in OWNER |-> {idOf[c] : c \in {d \in has : first[d].owner = o}}]
              /\ locks = [s \in SID |-> None]
              /\ now = 1
              /\ jar = [c \in CLIENT |-> IF c \in has THEN keyOf[c] ELSE None]
              /\ mintedSid = {idOf[c] : c \in has}
              /\ mintedKey = {keyOf[c] : c \in has}
              /\ granted = [k \in KEY |-> IF keys[k] = None THEN None
                                          ELSE Grant(keys[k], sessions[keys[k]])]
              /\ req = [r \in REQ |-> IdleRequest]
              /\ faults = 0
-----------------------------------------------------------------------------
(* Where a request goes next.  Each operator maps the request's record to  *)
(* its successor.                                                          *)

\* The request is answered; a lock taken for the response is released first.
Answer(q, status, cookie) ==
    [q EXCEPT !.pc = IF q.locked THEN "unlock" ELSE "reply",
              !.status = status, !.setCookie = cookie]

\* Resolve returned (nil, nil).
Unresolved(q) == [q EXCEPT !.pc = "authz", !.live = FALSE]

\* Mutant: fail_open forgets that the session could not be read.
ResolveErrorForgotten(q) ==
    IF FailOpen THEN Unresolved(q) ELSE Answer(q, "badgateway", Keep)

\* Resolve returned an error: fail_closed answers 502 at once, fail_open goes on
\* without a session.
ResolveError(q) ==
    IF FailOpen THEN [q EXCEPT !.pc = "authz", !.live = FALSE, !.resolveErr = TRUE]
                ELSE Answer(q, "badgateway", Keep)

\* Mutant: a failed logout follows on_store_error like any other response.
ProcessErrorAlike(q) == Answer(q, IF FailOpen THEN "ok" ELSE "badgateway", Keep)

\* The response path failed (ensureProcessed): fail_open lets the response
\* through without any cookie, unless a logout was asked for.
ProcessError(q) ==
    Answer(q, IF FailOpen /\ ~q.resp.revoke THEN "ok" ELSE "badgateway", Keep)

ExpiredCookie(q) == IF q.presented # None THEN None ELSE Keep

\* A cookie to store, a login or a non-empty grant creates a session if need be.
NeedsSession(resp) ==
    \/ \E n \in NAME : resp.cookies[n] \in VAL
    \/ resp.owner # NoOwner
    \/ resp.labels # Keep /\ resp.labels # {}

\* processLocked: revocation takes precedence over every other mutation.
ProcessLocked(q) ==
    CASE q.resp.revoke /\ q.live -> [q EXCEPT !.pc = "revoke"]
      [] q.resp.revoke /\ ~q.live -> Answer(q, "ok", ExpiredCookie(q))
      [] ~q.resp.revoke /\ q.live -> [q EXCEPT !.pc = "applyclock"]
      [] ~q.resp.revoke /\ ~q.live /\ NeedsSession(q.resp) -> [q EXCEPT !.pc = "begin"]
      [] OTHER -> Answer(q, "ok", Keep)

Process(q) ==
    IF q.resp.revoke /\ q.resolveErr THEN ProcessError(q)
    ELSE IF q.live /\ Synchronize THEN [q EXCEPT !.pc = "lock"]
    ELSE ProcessLocked(q)

\* A new or rotated key goes out with the response.
ProxyCookie(q) == IF q.rewrite THEN q.key ELSE Keep

-----------------------------------------------------------------------------
(* The request path: Resolve, one store call or clock reading at a time.   *)

At(r, pc) == req[r].pc = pc
Become(r, q) == req' = [req EXCEPT ![r] = q]
Goto(r, pc) == Become(r, [req[r] EXCEPT !.pc = pc])

Send(r) ==
    /\ At(r, "idle")
    /\ \E c \in CLIENT, need \in REQUIRED :
          Become(r, [IdleRequest EXCEPT
              !.pc = IF jar[c] = None THEN "authz" ELSE "getkey",
              !.client = c, !.presented = jar[c], !.key = jar[c], !.required = need,
              !.target = IF jar[c] = None THEN None ELSE keys[jar[c]]])
    /\ UNCHANGED <<storeVars, jar, mintedSid, mintedKey, faults, granted>>

ResolveGetKey(r) ==
    LET q == req[r] IN
    /\ At(r, "getkey")
    /\ Become(r, IF keys[q.presented] = None THEN Unresolved(q)
                 ELSE [q EXCEPT !.pc = "getsession", !.sid = keys[q.presented]])
    /\ UNCHANGED <<storeVars, jar, mintedSid, mintedKey, faults, granted>>

ResolveGetSession(r) ==
    LET q == req[r] IN
    /\ At(r, "getsession")
    /\ Become(r, IF sessions[q.sid] = None THEN Unresolved(q)
                 ELSE [q EXCEPT !.pc = "clock", !.row = sessions[q.sid]])
    /\ UNCHANGED <<storeVars, jar, mintedSid, mintedKey, faults, granted>>

ResolveClock(r) ==
    LET q == req[r] IN
    /\ At(r, "clock")
    /\ Become(r, [q EXCEPT !.pc = IF Expired(q.row, now) THEN "expire" ELSE "touch", !.t = now])
    /\ UNCHANGED <<storeVars, jar, mintedSid, mintedKey, faults, granted>>

\* The delete is by id alone: what was read is not checked again.
ResolveExpire(r) ==
    /\ At(r, "expire")
    /\ DeleteSession(req[r].sid)
    /\ Become(r, Unresolved(req[r]))
    /\ UNCHANGED <<locks, now, jar, mintedSid, mintedKey, faults, granted>>

Touches(q) == TouchSession(q.sid, q.key, q.t, LegacyRotation(q.row, q.t))

FreshKey == CHOOSE k \in KEY \ mintedKey : TRUE

\* Mutant: Resolve swaps the key itself instead of leaving it to the response.
ResolveTouchRotates(r) ==
    LET q == req[r] IN
    /\ At(r, "touch")
    /\ IF TouchResult(q.sid, q.key) = "ok"
         THEN /\ ApplySessionControls(q.sid, RotateControls(q.key, FreshKey, q.t))
              /\ Become(r, [q EXCEPT !.pc = "getcookies", !.key = FreshKey, !.rewrite = TRUE])
              /\ mintedKey' = mintedKey \union {FreshKey}
         ELSE Become(r, ResolveError(q)) /\ UNCHANGED <<rowVars, mintedKey>>
    /\ UNCHANGED <<locks, now, jar, mintedSid, faults, granted>>

\* A session rotated or deleted since it was read is an error, not an anonymous request.
ResolveTouch(r) ==
    LET q == req[r] IN
    /\ At(r, "touch")
    /\ IF TouchResult(q.sid, q.key) = "ok"
         THEN Touches(q) /\ Goto(r, "getcookies")
         ELSE Become(r, ResolveError(q)) /\ UNCHANGED rowVars
    /\ UNCHANGED <<locks, now, jar, mintedSid, mintedKey, faults, granted>>

\* GetCookies and CookieSHAs; the handle takes owner and labels from the row.
ResolveGetCookies(r) ==
    LET q == req[r] IN
    /\ At(r, "getcookies")
    /\ Become(r, [q EXCEPT !.pc = "authz", !.live = TRUE,
                           !.owner = q.row.owner, !.labels = q.row.labels,
                           !.row = None, !.t = 0])
    /\ UNCHANGED <<storeVars, jar, mintedSid, mintedKey, faults, granted>>

Authorize(r) ==
    LET q == req[r] IN
    /\ At(r, "authz")
    /\ Become(r, IF q.required = None \/ (q.live /\ q.required \in q.labels)
                   THEN [q EXCEPT !.pc = "upstream"] ELSE Answer(q, "denied", Keep))
    /\ UNCHANGED <<storeVars, jar, mintedSid, mintedKey, faults, granted>>

-----------------------------------------------------------------------------
(* The response path.                                                      *)

UpstreamFails(r) ==
    /\ At(r, "upstream")
    /\ Become(r, Answer(req[r], "failed", Keep))
    /\ UNCHANGED <<storeVars, jar, mintedSid, mintedKey, faults, granted>>

UpstreamResponds(r) ==
    /\ At(r, "upstream")
    /\ \E resp \in RESPONSE : Become(r, Process([req[r] EXCEPT !.resp = resp]))
    /\ UNCHANGED <<storeVars, jar, mintedSid, mintedKey, faults, granted>>

\* Mutant: a contended lock is waited for.
TakeLockWaits(r) ==
    LET q == req[r] IN
    /\ At(r, "lock")
    /\ Lock(q.sid, r)
    /\ Become(r, ProcessLocked([q EXCEPT !.locked = TRUE]))
    /\ UNCHANGED <<rowVars, now, jar, mintedSid, mintedKey, faults, granted>>

\* WithLock: a lock held by another request is an error at once.
TakeLock(r) ==
    LET q == req[r] IN
    /\ At(r, "lock")
    /\ IF LockFree(q.sid)
         THEN Lock(q.sid, r) /\ Become(r, ProcessLocked([q EXCEPT !.locked = TRUE]))
         ELSE Become(r, ProcessError(q)) /\ UNCHANGED locks
    /\ UNCHANGED <<rowVars, now, jar, mintedSid, mintedKey, faults, granted>>

Revoke(r) ==
    LET q == req[r] IN
    /\ At(r, "revoke")
    /\ DeleteSession(q.sid)
    /\ Become(r, Answer(q, "ok", ExpiredCookie(q)))
    /\ UNCHANGED <<locks, now, jar, mintedSid, mintedKey, faults, granted>>

\* Begin: the ids are random; here the next ones not drawn before.
BeginClock(r) ==
    LET id == CHOOSE s \in SID \ mintedSid : TRUE
        k == CHOOSE x \in KEY \ mintedKey : TRUE
    IN  /\ At(r, "begin")
        /\ SID # mintedSid /\ KEY # mintedKey
        /\ Become(r, [req[r] EXCEPT !.pc = "putsession", !.t = now, !.sid = id, !.key = k])
        /\ mintedSid' = mintedSid \union {id}
        /\ mintedKey' = mintedKey \union {k}
        /\ UNCHANGED <<storeVars, jar, faults, granted>>

BeginPutSession(r) ==
    LET q == req[r] IN
    /\ At(r, "putsession")
    /\ PutSession(q.sid, BeginRow(q.t))
    /\ Goto(r, "putkey")
    /\ UNCHANGED <<locks, now, jar, mintedSid, mintedKey, faults, granted>>

BeginPutKey(r) ==
    LET q == req[r] IN
    /\ At(r, "putkey")
    /\ IF PutKeyResult(q.sid) = "ok"
         THEN /\ PutKey(q.key, q.sid)
              /\ Become(r, [q EXCEPT !.pc = "applyclock", !.live = TRUE, !.rewrite = TRUE,
                                     !.owner = NoOwner, !.labels = {}])
         ELSE Become(r, ProcessError(q)) /\ UNCHANGED rowVars
    /\ UNCHANGED <<locks, now, jar, mintedSid, mintedKey, faults, granted>>

ApplyClock(r) ==
    /\ At(r, "applyclock")
    /\ Become(r, [req[r] EXCEPT !.pc = "applyget", !.t = now])
    /\ UNCHANGED <<storeVars, jar, mintedSid, mintedKey, faults, granted>>

ResponseControls(q) == Controls(q.row, q.key, q.rewrite, q.resp, q.t, FreshKey)

\* Mutant: the label string is split at blanks instead of taken as fields, so an
\* empty one gives one empty label.
AppliedSplit(q, c) ==
    [q EXCEPT !.owner = IF q.resp.owner # NoOwner THEN q.resp.owner ELSE @,
              !.labels = IF q.resp.labels = {} THEN {None}
                         ELSE IF q.resp.labels # Keep THEN q.resp.labels ELSE @,
              !.key = c.newKey, !.rewrite = q.rewrite \/ c.rotate,
              !.swapped = c.rotate, !.row = None, !.t = 0]

\* The handle after applyControls returned without an error.
Applied(q, c) ==
    [q EXCEPT !.owner = IF q.resp.owner # NoOwner THEN q.resp.owner ELSE @,
              !.labels = IF q.resp.labels # Keep THEN q.resp.labels ELSE @,
              !.key = c.newKey, !.rewrite = q.rewrite \/ c.rotate,
              !.swapped = c.rotate, !.row = None, !.t = 0]

ApplyGetSession(r) ==
    LET q == req[r]
        p == [q EXCEPT !.row = sessions[q.sid]]
    IN  /\ At(r, "applyget")
        /\ Become(r, IF sessions[q.sid] = None THEN ProcessError(q)
                     ELSE IF NoEffect(ResponseControls(p))
                       THEN LET a == Applied(p, ResponseControls(p)) IN Answer(a, "ok", ProxyCookie(a))
                     ELSE [p EXCEPT !.pc = "apply"])
        /\ UNCHANGED <<storeVars, jar, mintedSid, mintedKey, faults, granted>>

\* The commit; a swap draws a new key.
Commits(q, c) ==
    /\ c.rotate => KEY # mintedKey
    /\ ApplySessionControls(q.sid, c)
    /\ mintedKey' = IF c.rotate THEN mintedKey \union {c.newKey} ELSE mintedKey

Apply(r) ==
    LET q == req[r]
        c == ResponseControls(q)
        a == Applied(q, c)
    IN  /\ At(r, "apply")
        /\ IF ApplyResult(q.sid, c) = "ok"
             THEN /\ Commits(q, c)
                  /\ Become(r, Answer(a, "ok", ProxyCookie(a)))
                  /\ granted' = IF a.rewrite THEN [granted EXCEPT ![a.key] = Grant(q.sid, sessions'[q.sid])]
                                             ELSE granted
             ELSE Become(r, ProcessError(q)) /\ UNCHANGED <<rowVars, mintedKey, granted>>
        /\ UNCHANGED <<locks, now, jar, mintedSid, faults>>

ReleaseLock(r) ==
    /\ At(r, "unlock")
    /\ Unlock(req[r].sid, r)
    /\ Goto(r, "reply")
    /\ UNCHANGED <<rowVars, now, jar, mintedSid, mintedKey, faults, granted>>

\* The response reaches the browser, which takes over the cookie it carries.
Deliver(r) ==
    LET q == req[r] IN
    /\ At(r, "reply")
    /\ Goto(r, "done")
    /\ jar' = IF q.setCookie = Keep THEN jar ELSE [jar EXCEPT ![q.client] = q.setCookie]
    /\ UNCHANGED <<storeVars, mintedSid, mintedKey, faults, granted>>

\* The connection is gone before the response is written.
Disconnect(r) ==
    /\ At(r, "reply")
    /\ Goto(r, "lost")
    /\ UNCHANGED <<storeVars, jar, mintedSid, mintedKey, faults, granted>>

-----------------------------------------------------------------------------
(* Store calls that report an error.                                       *)

ResolveCalls == {"getkey", "getsession", "touch", "getcookies"}
ResponseCalls == {"lock", "revoke", "putsession", "putkey", "applyget", "apply"}
StoreCalls == ResolveCalls \union ResponseCalls \union {"expire", "unlock"}

\* Mutant: a failed release of the lock fails the response.
OnErrorOfUnlock(q) ==
    IF q.pc \in ResolveCalls THEN ResolveError(q)
    ELSE IF q.pc = "expire" THEN Unresolved(q) ELSE ProcessError(q)

\* Deleting an expired session and releasing the lock ignore their errors.
OnError(q) ==
    CASE q.pc \in ResolveCalls -> ResolveError(q)
      [] q.pc \in ResponseCalls -> ProcessError(q)
      [] q.pc = "expire" -> Unresolved(q)
      [] q.pc = "unlock" -> [q EXCEPT !.pc = "reply"]

FailedCall(r) ==
    /\ faults < MaxFaults /\ req[r].pc \in StoreCalls
    /\ Become(r, OnError(req[r]))
    /\ faults' = faults + 1
    /\ UNCHANGED <<storeVars, jar, mintedSid, mintedKey, granted>>

\* What the call at hand does to the store when only its reply is lost.
LosesReplyTo(r) ==
    LET q == req[r] IN
    \/ /\ q.pc = "touch" /\ Touches(q)
       /\ UNCHANGED <<locks, mintedKey>>
    \/ /\ q.pc \in {"expire", "revoke"} /\ DeleteSession(q.sid)
       /\ UNCHANGED <<locks, mintedKey>>
    \/ /\ q.pc = "putsession" /\ PutSession(q.sid, BeginRow(q.t))
       /\ UNCHANGED <<locks, mintedKey>>
    \/ /\ q.pc = "putkey" /\ PutKey(q.key, q.sid)
       /\ UNCHANGED <<locks, mintedKey>>
    \/ /\ q.pc = "apply" /\ Commits(q, ResponseControls(q))
       /\ UNCHANGED locks
    \/ /\ q.pc = "lock" /\ Lock(q.sid, r)
       /\ UNCHANGED <<rowVars, mintedKey>>
    \/ /\ q.pc = "unlock" /\ Unlock(q.sid, r)
       /\ UNCHANGED <<rowVars, mintedKey>>

LostReply(r) ==
    /\ EffectLost /\ faults < MaxFaults
    /\ LosesReplyTo(r)
    /\ Become(r, [OnError(req[r]) EXCEPT
           !.swapped = At(r, "apply") /\ ResponseControls(req[r]).rotate])
    /\ faults' = faults + 1
    /\ UNCHANGED <<now, jar, mintedSid, granted>>

-----------------------------------------------------------------------------
(* The store's clock: sessions and locks run out.                          *)

SessionExpires(id) ==
    /\ Live(id)
    /\ Elapse(now, {id})
    /\ UNCHANGED <<locks, req, jar, mintedSid, mintedKey, faults, granted>>

LockExpires(id) ==
    /\ LockLapse(id)
    /\ UNCHANGED <<rowVars, now, req, jar, mintedSid, mintedKey, faults, granted>>

TimePasses ==
    /\ now < MaxTime
    /\ Elapse(now + 1, {})
    /\ UNCHANGED <<locks, req, jar, mintedSid, mintedKey, faults, granted>>

-----------------------------------------------------------------------------
\* The steps the proxy takes for request r once it has been sent.
Serve(r) ==
    \/ ResolveGetKey(r) \/ ResolveGetSession(r) \/ ResolveClock(r) \/ ResolveExpire(r)
    \/ ResolveTouch(r) \/ ResolveGetCookies(r) \/ Authorize(r)
    \/ UpstreamFails(r) \/ UpstreamResponds(r)
    \/ TakeLock(r) \/ Revoke(r)
    \/ BeginClock(r) \/ BeginPutSession(r) \/ BeginPutKey(r)
    \/ ApplyClock(r) \/ ApplyGetSession(r) \/ Apply(r) \/ ReleaseLock(r)
    \/ FailedCall(r) \/ LostReply(r)
    \/ Deliver(r) \/ Disconnect(r)

Next ==
    \/ \E r \in REQ : Send(r) \/ Serve(r)
    \/ \E id \in SID : SessionExpires(id) \/ LockExpires(id)
    \/ TimePasses

Spec == Init /\ [][Next]_vars

\* Every request is served by a goroutine of its own that the runtime keeps
\* scheduling; nothing makes a client send, a lock lapse or an expired session
\* disappear.
FairSpec == Spec /\ (\A r \in REQ : WF_vars(Serve(r)))

-----------------------------------------------------------------------------
(* Properties.                                                             *)

PC == {"idle", "clock", "authz", "upstream", "begin", "applyclock", "reply", "done", "lost"}
        \union StoreCalls

Request ==
    [pc : PC, client : CLIENT \union {None}, presented : KEY \union {None},
     required : LABEL \union {None}, live : BOOLEAN, sid : SID \union {None},
     key : KEY \union {None}, rewrite : BOOLEAN,
     owner : OWNER \union {NoOwner}, labels : SUBSET LABEL,
     row : Session \union {None}, t : Nat, resolveErr : BOOLEAN,
     resp : Response \union {None}, locked : BOOLEAN,
     status : {None, "ok", "denied", "failed", "badgateway"},
     setCookie : KEY \union {None, Keep}, target : SID \union {None}, swapped : BOOLEAN]

\* The type of the composed state.
TypeOK ==
    /\ StoreTypeOK
    /\ req \in [REQ -> Request]
    /\ jar \in [CLIENT -> KEY \union {None}]
    /\ mintedSid \subseteq SID /\ mintedKey \subseteq KEY
    /\ faults \in 0 .. MaxFaults
    /\ granted \in [KEY -> [sid : SID, owner : OWNER \union {NoOwner},
                            labels : SUBSET LABEL] \union {None}]

\* A session answers to at most one key at any time, however many responses
\* rotate it at once: the rotated-away key is gone the moment the new one works.
SingleKey == \A j, k \in KEY : keys[j] # None /\ keys[j] = keys[k] => j = k

\* A key means what it meant when it was issued: as long as it works, its
\* session has the labels (and, with rotate_on_login, the owner) it had when the
\* key went out.  No concurrent login, grant or demotion changes the privileges
\* behind a key a client already holds; a change comes with a new key.
KeyKeepsItsGrant ==
    \A k \in KEY : granted[k] # None /\ keys[k] # None =>
        /\ keys[k] = granted[k].sid
        /\ sessions[keys[k]].labels = granted[k].labels
        /\ RotateOnLogin => sessions[keys[k]].owner = granted[k].owner

\* Once a logout of a resolved session has been answered with success the
\* session is gone for good: no response still in flight brings back its row,
\* a key or an owner entry (README.md:126).
LogoutIsFinal ==
    \A r \in REQ :
        LET q == req[r] IN
        q.status = "ok" /\ q.resp.revoke =>
            /\ ~q.resolveErr
            /\ q.live => ~Live(q.sid) /\ (\A k \in KEY : keys[k] # q.sid)

\* The key the client presented is dead, or the store reported an error to the
\* deletion of the session found expired behind it.
Dead(q) ==
    \/ keys[q.presented] = None
    \/ faults > 0 /\ q.row # None /\ Expired(q.row, q.t)

\* Once a logout has been answered with success the key the client presented
\* opens nothing any more, whether or not the request found a session behind it
\* and whatever ran between its reads and its answer.
LogoutKillsKey ==
    \A r \in REQ :
        LET q == req[r] IN
        q.status = "ok" /\ q.resp.revoke /\ q.presented # None => Dead(q)

Answered(q) == q.pc \in {"unlock", "reply", "done", "lost"}

\* A client is never left with a dead key to a live session: if its jar holds a
\* key that was rotated away, the response with the replacement is on its way
\* to this client, or was cut off by the client's own connection.
ClientNotStranded ==
    \A c \in CLIENT :
        LET k == jar[c] IN
        /\ k # None
        /\ Live(granted[k].sid)
        /\ keys[k] # granted[k].sid
        => \E r \in REQ : /\ req[r].client = c /\ req[r].setCookie \in KEY
                          /\ req[r].pc \in {"unlock", "reply", "lost"}

TouchOfCurrentRow(r) ==
    LET q == req[r] IN
    At(r, "touch") /\ req'[r].pc = "getcookies" =>
        keys[q.key] = q.sid /\ sessions[q.sid].labels = q.row.labels

\* A request is judged by what its session holds when it touches it, although
\* the row was read calls earlier: a touch that succeeds finds the key working
\* and the labels as they were read, so after a demotion, grant, rotation or
\* logout committed before it the request goes on without the session or not at
\* all.  A change committed after it does not stop the request.
AuthorizedAtTouch == [][\A r \in REQ : TouchOfCurrentRow(r)]_vars

StepOfStaleRequest(r) ==
    LET q == req[r] IN
    /\ req'[r] # q
    /\ q.sid # None /\ q.key # None /\ keys[q.key] # q.sid
    /\ Live(q.sid) /\ sessions'[q.sid] # None
    /\ q.pc # "putkey"
    => /\ sessions'[q.sid] = sessions[q.sid]
       /\ cookies'[q.sid] = cookies[q.sid]

\* The response to a request whose key has been rotated away since alters
\* nothing of the session: not its owner, labels or time stamps, not its
\* cookies ("a stale concurrent response cannot attach backend authentication
\* state to a newer rotated session", README.md:77).  It may still end the
\* session: a logout and the clean-up of an expired session delete by id.
StaleResponseInert == [][\A r \in REQ : StepOfStaleRequest(r)]_vars

LockOutlivesOthers(id, r) ==
    locks[id] = r /\ locks'[id] # r => req'[r] # req[r] \/ req' = req

\* The lock of a session is released by the request that took it or by its time
\* to live, never by another request's late release after the lock has lapsed
\* and been taken again.
LockReleasedByHolder == [][\A id \in SID, r \in REQ : LockOutlivesOthers(id, r)]_vars

\* Every request that was sent is answered, whatever fails: no request waits
\* for another.
EveryRequestAnswered == \A r \in REQ : ~At(r, "idle") ~> req[r].pc \in {"done", "lost"}

-----------------------------------------------------------------------------
(* Claims of the documentation that the code does not keep; each has a run *)
(* of its own that exhibits the counterexample.                            *)

\* A logout answered with success leaves no trace of the session the client
\* presented a working key to ("logout can never appear successful while the
\* server-side session remains active", README.md:127).
LogoutEndsTheSession ==
    \A r \in REQ :
        LET q == req[r] IN
        q.status = "ok" /\ q.resp.revoke /\ q.target # None => ~Live(q.target)

\* A request that finds its session expired deletes an expired session, not one
\* a concurrent request has just refreshed ("enforcing inactive + final
\* timeouts", manager.go:112).
ExpiryDeletesExpired ==
    [][\A r \in REQ :
         At(r, "expire") /\ req'[r] # req[r] /\ Live(req[r].sid)
           => Expired(sessions[req[r].sid], now)]_vars

\* A request that swapped the key hands the new one to the client in its own
\* response ("a failed request can never invalidate the client's cookie without
\* its replacement being delivered in the same response", README.md:109).
KeyHandedOver ==
    \A r \in REQ : req[r].swapped /\ Answered(req[r]) => req[r].setCookie \in KEY

=============================================================================
