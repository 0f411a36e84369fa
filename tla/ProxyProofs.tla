---------------------------- MODULE ProxyProofs -----------------------------
(***************************************************************************)
(* The request pipeline, proved for any number of requests, browsers,      *)
(* sessions and keys, any responses, either error policy, with or without  *)
(* locking, and any number of failed calls and lost replies.               *)
(*                                                                         *)
(* From ProxyInv, whose steps are in the module this one extends: the      *)
(* type invariant, NothingDangles, OwnerIndexExact, SingleKey,             *)
(* KeyKeepsItsGrant, LogoutIsFinal, AuthorizedAtTouch,                     *)
(* StaleResponseInert and LockReleasedByHolder.                            *)
(*                                                                         *)
(* ProxyUsesContract, RowMonotone, LogoutKillsKey, KeyHandedOver and       *)
(* ExpiryHasReason, from a second invariant (Life) on what each request    *)
(* has read and what has become of it since: its clock reading and its     *)
(* row are of the past (Timely), the key it presented maps to its session  *)
(* or to nothing, and to nothing once no session was found (Killed), and   *)
(* a swapped key is in its answer (Handed). Timely needs the rows to       *)
(* advance only, which follows from the store contract; the contract       *)
(* allows the step because the request is Timely. KeyHandedOver alone      *)
(* assumes that no reply is lost.                                          *)
(***************************************************************************)
EXTENDS ProxyRequestProofs

\* Every leaf is tried with Zenon first, then with the SMT solver, then again.
USE ZenonT(4), SMTT(20), Z3T(20), ZenonT(20)

-----------------------------------------------------------------------------
(* The first state: some browsers hold a session each.                     *)

\* A request not sent yet is in order.
LEMMA IdleRequestInv ==
    ASSUME NEW r \in REQ, req[r] = IdleRequest
    PROVE  RequestInv(r)
<1>1. /\ IdleRequest.pc = "idle" /\ ~IdleRequest.live /\ ~IdleRequest.locked /\ ~IdleRequest.rewrite
      /\ IdleRequest.status = None
  BY DEF IdleRequest
<1>2. Shape(IdleRequest)
  BY <1>1, ProxySentinels
  DEF Shape, Resolving, Creating, HasRow, Arriving, Applying, Responding, Mutating, Answered
<1>3. Private(r) /\ Current(r) /\ Finished(r)
  BY <1>1, ProxySentinels
  DEF Private, Own, Creating, Applying, Current, HasRow, Handled, Finished
<1> QED BY <1>2, <1>3 DEF RequestInv

\* The invariant holds when browsers already hold sessions of their own.
LEMMA ProxyInitInv == Init => ProxyInv
<1> SUFFICES ASSUME Init PROVE ProxyInv
  OBVIOUS
<1> DEFINE idOf == CHOOSE f \in [CLIENT -> SID] : \A c, d \in CLIENT : f[c] = f[d] => c = d
           keyOf == CHOOSE f \in [CLIENT -> KEY] : \A c, d \in CLIENT : f[c] = f[d] => c = d
<1>1. idOf \in [CLIENT -> SID] /\ \A c, d \in CLIENT : idOf[c] = idOf[d] => c = d
  BY FirstIds
<1>2. keyOf \in [CLIENT -> KEY] /\ \A c, d \in CLIENT : keyOf[c] = keyOf[d] => c = d
  BY FirstIds
<1>3. PICK first \in [CLIENT -> EstablishedRows \union {None}] :
          LET has == {c \in CLIENT : first[c] # None}
              holder(s) == {c \in has : idOf[c] = s}
          IN  /\ sessions = [s \in SID |-> IF holder(s) = {} THEN None
                                           ELSE first[CHOOSE c \in holder(s) : TRUE]]
              /\ keys = [k \in KEY |-> IF \E c \in has : keyOf[c] = k
                                         THEN idOf[CHOOSE c \in has : keyOf[c] = k] ELSE None]
              /\ cookies = [s \in SID |-> NoCookies]
              /\ owners = [o \in OWNER |-> {idOf[c] : c \in {d \in has : first[d].owner = o}}]
              /\ locks = [s \in SID |-> None]
              /\ now = 1
              /\ jar = [c \in CLIENT |-> IF c \in has THEN keyOf[c] ELSE None]
              /\ mintedSid = {idOf[c] : c \in has}
              /\ mintedKey = {keyOf[c] : c \in has}
              /\ granted = [k \in KEY |-> IF keys[k] = None THEN None
                                          ELSE Grant(keys[k], sessions[keys[k]])]
              /\ req = [r \in REQ |-> IdleRequest]
              /\ faults = 0
  BY DEF Init
<1> HIDE DEF idOf, keyOf
<1> DEFINE has == {c \in CLIENT : first[c] # None}
           holder(s) == {c \in has : idOf[c] = s}
<1>4. \A row \in EstablishedRows : row \in Session
  BY ManagerAssumption, TimeoutAssumption DEF EstablishedRows, Session
<1>5. \A c \in has : c \in CLIENT /\ first[c] \in Session /\ first[c] # None
  BY <1>4
<1>6. \A c \in has : sessions[idOf[c]] = first[c]
  <2> SUFFICES ASSUME NEW c \in has PROVE sessions[idOf[c]] = first[c]
    OBVIOUS
  <2>1. holder(idOf[c]) = {c} /\ idOf[c] \in SID
    BY <1>1
  <2>2. sessions[idOf[c]] = first[CHOOSE d \in holder(idOf[c]) : TRUE]
    BY <1>3, <2>1
  <2> QED BY <2>1, <2>2
<1>7. \A s \in SID : (\A c \in has : idOf[c] # s) => sessions[s] = None
  BY <1>3
<1>8. \A c \in has : keys[keyOf[c]] = idOf[c]
  <2> SUFFICES ASSUME NEW c \in has PROVE keys[keyOf[c]] = idOf[c]
    OBVIOUS
  <2> DEFINE d == CHOOSE x \in has : keyOf[x] = keyOf[c]
  <2>1. d \in has /\ keyOf[d] = keyOf[c]
    OBVIOUS
  <2>2. d = c
    BY <1>2, <2>1
  <2>3. keys[keyOf[c]] = idOf[d] /\ keyOf[c] \in KEY
    BY <1>2, <1>3
  <2> QED BY <2>2, <2>3
<1>9. \A k \in KEY : (\A c \in has : keyOf[c] # k) => keys[k] = None
  BY <1>3
<1>10. \A c \in has : idOf[c] \in SID /\ keyOf[c] \in KEY
  BY <1>1, <1>2
<1>11. /\ DOMAIN sessions = SID /\ sessions = [s \in SID |-> sessions[s]]
       /\ DOMAIN keys = KEY /\ keys = [k \in KEY |-> keys[k]]
  BY <1>3
<1>12. /\ cookies = [s \in SID |-> NoCookies] /\ locks = [s \in SID |-> None] /\ now = 1
       /\ owners = [o \in OWNER |-> {idOf[c] : c \in {d \in has : first[d].owner = o}}]
       /\ jar = [c \in CLIENT |-> IF c \in has THEN keyOf[c] ELSE None]
       /\ mintedSid = {idOf[c] : c \in has} /\ mintedKey = {keyOf[c] : c \in has}
       /\ granted = [k \in KEY |-> IF keys[k] = None THEN None ELSE Grant(keys[k], sessions[keys[k]])]
       /\ req = [r \in REQ |-> IdleRequest] /\ faults = 0
  BY <1>3
<1>13. \A s \in SID : sessions[s] \in Session \union {None}
  BY <1>5, <1>6, <1>7
<1>14. \A k \in KEY : keys[k] = None \/ \E c \in has : k = keyOf[c] /\ keys[k] = idOf[c]
  BY <1>8, <1>9
<1>15. \A s \in SID : sessions[s] = None \/ \E c \in has : s = idOf[c] /\ sessions[s] = first[c]
  BY <1>6, <1>7
<1>16. None \notin SID /\ None \notin KEY /\ None \notin Session
  BY SentinelAssumption, ProxySentinels
<1> HIDE DEF has
<1>17. StoreTypeOK /\ RowTypeOK
  <2>1. sessions \in [SID -> Session \union {None}] /\ keys \in [KEY -> SID \union {None}]
    BY <1>10, <1>11, <1>13, <1>14
  <2>2. owners \in [OWNER -> SUBSET SID]
    BY <1>10, <1>12
  <2> QED BY <1>12, <2>1, <2>2 DEF StoreTypeOK, RowTypeOK, NoCookies
<1>18. NothingDangles
  BY <1>5, <1>6, <1>12, <1>14 DEF NothingDangles, Live
<1>19. OwnerIndexExact
  <2> SUFFICES ASSUME NEW o \in OWNER, NEW id \in SID
               PROVE  id \in owners[o] <=> Live(id) /\ sessions[id].owner = o
    BY DEF OwnerIndexExact
  <2>1. id \in owners[o] <=> \E c \in has : first[c].owner = o /\ id = idOf[c]
    BY <1>12
  <2> QED BY <1>5, <1>6, <1>15, <2>1 DEF Live
<1>20. BookTypeOK
  <2>1. jar \in [CLIENT -> KEY \union {None}]
    BY <1>10, <1>12
  <2>2. ASSUME NEW k \in KEY, keys[k] # None
        PROVE  Grant(keys[k], sessions[keys[k]]) \in Granted
    <3>1. PICK c \in has : keys[k] = idOf[c]
      BY <1>14, <2>2
    <3>2. keys[k] \in SID /\ sessions[keys[k]] \in Session
      BY <1>5, <1>6, <1>10, <3>1
    <3> QED BY <3>2 DEF Grant, Granted, Session
  <2>3. granted \in [KEY -> Granted \union {None}]
    BY <1>12, <2>2
  <2> QED BY <1>10, <1>12, <2>1, <2>3, ProxyAssumption DEF BookTypeOK
<1>21. KeyInv
  <2>1. SingleKey
    BY <1>1, <1>5, <1>14 DEF SingleKey
  <2>2. KeyKeepsItsGrant
    BY <1>12 DEF KeyKeepsItsGrant, Grant
  <2>3. IdleRequest.key = None /\ IdleRequest.sid = None /\ IdleRequest.setCookie = Keep
    BY DEF IdleRequest
  <2>4. \A k \in KEY : keys[k] # None \/ granted[k] # None => k \in mintedKey
    BY <1>12, <1>14
  <2>5. \A s \in SID : Live(s) => s \in mintedSid
    BY <1>12, <1>15 DEF Live
  <2>6. \A c \in CLIENT : jar[c] \in mintedKey \union {None}
    BY <1>12
  <2> QED BY <1>12, <2>1, <2>2, <2>3, <2>4, <2>5, <2>6 DEF KeyInv, KnownIds
<1>22. req \in [REQ -> Request] /\ \A r \in REQ : RequestInv(r)
  BY <1>12, IdleRequestType, IdleRequestInv
<1> QED BY <1>17, <1>18, <1>19, <1>20, <1>21, <1>22 DEF ProxyInv, StoreInv, RowInv

-----------------------------------------------------------------------------
(* Every step.                                                             *)

\* Every step the proxy takes for a request preserves the invariant.
LEMMA ServeInv ==
    ASSUME ProxyInv, NEW r \in REQ, Serve(r)
    PROVE  ProxyInv'
BY ResolveGetKeyInv, ResolveGetSessionInv, ResolveClockInv, ResolveExpireInv, ResolveTouchInv,
   ResolveGetCookiesInv, AuthorizeInv, UpstreamFailsInv, UpstreamRespondsInv, TakeLockInv,
   RevokeInv, BeginClockInv, BeginPutSessionInv, BeginPutKeyInv, ApplyClockInv,
   ApplyGetSessionInv, ApplyInv, ReleaseLockInv, FailedCallInv, LostReplyInv, DeliverInv,
   DisconnectInv
DEF Serve

\* So does every step of the system.
LEMMA ProxyNextInv == ProxyInv /\ [Next]_vars => ProxyInv'
<1> SUFFICES ASSUME ProxyInv, [Next]_vars PROVE ProxyInv'
  OBVIOUS
<1>1. CASE \E r \in REQ : Send(r) \/ Serve(r)
  BY <1>1, SendInv, ServeInv
<1>2. CASE (\E id \in SID : SessionExpires(id) \/ LockExpires(id)) \/ TimePasses
  BY <1>2, TimeInv
<1>3. CASE UNCHANGED vars
  <2>1. /\ UNCHANGED <<rowVars, mintedSid, mintedKey, granted, req, jar, faults, now>>
        /\ locks' \in [SID -> HOLDER \union {None}] /\ now' \in Nat
    BY <1>3 DEF vars, storeVars, rowVars, ProxyInv, StoreInv, StoreTypeOK
  <2>2. StoreInv' /\ QuietStore
    BY <2>1, IdleStore
  <2>3. BookTypeOK'
    BY <2>1 DEF ProxyInv, BookTypeOK
  <2> QED BY <2>1, <2>2, <2>3, QuietTime
<1> QED BY <1>1, <1>2, <1>3 DEF Next

\* The invariant holds in every reachable state.
LEMMA ProxyInvariant == Spec => []ProxyInv
BY ProxyInitInv, ProxyNextInv, PTL DEF Spec

\* Type correctness of the store, the requests and the browsers' cookies.
THEOREM ProxyTypeCorrect == Spec => []TypeOK
<1>1. ProxyInv => TypeOK
  BY DEF ProxyInv, StoreInv, BookTypeOK, Granted, TypeOK
<1> QED BY <1>1, ProxyInvariant, PTL

\* The calls the pipeline makes, failed and half-done ones included, leave no key
\* and no cookie of a session that is gone.
THEOREM ProxyNothingDangles == Spec => []NothingDangles
<1>1. ProxyInv => NothingDangles
  BY DEF ProxyInv, StoreInv, RowInv
<1> QED BY <1>1, ProxyInvariant, PTL

\* Logout-everywhere finds exactly the owner's sessions, whatever logins, logouts
\* and failed calls of the pipeline came before.
THEOREM ProxyOwnerIndexExact == Spec => []OwnerIndexExact
<1>1. ProxyInv => OwnerIndexExact
  BY DEF ProxyInv, StoreInv, RowInv
<1> QED BY <1>1, ProxyInvariant, PTL

\* However many responses rotate a session at once, at most one key leads to it.
THEOREM ProxySingleKey == Spec => []SingleKey
<1>1. ProxyInv => SingleKey
  BY DEF ProxyInv, KeyInv
<1> QED BY <1>1, ProxyInvariant, PTL

\* A key that works stands for the labels, and with rotate_on_login for the owner,
\* it was issued with: every change of them by a response comes with a new key.
THEOREM ProxyKeyKeepsItsGrant == Spec => []KeyKeepsItsGrant
<1>1. ProxyInv => KeyKeepsItsGrant
  BY DEF ProxyInv, KeyInv
<1> QED BY <1>1, ProxyInvariant, PTL

\* No response in flight brings back a session whose logout was answered with
\* success, and no logout is answered so after a failed Resolve.
THEOREM ProxyLogoutIsFinal == Spec => []LogoutIsFinal
<1>1. ProxyInv => LogoutIsFinal
  <2> SUFFICES ASSUME ProxyInv, NEW r \in REQ, req[r].status = "ok", req[r].resp.revoke
               PROVE  /\ ~req[r].resolveErr
                      /\ req[r].live => /\ ~Live(req[r].sid)
                                        /\ \A k \in KEY : keys[k] # req[r].sid
    BY DEF LogoutIsFinal
  <2>1. ~req[r].resolveErr
    BY RequestFacts DEF Shape
  <2> QED BY <2>1 DEF ProxyInv, RequestInv, Finished
<1> QED BY <1>1, ProxyInvariant, PTL

-----------------------------------------------------------------------------
(* What a step may never do.                                               *)

\* A step of x is a step of no other request.
LEMMA OneAtATime ==
    ASSUME ProxyInv, NEW x \in REQ, Send(x) \/ Serve(x)
    PROVE  \A r \in REQ \ {x} : req'[r] = req[r]
<1>1. ASSUME NEW p, Become(x, p) PROVE \A r \in REQ \ {x} : req'[r] = req[r]
  BY <1>1 DEF Become, ProxyInv
<1>2. \E p : Become(x, p)
  <2>1. CASE Send(x) \/ UpstreamResponds(x)
    BY <2>1 DEF Send, UpstreamResponds
  <2>2. CASE \/ ResolveGetKey(x) \/ ResolveGetSession(x) \/ ResolveClock(x) \/ ResolveExpire(x)
             \/ ResolveTouch(x) \/ ResolveGetCookies(x) \/ Authorize(x) \/ UpstreamFails(x)
    BY <2>2 DEF ResolveGetKey, ResolveGetSession, ResolveClock, ResolveExpire, ResolveTouch,
                       ResolveGetCookies, Authorize, UpstreamFails, Goto
  <2>3. CASE \/ TakeLock(x) \/ Revoke(x) \/ BeginClock(x) \/ BeginPutSession(x) \/ BeginPutKey(x)
             \/ ApplyClock(x) \/ ApplyGetSession(x) \/ Apply(x)
    BY <2>3 DEF TakeLock, Revoke, BeginClock, BeginPutSession, BeginPutKey, ApplyClock,
                       ApplyGetSession, Apply, Goto
  <2>4. CASE ReleaseLock(x) \/ FailedCall(x) \/ LostReply(x) \/ Deliver(x) \/ Disconnect(x)
    BY <2>4 DEF ReleaseLock, FailedCall, LostReply, Deliver, Disconnect, Goto
  <2> QED BY <2>1, <2>2, <2>3, <2>4 DEF Serve
<1> QED BY <1>1, <1>2

\* All that a step of request r may do to the rows of the store.
RowEffect(r) ==
    LET q == req[r] IN
    \/ UNCHANGED rowVars
    \/ q.pc = "touch" /\ Touches(q)
    \/ q.pc \in {"expire", "revoke"} /\ DeleteSession(q.sid)
    \/ q.pc = "putsession" /\ PutSession(q.sid, BeginRow(q.t))
    \/ q.pc = "putkey" /\ PutKey(q.key, q.sid)
    \/ q.pc = "apply" /\ Commits(q, ResponseControls(q))

\* All that it may do to the locks.
LockEffect(r) ==
    LET q == req[r] IN
    \/ UNCHANGED locks
    \/ q.pc = "lock" /\ Lock(q.sid, r)
    \/ q.pc = "unlock" /\ Unlock(q.sid, r) /\ req'[r] # q

\* Each action has one of these effects.
LEMMA StepEffects ==
    ASSUME ProxyInv, NEW r \in REQ, Send(r) \/ Serve(r)
    PROVE  RowEffect(r) /\ LockEffect(r) /\ (UNCHANGED rowVars \/ UNCHANGED locks)
<1> DEFINE q == req[r]
<1>1. q \in Request
  BY RequestFacts
<1>2. ASSUME UNCHANGED storeVars PROVE RowEffect(r) /\ LockEffect(r) /\ UNCHANGED locks
  BY <1>2 DEF storeVars, rowVars, RowEffect, LockEffect
<1>3. CASE \/ Send(r) \/ ResolveGetKey(r) \/ ResolveGetSession(r) \/ ResolveClock(r)
           \/ ResolveGetCookies(r) \/ Authorize(r) \/ UpstreamFails(r) \/ UpstreamResponds(r)
           \/ BeginClock(r) \/ ApplyClock(r) \/ ApplyGetSession(r)
           \/ FailedCall(r) \/ Deliver(r) \/ Disconnect(r)
  <2>1. UNCHANGED storeVars
    BY <1>3
    DEF Send, ResolveGetKey, ResolveGetSession, ResolveClock, ResolveGetCookies, Authorize,
        UpstreamFails, UpstreamResponds, BeginClock, ApplyClock, ApplyGetSession, FailedCall,
        Deliver, Disconnect
  <2> QED BY <1>2, <2>1
<1>4. CASE \/ ResolveExpire(r) \/ ResolveTouch(r) \/ Revoke(r) \/ BeginPutSession(r)
           \/ BeginPutKey(r) \/ Apply(r)
  <2>1. UNCHANGED locks
    BY <1>4 DEF ResolveExpire, ResolveTouch, Revoke, BeginPutSession, BeginPutKey, Apply
  <2>2. RowEffect(r)
    BY <1>4 DEF ResolveExpire, ResolveTouch, Revoke, BeginPutSession, BeginPutKey, Apply, At,
                RowEffect
  <2> QED BY <2>1, <2>2 DEF LockEffect
<1>5. CASE TakeLock(r)
  BY <1>5 DEF TakeLock, At, RowEffect, LockEffect
<1>6. CASE ReleaseLock(r)
  <2>1. q.pc = "unlock" /\ Unlock(q.sid, r) /\ req'[r] = [q EXCEPT !.pc = "reply"] /\ UNCHANGED rowVars
    BY <1>6 DEF ReleaseLock, At, Goto, Become, ProxyInv
  <2>2. req'[r].pc = "reply"
    BY <1>1, <2>1 DEF Request
  <2> QED BY <2>1, <2>2 DEF RowEffect, LockEffect
<1>7. CASE LostReply(r)
  <2>1. LosesReplyTo(r)
    BY <1>7 DEF LostReply
  <2>2. RowEffect(r) /\ (UNCHANGED rowVars \/ UNCHANGED locks)
    BY <2>1 DEF LosesReplyTo, RowEffect
  <2>3. CASE q.pc = "unlock"
    <3> DEFINE b == At(r, "apply") /\ ResponseControls(req[r]).rotate
    <3>1. /\ OnError(q) = [q EXCEPT !.pc = "reply"]
          /\ req'[r] = [OnError(q) EXCEPT !.swapped = b]
      BY <1>7, <2>3 DEF LostReply, Become, ProxyInv, OnError, ResolveCalls, ResponseCalls
    <3> HIDE DEF b
    <3>2. req'[r].pc = "reply"
      BY <1>1, <3>1 DEF Request
    <3> QED BY <2>1, <2>2, <2>3, <3>2 DEF LosesReplyTo, LockEffect
  <2>4. CASE q.pc # "unlock"
    BY <2>1, <2>2, <2>4 DEF LosesReplyTo, LockEffect
  <2> QED BY <2>3, <2>4
<1> QED BY <1>3, <1>4, <1>5, <1>6, <1>7 DEF Serve

\* A touch that succeeds finds the key working and the labels as they were read.
THEOREM ProxyAuthorizedAtTouch == Spec => AuthorizedAtTouch
<1>1. ASSUME ProxyInv, [Next]_vars, NEW r \in REQ PROVE TouchOfCurrentRow(r)
  <2> DEFINE q == req[r]
  <2> SUFFICES ASSUME q.pc = "touch", req'[r].pc = "getcookies"
               PROVE  keys[q.key] = q.sid /\ sessions[q.sid].labels = q.row.labels
    BY DEF TouchOfCurrentRow, At
  <2>1. q \in Request /\ req'[r] # q
    BY <1>1, RequestFacts
  <2>2. Send(r) \/ Serve(r)
    <3>1. PICK x \in REQ : Send(x) \/ Serve(x)
      BY <1>1, <2>1 DEF Next, vars, SessionExpires, LockExpires, TimePasses
    <3> QED BY <1>1, <2>1, <3>1, OneAtATime
  <2>3. ~FailedCall(r) /\ ~LostReply(r)
    <3>1. OnError(q) = ResolveError(q)
      BY DEF OnError, ResolveCalls, ResponseCalls
    <3>2. ResolveError(q).pc \in {"authz", "unlock", "reply"}
      BY <2>1 DEF ResolveError, Answer, Request
    <3>3. OnError(q) \in Request
      BY <1>1, OnErrorOK DEF StoreCalls, ResolveCalls
    <3>4. ASSUME NEW p, Become(r, p) PROVE p.pc = "getcookies"
      BY <1>1, <3>4 DEF Become, ProxyInv
    <3>5. ~FailedCall(r)
      BY <3>1, <3>2, <3>4 DEF FailedCall
    <3>6. ~LostReply(r)
      <4> SUFFICES ASSUME LostReply(r) PROVE FALSE
        OBVIOUS
      <4> DEFINE e == OnError(q)
                 swaps == At(r, "apply") /\ ResponseControls(q).rotate
      <4>1. [e EXCEPT !.swapped = swaps].pc = "getcookies"
        BY <3>4 DEF LostReply
      <4>2. e.pc # "getcookies" /\ e \in Request
        BY <3>1, <3>2, <3>3
      <4> HIDE DEF e, swaps
      <4> QED BY <4>1, <4>2 DEF Request
    <3> QED BY <3>5, <3>6
  <2>4. ResolveTouch(r)
    BY <2>2, <2>3
    DEF Send, Serve, At, ResolveGetKey, ResolveGetSession, ResolveClock, ResolveExpire,
        ResolveGetCookies, Authorize, UpstreamFails, UpstreamResponds, TakeLock, Revoke,
        BeginClock, BeginPutSession, BeginPutKey, ApplyClock, ApplyGetSession, Apply,
        ReleaseLock, Deliver, Disconnect
  <2>5. TouchResult(q.sid, q.key) = "ok"
    <3> SUFFICES ASSUME TouchResult(q.sid, q.key) # "ok" PROVE FALSE
      OBVIOUS
    <3>1. req' = [req EXCEPT ![r] = ResolveError(q)]
      BY <2>4 DEF ResolveTouch, Become
    <3>2. ResolveError(q).pc # "getcookies"
      BY <2>1 DEF ResolveError, Answer, Request
    <3> QED BY <1>1, <3>1, <3>2 DEF ProxyInv
  <2>6. keys[q.key] = q.sid
    BY <2>5 DEF TouchResult, KeyCheck
  <2> QED BY <1>1, <2>6 DEF ProxyInv, RequestInv, Current, HasRow
<1>2. ProxyInv /\ [Next]_vars => [\A r \in REQ : TouchOfCurrentRow(r)]_vars
  BY <1>1
<1> QED BY <1>2, ProxyInvariant, PTL DEF Spec, AuthorizedAtTouch

\* A response whose key has been rotated away since changes nothing of its
\* session, unless it deletes it.
THEOREM ProxyStaleResponseInert == Spec => StaleResponseInert
<1>1. ASSUME ProxyInv, [Next]_vars, NEW r \in REQ PROVE StepOfStaleRequest(r)
  <2> DEFINE q == req[r]
  <2> SUFFICES ASSUME req'[r] # q, q.sid # None, q.key # None, keys[q.key] # q.sid,
                      Live(q.sid), sessions'[q.sid] # None, q.pc # "putkey"
               PROVE  sessions'[q.sid] = sessions[q.sid] /\ cookies'[q.sid] = cookies[q.sid]
    BY DEF StepOfStaleRequest
  <2>1. q \in Request /\ Shape(q)
    BY <1>1, RequestFacts
  <2>2. q.sid \in SID
    BY <2>1 DEF Request
  <2>3. Send(r) \/ Serve(r)
    <3>1. PICK x \in REQ : Send(x) \/ Serve(x)
      BY <1>1 DEF Next, vars, SessionExpires, LockExpires, TimePasses
    <3> QED BY <1>1, <3>1, OneAtATime
  <2>4. RowEffect(r)
    BY <1>1, <2>3, StepEffects
  <2>5. TouchResult(q.sid, q.key) # "ok"
    BY DEF TouchResult, KeyCheck, Live
  <2>6. ~Touches(q)
    BY <2>5 DEF Touches, TouchSession
  <2>7. ~DeleteSession(q.sid)
    BY <1>1, <2>2 DEF DeleteSession, DropRow, ProxyInv, StoreInv, StoreTypeOK
  <2>8. q.pc # "putsession"
    BY <1>1 DEF ProxyInv, RequestInv, Private, Own, Creating
  <2>9. ~ApplySessionControls(q.sid, ResponseControls(q))
    <3>1. ResponseControls(q).oldKey = q.key
      BY DEF ResponseControls, Controls
    <3> QED BY <2>5, <3>1 DEF ApplySessionControls, ApplyResult, TouchResult
  <2> QED BY <2>4, <2>6, <2>7, <2>8, <2>9 DEF RowEffect, Commits, rowVars
<1>2. ProxyInv /\ [Next]_vars => [\A r \in REQ : StepOfStaleRequest(r)]_vars
  BY <1>1
<1> QED BY <1>2, ProxyInvariant, PTL DEF Spec, StaleResponseInert

\* A lock is given up by its holder or by its time to live, never by the late
\* release of a request whose lock has lapsed.
THEOREM ProxyLockReleasedByHolder == Spec => LockReleasedByHolder
<1>1. ASSUME ProxyInv, [Next]_vars, NEW id \in SID, NEW r \in REQ PROVE LockOutlivesOthers(id, r)
  <2> SUFFICES ASSUME locks[id] = r, locks'[id] # r, req' # req
               PROVE  req'[r] # req[r]
    BY DEF LockOutlivesOthers
  <2>1. PICK x \in REQ : Send(x) \/ Serve(x)
    BY <1>1 DEF Next, vars, SessionExpires, LockExpires, TimePasses
  <2>2. LockEffect(x)
    BY <1>1, <2>1, StepEffects
  <2>3. r # None /\ locks \in [SID -> HOLDER \union {None}]
    BY <1>1, ProxyAssumption, SentinelAssumption DEF ProxyInv, StoreInv, StoreTypeOK
  <2>4. ~Lock(req[x].sid, x)
    BY <2>3 DEF Lock, LockFree
  <2>5. Unlock(req[x].sid, x) /\ req'[x] # req[x]
    BY <2>2, <2>4 DEF LockEffect
  <2>6. x = r
    BY <2>3, <2>5 DEF Unlock
  <2> QED BY <2>5, <2>6
<1>2. ProxyInv /\ [Next]_vars => [\A id \in SID, r \in REQ : LockOutlivesOthers(id, r)]_vars
  BY <1>1
<1> QED BY <1>2, ProxyInvariant, PTL DEF Spec, LockReleasedByHolder

-----------------------------------------------------------------------------
(* What a request has read, and what has become of it since.               *)

\* Row s is row a some time later: same deadlines, no stamp moved back.
Behind(a, s) ==
    /\ a.creation = s.creation /\ a.inactive = s.inactive /\ a.final = s.final
    /\ a.lastAccess <= s.lastAccess /\ a.lastRotation <= s.lastRotation

\* The clock reading and the row a request holds are of the past, and the key of
\* a session under creation does not work yet.
Timely(r) ==
    LET q == req[r] IN
    /\ q.t <= now
    /\ q.pc \in {"touch", "putsession"} => q.t # 0
    /\ q.pc = "expire" => Expired(q.row, q.t)
    /\ q.pc \in Creating => keys[q.key] = None
    /\ q.pc \in HasRow /\ Live(q.sid) => Behind(q.row, sessions[q.sid])

\* The request has brought no response yet, or one that asks for a logout.
Asking(q) == q.pc \in Arriving \/ q.resp.revoke

\* It was found to have no session, and goes on or has been answered as such.
Ended(q) == ~q.live /\ ~q.resolveErr /\ (q.pc \in {"authz", "upstream"} \/ q.status = "ok")

\* Until it asks for something else its key is the one presented, which maps to
\* its session or to nothing, and to nothing once there is no session.
Killed(r) ==
    LET q == req[r] IN
    Asking(q) =>
        /\ q.key = q.presented
        /\ q.presented # None /\ (q.pc \in Resolving \/ q.live) => keys[q.key] \in {None, q.sid}
        /\ q.presented # None /\ Ended(q) => Dead(q)

\* If no reply is lost, only an answer that carries the new key swaps the key.
Handed(r) ==
    LET q == req[r] IN
    EffectLost \/ (q.swapped => Answered(q) /\ q.setCookie \in KEY)

Life(r) == Timely(r) /\ Killed(r) /\ Handed(r)

-----------------------------------------------------------------------------
(* Every step is a call the contract of the store allows.                  *)

\* A step of a request does not move the clock and forgets no error.
LEMMA ClockStep ==
    ASSUME ProxyInv, NEW r \in REQ, Send(r) \/ Serve(r)
    PROVE  now' = now /\ faults' >= faults
<1>1. faults \in Nat
  BY ProxyAssumption DEF ProxyInv, BookTypeOK
<1>2. CASE \/ Send(r) \/ ResolveGetKey(r) \/ ResolveGetSession(r) \/ ResolveClock(r)
           \/ ResolveGetCookies(r) \/ Authorize(r) \/ UpstreamFails(r) \/ UpstreamResponds(r)
           \/ BeginClock(r) \/ ApplyClock(r) \/ ApplyGetSession(r) \/ Deliver(r) \/ Disconnect(r)
  <2>1. UNCHANGED <<storeVars, faults>>
    BY <1>2
    DEF Send, ResolveGetKey, ResolveGetSession, ResolveClock, ResolveGetCookies, Authorize,
        UpstreamFails, UpstreamResponds, BeginClock, ApplyClock, ApplyGetSession, Deliver, Disconnect
  <2> QED BY <1>1, <2>1 DEF storeVars
<1>3. CASE \/ ResolveExpire(r) \/ ResolveTouch(r) \/ Revoke(r) \/ BeginPutSession(r)
           \/ BeginPutKey(r) \/ Apply(r) \/ TakeLock(r) \/ ReleaseLock(r)
  <2>1. UNCHANGED <<now, faults>>
    BY <1>3 DEF ResolveExpire, ResolveTouch, Revoke, BeginPutSession, BeginPutKey, Apply,
                       TakeLock, ReleaseLock
  <2> QED BY <1>1, <2>1
<1>4. CASE FailedCall(r) \/ LostReply(r)
  <2>1. now' = now /\ faults' = faults + 1
    BY <1>4 DEF FailedCall, LostReply, storeVars
  <2> QED BY <1>1, <2>1
<1> QED BY <1>2, <1>3, <1>4 DEF Serve

\* The touch of a request is one with the stamp it read or with none.
LEMMA TouchInContract ==
    ASSUME ProxyInv, NEW r \in REQ, Timely(r), req[r].pc = "touch", Touches(req[r])
    PROVE  RowCall(req[r].sid)
<1> DEFINE q == req[r]
           s == sessions[q.sid]
           legacy == LegacyRotation(q.row, q.t)
<1>1. q \in Request /\ q.sid \in SID /\ q.key \in KEY /\ q.row \in Session
  BY RequestFacts DEF Shape, Resolving, HasRow
<1>2. TouchSession(q.sid, q.key, q.t, legacy) /\ Live(q.sid)
  BY DEF Touches, TouchSession, TouchResult, KeyCheck, Live
<1>3. s \in Session /\ Behind(q.row, s)
  BY <1>1, <1>2 DEF Timely, HasRow, Live, ProxyInv, StoreInv, StoreTypeOK
<1>4. q.t \in Stamps
  <2>1. q.t \in Nat /\ now \in Nat /\ q.t <= now /\ q.t # 0
    BY <1>1 DEF Timely, Request, ProxyInv, StoreInv, StoreTypeOK
  <2> QED BY <2>1 DEF Stamps
<1>5. \E l \in {0, q.t} : TouchSession(q.sid, q.key, q.t, l)
  <2>1. CASE s.lastRotation = 0
    <3>1. q.row.lastRotation = 0
      BY <1>1, <1>3, <2>1 DEF Behind, Session
    <3>2. legacy \in {0, q.t}
      BY <3>1 DEF LegacyRotation
    <3> HIDE DEF legacy
    <3> QED BY <1>2, <3>2
  <2>2. CASE s.lastRotation # 0
    <3> HIDE DEF legacy
    <3>1. TouchSession(q.sid, q.key, q.t, 0)
      BY <1>1, <1>2, <1>3, <2>2 DEF TouchSession, Session, ProxyInv, StoreInv, StoreTypeOK
    <3> QED BY <3>1
  <2> QED BY <2>1, <2>2
<1> QED BY <1>1, <1>4, <1>5 DEF RowCall

\* So is everything else it does to the rows.
LEMMA RowsInContract ==
    ASSUME ProxyInv, NEW r \in REQ, Timely(r), RowEffect(r)
    PROVE  UNCHANGED rowVars \/ \E id \in SID : RowCall(id)
<1> DEFINE q == req[r]
<1>1. q \in Request /\ Shape(q) /\ Private(r)
  BY RequestFacts DEF ProxyInv, RequestInv
<1>2. q.t \in Nat /\ now \in Nat /\ q.t <= now
  BY <1>1 DEF Timely, Request, ProxyInv, StoreInv, StoreTypeOK
<1>3. CASE q.pc = "touch" /\ Touches(q)
  BY <1>1, <1>3, TouchInContract DEF Shape, Resolving
<1>4. CASE q.pc \in {"expire", "revoke"} /\ DeleteSession(q.sid)
  BY <1>1, <1>4 DEF Shape, Resolving, RowCall
<1>5. CASE q.pc = "putsession" /\ PutSession(q.sid, BeginRow(q.t))
  <2>1. q.sid \in SID /\ sessions[q.sid] = None
    BY <1>1, <1>5 DEF Shape, Private, Own, Creating, Live
  <2>2. q.t \in Stamps
    BY <1>2, <1>5 DEF Stamps, Timely
  <2>3. \E i \in INACTIVE, f \in FINAL, t \in Stamps :
           \E rotation \in {0, t} : PutSession(q.sid, NewRow(t, i, f, rotation))
    BY <1>5, <2>2, ManagerAssumption DEF BeginRow
  <2> QED BY <2>1, <2>3 DEF RowCall
<1>6. CASE q.pc = "putkey" /\ PutKey(q.key, q.sid)
  BY <1>1, <1>6 DEF Shape, Creating, Timely, RowCall
<1>7. CASE q.pc = "apply" /\ Commits(q, ResponseControls(q))
  <2> DEFINE c == ResponseControls(q)
  <2>1. (c.rotate => KEY # mintedKey) /\ ApplySessionControls(q.sid, c)
    BY <1>7 DEF Commits
  <2>2. c \in ControlsAt(q.key, {0, q.t}) /\ q.sid \in SID /\ q.key \in KEY /\ c.oldKey = q.key
    BY <1>7, <2>1, ApplyFacts
  <2> HIDE DEF c
  <2>3. KeyCheck(q.sid, q.key) = "ok"
    BY <2>1, <2>2 DEF ApplySessionControls, ApplyResult
  <2>4. q.t \in Stamps
    BY <1>1, <1>2, <1>7 DEF Stamps, Shape
  <2> QED BY <2>1, <2>2, <2>3, <2>4 DEF RowCall
<1> QED BY <1>3, <1>4, <1>5, <1>6, <1>7 DEF RowEffect

\* A step of a request, a lapse or the passing of time is a step of the contract.
LEMMA ContractStep ==
    ASSUME ProxyInv, \A r \in REQ : Timely(r), [Next]_vars
    PROVE  [StoreNext]_storeVars
<1>1. ASSUME NEW r \in REQ, Send(r) \/ Serve(r) PROVE [StoreNext]_storeVars
  <2> DEFINE q == req[r]
  <2>1. /\ RowEffect(r) /\ LockEffect(r) /\ (UNCHANGED rowVars \/ UNCHANGED locks)
        /\ now' = now
    BY <1>1, StepEffects, ClockStep
  <2>2. UNCHANGED rowVars \/ \E id \in SID : RowCall(id)
    BY <2>1, RowsInContract
  <2>3. UNCHANGED locks \/ \E id \in SID : LockCall(id)
    <3>1. q.sid \in SID \/ UNCHANGED locks
      BY <2>1, RequestFacts DEF LockEffect, Shape, Resolving
    <3>2. r \in HOLDER
      BY ProxyAssumption
    <3> QED BY <2>1, <3>1, <3>2 DEF LockEffect, LockCall
  <2> QED BY <2>1, <2>2, <2>3 DEF StoreNext, storeVars, rowVars
<1>2. ASSUME NEW id \in SID, SessionExpires(id) PROVE StoreNext
  BY <1>2 DEF SessionExpires, StoreNext
<1>3. ASSUME NEW id \in SID, LockExpires(id) PROVE StoreNext
  BY <1>3 DEF LockExpires, StoreNext, LockCall
<1>4. ASSUME TimePasses PROVE StoreNext
  BY <1>4 DEF TimePasses, StoreNext
<1>5. CASE UNCHANGED vars
  BY <1>5 DEF vars
<1> QED BY <1>1, <1>2, <1>3, <1>4, <1>5 DEF Next

-----------------------------------------------------------------------------
(* The other requests.                                                     *)

\* A row that is behind one that is behind a third is behind the third.
LEMMA BehindTransitive ==
    ASSUME NEW a \in Session, NEW b \in Session, NEW c \in Session, Behind(a, b), Behind(b, c)
    PROVE  Behind(a, c)
BY DEF Behind, Session

\* The row a request has read stays behind that of its session.
LEMMA RowStaysBehind ==
    ASSUME StoreInv, StoreInv', NEW id \in SID, RowAdvances(id), Live(id), Live(id)',
           NEW a \in Session, Behind(a, sessions[id])
    PROVE  Behind(a, sessions'[id])
<1>1. sessions[id] \in Session /\ sessions'[id] \in Session
  BY DEF StoreInv, StoreTypeOK, Live
<1>2. Behind(sessions[id], sessions'[id])
  <2>1. /\ sessions[id].lastAccess \in Nat /\ sessions[id].lastRotation \in Nat
        /\ sessions'[id].lastAccess \in Nat /\ sessions'[id].lastRotation \in Nat
    BY <1>1 DEF Session
  <2> QED BY <2>1 DEF Behind, RowAdvances
<1> QED BY <1>1, <1>2, BehindTransitive

\* The step takes the key of request x away or leaves it alone, and does not
\* bring its session back.
Calm(x) ==
    LET q == req[x] IN
    /\ q.sid \in SID /\ sessions'[q.sid] # None => Live(q.sid)
    /\ q.key \in KEY => keys'[q.key] \in {None, keys[q.key]}

\* So does every step of another request: what it creates only it knows.
LEMMA OthersCalm ==
    ASSUME ProxyInv, NEW r \in REQ, RowEffect(r), NEW x \in REQ \ {r}
    PROVE  Calm(x)
<1> DEFINE q == req[r]
           y == req[x]
<1>1. /\ q \in Request /\ Shape(q) /\ Private(r) /\ y \in Request
      /\ sessions \in [SID -> Session \union {None}] /\ keys \in [KEY -> SID \union {None}]
  BY RequestFacts DEF ProxyInv, RequestInv, StoreInv, StoreTypeOK
<1>2. CASE UNCHANGED rowVars
  BY <1>2 DEF Calm, rowVars, Live
<1>3. CASE q.pc = "touch" /\ Touches(q)
  <2>1. sessions[q.sid] # None /\ keys' = keys
    BY <1>3 DEF Touches, TouchSession, TouchResult, KeyCheck
  <2>2. \A s \in SID \ {q.sid} : sessions'[s] = sessions[s]
    BY <1>1, <1>3 DEF Touches, TouchSession
  <2> QED BY <2>1, <2>2 DEF Calm, Live
<1>4. CASE q.pc \in {"expire", "revoke"} /\ DeleteSession(q.sid)
  BY <1>1, <1>4 DEF DeleteSession, DropRow, Calm, Live
<1>5. CASE q.pc = "putsession" /\ PutSession(q.sid, BeginRow(q.t))
  <2>1. y.sid # q.sid
    BY <1>1, <1>5 DEF Private, Own, Creating
  <2> QED BY <1>1, <1>5, <2>1 DEF PutSession, Calm, Live
<1>6. CASE q.pc = "putkey" /\ PutKey(q.key, q.sid)
  <2>1. y.key # q.key
    BY <1>1, <1>6 DEF Private, Own, Creating
  <2> QED BY <1>1, <1>6, <2>1 DEF PutKey, Calm, Live
<1>7. CASE q.pc = "apply" /\ Commits(q, ResponseControls(q))
  <2> DEFINE c == ResponseControls(q)
  <2>1. (c.rotate => KEY # mintedKey) /\ ApplySessionControls(q.sid, c)
    BY <1>7 DEF Commits
  <2>2. /\ c \in ControlsAt(q.key, Nat) /\ q.sid \in SID /\ q.key \in KEY
        /\ c.oldKey = q.key /\ c.newKey \in KEY /\ (c.rotate => c.newKey \notin mintedKey)
    BY <1>7, <2>1, ApplyFacts
  <2> HIDE DEF c
  <2>3. keys' = SwapKeys(q.sid, c) /\ \A s \in SID : Live(s)' <=> Live(s)
    BY <2>1, <2>2, ApplyRows
  <2>4. y.key \in mintedKey \union {None}
    BY DEF ProxyInv, KeyInv, KnownIds
  <2>5. y.key \in KEY => keys'[y.key] \in {None, keys[y.key]}
    BY <1>1, <2>2, <2>3, <2>4, ProxySentinels DEF SwapKeys
  <2> QED BY <2>3, <2>5 DEF Calm, Live
<1> QED BY <1>2, <1>3, <1>4, <1>5, <1>6, <1>7 DEF RowEffect

\* A request that takes no step keeps what it knows.
LEMMA Bystander ==
    ASSUME ProxyInv, ProxyInv', NEW x \in REQ, req'[x] = req[x], Life(x), Calm(x),
           \A id \in SID : RowAdvances(id), now' >= now, faults' >= faults
    PROVE  Life(x)'
<1> DEFINE q == req[x]
<1>1. q \in Request /\ Shape(q)
  BY RequestFacts
<1>2. Timely(x)'
  <2>1. q.t <= now'
    <3>1. q.t \in Nat /\ now \in Nat /\ now' \in Nat
      BY <1>1 DEF Request, ProxyInv, StoreInv, StoreTypeOK
    <3> QED BY <3>1 DEF Life, Timely
  <2>2. q.pc \in Creating => keys'[q.key] = None
    BY <1>1 DEF Shape, Calm, Life, Timely
  <2>3. ASSUME q.pc \in HasRow, sessions'[q.sid] # None PROVE Behind(q.row, sessions'[q.sid])
    <3>1. q.sid \in SID /\ q.row \in Session
      BY <1>1, <2>3 DEF Shape, HasRow, Resolving, Applying
    <3>2. Live(q.sid) /\ Behind(q.row, sessions[q.sid])
      BY <2>3, <3>1 DEF Calm, Life, Timely
    <3> QED BY <2>3, <3>1, <3>2, RowStaysBehind DEF ProxyInv, Live
  <2>4. /\ q.pc \in {"touch", "putsession"} => q.t # 0
        /\ q.pc = "expire" => Expired(q.row, q.t)
    BY DEF Life, Timely
  <2> HIDE DEF q
  <2> QED BY <2>1, <2>2, <2>3, <2>4 DEF Timely, q, Live, Behind
<1>3. Killed(x)'
  <2>1. q.presented \in KEY \union {None}
    BY <1>1 DEF Request
  <2>2. Dead(q) => faults > 0 \/ keys[q.presented] = None
    BY DEF Dead
  <2>3. ASSUME Asking(q), q.presented # None, Ended(q) PROVE Dead(q)'
    <3>1. Dead(q) /\ q.key = q.presented /\ q.presented \in KEY
      BY <2>1, <2>3 DEF Life, Killed
    <3>2. faults > 0 => faults' > 0
      BY ProxyAssumption DEF ProxyInv, BookTypeOK
    <3> QED BY <3>1, <3>2 DEF Dead, Calm
  <2>4. ASSUME Asking(q), q.presented # None, q.pc \in Resolving \/ q.live
        PROVE  keys'[q.key] \in {None, q.sid}
    BY <2>1, <2>4 DEF Life, Killed, Calm
  <2>5. Asking(q) => q.key = q.presented
    BY DEF Life, Killed
  <2> QED BY <2>3, <2>4, <2>5 DEF Killed, Asking, Ended
<1>4. Handed(x)'
  BY DEF Life, Handed, Answered
<1> QED BY <1>2, <1>3, <1>4 DEF Life

-----------------------------------------------------------------------------
(* The request that takes the step.                                        *)

\* What a step that only moves request r on makes of it.
Onward(r, p) ==
    LET q == req[r] IN
    /\ p.presented = q.presented /\ p.key = q.key /\ p.sid = q.sid /\ p.t = q.t /\ p.row = q.row
    /\ p.pc \notin {"expire", "touch", "putsession"}
    /\ p.pc \in Creating => q.pc \in Creating /\ keys' = keys
    /\ p.pc \in HasRow => q.pc \in HasRow /\ (sessions'[q.sid] # None => Live(q.sid))
    /\ Asking(p) => /\ Asking(q)
                    /\ q.key \in KEY => keys'[q.key] \in {None, keys[q.key]}
                    /\ p.pc \in Resolving \/ p.live => q.pc \in Resolving \/ q.live
                    /\ q.presented # None /\ Ended(p) =>
                          \/ Ended(q)
                          \/ keys'[q.key] = None
                          \/ faults' > 0 /\ q.row # None /\ Expired(q.row, q.t)
    /\ \/ EffectLost
       \/ /\ p.swapped = q.swapped
          /\ Answered(q) => Answered(p) /\ p.setCookie = q.setCookie

\* Such a step keeps what the request knows true.
LEMMA OnwardLife ==
    ASSUME ProxyInv, ProxyInv', NEW r \in REQ, NEW p, req'[r] = p, Life(r), Onward(r, p),
           \A id \in SID : RowAdvances(id), now' >= now, faults' >= faults
    PROVE  Life(r)'
<1> DEFINE q == req[r]
<1>1. q \in Request /\ Shape(q)
  BY RequestFacts
<1>2. /\ p.presented = q.presented /\ p.key = q.key /\ p.sid = q.sid /\ p.t = q.t /\ p.row = q.row
      /\ p.pc \notin {"expire", "touch", "putsession"}
  BY DEF Onward
<1>3. Timely(r)'
  <2>1. q.t <= now'
    <3>1. q.t \in Nat /\ now \in Nat /\ now' \in Nat
      BY <1>1 DEF Request, ProxyInv, StoreInv, StoreTypeOK
    <3> QED BY <3>1 DEF Life, Timely
  <2>2. p.pc \in Creating => keys'[q.key] = None
    BY DEF Onward, Life, Timely
  <2>3. ASSUME p.pc \in HasRow, sessions'[q.sid] # None PROVE Behind(q.row, sessions'[q.sid])
    <3>1. q.pc \in HasRow /\ Live(q.sid)
      BY <2>3 DEF Onward
    <3>2. q.sid \in SID /\ q.row \in Session
      BY <1>1, <3>1 DEF Shape, HasRow, Resolving, Applying
    <3>3. Behind(q.row, sessions[q.sid])
      BY <3>1 DEF Life, Timely
    <3> QED BY <2>3, <3>1, <3>2, <3>3, RowStaysBehind DEF ProxyInv, Live
  <2> HIDE DEF q
  <2> QED BY <1>2, <2>1, <2>2, <2>3 DEF Timely, Live, Behind
<1>4. Killed(r)'
  <2> SUFFICES ASSUME Asking(p)
               PROVE  /\ p.key = p.presented
                      /\ p.presented # None /\ (p.pc \in Resolving \/ p.live) =>
                            keys'[p.key] \in {None, p.sid}
                      /\ p.presented # None /\ Ended(p) =>
                            \/ keys'[p.presented] = None
                            \/ faults' > 0 /\ p.row # None /\ Expired(p.row, p.t)
    BY DEF Killed, Asking, Ended, Dead
  <2>1. Asking(q) /\ q.key = q.presented /\ q.presented \in KEY \union {None}
    BY <1>1 DEF Onward, Life, Killed, Request
  <2>2. q.key \in KEY => keys'[q.key] \in {None, keys[q.key]}
    BY DEF Onward
  <2>3. ASSUME q.presented # None, p.pc \in Resolving \/ p.live PROVE keys'[q.key] \in {None, q.sid}
    <3>1. keys[q.key] \in {None, q.sid}
      BY <2>1, <2>3 DEF Onward, Life, Killed
    <3> QED BY <2>1, <2>2, <2>3, <3>1
  <2>4. ASSUME q.presented # None, Ended(p)
        PROVE  keys'[q.key] = None \/ (faults' > 0 /\ q.row # None /\ Expired(q.row, q.t))
    <3>1. CASE Ended(q)
      <4>1. Dead(q)
        BY <2>1, <2>4, <3>1 DEF Life, Killed
      <4>2. faults > 0 => faults' > 0
        BY ProxyAssumption DEF ProxyInv, BookTypeOK
      <4> QED BY <2>1, <2>2, <2>4, <4>1, <4>2 DEF Dead
    <3>2. CASE ~Ended(q)
      BY <2>4, <3>2 DEF Onward
    <3> QED BY <3>1, <3>2
  <2> QED BY <1>2, <2>1, <2>3, <2>4
<1>5. Handed(r)'
  BY DEF Life, Onward, Handed, Answered
<1> QED BY <1>3, <1>4, <1>5 DEF Life

\* Request p has the locals of request q.
SameLocals(q, p) ==
    /\ p.presented = q.presented /\ p.key = q.key /\ p.sid = q.sid /\ p.t = q.t /\ p.row = q.row
    /\ p.resp = q.resp /\ p.resolveErr = q.resolveErr /\ p.live = q.live /\ p.swapped = q.swapped

\* Moving on changes none of them.
LEMMA GotoLocals ==
    ASSUME NEW q \in Request, NEW v
    PROVE  LET p == [q EXCEPT !.pc = v] IN
           SameLocals(q, p) /\ p.pc = v /\ p.status = q.status /\ p.setCookie = q.setCookie
BY DEF SameLocals, Request

\* Neither does an answer.
LEMMA AnswerLocals ==
    ASSUME NEW q \in Request, NEW s, NEW cookie
    PROVE  LET p == Answer(q, s, cookie) IN
           SameLocals(q, p) /\ p.pc \in {"unlock", "reply"} /\ p.status = s /\ p.setCookie = cookie
BY DEF Answer, SameLocals, Request

\* What processing makes of a response before the next store call.
LEMMA ProcessLocals ==
    ASSUME NEW q \in Request
    PROVE  /\ SameLocals(q, ProcessLocked(q))
           /\ ProcessLocked(q).pc \in {"revoke", "applyclock", "begin", "unlock", "reply"}
<1>1. CASE q.resp.revoke /\ q.live
  BY <1>1, GotoLocals DEF ProcessLocked
<1>2. CASE q.resp.revoke /\ ~q.live
  <2>1. ProcessLocked(q) = Answer(q, "ok", ExpiredCookie(q))
    BY <1>2 DEF ProcessLocked
  <2> QED BY <2>1, AnswerLocals
<1>3. CASE ~q.resp.revoke /\ q.live
  <2>1. ProcessLocked(q) = [q EXCEPT !.pc = "applyclock"]
    BY <1>3 DEF ProcessLocked
  <2> QED BY <2>1, GotoLocals
<1>4. CASE ~q.resp.revoke /\ ~q.live /\ NeedsSession(q.resp)
  <2>1. ProcessLocked(q) = [q EXCEPT !.pc = "begin"]
    BY <1>4 DEF ProcessLocked
  <2> QED BY <2>1, GotoLocals
<1>5. CASE ~q.resp.revoke /\ ~q.live /\ ~NeedsSession(q.resp)
  <2>1. ProcessLocked(q) = Answer(q, "ok", Keep)
    BY <1>5 DEF ProcessLocked
  <2> QED BY <2>1, AnswerLocals
<1> QED BY <1>1, <1>2, <1>3, <1>4, <1>5

\* The request is answered without a change of its locals; if that ends a logout
\* with success its session was found or had ended before.
LEMMA AnswerOnward ==
    ASSUME ProxyInv, NEW r \in REQ, NEW p, SameLocals(req[r], p), ~Answered(req[r]),
           p.pc \in {"lock", "revoke", "applyclock", "begin", "unlock", "reply"},
           p.resp.revoke => Asking(req[r]) /\ (p.status = "ok" => req[r].live \/ Ended(req[r])),
           req[r].resp.revoke \/ req[r].pc \in Arriving =>
               (req[r].key \in KEY => keys'[req[r].key] \in {None, keys[req[r].key]})
    PROVE  Onward(r, p)
<1> DEFINE q == req[r]
<1>1. /\ p.pc \notin Creating /\ p.pc \notin HasRow /\ p.pc \notin Arriving /\ p.pc \notin Resolving
      /\ p.pc \notin {"expire", "touch", "putsession", "authz", "upstream"}
  BY DEF Creating, HasRow, Arriving, Resolving
<1>2. /\ p.presented = q.presented /\ p.key = q.key /\ p.sid = q.sid /\ p.t = q.t /\ p.row = q.row
      /\ p.live = q.live /\ p.swapped = q.swapped
  BY DEF SameLocals
<1>3. Asking(p) => p.resp.revoke
  BY <1>1 DEF Asking
<1>4. Ended(p) => ~q.live /\ p.status = "ok"
  BY <1>1, <1>2 DEF Ended
<1> HIDE DEF q
<1> QED BY <1>1, <1>2, <1>3, <1>4 DEF Onward, Asking, q

\* A request that has an answer keeps it on its way to the browser.
LEMMA SettledOnward ==
    ASSUME ProxyInv, NEW r \in REQ, Answered(req[r]), NEW v \in {"reply", "done", "lost"},
           keys' = keys
    PROVE  Onward(r, [req[r] EXCEPT !.pc = v])
<1> DEFINE q == req[r]
           p == [q EXCEPT !.pc = v]
<1>1. SameLocals(q, p) /\ p.pc = v /\ p.status = q.status /\ p.setCookie = q.setCookie
  BY RequestFacts, GotoLocals
<1> HIDE DEF p
<1>2. /\ p.pc \notin Creating /\ p.pc \notin HasRow /\ p.pc \notin Arriving /\ p.pc \notin Resolving
      /\ p.pc \notin {"expire", "touch", "putsession", "authz", "upstream"} /\ Answered(p)
  BY <1>1 DEF Creating, HasRow, Arriving, Resolving, Answered
<1>3. (Asking(p) => Asking(q)) /\ (Ended(p) => Ended(q))
  BY <1>1, <1>2 DEF SameLocals, Asking, Ended
<1>4. Onward(r, p)
  BY <1>1, <1>2, <1>3 DEF Onward, SameLocals
<1> QED BY <1>4 DEF p

\* Resolve found no session: the key is gone, or an error hides that it is not.
LEMMA UnresolvedOnward ==
    ASSUME ProxyInv, NEW r \in REQ, req[r].pc \in Resolving \union {"getkey"},
           req[r].key \in KEY => keys'[req[r].key] \in {None, keys[req[r].key]},
           \/ req[r].presented = None
           \/ keys'[req[r].key] = None
           \/ faults' > 0 /\ req[r].row # None /\ Expired(req[r].row, req[r].t)
    PROVE  Onward(r, Unresolved(req[r]))
<1> DEFINE q == req[r]
           p == Unresolved(q)
<1>1. q \in Request /\ q.pc \in Arriving /\ ~Answered(q)
  BY RequestFacts DEF Arriving, Resolving, Answered
<1>2. /\ p.presented = q.presented /\ p.key = q.key /\ p.sid = q.sid /\ p.t = q.t /\ p.row = q.row
      /\ p.pc = "authz" /\ p.swapped = q.swapped /\ p.live = FALSE
  BY <1>1 DEF Unresolved, Request
<1> HIDE DEF p
<1>3. p.pc \notin Creating \union HasRow \union Resolving \union {"expire", "touch", "putsession"}
  BY <1>2 DEF Creating, HasRow, Resolving
<1>4. Onward(r, p)
  BY <1>1, <1>2, <1>3 DEF Onward, Asking
<1> QED BY <1>4 DEF p

\* Resolve failed: the request is refused, or goes on knowing that it did.
LEMMA ResolveErrorOnward ==
    ASSUME ProxyInv, NEW r \in REQ, req[r].pc \in Resolving \union {"getkey"},
           req[r].key \in KEY => keys'[req[r].key] \in {None, keys[req[r].key]}
    PROVE  Onward(r, ResolveError(req[r]))
<1> DEFINE q == req[r]
           p == ResolveError(q)
<1>1. q \in Request /\ q.pc \in Arriving /\ ~Answered(q)
  BY RequestFacts DEF Arriving, Resolving, Answered
<1>2. CASE FailOpen
  <2>1. /\ p.presented = q.presented /\ p.key = q.key /\ p.sid = q.sid /\ p.t = q.t /\ p.row = q.row
        /\ p.pc = "authz" /\ p.swapped = q.swapped /\ p.live = FALSE /\ p.resolveErr = TRUE
    BY <1>1, <1>2 DEF ResolveError, Request
  <2> HIDE DEF p
  <2>2. p.pc \notin Creating \union HasRow \union Resolving \union {"expire", "touch", "putsession"}
    BY <2>1 DEF Creating, HasRow, Resolving
  <2>3. Onward(r, p)
    BY <1>1, <2>1, <2>2 DEF Onward, Asking, Ended
  <2> QED BY <2>3 DEF p
<1>3. CASE ~FailOpen
  <2>1. p = Answer(q, "badgateway", Keep)
    BY <1>3 DEF ResolveError
  <2>2. SameLocals(q, p) /\ p.pc \in {"unlock", "reply"} /\ p.status = "badgateway"
    BY <1>1, <2>1, AnswerLocals
  <2> HIDE DEF p
  <2>3. Onward(r, p)
    BY <1>1, <2>2, AnswerOnward DEF Asking
  <2> QED BY <2>3 DEF p
<1> QED BY <1>2, <1>3

\* The response path failed: a logout is never reported as done.
LEMMA ProcessErrorOnward ==
    ASSUME ProxyInv, NEW r \in REQ, req[r].pc \in ResponseCalls,
           req[r].resp.revoke => (req[r].key \in KEY => keys'[req[r].key] \in {None, keys[req[r].key]})
    PROVE  Onward(r, ProcessError(req[r]))
<1> DEFINE q == req[r]
           p == ProcessError(q)
<1>1. q \in Request /\ q.pc \notin Arriving /\ ~Answered(q)
  BY RequestFacts DEF Arriving, Resolving, Answered, ResponseCalls
<1>2. /\ SameLocals(q, p) /\ p.pc \in {"unlock", "reply"}
      /\ p.status = IF FailOpen /\ ~q.resp.revoke THEN "ok" ELSE "badgateway"
  BY <1>1, AnswerLocals DEF ProcessError
<1> HIDE DEF p
<1>3. p.resp.revoke => q.resp.revoke /\ p.status # "ok"
  BY <1>2 DEF SameLocals
<1>4. Onward(r, p)
  BY <1>1, <1>2, <1>3, AnswerOnward DEF Asking
<1> QED BY <1>4 DEF p

\* What becomes of a request when its store call reports an error.
LEMMA OnErrorOnward ==
    ASSUME ProxyInv, NEW r \in REQ, Life(r), req[r].pc \in StoreCalls, faults' > 0,
           Asking(req[r]) => (req[r].key \in KEY => keys'[req[r].key] \in {None, keys[req[r].key]}),
           req[r].pc = "unlock" => keys' = keys
    PROVE  Onward(r, OnError(req[r]))
<1> DEFINE q == req[r]
<1>1. CASE q.pc \in ResolveCalls
  <2>1. OnError(q) = ResolveError(q)
    BY <1>1 DEF OnError, ResolveCalls, ResponseCalls
  <2>2. q.pc \in Resolving \union {"getkey"} /\ Asking(q)
    BY <1>1 DEF ResolveCalls, Resolving, Asking, Arriving
  <2> QED BY <2>1, <2>2, ResolveErrorOnward
<1>2. CASE q.pc \in ResponseCalls
  <2>1. OnError(q) = ProcessError(q)
    BY <1>2 DEF OnError, ResolveCalls, ResponseCalls
  <2> QED BY <1>2, <2>1, ProcessErrorOnward DEF Asking
<1>3. CASE q.pc = "expire"
  <2>1. OnError(q) = Unresolved(q) /\ q.pc \in Resolving /\ Asking(q)
    BY <1>3 DEF OnError, ResolveCalls, ResponseCalls, Resolving, Asking, Arriving
  <2>2. q.row # None /\ Expired(q.row, q.t)
    BY <1>3, RequestFacts, SentinelAssumption DEF Shape, HasRow, Life, Timely
  <2> QED BY <2>1, <2>2, UnresolvedOnward
<1>4. CASE q.pc = "unlock"
  <2>1. OnError(q) = [q EXCEPT !.pc = "reply"] /\ Answered(q)
    BY <1>4 DEF OnError, ResolveCalls, ResponseCalls, Answered
  <2> QED BY <1>4, <2>1, SettledOnward
<1> QED BY <1>1, <1>2, <1>3, <1>4 DEF StoreCalls

-----------------------------------------------------------------------------
(* The actions.                                                            *)

\* Steps that report an error, lost replies included.
LEMMA ErrorsOnward ==
    ASSUME ProxyInv, NEW r \in REQ, Life(r), FailedCall(r) \/ LostReply(r)
    PROVE  \E p : Become(r, p) /\ Onward(r, p)
<1> DEFINE q == req[r]
<1>1. q \in Request /\ Shape(q) /\ faults' > 0
  <2>1. faults \in Nat /\ faults' = faults + 1
    BY ProxyAssumption DEF ProxyInv, BookTypeOK, FailedCall, LostReply
  <2> QED BY <2>1, RequestFacts
<1>2. CASE FailedCall(r)
  <2>1. Become(r, OnError(q)) /\ q.pc \in StoreCalls /\ keys' = keys
    BY <1>2 DEF FailedCall, storeVars
  <2> QED BY <1>1, <2>1, OnErrorOnward
<1>3. CASE LostReply(r)
  <2> DEFINE b == At(r, "apply") /\ ResponseControls(q).rotate
             e == OnError(q)
             p == [e EXCEPT !.swapped = b]
  <2>1. EffectLost /\ LosesReplyTo(r) /\ Become(r, p)
    BY <1>3 DEF LostReply
  <2>2. q.pc \in StoreCalls
    BY <2>1 DEF LosesReplyTo, StoreCalls, ResolveCalls, ResponseCalls
  <2>3. Asking(q) => (q.key \in KEY => keys'[q.key] \in {None, keys[q.key]})
    <3>1. q.pc \in {"putkey", "apply"} => ~Asking(q)
      BY <1>1 DEF Shape, Mutating, Creating, Applying, Asking, Arriving, Resolving
    <3>2. q.pc \in {"touch", "putsession", "lock", "unlock"} => keys' = keys
      BY <2>1 DEF LosesReplyTo, Touches, TouchSession, PutSession, rowVars
    <3>3. q.pc \in {"expire", "revoke"} => \A k \in KEY : keys'[k] \in {None, keys[k]}
      BY <2>1 DEF LosesReplyTo, DeleteSession, DropRow
    <3>4. q.pc \in {"putkey", "apply", "touch", "putsession", "lock", "unlock", "expire", "revoke"}
      BY <2>1 DEF LosesReplyTo
    <3> QED BY <3>1, <3>2, <3>3, <3>4
  <2>4. q.pc = "unlock" => keys' = keys
    BY <2>1 DEF LosesReplyTo, rowVars
  <2>5. Onward(r, e) /\ e \in Request
    BY <1>1, <2>2, <2>3, <2>4, OnErrorOnward, OnErrorOK
  <2> HIDE DEF b, e
  <2>6. /\ p.pc = e.pc /\ p.presented = e.presented /\ p.live = e.live /\ p.sid = e.sid
        /\ p.key = e.key /\ p.row = e.row /\ p.t = e.t /\ p.resolveErr = e.resolveErr
        /\ p.resp = e.resp /\ p.status = e.status
    BY <2>5 DEF Request
  <2> HIDE DEF p
  <2>7. Onward(r, p)
    BY <2>1, <2>5, <2>6 DEF Onward, Asking, Ended
  <2> QED BY <2>1, <2>7
<1> QED BY <1>2, <1>3

\* Steps of the request path that end or refuse the request, or let it through.
LEMMA ResolveOnward ==
    ASSUME ProxyInv, NEW r \in REQ, Life(r),
           \/ ResolveGetKey(r) /\ keys[req[r].presented] = None
           \/ ResolveGetSession(r) /\ ~Live(req[r].sid)
           \/ ResolveExpire(r) \/ ResolveTouch(r) \/ Authorize(r)
    PROVE  \E p : Become(r, p) /\ Onward(r, p)
<1> DEFINE q == req[r]
<1>1. q \in Request /\ Shape(q)
  BY RequestFacts
<1>2. CASE ResolveGetKey(r) /\ keys[q.presented] = None
  <2>1. Become(r, Unresolved(q)) /\ q.pc = "getkey" /\ keys' = keys
    BY <1>2 DEF ResolveGetKey, At, storeVars
  <2>2. q.key = q.presented
    BY <1>1, <2>1 DEF Shape
  <2> QED BY <1>2, <2>1, <2>2, UnresolvedOnward
<1>3. CASE ResolveGetSession(r) /\ ~Live(q.sid)
  <2>1. Become(r, Unresolved(q)) /\ q.pc = "getsession" /\ keys' = keys
    BY <1>3 DEF ResolveGetSession, At, storeVars, Live
  <2>2. q.sid \in SID /\ q.key \in KEY /\ q.pc \in Resolving /\ Asking(q)
    BY <1>1, <2>1 DEF Shape, Resolving, Asking, Arriving
  <2>3. q.presented = None \/ keys[q.key] \in {None, q.sid}
    BY <2>2 DEF Life, Killed
  <2>4. keys[q.key] # q.sid
    BY <1>3, <2>2, SentinelAssumption DEF ProxyInv, StoreInv, RowInv, NothingDangles
  <2> QED BY <2>1, <2>2, <2>3, <2>4, UnresolvedOnward
<1>4. CASE ResolveExpire(r)
  <2>1. Become(r, Unresolved(q)) /\ q.pc = "expire" /\ DeleteSession(q.sid)
    BY <1>4 DEF ResolveExpire, At
  <2>2. q.sid \in SID /\ q.key \in KEY /\ q.pc \in Resolving /\ Asking(q)
    BY <1>1, <2>1 DEF Shape, Resolving, Asking, Arriving
  <2>3. q.presented = None \/ keys[q.key] \in {None, q.sid}
    BY <2>2 DEF Life, Killed
  <2>4. keys'[q.key] = IF keys[q.key] = q.sid THEN None ELSE keys[q.key]
    BY <2>1, <2>2 DEF DeleteSession, DropRow
  <2> QED BY <2>1, <2>2, <2>3, <2>4, UnresolvedOnward
<1>5. CASE ResolveTouch(r) /\ TouchResult(q.sid, q.key) # "ok"
  <2>1. Become(r, ResolveError(q)) /\ q.pc = "touch" /\ keys' = keys
    BY <1>5 DEF ResolveTouch, At, rowVars
  <2> QED BY <2>1, ResolveErrorOnward DEF Resolving
<1>6. CASE ResolveTouch(r) /\ TouchResult(q.sid, q.key) = "ok"
  <2> DEFINE p == [q EXCEPT !.pc = "getcookies"]
  <2>1. Become(r, p) /\ q.pc = "touch" /\ keys' = keys /\ Live(q.sid)
    BY <1>6 DEF ResolveTouch, At, Goto, Touches, TouchSession, TouchResult, KeyCheck, Live
  <2>2. SameLocals(q, p) /\ p.pc = "getcookies" /\ p.status = q.status
    BY <1>1, GotoLocals
  <2>3. p.status # "ok"
    BY <1>1, <2>1, <2>2, ProxySentinels DEF Shape, Answered
  <2> HIDE DEF p
  <2>4. q.pc \in HasRow /\ p.pc \in HasRow /\ p.pc \notin Creating /\ q.pc \in Resolving
        /\ p.pc \notin {"expire", "touch", "putsession", "authz", "upstream"} /\ Asking(q) /\ ~Answered(q)
    BY <2>1, <2>2 DEF HasRow, Creating, Resolving, Asking, Arriving, Answered
  <2>5. Onward(r, p)
    BY <2>1, <2>2, <2>3, <2>4 DEF Onward, SameLocals, Ended
  <2> QED BY <2>1, <2>5
<1>7. CASE Authorize(r)
  <2> DEFINE p == [q EXCEPT !.pc = "upstream"]
  <2>1. q.pc = "authz" /\ keys' = keys /\ (Become(r, p) \/ Become(r, Answer(q, "denied", Keep)))
    BY <1>7 DEF Authorize, At, storeVars
  <2>2. Asking(q) /\ ~Answered(q)
    BY <2>1 DEF Asking, Arriving, Answered
  <2>3. Onward(r, Answer(q, "denied", Keep))
    <3> DEFINE a == Answer(q, "denied", Keep)
    <3>1. SameLocals(q, a) /\ a.pc \in {"unlock", "reply"} /\ a.status = "denied"
      BY <1>1, AnswerLocals
    <3> HIDE DEF a
    <3>2. Onward(r, a)
      BY <2>1, <2>2, <3>1, AnswerOnward
    <3> QED BY <3>2 DEF a
  <2>4. SameLocals(q, p) /\ p.pc = "upstream"
    BY <1>1, GotoLocals
  <2> HIDE DEF p
  <2>5. p.pc \notin Creating \union HasRow \union Resolving \union {"expire", "touch", "putsession"}
    BY <2>4 DEF Creating, HasRow, Resolving
  <2>6. Ended(p) => Ended(q)
    BY <2>1, <2>4 DEF Ended, SameLocals
  <2>7. Onward(r, p)
    BY <2>1, <2>2, <2>4, <2>5, <2>6 DEF Onward, SameLocals
  <2> QED BY <2>1, <2>3, <2>7
<1> QED BY <1>2, <1>3, <1>4, <1>5, <1>6, <1>7

\* Steps of the response path that move the request on or refuse it.
LEMMA ResponseOnward ==
    ASSUME ProxyInv, NEW r \in REQ, Life(r),
           \/ UpstreamFails(r) \/ UpstreamResponds(r) \/ TakeLock(r) \/ Revoke(r)
           \/ BeginPutSession(r)
           \/ BeginPutKey(r) /\ PutKeyResult(req[r].sid) # "ok"
           \/ ApplyGetSession(r) /\ sessions[req[r].sid] = None
           \/ Apply(r) /\ ApplyResult(req[r].sid, ResponseControls(req[r])) # "ok"
           \/ ReleaseLock(r) \/ Deliver(r) \/ Disconnect(r)
    PROVE  \E p : Become(r, p) /\ Onward(r, p)
<1> DEFINE q == req[r]
<1>1. q \in Request /\ Shape(q)
  BY RequestFacts
<1>2. CASE UpstreamFails(r)
  <2> DEFINE a == Answer(q, "failed", Keep)
  <2>1. Become(r, a) /\ q.pc = "upstream" /\ keys' = keys
    BY <1>2 DEF UpstreamFails, At, storeVars
  <2>2. SameLocals(q, a) /\ a.pc \in {"unlock", "reply"} /\ a.status = "failed"
    BY <1>1, AnswerLocals
  <2> HIDE DEF a
  <2>3. Onward(r, a)
    BY <2>1, <2>2, AnswerOnward DEF Asking, Arriving, Answered
  <2> QED BY <2>1, <2>3
<1>3. CASE UpstreamResponds(r)
  <2>1. PICK resp \in RESPONSE : Become(r, Process([q EXCEPT !.resp = resp]))
    BY <1>3 DEF UpstreamResponds
  <2> DEFINE u == [q EXCEPT !.resp = resp]
             p == Process(u)
  <2>2. q.pc = "upstream" /\ keys' = keys
    BY <1>3 DEF UpstreamResponds, At, storeVars
  <2>3. u \in Request
    BY <1>1, ProxyAssumption, Update
  <2>4. /\ u.presented = q.presented /\ u.key = q.key /\ u.sid = q.sid /\ u.t = q.t /\ u.row = q.row
        /\ u.resolveErr = q.resolveErr /\ u.live = q.live /\ u.swapped = q.swapped
    BY <1>1 DEF Request
  <2> HIDE DEF u
  <2>5. SameLocals(u, p) /\ p.pc \in {"lock", "revoke", "applyclock", "begin", "unlock", "reply"}
    <3>1. p \in {ProcessError(u), [u EXCEPT !.pc = "lock"], ProcessLocked(u)}
      BY DEF Process
    <3>2. SameLocals(u, ProcessError(u)) /\ ProcessError(u).pc \in {"unlock", "reply"}
      BY <2>3, AnswerLocals DEF ProcessError
    <3>3. SameLocals(u, [u EXCEPT !.pc = "lock"]) /\ [u EXCEPT !.pc = "lock"].pc = "lock"
      BY <2>3, GotoLocals
    <3>4. /\ SameLocals(u, ProcessLocked(u))
          /\ ProcessLocked(u).pc \in {"revoke", "applyclock", "begin", "unlock", "reply"}
      BY <2>3, ProcessLocals
    <3> HIDE DEF p
    <3> QED BY <3>1, <3>2, <3>3, <3>4
  <2> HIDE DEF p
  <2>6. /\ p.pc \notin Creating /\ p.pc \notin HasRow /\ p.pc \notin Resolving
        /\ p.pc \notin {"expire", "touch", "putsession", "authz", "upstream"}
        /\ Asking(q) /\ ~Answered(q)
    BY <2>2, <2>5 DEF Creating, HasRow, Resolving, Asking, Arriving, Answered
  <2>7. Ended(p) => Ended(q)
    BY <2>2, <2>4, <2>5, <2>6 DEF Ended, SameLocals
  <2>8. Onward(r, p)
    BY <2>2, <2>4, <2>5, <2>6, <2>7 DEF Onward, SameLocals
  <2> QED BY <2>1, <2>8 DEF p, u
<1>4. CASE TakeLock(r) /\ ~LockFree(q.sid)
  <2>1. Become(r, ProcessError(q)) /\ q.pc = "lock" /\ keys' = keys
    BY <1>4 DEF TakeLock, At, rowVars
  <2> QED BY <2>1, ProcessErrorOnward DEF ResponseCalls
<1>5. CASE TakeLock(r) /\ LockFree(q.sid)
  <2> DEFINE u == [q EXCEPT !.locked = TRUE]
             p == ProcessLocked(u)
  <2>1. Become(r, p) /\ q.pc = "lock" /\ keys' = keys
    BY <1>5 DEF TakeLock, At, rowVars
  <2>2. u \in Request
    BY <1>1, Update
  <2>3. SameLocals(q, u)
    BY <1>1 DEF Request, SameLocals
  <2> HIDE DEF u
  <2>4. SameLocals(u, p) /\ p.pc \in {"revoke", "applyclock", "begin", "unlock", "reply"}
    BY <2>2, ProcessLocals
  <2> HIDE DEF p
  <2>5. SameLocals(q, p) /\ p.resp = q.resp
    BY <2>3, <2>4 DEF SameLocals
  <2>6. q.live /\ ~Answered(q)
    BY <1>1, <2>1 DEF Shape, Answered
  <2>7. Onward(r, p)
    BY <2>1, <2>4, <2>5, <2>6, AnswerOnward DEF Asking
  <2> QED BY <2>1, <2>7
<1>6. CASE Revoke(r)
  <2> DEFINE a == Answer(q, "ok", ExpiredCookie(q))
  <2>1. Become(r, a) /\ q.pc = "revoke" /\ DeleteSession(q.sid)
    BY <1>6 DEF Revoke, At
  <2>2. SameLocals(q, a) /\ a.pc \in {"unlock", "reply"}
    BY <1>1, AnswerLocals
  <2>3. \A k \in KEY : keys'[k] \in {None, keys[k]}
    BY <2>1 DEF DeleteSession, DropRow
  <2>4. q.live /\ ~Answered(q)
    BY <1>1, <2>1 DEF Shape, Answered
  <2> HIDE DEF a
  <2>5. a.resp = q.resp
    BY <2>2 DEF SameLocals
  <2>6. Onward(r, a)
    BY <2>1, <2>2, <2>3, <2>4, <2>5, AnswerOnward DEF Asking
  <2> QED BY <2>1, <2>6
<1>7. CASE BeginPutSession(r)
  <2> DEFINE p == [q EXCEPT !.pc = "putkey"]
  <2>1. Become(r, p) /\ q.pc = "putsession" /\ keys' = keys
    BY <1>7 DEF BeginPutSession, At, Goto, PutSession
  <2>2. SameLocals(q, p) /\ p.pc = "putkey"
    BY <1>1, GotoLocals
  <2> HIDE DEF p
  <2>3. ~p.resp.revoke /\ p.pc \notin Arriving /\ p.pc \notin HasRow /\ q.pc \in Creating
        /\ ~Answered(q)
    BY <1>1, <2>1, <2>2
    DEF SameLocals, Shape, Mutating, Creating, Arriving, Resolving, HasRow, Answered
  <2>4. Onward(r, p)
    BY <2>1, <2>2, <2>3 DEF Onward, SameLocals, Asking
  <2> QED BY <2>1, <2>4
<1>8. CASE \/ BeginPutKey(r) /\ PutKeyResult(q.sid) # "ok"
           \/ ApplyGetSession(r) /\ sessions[q.sid] = None
           \/ Apply(r) /\ ApplyResult(q.sid, ResponseControls(q)) # "ok"
  <2>1. Become(r, ProcessError(q)) /\ q.pc \in {"putkey", "applyget", "apply"} /\ keys' = keys
    BY <1>8 DEF BeginPutKey, ApplyGetSession, Apply, At, rowVars, storeVars
  <2> QED BY <2>1, ProcessErrorOnward DEF ResponseCalls
<1>9. CASE ReleaseLock(r) \/ Deliver(r) \/ Disconnect(r)
  <2>1. /\ \E v \in {"reply", "done", "lost"} : Become(r, [q EXCEPT !.pc = v])
        /\ Answered(q) /\ keys' = keys
    BY <1>9 DEF ReleaseLock, Deliver, Disconnect, At, Goto, Answered, rowVars, storeVars
  <2> QED BY <2>1, SettledOnward
<1> QED BY <1>2, <1>3, <1>4, <1>5, <1>6, <1>7, <1>8, <1>9

\* The steps that read something new on the way to the backend.
LEMMA ReadingLife ==
    ASSUME ProxyInv, NEW r \in REQ, Life(r),
           \/ Send(r)
           \/ ResolveGetKey(r) /\ keys[req[r].presented] # None
           \/ ResolveGetSession(r) /\ Live(req[r].sid)
           \/ ResolveClock(r) \/ ResolveGetCookies(r)
    PROVE  Life(r)'
<1> DEFINE q == req[r]
<1>1. /\ q \in Request /\ Shape(q) /\ now \in Nat /\ now # 0 /\ q.t \in Nat /\ q.t <= now
      /\ None # "ok" /\ sessions \in [SID -> Session \union {None}]
  BY RequestFacts, ProxySentinels
  DEF Request, ProxyInv, BookTypeOK, StoreInv, StoreTypeOK, Life, Timely
<1>2. UNCHANGED storeVars
  BY DEF Send, ResolveGetKey, ResolveGetSession, ResolveClock, ResolveGetCookies
<1>3. keys' = keys /\ sessions' = sessions /\ now' = now
  BY <1>2 DEF storeVars
<1>4. ASSUME NEW p, Become(r, p) PROVE req'[r] = p
  BY <1>4 DEF Become, ProxyInv
<1>5. CASE Send(r)
  <2>1. PICK c \in CLIENT, need \in REQUIRED :
          Become(r, [IdleRequest EXCEPT
              !.pc = IF jar[c] = None THEN "authz" ELSE "getkey",
              !.client = c, !.presented = jar[c], !.key = jar[c], !.required = need,
              !.target = IF jar[c] = None THEN None ELSE keys[jar[c]]])
    BY <1>5 DEF Send
  <2> DEFINE p == [IdleRequest EXCEPT
              !.pc = IF jar[c] = None THEN "authz" ELSE "getkey",
              !.client = c, !.presented = jar[c], !.key = jar[c], !.required = need,
              !.target = IF jar[c] = None THEN None ELSE keys[jar[c]]]
  <2>2. /\ p.pc = (IF jar[c] = None THEN "authz" ELSE "getkey") /\ p.presented = jar[c]
        /\ p.key = jar[c] /\ p.live = FALSE /\ p.t = 0 /\ p.status = None /\ p.swapped = FALSE
    BY DEF IdleRequest
  <2>3. req'[r] = p
    BY <1>4, <2>1
  <2> HIDE DEF p
  <2>4. p.pc \notin HasRow \union Creating \union Resolving \union {"touch", "putsession", "expire"}
    BY <2>2 DEF HasRow, Creating, Resolving
  <2>5. Timely(r)'
    BY <1>1, <1>3, <2>2, <2>3, <2>4 DEF Timely
  <2>6. Ended(p) => p.presented = None
    BY <1>1, <2>2 DEF Ended
  <2>7. Killed(r)' /\ Handed(r)'
    BY <2>2, <2>3, <2>4, <2>6 DEF Killed, Ended, Handed
  <2> QED BY <2>5, <2>7 DEF Life
<1>6. CASE ResolveGetKey(r) /\ keys[q.presented] # None
  <2> DEFINE p == [q EXCEPT !.pc = "getsession", !.sid = keys[q.presented]]
  <2>1. req'[r] = p /\ q.pc = "getkey"
    BY <1>4, <1>6 DEF ResolveGetKey, At
  <2>2. /\ p.pc = "getsession" /\ p.presented = q.presented /\ p.key = q.key
        /\ p.sid = keys[q.presented] /\ p.t = q.t /\ p.status = q.status /\ p.swapped = q.swapped
    BY <1>1 DEF Request
  <2> HIDE DEF p
  <2>3. q.key = q.presented /\ q.status = None /\ ~Answered(q)
    BY <1>1, <2>1 DEF Shape, Answered
  <2>4. p.pc \notin HasRow \union Creating \union {"touch", "putsession", "expire", "authz", "upstream"}
    BY <2>2 DEF HasRow, Creating
  <2>5. Timely(r)'
    BY <1>1, <1>3, <2>1, <2>2, <2>4 DEF Timely
  <2>6. ~Ended(p)
    BY <1>1, <2>2, <2>3, <2>4 DEF Ended
  <2>7. Killed(r)'
    BY <1>3, <2>1, <2>2, <2>3, <2>6 DEF Killed, Ended
  <2>8. Handed(r)'
    BY <2>1, <2>2, <2>3 DEF Handed, Life
  <2> QED BY <2>5, <2>7, <2>8 DEF Life
<1>7. ASSUME NEW p, req'[r] = p, q.pc \in Resolving, p.pc \in Resolving \/ p.live,
             p.presented = q.presented, p.key = q.key, p.sid = q.sid, p.status = q.status,
             p.swapped = q.swapped, p.pc = "authz" => p.live
      PROVE  Killed(r)' /\ Handed(r)'
  <2>1. q.status = None /\ ~Answered(q) /\ Asking(q)
    BY <1>1, <1>7 DEF Shape, Resolving, Answered, Asking, Arriving
  <2>2. /\ q.key = q.presented
        /\ q.presented # None => keys[q.key] \in {None, q.sid}
    BY <1>7, <2>1 DEF Life, Killed
  <2>3. ~Ended(p)
    BY <1>1, <1>7, <2>1 DEF Ended, Resolving
  <2>4. Killed(r)'
    BY <1>3, <1>7, <2>2, <2>3 DEF Killed, Ended
  <2> QED BY <1>7, <2>1, <2>4 DEF Handed, Life
<1>8. CASE ResolveGetSession(r) /\ Live(q.sid)
  <2> DEFINE p == [q EXCEPT !.pc = "clock", !.row = sessions[q.sid]]
  <2>1. req'[r] = p /\ q.pc = "getsession"
    BY <1>4, <1>8 DEF ResolveGetSession, At, Live
  <2>2. /\ p.pc = "clock" /\ p.presented = q.presented /\ p.key = q.key /\ p.sid = q.sid
        /\ p.t = q.t /\ p.status = q.status /\ p.swapped = q.swapped /\ p.row = sessions[q.sid]
    BY <1>1 DEF Request
  <2> HIDE DEF p
  <2>3. p.row \in Session
    BY <1>1, <1>8, <2>1, <2>2 DEF Shape, Resolving, Live
  <2>4. Behind(p.row, p.row)
    BY <2>3 DEF Behind, Session
  <2>5. Timely(r)'
    BY <1>1, <1>3, <2>1, <2>2, <2>4 DEF Timely, Creating, Behind
  <2> QED BY <1>7, <2>1, <2>2, <2>5 DEF Life, Resolving
<1>9. CASE ResolveClock(r)
  <2> DEFINE p == [q EXCEPT !.pc = IF Expired(q.row, now) THEN "expire" ELSE "touch", !.t = now]
  <2>1. req'[r] = p /\ q.pc = "clock"
    BY <1>4, <1>9 DEF ResolveClock, At
  <2>2. /\ p.pc = (IF Expired(q.row, now) THEN "expire" ELSE "touch")
        /\ p.presented = q.presented /\ p.key = q.key /\ p.sid = q.sid
        /\ p.t = now /\ p.status = q.status /\ p.swapped = q.swapped /\ p.row = q.row
    BY <1>1 DEF Request
  <2> HIDE DEF p
  <2>3. Live(q.sid) => Behind(q.row, sessions[q.sid])
    BY <2>1 DEF Life, Timely, HasRow
  <2>4. p.pc \in {"expire", "touch"} /\ (p.pc = "expire" => Expired(q.row, now))
    BY <2>2
  <2>5. Timely(r)'
    <3>1. p.t <= now /\ p.t # 0
      BY <1>1, <2>2
    <3>2. p.pc \notin Creating
      BY <2>4 DEF Creating
    <3> QED BY <1>3, <2>1, <2>2, <2>3, <2>4, <3>1, <3>2 DEF Timely, Live, Behind, Expired
  <2> QED BY <1>7, <2>1, <2>2, <2>4, <2>5 DEF Life, Resolving
<1>10. CASE ResolveGetCookies(r)
  <2> DEFINE p == [q EXCEPT !.pc = "authz", !.live = TRUE, !.owner = q.row.owner,
                            !.labels = q.row.labels, !.row = None, !.t = 0]
  <2>1. req'[r] = p /\ q.pc = "getcookies"
    BY <1>4, <1>10 DEF ResolveGetCookies, At
  <2>2. /\ p.pc = "authz" /\ p.presented = q.presented /\ p.key = q.key /\ p.sid = q.sid
        /\ p.t = 0 /\ p.status = q.status /\ p.swapped = q.swapped /\ p.live = TRUE
    BY <1>1 DEF Request
  <2> HIDE DEF p
  <2>3. p.pc \notin HasRow \union Creating \union {"touch", "putsession", "expire"}
    BY <2>2 DEF HasRow, Creating
  <2>4. Timely(r)'
    BY <1>1, <1>3, <2>1, <2>2, <2>3 DEF Timely
  <2> QED BY <1>7, <2>1, <2>2, <2>4 DEF Life, Resolving
<1> QED BY <1>5, <1>6, <1>8, <1>9, <1>10

\* The steps that create a session or apply a response: none of them is a logout.
LEMMA MutatingLife ==
    ASSUME ProxyInv, NEW r \in REQ, Life(r),
           \/ BeginClock(r)
           \/ BeginPutKey(r) /\ PutKeyResult(req[r].sid) = "ok"
           \/ ApplyClock(r)
           \/ ApplyGetSession(r) /\ sessions[req[r].sid] # None
           \/ Apply(r) /\ ApplyResult(req[r].sid, ResponseControls(req[r])) = "ok"
    PROVE  Life(r)'
<1> DEFINE q == req[r]
<1>1. /\ q \in Request /\ Shape(q) /\ now \in Nat /\ now # 0 /\ q.t \in Nat /\ q.t <= now
      /\ sessions \in [SID -> Session \union {None}]
  BY RequestFacts DEF Request, ProxyInv, BookTypeOK, StoreInv, StoreTypeOK, Life, Timely
<1>2. now' = now
  BY DEF BeginClock, BeginPutKey, ApplyClock, ApplyGetSession, Apply, storeVars
<1>3. q.pc \in {"begin", "putkey", "applyclock", "applyget", "apply"}
  BY DEF BeginClock, BeginPutKey, ApplyClock, ApplyGetSession, Apply, At
<1>4. q.resp \in Response /\ ~q.resp.revoke /\ ~Answered(q)
  BY <1>1, <1>3 DEF Shape, Responding, Mutating, Creating, Applying, Answered
<1>5. ASSUME NEW p, Become(r, p) PROVE req'[r] = p
  BY <1>5 DEF Become, ProxyInv
<1>6. ASSUME NEW p, req'[r] = p, p.resp = q.resp, p.pc \notin Arriving PROVE Killed(r)'
  BY <1>4, <1>6 DEF Killed, Asking
<1>7. ASSUME NEW p, req'[r] = p, p.swapped = q.swapped PROVE Handed(r)'
  BY <1>4, <1>7 DEF Handed, Life
<1>8. CASE BeginClock(r)
  <2> DEFINE id == CHOOSE s \in SID \ mintedSid : TRUE
             k == CHOOSE x \in KEY \ mintedKey : TRUE
             p == [q EXCEPT !.pc = "putsession", !.t = now, !.sid = id, !.key = k]
  <2>1. req'[r] = p /\ KEY # mintedKey /\ keys' = keys
    BY <1>5, <1>8 DEF BeginClock, storeVars
  <2>2. k \in KEY \ mintedKey
    <3>1. \E x \in KEY : x \notin mintedKey
      BY <2>1 DEF ProxyInv, BookTypeOK
    <3> QED BY <3>1
  <2> HIDE DEF id, k
  <2>3. p.pc = "putsession" /\ p.t = now /\ p.key = k /\ p.resp = q.resp /\ p.swapped = q.swapped
    BY <1>1 DEF Request
  <2> HIDE DEF p
  <2>4. keys[k] = None
    BY <2>2 DEF ProxyInv, KeyInv, KnownIds
  <2>5. Timely(r)'
    BY <1>1, <1>2, <2>1, <2>3, <2>4 DEF Timely, HasRow
  <2> QED BY <1>6, <1>7, <2>1, <2>3, <2>5 DEF Life, Arriving, Resolving
<1>9. CASE BeginPutKey(r) /\ PutKeyResult(q.sid) = "ok"
  <2> DEFINE p == [q EXCEPT !.pc = "applyclock", !.live = TRUE, !.rewrite = TRUE,
                            !.owner = NoOwner, !.labels = {}]
  <2>1. req'[r] = p
    BY <1>5, <1>9 DEF BeginPutKey
  <2>2. p.pc = "applyclock" /\ p.t = q.t /\ p.resp = q.resp /\ p.swapped = q.swapped
    BY <1>1 DEF Request
  <2> HIDE DEF p
  <2>3. Timely(r)'
    BY <1>1, <1>2, <2>1, <2>2 DEF Timely, HasRow, Creating
  <2> QED BY <1>6, <1>7, <2>1, <2>2, <2>3 DEF Life, Arriving, Resolving
<1>10. CASE ApplyClock(r)
  <2> DEFINE p == [q EXCEPT !.pc = "applyget", !.t = now]
  <2>1. req'[r] = p
    BY <1>5, <1>10 DEF ApplyClock
  <2>2. p.pc = "applyget" /\ p.t = now /\ p.resp = q.resp /\ p.swapped = q.swapped
    BY <1>1 DEF Request
  <2> HIDE DEF p
  <2>3. Timely(r)'
    BY <1>1, <1>2, <2>1, <2>2 DEF Timely, HasRow, Creating
  <2> QED BY <1>6, <1>7, <2>1, <2>2, <2>3 DEF Life, Arriving, Resolving
<1>11. ASSUME NEW u \in Request, u.resp = q.resp, NEW c, c.newKey \in KEY, c.rotate \in BOOLEAN,
              req'[r] = AppliedAnswer(u, c)
       PROVE  Life(r)'
  <2> DEFINE a == Applied(u, c)
             p == Answer(a, "ok", ProxyCookie(a))
  <2>1. /\ a.t = 0 /\ a.resp = u.resp /\ a.swapped = c.rotate /\ a.key = c.newKey
        /\ a.rewrite = (u.rewrite \/ c.rotate)
    BY <1>11 DEF Applied, Request
  <2>2. c.rotate => ProxyCookie(a) = c.newKey
    BY <2>1 DEF ProxyCookie
  <2>3. /\ p.pc \in {"unlock", "reply"} /\ p.t = a.t /\ p.resp = a.resp /\ p.swapped = a.swapped
        /\ p.setCookie = ProxyCookie(a)
    BY <1>11 DEF Answer, Applied, Request
  <2>4. req'[r] = p
    BY <1>11 DEF AppliedAnswer
  <2> HIDE DEF a, p
  <2>5. Timely(r)'
    BY <1>1, <1>2, <2>1, <2>3, <2>4 DEF Timely, HasRow, Creating
  <2>6. Killed(r)'
    BY <1>6, <1>11, <2>1, <2>3, <2>4 DEF Arriving, Resolving
  <2>7. Handed(r)'
    BY <1>11, <2>1, <2>2, <2>3, <2>4 DEF Handed, Answered
  <2> QED BY <2>5, <2>6, <2>7 DEF Life
<1>12. CASE ApplyGetSession(r) /\ sessions[q.sid] # None
  <2> DEFINE u == [q EXCEPT !.row = sessions[q.sid]]
             c == ResponseControls(u)
             p == [u EXCEPT !.pc = "apply"]
  <2>1. /\ q.pc = "applyget" /\ sessions' = sessions
        /\ req'[r] = IF NoEffect(c) THEN AppliedAnswer(u, c) ELSE p
    BY <1>5, <1>12 DEF ApplyGetSession, At, storeVars, AppliedAnswer
  <2>2. q.sid \in SID /\ q.key \in KEY /\ sessions[q.sid] \in Session
    BY <1>1, <1>12, <2>1 DEF Shape, Applying
  <2>3. /\ u \in Request /\ u.resp = q.resp /\ u.sid = q.sid /\ u.key = q.key /\ u.t = q.t
        /\ u.row = sessions[q.sid] /\ u.swapped = q.swapped
    BY <1>1, <2>2 DEF Request
  <2>4. CASE NoEffect(c)
    <3>1. ~c.rotate /\ c.rotate \in BOOLEAN
      BY <2>4 DEF NoEffect, ResponseControls, Controls, Rotates
    <3>2. c.newKey = q.key
      BY <2>3, <3>1 DEF ResponseControls, Controls
    <3> HIDE DEF u, c
    <3> QED BY <1>11, <2>1, <2>2, <2>3, <2>4, <3>1, <3>2
  <2>5. CASE ~NoEffect(c)
    <3>1. req'[r] = p
      BY <2>1, <2>5
    <3> HIDE DEF u, c
    <3>2. /\ p.pc = "apply" /\ p.t = q.t /\ p.row = sessions[q.sid] /\ p.sid = q.sid
          /\ p.resp = q.resp /\ p.swapped = q.swapped
      BY <2>3 DEF Request
    <3> HIDE DEF p
    <3>3. Behind(p.row, p.row)
      BY <2>2, <3>2 DEF Behind, Session
    <3>4. Timely(r)'
      BY <1>1, <1>2, <2>1, <3>1, <3>2, <3>3 DEF Timely, Creating, Behind
    <3> QED BY <1>6, <1>7, <3>1, <3>2, <3>4 DEF Life, Arriving, Resolving
  <2> QED BY <2>4, <2>5
<1>13. CASE Apply(r) /\ ApplyResult(q.sid, ResponseControls(q)) = "ok"
  <2> DEFINE c == ResponseControls(q)
  <2>1. q.pc = "apply" /\ Commits(q, c) /\ req'[r] = AppliedAnswer(q, c)
    BY <1>5, <1>13 DEF Apply, At, AppliedAnswer
  <2>2. c.newKey \in KEY /\ c \in ControlsAt(q.key, Nat)
    BY <2>1, ApplyFacts DEF Commits
  <2> HIDE DEF c
  <2>3. c.rotate \in BOOLEAN
    BY <2>2 DEF ControlsAt
  <2> QED BY <1>1, <1>11, <2>1, <2>2, <2>3
<1> QED BY <1>8, <1>9, <1>10, <1>12, <1>13

-----------------------------------------------------------------------------
(* The invariant.                                                          *)

\* Nothing is known of a request that has not been sent.
LEMMA LifeInit == ProxyInv /\ Init => \A r \in REQ : Life(r)
<1> SUFFICES ASSUME Init, NEW r \in REQ PROVE Life(r)
  OBVIOUS
<1>1. req[r] = IdleRequest /\ now = 1
  BY DEF Init
<1>2. /\ IdleRequest.pc = "idle" /\ IdleRequest.t = 0 /\ IdleRequest.presented = None
      /\ IdleRequest.key = None /\ IdleRequest.swapped = FALSE
  BY DEF IdleRequest
<1>3. Timely(r)
  BY <1>1, <1>2 DEF Timely, HasRow, Creating
<1>4. Killed(r) /\ Handed(r)
  BY <1>1, <1>2 DEF Killed, Handed
<1> QED BY <1>3, <1>4 DEF Life

\* A step of a request keeps what it knows.
LEMMA OwnLife ==
    ASSUME ProxyInv, ProxyInv', NEW r \in REQ, Life(r), Send(r) \/ Serve(r),
           \A id \in SID : RowAdvances(id)
    PROVE  Life(r)'
<1>1. now' >= now /\ faults' >= faults
  <2>1. now' = now /\ faults' >= faults
    BY ClockStep
  <2> QED BY <2>1 DEF ProxyInv, StoreInv, StoreTypeOK
<1>2. ASSUME \E p : Become(r, p) /\ Onward(r, p) PROVE Life(r)'
  <2>1. PICK p : Become(r, p) /\ Onward(r, p)
    BY <1>2
  <2>2. req'[r] = p
    BY <2>1 DEF Become, ProxyInv
  <2> QED BY <1>1, <2>1, <2>2, OnwardLife
<1>3. CASE Send(r) \/ ResolveGetKey(r) \/ ResolveGetSession(r) \/ ResolveClock(r) \/ ResolveGetCookies(r)
  BY <1>2, <1>3, ReadingLife, ResolveOnward
<1>4. CASE ResolveExpire(r) \/ ResolveTouch(r) \/ Authorize(r)
  BY <1>2, <1>4, ResolveOnward
<1>5. CASE \/ UpstreamFails(r) \/ UpstreamResponds(r) \/ TakeLock(r) \/ Revoke(r)
           \/ BeginPutSession(r) \/ ReleaseLock(r) \/ Deliver(r) \/ Disconnect(r)
  BY <1>2, <1>5, ResponseOnward
<1>6. CASE BeginClock(r) \/ BeginPutKey(r) \/ ApplyClock(r) \/ ApplyGetSession(r) \/ Apply(r)
  BY <1>2, <1>6, ResponseOnward, MutatingLife
<1>7. CASE FailedCall(r) \/ LostReply(r)
  BY <1>2, <1>7, ErrorsOnward
<1> QED BY <1>3, <1>4, <1>5, <1>6, <1>7 DEF Serve

\* Sessions and locks run out without harm.
LEMMA TimeLife ==
    ASSUME ProxyInv, ProxyInv', \A r \in REQ : Life(r), \A id \in SID : RowAdvances(id),
           \/ \E id \in SID : SessionExpires(id) \/ LockExpires(id)
           \/ TimePasses \/ UNCHANGED vars
    PROVE  \A r \in REQ : Life(r)'
<1>1. req' = req /\ faults' = faults
  BY DEF SessionExpires, LockExpires, TimePasses, vars
<1>2. now \in Nat /\ faults \in Nat
  BY ProxyAssumption DEF ProxyInv, BookTypeOK, StoreInv, StoreTypeOK
<1>3. /\ \A k \in KEY : keys'[k] \in {None, keys[k]}
      /\ \A s \in SID : sessions'[s] # None => Live(s)
      /\ now' >= now
  <2>1. CASE \E id \in SID : SessionExpires(id)
    BY <1>2, <2>1 DEF SessionExpires, Elapse, Live
  <2>2. CASE TimePasses
    BY <1>2, <2>2 DEF TimePasses, Elapse, Live
  <2>3. CASE UNCHANGED vars \/ \E id \in SID : LockExpires(id)
    BY <1>2, <2>3 DEF vars, storeVars, LockExpires, rowVars, Live
  <2> QED BY <2>1, <2>2, <2>3
<1>4. \A r \in REQ : Calm(r)
  BY <1>3 DEF Calm
<1> QED BY <1>1, <1>2, <1>3, <1>4, Bystander

\* So the invariant is kept by every step.
LEMMA LifeStep ==
    ASSUME ProxyInv, ProxyInv', \A r \in REQ : Life(r), [Next]_vars
    PROVE  \A r \in REQ : Life(r)'
<1>1. \A id \in SID : RowAdvances(id)
  BY ContractStep, StoreAdvances DEF ProxyInv, Life
<1>2. ASSUME NEW r \in REQ, Send(r) \/ Serve(r), NEW x \in REQ PROVE Life(x)'
  <2>1. CASE x = r
    BY <1>1, <1>2, <2>1, OwnLife
  <2>2. CASE x # r
    <3>1. req'[x] = req[x] /\ Calm(x)
      BY <1>2, <2>2, OneAtATime, OthersCalm, StepEffects
    <3>2. now' >= now /\ faults' >= faults
      BY <1>2, ClockStep DEF ProxyInv, StoreInv, StoreTypeOK
    <3> QED BY <1>1, <3>1, <3>2, Bystander
  <2> QED BY <2>1, <2>2
<1> QED BY <1>1, <1>2, TimeLife DEF Next

\* What every request knows is true at all times.
LEMMA LifeInvariant == Spec => [](ProxyInv /\ \A r \in REQ : Life(r))
<1>1. /\ ProxyInv /\ ProxyInv' /\ (\A r \in REQ : Life(r)) /\ [Next]_vars
      => (\A r \in REQ : Life(r))'
  BY LifeStep
<1> QED BY <1>1, LifeInit, ProxyInvariant, PTL DEF Spec

\* Whatever the requests do, and whichever calls fail or lose their reply, they
\* use the store only as its contract allows: PutSession with an id not in use,
\* PutKey with a key not in use, stamps read from the clock before.
THEOREM ProxyUsesContract == Spec => [][StoreNext]_storeVars
<1>1. ProxyInv /\ (\A r \in REQ : Life(r)) /\ [Next]_vars => [StoreNext]_storeVars
  BY ContractStep DEF Life
<1> QED BY <1>1, LifeInvariant, PTL DEF Spec

\* While a session lives no late or reordered request moves its access or its
\* rotation time back or changes its deadlines.
THEOREM ProxyRowMonotone == Spec => RowMonotone
<1>1. /\ ProxyInv /\ (\A r \in REQ : Life(r)) /\ [Next]_vars
      => [\A id \in SID : RowAdvances(id)]_storeVars
  BY ContractStep, StoreAdvances DEF Life, ProxyInv
<1> QED BY <1>1, LifeInvariant, PTL DEF Spec, RowMonotone

\* A logout answered with success leaves the key the client presented dead, unless
\* the store failed to delete the session found expired behind it.
THEOREM ProxyLogoutKillsKey == Spec => []LogoutKillsKey
<1>1. ASSUME ProxyInv, \A r \in REQ : Life(r) PROVE LogoutKillsKey
  <2> SUFFICES ASSUME NEW r \in REQ, req[r].status = "ok", req[r].resp.revoke, req[r].presented # None
               PROVE  Dead(req[r])
    BY DEF LogoutKillsKey
  <2> DEFINE q == req[r]
  <2>1. q \in Request /\ Shape(q) /\ Asking(q) /\ Killed(r) /\ Finished(r)
    BY <1>1, RequestFacts DEF Asking, Life, ProxyInv, RequestInv
  <2>2. q.key = q.presented /\ q.presented \in KEY
    BY <2>1 DEF Killed, Request
  <2>3. CASE q.live
    <3>1. keys[q.key] \in {None, q.sid} /\ \A k \in KEY : keys[k] # q.sid
      BY <2>1, <2>3 DEF Killed, Finished
    <3> QED BY <2>2, <3>1 DEF Dead
  <2>4. CASE ~q.live
    <3>1. Ended(q)
      BY <2>1, <2>4 DEF Shape, Ended
    <3> QED BY <2>1, <3>1 DEF Killed
  <2> QED BY <2>3, <2>4
<1> QED BY <1>1, LifeInvariant, PTL

\* A request about to delete a session as expired is right, or the session has
\* been used since the request read it.
ExpiryHasReason ==
    \A r \in REQ :
        LET q == req[r] IN
        q.pc = "expire" /\ Live(q.sid) =>
            \/ Expired(sessions[q.sid], now)
            \/ sessions[q.sid].lastAccess > q.row.lastAccess

\* Only a use of the session between the read and the delete makes Resolve delete
\* one that has not expired; the clock and the other requests' mutations cannot.
THEOREM ProxyExpiryHasReason == Spec => []ExpiryHasReason
<1>1. ASSUME ProxyInv, \A r \in REQ : Life(r) PROVE ExpiryHasReason
  <2> SUFFICES ASSUME NEW r \in REQ, req[r].pc = "expire", Live(req[r].sid),
                      ~(sessions[req[r].sid].lastAccess > req[r].row.lastAccess)
               PROVE  Expired(sessions[req[r].sid], now)
    BY DEF ExpiryHasReason
  <2> DEFINE q == req[r]
             s == sessions[q.sid]
             a == q.row
  <2>1. q \in Request /\ q.sid \in SID /\ a \in Session /\ s \in Session
    BY <1>1, RequestFacts DEF Shape, Resolving, HasRow, ProxyInv, StoreInv, StoreTypeOK, Live
  <2>2. Expired(a, q.t) /\ Behind(a, s) /\ q.t <= now /\ q.t \in Nat /\ now \in Nat
    BY <1>1, <2>1 DEF Life, Timely, HasRow, Request, ProxyInv, StoreInv, StoreTypeOK
  <2>3. /\ a.lastAccess \in Nat /\ a.inactive \in Nat /\ a.creation \in Nat /\ a.final \in Nat
        /\ s.lastAccess \in Nat
    BY <2>1 DEF Session
  <2> HIDE DEF q, s, a
  <2>4. s.lastAccess = a.lastAccess /\ s.inactive = a.inactive /\ s.creation = a.creation
        /\ s.final = a.final
    BY <2>2, <2>3 DEF Behind, q, s, a
  <2>5. Expired(s, now)
    BY <2>2, <2>3, <2>4 DEF Expired
  <2> QED BY <2>5 DEF q, s
<1> QED BY <1>1, LifeInvariant, PTL

\* A request that swapped the key hands the new one to its client in the same
\* response, as long as no reply of the store is lost.
THEOREM ProxyKeyHandedOver ==
    ASSUME ~EffectLost
    PROVE  Spec => []KeyHandedOver
<1>1. (\A r \in REQ : Life(r)) => KeyHandedOver
  BY DEF Life, Handed, KeyHandedOver
<1> QED BY <1>1, LifeInvariant, PTL
=============================================================================
