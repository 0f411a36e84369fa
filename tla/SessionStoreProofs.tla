------------------------- MODULE SessionStoreProofs -------------------------
(***************************************************************************)
(* The store contract, proved for any number of sessions, keys, cookies,   *)
(* owners and callers: its type invariant, NothingDangles, OwnerIndexExact *)
(* and RowMonotone.  The three invariants are inductive together (RowInv): *)
(* a delete finds every owner entry of the session only because the index  *)
(* is exact, and a new row starts clean only because nothing dangles.      *)
(***************************************************************************)
EXTENDS SessionStore, TLAPS

\* Every leaf is tried with Zenon first, then with the SMT solver, then again.
USE ZenonT(4), SMTT(20), Z3T(20), ZenonT(20)

RowTypeOK ==
    /\ sessions \in [SID -> Session \union {None}]
    /\ keys \in [KEY -> SID \union {None}]
    /\ cookies \in [SID -> [NAME -> VAL \union {None}]]
    /\ owners \in [OWNER -> SUBSET SID]

RowInv == RowTypeOK /\ NothingDangles /\ OwnerIndexExact

-----------------------------------------------------------------------------
(* What the helpers return.                                                *)

\* Later is the maximum of two time stamps.
LEMMA LaterIsMax ==
    ASSUME NEW a \in Nat, NEW b \in Nat
    PROVE  Later(a, b) \in Nat /\ Later(a, b) >= a /\ Later(a, b) >= b
BY DEF Later

\* A row as Begin writes it is a session bound to no owner.
LEMMA NewRowIsSession ==
    ASSUME NEW t \in Nat, NEW i \in INACTIVE, NEW f \in FINAL, NEW rotation \in Nat
    PROVE  NewRow(t, i, f, rotation) \in Session /\ NewRow(t, i, f, rotation).owner = NoOwner
BY TimeoutAssumption DEF NewRow, Session, NoOwner

\* The cookies of a session after a response are cookies again.
LEMMA MergedCookiesType ==
    ASSUME NEW old \in [NAME -> VAL \union {None}],
           NEW mutations \in [NAME -> VAL \union {None, Keep}]
    PROVE  MergeCookies(old, mutations) \in [NAME -> VAL \union {None}]
BY DEF MergeCookies

\* The rotation-only control record is a control record.
LEMMA RotateControlsType ==
    ASSUME NEW old \in KEY, NEW new \in KEY, NEW t \in Nat \ {0}
    PROVE  RotateControls(old, new, t) \in ControlsAt(old, Nat)
BY DEF RotateControls, NoControls, ControlsAt, NoOwner

\* A live row is a session, an absent one is None.
LEMMA LiveRow ==
    ASSUME RowTypeOK, NEW id \in SID
    PROVE  Live(id) <=> sessions[id] \in Session
BY SentinelAssumption DEF RowTypeOK, Live

-----------------------------------------------------------------------------
(* Each method of the store preserves RowInv.                              *)

LEMMA PutSessionInv ==
    ASSUME RowInv, NEW id \in SID, sessions[id] = None,
           NEW row \in Session, row.owner = NoOwner, PutSession(id, row)
    PROVE  RowInv'
<1>1. RowTypeOK'
  BY DEF RowInv, RowTypeOK, PutSession
<1>2. NothingDangles'
  BY SentinelAssumption DEF RowInv, RowTypeOK, NothingDangles, Live, PutSession
<1>3. OwnerIndexExact'
  BY SentinelAssumption, OwnerAssumption
  DEF RowInv, RowTypeOK, OwnerIndexExact, Live, PutSession, NoOwner
<1> QED BY <1>1, <1>2, <1>3 DEF RowInv

\* A step that only moves the time stamps of a live row.
LEMMA TouchSessionInv ==
    ASSUME RowInv, NEW id \in SID, NEW k \in KEY, NEW a \in Nat, NEW t \in Nat,
           TouchSession(id, k, a, t)
    PROVE  RowInv'
<1>1. sessions[id] \in Session
  BY LiveRow DEF TouchSession, TouchResult, KeyCheck, Live, RowInv
<1>2. /\ sessions'[id] \in Session
      /\ sessions'[id].owner = sessions[id].owner
      /\ \A x \in SID : x # id => sessions'[x] = sessions[x]
      /\ sessions' \in [SID -> Session \union {None}]
  BY <1>1, LaterIsMax DEF TouchSession, Session, RowInv, RowTypeOK
<1>3. UNCHANGED <<keys, cookies, owners>>
  BY DEF TouchSession
<1>4. \A x \in SID : Live(x)' <=> Live(x)
  BY <1>1, <1>2, SentinelAssumption DEF Live
<1>5. RowTypeOK'
  BY <1>2, <1>3 DEF RowInv, RowTypeOK
<1>6. NothingDangles'
  BY <1>3, <1>4 DEF RowInv, RowTypeOK, NothingDangles
<1>7. OwnerIndexExact'
  BY <1>2, <1>3, <1>4 DEF RowInv, RowTypeOK, OwnerIndexExact
<1> QED BY <1>5, <1>6, <1>7 DEF RowInv

\* Moving a live session to another owner moves its one index entry.
LEMMA MoveOwnerExact ==
    ASSUME RowInv, NEW id \in SID, Live(id), NEW to \in OWNER, MoveOwner(id, to)
    PROVE  /\ owners' \in [OWNER -> SUBSET SID]
           /\ \A o \in OWNER : id \in owners'[o] <=> o = to
           /\ \A o \in OWNER, x \in SID : x # id => (x \in owners'[o] <=> x \in owners[o])
<1>1. owners' \in [OWNER -> SUBSET SID]
  BY DEF MoveOwner, RowInv, RowTypeOK
<1>2. \A o \in OWNER : id \in owners'[o] <=> o = to
  BY DEF MoveOwner, RowInv, RowTypeOK, OwnerIndexExact
<1>3. \A o \in OWNER, x \in SID : x # id => (x \in owners'[o] <=> x \in owners[o])
  BY DEF MoveOwner, RowInv, RowTypeOK
<1> QED BY <1>1, <1>2, <1>3

LEMMA ApplySessionControlsInv ==
    ASSUME RowInv, NEW id \in SID, NEW k \in KEY, NEW c \in ControlsAt(k, Nat),
           ApplySessionControls(id, c)
    PROVE  RowInv'
<1> DEFINE moved == c.setOwner /\ c.owner # sessions[id].owner
<1>1. c.oldKey \in KEY /\ c.newKey \in KEY /\ c.setOwner \in BOOLEAN
      /\ c.owner \in OWNER \union {NoOwner} /\ (c.setOwner => c.owner \in OWNER)
      /\ c.labels \in SUBSET LABEL /\ c.lastAccess \in Nat /\ c.lastRotation \in Nat
      /\ c.cookies \in [NAME -> VAL \union {None, Keep}]
  BY DEF ControlsAt
<1>2. ApplyResult(id, c) = "ok"
  BY DEF ApplySessionControls
<1>3. KeyCheck(id, c.oldKey) = "ok"
  BY <1>2 DEF ApplyResult
<1>4. Live(id)
  BY <1>3 DEF KeyCheck, Live
<1>5. sessions[id] \in Session
  BY <1>4, LiveRow DEF RowInv
<1>6. /\ sessions'[id] \in Session
      /\ sessions'[id].owner = IF moved THEN c.owner ELSE sessions[id].owner
      /\ \A x \in SID : x # id => sessions'[x] = sessions[x]
      /\ sessions' \in [SID -> Session \union {None}]
  <2>1. /\ Later(c.lastAccess, sessions[id].lastAccess) \in Nat
        /\ Later(c.lastRotation, sessions[id].lastRotation) \in Nat
    BY <1>1, <1>5, LaterIsMax DEF Session
  <2> QED BY <1>1, <1>5, <2>1 DEF ApplySessionControls, Session, RowInv, RowTypeOK
<1>7. \A x \in SID : Live(x)' <=> Live(x)
  BY <1>4, <1>6, SentinelAssumption DEF Live
<1>8. keys' \in [KEY -> SID \union {None}]
      /\ \A j \in KEY : keys'[j] \in {keys[j], id, None}
  BY <1>1 DEF ApplySessionControls, SwapKeys, RowInv, RowTypeOK
<1>9. /\ cookies' \in [SID -> [NAME -> VAL \union {None}]]
      /\ \A x \in SID : x # id => cookies'[x] = cookies[x]
  BY <1>1, MergedCookiesType DEF ApplySessionControls, RowInv, RowTypeOK
<1>10. /\ owners' \in [OWNER -> SUBSET SID]
       /\ \A o \in OWNER : id \in owners'[o] <=> o = sessions'[id].owner
       /\ \A o \in OWNER, x \in SID : x # id => (x \in owners'[o] <=> x \in owners[o])
  <2>1. CASE moved
    <3>1. MoveOwner(id, c.owner)
      BY <2>1 DEF ApplySessionControls
    <3> QED BY <1>1, <1>4, <1>6, <2>1, <3>1, MoveOwnerExact
  <2>2. CASE ~moved
    <3>1. owners' = owners
      BY <2>2 DEF ApplySessionControls
    <3> QED BY <1>4, <1>6, <2>2, <3>1 DEF RowInv, RowTypeOK, OwnerIndexExact
  <2> QED BY <2>1, <2>2
<1>11. RowTypeOK'
  BY <1>6, <1>8, <1>9, <1>10 DEF RowTypeOK
<1>12. NothingDangles'
  BY <1>4, <1>7, <1>8, <1>9 DEF RowInv, RowTypeOK, NothingDangles
<1>13. OwnerIndexExact'
  BY <1>4, <1>6, <1>7, <1>10 DEF RowInv, RowTypeOK, OwnerIndexExact
<1> QED BY <1>11, <1>12, <1>13 DEF RowInv

LEMMA DeleteSessionInv ==
    ASSUME RowInv, NEW id \in SID, DeleteSession(id)
    PROVE  RowInv'
<1>1. RowTypeOK'
  BY DEF DeleteSession, DropRow, NoCookies, RowInv, RowTypeOK
<1>2. NothingDangles'
  BY SentinelAssumption DEF DeleteSession, DropRow, NoCookies, RowInv, RowTypeOK, NothingDangles, Live
<1>3. OwnerIndexExact'
  BY DEF DeleteSession, DropRow, RowInv, RowTypeOK, OwnerIndexExact, Live
<1> QED BY <1>1, <1>2, <1>3 DEF RowInv

LEMMA DeleteSessionByOwnerInv ==
    ASSUME RowInv, NEW id \in SID, NEW o \in OWNER, DeleteSessionByOwner(o, id)
    PROVE  RowInv'
<1>1. CASE DeletesByOwner(o, id)
  <2>1. DeleteSession(id)
    BY <1>1 DEF DeleteSession, DeleteSessionByOwner, DeletesByOwner, RowInv, RowTypeOK
  <2> QED BY <2>1, DeleteSessionInv
<1>2. CASE ~DeletesByOwner(o, id)
  <2>1. id \notin owners[o]
    BY <1>2 DEF DeletesByOwner, RowInv, OwnerIndexExact, Live
  <2>2. UNCHANGED rowVars
    BY <1>2, <2>1 DEF DeleteSessionByOwner, rowVars, RowInv, RowTypeOK
  <2> QED BY <2>2 DEF rowVars, RowInv, RowTypeOK, NothingDangles, OwnerIndexExact, Live
<1> QED BY <1>1, <1>2

\* PutKey, ReplaceKey and DeleteKey: a key comes to map to a live session, or goes.
LEMMA KeyCallsInv ==
    ASSUME RowInv, NEW id \in SID, NEW j \in KEY, NEW k \in KEY,
           PutKey(k, id) \/ ReplaceKey(j, k, id) \/ DeleteKey(k)
    PROVE  RowInv'
<1>1. UNCHANGED <<sessions, cookies, owners>>
  BY DEF PutKey, ReplaceKey, DeleteKey
<1>2. /\ keys' \in [KEY -> SID \union {None}]
      /\ \A x \in KEY : keys'[x] # None => keys'[x] = keys[x] \/ (keys'[x] = id /\ Live(id))
  <2>1. CASE PutKey(k, id)
    BY <2>1 DEF PutKey, PutKeyResult, RowInv, RowTypeOK, Live
  <2>2. CASE ReplaceKey(j, k, id)
    <3>1. Live(id)
      BY <2>2 DEF ReplaceKey, ReplaceKeyResult, KeyCheck, Live
    <3> QED BY <2>2, <3>1 DEF ReplaceKey, RowInv, RowTypeOK
  <2>3. CASE DeleteKey(k)
    BY <2>3 DEF DeleteKey, RowInv, RowTypeOK
  <2> QED BY <2>1, <2>2, <2>3
<1>3. RowTypeOK' /\ NothingDangles' /\ OwnerIndexExact'
  BY <1>1, <1>2 DEF RowInv, RowTypeOK, NothingDangles, OwnerIndexExact, Live
<1> QED BY <1>3 DEF RowInv

\* PutCookie and DeleteCookie: only a live session gains a cookie.
LEMMA CookieCallsInv ==
    ASSUME RowInv, NEW id \in SID, NEW n \in NAME,
           (\E v \in VAL : PutCookie(id, n, v)) \/ DeleteCookie(id, n)
    PROVE  RowInv'
<1>1. UNCHANGED <<sessions, keys, owners>>
  BY DEF PutCookie, DeleteCookie
<1>2. /\ cookies' \in [SID -> [NAME -> VAL \union {None}]]
      /\ \A x \in SID : ~Live(x) /\ cookies[x] = NoCookies => cookies'[x] = NoCookies
  <2>1. CASE \E v \in VAL : PutCookie(id, n, v)
    BY <2>1 DEF PutCookie, PutKeyResult, RowInv, RowTypeOK, Live
  <2>2. CASE DeleteCookie(id, n)
    BY <2>2 DEF DeleteCookie, NoCookies, RowInv, RowTypeOK
  <2> QED BY <2>1, <2>2
<1>3. RowTypeOK' /\ NothingDangles' /\ OwnerIndexExact'
  BY <1>1, <1>2 DEF RowInv, RowTypeOK, NothingDangles, OwnerIndexExact, Live, NoCookies
<1> QED BY <1>3 DEF RowInv

LEMMA ReassignOwnerInv ==
    ASSUME RowInv, NEW id \in SID, NEW o \in OWNER, NEW a \in Nat, NEW t \in Nat,
           ReassignOwner(id, o, a, t)
    PROVE  RowInv'
<1>1. Live(id) /\ sessions[id] \in Session
  BY LiveRow DEF ReassignOwner, PutKeyResult, Live, RowInv
<1>2. /\ sessions'[id] \in Session
      /\ sessions'[id].owner = o
      /\ \A x \in SID : x # id => sessions'[x] = sessions[x]
      /\ sessions' \in [SID -> Session \union {None}]
  <2>1. /\ Later(a, sessions[id].lastAccess) \in Nat
        /\ Later(t, sessions[id].lastRotation) \in Nat
    BY <1>1, LaterIsMax DEF Session
  <2> QED BY <1>1, <2>1 DEF ReassignOwner, Session, RowInv, RowTypeOK
<1>3. UNCHANGED <<keys, cookies>> /\ MoveOwner(id, o)
  BY DEF ReassignOwner
<1>4. \A x \in SID : Live(x)' <=> Live(x)
  BY <1>1, <1>2, SentinelAssumption DEF Live
<1>5. /\ owners' \in [OWNER -> SUBSET SID]
      /\ \A p \in OWNER : id \in owners'[p] <=> p = o
      /\ \A p \in OWNER, x \in SID : x # id => (x \in owners'[p] <=> x \in owners[p])
  BY <1>1, <1>3, MoveOwnerExact
<1>6. RowTypeOK'
  BY <1>2, <1>3, <1>5 DEF RowInv, RowTypeOK
<1>7. NothingDangles'
  BY <1>3, <1>4 DEF RowInv, RowTypeOK, NothingDangles
<1>8. OwnerIndexExact'
  BY <1>1, <1>2, <1>4, <1>5 DEF RowInv, RowTypeOK, OwnerIndexExact
<1> QED BY <1>6, <1>7, <1>8 DEF RowInv

\* Sessions whose time has run out take their keys, cookies and entries along.
LEMMA ElapseInv ==
    ASSUME RowInv, NEW t, NEW gone \in SUBSET SID, Elapse(t, gone)
    PROVE  RowInv'
<1>1. RowTypeOK'
  BY DEF Elapse, NoCookies, RowInv, RowTypeOK
<1>2. NothingDangles'
  BY SentinelAssumption DEF Elapse, NoCookies, RowInv, RowTypeOK, NothingDangles, Live
<1>3. OwnerIndexExact'
  BY DEF Elapse, RowInv, RowTypeOK, OwnerIndexExact, Live
<1> QED BY <1>1, <1>2, <1>3 DEF RowInv

\* Every call on a session preserves RowInv.
LEMMA RowCallInv ==
    ASSUME StoreTypeOK, RowInv, NEW id \in SID, RowCall(id)
    PROVE  RowInv'
<1>1. \A t \in Stamps : t \in Nat \ {0}
  BY DEF Stamps, StoreTypeOK
<1>2. \A k \in KEY, t \in Nat : ControlsAt(k, {0, t}) \subseteq ControlsAt(k, Nat)
  BY DEF ControlsAt
<1>3. CASE /\ sessions[id] = None
           /\ \E i \in INACTIVE, f \in FINAL, t \in Stamps :
                  \E rotation \in {0, t} : PutSession(id, NewRow(t, i, f, rotation))
  <2>1. PICK i \in INACTIVE, f \in FINAL, t \in Stamps :
               \E rotation \in {0, t} : PutSession(id, NewRow(t, i, f, rotation))
    BY <1>3
  <2>2. PICK rotation \in {0, t} : PutSession(id, NewRow(t, i, f, rotation))
    BY <2>1
  <2> QED BY <1>1, <1>3, <2>2, NewRowIsSession, PutSessionInv
<1>4. CASE \E k \in KEY, t \in Stamps : \E legacy \in {0, t} : TouchSession(id, k, t, legacy)
  BY <1>1, <1>4, TouchSessionInv
<1>5. CASE \E k \in KEY, t \in Stamps :
             /\ KeyCheck(id, k) = "ok"
             /\ \E c \in ControlsAt(k, {0, t}) : ApplySessionControls(id, c)
  BY <1>1, <1>2, <1>5, ApplySessionControlsInv
<1>6. CASE \E old, new \in KEY, t \in Stamps : RotateSessionKey(id, old, new, t)
  BY <1>1, <1>6, RotateControlsType, ApplySessionControlsInv DEF RotateSessionKey
<1>7. CASE DeleteSession(id)
  BY <1>7, DeleteSessionInv
<1>8. CASE \E k \in KEY : keys[k] = None /\ PutKey(k, id)
  BY <1>8, KeyCallsInv
<1>9. CASE \E old, new \in KEY : ReplaceKey(old, new, id)
  BY <1>9, KeyCallsInv
<1>10. CASE \E k \in KEY : DeleteKey(k)
  BY <1>10, KeyCallsInv
<1>11. CASE \E n \in NAME, v \in VAL : PutCookie(id, n, v)
  BY <1>11, CookieCallsInv
<1>12. CASE \E n \in NAME : DeleteCookie(id, n)
  BY <1>12, CookieCallsInv
<1>13. CASE \E o \in OWNER, t \in Stamps : ReassignOwner(id, o, t, t)
  BY <1>1, <1>13, ReassignOwnerInv
<1>14. CASE \E o \in OWNER : DeleteSessionByOwner(o, id)
  BY <1>14, DeleteSessionByOwnerInv
<1> QED BY <1>3, <1>4, <1>5, <1>6, <1>7, <1>8, <1>9, <1>10, <1>11, <1>12, <1>13, <1>14
        DEF RowCall

-----------------------------------------------------------------------------
(* The theorems.                                                           *)

StoreInv == StoreTypeOK /\ RowInv

LEMMA StoreInitInv == StoreInit => StoreInv
<1> SUFFICES ASSUME StoreInit PROVE StoreInv
  OBVIOUS
<1>1. StoreTypeOK /\ RowTypeOK
  BY DEF StoreInit, StoreTypeOK, RowTypeOK, NoCookies
<1>2. NothingDangles /\ OwnerIndexExact
  BY DEF StoreInit, NothingDangles, OwnerIndexExact, Live
<1> QED BY <1>1, <1>2 DEF StoreInv, RowInv

LEMMA StoreNextInv == StoreInv /\ [StoreNext]_storeVars => StoreInv'
<1> SUFFICES ASSUME StoreInv, [StoreNext]_storeVars PROVE StoreInv'
  OBVIOUS
<1>1. CASE \E id \in SID : RowCall(id) /\ UNCHANGED <<locks, now>>
  <2>1. RowInv'
    BY <1>1, RowCallInv DEF StoreInv
  <2>2. StoreTypeOK'
    BY <1>1, <2>1 DEF StoreInv, StoreTypeOK, RowInv, RowTypeOK
  <2> QED BY <2>1, <2>2 DEF StoreInv
<1>2. CASE \E id \in SID : LockCall(id) /\ UNCHANGED <<rowVars, now>>
  <2>1. locks' \in [SID -> HOLDER \union {None}]
    BY <1>2 DEF LockCall, Lock, Unlock, LockLapse, StoreInv, StoreTypeOK
  <2> QED BY <1>2, <2>1 DEF rowVars, StoreInv, StoreTypeOK, RowInv, RowTypeOK,
                             NothingDangles, OwnerIndexExact, Live
<1>3. CASE \E t \in {now, now + 1}, gone \in SUBSET SID : Elapse(t, gone) /\ UNCHANGED locks
  <2>1. PICK t \in {now, now + 1}, gone \in SUBSET SID : Elapse(t, gone) /\ UNCHANGED locks
    BY <1>3
  <2>2. RowInv'
    BY <2>1, ElapseInv DEF StoreInv
  <2>3. now' \in Nat
    BY <2>1 DEF Elapse, StoreInv, StoreTypeOK
  <2> QED BY <2>1, <2>2, <2>3 DEF StoreInv, StoreTypeOK, RowInv, RowTypeOK
<1>4. CASE UNCHANGED storeVars
  BY <1>4 DEF storeVars, StoreInv, StoreTypeOK, RowInv, RowTypeOK,
              NothingDangles, OwnerIndexExact, Live
<1> QED BY <1>1, <1>2, <1>3, <1>4 DEF StoreNext

LEMMA StoreInvariant == StoreSpec => []StoreInv
BY StoreInitInv, StoreNextInv, PTL DEF StoreSpec

\* Type correctness of the store under every sequence of calls.
THEOREM StoreTypeCorrect == StoreSpec => []StoreTypeOK
BY StoreInvariant, PTL DEF StoreInv

\* Nothing of a deleted session is left behind or put back by a late call.
THEOREM StoreNothingDangles == StoreSpec => []NothingDangles
BY StoreInvariant, PTL DEF StoreInv, RowInv

\* The owner index lists exactly the live sessions bound to each owner.
THEOREM StoreOwnerIndexExact == StoreSpec => []OwnerIndexExact
BY StoreInvariant, PTL DEF StoreInv, RowInv

-----------------------------------------------------------------------------
(* Rows only advance.                                                      *)

\* A step that leaves a row alone, or removes it, lets it advance.
LEMMA UntouchedAdvances ==
    ASSUME RowTypeOK, NEW x \in SID, sessions'[x] = sessions[x] \/ sessions'[x] = None
    PROVE  RowAdvances(x)
<1>1. CASE sessions'[x] = None
  BY <1>1 DEF RowAdvances, Live
<1>2. CASE sessions'[x] = sessions[x] /\ ~Live(x)
  BY <1>2 DEF RowAdvances
<1>3. CASE sessions'[x] = sessions[x] /\ Live(x)
  <2>1. sessions[x].lastAccess \in Nat /\ sessions[x].lastRotation \in Nat
    BY <1>3, LiveRow DEF Session
  <2> QED BY <1>3, <2>1 DEF RowAdvances
<1> QED BY <1>1, <1>2, <1>3

\* A touch moves the access time forward and only sets a missing rotation time.
LEMMA TouchAdvances ==
    ASSUME RowInv, NEW id \in SID, NEW k \in KEY, NEW a \in Nat, NEW t \in Nat,
           TouchSession(id, k, a, t)
    PROVE  \A x \in SID : RowAdvances(x)
<1>1. \A x \in SID : x # id => RowAdvances(x)
  BY UntouchedAdvances DEF TouchSession, RowInv, RowTypeOK
<1>2. ASSUME Live(id) PROVE RowAdvances(id)
  <2>1. sessions[id] \in Session
    BY <1>2, LiveRow DEF RowInv
  <2>2. sessions[id].lastAccess \in Nat /\ sessions[id].lastRotation \in Nat
    BY <2>1 DEF Session
  <2> QED BY <2>1, <2>2, LaterIsMax DEF TouchSession, RowAdvances, Session, RowInv, RowTypeOK
<1> QED BY <1>1, <1>2 DEF RowAdvances

\* A response moves both time stamps forward.
LEMMA ApplyAdvances ==
    ASSUME RowInv, NEW id \in SID, NEW k \in KEY, NEW c \in ControlsAt(k, Nat),
           ApplySessionControls(id, c)
    PROVE  \A x \in SID : RowAdvances(x)
<1>1. \A x \in SID : x # id => RowAdvances(x)
  BY UntouchedAdvances DEF ApplySessionControls, RowInv, RowTypeOK
<1>2. ASSUME Live(id) PROVE RowAdvances(id)
  <2>1. sessions[id] \in Session /\ c.lastAccess \in Nat /\ c.lastRotation \in Nat
    BY <1>2, LiveRow DEF RowInv, ControlsAt
  <2>2. sessions[id].lastAccess \in Nat /\ sessions[id].lastRotation \in Nat
    BY <2>1 DEF Session
  <2> QED BY <2>1, <2>2, LaterIsMax DEF ApplySessionControls, RowAdvances, Session, RowInv, RowTypeOK
<1> QED BY <1>1, <1>2 DEF RowAdvances

\* So does a change of owner.
LEMMA ReassignAdvances ==
    ASSUME RowInv, NEW id \in SID, NEW o \in OWNER, NEW a \in Nat, NEW t \in Nat,
           ReassignOwner(id, o, a, t)
    PROVE  \A x \in SID : RowAdvances(x)
<1>1. \A x \in SID : x # id => RowAdvances(x)
  BY UntouchedAdvances DEF ReassignOwner, RowInv, RowTypeOK
<1>2. ASSUME Live(id) PROVE RowAdvances(id)
  <2>1. sessions[id] \in Session
    BY <1>2, LiveRow DEF RowInv
  <2>2. sessions[id].lastAccess \in Nat /\ sessions[id].lastRotation \in Nat
    BY <2>1 DEF Session
  <2> QED BY <2>1, <2>2, LaterIsMax DEF ReassignOwner, RowAdvances, Session, RowInv, RowTypeOK
<1> QED BY <1>1, <1>2 DEF RowAdvances

\* So no call on a session sets a row back.
LEMMA RowCallAdvances ==
    ASSUME StoreTypeOK, RowInv, NEW id \in SID, RowCall(id)
    PROVE  \A x \in SID : RowAdvances(x)
<1>1. \A t \in Stamps : t \in Nat \ {0}
  BY DEF Stamps, StoreTypeOK
<1>2. \A k \in KEY, t \in Nat : ControlsAt(k, {0, t}) \subseteq ControlsAt(k, Nat)
  BY DEF ControlsAt
<1>3. CASE /\ sessions[id] = None
           /\ \E i \in INACTIVE, f \in FINAL, t \in Stamps :
                  \E rotation \in {0, t} : PutSession(id, NewRow(t, i, f, rotation))
  <2>1. RowAdvances(id)
    BY <1>3 DEF RowAdvances, Live
  <2>2. \A x \in SID : x # id => sessions'[x] = sessions[x]
    BY <1>3 DEF PutSession, RowInv, RowTypeOK
  <2> QED BY <2>1, <2>2, UntouchedAdvances DEF RowInv
<1>4. CASE \E k \in KEY, t \in Stamps : \E legacy \in {0, t} : TouchSession(id, k, t, legacy)
  BY <1>1, <1>4, TouchAdvances
<1>5. CASE \E k \in KEY, t \in Stamps :
             /\ KeyCheck(id, k) = "ok"
             /\ \E c \in ControlsAt(k, {0, t}) : ApplySessionControls(id, c)
  BY <1>1, <1>2, <1>5, ApplyAdvances
<1>6. CASE \E old, new \in KEY, t \in Stamps : RotateSessionKey(id, old, new, t)
  BY <1>1, <1>6, RotateControlsType, ApplyAdvances DEF RotateSessionKey
<1>7. CASE \E o \in OWNER, t \in Stamps : ReassignOwner(id, o, t, t)
  BY <1>1, <1>7, ReassignAdvances
<1>8. CASE DeleteSession(id) \/ \E o \in OWNER : DeleteSessionByOwner(o, id)
  <2>1. \A x \in SID : sessions'[x] = sessions[x] \/ sessions'[x] = None
    BY <1>8 DEF DeleteSession, DeleteSessionByOwner, DropRow, RowInv, RowTypeOK
  <2> QED BY <2>1, UntouchedAdvances DEF RowInv
<1>9. CASE \/ \E k \in KEY : keys[k] = None /\ PutKey(k, id)
           \/ \E old, new \in KEY : ReplaceKey(old, new, id)
           \/ \E k \in KEY : DeleteKey(k)
           \/ \E n \in NAME, v \in VAL : PutCookie(id, n, v)
           \/ \E n \in NAME : DeleteCookie(id, n)
  <2>1. UNCHANGED sessions
    BY <1>9 DEF PutKey, ReplaceKey, DeleteKey, PutCookie, DeleteCookie
  <2> QED BY <2>1, UntouchedAdvances DEF RowInv
<1> QED BY <1>3, <1>4, <1>5, <1>6, <1>7, <1>8, <1>9 DEF RowCall

\* Nor does a lock, or the passing of time, set a row back.
LEMMA StoreAdvances ==
    ASSUME StoreInv, [StoreNext]_storeVars
    PROVE  \A id \in SID : RowAdvances(id)
<1>1. CASE \E id \in SID : RowCall(id) /\ UNCHANGED <<locks, now>>
  BY <1>1, RowCallAdvances DEF StoreInv
<1>2. CASE \E id \in SID : LockCall(id) /\ UNCHANGED <<rowVars, now>>
  BY <1>2, UntouchedAdvances DEF rowVars, StoreInv, RowInv
<1>3. CASE \E t \in {now, now + 1}, gone \in SUBSET SID : Elapse(t, gone) /\ UNCHANGED locks
  BY <1>3, UntouchedAdvances DEF Elapse, StoreInv, RowInv
<1>4. CASE UNCHANGED storeVars
  BY <1>4, UntouchedAdvances DEF storeVars, StoreInv, RowInv
<1> QED BY <1>1, <1>2, <1>3, <1>4 DEF StoreNext

\* No sequence of calls, however late or reordered, moves the access or the
\* rotation time of a living session back or changes its deadlines.
THEOREM StoreRowMonotone == StoreSpec => RowMonotone
<1>1. StoreInv /\ [StoreNext]_storeVars => [\A id \in SID : RowAdvances(id)]_storeVars
  BY StoreAdvances
<1> QED BY <1>1, StoreInvariant, PTL DEF StoreSpec, RowMonotone
=============================================================================
