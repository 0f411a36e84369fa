------------------------- MODULE ProxyRequestProofs -------------------------
(***************************************************************************)
(* The inductive invariant of the request pipeline, and that every step    *)
(* of a request and of time preserves it.                                  *)
(*                                                                         *)
(* ProxyInv adds to the store's own invariant what each request knows:     *)
(* what its locals hold at each point (Shape), that nobody else knows the  *)
(* session it is creating (Private), that what it has read is current as   *)
(* long as its key works (Current) and that a logout it reported is final  *)
(* (Finished). All of these rest on ids being drawn once (KnownIds). A     *)
(* step is proved in two halves: what it does to the keys and to           *)
(* everybody else (KeyEffect, IdEffect, lemma StepInv), and what it makes  *)
(* of its own request; a step that makes no key work and creates no        *)
(* session only owes the second (QuietStore, Follows, lemma QuietStep).    *)
(*                                                                         *)
(* First come the steps that make no key work and create no session:       *)
(* sending a request, Resolve, the authorization check, the upstream's     *)
(* answer, the lock, the logout, the failed call and the delivery. Then    *)
(* follow Begin, the commit of a response, the calls whose reply is lost   *)
(* and the passing of time.                                                *)
(***************************************************************************)
EXTENDS Proxy, SessionStoreProofs

\* Every leaf is tried with Zenon first, then with the SMT solver, then again.
USE ZenonT(4), SMTT(20), Z3T(20), ZenonT(20)

Resolving == {"getsession", "clock", "expire", "touch", "getcookies"}
Arriving == {"idle", "getkey", "authz", "upstream"} \union Resolving
HasRow == {"clock", "expire", "touch", "getcookies", "apply"}
Creating == {"putsession", "putkey"}
Applying == {"applyclock", "applyget", "apply"}
Handled == {"authz", "upstream", "lock", "revoke"} \union Applying
Mutating == {"begin"} \union Creating \union Applying
Responding == {"lock", "revoke"} \union Mutating

\* What the locals of a request hold at each point of its way.
Shape(q) ==
    /\ q.pc = "getkey" => q.presented \in KEY /\ q.key = q.presented
    /\ q.pc \in Resolving \union Creating \/ q.live => q.sid \in SID /\ q.key \in KEY
    /\ q.pc \in HasRow => q.row \in Session
    /\ q.pc \in {"applyget", "apply"} => q.t # 0
    /\ q.pc \in Arriving => ~q.locked
    /\ q.pc \in {"lock", "revoke"} \union Applying => q.live
    /\ q.pc \in {"begin"} \union Creating => ~q.live
    /\ q.pc \in Responding => q.resp \in Response /\ (q.resp.revoke => ~q.resolveErr)
    /\ q.pc \in Mutating => ~q.resp.revoke
    /\ q.pc = "unlock" => q.locked
    /\ q.locked => q.live
    /\ q.rewrite => q.pc \in Applying \/ Answered(q)
    /\ ~Answered(q) => q.status = None
    /\ q.status = "ok" => q.resp \in Response /\ (q.resp.revoke => ~q.resolveErr)
    /\ q.pc \in {"upstream"} \union Responding /\ q.required # None =>
          q.live /\ ~q.rewrite /\ q.required \in q.labels

\* The request works on a session it is creating: nobody else can know its key yet.
Own(q) == q.pc \in Creating \/ (q.pc \in Applying /\ q.rewrite)

Private(r) ==
    LET q == req[r] IN
    Own(q) =>
        /\ \A x \in REQ \ {r} : req[x].key # q.key /\ req[x].sid # q.sid /\ req[x].setCookie # q.key
        /\ \A c \in CLIENT : jar[c] # q.key
        /\ granted[q.key] = None
        /\ \A k \in KEY : keys[k] = q.sid => k = q.key /\ q.pc \notin Creating
        /\ q.pc = "putsession" => ~Live(q.sid)

\* As long as its key works, what a request has read of its session is current.
Current(r) ==
    LET q == req[r] IN
    /\ q.pc \in HasRow /\ keys[q.key] = q.sid => sessions[q.sid].labels = q.row.labels
    /\ q.pc \in Handled /\ q.live /\ ~q.rewrite /\ keys[q.key] = q.sid =>
          sessions[q.sid].labels = q.labels

\* The session of an answered logout stays gone.
Finished(r) ==
    LET q == req[r] IN
    q.status = "ok" /\ q.resp.revoke /\ q.live =>
        ~Live(q.sid) /\ \A k \in KEY : keys[k] # q.sid

RequestInv(r) == Shape(req[r]) /\ Private(r) /\ Current(r) /\ Finished(r)

Granted == [sid : SID, owner : OWNER \union {NoOwner}, labels : SUBSET LABEL]

BookTypeOK ==
    /\ jar \in [CLIENT -> KEY \union {None}]
    /\ mintedSid \subseteq SID /\ mintedKey \subseteq KEY
    /\ faults \in 0 .. MaxFaults /\ now # 0
    /\ granted \in [KEY -> Granted \union {None}]

\* Every id in use anywhere has been drawn, so a new one is in use nowhere.
KnownIds ==
    /\ \A k \in KEY : keys[k] # None \/ granted[k] # None => k \in mintedKey
    /\ \A s \in SID : Live(s) => s \in mintedSid
    /\ \A c \in CLIENT : jar[c] \in mintedKey \union {None}
    /\ \A r \in REQ : /\ req[r].key \in mintedKey \union {None}
                      /\ req[r].sid \in mintedSid \union {None}
                      /\ req[r].setCookie \in mintedKey \union {None, Keep}

KeyInv == SingleKey /\ KeyKeepsItsGrant /\ KnownIds

ProxyInv ==
    /\ StoreInv /\ BookTypeOK /\ KeyInv
    /\ req \in [REQ -> Request]
    /\ \A r \in REQ : RequestInv(r)

-----------------------------------------------------------------------------
(* One step of one request, seen by the others.                            *)

\* The grant behind a session is the same after the step.
SameGrant(s) ==
    /\ sessions'[s].labels = sessions[s].labels
    /\ RotateOnLogin => sessions'[s].owner = sessions[s].owner

\* Request r becomes p and, if j is a key, makes j its own: no key but j comes to
\* work, none but j changes its grant, and only a session under creation appears.
KeyEffect(r, j) ==
    LET q == req[r] IN
    /\ j \in KEY => (Own(q) /\ j = q.key) \/ j \notin mintedKey
    /\ \A k \in KEY \ {j} : granted'[k] = granted[k]
    /\ \A k \in KEY \ {j} : keys'[k] # None => keys'[k] = keys[k] /\ SameGrant(keys[k])
    /\ j \in KEY /\ keys'[j] # None => keys'[j] = q.sid /\ \A k \in KEY \ {j} : keys'[k] # q.sid
    /\ j \in KEY /\ granted'[j] # None => granted'[j] = Grant(q.sid, sessions'[q.sid])
    /\ \A s \in SID : Live(s)' => Live(s) \/ (Own(q) /\ s = q.sid)

IdEffect(r, p, j) ==
    LET q == req[r] IN
    /\ mintedKey \subseteq mintedKey' /\ (j \in KEY => j \in mintedKey')
    /\ mintedSid \subseteq mintedSid' /\ p.sid \in mintedSid' \union {None}
    /\ p.key = q.key \/ p.key = j \/ \E c \in CLIENT : p.key = jar[c]
    /\ \/ p.sid \in {q.sid, None}
       \/ q.key \in KEY /\ p.sid = keys[q.key]
       \/ p.sid \notin mintedSid
    /\ p.setCookie \in {q.setCookie, q.key, j, None, Keep}
    /\ \A c \in CLIENT : jar'[c] = jar[c] \/ (jar'[c] = q.setCookie /\ q.setCookie # Keep)

\* The shape of a request in the next state is that of its next record.
LEMMA ShapeAfter ==
    ASSUME NEW r \in REQ, NEW p, req'[r] = p, Shape(p)
    PROVE  Shape(req[r])'
BY DEF Shape, Answered

\* Whatever was so for the keys and for the other requests is still so.
LEMMA KeysAfter ==
    ASSUME ProxyInv, StoreInv', NEW r \in REQ, NEW j \in KEY \union {None}, KeyEffect(r, j)
    PROVE  SingleKey' /\ KeyKeepsItsGrant'
<1>0. None \notin KEY /\ None \notin SID
  BY ProxySentinels, SentinelAssumption
<1>1. keys \in [KEY -> SID \union {None}] /\ keys' \in [KEY -> SID \union {None}]
  BY DEF ProxyInv, StoreInv, StoreTypeOK
<1>2. SingleKey'
  BY <1>0, <1>1 DEF ProxyInv, KeyInv, SingleKey, KeyEffect
<1>3. KeyKeepsItsGrant'
  <2> SUFFICES ASSUME NEW k \in KEY, granted'[k] # None, keys'[k] # None
               PROVE  /\ keys'[k] = granted'[k].sid
                      /\ sessions'[keys'[k]].labels = granted'[k].labels
                      /\ RotateOnLogin => sessions'[keys'[k]].owner = granted'[k].owner
    BY DEF KeyKeepsItsGrant
  <2>1. CASE k = j
    <3>1. granted'[k] = Grant(req[r].sid, sessions'[req[r].sid]) /\ keys'[k] = req[r].sid
      BY <2>1 DEF KeyEffect
    <3> QED BY <3>1 DEF Grant
  <2>2. CASE k # j
    <3>1. granted'[k] = granted[k] /\ keys'[k] = keys[k] /\ SameGrant(keys[k])
      BY <2>2 DEF KeyEffect
    <3> QED BY <3>1 DEF SameGrant, ProxyInv, KeyInv, KeyKeepsItsGrant
  <2> QED BY <2>1, <2>2
<1> QED BY <1>2, <1>3

\* Every id in use after the step has been drawn.
LEMMA IdsAfter ==
    ASSUME ProxyInv, NEW r \in REQ, NEW j \in KEY \union {None}, NEW p \in Request,
           req' = [req EXCEPT ![r] = p], KeyEffect(r, j), IdEffect(r, p, j)
    PROVE  KnownIds'
<1>0. /\ r \in REQ /\ req \in [REQ -> Request] /\ req'[r] = p
      /\ \A x \in REQ \ {r} : req'[x] = req[x]
  BY DEF ProxyInv
<1>1. KnownIds
  BY DEF ProxyInv, KeyInv
<1>2. \A k \in KEY : keys'[k] # None \/ granted'[k] # None => k \in mintedKey'
  BY <1>1 DEF KnownIds, KeyEffect, IdEffect
<1>3. \A s \in SID : Live(s)' => s \in mintedSid'
  BY <1>0, <1>1, SentinelAssumption DEF KnownIds, KeyEffect, IdEffect
<1>4. \A c \in CLIENT : jar'[c] \in mintedKey' \union {None}
  BY <1>1 DEF KnownIds, IdEffect
<1>5. ASSUME NEW x \in REQ
      PROVE  /\ req'[x].key \in mintedKey' \union {None}
             /\ req'[x].sid \in mintedSid' \union {None}
             /\ req'[x].setCookie \in mintedKey' \union {None, Keep}
  <2>1. CASE x = r
    BY <1>0, <1>1, <2>1 DEF KnownIds, IdEffect
  <2>2. CASE x # r
    BY <1>0, <1>1, <2>2 DEF KnownIds, IdEffect
  <2> QED BY <2>1, <2>2
<1> QED BY <1>2, <1>3, <1>4, <1>5 DEF KnownIds

\* A step of r leaves every other request in order.
LEMMA OthersAfter ==
    ASSUME ProxyInv, StoreInv', NEW r \in REQ, NEW j \in KEY \union {None}, NEW p \in Request,
           req' = [req EXCEPT ![r] = p], KeyEffect(r, j), IdEffect(r, p, j),
           NEW x \in REQ \ {r}
    PROVE  RequestInv(x)'
<1> DEFINE q == req[r]
           y == req[x]
<1>0. req'[x] = y /\ req'[r] = p /\ y \in Request /\ q \in Request
  BY DEF ProxyInv
<1>1. Shape(y) /\ Shape(q) /\ RequestInv(x) /\ RequestInv(r) /\ KnownIds
  BY DEF ProxyInv, RequestInv, KeyInv
<1>2. None \notin KEY /\ Keep \notin KEY /\ None \notin SID
  BY ProxySentinels, SentinelAssumption
<1>3. keys \in [KEY -> SID \union {None}] /\ keys' \in [KEY -> SID \union {None}]
  BY DEF ProxyInv, StoreInv, StoreTypeOK
<1>4. /\ y.key \in mintedKey \union {None} /\ y.sid \in mintedSid \union {None}
      /\ mintedKey \subseteq KEY /\ mintedSid \subseteq SID
  BY <1>1 DEF KnownIds, ProxyInv, BookTypeOK
<1>5. y.key \in KEY => y.key # j
  BY <1>1, <1>2, <1>4 DEF RequestInv, Private, KeyEffect
<1>6. Own(y) => y.key \in KEY /\ y.sid \in SID
  BY <1>1 DEF Own, Shape, Creating, Applying, Resolving
<1>7. Own(q) => q.key # y.key /\ q.sid # y.sid
  BY <1>1 DEF RequestInv, Private
<1>8. ASSUME NEW k \in KEY, keys'[k] = y.sid, y.sid \in SID,
             Own(y) \/ ~Live(y.sid)'
      PROVE  keys[k] = y.sid
  <2>1. CASE k # j
    BY <1>2, <1>8, <2>1 DEF KeyEffect
  <2>2. CASE k = j
    <3>1. y.sid = q.sid
      BY <1>2, <1>8, <2>2 DEF KeyEffect
    <3>2. ~Own(y)
      BY <1>1, <3>1 DEF RequestInv, Private
    <3>3. Live(y.sid)'
      BY <1>2, <1>8 DEF StoreInv, RowInv, NothingDangles
    <3> QED BY <1>8, <3>2, <3>3
  <2> QED BY <2>1, <2>2
<1>9. Private(x)'
  <2> SUFFICES ASSUME Own(y)
               PROVE  /\ \A z \in REQ \ {x} : /\ req'[z].key # y.key /\ req'[z].sid # y.sid
                                              /\ req'[z].setCookie # y.key
                      /\ \A c \in CLIENT : jar'[c] # y.key
                      /\ granted'[y.key] = None
                      /\ \A k \in KEY : keys'[k] = y.sid => k = y.key /\ y.pc \notin Creating
                      /\ y.pc = "putsession" => ~Live(y.sid)'
    BY <1>0 DEF Private
  <2>1. /\ \A z \in REQ \ {x} : req[z].key # y.key /\ req[z].sid # y.sid /\ req[z].setCookie # y.key
        /\ \A c \in CLIENT : jar[c] # y.key
        /\ granted[y.key] = None
        /\ \A k \in KEY : keys[k] = y.sid => k = y.key /\ y.pc \notin Creating
        /\ y.pc = "putsession" => ~Live(y.sid)
    BY <1>1 DEF RequestInv, Private
  <2>2. p.key # y.key /\ p.sid # y.sid /\ p.setCookie # y.key
    BY <1>2, <1>4, <1>5, <1>6, <2>1 DEF IdEffect
  <2>3. \A z \in REQ \ {x} : req'[z].key # y.key /\ req'[z].sid # y.sid
                             /\ req'[z].setCookie # y.key
    BY <1>0, <2>1, <2>2 DEF ProxyInv
  <2>4. \A c \in CLIENT : jar'[c] # y.key
    BY <2>1 DEF IdEffect
  <2>5. granted'[y.key] = None
    BY <1>5, <1>6, <2>1 DEF KeyEffect
  <2>6. \A k \in KEY : keys'[k] = y.sid => k = y.key /\ y.pc \notin Creating
    BY <1>6, <1>8, <2>1
  <2>7. y.pc = "putsession" => ~Live(y.sid)'
    BY <1>6, <1>7, <2>1 DEF KeyEffect
  <2> QED BY <2>3, <2>4, <2>5, <2>6, <2>7
<1>10. Current(x)'
  <2>1. ASSUME y.key \in KEY, y.sid \in SID, keys'[y.key] = y.sid
        PROVE  keys[y.key] = y.sid /\ SameGrant(y.sid)
    BY <1>2, <1>5, <2>1 DEF KeyEffect
  <2>2. y.pc \in HasRow \/ y.live => y.key \in KEY /\ y.sid \in SID
    BY <1>1 DEF Shape, HasRow, Resolving, Applying
  <2>3. Current(x)
    BY <1>1 DEF RequestInv
  <2> QED BY <1>0, <2>1, <2>2, <2>3 DEF Current, SameGrant
<1>11. Finished(x)'
  <2> SUFFICES ASSUME y.status = "ok", y.resp.revoke, y.live
               PROVE  ~Live(y.sid)' /\ \A k \in KEY : keys'[k] # y.sid
    BY <1>0 DEF Finished
  <2>1. y.sid \in SID /\ ~Live(y.sid) /\ \A k \in KEY : keys[k] # y.sid
    BY <1>1 DEF RequestInv, Finished, Shape
  <2>2. ~Live(y.sid)'
    BY <1>7, <2>1 DEF KeyEffect
  <2> QED BY <1>8, <2>1, <2>2
<1>12. Shape(req[x])'
  BY <1>0, <1>1, ShapeAfter
<1> QED BY <1>9, <1>10, <1>11, <1>12 DEF RequestInv

\* So a step of r preserves the invariant if its effect is one of these and r
\* itself is in order afterwards.
LEMMA StepInv ==
    ASSUME ProxyInv, StoreInv', BookTypeOK',
           NEW r \in REQ, NEW j \in KEY \union {None}, NEW p \in Request,
           req' = [req EXCEPT ![r] = p], KeyEffect(r, j), IdEffect(r, p, j),
           RequestInv(r)'
    PROVE  ProxyInv'
<1>1. req' \in [REQ -> Request]
  BY DEF ProxyInv
<1>2. \A x \in REQ : RequestInv(x)'
  BY OthersAfter
<1> QED BY <1>1, <1>2, KeysAfter, IdsAfter DEF ProxyInv, KeyInv

-----------------------------------------------------------------------------
(* Steps that make no key work and create no session.                      *)

\* What a step may make of the locals of request r.
Follows(r, p) ==
    LET q == req[r] IN
    /\ p.key = q.key /\ p.setCookie \in {q.setCookie, q.key, None, Keep}
    /\ \/ p.sid = q.sid
       \/ p.sid = keys[q.key] /\ q.key \in KEY /\ p.pc = "getsession" /\ p.status = None
    /\ Own(p) => Own(q) /\ p.pc \notin Creating
    /\ p.pc \in HasRow => (q.pc \in HasRow /\ p.row = q.row) \/ p.row = sessions[q.sid]
    /\ p.pc \in Handled /\ p.live /\ ~p.rewrite =>
          \/ q.pc \in Handled /\ q.live /\ ~q.rewrite /\ p.labels = q.labels
          \/ q.pc \in HasRow /\ p.labels = q.row.labels
    /\ p.status = "ok" /\ p.resp.revoke /\ p.live =>
          (q.status = "ok" /\ q.resp.revoke /\ q.live) \/ sessions'[q.sid] = None

QuietStore ==
    /\ \A k \in KEY : keys'[k] # None => keys'[k] = keys[k] /\ SameGrant(keys[k])
    /\ \A s \in SID : Live(s)' => Live(s)
    /\ UNCHANGED <<mintedSid, mintedKey, granted>>

\* Such a step preserves the invariant if r goes on as Follows says.
LEMMA QuietStep ==
    ASSUME ProxyInv, StoreInv', BookTypeOK', NEW r \in REQ, NEW p \in Request, Shape(p),
           req' = [req EXCEPT ![r] = p], jar' = jar, QuietStore, Follows(r, p)
    PROVE  ProxyInv'
<1> DEFINE q == req[r]
<1>0. /\ req'[r] = p /\ q \in Request /\ Shape(q) /\ RequestInv(r) /\ KnownIds
      /\ \A x \in REQ \ {r} : req'[x] = req[x]
  BY DEF ProxyInv, RequestInv, KeyInv
<1>1. None \notin KEY /\ None \notin SID
  BY ProxySentinels, SentinelAssumption
<1>2. keys \in [KEY -> SID \union {None}] /\ keys' \in [KEY -> SID \union {None}]
  BY DEF ProxyInv, StoreInv, StoreTypeOK
<1>3. KeyEffect(r, None)
  BY <1>1 DEF KeyEffect, QuietStore
<1>4. IdEffect(r, p, None)
  <2>1. p.sid \in mintedSid' \union {None}
    BY <1>0, <1>2 DEF Follows, QuietStore, KnownIds, ProxyInv, StoreInv, RowInv, NothingDangles
  <2>2. p.sid \in {q.sid, None} \/ (q.key \in KEY /\ p.sid = keys[q.key])
    BY DEF Follows
  <2> QED BY <1>1, <2>1, <2>2 DEF IdEffect, Follows, QuietStore
<1>5. Private(r)'
  <2> SUFFICES ASSUME Own(p)
               PROVE  /\ \A x \in REQ \ {r} : /\ req'[x].key # p.key /\ req'[x].sid # p.sid
                                              /\ req'[x].setCookie # p.key
                      /\ \A c \in CLIENT : jar'[c] # p.key
                      /\ granted'[p.key] = None
                      /\ \A k \in KEY : keys'[k] = p.sid => k = p.key /\ p.pc \notin Creating
                      /\ p.pc = "putsession" => ~Live(p.sid)'
    BY <1>0 DEF Private
  <2>1. Own(q) /\ p.key = q.key /\ p.pc \notin Creating /\ p.pc # "putsession" /\ p.sid = q.sid
    BY DEF Follows, Creating, Own, Applying
  <2>2. q.sid \in SID
    BY <1>0, <2>1 DEF Own, Shape, Creating, Applying, Resolving
  <2>3. \A k \in KEY : keys'[k] = q.sid => keys[k] = q.sid
    BY <1>1, <2>2 DEF QuietStore
  <2>4. /\ \A x \in REQ \ {r} : req[x].key # q.key /\ req[x].sid # q.sid /\ req[x].setCookie # q.key
        /\ \A c \in CLIENT : jar[c] # q.key
        /\ granted[q.key] = None
        /\ \A k \in KEY : keys[k] = q.sid => k = q.key
    BY <1>0, <2>1 DEF RequestInv, Private
  <2> QED BY <1>0, <2>1, <2>3, <2>4 DEF QuietStore
<1>6. Current(r)'
  <2>1. p.pc \in HasRow \/ p.live => p.key \in KEY /\ p.sid \in SID
    BY DEF Shape, HasRow, Resolving, Applying
  <2>2. ASSUME p.key \in KEY, p.sid \in SID, keys'[p.key] = p.sid
        PROVE  keys[p.key] = p.sid /\ SameGrant(p.sid)
    BY <1>1, <2>2 DEF QuietStore
  <2>3. p.pc \in HasRow \union Handled => p.sid = q.sid /\ p.key = q.key
    BY DEF Follows, HasRow, Handled, Applying
  <2>4. Current(r)
    BY <1>0 DEF RequestInv
  <2>5. p.pc \in HasRow /\ keys'[p.key] = p.sid => sessions'[p.sid].labels = p.row.labels
    BY <2>1, <2>2, <2>3, <2>4 DEF Current, SameGrant, Follows
  <2>6. p.pc \in Handled /\ p.live /\ ~p.rewrite /\ keys'[p.key] = p.sid =>
            sessions'[p.sid].labels = p.labels
    BY <2>1, <2>2, <2>3, <2>4 DEF Current, SameGrant, Follows
  <2> QED BY <1>0, <2>5, <2>6 DEF Current
<1>7. Finished(r)'
  <2> SUFFICES ASSUME p.status = "ok", p.resp.revoke, p.live
               PROVE  ~Live(p.sid)' /\ \A k \in KEY : keys'[k] # p.sid
    BY <1>0 DEF Finished
  <2>1. p.sid = q.sid /\ p.sid \in SID
    BY ProxySentinels DEF Follows, Shape
  <2>2. ~Live(p.sid)'
    BY <1>0, <2>1 DEF Follows, RequestInv, Finished, QuietStore, Live
  <2> QED BY <1>1, <2>1, <2>2 DEF StoreInv, RowInv, NothingDangles
<1>8. RequestInv(r)'
  BY <1>0, <1>5, <1>6, <1>7, ShapeAfter DEF RequestInv
<1> QED BY <1>0, <1>3, <1>4, <1>8, StepInv

\* Rows, keys, cookies and the owner index are left alone.
LEMMA IdleStore ==
    ASSUME ProxyInv, UNCHANGED <<rowVars, mintedSid, mintedKey, granted>>,
           locks' \in [SID -> HOLDER \union {None}], now' \in Nat
    PROVE  StoreInv' /\ QuietStore
BY DEF ProxyInv, StoreInv, StoreTypeOK, RowInv, RowTypeOK, NothingDangles, OwnerIndexExact, Live,
       rowVars, QuietStore, SameGrant

\* A delete is such a step.
LEMMA DeleteQuiet ==
    ASSUME ProxyInv, NEW id \in SID, DeleteSession(id),
           UNCHANGED <<locks, now, mintedSid, mintedKey, granted>>
    PROVE  StoreInv' /\ QuietStore /\ ~Live(id)'
<1>1. RowInv'
  BY DeleteSessionInv DEF ProxyInv, StoreInv
<1>2. StoreInv'
  BY <1>1 DEF ProxyInv, StoreInv, StoreTypeOK, RowInv, RowTypeOK
<1>3. QuietStore /\ ~Live(id)'
  BY SentinelAssumption
  DEF ProxyInv, StoreInv, StoreTypeOK, DeleteSession, DropRow, QuietStore, SameGrant, Live
<1> QED BY <1>2, <1>3

\* So is a touch.
LEMMA TouchQuiet ==
    ASSUME ProxyInv, NEW id \in SID, NEW k \in KEY, NEW a \in Nat, NEW t \in Nat,
           TouchSession(id, k, a, t), UNCHANGED <<locks, now, mintedSid, mintedKey, granted>>
    PROVE  StoreInv' /\ QuietStore
<1>1. RowInv'
  BY TouchSessionInv DEF ProxyInv, StoreInv
<1>2. StoreInv'
  BY <1>1 DEF ProxyInv, StoreInv, StoreTypeOK, RowInv, RowTypeOK
<1>3. sessions[id] \in Session /\ sessions[id] # None
  BY LiveRow DEF TouchSession, TouchResult, KeyCheck, Live, ProxyInv, StoreInv, RowInv
<1>4. /\ sessions'[id].labels = sessions[id].labels /\ sessions'[id].owner = sessions[id].owner
      /\ \A x \in SID : x # id => sessions'[x] = sessions[x]
  BY <1>3 DEF TouchSession, Session, ProxyInv, StoreInv, StoreTypeOK
<1>5. keys' = keys /\ keys \in [KEY -> SID \union {None}]
  BY DEF TouchSession, ProxyInv, StoreInv, StoreTypeOK
<1>6. QuietStore
  BY <1>3, <1>4, <1>5, SentinelAssumption DEF QuietStore, SameGrant, Live
<1> QED BY <1>2, <1>6

-----------------------------------------------------------------------------
(* Updates of a request's record.                                          *)

Outcome == {"ok", "denied", "failed", "badgateway"}

\* A record of a request with one field changed is one again.
LEMMA Update ==
    ASSUME NEW q \in Request
    PROVE  /\ \A v \in PC : [q EXCEPT !.pc = v] \in Request
           /\ \A v \in BOOLEAN : /\ [q EXCEPT !.live = v] \in Request
                                 /\ [q EXCEPT !.rewrite = v] \in Request
                                 /\ [q EXCEPT !.resolveErr = v] \in Request
                                 /\ [q EXCEPT !.locked = v] \in Request
                                 /\ [q EXCEPT !.swapped = v] \in Request
           /\ \A v \in CLIENT : [q EXCEPT !.client = v] \in Request
           /\ \A v \in KEY \union {None} : [q EXCEPT !.presented = v] \in Request
           /\ \A v \in LABEL \union {None} : [q EXCEPT !.required = v] \in Request
           /\ \A v \in SID \union {None} : [q EXCEPT !.target = v] \in Request
           /\ \A v \in SID \union {None} : [q EXCEPT !.sid = v] \in Request
           /\ \A v \in KEY \union {None} : [q EXCEPT !.key = v] \in Request
           /\ \A v \in OWNER \union {NoOwner} : [q EXCEPT !.owner = v] \in Request
           /\ \A v \in SUBSET LABEL : [q EXCEPT !.labels = v] \in Request
           /\ \A v \in Session \union {None} : [q EXCEPT !.row = v] \in Request
           /\ \A v \in Nat : [q EXCEPT !.t = v] \in Request
           /\ \A v \in Response \union {None} : [q EXCEPT !.resp = v] \in Request
           /\ \A v \in Outcome : [q EXCEPT !.status = v] \in Request
           /\ \A v \in KEY \union {None, Keep} : [q EXCEPT !.setCookie = v] \in Request
<1>1. \A v \in PC : [q EXCEPT !.pc = v] \in Request
  BY DEF Request
<1>2. \A v \in BOOLEAN : [q EXCEPT !.live = v] \in Request
  BY DEF Request
<1>3. \A v \in BOOLEAN : [q EXCEPT !.rewrite = v] \in Request
  BY DEF Request
<1>4. \A v \in BOOLEAN : [q EXCEPT !.resolveErr = v] \in Request
  BY DEF Request
<1>5. \A v \in BOOLEAN : [q EXCEPT !.locked = v] \in Request
  BY DEF Request
<1>6. \A v \in BOOLEAN : [q EXCEPT !.swapped = v] \in Request
  BY DEF Request
<1>7. \A v \in SID \union {None} : [q EXCEPT !.sid = v] \in Request
  BY DEF Request
<1>8. \A v \in KEY \union {None} : [q EXCEPT !.key = v] \in Request
  BY DEF Request
<1>9. \A v \in OWNER \union {NoOwner} : [q EXCEPT !.owner = v] \in Request
  BY DEF Request
<1>10. \A v \in SUBSET LABEL : [q EXCEPT !.labels = v] \in Request
  BY DEF Request
<1>11. \A v \in Session \union {None} : [q EXCEPT !.row = v] \in Request
  BY DEF Request
<1>12. \A v \in Nat : [q EXCEPT !.t = v] \in Request
  BY DEF Request
<1>13. \A v \in Response \union {None} : [q EXCEPT !.resp = v] \in Request
  BY DEF Request
<1>14. \A v \in Outcome : [q EXCEPT !.status = v] \in Request
  BY DEF Request, Outcome
<1>15. \A v \in KEY \union {None, Keep} : [q EXCEPT !.setCookie = v] \in Request
  BY DEF Request
<1>16. \A v \in CLIENT : [q EXCEPT !.client = v] \in Request
  BY DEF Request
<1>17. \A v \in KEY \union {None} : [q EXCEPT !.presented = v] \in Request
  BY DEF Request
<1>18. \A v \in LABEL \union {None} : [q EXCEPT !.required = v] \in Request
  BY DEF Request
<1>19. \A v \in SID \union {None} : [q EXCEPT !.target = v] \in Request
  BY DEF Request
<1> QED BY <1>1, <1>2, <1>3, <1>4, <1>5, <1>6, <1>7, <1>8, <1>9, <1>10, <1>11, <1>12, <1>13,
           <1>14, <1>15, <1>16, <1>17, <1>18, <1>19

\* The record of a request not sent yet is one.
LEMMA IdleRequestType == IdleRequest \in Request
BY DEF IdleRequest, Request, PC

-----------------------------------------------------------------------------
(* Where a request goes next.                                              *)

\* The handle is the same; the request may have lost it.
SameHandle(q, p) ==
    /\ p.key = q.key /\ p.sid = q.sid /\ p.rewrite = q.rewrite /\ p.labels = q.labels
    /\ p.row = q.row /\ (p.live => q.live)

\* What a request needs in order to be answered with status s.
CanAnswer(q, s) ==
    /\ q.live => q.sid \in SID /\ q.key \in KEY
    /\ q.locked => q.live
    /\ s = "ok" => q.resp \in Response /\ (q.resp.revoke => ~q.resolveErr)

\* An answered request is in shape.
LEMMA AnswerShape ==
    ASSUME NEW q \in Request, NEW s \in Outcome, NEW cookie \in KEY \union {None, Keep},
           CanAnswer(q, s)
    PROVE  /\ Answer(q, s, cookie) \in Request /\ Shape(Answer(q, s, cookie))
           /\ Answered(Answer(q, s, cookie)) /\ SameHandle(q, Answer(q, s, cookie))
           /\ Answer(q, s, cookie).setCookie = cookie /\ Answer(q, s, cookie).status = s
           /\ Answer(q, s, cookie).resp = q.resp /\ Answer(q, s, cookie).live = q.live
<1> DEFINE p == Answer(q, s, cookie)
           next == IF q.locked THEN "unlock" ELSE "reply"
<1>1. next \in PC /\ next \in {"unlock", "reply"} /\ (next = "unlock" => q.locked)
  BY DEF PC, StoreCalls
<1>2. p = [q EXCEPT !.pc = next, !.status = s, !.setCookie = cookie]
  BY DEF Answer
<1> HIDE DEF next
<1>3. /\ p \in Request
      /\ p.pc = next /\ p.status = s /\ p.setCookie = cookie /\ p.live = q.live /\ p.sid = q.sid
      /\ p.key = q.key /\ p.resp = q.resp /\ p.resolveErr = q.resolveErr /\ p.locked = q.locked
      /\ p.rewrite = q.rewrite /\ p.labels = q.labels /\ p.row = q.row
  <2>1. [q EXCEPT !.pc = next, !.status = s, !.setCookie = cookie] \in Request
    BY <1>1, Update
  <2>2. p \in Request
    BY <1>2, <2>1
  <2> QED BY <1>2, <2>2 DEF Request
<1> HIDE DEF p
<1>4. Answered(p) /\ p.pc \notin Arriving \union HasRow \union Responding \union Creating
  BY <1>1, <1>3 DEF Answered, Arriving, Resolving, HasRow, Responding, Mutating, Creating, Applying
<1>5. Shape(p)
  BY <1>1, <1>3, <1>4 DEF Shape, CanAnswer, Arriving, Responding, Mutating, Applying, Answered
<1> QED BY <1>3, <1>4, <1>5 DEF SameHandle, p

\* Answering keeps r in order unless a logout is reported too early.
LEMMA AnswerFollows ==
    ASSUME NEW r \in REQ, NEW p, Answered(p), p.key = req[r].key, p.sid = req[r].sid,
           p.setCookie \in {req[r].setCookie, req[r].key, None, Keep},
           p.status = "ok" /\ p.resp.revoke /\ p.live => sessions'[req[r].sid] = None
    PROVE  Follows(r, p)
BY DEF Follows, Answered, Own, Creating, Applying, HasRow, Handled

\* The request goes on without a session.
LEMMA AnonymousShape ==
    ASSUME NEW q \in Request, Shape(q), q.pc \in Resolving \union {"getkey"}, NEW b \in BOOLEAN
    PROVE  LET p == [q EXCEPT !.pc = "authz", !.live = FALSE, !.resolveErr = b] IN
           /\ p \in Request /\ Shape(p) /\ SameHandle(q, p) /\ p.pc = "authz" /\ ~p.live
           /\ p.setCookie = q.setCookie /\ p.status = None
<1> DEFINE p == [q EXCEPT !.pc = "authz", !.live = FALSE, !.resolveErr = b]
<1>1. /\ p \in Request
      /\ p.pc = "authz" /\ p.live = FALSE /\ p.status = q.status /\ p.setCookie = q.setCookie
      /\ p.sid = q.sid /\ p.key = q.key /\ p.locked = q.locked /\ p.rewrite = q.rewrite
      /\ p.labels = q.labels /\ p.row = q.row
  <2>1. "authz" \in PC
    BY DEF PC
  <2>2. p \in Request
    BY <2>1, Update
  <2> QED BY <2>2 DEF Request
<1> HIDE DEF p
<1>2. ~q.locked /\ ~q.rewrite /\ q.status = None
  BY DEF Shape, Resolving, Arriving, Answered, Applying
<1>3. Shape(p)
  BY <1>1, <1>2, ProxySentinels
  DEF Shape, Resolving, Creating, HasRow, Arriving, Applying, Responding, Mutating, Answered
<1> QED BY <1>1, <1>2, <1>3 DEF SameHandle, p

\* It forgets nothing another request could miss.
LEMMA AnonymousFollows ==
    ASSUME NEW r \in REQ, NEW p, SameHandle(req[r], p), p.pc = "authz", ~p.live,
           p.setCookie = req[r].setCookie
    PROVE  Follows(r, p)
BY DEF Follows, SameHandle, Own, Creating, Applying, HasRow, Handled

\* Resolve found no session: the request goes on anonymously.
LEMMA UnresolvedOK ==
    ASSUME ProxyInv, NEW r \in REQ, req[r].pc \in Resolving \union {"getkey"}
    PROVE  LET p == Unresolved(req[r]) IN p \in Request /\ Shape(p) /\ Follows(r, p)
<1> DEFINE q == req[r]
           p == [q EXCEPT !.pc = "authz", !.live = FALSE, !.resolveErr = q.resolveErr]
<1>1. q \in Request /\ Shape(q) /\ q.resolveErr \in BOOLEAN
  BY DEF ProxyInv, RequestInv, Request
<1>2. Unresolved(q) = p
  BY <1>1 DEF Unresolved, Request
<1>3. /\ p \in Request /\ Shape(p) /\ SameHandle(q, p) /\ p.pc = "authz" /\ ~p.live
      /\ p.setCookie = q.setCookie
  BY <1>1, AnonymousShape
<1> HIDE DEF p
<1>4. Follows(r, p)
  BY <1>3, AnonymousFollows
<1> QED BY <1>2, <1>3, <1>4

\* Resolve failed: both policies leave the request in order.
LEMMA ResolveErrorOK ==
    ASSUME ProxyInv, NEW r \in REQ, req[r].pc \in Resolving \union {"getkey"}
    PROVE  LET p == ResolveError(req[r]) IN p \in Request /\ Shape(p) /\ Follows(r, p)
<1> DEFINE q == req[r]
<1>1. q \in Request /\ Shape(q)
  BY DEF ProxyInv, RequestInv
<1>2. CASE FailOpen
  <2> DEFINE p == [q EXCEPT !.pc = "authz", !.live = FALSE, !.resolveErr = TRUE]
  <2>1. ResolveError(q) = p
    BY <1>2 DEF ResolveError
  <2>2. /\ p \in Request /\ Shape(p) /\ SameHandle(q, p) /\ p.pc = "authz" /\ ~p.live
        /\ p.setCookie = q.setCookie
    BY <1>1, AnonymousShape
  <2> HIDE DEF p
  <2>3. Follows(r, p)
    BY <2>2, AnonymousFollows
  <2> QED BY <2>1, <2>2, <2>3
<1>3. CASE ~FailOpen
  <2> DEFINE p == Answer(q, "badgateway", Keep)
  <2>1. ResolveError(q) = p
    BY <1>3 DEF ResolveError
  <2>2. CanAnswer(q, "badgateway") /\ "badgateway" \in Outcome
    BY <1>1 DEF CanAnswer, Outcome, Shape
  <2>3. /\ p \in Request /\ Shape(p) /\ Answered(p) /\ SameHandle(q, p) /\ p.setCookie = Keep
        /\ p.status = "badgateway"
    BY <1>1, <2>2, AnswerShape
  <2> HIDE DEF p
  <2>4. Follows(r, p)
    BY <2>3, AnswerFollows DEF SameHandle
  <2> QED BY <2>1, <2>3, <2>4
<1> QED BY <1>2, <1>3

\* The response path failed, at whatever point.
LEMMA ProcessErrorShape ==
    ASSUME NEW q \in Request, q.resp \in Response,
           q.live => q.sid \in SID /\ q.key \in KEY, q.locked => q.live
    PROVE  LET p == ProcessError(q) IN
           /\ p \in Request /\ Shape(p) /\ Answered(p) /\ SameHandle(q, p) /\ p.setCookie = Keep
           /\ ~(p.status = "ok" /\ p.resp.revoke)
<1> DEFINE s == IF FailOpen /\ ~q.resp.revoke THEN "ok" ELSE "badgateway"
           p == Answer(q, s, Keep)
<1>1. ProcessError(q) = p
  BY DEF ProcessError
<1>2. s \in Outcome /\ CanAnswer(q, s) /\ ~(s = "ok" /\ q.resp.revoke)
  BY DEF Outcome, CanAnswer
<1> HIDE DEF s
<1>3. /\ p \in Request /\ Shape(p) /\ Answered(p) /\ SameHandle(q, p) /\ p.setCookie = Keep
      /\ p.status = s /\ p.resp = q.resp
  BY <1>2, AnswerShape
<1> QED BY <1>1, <1>2, <1>3

\* So both policies leave it in order.
LEMMA ProcessErrorOK ==
    ASSUME ProxyInv, NEW r \in REQ, req[r].pc \in Responding
    PROVE  LET p == ProcessError(req[r]) IN p \in Request /\ Shape(p) /\ Follows(r, p)
<1> DEFINE q == req[r]
           p == ProcessError(q)
<1>1. q \in Request /\ Shape(q)
  BY DEF ProxyInv, RequestInv
<1>2. q.resp \in Response /\ (q.live => q.sid \in SID /\ q.key \in KEY) /\ (q.locked => q.live)
  BY <1>1 DEF Shape
<1>3. /\ p \in Request /\ Shape(p) /\ Answered(p) /\ SameHandle(q, p) /\ p.setCookie = Keep
      /\ ~(p.status = "ok" /\ p.resp.revoke)
  BY <1>1, <1>2, ProcessErrorShape
<1> HIDE DEF p
<1>4. Follows(r, p)
  BY <1>3, AnswerFollows DEF SameHandle
<1> QED BY <1>3, <1>4 DEF p

\* A request whose response has arrived and is about to be processed.
InProcess(u) ==
    /\ u \in Request /\ u.pc \in {"upstream", "lock"} /\ u.status = None /\ ~u.rewrite
    /\ u.resp \in Response /\ (u.resp.revoke => ~u.resolveErr)
    /\ u.live => u.sid \in SID /\ u.key \in KEY
    /\ u.locked => u.live
    /\ u.required # None => u.live /\ u.required \in u.labels

\* What processing makes of it before the next store call.
Proceeds(u, p) ==
    /\ p \in Request /\ Shape(p) /\ SameHandle(u, p)
    /\ p.setCookie \in {u.setCookie, None, Keep}
    /\ p.pc \in {"lock", "revoke", "applyclock", "begin"} \/ Answered(p)
    /\ ~(p.status = "ok" /\ p.resp.revoke /\ p.live)

\* Moving on without an answer keeps the request in process.
LEMMA GotoProceeds ==
    ASSUME NEW u, InProcess(u), NEW c \in {"lock", "revoke", "applyclock", "begin"},
           u.live <=> c # "begin", c \in {"applyclock", "begin"} => ~u.resp.revoke
    PROVE  Proceeds(u, [u EXCEPT !.pc = c])
<1> DEFINE p == [u EXCEPT !.pc = c]
<1>1. p \in Request
  <2>1. c \in PC
    BY DEF PC, StoreCalls, ResponseCalls
  <2> QED BY <2>1, Update DEF InProcess
<1>2. /\ p.pc = c /\ p.status = u.status /\ p.setCookie = u.setCookie /\ p.live = u.live
      /\ p.sid = u.sid /\ p.key = u.key /\ p.resp = u.resp /\ p.resolveErr = u.resolveErr
      /\ p.locked = u.locked /\ p.rewrite = u.rewrite /\ p.labels = u.labels /\ p.row = u.row
      /\ p.required = u.required
  BY DEF InProcess, Request
<1> HIDE DEF p
<1>3. Shape(p)
  BY <1>2, ProxySentinels DEF InProcess, Shape, Resolving, Creating, HasRow, Arriving, Applying,
                              Responding, Mutating, Answered
<1>4. Proceeds(u, p)
  BY <1>1, <1>2, <1>3, ProxySentinels DEF Proceeds, SameHandle, InProcess
<1> QED BY <1>4 DEF p

\* So does an answer that reports no logout.
LEMMA AnswerProceeds ==
    ASSUME NEW u, InProcess(u), NEW s \in Outcome, NEW cookie \in {None, Keep},
           ~(s = "ok" /\ u.resp.revoke /\ u.live)
    PROVE  Proceeds(u, Answer(u, s, cookie))
<1> DEFINE p == Answer(u, s, cookie)
<1>1. CanAnswer(u, s) /\ u \in Request
  BY DEF CanAnswer, InProcess
<1>2. /\ p \in Request /\ Shape(p) /\ Answered(p) /\ SameHandle(u, p)
      /\ p.setCookie = cookie /\ p.status = s /\ p.resp = u.resp /\ p.live = u.live
  BY <1>1, AnswerShape
<1> HIDE DEF p
<1>3. Proceeds(u, p)
  BY <1>2 DEF Proceeds
<1> QED BY <1>3 DEF p

\* Each branch of processLocked is one of the two.
LEMMA ProcessLockedProceeds ==
    ASSUME NEW u, InProcess(u)
    PROVE  Proceeds(u, ProcessLocked(u))
<1>1. CASE u.resp.revoke /\ u.live
  <2>1. ProcessLocked(u) = [u EXCEPT !.pc = "revoke"]
    BY <1>1 DEF ProcessLocked
  <2> QED BY <1>1, <2>1, GotoProceeds
<1>2. CASE u.resp.revoke /\ ~u.live
  <2>1. ProcessLocked(u) = Answer(u, "ok", ExpiredCookie(u)) /\ ExpiredCookie(u) \in {None, Keep}
    BY <1>2 DEF ProcessLocked, ExpiredCookie
  <2> QED BY <1>2, <2>1, AnswerProceeds DEF Outcome
<1>3. CASE ~u.resp.revoke /\ u.live
  <2>1. ProcessLocked(u) = [u EXCEPT !.pc = "applyclock"]
    BY <1>3 DEF ProcessLocked
  <2> QED BY <1>3, <2>1, GotoProceeds
<1>4. CASE ~u.resp.revoke /\ ~u.live /\ NeedsSession(u.resp)
  <2>1. ProcessLocked(u) = [u EXCEPT !.pc = "begin"]
    BY <1>4 DEF ProcessLocked
  <2> QED BY <1>4, <2>1, GotoProceeds
<1>5. CASE ~u.resp.revoke /\ ~u.live /\ ~NeedsSession(u.resp)
  <2>1. ProcessLocked(u) = Answer(u, "ok", Keep)
    BY <1>5 DEF ProcessLocked
  <2> QED BY <1>5, <2>1, AnswerProceeds DEF Outcome
<1> QED BY <1>1, <1>2, <1>3, <1>4, <1>5

\* A request that proceeds is in order for QuietStep.
LEMMA ProceedsFollows ==
    ASSUME NEW r \in REQ, NEW u, InProcess(u), NEW p, Proceeds(u, p), SameHandle(req[r], u),
           req[r].pc \in {"upstream", "lock"}, u.setCookie = req[r].setCookie
    PROVE  Follows(r, p)
BY DEF InProcess, Proceeds, SameHandle, Follows, Own, Creating, Applying, HasRow, Handled, Answered

-----------------------------------------------------------------------------
(* The actions.  First those that leave the rows alone.                    *)

\* What the invariant says of one request.
LEMMA RequestFacts ==
    ASSUME ProxyInv, NEW r \in REQ
    PROVE  req[r] \in Request /\ Shape(req[r])
BY DEF ProxyInv, RequestInv

\* A step of r that touches no row, id or jar.
LEMMA LockStep ==
    ASSUME ProxyInv, NEW r \in REQ, NEW p \in Request, Shape(p), Follows(r, p), Become(r, p),
           UNCHANGED <<rowVars, now, jar, mintedSid, mintedKey, granted>>,
           locks' \in [SID -> HOLDER \union {None}], faults' \in 0 .. MaxFaults
    PROVE  ProxyInv'
<1>1. StoreInv' /\ QuietStore
  BY IdleStore DEF ProxyInv, StoreInv, StoreTypeOK
<1>2. BookTypeOK' /\ jar' = jar
  BY DEF ProxyInv, BookTypeOK
<1> QED BY <1>1, <1>2, QuietStep DEF Become

\* Nor a lock.
LEMMA LocalStep ==
    ASSUME ProxyInv, NEW r \in REQ, NEW p \in Request, Shape(p), Follows(r, p), Become(r, p),
           UNCHANGED <<storeVars, jar, mintedSid, mintedKey, faults, granted>>
    PROVE  ProxyInv'
<1>1. /\ UNCHANGED <<rowVars, now, jar, mintedSid, mintedKey, granted>>
      /\ locks' \in [SID -> HOLDER \union {None}] /\ faults' \in 0 .. MaxFaults
  BY DEF storeVars, rowVars, ProxyInv, StoreInv, StoreTypeOK, BookTypeOK
<1> QED BY <1>1, LockStep

-----------------------------------------------------------------------------
(* The steps that make no key work and create no session.                  *)

\* GetKey: the id read belongs to a key that worked when it was read.
LEMMA ResolveGetKeyInv ==
    ASSUME ProxyInv, NEW r \in REQ, ResolveGetKey(r)
    PROVE  ProxyInv'
<1> DEFINE q == req[r]
           s == keys[q.presented]
           p == [q EXCEPT !.pc = "getsession", !.sid = s]
<1>1. /\ q \in Request /\ Shape(q) /\ q.pc = "getkey" /\ q.presented \in KEY /\ q.key = q.presented
      /\ s \in SID \union {None}
  BY RequestFacts DEF ResolveGetKey, At, Shape, ProxyInv, StoreInv, StoreTypeOK
<1>2. CASE s = None
  BY <1>2, <1>1, UnresolvedOK, LocalStep DEF ResolveGetKey
<1>3. CASE s # None
  <2>1. Become(r, p)
    BY <1>3 DEF ResolveGetKey
  <2> HIDE DEF s
  <2>2. p \in Request
    <3>1. "getsession" \in PC
      BY DEF PC, StoreCalls, ResolveCalls
    <3> QED BY <1>1, <3>1, Update
  <2>3. /\ p.pc = "getsession" /\ p.sid = s /\ p.key = q.key /\ p.setCookie = q.setCookie
        /\ p.live = q.live /\ p.locked = q.locked /\ p.rewrite = q.rewrite /\ p.status = q.status
    BY <1>1 DEF Request
  <2> HIDE DEF p
  <2>4. ~q.locked /\ ~q.rewrite /\ q.status = None
    BY <1>1 DEF Shape, Arriving, Resolving, Applying, Answered
  <2>5. Shape(p)
    BY <1>1, <1>3, <2>3, <2>4, ProxySentinels
    DEF Shape, Resolving, Creating, HasRow, Arriving, Applying, Responding, Mutating, Answered
  <2>6. Follows(r, p)
    BY <1>1, <2>3, <2>4, ProxySentinels
    DEF s, Follows, Own, Creating, Applying, HasRow, Handled
  <2> QED BY <2>1, <2>2, <2>5, <2>6, LocalStep DEF ResolveGetKey
<1> QED BY <1>2, <1>3

\* GetSession: the row read is current while the key works.
LEMMA ResolveGetSessionInv ==
    ASSUME ProxyInv, NEW r \in REQ, ResolveGetSession(r)
    PROVE  ProxyInv'
<1> DEFINE q == req[r]
           s == sessions[q.sid]
           p == [q EXCEPT !.pc = "clock", !.row = s]
<1>1. /\ q \in Request /\ Shape(q) /\ q.pc = "getsession" /\ q.sid \in SID /\ q.key \in KEY
      /\ s \in Session \union {None}
  BY RequestFacts DEF ResolveGetSession, At, Shape, Resolving, ProxyInv, StoreInv, StoreTypeOK
<1>2. CASE s = None
  BY <1>2, <1>1, UnresolvedOK, LocalStep DEF ResolveGetSession, Resolving
<1>3. CASE s # None
  <2>1. Become(r, p)
    BY <1>3 DEF ResolveGetSession
  <2> HIDE DEF s
  <2>2. p \in Request
    <3>1. "clock" \in PC
      BY DEF PC
    <3> QED BY <1>1, <3>1, Update
  <2>3. /\ p.pc = "clock" /\ p.sid = q.sid /\ p.key = q.key /\ p.setCookie = q.setCookie
        /\ p.live = q.live /\ p.locked = q.locked /\ p.rewrite = q.rewrite /\ p.status = q.status
        /\ p.row = s
    BY <1>1 DEF Request
  <2> HIDE DEF p
  <2>4. ~q.locked /\ ~q.rewrite /\ q.status = None
    BY <1>1 DEF Shape, Arriving, Resolving, Applying, Answered
  <2>5. Shape(p)
    BY <1>1, <1>3, <2>3, <2>4, ProxySentinels
    DEF Shape, Resolving, Creating, HasRow, Arriving, Applying, Responding, Mutating, Answered
  <2>6. Follows(r, p)
    BY <1>1, <2>3, <2>4, ProxySentinels
    DEF s, Follows, Own, Creating, Applying, HasRow, Handled
  <2> QED BY <2>1, <2>2, <2>5, <2>6, LocalStep DEF ResolveGetSession
<1> QED BY <1>2, <1>3

\* The clock decides between the delete and the touch.
LEMMA ResolveClockInv ==
    ASSUME ProxyInv, NEW r \in REQ, ResolveClock(r)
    PROVE  ProxyInv'
<1> DEFINE q == req[r]
           next == IF Expired(q.row, now) THEN "expire" ELSE "touch"
           p == [q EXCEPT !.pc = next, !.t = now]
<1>1. q \in Request /\ Shape(q) /\ q.pc = "clock" /\ q.sid \in SID /\ q.key \in KEY /\ now \in Nat
  BY RequestFacts DEF ResolveClock, At, Shape, Resolving, ProxyInv, StoreInv, StoreTypeOK
<1>2. Become(r, p) /\ next \in {"expire", "touch"}
  BY DEF ResolveClock
<1> HIDE DEF next
<1>3. p \in Request
  <2>1. next \in PC
    BY <1>2 DEF PC, StoreCalls, ResolveCalls
  <2> QED BY <1>1, <2>1, Update
<1>4. /\ p.pc = next /\ p.sid = q.sid /\ p.key = q.key /\ p.setCookie = q.setCookie
      /\ p.live = q.live /\ p.locked = q.locked /\ p.rewrite = q.rewrite /\ p.status = q.status
      /\ p.row = q.row
  BY <1>1 DEF Request
<1> HIDE DEF p
<1>5. ~q.locked /\ ~q.rewrite /\ q.status = None /\ q.row \in Session
  BY <1>1 DEF Shape, Arriving, Resolving, Applying, Answered, HasRow
<1>6. Shape(p)
  BY <1>1, <1>2, <1>4, <1>5, ProxySentinels
  DEF Shape, Resolving, Creating, HasRow, Arriving, Applying, Responding, Mutating, Answered
<1>7. Follows(r, p)
  BY <1>1, <1>2, <1>4, <1>5, ProxySentinels DEF Follows, Own, Creating, Applying, HasRow, Handled
<1> QED BY <1>2, <1>3, <1>6, <1>7, LocalStep DEF ResolveClock

\* Deleting an expired session, refreshed by another request or not.
LEMMA ResolveExpireInv ==
    ASSUME ProxyInv, NEW r \in REQ, ResolveExpire(r)
    PROVE  ProxyInv'
<1>1. req[r].pc = "expire" /\ req[r].sid \in SID
  BY RequestFacts DEF ResolveExpire, At, Shape, Resolving
<1>2. StoreInv' /\ QuietStore /\ BookTypeOK' /\ jar' = jar
  BY <1>1, DeleteQuiet DEF ResolveExpire, ProxyInv, BookTypeOK
<1> QED BY <1>1, <1>2, UnresolvedOK, QuietStep DEF ResolveExpire, Resolving, Become

\* TouchSession moves time stamps and nothing else.
LEMMA TouchesQuiet ==
    ASSUME ProxyInv, NEW r \in REQ, req[r].pc = "touch", Touches(req[r]),
           UNCHANGED <<locks, now, mintedSid, mintedKey, granted>>
    PROVE  StoreInv' /\ QuietStore
<1> DEFINE q == req[r]
<1>1. q \in Request /\ q.sid \in SID /\ q.key \in KEY /\ q.row \in Session
  BY RequestFacts DEF Shape, Resolving, HasRow
<1>2. q.t \in Nat /\ LegacyRotation(q.row, q.t) \in Nat
  BY <1>1 DEF Request, LegacyRotation, Session
<1> QED BY <1>1, <1>2, TouchQuiet DEF Touches

\* A refused touch is an error of Resolve.
LEMMA ResolveTouchInv ==
    ASSUME ProxyInv, NEW r \in REQ, ResolveTouch(r)
    PROVE  ProxyInv'
<1> DEFINE q == req[r]
           p == [q EXCEPT !.pc = "getcookies"]
<1>1. q \in Request /\ Shape(q) /\ q.pc = "touch" /\ q.sid \in SID /\ q.key \in KEY
  BY RequestFacts DEF ResolveTouch, At, Shape, Resolving
<1>2. CASE TouchResult(q.sid, q.key) = "ok"
  <2>1. Touches(q) /\ Become(r, p)
    BY <1>2 DEF ResolveTouch, Goto
  <2>2. StoreInv' /\ QuietStore /\ BookTypeOK' /\ jar' = jar
    BY <1>1, <2>1, TouchesQuiet DEF ResolveTouch, ProxyInv, BookTypeOK
  <2>3. p \in Request
    <3>1. "getcookies" \in PC
      BY DEF PC, StoreCalls, ResolveCalls
    <3> QED BY <1>1, <3>1, Update
  <2>4. /\ p.pc = "getcookies" /\ p.sid = q.sid /\ p.key = q.key /\ p.setCookie = q.setCookie
        /\ p.live = q.live /\ p.locked = q.locked /\ p.rewrite = q.rewrite /\ p.status = q.status
        /\ p.row = q.row
    BY <1>1 DEF Request
  <2> HIDE DEF p
  <2>5. ~q.locked /\ ~q.rewrite /\ q.status = None /\ q.row \in Session
    BY <1>1 DEF Shape, Arriving, Resolving, Applying, Answered, HasRow
  <2>6. Shape(p)
    BY <1>1, <2>4, <2>5, ProxySentinels
    DEF Shape, Resolving, Creating, HasRow, Arriving, Applying, Responding, Mutating, Answered
  <2>7. Follows(r, p)
    BY <1>1, <2>4, <2>5, ProxySentinels DEF Follows, Own, Creating, Applying, HasRow, Handled
  <2> QED BY <2>1, <2>2, <2>3, <2>6, <2>7, QuietStep DEF Become
<1>3. CASE TouchResult(q.sid, q.key) # "ok"
  <2>1. Become(r, ResolveError(q)) /\ UNCHANGED <<rowVars, now, jar, mintedSid, mintedKey, granted>>
    BY <1>3 DEF ResolveTouch
  <2>2. locks' \in [SID -> HOLDER \union {None}] /\ faults' \in 0 .. MaxFaults
    BY DEF ResolveTouch, ProxyInv, StoreInv, StoreTypeOK, BookTypeOK
  <2> QED BY <1>1, <2>1, <2>2, ResolveErrorOK, LockStep DEF Resolving
<1> QED BY <1>2, <1>3

\* The handle takes its labels from the row that was read.
LEMMA ResolveGetCookiesInv ==
    ASSUME ProxyInv, NEW r \in REQ, ResolveGetCookies(r)
    PROVE  ProxyInv'
<1> DEFINE q == req[r]
           o == q.row.owner
           l == q.row.labels
           p == [q EXCEPT !.pc = "authz", !.live = TRUE, !.owner = o, !.labels = l,
                          !.row = None, !.t = 0]
<1>1. /\ q \in Request /\ Shape(q) /\ q.pc = "getcookies" /\ q.sid \in SID /\ q.key \in KEY
      /\ Become(r, p)
  BY RequestFacts DEF ResolveGetCookies, At, Shape, Resolving
<1>2. o \in OWNER \union {NoOwner} /\ l \in SUBSET LABEL
  BY <1>1 DEF Shape, HasRow, Session
<1> HIDE DEF o, l
<1>3. p \in Request
  <2>1. "authz" \in PC
    BY DEF PC
  <2>2. [q EXCEPT !.pc = "authz", !.live = TRUE, !.owner = o] \in Request
    BY <1>1, <1>2, <2>1, Update
  <2>3. [[q EXCEPT !.pc = "authz", !.live = TRUE, !.owner = o]
            EXCEPT !.labels = l, !.row = None, !.t = 0] \in Request
    BY <1>2, <2>2, Update
  <2> QED BY <2>3
<1>4. /\ p.pc = "authz" /\ p.sid = q.sid /\ p.key = q.key /\ p.setCookie = q.setCookie
      /\ p.locked = q.locked /\ p.rewrite = q.rewrite /\ p.status = q.status /\ p.labels = l
  BY <1>1 DEF Request
<1> HIDE DEF p
<1>5. ~q.locked /\ ~q.rewrite /\ q.status = None
  BY <1>1 DEF Shape, Arriving, Resolving, Applying, Answered
<1>6. Shape(p)
  BY <1>1, <1>4, <1>5, ProxySentinels
  DEF Shape, Resolving, Creating, HasRow, Arriving, Applying, Responding, Mutating, Answered
<1>7. Follows(r, p)
  BY <1>1, <1>4, <1>5, ProxySentinels DEF l, Follows, Own, Creating, Applying, HasRow, Handled
<1> QED BY <1>1, <1>3, <1>6, <1>7, LocalStep DEF ResolveGetCookies

\* A request is let through with the label its handle carries.
LEMMA AuthorizeInv ==
    ASSUME ProxyInv, NEW r \in REQ, Authorize(r)
    PROVE  ProxyInv'
<1> DEFINE q == req[r]
<1>1. q \in Request /\ Shape(q) /\ q.pc = "authz"
  BY RequestFacts DEF Authorize, At
<1>2. CASE q.required = None \/ (q.live /\ q.required \in q.labels)
  <2> DEFINE p == [q EXCEPT !.pc = "upstream"]
  <2>1. Become(r, p)
    BY <1>2 DEF Authorize
  <2>2. p \in Request
    <3>1. "upstream" \in PC
      BY DEF PC
    <3> QED BY <1>1, <3>1, Update
  <2>3. /\ p.pc = "upstream" /\ p.sid = q.sid /\ p.key = q.key /\ p.setCookie = q.setCookie
        /\ p.live = q.live /\ p.locked = q.locked /\ p.rewrite = q.rewrite /\ p.status = q.status
        /\ p.labels = q.labels /\ p.required = q.required
    BY <1>1 DEF Request
  <2> HIDE DEF p
  <2>4. ~q.locked /\ ~q.rewrite /\ q.status = None /\ (q.live => q.sid \in SID /\ q.key \in KEY)
    BY <1>1 DEF Shape, Arriving, Applying, Answered
  <2>5. Shape(p)
    BY <1>1, <1>2, <2>3, <2>4, ProxySentinels
    DEF Shape, Resolving, Creating, HasRow, Arriving, Applying, Responding, Mutating, Answered
  <2>6. Follows(r, p)
    BY <1>1, <2>3, <2>4, ProxySentinels DEF Follows, Own, Creating, Applying, HasRow, Handled
  <2> QED BY <2>1, <2>2, <2>5, <2>6, LocalStep DEF Authorize
<1>3. CASE ~(q.required = None \/ (q.live /\ q.required \in q.labels))
  <2> DEFINE p == Answer(q, "denied", Keep)
  <2>1. Become(r, p)
    BY <1>3 DEF Authorize
  <2>2. CanAnswer(q, "denied") /\ "denied" \in Outcome
    BY <1>1 DEF CanAnswer, Outcome, Shape
  <2>3. /\ p \in Request /\ Shape(p) /\ Answered(p) /\ SameHandle(q, p) /\ p.setCookie = Keep
        /\ p.status = "denied"
    BY <1>1, <2>2, AnswerShape
  <2> HIDE DEF p
  <2>4. Follows(r, p)
    BY <2>3, AnswerFollows DEF SameHandle
  <2> QED BY <2>1, <2>3, <2>4, LocalStep DEF Authorize
<1> QED BY <1>2, <1>3

\* The backend cannot be reached.
LEMMA UpstreamFailsInv ==
    ASSUME ProxyInv, NEW r \in REQ, UpstreamFails(r)
    PROVE  ProxyInv'
<1> DEFINE q == req[r]
           p == Answer(q, "failed", Keep)
<1>1. q \in Request /\ Shape(q) /\ Become(r, p)
  BY RequestFacts DEF UpstreamFails
<1>2. CanAnswer(q, "failed") /\ "failed" \in Outcome
  BY <1>1 DEF CanAnswer, Outcome, Shape
<1>3. /\ p \in Request /\ Shape(p) /\ Answered(p) /\ SameHandle(q, p) /\ p.setCookie = Keep
      /\ p.status = "failed"
  BY <1>1, <1>2, AnswerShape
<1> HIDE DEF p
<1>4. Follows(r, p)
  BY <1>3, AnswerFollows DEF SameHandle
<1> QED BY <1>1, <1>3, <1>4, LocalStep DEF UpstreamFails

\* The backend's response decides how the session is processed.
LEMMA UpstreamRespondsInv ==
    ASSUME ProxyInv, NEW r \in REQ, UpstreamResponds(r)
    PROVE  ProxyInv'
<1>1. PICK resp \in RESPONSE : Become(r, Process([req[r] EXCEPT !.resp = resp]))
  BY DEF UpstreamResponds
<1> DEFINE q == req[r]
           u == [q EXCEPT !.resp = resp]
           p == Process(u)
<1>2. q \in Request /\ Shape(q) /\ q.pc = "upstream" /\ resp \in Response
  BY RequestFacts, ProxyAssumption DEF UpstreamResponds, At
<1>3. /\ u \in Request
      /\ u.resp = resp /\ u.pc = q.pc /\ u.sid = q.sid /\ u.key = q.key /\ u.rewrite = q.rewrite
      /\ u.setCookie = q.setCookie /\ u.live = q.live /\ u.locked = q.locked /\ u.row = q.row
      /\ u.status = q.status /\ u.labels = q.labels /\ u.required = q.required
  <2>1. u \in Request
    BY <1>2, Update
  <2> QED BY <1>2, <2>1 DEF Request
<1>4. SameHandle(q, u)
  BY <1>3 DEF SameHandle
<1>5. Become(r, p)
  BY <1>1
<1> HIDE DEF u
<1>6. CASE u.resp.revoke /\ u.resolveErr
  <2>1. p = ProcessError(u)
    BY <1>6 DEF Process
  <2>2. (u.live => u.sid \in SID /\ u.key \in KEY) /\ (u.locked => u.live) /\ u.resp \in Response
    BY <1>2, <1>3 DEF Shape
  <2>3. /\ p \in Request /\ Shape(p) /\ Answered(p) /\ SameHandle(u, p) /\ p.setCookie = Keep
        /\ ~(p.status = "ok" /\ p.resp.revoke)
    BY <1>3, <2>1, <2>2, ProcessErrorShape
  <2> HIDE DEF p
  <2>4. Follows(r, p)
    BY <1>4, <2>3, AnswerFollows DEF SameHandle
  <2> QED BY <1>5, <2>3, <2>4, LocalStep DEF UpstreamResponds
<1>7. CASE ~(u.resp.revoke /\ u.resolveErr)
  <2>1. InProcess(u)
    BY <1>2, <1>3, <1>7 DEF InProcess, Shape, Arriving, Applying, Answered
  <2>2. Proceeds(u, p)
    <3>1. CASE u.live /\ Synchronize
      <4>1. p = [u EXCEPT !.pc = "lock"]
        BY <1>7, <3>1 DEF Process
      <4>2. Proceeds(u, [u EXCEPT !.pc = "lock"])
        BY <2>1, <3>1, GotoProceeds
      <4> QED BY <4>1, <4>2
    <3>2. CASE ~(u.live /\ Synchronize)
      <4>1. p = ProcessLocked(u)
        BY <1>7, <3>2 DEF Process
      <4> QED BY <2>1, <4>1, ProcessLockedProceeds
    <3> QED BY <3>1, <3>2
  <2> HIDE DEF p
  <2>3. Follows(r, p)
    BY <1>2, <1>3, <1>4, <2>1, <2>2, ProceedsFollows
  <2>4. p \in Request /\ Shape(p)
    BY <2>2 DEF Proceeds
  <2> QED BY <1>5, <2>3, <2>4, LocalStep DEF UpstreamResponds
<1> QED BY <1>6, <1>7

\* Taking and releasing a lock keep the type of the locks.
LEMMA LockTypes ==
    ASSUME ProxyInv, NEW r \in REQ, NEW id \in SID, Lock(id, r) \/ Unlock(id, r)
    PROVE  locks' \in [SID -> HOLDER \union {None}]
BY ProxyAssumption DEF ProxyInv, StoreInv, StoreTypeOK, Lock, Unlock

\* WithLock: the lock is taken or the response fails.
LEMMA TakeLockInv ==
    ASSUME ProxyInv, NEW r \in REQ, TakeLock(r)
    PROVE  ProxyInv'
<1> DEFINE q == req[r]
           u == [q EXCEPT !.locked = TRUE]
           p == ProcessLocked(u)
<1>1. q \in Request /\ Shape(q) /\ q.pc = "lock" /\ q.live /\ q.sid \in SID
  BY RequestFacts DEF TakeLock, At, Shape
<1>2. /\ UNCHANGED <<rowVars, now, jar, mintedSid, mintedKey, granted>>
      /\ faults' \in 0 .. MaxFaults
  BY DEF TakeLock, ProxyInv, BookTypeOK
<1>3. CASE LockFree(q.sid)
  <2>1. Lock(q.sid, r) /\ Become(r, p)
    BY <1>3 DEF TakeLock
  <2>2. locks' \in [SID -> HOLDER \union {None}]
    BY <1>1, <2>1, LockTypes
  <2>3. /\ u \in Request
        /\ u.resp = q.resp /\ u.pc = q.pc /\ u.sid = q.sid /\ u.key = q.key /\ u.rewrite = q.rewrite
        /\ u.setCookie = q.setCookie /\ u.live = q.live /\ u.row = q.row /\ u.resolveErr = q.resolveErr
        /\ u.status = q.status /\ u.labels = q.labels /\ u.required = q.required
    <3>1. u \in Request
      BY <1>1, Update
    <3> QED BY <1>1, <3>1 DEF Request
  <2> HIDE DEF u
  <2>4. SameHandle(q, u)
    BY <2>3 DEF SameHandle
  <2>5. InProcess(u)
    BY <1>1, <2>3 DEF InProcess, Shape, Responding, Applying, Answered
  <2>6. Proceeds(u, p)
    BY <2>5, ProcessLockedProceeds
  <2> HIDE DEF p
  <2>7. Follows(r, p)
    BY <1>1, <2>3, <2>4, <2>5, <2>6, ProceedsFollows
  <2>8. p \in Request /\ Shape(p)
    BY <2>6 DEF Proceeds
  <2> QED BY <1>2, <2>1, <2>2, <2>7, <2>8, LockStep
<1>4. CASE ~LockFree(q.sid)
  <2>1. Become(r, ProcessError(q)) /\ locks' \in [SID -> HOLDER \union {None}]
    BY <1>4 DEF TakeLock, ProxyInv, StoreInv, StoreTypeOK
  <2> QED BY <1>1, <1>2, <2>1, ProcessErrorOK, LockStep DEF Responding
<1> QED BY <1>3, <1>4

\* The logout deletes its session before it is answered.
LEMMA RevokeInv ==
    ASSUME ProxyInv, NEW r \in REQ, Revoke(r)
    PROVE  ProxyInv'
<1> DEFINE q == req[r]
           cookie == ExpiredCookie(q)
           p == Answer(q, "ok", cookie)
<1>1. q \in Request /\ Shape(q) /\ q.pc = "revoke" /\ q.live /\ q.sid \in SID
  BY RequestFacts DEF Revoke, At, Shape
<1>2. Become(r, p) /\ cookie \in {None, Keep}
  BY DEF Revoke, ExpiredCookie
<1> HIDE DEF cookie
<1>3. StoreInv' /\ QuietStore /\ sessions'[q.sid] = None /\ BookTypeOK' /\ jar' = jar
  <2>1. StoreInv' /\ QuietStore /\ sessions'[q.sid] = None
    BY <1>1, DeleteQuiet DEF Revoke, ProxyInv, Live
  <2>2. BookTypeOK' /\ jar' = jar
    BY DEF Revoke, ProxyInv, BookTypeOK
  <2> QED BY <2>1, <2>2
<1>4. CanAnswer(q, "ok") /\ "ok" \in Outcome
  BY <1>1 DEF CanAnswer, Outcome, Shape, Responding
<1>5. p \in Request /\ Shape(p) /\ Answered(p) /\ SameHandle(q, p) /\ p.setCookie = cookie
  BY <1>1, <1>2, <1>4, AnswerShape
<1> HIDE DEF p
<1>6. Follows(r, p)
  BY <1>2, <1>3, <1>5, AnswerFollows DEF SameHandle
<1> QED BY <1>2, <1>3, <1>5, <1>6, QuietStep DEF Become

\* The time stamp of the commit is read before the row.
LEMMA ApplyClockInv ==
    ASSUME ProxyInv, NEW r \in REQ, ApplyClock(r)
    PROVE  ProxyInv'
<1> DEFINE q == req[r]
           p == [q EXCEPT !.pc = "applyget", !.t = now]
<1>1. /\ q \in Request /\ Shape(q) /\ q.pc = "applyclock" /\ Become(r, p)
      /\ now \in Nat /\ now # 0
  BY RequestFacts DEF ApplyClock, At, ProxyInv, StoreInv, StoreTypeOK, BookTypeOK
<1>2. p \in Request
  <2>1. "applyget" \in PC
    BY DEF PC, StoreCalls, ResponseCalls
  <2> QED BY <1>1, <2>1, Update
<1>3. /\ p.pc = "applyget" /\ p.t = now /\ p.sid = q.sid /\ p.key = q.key /\ p.status = q.status
      /\ p.setCookie = q.setCookie /\ p.live = q.live /\ p.locked = q.locked
      /\ p.rewrite = q.rewrite /\ p.labels = q.labels /\ p.required = q.required
      /\ p.resp = q.resp /\ p.resolveErr = q.resolveErr
  BY <1>1 DEF Request
<1> HIDE DEF p
<1>4. /\ q.status = None /\ q.live /\ q.sid \in SID /\ q.key \in KEY /\ q.resp \in Response
      /\ ~q.resp.revoke
      /\ q.required # None => q.live /\ ~q.rewrite /\ q.required \in q.labels
  BY <1>1 DEF Shape, Applying, Answered, Responding, Mutating
<1>5. Shape(p)
  BY <1>1, <1>3, <1>4, ProxySentinels
  DEF Shape, Resolving, Creating, HasRow, Arriving, Applying, Responding, Mutating, Answered
<1>6. Follows(r, p)
  BY <1>1, <1>3, <1>4, ProxySentinels DEF Follows, Own, Creating, Applying, HasRow, Handled
<1> QED BY <1>1, <1>2, <1>5, <1>6, LocalStep DEF ApplyClock

\* An answered request moves on to its client.
LEMMA SettledStep ==
    ASSUME ProxyInv, NEW r \in REQ, Answered(req[r]), NEW c \in {"reply", "done", "lost"}
    PROVE  LET p == [req[r] EXCEPT !.pc = c] IN
           /\ p \in Request /\ Shape(p) /\ Follows(r, p) /\ Answered(p) /\ SameHandle(req[r], p)
           /\ p.setCookie = req[r].setCookie /\ p.live = req[r].live
           /\ p.status = req[r].status /\ p.resp = req[r].resp
<1> DEFINE q == req[r]
           p == [q EXCEPT !.pc = c]
<1>1. q \in Request /\ Shape(q)
  BY RequestFacts
<1>2. p \in Request
  <2>1. c \in PC
    BY DEF PC
  <2> QED BY <1>1, <2>1, Update
<1>3. /\ p.pc = c /\ p.sid = q.sid /\ p.key = q.key /\ p.status = q.status /\ p.row = q.row
      /\ p.setCookie = q.setCookie /\ p.live = q.live /\ p.locked = q.locked
      /\ p.rewrite = q.rewrite /\ p.labels = q.labels /\ p.resp = q.resp
      /\ p.resolveErr = q.resolveErr
  BY <1>1 DEF Request
<1> HIDE DEF p
<1>4. Answered(p) /\ SameHandle(q, p)
  BY <1>3 DEF Answered, SameHandle
<1>5. Shape(p)
  <2>1. p.pc \notin Arriving \union HasRow \union Responding \union Creating \union {"unlock"}
    BY <1>3 DEF Arriving, Resolving, HasRow, Responding, Mutating, Creating, Applying
  <2> QED BY <1>1, <1>3, <1>4, <2>1 DEF Shape, Arriving, Responding, Mutating, Applying
<1>6. Follows(r, p)
  BY <1>3 DEF Follows, Own, Creating, Applying, HasRow, Handled
<1> QED BY <1>2, <1>3, <1>4, <1>5, <1>6 DEF p

\* The lock is released after the answer is settled.
LEMMA ReleaseLockInv ==
    ASSUME ProxyInv, NEW r \in REQ, ReleaseLock(r)
    PROVE  ProxyInv'
<1> DEFINE p == [req[r] EXCEPT !.pc = "reply"]
<1>1. Answered(req[r]) /\ req[r].sid \in SID
  BY RequestFacts DEF ReleaseLock, At, Answered, Shape
<1>2. Become(r, p) /\ locks' \in [SID -> HOLDER \union {None}]
  BY <1>1, LockTypes DEF ReleaseLock, Goto
<1>3. p \in Request /\ Shape(p) /\ Follows(r, p)
  BY <1>1, SettledStep
<1> HIDE DEF p
<1>4. /\ UNCHANGED <<rowVars, now, jar, mintedSid, mintedKey, granted>>
      /\ faults' \in 0 .. MaxFaults
  BY DEF ReleaseLock, ProxyInv, BookTypeOK
<1> QED BY <1>2, <1>3, <1>4, LockStep

\* A response that is lost changes nothing else.
LEMMA DisconnectInv ==
    ASSUME ProxyInv, NEW r \in REQ, Disconnect(r)
    PROVE  ProxyInv'
<1> DEFINE p == [req[r] EXCEPT !.pc = "lost"]
<1>1. Answered(req[r]) /\ Become(r, p)
  BY DEF Disconnect, At, Answered, Goto
<1>2. p \in Request /\ Shape(p) /\ Follows(r, p)
  BY <1>1, SettledStep
<1> HIDE DEF p
<1> QED BY <1>1, <1>2, LocalStep DEF Disconnect

\* The rows, ids and locks stay; the jar takes over the cookie of r.
LEMMA DeliverInv ==
    ASSUME ProxyInv, NEW r \in REQ, Deliver(r)
    PROVE  ProxyInv'
<1> DEFINE q == req[r]
           p == [q EXCEPT !.pc = "done"]
<1>1. Answered(q) /\ req' = [req EXCEPT ![r] = p] /\ q \in Request /\ Shape(q) /\ RequestInv(r)
  BY RequestFacts DEF Deliver, At, Answered, Goto, Become, ProxyInv
<1>2. /\ p \in Request /\ Shape(p) /\ Answered(p) /\ SameHandle(q, p)
      /\ p.setCookie = q.setCookie /\ p.live = q.live /\ p.status = q.status /\ p.resp = q.resp
  BY <1>1, SettledStep
<1> HIDE DEF p
<1>3. StoreInv' /\ QuietStore
  BY IdleStore DEF Deliver, storeVars, rowVars, ProxyInv, StoreInv, StoreTypeOK
<1>4. \A c \in CLIENT : jar'[c] = jar[c] \/ (jar'[c] = q.setCookie /\ q.setCookie # Keep)
  BY DEF Deliver, ProxyInv, BookTypeOK
<1>5. BookTypeOK'
  <2>1. jar' \in [CLIENT -> KEY \union {None}]
    BY <1>1 DEF Deliver, ProxyInv, BookTypeOK, Request
  <2> QED BY <2>1 DEF Deliver, storeVars, ProxyInv, BookTypeOK
<1>6. KeyEffect(r, None)
  BY <1>3, ProxySentinels DEF KeyEffect, QuietStore
<1>7. IdEffect(r, p, None)
  BY <1>2, <1>3, <1>4, ProxySentinels
  DEF IdEffect, QuietStore, SameHandle, ProxyInv, KeyInv, KnownIds
<1>8. RequestInv(r)'
  <2>1. req'[r] = p
    BY <1>1 DEF ProxyInv
  <2>2. Private(r)' /\ Current(r)'
    BY <1>2, <2>1 DEF Private, Current, Own, Answered, Creating, Applying, HasRow, Handled
  <2>3. Finished(r)'
    BY <1>1, <1>2, <2>1 DEF RequestInv, Finished, SameHandle, Live, Deliver, storeVars
  <2> QED BY <1>2, <2>1, <2>2, <2>3 DEF RequestInv, Shape, Answered
<1> QED BY <1>1, <1>2, <1>3, <1>5, <1>6, <1>7, <1>8, StepInv

\* A new request starts with the key in its browser's jar.
LEMMA SendInv ==
    ASSUME ProxyInv, NEW r \in REQ, Send(r)
    PROVE  ProxyInv'
<1>1. PICK c \in CLIENT, need \in REQUIRED :
          Become(r, [IdleRequest EXCEPT
              !.pc = IF jar[c] = None THEN "authz" ELSE "getkey",
              !.client = c, !.presented = jar[c], !.key = jar[c], !.required = need,
              !.target = IF jar[c] = None THEN None ELSE keys[jar[c]]])
  BY DEF Send
<1> DEFINE next == IF jar[c] = None THEN "authz" ELSE "getkey"
           aim == IF jar[c] = None THEN None ELSE keys[jar[c]]
           j == jar[c]
           p == [IdleRequest EXCEPT !.pc = next, !.client = c, !.presented = j, !.key = j,
                                    !.required = need, !.target = aim]
<1>2. req' = [req EXCEPT ![r] = p] /\ req'[r] = p
  BY <1>1 DEF Become, ProxyInv
<1>3. /\ j \in KEY \union {None} /\ need \in LABEL \union {None} /\ aim \in SID \union {None}
      /\ next \in PC /\ (next = "authz" \/ (next = "getkey" /\ j \in KEY))
  BY ProxyAssumption DEF ProxyInv, BookTypeOK, StoreInv, StoreTypeOK, PC, StoreCalls, ResolveCalls
<1> HIDE DEF next, aim, j
<1>4. IdleRequest \in Request
  BY IdleRequestType
<1>5. p \in Request
  <2>1. [IdleRequest EXCEPT !.pc = next, !.client = c, !.presented = j] \in Request
    BY <1>3, <1>4, Update
  <2>2. [[IdleRequest EXCEPT !.pc = next, !.client = c, !.presented = j]
            EXCEPT !.key = j, !.required = need, !.target = aim] \in Request
    BY <1>3, <2>1, Update
  <2> QED BY <2>2
<1>6. /\ p.pc = next /\ p.presented = j /\ p.key = j /\ p.sid = None /\ p.live = FALSE
      /\ p.rewrite = FALSE /\ p.locked = FALSE /\ p.status = None /\ p.setCookie = Keep
  BY DEF IdleRequest
<1> HIDE DEF p
<1>7. Shape(p)
  BY <1>3, <1>6, ProxySentinels
  DEF Shape, Resolving, Creating, HasRow, Arriving, Applying, Responding, Mutating, Answered
<1>8. StoreInv' /\ QuietStore /\ BookTypeOK' /\ jar' = jar
  BY IdleStore DEF Send, storeVars, rowVars, ProxyInv, StoreInv, StoreTypeOK, BookTypeOK
<1>9. KeyEffect(r, None)
  BY <1>8, ProxySentinels DEF KeyEffect, QuietStore
<1>10. IdEffect(r, p, None)
  BY <1>6, <1>8, ProxySentinels DEF j, IdEffect, QuietStore
<1>11. RequestInv(r)'
  <2>1. Private(r)' /\ Current(r)'
    BY <1>2, <1>3, <1>6 DEF Private, Current, Own, Creating, Applying, HasRow, Handled
  <2>2. Finished(r)'
    BY <1>2, <1>6, ProxySentinels DEF Finished
  <2> QED BY <1>2, <1>7, <2>1, <2>2 DEF RequestInv, Shape, Answered
<1> QED BY <1>2, <1>5, <1>8, <1>9, <1>10, <1>11, StepInv

\* A store call that reports an error leaves its request in order.
LEMMA OnErrorOK ==
    ASSUME ProxyInv, NEW r \in REQ, req[r].pc \in StoreCalls
    PROVE  LET p == OnError(req[r]) IN p \in Request /\ Shape(p) /\ Follows(r, p) /\ ~Own(p)
<1> DEFINE q == req[r]
           p == OnError(q)
<1>1. CASE q.pc \in ResolveCalls
  <2>1. p = ResolveError(q) /\ q.pc \in Resolving \union {"getkey"}
    BY <1>1 DEF OnError, ResolveCalls, ResponseCalls, Resolving
  <2>2. p \in Request /\ Shape(p) /\ Follows(r, p)
    BY <2>1, ResolveErrorOK
  <2> HIDE DEF p
  <2>3. ~Own(p)
    BY <1>1, <2>2 DEF Follows, Own, Creating, Applying, ResolveCalls
  <2> QED BY <2>2, <2>3 DEF p
<1>2. CASE q.pc \in ResponseCalls
  <2>1. p = ProcessError(q) /\ q.pc \in Responding
    BY <1>2 DEF OnError, ResolveCalls, ResponseCalls, Responding, Mutating, Creating, Applying
  <2>2. p \in Request /\ Shape(p) /\ Follows(r, p)
    BY <2>1, ProcessErrorOK
  <2>3. Answered(p)
    BY <2>1, RequestFacts, ProcessErrorShape DEF Shape
  <2> HIDE DEF p
  <2>4. ~Own(p)
    BY <2>3 DEF Answered, Own, Creating, Applying
  <2> QED BY <2>2, <2>4 DEF p
<1>3. CASE q.pc = "expire"
  <2>1. p = Unresolved(q) /\ q.pc \in Resolving \union {"getkey"}
    BY <1>3 DEF OnError, ResolveCalls, ResponseCalls, Resolving
  <2>2. p \in Request /\ Shape(p) /\ Follows(r, p)
    BY <2>1, UnresolvedOK
  <2> HIDE DEF p
  <2>3. ~Own(p)
    BY <1>3, <2>2 DEF Follows, Own, Creating, Applying
  <2> QED BY <2>2, <2>3 DEF p
<1>4. CASE q.pc = "unlock"
  <2>1. p = [q EXCEPT !.pc = "reply"] /\ Answered(q)
    BY <1>4 DEF OnError, ResolveCalls, ResponseCalls, Answered
  <2>2. p \in Request /\ Shape(p) /\ Follows(r, p)
    BY <2>1, SettledStep
  <2> HIDE DEF p
  <2>3. ~Own(p)
    BY <1>4, <2>2 DEF Follows, Own, Creating, Applying
  <2> QED BY <2>2, <2>3 DEF p
<1> QED BY <1>1, <1>2, <1>3, <1>4 DEF StoreCalls

\* A store call that fails without an effect.
LEMMA FailedCallInv ==
    ASSUME ProxyInv, NEW r \in REQ, FailedCall(r)
    PROVE  ProxyInv'
<1>1. /\ UNCHANGED <<rowVars, now, jar, mintedSid, mintedKey, granted>>
      /\ locks' \in [SID -> HOLDER \union {None}] /\ faults' \in 0 .. MaxFaults
  BY ProxyAssumption
  DEF FailedCall, storeVars, rowVars, ProxyInv, StoreInv, StoreTypeOK, BookTypeOK
<1> QED BY <1>1, OnErrorOK, LockStep DEF FailedCall

-----------------------------------------------------------------------------
(* Begin.                                                                  *)

\* An answer that reports no logout puts its request in order.
LEMMA AnsweredInOrder ==
    ASSUME NEW r \in REQ, NEW p, req'[r] = p, Shape(p), Answered(p),
           ~(p.status = "ok" /\ p.resp.revoke /\ p.live)
    PROVE  RequestInv(r)'
<1>1. Private(r)' /\ Current(r)'
  BY DEF Private, Current, Own, Answered, Creating, Applying, HasRow, Handled
<1>2. Finished(r)'
  BY DEF Finished
<1> QED BY <1>1, <1>2 DEF RequestInv, Shape, Answered

\* Begin draws an id and a key nobody else has.
LEMMA BeginClockInv ==
    ASSUME ProxyInv, NEW r \in REQ, BeginClock(r)
    PROVE  ProxyInv'
<1> DEFINE q == req[r]
           id == CHOOSE s \in SID \ mintedSid : TRUE
           k == CHOOSE x \in KEY \ mintedKey : TRUE
           p == [q EXCEPT !.pc = "putsession", !.t = now, !.sid = id, !.key = k]
<1>1. q \in Request /\ Shape(q) /\ q.pc = "begin" /\ now \in Nat /\ KnownIds
  BY RequestFacts DEF BeginClock, At, ProxyInv, StoreInv, StoreTypeOK, KeyInv
<1>2. id \in SID \ mintedSid /\ k \in KEY \ mintedKey
  BY DEF BeginClock, ProxyInv, BookTypeOK
<1>3. /\ req' = [req EXCEPT ![r] = p] /\ req'[r] = p
      /\ mintedSid' = mintedSid \union {id} /\ mintedKey' = mintedKey \union {k}
  BY DEF BeginClock, Become, ProxyInv
<1> HIDE DEF id, k
<1>4. UNCHANGED <<storeVars, jar, faults, granted>>
  BY DEF BeginClock
<1>5. p \in Request
  <2>1. "putsession" \in PC
    BY DEF PC, StoreCalls, ResponseCalls
  <2>2. [q EXCEPT !.pc = "putsession", !.t = now] \in Request
    BY <1>1, <2>1, Update
  <2>3. [[q EXCEPT !.pc = "putsession", !.t = now] EXCEPT !.sid = id, !.key = k] \in Request
    BY <1>2, <2>2, Update
  <2> QED BY <2>3
<1>6. /\ p.pc = "putsession" /\ p.sid = id /\ p.key = k /\ p.setCookie = q.setCookie
      /\ p.live = q.live /\ p.locked = q.locked /\ p.rewrite = q.rewrite /\ p.status = q.status
      /\ p.resp = q.resp /\ p.resolveErr = q.resolveErr /\ p.required = q.required
  BY <1>1 DEF Request
<1> HIDE DEF p
<1>7. Shape(p)
  BY <1>1, <1>2, <1>6, ProxySentinels
  DEF Shape, Resolving, Creating, HasRow, Arriving, Applying, Responding, Mutating, Answered
<1>8. StoreInv' /\ BookTypeOK'
  BY <1>2, <1>3, <1>4 DEF storeVars, ProxyInv, StoreInv, StoreTypeOK, RowInv, RowTypeOK,
                          NothingDangles, OwnerIndexExact, Live, BookTypeOK
<1>9. keys[k] = None /\ granted[k] = None /\ ~Live(id) /\ \A x \in KEY : keys[x] # id
  BY <1>1, <1>2, SentinelAssumption DEF KnownIds, ProxyInv, StoreInv, RowInv, NothingDangles
<1>10. KeyEffect(r, k)
  BY <1>2, <1>4, <1>9 DEF KeyEffect, SameGrant, Live, storeVars
<1>11. IdEffect(r, p, k)
  BY <1>2, <1>3, <1>4, <1>6 DEF IdEffect
<1>12. RequestInv(r)'
  <2>1. \A x \in REQ \ {r} : req'[x].key # k /\ req'[x].sid # id /\ req'[x].setCookie # k
    BY <1>1, <1>2, <1>3, ProxySentinels, SentinelAssumption DEF KnownIds, ProxyInv
  <2>2. \A c \in CLIENT : jar'[c] # k
    BY <1>1, <1>2, <1>4, ProxySentinels DEF KnownIds
  <2>3. granted'[k] = None /\ sessions'[id] = None /\ \A x \in KEY : keys'[x] # id
    BY <1>4, <1>9 DEF storeVars, Live
  <2>4. Private(r)'
    BY <1>3, <1>6, <2>1, <2>2, <2>3 DEF Private, Live
  <2>5. Current(r)'
    BY <1>3, <1>6 DEF Current, HasRow, Handled, Applying
  <2>6. Finished(r)'
    BY <1>1, <1>3, <1>6, ProxySentinels DEF Finished, Shape, Answered
  <2> QED BY <1>3, <1>7, <2>4, <2>5, <2>6 DEF RequestInv, Shape, Answered
<1> QED BY <1>2, <1>3, <1>5, <1>8, <1>10, <1>11, <1>12, StepInv

\* The row of a session under creation appears; no key leads to it yet.
LEMMA PutSessionEffect ==
    ASSUME ProxyInv, NEW r \in REQ, req[r].pc = "putsession",
           PutSession(req[r].sid, BeginRow(req[r].t)),
           UNCHANGED <<locks, now, mintedSid, mintedKey, granted>>
    PROVE  StoreInv' /\ KeyEffect(r, None) /\ UNCHANGED keys
<1> DEFINE q == req[r]
           row == BeginRow(q.t)
<1>1. q \in Request /\ q.sid \in SID /\ Own(q)
  BY RequestFacts DEF Shape, Own, Creating
<1>2. sessions[q.sid] = None /\ \A k \in KEY : keys[k] # q.sid
  BY <1>1 DEF ProxyInv, RequestInv, Private, Live, Creating
<1>3. row \in Session /\ row.owner = NoOwner
  BY <1>1, ManagerAssumption, NewRowIsSession DEF BeginRow, Request
<1>4. RowInv'
  BY <1>1, <1>2, <1>3, PutSessionInv DEF ProxyInv, StoreInv
<1>5. StoreInv'
  BY <1>4 DEF ProxyInv, StoreInv, StoreTypeOK, RowInv, RowTypeOK
<1>6. UNCHANGED keys /\ \A s \in SID \ {q.sid} : sessions'[s] = sessions[s]
  BY DEF PutSession, ProxyInv, StoreInv, StoreTypeOK
<1>7. KeyEffect(r, None)
  BY <1>1, <1>2, <1>6, ProxySentinels
  DEF KeyEffect, SameGrant, Live, ProxyInv, StoreInv, StoreTypeOK
<1> QED BY <1>5, <1>6, <1>7

\* The key of a session under creation comes to work.
LEMMA PutKeyEffect ==
    ASSUME ProxyInv, NEW r \in REQ, req[r].pc = "putkey", PutKey(req[r].key, req[r].sid),
           UNCHANGED <<locks, now, mintedSid, mintedKey, granted>>
    PROVE  /\ StoreInv' /\ KeyEffect(r, req[r].key)
           /\ \A k \in KEY : keys'[k] = req[r].sid => k = req[r].key
<1> DEFINE q == req[r]
<1>1. q.sid \in SID /\ q.key \in KEY /\ Own(q)
  BY RequestFacts DEF Shape, Own, Creating
<1>2. granted[q.key] = None /\ \A k \in KEY : keys[k] # q.sid
  BY <1>1 DEF ProxyInv, RequestInv, Private, Creating
<1>3. RowInv'
  BY <1>1, KeyCallsInv DEF ProxyInv, StoreInv
<1>4. StoreInv'
  BY <1>3 DEF ProxyInv, StoreInv, StoreTypeOK, RowInv, RowTypeOK
<1>5. UNCHANGED sessions /\ keys'[q.key] = q.sid /\ \A k \in KEY \ {q.key} : keys'[k] = keys[k]
  BY <1>1 DEF PutKey, ProxyInv, StoreInv, StoreTypeOK
<1>6. KeyEffect(r, q.key)
  BY <1>1, <1>2, <1>5 DEF KeyEffect, SameGrant, Live
<1> QED BY <1>2, <1>4, <1>5, <1>6

\* The ids of a request that goes on with its handle.
LEMMA SameIds ==
    ASSUME ProxyInv, NEW r \in REQ, NEW p, p.key = req[r].key, p.sid = req[r].sid,
           p.setCookie \in {req[r].setCookie, None, Keep}, NEW j \in {req[r].key, None},
           UNCHANGED <<jar, mintedSid, mintedKey>>
    PROVE  IdEffect(r, p, j)
BY ProxySentinels DEF IdEffect, ProxyInv, KeyInv, KnownIds

\* The row of the new session is written before its key.
LEMMA BeginPutSessionInv ==
    ASSUME ProxyInv, NEW r \in REQ, BeginPutSession(r)
    PROVE  ProxyInv'
<1> DEFINE q == req[r]
           p == [q EXCEPT !.pc = "putkey"]
<1>1. q \in Request /\ Shape(q) /\ q.pc = "putsession" /\ RequestInv(r)
  BY RequestFacts DEF BeginPutSession, At, ProxyInv
<1>2. req' = [req EXCEPT ![r] = p] /\ req'[r] = p /\ \A x \in REQ \ {r} : req'[x] = req[x]
  BY DEF BeginPutSession, Goto, Become, ProxyInv
<1>3. StoreInv' /\ KeyEffect(r, None) /\ UNCHANGED <<keys, jar, granted, mintedSid, mintedKey>>
  BY <1>1, PutSessionEffect DEF BeginPutSession
<1>4. BookTypeOK'
  BY DEF BeginPutSession, ProxyInv, BookTypeOK
<1>5. p \in Request
  <2>1. "putkey" \in PC
    BY DEF PC, StoreCalls, ResponseCalls
  <2> QED BY <1>1, <2>1, Update
<1>6. /\ p.pc = "putkey" /\ p.sid = q.sid /\ p.key = q.key /\ p.setCookie = q.setCookie
      /\ p.live = q.live /\ p.locked = q.locked /\ p.rewrite = q.rewrite /\ p.status = q.status
      /\ p.resp = q.resp /\ p.resolveErr = q.resolveErr /\ p.required = q.required
  BY <1>1 DEF Request
<1> HIDE DEF p
<1>7. Shape(p)
  BY <1>1, <1>6, ProxySentinels
  DEF Shape, Resolving, Creating, HasRow, Arriving, Applying, Responding, Mutating, Answered
<1>8. IdEffect(r, p, None)
  BY <1>3, <1>6, SameIds
<1>9. RequestInv(r)'
  <2>1. Private(r)'
    BY <1>1, <1>2, <1>3, <1>6 DEF RequestInv, Private, Own, Creating
  <2>2. Current(r)'
    BY <1>2, <1>6 DEF Current, HasRow, Handled, Applying
  <2>3. Finished(r)'
    BY <1>1, <1>2, <1>6, ProxySentinels DEF Finished, Shape, Answered
  <2> QED BY <1>2, <1>7, <2>1, <2>2, <2>3 DEF RequestInv, Shape, Answered
<1> QED BY <1>2, <1>3, <1>4, <1>5, <1>8, <1>9, StepInv

\* The key follows, unless the row is gone again.
LEMMA BeginPutKeyInv ==
    ASSUME ProxyInv, NEW r \in REQ, BeginPutKey(r)
    PROVE  ProxyInv'
<1> DEFINE q == req[r]
           p == [q EXCEPT !.pc = "applyclock", !.live = TRUE, !.rewrite = TRUE,
                          !.owner = NoOwner, !.labels = {}]
<1>1. q \in Request /\ Shape(q) /\ q.pc = "putkey" /\ RequestInv(r) /\ q.sid \in SID /\ q.key \in KEY
  BY RequestFacts DEF BeginPutKey, At, ProxyInv, Shape, Creating
<1>2. CASE PutKeyResult(q.sid) = "ok"
  <2>1. /\ req' = [req EXCEPT ![r] = p] /\ req'[r] = p /\ \A x \in REQ \ {r} : req'[x] = req[x]
        /\ PutKey(q.key, q.sid) /\ UNCHANGED <<jar, granted, mintedSid, mintedKey>>
    BY <1>2 DEF BeginPutKey, Become, ProxyInv
  <2>2. /\ StoreInv' /\ KeyEffect(r, q.key) /\ \A k \in KEY : keys'[k] = q.sid => k = q.key
    BY <1>1, <2>1, PutKeyEffect DEF BeginPutKey
  <2>3. BookTypeOK'
    BY DEF BeginPutKey, ProxyInv, BookTypeOK
  <2>4. p \in Request
    <3>1. "applyclock" \in PC
      BY DEF PC
    <3>2. [q EXCEPT !.pc = "applyclock", !.live = TRUE, !.rewrite = TRUE] \in Request
      BY <1>1, <3>1, Update
    <3>3. [[q EXCEPT !.pc = "applyclock", !.live = TRUE, !.rewrite = TRUE]
              EXCEPT !.owner = NoOwner, !.labels = {}] \in Request
      BY <3>2, Update
    <3> QED BY <3>3
  <2>5. /\ p.pc = "applyclock" /\ p.sid = q.sid /\ p.key = q.key /\ p.setCookie = q.setCookie
        /\ p.live = TRUE /\ p.locked = q.locked /\ p.rewrite = TRUE /\ p.status = q.status
        /\ p.resp = q.resp /\ p.resolveErr = q.resolveErr /\ p.required = q.required
    BY <1>1 DEF Request
  <2> HIDE DEF p
  <2>6. Shape(p)
    <3>1. /\ q.required = None /\ q.status = None /\ q.resp \in Response /\ ~q.resp.revoke
          /\ (q.resp.revoke => ~q.resolveErr)
      BY <1>1 DEF Shape, Creating, Responding, Mutating, Answered
    <3> QED BY <1>1, <2>5, <3>1, ProxySentinels
            DEF Shape, Resolving, Creating, HasRow, Arriving, Applying, Responding, Mutating, Answered
  <2>7. IdEffect(r, p, q.key)
    BY <2>1, <2>5, SameIds
  <2>8. RequestInv(r)'
    <3>1. Private(r)'
      BY <1>1, <2>1, <2>2, <2>5 DEF RequestInv, Private, Own, Creating, Applying
    <3>2. Current(r)'
      BY <2>1, <2>5 DEF Current, HasRow
    <3>3. Finished(r)'
      BY <1>1, <2>1, <2>5, ProxySentinels DEF Finished, Shape, Answered
    <3> QED BY <2>1, <2>6, <3>1, <3>2, <3>3 DEF RequestInv, Shape, Answered
  <2> QED BY <1>1, <2>1, <2>2, <2>3, <2>4, <2>7, <2>8, StepInv
<1>3. CASE PutKeyResult(q.sid) # "ok"
  <2>1. /\ Become(r, ProcessError(q)) /\ UNCHANGED <<rowVars, now, jar, mintedSid, mintedKey, granted>>
        /\ locks' \in [SID -> HOLDER \union {None}] /\ faults' \in 0 .. MaxFaults
    BY <1>3 DEF BeginPutKey, ProxyInv, StoreInv, StoreTypeOK, BookTypeOK
  <2> QED BY <1>1, <2>1, ProcessErrorOK, LockStep DEF Responding, Mutating, Creating
<1> QED BY <1>2, <1>3

-----------------------------------------------------------------------------
(* The commit of a response.                                               *)

\* The mutation is well formed if a swap finds a key to draw.
LEMMA ControlsType ==
    ASSUME ProxyInv, NEW row \in Session, NEW key \in KEY, NEW rewrite \in BOOLEAN,
           NEW resp \in Response, NEW t \in Nat \ {0}, NEW fresh,
           Rotates(row, rewrite, resp, t) => fresh \in KEY
    PROVE  Controls(row, key, rewrite, resp, t, fresh) \in ControlsAt(key, {0, t})
<1> DEFINE c == Controls(row, key, rewrite, resp, t, fresh)
           rotate == Rotates(row, rewrite, resp, t)
           setO == OwnerChanges(row, resp)
           setL == LabelsChange(row, resp)
           o == IF setO THEN resp.owner ELSE NoOwner
           l == IF setL THEN resp.labels ELSE {}
           la == IF setO \/ setL \/ resp.cookies # NoMutations THEN t ELSE 0
           lr == IF rotate THEN t ELSE 0
           nk == IF rotate THEN fresh ELSE key
<1>1. c = [setOwner |-> setO, owner |-> o, setLabels |-> setL, labels |-> l, lastAccess |-> la,
           lastRotation |-> lr, rotate |-> rotate, oldKey |-> key, newKey |-> nk,
           cookies |-> resp.cookies]
  BY DEF Controls
<1>2. /\ rotate \in BOOLEAN /\ setO \in BOOLEAN /\ setL \in BOOLEAN
      /\ o \in OWNER \union {NoOwner} /\ (setO <=> o # NoOwner)
      /\ l \in SUBSET LABEL /\ (~setL => l = {})
      /\ la \in {0, t} /\ lr \in {0, t} /\ (rotate <=> lr # 0)
      /\ nk \in KEY /\ (~rotate => nk = key)
      /\ resp.cookies \in [NAME -> VAL \union {None, Keep}]
  <2>1. rotate \in BOOLEAN
    BY DEF Rotates
  <2>2. setO \in BOOLEAN /\ o \in OWNER \union {NoOwner} /\ (setO <=> o # NoOwner)
    BY DEF OwnerChanges, Response
  <2>3. setL \in BOOLEAN /\ l \in SUBSET LABEL /\ (~setL => l = {})
    BY DEF LabelsChange, Response
  <2>4. resp.cookies \in [NAME -> VAL \union {None, Keep}]
    BY DEF Response
  <2> QED BY <2>1, <2>2, <2>3, <2>4
<1> HIDE DEF rotate, setO, setL, o, l, la, lr, nk, c
<1>3. c \in ControlsAt(key, {0, t})
  BY <1>1, <1>2 DEF ControlsAt
<1> QED BY <1>3 DEF c

\* Where a commit starts from.
LEMMA ApplyFacts ==
    ASSUME ProxyInv, NEW r \in REQ, req[r].pc = "apply",
           ResponseControls(req[r]).rotate => KEY # mintedKey
    PROVE  LET q == req[r]
               c == ResponseControls(q)
           IN  /\ q \in Request /\ Shape(q) /\ q.sid \in SID /\ q.key \in KEY /\ q.live
               /\ q.row \in Session /\ q.resp \in Response /\ ~q.resp.revoke /\ q.rewrite \in BOOLEAN
               /\ c \in ControlsAt(q.key, Nat) /\ c \in ControlsAt(q.key, {0, q.t})
               /\ c.oldKey = q.key /\ c.newKey \in KEY
               /\ c.rotate => c.newKey \notin mintedKey /\ ~q.rewrite
               /\ ~c.rotate => c.newKey = q.key
               /\ ~c.rotate /\ ~q.rewrite => ~c.setLabels /\ (RotateOnLogin => ~c.setOwner)
<1> DEFINE q == req[r]
           c == ResponseControls(q)
<1>1. /\ q \in Request /\ Shape(q) /\ q.sid \in SID /\ q.key \in KEY /\ q.live /\ q.t # 0
      /\ q.row \in Session /\ q.resp \in Response /\ ~q.resp.revoke
  BY RequestFacts DEF Shape, Applying, HasRow, Responding, Mutating
<1>2. q.rewrite \in BOOLEAN /\ q.t \in Nat \ {0}
  BY <1>1 DEF Request
<1>3. /\ c.rotate = Rotates(q.row, q.rewrite, q.resp, q.t) /\ c.oldKey = q.key
      /\ c.newKey = IF c.rotate THEN FreshKey ELSE q.key
      /\ c.setLabels = LabelsChange(q.row, q.resp) /\ c.setOwner = OwnerChanges(q.row, q.resp)
  BY DEF ResponseControls, Controls
<1>4. c.rotate => FreshKey \in KEY \ mintedKey
  BY DEF FreshKey, ProxyInv, BookTypeOK
<1>5. c \in ControlsAt(q.key, {0, q.t}) /\ c \in ControlsAt(q.key, Nat)
  <2>1. c \in ControlsAt(q.key, {0, q.t})
    BY <1>1, <1>2, <1>3, <1>4, ControlsType DEF ResponseControls
  <2>2. ControlsAt(q.key, {0, q.t}) \subseteq ControlsAt(q.key, Nat)
    BY <1>2 DEF ControlsAt
  <2> QED BY <2>1, <2>2
<1> HIDE DEF c
<1>6. /\ c.rotate => ~q.rewrite
      /\ ~c.rotate /\ ~q.rewrite => ~c.setLabels /\ (RotateOnLogin => ~c.setOwner)
  BY <1>3 DEF Rotates
<1>7. /\ c.newKey \in KEY /\ (c.rotate => c.newKey \notin mintedKey)
      /\ (~c.rotate => c.newKey = q.key)
  BY <1>1, <1>3, <1>4
<1> QED BY <1>1, <1>2, <1>3, <1>5, <1>6, <1>7 DEF c

\* What the mutation does to the row of its session and to the others.
LEMMA ApplyRows ==
    ASSUME ProxyInv, NEW id \in SID, NEW k \in KEY, NEW c \in ControlsAt(k, Nat),
           ApplySessionControls(id, c)
    PROVE  /\ keys[k] = id /\ sessions[id] \in Session /\ sessions'[id] \in Session
           /\ \A s \in SID \ {id} : sessions'[s] = sessions[s]
           /\ ~c.setLabels => sessions'[id].labels = sessions[id].labels
           /\ ~c.setOwner => sessions'[id].owner = sessions[id].owner
           /\ keys' = SwapKeys(id, c)
           /\ \A s \in SID : Live(s)' <=> Live(s)
<1>1. RowInv'
  BY ApplySessionControlsInv DEF ProxyInv, StoreInv
<1>2. /\ KeyCheck(id, k) = "ok" /\ c.lastAccess \in Nat /\ c.lastRotation \in Nat
      /\ c.owner \in OWNER \union {NoOwner} /\ c.labels \in SUBSET LABEL
  BY DEF ApplySessionControls, ApplyResult, ControlsAt
<1>3. sessions[id] # None /\ keys[k] = id /\ sessions[id] \in Session
  BY <1>2 DEF KeyCheck, ProxyInv, StoreInv, StoreTypeOK
<1> DEFINE s == sessions[id]
           o == IF c.setOwner /\ c.owner # s.owner THEN c.owner ELSE s.owner
           l == IF c.setLabels THEN c.labels ELSE s.labels
           la == Later(c.lastAccess, s.lastAccess)
           lr == Later(c.lastRotation, s.lastRotation)
<1>4. /\ o \in OWNER \union {NoOwner} /\ l \in SUBSET LABEL /\ la \in Nat /\ lr \in Nat
      /\ (~c.setOwner => o = s.owner) /\ (~c.setLabels => l = s.labels)
  BY <1>2, <1>3, LaterIsMax DEF Session
<1>5. sessions' = [sessions EXCEPT ![id] =
                      [s EXCEPT !.owner = o, !.labels = l, !.lastAccess = la, !.lastRotation = lr]]
  BY <1>3 DEF ApplySessionControls, Session
<1> HIDE DEF o, l, la, lr
<1>6. /\ sessions'[id] = [s EXCEPT !.owner = o, !.labels = l, !.lastAccess = la, !.lastRotation = lr]
      /\ \A x \in SID \ {id} : sessions'[x] = sessions[x]
  BY <1>5 DEF ProxyInv, StoreInv, StoreTypeOK
<1>7. sessions'[id].labels = l /\ sessions'[id].owner = o /\ sessions'[id] \in Session
  BY <1>3, <1>4, <1>6 DEF Session
<1>8. keys' = SwapKeys(id, c)
  BY DEF ApplySessionControls
<1>9. \A x \in SID : Live(x)' <=> Live(x)
  BY <1>3, <1>6, <1>7, SentinelAssumption DEF Live
<1> QED BY <1>3, <1>4, <1>6, <1>7, <1>8, <1>9

\* The key a request works with after its commit is new, or still private to it, or
\* the commit has changed no grant.
LEMMA CommitEffect ==
    ASSUME ProxyInv, NEW r \in REQ, req[r].pc = "apply",
           Commits(req[r], ResponseControls(req[r])),
           UNCHANGED <<locks, now, mintedSid>>,
           LET c == ResponseControls(req[r]) IN
           \/ granted' = granted
           \/ /\ req[r].rewrite \/ c.rotate
              /\ granted' = [granted EXCEPT ![c.newKey] = Grant(req[r].sid, sessions'[req[r].sid])]
    PROVE  /\ StoreInv' /\ granted' \in [KEY -> Granted \union {None}]
           /\ mintedKey \subseteq mintedKey' /\ mintedKey' \subseteq KEY
           /\ \E j \in KEY \union {None} :
                 /\ KeyEffect(r, j) /\ (j \in KEY => j \in mintedKey')
                 /\ ResponseControls(req[r]).newKey \in {req[r].key, j}
<1> DEFINE q == req[r]
           c == ResponseControls(q)
<1>1. /\ q \in Request /\ Shape(q) /\ q.sid \in SID /\ q.key \in KEY /\ q.rewrite \in BOOLEAN
      /\ c \in ControlsAt(q.key, Nat) /\ c.oldKey = q.key /\ c.newKey \in KEY
      /\ (c.rotate => c.newKey \notin mintedKey /\ ~q.rewrite)
      /\ (~c.rotate => c.newKey = q.key)
      /\ (~c.rotate /\ ~q.rewrite => ~c.setLabels /\ (RotateOnLogin => ~c.setOwner))
  BY ApplyFacts DEF Commits
<1>2. /\ ApplySessionControls(q.sid, c)
      /\ mintedKey' = IF c.rotate THEN mintedKey \union {c.newKey} ELSE mintedKey
      /\ \/ granted' = granted
         \/ /\ q.rewrite \/ c.rotate
            /\ granted' = [granted EXCEPT ![c.newKey] = Grant(q.sid, sessions'[q.sid])]
  BY DEF Commits
<1> HIDE DEF c
<1>3. StoreInv'
  <2>1. RowInv'
    BY <1>1, <1>2, ApplySessionControlsInv DEF ProxyInv, StoreInv
  <2> QED BY <2>1 DEF ProxyInv, StoreInv, StoreTypeOK, RowInv, RowTypeOK
<1>4. /\ keys[q.key] = q.sid /\ sessions'[q.sid] \in Session
      /\ \A s \in SID \ {q.sid} : sessions'[s] = sessions[s]
      /\ ~c.setLabels => sessions'[q.sid].labels = sessions[q.sid].labels
      /\ ~c.setOwner => sessions'[q.sid].owner = sessions[q.sid].owner
      /\ keys' = SwapKeys(q.sid, c)
      /\ \A s \in SID : Live(s)' <=> Live(s)
  BY <1>1, <1>2, ApplyRows
<1>5. granted \in [KEY -> Granted \union {None}] /\ mintedKey \subseteq KEY
  BY DEF ProxyInv, BookTypeOK
<1>6. granted' \in [KEY -> Granted \union {None}]
  <2>1. Grant(q.sid, sessions'[q.sid]) \in Granted
    BY <1>1, <1>4 DEF Grant, Granted, Session
  <2> QED BY <1>2, <1>5, <2>1
<1>7. mintedKey \subseteq mintedKey' /\ mintedKey' \subseteq KEY
  BY <1>1, <1>2, <1>5
<1>8. keys \in [KEY -> SID \union {None}] /\ None \notin SID /\ None \notin KEY
  BY SentinelAssumption, ProxySentinels DEF ProxyInv, StoreInv, StoreTypeOK
<1>9. \A k \in KEY : keys[k] = q.sid => k = q.key
  BY <1>1, <1>4, <1>8 DEF ProxyInv, KeyInv, SingleKey
<1>10. q.key \in mintedKey /\ \A k \in KEY : granted[k] # None => k \in mintedKey
  BY <1>1, <1>8 DEF ProxyInv, KeyInv, KnownIds
<1>11. \A k \in KEY : keys[k] \in SID /\ keys[k] # q.sid => SameGrant(keys[k])
  BY <1>4 DEF SameGrant
<1>12. CASE c.rotate
  <2> DEFINE j == c.newKey
  <2>1. j # q.key /\ j \notin mintedKey /\ j \in KEY /\ granted[j] = None
    BY <1>1, <1>10, <1>12
  <2>2. /\ keys'[j] = q.sid /\ keys'[q.key] = None
        /\ \A k \in KEY \ {j, q.key} : keys'[k] = keys[k]
    BY <1>1, <1>4, <1>8, <1>12, <2>1 DEF SwapKeys
  <2>3. \A k \in KEY \ {j} : granted'[k] = granted[k]
    BY <1>2, <1>5
  <2>4. granted'[j] # None => granted'[j] = Grant(q.sid, sessions'[q.sid])
    BY <1>2, <1>5, <2>1
  <2> HIDE DEF j
  <2>5. \A k \in KEY \ {j} : keys'[k] # None => keys'[k] = keys[k] /\ keys[k] # q.sid
    BY <1>9, <2>2
  <2>6. KeyEffect(r, j)
    BY <1>1, <1>4, <1>8, <1>11, <2>1, <2>2, <2>3, <2>4, <2>5 DEF KeyEffect
  <2>7. j \in mintedKey' /\ c.newKey = j
    BY <1>2, <1>12 DEF j
  <2> QED BY <1>3, <1>6, <1>7, <2>1, <2>6, <2>7 DEF c
<1>13. CASE ~c.rotate /\ q.rewrite
  <2>1. Own(q) /\ keys' = keys /\ c.newKey = q.key
    BY <1>1, <1>4, <1>13 DEF SwapKeys, Own, Applying
  <2>2. granted[q.key] = None
    BY <2>1 DEF ProxyInv, RequestInv, Private
  <2>3. /\ \A k \in KEY \ {q.key} : granted'[k] = granted[k]
        /\ granted'[q.key] # None => granted'[q.key] = Grant(q.sid, sessions'[q.sid])
    BY <1>1, <1>2, <1>5, <2>1, <2>2
  <2>4. \A k \in KEY \ {q.key} : keys'[k] # None => keys'[k] = keys[k] /\ keys[k] # q.sid
    BY <1>9, <2>1
  <2>5. KeyEffect(r, q.key)
    BY <1>1, <1>4, <1>8, <1>11, <2>1, <2>3, <2>4 DEF KeyEffect
  <2> QED BY <1>1, <1>3, <1>6, <1>7, <1>10, <2>1, <2>5 DEF c
<1>14. CASE ~c.rotate /\ ~q.rewrite
  <2>1. keys' = keys /\ granted' = granted /\ c.newKey = q.key
    BY <1>1, <1>2, <1>4, <1>14 DEF SwapKeys
  <2>2. SameGrant(q.sid)
    BY <1>1, <1>4, <1>14 DEF SameGrant
  <2>3. KeyEffect(r, None)
    BY <1>4, <1>8, <1>11, <2>1, <2>2 DEF KeyEffect
  <2> QED BY <1>3, <1>6, <1>7, <1>8, <2>1, <2>3 DEF c
<1> QED BY <1>1, <1>12, <1>13, <1>14

\* The answer to a response that was applied.
AppliedAnswer(q, c) == Answer(Applied(q, c), "ok", ProxyCookie(Applied(q, c)))

\* The answer after a commit carries the new key or no cookie.
LEMMA AppliedShape ==
    ASSUME NEW q \in Request, q.sid \in SID, q.live, q.resp \in Response, ~q.resp.revoke,
           NEW c, c.newKey \in KEY, c.rotate \in BOOLEAN
    PROVE  LET p == AppliedAnswer(q, c) IN
           /\ p \in Request /\ Shape(p) /\ Answered(p)
           /\ p.sid = q.sid /\ p.key = c.newKey /\ p.setCookie \in {c.newKey, Keep}
           /\ ~p.resp.revoke
<1> DEFINE a == Applied(q, c)
           o == IF q.resp.owner # NoOwner THEN q.resp.owner ELSE q.owner
           l == IF q.resp.labels # Keep THEN q.resp.labels ELSE q.labels
           k == c.newKey
           w == q.rewrite \/ c.rotate
           s == c.rotate
           cookie == ProxyCookie(a)
           p == Answer(a, "ok", cookie)
<1>1. /\ o \in OWNER \union {NoOwner} /\ l \in SUBSET LABEL /\ k \in KEY /\ w \in BOOLEAN
      /\ s \in BOOLEAN
  BY DEF Request, Response
<1>2. a = [q EXCEPT !.owner = o, !.labels = l, !.key = k, !.rewrite = w, !.swapped = s,
                    !.row = None, !.t = 0]
  BY DEF Applied
<1> HIDE DEF o, l, k, w, s
<1>3. a \in Request
  <2>1. [q EXCEPT !.owner = o, !.labels = l, !.key = k] \in Request
    BY <1>1, Update
  <2>2. [[q EXCEPT !.owner = o, !.labels = l, !.key = k] EXCEPT !.rewrite = w, !.swapped = s]
            \in Request
    BY <1>1, <2>1, Update
  <2>3. [[[q EXCEPT !.owner = o, !.labels = l, !.key = k] EXCEPT !.rewrite = w, !.swapped = s]
            EXCEPT !.row = None, !.t = 0] \in Request
    BY <2>2, Update
  <2> QED BY <1>2, <2>3
<1>4. a.key = k /\ a.sid = q.sid /\ a.live = q.live /\ a.resp = q.resp /\ a.locked = q.locked
  BY <1>2 DEF Request
<1>5. cookie \in {k, Keep}
  BY <1>4 DEF ProxyCookie
<1>6. CanAnswer(a, "ok") /\ "ok" \in Outcome
  BY <1>1, <1>4 DEF CanAnswer, Outcome
<1> HIDE DEF a, cookie
<1>7. /\ p \in Request /\ Shape(p) /\ Answered(p) /\ SameHandle(a, p)
      /\ p.setCookie = cookie /\ p.resp = a.resp
  BY <1>1, <1>3, <1>5, <1>6, AnswerShape
<1>8. p = AppliedAnswer(q, c)
  BY DEF AppliedAnswer, cookie, a
<1> HIDE DEF p
<1>9. p.sid = q.sid /\ p.key = k /\ p.setCookie \in {k, Keep} /\ ~p.resp.revoke
  BY <1>4, <1>5, <1>7 DEF SameHandle
<1> QED BY <1>7, <1>8, <1>9 DEF k

\* The row is read back; a response without an effect is answered at once.
LEMMA ApplyGetSessionInv ==
    ASSUME ProxyInv, NEW r \in REQ, ApplyGetSession(r)
    PROVE  ProxyInv'
<1> DEFINE q == req[r]
           s == sessions[q.sid]
           u == [q EXCEPT !.row = s]
           c == ResponseControls(u)
<1>1. /\ q \in Request /\ Shape(q) /\ q.pc = "applyget" /\ q.live /\ q.sid \in SID /\ q.key \in KEY
      /\ q.resp \in Response /\ ~q.resp.revoke /\ q.t # 0 /\ q.status = None
      /\ (q.required # None => q.live /\ ~q.rewrite /\ q.required \in q.labels)
  BY RequestFacts DEF ApplyGetSession, At, Shape, Applying, Responding, Mutating, Answered
<1>2. s \in Session \union {None}
  BY <1>1 DEF ProxyInv, StoreInv, StoreTypeOK
<1>3. CASE s = None
  <2>1. Become(r, ProcessError(q))
    BY <1>3 DEF ApplyGetSession
  <2> QED BY <1>1, <2>1, ProcessErrorOK, LocalStep
          DEF ApplyGetSession, Responding, Mutating, Applying
<1>4. CASE s # None
  <2>1. /\ u \in Request
        /\ u.pc = q.pc /\ u.sid = q.sid /\ u.key = q.key /\ u.row = s /\ u.status = q.status
        /\ u.live = q.live /\ u.resp = q.resp /\ u.t = q.t /\ u.rewrite = q.rewrite
        /\ u.labels = q.labels /\ u.required = q.required /\ u.setCookie = q.setCookie
        /\ u.locked = q.locked /\ u.resolveErr = q.resolveErr
    <3> HIDE DEF s
    <3>1. u \in Request
      BY <1>1, <1>2, Update
    <3> QED BY <1>1, <3>1, ZenonT(30) DEF Request
  <2>2. CASE NoEffect(c)
    <3> DEFINE p == AppliedAnswer(u, c)
    <3>1. Become(r, p)
      BY <1>4, <2>2 DEF ApplyGetSession, AppliedAnswer
    <3>2. c.rotate = FALSE /\ c.newKey = q.key
      BY <2>1, <2>2 DEF NoEffect, ResponseControls, Controls, Rotates
    <3> HIDE DEF c, u
    <3>3. /\ p \in Request /\ Shape(p) /\ Answered(p) /\ p.sid = q.sid /\ p.key = q.key
          /\ p.setCookie \in {q.key, Keep} /\ ~p.resp.revoke
      BY <1>1, <2>1, <3>2, AppliedShape
    <3> HIDE DEF p
    <3>4. Follows(r, p)
      BY <3>3, AnswerFollows
    <3> QED BY <3>1, <3>3, <3>4, LocalStep DEF ApplyGetSession
  <2>3. CASE ~NoEffect(c)
    <3> DEFINE p == [u EXCEPT !.pc = "apply"]
    <3>1. Become(r, p)
      BY <1>4, <2>3 DEF ApplyGetSession
    <3> HIDE DEF u, s
    <3>2. p \in Request
      <4>1. "apply" \in PC
        BY DEF PC, StoreCalls, ResponseCalls
      <4> QED BY <2>1, <4>1, Update
    <3>3. /\ p.pc = "apply" /\ p.sid = q.sid /\ p.key = q.key /\ p.row = s /\ p.status = q.status
          /\ p.live = q.live /\ p.resp = q.resp /\ p.t = q.t /\ p.rewrite = q.rewrite
          /\ p.labels = q.labels /\ p.required = q.required /\ p.setCookie = q.setCookie
          /\ p.locked = q.locked /\ p.resolveErr = q.resolveErr
      BY <2>1 DEF Request
    <3> HIDE DEF p
    <3>4. Shape(p)
      BY <1>1, <1>2, <1>4, <3>3, ProxySentinels
      DEF Shape, Resolving, Creating, HasRow, Arriving, Applying, Responding, Mutating, Answered
    <3>5. Follows(r, p)
      BY <1>1, <3>3, ProxySentinels DEF s, Follows, Own, Creating, Applying, HasRow, Handled
    <3> QED BY <3>1, <3>2, <3>4, <3>5, LocalStep DEF ApplyGetSession
  <2> QED BY <2>2, <2>3
<1> QED BY <1>3, <1>4

\* The commit and the answer that hands the new key out.
LEMMA ApplyInv ==
    ASSUME ProxyInv, NEW r \in REQ, Apply(r)
    PROVE  ProxyInv'
<1> DEFINE q == req[r]
           c == ResponseControls(q)
           a == Applied(q, c)
           p == AppliedAnswer(q, c)
<1>1. q.pc = "apply"
  BY DEF Apply, At
<1>2. CASE ApplyResult(q.sid, c) = "ok"
  <2>1. /\ Commits(q, c) /\ req' = [req EXCEPT ![r] = p]
        /\ UNCHANGED <<locks, now, jar, mintedSid, faults>>
        /\ granted' = IF a.rewrite THEN [granted EXCEPT ![a.key] = Grant(q.sid, sessions'[q.sid])]
                                   ELSE granted
    BY <1>2 DEF Apply, AppliedAnswer, Become
  <2>2. /\ q \in Request /\ q.sid \in SID /\ q.live /\ q.resp \in Response /\ ~q.resp.revoke
        /\ c.newKey \in KEY /\ c \in ControlsAt(q.key, Nat)
    BY <1>1, <2>1, ApplyFacts DEF Commits
  <2>3. c.rotate \in BOOLEAN
    BY <2>2 DEF ControlsAt
  <2>4. a.key = c.newKey /\ a.rewrite = (q.rewrite \/ c.rotate)
    BY <2>2 DEF Applied, Request
  <2>5. \/ granted' = granted
        \/ /\ q.rewrite \/ c.rotate
           /\ granted' = [granted EXCEPT ![c.newKey] = Grant(q.sid, sessions'[q.sid])]
    BY <2>1, <2>4
  <2>6. /\ StoreInv' /\ granted' \in [KEY -> Granted \union {None}]
        /\ mintedKey \subseteq mintedKey' /\ mintedKey' \subseteq KEY
        /\ \E j \in KEY \union {None} : /\ KeyEffect(r, j) /\ (j \in KEY => j \in mintedKey')
                                        /\ c.newKey \in {q.key, j}
    BY <1>1, <2>1, <2>5, CommitEffect
  <2>7. PICK j \in KEY \union {None} : /\ KeyEffect(r, j) /\ (j \in KEY => j \in mintedKey')
                                       /\ c.newKey \in {q.key, j}
    BY <2>6
  <2>8. /\ p \in Request /\ Shape(p) /\ Answered(p)
        /\ p.sid = q.sid /\ p.key = c.newKey /\ p.setCookie \in {c.newKey, Keep}
        /\ ~p.resp.revoke
    BY <2>2, <2>3, AppliedShape
  <2> HIDE DEF p, c
  <2>9. BookTypeOK'
    BY <2>1, <2>6 DEF ProxyInv, BookTypeOK
  <2>10. IdEffect(r, p, j)
    <3>1. q.sid \in mintedSid \union {None}
      BY DEF ProxyInv, KeyInv, KnownIds
    <3> QED BY <2>1, <2>6, <2>7, <2>8, <3>1 DEF IdEffect
  <2>11. RequestInv(r)'
    <3>1. req'[r] = p
      BY <2>1 DEF ProxyInv
    <3> QED BY <2>8, <3>1, AnsweredInOrder
  <2> QED BY <2>1, <2>6, <2>7, <2>8, <2>9, <2>10, <2>11, StepInv
<1>3. CASE ApplyResult(q.sid, c) # "ok"
  <2>1. /\ Become(r, ProcessError(q)) /\ UNCHANGED <<rowVars, now, jar, mintedSid, mintedKey, granted>>
        /\ locks' \in [SID -> HOLDER \union {None}] /\ faults' \in 0 .. MaxFaults
    BY <1>3 DEF Apply, ProxyInv, StoreInv, StoreTypeOK, BookTypeOK
  <2> QED BY <1>1, <2>1, ProcessErrorOK, LockStep DEF Responding, Mutating, Applying
<1> QED BY <1>2, <1>3


-----------------------------------------------------------------------------
(* A call whose reply is lost.                                             *)

\* The note that a swap may have happened is read by no step.
LEMMA SwappedNote ==
    ASSUME NEW q \in Request, NEW b \in BOOLEAN
    PROVE  LET p == [q EXCEPT !.swapped = b] IN
           /\ p \in Request
           /\ p.pc = q.pc /\ p.presented = q.presented /\ p.required = q.required
           /\ p.live = q.live /\ p.sid = q.sid /\ p.key = q.key /\ p.rewrite = q.rewrite
           /\ p.labels = q.labels /\ p.row = q.row /\ p.t = q.t /\ p.resolveErr = q.resolveErr
           /\ p.resp = q.resp /\ p.locked = q.locked /\ p.status = q.status
           /\ p.setCookie = q.setCookie
           /\ Shape(q) => Shape(p)
           /\ \A r \in REQ : Follows(r, q) => Follows(r, p)
<1> DEFINE p == [q EXCEPT !.swapped = b]
<1>1. p \in Request
  BY Update
<1>2. /\ p.pc = q.pc /\ p.presented = q.presented /\ p.required = q.required
      /\ p.live = q.live /\ p.sid = q.sid /\ p.key = q.key /\ p.rewrite = q.rewrite
      /\ p.labels = q.labels /\ p.row = q.row /\ p.t = q.t /\ p.resolveErr = q.resolveErr
      /\ p.resp = q.resp /\ p.locked = q.locked /\ p.status = q.status
      /\ p.setCookie = q.setCookie
  BY DEF Request
<1> HIDE DEF p
<1>3. Shape(q) => Shape(p)
  BY <1>2 DEF Shape, Answered
<1>4. \A r \in REQ : Follows(r, q) => Follows(r, p)
  BY <1>2 DEF Follows, Own
<1> QED BY <1>1, <1>2, <1>3, <1>4 DEF p

\* A response call that took effect is answered as failed.
LEMMA LostEffect ==
    ASSUME ProxyInv, NEW r \in REQ, req[r].pc \in ResponseCalls, NEW b \in BOOLEAN,
           NEW j \in KEY \union {None}, KeyEffect(r, j), (j \in KEY => j \in mintedKey'),
           StoreInv', BookTypeOK', Become(r, [OnError(req[r]) EXCEPT !.swapped = b]),
           UNCHANGED <<jar, mintedSid>>, mintedKey \subseteq mintedKey'
    PROVE  ProxyInv'
<1> DEFINE q == req[r]
           e == ProcessError(q)
           p == [e EXCEPT !.swapped = b]
<1>1. q \in Request /\ Shape(q) /\ q.pc \in Responding
  BY RequestFacts DEF ResponseCalls, Responding, Mutating, Creating, Applying
<1>2. OnError(q) = e
  BY DEF OnError, ResolveCalls, ResponseCalls
<1>3. q.resp \in Response /\ (q.live => q.sid \in SID /\ q.key \in KEY) /\ (q.locked => q.live)
  BY <1>1 DEF Shape
<1>4. /\ e \in Request /\ Shape(e) /\ Answered(e) /\ SameHandle(q, e) /\ e.setCookie = Keep
      /\ ~(e.status = "ok" /\ e.resp.revoke)
  BY <1>1, <1>3, ProcessErrorShape
<1>5. req' = [req EXCEPT ![r] = p] /\ req'[r] = p
  BY <1>2 DEF Become, ProxyInv
<1> HIDE DEF e
<1>6. /\ p \in Request /\ Shape(p) /\ p.pc = e.pc /\ p.status = e.status /\ p.resp = e.resp
      /\ p.sid = e.sid /\ p.key = e.key /\ p.setCookie = Keep
  BY <1>4, SwappedNote
<1> HIDE DEF p
<1>7. p.sid = q.sid /\ p.key = q.key /\ Answered(p)
  BY <1>4, <1>6 DEF SameHandle, Answered
<1>8. IdEffect(r, p, j)
  <2>1. q.sid \in mintedSid \union {None}
    BY DEF ProxyInv, KeyInv, KnownIds
  <2> QED BY <1>6, <1>7, <2>1 DEF IdEffect
<1>9. RequestInv(r)'
  BY <1>4, <1>5, <1>6, <1>7, AnsweredInOrder
<1> QED BY <1>5, <1>6, <1>8, <1>9, StepInv

\* A store call that takes effect and reports an error.
LEMMA LostReplyInv ==
    ASSUME ProxyInv, NEW r \in REQ, LostReply(r)
    PROVE  ProxyInv'
<1> DEFINE q == req[r]
           b == At(r, "apply") /\ ResponseControls(req[r]).rotate
           e == OnError(q)
           p == [e EXCEPT !.swapped = b]
<1>1. /\ q \in Request /\ Shape(q) /\ b \in BOOLEAN /\ Become(r, p) /\ LosesReplyTo(r)
      /\ UNCHANGED <<now, jar, mintedSid, granted>> /\ faults' \in 0 .. MaxFaults
  BY RequestFacts, ProxyAssumption DEF LostReply, ProxyInv, BookTypeOK
<1> HIDE DEF b
<1>2. q.pc \in StoreCalls
  BY <1>1 DEF LosesReplyTo, StoreCalls, ResolveCalls, ResponseCalls
<1>3. e \in Request /\ Shape(e) /\ Follows(r, e)
  BY <1>2, OnErrorOK
<1> HIDE DEF e
<1>4. p \in Request /\ Shape(p) /\ Follows(r, p)
  BY <1>1, <1>3, SwappedNote
<1>5. ASSUME UNCHANGED mintedKey PROVE BookTypeOK'
  BY <1>1, <1>5 DEF ProxyInv, BookTypeOK
<1> HIDE DEF p
<1>6. CASE q.pc = "touch" /\ Touches(q) /\ UNCHANGED <<locks, mintedKey>>
  <2>1. StoreInv' /\ QuietStore
    BY <1>1, <1>6, TouchesQuiet
  <2> QED BY <1>1, <1>4, <1>5, <1>6, <2>1, QuietStep DEF Become
<1>7. CASE /\ q.pc \in {"expire", "revoke"} /\ DeleteSession(q.sid)
           /\ UNCHANGED <<locks, mintedKey>>
  <2>1. q.sid \in SID
    BY <1>1, <1>7 DEF Shape, Resolving
  <2>2. StoreInv' /\ QuietStore
    BY <1>1, <1>7, <2>1, DeleteQuiet
  <2> QED BY <1>1, <1>4, <1>5, <1>7, <2>2, QuietStep DEF Become
<1>8. CASE /\ q.pc = "putsession" /\ PutSession(q.sid, BeginRow(q.t))
           /\ UNCHANGED <<locks, mintedKey>>
  <2>1. StoreInv' /\ KeyEffect(r, None)
    BY <1>1, <1>8, PutSessionEffect
  <2> QED BY <1>1, <1>5, <1>8, <2>1, LostEffect, ProxySentinels DEF p, e, ResponseCalls
<1>9. CASE q.pc = "putkey" /\ PutKey(q.key, q.sid) /\ UNCHANGED <<locks, mintedKey>>
  <2>1. StoreInv' /\ KeyEffect(r, q.key)
    BY <1>1, <1>9, PutKeyEffect
  <2>2. q.key \in KEY /\ q.key \in mintedKey'
    BY <1>1, <1>9, ProxySentinels DEF Shape, Creating, ProxyInv, KeyInv, KnownIds
  <2> QED BY <1>1, <1>5, <1>9, <2>1, <2>2, LostEffect DEF p, e, ResponseCalls
<1>10. CASE q.pc = "apply" /\ Commits(q, ResponseControls(q)) /\ UNCHANGED locks
  <2>1. /\ StoreInv' /\ granted' \in [KEY -> Granted \union {None}]
        /\ mintedKey \subseteq mintedKey' /\ mintedKey' \subseteq KEY
        /\ \E j \in KEY \union {None} : KeyEffect(r, j) /\ (j \in KEY => j \in mintedKey')
    BY <1>1, <1>10, CommitEffect
  <2>2. PICK j \in KEY \union {None} : KeyEffect(r, j) /\ (j \in KEY => j \in mintedKey')
    BY <2>1
  <2>3. BookTypeOK'
    BY <1>1, <2>1 DEF ProxyInv, BookTypeOK
  <2> QED BY <1>1, <1>10, <2>1, <2>2, <2>3, LostEffect DEF p, e, ResponseCalls
<1>11. CASE /\ (q.pc = "lock" /\ Lock(q.sid, r)) \/ (q.pc = "unlock" /\ Unlock(q.sid, r))
            /\ UNCHANGED <<rowVars, mintedKey>>
  <2>1. q.sid \in SID
    BY <1>1, <1>11 DEF Shape
  <2>2. locks' \in [SID -> HOLDER \union {None}]
    BY <1>11, <2>1, LockTypes
  <2> QED BY <1>1, <1>4, <1>11, <2>2, LockStep
<1> QED BY <1>1, <1>6, <1>7, <1>8, <1>9, <1>10, <1>11 DEF LosesReplyTo

-----------------------------------------------------------------------------
(* Time.                                                                   *)

\* The passing of time preserves the invariant if it only takes sessions away.
LEMMA QuietTime ==
    ASSUME ProxyInv, StoreInv', BookTypeOK', UNCHANGED <<req, jar>>, QuietStore
    PROVE  ProxyInv'
<1>1. KeyInv'
  <2>1. keys \in [KEY -> SID \union {None}] /\ keys' \in [KEY -> SID \union {None}]
    BY DEF ProxyInv, StoreInv, StoreTypeOK
  <2>2. SingleKey'
    BY <2>1 DEF ProxyInv, KeyInv, SingleKey, QuietStore
  <2>3. KeyKeepsItsGrant'
    BY <2>1 DEF ProxyInv, KeyInv, KeyKeepsItsGrant, QuietStore, SameGrant
  <2>4. KnownIds'
    BY DEF ProxyInv, KeyInv, KnownIds, QuietStore
  <2> QED BY <2>2, <2>3, <2>4 DEF KeyInv
<1>2. ASSUME NEW r \in REQ PROVE RequestInv(r)'
  <2> DEFINE q == req[r]
  <2>1. q \in Request /\ Shape(q) /\ RequestInv(r) /\ req'[r] = q
    BY RequestFacts DEF ProxyInv
  <2>2. Shape(q)'
    BY <2>1 DEF Shape, Answered
  <2>3. Private(r)'
    <3>1. CASE ~Own(q)
      BY <2>1, <3>1 DEF Private, Own
    <3>2. CASE Own(q)
      <4>1. q.sid \in SID /\ q.key \in KEY
        BY <2>1, <3>2 DEF Shape, Own, Creating, Applying
      <4> QED BY <2>1, <3>2, <4>1, SentinelAssumption DEF RequestInv, Private, QuietStore, Own
    <3> QED BY <3>1, <3>2
  <2>4. Current(r)'
    <3>1. q.pc \in HasRow \/ (q.pc \in Handled /\ q.live) => q.sid \in SID /\ q.key \in KEY
      BY <2>1 DEF Shape, HasRow, Resolving, Applying
    <3>2. q.sid \in SID /\ q.key \in KEY /\ keys'[q.key] = q.sid =>
            keys[q.key] = q.sid /\ sessions'[q.sid].labels = sessions[q.sid].labels
      BY SentinelAssumption DEF QuietStore, SameGrant
    <3>3. q.pc \in HasRow /\ keys'[q.key] = q.sid => sessions'[q.sid].labels = q.row.labels
      BY <2>1, <3>1, <3>2 DEF RequestInv, Current
    <3>4. q.pc \in Handled /\ q.live /\ ~q.rewrite /\ keys'[q.key] = q.sid =>
            sessions'[q.sid].labels = q.labels
      BY <2>1, <3>1, <3>2 DEF RequestInv, Current
    <3> HIDE DEF q
    <3> QED BY <2>1, <3>3, <3>4 DEF Current
  <2>5. Finished(r)'
    <3>1. q.live => q.sid \in SID
      BY <2>1 DEF Shape
    <3> QED BY <2>1, <3>1, SentinelAssumption DEF RequestInv, Finished, QuietStore
  <2> QED BY <2>2, <2>3, <2>4, <2>5 DEF RequestInv
<1> QED BY <1>1, <1>2 DEF ProxyInv

\* Sessions and locks that run out, and the clock, do just that.
LEMMA TimeInv ==
    ASSUME ProxyInv,
           \/ \E id \in SID : SessionExpires(id) \/ LockExpires(id)
           \/ TimePasses
    PROVE  ProxyInv'
<1>1. ASSUME NEW t, NEW gone \in SUBSET SID, Elapse(t, gone),
             UNCHANGED <<locks, req, jar, mintedSid, mintedKey, faults, granted>>
      PROVE  ProxyInv'
  <2>1. RowInv'
    BY <1>1, ElapseInv DEF ProxyInv, StoreInv
  <2>2. now \in Nat /\ now # 0 /\ MaxTime \in Nat
    BY TimeoutAssumption DEF ProxyInv, StoreInv, StoreTypeOK, BookTypeOK
  <2>3. now' \in Nat /\ now' # 0
    BY <1>1, <2>2 DEF Elapse
  <2>4. StoreInv'
    BY <1>1, <2>1, <2>3 DEF ProxyInv, StoreInv, StoreTypeOK, RowInv, RowTypeOK
  <2>5. BookTypeOK'
    BY <1>1, <2>3 DEF ProxyInv, BookTypeOK
  <2>6. QuietStore
    <3>1. \A k \in KEY : keys'[k] # None => keys'[k] = keys[k] /\ keys[k] \notin gone
      BY <1>1 DEF Elapse
    <3>2. \A s \in SID : s \notin gone => sessions'[s] = sessions[s]
      BY <1>1 DEF Elapse
    <3>3. \A s \in SID : Live(s)' => Live(s)
      BY <1>1 DEF Elapse, Live
    <3>4. \A k \in KEY : keys[k] \in SID \union {None}
      BY DEF ProxyInv, StoreInv, StoreTypeOK
    <3> QED BY <1>1, <3>1, <3>2, <3>3, <3>4 DEF QuietStore, SameGrant
  <2> QED BY <1>1, <2>4, <2>5, <2>6, QuietTime
<1>2. ASSUME NEW id \in SID, LockExpires(id) PROVE ProxyInv'
  <2>1. /\ UNCHANGED <<rowVars, now, req, jar, mintedSid, mintedKey, faults, granted>>
        /\ locks' \in [SID -> HOLDER \union {None}] /\ now' \in Nat
    BY <1>2 DEF LockExpires, LockLapse, ProxyInv, StoreInv, StoreTypeOK
  <2>2. StoreInv' /\ QuietStore
    BY <2>1, IdleStore
  <2>3. BookTypeOK'
    BY <2>1 DEF ProxyInv, BookTypeOK
  <2> QED BY <2>1, <2>2, <2>3, QuietTime
<1>3. ASSUME NEW id \in SID, SessionExpires(id) PROVE ProxyInv'
  BY <1>1, <1>3 DEF SessionExpires
<1>4. CASE TimePasses
  BY <1>1, <1>4 DEF TimePasses
<1> QED BY <1>2, <1>3, <1>4
=============================================================================
