------------------------- MODULE ProxyClientProofs --------------------------
(***************************************************************************)
(* The browsers of the request pipeline, proved for the same instances as  *)
(* ProxyProofs, but only when no reply of the store is lost:               *)
(* ClientNotStranded.                                                      *)
(*                                                                         *)
(* A key is swapped by one request only, the one that carries it, and the  *)
(* answer with the new key goes to the browser whose jar holds the old     *)
(* one. The invariant (StrandInv) therefore follows a key from the commit  *)
(* to the jar: until its browser has it, nobody else knows it, and a       *)
(* session under creation is found as Begin left it, so that the answer    *)
(* with its first key is never taken for a response without an effect. A   *)
(* lost reply breaks it: the key is swapped and the answer keeps quiet.    *)
(***************************************************************************)
EXTENDS ProxyProofs

\* Every leaf is tried with Zenon first, then with the SMT solver, then again.
USE ZenonT(4), SMTT(20), Z3T(20), ZenonT(20)

-----------------------------------------------------------------------------
(* No rotation strands a browser, as long as no reply is lost.             *)

\* A key that was handed out works for as long as its session lives.
Works(k) == granted[k] # None /\ (Live(granted[k].sid) => keys[k] = granted[k].sid)

\* A response with a key is on its way to its browser, or was cut off on it.
Pending(q) == q.pc \in {"unlock", "reply", "lost"} /\ q.setCookie \in KEY

Underway(c) == \E r \in REQ : req[r].client = c /\ Pending(req[r])

\* A browser's key works or its replacement is underway, no two browsers share a
\* key, and only its own requests carry it.
JarInv ==
    /\ \A c \in CLIENT : jar[c] # None =>
          granted[jar[c]] # None /\ (Works(jar[c]) \/ Underway(c))
    /\ \A c, d \in CLIENT : jar[c] # None /\ jar[c] = jar[d] => c = d
    /\ \A c \in CLIENT, r \in REQ : jar[c] # None /\ req[r].key = jar[c] => req[r].client = c

\* The key a response carries works, and nobody else can swap it before its
\* browser has it.
CookieKeyInv(r) ==
    LET q == req[r] IN
    /\ q.setCookie \in KEY => q.pc \in {"unlock", "reply", "lost", "done"} /\ q.key = q.setCookie
    /\ Pending(q) => /\ Works(q.setCookie)
                     /\ \A c \in CLIENT : jar[c] # q.setCookie
                     /\ \A x \in REQ \ {r} : req[x].key # q.setCookie

\* A request that creates a session has something to put into it and finds it as
\* Begin left it, so its commit is never skipped and its key always goes out.
Founding(r) ==
    LET q == req[r] IN
    /\ q.pc = "begin" \/ Own(q) => NeedsSession(q.resp)
    /\ Own(q) => /\ \A k \in KEY : granted[k] # None => granted[k].sid # q.sid
                 /\ Live(q.sid) => /\ sessions[q.sid].owner = NoOwner
                                   /\ sessions[q.sid].labels = {}

StrandInv ==
    /\ JarInv
    /\ \A k \in KEY : granted[k] # None => granted[k].sid \in mintedSid
    /\ \A r \in REQ : CookieKeyInv(r) /\ Founding(r)

\* The request becomes p and takes keys away only with their session, but for its
\* own, which it may replace.
KeysSurvive(r, p) ==
    \A k \in KEY, s \in SID : granted[k] # None /\ keys[k] = s /\ Live(s)' =>
        keys'[k] = s \/ (k = req[r].key /\ Pending(p) /\ ~Pending(req[r]))

\* A key goes out with p that only r knows.
Issued(r, p) ==
    /\ (Own(req[r]) /\ p.key = req[r].key) \/ p.key \notin mintedKey
    /\ granted'[p.key] # None /\ keys'[p.key] = granted'[p.key].sid

\* What p may carry.
CookieEffect(r, p) ==
    LET q == req[r] IN
    /\ p.client = q.client
    /\ p.key = q.key \/ p.key \in KEY \ mintedKey
    /\ Pending(q) => Pending(p) /\ p.setCookie = q.setCookie
    /\ p.setCookie \in KEY => /\ p.pc \in {"unlock", "reply", "lost", "done"} /\ p.key = p.setCookie
                              /\ Pending(p) => Pending(q) \/ Issued(r, p)

\* A step of r with these effects strands nobody.
LEMMA StrandStep ==
    ASSUME ProxyInv, ProxyInv', StrandInv, NEW r \in REQ, NEW j \in KEY \union {None},
           NEW p, Become(r, p), jar' = jar, mintedSid \subseteq mintedSid',
           KeyEffect(r, j), KeysSurvive(r, p), CookieEffect(r, p),
           \A s \in SID \ {req[r].sid} : Live(s)' => sessions'[s] = sessions[s],
           Founding(r)'
    PROVE  StrandInv'
<1> DEFINE q == req[r]
<1>0. /\ req'[r] = p /\ (\A x \in REQ \ {r} : req'[x] = req[x]) /\ q \in Request
      /\ None \notin KEY /\ None \notin SID /\ Keep \notin KEY
  BY ProxySentinels, SentinelAssumption DEF ProxyInv, Become
<1>1. /\ KnownIds /\ JarInv /\ Founding(r) /\ Private(r) /\ CookieKeyInv(r)
      /\ (\A x \in REQ : CookieKeyInv(x) /\ Founding(x))
  BY DEF ProxyInv, KeyInv, StrandInv, RequestInv
<1>2. \A k \in KEY : granted[k] # None => k # j /\ granted'[k] = granted[k]
  BY <1>0, <1>1 DEF KnownIds, Private, KeyEffect
<1>3. \A k \in KEY : granted[k] # None => granted[k].sid \in SID
  BY DEF ProxyInv, BookTypeOK, Granted
<1>4. ASSUME NEW k \in KEY, Works(k)
      PROVE  Works(k)' \/ (k = q.key /\ Pending(p) /\ ~Pending(q))
  <2> SUFFICES ASSUME NEW s \in SID, s = granted[k].sid, Live(s)'
               PROVE  keys'[k] = s \/ (k = q.key /\ Pending(p) /\ ~Pending(q))
    BY <1>2, <1>3, <1>4 DEF Works, Live
  <2>1. granted[k] # None /\ (Live(s) => keys[k] = s)
    BY <1>4 DEF Works
  <2>2. Live(s)
    BY <1>1, <2>1 DEF Founding, KeyEffect
  <2> QED BY <2>1, <2>2 DEF KeysSurvive
<1>5. ASSUME NEW c \in CLIENT, Underway(c) PROVE Underway(c)'
  BY <1>0, <1>5 DEF Underway, CookieEffect, Pending
<1>6. JarInv'
  <2>1. ASSUME NEW c \in CLIENT, jar[c] # None
        PROVE  granted'[jar[c]] # None /\ (Works(jar[c])' \/ Underway(c)')
    <3>1. jar[c] \in KEY /\ granted[jar[c]] # None /\ granted'[jar[c]] # None
      BY <1>1, <1>2, <2>1 DEF JarInv, ProxyInv, BookTypeOK
    <3>2. CASE Underway(c)
      BY <1>5, <3>1, <3>2
    <3>3. CASE Works(jar[c])
      <4>1. CASE jar[c] = q.key /\ Pending(p)
        <5>1. q.client = c
          BY <1>1, <2>1, <4>1 DEF JarInv
        <5>2. req'[r].client = c /\ Pending(req[r])'
          BY <1>0, <4>1, <5>1 DEF CookieEffect, Pending
        <5> QED BY <3>1, <5>2 DEF Underway
      <4>2. CASE ~(jar[c] = q.key /\ Pending(p))
        BY <1>4, <3>1, <3>3, <4>2
      <4> QED BY <4>1, <4>2
    <3> QED BY <1>1, <2>1, <3>2, <3>3 DEF JarInv
  <2>2. ASSUME NEW c \in CLIENT, NEW x \in REQ, jar[c] # None, req'[x].key = jar[c]
        PROVE  req'[x].client = c
    <3>1. jar[c] \in mintedKey
      BY <1>1, <2>2 DEF KnownIds
    <3> QED BY <1>0, <1>1, <2>2, <3>1 DEF JarInv, CookieEffect
  <2> QED BY <1>1, <2>1, <2>2 DEF JarInv, Underway, Works, Pending
<1>7. \A k \in KEY : granted'[k] # None => granted'[k].sid \in mintedSid'
  <2> SUFFICES ASSUME NEW k \in KEY, granted'[k] # None PROVE granted'[k].sid \in mintedSid'
    OBVIOUS
  <2>1. CASE k # j
    BY <2>1 DEF KeyEffect, StrandInv
  <2>2. CASE k = j
    <3>1. granted'[k].sid = q.sid /\ granted'[k].sid \in SID
      BY <2>2 DEF KeyEffect, Grant, ProxyInv, BookTypeOK, Granted
    <3> QED BY <1>0, <1>1, <3>1 DEF KnownIds
  <2> QED BY <2>1, <2>2
<1>8. ASSUME NEW x \in REQ \ {r} PROVE CookieKeyInv(x)' /\ Founding(x)'
  <2> DEFINE y == req[x]
  <2>1. req'[x] = y /\ CookieKeyInv(x) /\ Founding(x) /\ Private(x)
    BY <1>0, <1>1 DEF ProxyInv, RequestInv
  <2>2. ASSUME Pending(y)
        PROVE  /\ Works(y.setCookie)'
               /\ \A c \in CLIENT : jar'[c] # y.setCookie
               /\ \A z \in REQ \ {x} : req'[z].key # y.setCookie
    <3>1. y.setCookie \in KEY /\ Works(y.setCookie) /\ q.key # y.setCookie
      BY <2>1, <2>2 DEF CookieKeyInv, Pending
    <3>2. Works(y.setCookie)'
      BY <1>4, <2>1, <3>1
    <3>3. p.key # y.setCookie
      BY <1>0, <1>1, <3>1 DEF CookieEffect, KnownIds
    <3> QED BY <1>0, <2>1, <2>2, <3>2, <3>3 DEF CookieKeyInv
  <2>3. CookieKeyInv(x)'
    BY <2>1, <2>2 DEF CookieKeyInv, Pending
  <2>4. ASSUME Own(y)
        PROVE  /\ \A k \in KEY : granted'[k] # None => granted'[k].sid # y.sid
               /\ Live(y.sid)' => sessions'[y.sid].owner = NoOwner /\ sessions'[y.sid].labels = {}
    <3>1. y.sid # q.sid /\ y.sid \in SID
      BY <2>1, <2>4, RequestFacts DEF Private, Shape, Own, Creating, Applying
    <3>2. \A k \in KEY : granted'[k] # None => granted'[k].sid # y.sid
      BY <1>0, <2>1, <2>4, <3>1 DEF KeyEffect, Grant, Founding
    <3> QED BY <2>1, <2>4, <3>1, <3>2 DEF Founding, Live
  <2>5. Founding(x)'
    BY <2>1, <2>4 DEF Founding, Own
  <2> QED BY <2>3, <2>5
<1>9. CookieKeyInv(r)'
  <2>1. ASSUME Pending(p)
        PROVE  /\ Works(p.setCookie)'
               /\ \A c \in CLIENT : jar'[c] # p.setCookie
               /\ \A z \in REQ \ {r} : req'[z].key # p.setCookie
    <3>1. p.setCookie \in KEY /\ p.key = p.setCookie /\ (Pending(q) \/ Issued(r, p))
      BY <2>1 DEF Pending, CookieEffect
    <3>2. CASE Pending(q)
      <4>1. p.setCookie = q.setCookie
        BY <3>2 DEF CookieEffect
      <4> QED BY <1>0, <1>1, <1>4, <3>1, <3>2, <4>1 DEF CookieKeyInv
    <3>3. CASE Issued(r, p)
      BY <1>0, <1>1, <3>1, <3>3 DEF Issued, Works, KnownIds, Private
    <3> QED BY <3>1, <3>2, <3>3
  <2>2. p.setCookie \in KEY => p.pc \in {"unlock", "reply", "lost", "done"} /\ p.key = p.setCookie
    BY DEF CookieEffect
  <2> QED BY <1>0, <2>1, <2>2 DEF CookieKeyInv, Pending
<1> QED BY <1>6, <1>7, <1>8, <1>9 DEF StrandInv

\* A step that hands no key out and founds no session.
Plain(q, p) ==
    /\ p.client = q.client /\ p.key = q.key /\ p.setCookie \in {q.setCookie, None, Keep}
    /\ p.pc = "begin" => NeedsSession(p.resp)
    /\ Own(p) => Own(q) /\ p.sid = q.sid /\ p.resp = q.resp

\* What such a step may do to the store.
CalmStore(r, p, j) ==
    /\ KeyEffect(r, j) /\ UNCHANGED <<jar, granted, mintedSid>>
    /\ \A k \in KEY, s \in SID : granted[k] # None /\ keys[k] = s /\ Live(s)' => keys'[k] = s
    /\ \A s \in SID : Live(s)' =>
          \/ sessions'[s] = sessions[s]
          \/ /\ s = req[r].sid
             /\ Own(p) => sessions'[s].owner = NoOwner /\ sessions'[s].labels = {}

\* Before its answer a request carries no key.
Open(q) == q.pc \notin {"unlock", "reply", "lost", "done"}

\* Such a step strands nobody.
LEMMA PlainStep ==
    ASSUME ProxyInv, ProxyInv', StrandInv, NEW r \in REQ, NEW j \in KEY \union {None},
           NEW p, Become(r, p), CalmStore(r, p, j), Plain(req[r], p), Open(req[r])
    PROVE  StrandInv'
<1> DEFINE q == req[r]
<1>0. None \notin KEY /\ Keep \notin KEY /\ req'[r] = p
  BY ProxySentinels DEF ProxyInv, Become
<1>1. CookieKeyInv(r) /\ Founding(r) /\ ~Pending(q)
  BY DEF StrandInv, Open, Pending
<1>2. q.setCookie \notin KEY /\ p.setCookie \notin KEY
  BY <1>0, <1>1 DEF CookieKeyInv, Plain, Open
<1>3. CookieEffect(r, p) /\ KeysSurvive(r, p)
  BY <1>1, <1>2 DEF CookieEffect, Plain, KeysSurvive, CalmStore
<1>4. Founding(r)'
  <2>1. ASSUME Own(p)
        PROVE  /\ NeedsSession(p.resp)
               /\ \A k \in KEY : granted'[k] # None => granted'[k].sid # p.sid
               /\ sessions'[p.sid] # None => /\ sessions'[p.sid].owner = NoOwner
                                             /\ sessions'[p.sid].labels = {}
    <3>1. Own(q) /\ p.sid = q.sid /\ p.resp = q.resp /\ q.sid \in SID
      BY <2>1, RequestFacts DEF Plain, Shape, Own, Creating, Applying
    <3> QED BY <1>1, <2>1, <3>1 DEF Founding, CalmStore, Live, KeyEffect
  <2>2. p.pc = "begin" => NeedsSession(p.resp)
    BY DEF Plain
  <2> QED BY <1>0, <2>1, <2>2 DEF Founding, Live, Own
<1> QED BY <1>3, <1>4, StrandStep DEF CalmStore

\* A step that leaves the rows alone does no more.
LEMMA CalmIdle ==
    ASSUME ProxyInv, NEW r \in REQ, NEW p, UNCHANGED <<rowVars, jar, mintedSid, mintedKey, granted>>
    PROVE  CalmStore(r, p, None)
BY ProxySentinels DEF CalmStore, KeyEffect, SameGrant, Live, rowVars

\* Nor does one that removes sessions with their keys.
LEMMA CalmDelete ==
    ASSUME ProxyInv, NEW r \in REQ, NEW p, req[r].sid \in SID, DeleteSession(req[r].sid),
           UNCHANGED <<locks, now, jar, mintedSid, mintedKey, granted>>
    PROVE  CalmStore(r, p, None)
<1>1. QuietStore
  BY DeleteQuiet
<1>2. KeyEffect(r, None)
  BY <1>1, ProxySentinels DEF KeyEffect, QuietStore
<1> QED BY <1>2, SentinelAssumption
        DEF CalmStore, DeleteSession, DropRow, Live, ProxyInv, StoreInv, StoreTypeOK

-----------------------------------------------------------------------------
(* Where a request goes next, once more.                                   *)

\* An answer without a key is such a step.
LEMMA AnswerPlain ==
    ASSUME NEW q \in Request, NEW s, NEW cookie \in {None, Keep}
    PROVE  Plain(q, Answer(q, s, cookie))
<1> DEFINE p == Answer(q, s, cookie)
<1>1. /\ p.pc \in {"unlock", "reply"} /\ p.client = q.client /\ p.key = q.key
      /\ p.setCookie = cookie
  BY DEF Answer, Request
<1> HIDE DEF p
<1>2. Plain(q, p)
  BY <1>1 DEF Plain, Own, Creating, Applying
<1> QED BY <1>2 DEF p

\* So is every step on the way to the backend.
LEMMA ForwardPlain ==
    ASSUME NEW q, NEW p, p.client = q.client, p.key = q.key, p.setCookie = q.setCookie,
           p.pc \in {"getsession", "clock", "expire", "touch", "getcookies", "authz", "upstream", "lock"}
    PROVE  Plain(q, p)
BY DEF Plain, Own, Creating, Applying

\* So is whatever follows a failed or fruitless call.
LEMMA ErrorPlain ==
    ASSUME NEW q \in Request
    PROVE  Plain(q, ProcessError(q)) /\ Plain(q, ResolveError(q)) /\ Plain(q, Unresolved(q))
<1>1. Plain(q, ProcessError(q))
  BY AnswerPlain DEF ProcessError
<1>2. Plain(q, Unresolved(q))
  <2> DEFINE p == Unresolved(q)
  <2>1. p.pc = "authz" /\ p.client = q.client /\ p.key = q.key /\ p.setCookie = q.setCookie
    BY DEF Unresolved, Request
  <2> QED BY <2>1, ForwardPlain
<1>3. CASE FailOpen
  <2> DEFINE p == ResolveError(q)
  <2>1. p.pc = "authz" /\ p.client = q.client /\ p.key = q.key /\ p.setCookie = q.setCookie
    BY <1>3 DEF ResolveError, Request
  <2>2. Plain(q, p)
    BY <2>1, ForwardPlain
  <2> QED BY <1>1, <1>2, <2>2
<1>4. CASE ~FailOpen
  <2>1. ResolveError(q) = Answer(q, "badgateway", Keep)
    BY <1>4 DEF ResolveError
  <2>2. Plain(q, ResolveError(q))
    BY <2>1, AnswerPlain
  <2> QED BY <1>1, <1>2, <2>2
<1> QED BY <1>3, <1>4

\* Processing founds a session only if the response needs one.
LEMMA ProcessLockedPlain ==
    ASSUME NEW q \in Request, ~q.rewrite
    PROVE  Plain(q, ProcessLocked(q))
<1>1. ASSUME NEW v \in {"revoke", "applyclock", "begin"}, v = "begin" => NeedsSession(q.resp)
      PROVE  Plain(q, [q EXCEPT !.pc = v])
  <2> DEFINE p == [q EXCEPT !.pc = v]
  <2>1. /\ p.pc = v /\ p.client = q.client /\ p.key = q.key /\ p.setCookie = q.setCookie
        /\ p.resp = q.resp /\ p.rewrite = q.rewrite
    BY DEF Request
  <2> HIDE DEF p
  <2>2. Plain(q, p)
    BY <1>1, <2>1 DEF Plain, Own, Creating, Applying
  <2> QED BY <2>2 DEF p
<1>2. CASE q.resp.revoke /\ q.live
  BY <1>1, <1>2 DEF ProcessLocked
<1>3. CASE q.resp.revoke /\ ~q.live
  <2>1. ProcessLocked(q) = Answer(q, "ok", ExpiredCookie(q)) /\ ExpiredCookie(q) \in {None, Keep}
    BY <1>3 DEF ProcessLocked, ExpiredCookie
  <2> QED BY <2>1, AnswerPlain
<1>4. CASE ~q.resp.revoke /\ q.live
  <2>1. ProcessLocked(q) = [q EXCEPT !.pc = "applyclock"]
    BY <1>4 DEF ProcessLocked
  <2> QED BY <1>1, <2>1
<1>5. CASE ~q.resp.revoke /\ ~q.live /\ NeedsSession(q.resp)
  <2>1. ProcessLocked(q) = [q EXCEPT !.pc = "begin"]
    BY <1>5 DEF ProcessLocked
  <2> QED BY <1>1, <1>5, <2>1
<1>6. CASE ~q.resp.revoke /\ ~q.live /\ ~NeedsSession(q.resp)
  <2>1. ProcessLocked(q) = Answer(q, "ok", Keep)
    BY <1>6 DEF ProcessLocked
  <2> QED BY <2>1, AnswerPlain
<1> QED BY <1>2, <1>3, <1>4, <1>5, <1>6

-----------------------------------------------------------------------------
(* The actions, once more: those that hand no key out.                     *)

\* A plain step that leaves the rows alone.
LEMMA IdlePlainStep ==
    ASSUME ProxyInv, ProxyInv', StrandInv, NEW r \in REQ, NEW p, Become(r, p), Plain(req[r], p),
           Open(req[r]), UNCHANGED <<rowVars, jar, mintedSid, mintedKey, granted>>
    PROVE  StrandInv'
BY CalmIdle, PlainStep

\* Reading, authorising and failing in the backend change no key.
LEMMA ResolveStrandsNone ==
    ASSUME ProxyInv, ProxyInv', StrandInv, NEW r \in REQ,
           \/ ResolveGetKey(r) \/ ResolveGetSession(r) \/ ResolveClock(r)
           \/ ResolveGetCookies(r) \/ Authorize(r) \/ UpstreamFails(r)
    PROVE  StrandInv'
<1> DEFINE q == req[r]
<1>1. q \in Request
  BY RequestFacts
<1>2. Open(q) /\ UNCHANGED <<rowVars, jar, mintedSid, mintedKey, granted>>
  BY DEF ResolveGetKey, ResolveGetSession, ResolveClock, ResolveGetCookies, Authorize,
         UpstreamFails, At, Open, storeVars, rowVars
<1>3. ASSUME NEW p, Become(r, p), Plain(q, p) PROVE StrandInv'
  BY <1>2, <1>3, IdlePlainStep
<1>4. CASE ResolveGetKey(r)
  <2> DEFINE p == [q EXCEPT !.pc = "getsession", !.sid = keys[q.presented]]
  <2>1. Become(r, Unresolved(q)) \/ Become(r, p)
    BY <1>4 DEF ResolveGetKey
  <2>2. p.pc = "getsession" /\ p.client = q.client /\ p.key = q.key /\ p.setCookie = q.setCookie
    BY <1>1 DEF Request
  <2> HIDE DEF p
  <2> QED BY <1>1, <1>3, <2>1, <2>2, ForwardPlain, ErrorPlain
<1>5. CASE ResolveGetSession(r)
  <2> DEFINE p == [q EXCEPT !.pc = "clock", !.row = sessions[q.sid]]
  <2>1. Become(r, Unresolved(q)) \/ Become(r, p)
    BY <1>5 DEF ResolveGetSession
  <2>2. p.pc = "clock" /\ p.client = q.client /\ p.key = q.key /\ p.setCookie = q.setCookie
    BY <1>1 DEF Request
  <2> HIDE DEF p
  <2> QED BY <1>1, <1>3, <2>1, <2>2, ForwardPlain, ErrorPlain
<1>6. CASE ResolveClock(r)
  <2> DEFINE p == [q EXCEPT !.pc = IF Expired(q.row, now) THEN "expire" ELSE "touch", !.t = now]
  <2>1. Become(r, p)
    BY <1>6 DEF ResolveClock
  <2>2. /\ p.pc \in {"expire", "touch"}
        /\ p.client = q.client /\ p.key = q.key /\ p.setCookie = q.setCookie
    BY <1>1 DEF Request
  <2> HIDE DEF p
  <2> QED BY <1>3, <2>1, <2>2, ForwardPlain
<1>7. CASE ResolveGetCookies(r)
  <2> DEFINE p == [q EXCEPT !.pc = "authz", !.live = TRUE, !.owner = q.row.owner,
                            !.labels = q.row.labels, !.row = None, !.t = 0]
  <2>1. Become(r, p)
    BY <1>7 DEF ResolveGetCookies
  <2>2. p.pc = "authz" /\ p.client = q.client /\ p.key = q.key /\ p.setCookie = q.setCookie
    BY <1>1 DEF Request
  <2> HIDE DEF p
  <2> QED BY <1>3, <2>1, <2>2, ForwardPlain
<1>8. CASE Authorize(r)
  <2> DEFINE p == [q EXCEPT !.pc = "upstream"]
  <2>1. Become(r, p) \/ Become(r, Answer(q, "denied", Keep))
    BY <1>8 DEF Authorize
  <2>2. p.pc = "upstream" /\ p.client = q.client /\ p.key = q.key /\ p.setCookie = q.setCookie
    BY <1>1 DEF Request
  <2> HIDE DEF p
  <2> QED BY <1>1, <1>3, <2>1, <2>2, ForwardPlain, AnswerPlain
<1>9. CASE UpstreamFails(r)
  BY <1>1, <1>3, <1>9, AnswerPlain DEF UpstreamFails
<1> QED BY <1>4, <1>5, <1>6, <1>7, <1>8, <1>9

\* A touch changes no key, and a delete takes the keys of its session only.
LEMMA StoreCallStrandsNone ==
    ASSUME ProxyInv, ProxyInv', StrandInv, NEW r \in REQ,
           ResolveExpire(r) \/ ResolveTouch(r) \/ Revoke(r)
    PROVE  StrandInv'
<1> DEFINE q == req[r]
<1>1. q \in Request /\ q.sid \in SID /\ q.key \in KEY /\ Open(q)
  BY RequestFacts DEF ResolveExpire, ResolveTouch, Revoke, At, Shape, Resolving, Open
<1>2. CASE ResolveExpire(r)
  <2>1. Become(r, Unresolved(q)) /\ CalmStore(r, Unresolved(q), None)
    BY <1>1, <1>2, CalmDelete DEF ResolveExpire
  <2> QED BY <1>1, <2>1, ErrorPlain, PlainStep
<1>3. CASE Revoke(r)
  <2> DEFINE p == Answer(q, "ok", ExpiredCookie(q))
  <2>1. Become(r, p) /\ CalmStore(r, p, None)
    BY <1>1, <1>3, CalmDelete DEF Revoke
  <2>2. Plain(q, p)
    BY <1>1, AnswerPlain DEF ExpiredCookie
  <2> HIDE DEF p
  <2> QED BY <1>1, <2>1, <2>2, PlainStep
<1>4. CASE ResolveTouch(r) /\ TouchResult(q.sid, q.key) = "ok"
  <2> DEFINE p == [q EXCEPT !.pc = "getcookies"]
  <2>1. Become(r, p) /\ Touches(q) /\ UNCHANGED <<locks, now, jar, mintedSid, mintedKey, granted>>
    BY <1>4 DEF ResolveTouch, Goto
  <2>2. p.pc = "getcookies" /\ p.client = q.client /\ p.key = q.key /\ p.setCookie = q.setCookie
    BY <1>1 DEF Request
  <2> HIDE DEF p
  <2>3. Plain(q, p) /\ ~Own(p)
    BY <2>2, ForwardPlain DEF Own, Creating, Applying
  <2>4. QuietStore
    BY <1>4, <2>1, TouchesQuiet DEF ResolveTouch, At
  <2>5. KeyEffect(r, None)
    BY <2>4, ProxySentinels DEF KeyEffect, QuietStore
  <2>6. keys' = keys /\ \A s \in SID \ {q.sid} : sessions'[s] = sessions[s]
    BY <2>1 DEF Touches, TouchSession, ProxyInv, StoreInv, StoreTypeOK
  <2>7. CalmStore(r, p, None)
    BY <2>1, <2>3, <2>5, <2>6 DEF CalmStore
  <2> QED BY <1>1, <2>1, <2>3, <2>7, PlainStep
<1>5. CASE ResolveTouch(r) /\ TouchResult(q.sid, q.key) # "ok"
  <2>1. Become(r, ResolveError(q)) /\ UNCHANGED <<rowVars, jar, mintedSid, mintedKey, granted>>
    BY <1>5 DEF ResolveTouch
  <2> QED BY <1>1, <2>1, ErrorPlain, IdlePlainStep
<1> QED BY <1>2, <1>3, <1>4, <1>5

\* The response is processed up to its first store call.
LEMMA ResponseStrandsNone ==
    ASSUME ProxyInv, ProxyInv', StrandInv, NEW r \in REQ, UpstreamResponds(r) \/ TakeLock(r)
    PROVE  StrandInv'
<1> DEFINE q == req[r]
<1>1. q \in Request /\ Shape(q) /\ q.pc \in {"upstream", "lock"}
  BY RequestFacts DEF UpstreamResponds, TakeLock, At
<1>2. ~q.rewrite /\ Open(q)
  BY <1>1 DEF Shape, Applying, Answered, Open
<1>3. UNCHANGED <<rowVars, jar, mintedSid, mintedKey, granted>>
  BY DEF UpstreamResponds, TakeLock, storeVars, rowVars
<1>4. ASSUME NEW u \in Request, u.client = q.client, u.key = q.key, u.setCookie = q.setCookie,
             u.pc = q.pc, NEW p, Plain(u, p)
      PROVE  Plain(q, p)
  <2>1. ~Own(u)
    BY <1>1, <1>4 DEF Own, Creating, Applying
  <2> QED BY <1>4, <2>1 DEF Plain
<1>5. CASE UpstreamResponds(r)
  <2>1. PICK resp \in RESPONSE : Become(r, Process([q EXCEPT !.resp = resp]))
    BY <1>5 DEF UpstreamResponds
  <2> DEFINE u == [q EXCEPT !.resp = resp]
  <2>2. u \in Request
    BY <1>1, Update, ProxyAssumption
  <2>3. /\ u.client = q.client /\ u.key = q.key /\ u.setCookie = q.setCookie /\ u.pc = q.pc
        /\ u.rewrite = q.rewrite
    BY <1>1 DEF Request
  <2>4. Become(r, Process(u))
    BY <2>1
  <2> HIDE DEF u
  <2>5. Plain(u, Process(u))
    <3>1. CASE u.resp.revoke /\ u.resolveErr
      BY <2>2, <3>1, ErrorPlain DEF Process
    <3>2. CASE ~(u.resp.revoke /\ u.resolveErr) /\ u.live /\ Synchronize
      <4> DEFINE p == [u EXCEPT !.pc = "lock"]
      <4>1. p.pc = "lock" /\ p.client = u.client /\ p.key = u.key /\ p.setCookie = u.setCookie
        BY <2>2 DEF Request
      <4>2. Process(u) = p
        BY <3>2 DEF Process
      <4> HIDE DEF p
      <4> QED BY <4>1, <4>2, ForwardPlain
    <3>3. CASE ~(u.resp.revoke /\ u.resolveErr) /\ ~(u.live /\ Synchronize)
      BY <1>2, <2>2, <2>3, <3>3, ProcessLockedPlain DEF Process
    <3> QED BY <3>1, <3>2, <3>3
  <2>6. Plain(q, Process(u))
    BY <1>4, <2>2, <2>3, <2>5
  <2> QED BY <1>2, <1>3, <2>4, <2>6, IdlePlainStep
<1>6. CASE TakeLock(r) /\ LockFree(q.sid)
  <2> DEFINE u == [q EXCEPT !.locked = TRUE]
  <2>1. u \in Request
    BY <1>1, Update
  <2>2. /\ u.client = q.client /\ u.key = q.key /\ u.setCookie = q.setCookie /\ u.pc = q.pc
        /\ u.rewrite = q.rewrite
    BY <1>1 DEF Request
  <2>3. Become(r, ProcessLocked(u))
    BY <1>6 DEF TakeLock
  <2> HIDE DEF u
  <2>4. Plain(q, ProcessLocked(u))
    BY <1>2, <1>4, <2>1, <2>2, ProcessLockedPlain
  <2> QED BY <1>2, <1>3, <2>3, <2>4, IdlePlainStep
<1>7. CASE TakeLock(r) /\ ~LockFree(q.sid)
  <2>1. Become(r, ProcessError(q))
    BY <1>7 DEF TakeLock
  <2> QED BY <1>1, <1>2, <1>3, <2>1, ErrorPlain, IdlePlainStep
<1> QED BY <1>5, <1>6, <1>7

-----------------------------------------------------------------------------
(* Those of a session under creation.                                      *)

\* Begin draws a key no browser holds.
LEMMA BeginClockStrandsNone ==
    ASSUME ProxyInv, ProxyInv', StrandInv, NEW r \in REQ, BeginClock(r)
    PROVE  StrandInv'
<1> DEFINE q == req[r]
           id == CHOOSE s \in SID \ mintedSid : TRUE
           k == CHOOSE x \in KEY \ mintedKey : TRUE
           p == [q EXCEPT !.pc = "putsession", !.t = now, !.sid = id, !.key = k]
<1>1. q \in Request /\ q.pc = "begin" /\ KnownIds /\ CookieKeyInv(r) /\ Founding(r)
  BY RequestFacts DEF BeginClock, At, ProxyInv, KeyInv, StrandInv
<1>2. id \in SID \ mintedSid /\ k \in KEY \ mintedKey
  BY DEF BeginClock, ProxyInv, BookTypeOK
<1>3. Become(r, p) /\ mintedSid' = mintedSid \union {id} /\ UNCHANGED <<storeVars, jar, granted>>
  BY DEF BeginClock
<1> HIDE DEF id, k
<1>4. /\ p.pc = "putsession" /\ p.sid = id /\ p.key = k /\ p.setCookie = q.setCookie
      /\ p.client = q.client /\ p.resp = q.resp
  BY <1>1 DEF Request
<1> HIDE DEF p
<1>5. keys[k] = None /\ granted[k] = None
  BY <1>1, <1>2 DEF KnownIds
<1>6. KeyEffect(r, k) /\ KeysSurvive(r, p)
  BY <1>2, <1>3, <1>5 DEF KeyEffect, KeysSurvive, SameGrant, Live, storeVars
<1>7. CookieEffect(r, p)
  BY <1>1, <1>2, <1>4 DEF CookieEffect, CookieKeyInv, Pending
<1>8. req'[r] = p /\ Private(r)'
  BY <1>3 DEF Become, ProxyInv, RequestInv
<1>9. Founding(r)'
  <2>1. sessions'[p.sid] = None
    BY <1>4, <1>8 DEF Private, Own, Creating, Live
  <2>2. \A x \in KEY : granted'[x] # None => granted'[x].sid # p.sid
    BY <1>2, <1>3, <1>4 DEF StrandInv
  <2>3. NeedsSession(p.resp)
    BY <1>1, <1>4 DEF Founding
  <2> QED BY <1>8, <2>1, <2>2, <2>3 DEF Founding, Live
<1>10. \A s \in SID \ {q.sid} : Live(s)' => sessions'[s] = sessions[s]
  BY <1>3 DEF storeVars
<1> QED BY <1>2, <1>3, <1>6, <1>7, <1>9, <1>10, StrandStep

\* The new session and its key are nobody else's.
LEMMA BeginPutStrandsNone ==
    ASSUME ProxyInv, ProxyInv', StrandInv, NEW r \in REQ, BeginPutSession(r) \/ BeginPutKey(r)
    PROVE  StrandInv'
<1> DEFINE q == req[r]
<1>1. q \in Request /\ q.pc \in Creating /\ q.sid \in SID /\ q.key \in KEY /\ Open(q) /\ Own(q)
  BY RequestFacts DEF BeginPutSession, BeginPutKey, At, Shape, Creating, Open, Own
<1>2. ASSUME NEW p, p.client = q.client, p.key = q.key, p.setCookie = q.setCookie, p.sid = q.sid,
             p.resp = q.resp, p.pc \in {"putkey", "applyclock"}
      PROVE  Plain(q, p)
  BY <1>1, <1>2 DEF Plain
<1>3. CASE BeginPutSession(r)
  <2> DEFINE p == [q EXCEPT !.pc = "putkey"]
             row == BeginRow(q.t)
  <2>1. /\ Become(r, p) /\ PutSession(q.sid, row) /\ q.pc = "putsession"
        /\ UNCHANGED <<locks, now, jar, mintedSid, mintedKey, granted>>
    BY <1>3 DEF BeginPutSession, Goto, At
  <2>2. /\ p.pc = "putkey" /\ p.client = q.client /\ p.key = q.key /\ p.setCookie = q.setCookie
        /\ p.sid = q.sid /\ p.resp = q.resp
    BY <1>1 DEF Request
  <2> HIDE DEF p
  <2>3. KeyEffect(r, None) /\ UNCHANGED keys
    BY <2>1, PutSessionEffect
  <2>4. row.owner = NoOwner /\ row.labels = {}
    BY DEF BeginRow, NewRow
  <2>5. sessions'[q.sid] = row /\ \A s \in SID \ {q.sid} : sessions'[s] = sessions[s]
    BY <1>1, <2>1 DEF PutSession, ProxyInv, StoreInv, StoreTypeOK
  <2> HIDE DEF row
  <2>6. CalmStore(r, p, None)
    BY <2>1, <2>3, <2>4, <2>5 DEF CalmStore
  <2> QED BY <1>1, <1>2, <2>1, <2>2, <2>6, PlainStep
<1>4. CASE BeginPutKey(r) /\ PutKeyResult(q.sid) = "ok"
  <2> DEFINE p == [q EXCEPT !.pc = "applyclock", !.live = TRUE, !.rewrite = TRUE,
                            !.owner = NoOwner, !.labels = {}]
  <2>1. /\ Become(r, p) /\ PutKey(q.key, q.sid) /\ q.pc = "putkey"
        /\ UNCHANGED <<locks, now, jar, mintedSid, mintedKey, granted>>
    BY <1>4 DEF BeginPutKey, At
  <2>2. /\ p.pc = "applyclock" /\ p.client = q.client /\ p.key = q.key /\ p.setCookie = q.setCookie
        /\ p.sid = q.sid /\ p.resp = q.resp
    BY <1>1 DEF Request
  <2> HIDE DEF p
  <2>3. KeyEffect(r, q.key)
    BY <2>1, PutKeyEffect
  <2>4. granted[q.key] = None
    BY <1>1 DEF ProxyInv, RequestInv, Private
  <2>5. UNCHANGED sessions /\ \A k \in KEY \ {q.key} : keys'[k] = keys[k]
    BY <2>1 DEF PutKey, ProxyInv, StoreInv, StoreTypeOK
  <2>6. CalmStore(r, p, q.key)
    BY <2>1, <2>3, <2>4, <2>5 DEF CalmStore
  <2> QED BY <1>1, <1>2, <2>1, <2>2, <2>6, PlainStep
<1>5. CASE BeginPutKey(r) /\ PutKeyResult(q.sid) # "ok"
  <2>1. Become(r, ProcessError(q)) /\ UNCHANGED <<rowVars, jar, mintedSid, mintedKey, granted>>
    BY <1>5 DEF BeginPutKey
  <2> QED BY <1>1, <2>1, ErrorPlain, IdlePlainStep
<1> QED BY <1>3, <1>4, <1>5

-----------------------------------------------------------------------------
(* The commit, once more.                                                  *)

\* The answer after a commit carries the key of the handle if that is new.
LEMMA AppliedFields ==
    ASSUME NEW q \in Request, NEW c
    PROVE  LET p == AppliedAnswer(q, c) IN
           /\ p.client = q.client /\ p.key = c.newKey /\ p.pc \in {"unlock", "reply"}
           /\ p.setCookie = IF q.rewrite \/ c.rotate THEN c.newKey ELSE Keep
<1> DEFINE a == Applied(q, c)
           cookie == ProxyCookie(a)
           p == Answer(a, "ok", cookie)
<1>1. /\ a.client = q.client /\ a.key = c.newKey /\ a.rewrite = (q.rewrite \/ c.rotate)
      /\ a = [x \in DOMAIN q |-> a[x]]
      /\ DOMAIN q = DOMAIN IdleRequest
  BY DEF Applied, Request, IdleRequest
<1>2. cookie = IF q.rewrite \/ c.rotate THEN c.newKey ELSE Keep
  BY <1>1 DEF ProxyCookie
<1>3. p = [a EXCEPT !.pc = IF a.locked THEN "unlock" ELSE "reply", !.status = "ok",
                    !.setCookie = cookie]
  BY DEF Answer
<1> HIDE DEF a, cookie
<1>4. /\ p.client = a.client /\ p.key = a.key /\ p.pc \in {"unlock", "reply"}
      /\ p.setCookie = cookie
  BY <1>1, <1>3 DEF IdleRequest
<1> QED BY <1>1, <1>2, <1>4 DEF AppliedAnswer, a, cookie

\* The row is read back: a session under creation is found as Begin left it, so its
\* response has an effect.
LEMMA ApplyReadsStrandNone ==
    ASSUME ProxyInv, ProxyInv', StrandInv, NEW r \in REQ, ApplyClock(r) \/ ApplyGetSession(r)
    PROVE  StrandInv'
<1> DEFINE q == req[r]
<1>1. q \in Request /\ q.pc \in Applying /\ Open(q) /\ q.sid \in SID /\ q.resp \in Response
  BY RequestFacts DEF ApplyClock, ApplyGetSession, At, Shape, Applying, Open, Responding, Mutating
<1>2. UNCHANGED <<rowVars, jar, mintedSid, mintedKey, granted>> /\ Founding(r)
  BY DEF ApplyClock, ApplyGetSession, storeVars, rowVars, StrandInv
<1>3. ASSUME NEW p, p.client = q.client, p.key = q.key, p.setCookie = q.setCookie, p.sid = q.sid,
             p.resp = q.resp, p.rewrite = q.rewrite, p.pc \in {"applyget", "apply"}, Become(r, p)
      PROVE  StrandInv'
  <2>1. Plain(q, p)
    BY <1>1, <1>3 DEF Plain, Own, Creating, Applying
  <2> QED BY <1>1, <1>2, <1>3, <2>1, IdlePlainStep
<1>4. CASE ApplyClock(r)
  <2> DEFINE p == [q EXCEPT !.pc = "applyget", !.t = now]
  <2>1. Become(r, p)
    BY <1>4 DEF ApplyClock
  <2>2. /\ p.pc = "applyget" /\ p.client = q.client /\ p.key = q.key /\ p.setCookie = q.setCookie
        /\ p.sid = q.sid /\ p.resp = q.resp /\ p.rewrite = q.rewrite
    BY <1>1 DEF Request
  <2> HIDE DEF p
  <2> QED BY <1>3, <2>1, <2>2
<1>5. CASE ApplyGetSession(r)
  <2> DEFINE s == sessions[q.sid]
             u == [q EXCEPT !.row = s]
             c == ResponseControls(u)
  <2>1. CASE s = None
    <3>1. Become(r, ProcessError(q))
      BY <1>5, <2>1 DEF ApplyGetSession
    <3> QED BY <1>1, <1>2, <3>1, ErrorPlain, IdlePlainStep
  <2>2. s \in Session \union {None}
    BY <1>1 DEF ProxyInv, StoreInv, StoreTypeOK
  <2>3. /\ u \in Request
        /\ u.pc = q.pc /\ u.sid = q.sid /\ u.key = q.key /\ u.row = s /\ u.client = q.client
        /\ u.resp = q.resp /\ u.rewrite = q.rewrite /\ u.setCookie = q.setCookie
    <3> HIDE DEF s
    <3>1. u \in Request
      BY <1>1, <2>2, Update
    <3> QED BY <1>1, <3>1 DEF Request
  <2>4. CASE s # None /\ NoEffect(c)
    <3> DEFINE p == AppliedAnswer(u, c)
    <3>1. Become(r, p)
      BY <1>5, <2>4 DEF ApplyGetSession, AppliedAnswer
    <3>2. /\ c.rotate = FALSE /\ c.newKey = q.key
          /\ ~OwnerChanges(s, q.resp) /\ ~LabelsChange(s, q.resp) /\ q.resp.cookies = NoMutations
      BY <2>3, <2>4 DEF NoEffect, ResponseControls, Controls, Rotates
    <3>3. ~q.rewrite
      <4> SUFFICES ASSUME q.rewrite PROVE FALSE
        OBVIOUS
      <4>1. NeedsSession(q.resp) /\ s.owner = NoOwner /\ s.labels = {}
        BY <1>1, <1>2, <2>4 DEF Founding, Own, Live
      <4>2. \A n \in NAME : q.resp.cookies[n] = Keep
        BY <3>2 DEF NoMutations
      <4> QED BY <3>2, <4>1, <4>2, SentinelAssumption DEF NeedsSession, OwnerChanges, LabelsChange
    <3> HIDE DEF c, u
    <3>4. /\ p.client = q.client /\ p.key = q.key /\ p.pc \in {"unlock", "reply"}
          /\ p.setCookie = Keep
      BY <2>3, <3>2, <3>3, AppliedFields
    <3> HIDE DEF p
    <3>5. Plain(q, p)
      BY <3>4 DEF Plain, Own, Creating, Applying
    <3> QED BY <1>1, <1>2, <3>1, <3>5, IdlePlainStep
  <2>5. CASE s # None /\ ~NoEffect(c)
    <3> DEFINE p == [u EXCEPT !.pc = "apply"]
    <3>1. Become(r, p)
      BY <1>5, <2>5 DEF ApplyGetSession
    <3> HIDE DEF u
    <3>2. /\ p.pc = "apply" /\ p.client = q.client /\ p.key = q.key /\ p.setCookie = q.setCookie
          /\ p.sid = q.sid /\ p.resp = q.resp /\ p.rewrite = q.rewrite
      BY <2>3 DEF Request
    <3> HIDE DEF p
    <3> QED BY <1>3, <3>1, <3>2
  <2> QED BY <2>1, <2>4, <2>5
<1> QED BY <1>4, <1>5

\* The commit swaps the key of its own request only, and its answer carries the new one.
LEMMA ApplyStrandsNone ==
    ASSUME ProxyInv, ProxyInv', StrandInv, NEW r \in REQ, Apply(r)
    PROVE  StrandInv'
<1> DEFINE q == req[r]
           c == ResponseControls(q)
           a == Applied(q, c)
           p == AppliedAnswer(q, c)
<1>1. q \in Request /\ q.pc = "apply" /\ Open(q) /\ ~Pending(q)
  BY RequestFacts DEF Apply, At, Open, Pending
<1>2. CASE ApplyResult(q.sid, c) = "ok"
  <2>1. /\ Commits(q, c) /\ Become(r, p) /\ UNCHANGED <<locks, now, jar, mintedSid>>
        /\ granted' = IF a.rewrite THEN [granted EXCEPT ![a.key] = Grant(q.sid, sessions'[q.sid])]
                                   ELSE granted
    BY <1>2 DEF Apply, AppliedAnswer
  <2>2. /\ q.sid \in SID /\ q.key \in KEY /\ q.rewrite \in BOOLEAN
        /\ c \in ControlsAt(q.key, Nat) /\ c.oldKey = q.key /\ c.newKey \in KEY
        /\ (c.rotate => c.newKey \notin mintedKey /\ ~q.rewrite)
        /\ (~c.rotate => c.newKey = q.key)
    BY <1>1, <2>1, ApplyFacts DEF Commits
  <2>3. c.rotate \in BOOLEAN
    BY <2>2 DEF ControlsAt
  <2>4. a.key = c.newKey /\ a.rewrite = (q.rewrite \/ c.rotate)
    BY <1>1 DEF Applied, Request
  <2>5. granted' = IF q.rewrite \/ c.rotate
                     THEN [granted EXCEPT ![c.newKey] = Grant(q.sid, sessions'[q.sid])] ELSE granted
    BY <2>1, <2>4
  <2>6. PICK j \in KEY \union {None} : KeyEffect(r, j)
    <3>1. \/ granted' = granted
          \/ /\ q.rewrite \/ c.rotate
             /\ granted' = [granted EXCEPT ![c.newKey] = Grant(q.sid, sessions'[q.sid])]
      BY <2>5
    <3> QED BY <1>1, <2>1, <3>1, CommitEffect
  <2>7. /\ p.client = q.client /\ p.key = c.newKey /\ p.pc \in {"unlock", "reply"}
        /\ p.setCookie = IF q.rewrite \/ c.rotate THEN c.newKey ELSE Keep
    BY <1>1, AppliedFields
  <2> HIDE DEF p, c
  <2>8. /\ keys[q.key] = q.sid /\ sessions'[q.sid] \in Session /\ (\A s \in SID \ {q.sid} : sessions'[s] = sessions[s])
        /\ keys' = SwapKeys(q.sid, c)
    BY <2>1, <2>2, ApplyRows DEF Commits
  <2>9. KnownIds /\ keys \in [KEY -> SID \union {None}] /\ Keep \notin KEY /\ None \notin SID
    BY ProxySentinels, SentinelAssumption DEF ProxyInv, KeyInv, StoreInv, StoreTypeOK
  <2>10. c.rotate => c.newKey # q.key /\ granted[c.newKey] = None
    BY <2>2, <2>8, <2>9 DEF KnownIds
  <2>11. /\ keys'[c.newKey] = q.sid
         /\ \A k \in KEY \ {c.newKey, q.key} : keys'[k] = keys[k]
         /\ ~c.rotate => keys' = keys
    BY <2>2, <2>8, <2>9, <2>10 DEF SwapKeys
  <2>12. KeysSurvive(r, p)
    BY <1>1, <2>2, <2>7, <2>10, <2>11 DEF KeysSurvive, Pending
  <2>13. CookieEffect(r, p)
    <3>1. ASSUME q.rewrite \/ c.rotate PROVE Issued(r, p)
      <4>1. (Own(q) /\ p.key = q.key) \/ p.key \notin mintedKey
        BY <1>1, <2>2, <2>3, <2>7, <3>1 DEF Own, Applying
      <4>2. granted'[c.newKey] = Grant(q.sid, sessions'[q.sid])
        BY <2>2, <2>5, <3>1 DEF ProxyInv, BookTypeOK
      <4>3. granted'[c.newKey] # None /\ granted'[c.newKey].sid = q.sid
        BY <2>2, <2>8, <4>2, GrantSentinel DEF Grant, Session
      <4> QED BY <2>7, <2>11, <4>1, <4>3 DEF Issued
    <3> QED BY <1>1, <2>2, <2>3, <2>7, <2>9, <3>1 DEF CookieEffect
  <2>14. Founding(r)'
    <3>1. req'[r] = p
      BY <2>1 DEF Become, ProxyInv
    <3> QED BY <2>7, <3>1 DEF Founding, Own, Creating, Applying
  <2> QED BY <2>1, <2>6, <2>8, <2>12, <2>13, <2>14, StrandStep
<1>3. CASE ApplyResult(q.sid, c) # "ok"
  <2>1. Become(r, ProcessError(q)) /\ UNCHANGED <<rowVars, jar, mintedSid, mintedKey, granted>>
    BY <1>3 DEF Apply
  <2> QED BY <1>1, <2>1, ErrorPlain, IdlePlainStep
<1> QED BY <1>2, <1>3

-----------------------------------------------------------------------------
(* The answer on its way, failed calls, new requests and time.             *)

\* An answer that moves on still carries its key.
LEMMA AnswerMovesOn ==
    ASSUME ProxyInv, ProxyInv', StrandInv, NEW r \in REQ, req[r].pc \in {"unlock", "reply"},
           NEW v \in {"reply", "lost"}, Become(r, [req[r] EXCEPT !.pc = v]),
           UNCHANGED <<rowVars, jar, mintedSid, mintedKey, granted>>
    PROVE  StrandInv'
<1> DEFINE q == req[r]
           p == [q EXCEPT !.pc = v]
<1>1. q \in Request /\ CookieKeyInv(r) /\ req'[r] = p
  BY RequestFacts DEF StrandInv, Become, ProxyInv
<1>2. p.pc = v /\ p.client = q.client /\ p.key = q.key /\ p.setCookie = q.setCookie
  BY <1>1 DEF Request
<1>3. Become(r, p)
  OBVIOUS
<1> HIDE DEF p
<1>4. CalmStore(r, p, None)
  BY CalmIdle
<1>5. CookieEffect(r, p)
  BY <1>1, <1>2 DEF CookieEffect, CookieKeyInv, Pending
<1>6. KeysSurvive(r, p) /\ \A s \in SID \ {q.sid} : Live(s)' => sessions'[s] = sessions[s]
  BY <1>4 DEF KeysSurvive, CalmStore
<1>7. Founding(r)'
  BY <1>1, <1>2 DEF Founding, Own, Creating, Applying
<1> QED BY <1>3, <1>4, <1>5, <1>6, <1>7, StrandStep DEF CalmStore

\* A failed call hands no key out; a released lock or a lost connection keeps the one
\* that was.
LEMMA FailureStrandsNone ==
    ASSUME ProxyInv, ProxyInv', StrandInv, NEW r \in REQ,
           FailedCall(r) \/ ReleaseLock(r) \/ Disconnect(r)
    PROVE  StrandInv'
<1> DEFINE q == req[r]
<1>1. q \in Request
  BY RequestFacts
<1>2. UNCHANGED <<rowVars, jar, mintedSid, mintedKey, granted>>
  BY DEF FailedCall, ReleaseLock, Disconnect, storeVars, rowVars
<1>3. CASE ReleaseLock(r)
  BY <1>2, <1>3, AnswerMovesOn DEF ReleaseLock, At, Goto
<1>4. CASE Disconnect(r)
  BY <1>2, <1>4, AnswerMovesOn DEF Disconnect, At, Goto
<1>5. CASE FailedCall(r) /\ q.pc = "unlock"
  <2>1. Become(r, [q EXCEPT !.pc = "reply"])
    BY <1>5 DEF FailedCall, OnError, ResolveCalls, ResponseCalls
  <2> QED BY <1>2, <1>5, <2>1, AnswerMovesOn
<1>6. CASE FailedCall(r) /\ q.pc # "unlock"
  <2>1. Open(q)
    BY <1>6 DEF FailedCall, StoreCalls, ResolveCalls, ResponseCalls, Open
  <2>2. Become(r, OnError(q)) /\ OnError(q) \in {ProcessError(q), ResolveError(q), Unresolved(q)}
    BY <1>6 DEF FailedCall, OnError, StoreCalls
  <2>3. Plain(q, OnError(q))
    BY <1>1, <2>2, ErrorPlain
  <2> QED BY <1>2, <2>1, <2>2, <2>3, IdlePlainStep
<1> QED BY <1>3, <1>4, <1>5, <1>6

\* The browser takes over the key its response carries; nobody else has it.
LEMMA DeliverStrandsNone ==
    ASSUME ProxyInv, ProxyInv', StrandInv, NEW r \in REQ, Deliver(r)
    PROVE  StrandInv'
<1> DEFINE q == req[r]
           p == [q EXCEPT !.pc = "done"]
<1>1. /\ q \in Request /\ CookieKeyInv(r) /\ q.pc = "reply"
      /\ (\A x \in REQ : CookieKeyInv(x) /\ Founding(x)) /\ JarInv
  BY RequestFacts DEF StrandInv, Deliver, At
<1>2. p.pc = "done" /\ p.client = q.client /\ p.key = q.key /\ p.setCookie = q.setCookie
  BY <1>1 DEF Request
<1>3. req'[r] = p /\ (\A x \in REQ \ {r} : req'[x] = req[x]) /\ UNCHANGED <<storeVars, granted, mintedSid>>
  BY DEF Deliver, Goto, Become, ProxyInv
<1> HIDE DEF p
<1>4. \A c \in CLIENT : \/ jar'[c] = jar[c] /\ (Pending(q) => c # q.client)
                        \/ c = q.client /\ jar'[c] = None
                        \/ c = q.client /\ jar'[c] = q.setCookie /\ Pending(q)
  <2>1. q.setCookie \in KEY \union {None, Keep} /\ jar \in [CLIENT -> KEY \union {None}]
    BY <1>1 DEF Request, ProxyInv, BookTypeOK
  <2> QED BY <1>1, <2>1, ProxySentinels DEF Deliver, Pending
<1>6. Pending(q) => /\ Works(q.setCookie) /\ q.setCookie \in KEY /\ q.key = q.setCookie
                    /\ \A c \in CLIENT : jar[c] # q.setCookie
                    /\ \A x \in REQ \ {r} : req[x].key # q.setCookie
  BY <1>1 DEF CookieKeyInv, Pending
<1>7. JarInv'
  <2>1. ASSUME NEW c \in CLIENT, jar'[c] # None
        PROVE  granted'[jar'[c]] # None /\ (Works(jar[c])' \/ Underway(c)')
    <3>1. CASE jar'[c] = jar[c] /\ (Pending(q) => c # q.client)
      <4>1. jar[c] \in KEY /\ granted[jar[c]] # None /\ (Works(jar[c]) \/ Underway(c))
        BY <1>1, <2>1, <3>1 DEF JarInv, ProxyInv, BookTypeOK
      <4>2. ASSUME Underway(c) PROVE Underway(c)'
        <5>1. PICK x \in REQ : req[x].client = c /\ Pending(req[x])
          BY <4>2 DEF Underway
        <5>2. x # r
          BY <3>1, <5>1
        <5> QED BY <1>3, <5>1, <5>2 DEF Underway, Pending
      <4>3. ASSUME Works(jar[c]) PROVE Works(jar[c])'
        BY <1>3, <3>1, <4>1, <4>3 DEF Works, Live, storeVars
      <4> QED BY <1>3, <3>1, <4>1, <4>2, <4>3
    <3>2. CASE jar'[c] = q.setCookie /\ Pending(q)
      BY <1>3, <1>6, <3>2 DEF Works, Live, storeVars
    <3> QED BY <1>4, <2>1, <3>1, <3>2
  <2>2. ASSUME NEW c \in CLIENT, NEW d \in CLIENT, jar'[c] # None, jar'[c] = jar'[d]
        PROVE  c = d
    BY <1>1, <1>4, <1>6, <2>2 DEF JarInv
  <2>3. ASSUME NEW c \in CLIENT, NEW x \in REQ, jar'[c] # None, req'[x].key = jar'[c]
        PROVE  req'[x].client = c
    <3>1. req'[x].key = req[x].key /\ req'[x].client = req[x].client
      BY <1>2, <1>3
    <3> QED BY <1>1, <1>4, <1>6, <2>3, <3>1 DEF JarInv
  <2> QED BY <2>1, <2>2, <2>3 DEF JarInv
<1>8. ASSUME NEW x \in REQ PROVE CookieKeyInv(x)' /\ Founding(x)'
  <2>1. CASE x = r
    BY <1>1, <1>2, <1>3, <2>1 DEF CookieKeyInv, Founding, Pending, Own, Creating, Applying
  <2>2. CASE x # r
    <3>1. req'[x] = req[x] /\ CookieKeyInv(x) /\ Founding(x)
      BY <1>1, <1>3, <2>2
    <3>2. ASSUME Pending(req[x])
          PROVE  /\ Works(req[x].setCookie)'
                 /\ \A c \in CLIENT : jar'[c] # req[x].setCookie
                 /\ \A z \in REQ \ {x} : req'[z].key # req[x].setCookie
      <4>1. /\ req[x].setCookie \in KEY /\ Works(req[x].setCookie)
            /\ (\A c \in CLIENT : jar[c] # req[x].setCookie)
            /\ (\A z \in REQ \ {x} : req[z].key # req[x].setCookie)
        BY <3>1, <3>2 DEF CookieKeyInv, Pending
      <4>2. Works(req[x].setCookie)'
        BY <1>3, <3>1, <4>1 DEF Works, Live, storeVars
      <4>3. \A c \in CLIENT : jar'[c] # req[x].setCookie
        BY <1>4, <1>6, <2>2, <4>1, ProxySentinels
      <4>4. \A z \in REQ \ {x} : req'[z].key # req[x].setCookie
        BY <1>2, <1>3, <4>1
      <4> QED BY <4>2, <4>3, <4>4
    <3>3. CookieKeyInv(x)'
      BY <3>1, <3>2 DEF CookieKeyInv, Pending
    <3>4. Founding(x)'
      BY <1>3, <3>1 DEF Founding, Live, storeVars
    <3> QED BY <3>3, <3>4
  <2> QED BY <2>1, <2>2
<1>9. \A k \in KEY : granted'[k] # None => granted'[k].sid \in mintedSid'
  BY <1>3 DEF StrandInv
<1> QED BY <1>7, <1>8, <1>9 DEF StrandInv

\* A new request carries the key of its own browser.
LEMMA SendStrandsNone ==
    ASSUME ProxyInv, ProxyInv', StrandInv, NEW r \in REQ, Send(r)
    PROVE  StrandInv'
<1>1. PICK b \in CLIENT, need \in REQUIRED :
          Become(r, [IdleRequest EXCEPT
              !.pc = IF jar[b] = None THEN "authz" ELSE "getkey",
              !.client = b, !.presented = jar[b], !.key = jar[b], !.required = need,
              !.target = IF jar[b] = None THEN None ELSE keys[jar[b]]])
  BY DEF Send
<1> DEFINE q == req[r]
           p == [IdleRequest EXCEPT
              !.pc = IF jar[b] = None THEN "authz" ELSE "getkey",
              !.client = b, !.presented = jar[b], !.key = jar[b], !.required = need,
              !.target = IF jar[b] = None THEN None ELSE keys[jar[b]]]
<1>2. p.client = b /\ p.key = jar[b] /\ p.setCookie = Keep /\ p.pc \in {"authz", "getkey"}
  BY DEF IdleRequest
<1>3. /\ req'[r] = p /\ (\A x \in REQ \ {r} : req'[x] = req[x])
      /\ UNCHANGED <<storeVars, jar, granted, mintedSid>>
  BY <1>1 DEF Become, ProxyInv, Send
<1> HIDE DEF p
<1>4. /\ q.pc = "idle" /\ JarInv /\ Keep \notin KEY
      /\ \A x \in REQ : CookieKeyInv(x) /\ Founding(x)
  BY ProxySentinels DEF Send, At, StrandInv
<1>5. JarInv'
  <2>1. ASSUME NEW c \in CLIENT, jar[c] # None
        PROVE  granted'[jar[c]] # None /\ (Works(jar[c])' \/ Underway(c)')
    <3>1. ASSUME Underway(c) PROVE Underway(c)'
      <4>1. PICK x \in REQ : req[x].client = c /\ Pending(req[x])
        BY <3>1 DEF Underway
      <4>2. x # r
        BY <1>4, <4>1 DEF Pending
      <4> QED BY <1>3, <4>1, <4>2 DEF Underway, Pending
    <3>2. ASSUME Works(jar[c]) PROVE Works(jar[c])'
      BY <1>3, <3>2 DEF Works, Live, storeVars
    <3> QED BY <1>3, <1>4, <2>1, <3>1, <3>2 DEF JarInv
  <2>2. ASSUME NEW c \in CLIENT, NEW x \in REQ, jar[c] # None, req'[x].key = jar[c]
        PROVE  req'[x].client = c
    BY <1>2, <1>3, <1>4, <2>2 DEF JarInv
  <2> QED BY <1>3, <1>4, <2>1, <2>2 DEF JarInv
<1>6. ASSUME NEW x \in REQ PROVE CookieKeyInv(x)' /\ Founding(x)'
  <2>1. CASE x = r
    BY <1>2, <1>3, <1>4, <2>1 DEF CookieKeyInv, Founding, Pending, Own, Creating, Applying
  <2>2. CASE x # r
    <3>1. req'[x] = req[x] /\ CookieKeyInv(x) /\ Founding(x)
      BY <1>3, <1>4, <2>2
    <3>2. ASSUME Pending(req[x])
          PROVE  /\ Works(req[x].setCookie)'
                 /\ \A z \in REQ \ {x} : req'[z].key # req[x].setCookie
      <4>1. /\ req[x].setCookie \in KEY /\ Works(req[x].setCookie)
            /\ (\A c \in CLIENT : jar[c] # req[x].setCookie)
            /\ (\A z \in REQ \ {x} : req[z].key # req[x].setCookie)
        BY <3>1, <3>2 DEF CookieKeyInv, Pending
      <4>2. Works(req[x].setCookie)'
        BY <1>3, <3>1, <4>1 DEF Works, Live, storeVars
      <4> QED BY <1>2, <1>3, <4>1, <4>2
    <3>3. CookieKeyInv(x)'
      BY <1>3, <3>1, <3>2 DEF CookieKeyInv, Pending
    <3>4. Founding(x)'
      BY <1>3, <3>1 DEF Founding, Live, storeVars
    <3> QED BY <3>3, <3>4
  <2> QED BY <2>1, <2>2
<1>7. \A k \in KEY : granted'[k] # None => granted'[k].sid \in mintedSid'
  BY <1>3 DEF StrandInv
<1> QED BY <1>5, <1>6, <1>7 DEF StrandInv

\* Time takes a key away only with its session.
LEMMA TimeStrandsNone ==
    ASSUME ProxyInv, StrandInv,
           \/ \E id \in SID : SessionExpires(id) \/ LockExpires(id)
           \/ TimePasses
           \/ UNCHANGED vars
    PROVE  StrandInv'
<1>1. /\ UNCHANGED <<req, jar, granted, mintedSid>>
      /\ \A s \in SID : sessions'[s] # None => sessions'[s] = sessions[s]
      /\ \A k \in KEY, s \in SID : keys[k] = s /\ sessions'[s] # None => keys'[k] = s
  <2>1. ASSUME NEW t, NEW gone \in SUBSET SID, Elapse(t, gone)
        PROVE  /\ \A s \in SID : sessions'[s] # None => sessions'[s] = sessions[s]
               /\ \A k \in KEY, s \in SID : keys[k] = s /\ sessions'[s] # None => keys'[k] = s
    BY <2>1 DEF Elapse
  <2>2. ASSUME UNCHANGED rowVars
        PROVE  /\ \A s \in SID : sessions'[s] # None => sessions'[s] = sessions[s]
               /\ \A k \in KEY, s \in SID : keys[k] = s /\ sessions'[s] # None => keys'[k] = s
    BY <2>2 DEF rowVars
  <2>3. CASE \E id \in SID : SessionExpires(id)
    BY <2>1, <2>3 DEF SessionExpires
  <2>4. CASE \E id \in SID : LockExpires(id)
    BY <2>2, <2>4 DEF LockExpires
  <2>5. CASE TimePasses
    BY <2>1, <2>5 DEF TimePasses
  <2>6. CASE UNCHANGED vars
    BY <2>2, <2>6 DEF vars, storeVars, rowVars
  <2> QED BY <2>3, <2>4, <2>5, <2>6
<1>2. ASSUME NEW k \in KEY, Works(k) PROVE Works(k)'
  <2>1. granted[k].sid \in SID /\ granted' = granted
    BY <1>1, <1>2 DEF Works, ProxyInv, BookTypeOK, Granted
  <2> QED BY <1>1, <1>2, <2>1 DEF Works, Live
<1>3. JarInv'
  <2>1. \A c \in CLIENT : jar[c] # None => Works(jar[c])' \/ Underway(c)'
    <3> SUFFICES ASSUME NEW c \in CLIENT, jar[c] # None PROVE Works(jar[c])' \/ Underway(c)'
      OBVIOUS
    <3>1. jar[c] \in KEY /\ (Works(jar[c]) \/ Underway(c)) /\ jar' = jar
      BY <1>1 DEF StrandInv, JarInv, ProxyInv, BookTypeOK
    <3> QED BY <1>1, <1>2, <3>1 DEF Underway, Pending
  <2> QED BY <1>1, <2>1 DEF StrandInv, JarInv
<1>4. ASSUME NEW r \in REQ PROVE CookieKeyInv(r)' /\ Founding(r)'
  <2>1. req'[r] = req[r] /\ CookieKeyInv(r) /\ Founding(r)
    BY <1>1 DEF StrandInv
  <2>2. Pending(req[r]) => Works(req[r].setCookie)'
    BY <1>1, <1>2, <2>1 DEF CookieKeyInv, Pending
  <2>3. CookieKeyInv(r)'
    BY <1>1, <2>1, <2>2 DEF CookieKeyInv, Pending
  <2>4. Own(req[r]) => req[r].sid \in SID
    BY RequestFacts DEF Shape, Own, Creating, Applying
  <2>5. Founding(r)'
    BY <1>1, <2>1, <2>4 DEF Founding, Live, Own
  <2> QED BY <2>3, <2>5
<1> QED BY <1>1, <1>3, <1>4 DEF StrandInv

-----------------------------------------------------------------------------
(* Every state.                                                            *)

\* At first every key is in the jar of one browser and works.
LEMMA StrandInit == Init => StrandInv
<1> SUFFICES ASSUME Init PROVE StrandInv
  OBVIOUS
<1>1. ProxyInv
  BY ProxyInitInv
<1> DEFINE idOf == CHOOSE f \in [CLIENT -> SID] : \A c, d \in CLIENT : f[c] = f[d] => c = d
           keyOf == CHOOSE f \in [CLIENT -> KEY] : \A c, d \in CLIENT : f[c] = f[d] => c = d
<1>2. idOf \in [CLIENT -> SID] /\ keyOf \in [CLIENT -> KEY]
      /\ \A c, d \in CLIENT : keyOf[c] = keyOf[d] => c = d
  BY FirstIds
<1>3. PICK first \in [CLIENT -> EstablishedRows \union {None}] :
          LET has == {c \in CLIENT : first[c] # None} IN
          /\ keys = [k \in KEY |-> IF \E c \in has : keyOf[c] = k
                                     THEN idOf[CHOOSE c \in has : keyOf[c] = k] ELSE None]
          /\ jar = [c \in CLIENT |-> IF c \in has THEN keyOf[c] ELSE None]
          /\ granted = [k \in KEY |-> IF keys[k] = None THEN None
                                      ELSE Grant(keys[k], sessions[keys[k]])]
          /\ req = [r \in REQ |-> IdleRequest]
  BY DEF Init
<1> HIDE DEF idOf, keyOf
<1> DEFINE has == {c \in CLIENT : first[c] # None}
<1>4. \A c \in CLIENT : jar[c] # None => c \in has /\ jar[c] = keyOf[c]
  BY <1>3
<1>5. \A c \in CLIENT : jar[c] # None => jar[c] \in KEY /\ keys[jar[c]] # None
  <2> SUFFICES ASSUME NEW c \in CLIENT, jar[c] # None PROVE jar[c] \in KEY /\ keys[jar[c]] # None
    OBVIOUS
  <2> DEFINE d == CHOOSE x \in has : keyOf[x] = jar[c]
  <2>1. d \in has /\ keyOf[d] = jar[c] /\ jar[c] \in KEY
    BY <1>2, <1>4
  <2>2. keys[jar[c]] = idOf[d]
    BY <1>3, <2>1
  <2> QED BY <1>2, <2>1, <2>2, SentinelAssumption
<1>6. \A k \in KEY : granted[k] # None => /\ keys[k] # None /\ granted[k].sid = keys[k]
  BY <1>3 DEF Grant
<1>7. \A k \in KEY : keys[k] # None => granted[k] # None /\ keys[k] \in mintedSid
  <2> SUFFICES ASSUME NEW k \in KEY, keys[k] # None
               PROVE  granted[k] # None /\ keys[k] \in mintedSid
    OBVIOUS
  <2>1. keys[k] \in SID /\ Live(keys[k]) /\ sessions[keys[k]] \in Session
    BY <1>1 DEF ProxyInv, StoreInv, StoreTypeOK, RowInv, NothingDangles, Live
  <2>2. granted[k] = Grant(keys[k], sessions[keys[k]])
    BY <1>3
  <2>3. granted[k] # None
    BY <2>1, <2>2, GrantSentinel DEF Grant, Session
  <2> QED BY <1>1, <2>1, <2>3 DEF ProxyInv, KeyInv, KnownIds
<1>8. IdleRequest.pc = "idle" /\ IdleRequest.key = None /\ IdleRequest.setCookie = Keep
  BY DEF IdleRequest
<1>9. \A r \in REQ : CookieKeyInv(r) /\ Founding(r)
  BY <1>3, <1>8, ProxySentinels DEF CookieKeyInv, Pending, Founding, Own, Creating, Applying
<1>10. JarInv
  <2>1. \A c \in CLIENT : jar[c] # None => granted[jar[c]] # None /\ Works(jar[c])
    BY <1>5, <1>6, <1>7 DEF Works
  <2>2. \A c, d \in CLIENT : jar[c] # None /\ jar[c] = jar[d] => c = d
    BY <1>2, <1>4
  <2>3. \A r \in REQ : req[r].key = None
    BY <1>3, <1>8
  <2> QED BY <2>1, <2>2, <2>3 DEF JarInv
<1> QED BY <1>6, <1>7, <1>9, <1>10 DEF StrandInv

\* Every step without a lost reply keeps the browsers' keys in order.
LEMMA StrandNext ==
    ASSUME ~EffectLost
    PROVE  ProxyInv /\ ProxyInv' /\ StrandInv /\ [Next]_vars => StrandInv'
<1> SUFFICES ASSUME ProxyInv, ProxyInv', StrandInv, [Next]_vars PROVE StrandInv'
  OBVIOUS
<1>1. ASSUME NEW r \in REQ, Send(r) \/ Serve(r) PROVE StrandInv'
  <2>1. ~LostReply(r)
    BY DEF LostReply
  <2> QED BY <1>1, <2>1, ResolveStrandsNone, StoreCallStrandsNone, ResponseStrandsNone,
             BeginClockStrandsNone, BeginPutStrandsNone, ApplyReadsStrandNone, ApplyStrandsNone,
             FailureStrandsNone, DeliverStrandsNone, SendStrandsNone
          DEF Serve
<1> QED BY <1>1, TimeStrandsNone DEF Next

\* As long as no store call takes effect and reports an error, a browser is never
\* left with a dead key to a live session: whoever rotates its key is a request of
\* its own, and the response with the replacement is underway to it or was cut off.
THEOREM ProxyClientNotStranded ==
    ASSUME ~EffectLost
    PROVE  Spec => []ClientNotStranded
<1>1. StrandInv => ClientNotStranded
  BY DEF StrandInv, JarInv, Works, Underway, Pending, ClientNotStranded
<1>2. ProxyInv /\ ProxyInv' /\ StrandInv /\ [Next]_vars => StrandInv'
  BY StrandNext
<1> QED BY <1>1, <1>2, StrandInit, ProxyInvariant, PTL DEF Spec
=============================================================================
