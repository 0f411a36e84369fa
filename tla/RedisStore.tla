----------------------------- MODULE RedisStore -----------------------------
(***************************************************************************)
(* The Redis implementation of the store, internal/store/redis.go.  Each   *)
(* method is one Lua script, which Redis runs atomically, over five kinds  *)
(* of Redis keys, each with a time to live of its own: the session row,    *)
(* the client key, the cookies (attr and sha, always written and expired   *)
(* together), the reverse set of a session's keys, and the owner set.      *)
(* Deadlines are in milliseconds; here a second has SEC ticks.             *)
(*                                                                         *)
(* The calls carry the time to live arguments the session manager computes *)
(* from its own clock, which agrees with Redis' clock but may have been    *)
(* read earlier.  Contract is the store contract this implements: an entry *)
(* past its deadline is absent, and the owner index is what the owner set  *)
(* says about living sessions.  The advisory lock shares nothing with      *)
(* these entries; it is the one of the contract.                           *)
(***************************************************************************)
EXTENDS Integers

CONSTANTS
    SID, KEY, NAME, VAL, OWNER, LABEL, HOLDER, INACTIVE, FINAL, MaxTime, None, Keep,
    SEC,       \* clock ticks per second
    MaxLag     \* bound: seconds since the caller of a script read its clock

ASSUME RedisAssumption ==
    /\ SEC \in Nat \ {0} /\ MaxLag \in Nat /\ MaxTime \in Nat
    /\ INACTIVE \subseteq Nat \ {0} /\ FINAL \subseteq Nat \ {0}
    /\ OWNER \subseteq Nat \ {0}

VARIABLES
    row,    \* sess:<id>        SID -> the session hash, or None
    key,    \* key:<key>        KEY -> the session id, or None
    attr,   \* sess:<id>:attr   SID -> NAME -> the cookie, or None
    rev,    \* sess:<id>:keys   SID -> the keys issued for the session
    own,    \* owner:<id>       OWNER -> the set of session ids
    until,  \* the deadline of each entry; 0: absent or without time to live
    ms      \* Redis' clock

redisVars == <<row, key, attr, rev, own, until, ms>>

Sec == ms \div SEC

Indexed(o) == {id \in own[o] : row[id] # None /\ row[id].owner = o}

Contract == INSTANCE SessionStore
              WITH sessions <- row, keys <- key, cookies <- attr, now <- Sec,
                   owners <- [o \in OWNER |-> Indexed(o)], locks <- [s \in SID |-> None]

ASSUME RedisSentinels ==
    /\ None \notin SID \union VAL \union {Keep} /\ None \notin Contract!Session
    /\ Keep \notin VAL

NoCookies == Contract!NoCookies
Later(a, b) == Contract!Later(a, b)
NoMutations == [n \in NAME |-> Keep]
Sooner(a, b) == IF a < b THEN a ELSE b

Entry == ({"row", "attr", "rev"} \X SID) \union ({"key"} \X KEY) \union ({"own"} \X OWNER)

Exists(e) ==
    \/ e[1] = "row" /\ row[e[2]] # None
    \/ e[1] = "attr" /\ attr[e[2]] # NoCookies
    \/ e[1] = "rev" /\ rev[e[2]] # {}
    \/ e[1] = "key" /\ key[e[2]] # None
    \/ e[1] = "own" /\ own[e[2]] # {}

\* PEXPIRE of the entries in E and, to a deadline of its own, of the owner sets in
\* O, as far as they exist after the script; a deleted entry loses its deadline,
\* a new one has none.
PExpireBoth(E, deadline, O, ownerDeadline) ==
    until' = [e \in Entry |-> IF ~Exists(e)' THEN 0
                              ELSE IF e \in E THEN deadline
                              ELSE IF e \in O THEN ownerDeadline
                              ELSE until[e]]

PExpire(E, deadline) == PExpireBoth(E, deadline, {}, 0)

\* Mutant: only the row is refreshed.
SessionEntriesRowOnly(id, k) == {<<"row", id>>}

SessionEntries(id, k) == {<<"row", id>>, <<"attr", id>>, <<"rev", id>>, <<"key", k>>}

RedisInit ==
    /\ row = [s \in SID |-> None]
    /\ key = [k \in KEY |-> None]
    /\ attr = [s \in SID |-> NoCookies]
    /\ rev = [s \in SID |-> {}]
    /\ own = [o \in OWNER |-> {}]
    /\ until = [e \in Entry |-> 0]
    /\ ms = SEC

-----------------------------------------------------------------------------
\* Manager.ttl, in ticks: min(inactive, remaining until final) at the caller's time t.
TTL(s, t) == SEC * Sooner(s.inactive, s.creation + s.final - t)

\* Mutant: the inactive limit is counted from the creation of the session.
DeadlineFromCreation(s, access, t) ==
    Sooner(ms + TTL(s, t), SEC * (s.creation + Sooner(s.inactive, s.final)))

\* Mutant: the argument alone decides, however late the script runs.
DeadlineByArgument(s, access, t) == ms + TTL(s, t)

\* The deadline touch and apply compute: no later than the argument says, nor
\* than the two limits of the row allow.
Deadline(s, access, t) ==
    Sooner(ms + TTL(s, t), SEC * Sooner(access + s.inactive, s.creation + s.final))

\* Mutant: the owner set lives as long as an idle session.
OwnerDeadlineInactive(s) == ms + SEC * s.inactive

\* The owner set is given the session's whole final timeout from now.
OwnerDeadline(s) == ms + SEC * s.final

PutSession(id, s) ==
    /\ row' = [row EXCEPT ![id] = s]
    /\ UNCHANGED <<key, attr, rev, own>>
    /\ PExpire({<<"row", id>>}, ms + TTL(s, s.creation))

\* The deadlines move only when the access time does.
TouchSession(id, k, t, legacyRotation) ==
    LET s == row[id] IN
    /\ s # None /\ key[k] = id
    /\ Deadline(s, Later(t, s.lastAccess), t) > ms
    /\ row' = [row EXCEPT
           ![id].lastAccess = Later(t, @),
           ![id].lastRotation = IF @ = 0 THEN legacyRotation ELSE @]
    /\ UNCHANGED <<key, attr, rev, own>>
    /\ PExpire(IF t > s.lastAccess THEN SessionEntries(id, k) ELSE {}, Deadline(s, t, t))

ApplySessionControls(id, c, t) ==
    LET s == row[id]
        deadline == Deadline(s, Later(c.lastAccess, s.lastAccess), t)
        moved == c.setOwner /\ c.owner # s.owner
        advanced == \/ c.rotate
                    \/ c.cookies # NoMutations
                    \/ c.lastAccess > s.lastAccess
                    \/ c.lastRotation > s.lastRotation
    IN  /\ s # None /\ TTL(s, t) > 0 /\ key[c.oldKey] = id
        /\ c.rotate => c.newKey # c.oldKey /\ key[c.newKey] = None
        /\ deadline > ms
        /\ row' = [row EXCEPT ![id] =
               [s EXCEPT !.owner = IF moved THEN c.owner ELSE @,
                         !.labels = IF c.setLabels THEN c.labels ELSE @,
                         !.lastAccess = Later(c.lastAccess, @),
                         !.lastRotation = Later(c.lastRotation, @)]]
        /\ own' = [o \in OWNER |-> IF moved /\ o = c.owner THEN own[o] \union {id}
                                   ELSE IF moved /\ o = s.owner THEN own[o] \ {id}
                                   ELSE own[o]]
        /\ key' = IF c.rotate THEN [key EXCEPT ![c.newKey] = id, ![c.oldKey] = None] ELSE key
        /\ rev' = IF c.rotate THEN [rev EXCEPT ![id] = (@ \ {c.oldKey}) \union {c.newKey}] ELSE rev
        /\ attr' = [attr EXCEPT ![id] = Contract!MergeCookies(@, c.cookies)]
        /\ PExpireBoth(IF advanced THEN SessionEntries(id, c.newKey) ELSE {}, deadline,
                       IF moved THEN {<<"own", c.owner>>} ELSE {}, OwnerDeadline(s))

\* Mutant: the keys of a deleted session are left to their time to live.
DropSessionKeepsKeys(id) ==
    /\ row' = [row EXCEPT ![id] = None]
    /\ attr' = [attr EXCEPT ![id] = NoCookies]
    /\ rev' = [rev EXCEPT ![id] = {}]
    /\ UNCHANGED key

\* The keys to delete are the ones the reverse set lists.
DropSession(id) ==
    /\ row' = [row EXCEPT ![id] = None]
    /\ attr' = [attr EXCEPT ![id] = NoCookies]
    /\ key' = [k \in KEY |-> IF k \in rev[id] THEN None ELSE key[k]]
    /\ rev' = [rev EXCEPT ![id] = {}]

DeleteSession(id) ==
    /\ DropSession(id)
    /\ own' = [o \in OWNER |-> IF row[id] # None /\ row[id].owner = o
                                 THEN own[o] \ {id} ELSE own[o]]
    /\ PExpire({}, 0)

DeleteSessionByOwner(o, id) ==
    /\ IF row[id] # None /\ row[id].owner = o THEN DropSession(id)
                                              ELSE UNCHANGED <<row, attr, key, rev>>
    /\ own' = [own EXCEPT ![o] = @ \ {id}]
    /\ PExpire({}, 0)

\* The key and the reverse set take over what is left of the row's time to live.
PutKey(k, id) ==
    /\ row[id] # None
    /\ key' = [key EXCEPT ![k] = id]
    /\ rev' = [rev EXCEPT ![id] = @ \union {k}]
    /\ UNCHANGED <<row, attr, own>>
    /\ PExpire({<<"key", k>>, <<"rev", id>>}, until[<<"row", id>>])

ReplaceKey(old, new, id) ==
    /\ row[id] # None /\ key[old] = id /\ key[new] = None
    /\ key' = [key EXCEPT ![new] = id, ![old] = None]
    /\ rev' = [rev EXCEPT ![id] = (@ \ {old}) \union {new}]
    /\ UNCHANGED <<row, attr, own>>
    /\ PExpire({<<"key", new>>, <<"rev", id>>}, until[<<"row", id>>])

\* The key also leaves the reverse set of the session it maps to.
DeleteKey(k) ==
    /\ key' = [key EXCEPT ![k] = None]
    /\ rev' = [id \in SID |-> IF key[k] = id THEN rev[id] \ {k} ELSE rev[id]]
    /\ UNCHANGED <<row, attr, own>>
    /\ PExpire({}, 0)

PutCookie(id, n, v) ==
    /\ row[id] # None
    /\ attr' = [attr EXCEPT ![id][n] = v]
    /\ UNCHANGED <<row, key, rev, own>>
    /\ PExpire({<<"attr", id>>}, until[<<"row", id>>])

DeleteCookie(id, n) ==
    /\ attr' = [attr EXCEPT ![id][n] = None]
    /\ UNCHANGED <<row, key, rev, own>>
    /\ PExpire({}, 0)

-----------------------------------------------------------------------------
\* Redis never shows an entry whose deadline has passed.
Elapse ==
    LET due(e) == until[e] # 0 /\ until[e] <= ms + 1 IN
    /\ ms + 1 < SEC * (MaxTime + 1)
    /\ ms' = ms + 1
    /\ row' = [s \in SID |-> IF due(<<"row", s>>) THEN None ELSE row[s]]
    /\ attr' = [s \in SID |-> IF due(<<"attr", s>>) THEN NoCookies ELSE attr[s]]
    /\ rev' = [s \in SID |-> IF due(<<"rev", s>>) THEN {} ELSE rev[s]]
    /\ key' = [k \in KEY |-> IF due(<<"key", k>>) THEN None ELSE key[k]]
    /\ own' = [o \in OWNER |-> IF due(<<"own", o>>) THEN {} ELSE own[o]]
    /\ PExpire({}, 0)

-----------------------------------------------------------------------------
\* A second the caller may have read from its clock.
Stamps == Later(1, Sec - MaxLag) .. Sec

\* The controls the manager derives from a response at time t, for key k: owner o
\* or NoOwner, labels l or Keep, the new key or k, and the cookies m.  A call
\* that only swaps the key leaves the access time alone.
ManagerControls(k, t, o, l, new, m) ==
    [setOwner |-> o # Contract!NoOwner, owner |-> o,
     setLabels |-> l # Keep, labels |-> IF l = Keep THEN {} ELSE l,
     lastAccess |-> IF o = Contract!NoOwner /\ l = Keep /\ m = NoMutations THEN 0 ELSE t,
     lastRotation |-> IF new = k THEN 0 ELSE t,
     rotate |-> new # k, oldKey |-> k, newKey |-> new, cookies |-> m]

\* A response without effect makes no call; new labels always differ from the
\* row's, since every change of labels also swaps the key.
ResponseCall(id, k, t) ==
    \E o \in OWNER \union {Contract!NoOwner}, l \in ((SUBSET LABEL) \ {row[id].labels}) \union {Keep},
       new \in KEY, m \in [NAME -> VAL \union {None, Keep}] :
          LET c == ManagerControls(k, t, o, l, new, m) IN
          /\ c.rotate \/ c.lastAccess # 0
          /\ ApplySessionControls(id, c, t)

\* The calls of the session manager, and the key and cookie methods beside them.
\* An id is drawn once, so a row is put only where nothing of an earlier session
\* is left but, perhaps, an owner entry, and Begin puts the one first key of a
\* session.
Call(id) ==
    \/ /\ row[id] = None
       /\ \E i \in INACTIVE, f \in FINAL, t \in Stamps :
              PutSession(id, Contract!NewRow(t, i, f, t))
    \/ \E k \in KEY : key[k] = None /\ rev[id] = {} /\ PutKey(k, id)
    \/ \E k \in KEY, t \in Stamps : TouchSession(id, k, t, t)
    \/ \E k \in KEY, t \in Stamps :
          key[k] = id /\ ResponseCall(id, k, t)
    \/ DeleteSession(id)
    \/ \E o \in OWNER : DeleteSessionByOwner(o, id)
    \/ \E old, new \in KEY : ReplaceKey(old, new, id)
    \/ \E k \in KEY : key[k] = id /\ DeleteKey(k)
    \/ \E n \in NAME : DeleteCookie(id, n) \/ \E v \in VAL : PutCookie(id, n, v)

RedisNext ==
    \/ \E id \in SID : Call(id) /\ UNCHANGED ms
    \/ Elapse

RedisSpec == RedisInit /\ [][RedisNext]_redisVars

-----------------------------------------------------------------------------
(* Properties.                                                             *)

\* The scripts implement the contract: each is one call of it, whatever the
\* entries' separate deadlines and the reverse set do, and what runs out when
\* the clock moves on to the next second is a whole session that has expired.
ImplementsContract == Contract!StoreSpec

\* Everything that belongs to a session runs out at one moment: its keys, its
\* cookies and its reverse set have exactly the deadline of its row.
OneDeadline ==
    \A id \in SID : row[id] # None =>
        /\ until[<<"row", id>>] > ms
        /\ rev[id] = {k \in KEY : key[k] = id}
        /\ \A e \in {<<"attr", id>>, <<"rev", id>>} \union {<<"key", k>> : k \in rev[id]} :
               Exists(e) => until[e] = until[<<"row", id>>]

\* Time alone takes a session away only when it is past a limit of the manager
\* (expired), also at a moment within a second: a session in use is never lost
\* to a deadline computed from an old clock reading.
RunsOutWhenExpired ==
    [][ms' # ms => \A id \in SID : row[id] # None /\ row'[id] = None
                                     => Contract!Expired(row[id], Sec')]_redisVars

\* Once a session has been used after the second it was created in, Redis keeps
\* it neither past its inactive nor past its final limit, however much later
\* than the manager read its clock the scripts run ("so Redis never keeps a
\* session past its absolute deadline", manager.go:353).
KeptWithinLimits ==
    \A id \in SID :
        LET s == row[id] IN
        s # None /\ s.lastAccess > s.creation =>
            until[<<"row", id>>] <= SEC * Sooner(s.lastAccess + s.inactive, s.creation + s.final)

\* Logout-everywhere finds every session of an owner: the owner set outlives
\* every session bound to the owner ("RevokeOwner deletes every session bound
\* to an owner (logout-everywhere)", manager.go:452).
OwnerSetCovers ==
    \A id \in SID : row[id] # None /\ row[id].owner # Contract!NoOwner
                        => id \in own[row[id].owner]
=============================================================================
