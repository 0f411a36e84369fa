-------------------------- MODULE RedisStoreProofs --------------------------
(***************************************************************************)
(* The Redis store, proved for any number of sessions, keys, cookies and   *)
(* owners, any timeouts, any length of a second in ticks and any lag of    *)
(* the callers' clocks.                                                    *)
(*                                                                         *)
(* The inductive invariant speaks of one session at a time (SessionInv):   *)
(* its time stamps are in the past, its reverse set lists exactly its      *)
(* keys, of which there is at most one, an absent row has nothing left     *)
(* behind, and all entries of a session share the deadline of its row,     *)
(* which is the earlier of its two limits, or later only while the session *)
(* has not been used since the second it was created in.                   *)
(*                                                                         *)
(* The store implements the contract when all sessions have one final      *)
(* timeout.  The contract's owner index never forgets a live session.  In  *)
(* Redis it is a set with a deadline of its own, so the refinement needs   *)
(* that an owner set outlives the sessions it lists (OwnerInv): its        *)
(* deadline is the final limit of the session bound last, and with one     *)
(* final timeout that is past the deadline of every session bound earlier. *)
(* With two timeouts it is false (RedisOwnerSets.cfg).  Each script is     *)
(* then mapped to a call of the contract, and a tick to an Elapse of it    *)
(* that moves its clock by a second or not at all.                         *)
(***************************************************************************)
EXTENDS RedisStore, TLAPS

\* Every leaf is tried with Zenon first, then with the SMT solver, then again.
USE ZenonT(4), SMTT(20), Z3T(20), ZenonT(20)

Session == Contract!Session

RedisTypeOK ==
    /\ row \in [SID -> Session \union {None}]
    /\ key \in [KEY -> SID \union {None}]
    /\ attr \in [SID -> [NAME -> VAL \union {None}]]
    /\ rev \in [SID -> SUBSET KEY]
    /\ own \in [OWNER -> SUBSET SID]
    /\ until \in [Entry -> Nat]
    /\ ms \in Nat

\* The tick at which a session with the given access time reaches a limit.
Limit(s, access) == SEC * Sooner(access + s.inactive, s.creation + s.final)

Stamped(id) ==
    row[id] # None =>
        /\ row[id].final \in FINAL
        /\ row[id].creation <= row[id].lastAccess
        /\ row[id].lastAccess <= Sec

Linked(id) ==
    /\ rev[id] = {k \in KEY : key[k] = id}
    /\ \A j, k \in rev[id] : j = k

Whole(id) == row[id] = None => rev[id] = {} /\ attr[id] = NoCookies

Together(id) ==
    row[id] # None =>
        /\ until[<<"row", id>>] > ms
        /\ attr[id] # NoCookies => until[<<"attr", id>>] = until[<<"row", id>>]
        /\ rev[id] # {} => until[<<"rev", id>>] = until[<<"row", id>>]
        /\ \A k \in rev[id] : until[<<"key", k>>] = until[<<"row", id>>]

Limited(id) ==
    LET s == row[id] IN
    s # None =>
        /\ Limit(s, s.lastAccess) <= until[<<"row", id>>]
        /\ s.lastAccess > s.creation => until[<<"row", id>>] = Limit(s, s.lastAccess)
        /\ until[<<"row", id>>] <= ms + SEC * s.final

SessionInv(id) == Stamped(id) /\ Linked(id) /\ Whole(id) /\ Together(id) /\ Limited(id)

RedisInv == RedisTypeOK /\ \A id \in SID : SessionInv(id)

OneFinal == \A f, g \in FINAL : f = g

\* The owner set of a bound session lists it, and outlives it whatever it does.
Covered(id) ==
    LET s == row[id] IN
    s # None /\ s.owner # Contract!NoOwner =>
        /\ id \in own[s.owner]
        /\ until[<<"row", id>>] <= until[<<"own", s.owner>>]
        /\ SEC * (s.creation + s.final) <= until[<<"own", s.owner>>]

OwnerInv == \A id \in SID : Covered(id)

-----------------------------------------------------------------------------
(* Clock arithmetic.                                                       *)

LEMMA ScaledOrder ==
    ASSUME NEW a \in Int, NEW b \in Int, a <= b
    PROVE  SEC * a \in Int /\ SEC * b \in Int /\ SEC * a <= SEC * b
BY RedisAssumption

LEMMA ScaledSum ==
    ASSUME NEW a \in Int, NEW b \in Int
    PROVE  SEC * (a + b) = SEC * a + SEC * b /\ SEC * (a - b) = SEC * a - SEC * b
BY RedisAssumption

\* The second a tick belongs to.
LEMMA SecondOfTick ==
    ASSUME NEW m \in Nat
    PROVE  /\ m \div SEC \in Nat
           /\ SEC * (m \div SEC) <= m
           /\ m < SEC * ((m \div SEC) + 1)
BY RedisAssumption

\* The next tick belongs to the same second or to the next one.
LEMMA NextTick ==
    ASSUME NEW m \in Nat
    PROVE  (m + 1) \div SEC \in {m \div SEC, (m \div SEC) + 1}
<1> DEFINE a == m \div SEC
           b == (m + 1) \div SEC
<1>1. /\ a \in Nat /\ b \in Nat
      /\ SEC * a <= m /\ m < SEC * (a + 1)
      /\ SEC * b <= m + 1 /\ m + 1 < SEC * (b + 1)
  BY SecondOfTick
<1> HIDE DEF a, b
<1>2. ~(b + 1 <= a)
  BY <1>1, ScaledOrder, RedisAssumption
<1>3. ~(a + 2 <= b)
  BY <1>1, ScaledOrder, RedisAssumption
<1> QED BY <1>1, <1>2, <1>3 DEF a, b

LEMMA Clock ==
    ASSUME ms \in Nat
    PROVE  Sec \in Nat /\ SEC * Sec \in Nat /\ SEC * Sec <= ms /\ ms < SEC * (Sec + 1)
<1>1. Sec \in Nat /\ SEC * Sec <= ms /\ ms < SEC * (Sec + 1)
  BY SecondOfTick DEF Sec
<1> QED BY <1>1, RedisAssumption

\* A moment that the clock has reached is in the current second or before.
LEMMA Reached ==
    ASSUME NEW m \in Nat, NEW t \in Int, SEC * t <= m
    PROVE  t <= m \div SEC
<1> DEFINE n == m \div SEC
<1>1. n \in Nat /\ m < SEC * (n + 1) /\ SEC * (n + 1) \in Int /\ SEC * t \in Int
  BY SecondOfTick, RedisAssumption
<1> HIDE DEF n
<1>2. n + 1 <= t => SEC * (n + 1) <= SEC * t
  BY <1>1, ScaledOrder
<1>3. t <= n
  BY <1>1, <1>2
<1> QED BY <1>3 DEF n

\* A stamp is a second that is over or current.
LEMMA StampType ==
    ASSUME ms \in Nat, NEW t \in Stamps
    PROVE  t \in Nat /\ t >= 1 /\ t <= Sec /\ SEC * t \in Nat /\ SEC * t <= ms
<1>1. Sec \in Nat /\ SEC * Sec \in Nat /\ SEC * Sec <= ms
  BY Clock
<1>2. t \in Nat /\ t >= 1 /\ t <= Sec
  BY <1>1, RedisAssumption DEF Stamps, Later, Contract!Later
<1>3. SEC * t <= SEC * Sec /\ SEC * t \in Nat
  BY <1>1, <1>2, ScaledOrder, RedisAssumption
<1> QED BY <1>1, <1>2, <1>3

LEMMA LimitType ==
    ASSUME NEW s \in Session, NEW access \in Nat
    PROVE  /\ Limit(s, access) \in Nat
           /\ Limit(s, access) <= SEC * (access + s.inactive)
           /\ Limit(s, access) <= SEC * (s.creation + s.final)
<1>1. /\ s.inactive \in Nat /\ s.final \in Nat /\ s.creation \in Nat
  BY DEF Session, Contract!Session
<1>2. Sooner(access + s.inactive, s.creation + s.final) \in Nat
      /\ Sooner(access + s.inactive, s.creation + s.final) <= access + s.inactive
      /\ Sooner(access + s.inactive, s.creation + s.final) <= s.creation + s.final
  BY <1>1 DEF Sooner
<1> QED BY <1>1, <1>2, ScaledOrder, RedisAssumption DEF Limit

\* A later access moves the limit, if at all, to a later moment.
LEMMA LimitGrows ==
    ASSUME NEW s \in Session, NEW a \in Nat, NEW b \in Nat, a <= b
    PROVE  Limit(s, a) <= Limit(s, b)
<1>1. /\ s.inactive \in Nat /\ s.final \in Nat /\ s.creation \in Nat
  BY DEF Session, Contract!Session
<1>2. Sooner(a + s.inactive, s.creation + s.final) <= Sooner(b + s.inactive, s.creation + s.final)
  BY <1>1 DEF Sooner
<1> QED BY <1>1, <1>2, ScaledOrder DEF Limit, Sooner

\* The time to live argument never brings a deadline forward: whatever clock
\* reading it was computed from, the two limits of the row decide.
LEMMA DeadlineIsLimit ==
    ASSUME NEW s \in Session, NEW t \in Nat, NEW access \in Nat, ms \in Nat,
           SEC * t <= ms, SEC * access <= ms
    PROVE  Deadline(s, access, t) = Limit(s, access)
<1>1. /\ s.inactive \in Nat /\ s.final \in Nat /\ s.creation \in Nat
  BY DEF Session, Contract!Session
<1> DEFINE i == SEC * s.inactive
           f == SEC * (s.creation + s.final)
<1>2. i \in Int /\ f \in Int /\ SEC * t \in Int /\ SEC * access \in Int
  BY <1>1, RedisAssumption
<1>3. /\ SEC * (s.creation + s.final - t) = f - SEC * t
      /\ SEC * (access + s.inactive) = SEC * access + i
  BY <1>1, RedisAssumption
<1>4. TTL(s, t) \in {i, f - SEC * t}
  BY <1>3 DEF TTL, Sooner
<1>5. Limit(s, access) \in {SEC * access + i, f}
      /\ Limit(s, access) <= SEC * access + i /\ Limit(s, access) <= f
  BY <1>3, LimitType DEF Limit, Sooner
<1>6. Limit(s, access) \in Int /\ ~(ms + TTL(s, t) < Limit(s, access))
  <2> HIDE DEF i, f
  <2> QED BY <1>2, <1>4, <1>5
<1>7. TTL(s, t) \in Int
  <2> HIDE DEF i, f
  <2> QED BY <1>2, <1>4
<1>8. Deadline(s, access, t) = Sooner(ms + TTL(s, t), Limit(s, access))
  BY DEF Deadline, Limit
<1> QED BY <1>6, <1>7, <1>8 DEF Sooner

-----------------------------------------------------------------------------
(* Deadlines after a script.                                               *)

\* What PEXPIRE leaves of the deadlines, one kind of entry at a time.  The owner
\* sets in O have entries of their own kind.
LEMMA RowExpiry ==
    ASSUME NEW E, NEW d, NEW O, NEW od, PExpireBoth(E, d, O, od), O \subseteq {"own"} \X OWNER,
           NEW id \in SID
    PROVE  until'[<<"row", id>>] = IF row'[id] = None THEN 0
               ELSE IF <<"row", id>> \in E THEN d ELSE until[<<"row", id>>]
BY DEF PExpireBoth, Exists, Entry

LEMMA AttrExpiry ==
    ASSUME NEW E, NEW d, NEW O, NEW od, PExpireBoth(E, d, O, od), O \subseteq {"own"} \X OWNER,
           NEW id \in SID
    PROVE  until'[<<"attr", id>>] = IF attr'[id] = NoCookies THEN 0
               ELSE IF <<"attr", id>> \in E THEN d ELSE until[<<"attr", id>>]
BY DEF PExpireBoth, Exists, Entry, NoCookies, Contract!NoCookies

LEMMA RevExpiry ==
    ASSUME NEW E, NEW d, NEW O, NEW od, PExpireBoth(E, d, O, od), O \subseteq {"own"} \X OWNER,
           NEW id \in SID
    PROVE  until'[<<"rev", id>>] = IF rev'[id] = {} THEN 0
               ELSE IF <<"rev", id>> \in E THEN d ELSE until[<<"rev", id>>]
BY DEF PExpireBoth, Exists, Entry

LEMMA KeyExpiry ==
    ASSUME NEW E, NEW d, NEW O, NEW od, PExpireBoth(E, d, O, od), O \subseteq {"own"} \X OWNER,
           NEW k \in KEY
    PROVE  until'[<<"key", k>>] = IF key'[k] = None THEN 0
               ELSE IF <<"key", k>> \in E THEN d ELSE until[<<"key", k>>]
BY DEF PExpireBoth, Exists, Entry

LEMMA OwnExpiry ==
    ASSUME NEW E, NEW d, NEW O, NEW od, PExpireBoth(E, d, O, od),
           \A o \in OWNER : <<"own", o>> \notin E, NEW o \in OWNER
    PROVE  until'[<<"own", o>>] = IF own'[o] = {} THEN 0
               ELSE IF <<"own", o>> \in O THEN od ELSE until[<<"own", o>>]
BY DEF PExpireBoth, Exists, Entry

LEMMA ExpiryType ==
    ASSUME NEW E, NEW d \in Nat, NEW O, NEW od \in Nat, PExpireBoth(E, d, O, od),
           until \in [Entry -> Nat]
    PROVE  until' \in [Entry -> Nat]
BY DEF PExpireBoth

\* A script that leaves session x and its deadlines alone.
Same(x) ==
    /\ row'[x] = row[x] /\ attr'[x] = attr[x] /\ rev'[x] = rev[x]
    /\ \A k \in KEY : key'[k] = x <=> key[k] = x
    /\ row[x] # None => until'[<<"row", x>>] = until[<<"row", x>>]
    /\ attr[x] # NoCookies => until'[<<"attr", x>>] = until[<<"attr", x>>]
    /\ rev[x] # {} => until'[<<"rev", x>>] = until[<<"rev", x>>]
    /\ \A k \in rev[x] : until'[<<"key", k>>] = until[<<"key", k>>]

\* The entries of session id, if K are its keys.
EntriesOf(id, K) == {<<"row", id>>, <<"attr", id>>, <<"rev", id>>} \union {<<"key", k>> : k \in K}

LEMMA SameExpiry ==
    ASSUME RedisInv, NEW x \in SID, NEW id, id # x, NEW K, K \intersect rev[x] = {},
           NEW E, E \subseteq EntriesOf(id, K), NEW d,
           NEW O, O \subseteq {"own"} \X OWNER, NEW od, PExpireBoth(E, d, O, od),
           row'[x] = row[x], attr'[x] = attr[x], rev'[x] = rev[x],
           \A k \in KEY : key'[k] = x <=> key[k] = x
    PROVE  Same(x)
<1>0. /\ <<"row", x>> \notin E /\ <<"attr", x>> \notin E /\ <<"rev", x>> \notin E
      /\ \A k \in rev[x] : <<"key", k>> \notin E
  BY DEF EntriesOf
<1>1. \A k \in rev[x] : k \in KEY /\ key'[k] = x
  BY DEF RedisInv, SessionInv, Linked
<1>2. x # None
  BY RedisSentinels
<1>3. \A k \in rev[x] : until'[<<"key", k>>] = until[<<"key", k>>]
  BY <1>0, <1>1, <1>2, KeyExpiry
<1> QED BY <1>0, <1>3, RowExpiry, AttrExpiry, RevExpiry DEF Same

LEMMA SameWithoutExpiry ==
    ASSUME RedisInv, NEW x \in SID, PExpire({}, 0),
           row'[x] = row[x], attr'[x] = attr[x], rev'[x] = rev[x],
           \A k \in KEY : key'[k] = x <=> key[k] = x
    PROVE  Same(x)
<1> DEFINE N == {}
<1>1. PExpireBoth(N, 0, N, 0) /\ x # None /\ N \subseteq {"own"} \X OWNER
  BY RedisSentinels DEF PExpire
<1>2. N \subseteq EntriesOf(None, N) /\ N \intersect rev[x] = {}
  OBVIOUS
<1> HIDE DEF N
<1> QED BY <1>1, <1>2, SameExpiry

\* Primed NoCookies and Sec: neither depends on what the script changed.
LEMMA SameInv ==
    ASSUME RedisInv, ms' = ms, NEW x \in SID, Same(x)
    PROVE  SessionInv(x)'
<1>1. SessionInv(x) /\ Sec' = Sec
  BY DEF RedisInv, Sec
<1>2. Stamped(x)' /\ Whole(x)' /\ Limited(x)'
  BY <1>1 DEF Same, SessionInv, Stamped, Whole, Limited, Limit, NoCookies, Contract!NoCookies
<1>3. Linked(x)'
  BY <1>1 DEF Same, SessionInv, Linked
<1>4. Together(x)'
  BY <1>1 DEF Same, SessionInv, Together, NoCookies, Contract!NoCookies
<1> QED BY <1>2, <1>3, <1>4 DEF SessionInv

-----------------------------------------------------------------------------
(* Each script preserves RedisInv.                                         *)

\* A row as Begin writes it, from a clock reading t.
LEMMA NewRowType ==
    ASSUME NEW t \in Nat, NEW i \in INACTIVE, NEW f \in FINAL
    PROVE  /\ Contract!NewRow(t, i, f, t) \in Session
           /\ Contract!NewRow(t, i, f, t).final = f /\ Contract!NewRow(t, i, f, t).inactive = i
           /\ Contract!NewRow(t, i, f, t).creation = t /\ Contract!NewRow(t, i, f, t).lastAccess = t
           /\ Contract!NewRow(t, i, f, t).owner = Contract!NoOwner
           /\ Contract!NewRow(t, i, f, t) # None
BY RedisAssumption, RedisSentinels DEF Contract!NewRow, Session, Contract!Session, Contract!NoOwner

LEMMA PutSessionInv ==
    ASSUME RedisInv, ms' = ms, NEW id \in SID, row[id] = None,
           NEW i \in INACTIVE, NEW f \in FINAL, NEW t \in Stamps,
           PutSession(id, Contract!NewRow(t, i, f, t))
    PROVE  RedisInv'
<1> DEFINE s == Contract!NewRow(t, i, f, t)
           d == ms + TTL(s, s.creation)
<1>1. t \in Nat /\ t <= Sec /\ SEC * t \in Nat /\ SEC * t <= ms /\ ms \in Nat /\ Sec \in Nat
  BY StampType, Clock DEF RedisInv, RedisTypeOK
<1>2. i \in Nat \ {0} /\ f \in Nat \ {0}
  BY RedisAssumption
<1>3. /\ s \in Session /\ s.final = f /\ s.inactive = i /\ s.creation = t /\ s.lastAccess = t /\ s # None
  <2>1. s \in Session
    BY <1>1, NewRowType
  <2>2. s.final = f /\ s.inactive = i
    BY <1>1, NewRowType
  <2>3. s.creation = t /\ s.lastAccess = t
    BY <1>1, NewRowType
  <2>4. s # None
    BY <1>1, NewRowType
  <2> HIDE DEF s
  <2> QED BY <2>1, <2>2, <2>3, <2>4
<1> HIDE DEF s
<1>4. /\ row' = [row EXCEPT ![id] = s]
      /\ UNCHANGED <<key, attr, rev, own>>
      /\ PExpireBoth({<<"row", id>>}, d, {}, 0)
  BY DEF PutSession, PExpire, s
<1>5. d = ms + SEC * Sooner(i, f) /\ Limit(s, t) = SEC * t + SEC * Sooner(i, f)
  BY <1>1, <1>2, <1>3, RedisAssumption DEF TTL, Limit, Sooner
<1>6. SEC * Sooner(i, f) \in Nat /\ SEC * Sooner(i, f) > 0 /\ SEC * Sooner(i, f) <= SEC * f /\ SEC * f \in Nat
  BY <1>2, RedisAssumption DEF Sooner
<1>7. d \in Nat /\ d > ms /\ Limit(s, t) <= d /\ d <= ms + SEC * f
  BY <1>1, <1>5, <1>6
<1> HIDE DEF d
<1>8. RedisTypeOK'
  <2>1. row' \in [SID -> Session \union {None}]
    BY <1>3, <1>4 DEF RedisInv, RedisTypeOK
  <2>2. until' \in [Entry -> Nat]
    BY <1>4, <1>7, ExpiryType DEF RedisInv, RedisTypeOK
  <2> QED BY <1>4, <2>1, <2>2 DEF RedisInv, RedisTypeOK
<1>9. ASSUME NEW x \in SID, x # id PROVE SessionInv(x)'
  <2>1. row'[x] = row[x] /\ attr'[x] = attr[x] /\ rev'[x] = rev[x] /\ key' = key
    BY <1>4, <1>9 DEF RedisInv, RedisTypeOK
  <2>2. {<<"row", id>>} \subseteq EntriesOf(id, {})
    BY DEF EntriesOf
  <2>3. Same(x)
    BY <1>4, <1>9, <2>1, <2>2, SameExpiry
  <2> QED BY <2>3, SameInv
<1>10. SessionInv(id)'
  <2>1. row'[id] = s /\ attr'[id] = NoCookies /\ rev'[id] = {}
    BY <1>4 DEF RedisInv, RedisTypeOK, SessionInv, Whole
  <2>2. until'[<<"row", id>>] = d
    BY <1>3, <1>4, <2>1, RowExpiry
  <2>3. Stamped(id)' /\ Whole(id)' /\ Limited(id)'
    BY <1>1, <1>2, <1>3, <1>7, <2>1, <2>2 DEF Stamped, Whole, Limited, Sec, Limit
  <2>4. Linked(id)'
    BY <1>4, <2>1 DEF Linked, RedisInv, SessionInv
  <2>5. Together(id)'
    BY <1>7, <2>1, <2>2 DEF Together, NoCookies, Contract!NoCookies
  <2> QED BY <2>3, <2>4, <2>5 DEF SessionInv
<1> QED BY <1>8, <1>9, <1>10 DEF RedisInv

\* A script that keeps a session alive: its stamps advance, all its entries
\* have one deadline d, which is its limit or has not changed.
LEMMA RenewedInv ==
    ASSUME RedisInv, ms' = ms, NEW id \in SID, row[id] # None,
           row'[id] \in Session,
           row'[id].creation = row[id].creation, row'[id].inactive = row[id].inactive,
           row'[id].final = row[id].final,
           row[id].lastAccess <= row'[id].lastAccess, row'[id].lastAccess <= Sec,
           NEW d \in Nat, d > ms,
           \/ d = Limit(row'[id], row'[id].lastAccess)
           \/ d = until[<<"row", id>>] /\ row'[id].lastAccess = row[id].lastAccess,
           until'[<<"row", id>>] = d,
           attr'[id] # NoCookies => until'[<<"attr", id>>] = d,
           rev'[id] # {} => until'[<<"rev", id>>] = d,
           \A k \in rev'[id] : until'[<<"key", k>>] = d,
           Linked(id)'
    PROVE  SessionInv(id)'
<1> DEFINE s == row[id]
           p == row'[id]
<1>1. s \in Session /\ p # None /\ SessionInv(id) /\ ms \in Nat
  BY RedisSentinels DEF RedisInv, RedisTypeOK, Session
<1>2. /\ s.creation \in Nat /\ s.final \in Nat /\ s.lastAccess \in Nat /\ p.lastAccess \in Nat
  BY <1>1 DEF Session, Contract!Session
<1>3. s.final \in FINAL /\ s.creation <= s.lastAccess /\ s.lastAccess <= Sec /\ Sec' = Sec /\ Sec \in Nat
  BY <1>1, Clock DEF SessionInv, Stamped, Sec
<1>4. Stamped(id)' /\ Whole(id)'
  BY <1>1, <1>2, <1>3 DEF Stamped, Whole
<1>5. Together(id)'
  BY DEF Together, NoCookies, Contract!NoCookies
<1>6. Limit(p, p.lastAccess) = Limit(s, p.lastAccess)
  BY DEF Limit
<1>7. SEC * s.creation <= ms /\ SEC * s.creation \in Nat /\ SEC * s.final \in Nat
      /\ SEC * (s.creation + s.final) = SEC * s.creation + SEC * s.final
  BY <1>1, <1>2, <1>3, Clock, ScaledOrder, RedisAssumption
<1>8. Limit(s, p.lastAccess) \in Nat /\ Limit(s, p.lastAccess) <= ms + SEC * s.final
  BY <1>1, <1>2, <1>7, LimitType
<1>9. /\ Limit(s, s.lastAccess) <= until[<<"row", id>>]
      /\ s.lastAccess > s.creation => until[<<"row", id>>] = Limit(s, s.lastAccess)
      /\ until[<<"row", id>>] <= ms + SEC * s.final
  BY <1>1 DEF SessionInv, Limited
<1>10. /\ Limit(p, p.lastAccess) <= d
       /\ p.lastAccess > p.creation => d = Limit(p, p.lastAccess)
       /\ d <= ms + SEC * p.final
  BY <1>6, <1>8, <1>9
<1>11. Limited(id)'
  BY <1>10 DEF Limited, Limit
<1> QED BY <1>4, <1>5, <1>11 DEF SessionInv

LEMMA LaterIsMax ==
    ASSUME NEW a \in Nat, NEW b \in Nat
    PROVE  /\ Later(a, b) \in Nat /\ Later(a, b) >= a /\ Later(a, b) >= b
           /\ Later(a, b) \in {a, b} /\ (a > b => Later(a, b) = a) /\ (a <= b => Later(a, b) = b)
BY DEF Later, Contract!Later

\* What is known of a session with a row.
LEMMA LiveRow ==
    ASSUME RedisInv, NEW id \in SID, row[id] # None
    PROVE  /\ row[id] \in Session
           /\ row[id].creation \in Nat /\ row[id].inactive \in Nat /\ row[id].final \in Nat
           /\ row[id].lastAccess \in Nat /\ row[id].lastRotation \in Nat
           /\ row[id].owner \in OWNER \union {Contract!NoOwner} /\ row[id].labels \in SUBSET LABEL
           /\ row[id].creation <= row[id].lastAccess /\ row[id].lastAccess <= Sec
           /\ SEC * row[id].lastAccess <= ms
           /\ until[<<"row", id>>] \in Nat /\ until[<<"row", id>>] > ms
           /\ ms \in Nat /\ Sec \in Nat
<1>1. row[id] \in Session /\ ms \in Nat /\ Sec \in Nat /\ SEC * Sec <= ms
  BY Clock DEF RedisInv, RedisTypeOK
<1>2. /\ row[id].creation \in Nat /\ row[id].inactive \in Nat /\ row[id].final \in Nat
      /\ row[id].lastAccess \in Nat /\ row[id].lastRotation \in Nat
      /\ row[id].owner \in OWNER \union {Contract!NoOwner} /\ row[id].labels \in SUBSET LABEL
  BY <1>1 DEF Session, Contract!Session
<1>3. row[id].creation <= row[id].lastAccess /\ row[id].lastAccess <= Sec
  BY DEF RedisInv, SessionInv, Stamped
<1>4. SEC * row[id].lastAccess <= ms
  BY <1>1, <1>2, <1>3, ScaledOrder, RedisAssumption
<1>5. until[<<"row", id>>] \in Nat
  BY DEF RedisInv, RedisTypeOK, Entry
<1>6. until[<<"row", id>>] > ms
  BY DEF RedisInv, SessionInv, Together
<1> QED BY <1>1, <1>2, <1>3, <1>4, <1>5, <1>6

\* A key that leads to a session is the only one of that session.
LEMMA OnlyKey ==
    ASSUME RedisInv, NEW id \in SID, NEW k \in KEY, key[k] = id
    PROVE  rev[id] = {k} /\ \A x \in SID : x # id => k \notin rev[x]
BY DEF RedisInv, SessionInv, Linked

LEMMA TouchedRows ==
    ASSUME RedisInv, NEW id \in SID, NEW k \in KEY, NEW t \in Stamps, TouchSession(id, k, t, t)
    PROVE  /\ row' \in [SID -> Session \union {None}]
           /\ row'[id] \in Session /\ \A x \in SID : x # id => row'[x] = row[x]
           /\ row'[id].creation = row[id].creation /\ row'[id].inactive = row[id].inactive
           /\ row'[id].final = row[id].final /\ row'[id].owner = row[id].owner
           /\ row'[id].lastAccess = Later(t, row[id].lastAccess)
           /\ row'[id].lastRotation = IF row[id].lastRotation = 0 THEN t ELSE row[id].lastRotation
<1>1. row[id] # None
  BY DEF TouchSession
<1>2. row[id] \in Session /\ row[id].lastAccess \in Nat /\ row[id].lastRotation \in Nat /\ ms \in Nat
  BY <1>1, LiveRow
<1>3. t \in Nat
  BY <1>2, StampType
<1>4. Later(t, row[id].lastAccess) \in Nat
  BY <1>2, <1>3 DEF Later, Contract!Later
<1> QED BY <1>2, <1>3, <1>4 DEF TouchSession, RedisInv, RedisTypeOK, Session, Contract!Session

LEMMA TouchSessionInv ==
    ASSUME RedisInv, ms' = ms, NEW id \in SID, NEW k \in KEY, NEW t \in Stamps,
           TouchSession(id, k, t, t)
    PROVE  RedisInv'
<1> DEFINE s == row[id]
           E == IF t > s.lastAccess THEN SessionEntries(id, k) ELSE {}
           d == IF t > s.lastAccess THEN Limit(s, t) ELSE until[<<"row", id>>]
<1>1. /\ s # None /\ key[k] = id
      /\ Deadline(s, Later(t, s.lastAccess), t) > ms
      /\ UNCHANGED <<key, attr, rev, own>>
      /\ PExpireBoth(E, Deadline(s, t, t), {}, 0)
  BY DEF TouchSession, PExpire
<1>2. /\ s \in Session /\ s.lastAccess \in Nat /\ s.lastRotation \in Nat /\ s.lastAccess <= Sec
      /\ SEC * s.lastAccess <= ms /\ ms \in Nat /\ Sec \in Nat
      /\ until[<<"row", id>>] \in Nat /\ until[<<"row", id>>] > ms
  BY <1>1, LiveRow
<1>3. t \in Nat /\ t <= Sec /\ SEC * t <= ms
  BY <1>2, StampType
<1>4. Deadline(s, t, t) = Limit(s, t) /\ Limit(s, t) \in Nat
  BY <1>2, <1>3, DeadlineIsLimit, LimitType
<1>5. Later(t, s.lastAccess) \in Nat /\ Later(t, s.lastAccess) >= s.lastAccess
      /\ Later(t, s.lastAccess) <= Sec
      /\ (t > s.lastAccess => Later(t, s.lastAccess) = t)
      /\ (~(t > s.lastAccess) => Later(t, s.lastAccess) = s.lastAccess)
  BY <1>2, <1>3 DEF Later, Contract!Later
<1>6. /\ row' \in [SID -> Session \union {None}]
      /\ row'[id] \in Session /\ \A x \in SID : x # id => row'[x] = row[x]
      /\ row'[id].creation = s.creation /\ row'[id].inactive = s.inactive /\ row'[id].final = s.final
      /\ row'[id].lastAccess = Later(t, s.lastAccess)
  BY TouchedRows
<1>7. d \in Nat /\ d > ms
  BY <1>1, <1>2, <1>4, <1>5
<1>8. rev[id] = {k} /\ \A x \in SID : x # id => k \notin rev[x]
  BY <1>1, OnlyKey
<1>9. RedisTypeOK'
  BY <1>1, <1>4, <1>6, ExpiryType DEF RedisInv, RedisTypeOK
<1>10. ASSUME NEW x \in SID, x # id PROVE SessionInv(x)'
  <2>1. E \subseteq EntriesOf(id, {k}) /\ {k} \intersect rev[x] = {}
    BY <1>8, <1>10 DEF EntriesOf, SessionEntries
  <2> HIDE DEF E
  <2>2. Same(x)
    BY <1>1, <1>6, <1>10, <2>1, SameExpiry
  <2> QED BY <2>2, SameInv
<1>11. SessionInv(id)'
  <2>1. /\ until'[<<"row", id>>] = d
        /\ attr'[id] # NoCookies => until'[<<"attr", id>>] = d
        /\ rev'[id] # {} => until'[<<"rev", id>>] = d
        /\ \A j \in rev'[id] : until'[<<"key", j>>] = d
    <3>1. row'[id] # None /\ id # None
      BY <1>6, RedisSentinels DEF Session
    <3>2. Together(id)
      BY DEF RedisInv, SessionInv
    <3>3. CASE t > s.lastAccess
      <4>1. /\ <<"row", id>> \in E /\ <<"attr", id>> \in E /\ <<"rev", id>> \in E /\ <<"key", k>> \in E
        BY <3>3 DEF SessionEntries
      <4> HIDE DEF E
      <4>2. until'[<<"row", id>>] = d
        BY <1>1, <1>4, <3>1, <3>3, <4>1, RowExpiry
      <4>3. attr'[id] # NoCookies => until'[<<"attr", id>>] = d
        BY <1>1, <1>4, <3>3, <4>1, AttrExpiry
      <4>4. rev'[id] # {} => until'[<<"rev", id>>] = d
        BY <1>1, <1>4, <3>3, <4>1, RevExpiry
      <4>5. \A j \in rev'[id] : until'[<<"key", j>>] = d
        BY <1>1, <1>4, <1>8, <3>1, <3>3, <4>1, KeyExpiry
      <4> QED BY <4>2, <4>3, <4>4, <4>5
    <3>4. CASE ~(t > s.lastAccess)
      <4>1. E = {}
        BY <3>4
      <4> HIDE DEF E
      <4> QED BY <1>1, <1>8, <3>1, <3>2, <3>4, <4>1, RowExpiry, AttrExpiry, RevExpiry, KeyExpiry
              DEF Together
    <3> QED BY <3>3, <3>4
  <2>2. Linked(id)'
    BY <1>1 DEF Linked, RedisInv, SessionInv
  <2>3. \/ d = Limit(row'[id], row'[id].lastAccess)
        \/ d = until[<<"row", id>>] /\ row'[id].lastAccess = row[id].lastAccess
    BY <1>5, <1>6 DEF Limit
  <2> QED BY <1>1, <1>5, <1>6, <1>7, <2>1, <2>2, <2>3, RenewedInv
<1> QED BY <1>9, <1>10, <1>11 DEF RedisInv

\* The row of a session after an apply.
Applied(s, o, l, access, rotation) ==
    [s EXCEPT !.owner = o, !.labels = l, !.lastAccess = access, !.lastRotation = rotation]

LEMMA AppliedType ==
    ASSUME NEW s \in Session, NEW o \in OWNER \union {Contract!NoOwner}, NEW l \in SUBSET LABEL,
           NEW access \in Nat, NEW rotation \in Nat
    PROVE  LET p == Applied(s, o, l, access, rotation) IN
           /\ p \in Session
           /\ p.creation = s.creation /\ p.inactive = s.inactive /\ p.final = s.final
           /\ p.owner = o /\ p.lastAccess = access /\ p.lastRotation = rotation
BY DEF Applied, Session, Contract!Session

\* The controls of a response are controls of the contract.
LEMMA ManagerControlsType ==
    ASSUME NEW k \in KEY, NEW t \in Nat \ {0}, NEW o \in OWNER \union {Contract!NoOwner},
           NEW l \in (SUBSET LABEL) \union {Keep}, NEW new \in KEY,
           NEW m \in [NAME -> VAL \union {None, Keep}]
    PROVE  ManagerControls(k, t, o, l, new, m) \in Contract!ControlsAt(k, {0, t})
BY DEF ManagerControls, Contract!ControlsAt, NoMutations

LEMMA ControlsType ==
    ASSUME NEW k \in KEY, NEW t \in Nat, NEW c \in Contract!ControlsAt(k, {0, t})
    PROVE  /\ c.oldKey = k /\ c.newKey \in KEY /\ c.rotate \in BOOLEAN /\ c.setOwner \in BOOLEAN
           /\ c.owner \in OWNER \union {Contract!NoOwner} /\ (c.setOwner <=> c.owner # Contract!NoOwner)
           /\ c.setLabels \in BOOLEAN /\ c.labels \in SUBSET LABEL
           /\ c.lastAccess \in {0, t} /\ c.lastRotation \in {0, t}
           /\ c.cookies \in [NAME -> VAL \union {None, Keep}]
           /\ (~c.rotate => c.newKey = c.oldKey)
BY DEF Contract!ControlsAt

LEMMA MergedCookiesType ==
    ASSUME NEW old \in [NAME -> VAL \union {None}], NEW m \in [NAME -> VAL \union {None, Keep}]
    PROVE  /\ Contract!MergeCookies(old, m) \in [NAME -> VAL \union {None}]
           /\ m = NoMutations => Contract!MergeCookies(old, m) = old
BY DEF Contract!MergeCookies, NoMutations

LEMMA AppliedRows ==
    ASSUME RedisInv, NEW id \in SID, NEW k \in KEY, NEW t \in Stamps,
           NEW c \in Contract!ControlsAt(k, {0, t}), ApplySessionControls(id, c, t)
    PROVE  /\ row' \in [SID -> Session \union {None}]
           /\ row'[id] \in Session /\ \A x \in SID : x # id => row'[x] = row[x]
           /\ row'[id].creation = row[id].creation /\ row'[id].inactive = row[id].inactive
           /\ row'[id].final = row[id].final
           /\ row'[id].owner = IF c.setOwner THEN c.owner ELSE row[id].owner
           /\ row'[id].lastAccess = Later(c.lastAccess, row[id].lastAccess)
           /\ row'[id].lastRotation = Later(c.lastRotation, row[id].lastRotation)
<1> DEFINE s == row[id]
           moved == c.setOwner /\ c.owner # s.owner
           o == IF moved THEN c.owner ELSE s.owner
           l == IF c.setLabels THEN c.labels ELSE s.labels
           access == Later(c.lastAccess, s.lastAccess)
           rotation == Later(c.lastRotation, s.lastRotation)
           p == Applied(s, o, l, access, rotation)
<1>1. s # None /\ row' = [row EXCEPT ![id] = p]
  BY DEF ApplySessionControls, Applied
<1>2. /\ s \in Session /\ s.lastAccess \in Nat /\ s.lastRotation \in Nat /\ ms \in Nat
      /\ s.owner \in OWNER \union {Contract!NoOwner} /\ s.labels \in SUBSET LABEL
  BY <1>1, LiveRow
<1>3. t \in Nat
  BY <1>2, StampType
<1>4. /\ c.owner \in OWNER \union {Contract!NoOwner} /\ c.labels \in SUBSET LABEL
      /\ c.lastAccess \in Nat /\ c.lastRotation \in Nat
  BY <1>3, ControlsType
<1>5. o \in OWNER \union {Contract!NoOwner} /\ l \in SUBSET LABEL
  BY <1>2, <1>4
<1>6. access \in Nat /\ rotation \in Nat
  BY <1>2, <1>4 DEF Later, Contract!Later
<1>7. /\ p \in Session /\ p.lastAccess = access /\ p.lastRotation = rotation /\ p.owner = o
      /\ p.creation = s.creation /\ p.inactive = s.inactive /\ p.final = s.final
  <2> HIDE DEF o, l, access, rotation
  <2> QED BY <1>2, <1>5, <1>6, AppliedType
<1> HIDE DEF p
<1> QED BY <1>1, <1>7 DEF RedisInv, RedisTypeOK

LEMMA ApplySessionControlsInv ==
    ASSUME RedisInv, ms' = ms, NEW id \in SID, NEW k \in KEY, NEW t \in Stamps,
           NEW c \in Contract!ControlsAt(k, {0, t}), ApplySessionControls(id, c, t)
    PROVE  RedisInv'
<1> DEFINE s == row[id]
           access == Later(c.lastAccess, s.lastAccess)
           deadline == Deadline(s, access, t)
           moved == c.setOwner /\ c.owner # s.owner
           advanced == \/ c.rotate
                       \/ c.cookies # NoMutations
                       \/ c.lastAccess > s.lastAccess
                       \/ c.lastRotation > s.lastRotation
           E == IF advanced THEN SessionEntries(id, c.newKey) ELSE {}
           O == IF moved THEN {<<"own", c.owner>>} ELSE {}
           d == IF advanced THEN deadline ELSE until[<<"row", id>>]
<1>1. /\ s # None /\ key[c.oldKey] = id
      /\ c.rotate => c.newKey # c.oldKey /\ key[c.newKey] = None
      /\ deadline > ms
      /\ PExpireBoth(E, deadline, O, OwnerDeadline(s))
  BY DEF ApplySessionControls
<1>2. /\ s \in Session /\ s.lastAccess \in Nat /\ s.lastRotation \in Nat /\ s.lastAccess <= Sec
      /\ s.final \in Nat /\ s.owner \in OWNER \union {Contract!NoOwner} /\ s.labels \in SUBSET LABEL
      /\ SEC * s.lastAccess <= ms /\ ms \in Nat /\ Sec \in Nat
      /\ until[<<"row", id>>] \in Nat /\ until[<<"row", id>>] > ms
  BY <1>1, LiveRow
<1>3. t \in Nat /\ t <= Sec /\ SEC * t <= ms
  BY <1>2, StampType
<1>4. /\ c.oldKey = k /\ c.newKey \in KEY /\ c.rotate \in BOOLEAN /\ c.setOwner \in BOOLEAN
      /\ c.owner \in OWNER \union {Contract!NoOwner} /\ (c.setOwner <=> c.owner # Contract!NoOwner)
      /\ c.setLabels \in BOOLEAN /\ c.labels \in SUBSET LABEL
      /\ c.lastAccess \in {0, t} /\ c.lastRotation \in {0, t}
      /\ c.cookies \in [NAME -> VAL \union {None, Keep}]
      /\ (~c.rotate => c.newKey = c.oldKey)
  BY <1>3, ControlsType
<1>5. /\ access \in Nat /\ access >= s.lastAccess /\ access <= Sec /\ SEC * access <= ms
      /\ (~(c.lastAccess > s.lastAccess) => access = s.lastAccess)
      /\ Later(c.lastRotation, s.lastRotation) \in Nat
  <2>1. c.lastAccess \in Nat /\ c.lastAccess <= Sec /\ SEC * c.lastAccess <= ms /\ c.lastRotation \in Nat
    BY <1>2, <1>3, <1>4, RedisAssumption
  <2> QED BY <1>2, <2>1 DEF Later, Contract!Later
<1>6. deadline = Limit(s, access) /\ deadline \in Nat
  BY <1>2, <1>3, <1>5, DeadlineIsLimit, LimitType
<1>7. OwnerDeadline(s) \in Nat
  BY <1>2, RedisAssumption DEF OwnerDeadline
<1>8. O \subseteq {"own"} \X OWNER
  BY <1>4
<1>9. /\ row' \in [SID -> Session \union {None}]
      /\ row'[id] \in Session /\ \A x \in SID : x # id => row'[x] = row[x]
      /\ row'[id].creation = s.creation /\ row'[id].inactive = s.inactive /\ row'[id].final = s.final
      /\ row'[id].lastAccess = access
  BY AppliedRows
<1>10. /\ attr' \in [SID -> [NAME -> VAL \union {None}]]
       /\ \A x \in SID : x # id => attr'[x] = attr[x]
       /\ c.cookies = NoMutations => attr'[id] = attr[id]
  BY <1>4, MergedCookiesType DEF ApplySessionControls, RedisInv, RedisTypeOK
<1>11. own' \in [OWNER -> SUBSET SID]
  BY DEF ApplySessionControls, RedisInv, RedisTypeOK
<1>12. rev[id] = {k} /\ \A x \in SID : x # id => k \notin rev[x]
  BY <1>1, <1>4, OnlyKey
<1>13. /\ key' = IF c.rotate THEN [key EXCEPT ![c.newKey] = id, ![c.oldKey] = None] ELSE key
       /\ rev' = IF c.rotate THEN [rev EXCEPT ![id] = (@ \ {c.oldKey}) \union {c.newKey}] ELSE rev
  BY DEF ApplySessionControls
<1>14. /\ key' \in [KEY -> SID \union {None}] /\ rev' \in [SID -> SUBSET KEY]
       /\ rev'[id] = {c.newKey} /\ \A x \in SID : x # id => rev'[x] = rev[x]
       /\ key'[c.newKey] = id
       /\ \A j \in KEY : j # c.newKey => key'[j] = IF j = k THEN None ELSE key[j]
  BY <1>1, <1>4, <1>12, <1>13 DEF RedisInv, RedisTypeOK
<1>15. \A x \in SID : x # id => c.newKey \notin rev[x]
  BY <1>1, <1>4, <1>12, RedisSentinels DEF RedisInv, SessionInv, Linked
<1>16. RedisTypeOK'
  <2>1. until' \in [Entry -> Nat]
    <3> HIDE DEF E, O, deadline
    <3> QED BY <1>1, <1>6, <1>7, ExpiryType DEF RedisInv, RedisTypeOK
  <2> QED BY <1>9, <1>10, <1>11, <1>14, <2>1 DEF RedisInv, RedisTypeOK
<1>17. ASSUME NEW x \in SID, x # id PROVE SessionInv(x)'
  <2>1. E \subseteq EntriesOf(id, {c.newKey}) /\ {c.newKey} \intersect rev[x] = {}
    BY <1>15, <1>17 DEF EntriesOf, SessionEntries
  <2>2. \A j \in KEY : key'[j] = x <=> key[j] = x
    BY <1>1, <1>4, <1>14, <1>15, <1>17, RedisSentinels DEF RedisInv, SessionInv, Linked
  <2> HIDE DEF E, O, deadline
  <2>3. Same(x)
    BY <1>1, <1>8, <1>9, <1>10, <1>14, <1>17, <2>1, <2>2, SameExpiry
  <2> QED BY <2>3, SameInv
<1>18. SessionInv(id)'
  <2>1. /\ until'[<<"row", id>>] = d
        /\ attr'[id] # NoCookies => until'[<<"attr", id>>] = d
        /\ rev'[id] # {} => until'[<<"rev", id>>] = d
        /\ \A j \in rev'[id] : until'[<<"key", j>>] = d
    <3>1. row'[id] # None /\ id # None
      BY <1>9, RedisSentinels DEF Session
    <3>2. Together(id)
      BY DEF RedisInv, SessionInv
    <3>3. CASE advanced
      <4>1. /\ <<"row", id>> \in E /\ <<"attr", id>> \in E /\ <<"rev", id>> \in E
            /\ <<"key", c.newKey>> \in E /\ d = deadline
        BY <3>3 DEF SessionEntries
      <4> HIDE DEF E, O, d, deadline
      <4>2. until'[<<"row", id>>] = d
        BY <1>1, <1>4, <1>8, <3>1, <4>1, RowExpiry
      <4>3. attr'[id] # NoCookies => until'[<<"attr", id>>] = d
        BY <1>1, <1>4, <1>8, <4>1, AttrExpiry
      <4>4. rev'[id] # {} => until'[<<"rev", id>>] = d
        BY <1>1, <1>4, <1>8, <4>1, RevExpiry
      <4>5. \A j \in rev'[id] : until'[<<"key", j>>] = d
        BY <1>1, <1>4, <1>8, <1>14, <3>1, <4>1, KeyExpiry
      <4> QED BY <4>2, <4>3, <4>4, <4>5
    <3>4. CASE ~advanced
      <4>1. E = {} /\ c.newKey = k /\ attr'[id] = attr[id] /\ d = until[<<"row", id>>]
        BY <1>4, <1>10, <3>4
      <4> HIDE DEF E, O, d, deadline
      <4> QED BY <1>1, <1>4, <1>8, <1>12, <1>14, <3>1, <3>2, <4>1, RowExpiry, AttrExpiry, RevExpiry,
                 KeyExpiry
              DEF Together
    <3> QED BY <3>3, <3>4
  <2>2. Linked(id)'
    <3>1. \A j \in KEY : key'[j] = id <=> j = c.newKey
      BY <1>4, <1>12, <1>14, RedisSentinels DEF RedisInv, SessionInv, Linked
    <3> QED BY <1>4, <1>14, <3>1 DEF Linked
  <2>3. \/ d = Limit(row'[id], row'[id].lastAccess)
        \/ d = until[<<"row", id>>] /\ row'[id].lastAccess = row[id].lastAccess
    <3>1. Limit(row'[id], row'[id].lastAccess) = deadline
      BY <1>6, <1>9 DEF Limit
    <3> QED BY <1>5, <1>9, <3>1
  <2>4. d \in Nat /\ d > ms
    BY <1>1, <1>2, <1>6
  <2> HIDE DEF d
  <2> QED BY <1>1, <1>5, <1>9, <2>1, <2>2, <2>3, <2>4, RenewedInv
<1> QED BY <1>16, <1>17, <1>18 DEF RedisInv

\* What a delete leaves of the sessions, whatever it does to the owner sets.
LEMMA DropSessionInv ==
    ASSUME RedisInv, ms' = ms, NEW id \in SID, DropSession(id),
           own' \in [OWNER -> SUBSET SID], PExpire({}, 0)
    PROVE  RedisInv'
<1>1. PExpireBoth({}, 0, {}, 0)
  BY DEF PExpire
<1>2. /\ row' \in [SID -> Session \union {None}] /\ row'[id] = None
      /\ attr' \in [SID -> [NAME -> VAL \union {None}]] /\ attr'[id] = NoCookies
      /\ rev' \in [SID -> SUBSET KEY] /\ rev'[id] = {}
      /\ key' \in [KEY -> SID \union {None}]
      /\ \A x \in SID : x # id => row'[x] = row[x] /\ attr'[x] = attr[x] /\ rev'[x] = rev[x]
      /\ \A k \in KEY : key'[k] = IF key[k] = id THEN None ELSE key[k]
  BY DEF DropSession, RedisInv, RedisTypeOK, SessionInv, Linked, NoCookies, Contract!NoCookies
<1>3. RedisTypeOK'
  BY <1>1, <1>2, ExpiryType DEF RedisInv, RedisTypeOK
<1>4. ASSUME NEW x \in SID, x # id PROVE SessionInv(x)'
  <2>1. \A k \in KEY : key'[k] = x <=> key[k] = x
    BY <1>2, <1>4, RedisSentinels
  <2>2. Same(x)
    BY <1>2, <1>4, <2>1, SameWithoutExpiry
  <2> QED BY <2>2, SameInv
<1>5. SessionInv(id)'
  <2>1. \A k \in KEY : key'[k] # id
    BY <1>2, RedisSentinels
  <2> QED BY <1>2, <2>1 DEF SessionInv, Stamped, Linked, Whole, Together, Limited, NoCookies,
                            Contract!NoCookies
<1> QED BY <1>3, <1>4, <1>5 DEF RedisInv

\* A script that changes owner sets only.
LEMMA OwnersOnlyInv ==
    ASSUME RedisInv, ms' = ms, UNCHANGED <<row, key, attr, rev>>,
           own' \in [OWNER -> SUBSET SID], PExpire({}, 0)
    PROVE  RedisInv'
<1>1. PExpireBoth({}, 0, {}, 0)
  BY DEF PExpire
<1>2. RedisTypeOK'
  BY <1>1, ExpiryType DEF RedisInv, RedisTypeOK
<1>3. ASSUME NEW x \in SID PROVE SessionInv(x)'
  <2>1. Same(x)
    BY SameWithoutExpiry
  <2> QED BY <2>1, SameInv
<1> QED BY <1>2, <1>3 DEF RedisInv

LEMMA DeleteSessionInv ==
    ASSUME RedisInv, ms' = ms, NEW id \in SID, DeleteSession(id)
    PROVE  RedisInv'
<1>1. own' \in [OWNER -> SUBSET SID]
  BY DEF DeleteSession, RedisInv, RedisTypeOK
<1> QED BY <1>1, DropSessionInv DEF DeleteSession

LEMMA DeleteSessionByOwnerInv ==
    ASSUME RedisInv, ms' = ms, NEW id \in SID, NEW o \in OWNER, DeleteSessionByOwner(o, id)
    PROVE  RedisInv'
<1>1. own' \in [OWNER -> SUBSET SID]
  BY DEF DeleteSessionByOwner, RedisInv, RedisTypeOK
<1>2. CASE row[id] # None /\ row[id].owner = o
  BY <1>1, <1>2, DropSessionInv DEF DeleteSessionByOwner
<1>3. CASE ~(row[id] # None /\ row[id].owner = o)
  BY <1>1, <1>3, OwnersOnlyInv DEF DeleteSessionByOwner
<1> QED BY <1>2, <1>3

\* A script on the keys or cookies of a live session: what it writes takes over
\* the deadline of the row.
LEMMA EntryScriptInv ==
    ASSUME RedisInv, ms' = ms, NEW id \in SID, row[id] # None, UNCHANGED <<row, own>>,
           attr' \in [SID -> [NAME -> VAL \union {None}]], rev' \in [SID -> SUBSET KEY],
           key' \in [KEY -> SID \union {None}],
           NEW E, E \subseteq EntriesOf(id, rev'[id]), PExpire(E, until[<<"row", id>>]),
           attr'[id] # NoCookies => attr[id] # NoCookies \/ <<"attr", id>> \in E,
           rev'[id] # {} => rev[id] # {} \/ <<"rev", id>> \in E,
           \A k \in rev'[id] : k \in rev[id] \/ <<"key", k>> \in E,
           \A x \in SID : x # id => attr'[x] = attr[x] /\ rev'[x] = rev[x],
           \A x \in SID, k \in KEY : x # id => (key'[k] = x <=> key[k] = x),
           Linked(id)'
    PROVE  RedisInv'
<1> DEFINE d == until[<<"row", id>>]
<1>1. PExpireBoth(E, d, {}, 0)
  BY DEF PExpire
<1>2. d \in Nat /\ d > ms /\ row[id] \in Session /\ row[id].lastAccess <= Sec /\ row[id].lastAccess \in Nat
  BY LiveRow
<1>3. RedisTypeOK'
  BY <1>1, <1>2, ExpiryType DEF RedisInv, RedisTypeOK
<1>4. ASSUME NEW x \in SID, x # id PROVE SessionInv(x)'
  <2>1. rev'[id] \intersect rev[x] = {}
    BY <1>4 DEF Linked, RedisInv, SessionInv
  <2>2. Same(x)
    BY <1>1, <1>4, <2>1, SameExpiry
  <2> QED BY <2>2, SameInv
<1>5. SessionInv(id)'
  <2>1. Together(id)
    BY DEF RedisInv, SessionInv
  <2>2. until'[<<"row", id>>] = d
    BY <1>1, RowExpiry
  <2>3. attr'[id] # NoCookies => until'[<<"attr", id>>] = d
    BY <1>1, <2>1, AttrExpiry DEF Together
  <2>4. rev'[id] # {} => until'[<<"rev", id>>] = d
    BY <1>1, <2>1, RevExpiry DEF Together
  <2>5. ASSUME NEW k \in rev'[id] PROVE until'[<<"key", k>>] = d
    <3>1. k \in KEY /\ key'[k] # None
      BY <2>5, RedisSentinels DEF Linked
    <3>2. k \in rev[id] => until[<<"key", k>>] = d
      BY <2>1 DEF Together
    <3>3. until'[<<"key", k>>] = IF key'[k] = None THEN 0
               ELSE IF <<"key", k>> \in E THEN d ELSE until[<<"key", k>>]
      BY <1>1, <3>1, KeyExpiry
    <3> QED BY <2>5, <3>1, <3>2, <3>3
  <2>6. /\ row'[id] \in Session
        /\ row'[id].creation = row[id].creation /\ row'[id].inactive = row[id].inactive
        /\ row'[id].final = row[id].final /\ row'[id].lastAccess = row[id].lastAccess
        /\ row[id].lastAccess <= row'[id].lastAccess /\ row'[id].lastAccess <= Sec
    BY <1>2
  <2>7. \/ d = Limit(row'[id], row'[id].lastAccess)
        \/ d = until[<<"row", id>>] /\ row'[id].lastAccess = row[id].lastAccess
    BY <2>6
  <2> HIDE DEF d
  <2> QED BY <1>2, <2>2, <2>3, <2>4, <2>5, <2>6, <2>7, RenewedInv
<1> QED BY <1>3, <1>4, <1>5 DEF RedisInv

LEMMA PutKeyInv ==
    ASSUME RedisInv, ms' = ms, NEW id \in SID, NEW k \in KEY,
           key[k] = None, rev[id] = {}, PutKey(k, id)
    PROVE  RedisInv'
<1> DEFINE E == {<<"key", k>>, <<"rev", id>>}
<1>1. /\ key' \in [KEY -> SID \union {None}] /\ rev' \in [SID -> SUBSET KEY] /\ rev'[id] = {k}
      /\ \A x \in SID : x # id => rev'[x] = rev[x]
      /\ \A j \in KEY : key'[j] = IF j = k THEN id ELSE key[j]
      /\ row[id] # None /\ UNCHANGED <<row, attr, own>> /\ PExpire(E, until[<<"row", id>>])
  BY DEF PutKey, RedisInv, RedisTypeOK
<1>2. \A x \in SID, j \in KEY : x # id => (key'[j] = x <=> key[j] = x)
  BY <1>1, RedisSentinels
<1>3. Linked(id)'
  <2>1. \A j \in KEY : key'[j] = id <=> j = k
    BY <1>1 DEF RedisInv, SessionInv, Linked
  <2> QED BY <1>1, <2>1 DEF Linked
<1>4. E \subseteq EntriesOf(id, rev'[id]) /\ <<"key", k>> \in E /\ <<"rev", id>> \in E
  BY <1>1 DEF EntriesOf
<1>5. attr' \in [SID -> [NAME -> VAL \union {None}]]
  BY <1>1 DEF RedisInv, RedisTypeOK
<1>6. /\ attr'[id] # NoCookies => attr[id] # NoCookies \/ <<"attr", id>> \in E
      /\ rev'[id] # {} => rev[id] # {} \/ <<"rev", id>> \in E
      /\ \A j \in rev'[id] : j \in rev[id] \/ <<"key", j>> \in E
      /\ \A x \in SID : x # id => attr'[x] = attr[x] /\ rev'[x] = rev[x]
  BY <1>1, <1>4
<1> HIDE DEF E
<1> QED BY <1>1, <1>2, <1>3, <1>4, <1>5, <1>6, EntryScriptInv

LEMMA ReplaceKeyInv ==
    ASSUME RedisInv, ms' = ms, NEW id \in SID, NEW old \in KEY, NEW new \in KEY,
           ReplaceKey(old, new, id)
    PROVE  RedisInv'
<1> DEFINE E == {<<"key", new>>, <<"rev", id>>}
<1>1. row[id] # None /\ key[old] = id /\ key[new] = None /\ old # new /\ rev[id] = {old}
  BY OnlyKey, RedisSentinels DEF ReplaceKey
<1>2. /\ key' \in [KEY -> SID \union {None}] /\ rev' \in [SID -> SUBSET KEY] /\ rev'[id] = {new}
      /\ \A x \in SID : x # id => rev'[x] = rev[x]
      /\ \A j \in KEY : key'[j] = IF j = new THEN id ELSE IF j = old THEN None ELSE key[j]
      /\ UNCHANGED <<row, attr, own>> /\ PExpire(E, until[<<"row", id>>])
  BY <1>1 DEF ReplaceKey, RedisInv, RedisTypeOK
<1>3. \A x \in SID, j \in KEY : x # id => (key'[j] = x <=> key[j] = x)
  BY <1>1, <1>2, RedisSentinels
<1>4. Linked(id)'
  <2>1. \A j \in KEY : key'[j] = id <=> j = new
    BY <1>1, <1>2, RedisSentinels DEF RedisInv, SessionInv, Linked
  <2> QED BY <1>2, <2>1 DEF Linked
<1>5. E \subseteq EntriesOf(id, rev'[id]) /\ <<"key", new>> \in E /\ <<"rev", id>> \in E
  BY <1>2 DEF EntriesOf
<1>6. attr' \in [SID -> [NAME -> VAL \union {None}]]
  BY <1>2 DEF RedisInv, RedisTypeOK
<1>7. /\ attr'[id] # NoCookies => attr[id] # NoCookies \/ <<"attr", id>> \in E
      /\ rev'[id] # {} => rev[id] # {} \/ <<"rev", id>> \in E
      /\ \A j \in rev'[id] : j \in rev[id] \/ <<"key", j>> \in E
      /\ \A x \in SID : x # id => attr'[x] = attr[x] /\ rev'[x] = rev[x]
  BY <1>2, <1>5
<1> HIDE DEF E
<1> QED BY <1>1, <1>2, <1>3, <1>4, <1>5, <1>6, <1>7, EntryScriptInv

\* A key that leads somewhere leads to a live session.
LEMMA KeyLive ==
    ASSUME RedisInv, NEW id \in SID, NEW k \in KEY, key[k] = id
    PROVE  row[id] # None
BY DEF RedisInv, SessionInv, Linked, Whole

LEMMA DeleteKeyInv ==
    ASSUME RedisInv, ms' = ms, NEW id \in SID, NEW k \in KEY, key[k] = id, DeleteKey(k)
    PROVE  RedisInv'
<1>1. row[id] # None /\ rev[id] = {k}
  BY KeyLive, OnlyKey
<1>2. /\ key' \in [KEY -> SID \union {None}] /\ rev' \in [SID -> SUBSET KEY] /\ rev'[id] = {}
      /\ \A x \in SID : x # id => rev'[x] = rev[x]
      /\ \A j \in KEY : key'[j] = IF j = k THEN None ELSE key[j]
      /\ UNCHANGED <<row, attr, own>> /\ PExpireBoth({}, 0, {}, 0)
  BY <1>1 DEF DeleteKey, RedisInv, RedisTypeOK, PExpire
<1> DEFINE E == {}
<1>3. PExpire(E, until[<<"row", id>>])
  BY <1>2 DEF PExpire, PExpireBoth
<1>4. \A x \in SID, j \in KEY : x # id => (key'[j] = x <=> key[j] = x)
  BY <1>2, RedisSentinels
<1>5. Linked(id)'
  <2>1. \A j \in KEY : key'[j] # id
    BY <1>1, <1>2, RedisSentinels DEF RedisInv, SessionInv, Linked
  <2> QED BY <1>2, <2>1 DEF Linked
<1>6. attr' \in [SID -> [NAME -> VAL \union {None}]]
  BY <1>2 DEF RedisInv, RedisTypeOK
<1>7. /\ \A x \in SID : x # id => attr'[x] = attr[x] /\ rev'[x] = rev[x]
      /\ E \subseteq EntriesOf(id, rev'[id])
  BY <1>2
<1> HIDE DEF E
<1> QED BY <1>1, <1>2, <1>3, <1>4, <1>5, <1>6, <1>7, EntryScriptInv

LEMMA PutCookieInv ==
    ASSUME RedisInv, ms' = ms, NEW id \in SID, NEW n \in NAME, NEW v \in VAL, PutCookie(id, n, v)
    PROVE  RedisInv'
<1> DEFINE E == {<<"attr", id>>}
<1>1. /\ row[id] # None /\ UNCHANGED <<row, key, rev, own>> /\ PExpire(E, until[<<"row", id>>])
      /\ attr' \in [SID -> [NAME -> VAL \union {None}]]
      /\ \A x \in SID : x # id => attr'[x] = attr[x]
  BY DEF PutCookie, RedisInv, RedisTypeOK
<1>2. Linked(id)' /\ key' \in [KEY -> SID \union {None}] /\ rev' \in [SID -> SUBSET KEY]
  BY <1>1 DEF Linked, RedisInv, RedisTypeOK, SessionInv
<1>3. E \subseteq EntriesOf(id, rev'[id]) /\ <<"attr", id>> \in E
  BY DEF EntriesOf
<1> HIDE DEF E
<1> QED BY <1>1, <1>2, <1>3, EntryScriptInv

LEMMA DeleteCookieInv ==
    ASSUME RedisInv, ms' = ms, NEW id \in SID, NEW n \in NAME, DeleteCookie(id, n)
    PROVE  RedisInv'
<1>1. /\ UNCHANGED <<row, key, rev, own>> /\ PExpireBoth({}, 0, {}, 0)
      /\ attr' \in [SID -> [NAME -> VAL \union {None}]]
      /\ \A x \in SID : x # id => attr'[x] = attr[x]
      /\ attr[id] = NoCookies => attr'[id] = NoCookies
  BY DEF DeleteCookie, RedisInv, RedisTypeOK, PExpire, NoCookies, Contract!NoCookies
<1>2. Linked(id)' /\ key' \in [KEY -> SID \union {None}] /\ rev' \in [SID -> SUBSET KEY]
  BY <1>1 DEF Linked, RedisInv, RedisTypeOK, SessionInv
<1>3. CASE row[id] # None
  <2>1. PExpire({}, until[<<"row", id>>])
    BY <1>1 DEF PExpire, PExpireBoth
  <2>2. /\ attr'[id] # NoCookies => attr[id] # NoCookies \/ <<"attr", id>> \in {}
        /\ rev'[id] # {} => rev[id] # {} \/ <<"rev", id>> \in {}
        /\ \A j \in rev'[id] : j \in rev[id] \/ <<"key", j>> \in {}
        /\ \A x \in SID : x # id => attr'[x] = attr[x] /\ rev'[x] = rev[x]
        /\ \A x \in SID, k \in KEY : x # id => (key'[k] = x <=> key[k] = x)
        /\ {} \subseteq EntriesOf(id, rev'[id])
    BY <1>1
  <2> QED BY <1>1, <1>2, <1>3, <2>1, <2>2, EntryScriptInv
<1>4. CASE row[id] = None
  <2>1. attr[id] = NoCookies
    BY <1>4 DEF RedisInv, SessionInv, Whole
  <2>2. attr' = attr
    BY <1>1, <2>1 DEF RedisInv, RedisTypeOK
  <2>3. own' \in [OWNER -> SUBSET SID] /\ PExpire({}, 0)
    BY <1>1 DEF RedisInv, RedisTypeOK, PExpire
  <2> QED BY <1>1, <2>2, <2>3, OwnersOnlyInv
<1> QED BY <1>3, <1>4

-----------------------------------------------------------------------------
(* The passage of time.                                                    *)

Due(e) == until[e] # 0 /\ until[e] <= ms + 1

LEMMA ElapseParts ==
    ASSUME Elapse
    PROVE  /\ ms' = ms + 1 /\ ms + 1 < SEC * (MaxTime + 1)
           /\ row' = [s \in SID |-> IF Due(<<"row", s>>) THEN None ELSE row[s]]
           /\ attr' = [s \in SID |-> IF Due(<<"attr", s>>) THEN NoCookies ELSE attr[s]]
           /\ rev' = [s \in SID |-> IF Due(<<"rev", s>>) THEN {} ELSE rev[s]]
           /\ key' = [k \in KEY |-> IF Due(<<"key", k>>) THEN None ELSE key[k]]
           /\ own' = [o \in OWNER |-> IF Due(<<"own", o>>) THEN {} ELSE own[o]]
           /\ PExpireBoth({}, 0, {}, 0)
BY DEF Elapse, Due, PExpire

LEMMA ClockMovesOn ==
    ASSUME ms \in Nat, ms' = ms + 1
    PROVE  Sec \in Nat /\ Sec' \in {Sec, Sec + 1}
BY Clock, NextTick DEF Sec

\* What belongs to a session without a row, or to one whose row is due, is gone
\* after the tick; all of any other session stays.
LEMMA ElapsedEntries ==
    ASSUME RedisInv, Elapse, NEW x \in SID
    PROVE  /\ row[x] = None \/ Due(<<"row", x>>) =>
                 /\ row'[x] = None /\ attr'[x] = NoCookies /\ rev'[x] = {}
                 /\ \A k \in KEY : key'[k] # x
           /\ row[x] # None /\ ~Due(<<"row", x>>) =>
                 /\ row'[x] = row[x] /\ attr'[x] = attr[x] /\ rev'[x] = rev[x]
                 /\ \A k \in KEY : key'[k] = x <=> key[k] = x
<1>1. SessionInv(x) /\ x # None
  BY RedisSentinels DEF RedisInv
<1>2. /\ row'[x] = IF Due(<<"row", x>>) THEN None ELSE row[x]
      /\ attr'[x] = IF Due(<<"attr", x>>) THEN NoCookies ELSE attr[x]
      /\ rev'[x] = IF Due(<<"rev", x>>) THEN {} ELSE rev[x]
      /\ \A k \in KEY : key'[k] = IF Due(<<"key", k>>) THEN None ELSE key[k]
  BY ElapseParts
<1>3. CASE row[x] = None
  <2>1. attr[x] = NoCookies /\ rev[x] = {} /\ \A k \in KEY : key[k] # x
    BY <1>1, <1>3 DEF SessionInv, Whole, Linked
  <2> QED BY <1>1, <1>2, <1>3, <2>1
<1>4. CASE row[x] # None
  <2>1. /\ attr[x] # NoCookies => (Due(<<"attr", x>>) <=> Due(<<"row", x>>))
        /\ rev[x] # {} => (Due(<<"rev", x>>) <=> Due(<<"row", x>>))
        /\ \A k \in rev[x] : Due(<<"key", k>>) <=> Due(<<"row", x>>)
    BY <1>1, <1>4 DEF SessionInv, Together, Due
  <2>2. rev[x] = {k \in KEY : key[k] = x}
    BY <1>1 DEF SessionInv, Linked
  <2> QED BY <1>1, <1>2, <1>4, <2>1, <2>2
<1> QED BY <1>3, <1>4

LEMMA ElapseInv ==
    ASSUME RedisInv, Elapse
    PROVE  RedisInv'
<1>1. ms \in Nat /\ ms' = ms + 1 /\ ms' \in Nat /\ PExpireBoth({}, 0, {}, 0)
  BY ElapseParts DEF RedisInv, RedisTypeOK
<1>2. Sec \in Nat /\ Sec' \in {Sec, Sec + 1}
  BY <1>1, ClockMovesOn
<1>3. RedisTypeOK'
  <2>1. NoCookies \in [NAME -> VAL \union {None}]
    BY DEF NoCookies, Contract!NoCookies
  <2>2. until' \in [Entry -> Nat]
    BY <1>1, ExpiryType DEF RedisInv, RedisTypeOK
  <2>3. /\ row' \in [SID -> Session \union {None}] /\ key' \in [KEY -> SID \union {None}]
        /\ attr' \in [SID -> [NAME -> VAL \union {None}]]
        /\ rev' \in [SID -> SUBSET KEY] /\ own' \in [OWNER -> SUBSET SID]
    BY <2>1, ElapseParts DEF RedisInv, RedisTypeOK
  <2> QED BY <1>1, <2>2, <2>3 DEF RedisTypeOK
<1>4. ASSUME NEW x \in SID PROVE SessionInv(x)'
  <2>1. CASE row[x] = None \/ Due(<<"row", x>>)
    <3>1. row'[x] = None /\ attr'[x] = NoCookies /\ rev'[x] = {} /\ \A k \in KEY : key'[k] # x
      BY <2>1, ElapsedEntries
    <3> QED BY <3>1 DEF SessionInv, Stamped, Linked, Whole, Together, Limited, NoCookies,
                        Contract!NoCookies
  <2>2. CASE row[x] # None /\ ~Due(<<"row", x>>)
    <3>1. /\ row'[x] = row[x] /\ attr'[x] = attr[x] /\ rev'[x] = rev[x]
          /\ \A k \in KEY : key'[k] = x <=> key[k] = x
      BY <2>2, ElapsedEntries
    <3>2. SessionInv(x) /\ x # None
      BY RedisSentinels DEF RedisInv
    <3>3. Linked(x)' /\ Whole(x)'
      BY <2>2, <3>1, <3>2 DEF SessionInv, Linked, Whole
    <3>4. \A k \in rev[x] : k \in KEY /\ key'[k] # None
      BY <3>1, <3>2 DEF SessionInv, Linked
    <3>5. until'[<<"row", x>>] = until[<<"row", x>>]
      BY <1>1, <2>2, <3>1, RowExpiry
    <3>6. attr[x] # NoCookies => until'[<<"attr", x>>] = until[<<"attr", x>>]
      BY <1>1, <3>1, AttrExpiry
    <3>7. rev[x] # {} => until'[<<"rev", x>>] = until[<<"rev", x>>]
      BY <1>1, <3>1, RevExpiry
    <3>8. \A k \in rev[x] : until'[<<"key", k>>] = until[<<"key", k>>]
      BY <1>1, <3>4, KeyExpiry, ZenonT(30)
    <3>9. /\ row[x] \in Session /\ row[x].lastAccess \in Nat /\ row[x].final \in Nat
          /\ row[x].creation \in Nat
          /\ until[<<"row", x>>] \in Nat /\ until[<<"row", x>>] > ms
      BY <2>2, LiveRow
    <3>10. until[<<"row", x>>] > ms + 1
      BY <1>1, <2>2, <3>9 DEF Due
    <3>11. Together(x)'
      BY <1>1, <2>2, <3>1, <3>2, <3>5, <3>6, <3>7, <3>8, <3>10
         DEF SessionInv, Together, NoCookies, Contract!NoCookies
    <3>12. Stamped(x)'
      BY <1>2, <2>2, <3>1, <3>2, <3>9 DEF SessionInv, Stamped
    <3>13. SEC * row[x].final \in Nat
      BY <3>9, RedisAssumption
    <3>14. Limited(x)'
      BY <1>1, <2>2, <3>1, <3>2, <3>5, <3>9, <3>13 DEF SessionInv, Limited, Limit
    <3> QED BY <3>3, <3>11, <3>12, <3>14 DEF SessionInv
  <2> QED BY <2>1, <2>2
<1> QED BY <1>3, <1>4 DEF RedisInv

-----------------------------------------------------------------------------
(* The invariant and what follows from it.                                 *)

LEMMA RedisInitInv ==
    ASSUME RedisInit
    PROVE  RedisInv
<1>1. RedisTypeOK
  BY RedisAssumption DEF RedisInit, RedisTypeOK, NoCookies, Contract!NoCookies
<1>2. ASSUME NEW x \in SID PROVE SessionInv(x)
  BY RedisSentinels DEF RedisInit, SessionInv, Stamped, Linked, Whole, Together, Limited
<1> QED BY <1>1, <1>2 DEF RedisInv

LEMMA ResponseCallParts ==
    ASSUME RedisInv, NEW id \in SID, NEW k \in KEY, key[k] = id, NEW t \in Stamps,
           ResponseCall(id, k, t)
    PROVE  \E c \in Contract!ControlsAt(k, {0, t}) : ApplySessionControls(id, c, t)
<1>1. t \in Nat \ {0}
  BY StampType DEF RedisInv, RedisTypeOK
<1>2. PICK o \in OWNER \union {Contract!NoOwner}, l \in (SUBSET LABEL) \union {Keep},
           new \in KEY, m \in [NAME -> VAL \union {None, Keep}] :
         ApplySessionControls(id, ManagerControls(k, t, o, l, new, m), t)
  BY DEF ResponseCall
<1>3. ManagerControls(k, t, o, l, new, m) \in Contract!ControlsAt(k, {0, t})
  BY <1>1, ManagerControlsType
<1> QED BY <1>2, <1>3

LEMMA CallInv ==
    ASSUME RedisInv, ms' = ms, NEW id \in SID, Call(id)
    PROVE  RedisInv'
<1>1. CASE row[id] = None /\ \E i \in INACTIVE, f \in FINAL, t \in Stamps :
               PutSession(id, Contract!NewRow(t, i, f, t))
  BY <1>1, PutSessionInv
<1>2. CASE \E k \in KEY : key[k] = None /\ rev[id] = {} /\ PutKey(k, id)
  BY <1>2, PutKeyInv
<1>3. CASE \E k \in KEY, t \in Stamps : TouchSession(id, k, t, t)
  BY <1>3, TouchSessionInv
<1>4. CASE \E k \in KEY, t \in Stamps : key[k] = id /\ ResponseCall(id, k, t)
  <2>1. PICK k \in KEY, t \in Stamps : key[k] = id /\ ResponseCall(id, k, t)
    BY <1>4
  <2>2. PICK c \in Contract!ControlsAt(k, {0, t}) : ApplySessionControls(id, c, t)
    BY <2>1, ResponseCallParts
  <2> QED BY <2>2, ApplySessionControlsInv
<1>5. CASE DeleteSession(id)
  BY <1>5, DeleteSessionInv
<1>6. CASE \E o \in OWNER : DeleteSessionByOwner(o, id)
  BY <1>6, DeleteSessionByOwnerInv
<1>7. CASE \E old, new \in KEY : ReplaceKey(old, new, id)
  BY <1>7, ReplaceKeyInv
<1>8. CASE \E k \in KEY : key[k] = id /\ DeleteKey(k)
  BY <1>8, DeleteKeyInv
<1>9. CASE \E n \in NAME : DeleteCookie(id, n) \/ \E v \in VAL : PutCookie(id, n, v)
  BY <1>9, DeleteCookieInv, PutCookieInv
<1> QED BY <1>1, <1>2, <1>3, <1>4, <1>5, <1>6, <1>7, <1>8, <1>9 DEF Call

\* A step that changes nothing.
LEMMA RedisStutterInv ==
    ASSUME RedisInv, UNCHANGED redisVars
    PROVE  RedisInv'
<1>1. RedisTypeOK'
  BY DEF redisVars, RedisInv, RedisTypeOK
<1>2. ASSUME NEW x \in SID PROVE SessionInv(x)'
  <2>1. Same(x) /\ ms' = ms
    BY DEF redisVars, Same
  <2> QED BY <2>1, SameInv
<1> QED BY <1>1, <1>2 DEF RedisInv

LEMMA RedisStepInv ==
    ASSUME RedisInv, [RedisNext]_redisVars
    PROVE  RedisInv'
<1>1. CASE UNCHANGED redisVars
  BY <1>1, RedisStutterInv
<1>2. CASE \E id \in SID : Call(id) /\ UNCHANGED ms
  BY <1>2, CallInv
<1>3. CASE Elapse
  BY <1>3, ElapseInv
<1> QED BY <1>1, <1>2, <1>3 DEF RedisNext

\* Every reachable state of the Redis store satisfies the invariant.
THEOREM RedisSpecInv == RedisSpec => []RedisInv
BY RedisInitInv, RedisStepInv, PTL DEF RedisSpec

\* All of a session runs out at one moment: its keys, cookies and reverse set
\* have the deadline of its row, and the reverse set lists exactly its keys.
THEOREM RedisOneDeadline == RedisSpec => []OneDeadline
<1>1. RedisInv => OneDeadline
  <2> SUFFICES ASSUME RedisInv, NEW id \in SID, row[id] # None
               PROVE  /\ until[<<"row", id>>] > ms
                      /\ rev[id] = {k \in KEY : key[k] = id}
                      /\ \A e \in {<<"attr", id>>, <<"rev", id>>} \union {<<"key", k>> : k \in rev[id]} :
                             Exists(e) => until[e] = until[<<"row", id>>]
    BY DEF OneDeadline
  <2>1. SessionInv(id)
    BY DEF RedisInv
  <2>2. until[<<"row", id>>] > ms /\ rev[id] = {k \in KEY : key[k] = id}
    BY <2>1 DEF SessionInv, Together, Linked
  <2>3. Exists(<<"attr", id>>) => until[<<"attr", id>>] = until[<<"row", id>>]
    BY <2>1 DEF SessionInv, Together, Exists
  <2>4. Exists(<<"rev", id>>) => until[<<"rev", id>>] = until[<<"row", id>>]
    BY <2>1 DEF SessionInv, Together, Exists
  <2>5. \A k \in rev[id] : until[<<"key", k>>] = until[<<"row", id>>]
    BY <2>1 DEF SessionInv, Together
  <2> QED BY <2>2, <2>3, <2>4, <2>5
<1> QED BY <1>1, RedisSpecInv, PTL

\* Once used after the second of its creation, a session is kept neither past
\* its inactive nor past its final limit, however late the scripts run.
THEOREM RedisKeptWithinLimits == RedisSpec => []KeptWithinLimits
<1>1. RedisInv => KeptWithinLimits
  <2> SUFFICES ASSUME RedisInv, NEW id \in SID, row[id] # None, row[id].lastAccess > row[id].creation
               PROVE  until[<<"row", id>>] <= Limit(row[id], row[id].lastAccess)
    BY DEF KeptWithinLimits, Limit
  <2>1. until[<<"row", id>>] = Limit(row[id], row[id].lastAccess)
    BY DEF RedisInv, SessionInv, Limited
  <2>2. until[<<"row", id>>] \in Nat
    BY LiveRow
  <2> QED BY <2>1, <2>2
<1> QED BY <1>1, RedisSpecInv, PTL

\* A session whose row is due has reached a limit by the second that begins.
LEMMA DueIsExpired ==
    ASSUME RedisInv, Elapse, NEW id \in SID, row[id] # None, Due(<<"row", id>>)
    PROVE  Contract!Expired(row[id], Sec')
<1> DEFINE s == row[id]
           l == Sooner(s.lastAccess + s.inactive, s.creation + s.final)
<1>1. /\ s \in Session /\ s.creation \in Nat /\ s.inactive \in Nat /\ s.final \in Nat
      /\ s.lastAccess \in Nat /\ ms \in Nat /\ until[<<"row", id>>] \in Nat
  BY LiveRow
<1>2. Limit(s, s.lastAccess) <= until[<<"row", id>>] /\ Limit(s, s.lastAccess) = SEC * l
  BY DEF RedisInv, SessionInv, Limited, Limit
<1>3. l \in Nat /\ SEC * l \in Nat
  BY <1>1, RedisAssumption DEF Sooner
<1>4. ms' = ms + 1 /\ ms' \in Nat /\ until[<<"row", id>>] <= ms + 1
  BY <1>1, ElapseParts DEF Due
<1>5. SEC * l <= ms'
  <2> HIDE DEF l
  <2> QED BY <1>1, <1>2, <1>3, <1>4
<1>6. Sec' \in Nat
  BY <1>4, SecondOfTick DEF Sec
<1>7. l <= Sec'
  <2> HIDE DEF l
  <2> QED BY <1>3, <1>4, <1>5, Reached DEF Sec
<1> QED BY <1>1, <1>6, <1>7 DEF Contract!Expired, Sooner

\* Time alone takes a session away only when it has expired.
THEOREM RedisRunsOutWhenExpired == RedisSpec => RunsOutWhenExpired
<1> DEFINE A == ms' # ms => \A id \in SID : row[id] # None /\ row'[id] = None
                                              => Contract!Expired(row[id], Sec')
<1>1. RedisInv /\ [RedisNext]_redisVars => [A]_redisVars
  <2> SUFFICES ASSUME RedisInv, RedisNext, ms' # ms, NEW id \in SID, row[id] # None, row'[id] = None
               PROVE  Contract!Expired(row[id], Sec')
    OBVIOUS
  <2>1. Elapse
    BY DEF RedisNext
  <2>2. Due(<<"row", id>>)
    BY <2>1, ElapseParts
  <2> QED BY <2>1, <2>2, DueIsExpired
<1> HIDE DEF A
<1>2. RedisSpec => [][A]_redisVars
  BY <1>1, RedisSpecInv, PTL DEF RedisSpec
<1> QED BY <1>2 DEF A, RunsOutWhenExpired

\* A session that is gone, deleted or run out, has left no key and no cookie in
\* Redis: the entries have deadlines of their own and are deleted through the
\* reverse set, yet no call order and no tick parts them.  The final timeouts
\* may differ.
THEOREM RedisNothingDangles == RedisSpec => []Contract!NothingDangles
<1>1. RedisInv => Contract!NothingDangles
  <2> SUFFICES ASSUME RedisInv PROVE Contract!NothingDangles
    OBVIOUS
  <2>1. \A k \in KEY : key[k] # None => row[key[k]] # None
    BY KeyLive DEF RedisInv, RedisTypeOK
  <2>2. \A id \in SID : row[id] = None => attr[id] = Contract!NoCookies
    BY DEF RedisInv, SessionInv, Whole, NoCookies
  <2> QED BY <2>1, <2>2 DEF Contract!NothingDangles, Contract!Live
<1> QED BY <1>1, RedisSpecInv, PTL

LEMMA SteadyRow ==
    ASSUME RedisInv, NEW x \in SID, row'[x] = row[x] \/ row'[x] = None \/ row[x] = None
    PROVE  Contract!RowAdvances(x)
<1>1. CASE row[x] = None \/ row'[x] = None
  BY <1>1 DEF Contract!RowAdvances, Contract!Live
<1>2. CASE row[x] # None /\ row'[x] = row[x]
  <2>1. row[x].lastAccess \in Nat /\ row[x].lastRotation \in Nat
    BY <1>2, LiveRow
  <2> QED BY <1>2, <2>1 DEF Contract!RowAdvances
<1> QED BY <1>1, <1>2

LEMMA TouchAdvances ==
    ASSUME RedisInv, NEW id \in SID, NEW k \in KEY, NEW t \in Stamps, TouchSession(id, k, t, t)
    PROVE  \A x \in SID : Contract!RowAdvances(x)
<1>1. row[id].lastAccess \in Nat /\ row[id].lastRotation \in Nat /\ t \in Nat
  <2>1. row[id] # None
    BY DEF TouchSession
  <2>2. row[id].lastAccess \in Nat /\ row[id].lastRotation \in Nat /\ ms \in Nat
    BY <2>1, LiveRow
  <2> QED BY <2>2, StampType
<1>2. row'[id].lastAccess >= row[id].lastAccess /\ row'[id].lastRotation >= row[id].lastRotation
  <2>1. Later(t, row[id].lastAccess) >= row[id].lastAccess
    BY <1>1, LaterIsMax
  <2>2. /\ row'[id].lastAccess = Later(t, row[id].lastAccess)
        /\ row'[id].lastRotation = IF row[id].lastRotation = 0 THEN t ELSE row[id].lastRotation
    BY TouchedRows
  <2> QED BY <1>1, <2>1, <2>2
<1>3. Contract!RowAdvances(id)
  BY <1>2, TouchedRows DEF Contract!RowAdvances
<1>4. \A x \in SID : x # id => Contract!RowAdvances(x)
  BY TouchedRows, SteadyRow
<1> QED BY <1>3, <1>4

LEMMA ApplyAdvances ==
    ASSUME RedisInv, NEW id \in SID, NEW k \in KEY, NEW t \in Stamps,
           NEW c \in Contract!ControlsAt(k, {0, t}), ApplySessionControls(id, c, t)
    PROVE  \A x \in SID : Contract!RowAdvances(x)
<1>1. row[id].lastAccess \in Nat /\ row[id].lastRotation \in Nat /\ t \in Nat
  <2>1. row[id] # None
    BY DEF ApplySessionControls
  <2>2. row[id].lastAccess \in Nat /\ row[id].lastRotation \in Nat /\ ms \in Nat
    BY <2>1, LiveRow
  <2> QED BY <2>2, StampType
<1>2. c.lastAccess \in Nat /\ c.lastRotation \in Nat
  BY <1>1, ControlsType
<1>3. row'[id].lastAccess >= row[id].lastAccess /\ row'[id].lastRotation >= row[id].lastRotation
  <2>1. /\ Later(c.lastAccess, row[id].lastAccess) >= row[id].lastAccess
        /\ Later(c.lastRotation, row[id].lastRotation) >= row[id].lastRotation
    BY <1>1, <1>2, LaterIsMax
  <2>2. /\ row'[id].lastAccess = Later(c.lastAccess, row[id].lastAccess)
        /\ row'[id].lastRotation = Later(c.lastRotation, row[id].lastRotation)
    BY AppliedRows
  <2> QED BY <2>1, <2>2
<1>4. Contract!RowAdvances(id)
  BY <1>3, AppliedRows DEF Contract!RowAdvances
<1>5. \A x \in SID : x # id => Contract!RowAdvances(x)
  BY AppliedRows, SteadyRow
<1> QED BY <1>4, <1>5

LEMMA CallAdvances ==
    ASSUME RedisInv, NEW id \in SID, Call(id)
    PROVE  \A x \in SID : Contract!RowAdvances(x)
<1>1. CASE row[id] = None /\ \E i \in INACTIVE, f \in FINAL, t \in Stamps :
               PutSession(id, Contract!NewRow(t, i, f, t))
  <2>1. \A x \in SID : x # id => row'[x] = row[x]
    BY <1>1 DEF PutSession, RedisInv, RedisTypeOK
  <2> QED BY <1>1, <2>1, SteadyRow
<1>2. CASE \E k \in KEY, t \in Stamps : TouchSession(id, k, t, t)
  BY <1>2, TouchAdvances
<1>3. CASE \E k \in KEY, t \in Stamps : key[k] = id /\ ResponseCall(id, k, t)
  <2>1. PICK k \in KEY, t \in Stamps : key[k] = id /\ ResponseCall(id, k, t)
    BY <1>3
  <2>2. PICK c \in Contract!ControlsAt(k, {0, t}) : ApplySessionControls(id, c, t)
    BY <2>1, ResponseCallParts
  <2> QED BY <2>2, ApplyAdvances
<1>4. CASE DeleteSession(id) \/ \E o \in OWNER : DeleteSessionByOwner(o, id)
  <2>1. \A x \in SID : row'[x] = row[x] \/ row'[x] = None
    BY <1>4 DEF DeleteSession, DeleteSessionByOwner, DropSession, RedisInv, RedisTypeOK
  <2> QED BY <2>1, SteadyRow
<1>5. CASE \/ \E k \in KEY : PutKey(k, id) \/ DeleteKey(k)
           \/ \E old, new \in KEY : ReplaceKey(old, new, id)
           \/ \E n \in NAME : DeleteCookie(id, n) \/ \E v \in VAL : PutCookie(id, n, v)
  <2>1. row' = row
    BY <1>5 DEF PutKey, DeleteKey, ReplaceKey, DeleteCookie, PutCookie
  <2> QED BY <2>1, SteadyRow
<1> QED BY <1>1, <1>2, <1>3, <1>4, <1>5 DEF Call

\* The scripts take the later of the stamp they are given and the one they find,
\* so however long ago a caller read its clock and in whatever order the scripts
\* run, no living session's access or rotation time goes back, and its creation
\* time and limits stay.
THEOREM RedisRowMonotone == RedisSpec => Contract!RowMonotone
<1> DEFINE A == \A id \in SID : Contract!RowAdvances(id)
<1>1. RedisInv /\ [RedisNext]_redisVars => [A]_(Contract!storeVars)
  <2> SUFFICES ASSUME RedisInv, [RedisNext]_redisVars PROVE A
    OBVIOUS
  <2>1. CASE UNCHANGED redisVars
    BY <2>1, SteadyRow DEF redisVars
  <2>2. CASE \E id \in SID : Call(id) /\ UNCHANGED ms
    BY <2>2, CallAdvances
  <2>3. CASE Elapse
    BY <2>3, ElapseParts, SteadyRow
  <2> QED BY <2>1, <2>2, <2>3 DEF RedisNext
<1> HIDE DEF A
<1>2. RedisSpec => [][A]_(Contract!storeVars)
  BY <1>1, RedisSpecInv, PTL DEF RedisSpec
<1> QED BY <1>2 DEF A, Contract!RowMonotone

-----------------------------------------------------------------------------
(* The owner sets, when all sessions have one final timeout.               *)

LEMMA DeadlineBound ==
    ASSUME NEW s \in Session, NEW access \in Nat, NEW t \in Nat, ms \in Nat
    PROVE  Deadline(s, access, t) \in Int /\ Deadline(s, access, t) <= SEC * (s.creation + s.final)
<1>1. s.inactive \in Nat /\ s.final \in Nat /\ s.creation \in Nat
  BY DEF Session, Contract!Session
<1>2. Deadline(s, access, t) = Sooner(ms + TTL(s, t), Limit(s, access))
  BY DEF Deadline, Limit
<1>3. TTL(s, t) \in Int /\ SEC * (s.creation + s.final) \in Int
  BY <1>1, RedisAssumption DEF TTL, Sooner
<1>4. Limit(s, access) \in Nat /\ Limit(s, access) <= SEC * (s.creation + s.final)
  BY LimitType
<1> QED BY <1>2, <1>3, <1>4 DEF Sooner

\* A bound session whose owner set keeps its entry and its deadline.
LEMMA CoveredStays ==
    ASSUME RedisInv, RedisInv', NEW x \in SID, Covered(x), row[x] # None,
           row'[x] # None => /\ row'[x].owner = row[x].owner
                             /\ row'[x].creation = row[x].creation /\ row'[x].final = row[x].final
                             /\ \/ until'[<<"row", x>>] = until[<<"row", x>>]
                                \/ until'[<<"row", x>>] <= SEC * (row[x].creation + row[x].final)
                             /\ row[x].owner # Contract!NoOwner =>
                                  /\ x \in own'[row[x].owner]
                                  /\ until'[<<"own", row[x].owner>>] = until[<<"own", row[x].owner>>]
    PROVE  Covered(x)'
<1> SUFFICES ASSUME row'[x] # None, row[x].owner # Contract!NoOwner
             PROVE  /\ x \in own'[row[x].owner]
                    /\ until'[<<"row", x>>] <= until[<<"own", row[x].owner>>]
                    /\ SEC * (row[x].creation + row[x].final) <= until[<<"own", row[x].owner>>]
  BY DEF Covered
<1>1. row[x].owner \in OWNER /\ SEC * (row[x].creation + row[x].final) \in Nat
  BY LiveRow, RedisAssumption
<1>2. until[<<"own", row[x].owner>>] \in Nat /\ until'[<<"row", x>>] \in Nat
  BY <1>1 DEF RedisInv, RedisTypeOK, Entry
<1>3. /\ until[<<"row", x>>] <= until[<<"own", row[x].owner>>]
      /\ SEC * (row[x].creation + row[x].final) <= until[<<"own", row[x].owner>>]
  BY DEF Covered
<1> QED BY <1>1, <1>2, <1>3

\* A session whose owner set has just been given a whole final timeout.
LEMMA CoveredAnew ==
    ASSUME OneFinal, RedisInv', ms' = ms, NEW x \in SID, NEW o \in OWNER, NEW f \in FINAL,
           row'[x] # None => row'[x].owner = o,
           x \in own'[o], until'[<<"own", o>>] = ms + SEC * f
    PROVE  Covered(x)'
<1> SUFFICES ASSUME row'[x] # None
             PROVE  /\ until'[<<"row", x>>] <= ms + SEC * f
                    /\ SEC * (row'[x].creation + row'[x].final) <= ms + SEC * f
  BY DEF Covered
<1> DEFINE p == row'[x]
<1>1. /\ p.creation \in Nat /\ p.final \in FINAL /\ p.lastAccess \in Nat
      /\ p.creation <= p.lastAccess /\ p.lastAccess <= Sec' /\ Sec' = Sec /\ ms \in Nat
      /\ until'[<<"row", x>>] <= ms + SEC * p.final
  BY DEF RedisInv, RedisTypeOK, SessionInv, Stamped, Limited, Session, Contract!Session, Sec
<1>2. p.final = f /\ f \in Nat
  BY <1>1, RedisAssumption DEF OneFinal
<1>3. SEC * Sec <= ms /\ Sec \in Nat /\ SEC * Sec \in Nat
  BY <1>1, Clock
<1>4. SEC * p.creation <= SEC * Sec /\ SEC * p.creation \in Int /\ SEC * f \in Int
  BY <1>1, <1>2, <1>3, ScaledOrder, RedisAssumption
<1> HIDE DEF p
<1>5. SEC * (p.creation + f) = SEC * p.creation + SEC * f
  BY <1>1, <1>2, ScaledSum, RedisAssumption
<1>6. SEC * (p.creation + p.final) <= ms + SEC * f
  BY <1>1, <1>2, <1>3, <1>4, <1>5
<1> QED BY <1>1, <1>2, <1>6 DEF p

\* The deadline of an owner set that a script leaves alone.
LEMMA OwnerSetStays ==
    ASSUME NEW E, NEW d, PExpire(E, d), NEW id, NEW K, E \subseteq EntriesOf(id, K),
           NEW o \in OWNER, own'[o] # {}
    PROVE  until'[<<"own", o>>] = until[<<"own", o>>]
<1>1. PExpireBoth(E, d, {}, 0)
  BY DEF PExpire
<1>2. \A p \in OWNER : <<"own", p>> \notin E
  BY DEF EntriesOf
<1> QED BY <1>1, <1>2, OwnExpiry

\* A script that leaves the rows and the owner sets alone.
LEMMA EntryScriptOwners ==
    ASSUME RedisInv, RedisInv', OwnerInv, UNCHANGED <<row, own>>, NEW id, NEW K,
           NEW E, E \subseteq EntriesOf(id, K), <<"row", id>> \notin E, NEW d, PExpire(E, d)
    PROVE  OwnerInv'
<1> SUFFICES ASSUME NEW x \in SID PROVE Covered(x)'
  BY DEF OwnerInv
<1>1. Covered(x)
  BY DEF OwnerInv
<1>2. CASE row[x] = None
  BY <1>2 DEF Covered
<1>3. CASE row[x] # None
  <2>1. <<"row", x>> \notin E /\ PExpireBoth(E, d, {}, 0)
    BY DEF EntriesOf, PExpire
  <2>2. until'[<<"row", x>>] = until[<<"row", x>>]
    BY <1>3, <2>1, RowExpiry
  <2>3. ASSUME row[x].owner # Contract!NoOwner
        PROVE  /\ x \in own'[row[x].owner]
               /\ until'[<<"own", row[x].owner>>] = until[<<"own", row[x].owner>>]
    <3>1. row[x].owner \in OWNER /\ x \in own[row[x].owner]
      BY <1>1, <1>3, <2>3, LiveRow DEF Covered
    <3> QED BY <3>1, OwnerSetStays
  <2> QED BY <1>1, <1>3, <2>2, <2>3, CoveredStays
<1> QED BY <1>2, <1>3

LEMMA PutSessionOwners ==
    ASSUME RedisInv, RedisInv', OwnerInv, NEW id \in SID, row[id] = None,
           NEW i \in INACTIVE, NEW f \in FINAL, NEW t \in Stamps,
           PutSession(id, Contract!NewRow(t, i, f, t))
    PROVE  OwnerInv'
<1> SUFFICES ASSUME NEW x \in SID PROVE Covered(x)'
  BY DEF OwnerInv
<1> DEFINE s == Contract!NewRow(t, i, f, t)
           d == ms + TTL(s, s.creation)
<1>1. s.owner = Contract!NoOwner
  BY DEF Contract!NewRow
<1>2. row' = [row EXCEPT ![id] = s] /\ own' = own /\ PExpire({<<"row", id>>}, d)
  BY DEF PutSession
<1> HIDE DEF s, d
<1>3. CASE x = id
  <2>1. row'[x].owner = Contract!NoOwner
    BY <1>1, <1>2, <1>3 DEF RedisInv, RedisTypeOK
  <2> QED BY <2>1 DEF Covered
<1>4. CASE x # id
  <2>1. row'[x] = row[x] /\ Covered(x)
    BY <1>2, <1>4 DEF RedisInv, RedisTypeOK, OwnerInv
  <2>2. CASE row[x] = None
    BY <2>1, <2>2 DEF Covered
  <2>3. CASE row[x] # None
    <3>1. <<"row", x>> \notin {<<"row", id>>} /\ PExpireBoth({<<"row", id>>}, d, {}, 0)
          /\ {<<"row", id>>} \subseteq EntriesOf(id, {})
      BY <1>2, <1>4 DEF PExpire, EntriesOf
    <3>2. until'[<<"row", x>>] = until[<<"row", x>>]
      BY <2>1, <2>3, <3>1, RowExpiry
    <3>3. ASSUME row[x].owner # Contract!NoOwner
          PROVE  /\ x \in own'[row[x].owner]
                 /\ until'[<<"own", row[x].owner>>] = until[<<"own", row[x].owner>>]
      <4>1. row[x].owner \in OWNER /\ x \in own[row[x].owner]
        BY <2>1, <2>3, <3>3, LiveRow DEF Covered
      <4> QED BY <1>2, <3>1, <4>1, OwnerSetStays
    <3> QED BY <2>1, <2>3, <3>2, <3>3, CoveredStays
  <2> QED BY <2>2, <2>3
<1> QED BY <1>3, <1>4

LEMMA TouchSessionOwners ==
    ASSUME RedisInv, RedisInv', OwnerInv, NEW id \in SID, NEW k \in KEY, NEW t \in Stamps,
           TouchSession(id, k, t, t)
    PROVE  OwnerInv'
<1> SUFFICES ASSUME NEW x \in SID PROVE Covered(x)'
  BY DEF OwnerInv
<1> DEFINE E == IF t > row[id].lastAccess THEN SessionEntries(id, k) ELSE {}
           d == Deadline(row[id], t, t)
<1>1. row[id] # None /\ own' = own /\ PExpire(E, d) /\ PExpireBoth(E, d, {}, 0)
  BY DEF TouchSession, PExpire
<1>2. /\ E \subseteq EntriesOf(id, {k})
      /\ x # id => <<"row", x>> \notin E
  BY DEF SessionEntries, EntriesOf
<1>3. Covered(x) /\ id # None
  BY RedisSentinels DEF OwnerInv
<1>4. row'[x] = None <=> row[x] = None
  BY <1>1, TouchedRows, RedisSentinels DEF Session
<1>5. CASE row[x] = None
  BY <1>4, <1>5 DEF Covered
<1>6. CASE row[x] # None
  <2>1. /\ row'[x].owner = row[x].owner
        /\ row'[x].creation = row[x].creation /\ row'[x].final = row[x].final
    BY TouchedRows
  <2>2. ASSUME row[x].owner # Contract!NoOwner
        PROVE  /\ x \in own'[row[x].owner]
               /\ until'[<<"own", row[x].owner>>] = until[<<"own", row[x].owner>>]
    <3>1. row[x].owner \in OWNER /\ x \in own[row[x].owner]
      BY <1>3, <1>6, <2>2, LiveRow DEF Covered
    <3> HIDE DEF E, d
    <3> QED BY <1>1, <1>2, <3>1, OwnerSetStays
  <2>3. \/ until'[<<"row", x>>] = until[<<"row", x>>]
        \/ until'[<<"row", x>>] <= SEC * (row[x].creation + row[x].final)
    <3>1. until'[<<"row", x>>] = IF <<"row", x>> \in E THEN d ELSE until[<<"row", x>>]
      <4> HIDE DEF E, d
      <4> QED BY <1>1, <1>4, <1>6, RowExpiry
    <3>2. d <= SEC * (row[id].creation + row[id].final)
      BY <1>1, LiveRow, StampType, DeadlineBound
    <3> HIDE DEF E, d
    <3> QED BY <1>2, <3>1, <3>2
  <2> QED BY <1>3, <1>6, <2>1, <2>2, <2>3, CoveredStays
<1> QED BY <1>5, <1>6

\* A delete: the rows that are left are listed as before.
LEMMA DeleteOwners ==
    ASSUME RedisInv, RedisInv', OwnerInv, PExpire({}, 0),
           \A x \in SID : row'[x] \in {row[x], None},
           \A x \in SID, o \in OWNER :
               row'[x] # None /\ row[x].owner = o /\ x \in own[o] => x \in own'[o]
    PROVE  OwnerInv'
<1> SUFFICES ASSUME NEW x \in SID, row'[x] # None PROVE Covered(x)'
  BY DEF OwnerInv, Covered
<1>1. row'[x] = row[x] /\ row[x] # None /\ Covered(x)
  BY DEF OwnerInv
<1> DEFINE N == {}
<1>2. PExpire(N, 0) /\ PExpireBoth(N, 0, {}, 0) /\ N \subseteq EntriesOf(x, {}) /\ <<"row", x>> \notin N
  BY DEF PExpire
<1> HIDE DEF N
<1>3. until'[<<"row", x>>] = until[<<"row", x>>]
  BY <1>1, <1>2, RowExpiry
<1>4. ASSUME row[x].owner # Contract!NoOwner
      PROVE  /\ x \in own'[row[x].owner]
             /\ until'[<<"own", row[x].owner>>] = until[<<"own", row[x].owner>>]
  <2>1. row[x].owner \in OWNER /\ x \in own[row[x].owner]
    BY <1>1, <1>4, LiveRow DEF Covered
  <2>2. x \in own'[row[x].owner]
    BY <1>1, <2>1
  <2> QED BY <1>2, <2>1, <2>2, OwnerSetStays
<1> QED BY <1>1, <1>3, <1>4, CoveredStays

LEMMA DeleteSessionOwners ==
    ASSUME RedisInv, RedisInv', OwnerInv, NEW id \in SID, DeleteSession(id)
    PROVE  OwnerInv'
<1>1. row'[id] = None /\ \A x \in SID : row'[x] \in {row[x], None}
  BY DEF DeleteSession, DropSession, RedisInv, RedisTypeOK
<1>2. \A x \in SID, o \in OWNER :
          row'[x] # None /\ row[x].owner = o /\ x \in own[o] => x \in own'[o]
  BY <1>1 DEF DeleteSession
<1>3. PExpire({}, 0)
  BY DEF DeleteSession
<1> QED BY <1>1, <1>2, <1>3, DeleteOwners

LEMMA DeleteSessionByOwnerOwners ==
    ASSUME RedisInv, RedisInv', OwnerInv, NEW id \in SID, NEW o \in OWNER, DeleteSessionByOwner(o, id)
    PROVE  OwnerInv'
<1>1. \A x \in SID : row'[x] \in {row[x], None}
  BY DEF DeleteSessionByOwner, DropSession, RedisInv, RedisTypeOK
<1>2. row[id] # None /\ row[id].owner = o => row'[id] = None
  BY DEF DeleteSessionByOwner, DropSession, RedisInv, RedisTypeOK
<1>3. \A p \in OWNER : own'[p] = IF p = o THEN own[p] \ {id} ELSE own[p]
  BY DEF DeleteSessionByOwner, RedisInv, RedisTypeOK
<1>4. \A x \in SID, p \in OWNER :
          row'[x] # None /\ row[x].owner = p /\ x \in own[p] => x \in own'[p]
  BY <1>1, <1>2, <1>3
<1>5. PExpire({}, 0)
  BY DEF DeleteSessionByOwner
<1> QED BY <1>1, <1>4, <1>5, DeleteOwners

LEMMA ApplySessionControlsOwners ==
    ASSUME OneFinal, RedisInv, RedisInv', ms' = ms, OwnerInv,
           NEW id \in SID, NEW k \in KEY, NEW t \in Stamps,
           NEW c \in Contract!ControlsAt(k, {0, t}), ApplySessionControls(id, c, t)
    PROVE  OwnerInv'
<1> SUFFICES ASSUME NEW x \in SID, row'[x] # None, row'[x].owner # Contract!NoOwner PROVE Covered(x)'
  BY DEF OwnerInv, Covered
<1> DEFINE s == row[id]
           access == Later(c.lastAccess, s.lastAccess)
           d == Deadline(s, access, t)
           moved == c.setOwner /\ c.owner # s.owner
           advanced == \/ c.rotate
                       \/ c.cookies # NoMutations
                       \/ c.lastAccess > s.lastAccess
                       \/ c.lastRotation > s.lastRotation
           E == IF advanced THEN SessionEntries(id, c.newKey) ELSE {}
           O == IF moved THEN {<<"own", c.owner>>} ELSE {}
<1>1. /\ s # None
      /\ PExpireBoth(E, d, O, OwnerDeadline(s))
      /\ own' = [o \in OWNER |-> IF moved /\ o = c.owner THEN own[o] \union {id}
                                 ELSE IF moved /\ o = s.owner THEN own[o] \ {id}
                                 ELSE own[o]]
  BY DEF ApplySessionControls
<1>2. /\ s \in Session /\ s.lastAccess \in Nat /\ ms \in Nat
      /\ s.owner \in OWNER \union {Contract!NoOwner}
  BY <1>1, LiveRow
<1>3. t \in Nat /\ s.final \in FINAL
  BY <1>1, <1>2, StampType DEF RedisInv, SessionInv, Stamped
<1>4. /\ c.owner \in OWNER \union {Contract!NoOwner} /\ c.lastAccess \in Nat
      /\ (c.setOwner <=> c.owner # Contract!NoOwner)
  BY <1>3, ControlsType
<1>5. d \in Int /\ d <= SEC * (s.creation + s.final)
  <2>1. access \in Nat
    BY <1>2, <1>4 DEF Later, Contract!Later
  <2> HIDE DEF access
  <2> QED BY <1>2, <1>3, <2>1, DeadlineBound
<1>6. /\ row'[x] = row[x] \/ x = id
      /\ row'[x].creation = row[x].creation /\ row'[x].final = row[x].final
      /\ x = id => row'[x].owner = IF c.setOwner THEN c.owner ELSE s.owner
  BY AppliedRows
<1>7. row[x] # None /\ Covered(x) /\ row'[x].owner \in OWNER
  BY <1>1, <1>2, <1>4, <1>6, LiveRow DEF OwnerInv
<1>8. /\ O \subseteq {"own"} \X OWNER /\ \A o \in OWNER : <<"own", o>> \notin E
      /\ x # id => <<"row", x>> \notin E
      /\ \A o \in OWNER : <<"own", o>> \in O <=> moved /\ o = c.owner
  BY <1>4 DEF SessionEntries
<1>9. x \in own'[row'[x].owner]
  <2>1. x \in own[row[x].owner] \/ row[x].owner # row'[x].owner
    BY <1>7 DEF Covered
  <2>2. CASE x = id /\ moved
    BY <1>1, <1>6, <1>7, <2>2
  <2>3. CASE x = id /\ ~moved
    BY <1>1, <1>6, <1>7, <2>1, <2>3
  <2>4. CASE x # id
    BY <1>1, <1>6, <1>7, <2>1, <2>4
  <2> QED BY <2>2, <2>3, <2>4
<1>10. until'[<<"own", row'[x].owner>>] = IF moved /\ row'[x].owner = c.owner
                                            THEN ms + SEC * s.final
                                            ELSE until[<<"own", row'[x].owner>>]
  <2>1. OwnerDeadline(s) = ms + SEC * s.final
    BY DEF OwnerDeadline
  <2> HIDE DEF E, O, d
  <2> QED BY <1>1, <1>7, <1>8, <1>9, <2>1, OwnExpiry
<1>11. CASE moved /\ row'[x].owner = c.owner
  <2>1. until'[<<"own", row'[x].owner>>] = ms + SEC * s.final
    BY <1>10, <1>11
  <2> QED BY <1>3, <1>7, <1>9, <2>1, CoveredAnew
<1>12. CASE ~(moved /\ row'[x].owner = c.owner)
  <2>1. row'[x].owner = row[x].owner
    BY <1>6, <1>12
  <2>2. until'[<<"own", row[x].owner>>] = until[<<"own", row[x].owner>>]
    BY <1>10, <1>12, <2>1
  <2>3. until'[<<"row", x>>] = IF <<"row", x>> \in E THEN d ELSE until[<<"row", x>>]
    <3> HIDE DEF E, O, d
    <3> QED BY <1>1, <1>8, RowExpiry
  <2>4. \/ until'[<<"row", x>>] = until[<<"row", x>>]
        \/ until'[<<"row", x>>] <= SEC * (row[x].creation + row[x].final)
    <3> HIDE DEF E, d
    <3> QED BY <1>5, <1>8, <2>3
  <2> QED BY <1>6, <1>7, <1>9, <2>1, <2>2, <2>4, CoveredStays
<1> QED BY <1>11, <1>12

\* The owner set of a session that is not due is not due either.
LEMMA OwnerSetNotDue ==
    ASSUME RedisInv, NEW x \in SID, Covered(x), row[x] # None, row[x].owner # Contract!NoOwner,
           ~Due(<<"row", x>>)
    PROVE  row[x].owner \in OWNER /\ x \in own[row[x].owner] /\ ~Due(<<"own", row[x].owner>>)
<1>1. row[x].owner \in OWNER /\ ms \in Nat /\ until[<<"row", x>>] \in Nat /\ until[<<"row", x>>] > ms
  BY LiveRow
<1>2. x \in own[row[x].owner] /\ until[<<"row", x>>] <= until[<<"own", row[x].owner>>]
  BY DEF Covered
<1>3. until[<<"own", row[x].owner>>] \in Nat
  BY <1>1 DEF RedisInv, RedisTypeOK, Entry
<1> QED BY <1>1, <1>2, <1>3 DEF Due

LEMMA ElapseOwners ==
    ASSUME RedisInv, RedisInv', OwnerInv, Elapse
    PROVE  OwnerInv'
<1> SUFFICES ASSUME NEW x \in SID, row'[x] # None, row'[x].owner # Contract!NoOwner PROVE Covered(x)'
  BY DEF OwnerInv, Covered
<1>1. row[x] # None /\ ~Due(<<"row", x>>) /\ row'[x] = row[x] /\ Covered(x)
  BY ElapsedEntries DEF OwnerInv
<1>2. row[x].owner \in OWNER /\ x \in own[row[x].owner] /\ ~Due(<<"own", row[x].owner>>)
  BY <1>1, OwnerSetNotDue
<1>3. own'[row[x].owner] = own[row[x].owner] /\ PExpireBoth({}, 0, {}, 0)
  BY <1>2, ElapseParts
<1>4. until'[<<"own", row[x].owner>>] = until[<<"own", row[x].owner>>]
  BY <1>2, <1>3, OwnExpiry
<1>5. until'[<<"row", x>>] = until[<<"row", x>>]
  BY <1>1, <1>3, RowExpiry
<1> QED BY <1>1, <1>2, <1>3, <1>4, <1>5, CoveredStays

LEMMA CallOwners ==
    ASSUME OneFinal, RedisInv, RedisInv', ms' = ms, OwnerInv, NEW id \in SID, Call(id)
    PROVE  OwnerInv'
<1>1. CASE row[id] = None /\ \E i \in INACTIVE, f \in FINAL, t \in Stamps :
               PutSession(id, Contract!NewRow(t, i, f, t))
  BY <1>1, PutSessionOwners
<1>2. CASE \E k \in KEY : key[k] = None /\ rev[id] = {} /\ PutKey(k, id)
  <2>1. PICK k \in KEY : PutKey(k, id)
    BY <1>2
  <2> DEFINE E == {<<"key", k>>, <<"rev", id>>}
  <2>2. /\ UNCHANGED <<row, own>> /\ PExpire(E, until[<<"row", id>>])
        /\ E \subseteq EntriesOf(id, {k}) /\ <<"row", id>> \notin E
    BY <2>1 DEF PutKey, EntriesOf
  <2> HIDE DEF E
  <2> QED BY <2>2, EntryScriptOwners
<1>3. CASE \E k \in KEY, t \in Stamps : TouchSession(id, k, t, t)
  BY <1>3, TouchSessionOwners
<1>4. CASE \E k \in KEY, t \in Stamps : key[k] = id /\ ResponseCall(id, k, t)
  <2>1. PICK k \in KEY, t \in Stamps : key[k] = id /\ ResponseCall(id, k, t)
    BY <1>4
  <2>2. PICK c \in Contract!ControlsAt(k, {0, t}) : ApplySessionControls(id, c, t)
    BY <2>1, ResponseCallParts
  <2> QED BY <2>2, ApplySessionControlsOwners
<1>5. CASE DeleteSession(id)
  BY <1>5, DeleteSessionOwners
<1>6. CASE \E o \in OWNER : DeleteSessionByOwner(o, id)
  BY <1>6, DeleteSessionByOwnerOwners
<1>7. CASE \E old, new \in KEY : ReplaceKey(old, new, id)
  <2>1. PICK old \in KEY, new \in KEY : ReplaceKey(old, new, id)
    BY <1>7
  <2> DEFINE E == {<<"key", new>>, <<"rev", id>>}
  <2>2. /\ UNCHANGED <<row, own>> /\ PExpire(E, until[<<"row", id>>])
        /\ E \subseteq EntriesOf(id, {new}) /\ <<"row", id>> \notin E
    BY <2>1 DEF ReplaceKey, EntriesOf
  <2> HIDE DEF E
  <2> QED BY <2>2, EntryScriptOwners
<1>8. CASE \E k \in KEY : key[k] = id /\ DeleteKey(k)
  <2>1. UNCHANGED <<row, own>> /\ PExpire({}, 0)
    BY <1>8 DEF DeleteKey
  <2> QED BY <2>1, DeleteOwners
<1>9. CASE \E n \in NAME : DeleteCookie(id, n)
  <2>1. UNCHANGED <<row, own>> /\ PExpire({}, 0)
    BY <1>9 DEF DeleteCookie
  <2> QED BY <2>1, DeleteOwners
<1>10. CASE \E n \in NAME, v \in VAL : PutCookie(id, n, v)
  <2> DEFINE E == {<<"attr", id>>}
  <2>1. /\ UNCHANGED <<row, own>> /\ PExpire(E, until[<<"row", id>>])
        /\ E \subseteq EntriesOf(id, {}) /\ <<"row", id>> \notin E
    BY <1>10 DEF PutCookie, EntriesOf
  <2> HIDE DEF E
  <2> QED BY <2>1, EntryScriptOwners
<1> QED BY <1>1, <1>2, <1>3, <1>4, <1>5, <1>6, <1>7, <1>8, <1>9, <1>10 DEF Call

LEMMA RedisStepOwners ==
    ASSUME OneFinal, RedisInv, RedisInv', OwnerInv, [RedisNext]_redisVars
    PROVE  OwnerInv'
<1>1. CASE UNCHANGED redisVars
  BY <1>1 DEF redisVars, OwnerInv, Covered
<1>2. CASE \E id \in SID : Call(id) /\ UNCHANGED ms
  BY <1>2, CallOwners
<1>3. CASE Elapse
  BY <1>3, ElapseOwners
<1> QED BY <1>1, <1>2, <1>3 DEF RedisNext

\* With one final timeout for all sessions, the owner set of every bound session
\* lists it and outlives it.
THEOREM RedisSpecOwners ==
    ASSUME OneFinal
    PROVE  RedisSpec => []OwnerInv
<1>1. RedisInit => OwnerInv
  BY DEF RedisInit, OwnerInv, Covered
<1>2. RedisInv /\ RedisInv' /\ OwnerInv /\ [RedisNext]_redisVars => OwnerInv'
  BY RedisStepOwners
<1> QED BY <1>1, <1>2, RedisSpecInv, PTL DEF RedisSpec

\* With one final timeout for all sessions, logout-everywhere finds every session
\* of the owner, however long ago the session was bound.
THEOREM RedisOwnerSetCovers ==
    ASSUME OneFinal
    PROVE  RedisSpec => []OwnerSetCovers
<1>1. OwnerInv => OwnerSetCovers
  BY DEF OwnerInv, Covered, OwnerSetCovers
<1> QED BY <1>1, RedisSpecOwners, PTL

-----------------------------------------------------------------------------
(* The scripts implement the calls of the contract.                        *)

\* An owner index that no script step changes.
LEMMA SameIndex ==
    ASSUME \A o \in OWNER : Indexed(o)' = Indexed(o)
    PROVE  [o \in OWNER |-> Indexed(o)]' = [o \in OWNER |-> Indexed(o)]
OBVIOUS

\* The caller's key check of the contract, in terms of the entries.
LEMMA KeyCheckOk ==
    ASSUME NEW id, NEW k, row[id] # None, key[k] = id
    PROVE  Contract!KeyCheck(id, k) = "ok"
BY DEF Contract!KeyCheck

LEMMA StampsOk ==
    ASSUME ms \in Nat
    PROVE  Stamps \subseteq Contract!Stamps
<1> SUFFICES ASSUME NEW t \in Stamps PROVE t \in Contract!Stamps
  OBVIOUS
<1>1. t \in Nat /\ t >= 1 /\ t <= Sec /\ Sec \in Nat
  BY StampType, Clock
<1> QED BY <1>1 DEF Contract!Stamps

LEMMA PutSessionCall ==
    ASSUME RedisInv, NEW id \in SID, row[id] = None,
           NEW i \in INACTIVE, NEW f \in FINAL, NEW t \in Stamps,
           PutSession(id, Contract!NewRow(t, i, f, t))
    PROVE  Contract!PutSession(id, Contract!NewRow(t, i, f, t))
<1> DEFINE s == Contract!NewRow(t, i, f, t)
<1>1. s.owner = Contract!NoOwner /\ Contract!NoOwner \notin OWNER
  BY RedisAssumption DEF Contract!NewRow, Contract!NoOwner
<1>2. row' = [row EXCEPT ![id] = s] /\ UNCHANGED <<key, attr, rev, own>>
  BY DEF PutSession
<1> HIDE DEF s
<1>3. \A o \in OWNER : Indexed(o)' = Indexed(o)
  BY <1>1, <1>2 DEF Indexed, RedisInv, RedisTypeOK
<1>4. [o \in OWNER |-> Indexed(o)]' = [o \in OWNER |-> Indexed(o)]
  BY <1>3, SameIndex
<1> QED BY <1>2, <1>4 DEF Contract!PutSession, s

LEMMA TouchSessionCall ==
    ASSUME RedisInv, NEW id \in SID, NEW k \in KEY, NEW t \in Stamps, TouchSession(id, k, t, t)
    PROVE  Contract!TouchSession(id, k, t, t)
<1>1. row[id] # None /\ key[k] = id /\ UNCHANGED <<key, attr, own>>
  BY DEF TouchSession
<1>2. Contract!TouchResult(id, k) = "ok"
  BY <1>1, KeyCheckOk DEF Contract!TouchResult
<1>3. \A x \in SID : row'[x] # None <=> row[x] # None
  BY <1>1, TouchedRows, RedisSentinels DEF Session
<1>4. \A x \in SID : row'[x].owner = row[x].owner
  BY <1>1, TouchedRows
<1>5. \A o \in OWNER : Indexed(o)' = Indexed(o)
  BY <1>1, <1>3, <1>4 DEF Indexed, RedisInv, RedisTypeOK
<1>6. [o \in OWNER |-> Indexed(o)]' = [o \in OWNER |-> Indexed(o)]
  BY <1>5, SameIndex
<1>7. row' = [row EXCEPT
           ![id].lastAccess = Contract!Later(t, @),
           ![id].lastRotation = IF @ = 0 THEN t ELSE @]
  BY DEF TouchSession, Later
<1> QED BY <1>1, <1>2, <1>6, <1>7 DEF Contract!TouchSession

LEMMA DropSessionCall ==
    ASSUME RedisInv, NEW id \in SID, DropSession(id)
    PROVE  Contract!DropRow(id)
<1>1. rev[id] = {k \in KEY : key[k] = id}
  BY DEF RedisInv, SessionInv, Linked
<1>2. key' = [k \in KEY |-> IF key[k] = id THEN None ELSE key[k]]
  BY <1>1 DEF DropSession
<1> QED BY <1>2 DEF DropSession, Contract!DropRow, NoCookies

LEMMA DeleteSessionCall ==
    ASSUME RedisInv, NEW id \in SID, DeleteSession(id)
    PROVE  Contract!DeleteSession(id)
<1>1. Contract!DropRow(id)
  BY DropSessionCall DEF DeleteSession
<1>2. row'[id] = None /\ \A x \in SID : x # id => row'[x] = row[x]
  BY DEF DeleteSession, DropSession, RedisInv, RedisTypeOK
<1>3. \A o \in OWNER : own'[o] = IF row[id] # None /\ row[id].owner = o THEN own[o] \ {id} ELSE own[o]
  BY DEF DeleteSession
<1>4. \A o \in OWNER : Indexed(o)' = IF row[id] # None /\ row[id].owner = o
                                       THEN Indexed(o) \ {id} ELSE Indexed(o)
  <2> SUFFICES ASSUME NEW o \in OWNER
               PROVE  Indexed(o)' = IF row[id] # None /\ row[id].owner = o
                                      THEN Indexed(o) \ {id} ELSE Indexed(o)
    OBVIOUS
  <2>1. own[o] \subseteq SID
    BY DEF RedisInv, RedisTypeOK
  <2>2. Indexed(o)' = Indexed(o) \ {id}
    <3>1. id \notin Indexed(o)'
      BY <1>2 DEF Indexed
    <3>2. \A x \in SID : x # id => (x \in own'[o] <=> x \in own[o])
      BY <1>3
    <3>3. Indexed(o)' = {x \in own'[o] : row'[x] # None /\ row'[x].owner = o}
      BY DEF Indexed
    <3>4. own'[o] \subseteq SID
      BY <1>3, <2>1
    <3> QED BY <1>2, <2>1, <3>1, <3>2, <3>3, <3>4 DEF Indexed
  <2>3. id \in Indexed(o) => row[id] # None /\ row[id].owner = o
    BY DEF Indexed
  <2> QED BY <2>2, <2>3
<1> QED BY <1>1, <1>4 DEF Contract!DeleteSession

LEMMA DeleteSessionByOwnerCall ==
    ASSUME RedisInv, NEW id \in SID, NEW o \in OWNER, DeleteSessionByOwner(o, id)
    PROVE  Contract!DeleteSessionByOwner(o, id)
<1>1. IF row[id] # None /\ row[id].owner = o THEN Contract!DropRow(id) ELSE UNCHANGED <<row, key, attr>>
  BY DropSessionCall DEF DeleteSessionByOwner
<1>2. /\ row'[id] = IF row[id] # None /\ row[id].owner = o THEN None ELSE row[id]
      /\ \A x \in SID : x # id => row'[x] = row[x]
  BY DEF DeleteSessionByOwner, DropSession, RedisInv, RedisTypeOK
<1>3. \A p \in OWNER : own'[p] = IF p = o THEN own[p] \ {id} ELSE own[p]
  BY DEF DeleteSessionByOwner, RedisInv, RedisTypeOK
<1>4. \A p \in OWNER : Indexed(p)' = IF p = o THEN Indexed(p) \ {id} ELSE Indexed(p)
  <2> SUFFICES ASSUME NEW p \in OWNER
               PROVE  Indexed(p)' = IF p = o THEN Indexed(p) \ {id} ELSE Indexed(p)
    OBVIOUS
  <2>1. /\ own[p] \subseteq SID
        /\ Indexed(p)' = {x \in own'[p] : row'[x] # None /\ row'[x].owner = p}
    BY DEF RedisInv, RedisTypeOK, Indexed
  <2>2. CASE p = o
    BY <1>2, <1>3, <2>1, <2>2 DEF Indexed
  <2>3. CASE p # o
    <3>1. own'[p] = own[p]
      BY <1>3, <2>3
    <3>2. ASSUME NEW x \in own[p]
          PROVE  row'[x] # None /\ row'[x].owner = p <=> row[x] # None /\ row[x].owner = p
      BY <1>2, <2>1, <2>3
    <3> QED BY <2>1, <2>3, <3>1, <3>2 DEF Indexed
  <2> QED BY <2>2, <2>3
<1>5. [p \in OWNER |-> Indexed(p)]' = [[p \in OWNER |-> Indexed(p)] EXCEPT ![o] = @ \ {id}]
  BY <1>4
<1> QED BY <1>1, <1>5 DEF Contract!DeleteSessionByOwner, Contract!DeletesByOwner

\* A script that leaves the rows and the owner sets alone leaves the index alone.
LEMMA EntryScriptIndex ==
    ASSUME UNCHANGED <<row, own>>
    PROVE  [o \in OWNER |-> Indexed(o)]' = [o \in OWNER |-> Indexed(o)]
BY DEF Indexed

LEMMA PutKeyCall ==
    ASSUME NEW id \in SID, NEW k \in KEY, PutKey(k, id)
    PROVE  Contract!PutKey(k, id)
BY EntryScriptIndex DEF PutKey, Contract!PutKey, Contract!PutKeyResult

LEMMA ReplaceKeyCall ==
    ASSUME NEW id \in SID, NEW old \in KEY, NEW new \in KEY, ReplaceKey(old, new, id)
    PROVE  Contract!ReplaceKey(old, new, id)
<1>1. Contract!ReplaceKeyResult(old, new, id) = "ok"
  BY KeyCheckOk DEF ReplaceKey, Contract!ReplaceKeyResult
<1> QED BY <1>1, EntryScriptIndex DEF ReplaceKey, Contract!ReplaceKey

LEMMA DeleteKeyCall ==
    ASSUME NEW k \in KEY, DeleteKey(k)
    PROVE  Contract!DeleteKey(k)
BY EntryScriptIndex DEF DeleteKey, Contract!DeleteKey

LEMMA PutCookieCall ==
    ASSUME NEW id \in SID, NEW n \in NAME, NEW v \in VAL, PutCookie(id, n, v)
    PROVE  Contract!PutCookie(id, n, v)
BY EntryScriptIndex DEF PutCookie, Contract!PutCookie, Contract!PutKeyResult

LEMMA DeleteCookieCall ==
    ASSUME NEW id \in SID, NEW n \in NAME, DeleteCookie(id, n)
    PROVE  Contract!DeleteCookie(id, n)
BY EntryScriptIndex DEF DeleteCookie, Contract!DeleteCookie

LEMMA ApplySessionControlsCall ==
    ASSUME RedisInv, NEW id \in SID, NEW k \in KEY, NEW t \in Stamps,
           NEW c \in Contract!ControlsAt(k, {0, t}), ApplySessionControls(id, c, t)
    PROVE  Contract!ApplySessionControls(id, c)
<1> DEFINE s == row[id]
           moved == c.setOwner /\ c.owner # s.owner
<1>1. /\ s # None /\ key[c.oldKey] = id
      /\ c.rotate => c.newKey # c.oldKey /\ key[c.newKey] = None
      /\ own' = [o \in OWNER |-> IF moved /\ o = c.owner THEN own[o] \union {id}
                                 ELSE IF moved /\ o = s.owner THEN own[o] \ {id}
                                 ELSE own[o]]
      /\ key' = IF c.rotate THEN [key EXCEPT ![c.newKey] = id, ![c.oldKey] = None] ELSE key
      /\ attr' = [attr EXCEPT ![id] = Contract!MergeCookies(@, c.cookies)]
  BY DEF ApplySessionControls
<1>2. Contract!ApplyResult(id, c) = "ok"
  BY <1>1, KeyCheckOk DEF Contract!ApplyResult
<1>3. row' = [row EXCEPT ![id] =
               [s EXCEPT !.owner = IF moved THEN c.owner ELSE @,
                         !.labels = IF c.setLabels THEN c.labels ELSE @,
                         !.lastAccess = Contract!Later(c.lastAccess, @),
                         !.lastRotation = Contract!Later(c.lastRotation, @)]]
  BY DEF ApplySessionControls, Later
<1>4. key' = Contract!SwapKeys(id, c)
  BY <1>1 DEF Contract!SwapKeys
<1>5. t \in Nat
  BY StampType DEF RedisInv, RedisTypeOK
<1>6. /\ \A x \in SID : row'[x] # None <=> row[x] # None
      /\ \A x \in SID : row'[x].owner = IF x = id /\ moved THEN c.owner ELSE row[x].owner
      /\ \A o \in OWNER : own[o] \subseteq SID
  BY <1>1, AppliedRows, RedisSentinels DEF Session, RedisInv, RedisTypeOK
<1>7. ASSUME moved
      PROVE  Contract!MoveOwner(id, c.owner)
  <2>1. c.owner \in OWNER
    BY <1>5, <1>7, ControlsType
  <2>2. ASSUME NEW o \in OWNER
        PROVE  Indexed(o)' = IF o = c.owner THEN Indexed(o) \union {id}
                             ELSE IF o = s.owner THEN Indexed(o) \ {id}
                             ELSE Indexed(o)
    <3>1. CASE o = c.owner
      BY <1>1, <1>6, <1>7, <3>1 DEF Indexed
    <3>2. CASE o # c.owner /\ o = s.owner
      BY <1>1, <1>6, <1>7, <3>2 DEF Indexed
    <3>3. CASE o # c.owner /\ o # s.owner
      BY <1>1, <1>6, <1>7, <3>3 DEF Indexed
    <3> QED BY <3>1, <3>2, <3>3
  <2> QED BY <2>2 DEF Contract!MoveOwner
<1>8. ASSUME ~moved
      PROVE  [o \in OWNER |-> Indexed(o)]' = [o \in OWNER |-> Indexed(o)]
  <2>1. \A o \in OWNER : Indexed(o)' = Indexed(o)
    BY <1>1, <1>6, <1>8 DEF Indexed
  <2> QED BY <2>1, SameIndex
<1> QED BY <1>1, <1>2, <1>3, <1>4, <1>7, <1>8 DEF Contract!ApplySessionControls

LEMMA CallImplements ==
    ASSUME RedisInv, NEW id \in SID, Call(id)
    PROVE  Contract!RowCall(id)
<1>0. Stamps \subseteq Contract!Stamps
  BY StampsOk DEF RedisInv, RedisTypeOK
<1>1. CASE row[id] = None /\ \E i \in INACTIVE, f \in FINAL, t \in Stamps :
               PutSession(id, Contract!NewRow(t, i, f, t))
  <2>1. PICK i \in INACTIVE, f \in FINAL, t \in Stamps : PutSession(id, Contract!NewRow(t, i, f, t))
    BY <1>1
  <2>2. Contract!PutSession(id, Contract!NewRow(t, i, f, t)) /\ t \in Contract!Stamps /\ t \in {0, t}
    BY <1>0, <1>1, <2>1, PutSessionCall
  <2> QED BY <1>1, <2>2 DEF Contract!RowCall
<1>2. CASE \E k \in KEY : key[k] = None /\ rev[id] = {} /\ PutKey(k, id)
  <2>1. PICK k \in KEY : key[k] = None /\ Contract!PutKey(k, id)
    BY <1>2, PutKeyCall
  <2> QED BY <2>1 DEF Contract!RowCall
<1>3. CASE \E k \in KEY, t \in Stamps : TouchSession(id, k, t, t)
  <2>1. PICK k \in KEY, t \in Contract!Stamps : Contract!TouchSession(id, k, t, t)
    BY <1>0, <1>3, TouchSessionCall
  <2>2. \E legacy \in {0, t} : Contract!TouchSession(id, k, t, legacy)
    BY <2>1
  <2> QED BY <2>2 DEF Contract!RowCall
<1>4. CASE \E k \in KEY, t \in Stamps : key[k] = id /\ ResponseCall(id, k, t)
  <2>1. PICK k \in KEY, t \in Stamps : key[k] = id /\ ResponseCall(id, k, t)
    BY <1>4
  <2>2. PICK c \in Contract!ControlsAt(k, {0, t}) : ApplySessionControls(id, c, t)
    BY <2>1, ResponseCallParts
  <2>3. Contract!ApplySessionControls(id, c) /\ t \in Contract!Stamps
    BY <1>0, <2>2, ApplySessionControlsCall
  <2>4. Contract!KeyCheck(id, k) = "ok"
    BY <2>1, KeyLive, KeyCheckOk
  <2> QED BY <2>3, <2>4 DEF Contract!RowCall
<1>5. CASE DeleteSession(id)
  <2>1. Contract!DeleteSession(id)
    BY <1>5, DeleteSessionCall
  <2> QED BY <2>1 DEF Contract!RowCall
<1>6. CASE \E o \in OWNER : DeleteSessionByOwner(o, id)
  <2>1. PICK o \in OWNER : Contract!DeleteSessionByOwner(o, id)
    BY <1>6, DeleteSessionByOwnerCall
  <2> QED BY <2>1 DEF Contract!RowCall
<1>7. CASE \E old, new \in KEY : ReplaceKey(old, new, id)
  <2>1. PICK old \in KEY, new \in KEY : Contract!ReplaceKey(old, new, id)
    BY <1>7, ReplaceKeyCall
  <2> QED BY <2>1 DEF Contract!RowCall
<1>8. CASE \E k \in KEY : key[k] = id /\ DeleteKey(k)
  <2>1. PICK k \in KEY : Contract!DeleteKey(k)
    BY <1>8, DeleteKeyCall
  <2> QED BY <2>1 DEF Contract!RowCall
<1>9. CASE \E n \in NAME : DeleteCookie(id, n)
  <2>1. PICK n \in NAME : Contract!DeleteCookie(id, n)
    BY <1>9, DeleteCookieCall
  <2> QED BY <2>1 DEF Contract!RowCall
<1>10. CASE \E n \in NAME, v \in VAL : PutCookie(id, n, v)
  <2>1. PICK n \in NAME, v \in VAL : Contract!PutCookie(id, n, v)
    BY <1>10, PutCookieCall
  <2> QED BY <2>1 DEF Contract!RowCall
<1> QED BY <1>1, <1>2, <1>3, <1>4, <1>5, <1>6, <1>7, <1>8, <1>9, <1>10 DEF Call

LEMMA SecondBefore ==
    ASSUME NEW m \in Nat, NEW n \in Nat, m < SEC * (n + 1)
    PROVE  m \div SEC <= n
<1> DEFINE a == m \div SEC
<1>1. a \in Nat /\ SEC * a <= m /\ SEC * a \in Int /\ SEC * (n + 1) \in Int
  BY SecondOfTick, RedisAssumption
<1> HIDE DEF a
<1>2. n + 1 <= a => SEC * (n + 1) <= SEC * a
  BY <1>1, ScaledOrder
<1>3. a <= n
  BY <1>1, <1>2
<1> QED BY <1>3 DEF a

LEMMA ElapseImplements ==
    ASSUME RedisInv, OwnerInv, Elapse
    PROVE  \E t \in {Sec, Sec + 1}, gone \in SUBSET SID : Contract!Elapse(t, gone)
<1> DEFINE gone == {x \in SID : row[x] # None /\ Due(<<"row", x>>)}
<1>1. ms \in Nat /\ ms' = ms + 1 /\ ms' < SEC * (MaxTime + 1) /\ ms' \in Nat
  BY ElapseParts DEF RedisInv, RedisTypeOK
<1>2. Sec \in Nat /\ Sec' \in {Sec, Sec + 1}
  BY <1>1, ClockMovesOn
<1>3. Sec' <= MaxTime
  BY <1>1, SecondBefore, RedisAssumption DEF Sec
<1>4. Sec' \in Sec .. MaxTime
  BY <1>2, <1>3, RedisAssumption
<1>5. \A id \in gone : row[id] # None /\ Contract!Expired(row[id], Sec')
  BY DueIsExpired
<1>6. ASSUME NEW x \in SID
      PROVE  /\ row'[x] = IF x \in gone THEN None ELSE row[x]
             /\ attr'[x] = IF x \in gone THEN NoCookies ELSE attr[x]
  <2>1. row[x] = None => row'[x] = None /\ attr'[x] = NoCookies /\ attr[x] = NoCookies
    BY ElapsedEntries DEF RedisInv, SessionInv, Whole
  <2> QED BY <2>1, ElapsedEntries
<1>7. ASSUME NEW k \in KEY
      PROVE  key'[k] = IF key[k] \in gone THEN None ELSE key[k]
  <2>1. key[k] \in SID \union {None} /\ key'[k] \in {key[k], None}
    BY ElapseParts DEF RedisInv, RedisTypeOK
  <2>2. CASE key[k] = None
    BY <2>1, <2>2
  <2>3. CASE key[k] \in SID
    <3>1. row[key[k]] # None
      BY <2>3, KeyLive
    <3> QED BY <2>1, <2>3, <3>1, ElapsedEntries
  <2> QED BY <2>1, <2>2, <2>3
<1>8. ASSUME NEW o \in OWNER
      PROVE  Indexed(o)' = Indexed(o) \ gone
  <2>1. own[o] \subseteq SID /\ own'[o] = IF Due(<<"own", o>>) THEN {} ELSE own[o]
    BY ElapseParts DEF RedisInv, RedisTypeOK
  <2>2. Indexed(o)' \subseteq Indexed(o) \ gone
    BY <1>6, <2>1 DEF Indexed
  <2>3. ASSUME NEW x \in Indexed(o), x \notin gone
        PROVE  x \in Indexed(o)'
    <3>1. x \in SID /\ row[x] # None /\ row[x].owner = o /\ ~Due(<<"row", x>>) /\ x \in own[o]
      BY <2>1, <2>3 DEF Indexed
    <3>2. o # Contract!NoOwner /\ Covered(x)
      BY <3>1, RedisAssumption DEF OwnerInv, Contract!NoOwner
    <3>3. ~Due(<<"own", o>>)
      BY <3>1, <3>2, OwnerSetNotDue
    <3> QED BY <1>6, <2>1, <2>3, <3>1, <3>3 DEF Indexed
  <2> QED BY <2>2, <2>3
<1>9. /\ row' = [id \in SID |-> IF id \in gone THEN None ELSE row[id]]
      /\ attr' = [id \in SID |-> IF id \in gone THEN NoCookies ELSE attr[id]]
      /\ key' = [k \in KEY |-> IF key[k] \in gone THEN None ELSE key[k]]
  BY <1>6, <1>7, ElapseParts
<1>10. [o \in OWNER |-> Indexed(o)]' = [o \in OWNER |-> [p \in OWNER |-> Indexed(p)][o] \ gone]
  BY <1>8
<1>11. gone \in SUBSET SID
  OBVIOUS
<1> HIDE DEF gone
<1>12. Contract!Elapse(Sec', gone)
  BY <1>4, <1>5, <1>9, <1>10 DEF Contract!Elapse, NoCookies
<1> QED BY <1>2, <1>11, <1>12

LEMMA StepImplements ==
    ASSUME RedisInv, OwnerInv, [RedisNext]_redisVars
    PROVE  [Contract!StoreNext]_(Contract!storeVars)
<1>1. CASE UNCHANGED redisVars
  <2>1. /\ row' = row /\ key' = key /\ attr' = attr /\ own' = own /\ Sec' = Sec
        /\ [o \in OWNER |-> Indexed(o)]' = [o \in OWNER |-> Indexed(o)]
    BY <1>1 DEF redisVars, Sec, Indexed
  <2> QED BY <2>1 DEF Contract!storeVars
<1>2. CASE \E id \in SID : Call(id) /\ UNCHANGED ms
  <2>1. PICK id \in SID : Call(id) /\ UNCHANGED ms
    BY <1>2
  <2>2. Contract!RowCall(id) /\ Sec' = Sec
    BY <2>1, CallImplements DEF Sec
  <2> QED BY <2>2 DEF Contract!StoreNext
<1>3. CASE Elapse
  <2>1. PICK t \in {Sec, Sec + 1}, gone \in SUBSET SID : Contract!Elapse(t, gone)
    BY <1>3, ElapseImplements
  <2> QED BY <2>1 DEF Contract!StoreNext
<1> QED BY <1>1, <1>2, <1>3 DEF RedisNext

LEMMA InitImplements ==
    ASSUME RedisInit
    PROVE  Contract!StoreInit
<1>1. Sec = 1
  BY RedisAssumption DEF RedisInit, Sec
<1>2. [o \in OWNER |-> Indexed(o)] = [o \in OWNER |-> {}]
  BY DEF RedisInit, Indexed
<1> QED BY <1>1, <1>2 DEF RedisInit, Contract!StoreInit, NoCookies

\* With one final timeout for all sessions, the Redis store implements the store
\* contract: each script is one call of it, and what runs out as time passes is
\* whole sessions that have expired.
THEOREM RedisImplementsContract ==
    ASSUME OneFinal
    PROVE  RedisSpec => ImplementsContract
<1>1. RedisInv /\ OwnerInv /\ [RedisNext]_redisVars => [Contract!StoreNext]_(Contract!storeVars)
  BY StepImplements
<1> QED BY <1>1, InitImplements, RedisSpecInv, RedisSpecOwners, PTL
        DEF RedisSpec, ImplementsContract, Contract!StoreSpec
=============================================================================
