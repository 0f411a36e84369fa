---------------------------- MODULE SessionStore ----------------------------
(***************************************************************************)
(* The persistence contract of gosestor (internal/store/store.go), as the  *)
(* mutex-atomic store of internal/store/memory.go implements it.  Every    *)
(* method of the Store interface that changes state is one action here; a  *)
(* method that can refuse has a ...Result operator naming the error it     *)
(* returns, and its action is the refusal-free case.  A refused call       *)
(* changes nothing, so it is not a step of this module; the modules that   *)
(* call the store take the result operators into account.                  *)
(*                                                                         *)
(* Abstractions.  A cookie entry stands for the value and its hash, which  *)
(* the code always writes and deletes together.  A label set is a set, the *)
(* normal form normalizeLabels computes.  The time to live arguments are   *)
(* replaced by Elapse: an implementation may drop a session with its whole *)
(* cascade at any moment after its logical deadline, never before.         *)
(***************************************************************************)
EXTENDS Integers

CONSTANTS
    SID,       \* session ids (SESSION_ID)
    KEY,       \* client keys (KEY_ID)
    NAME,      \* names of cached backend cookies
    VAL,       \* values of cached backend cookies
    OWNER,     \* owner ids; 0 is the anonymous sentinel
    LABEL,     \* authorization labels
    HOLDER,    \* lock tokens, one per caller of Lock
    INACTIVE,  \* inactive timeouts in use, in seconds
    FINAL,     \* final timeouts in use, in seconds
    MaxTime,   \* bound: the clock stops here
    None,      \* an absent row, key, cookie or lock
    Keep       \* a cookie the call leaves alone

NoOwner == 0

Session == [creation : Nat, lastAccess : Nat, inactive : Nat, final : Nat,
            owner : OWNER \union {NoOwner}, lastRotation : Nat,
            labels : SUBSET LABEL]

\* SessionControls (store.go): what the response to a request with key k
\* changes, with time stamps from T.  Only a positive owner is ever bound, and
\* a call that does not rotate has no rotation stamp and names no new key.
ControlsAt(k, T) ==
    {c \in [setOwner : BOOLEAN, owner : OWNER \union {NoOwner},
            setLabels : BOOLEAN, labels : SUBSET LABEL,
            lastAccess : T, lastRotation : T,
            rotate : BOOLEAN, oldKey : {k}, newKey : KEY,
            cookies : [NAME -> VAL \union {None, Keep}]] :
        /\ c.setOwner <=> c.owner # NoOwner
        /\ ~c.setLabels => c.labels = {}
        /\ c.rotate <=> c.lastRotation # 0
        /\ ~c.rotate => c.newKey = c.oldKey}

ASSUME OwnerAssumption == OWNER \subseteq Nat \ {NoOwner}
ASSUME TimeoutAssumption == INACTIVE \subseteq Nat /\ FINAL \subseteq Nat /\ MaxTime \in Nat
ASSUME SentinelAssumption ==
    /\ None \notin SID \union VAL \union HOLDER \union {Keep}
    /\ None \notin Session
    /\ Keep \notin VAL

VARIABLES
    sessions,  \* SID -> the session row, or None
    keys,      \* KEY -> the session the key maps to, or None
    cookies,   \* SID -> NAME -> the cached cookie, or None
    owners,    \* OWNER -> the owner index: session ids bound to the owner
    locks,     \* SID -> the holder of the advisory lock, or None
    now        \* the clock, in seconds (0 is the zero value of a time stamp)

rowVars == <<sessions, keys, cookies, owners>>
storeVars == <<sessions, keys, cookies, owners, locks, now>>

NoCookies == [n \in NAME |-> None]

StoreInit ==
    /\ sessions = [s \in SID |-> None]
    /\ keys = [k \in KEY |-> None]
    /\ cookies = [s \in SID |-> NoCookies]
    /\ owners = [o \in OWNER |-> {}]
    /\ locks = [s \in SID |-> None]
    /\ now = 1

\* Mutant: the last writer wins.
LaterIsLatest(a, b) == a

Later(a, b) == IF a > b THEN a ELSE b

-----------------------------------------------------------------------------
(* Session rows.                                                           *)

PutSession(id, row) ==
    /\ sessions' = [sessions EXCEPT ![id] = row]
    /\ UNCHANGED <<keys, cookies, owners>>

\* Mutant: the caller's key is not compared.
KeyCheckByRow(id, k) == IF sessions[id] = None THEN "notfound" ELSE "ok"

\* The checks TouchSession and ApplySessionControls share: the row must exist
\* and the caller's key must still map to it.
KeyCheck(id, k) ==
    CASE sessions[id] = None -> "notfound"
      [] sessions[id] # None /\ keys[k] # id -> "conflict"
      [] OTHER -> "ok"

TouchResult(id, k) == KeyCheck(id, k)

TouchSession(id, k, lastAccess, legacyRotation) ==
    /\ TouchResult(id, k) = "ok"
    /\ sessions' = [sessions EXCEPT
           ![id].lastAccess = Later(lastAccess, @),
           ![id].lastRotation = IF @ = 0 THEN legacyRotation ELSE @]
    /\ UNCHANGED <<keys, cookies, owners>>

ApplyResult(id, c) ==
    IF KeyCheck(id, c.oldKey) = "ok" /\ c.rotate /\ keys[c.newKey] # None
      THEN "conflict"
      ELSE KeyCheck(id, c.oldKey)

\* Mutant: the entry under the previous owner stays.
MoveOwnerAddsOnly(id, to) == owners' = [owners EXCEPT ![to] = @ \union {id}]

\* The owner of the row and its entry in the index move together.
MoveOwner(id, to) ==
    owners' = [o \in OWNER |-> IF o = to THEN owners[o] \union {id}
                               ELSE IF o = sessions[id].owner THEN owners[o] \ {id}
                               ELSE owners[o]]

\* Mutant: the old key keeps working.
SwapKeysKeepingOld(id, c) == IF c.rotate THEN [keys EXCEPT ![c.newKey] = id] ELSE keys

SwapKeys(id, c) ==
    IF c.rotate THEN [keys EXCEPT ![c.newKey] = id, ![c.oldKey] = None] ELSE keys

\* Mutant: the cookies a response does not name are overwritten too.
MergeCookiesBlindly(old, mutations) == mutations

MergeCookies(old, mutations) ==
    [n \in NAME |-> IF mutations[n] = Keep THEN old[n] ELSE mutations[n]]

ApplySessionControls(id, c) ==
    LET s == sessions[id]
        moved == c.setOwner /\ c.owner # s.owner
    IN  /\ ApplyResult(id, c) = "ok"
        /\ sessions' = [sessions EXCEPT ![id] =
               [s EXCEPT !.owner = IF moved THEN c.owner ELSE @,
                         !.labels = IF c.setLabels THEN c.labels ELSE @,
                         !.lastAccess = Later(c.lastAccess, @),
                         !.lastRotation = Later(c.lastRotation, @)]]
        /\ IF moved THEN MoveOwner(id, c.owner) ELSE UNCHANGED owners
        /\ keys' = SwapKeys(id, c)
        /\ cookies' = [cookies EXCEPT ![id] = MergeCookies(@, c.cookies)]

NoControls(k) ==
    [setOwner |-> FALSE, owner |-> NoOwner, setLabels |-> FALSE, labels |-> {},
     lastAccess |-> 0, lastRotation |-> 0, rotate |-> FALSE, oldKey |-> k, newKey |-> k,
     cookies |-> [n \in NAME |-> Keep]]

RotateControls(old, new, lastRotation) ==
    [NoControls(old) EXCEPT !.newKey = new, !.rotate = TRUE, !.lastRotation = lastRotation]

RotateSessionKey(id, old, new, lastRotation) ==
    ApplySessionControls(id, RotateControls(old, new, lastRotation))

\* Mutant: the keys of the session are left behind.
DropRowOnly(id) ==
    /\ sessions' = [sessions EXCEPT ![id] = None]
    /\ cookies' = [cookies EXCEPT ![id] = NoCookies]
    /\ UNCHANGED keys

\* What a delete removes beside the owner index: the row, the cookies and
\* every key that maps to the session.
DropRow(id) ==
    /\ sessions' = [sessions EXCEPT ![id] = None]
    /\ cookies' = [cookies EXCEPT ![id] = NoCookies]
    /\ keys' = [k \in KEY |-> IF keys[k] = id THEN None ELSE keys[k]]

\* Mutant: the owner index is not cleaned.
DeleteSessionRowOnly(id) == DropRow(id) /\ UNCHANGED owners

DeleteSession(id) ==
    /\ DropRow(id)
    /\ owners' = [o \in OWNER |-> IF sessions[id] # None /\ sessions[id].owner = o
                                    THEN owners[o] \ {id} ELSE owners[o]]

-----------------------------------------------------------------------------
(* Keys and cookies.                                                       *)

\* Mutant: a key may be put for a session that is gone.
PutKeyUnconditional(id) == "ok"

PutKeyResult(id) == IF sessions[id] = None THEN "notfound" ELSE "ok"

PutKey(k, id) ==
    /\ PutKeyResult(id) = "ok"
    /\ keys' = [keys EXCEPT ![k] = id]
    /\ UNCHANGED <<sessions, cookies, owners>>

ReplaceKeyResult(old, new, id) ==
    IF KeyCheck(id, old) = "ok" /\ keys[new] # None THEN "conflict" ELSE KeyCheck(id, old)

ReplaceKey(old, new, id) ==
    /\ ReplaceKeyResult(old, new, id) = "ok"
    /\ keys' = [keys EXCEPT ![new] = id, ![old] = None]
    /\ UNCHANGED <<sessions, cookies, owners>>

DeleteKey(k) ==
    /\ keys' = [keys EXCEPT ![k] = None]
    /\ UNCHANGED <<sessions, cookies, owners>>

PutCookie(id, n, v) ==
    /\ PutKeyResult(id) = "ok"
    /\ cookies' = [cookies EXCEPT ![id][n] = v]
    /\ UNCHANGED <<sessions, keys, owners>>

DeleteCookie(id, n) ==
    /\ cookies' = [cookies EXCEPT ![id][n] = None]
    /\ UNCHANGED <<sessions, keys, owners>>

-----------------------------------------------------------------------------
(* The owner index.                                                        *)

OwnerSessions(o) == owners[o]

ReassignOwner(id, o, lastAccess, lastRotation) ==
    /\ PutKeyResult(id) = "ok"
    /\ MoveOwner(id, o)
    /\ sessions' = [sessions EXCEPT
           ![id].owner = o,
           ![id].lastAccess = Later(lastAccess, @),
           ![id].lastRotation = Later(lastRotation, @)]
    /\ UNCHANGED <<keys, cookies>>

\* Mutant: whoever the session belongs to by now.
DeletesAnyOwner(o, id) == sessions[id] # None

DeletesByOwner(o, id) == sessions[id] # None /\ sessions[id].owner = o

DeleteSessionByOwner(o, id) ==
    /\ owners' = [owners EXCEPT ![o] = @ \ {id}]
    /\ IF DeletesByOwner(o, id) THEN DropRow(id) ELSE UNCHANGED <<sessions, keys, cookies>>

-----------------------------------------------------------------------------
(* The advisory lock.  Its time to live may lapse while the holder is      *)
(* still at work; the release compares the token first.                    *)

LockFree(id) == locks[id] = None

Lock(id, h) ==
    /\ LockFree(id)
    /\ locks' = [locks EXCEPT ![id] = h]

\* Mutant: the release does not compare the token.
UnlockAny(id, h) == locks' = [locks EXCEPT ![id] = None]

Unlock(id, h) == locks' = [locks EXCEPT ![id] = IF @ = h THEN None ELSE @]

LockLapse(id) ==
    /\ ~LockFree(id)
    /\ locks' = [locks EXCEPT ![id] = None]

-----------------------------------------------------------------------------
(* Time.                                                                   *)

Expired(row, t) == t - row.lastAccess >= row.inactive \/ t >= row.creation + row.final

\* The clock moves to t and the time to live of the sessions in gone has run
\* out: their rows, keys and cookies disappear together.
Elapse(t, gone) ==
    /\ t \in now .. MaxTime
    /\ \A id \in gone : sessions[id] # None /\ Expired(sessions[id], t)
    /\ now' = t
    /\ sessions' = [id \in SID |-> IF id \in gone THEN None ELSE sessions[id]]
    /\ keys' = [k \in KEY |-> IF keys[k] \in gone THEN None ELSE keys[k]]
    /\ cookies' = [id \in SID |-> IF id \in gone THEN NoCookies ELSE cookies[id]]
    /\ owners' = [o \in OWNER |-> owners[o] \ gone]

-----------------------------------------------------------------------------
(* The store under arbitrary calls.  Two disciplines of the only caller,   *)
(* the session manager, are kept: PutSession creates an anonymous row      *)
(* under an id not in use, and PutKey adds a key not in use (Begin draws   *)
(* both at random, 256 bits each).                                         *)

\* A row as Begin writes it; rows from before rotate_interval existed have
\* no rotation stamp (lastRotation = 0).
NewRow(t, inactive, final, rotation) ==
    [creation |-> t, lastAccess |-> t, inactive |-> inactive, final |-> final,
     owner |-> NoOwner, lastRotation |-> rotation, labels |-> {}]

\* A time stamp a caller can hold: read from the clock now or earlier.
Stamps == 1 .. now

RowCall(id) ==
    \/ /\ sessions[id] = None
       /\ \E i \in INACTIVE, f \in FINAL, t \in Stamps :
              \E rotation \in {0, t} : PutSession(id, NewRow(t, i, f, rotation))
    \/ \E k \in KEY, t \in Stamps : \E legacy \in {0, t} : TouchSession(id, k, t, legacy)
    \/ \E k \in KEY, t \in Stamps :
          /\ KeyCheck(id, k) = "ok"
          /\ \E c \in ControlsAt(k, {0, t}) : ApplySessionControls(id, c)
    \/ \E old, new \in KEY, t \in Stamps : RotateSessionKey(id, old, new, t)
    \/ DeleteSession(id)
    \/ \E k \in KEY : keys[k] = None /\ PutKey(k, id)
    \/ \E old, new \in KEY : ReplaceKey(old, new, id)
    \/ \E k \in KEY : DeleteKey(k)
    \/ \E n \in NAME, v \in VAL : PutCookie(id, n, v)
    \/ \E n \in NAME : DeleteCookie(id, n)
    \/ \E o \in OWNER, t \in Stamps : ReassignOwner(id, o, t, t)
    \/ \E o \in OWNER : DeleteSessionByOwner(o, id)

LockCall(id) ==
    \/ \E h \in HOLDER : Lock(id, h) \/ Unlock(id, h)
    \/ LockLapse(id)

StoreNext ==
    \/ \E id \in SID : RowCall(id) /\ UNCHANGED <<locks, now>>
    \/ \E id \in SID : LockCall(id) /\ UNCHANGED <<rowVars, now>>
    \/ \E t \in {now, now + 1}, gone \in SUBSET SID : Elapse(t, gone) /\ UNCHANGED locks

StoreSpec == StoreInit /\ [][StoreNext]_storeVars

-----------------------------------------------------------------------------
(* Properties.                                                             *)

\* The type of the store's state.
StoreTypeOK ==
    /\ sessions \in [SID -> Session \union {None}]
    /\ keys \in [KEY -> SID \union {None}]
    /\ cookies \in [SID -> [NAME -> VAL \union {None}]]
    /\ owners \in [OWNER -> SUBSET SID]
    /\ locks \in [SID -> HOLDER \union {None}]
    /\ now \in Nat

Live(id) == sessions[id] # None

\* Whatever order the calls come in, nothing of a deleted session is left
\* behind or put back by a late call: no key maps to it, no cookie of it is
\* cached ("Conditional mutations return ErrNotFound rather than recreating a
\* session that a concurrent logout already revoked", store.go:59).
NothingDangles ==
    /\ \A k \in KEY : keys[k] # None => Live(keys[k])
    /\ \A id \in SID : ~Live(id) => cookies[id] = NoCookies

\* The owner index is exact: a session is listed under an owner if and only if
\* it is alive and bound to that owner, so logout-everywhere walks all of the
\* owner's sessions and no one else's.
OwnerIndexExact ==
    \A o \in OWNER, id \in SID : id \in owners[o] <=> Live(id) /\ sessions[id].owner = o

RowAdvances(id) ==
    Live(id) /\ Live(id)' =>
        /\ sessions'[id].creation = sessions[id].creation
        /\ sessions'[id].inactive = sessions[id].inactive
        /\ sessions'[id].final = sessions[id].final
        /\ sessions'[id].lastAccess >= sessions[id].lastAccess
        /\ sessions'[id].lastRotation >= sessions[id].lastRotation

\* While a session lives its creation time and its timeouts never change, and
\* no late or reordered call moves its access or rotation time back.
RowMonotone == [][\A id \in SID : RowAdvances(id)]_storeVars

=============================================================================
