------------------------------ MODULE Handlers ------------------------------
(***************************************************************************)
(* The life of the session_store handlers of one Caddy process             *)
(* (session_store.go: Provision, Validate, Cleanup), the registry they     *)
(* keep for the admin endpoint, and POST /gosestor/revoke/{owner_id}       *)
(* (admin.go) sweeping the stores behind them while configurations are     *)
(* loaded and unloaded and requests log sessions in and out.               *)
(*                                                                         *)
(* The stores of all databases are one SessionStore: session ids are 256   *)
(* random bits, so an id has one home.  Caddy is external: it provisions   *)
(* and validates the handlers of a new configuration one at a time, calls  *)
(* Cleanup on all of them when one fails, and on those of the previous     *)
(* configuration once the new one runs.  The admin endpoint serves calls   *)
(* in goroutines of their own meanwhile.                                   *)
(***************************************************************************)
EXTENDS SessionStore

CONSTANTS
    MaxHandlers,  \* bound: handler instances, numbered in the order of Provision
    DB,         \* databases: Redis address, number and key prefix
    Home,       \* SID -> the database a session is kept in
    CALL,       \* calls to the admin endpoint
    MaxFaults   \* bound: store calls that fail

ASSUME HandlersAssumption ==
    /\ Home \in [SID -> DB] /\ MaxFaults \in Nat /\ MaxHandlers \in Nat
    /\ None \notin DB \union Nat

HANDLER == 1 .. MaxHandlers

VARIABLES
    handler,   \* HANDLER -> its stage, database and Redis client
    registry,  \* revokers: the handlers the admin endpoint can reach
    loading,   \* handlers of the configuration Caddy is loading
    current,   \* handlers of the configuration that serves
    call,      \* CALL -> the state of handleRevoke
    faults     \* store calls that have failed so far

handlerVars == <<handler, registry, loading, current>>
vars == <<storeVars, handlerVars, call, faults>>

NewHandler == [stage |-> "new", db |-> None, client |-> "none"]

\* sweep is the manager RevokeOwner works on, list the ids it has still to
\* delete, todo the managers of the snapshot not visited yet; due is history:
\* the sessions bound to the owner ever since the call took its snapshot.
IdleCall == [pc |-> "idle", owner |-> NoOwner, todo |-> {}, sweep |-> None, list |-> {},
             err |-> "none", status |-> 0, due |-> {}]

OneKeyEach ==
    LET keyOf == CHOOSE f \in [SID -> KEY] : \A s, t \in SID : f[s] = f[t] => s = t
    IN  [k \in KEY |-> IF \E s \in SID : keyOf[s] = k
                         THEN CHOOSE s \in SID : keyOf[s] = k ELSE None]

\* Sessions outlive the process: requests have begun some before it started.
HandlersInit ==
    /\ sessions = [s \in SID |-> NewRow(1, 1, 1, 1)]
    /\ owners = [o \in OWNER |-> {}]
    /\ keys = OneKeyEach
    /\ cookies = [s \in SID |-> NoCookies]
    /\ locks = [s \in SID |-> None]
    /\ now = 1
    /\ handler = [h \in HANDLER |-> NewHandler]
    /\ registry = {} /\ loading = {} /\ current = {}
    /\ call = [a \in CALL |-> IdleCall]
    /\ faults = 0

-----------------------------------------------------------------------------
(* Loading and unloading.                                                  *)

registerRevoker(h) == registry' = registry \union {h}

\* Mutant: the registry is keyed by database, so a handler that leaves takes
\* its successor's entry with it.
unregisterByDB(h) == registry' = {g \in registry : handler[g].db # handler[h].db}

unregisterRevoker(h) == registry' = registry \ {h}

InStage(h, s) == handler[h].stage = s

\* Provision opens the client and registers last; an authz error returns
\* before that.
Provision(h) ==
    /\ InStage(h, "new") /\ \A g \in 1 .. h - 1 : ~InStage(g, "new")
    /\ \A g \in loading : InStage(g, "valid")
    /\ \E d \in DB, ok \in BOOLEAN :
          /\ handler' = [handler EXCEPT ![h] =
                 [stage |-> IF ok THEN "provisioned" ELSE "failed", db |-> d, client |-> "open"]]
          /\ IF ok THEN registerRevoker(h) ELSE UNCHANGED registry
    /\ loading' = loading \union {h}
    /\ UNCHANGED current

Validate(h) ==
    /\ InStage(h, "provisioned")
    /\ \E verdict \in {"valid", "failed"} : handler' = [handler EXCEPT ![h].stage = verdict]
    /\ UNCHANGED <<registry, loading, current>>

Retire(H) == [h \in HANDLER |-> IF h \in H THEN [handler[h] EXCEPT !.stage = "retired"]
                                ELSE handler[h]]

\* Caddy gives up the configuration it was loading.
Reject ==
    /\ \E h \in loading : InStage(h, "failed")
    /\ handler' = Retire(loading)
    /\ loading' = {}
    /\ UNCHANGED <<registry, current>>

\* Caddy runs the new configuration and gives up the previous one.
Activate ==
    /\ loading # {}
    /\ \A h \in loading : InStage(h, "valid")
    /\ handler' = Retire(current)
    /\ current' = loading
    /\ loading' = {}
    /\ UNCHANGED registry

\* Cleanup, first step.
CleanupUnregister(h) ==
    /\ InStage(h, "retired")
    /\ handler' = [handler EXCEPT ![h].stage = "unregistered"]
    /\ unregisterRevoker(h)
    /\ UNCHANGED <<loading, current>>

\* Mutant: the client is not closed.
CleanupLeaks(h) ==
    /\ InStage(h, "unregistered")
    /\ handler' = [handler EXCEPT ![h].stage = "closed"]
    /\ UNCHANGED <<registry, loading, current>>

\* Cleanup, second step.  Nothing uses the rest of the handler any more.
CleanupClose(h) ==
    /\ InStage(h, "unregistered")
    /\ handler' = [handler EXCEPT ![h] = [stage |-> "closed", db |-> None, client |-> "closed"]]
    /\ UNCHANGED <<registry, loading, current>>

-----------------------------------------------------------------------------
(* Requests that change who a session belongs to, through any handler that *)
(* serves or still drains.                                                 *)

Serves(h, id) == /\ h \in current \/ InStage(h, "retired")
                 /\ handler[h].db = Home[id]

\* A session that is bound again is no longer one that stayed bound.
Rebound(id) == call' = [a \in CALL |-> [call[a] EXCEPT !.due = @ \ {id}]]

Login(h, id, o) ==
    /\ Serves(h, id)
    /\ Live(id) /\ sessions[id].owner # o
    /\ \E k \in KEY :
          /\ keys[k] = id
          /\ ApplySessionControls(id, [NoControls(k) EXCEPT
                 !.setOwner = TRUE, !.owner = o, !.lastAccess = now])
    /\ Rebound(id)

Logout(h, id) ==
    /\ Serves(h, id)
    /\ Live(id)
    /\ DeleteSession(id)
    /\ Rebound(id)

-----------------------------------------------------------------------------
(* handleRevoke and, for each manager of the snapshot, RevokeOwner.        *)

Answer(a, status) == [call EXCEPT ![a].pc = "answered", ![a].status = status]

BoundTo(o) == {id \in SID : Live(id) /\ sessions[id].owner = o}

\* Another method, or an owner id that is no positive integer.
BadRequest(a) ==
    /\ call[a].pc = "idle"
    /\ \E status \in {405, 400} : call' = Answer(a, status)

\* allRevokers: the managers registered at this moment.
Revoke(a) ==
    /\ call[a].pc = "idle"
    /\ \E o \in OWNER :
          call' = IF registry = {}
                    THEN Answer(a, 503)
                    ELSE [call EXCEPT ![a].pc = "sweep", ![a].owner = o, ![a].todo = registry,
                              ![a].due = {id \in BoundTo(o) :
                                              \E h \in current : handler[h].db = Home[id]}]

FirstErr(a, e) == IF call[a].err = "none" THEN e ELSE call[a].err

Open(h) == handler[h].client = "open"

\* The next manager of the snapshot lists the owner's sessions.
SweepList(a, h) ==
    /\ call[a].pc = "sweep" /\ call[a].sweep = None
    /\ h \in call[a].todo
    /\ Open(h)
    /\ call' = [call EXCEPT ![a].todo = @ \ {h}, ![a].sweep = h,
                    ![a].list = {id \in OwnerSessions(call[a].owner) : Home[id] = handler[h].db}]

\* A call fails because the client is closed, or because the store does.
Failure(h) ==
    IF Open(h) THEN [err |-> "store", faults |-> faults + 1]
               ELSE [err |-> "closed", faults |-> faults]

CanFail(h) == Open(h) => faults < MaxFaults

SweepListFails(a, h) ==
    /\ call[a].pc = "sweep" /\ call[a].sweep = None
    /\ h \in call[a].todo
    /\ CanFail(h)
    /\ call' = [call EXCEPT ![a].todo = @ \ {h}, ![a].err = FirstErr(a, Failure(h).err)]
    /\ faults' = Failure(h).faults

SweepDelete(a, id) ==
    /\ id \in call[a].list
    /\ Open(call[a].sweep)
    /\ DeleteSessionByOwner(call[a].owner, id)
    /\ call' = [call EXCEPT ![a].list = @ \ {id}]

\* Mutant: the first failure ends the sweep of this store unreported.
SweepDeleteStops(a, id) ==
    /\ id \in call[a].list
    /\ CanFail(call[a].sweep)
    /\ call' = [call EXCEPT ![a].list = {}]
    /\ faults' = Failure(call[a].sweep).faults
    /\ UNCHANGED rowVars

\* Mutant: a failed deletion is tried again until it succeeds.
SweepDeleteRetries(a, id) ==
    /\ id \in call[a].list
    /\ CanFail(call[a].sweep)
    /\ faults' = Failure(call[a].sweep).faults
    /\ UNCHANGED <<call, rowVars>>

\* The sweep goes on after a deletion that failed; a store fault may hit the
\* reply of a deletion that took place.
SweepDeleteFails(a, id) ==
    /\ id \in call[a].list
    /\ CanFail(call[a].sweep)
    /\ call' = [call EXCEPT ![a].list = @ \ {id},
                            ![a].err = FirstErr(a, Failure(call[a].sweep).err)]
    /\ faults' = Failure(call[a].sweep).faults
    /\ \/ UNCHANGED rowVars
       \/ Open(call[a].sweep) /\ DeleteSessionByOwner(call[a].owner, id)

SweepDone(a) ==
    /\ call[a].sweep # None /\ call[a].list = {}
    /\ call' = [call EXCEPT ![a].sweep = None]

Conclude(a) ==
    /\ call[a].pc = "sweep" /\ call[a].sweep = None /\ call[a].todo = {}
    /\ call' = Answer(a, IF call[a].err = "none" THEN 204 ELSE 502)

-----------------------------------------------------------------------------

Load(h) == Provision(h) \/ Validate(h) \/ CleanupUnregister(h) \/ CleanupClose(h)

Sweep(a) ==
    \/ /\ \/ \E id \in SID : SweepDeleteFails(a, id)
          \/ (\E h \in HANDLER : SweepListFails(a, h)) /\ UNCHANGED rowVars
    \/ /\ \/ \E id \in SID : SweepDelete(a, id)
          \/ (\E h \in HANDLER : SweepList(a, h)) /\ UNCHANGED rowVars
          \/ (SweepDone(a) \/ Conclude(a)) /\ UNCHANGED rowVars
       /\ UNCHANGED faults

HandlersNext ==
    /\ \/ /\ \/ \E h \in HANDLER : Load(h)
             \/ Reject
             \/ Activate
          /\ UNCHANGED <<rowVars, call, faults>>
       \/ /\ \E h \in HANDLER, id \in SID :
                Logout(h, id) \/ \E o \in OWNER : Login(h, id, o)
          /\ UNCHANGED <<handlerVars, faults>>
       \/ /\ \E a \in CALL : BadRequest(a) \/ Revoke(a)
          /\ UNCHANGED <<rowVars, handlerVars, faults>>
       \/ /\ \E a \in CALL : Sweep(a)
          /\ UNCHANGED handlerVars
    /\ UNCHANGED <<locks, now>>

\* Caddy finishes the loads it started and runs Cleanup to its end; the
\* goroutine of an admin call runs.
HandlersFairness ==
    /\ WF_vars(Reject /\ UNCHANGED <<storeVars, call, faults>>)
    /\ \A h \in HANDLER :
          WF_vars((CleanupUnregister(h) \/ CleanupClose(h)) /\ UNCHANGED <<storeVars, call, faults>>)
    /\ \A a \in CALL : WF_vars(Sweep(a) /\ UNCHANGED <<handlerVars, locks, now>>)

HandlersSpec == HandlersInit /\ [][HandlersNext]_vars /\ HandlersFairness

-----------------------------------------------------------------------------
(* Properties.                                                             *)

\* A configuration that serves can be reached by the admin endpoint at every
\* moment of a reload: "the new handler registers before the old one
\* unregisters" (docs/code-walkthrough.md:313).  And no call that starts now
\* meets a handler whose client is closed, whatever failed while loading.
ServedIsReachable ==
    /\ current \subseteq registry
    /\ \A h \in registry : Open(h)

\* A 204 means logout everywhere: every session that was bound to the owner in
\* a store of the serving configuration when the call began, and has not been
\* bound anew since, is gone, whatever failed, logged in or was reloaded in
\* between (handleRevoke reports any store error as 502).
RevokeOwnerComplete ==
    \A a \in CALL : call[a].status = 204 => call[a].due \intersect BoundTo(call[a].owner) = {}

\* A sweep removes no session of another owner, even one it has listed and
\* that was bound to someone else before its deletion came.
SweepSparesOthers ==
    [][\A a \in CALL, id \in SID :
          call'[a].list # call[a].list /\ Live(id) /\ ~Live(id)'
              => sessions[id].owner = call[a].owner]_vars

\* A handler whose configuration was rejected or replaced always ends up out
\* of the registry with its Redis client closed ("which would otherwise leak
\* connections and goroutines on every config reload", session_store.go:422).
RetiredLeaves ==
    \A h \in HANDLER :
        InStage(h, "failed") \/ InStage(h, "retired") ~> h \notin registry /\ ~Open(h)

\* An admin call is answered although stores fail and clients close under it.
RevokeAnswered == \A a \in CALL : call[a].pc = "sweep" ~> call[a].pc = "answered"

\* "Cleanup deregisters this handler from the admin revoke registry when the
\* config is unloaded - first, so a revoke can never race a closing client"
\* (session_store.go:420): no sweep meets a closed client.
RevokeNeverMeetsClosedClient == \A a \in CALL : call[a].err # "closed"
=============================================================================
