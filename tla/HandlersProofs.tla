--------------------------- MODULE HandlersProofs ---------------------------
(***************************************************************************)
(* The registry and the admin sweep, proved for any number of handlers,    *)
(* databases, sessions, owners and concurrent admin calls, and any number  *)
(* of store faults: ServedIsReachable, RevokeOwnerComplete and             *)
(* SweepSparesOthers.                                                      *)
(*                                                                         *)
(* A 204 is complete because of three facts kept together: the snapshot of *)
(* a call covers the serving configuration (LoadInv), listing a store      *)
(* finds every session bound to the owner (RowInv, the exact owner index), *)
(* and a session that is due is still to be deleted, still to be listed,   *)
(* or its deletion has failed (SweepInv).                                  *)
(***************************************************************************)
EXTENDS Handlers, SessionStoreProofs

\* Every leaf is tried with Zenon first, then with the SMT solver, then again.
USE ZenonT(4), SMTT(20), Z3T(20), ZenonT(20)

Stage == {"new", "provisioned", "valid", "failed", "retired", "unregistered", "closed"}

HandlerRecord == [stage : Stage, db : DB \union {None}, client : {"none", "open", "closed"}]

\* Whatever the loading of a configuration has come to, exactly the handlers
\* that passed Provision and have not been cleaned up are in the registry, and
\* their clients are open.
LoadInv ==
    /\ handler \in [HANDLER -> HandlerRecord]
    /\ registry \subseteq HANDLER /\ loading \subseteq HANDLER /\ current \subseteq HANDLER
    /\ loading \intersect current = {}
    /\ \A h \in HANDLER :
          /\ h \in loading => handler[h].stage \in {"provisioned", "valid", "failed"}
          /\ h \in current => handler[h].stage = "valid"
          /\ handler[h].stage \in {"provisioned", "valid"} => h \in registry
          /\ handler[h].stage \in {"new", "unregistered", "closed"} => h \notin registry
          /\ h \in registry => handler[h].client = "open"

CallRecord ==
    [pc : {"idle", "sweep", "answered"}, owner : OWNER \union {NoOwner}, todo : SUBSET HANDLER,
     sweep : HANDLER \union {None}, list : SUBSET SID, err : {"none", "store", "closed"},
     status : Nat, due : SUBSET SID]

\* The store of the session has still to be listed, or cannot be any more.
StillToList(a, id) ==
    \E h \in call[a].todo : handler[h].db = Home[id] \/ ~Open(h)

SweepInv(a) ==
    /\ call[a].pc = "sweep" => call[a].owner \in OWNER
    /\ \A h \in call[a].todo : handler[h].stage # "new"
    /\ call[a].pc # "sweep" => call[a].list = {} /\ call[a].sweep = None
    /\ call[a].sweep = None => call[a].list = {}
    /\ call[a].pc # "answered" => call[a].status = 0
    /\ call[a].pc = "sweep" => \A id \in call[a].due \intersect BoundTo(call[a].owner) :
          call[a].err # "none" \/ id \in call[a].list \/ StillToList(a, id)
    /\ call[a].status = 204 => call[a].due \intersect BoundTo(call[a].owner) = {}

CallInv == call \in [CALL -> CallRecord] /\ \A a \in CALL : SweepInv(a)

HandlersInv == RowInv /\ LoadInv /\ CallInv /\ now \in Nat

-----------------------------------------------------------------------------
(* Loading.                                                                *)

\* What a change of stage and the retirement of some handlers leave alone.
LEMMA StageChange ==
    ASSUME handler \in [HANDLER -> HandlerRecord], NEW h \in HANDLER, NEW s \in Stage,
           handler' = [handler EXCEPT ![h].stage = s]
    PROVE  /\ handler' \in [HANDLER -> HandlerRecord]
           /\ \A g \in HANDLER : /\ handler'[g].stage = IF g = h THEN s ELSE handler[g].stage
                                 /\ handler'[g].client = handler[g].client
                                 /\ handler'[g].db = handler[g].db
<1>1. handler[h] \in HandlerRecord
  OBVIOUS
<1>2. /\ handler'[h] = [handler[h] EXCEPT !.stage = s]
      /\ \A g \in HANDLER : g # h => handler'[g] = handler[g]
  OBVIOUS
<1>3. /\ handler'[h] \in HandlerRecord
      /\ handler'[h].stage = s
      /\ handler'[h].client = handler[h].client
      /\ handler'[h].db = handler[h].db
  BY <1>1, <1>2 DEF HandlerRecord
<1> QED BY <1>2, <1>3

LEMMA RetireChange ==
    ASSUME handler \in [HANDLER -> HandlerRecord], NEW H \in SUBSET HANDLER, handler' = Retire(H)
    PROVE  /\ handler' \in [HANDLER -> HandlerRecord]
           /\ \A g \in HANDLER :
                 /\ handler'[g].stage = IF g \in H THEN "retired" ELSE handler[g].stage
                 /\ handler'[g].client = handler[g].client
                 /\ handler'[g].db = handler[g].db
<1>1. \A g \in HANDLER : handler'[g] = IF g \in H THEN [handler[g] EXCEPT !.stage = "retired"]
                                                  ELSE handler[g]
  BY DEF Retire
<1>2. ASSUME NEW g \in HANDLER
      PROVE  /\ handler'[g] \in HandlerRecord
             /\ handler'[g].stage = IF g \in H THEN "retired" ELSE handler[g].stage
             /\ handler'[g].client = handler[g].client
             /\ handler'[g].db = handler[g].db
  <2>1. handler[g] \in HandlerRecord
    OBVIOUS
  <2> QED BY <1>1, <2>1 DEF HandlerRecord, Stage
<1>3. handler' \in [HANDLER -> HandlerRecord]
  BY <1>1, <1>2 DEF Retire
<1> QED BY <1>2, <1>3

LEMMA LoadInit == HandlersInit => LoadInv
BY DEF HandlersInit, LoadInv, NewHandler, HandlerRecord, Stage

LEMMA ProvisionInv ==
    ASSUME LoadInv, NEW h \in HANDLER, Provision(h)
    PROVE  LoadInv'
<1>1. PICK d \in DB, ok \in BOOLEAN :
          /\ handler' = [handler EXCEPT ![h] =
                 [stage |-> IF ok THEN "provisioned" ELSE "failed", db |-> d, client |-> "open"]]
          /\ IF ok THEN registerRevoker(h) ELSE UNCHANGED registry
  BY DEF Provision
<1>2. h \notin loading /\ h \notin current /\ h \notin registry
  BY DEF Provision, InStage, LoadInv
<1>3. /\ handler' \in [HANDLER -> HandlerRecord]
      /\ handler'[h].stage = IF ok THEN "provisioned" ELSE "failed"
      /\ handler'[h].client = "open"
      /\ \A g \in HANDLER : g # h => handler'[g] = handler[g]
  BY <1>1 DEF LoadInv, HandlerRecord, Stage
<1>4. registry' = IF ok THEN registry \union {h} ELSE registry
  BY <1>1 DEF registerRevoker
<1>5. loading' = loading \union {h} /\ current' = current
  BY DEF Provision
<1> QED BY <1>2, <1>3, <1>4, <1>5 DEF LoadInv

LEMMA ValidateInv ==
    ASSUME LoadInv, NEW h \in HANDLER, Validate(h)
    PROVE  LoadInv'
<1>1. PICK s \in {"valid", "failed"} : handler' = [handler EXCEPT ![h].stage = s]
  BY DEF Validate
<1>2. /\ handler' \in [HANDLER -> HandlerRecord]
      /\ \A g \in HANDLER : /\ handler'[g].stage = IF g = h THEN s ELSE handler[g].stage
                            /\ handler'[g].client = handler[g].client
  <2>1. handler \in [HANDLER -> HandlerRecord] /\ s \in Stage
    BY DEF LoadInv, Stage
  <2> QED BY <1>1, <2>1, StageChange
<1>3. UNCHANGED <<registry, loading, current>> /\ handler[h].stage = "provisioned"
  BY DEF Validate, InStage
<1> QED BY <1>1, <1>2, <1>3 DEF LoadInv

LEMMA RejectInv ==
    ASSUME LoadInv, Reject
    PROVE  LoadInv'
<1>1. /\ handler' \in [HANDLER -> HandlerRecord]
      /\ \A g \in HANDLER :
            /\ handler'[g].stage = IF g \in loading THEN "retired" ELSE handler[g].stage
            /\ handler'[g].client = handler[g].client
  BY RetireChange DEF LoadInv, Reject
<1>2. loading' = {} /\ UNCHANGED <<registry, current>>
  BY DEF Reject
<1> QED BY <1>1, <1>2 DEF LoadInv

LEMMA ActivateInv ==
    ASSUME LoadInv, Activate
    PROVE  LoadInv'
<1>1. /\ handler' \in [HANDLER -> HandlerRecord]
      /\ \A g \in HANDLER :
            /\ handler'[g].stage = IF g \in current THEN "retired" ELSE handler[g].stage
            /\ handler'[g].client = handler[g].client
  BY RetireChange DEF LoadInv, Activate
<1>2. loading' = {} /\ current' = loading /\ registry' = registry
  BY DEF Activate
<1>3. \A h \in loading : handler[h].stage = "valid"
  BY DEF Activate, InStage
<1> QED BY <1>1, <1>2, <1>3 DEF LoadInv

LEMMA CleanupUnregisterInv ==
    ASSUME LoadInv, NEW h \in HANDLER, CleanupUnregister(h)
    PROVE  LoadInv'
<1>1. /\ handler' \in [HANDLER -> HandlerRecord]
      /\ \A g \in HANDLER : /\ handler'[g].stage = IF g = h THEN "unregistered" ELSE handler[g].stage
                            /\ handler'[g].client = handler[g].client
  <2>1. handler \in [HANDLER -> HandlerRecord] /\ "unregistered" \in Stage
    BY DEF LoadInv, Stage
  <2>2. handler' = [handler EXCEPT ![h].stage = "unregistered"]
    BY DEF CleanupUnregister
  <2> QED BY <2>1, <2>2, StageChange
<1>2. /\ registry' = registry \ {h} /\ UNCHANGED <<loading, current>>
      /\ handler[h].stage = "retired"
  BY DEF CleanupUnregister, unregisterRevoker, InStage
<1> QED BY <1>1, <1>2 DEF LoadInv

LEMMA CleanupCloseInv ==
    ASSUME LoadInv, NEW h \in HANDLER, CleanupClose(h)
    PROVE  LoadInv'
<1>1. /\ handler' \in [HANDLER -> HandlerRecord]
      /\ handler'[h].stage = "closed"
      /\ \A g \in HANDLER : g # h => handler'[g] = handler[g]
  BY DEF LoadInv, HandlerRecord, Stage, CleanupClose
<1>2. UNCHANGED <<registry, loading, current>> /\ handler[h].stage = "unregistered"
  BY DEF CleanupClose, InStage
<1> QED BY <1>1, <1>2 DEF LoadInv

\* A step of Caddy or of Cleanup.
LoadStep ==
    \/ \E h \in HANDLER : Load(h)
    \/ Reject
    \/ Activate

LEMMA LoadStepInv ==
    ASSUME LoadInv, LoadStep
    PROVE  LoadInv'
BY ProvisionInv, ValidateInv, RejectInv, ActivateInv, CleanupUnregisterInv, CleanupCloseInv
   DEF LoadStep, Load

\* A handler that was provisioned keeps its database until its client closes.
LEMMA LoadKeepsDatabase ==
    ASSUME LoadInv, LoadStep, NEW g \in HANDLER, handler[g].stage # "new"
    PROVE  /\ handler'[g].client = "closed" \/ handler'[g].db = handler[g].db
           /\ ~Open(g) => ~Open(g)'
           /\ handler'[g].stage # "new"
<1>1. handler \in [HANDLER -> HandlerRecord] /\ loading \subseteq HANDLER /\ current \subseteq HANDLER
  BY DEF LoadInv
<1>2. CASE \E h \in HANDLER : Provision(h)
  BY <1>1, <1>2 DEF Provision, InStage, Open
<1>3. CASE \E h \in HANDLER : Validate(h)
  <2>1. PICK h \in HANDLER, s \in {"valid", "failed"} : handler' = [handler EXCEPT ![h].stage = s]
    BY <1>3 DEF Validate
  <2>2. s \in Stage
    BY DEF Stage
  <2> QED BY <1>1, <2>1, <2>2, StageChange DEF Open
<1>4. CASE Reject
  BY <1>1, <1>4, RetireChange DEF Reject, Open
<1>5. CASE Activate
  BY <1>1, <1>5, RetireChange DEF Activate, Open
<1>6. CASE \E h \in HANDLER : CleanupUnregister(h)
  <2>1. PICK h \in HANDLER : handler' = [handler EXCEPT ![h].stage = "unregistered"]
    BY <1>6 DEF CleanupUnregister
  <2>2. "unregistered" \in Stage
    BY DEF Stage
  <2> QED BY <1>1, <2>1, <2>2, StageChange DEF Open
<1>7. CASE \E h \in HANDLER : CleanupClose(h)
  BY <1>1, <1>7 DEF CleanupClose, Open
<1> QED BY <1>2, <1>3, <1>4, <1>5, <1>6, <1>7 DEF LoadStep, Load, LoadStep

-----------------------------------------------------------------------------
(* The admin sweep.                                                        *)

\* Deleting a session binds none.
LEMMA DeletesBindNothing ==
    ASSUME NEW id \in SID, NEW o, RowInv, NEW p,
           DeleteSession(id) \/ DeleteSessionByOwner(p, id)
    PROVE  BoundTo(o)' \subseteq BoundTo(o)
BY DEF DeleteSession, DeleteSessionByOwner, DropRow, BoundTo, Live, RowInv, RowTypeOK

\* A login binds one session.
LEMMA LoginBindsOne ==
    ASSUME RowInv, NEW id \in SID, NEW c, ApplySessionControls(id, c), NEW o
    PROVE  BoundTo(o)' \subseteq BoundTo(o) \union {id}
BY DEF ApplySessionControls, BoundTo, Live, RowInv, RowTypeOK

\* A call that a step leaves alone, but for sessions that are no longer due,
\* keeps its invariant if no due session is newly bound and what is still to be
\* listed remains so.
LEMMA Undisturbed ==
    ASSUME NEW a \in CALL, SweepInv(a),
           call'[a].pc = call[a].pc, call'[a].owner = call[a].owner,
           call'[a].todo = call[a].todo, call'[a].sweep = call[a].sweep,
           call'[a].list = call[a].list, call'[a].err = call[a].err,
           call'[a].status = call[a].status,
           call'[a].due \subseteq call[a].due,
           call'[a].due \intersect BoundTo(call[a].owner)' \subseteq BoundTo(call[a].owner),
           \A h \in call[a].todo : /\ handler'[h].stage # "new"
                                   /\ \A id \in SID : (handler[h].db = Home[id] \/ ~Open(h))
                                         => (handler'[h].db = Home[id] \/ ~Open(h)')
    PROVE  SweepInv(a)'
<1>1. \A id \in SID : StillToList(a, id) => StillToList(a, id)'
  BY DEF StillToList
<1>2. BoundTo(call[a].owner)' \subseteq SID
  BY DEF BoundTo
<1> QED BY <1>1, <1>2 DEF SweepInv

LEMMA LoadStepCallInv ==
    ASSUME RowInv, LoadInv, CallInv, LoadStep, UNCHANGED <<rowVars, call>>
    PROVE  CallInv'
<1>1. call' = call /\ sessions' = sessions
  BY DEF rowVars
<1>2. ASSUME NEW a \in CALL PROVE SweepInv(a)'
  <2>1. SweepInv(a) /\ call[a].todo \subseteq HANDLER
    BY DEF CallInv, CallRecord
  <2>2. \A o : BoundTo(o)' = BoundTo(o)
    BY <1>1 DEF BoundTo, Live
  <2>3. \A h \in call[a].todo : /\ handler'[h].stage # "new"
                                /\ \A id \in SID : (handler[h].db = Home[id] \/ ~Open(h))
                                      => (handler'[h].db = Home[id] \/ ~Open(h)')
    BY <2>1, LoadKeepsDatabase DEF SweepInv, Open
  <2> QED BY <1>1, <2>1, <2>2, <2>3, Undisturbed
<1> QED BY <1>1, <1>2 DEF CallInv

\* A request binds a session, which is then no longer due, or deletes it.
LEMMA RequestCallInv ==
    ASSUME RowInv, CallInv, NEW id \in SID, Rebound(id), UNCHANGED handlerVars,
           \A o : BoundTo(o)' \subseteq BoundTo(o) \union {id}
    PROVE  CallInv'
<1>1. handler' = handler
  BY DEF handlerVars
<1>2. ASSUME NEW a \in CALL PROVE SweepInv(a)' /\ call'[a] \in CallRecord
  <2>1. SweepInv(a) /\ call[a] \in CallRecord
    BY DEF CallInv
  <2>2. call'[a] = [call[a] EXCEPT !.due = @ \ {id}]
    BY DEF Rebound
  <2>3. /\ call'[a] \in CallRecord
        /\ call'[a].pc = call[a].pc /\ call'[a].owner = call[a].owner
        /\ call'[a].todo = call[a].todo /\ call'[a].sweep = call[a].sweep
        /\ call'[a].list = call[a].list /\ call'[a].err = call[a].err
        /\ call'[a].status = call[a].status /\ call'[a].due = call[a].due \ {id}
    BY <2>1, <2>2 DEF CallRecord
  <2>4. \A h : Open(h)' = Open(h)
    BY <1>1 DEF Open
  <2>5. \A h \in call[a].todo : handler[h].stage # "new"
    BY <2>1 DEF SweepInv
  <2>6. SweepInv(a)'
    BY <1>1, <2>1, <2>3, <2>4, <2>5, Undisturbed
  <2> QED BY <2>3, <2>6
<1>3. call' \in [CALL -> CallRecord]
  BY <1>2 DEF Rebound
<1> QED BY <1>2, <1>3 DEF CallInv

\* A step of one call that deletes at most some sessions leaves the others
\* undisturbed.
LEMMA OtherCalls ==
    ASSUME RowInv, CallInv, NEW a \in CALL, NEW q \in CallRecord,
           call' = [call EXCEPT ![a] = q], handler' = handler,
           \A o : BoundTo(o)' \subseteq BoundTo(o), SweepInv(a)'
    PROVE  CallInv'
<1>1. ASSUME NEW b \in CALL, b # a PROVE SweepInv(b)'
  <2>1. SweepInv(b) /\ call'[b] = call[b]
    BY <1>1 DEF CallInv
  <2>2. \A h : Open(h)' = Open(h)
    BY DEF Open
  <2>3. \A h \in call[b].todo : handler[h].stage # "new"
    BY <2>1 DEF SweepInv
  <2> QED BY <2>1, <2>2, <2>3, Undisturbed
<1>2. call' \in [CALL -> CallRecord]
  BY DEF CallInv
<1> QED BY <1>1, <1>2 DEF CallInv

\* What an answer leaves alone.
LEMMA AnswerChange ==
    ASSUME call \in [CALL -> CallRecord], NEW a \in CALL, NEW status \in Nat,
           call' = Answer(a, status)
    PROVE  \E q \in CallRecord :
              /\ call' = [call EXCEPT ![a] = q] /\ call'[a] = q
              /\ q.pc = "answered" /\ q.status = status /\ q.owner = call[a].owner
              /\ q.todo = call[a].todo /\ q.sweep = call[a].sweep /\ q.list = call[a].list
              /\ q.err = call[a].err /\ q.due = call[a].due
<1> DEFINE p == [call[a] EXCEPT !.pc = "answered"]
           q == [p EXCEPT !.status = status]
<1>1. call[a] \in CallRecord
  OBVIOUS
<1>2. /\ p \in CallRecord
      /\ p.pc = "answered" /\ p.owner = call[a].owner
      /\ p.todo = call[a].todo /\ p.sweep = call[a].sweep /\ p.list = call[a].list
      /\ p.err = call[a].err /\ p.due = call[a].due
  BY <1>1 DEF CallRecord
<1>3. call' = [call EXCEPT ![a] = q]
  BY DEF Answer
<1> HIDE DEF p
<1>4. /\ q \in CallRecord
      /\ q.status = status
      /\ q.pc = p.pc /\ q.owner = p.owner
      /\ q.todo = p.todo /\ q.sweep = p.sweep /\ q.list = p.list
      /\ q.err = p.err /\ q.due = p.due
  BY <1>2 DEF CallRecord
<1> HIDE DEF q
<1>5. call'[a] = q
  BY <1>3
<1> QED BY <1>2, <1>3, <1>4, <1>5

LEMMA BadRequestInv ==
    ASSUME RowInv, CallInv, NEW a \in CALL, BadRequest(a), UNCHANGED <<rowVars, handlerVars>>
    PROVE  CallInv'
<1>1. PICK status \in Nat : call' = Answer(a, status) /\ status # 204
  BY DEF BadRequest
<1>2. handler' = handler /\ \A o : BoundTo(o)' = BoundTo(o)
  BY DEF handlerVars, rowVars, BoundTo, Live
<1>3. call \in [CALL -> CallRecord] /\ SweepInv(a) /\ call[a].pc = "idle"
  BY DEF CallInv, BadRequest
<1>4. PICK q \in CallRecord :
          /\ call' = [call EXCEPT ![a] = q] /\ call'[a] = q
          /\ q.pc = "answered" /\ q.status = status
          /\ q.todo = call[a].todo /\ q.sweep = call[a].sweep /\ q.list = call[a].list
  BY <1>1, <1>3, AnswerChange
<1>5. SweepInv(a)'
  BY <1>1, <1>2, <1>3, <1>4 DEF SweepInv
<1> QED BY <1>2, <1>4, <1>5, OtherCalls

LEMMA RevokeInv ==
    ASSUME RowInv, LoadInv, CallInv, NEW a \in CALL, Revoke(a), UNCHANGED <<rowVars, handlerVars>>
    PROVE  CallInv'
<1>1. handler' = handler /\ sessions' = sessions /\ \A o : BoundTo(o)' = BoundTo(o)
  BY DEF handlerVars, rowVars, BoundTo, Live
<1>2. call[a] \in CallRecord /\ SweepInv(a) /\ call[a].pc = "idle"
  BY DEF CallInv, Revoke
<1>3. CASE registry = {}
  <2>1. call' = Answer(a, 503) /\ call \in [CALL -> CallRecord]
    BY <1>3 DEF Revoke, CallInv
  <2>2. PICK q \in CallRecord :
            /\ call' = [call EXCEPT ![a] = q] /\ call'[a] = q
            /\ q.pc = "answered" /\ q.status = 503
            /\ q.todo = call[a].todo /\ q.sweep = call[a].sweep /\ q.list = call[a].list
    BY <2>1, AnswerChange
  <2>3. SweepInv(a)'
    BY <1>1, <1>2, <2>2 DEF SweepInv
  <2> QED BY <1>1, <2>2, <2>3, OtherCalls
<1>4. CASE registry # {}
  <2>1. PICK o \in OWNER :
          call' = [call EXCEPT ![a].pc = "sweep", ![a].owner = o, ![a].todo = registry,
                       ![a].due = {id \in BoundTo(o) : \E h \in current : handler[h].db = Home[id]}]
    BY <1>4 DEF Revoke
  <2> DEFINE due == {id \in BoundTo(o) : \E h \in current : handler[h].db = Home[id]}
             q == [call[a] EXCEPT !.pc = "sweep", !.owner = o, !.todo = registry, !.due = due]
  <2>2. due \in SUBSET SID /\ registry \in SUBSET HANDLER
    BY DEF BoundTo, LoadInv
  <2>3. \A id \in due : \E h \in registry : handler[h].db = Home[id]
    BY DEF LoadInv
  <2>4. call' = [call EXCEPT ![a] = q] /\ call'[a] = q
    BY <1>2, <2>1 DEF CallInv
  <2> HIDE DEF due
  <2>5. /\ q \in CallRecord
        /\ q.pc = "sweep" /\ q.owner = o /\ q.todo = registry /\ q.due = due
        /\ q.sweep = call[a].sweep /\ q.list = call[a].list /\ q.status = call[a].status
    BY <1>2, <2>2 DEF CallRecord
  <2> HIDE DEF q
  <2>6. \A id \in due : StillToList(a, id)'
    BY <1>1, <2>3, <2>4, <2>5 DEF StillToList
  <2>7. \A h \in registry : handler[h].stage # "new"
    BY DEF LoadInv
  <2>8. SweepInv(a)'
    BY <1>1, <1>2, <2>4, <2>5, <2>6, <2>7 DEF SweepInv
  <2> QED BY <1>1, <2>4, <2>5, <2>8, OtherCalls
<1> QED BY <1>3, <1>4

\* Listing a store through an open client finds every session of it that is
\* bound to the owner, because the owner index is exact.
LEMMA SweepListInv ==
    ASSUME RowInv, CallInv, NEW a \in CALL, NEW h \in HANDLER, SweepList(a, h),
           UNCHANGED <<rowVars, handlerVars>>
    PROVE  CallInv'
<1>1. handler' = handler /\ \A o : BoundTo(o)' = BoundTo(o)
  BY DEF handlerVars, rowVars, BoundTo, Live
<1>2. /\ call[a] \in CallRecord /\ SweepInv(a) /\ call[a].pc = "sweep" /\ call[a].sweep = None
      /\ call[a].owner \in OWNER /\ call[a].list = {} /\ Open(h)
  BY DEF CallInv, SweepList, SweepInv
<1> DEFINE list == {id \in OwnerSessions(call[a].owner) : Home[id] = handler[h].db}
           todo == call[a].todo \ {h}
           q == [call[a] EXCEPT !.todo = todo, !.sweep = h, !.list = list]
<1>3. list \in SUBSET SID /\ todo \in SUBSET HANDLER
  BY <1>2 DEF OwnerSessions, RowInv, RowTypeOK, CallRecord
<1>4. \A id \in BoundTo(call[a].owner) : handler[h].db = Home[id] => id \in list
  BY <1>2 DEF OwnerSessions, BoundTo, RowInv, OwnerIndexExact
<1>5. call' = [call EXCEPT ![a] = q] /\ call'[a] = q
  BY <1>2 DEF CallInv, SweepList
<1>6. todo = call[a].todo \ {h}
  OBVIOUS
<1> HIDE DEF list, todo
<1>7. /\ q \in CallRecord
      /\ q.pc = "sweep" /\ q.owner = call[a].owner /\ q.todo = todo /\ q.due = call[a].due
      /\ q.sweep = h /\ q.list = list /\ q.status = call[a].status /\ q.err = call[a].err
  BY <1>2, <1>3 DEF CallRecord
<1> HIDE DEF q
<1>8. h # None
  BY HandlersAssumption DEF HANDLER
<1>9. ASSUME NEW id \in call[a].due \intersect BoundTo(call[a].owner)
      PROVE  q.err # "none" \/ id \in q.list \/ StillToList(a, id)'
  <2>1. call[a].err # "none" \/ StillToList(a, id)
    BY <1>2 DEF SweepInv
  <2>2. ASSUME NEW g \in call[a].todo, g # h, handler[g].db = Home[id] \/ ~Open(g)
        PROVE  StillToList(a, id)'
    BY <1>1, <1>5, <1>6, <1>7, <2>2 DEF StillToList, Open
  <2> QED BY <1>2, <1>4, <1>7, <2>1, <2>2 DEF StillToList
<1>10. SweepInv(a)'
  BY <1>1, <1>2, <1>5, <1>6, <1>7, <1>8, <1>9 DEF SweepInv
<1> QED BY <1>1, <1>5, <1>7, <1>10, OtherCalls

\* An error of a call that fails is recorded.
LEMMA FirstErrRecorded ==
    ASSUME NEW a \in CALL, call[a] \in CallRecord, NEW h
    PROVE  FirstErr(a, Failure(h).err) \in {"store", "closed"}
<1>1. Failure(h).err \in {"store", "closed"}
  BY DEF Failure
<1>2. call[a].err \in {"none", "store", "closed"}
  BY DEF CallRecord
<1> QED BY <1>1, <1>2 DEF FirstErr

LEMMA SweepListFailsInv ==
    ASSUME RowInv, CallInv, NEW a \in CALL, NEW h \in HANDLER, SweepListFails(a, h),
           UNCHANGED <<rowVars, handlerVars>>
    PROVE  CallInv'
<1>1. handler' = handler /\ \A o : BoundTo(o)' = BoundTo(o)
  BY DEF handlerVars, rowVars, BoundTo, Live
<1>2. call[a] \in CallRecord /\ SweepInv(a) /\ call[a].pc = "sweep" /\ call[a].sweep = None
  BY DEF CallInv, SweepListFails
<1> DEFINE err == FirstErr(a, Failure(h).err)
           todo == call[a].todo \ {h}
           q == [call[a] EXCEPT !.todo = todo, !.err = err]
<1>3. err \in {"store", "closed"} /\ todo \in SUBSET HANDLER /\ todo \subseteq call[a].todo
  BY <1>2, FirstErrRecorded DEF CallRecord
<1>4. call' = [call EXCEPT ![a] = q] /\ call'[a] = q
  BY <1>2 DEF CallInv, SweepListFails
<1> HIDE DEF err, todo
<1>5. /\ q \in CallRecord
      /\ q.pc = "sweep" /\ q.owner = call[a].owner /\ q.todo = todo
      /\ q.sweep = call[a].sweep /\ q.list = call[a].list /\ q.status = call[a].status
      /\ q.err = err
  BY <1>2, <1>3 DEF CallRecord
<1> HIDE DEF q
<1>6. SweepInv(a)'
  BY <1>1, <1>2, <1>3, <1>4, <1>5 DEF SweepInv
<1> QED BY <1>1, <1>4, <1>5, <1>6, OtherCalls

\* Deleting by owner unbinds the session from that owner.
LEMMA DeleteUnbinds ==
    ASSUME RowInv, NEW id \in SID, NEW o, DeleteSessionByOwner(o, id)
    PROVE  id \notin BoundTo(o)'
BY SentinelAssumption
   DEF DeleteSessionByOwner, DeletesByOwner, DropRow, BoundTo, Live, RowInv, RowTypeOK

LEMMA SweepDeleteInv ==
    ASSUME RowInv, CallInv, NEW a \in CALL, NEW id \in SID, SweepDelete(a, id),
           UNCHANGED handlerVars
    PROVE  CallInv'
<1>1. handler' = handler /\ \A o : BoundTo(o)' \subseteq BoundTo(o)
  BY DeletesBindNothing DEF handlerVars, SweepDelete
<1>2. /\ call[a] \in CallRecord /\ SweepInv(a) /\ call[a].pc = "sweep"
      /\ id \notin BoundTo(call[a].owner)'
  BY DeleteUnbinds DEF CallInv, SweepDelete, SweepInv
<1> DEFINE list == call[a].list \ {id}
           q == [call[a] EXCEPT !.list = list]
<1>3. list \in SUBSET SID /\ list = call[a].list \ {id}
  BY <1>2 DEF CallRecord
<1>4. call' = [call EXCEPT ![a] = q] /\ call'[a] = q
  BY <1>2 DEF CallInv, SweepDelete
<1> HIDE DEF list
<1>5. /\ q \in CallRecord
      /\ q.pc = "sweep" /\ q.owner = call[a].owner /\ q.todo = call[a].todo
      /\ q.sweep = call[a].sweep /\ q.list = list /\ q.status = call[a].status
      /\ q.err = call[a].err /\ q.due = call[a].due
  BY <1>2, <1>3 DEF CallRecord
<1> HIDE DEF q
<1>6. \A x : StillToList(a, x)' = StillToList(a, x)
  BY <1>1, <1>4, <1>5 DEF StillToList, Open
<1>7. SweepInv(a)'
  BY <1>1, <1>2, <1>3, <1>4, <1>5, <1>6 DEF SweepInv
<1> QED BY <1>1, <1>4, <1>5, <1>7, OtherCalls

LEMMA SweepDeleteFailsInv ==
    ASSUME RowInv, CallInv, NEW a \in CALL, NEW id \in SID, SweepDeleteFails(a, id),
           UNCHANGED handlerVars
    PROVE  CallInv'
<1>1. handler' = handler /\ \A o : BoundTo(o)' \subseteq BoundTo(o)
  <2>1. CASE UNCHANGED rowVars
    BY <2>1 DEF handlerVars, rowVars, BoundTo, Live
  <2>2. CASE DeleteSessionByOwner(call[a].owner, id)
    BY <2>2, DeletesBindNothing DEF handlerVars
  <2> QED BY <2>1, <2>2 DEF SweepDeleteFails
<1>2. call[a] \in CallRecord /\ SweepInv(a) /\ call[a].pc = "sweep"
  BY DEF CallInv, SweepDeleteFails, SweepInv
<1> DEFINE list == call[a].list \ {id}
           err == FirstErr(a, Failure(call[a].sweep).err)
           q == [call[a] EXCEPT !.list = list, !.err = err]
<1>3. list \in SUBSET SID /\ list \subseteq call[a].list /\ err \in {"store", "closed"}
  BY <1>2, FirstErrRecorded DEF CallRecord
<1>4. call' = [call EXCEPT ![a] = q] /\ call'[a] = q
  BY <1>2 DEF CallInv, SweepDeleteFails
<1> HIDE DEF list, err
<1>5. /\ q \in CallRecord
      /\ q.pc = "sweep" /\ q.owner = call[a].owner /\ q.todo = call[a].todo
      /\ q.sweep = call[a].sweep /\ q.list = list /\ q.status = call[a].status
      /\ q.err = err
  BY <1>2, <1>3 DEF CallRecord
<1> HIDE DEF q
<1>6. SweepInv(a)'
  BY <1>1, <1>2, <1>3, <1>4, <1>5 DEF SweepInv
<1> QED BY <1>1, <1>4, <1>5, <1>6, OtherCalls

LEMMA SweepDoneInv ==
    ASSUME RowInv, CallInv, NEW a \in CALL, SweepDone(a), UNCHANGED <<rowVars, handlerVars>>
    PROVE  CallInv'
<1>1. handler' = handler /\ \A o : BoundTo(o)' = BoundTo(o)
  BY DEF handlerVars, rowVars, BoundTo, Live
<1>2. call[a] \in CallRecord /\ SweepInv(a) /\ call[a].pc = "sweep" /\ call[a].list = {}
  BY DEF CallInv, SweepDone, SweepInv
<1> DEFINE q == [call[a] EXCEPT !.sweep = None]
<1>3. call' = [call EXCEPT ![a] = q] /\ call'[a] = q
  BY <1>2 DEF CallInv, SweepDone
<1>4. /\ q \in CallRecord
      /\ q.pc = "sweep" /\ q.owner = call[a].owner /\ q.todo = call[a].todo
      /\ q.sweep = None /\ q.list = {} /\ q.status = call[a].status
      /\ q.err = call[a].err /\ q.due = call[a].due
  BY <1>2 DEF CallRecord
<1> HIDE DEF q
<1>5. \A x : StillToList(a, x)' = StillToList(a, x)
  BY <1>1, <1>3, <1>4 DEF StillToList, Open
<1>6. SweepInv(a)'
  BY <1>1, <1>2, <1>3, <1>4, <1>5 DEF SweepInv
<1> QED BY <1>1, <1>3, <1>4, <1>6, OtherCalls

\* A sweep that ends without an error has left nothing due.
LEMMA ConcludeInv ==
    ASSUME RowInv, CallInv, NEW a \in CALL, Conclude(a), UNCHANGED <<rowVars, handlerVars>>
    PROVE  CallInv'
<1> DEFINE status == IF call[a].err = "none" THEN 204 ELSE 502
<1>1. handler' = handler /\ \A o : BoundTo(o)' = BoundTo(o)
  BY DEF handlerVars, rowVars, BoundTo, Live
<1>2. /\ call \in [CALL -> CallRecord] /\ SweepInv(a) /\ call[a].pc = "sweep"
      /\ call[a].sweep = None /\ call[a].list = {} /\ call[a].todo = {}
  BY DEF CallInv, Conclude, SweepInv
<1>3. call' = Answer(a, status) /\ status \in Nat /\ (status = 204 => call[a].err = "none")
  BY DEF Conclude
<1> HIDE DEF status
<1>4. PICK q \in CallRecord :
          /\ call' = [call EXCEPT ![a] = q] /\ call'[a] = q
          /\ q.pc = "answered" /\ q.status = status /\ q.owner = call[a].owner
          /\ q.todo = call[a].todo /\ q.sweep = call[a].sweep /\ q.list = call[a].list
          /\ q.due = call[a].due
  BY <1>2, <1>3, AnswerChange
<1>5. status = 204 => call[a].due \intersect BoundTo(call[a].owner) = {}
  BY <1>2, <1>3 DEF SweepInv, StillToList
<1>6. SweepInv(a)'
  BY <1>1, <1>2, <1>4, <1>5 DEF SweepInv
<1> QED BY <1>1, <1>4, <1>6, OtherCalls

-----------------------------------------------------------------------------
(* All together.                                                           *)

\* The rows requests have begun before the process started.
LEMMA RowInit == HandlersInit => RowInv /\ now \in Nat
<1> SUFFICES ASSUME HandlersInit PROVE RowInv /\ now \in Nat
  OBVIOUS
<1>1. NewRow(1, 1, 1, 1) \in Session /\ NewRow(1, 1, 1, 1).owner = NoOwner
  BY DEF NewRow, Session
<1> DEFINE row == NewRow(1, 1, 1, 1)
<1> HIDE DEF row
<1>2. sessions = [s \in SID |-> row] /\ row \in Session /\ row.owner = NoOwner /\ row # None
  BY <1>1, SentinelAssumption DEF HandlersInit, row
<1>3. OneKeyEach \in [KEY -> SID \union {None}]
  <2> DEFINE keyOf == CHOOSE f \in [SID -> KEY] : \A s, t \in SID : f[s] = f[t] => s = t
  <2>1. OneKeyEach = [k \in KEY |-> IF \E s \in SID : keyOf[s] = k
                                      THEN CHOOSE s \in SID : keyOf[s] = k ELSE None]
    BY DEF OneKeyEach
  <2> HIDE DEF keyOf
  <2> QED BY <2>1
<1>4. keys = OneKeyEach /\ owners = [o \in OWNER |-> {}] /\ cookies = [s \in SID |-> NoCookies]
  BY DEF HandlersInit
<1>5. RowTypeOK
  BY <1>2, <1>3, <1>4 DEF RowTypeOK, NoCookies
<1>6. NothingDangles
  BY <1>2, <1>3, <1>4 DEF NothingDangles, Live
<1>7. OwnerIndexExact
  BY <1>2, <1>4, OwnerAssumption DEF OwnerIndexExact, Live
<1> QED BY <1>5, <1>6, <1>7 DEF RowInv, HandlersInit

LEMMA CallInit == HandlersInit => CallInv
<1> SUFFICES ASSUME HandlersInit PROVE CallInv
  OBVIOUS
<1>1. /\ IdleCall \in CallRecord
      /\ IdleCall.pc = "idle" /\ IdleCall.todo = {} /\ IdleCall.list = {}
      /\ IdleCall.sweep = None /\ IdleCall.status = 0
  BY DEF IdleCall, CallRecord
<1>2. call = [a \in CALL |-> IdleCall]
  BY DEF HandlersInit
<1> QED BY <1>1, <1>2 DEF CallInv, SweepInv

LEMMA HandlersInitInv == HandlersInit => HandlersInv
BY RowInit, LoadInit, CallInit DEF HandlersInv

\* A login binds the session through a legal control record.
LEMMA LoginInv ==
    ASSUME HandlersInv, NEW h \in HANDLER, NEW id \in SID, NEW o \in OWNER, Login(h, id, o),
           UNCHANGED handlerVars
    PROVE  RowInv' /\ CallInv'
<1> DEFINE c(k) == [NoControls(k) EXCEPT !.setOwner = TRUE, !.owner = o, !.lastAccess = now]
<1>1. PICK k \in KEY : ApplySessionControls(id, c(k))
  BY DEF Login
<1>2. c(k) \in ControlsAt(k, Nat)
  BY OwnerAssumption DEF NoControls, ControlsAt, HandlersInv
<1> HIDE DEF c
<1>3. RowInv'
  BY <1>1, <1>2, ApplySessionControlsInv DEF HandlersInv
<1>4. \A p : BoundTo(p)' \subseteq BoundTo(p) \union {id}
  BY <1>1, LoginBindsOne DEF HandlersInv
<1>5. CallInv'
  BY <1>4, RequestCallInv DEF HandlersInv, Login
<1> QED BY <1>3, <1>5

LEMMA LogoutInv ==
    ASSUME HandlersInv, NEW h \in HANDLER, NEW id \in SID, Logout(h, id), UNCHANGED handlerVars
    PROVE  RowInv' /\ CallInv'
<1>1. RowInv'
  BY DeleteSessionInv DEF HandlersInv, Logout
<1>2. \A p : BoundTo(p)' \subseteq BoundTo(p) \union {id}
  BY DeletesBindNothing DEF HandlersInv, Logout
<1>3. CallInv'
  BY <1>2, RequestCallInv DEF HandlersInv, Logout
<1> QED BY <1>1, <1>3

LEMMA RowsUnchanged == RowInv /\ UNCHANGED rowVars => RowInv'
BY DEF RowInv, RowTypeOK, NothingDangles, OwnerIndexExact, Live, rowVars

LEMMA LoadUnchanged == LoadInv /\ UNCHANGED handlerVars => LoadInv'
BY DEF LoadInv, handlerVars

\* An id on the list of a call is there for a known owner.
LEMMA ListedForOwner ==
    ASSUME CallInv, NEW a \in CALL, NEW id \in call[a].list
    PROVE  call[a].owner \in OWNER
BY DEF CallInv, SweepInv

LEMMA SweepStepInv ==
    ASSUME HandlersInv, NEW a \in CALL, Sweep(a), UNCHANGED handlerVars
    PROVE  RowInv' /\ CallInv'
<1>1. CASE \E id \in SID : SweepDelete(a, id)
  BY <1>1, SweepDeleteInv, DeleteSessionByOwnerInv, ListedForOwner DEF HandlersInv, SweepDelete
<1>2. CASE \E id \in SID : SweepDeleteFails(a, id)
  <2>1. PICK id \in SID : SweepDeleteFails(a, id)
    BY <1>2
  <2>2. RowInv'
    BY <2>1, DeleteSessionByOwnerInv, ListedForOwner, RowsUnchanged DEF HandlersInv, SweepDeleteFails
  <2> QED BY <2>1, <2>2, SweepDeleteFailsInv DEF HandlersInv
<1>3. CASE UNCHANGED rowVars /\ \E h \in HANDLER : SweepList(a, h) \/ SweepListFails(a, h)
  BY <1>3, RowsUnchanged, SweepListInv, SweepListFailsInv DEF HandlersInv
<1>4. CASE UNCHANGED rowVars /\ (SweepDone(a) \/ Conclude(a))
  BY <1>4, RowsUnchanged, SweepDoneInv, ConcludeInv DEF HandlersInv
<1> QED BY <1>1, <1>2, <1>3, <1>4 DEF Sweep

LEMMA HandlersNextInv == HandlersInv /\ [HandlersNext]_vars => HandlersInv'
<1> SUFFICES ASSUME HandlersInv, [HandlersNext]_vars PROVE HandlersInv'
  OBVIOUS
<1>1. now' \in Nat
  BY DEF HandlersInv, HandlersNext, vars, storeVars
<1>2. CASE LoadStep /\ UNCHANGED <<rowVars, call>>
  BY <1>1, <1>2, RowsUnchanged, LoadStepInv, LoadStepCallInv DEF HandlersInv
<1>3. CASE /\ \E h \in HANDLER, id \in SID : Logout(h, id) \/ \E o \in OWNER : Login(h, id, o)
           /\ UNCHANGED handlerVars
  <2>1. RowInv' /\ CallInv'
    BY <1>3, LogoutInv, LoginInv
  <2> QED BY <1>1, <1>3, <2>1, LoadUnchanged DEF HandlersInv
<1>4. CASE (\E a \in CALL : BadRequest(a) \/ Revoke(a)) /\ UNCHANGED <<rowVars, handlerVars>>
  <2>1. CallInv'
    BY <1>4, BadRequestInv, RevokeInv DEF HandlersInv
  <2> QED BY <1>1, <1>4, <2>1, RowsUnchanged, LoadUnchanged DEF HandlersInv
<1>5. CASE (\E a \in CALL : Sweep(a)) /\ UNCHANGED handlerVars
  <2>1. RowInv' /\ CallInv'
    BY <1>5, SweepStepInv
  <2> QED BY <1>1, <1>5, <2>1, LoadUnchanged DEF HandlersInv
<1>6. CASE UNCHANGED vars
  <2>1. UNCHANGED rowVars /\ UNCHANGED handlerVars /\ call' = call /\ handler' = handler
        /\ sessions' = sessions
    BY <1>6 DEF vars, storeVars, rowVars, handlerVars
  <2>2. CallInv'
    BY <2>1 DEF HandlersInv, CallInv, SweepInv, StillToList, Open, BoundTo, Live
  <2> QED BY <1>1, <2>1, <2>2, RowsUnchanged, LoadUnchanged DEF HandlersInv
<1> QED BY <1>2, <1>3, <1>4, <1>5, <1>6 DEF HandlersNext, LoadStep

LEMMA HandlersInvariant == HandlersSpec => []HandlersInv
BY HandlersInitInv, HandlersNextInv, PTL DEF HandlersSpec

\* Whatever is loaded, rejected, activated or cleaned up, the handlers that
\* serve are registered and no registered handler has closed its client.
THEOREM HandlersServedIsReachable == HandlersSpec => []ServedIsReachable
<1>1. HandlersInv => ServedIsReachable
  BY DEF HandlersInv, LoadInv, ServedIsReachable, Open
<1> QED BY <1>1, HandlersInvariant, PTL

\* A 204 of the admin endpoint means that no session that stayed bound to the
\* owner since the call began is left in a store that served then.
THEOREM HandlersRevokeOwnerComplete == HandlersSpec => []RevokeOwnerComplete
<1>1. HandlersInv => RevokeOwnerComplete
  BY DEF HandlersInv, CallInv, SweepInv, RevokeOwnerComplete
<1> QED BY <1>1, HandlersInvariant, PTL

SweepSparesStep ==
    \A a \in CALL, id \in SID :
        call'[a].list # call[a].list /\ Live(id) /\ ~Live(id)' => sessions[id].owner = call[a].owner

\* A sweep removes no session of another owner, not even one it has listed.
THEOREM HandlersSweepSparesOthers == HandlersSpec => SweepSparesOthers
<1>1. HandlersInv /\ [HandlersNext]_vars => [SweepSparesStep]_vars
  <2> SUFFICES ASSUME HandlersInv, HandlersNext, NEW a \in CALL, NEW id \in SID,
                      call'[a].list # call[a].list, Live(id), ~Live(id)'
               PROVE  sessions[id].owner = call[a].owner
    BY DEF SweepSparesStep
  <2>1. call \in [CALL -> CallRecord] /\ sessions \in [SID -> Session \union {None}]
    BY DEF HandlersInv, CallInv, RowInv, RowTypeOK
  <2>2. ~UNCHANGED rowVars
    BY DEF rowVars, Live
  <2>3. \A x \in SID : ~Rebound(x)
    <3> SUFFICES ASSUME NEW x \in SID, Rebound(x) PROVE FALSE
      OBVIOUS
    <3>1. call'[a] = [call[a] EXCEPT !.due = @ \ {x}] /\ call[a] \in CallRecord
      BY <2>1 DEF Rebound
    <3> QED BY <3>1 DEF CallRecord
  <2>4. PICK b \in CALL, x \in SID :
            /\ DeleteSessionByOwner(call[b].owner, x)
            /\ SweepDelete(b, x) \/ SweepDeleteFails(b, x)
    BY <2>2, <2>3 DEF HandlersNext, Sweep, Login, Logout, SweepDelete, SweepDeleteFails
  <2>5. a = b
    BY <2>1, <2>4 DEF SweepDelete, SweepDeleteFails
  <2> QED BY <2>1, <2>4, <2>5 DEF DeleteSessionByOwner, DeletesByOwner, DropRow, Live
<1> QED BY <1>1, HandlersInvariant, PTL DEF HandlersSpec, SweepSparesOthers, SweepSparesStep
=============================================================================
