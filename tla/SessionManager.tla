--------------------------- MODULE SessionManager ---------------------------
(***************************************************************************)
(* The decisions of internal/session/manager.go: when a session has        *)
(* expired, when its key is due for rotation, what a new session looks     *)
(* like, and which store mutation one backend response amounts to.  The    *)
(* store calls around these decisions are the steps of module Proxy.       *)
(***************************************************************************)
EXTENDS SessionStore

CONSTANTS
    Inactive,        \* inactive_timeout, seconds
    Final,           \* final_timeout, seconds
    RotateInterval,  \* rotate_interval, seconds; 0 is off
    RotateOnLogin    \* rotate_on_login

ASSUME ManagerAssumption ==
    /\ Inactive \in INACTIVE /\ Final \in FINAL
    /\ RotateInterval \in Nat /\ RotateOnLogin \in BOOLEAN

\* What the control headers and the stored Set-Cookie headers of one backend
\* response ask for, after parsing: owner 0 is an absent or invalid identity
\* header, Keep an absent labels header or a cookie the response does not name,
\* None a cookie the response deletes.
Response ==
    [owner : OWNER \union {NoOwner}, labels : (SUBSET LABEL) \union {Keep},
     rotate : BOOLEAN, revoke : BOOLEAN, cookies : [NAME -> VAL \union {None, Keep}]]

NoMutations == [n \in NAME |-> Keep]

BeginRow(t) == NewRow(t, Inactive, Final, t)

\* The rotation stamp Resolve passes to TouchSession: a session from before
\* rotate_interval existed starts its rotation clock now.
LegacyRotation(row, t) ==
    IF RotateInterval > 0 /\ row.lastRotation = 0 THEN t ELSE row.lastRotation

RotateDue(row, t) == RotateInterval > 0 /\ t - row.lastRotation >= RotateInterval

OwnerChanges(row, resp) == resp.owner # NoOwner /\ resp.owner # row.owner
LabelsChange(row, resp) == resp.labels # Keep /\ resp.labels # row.labels

\* Mutant: a change of labels keeps the key.
RotatesOnRequest(row, rewrite, resp, t) ==
    ~rewrite /\ (resp.rotate \/ RotateDue(row, t) \/ (OwnerChanges(row, resp) /\ RotateOnLogin))

\* A handle that already carries a fresh key never swaps a second time.
Rotates(row, rewrite, resp, t) ==
    /\ ~rewrite
    /\ \/ resp.rotate
       \/ RotateDue(row, t)
       \/ LabelsChange(row, resp)
       \/ OwnerChanges(row, resp) /\ RotateOnLogin

\* applyControls: the one conditional store mutation a response becomes, from
\* the row read back, the handle's key and the clock value read before the row.
Controls(row, key, rewrite, resp, t, freshKey) ==
    LET rotate == Rotates(row, rewrite, resp, t)
        mutates == \/ OwnerChanges(row, resp)
                   \/ LabelsChange(row, resp)
                   \/ resp.cookies # NoMutations
    IN  [setOwner |-> OwnerChanges(row, resp),
         owner |-> IF OwnerChanges(row, resp) THEN resp.owner ELSE NoOwner,
         setLabels |-> LabelsChange(row, resp),
         labels |-> IF LabelsChange(row, resp) THEN resp.labels ELSE {},
         lastAccess |-> IF mutates THEN t ELSE 0,
         lastRotation |-> IF rotate THEN t ELSE 0,
         rotate |-> rotate, oldKey |-> key,
         newKey |-> IF rotate THEN freshKey ELSE key,
         cookies |-> resp.cookies]

\* The response leaves the session as it is: no store call is made.
NoEffect(c) ==
    ~c.setOwner /\ ~c.setLabels /\ ~c.rotate /\ c.cookies = NoMutations
=============================================================================
