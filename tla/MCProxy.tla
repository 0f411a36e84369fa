------------------------------ MODULE MCProxy -------------------------------
(* Instances of Proxy for model checking. *)
EXTENDS Proxy, TLC

CONSTANT v1

Nothing ==
    [owner |-> NoOwner, labels |-> Keep, rotate |-> FALSE, revoke |-> FALSE,
     cookies |-> NoMutations]

LoginResponse == [Nothing EXCEPT !.owner = 1, !.labels = LABEL]
CookieResponse == [Nothing EXCEPT !.cookies = [n \in NAME |-> v1]]
RotateResponse == [Nothing EXCEPT !.rotate = TRUE]
DemoteResponse == [Nothing EXCEPT !.labels = {}]
LogoutResponse == [Nothing EXCEPT !.revoke = TRUE]

\* A login, a demotion (without effect on a session without labels), a cookie
\* to store, a logout; keys are swapped by the first two and by the interval.
AllResponses == {LoginResponse, CookieResponse, DemoteResponse, LogoutResponse}

\* Responses that create, change or swap something; no logout.
RotationResponses == {CookieResponse, RotateResponse}

LockResponses == {LoginResponse, RotateResponse, LogoutResponse}

RequestSymmetry == Permutations(REQ)
=============================================================================
