# gosestor: TLA+ model

gosestor is a Caddy handler that keeps backend cookies on the server side. The
browser holds one opaque proxy cookie (a *key*) that leads to a *session row*;
the backend steers the session with response headers: bind an owner, grant
labels, rotate the key, log out. Several Caddy processes may share one Redis.

## The system and its parts

| Part | Source | Modelled in | Status |
|---|---|---|---|
| Store contract, in-memory store | `internal/store/store.go`, `memory.go` | `SessionStore` | partly: all calls but `AddOwnerIndex` and `RemoveOwnerIndex`, which have no caller |
| Redis store: one Lua script per call | `internal/store/redis.go` | `RedisStore` | partly: also without `ReassignOwner`, which has no caller in production |
| Session manager | `internal/session/manager.go` | `SessionManager` (decisions), `Proxy` and `Handlers` (its store calls) | partly: everything the handler calls; `MaybeRotate`, `ForceRotate`, `SetLabels`, `BindOwner`, `StoreCookie`, `DeleteCookie` are called by tests only |
| Request handler, response processing | `session_store.go` | `Proxy` | modelled |
| Response staging | `session_store.go` | `StagedResponse` | modelled |
| Handler lifecycle, revoker registry, admin API | `session_store.go`, `admin.go` | `Handlers` | modelled |
| Configuration | `session_store.go` | `Configuration` | modelled |
| Path authorization | `internal/authz`, `session_store.go` | `Authz`, `Configuration`; one required label in `Proxy` | modelled |
| Cookie filter and expiry | `internal/filter`, `session_store.go` | `CookieRules` | modelled |
| Request trailer scrubbing, demo backend | `session_store.go`, `demo` | none | not modelled |

A configuration is read, provisioned and validated, and its handlers register
with the admin endpoint. A request resolves its key (`GetKey`, `GetSession`,
clock, `TouchSession`, `GetCookies`), is checked against the label its path
requires, and goes upstream with the cached cookies. The response is staged
whole; on the way back it becomes one conditional store mutation
(`ApplySessionControls`, a compare-and-swap on the key), a new session (`Begin`)
or a logout (`DeleteSession`), and only then is it sent. With
`synchronize_sessions` the response path runs under an advisory lock with a time
to live. An admin call sweeps the sessions of one owner through every registered
handler.

## Modules

* `SessionStore`: the store. Variables are the maps of `Memory` (`sessions`,
  `keys`, `cookies`, `owners`, `locks`) and the clock; one operator per call,
  with a `...Result` operator where the call can refuse. The memory store never
  expires anything; expiry (`Elapse`) is what Redis does to the same data, so
  the module is the contract of both. The lock is the token-checked lock of
  Redis: the memory store's unlock deletes unconditionally, but its lock never
  lapses either. Cookie hashes always follow the cookies and are left out.
* `RedisStore`: the scripts over five kinds of Redis keys, each with its own
  deadline, at `SEC` ticks per second; refines `SessionStore`.
* `SessionManager`: pure decisions, that is when a response rotates the key and
  which mutation it becomes.
* `Proxy` (extends the two): concurrent requests, the browsers' cookie jars, and
  faults. Each store call and each clock reading is one step; local code between
  two of them belongs to the step before. The fields of a request's record are
  the locals of `ServeHTTP`, the `interceptor` and the `Live` handle. `target`,
  `swapped` and `granted` are history that only properties read. Staging appears
  here as one outcome, `UpstreamFails`.
* `StagedResponse`: the other half of the interceptor. A step is one reservation
  or release of the budget, or a stretch of code without one; the fields of a
  response are those of `interceptor` and `stagedBody`, then what the client has
  got, then history. What the session change does is module `Proxy`; here
  (`Process`) the session is changed or not, and independently of that an error is
  reported or not: `Begin` may have stored a row and a key before `ApplyResponse`
  fails, and a commit whose reply is lost has happened. A fatal error gives 502.
* `Handlers` (extends `SessionStore`): handler instances in the order of their
  `Provision`, the registry, the configuration being loaded and the one that
  serves, and admin calls. Caddy's part (`Reject`, `Activate`) is external:
  handlers of a configuration are provisioned one at a time, all are cleaned up
  when one fails, and the old ones once the new ones run. `Cleanup` is two
  steps, `CleanupUnregister` and `CleanupClose`. A sweep is one step per store
  call. The field `due` is history: the sessions a 204 has to answer for.
* `Configuration` (extends `Authz`): one configuration from its text to the first
  requests. Names are a word and a spelling, since `strings.EqualFold` sees the
  word only. `conf` has the fields of `Handler`, `eff` what `Provision` computes.
* `Authz`: the compiled policy. Paths are sequences of segments, `Clean` is
  `path.Clean`, and the rules are sorted by their length as strings, as `New`
  does; the reference definition `MostSpecific` counts segments.
* `CookieRules`: the cookies of one exchange, a `Set-Cookie` header per step, next
  to a browser's jar (`ua`) that receives the same headers. Values are opaque (that
  `net/http` strips the quotes of a quoted value is left out), and a header Go
  rejects is taken to be rejected by a browser as well.
* `...Proofs`: the theorems of a module; `RulesProofs` those of `Configuration`,
  `Authz` and `CookieRules`. `MC...`: instances for TLC. `MCRules`
  holds `Configuration` and `CookieRules`, which share no state, as two machines
  of which a behaviour runs one.

Definitions named in a comment as "Mutant" are broken variants of the
definition after them, used to confirm that a property can fail.

Data abstraction: ids and keys are model values drawn once (the code draws 256
random bits); labels are sets, since `normalizeLabels` makes header order and
repetition irrelevant; a response holds at most one mutation per cookie name; an
invalid header is an absent one, as in the code. An initial session may be
unowned, owned or labelled, and may have a zero rotation stamp (created before
`rotate_interval` existed). Header contents in `StagedResponse` are nothing,
entries for the client, or also entries the proxy manages; `Max-Age` values in
`CookieRules` keep their characters, since telling numbers from noise is what
`maxAgeDeletes` does.

Faults: a store call may fail without effect (`FailedCall`, `SweepListFails`) or
take effect and lose its reply (`LostReply`, part of `SweepDeleteFails`); the
client may disconnect before or during the answer; a spool file may be refused,
written short or unreadable; a handler may panic; a configuration may fail to
load at any point.

## Runs

| Run | Instance | Shows |
|---|---|---|
| `store` | all calls, all orders | typing, `NothingDangles`, `OwnerIndexExact`, `RowMonotone` |
| `proxy_races` | 2 requests, 1 browser, all response kinds, locks that lapse, 1 fault or lost reply at any call, fail_open | `SingleKey`, `KeyKeepsItsGrant`, `AuthorizedAtTouch`, `StaleResponseInert`, `LogoutIsFinal`, `LogoutKillsKey`, `NothingDangles`, `OwnerIndexExact` |
| `proxy_lock` | 2 requests, locking, 1 clean fault, fail_closed | `LockReleasedByHolder`, `EveryRequestAnswered`, `ClientNotStranded` |
| `redis` | 1 session, 2 keys, 2 owners, half-second ticks | `OneDeadline`, `OwnerSetCovers`, `KeptWithinLimits`, `RunsOutWhenExpired`, refinement of `SessionStore` |
| `lifecycle` | 2 handlers, 1 admin call, 1 store fault | `ServedIsReachable`, `RevokeOwnerComplete`, `SweepSparesOthers`, `RetiredLeaves`, `RevokeAnswered` |
| `staging` | 2 responses against one budget | `BudgetExact`, `StagedIsReserved`, `RefusedGivesNothing`, `SentWhole`, `NoFailureAfterProcessing`, `NothingManagedSent` |
| `rules` | configurations of 5 directives; exchanges of 2 `Set-Cookie` headers | `ControlHeadersDistinct`, `NothingOffByAccident`, `ProxyCookieAccepted`, `MostSpecificRuleWins`, `RedirectedAtMostOnce`, `CacheActsAsBrowser`, `StoredStaysServerSide` |

What some of these do not say: `AuthorizedAtTouch` ends at `TouchSession`; a demotion
that commits after a request's touch does not stop that request. `StaleResponseInert`
speaks of what a stale response writes; it may still delete the session, since a
logout and the clean-up of an expired session delete by id. `SentWhole` excepts a
body whose sending was broken off, by the client's connection or by a spool file
that could be read back once and not again. `NothingOffByAccident` covers timeouts,
rotation and revocation, not an `identity_header` left out of a JSON configuration,
which binds no owners. `NoFailureAfterProcessing` does not say that a change is
always answered with the backend's response: the processing's own error, which may
come after a change, gives 502 under fail_closed and for a logout.

The refinement alone does not tell a session that runs out from one a client
deletes while the second stays the same, since the contract allows both; hence
`RunsOutWhenExpired`.

Five runs exhibit a sentence of the documentation that the code does not keep:

* `logout_after_rotation` (`LogoutEndsTheSession`): a logout sent with a working
  key which a concurrent response rotates before the logout looks it up resolves
  to no session. It is answered with success and the session lives on under its
  new key. README.md:127 says this cannot happen. What does hold is
  `LogoutKillsKey`: the key the logout came with is dead. Run `proxy_races` checks
  it, and it is proved.
* `stale_expiry` (`ExpiryDeletesExpired`): `Resolve` deletes a session it read as
  expired by id, although a concurrent request may have refreshed it meanwhile. By
  `ProxyExpiryHasReason` this is the only way: a session about to be deleted has
  expired, or its last access was advanced after the row was read.
* `lost_rotation_reply` (`KeyHandedOver`): a rotation that takes effect in Redis
  but reports an error leaves the browser with a dead key. This is why
  `ClientNotStranded` is checked and proved for clean faults only. For clean faults
  `KeyHandedOver` is proved as well.
* `redis_owner_sets` (`OwnerSetCovers`): with two final timeouts in use, binding
  the shorter session shortens the owner set's life and logout-everywhere misses
  the longer one. With a single final timeout (run `redis`) the property holds.
* `revoke_closed_client` (`RevokeNeverMeetsClosedClient`): an admin call that took
  its snapshot of the registry before `Cleanup` unregistered a handler still
  sweeps it, meets its closed client and is answered 502. The comment at
  `session_store.go:420` says it cannot. Nothing worse follows: by
  `RevokeOwnerComplete` the call never reports success for what it missed.

## Bounds

Two concurrent requests reach every pairwise race. `proxy_races` runs under
`synchronize_sessions`, but a lock may lapse as soon as it is taken, so the
interleavings without locking are among its behaviours. `MaxFaults` is 1: a single
fault at an arbitrary call; combinations of faults are not covered by the runs
(the theorems about `Proxy` and `Handlers` hold for any number). The clock passes the
rotation interval and both limits in `proxy_races`, the rotation interval in
`proxy_lock`, the inactive limit in `store`, both limits in `redis`; `lifecycle`
needs no clock. `SID` and `KEY` have one id per request and one per browser, enough
never to run out (`IdBound`). `MaxLag` is how old, in seconds, the clock reading
behind a Redis call may be.

In `lifecycle` the second handler can replace the first, join it in one
configuration, or fail to load beside it, in the same or in another database. In
`staging` the limits are a few units, so that one chunk overflows memory to the
spool file, two overflow a response, and two responses overflow the budget.
In `rules` five directives suffice for two rules, their endpoints and one more
option; the request paths are all sequences of up to three segments, dot-dot and
empty ones included.

`proxy_races` permutes requests as symmetry; the store and Redis runs say in
their cfg which sets they permute; runs with liveness use none. Runs switch
deadlock checking off because finite sets of requests, responses, handlers and
directives come to an end.

## Fairness

`FairSpec` of `Proxy` assumes weak fairness of each request's own steps: a
goroutine the runtime keeps scheduling, store calls that return or time out, a
backend that answers or fails. Nothing is assumed of clients, of expiry or of lock
lapse, so `EveryRequestAnswered` does not rest on a lock running out.

`HandlersFairness` assumes that Caddy gives up a configuration that failed, runs
`Cleanup` of what it gave up to its end, and that the goroutine of an admin call
runs. Nothing makes anyone load a configuration, log in or call the endpoint.

## What is proved

Each proof module shows its theorems for every value of the constants that
satisfies the named assumptions. A leaf is tried with Zenon first, then with the
SMT solver, and once more with each (the `USE` at the head of each proof module).

`SessionStoreProofs`: `StoreTypeCorrect`, `StoreNothingDangles`,
`StoreOwnerIndexExact` and the action property `StoreRowMonotone`. The inductive
invariant is `StoreInv`: typing, nothing dangling and an exact owner index
together. None of the last two is inductive alone. Moving an owner keeps the index
exact only if the row that was read is well typed and listed under its old owner;
dropping a row leaves nothing dangling only if keys and cookies pointed at rows
before. There is one lemma per store call, stated over the row variables alone,
so that modules composing the store reuse it. In the contract a touch stamps a
session that has no rotation stamp with the clock value, or, with `rotate_interval`
off, leaves it at 0.

`ProxyRequestProofs`, `ProxyProofs` and `ProxyClientProofs` (each extends the one
before): `ProxyTypeCorrect`, `ProxyNothingDangles`, `ProxyOwnerIndexExact`,
`ProxySingleKey`, `ProxyKeyKeepsItsGrant`, `ProxyLogoutIsFinal`,
`ProxyLogoutKillsKey`, `ProxyExpiryHasReason`, the action properties
`ProxyAuthorizedAtTouch`, `ProxyStaleResponseInert`, `ProxyLockReleasedByHolder`,
`ProxyUsesContract` and `ProxyRowMonotone`, and with them `ProxyClientNotStranded`
and `ProxyKeyHandedOver`, for any number of requests, browsers and faults, any
responses, both error policies, with and without locking and, but for the last two,
with lost replies. The first module holds the invariant and its steps, the last
`ProxyClientNotStranded`, the second everything else. The invariant is `ProxyInv`:
the store's `StoreInv`, `SingleKey` and `KeyKeepsItsGrant`, and for each request

* `Shape`: what its locals hold at each program counter;
* `Private`: while it creates a session, no other request and no browser knows the
  key, so that granting labels under the fresh key changes nobody's grant;
* `Current`: the labels it has read are those of the session as long as its key
  still leads there: whoever changes the labels also swaps the key. The touch
  compares the key, so one that succeeds finds the labels as they were read;
* `Finished`: the session of an answered logout has no row and no key.

`KnownIds`, every id in use has been drawn, makes a fresh id fresh for everybody.
The proof of a step has two halves. `StepInv` says what a step owes the other
requests (`KeyEffect`: only its own key comes to work and only its own session
appears); the lemma of each action says what becomes of its own request. Steps
that make no key work share `QuietStep`.

`ProxyClientNotStranded` assumes `~EffectLost`: a store call that reports an error
had no effect. Without that it is false (`lost_rotation_reply` shows how). It needs
`StrandInv` on top of `ProxyInv`: a browser's key works as long as its session
lives, or a response with its replacement is underway (`JarInv`); until such a
response arrives nobody but its browser's own request knows the new key, so
nobody can swap it on the way (`CookieKeyInv`); and a request that creates a session
finds it without owner and labels, so its commit is never skipped as one without
effect and the first key always goes out (`Founding`). A step either leaves the
keys that work alone (`PlainStep`) or replaces the key of its own request
(`StrandStep`).

The remaining theorems about `Proxy` need to know how old a request's knowledge may
be. `ProxyUsesContract` says that the pipeline drives the store only as its contract
allows: every step, a lost reply included, is a step of `StoreNext` or leaves the
store alone. The part that is not plain is the clock: a call must not carry a
reading from the future. A row is put only under an id that has none.
`ProxyRowMonotone` then follows from the store's own lemma `StoreAdvances`. The
invariant is `Life`, again one statement per request:

* `Timely`: its clock reading is not after `now`, and the row it has read is
  *behind* the session (`Behind`): while the session lives its stamps have only
  advanced and its limits are those read. `ProxyExpiryHasReason` is a consequence;
* `Killed`: a request with a key that found no row, or ended the session itself, and
  did not record an error, has a key that leads nowhere. Keys that died stay dead,
  since only a fresh key ever comes to work. The exception in the statement is real:
  when the deletion of an expired session fails, `Resolve` drops the error and the
  request goes on without a session, so the key still opens one that is expired;
* `Handed`: without lost replies, a request that swapped the key has the replacement
  in its response.

`Timely` and the contract depend on each other: a row stays behind because the other
requests use the store as the contract says, and they do because their readings are
timely. Both are proved of one step from `Life` before it, so nothing is circular.
`Bystander` carries `Life` over the steps of other requests; `Onward` and its lemmas
carry it along a request's own.

The assumptions beyond typing are that fresh ids exist for the browsers' first
sessions (`FirstIds`) and that the sentinels are neither keys nor grants
(`ProxySentinels`, `GrantSentinel`). When ids run out the model's `BeginClock` and
rotating commits are disabled, which takes nothing from a safety theorem.

`HandlersProofs`: `HandlersServedIsReachable`, `HandlersRevokeOwnerComplete` and
`HandlersSweepSparesOthers`, for any number of handlers, databases, calls and
faults. The invariant `HandlersInv` adds to the store's `RowInv` what a handler's
stage says about its client and its registration (`LoadInv`: those loading,
serving or retired are registered with an open client) and, for each call
(`CallInv`), that a session still due is in the list being deleted, or its
database is one still to be listed, or an error is recorded. The last part is
what makes completeness inductive: a due session may leave the list only by its
deletion, by being bound anew, or by an error.

`RedisStoreProofs`: `RedisOneDeadline`, `RedisKeptWithinLimits` and the action
property `RedisRunsOutWhenExpired`, for any timeouts, any length of a second in
ticks and any lag of the callers' clocks. The invariant `RedisInv` is one statement
per session (`SessionInv`): its stamps are in the past (`Stamped`), its reverse set
lists exactly its keys, of which there is at most one (`Linked`), nothing is left of
a session without a row (`Whole`), its entries share one deadline (`Together`), and
that deadline is the earlier of its two limits, or later only while the session has
not been used since the second it was created in (`Limited`). The deadlines can be
kept together only because a script that moves one knows all the entries there are,
which is what `Linked` and `Whole` say.

Read through the refinement mapping, two of the contract's properties hold of Redis
for any mix of final timeouts: `RedisNothingDangles` and the action property
`RedisRowMonotone`. They do not go through the refinement, which needs more.

With one final timeout in use (`OneFinal`) the same module proves
`RedisOwnerSetCovers` and the refinement `RedisImplementsContract`: every initial
state is one of `SessionStore`, and every script and every tick is a step of it or a
stutter. The contract's owner index never forgets a live session, so the mapping
needs `OwnerInv`: an owner set outlives the sessions it lists. Its deadline is the
final limit of the session bound last, and with one timeout that is past the
deadline of every session bound before. Without `OneFinal` this is false (run
`redis_owner_sets`).

`StagedResponseProofs`: `StagingTypeCorrect`, `StagingBudgetExact`,
`StagingStagedIsReserved`, `StagingRefusedGivesNothing`, `StagingSentWhole`,
`StagingNoFailureAfterProcessing` and `StagingNothingManagedSent`, for any finite number of
responses and any limits. The invariant is a statement about each response alone
(`BodyInv`: where the bytes are, how many the handler wrote and how many are
reserved, by program counter; `OutcomeInv`: what the client can have got, and
whether the header can still hold managed entries, by program counter) together
with the bound on `used`. For the budget it is joined by `Exactly`: `used` is the sum
of the reservations, and a response not begun or finished holds none. That a step
moves the sum by what it moves its own summand takes induction over the responses.
It is carried out on sets: of the sets for which a claim fails one is minimal
(strict inclusion on subsets of a finite set is well founded), and removing a member
of it contradicts that.

`RulesProofs`: `ConfigControlHeadersDistinct`, `ConfigProxyCookieAccepted`,
`ConfigNothingOffByAccident`, `ConfigMostSpecificRuleWins` and
`ConfigRedirectedAtMostOnce`, for any directives in any number and order and any
request path; `CookiesActAsBrowser` and `CookiesStayServerSide`, for any number of
`Set-Cookie` headers. `ConfigInv` says that the configuration in hand holds what its
directives can put there, that the effective values come from it, that one that
serves has passed the checks, and how far a redirected browser can have come.
`CookieInv` says that the recorded mutations, replayed on the cache, give for the
stored names what a browser's jar would hold. Segments, sorting and replaying are folds over sequences. A
fold is treated as the end of a run, the function from the number of elements
consumed to the result so far, and a fact about it is an induction along the run;
induction itself is the lemma that a set of numbers has a least member. The sort is
characterised by the bijection it chooses. The assumptions type the arguments of
the directives (`ConfigAssumption`), the segments (`SegmentAssumption`) and the
`Max-Age` texts (`CookieAssumption`).

## What is only model-checked

* Liveness (`EveryRequestAnswered`, `RetiredLeaves`, `RevokeAnswered`): outside
  what TLAPS 1.4.5 proves.
* The five claims the code does not keep, each with its counterexample. Two of them
  are proved under the assumption their counterexample violates: `OwnerSetCovers`
  under `OneFinal`, `KeyHandedOver` under `~EffectLost`.

Every other invariant and action property of the runs is proved.

## Not modelled

* The request side of header hygiene: `trailerScrubbingBody` and the deletion of
  control headers from requests keep no state. On the response side the trailers
  are part of what `Scrubbed` removes.
* Methods without a caller in production, named in the table above.
* A second upgrade after one whose underlying call failed (`StagedResponse`
  assumes a handler that makes one attempt, as Caddy's reverse proxy does).
* Percent-escapes in the path of an auth endpoint, which `New` does not decode when
  it looks for redirect loops, and queries of endpoints.
* Durations below a second, which the manager truncates.
* A change of the store list between filling the cookie cache and using it.
* Logging and the demo backend.
