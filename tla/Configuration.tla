---------------------------- MODULE Configuration ----------------------------
(***************************************************************************)
(* One session_store configuration from its text to the first requests     *)
(* (session_store.go: UnmarshalCaddyfile, Provision, Validate, the         *)
(* authorization step of ServeHTTP and denyAuthz).  The Caddyfile sets its *)
(* defaults first; a JSON configuration starts from zero values.  Each     *)
(* directive, or JSON field, is then one step, in any order.               *)
(*                                                                         *)
(* A name (of a header, of a SameSite mode) is a word and a spelling:      *)
(* strings.EqualFold and header canonicalisation see the word only.        *)
(* Durations are seconds.  Options that neither a check nor the            *)
(* authorization step reads (password, db, key_prefix, cookie name and     *)
(* path, redirect_param) are overwritten like the others and left out of   *)
(* the record.                                                             *)
(***************************************************************************)
EXTENDS Authz

CONSTANTS
    Directives,     \* the directives in use: [opt, arg]
    MaxDirectives,  \* bound: directives per configuration
    PATHS,          \* paths of requests
    None,           \* an option or a field that is not there
    Bad             \* an argument that is missing or does not parse

Durations == {"inactive_timeout", "final_timeout", "rotate_interval"}

ASSUME ConfigAssumption ==
    /\ \A d \in Directives : d.arg # Bad =>
           /\ d.opt \in Durations => d.arg \in Int
           /\ d.opt = "rotate_on_login" => d.arg \in {"true", "false"}
           /\ d.opt = "require" => d.arg.path.segs \in Seq(SEG)
    /\ PATHS \subseteq Seq(SEG)

VARIABLES
    stage,   \* "idle", "reading", "read", "provisioned", "serving", "refused"
    conf,    \* the user-facing fields of Handler
    eff,     \* the fields Provision computes
    length,  \* directives read so far
    client   \* a browser that follows redirects: hops made, label it lacks

configVars == <<stage, conf, eff, length, client>>

Word(w) == [word |-> w, caps |-> FALSE]

EqualFold(a, b) == a.word = b.word

defaultRotateHeader == Word("X-Session-Rotate")
defaultRevokeHeader == Word("X-Session-Revoke")
defaultLabelsHeader == Word("X-Session-Labels")

\* The zero Handler, which a JSON configuration fills in.
ZeroHandler ==
    [address |-> None, same_site |-> Word(""), insecure |-> FALSE,
     inactive_timeout |-> 0, final_timeout |-> 0, rotate_interval |-> 0,
     identity_header |-> Word(""), rotate_header |-> Word(""), revoke_header |-> Word(""),
     labels_header |-> Word(""), rotate_on_login |-> None, synchronize_sessions |-> FALSE,
     on_store_error |-> "", forward |-> {}, store |-> {}, authz |-> None]

CaddyfileDefaults ==
    [ZeroHandler EXCEPT !.same_site = Word("lax"), !.identity_header = Word("X-Auth-User"),
                        !.on_store_error = "fail_closed"]

NoClient == [hops |-> 0, lacks |-> None]

ConfigInit ==
    /\ stage = "reading"
    /\ conf \in {ZeroHandler, CaddyfileDefaults}
    /\ eff = None
    /\ length = 0
    /\ client = NoClient

-----------------------------------------------------------------------------

Block == IF conf.authz = None THEN NoRules ELSE conf.authz

\* What one directive makes of the configuration: lists and rules append, an
\* endpoint replaces the one of its label, any other option is overwritten.
Apply(d) ==
    CASE d.opt \in {"forward", "store"} -> [conf EXCEPT ![d.opt] = @ \union d.arg]
      [] d.opt = "authz" -> [conf EXCEPT !.authz = Block]
      [] d.opt = "require" -> [conf EXCEPT !.authz = [Block EXCEPT !.rules = Append(@, d.arg)]]
      [] d.opt = "require_default" -> [conf EXCEPT !.authz = [Block EXCEPT !.default = d.arg]]
      [] d.opt = "auth_endpoint" ->
             [conf EXCEPT !.authz = [Block EXCEPT !.endpoints = (d.arg.label :> d.arg.path) @@ @]]
      [] OTHER -> [conf EXCEPT ![d.opt] = d.arg]

ReadDirective(d) ==
    /\ stage = "reading" /\ length < MaxDirectives
    /\ length' = length + 1
    /\ IF d.arg = Bad
         THEN stage' = "refused" /\ UNCHANGED conf
         ELSE conf' = Apply(d) /\ UNCHANGED stage
    /\ UNCHANGED <<eff, client>>

EndOfConfig ==
    /\ stage = "reading"
    /\ stage' = "read"
    /\ UNCHANGED <<conf, eff, length, client>>

\* resolveRotateHeader, resolveRevokeHeader: "off" keeps stripping the default.
Resolved(h, default) ==
    IF EqualFold(h, Word("off")) \/ h = Word("")
      THEN [name |-> default, enabled |-> h = Word("")]
      ELSE [name |-> h, enabled |-> TRUE]

OrDefault(x, zero, default) == IF x = zero THEN default ELSE x

Effective ==
    [inactive |-> OrDefault(conf.inactive_timeout, 0, 1800),
     final |-> OrDefault(conf.final_timeout, 0, 28800),
     rotateOnLogin |-> conf.rotate_on_login = None \/ conf.rotate_on_login = "true",
     rotate |-> Resolved(conf.rotate_header, defaultRotateHeader),
     revoke |-> Resolved(conf.revoke_header, defaultRevokeHeader),
     labels |-> OrDefault(conf.labels_header, Word(""), defaultLabelsHeader)]

PolicyBuilds == conf.authz # None => Accepts(conf.authz)

Provision ==
    /\ stage = "read"
    /\ IF PolicyBuilds
         THEN stage' = "provisioned" /\ eff' = Effective
         ELSE stage' = "refused" /\ UNCHANGED eff
    /\ UNCHANGED <<conf, length, client>>

\* Mutant: an unset timeout is accepted whatever its sign.
DurationsAnyway == conf.rotate_interval >= 0

DurationsOK == eff.inactive >= 0 /\ eff.final >= 0 /\ conf.rotate_interval >= 0

\* Mutant: the spelling of the mode counts.
SameSiteSpelled == ~(conf.same_site = Word("none") /\ conf.insecure)

SameSiteOK == ~(EqualFold(conf.same_site, Word("none")) /\ conf.insecure)

\* Mutant: a trigger that is off is left out of the comparison.
ValidatedOff(h, default) == OrDefault(h, Word(""), default)

\* Validate computes the effective names a second time.
Validated(h, default) ==
    IF h = Word("") \/ EqualFold(h, Word("off")) THEN default ELSE h

HeadersOK ==
    LET names == <<conf.identity_header,
                   Validated(conf.rotate_header, defaultRotateHeader),
                   Validated(conf.revoke_header, defaultRevokeHeader),
                   OrDefault(conf.labels_header, Word(""), defaultLabelsHeader)>>
    IN  \A i, j \in DOMAIN names : i < j => ~EqualFold(names[i], names[j])

Validate ==
    /\ stage = "provisioned"
    /\ stage' = IF /\ conf.address # None
                   /\ conf.on_store_error \in {"fail_closed", "fail_open"}
                   /\ SameSiteOK /\ DurationsOK /\ HeadersOK /\ PolicyBuilds
                  THEN "serving" ELSE "refused"
    /\ UNCHANGED <<conf, eff, length, client>>

-----------------------------------------------------------------------------

\* A request for path, from a session that carries the labels in granted (none
\* without a session, or when the store failed): served, refused with 401, or
\* sent to the endpoint of the label it lacks.
Authorize(path, granted) ==
    LET required == Required(conf.authz, path)
    IN  IF conf.authz = None \/ required = Anonymous \/ required \in granted
          THEN client' = NoClient
          ELSE \/ client' = [hops |-> client.hops + 1, lacks |-> required]
               \/ client' = NoClient

Grants == SUBSET {"user", "admin"}

Visit ==
    /\ stage = "serving" /\ conf.authz # None /\ client = NoClient
    /\ \E path \in PATHS, granted \in Grants : Authorize(path, granted)
    /\ UNCHANGED <<stage, conf, eff, length>>

\* The browser follows the redirect; its session may have changed meanwhile.
FollowRedirect ==
    /\ client.lacks # None
    /\ client.hops < 2
    /\ \E granted \in Grants : Authorize(conf.authz.endpoints[client.lacks].segs, granted)
    /\ UNCHANGED <<stage, conf, eff, length>>

ConfigNext ==
    \/ \E d \in Directives : ReadDirective(d)
    \/ EndOfConfig
    \/ Provision
    \/ Validate
    \/ Visit
    \/ FollowRedirect

ConfigSpec == ConfigInit /\ [][ConfigNext]_configVars

-----------------------------------------------------------------------------
(* Properties.                                                             *)

Serving == stage = "serving"

\* In a configuration that serves, the four control headers the handler reads
\* and strips have different names, although Provision and Validate compute
\* them separately: "their effective names must remain distinct or one feature
\* would silently consume another's value" (session_store.go:452).
ControlHeadersDistinct ==
    Serving =>
        LET names == <<conf.identity_header, eff.rotate.name, eff.revoke.name, eff.labels>>
        IN  \A i, j \in DOMAIN names : i # j => ~EqualFold(names[i], names[j])

\* No typo turns a protection off ("reject them so a typo can't turn off a
\* timeout or rotation", session_store.go:447): in a configuration that serves
\* both timeouts are positive, and rotation on login, the rotation trigger and
\* the revocation trigger are off only where the configuration says so.
NothingOffByAccident ==
    Serving =>
        /\ eff.inactive > 0 /\ eff.final > 0 /\ conf.rotate_interval >= 0
        /\ eff.rotateOnLogin \/ conf.rotate_on_login = "false"
        /\ eff.rotate.enabled \/ conf.rotate_header.word = "off"
        /\ eff.revoke.enabled \/ conf.revoke_header.word = "off"

\* buildProxyCookie and buildExpiredProxyCookie: the mode of the cookie.
ProxySameSite ==
    IF EqualFold(conf.same_site, Word("strict")) THEN "strict"
    ELSE IF EqualFold(conf.same_site, Word("none")) THEN "none" ELSE "lax"

\* A browser rejects SameSite=None without Secure; a configuration that serves
\* never sends such a proxy cookie, however the mode is spelled.
ProxyCookieAccepted == Serving => (ProxySameSite = "none" => ~conf.insecure)

\* The label a path requires is that of the most specific rule covering it,
\* whatever the order of the rules and however the path is written ("the most
\* specific rule wins without order dependence", authz.go:65).
MostSpecificRuleWins ==
    Serving /\ conf.authz # None =>
        \A path \in PATHS : Required(conf.authz, path) = MostSpecific(conf.authz, path)

\* A client that is denied can always be sent somewhere, and is served there
\* whatever its session has become: it never meets a second redirect ("catch
\* the loop at config load, not in production", authz.go:82).
RedirectedAtMostOnce ==
    /\ client.hops <= 1
    /\ client.lacks # None => client.lacks \in DOMAIN conf.authz.endpoints
==============================================================================
