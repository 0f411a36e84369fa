------------------------------- MODULE MCRules -------------------------------
(***************************************************************************)
(* Configuration and CookieRules explored in one run.  They share no       *)
(* state: a behaviour is either one of a configuration or one of an        *)
(* exchange of cookies, while the other machine is idle.                   *)
(***************************************************************************)
EXTENDS Configuration, CookieRules

ConfigIdle == stage = "idle" /\ conf = None /\ eff = None /\ length = 0 /\ client = NoClient

CookiesIdle ==
    /\ forward = {} /\ store = {} /\ step = "idle" /\ held = Nothing /\ sent = {}
    /\ upstream = {} /\ live = FALSE /\ mutations = <<>> /\ passed = {} /\ seen = 0
    /\ ua = Nothing

RulesInit ==
    \/ ConfigInit /\ CookiesIdle
    \/ CookieInit /\ ConfigIdle

RulesNext ==
    \/ ConfigNext /\ UNCHANGED cookieVars
    \/ CookieNext /\ UNCHANGED configVars

RulesSpec == RulesInit /\ [][RulesNext]_<<configVars, cookieVars>>

-----------------------------------------------------------------------------

Rooted(segs) == [rooted |-> TRUE, segs |-> segs]

Option(opt, args) == {[opt |-> opt, arg |-> a] : a \in args}

Caps(w) == [word |-> w, caps |-> TRUE]

MCDirectives ==
    UNION {
        Option("address", {"redis"}),
        Option("on_store_error", {"fail_open", "sometimes"}),
        Option("same_site", {Caps("none")}),
        Option("insecure", {TRUE}),
        Option("inactive_timeout", {-1, Bad}),
        Option("final_timeout", {-1}),
        Option("rotate_interval", {-1}),
        Option("rotate_on_login", {"false"}),
        Option("identity_header", {Word("X-Session-Revoke")}),
        Option("rotate_header", {Caps("off"), Word("X-Session-Labels")}),
        Option("revoke_header", {Word("off")}),
        Option("labels_header", {Caps("X-Session-Rotate")}),
        Option("require_default", {"user"}),
        Option("require", {[path |-> Rooted(<<"a">>), label |-> "user"],
                           [path |-> Rooted(<<"a", "", "b", "">>), label |-> "admin"],
                           [path |-> Rooted(<<"a", "b">>), label |-> "anonymous"],
                           [path |-> [rooted |-> FALSE, segs |-> <<"a">>], label |-> "user"]}),
        Option("auth_endpoint", {[label |-> "user", path |-> Rooted(<<"a", "b">>)],
                                 [label |-> "user", path |-> Rooted(<<"b">>)],
                                 [label |-> "admin", path |-> Rooted(<<"a", "..", "b">>)]})}

MCPaths == BoundedSeq(SEG, 3)

Ages == {<<>>, <<"-">>, <<"0">>, <<"0", "0">>, <<"0", "1">>, <<"-", "1">>, <<"+", "1">>, <<"1", "x">>}

MCMaxAges == BoundedSeq(Ages, 2)
==============================================================================
