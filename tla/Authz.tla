-------------------------------- MODULE Authz --------------------------------
(***************************************************************************)
(* internal/authz: the compiled policy that maps a request path to the     *)
(* label its session must carry.  A path is the sequence of what stands    *)
(* between its slashes, so "/a//b/../" is <<"a", "", "b", "..", "">>; a    *)
(* configured path also says whether it starts with a slash.  The query of *)
(* an auth endpoint, which New cuts off, is left out.                      *)
(***************************************************************************)
EXTENDS Integers, SequencesExt, FiniteSetsExt

CONSTANT SEG   \* what may stand between two slashes

ASSUME SegmentAssumption == \A seg \in SEG : Len(seg) \in Nat

Anonymous == "anonymous"

\* AuthzConfig as the Caddyfile or the JSON configuration gives it; endpoints
\* is a set of pairs whose last writer wins, kept as a function on its labels.
NoRules == [rules |-> <<>>, default |-> "", endpoints |-> <<>>]

Popped(p) == IF p = <<>> THEN p ELSE Front(p)

Walk(p, seg) == IF seg \in {"", "."} THEN p ELSE IF seg = ".." THEN Popped(p) ELSE Append(p, seg)

\* path.Clean of a rooted path.
Clean(path) == FoldLeft(Walk, <<>>, path)

AddSegment(n, seg) == n + 1 + Len(seg)

\* The length of a cleaned path as a string.
PathLen(path) == FoldLeft(AddSegment, 0, path)

CleanRules(a) == [i \in DOMAIN a.rules |-> [path |-> Clean(a.rules[i].path.segs),
                                            label |-> a.rules[i].label]]

\* Mutant: the rules stay in the order of the configuration.
CompiledInOrder(a) == CleanRules(a)

LongestFirst(p, rules) ==
    \A i, j \in DOMAIN rules : i < j => PathLen(rules[p[i]].path) >= PathLen(rules[p[j]].path)

\* The rules, longest path first; sort.Slice leaves the order of equal lengths open.
Compiled(a) ==
    LET rules == CleanRules(a)
        p == CHOOSE p \in Bijection(DOMAIN rules, DOMAIN rules) : LongestFirst(p, rules)
    IN  [i \in DOMAIN rules |-> rules[p[i]]]

DefaultLabel(a) == IF a.default = "" THEN Anonymous ELSE a.default

\* The label of the first rule whose path is a prefix of the cleaned path.
Required(a, path) ==
    LET rules == Compiled(a)
        matching == {i \in DOMAIN rules : IsPrefix(rules[i].path, Clean(path))}
    IN  IF matching = {} THEN DefaultLabel(a) ELSE rules[Min(matching)].label

RulesWellFormed(a) ==
    /\ \A i \in DOMAIN a.rules : a.rules[i].path.rooted /\ a.rules[i].label # ""
    /\ \A i, j \in DOMAIN a.rules :
           Clean(a.rules[i].path.segs) = Clean(a.rules[j].path.segs) => i = j

UsedLabels(a) == {DefaultLabel(a)} \union {a.rules[i].label : i \in DOMAIN a.rules}

\* Mutant: the endpoints are not looked up in the rules.
AcceptsLoops(a) == RulesWellFormed(a) /\ UsedLabels(a) \ {Anonymous} \subseteq DOMAIN a.endpoints

\* New returns no error.
Accepts(a) ==
    /\ RulesWellFormed(a)
    /\ UsedLabels(a) \ {Anonymous} \subseteq DOMAIN a.endpoints
    /\ \A label \in DOMAIN a.endpoints :
           /\ a.endpoints[label].rooted
           /\ Required(a, a.endpoints[label].segs) = Anonymous

\* Reference definition: the label of the rule with the most segments among
\* those that cover the path, wherever the configuration lists it.
MostSpecific(a, path) ==
    LET covering == {i \in DOMAIN a.rules : IsPrefix(Clean(a.rules[i].path.segs), Clean(path))}
        segments(i) == Len(Clean(a.rules[i].path.segs))
    IN  IF covering = {} THEN DefaultLabel(a)
        ELSE a.rules[CHOOSE i \in covering : \A j \in covering : segments(i) >= segments(j)].label
==============================================================================
