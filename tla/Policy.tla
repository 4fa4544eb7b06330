------------------------------- MODULE Policy -------------------------------
(***************************************************************************)
(* A tenant's mitigation rules and what they say of one request            *)
(* (pkg/policy).  A request's facts are its score and its "marks": the     *)
(* things conditions can be about (a path, a signal, a class, an agent).   *)
(* A condition is on one mark or on a least score.                         *)
(***************************************************************************)
EXTENDS Integers, Sequences, FiniteSetsExt

CONSTANT MaxConditions      \* conditions of one rule (16)

HardBlock == 100            \* blockThreshold

Actions == {"PASS", "CHALLENGE", "BLOCK", "DECEIVE", "LOG", "RATE_LIMIT"}

Holds(c, facts) == IF c.on = "score" THEN facts.score >= c.atLeast ELSE c.on \in facts.marks

\* Conditions are ANDed; a rule without any matches nothing.
RuleMatches(rule, facts) ==
    /\ Len(rule.conditions) \in 1 .. MaxConditions
    /\ \A i \in DOMAIN rule.conditions : Holds(rule.conditions[i], facts)

Matching(p, facts) ==
    {i \in DOMAIN p.rules : /\ p.rules[i].enabled
                            /\ p.rules[i].action \in Actions
                            /\ RuleMatches(p.rules[i], facts)}

\* The first rule that matches decides.
Evaluate(p, facts) ==
    LET m == Matching(p, facts) IN IF m = {} THEN "none" ELSE p.rules[Min(m)].action

\* What a dashboard may save.
ValidateRule(rule) ==
    LET cs == rule.conditions IN
    /\ Len(cs) \in 1 .. MaxConditions
    /\ rule.action \in Actions
    /\ rule.action \in {"PASS", "BLOCK"} => ~ (Len(cs) = 1 /\ cs[1].on = "user agent")
    /\ rule.action = "DECEIVE" =>
        \E i \in DOMAIN cs : cs[i].on = "score" /\ cs[i].atLeast > HardBlock

\* An ambiguous path has no class; an own login or checkout path keeps its
\* class; only an enforced policy's label can give another path one.
ClassifyRoute(p, request) ==
    IF request.ambiguous THEN "browse"
    ELSE IF \/ request.class = "login"
            \/ p.mode = "enforce" /\ p.labelled \cap request.marks # {} THEN "login"
    ELSE "browse"
=============================================================================
