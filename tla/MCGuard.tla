------------------------------ MODULE MCGuard -------------------------------
(***************************************************************************)
(* A small instance of Guard: one policy as a draft, then enforced; visits *)
(* chosen so that every rule, route and answer occurs.                     *)
(***************************************************************************)
EXTENDS Guard, TLC

On1(mark) == [on |-> mark, atLeast |-> 0]
AtLeast(n) == [on |-> "score", atLeast |-> n]
MCRule(conditions, action) == [conditions |-> conditions, action |-> action, enabled |-> TRUE]

MCRules ==
    <<MCRule(<<On1("monitor")>>, "PASS"),
      MCRule(<<On1("shop"), AtLeast(101)>>, "DECEIVE"),
      MCRule(<<On1("feed"), On1("velocity_spike")>>, "RATE_LIMIT"),
      MCRule(<<On1("shop")>>, "PASS"),
      MCRule(<<On1("admin"), On1("search")>>, "LOG"),
      [MCRule(<<On1("admin")>>, "CHALLENGE") EXCEPT !.enabled = FALSE],
      MCRule(<<On1("admin")>>, "BLOCK"),
      MCRule(<<On1("api")>>, "CHALLENGE")>>

MCPolicy(mode, labelled) ==
    [mode |-> mode, rules |-> MCRules, labelled |-> labelled, allowlist |-> {"listed"}]
MCPolicies == <<MCPolicy("shadow", {"feed"}), MCPolicy("enforce", {"feed"})>>

MCVisit(score, crowded, mark, passed, bot) ==
    [trap |-> FALSE, score |-> score, crowded |-> crowded, marks |-> {mark}, passed |-> passed,
     bot |-> bot, ambiguous |-> FALSE, class |-> "browse"]
MCVisits ==
    {[MCVisit(0, {}, "none", FALSE, FALSE) EXCEPT !.trap = TRUE],
     MCVisit(0, {"login"}, "feed", FALSE, FALSE),
     MCVisit(100, {}, "shop", FALSE, FALSE),
     MCVisit(50, {"browse"}, "feed", FALSE, FALSE),
     MCVisit(0, {"login"}, "feed", TRUE, FALSE),
     MCVisit(50, {"login", "browse"}, "admin", TRUE, FALSE),
     MCVisit(100, {}, "admin", FALSE, TRUE),
     MCVisit(0, {}, "admin", FALSE, FALSE),
     [MCVisit(50, {}, "admin", FALSE, FALSE) EXCEPT !.ambiguous = TRUE],
     [MCVisit(0, {"login"}, "api", FALSE, FALSE) EXCEPT !.class = "login"]}

MCTenant(enforced, strict, deception, provider) ==
    [enforced |-> enforced, strict |-> strict, deception |-> deception, provider |-> provider]
MCTenants ==
    {MCTenant(TRUE, FALSE, FALSE, TRUE), MCTenant(TRUE, TRUE, TRUE, TRUE),
     MCTenant(FALSE, FALSE, TRUE, TRUE), MCTenant(TRUE, FALSE, FALSE, FALSE)}

MCSymmetry == Permutations(Requests)
=============================================================================
