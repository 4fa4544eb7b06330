----------------------------- MODULE MCVisitor ------------------------------
(***************************************************************************)
(* Small instances of what Guard is told about a visitor and its request,  *)
(* and of the page it is sent: PolicyProvider (two tenants that evict each *)
(* other), Visits (a browser that solves every puzzle and one that solves  *)
(* none), GoodBots, Keys, Forward, OriginPage and Evaluation.  They share  *)
(* no state, so they are explored side by side and not interleaved.        *)
(***************************************************************************)
EXTENDS PolicyProvider, Visits, GoodBots, Keys, Forward, OriginPage, Evaluation, TLC

VARIABLE part

\* What the other parts start with makes no difference.
MCInit ==
    /\ Init /\ VisitsInit /\ BotsInit /\ KeysInit /\ ForwardInit /\ PageInit
    /\ EvaluationInit
    /\ part \in {"policy", "visits", "bots", "keys", "forward", "page", "evaluation"}
    /\ part # "visits" => browser = CHOOSE b \in Browsers : TRUE
    /\ part # "bots" => genuine = {}
    /\ part # "keys" => published = {}
    /\ part # "forward" => /\ message.forwarded = <<>> /\ message.forged = {}
                            /\ message.visitor = (CHOOSE v \in Outside : TRUE)
                            /\ message.host = Malformed
    /\ part # "page" => page.length = 0 /\ ~ page.declared /\ ~ page.rewritable
MCNext ==
    \/ /\ part = "policy" /\ Next
       /\ UNCHANGED <<visitsVars, botsVars, keysVars, forwardVars, pageVars, evaluationVars, part>>
    \/ /\ part = "visits" /\ VisitsNext
       /\ UNCHANGED <<vars, botsVars, keysVars, forwardVars, pageVars, evaluationVars, part>>
    \/ /\ part = "bots" /\ BotsNext
       /\ UNCHANGED <<vars, visitsVars, keysVars, forwardVars, pageVars, evaluationVars, part>>
    \/ /\ part = "keys" /\ KeysNext
       /\ UNCHANGED <<vars, visitsVars, botsVars, forwardVars, pageVars, evaluationVars, part>>
    \/ /\ part = "forward" /\ ForwardNext
       /\ UNCHANGED <<vars, visitsVars, botsVars, keysVars, pageVars, evaluationVars, part>>
    \/ /\ part = "page" /\ PageNext
       /\ UNCHANGED <<vars, visitsVars, botsVars, keysVars, forwardVars, evaluationVars, part>>
    \/ /\ part = "evaluation" /\ EvaluationNext
       /\ UNCHANGED <<vars, visitsVars, botsVars, keysVars, forwardVars, pageVars, part>>
MCSpec == MCInit /\ [][MCNext]_<<vars, visitsVars, botsVars, keysVars, forwardVars, pageVars,
                              evaluationVars, part>>

MCBrowser(tells, renderer, claims, proof, form) ==
    [tells |-> tells, renderer |-> renderer, claims |-> claims, canvas |-> "text",
     proof |-> proof, proof2 |-> proof, form |-> form, form2 |-> form]
MCBrowsers ==
    {MCBrowser({}, "direct3d", {"windows"}, 36, 38),
     MCBrowser({"webdriver"}, "adreno", {"linux"}, 18, 19)}

MCAhead == [s1 |-> 0, s2 |-> 1]
MCTrustWindow == <<2, 1, 0>>

MCSamples ==
    {[identity |-> who, at |-> at, automated |-> bot, model |-> decisions[1], rules |-> decisions[2]] :
        who \in {"", "someone"}, at \in {1, 2}, bot \in BOOLEAN,
        decisions \in {<<"allow", "block">>, <<"block", "allow">>, <<"block", "challenge">>}}

MCOwnerOf == [t \in Tenants |-> t]
\* Bound of the policies: MaxVersion revisions of both tenants together, and
\* a tenant's commits are invalidated before its next one.
MCFewRevisions ==
    /\ \A t, u \in Tenants : t # u => db[t] + db[u] <= MaxVersion
    /\ \A t \in Tenants : pending[t] <= 1

\* The parts share the names of their actors, and with them the symmetry.
MCSymmetry == Permutations(Tabs)
=============================================================================
