----------------------------- MODULE Evaluation -----------------------------
(***************************************************************************)
(* Whether a learned model may be promoted (pkg/decide/evaluation.go): the *)
(* labelled requests are split by time, what both sides know of one        *)
(* visitor is pulled to the training side, and the model and the rules are *)
(* compared on what is left.                                               *)
(*                                                                         *)
(* A request carries what the model and the rules decide of it.  Rates on  *)
(* one holdout have one denominator, so they compare as their counts do;   *)
(* the probabilities' Brier score and calibration decide nothing.          *)
(***************************************************************************)
EXTENDS Integers, Sequences, FiniteSets

CONSTANTS
    Samples,        \* the labelled requests there may be
    Nobody,         \* the empty identity of a request kept without one
    HoldOf, HoldIn, \* the latest HoldOf out of HoldIn are held out (1 in 5)
    MinHoldout,     \* requests a verdict takes (50)
    MinHoldoutBots, \* bots among them (5)
    MaxSamples      \* bound: requests collected

ASSUME EvaluationAssumption ==
    /\ HoldOf \in Nat /\ HoldIn \in Nat \ {0} /\ HoldOf <= HoldIn
    /\ MinHoldout \in Nat /\ MinHoldoutBots \in Nat /\ MaxSamples \in Nat
    /\ \A x \in Samples :
        /\ DOMAIN x = {"identity", "at", "automated", "model", "rules"}
        /\ x.at \in Int /\ x.automated \in BOOLEAN
        /\ {x.model, x.rules} \subseteq {"allow", "challenge", "block"}

VARIABLES
    samples,        \* the requests collected, in the order they are read
    verdict         \* what the last evaluation said

evaluationVars == <<samples, verdict>>

EvaluationTypeOK ==
    /\ samples \in Seq(Samples)
    /\ verdict \in {"none", "hold", "promote"}

EvaluationInit == samples = <<>> /\ verdict = "none"

-----------------------------------------------------------------------------
(* SplitLeakageSafe, on the places of the requests. *)

\* The sort by time is stable.
Earlier(s, i, j) == s[i].at < s[j].at \/ (s[i].at = s[j].at /\ i < j)
Place(s, i) == Cardinality({j \in DOMAIN s : Earlier(s, j, i)}) + 1

\* int(n * 0.2) is n \div 5: the float is never short of a whole number.
SplitIdx(s) == Len(s) - (Len(s) * HoldOf) \div HoldIn

Late(s) == {i \in DOMAIN s : Place(s, i) > SplitIdx(s)}
Seen(s) == {s[i].identity : i \in DOMAIN s \ Late(s)} \ {Nobody}

Holdout_Leaking(s) == Late(s)

\* A visitor that was trained on is not graded on.
Holdout(s) == {i \in Late(s) : s[i].identity \notin Seen(s)}

-----------------------------------------------------------------------------
(* RunPromotion. *)

BotsIn(s, h) == {i \in h : s[i].automated}

\* Evaluate and RulesScored: the bots a side stops, the humans it refuses.
Stopped(s, h, side) == Cardinality({i \in BotsIn(s, h) : s[i][side] # "allow"})
Blocked(s, h, side) == Cardinality({i \in h \ BotsIn(s, h) : s[i][side] = "block"})

Promotion(s) ==
    LET h == Holdout(s) IN
    IF \/ Cardinality(h) < MinHoldout
       \/ Cardinality(BotsIn(s, h)) < MinHoldoutBots
       \/ Stopped(s, h, "model") < Stopped(s, h, "rules")
       \/ Blocked(s, h, "model") > Blocked(s, h, "rules")
    THEN "hold" ELSE "promote"

AddSample(x) ==
    /\ Len(samples) < MaxSamples
    /\ samples' = Append(samples, x)
    /\ verdict' = "none"

RunPromotion ==
    /\ verdict' = Promotion(samples)
    /\ UNCHANGED samples

EvaluationNext == RunPromotion \/ \E x \in Samples : AddSample(x)

EvaluationSpec == EvaluationInit /\ [][EvaluationNext]_evaluationVars

-----------------------------------------------------------------------------
(* What must hold. *)

SameVisitor(i, j) ==
    samples[i].identity = samples[j].identity /\ samples[i].identity # Nobody

\* Any n requests none of which is later than one of the others.
Foremost(n) ==
    {P \in SUBSET DOMAIN samples :
        /\ Cardinality(P) = n
        /\ \A i \in P, j \in DOMAIN samples \ P : samples[i].at <= samples[j].at}

\* A promoted model has beaten the rules on the latest requests of visitors
\* it was not trained on: it lets no more of their bots through and refuses
\* no more of their humans (SplitLeakageSafe, RunPromotion).
PromotedOnStrangers ==
    verdict = "promote" =>
        \E P \in Foremost(SplitIdx(samples)) :
            LET strangers == {i \in DOMAIN samples \ P : \A j \in P : ~ SameVisitor(i, j)}
                Missed(side) ==
                    {i \in strangers : samples[i].automated /\ samples[i][side] = "allow"}
                Refused(side) ==
                    {i \in strangers : ~ samples[i].automated /\ samples[i][side] = "block"}
            IN  /\ Cardinality(strangers) >= MinHoldout
                /\ Cardinality(Missed("model")) <= Cardinality(Missed("rules"))
                /\ Cardinality(Refused("model")) <= Cardinality(Refused("rules"))
=============================================================================
