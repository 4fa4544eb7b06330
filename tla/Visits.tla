------------------------------- MODULE Visits -------------------------------
(***************************************************************************)
(* What one browser carries between challenges (pkg/challenge: auth.go,    *)
(* adaptive.go): the cookie that counts its failed attempts and makes the  *)
(* next puzzle harder, and the cookie a solve earns, whose life depends on *)
(* how hard the puzzle was.  Both are dated and signed by whichever server *)
(* answers, and read by any other.                                         *)
(*                                                                         *)
(* Its tabs share the cookies.  A request carries those of the moment it   *)
(* is sent; answers arrive in any order, however late, or never.           *)
(***************************************************************************)
EXTENDS ChallengePage, FiniteSets

CONSTANTS
    Servers,
    Ahead,          \* server -> ticks its clock is ahead of the slowest one's
    MaxSkew,
    Tabs,
    Browsers,       \* what the visitor's browser may be, as ChallengePage says
    Scores,         \* what the guard may score a request
    TokenLife,      \* age at which a puzzle is refused (2 min)
    AttemptLife,    \* how long a failure is remembered (15 min)
    TrustWindow,    \* difficulty -> how long a solve is trusted (30, 15, 5 min)
    MaxAttempts     \* failures counted (6)

MinDifficulty == 1
MaxDifficulty == 3
Difficulties == MinDifficulty .. MaxDifficulty
AttemptsPerStep == 2
ScoreMidBand == 50

ASSUME VisitsAssumption ==
    /\ MaxSkew \in Nat /\ Ahead \in [Servers -> 0 .. MaxSkew]
    /\ \A b \in Browsers :
            /\ b.proof \in Nat /\ b.form \in b.proof .. 3 * b.proof
            /\ b.proof2 \in Nat /\ b.form2 \in b.proof2 .. 3 * b.proof2
    /\ Scores \subseteq Nat
    /\ TokenLife \in Nat /\ AttemptLife \in Nat
    /\ TrustWindow \in [Difficulties -> Nat]
    /\ \A d, e \in Difficulties : d <= e => TrustWindow[e] <= TrustWindow[d]
    /\ MaxAttempts \in Nat \ {0}

VARIABLES
    browser,        \* what the browser is
    jar,            \* its two cookies
    tab,            \* what each tab is doing
    trust,          \* history: how much longer some solve deserves to be trusted
    streak          \* history: failures in a row, none much later than the one before

visitsVars == <<browser, jar, tab, trust, streak>>

\* Ages are measured on the slowest clock: a stamp of a clock that is ahead
\* has a negative one.
NoCookie == [age |-> "none"]
Oldest == TrustWindow[MinDifficulty] + AttemptLife + TokenLife + 1
Ages == - MaxSkew .. Oldest
AttemptCookie == [n : 1 .. MaxAttempts, age : Ages]
PassedCookie == [difficulty : Difficulties, age : Ages]
Token == [difficulty : Difficulties, age : Ages]

NoTab == [step |-> "closed"]
Solving == [step : {"solving"}, token : Token]
Solved == [step : {"solved"}, cookie : PassedCookie]
Failed == [step : {"failed"}, cookie : AttemptCookie]

Reports == {Report(browser, 0, elapsed) : elapsed \in {-1, 0}}
              \cup {Report(browser, MaxCounter + 1, 0)}

VisitsTypeOK ==
    /\ browser \in Browsers
    /\ jar \in [attempt : AttemptCookie \cup {NoCookie}, passed : PassedCookie \cup {NoCookie}]
    /\ tab \in [Tabs -> {NoTab} \cup Solving \cup Solved \cup Failed]
    /\ trust \in -1 .. TrustWindow[MinDifficulty] + MaxSkew
    /\ streak \in [n : 0 .. MaxAttempts, age : 0 .. AttemptLife + MaxSkew]

VisitsInit ==
    /\ browser \in Browsers
    /\ jar = [attempt |-> NoCookie, passed |-> NoCookie]
    /\ tab = [t \in Tabs |-> NoTab]
    /\ trust = -1
    /\ streak = [n |-> 0, age |-> 0]

-----------------------------------------------------------------------------
(* The cookies, as server i reads and writes them. *)

Stamp(i) == - Ahead[i]
AgeSeen(c, i) == c.age + Ahead[i]

Attempts_Undated(c, i) == IF c # NoCookie THEN c.n ELSE 0

Attempts(c, i) ==
    IF c # NoCookie /\ AgeSeen(c, i) \in 0 .. AttemptLife THEN c.n ELSE 0

RecordAttempt(c, i) ==
    [n |-> IF Attempts(c, i) < MaxAttempts THEN Attempts(c, i) + 1 ELSE MaxAttempts,
     age |-> Stamp(i)]

Passed_FullWindow(c, i) ==
    c # NoCookie /\ AgeSeen(c, i) \in 0 .. TrustWindow[MinDifficulty]

Passed(c, i) ==
    c # NoCookie /\ AgeSeen(c, i) \in 0 .. TrustWindow[c.difficulty]

DifficultyForScore(score) ==
    IF score <= 0 THEN MinDifficulty
    ELSE IF score < ScoreMidBand THEN MinDifficulty + 1 ELSE MaxDifficulty

DifficultyFor(score, priorAttempts) ==
    LET d == DifficultyForScore(score) + priorAttempts \div AttemptsPerStep
    IN  IF d > MaxDifficulty THEN MaxDifficulty ELSE d

-----------------------------------------------------------------------------
(* A tab. *)

TabAt(t, step) == tab[t].step = step
TabDoes(t, does) == tab' = [tab EXCEPT ![t] = does]

\* Guard lets a visitor with a valid cookie through, and serves any other a
\* puzzle as hard as its score and its failures call for.
AskForPage(t, i, score) ==
    /\ tab[t] = NoTab
    /\ ~ Passed(jar.passed, i)
    /\ TabDoes(t, [step |-> "solving",
                   token |-> [difficulty |-> DifficultyFor(score, Attempts(jar.attempt, i)),
                              age |-> Stamp(i)]])
    /\ UNCHANGED <<browser, jar, trust, streak>>

LiveToken(token, i) == AgeSeen(token, i) \in 0 .. TokenLife

\* The nonce may be used up (Challenge says when).
OutcomeAt(t, i, report, consumed) ==
    IF /\ FormFits(report)
       /\ LiveToken(tab[t].token, i)
       /\ TelemetryParses(report)
       /\ consumed
    THEN Outcome(report)
    ELSE "refused"

Lasting(d) == TrustWindow[d] + MaxSkew

SetPassedCookie(difficulty, i) == [difficulty |-> difficulty, age |-> Stamp(i)]

\* The script ends and posts its report, and server i answers.  A refusal
\* changes nothing, and the page offers another try.
VerifyAnswer(t, i, report, consumed) ==
    LET outcome == OutcomeAt(t, i, report, consumed)
        difficulty == tab[t].token.difficulty
    IN  /\ TabAt(t, "solving")
        /\ TabDoes(t,
             IF outcome = "solved"
             THEN [step |-> "solved", cookie |-> SetPassedCookie(difficulty, i)]
             ELSE IF outcome = "failed"
             THEN [step |-> "failed", cookie |-> RecordAttempt(jar.attempt, i)]
             ELSE NoTab)
        /\ trust' = IF outcome = "solved" /\ trust < Lasting(difficulty)
                    THEN Lasting(difficulty) ELSE trust
        /\ streak' = IF outcome # "failed" THEN streak
                     ELSE [n |-> IF streak.n < MaxAttempts THEN streak.n + 1 ELSE MaxAttempts,
                           age |-> 0]
        /\ UNCHANGED <<browser, jar>>

\* The answer arrives, and the page reloads or is asked for again.  A solve
\* also clears the failures.
ReceiveAnswer(t) ==
    /\ \/ TabAt(t, "solved") /\ jar' = [attempt |-> NoCookie, passed |-> tab[t].cookie]
       \/ TabAt(t, "failed") /\ jar' = [attempt |-> tab[t].cookie, passed |-> jar.passed]
    /\ TabDoes(t, NoTab)
    /\ UNCHANGED <<browser, trust, streak>>

\* The post or its answer is lost, or the visitor leaves the page.
LoseAnswer(t) ==
    /\ tab[t] # NoTab
    /\ TabDoes(t, NoTab)
    /\ UNCHANGED <<browser, jar, trust, streak>>

DropCookie(which) ==
    /\ jar[which] # NoCookie
    /\ jar' = [jar EXCEPT ![which] = NoCookie]
    /\ UNCHANGED <<browser, tab, trust, streak>>

-----------------------------------------------------------------------------
(* Time. *)

Elder(c, life) ==
    IF c = NoCookie THEN c
    ELSE [c EXCEPT !.age = IF @ > life THEN @ ELSE @ + 1]

Longest == TrustWindow[MinDifficulty]

TabTick(doing) ==
    IF doing.step = "closed" THEN doing
    ELSE IF doing.step = "solving" THEN [doing EXCEPT !.token = Elder(@, TokenLife)]
    ELSE [doing EXCEPT !.cookie = Elder(@, IF doing.step = "failed" THEN AttemptLife ELSE Longest)]

VisitsTick ==
    /\ jar' = [attempt |-> Elder(jar.attempt, AttemptLife), passed |-> Elder(jar.passed, Longest)]
    /\ tab' = [t \in Tabs |-> TabTick(tab[t])]
    /\ trust' = IF trust >= 0 THEN trust - 1 ELSE trust
    /\ streak' = IF streak.age = AttemptLife + MaxSkew \/ streak.n = 0
                 THEN [n |-> 0, age |-> 0]
                 ELSE [streak EXCEPT !.age = @ + 1]
    /\ UNCHANGED browser

VisitsNext ==
    \/ \E t \in Tabs, i \in Servers, score \in Scores : AskForPage(t, i, score)
    \/ \E t \in Tabs, i \in Servers, report \in Reports, consumed \in BOOLEAN :
            VerifyAnswer(t, i, report, consumed)
    \/ \E t \in Tabs : ReceiveAnswer(t) \/ LoseAnswer(t)
    \/ \E which \in {"attempt", "passed"} : DropCookie(which)
    \/ VisitsTick

VisitsSpec == VisitsInit /\ [][VisitsNext]_visitsVars

-----------------------------------------------------------------------------
(* What must hold. *)

\* A browser is let through only while a solve of its own deserves it: for
\* the time the puzzle it solved buys, by any server's clock, whichever of
\* its tabs' answers came last and however long they were under way.
TrustIsEarned ==
    \A i \in Servers : Passed(jar.passed, i) => trust >= 0

\* No browser gets a harder puzzle than its score calls for, unless it has
\* failed AttemptsPerStep times for each step, none of them longer after the
\* one before than a failure is remembered (whichever clock measures it):
\* a single failure costs nothing, and tabs never count one twice.
EscalationIsEarned ==
    \A i \in Servers, score \in Scores :
        DifficultyFor(score, Attempts(jar.attempt, i))
            <= DifficultyForScore(score) + streak.n \div AttemptsPerStep
=============================================================================
