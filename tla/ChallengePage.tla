--------------------------- MODULE ChallengePage ----------------------------
(***************************************************************************)
(* The script of the challenge page and the checks the verify call makes   *)
(* of what it posts (pkg/challenge: challenge.go, telemetry.go).           *)
(*                                                                         *)
(* A browser is what the script can find out about it:                     *)
(*   tells      signs of automation it shows (navigator.webdriver, globals *)
(*              of a framework, an inconsistent brand, ...)                *)
(*   renderer   what the graphics driver says it is                        *)
(*   claims     the systems its platform and user agent name               *)
(*   canvas     what the first canvas shows, "text", "noise" or "none"     *)
(*   proof, proof2   the lengths of the two canvases' images, in KB        *)
(*   form, form2     their lengths in the posted form, which escapes some  *)
(*                   characters of an image by three: how many there are   *)
(*                   depends on what was drawn                             *)
(***************************************************************************)
EXTENDS Integers

MaxBody == 64           \* maxVerifyBodyBytes, in KB
MaxProof == 48          \* maxCanvasProofLen
MaxProofPair == 40      \* what the two may measure together
OtherFields == 1        \* the token and the short fields

MaxElapsed == 600000    \* maxElapsedMillis
MaxCounter == 200000    \* hashes the page tries

-----------------------------------------------------------------------------
(* The page. *)

\* An answer is found after some number of hashes, or given up.
AnswerAfter(hashes) == IF hashes > MaxCounter THEN "none" ELSE "counter"

Automation(browser) == browser.tells # {}

\* A driver of one system under a browser that claims another.
DriverOf == [direct3d |-> "windows", metal |-> "apple", adreno |-> "android"]
Headless(browser) ==
    \/ browser.renderer = "software"
    \/ /\ browser.renderer \in DOMAIN DriverOf
       /\ DriverOf[browser.renderer] \notin browser.claims

\* The second canvas is posted only beside a small first one.
SecondProof(browser) ==
    browser.proof2 > 0 /\ browser.proof + browser.proof2 < MaxProofPair

Report(browser, hashes, elapsed) ==
    [answer |-> AnswerAfter(hashes), canvas |-> browser.canvas, proof |-> browser.proof,
     proof2 |-> IF SecondProof(browser) THEN browser.proof2 ELSE 0,
     form |-> browser.form + (IF SecondProof(browser) THEN browser.form2 ELSE 0),
     automation |-> Automation(browser), headless |-> Headless(browser),
     elapsed |-> elapsed]

-----------------------------------------------------------------------------
(* The verify call. *)

\* MaxBytesReader under ParseForm
FormFits(report) == report.form + OtherFields <= MaxBody

\* parseTelemetry: the clock of the page may have been set meanwhile.
TelemetryParses(report) ==
    /\ report.elapsed \in 0 .. MaxElapsed
    /\ report.proof2 <= MaxProof

ValidPoW(report) == report.answer = "counter"

\* An image of the right size with some pixels drawn, but not half of them.
ValidCanvasProof(report) == report.canvas = "text" /\ report.proof <= MaxProof

\* What a spent puzzle earns: the checks in the order they are made.
Outcome(report) ==
    IF /\ ValidPoW(report)
       /\ ValidCanvasProof(report)
       /\ ~ report.automation /\ ~ report.headless
    THEN "solved"
    ELSE "failed"
=============================================================================
