----------------------------- MODULE PolicyFeed -----------------------------
(***************************************************************************)
(* What a node's policy provider promises the guard about one tenant, with *)
(* no cache, loader or invalidation in sight: asked at any time, it knows  *)
(* no policy, or the latest revision it has ever answered with, or a later *)
(* one.  It never answers with an older one, not even after it has         *)
(* forgotten the tenant in between.  PolicyProvider implements this        *)
(* specification, and Guard's provider takes its steps.                    *)
(***************************************************************************)
EXTENDS Integers

VARIABLES
    answers,        \* the revision a request would get, 0 for none
    newest          \* the latest revision ever answered with

feedVars == <<answers, newest>>

FeedInit == answers = 0 /\ newest = 0

\* An entry expires, is evicted or invalidated, or turns out unusable.
Forget ==
    /\ answers # 0
    /\ answers' = 0
    /\ UNCHANGED newest

\* Another revision is loaded, or the newest once more.
Learn ==
    /\ answers' > 0
    /\ answers' # answers
    /\ answers' >= newest
    /\ newest' = answers'

FeedNext == Forget \/ Learn

FeedSpec == FeedInit /\ [][FeedNext]_feedVars
=============================================================================
