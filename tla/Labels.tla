------------------------------- MODULE Labels -------------------------------
(***************************************************************************)
(* Label collection (pkg/labels): challenges park a sample, a solve claims *)
(* it, a honeypot trip makes one; the cap counts it against its client and *)
(* the collector queues it for a background writer that writes batches.    *)
(* Close runs while handlers that the server's shutdown gave up on still   *)
(* record (main.go:430, the deferred Close at main.go:288).                *)
(*                                                                         *)
(* From the queue on a sample is its nonce, or "trip" for a honeypot       *)
(* sample: the rest of its data decides nothing here.                      *)
(***************************************************************************)
EXTENDS IdentityCap, PendingSamples, Sequences, SequencesExt

CONSTANTS
    Handlers,       \* request handlers that record
    QueueSize,
    BatchSize,
    NoSample

ASSUME LabelsAssumption ==
    /\ Clients = Identities
    /\ IsFiniteSet(Identities)
    /\ IsFiniteSet(Nonces)
    /\ QueueSize \in Nat \ {0}
    /\ BatchSize \in Nat \ {0}
    /\ "trip" \notin Nonces

VARIABLES
    pending,        \* the parked samples (PendingSamples)
    cap,            \* the identity cap (IdentityCap)
    unissued,       \* nonces no challenge has used yet
    handler,        \* what each handler is doing
    queue, closed,  \* the collector's channel
    closing,        \* how far Close has come
    writer, batch,  \* the background writer
    recorded,       \* history: how often each nonce's sample passed the cap
    accepted        \* history: samples of a client that passed the cap in the
                    \* last age + 1 ticks

stores == <<pending, cap, unissued>>
channel == <<queue, closed>>
writing == <<writer, batch>>
history == <<recorded, accepted>>
vars == <<pending, cap, unissued, handler, queue, closed, closing, writer, batch,
          recorded, accepted>>

Sample == Nonces \cup {"trip"}
Idle == [step |-> "idle", sample |-> NoSample, identity |-> NoSample]
Handler == {Idle} \cup
    [step : {"recording"}, sample : Sample, identity : Identities] \cup
    [step : {"locking", "sending"}, sample : Sample, identity : {NoSample}]

TypeOK ==
    /\ pending \in Pendings
    /\ Cardinality(Parked(pending)) <= MaxPending
    /\ cap \in Caps
    /\ Cardinality(Tracked(cap.seen)) <= MaxIdentities
    /\ unissued \subseteq Nonces
    /\ handler \in [Handlers -> Handler]
    /\ queue \in BoundedSeq(Sample, QueueSize)
    /\ closed \in BOOLEAN
    /\ closing \in {"open", "locking", "draining", "closed"}
    /\ writer \in {"select", "flushing", "last flush", "done"}
    /\ batch \in BoundedSeq(Sample, BatchSize)
    /\ recorded \in [Nonces -> Nat]
    /\ accepted \in [Identities -> [0 .. CapWindow - 1 -> Nat]]

Init ==
    /\ pending = NoPendings
    /\ cap = NoCaps
    /\ unissued = Nonces
    /\ handler = [h \in Handlers |-> Idle]
    /\ queue = <<>>
    /\ closed = FALSE
    /\ closing = "open"
    /\ writer = "select"
    /\ batch = <<>>
    /\ recorded = [n \in Nonces |-> 0]
    /\ accepted = [i \in Identities |-> [age \in 0 .. CapWindow - 1 |-> 0]]

-----------------------------------------------------------------------------
(* The recorder's entry points. *)

ChallengeIssued(n, i) ==
    /\ n \in unissued
    /\ unissued' = unissued \ {n}
    /\ pending' = Park(pending, n, i)
    /\ UNCHANGED <<cap, handler, channel, closing, writing, history>>

\* An unknown or expired nonce labels nothing.
ChallengeSolved(h, n) ==
    /\ handler[h] = Idle
    /\ n \notin unissued
    /\ handler' = [handler EXCEPT ![h] =
                      IF Claimable(pending, n)
                      THEN [step |-> "recording", sample |-> n,
                            identity |-> pending.parked[n].identity]
                      ELSE Idle]
    /\ pending' = AfterClaim(pending, n)
    /\ UNCHANGED <<cap, unissued, channel, closing, writing, history>>

HoneypotTripped(h, i) ==
    /\ handler[h] = Idle
    /\ handler' = [handler EXCEPT ![h] =
                      [step |-> "recording", sample |-> "trip", identity |-> i]]
    /\ UNCHANGED <<stores, channel, closing, writing, history>>

-----------------------------------------------------------------------------
(* Collector.Record. *)

\* The cap, before the queue.
Count(h) ==
    /\ handler[h].step = "recording"
    /\ LET i == handler[h].identity
           n == handler[h].sample
       IN  /\ cap' = AfterAllow(cap, i)
           /\ IF Allows(cap, i)
              THEN /\ handler' = [handler EXCEPT ![h] =
                          [step |-> "locking", sample |-> n, identity |-> NoSample]]
                   /\ accepted' = [accepted EXCEPT ![i] =
                          [age \in 0 .. CapWindow - 1 |-> @[age] + 1]]
                   /\ recorded' = [m \in Nonces |->
                                     recorded[m] + IF m = n THEN 1 ELSE 0]
              ELSE /\ handler' = [handler EXCEPT ![h] = Idle]
                   /\ UNCHANGED history
    /\ UNCHANGED <<pending, unissued, channel, closing, writing>>

\* closing.RLock, not while Close waits for the lock, and the look at closed,
\* which changes only under the write lock.
RLock(h) ==
    /\ handler[h].step = "locking"
    /\ closing # "locking"
    /\ handler' = [handler EXCEPT ![h] = IF closed THEN Idle
                                         ELSE [@ EXCEPT !.step = "sending"]]
    /\ UNCHANGED <<stores, channel, closing, writing, history>>

\* The send never blocks: a full queue drops the sample.  RUnlock follows.
Send(h) ==
    /\ handler[h].step = "sending"
    /\ queue' = IF Len(queue) < QueueSize THEN Append(queue, handler[h].sample) ELSE queue
    /\ handler' = [handler EXCEPT ![h] = Idle]
    /\ UNCHANGED <<stores, closed, closing, writing, history>>

-----------------------------------------------------------------------------
(* Collector.Close. *)

Close ==
    /\ closing = "open"
    /\ closing' = "locking"
    /\ UNCHANGED <<stores, handler, channel, writing, history>>

\* The write lock waits for the readers; the queue is closed under it.
CloseQueue_NoLock ==
    /\ closing = "locking"
    /\ closed' = TRUE
    /\ closing' = "draining"
    /\ UNCHANGED <<stores, handler, queue, writing, history>>
CloseQueue ==
    /\ closing = "locking"
    /\ \A h \in Handlers : handler[h].step # "sending"
    /\ closed' = TRUE
    /\ closing' = "draining"
    /\ UNCHANGED <<stores, handler, queue, writing, history>>

CloseReturns ==
    /\ closing = "draining"
    /\ writer = "done"
    /\ closing' = "closed"
    /\ UNCHANGED <<stores, handler, channel, writing, history>>

-----------------------------------------------------------------------------
(* The background writer. *)

Receive ==
    /\ writer = "select"
    /\ queue # <<>>
    /\ queue' = Tail(queue)
    /\ batch' = Append(batch, Head(queue))
    /\ writer' = IF Len(batch') >= BatchSize THEN "flushing" ELSE "select"
    /\ UNCHANGED <<stores, handler, closed, closing, history>>

\* A closed channel is received from only once it is empty.
ReceiveClosed_Drops ==
    /\ writer = "select"
    /\ closed /\ queue = <<>>
    /\ writer' = "done"
    /\ UNCHANGED <<stores, handler, channel, closing, batch, history>>
ReceiveClosed ==
    /\ writer = "select"
    /\ closed /\ queue = <<>>
    /\ writer' = IF batch = <<>> THEN "done" ELSE "last flush"
    /\ UNCHANGED <<stores, handler, channel, closing, batch, history>>

FlushTick_FullOnly ==
    /\ writer = "select"
    /\ Len(batch) >= BatchSize
    /\ writer' = "flushing"
    /\ UNCHANGED <<stores, handler, channel, closing, batch, history>>
FlushTick ==
    /\ writer = "select"
    /\ batch # <<>>
    /\ writer' = "flushing"
    /\ UNCHANGED <<stores, handler, channel, closing, batch, history>>

\* Written, or failed within its timeout: the batch is gone either way.
Flushed ==
    /\ writer \in {"flushing", "last flush"}
    /\ batch' = <<>>
    /\ writer' = IF writer = "flushing" THEN "select" ELSE "done"
    /\ UNCHANGED <<stores, handler, channel, closing, history>>

-----------------------------------------------------------------------------

Tick ==
    /\ pending' = OlderPendings(pending)
    /\ cap' = OlderCaps(cap)
    /\ accepted' = [i \in Identities |-> [age \in 0 .. CapWindow - 1 |->
                       IF age = 0 THEN 0 ELSE accepted[i][age - 1]]]
    /\ UNCHANGED <<unissued, handler, channel, closing, writing, recorded>>

Recording(h) == Count(h) \/ RLock(h) \/ Send(h)
Closing == CloseQueue \/ CloseReturns
Writing == Receive \/ ReceiveClosed \/ Flushed

Next ==
    \/ \E n \in Nonces, i \in Identities : ChallengeIssued(n, i)
    \/ \E h \in Handlers : \/ \E n \in Nonces : ChallengeSolved(h, n)
                           \/ \E i \in Identities : HoneypotTripped(h, i)
                           \/ Recording(h)
    \/ Close \/ Closing
    \/ Writing \/ FlushTick
    \/ Tick

Spec == Init /\ [][Next]_vars

\* Goroutines that can run do, and the flush ticker ticks.
FairSpec ==
    /\ Spec
    /\ \A h \in Handlers : WF_vars(Recording(h))
    /\ WF_vars(Closing)
    /\ WF_vars(Writing)
    /\ WF_vars(FlushTick)

-----------------------------------------------------------------------------
(* Properties. *)

(* No handler is about to send when the queue is closed: that send would     *)
(* panic even in a select with a default (labels.go:90-95).                  *)
NeverSendsOnClosed ==
    \A h \in Handlers : handler[h].step = "sending" => ~ closed

(* One solved challenge cannot produce two labels, however many requests     *)
(* carry its nonce at once (pending.go:72-74).                               *)
OneLabelPerChallenge == \A n \in Nonces : recorded[n] <= 1

(* In no stretch of one window does a client contribute more than two        *)
(* windows' allowance less the sample that opens the second one; a sweep or  *)
(* a full table never lets it start over sooner (cap.go:54-98).              *)
SlidingCap ==
    \A i \in Identities : accepted[i][CapWindow - 1] <= 2 * MaxPerIdentity - 1

(* Close returns, and by then everything the queue took has been flushed     *)
(* (labels.go:167-215).                                                      *)
CloseFlushes ==
    closing = "locking" ~> (closing = "closed" /\ queue = <<>> /\ batch = <<>>)

(* A queued sample does not sit in memory for ever on a quiet site: its      *)
(* batch is written or lost (labels.go:206-212).                             *)
Queued(n) == n \in ToSet(queue) \cup ToSet(batch)
NothingStaysQueued == \A n \in Nonces : Queued(n) ~> ~ Queued(n)
=============================================================================
