----------------------------- MODULE OriginPage -----------------------------
(***************************************************************************)
(* The answer of the origin on its way to a visitor (pkg/core/proxy.go,    *)
(* pkg/deception): passed on as it comes, or, for a visitor to be          *)
(* deceived, read into a buffer and sent with the payload in it.           *)
(*                                                                         *)
(* The origin's connection may end early.  The HTTP client then reports    *)
(* io.ErrUnexpectedEOF if it was closed and another error if it was reset  *)
(* or timed out: "cut" and "broken" here.                                  *)
(***************************************************************************)
EXTENDS Integers, Sequences

CONSTANTS
    Lengths,        \* of the pages
    Cap,            \* longest page that is rewritten (512 KB)
    FirstBuffer     \* buffer for a page of unknown length (64 KB)

ASSUME OriginPageAssumption ==
    /\ Lengths \subseteq Nat
    /\ Cap \in Nat /\ FirstBuffer \in 1 .. Cap

VARIABLES
    page,           \* what the origin sends
    rewriting,      \* what the proxy does with it
    received        \* what the visitor has got

pageVars == <<page, rewriting, received>>

\* The bytes of a page are told apart by their positions, from 1.
Payload == 0
Unknown == -1
Bytes(n) == [i \in 1 .. n |-> i]
Prefix(s, n) == SubSeq(s, 1, n)

Ends == {"open", "whole", "cut", "broken"}

PageTypeOK ==
    /\ page \in [length : Lengths, declared : BOOLEAN, rewritable : BOOLEAN,
                 sent : Nat, end : Ends]
    /\ page.sent <= page.length
    /\ page.end = "whole" => page.sent = page.length
    /\ rewriting \in [step : {"headers", "buffer", "stream", "done"},
                      size : 0 .. Cap + 1, taken : 0 .. page.sent]
    /\ rewriting.step = "buffer" => rewriting.taken <= rewriting.size
    /\ received \in [body : Seq(Nat), length : Nat \cup {Unknown},
                     as : {"nothing", "open", "complete", "aborted", "error page"}]

\* "rewritable": a whole, uncompressed HTML page for a visitor to be deceived.
PageInit ==
    /\ page \in [length : Lengths, declared : BOOLEAN, rewritable : BOOLEAN,
                 sent : {0}, end : {"open"}]
    /\ rewriting = [step |-> "headers", size |-> 0, taken |-> 0]
    /\ received = [body |-> <<>>, length |-> Unknown, as |-> "nothing"]

-----------------------------------------------------------------------------
(* The origin. *)

OriginSends(n) ==
    /\ page.end = "open" /\ page.sent + n <= page.length
    /\ page' = [page EXCEPT !.sent = @ + n]
    /\ UNCHANGED <<rewriting, received>>

\* A page of unknown length may also lose just the mark of its end.
OriginEnds(how) ==
    /\ page.end = "open"
    /\ IF how = "whole" THEN page.sent = page.length
       ELSE page.declared => page.sent < page.length
    /\ page' = [page EXCEPT !.end = how]
    /\ UNCHANGED <<rewriting, received>>

-----------------------------------------------------------------------------
(* The proxy. *)

Declared == IF page.declared THEN page.length ELSE Unknown

\* deceiveResponse leaves alone what it need not or cannot rewrite.
DeceiveResponse ==
    /\ rewriting.step = "headers"
    /\ IF ~ page.rewritable \/ Declared > Cap
       THEN /\ rewriting' = [rewriting EXCEPT !.step = "stream"]
            /\ received' = [body |-> <<>>, length |-> Declared, as |-> "open"]
       ELSE /\ rewriting' = [step |-> "buffer", taken |-> 0,
                             size |-> IF page.declared THEN page.length + 1 ELSE FirstBuffer]
            /\ UNCHANGED received
    /\ UNCHANGED page

BufferFull == page.sent >= rewriting.size

\* One readBody that fills the buffer: it is grown, once, to find out whether
\* the page ends below the cap.
GrowBuffer ==
    /\ rewriting.step = "buffer" /\ BufferFull
    /\ rewriting.size <= Cap
    /\ rewriting' = [rewriting EXCEPT !.taken = rewriting.size, !.size = Cap + 1]
    /\ UNCHANGED <<page, received>>

HandBack_RestOnly ==
    /\ rewriting.step = "buffer" /\ BufferFull
    /\ rewriting.size > Cap
    /\ rewriting' = [rewriting EXCEPT !.step = "stream", !.taken = rewriting.size]
    /\ received' = [body |-> <<>>, length |-> Declared, as |-> "open"]
    /\ UNCHANGED page

\* Too long to rewrite: the visitor gets what was read, and then the rest.
HandBack ==
    /\ rewriting.step = "buffer" /\ BufferFull
    /\ rewriting.size > Cap
    /\ rewriting' = [rewriting EXCEPT !.step = "stream", !.taken = rewriting.size]
    /\ received' = [body |-> Bytes(rewriting.size), length |-> Declared, as |-> "open"]
    /\ UNCHANGED page

\* InjectPayload: before the last closing tag, wherever that is, or at the end.
InjectPayload(body, at) ==
    IF body = <<>> THEN body
    ELSE Prefix(body, at) \o <<Payload>> \o SubSeq(body, at + 1, Len(body))

LengthSent(body) == Len(body)

\* A page that ends below the size of the buffer is rewritten, and goes out
\* with the length it has now.  ReadFull's io.ErrUnexpectedEOF counts as the
\* end, whether it is ReadFull that says so or the connection.
Rewrite(at) ==
    LET body == InjectPayload(Bytes(page.sent), at) IN
    /\ rewriting.step = "buffer" /\ ~ BufferFull
    /\ page.end \in {"whole", "cut"}
    /\ at \in 0 .. page.sent
    /\ rewriting' = [rewriting EXCEPT !.step = "done", !.taken = page.sent]
    /\ received' = [body |-> body, length |-> LengthSent(body), as |-> "complete"]
    /\ UNCHANGED page

\* Any other error: ErrorHandler's page.
ReadFails ==
    /\ rewriting.step = "buffer" /\ ~ BufferFull
    /\ page.end = "broken"
    /\ rewriting' = [rewriting EXCEPT !.step = "done"]
    /\ received' = [received EXCEPT !.as = "error page"]
    /\ UNCHANGED page

\* ReverseProxy copies the stream, and aborts the visitor's connection when
\* the origin's fails.
CopyMore ==
    /\ rewriting.step = "stream" /\ rewriting.taken < page.sent
    /\ received' = [received EXCEPT !.body = Append(@, rewriting.taken + 1)]
    /\ rewriting' = [rewriting EXCEPT !.taken = @ + 1]
    /\ UNCHANGED page

CopyEnds ==
    /\ rewriting.step = "stream" /\ rewriting.taken = page.sent
    /\ page.end # "open"
    /\ received' = [received EXCEPT !.as = IF page.end = "whole" THEN "complete" ELSE "aborted"]
    /\ rewriting' = [rewriting EXCEPT !.step = "done"]
    /\ UNCHANGED page

PageDone == rewriting.step = "done" /\ UNCHANGED pageVars

PageNext ==
    \/ \E n \in Lengths : n > 0 /\ OriginSends(n)
    \/ \E how \in Ends \ {"open"} : OriginEnds(how)
    \/ DeceiveResponse
    \/ GrowBuffer
    \/ HandBack
    \/ \E at \in 0 .. Cap : Rewrite(at)
    \/ ReadFails
    \/ CopyMore
    \/ CopyEnds
    \/ PageDone

PageSpec == PageInit /\ [][PageNext]_pageVars

-----------------------------------------------------------------------------
(* What must hold. *)

\* The first n bytes of the page, with a payload after "at" of them.
WithPayload(n, at) ==
    [i \in 1 .. n + 1 |-> CASE i <= at -> i [] i = at + 1 -> Payload [] i > at + 1 -> i - 1]

\* How many bytes of the page there are in a body that has at most one payload.
OfOrigin(body) ==
    IF \E i \in DOMAIN body : body[i] = Payload THEN Len(body) - 1 ELSE Len(body)

\* Whatever the buffer, the cap and the pace of the origin: a visitor gets
\* the origin's bytes, none lost, repeated or moved, with at most one payload
\* among them; an answer that is complete is as long as it said it would be,
\* and is the whole page if the origin sent the whole page.
BodyIntact ==
    LET n == OfOrigin(received.body) IN
    /\ received.body = Bytes(n) \/ \E at \in 0 .. n : received.body = WithPayload(n, at)
    /\ received.as = "complete" => received.length \in {Unknown, Len(received.body)}
    /\ received.as = "complete" /\ page.end = "whole" => n = page.length

\* What the comment on readBody promises: no visitor takes a page that the
\* origin failed to finish for a complete one.
NeverSilentlyTruncated ==
    received.as = "complete" => OfOrigin(received.body) = page.length
=============================================================================
