----------------------------- MODULE RequestLife -----------------------------
(***************************************************************************)
(* The life of one request in a gated location: how the access handler     *)
(* routes it, who still holds it, how its body is read and collected, and  *)
(* when it is answered and released.                                       *)
(*                                                                         *)
(* nginx counts references in r->main->count.  A request starts with one;  *)
(* reading its body takes a second one, given back by the access handler,  *)
(* since the ACCESS phase does not finalize on NGX_DONE.  The body may be  *)
(* there already, so that the callback runs inside the handler's own call, *)
(* or arrive later.  The callback collects the body from memory or from    *)
(* nginx's temporary file, and answers, or leaves the request to a job of  *)
(* the Redis client, which holds a cleanup entry and no reference.         *)
(*                                                                         *)
(* Routes: "asset" is an internal endpoint answered at once, "pass"        *)
(* redeems a no-JS grant, "verify" submits a solution, "content" is        *)
(* everything else.  The bytes of a body are numbered as the client sends  *)
(* them.  What the client, the peer address and the cookies say is chosen  *)
(* where the handler looks at it; Gate models what clears a client.        *)
(***************************************************************************)
EXTENDS Demand

CONSTANTS
  Limit,        \* VERIFY_LIMIT
  MaxBody,      \* bound on the bytes a client sends
  Levels,       \* difficulties of the challenges clients hold
  Cluster       \* whether redemption goes to Redis

ASSUME LifeAssumption ==
  Limit \in Nat \ {0} /\ MaxBody \in Nat /\ Cluster \in BOOLEAN /\ Levels \subseteq Nat \ {0}

VARIABLES
  cfg,          \* the Cfg of the location that serves the request
  demand,       \* the difficulty its configuration asks for (history)
  route,
  size,         \* bytes of the body
  count,        \* r->main->count
  pc,           \* where the request stands
  inside,       \* the access handler is still on the stack
  left,         \* bytes the client has not sent yet
  verify_bytes, \* bytes the body filter has counted
  verify_enabled,
  buffered,     \* the bytes nginx keeps in memory
  spool,        \* the bytes nginx has written to the temporary file
  spooled,      \* there is a temporary file
  out,          \* the bytes request_body_limited has collected
  cleanup,      \* the cleanup entry of a job is armed
  sent,         \* responses sent
  page,         \* the body a challenge page carries, or Plain
  work          \* what verify_body made of a solution (history)

location == <<cfg, demand, route>>
body == <<size, left, verify_bytes, verify_enabled, buffered, spool, spooled>>
outcome == <<out, page, work>>
life == <<count, pc, inside, cleanup, sent>>
requestVars == <<location, life, body, outcome>>

Unknown == -1                      \* content_length_n of a chunked body
Plain == <<0>>                     \* the page as it is cached
NoCfg == [enabled |-> FALSE]
NoWork == [value |-> 0, level |-> 0, demanded |-> 0, ok |-> FALSE]
Bytes(from, to) == [i \in 1 .. to - from + 1 |-> from + i - 1]

-----------------------------------------------------------------------------

\* ngx_http_finalize_request drops one reference; the last one frees.
Finalize(c) == c - 1

\* send_and_finish and its siblings: send the response, then finalize.
Respond == sent' = sent + 1 /\ count' = Finalize(count)

\* Where control goes when a callback or a response ends: back into the
\* access handler, or to the event loop.
After == IF inside THEN "return" ELSE "over"

\* A request is created for a location with this configuration.
Accept(c, d) ==
  /\ pc = "none"
  /\ cfg' = c /\ demand' = d
  /\ route' \in {"asset", "pass", "verify", "content"}
  /\ count' = 1
  /\ pc' = "new"
  /\ UNCHANGED <<inside, cleanup, sent, body, outcome>>

\* The handler is done with the request: it responds, or returns a status
\* with which the phase engine finalizes, or NGX_DECLINED and the content
\* handler answers.
Done ==
  /\ Respond
  /\ pc' = "over"
  /\ UNCHANGED <<location, inside, cleanup, body, outcome>>

\* The text the map gives for this request; silent without a directive.
DecisionRaw == IF cfg.mapped THEN Texts ELSE {Silent}

\* The gate is off, or the client is trusted, allowed, a verified crawler or
\* cleared.
Decline ==
  /\ pc = "new"
  /\ ~cfg.enabled \/ route = "content"
  /\ Done

\* challenge, status and solver.js, a path or a method the endpoint does not
\* have; pass without a usable key; verify with a declared body above the limit, or
\* without memory for the counter.
AnswerAtOnce ==
  /\ pc = "new" /\ cfg.enabled
  /\ route \in {"asset", "verify", "pass"}
  /\ Done

\* Every other client is denied or challenged; the no-JS page carries its
\* grant in a link, without reading a body.
DenyOrNoJs ==
  /\ pc = "new" /\ cfg.enabled /\ route = "content"
  /\ \E text \in DecisionRaw : Decision(text).kind \in {"deny", "nojs"}
  /\ Done

\* The client is challenged with the page: "content" that is not declined.
Challenged ==
  /\ pc = "new" /\ cfg.enabled /\ route = "content"
  /\ \E text \in DecisionRaw : Decision(text).kind \in {"challenge", "verify"}

\* The body read takes its reference; the declared length is all the handler
\* knows of what will come.
ReadBody(n) ==
  /\ size' = n /\ left' = n
  /\ count' = count + 1
  /\ inside' = TRUE
  /\ pc' = "reading"
  /\ UNCHANGED <<location, cleanup, sent, buffered, spool, spooled, outcome>>

\* verify_solution up to the call that reads the body.
VerifySolution(n, declared) ==
  /\ pc = "new" /\ cfg.enabled /\ route = "verify"
  /\ declared \in {Unknown, n} /\ declared <= Limit
  /\ verify_bytes' = 0 /\ verify_enabled' = TRUE
  /\ ReadBody(n)

\* should_capture and the start of capture_then_challenge: the body has a
\* declared length that fits the page.
Capture(n) ==
  /\ Challenged
  /\ cfg.replay /\ n \in 1 .. cfg.replay_max_body
  /\ UNCHANGED <<verify_bytes, verify_enabled>>
  /\ ReadBody(n)

\* A request that is not captured, for its length, its method or since
\* nothing would render the page, gets the page at once.
ChallengePage ==
  /\ Challenged
  /\ page' = Plain
  /\ Respond
  /\ pc' = "over"
  /\ UNCHANGED <<location, inside, cleanup, body, out, work>>

\* filter: a buffer of this size exceeds what is left of the limit.
TooLarge(n) == verify_enabled /\ n > Limit - verify_bytes

\* The body filter passes a buffer on to nginx, which keeps it.
Arrive(n) ==
  /\ pc = "reading" /\ n \in 1 .. left
  /\ ~TooLarge(n)
  /\ left' = left - n
  /\ verify_bytes' = IF verify_enabled THEN verify_bytes + n ELSE verify_bytes
  /\ buffered' = buffered \o Bytes(size - left + 1, size - left + n)
  /\ UNCHANGED <<location, life, size, verify_enabled, spool, spooled, outcome>>

\* nginx's buffer is full: what it holds goes to the temporary file.
Spill ==
  /\ pc = "reading" /\ buffered # <<>>
  /\ spool' = spool \o buffered /\ spooled' = TRUE
  /\ buffered' = <<>>
  /\ UNCHANGED <<location, life, size, left, verify_bytes, verify_enabled, outcome>>

\* The body filter answers 413.  Inside the handler's call nginx takes its
\* reference back and the phase engine finalizes with the status, or
\* capture_then_challenge sends the page; later, nginx finalizes itself.
\* nginx may also fail to read for reasons of its own.
ReadFails(n) ==
  /\ pc = "reading" /\ n \in 0 .. left
  /\ n > 0 => TooLarge(n)
  /\ count' = IF inside THEN Finalize(count - 1) ELSE Finalize(count)
  /\ sent' = sent + 1
  /\ inside' = FALSE
  /\ pc' = "over"
  /\ page' = IF inside /\ route = "content" THEN Plain ELSE page
  /\ UNCHANGED <<location, cleanup, body, out, work>>

\* Faulty variant: the handler keeps the reference of the body read.
SuspendHolding ==
  /\ pc = "reading" /\ inside /\ left > 0
  /\ inside' = FALSE
  /\ UNCHANGED <<location, count, pc, cleanup, sent, body, outcome>>

\* Not all of the body is there: the read returns, the handler gives its
\* reference back and returns NGX_DONE.
Suspend ==
  /\ pc = "reading" /\ inside /\ left > 0
  /\ count' = Finalize(count)
  /\ inside' = FALSE
  /\ UNCHANGED <<location, pc, cleanup, sent, body, outcome>>

\* The body is complete: once there is a file nginx writes the rest to it too,
\* so that the chain is in memory or is one range of the file.  Then it calls
\* verify_body or body_ready.
BodyReady ==
  /\ pc = "reading" /\ left = 0
  /\ spool' = IF spooled THEN spool \o buffered ELSE spool
  /\ buffered' = IF spooled THEN <<>> ELSE buffered
  /\ pc' = IF route = "verify" /\ ~cfg.key_ok THEN "callback" ELSE "collect"
  /\ UNCHANGED <<location, count, inside, cleanup, sent,
                 size, left, verify_bytes, verify_enabled, spooled, outcome>>

\* pass is entered with its token in the query: no body to wait for.
Pass ==
  /\ pc = "new" /\ cfg.enabled /\ route = "pass" /\ cfg.key_ok
  /\ pc' = "callback"
  /\ UNCHANGED <<location, count, inside, cleanup, sent, body, outcome>>

\* request_body_limited over a chain in memory: whole, or None above the
\* limit, which only verify_body sets.
CollectMemory ==
  /\ pc = "collect" /\ ~spooled
  /\ IF route = "verify" /\ Len(buffered) > Limit
     THEN pc' = "unreadable" /\ UNCHANGED out
     ELSE pc' = "collected" /\ out' = buffered
  /\ UNCHANGED <<location, count, inside, cleanup, sent, body, page, work>>

\* Faulty variant: every pread starts at the segment's offset.
ReadAtStart(filled, n) == SubSeq(spool, 1, n)

\* read_file_range, one pread: up to n bytes behind those it has.
ReadAt(filled, n) == SubSeq(spool, filled + 1, filled + n)

\* The same over the file: a pread returns some of the bytes that are asked
\* for, or nothing, and then the body is None.
CollectFile(n) ==
  /\ pc = "collect" /\ spooled
  /\ n \in 0 .. Len(spool) - Len(out)
  /\ out' = out \o ReadAt(Len(out), n)
  /\ pc' = CASE n = 0 \/ (route = "verify" /\ Len(spool) > Limit) -> "unreadable"
             [] n = Len(spool) - Len(out) -> "collected"
             [] OTHER -> "collect"
  /\ UNCHANGED <<location, count, inside, cleanup, sent, body, page, work>>

\* body_ready: the page with the captured request, or plain when Captured::new
\* refuses the target or the body is too long.  A body that could not be read
\* is an empty one (`unwrap_or_default').
BodyReadyPage(safe) ==
  LET collected == IF pc = "collected" THEN out ELSE <<>>
  IN /\ route = "content" /\ pc \in {"collected", "unreadable"}
     /\ page' = IF safe /\ Len(collected) <= cfg.replay_max_body THEN collected ELSE Plain
     /\ Respond
     /\ pc' = After
     /\ UNCHANGED <<location, inside, cleanup, body, out, work>>

\* The callback answers itself: an unusable key, an unreadable body, JSON,
\* public key, context or signature, a refused grant, or the outcome of a
\* redemption that is known at once (the shared zone; a cluster that is
\* unavailable, full, or whose connect fails inside redeem).
Answer ==
  /\ \/ pc \in {"callback", "valid"}
     \/ pc \in {"collected", "unreadable"} /\ route = "verify"
  /\ Respond
  /\ pc' = After
  /\ UNCHANGED <<location, inside, cleanup, body, outcome>>

\* Faulty variant: the level the client echoes is the one it must meet.
SolutionValidEchoed(level, hash, required) ==
  required.kind = "pow" /\ HashBelow(hash, Target(level))

\* pow::verify_solution on a challenge whose token is genuine and fresh.
SolutionValid(level, hash, required) ==
  required.kind = "pow" /\ level = required.n /\ HashBelow(hash, Target(level))

\* verify_body with a submission that parses: its challenge was issued at
\* some level, the decision is evaluated again and must demand that level,
\* and the hash must be below its target.
VerifyBody(text, level, hash) ==
  LET required == AssuranceFor(Decision(text), cfg.difficulty)
      ok == SolutionValid(level, hash, required)
  IN /\ pc = "collected" /\ route = "verify"
     /\ text \in DecisionRaw
     /\ work' = [value |-> Value(hash), level |-> level, demanded |-> Demanded(text, demand), ok |-> ok]
     /\ pc' = IF ok THEN "valid" ELSE After
     /\ IF ok THEN UNCHANGED <<sent, count>> ELSE Respond
     /\ UNCHANGED <<location, inside, cleanup, body, out, page>>

\* cluster::redeem takes responsibility for the request.
Redeem ==
  /\ Cluster
  /\ pc = "valid" \/ (pc = "callback" /\ route = "pass")
  /\ cleanup' = TRUE
  /\ pc' = After
  /\ UNCHANGED <<location, count, inside, sent, body, outcome>>

\* The handler continues behind the read, whose callback has already run: it
\* gives the reference of the read back and returns NGX_DONE.
Return ==
  /\ pc = "return"
  /\ count' = Finalize(count)
  /\ inside' = FALSE
  /\ pc' = "over"
  /\ UNCHANGED <<location, cleanup, sent, body, outcome>>

\* Faulty variant: the entry of a finished job stays armed.
CompleteArmed ==
  /\ cleanup /\ pc = "over"
  /\ Respond
  /\ cleanup' = cleanup
  /\ UNCHANGED <<location, pc, inside, body, outcome>>

\* complete: the job disarms its entry and finishes the request.
Complete ==
  /\ cleanup /\ pc = "over"
  /\ cleanup' = FALSE
  /\ Respond
  /\ UNCHANGED <<location, pc, inside, body, outcome>>

\* The client goes away, or its body takes longer than client_body_timeout:
\* nginx terminates the request and runs the cleanup entry, which is
\* `aborted' and detaches the job.
Terminate ==
  /\ \/ pc = "reading" /\ ~inside
     \/ pc = "over" /\ cleanup
  /\ count' = 0
  /\ cleanup' = FALSE
  /\ pc' = "gone"
  /\ UNCHANGED <<location, inside, sent, body, outcome>>

\* No handler, callback or job will run for the request any more.
Quiet == pc \in {"over", "gone"} /\ ~cleanup /\ UNCHANGED requestVars

RequestInit ==
  /\ cfg = NoCfg /\ demand = 0 /\ route = "none"
  /\ count = 0 /\ pc = "none" /\ inside = FALSE /\ cleanup = FALSE /\ sent = 0
  /\ size = 0 /\ left = 0 /\ verify_bytes = 0 /\ verify_enabled = FALSE
  /\ buffered = <<>> /\ spool = <<>> /\ spooled = FALSE
  /\ out = <<>> /\ page = Plain /\ work = NoWork

Progress ==
  \/ Decline \/ AnswerAtOnce \/ DenyOrNoJs \/ ChallengePage \/ Pass
  \/ \E n \in 0 .. MaxBody :
       \/ Capture(n) \/ ReadFails(n) \/ CollectFile(n)
       \/ \E declared \in {Unknown, n} : VerifySolution(n, declared)
  \/ Suspend \/ BodyReady \/ CollectMemory \/ Answer \/ Redeem \/ Return \/ Complete
  \/ \E safe \in BOOLEAN : BodyReadyPage(safe)
  \/ \E text \in Texts, level \in Levels, hash \in Hashes : VerifyBody(text, level, hash)
  \/ Terminate

RequestNext ==
  \/ Progress
  \/ \E n \in 1 .. MaxBody : Arrive(n)
  \/ Spill
  \/ Quiet

-----------------------------------------------------------------------------

\* The count is exact: one for the answer that is still to come, one for the
\* handler inside a body read.  So nothing that will run again, the handler
\* behind its read, a callback or a job, finds the request freed; nothing is
\* held once nobody will run; and a freed request has no armed cleanup entry
\* and was answered once, unless its client went away first.
Accounted ==
  /\ pc # "none" =>
       count = (IF sent = 0 /\ pc # "gone" THEN 1 ELSE 0) + (IF inside THEN 1 ELSE 0)
  /\ pc # "none" /\ count = 0 => ~cleanup /\ sent = (IF pc = "gone" THEN 0 ELSE 1)

\* A body that request_body_limited hands over is byte for byte the one the
\* client sent, in whatever pieces it came, was spilled and is read back; and
\* nginx never buffers more of a verify body than VERIFY_LIMIT, whatever
\* length was declared.
BodyExact ==
  /\ pc = "collected" => out = Bytes(1, size)
  /\ route = "verify" => Len(buffered) + Len(spool) <= Limit

\* A solution is redeemed only when its challenge was issued at the difficulty
\* d that the decision demands of this client in the location as it is
\* configured, and its hash is below floor(2^256 / d); never where the decision
\* demands no work.  Every such solution is redeemed, with one exception, on
\* which the code disagrees with its comment: at difficulty 1 "every hash
\* passes" (target.rs), but the target is the largest hash and the comparison
\* is strict, so that this one hash does not.
WorkIsDemanded ==
  work # NoWork =>
    LET due == work.level = work.demanded /\ work.value < Admitted(work.demanded)
    IN /\ work.ok => due
       /\ due => work.ok \/ (work.demanded = 1 /\ work.value = HashCount - 1)

\* "Any reason the request cannot be captured (unreadable body, unsafe target)
\* degrades to the plain page": a page that carries the request carries the
\* whole body of it.
ReplayIsWhole == page # Plain => page = Bytes(1, size)

\* What holds of it: no page carries a part of the body, however it was cut,
\* spilled and read back; a body that could not be read is left out as a whole.
ReplayIsWholeOrEmpty == page # Plain => page \in {<<>>, Bytes(1, size)}

\* Every request is released; a leaked reference would wedge its connection
\* ("the browser's next request on it hangs forever").
EveryRequestEnds == (pc = "new") ~> (count = 0)

\* How far the request stands from its end.
Distance ==
  CASE pc = "new" -> 8
    [] pc = "reading" -> IF inside THEN 7 ELSE 6
    [] pc = "collect" -> 5
    [] pc \in {"collected", "unreadable", "callback"} -> 4
    [] pc = "valid" -> 3
    [] pc = "return" -> 2
    [] pc = "over" /\ cleanup -> 1
    [] OTHER -> 0

\* Why a request ends, however long its body is: each step of a handler, a
\* callback or a job brings it closer to its end, a pread by bytes that are in
\* the file; what the client sends meanwhile never takes it back; and at the
\* end nothing holds it.
RequestAdvances ==
  [][pc # "none" =>
       /\ Distance' <= Distance
       /\ Progress => \/ Distance' < Distance
                      \/ /\ Distance' = Distance /\ spool' = spool
                         /\ Len(out) < Len(out') /\ Len(out') <= Len(spool)
       /\ Distance' = 0 => count' = 0]_requestVars

-----------------------------------------------------------------------------
(* What Accounted and BodyExact rest on.                                   *)

\* Where the request stands tells who is on the stack and what is owed.
Control ==
  /\ pc \in {"none", "new", "reading", "collect", "collected", "unreadable",
             "callback", "valid", "return", "over", "gone"}
  /\ inside \in BOOLEAN /\ cleanup \in BOOLEAN /\ sent \in {0, 1}
  /\ pc \in {"none", "new", "over", "gone"} => ~inside
  /\ pc = "return" => inside
  /\ IF pc \in {"return", "over"} THEN cleanup <=> sent = 0 ELSE ~cleanup /\ sent = 0

\* The bytes nginx holds are the first of the body, in order, those of the file
\* before those in memory, and so are the ones that are collected.
Numbered ==
  /\ size \in Nat /\ left \in Nat
  /\ {spool, buffered, out} \subseteq Seq(Nat)
  /\ Len(spool) + Len(buffered) + left = size
  /\ \A i \in DOMAIN spool : spool[i] = i
  /\ \A i \in DOMAIN buffered : buffered[i] = Len(spool) + i
  /\ \A i \in DOMAIN out : out[i] = i

\* What each stage of the collection has done so far.
Stages ==
  /\ ~spooled => spool = <<>>
  /\ pc \in {"none", "new"} =>
       /\ size = 0 /\ left = 0 /\ out = <<>>
       /\ ~spooled /\ ~verify_enabled
  /\ pc = "reading" => out = <<>>
  /\ pc = "collect" =>
       /\ left = 0 /\ Len(out) <= Len(spool)
       /\ spooled => buffered = <<>>
  /\ pc = "collected" => Len(out) = size /\ left = 0

\* The body filter counts what nginx holds of a verify body.
Counted ==
  /\ verify_enabled \in BOOLEAN
  /\ verify_enabled => verify_bytes = Len(spool) + Len(buffered) /\ verify_bytes <= Limit
  /\ route = "verify" /\ ~verify_enabled => spool = <<>> /\ buffered = <<>>
  /\ pc = "reading" /\ route = "verify" => verify_enabled

RequestInv == Control /\ Accounted /\ Numbered /\ Stages /\ Counted

\* What WorkIsDemanded rests on: a body is read only where the gate is on, and
\* there the worker's difficulty is the configured one.
DemandInv ==
  /\ pc \in {"reading", "collect", "collected"} => cfg.enabled
  /\ cfg.enabled => cfg.difficulty = demand /\ demand \in Nat \ {0}
  /\ WorkIsDemanded

=============================================================================
