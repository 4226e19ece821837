------------------------------ MODULE Cluster ------------------------------
(***************************************************************************)
(* The Redis client of one nginx worker (ngx-http-pow-gate/src/cluster.rs):*)
(* at most `connections' redemption jobs with a socket, at most `queue'    *)
(* waiting ones, and one health check of its own.  Everything runs on the  *)
(* worker's event loop, so each handler is one action; what interleaves is *)
(* the order of socket events, timers, client disconnects and submissions. *)
(*                                                                         *)
(* Every path that ends a job goes through `complete', which releases the  *)
(* job, starts waiting ones on the free slots - connects that fail at once *)
(* come back into `complete' - and only then answers the request.          *)
(* What Redis does with a command is module RedisLedger; here any reply,   *)
(* failure or silence may come back.                                       *)
(***************************************************************************)
EXTENDS Naturals, Sequences, FiniteSets

CONSTANTS
  Requests,             \* submissions that passed verification
  Health,               \* the health check job
  Connections,          \* config.connections, 1..32
  Queue,                \* config.queue, 0..1024
  Auth                  \* whether a password is configured

ASSUME HealthAssumption == Health \notin Requests
ASSUME LimitAssumption == Connections \in Nat \ {0} /\ Queue \in Nat
ASSUME AuthAssumption == Auth \in BOOLEAN

VARIABLES
  pending,              \* Runtime.pending
  active,               \* Runtime.active
  health_busy,          \* Runtime.health_busy
  ready,                \* Runtime.ready
  fenced,               \* Runtime.fenced
  fresh,                \* last_ok is less than 2500 ms ago
  polling,              \* the poll timer is armed
  exiting,              \* ngx_exiting, ngx_quit or ngx_terminate
  phase,                \* phase[j]: "new" without a job, "queued" for a slot,
                        \* "connecting", "sent", "freed"
  auth,                 \* jobs whose next reply answers AUTH
  timer,                \* jobs whose deadline is armed
  conn,                 \* jobs with an open connection
  cleanup,              \* requests whose cleanup handler points at their job
  late,                 \* requests whose token has expired by the worker's clock
  confirmed,            \* history: requests whose script got the reply 1
  answer,               \* answer[r]: what `finish' sent
  answers               \* history: how often `finish' ran for r

pool == <<pending, active>>
status == <<health_busy, ready, fenced, fresh, polling, exiting>>
job == <<phase, auth, timer, conn, cleanup>>
reply == <<late, confirmed, answer, answers>>
vars == <<pool, status, job, reply>>

AllJobs == Requests \union {Health}

Live(j) == phase[j] \in {"queued", "connecting", "sent"}

InQueue == {pending[i] : i \in DOMAIN pending}

available == ready /\ ~fenced /\ fresh

-----------------------------------------------------------------------------
\* activate: the first poll is armed, nothing is known about Redis.
Init ==
  /\ pending = <<>>
  /\ active = {}
  /\ health_busy = FALSE /\ ready = FALSE /\ fenced = FALSE /\ fresh = FALSE
  /\ polling = TRUE /\ exiting = FALSE
  /\ phase = [j \in AllJobs |-> "new"]
  /\ auth = {} /\ timer = {} /\ conn = {} /\ cleanup = {}
  /\ late = {} /\ confirmed = {}
  /\ answer = [r \in Requests |-> "none"]
  /\ answers = [r \in Requests |-> 0]

\* finish for every request of `outcome's domain.
Finish(outcome) ==
  /\ answer' = [r \in Requests |-> IF r \in DOMAIN outcome THEN outcome[r] ELSE answer[r]]
  /\ answers' = [r \in Requests |-> IF r \in DOMAIN outcome THEN answers[r] + 1 ELSE answers[r]]

\* pending.retain(|&p| p != job): a job waits in one place only.
Retained(waiting, j) ==
  LET place == CHOOSE i \in DOMAIN waiting : waiting[i] = j
  IN IF \E i \in DOMAIN waiting : waiting[i] = j
     THEN SubSeq(waiting, 1, place - 1) \o SubSeq(waiting, place + 1, Len(waiting))
     ELSE waiting

\* Faulty variant: one waiting job is started per completion.
PoppedOne(act, pend, bad) ==
  {i \in DOMAIN pend : i = 1 /\ Cardinality(act) < Connections}

\* The waiting jobs that the loop of `complete' takes off the queue: it goes on
\* while a slot is free, and a job of `bad' gives its slot back at once.
Popped(act, pend, bad) ==
  {i \in DOMAIN pend :
     Cardinality(act \union ({pend[k] : k \in 1 .. i - 1} \ bad)) < Connections}

\* Faulty variant: a health check overrides the fence.
HealthReadyAgain(outcome, fence) == outcome = "Accepted"

\* A successful health check makes the worker ready, unless it is fenced.
HealthReady(outcome, fence) == outcome = "Accepted" /\ ~(fenced \/ fence)

\* The effects of `complete' on job j; `gone' when the client has left, `bad'
\* the waiting jobs whose connect fails.
Release(j, outcome, fence, gone, bad) ==
  LET act == active \ {j}
      pend == Retained(pending, j)
      popped == Popped(act, pend, bad)
      started == {pend[i] : i \in popped} \ bad
      failed == {pend[i] : i \in popped} \intersect bad
      ended == failed \union {j}
      late_reply == outcome = "Accepted" /\ j \in late
      own == IF late_reply THEN "Expired" ELSE outcome
      told == IF gone \/ j = Health THEN failed ELSE failed \union {j}
  IN /\ phase' = [k \in AllJobs |-> IF k \in ended THEN "freed"
                                    ELSE IF k \in started THEN "connecting" ELSE phase[k]]
     /\ timer' = timer \ ended
     /\ conn' = (conn \ ended) \union started
     /\ cleanup' = cleanup \ ended
     /\ auth' = auth \ ended
     /\ active' = act \union started
     /\ pending' = SubSeq(pend, Cardinality(popped) + 1, Len(pend))
     /\ fenced' = (fenced \/ fence)
     /\ health_busy' = (health_busy /\ j # Health)
     /\ ready' = IF j = Health THEN HealthReady(outcome, fence) ELSE ready /\ ~fence
     /\ fresh' = (fresh \/ (j = Health /\ ready'))
     /\ Finish([r \in told |-> IF r = j THEN own ELSE "Full"])

complete(j, outcome, fence, gone) ==
  \E bad \in SUBSET (InQueue \ {j}) : Release(j, outcome, fence, gone, bad)

\* redeem answers Full without a job: Redis is not available, both limits are
\* reached, or the request pool is out of memory.
RedeemRefused(r) ==
  /\ phase[r] = "new"
  /\ answers[r] = 0
  /\ Finish([x \in {r} |-> "Full"])
  /\ UNCHANGED <<pool, status, job, late, confirmed>>

Full == Cardinality(active) >= Connections /\ Len(pending) >= Queue

\* Faulty variant: the deadline is not armed.
ArmNoDeadline(r) ==
  /\ phase[r] = "new"
  /\ answers[r] = 0
  /\ available
  /\ ~Full
  /\ timer' = timer
  /\ cleanup' = cleanup \union {r}
  /\ auth' = IF Auth THEN auth \union {r} ELSE auth

\* A new job with its deadline and cleanup handler.
Arm(r) ==
  /\ phase[r] = "new"
  /\ answers[r] = 0
  /\ available
  /\ ~Full
  /\ timer' = timer \union {r}
  /\ cleanup' = cleanup \union {r}
  /\ auth' = IF Auth THEN auth \union {r} ELSE auth

\* redeem on a free slot: connect is under way ...
RedeemConnect(r) ==
  /\ Arm(r)
  /\ Cardinality(active) < Connections
  /\ active' = active \union {r}
  /\ phase' = [phase EXCEPT ![r] = "connecting"]
  /\ conn' = conn \union {r}
  /\ UNCHANGED <<pending, status, reply>>

\* ... or fails at once and the new job is completed inside redeem.
RedeemFailed(r) ==
  /\ phase[r] = "new"
  /\ answers[r] = 0
  /\ available
  /\ Cardinality(active) < Connections
  /\ complete(r, "Full", FALSE, FALSE)
  /\ UNCHANGED <<polling, exiting, late, confirmed>>

\* redeem without a free slot: the job waits.
RedeemQueue(r) ==
  /\ Arm(r)
  /\ Cardinality(active) >= Connections
  /\ pending' = Append(pending, r)
  /\ phase' = [phase EXCEPT ![r] = "queued"]
  /\ UNCHANGED <<active, conn, status, reply>>

\* write: the socket is connected and takes the whole command.
Write(j) ==
  /\ phase[j] = "connecting"
  /\ phase' = [phase EXCEPT ![j] = "sent"]
  /\ UNCHANGED <<pool, status, auth, timer, conn, cleanup, reply>>

\* write or read: SO_ERROR, a failed send, recv or event registration, an
\* oversized or unparsable reply.
SocketError(j) ==
  /\ j \in conn
  /\ complete(j, "Full", FALSE, FALSE)
  /\ UNCHANGED <<polling, exiting, late, confirmed>>

\* read, the reply to AUTH.
AuthReply(j, ok) ==
  /\ phase[j] = "sent"
  /\ j \in auth
  /\ IF ok
     THEN /\ auth' = auth \ {j}
          /\ UNCHANGED <<pool, status, phase, timer, conn, cleanup, reply>>
     ELSE /\ complete(j, "Full", FALSE, FALSE)
          /\ UNCHANGED <<polling, exiting, late, confirmed>>

\* Faulty variant: an unexpected reply is taken for success.
ReplyOutcomeLenient(r) ==
  CASE r \in {"1", "other"} -> "Accepted" [] r = "0" -> "Reused" [] r = "-1" -> "Expired"
    [] OTHER -> "Full"

\* The outcome `read' makes of a script's reply; "other" is -3, an error or any
\* reply that is not an integer.
ReplyOutcome(r) ==
  CASE r = "1" -> "Accepted" [] r = "0" -> "Reused" [] r = "-1" -> "Expired" [] OTHER -> "Full"

Replies == {"1", "0", "-1", "-2", "other"}

\* read, the reply to the script.
ScriptReply(j, r) ==
  /\ phase[j] = "sent"
  /\ j \notin auth
  /\ confirmed' = IF r = "1" THEN confirmed \union ({j} \ {Health}) ELSE confirmed
  /\ complete(j, ReplyOutcome(r), r = "-2", FALSE)
  /\ UNCHANGED <<polling, exiting, late>>

\* Faulty variant: the deadline answers the request and leaves the job.
TimeoutAnswers(j) ==
  /\ j \in timer
  /\ timer' = timer \ {j}
  /\ Finish([r \in {j} \ {Health} |-> "Full"])
  /\ UNCHANGED <<pool, status, phase, auth, conn, cleanup, late, confirmed>>

\* timeout: the deadline, queue time included.
Timeout(j) ==
  /\ j \in timer
  /\ complete(j, "Full", FALSE, FALSE)
  /\ UNCHANGED <<polling, exiting, late, confirmed>>

\* Faulty variant: the job of a destroyed request keeps running.
AbortedOnly(r) ==
  /\ r \in cleanup
  /\ cleanup' = cleanup \ {r}
  /\ UNCHANGED <<pool, status, phase, auth, timer, conn, reply>>

\* aborted: nginx destroys the request and runs its cleanup handler.
Aborted(r) ==
  /\ r \in cleanup
  /\ complete(r, "Full", FALSE, TRUE)
  /\ UNCHANGED <<polling, exiting, late, confirmed>>

\* poll with a health check already running, or on a fenced worker.
PollSkip ==
  /\ polling /\ ~exiting
  /\ health_busy \/ fenced
  /\ UNCHANGED vars

\* poll starts a health check; its deadline is armed in `connect'.
PollConnect ==
  /\ polling /\ ~exiting
  /\ ~health_busy /\ ~fenced
  /\ health_busy' = TRUE
  /\ phase' = [phase EXCEPT ![Health] = "connecting"]
  /\ timer' = timer \union {Health}
  /\ conn' = conn \union {Health}
  /\ auth' = IF Auth THEN auth \union {Health} ELSE auth
  /\ UNCHANGED <<pool, ready, fenced, fresh, polling, exiting, cleanup, reply>>

\* Faulty variant: a connect that fails at once leaves the check marked busy.
PollFailedBusy ==
  /\ polling /\ ~exiting
  /\ ~health_busy /\ ~fenced
  /\ health_busy' = TRUE
  /\ UNCHANGED <<pool, ready, fenced, fresh, polling, exiting, job, reply>>

\* The connect of a health check fails at once.
PollFailed ==
  /\ polling /\ ~exiting
  /\ ~health_busy /\ ~fenced
  /\ complete(Health, "Full", FALSE, FALSE)
  /\ UNCHANGED <<polling, exiting, late, confirmed>>

\* poll on a worker that shuts down does not arm its timer again.
PollStop ==
  /\ polling /\ exiting
  /\ polling' = FALSE
  /\ UNCHANGED <<pool, health_busy, ready, fenced, fresh, exiting, job, reply>>

\* 2.5 seconds pass without a successful health check.
Stale ==
  /\ fresh' = FALSE
  /\ UNCHANGED <<pool, health_busy, ready, fenced, polling, exiting, job, reply>>

\* The worker's clock reaches the expiry of a token in hand.
Expire(r) ==
  /\ Live(r)
  /\ late' = late \union {r}
  /\ UNCHANGED <<pool, status, job, confirmed, answer, answers>>

Quit ==
  /\ exiting' = TRUE
  /\ UNCHANGED <<pool, health_busy, ready, fenced, fresh, polling, job, reply>>

Next ==
  \/ \E r \in Requests :
       RedeemRefused(r) \/ RedeemConnect(r) \/ RedeemFailed(r) \/ RedeemQueue(r)
         \/ Aborted(r) \/ Expire(r)
  \/ \E j \in AllJobs :
       \/ Write(j) \/ SocketError(j) \/ Timeout(j)
       \/ \E ok \in BOOLEAN : AuthReply(j, ok)
       \/ \E r \in Replies : ScriptReply(j, r)
  \/ PollSkip \/ PollConnect \/ PollFailed \/ PollStop \/ Stale \/ Quit

Spec == Init /\ [][Next]_vars

\* nginx runs the handler of an expired timer, and Redis answers some health
\* check in time again and again.
Fairness ==
  /\ \A j \in AllJobs : WF_vars(Timeout(j))
  /\ WF_vars(PollConnect)
  /\ SF_vars(Write(Health)) /\ SF_vars(AuthReply(Health, TRUE))
  /\ SF_vars(ScriptReply(Health, "1"))

FairSpec == Spec /\ Fairness
-----------------------------------------------------------------------------
\* redis.md: "at most `connections' redemption sockets plus one reserved health
\* socket, and at most `queue' waiting requests", through every nesting of
\* connect failures inside `complete'; and within these limits no request waits
\* while a slot is free, so a waiting job always has an active one whose end
\* will start it.
NoIdleSlot ==
  /\ Cardinality(active) <= Connections
  /\ Cardinality(conn \ {Health}) <= Connections
  /\ Len(pending) <= Queue
  /\ pending # <<>> => Cardinality(active) = Connections

\* Each live redemption job is in exactly one of `active' and `pending', once;
\* an armed deadline, an open connection or a cleanup handler never outlives its
\* job (complete: Box::from_raw after they are released).
NoDanglingJob ==
  /\ active \intersect InQueue = {}
  /\ \A i, k \in DOMAIN pending : pending[i] = pending[k] => i = k
  /\ active \union InQueue = {r \in Requests : Live(r)}
  /\ health_busy <=> Live(Health)
  /\ \A j \in timer \union conn \union cleanup : Live(j)
  /\ \A r \in Requests : Live(r) => r \in timer /\ r \in cleanup

\* redeem: "Takes responsibility for finalizing this request" - at most once,
\* and only if it still exists.
FinishedOnce ==
  \A r \in Requests :
    /\ answers[r] <= 1
    /\ Live(r) => answers[r] = 0

\* complete: "A late successful Redis reply cannot mint an already expired
\* token"; and nothing but the script's reply 1 mints one.
MintIsConfirmed ==
  [][\A r \in Requests :
       answer[r] # "Accepted" /\ answer'[r] = "Accepted" => r \in confirmed' /\ r \notin late]_vars

\* redis.md: a changed epoch "permanently fences that worker until reload": no
\* health check that was under way, or comes later, makes it available again.
FencedForGood == [][fenced => fenced' /\ ~ready']_vars

\* pending is a queue: a new job waits behind all others, whatever ends in
\* between the waiting jobs keep their order, and none is started while one
\* that came before it still waits.
FirstComeFirstServed ==
  [][/\ \A b \in DOMAIN pending' : pending'[b] \notin InQueue => b = Len(pending')
     /\ \A i, k \in DOMAIN pending : i < k =>
          /\ pending[k] \in active' => pending[i] \notin InQueue'
          /\ \A a, b \in DOMAIN pending' :
               pending'[a] = pending[i] /\ pending'[b] = pending[k] => a < b]_vars

\* redeem: every request it takes on is finalized or its client is gone.
EveryJobEnds == \A r \in Requests : Live(r) ~> ~Live(r)

\* poll: a worker that loses Redis becomes ready again once Redis answers, unless
\* it is fenced or shuts down.
Recovers == ~ready ~> (ready \/ fenced \/ exiting)

-----------------------------------------------------------------------------
(* What the safety properties rest on.                                     *)

Outcomes == {"Accepted", "Reused", "Expired", "Full"}

\* The type of every variable; only finitely many jobs have a socket.
TypeOK ==
  /\ pending \in Seq(Requests)
  /\ active \in SUBSET Requests /\ IsFiniteSet(active)
  /\ {health_busy, ready, fenced, fresh, polling, exiting} \subseteq BOOLEAN
  /\ phase \in [AllJobs -> {"new", "queued", "connecting", "sent", "freed"}]
  /\ timer \in SUBSET AllJobs /\ conn \in SUBSET AllJobs /\ cleanup \in SUBSET Requests
  /\ answer \in [Requests -> Outcomes \union {"none"}]
  /\ answers \in [Requests -> Nat]

Connected(j) == phase[j] \in {"connecting", "sent"}

\* The phase of a job tells where the runtime holds it and what it owns.
Placed ==
  /\ \A i, k \in DOMAIN pending : pending[i] = pending[k] => i = k
  /\ active = {r \in Requests : Connected(r)}
  /\ InQueue = {r \in Requests : phase[r] = "queued"}
  /\ phase[Health] # "queued"
  /\ health_busy <=> Live(Health)
  /\ conn = {j \in AllJobs : Connected(j)}
  /\ timer = {j \in AllJobs : Live(j)}
  /\ cleanup = {r \in Requests : Live(r)}

\* A fenced worker is not ready.
FenceHolds == fenced => ~ready

IndInv == TypeOK /\ Placed /\ FenceHolds /\ NoIdleSlot /\ FinishedOnce
=============================================================================
