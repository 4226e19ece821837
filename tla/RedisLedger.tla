---------------------------- MODULE RedisLedger ----------------------------
(***************************************************************************)
(* Cluster redemption: nginx nodes redeem tokens in one Redis primary with *)
(* the Lua script CONSUME (pow-gate-core/src/redis.rs), provisioned by     *)
(* scripts/redis-epoch.py.  Redis holds an epoch, a high-water clock and   *)
(* one spent marker per redeemed token; a marker carries a TTL that runs   *)
(* on Redis's own wall clock.                                              *)
(*                                                                         *)
(* A redemption is a job of a node: the node samples its clock and sends   *)
(* the script, Redis executes it some time later, the reply comes back.    *)
(* The node may give up first; the script may then still run, or be lost.  *)
(* In between the Redis clock is corrected in either direction, expired    *)
(* markers are reclaimed, keys are lost, the operator provisions and       *)
(* rotates epochs and reloads nodes.  The job pool of one nginx worker is  *)
(* module Cluster.                                                         *)
(***************************************************************************)
EXTENDS Integers

CONSTANTS
  Tokens,               \* challenge tokens and no-JS grants
  NoToken,              \* the token of an idle job
  Nodes,                \* nginx workers, each with the epoch of its configuration
  NoNode,               \* the node of an idle job
  Jobs,                 \* redemptions in flight at the same time
  Epochs,               \* epochs ever generated; secrets.token_hex never repeats
  FirstEpoch,           \* the epoch of the first provisioning
  NoEpoch,              \* a missing epoch key
  Validity,             \* seconds from issuance to expiry
  Skew,                 \* clock_skew, 1..60 seconds
  MaxBehind,            \* how far Redis's clock falls behind its own maximum
  MaxTime               \* bound on clock readings

ASSUME NameAssumption == NoToken \notin Tokens /\ NoNode \notin Nodes /\ NoEpoch \notin Epochs
ASSUME EpochAssumption == FirstEpoch \in Epochs
ASSUME ValidityAssumption == Validity \in Nat \ {0}
ASSUME SkewAssumption == Skew \in Nat
ASSUME TimeAssumption == MaxTime \in Nat /\ MaxBehind \in Nat

VARIABLES
  rtime,                \* Redis TIME, seconds
  peak,                 \* the latest TIME Redis ever showed
  epoch,                \* key powgate:{ns}:epoch
  clock,                \* key powgate:{ns}:clock
  markers,              \* keys powgate:{ns}:<epoch>:spent:<token>: the absolute expiry
  used,                 \* epochs generated so far
  file,                 \* the deployed epoch_file
  conf,                 \* conf[n]: the epoch in the configuration of node n
  fenced,               \* nodes that know their epoch or the clock is gone
  jobs,                 \* jobs[j]: a redemption
  issued,               \* issued[t]: epoch and expiry of token t
  accepted,             \* history: how often Redis answered 1 for t
  minted,               \* history: clearances sent for t
  replayed              \* history: tokens answered 0

redis == <<rtime, peak, epoch, clock, markers>>
nodes == <<used, file, conf, fenced>>
history == <<accepted, minted, replayed>>
vars == <<redis, nodes, jobs, issued, history>>

Time == 0 .. MaxTime

\* A key that does not exist.
Missing == -1

Reply == {1, 0, -1, -2, -3}

\* Anything but a bare integer reply: an OOM or other Redis error.
Error == -9

Idle == [state |-> "idle", node |-> NoNode, token |-> NoToken, reply |-> Error]

Unissued == [epoch |-> FirstEpoch, expires |-> 0]

IsIssued(t) == issued[t].expires > 0

Larger(a, b) == IF a > b THEN a ELSE b

Distance(a, b) == IF a > b THEN a - b ELSE b - a

TypeOK ==
  /\ rtime \in Time
  /\ peak \in Time
  /\ epoch \in Epochs \union {NoEpoch}
  /\ clock \in Time \union {Missing}
  /\ markers \in [Tokens -> Int]
  /\ used \in SUBSET Epochs
  /\ file \in Epochs
  /\ conf \in [Nodes -> Epochs]
  /\ fenced \in SUBSET Nodes
  /\ \A j \in Jobs :
       \/ jobs[j] = Idle
       \/ jobs[j] \in [state : {"sent", "orphan", "replied"}, node : Nodes,
                       token : Tokens, reply : Reply \union {Error}]
  /\ DOMAIN jobs = Jobs
  /\ issued \in [Tokens -> [epoch : Epochs, expires : Nat]]
  /\ accepted \in [Tokens -> Nat]
  /\ minted \in [Tokens -> Nat]
  /\ replayed \in SUBSET Tokens
-----------------------------------------------------------------------------
Init ==
  /\ rtime \in Time
  /\ peak = rtime
  /\ epoch = FirstEpoch
  /\ clock = rtime
  /\ markers = [t \in Tokens |-> Missing]
  /\ used = {FirstEpoch}
  /\ file = FirstEpoch
  /\ conf = [n \in Nodes |-> FirstEpoch]
  /\ fenced = {}
  /\ jobs = [j \in Jobs |-> Idle]
  /\ issued = [t \in Tokens |-> Unissued]
  /\ accepted = [t \in Tokens |-> 0]
  /\ minted = [t \in Tokens |-> 0]
  /\ replayed = {}

\* A node that is not fenced issues a token under its own epoch, at any
\* reading of its own clock.
Issue(n, t, now) ==
  /\ n \notin fenced
  /\ ~IsIssued(t)
  /\ issued' = [issued EXCEPT ![t] = [epoch |-> conf[n], expires |-> now + Validity]]
  /\ UNCHANGED <<redis, nodes, jobs, history>>

\* redeem and make_job: the submission carries the node's own epoch and is not
\* expired by the node's clock.
Send(n, j, t) ==
  /\ n \notin fenced
  /\ jobs[j] = Idle
  /\ IsIssued(t)
  /\ issued[t].epoch = conf[n]
  /\ jobs' = [jobs EXCEPT ![j] =
       [state |-> "sent", node |-> n, token |-> t, reply |-> Error]]
  /\ UNCHANGED <<redis, nodes, issued, history>>

\* A marker answers to SET NX until its TTL has passed.
Visible(t) == markers[t] # Missing /\ rtime <= markers[t]

\* `now' of the script.
ScriptNow == Larger(rtime, clock)

\* Faulty variant: expiry is judged by TIME, not by the high-water mark.
ScriptReplyOwnClock(j, client_now) ==
  LET t == jobs[j].token
  IN IF epoch # issued[t].epoch THEN -2
     ELSE IF clock = Missing THEN -2
     ELSE IF Distance(rtime, client_now) > Skew THEN -3
     ELSE IF issued[t].expires <= rtime THEN -1
     ELSE IF Visible(t) THEN 0
     ELSE 1

\* Faulty variant: an expired token is reported as spent.
ScriptReplyExpiredSpent(j, client_now) ==
  LET t == jobs[j].token
  IN IF epoch # issued[t].epoch THEN -2
     ELSE IF clock = Missing THEN -2
     ELSE IF Distance(rtime, client_now) > Skew THEN -3
     ELSE IF issued[t].expires <= ScriptNow \/ Visible(t) THEN 0
     ELSE 1

\* The integer CONSUME returns to job j, in the order of its early returns;
\* client_now is ARGV[4].
ScriptReply(j, client_now) ==
  LET t == jobs[j].token
  IN IF epoch # issued[t].epoch THEN -2
     ELSE IF clock = Missing THEN -2
     ELSE IF Distance(rtime, client_now) > Skew THEN -3
     ELSE IF issued[t].expires <= ScriptNow THEN -1
     ELSE IF Visible(t) THEN 0
     ELSE 1

\* Faulty variant: the TTL has no margin.
MarkerEndBare(t) == rtime + (issued[t].expires - ScriptNow)

\* SET NX EX expires - now + skew + 1, as the instant it runs out.
MarkerEnd(t) == rtime + (issued[t].expires - ScriptNow + Skew + 1)

\* The reply of an execution reaches the job, unless the node gave up on it.
Answer(j, reply) ==
  jobs' = [jobs EXCEPT ![j] =
    IF @.state = "sent" THEN [@ EXCEPT !.state = "replied", !.reply = reply] ELSE Idle]

\* Redis executes CONSUME for job j, atomically.  The node's clock is arbitrary
\* and its sample is used nowhere else, so the sample make_job took is drawn
\* here: any reading at which the token had passed the node's expiry check.
Execute(j, client_now) ==
  LET t == jobs[j].token
      reply == ScriptReply(j, client_now)
  IN /\ jobs[j].state \in {"sent", "orphan"}
     /\ client_now < issued[t].expires
     /\ clock' = IF reply \in {0, 1} THEN ScriptNow ELSE clock
     /\ markers' = IF reply = 1 THEN [markers EXCEPT ![t] = MarkerEnd(t)] ELSE markers
     /\ accepted' = IF reply = 1 THEN [accepted EXCEPT ![t] = @ + 1] ELSE accepted
     /\ Answer(j, reply)
     /\ UNCHANGED <<rtime, peak, epoch, nodes, issued, minted, replayed>>

\* noeviction: for lack of memory Redis refuses the first write of a script,
\* that of the clock or of the marker, and none that follows one; nothing is
\* written.
ExecuteOOM(j, client_now) ==
  /\ jobs[j].state \in {"sent", "orphan"}
  /\ client_now < issued[jobs[j].token].expires
  /\ ScriptReply(j, client_now) \in {0, 1}
  /\ Answer(j, Error)
  /\ UNCHANGED <<redis, nodes, issued, history>>

\* Faulty variant: a duplicate counts as the node's own earlier success.
FinishDuplicate(j, now) ==
  LET t == jobs[j].token
      reply == jobs[j].reply
  IN /\ jobs[j].state = "replied"
     /\ fenced' = IF reply = -2 THEN fenced \union {jobs[j].node} ELSE fenced
     /\ minted' = IF reply \in {0, 1} /\ now < issued[t].expires
                  THEN [minted EXCEPT ![t] = @ + 1] ELSE minted
     /\ replayed' = IF reply = 0 THEN replayed \union {t} ELSE replayed
     /\ jobs' = [jobs EXCEPT ![j] = Idle]
     /\ UNCHANGED <<redis, used, file, conf, issued, accepted>>

\* read, complete and finish: only the reply 1 mints, unless the token has
\* expired by the node's clock meanwhile; -2 fences the node.
Finish(j, now) ==
  LET t == jobs[j].token
      reply == jobs[j].reply
  IN /\ jobs[j].state = "replied"
     /\ fenced' = IF reply = -2 THEN fenced \union {jobs[j].node} ELSE fenced
     /\ minted' = IF reply = 1 /\ now < issued[t].expires
                  THEN [minted EXCEPT ![t] = @ + 1] ELSE minted
     /\ replayed' = IF reply = 0 THEN replayed \union {t} ELSE replayed
     /\ jobs' = [jobs EXCEPT ![j] = Idle]
     /\ UNCHANGED <<redis, used, file, conf, issued, accepted>>

\* The deadline passes or the client disconnects: the job is gone, but its
\* command may still be on its way to Redis.
GiveUp(j) ==
  /\ jobs[j].state \in {"sent", "replied"}
  /\ jobs' = [jobs EXCEPT ![j] =
       IF @.state = "sent" THEN [@ EXCEPT !.state = "orphan"] ELSE Idle]
  /\ UNCHANGED <<redis, nodes, issued, history>>

\* The command of an abandoned job never arrives.
Drop(j) ==
  /\ jobs[j].state = "orphan"
  /\ jobs' = [jobs EXCEPT ![j] = Idle]
  /\ UNCHANGED <<redis, nodes, issued, history>>

\* The once-a-second HEALTH script finds its epoch or the clock gone.
HealthFence(n) ==
  /\ epoch # conf[n] \/ clock = Missing
  /\ fenced' = fenced \union {n}
  /\ UNCHANGED <<redis, used, file, conf, jobs, issued, history>>

\* Reload: new workers read the deployed epoch file; jobs of the old ones end.
Reload(n) ==
  /\ conf' = [conf EXCEPT ![n] = file]
  /\ fenced' = fenced \ {n}
  /\ jobs' = [j \in Jobs |->
       IF jobs[j].node # n THEN jobs[j]
       ELSE IF jobs[j].state = "sent" THEN [jobs[j] EXCEPT !.state = "orphan"]
       ELSE IF jobs[j].state = "orphan" THEN jobs[j]
       ELSE Idle]
  /\ UNCHANGED <<redis, used, file, issued, history>>

\* Redis's wall clock advances or is corrected.
SetTime(time) ==
  /\ time + MaxBehind >= peak
  /\ rtime' = time
  /\ peak' = Larger(peak, time)
  /\ UNCHANGED <<epoch, clock, markers, nodes, jobs, issued, history>>

\* Redis deletes a marker whose TTL has passed.
Reclaim(t) ==
  /\ markers[t] # Missing
  /\ rtime >= markers[t]
  /\ markers' = [markers EXCEPT ![t] = Missing]
  /\ UNCHANGED <<rtime, peak, epoch, clock, nodes, jobs, issued, history>>

\* Control keys are lost, alone or together with every marker.
LoseEpoch ==
  /\ epoch' = NoEpoch
  /\ UNCHANGED <<rtime, peak, clock, markers, nodes, jobs, issued, history>>

LoseClock ==
  /\ clock' = Missing
  /\ UNCHANGED <<rtime, peak, epoch, markers, nodes, jobs, issued, history>>

LoseAll ==
  /\ epoch' = NoEpoch
  /\ clock' = Missing
  /\ markers' = [t \in Tokens |-> Missing]
  /\ UNCHANGED <<rtime, peak, nodes, jobs, issued, history>>

\* redis-epoch.py installs a fresh epoch and restarts the clock at TIME.
Install(e) ==
  /\ e \notin used
  /\ used' = used \union {e}
  /\ epoch' = e
  /\ clock' = rtime
  /\ file' = e
  /\ UNCHANGED <<rtime, peak, markers, conf, fenced, jobs, issued, history>>

\* `init' on an intact namespace exports its epoch; with the epoch missing it
\* creates one; with only the clock missing it refuses.
Export ==
  /\ epoch # NoEpoch
  /\ clock # Missing
  /\ file' = epoch
  /\ UNCHANGED <<redis, used, conf, fenced, jobs, issued, history>>

Provision(e) ==
  /\ epoch = NoEpoch
  /\ Install(e)

\* `--rotate' compares the epoch of the file before it installs a new one.
Rotate(e) ==
  /\ epoch = file
  /\ Install(e)

Next ==
  \/ \E n \in Nodes, t \in Tokens :
       \/ \E now \in Time : Issue(n, t, now)
       \/ \E j \in Jobs : Send(n, j, t)
  \/ \E j \in Jobs, now \in Time : Execute(j, now) \/ ExecuteOOM(j, now) \/ Finish(j, now)
  \/ \E j \in Jobs : GiveUp(j) \/ Drop(j)
  \/ \E n \in Nodes : HealthFence(n) \/ Reload(n)
  \/ \E time \in Time : SetTime(time)
  \/ \E t \in Tokens : Reclaim(t)
  \/ LoseEpoch \/ LoseClock \/ LoseAll \/ Export
  \/ \E e \in Epochs : Provision(e) \/ Rotate(e)

Spec == Init /\ [][Next]_vars
-----------------------------------------------------------------------------
\* redis.rs, header of CONSUME: "The non-expiring high-water key prevents
\* backward clock adjustments from reopening a token whose spent marker already
\* expired."  Redis answers 1 to at most one execution for a token, whatever
\* nodes send it, however late, and whatever its clock does.
AcceptedOnce == \A t \in Tokens : accepted[t] <= 1

CarriesAcceptance(j, t) ==
  jobs[j].state = "replied" /\ jobs[j].reply = 1 /\ jobs[j].token = t

\* redis.md, "Ambiguous replies never retry the same redemption": a clearance
\* is sent only for an execution that Redis accepted, and an acceptance is worth
\* one clearance even if its reply is late or its job was abandoned (cluster.rs,
\* complete).
MintedFromAcceptance ==
  \A t \in Tokens :
    /\ minted[t] <= accepted[t]
    /\ \A j \in Jobs : CarriesAcceptance(j, t) =>
         /\ minted[t] < accepted[t]
         /\ \A k \in Jobs : CarriesAcceptance(k, t) => k = j

\* finish: the 409 "replay" answer is given only for a token that Redis really
\* accepted before.
ReusedIsHonest == \A t \in replayed : accepted[t] > 0

-----------------------------------------------------------------------------
(* Why it works: the parts of the inductive invariant. *)

\* The high-water mark and TIME stay within MaxBehind of the latest TIME.
ClockBounds ==
  /\ rtime <= peak
  /\ peak <= rtime + MaxBehind
  /\ clock <= peak

\* Jobs and nodes only know epochs that were generated.
EpochsAreUsed ==
  /\ epoch \in used \union {NoEpoch}
  /\ file \in used
  /\ \A n \in Nodes : conf[n] \in used
  /\ \A t \in Tokens : issued[t].epoch \in used

JobsAreIssued ==
  \A j \in Jobs : jobs[j] # Idle => IsIssued(jobs[j].token)

\* The margin skew + 1 of a marker's TTL covers a clock that is behind when the
\* marker is set and behind again when the marker is gone.
ClockIsSteady == 2 * MaxBehind <= Skew + 1

\* Nothing can consume t again: its epoch was replaced, or the clock is gone.
Retired(t) == issued[t].epoch # epoch \/ clock = Missing

\* An accepted token is retired, or its marker outlives every reading of the
\* clock at which it could still be valid, or that moment has passed.
Remembered(t) ==
  \/ Retired(t)
  \/ peak >= issued[t].expires + MaxBehind
  \/ markers[t] >= issued[t].expires + MaxBehind

SpentIsRemembered ==
  \A t \in Tokens : accepted[t] > 0 => IsIssued(t) /\ Remembered(t)

\* Markers are only ever written by an accepted execution.
MarkersAreSpent ==
  \A t \in Tokens : markers[t] # Missing => accepted[t] > 0

\* A reply 0 on its way is honest too.
RepliesAreHonest ==
  \A j \in Jobs :
    jobs[j].state = "replied" /\ jobs[j].reply = 0 => accepted[jobs[j].token] > 0

IndInv ==
  /\ TypeOK
  /\ ClockBounds
  /\ EpochsAreUsed
  /\ JobsAreIssued
  /\ SpentIsRemembered
  /\ MarkersAreSpent
  /\ RepliesAreHonest
  /\ AcceptedOnce
  /\ MintedFromAcceptance
  /\ ReusedIsHonest
-----------------------------------------------------------------------------
\* The tokens no execution may accept any more.
Closed ==
  {t \in Tokens : IsIssued(t) /\ (Retired(t) \/ clock >= issued[t].expires)}

Promise == INSTANCE OneUse WITH uses <- accepted, closed <- Closed

\* redis.md: Redis keeps the promise of the abstract store - "Old cookies and
\* challenges fail" after a rotation, and a token seen expired stays closed.
ImplementsOneUse == Promise!Spec
=============================================================================
