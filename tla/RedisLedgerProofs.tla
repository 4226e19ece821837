------------------------- MODULE RedisLedgerProofs -------------------------
(***************************************************************************)
(* Redis accepts a token at most once, for any number of nodes, jobs,      *)
(* tokens and epochs, provided that its clock is steady: it never falls    *)
(* more than half the margin skew + 1 behind its own maximum.              *)
(*                                                                         *)
(* The argument.  A marker is set to run out at                            *)
(*   TIME + expires - now + skew + 1,  now = max(TIME, high-water mark),   *)
(* and now is at most MaxBehind ahead of TIME, so the marker stays until   *)
(* TIME has shown expires + MaxBehind; after that TIME is never below      *)
(* expires again, and the script answers -1.                               *)
(***************************************************************************)
EXTENDS RedisLedger, TLAPS

USE DEF redis, nodes, history, vars

\* The fields of a job that has been answered, and of one given up.
LEMMA JobFields ==
  ASSUME NEW j, NEW reply
  PROVE  /\ jobs'[j] = [state |-> "replied", node |-> jobs[j].node,
                        token |-> jobs[j].token, reply |-> reply]
              => /\ jobs'[j].state = "replied" /\ jobs'[j].token = jobs[j].token
                 /\ jobs'[j].reply = reply
         /\ jobs'[j] = [state |-> "orphan", node |-> jobs[j].node,
                        token |-> jobs[j].token, reply |-> reply]
              => jobs'[j].state = "orphan" /\ jobs'[j].token = jobs[j].token
OBVIOUS

LEMMA InitInv == Init => IndInv
<1> SUFFICES ASSUME Init PROVE IndInv
  OBVIOUS
<1> USE NameAssumption, EpochAssumption, TimeAssumption
<1>1. TypeOK
  BY DEF Init, TypeOK, Time, Missing, Unissued
<1>2. ClockBounds
  BY DEF Init, ClockBounds, Time
<1>3. EpochsAreUsed
  BY DEF Init, EpochsAreUsed, Unissued
<1>4. JobsAreIssued /\ RepliesAreHonest
  BY DEF Init, JobsAreIssued, RepliesAreHonest, Idle
<1>5. SpentIsRemembered /\ MarkersAreSpent /\ AcceptedOnce /\ ReusedIsHonest
  BY DEF Init, SpentIsRemembered, MarkersAreSpent, AcceptedOnce, ReusedIsHonest
<1>6. MintedFromAcceptance
  <2>1. \A j \in Jobs : jobs[j].state = "idle"
    BY DEF Init, Idle
  <2>2. \A j \in Jobs, t \in Tokens : ~CarriesAcceptance(j, t)
    BY <2>1 DEF CarriesAcceptance
  <2>3. \A t \in Tokens : minted[t] = 0 /\ accepted[t] = 0
    BY Zenon DEF Init
  <2>4. ASSUME NEW t \in Tokens PROVE minted[t] <= accepted[t]
    <3>1. minted[t] = 0 /\ accepted[t] = 0
      BY <2>3
    <3>2. QED
      BY <3>1
  <2>5. QED
    BY <2>2, <2>4, Zenon DEF MintedFromAcceptance
<1>7. QED
  BY <1>1, <1>2, <1>3, <1>4, <1>5, <1>6 DEF IndInv

\* A job in flight belongs to a node and carries an issued token.
LEMMA JobInFlight ==
  ASSUME IndInv, NEW j \in Jobs, jobs[j].state # "idle"
  PROVE  /\ jobs[j].state \in {"sent", "orphan", "replied"}
         /\ jobs[j].node \in Nodes
         /\ jobs[j].token \in Tokens
         /\ jobs[j].reply \in Reply \union {Error}
         /\ jobs[j] # Idle
         /\ IsIssued(jobs[j].token)
<1>1. jobs[j] # Idle
  BY DEF Idle
<1>2. jobs[j] \in [state : {"sent", "orphan", "replied"}, node : Nodes,
                   token : Tokens, reply : Reply \union {Error}]
  BY <1>1 DEF IndInv, TypeOK
<1>3. QED
  BY <1>1, <1>2 DEF IndInv, JobsAreIssued

\* What the answer to an execution does to the jobs.
LEMMA AnswerJobs ==
  ASSUME IndInv, NEW j \in Jobs, jobs[j].state \in {"sent", "orphan"},
         NEW reply \in Reply \union {Error}, Answer(j, reply)
  PROVE  /\ DOMAIN jobs' = Jobs
         /\ \A k \in Jobs \ {j} : jobs'[k] = jobs[k]
         /\ \/ jobs'[j] = Idle
            \/ jobs'[j] = [state |-> "replied", node |-> jobs[j].node,
                           token |-> jobs[j].token, reply |-> reply]
<1>1. DOMAIN jobs = Jobs
  BY DEF IndInv, TypeOK
<1>2. jobs[j] \in [state : {"sent", "orphan", "replied"}, node : Nodes,
                   token : Tokens, reply : Reply \union {Error}]
  BY DEF IndInv, TypeOK, Idle
<1>3. QED
  BY <1>1, <1>2, Zenon DEF Answer

\* What an execution of the script establishes before it answers.
LEMMA ScriptFacts ==
  ASSUME IndInv, NEW j \in Jobs, jobs[j].state \in {"sent", "orphan"}, NEW client_now
  PROVE  LET t == jobs[j].token
             reply == ScriptReply(j, client_now)
         IN /\ reply \in Reply
            /\ reply \in {0, 1} =>
                 /\ ~Retired(t)
                 /\ ScriptNow \in Time
                 /\ ScriptNow < issued[t].expires
                 /\ ScriptNow >= clock
                 /\ ScriptNow <= peak
            /\ reply = 0 => Visible(t)
            /\ reply = 1 => ~Visible(t)
<1> DEFINE t == jobs[j].token
           reply == ScriptReply(j, client_now)
<1>1. t \in Tokens
  BY JobInFlight
<1>2. reply \in Reply
  BY DEF ScriptReply, Reply
<1>3. ASSUME reply \in {0, 1}
      PROVE  /\ ~Retired(t)
             /\ ScriptNow \in Time
             /\ ScriptNow < issued[t].expires
             /\ ScriptNow >= clock
             /\ ScriptNow <= peak
  <2>1. ~Retired(t) /\ ~(issued[t].expires <= ScriptNow)
    BY <1>3 DEF ScriptReply, Retired
  <2>2. rtime \in Time /\ clock \in Time /\ issued[t].expires \in Nat
    BY <1>1, <2>1 DEF IndInv, TypeOK, Retired
  <2>3. ScriptNow \in Time /\ ScriptNow >= clock
    BY <2>2, TimeAssumption DEF ScriptNow, Larger, Time
  <2>4. ScriptNow <= peak
    BY <2>2, TimeAssumption DEF IndInv, ClockBounds, ScriptNow, Larger, Time
  <2>5. ScriptNow < issued[t].expires
    BY <2>1, <2>2, <2>3, TimeAssumption DEF Time
  <2>6. QED
    BY <2>1, <2>3, <2>4, <2>5
<1>4. reply = 0 => Visible(t)
  BY DEF ScriptReply
<1>5. reply = 1 => ~Visible(t)
  BY DEF ScriptReply
<1>6. QED
  BY <1>2, <1>3, <1>4, <1>5

\* A remembered token is never accepted: its marker is visible, or it has
\* expired by a clock that can no longer fall back before its expiry.
LEMMA AcceptsFresh ==
  ASSUME IndInv, NEW j \in Jobs, jobs[j].state \in {"sent", "orphan"}, NEW client_now,
         ScriptReply(j, client_now) = 1
  PROVE  accepted[jobs[j].token] = 0
<1> DEFINE t == jobs[j].token
<1>1. t \in Tokens
  BY JobInFlight
<1>2. /\ ~Retired(t)
      /\ ScriptNow \in Time
      /\ ScriptNow < issued[t].expires
      /\ ~Visible(t)
  BY ScriptFacts
<1>3. /\ rtime \in Time /\ peak \in Time /\ clock \in Time
      /\ issued[t].expires \in Nat
      /\ markers[t] \in Int
      /\ accepted[t] \in Nat
      /\ peak <= rtime + MaxBehind
  BY <1>1, <1>2 DEF IndInv, TypeOK, ClockBounds, Retired
<1>4. rtime <= ScriptNow
  BY <1>3, TimeAssumption DEF ScriptNow, Larger, Time
<1>5. rtime < issued[t].expires
  BY <1>2, <1>3, <1>4, TimeAssumption DEF Time
<1>6. ~(peak >= issued[t].expires + MaxBehind)
  BY <1>3, <1>5, TimeAssumption DEF Time
<1>7. ~(markers[t] >= issued[t].expires + MaxBehind)
  BY <1>2, <1>3, <1>5, TimeAssumption DEF Time, Visible, Missing
<1>8. ~Remembered(t)
  BY <1>2, <1>6, <1>7 DEF Remembered
<1>9. QED
  BY <1>1, <1>3, <1>8 DEF IndInv, SpentIsRemembered

\* A job record keeps its shape when the node gives up on it.
LEMMA OrphanShape ==
  ASSUME TypeOK, NEW j \in Jobs, jobs[j].state = "sent"
  PROVE  [jobs[j] EXCEPT !.state = "orphan"] =
           [state |-> "orphan", node |-> jobs[j].node,
            token |-> jobs[j].token, reply |-> jobs[j].reply]
BY DEF TypeOK, Idle

JobType ==
  [state : {"sent", "orphan", "replied"}, node : Nodes,
   token : Tokens, reply : Reply \union {Error}]

LEMMA TypeStep == IndInv /\ [Next]_vars => TypeOK'
<1> SUFFICES ASSUME IndInv, [Next]_vars PROVE TypeOK'
  OBVIOUS
<1>0. TypeOK /\ EpochsAreUsed
  BY DEF IndInv
<1> USE NameAssumption, EpochAssumption, TimeAssumption, ValidityAssumption, SkewAssumption
<1>1. ASSUME NEW n \in Nodes, NEW t \in Tokens, NEW now \in Time, Issue(n, t, now) PROVE TypeOK'
  <2>1. issued' \in [Tokens -> [epoch : Epochs, expires : Nat]]
    BY <1>0, <1>1 DEF TypeOK, Issue, Time
  <2>2. QED
    BY <1>0, <1>1, <2>1 DEF TypeOK, Issue
<1>2. ASSUME NEW n \in Nodes, NEW j \in Jobs, NEW t \in Tokens, Send(n, j, t) PROVE TypeOK'
  <2>1. DOMAIN jobs' = Jobs /\ \A k \in Jobs : jobs'[k] = Idle \/ jobs'[k] \in JobType
    BY <1>0, <1>2 DEF TypeOK, Send, JobType
  <2>2. QED
    BY <1>0, <1>2, <2>1 DEF TypeOK, Send, JobType
<1>3. ASSUME NEW j \in Jobs, NEW now \in Time, Execute(j, now) PROVE TypeOK'
  <2> DEFINE t == jobs[j].token
             reply == ScriptReply(j, now)
  <2>1. jobs[j].state \in {"sent", "orphan"} /\ Answer(j, reply)
    BY <1>3 DEF Execute
  <2>2. t \in Tokens /\ jobs[j].node \in Nodes
    BY <2>1, JobInFlight
  <2>3. reply \in Reply /\ (reply \in {0, 1} => ScriptNow \in Time)
    BY <2>1, ScriptFacts
  <2>4. DOMAIN jobs' = Jobs /\ \A k \in Jobs : jobs'[k] = Idle \/ jobs'[k] \in JobType
    <3>1. reply \in Reply \union {Error}
      BY <2>3
    <3> HIDE DEF reply
    <3>2. /\ DOMAIN jobs' = Jobs
          /\ \A k \in Jobs \ {j} : jobs'[k] = jobs[k]
          /\ \/ jobs'[j] = Idle
             \/ jobs'[j] = [state |-> "replied", node |-> jobs[j].node,
                            token |-> jobs[j].token, reply |-> reply]
      BY <2>1, <3>1, AnswerJobs
    <3>3. QED
      BY <1>0, <2>2, <3>1, <3>2 DEF TypeOK, JobType
  <2>5. clock' \in Time \union {Missing}
    BY <1>0, <1>3, <2>3 DEF Execute, TypeOK
  <2>6. markers' \in [Tokens -> Int]
    <3>1. reply = 1 => MarkerEnd(t) \in Int
      BY <1>0, <2>2, <2>3 DEF MarkerEnd, TypeOK, Time
    <3>2. markers' = IF reply = 1 THEN [markers EXCEPT ![t] = MarkerEnd(t)] ELSE markers
      BY <1>3 DEF Execute
    <3> HIDE DEF reply
    <3>3. QED
      BY <1>0, <2>2, <3>1, <3>2 DEF TypeOK
  <2>7. accepted' \in [Tokens -> Nat]
    <3>1. accepted' = IF reply = 1 THEN [accepted EXCEPT ![t] = @ + 1] ELSE accepted
      BY <1>3 DEF Execute
    <3>2. QED
      BY <1>0, <2>2, <3>1 DEF TypeOK
  <2>8. UNCHANGED <<rtime, peak, epoch, nodes, issued, minted, replayed>>
    BY <1>3 DEF Execute
  <2>9. QED
    BY <1>0, <2>4, <2>5, <2>6, <2>7, <2>8 DEF TypeOK, JobType
<1>4. ASSUME NEW j \in Jobs, NEW now \in Time, ExecuteOOM(j, now) PROVE TypeOK'
  <2>1. jobs[j].state \in {"sent", "orphan"} /\ Answer(j, Error)
    BY <1>4, Zenon DEF ExecuteOOM
  <2>2. jobs[j].token \in Tokens /\ jobs[j].node \in Nodes
    BY <2>1, JobInFlight
  <2>3. DOMAIN jobs' = Jobs /\ \A k \in Jobs : jobs'[k] = Idle \/ jobs'[k] \in JobType
    <3>1. /\ DOMAIN jobs' = Jobs
          /\ \A k \in Jobs \ {j} : jobs'[k] = jobs[k]
          /\ \/ jobs'[j] = Idle
             \/ jobs'[j] = [state |-> "replied", node |-> jobs[j].node,
                            token |-> jobs[j].token, reply |-> Error]
      BY <2>1, AnswerJobs
    <3>2. QED
      BY <1>0, <2>2, <3>1 DEF TypeOK, JobType
  <2>4. UNCHANGED <<redis, nodes, issued, history>>
    BY <1>4, Zenon DEF ExecuteOOM
  <2>5. QED
    BY <1>0, <2>3, <2>4 DEF TypeOK, JobType
<1>5. ASSUME NEW j \in Jobs, NEW now \in Time, Finish(j, now) PROVE TypeOK'
  <2>1. jobs[j].state = "replied" /\ jobs' = [jobs EXCEPT ![j] = Idle]
    BY <1>5 DEF Finish
  <2>2. jobs[j].token \in Tokens /\ jobs[j].node \in Nodes
    BY <2>1, JobInFlight
  <2>3. DOMAIN jobs' = Jobs /\ \A k \in Jobs : jobs'[k] = Idle \/ jobs'[k] \in JobType
    BY <1>0, <2>1 DEF TypeOK, JobType
  <2>4. /\ fenced' \in SUBSET Nodes
        /\ minted' \in [Tokens -> Nat]
        /\ replayed' \in SUBSET Tokens
    BY <1>0, <1>5, <2>2 DEF TypeOK, Finish
  <2>5. QED
    BY <1>0, <1>5, <2>3, <2>4 DEF TypeOK, Finish, JobType
<1>6. ASSUME NEW j \in Jobs, GiveUp(j) PROVE TypeOK'
  <2>1. DOMAIN jobs' = Jobs /\ \A k \in Jobs : jobs'[k] = Idle \/ jobs'[k] \in JobType
    BY <1>0, <1>6, SMTT(30) DEF TypeOK, GiveUp, JobType, Idle
  <2>2. QED
    BY <1>0, <1>6, <2>1, SMTT(30) DEF TypeOK, GiveUp, JobType
<1>7. ASSUME NEW j \in Jobs, Drop(j) PROVE TypeOK'
  <2>1. DOMAIN jobs' = Jobs /\ \A k \in Jobs : jobs'[k] = Idle \/ jobs'[k] \in JobType
    BY <1>0, <1>7 DEF TypeOK, Drop, JobType
  <2>2. QED
    BY <1>0, <1>7, <2>1 DEF TypeOK, Drop, JobType
<1>8. ASSUME NEW n \in Nodes, HealthFence(n) PROVE TypeOK'
  BY <1>0, <1>8 DEF TypeOK, HealthFence
<1>9. ASSUME NEW n \in Nodes, Reload(n) PROVE TypeOK'
  <2>1. DOMAIN jobs' = Jobs /\ \A k \in Jobs : jobs'[k] = Idle \/ jobs'[k] \in JobType
    <3>1. DOMAIN jobs' = Jobs
      BY <1>9 DEF Reload
    <3>2. ASSUME NEW k \in Jobs PROVE jobs'[k] = Idle \/ jobs'[k] \in JobType
      <4>1. \/ jobs'[k] = jobs[k]
            \/ jobs'[k] = Idle
            \/ jobs[k].state = "sent" /\ jobs'[k] = [jobs[k] EXCEPT !.state = "orphan"]
        BY <1>9 DEF Reload
      <4>2. jobs[k] = Idle \/ jobs[k] \in JobType
        BY <1>0 DEF TypeOK, JobType
      <4>3. QED
        BY <4>1, <4>2 DEF JobType, Idle
    <3>3. QED
      BY <3>1, <3>2
  <2>2. QED
    BY <1>0, <1>9, <2>1 DEF TypeOK, Reload, JobType
<1>10. ASSUME NEW time \in Time, SetTime(time) PROVE TypeOK'
  BY <1>0, <1>10 DEF TypeOK, SetTime, Larger
<1>11. ASSUME NEW t \in Tokens, Reclaim(t) PROVE TypeOK'
  BY <1>0, <1>11 DEF TypeOK, Reclaim, Missing
<1>12. CASE LoseEpoch \/ LoseClock \/ LoseAll \/ Export
  BY <1>0, <1>12 DEF TypeOK, LoseEpoch, LoseClock, LoseAll, Export, Missing
<1>13. ASSUME NEW e \in Epochs, Install(e) PROVE TypeOK'
  BY <1>0, <1>13 DEF TypeOK, Install
<1>14. CASE UNCHANGED vars
  BY <1>0, <1>14 DEF TypeOK
<1>15. QED
  BY <1>1, <1>2, <1>3, <1>4, <1>5, <1>6, <1>7, <1>8, <1>9, <1>10, <1>11, <1>12, <1>13, <1>14
  DEF Next, Provision, Rotate

\* The high-water mark never passes the latest TIME.
LEMMA ClockStep == IndInv /\ [Next]_vars => ClockBounds'
<1> SUFFICES ASSUME IndInv, [Next]_vars PROVE ClockBounds'
  OBVIOUS
<1>0. TypeOK /\ ClockBounds
  BY DEF IndInv
<1> USE TimeAssumption
<1>1. CASE UNCHANGED <<rtime, peak, clock>>
  BY <1>0, <1>1 DEF ClockBounds
<1>2. ASSUME NEW j \in Jobs, NEW now \in Time, Execute(j, now) \/ ExecuteOOM(j, now)
      PROVE  ClockBounds'
  <2>1. jobs[j].state \in {"sent", "orphan"} /\ UNCHANGED <<rtime, peak>>
    BY <1>2 DEF Execute, ExecuteOOM
  <2>2. clock' = clock \/ (clock' = ScriptNow /\ ScriptReply(j, now) \in {0, 1})
    BY <1>2 DEF Execute, ExecuteOOM
  <2>3. ScriptReply(j, now) \in {0, 1} => ScriptNow <= peak
    BY <2>1, ScriptFacts
  <2>4. QED
    BY <1>0, <2>1, <2>2, <2>3 DEF ClockBounds
<1>3. ASSUME NEW time \in Time, SetTime(time) PROVE ClockBounds'
  BY <1>0, <1>3 DEF SetTime, ClockBounds, TypeOK, Larger, Time, Missing
<1>4. CASE UNCHANGED <<rtime, peak>> /\ clock' = Missing
  BY <1>0, <1>4 DEF ClockBounds, TypeOK, Time, Missing
<1>5. CASE UNCHANGED <<rtime, peak>> /\ clock' = rtime
  BY <1>0, <1>5 DEF ClockBounds
<1>6. QED
  BY <1>1, <1>2, <1>3, <1>4, <1>5
  DEF Next, Issue, Send, Finish, GiveUp, Drop, HealthFence, Reload, Reclaim, LoseEpoch,
      LoseClock, LoseAll, Export, Provision, Rotate, Install

LEMMA EpochStep == IndInv /\ [Next]_vars => EpochsAreUsed'
<1> SUFFICES ASSUME IndInv, [Next]_vars PROVE EpochsAreUsed'
  OBVIOUS
<1>0. TypeOK /\ EpochsAreUsed
  BY DEF IndInv
<1>1. CASE UNCHANGED <<epoch, used, file, conf, issued>>
  BY <1>0, <1>1 DEF EpochsAreUsed
<1>2. ASSUME NEW n \in Nodes, NEW t \in Tokens, NEW now \in Time, Issue(n, t, now)
      PROVE  EpochsAreUsed'
  BY <1>0, <1>2 DEF Issue, EpochsAreUsed, TypeOK
<1>3. ASSUME NEW n \in Nodes, Reload(n) PROVE EpochsAreUsed'
  BY <1>0, <1>3 DEF Reload, EpochsAreUsed, TypeOK
<1>4. CASE LoseEpoch \/ LoseAll \/ Export
  BY <1>0, <1>4 DEF LoseEpoch, LoseAll, Export, EpochsAreUsed, TypeOK
<1>5. ASSUME NEW e \in Epochs, Install(e) PROVE EpochsAreUsed'
  BY <1>0, <1>5 DEF Install, EpochsAreUsed, TypeOK
<1>6. QED
  BY <1>1, <1>2, <1>3, <1>4, <1>5
  DEF Next, Send, Execute, ExecuteOOM, Finish, GiveUp, Drop, HealthFence, SetTime, Reclaim,
      LoseClock, Provision, Rotate

\* How a step changes a job.
LEMMA JobStep ==
  ASSUME IndInv, [Next]_vars, NEW k \in Jobs
  PROVE  \/ jobs'[k] = jobs[k]
         \/ jobs'[k] = Idle
         \/ jobs'[k].state = "orphan" /\ jobs[k] # Idle /\ jobs'[k].token = jobs[k].token
         \/ jobs'[k].state = "sent" /\ IsIssued(jobs'[k].token)
         \/ /\ jobs[k].state \in {"sent", "orphan"}
            /\ jobs'[k].state = "replied"
            /\ jobs'[k].token = jobs[k].token
            /\ \/ jobs'[k].reply = Error
               \/ \E now \in Time : Execute(k, now) /\ jobs'[k].reply = ScriptReply(k, now)
<1>0. TypeOK
  BY DEF IndInv
<1> DEFINE Goal ==
         \/ jobs'[k] = jobs[k]
         \/ jobs'[k] = Idle
         \/ jobs'[k].state = "orphan" /\ jobs[k] # Idle /\ jobs'[k].token = jobs[k].token
         \/ jobs'[k].state = "sent" /\ IsIssued(jobs'[k].token)
         \/ /\ jobs[k].state \in {"sent", "orphan"}
            /\ jobs'[k].state = "replied"
            /\ jobs'[k].token = jobs[k].token
            /\ \/ jobs'[k].reply = Error
               \/ \E now \in Time : Execute(k, now) /\ jobs'[k].reply = ScriptReply(k, now)
<1>1. CASE UNCHANGED jobs
  BY <1>1, Zenon
<1>2. ASSUME NEW n \in Nodes, NEW j \in Jobs, NEW t \in Tokens, Send(n, j, t) PROVE Goal
  BY <1>0, <1>2 DEF Send, TypeOK
<1>3. ASSUME NEW j \in Jobs, NEW now \in Time, Execute(j, now) PROVE Goal
  <2>1. jobs[j].state \in {"sent", "orphan"} /\ Answer(j, ScriptReply(j, now))
    BY <1>3, Zenon DEF Execute
  <2>2. ScriptReply(j, now) \in Reply
    BY <2>1, ScriptFacts, Zenon
  <2>3. jobs'[k] = jobs[k] \/ jobs'[k] = Idle
        \/ (k = j /\ jobs'[k] = [state |-> "replied", node |-> jobs[j].node,
                                 token |-> jobs[j].token, reply |-> ScriptReply(j, now)])
    BY <2>1, <2>2, AnswerJobs, Zenon
  <2>4. CASE k = j /\ jobs'[k] = [state |-> "replied", node |-> jobs[j].node,
                                  token |-> jobs[j].token, reply |-> ScriptReply(j, now)]
    <3>1. jobs'[j] = [state |-> "replied", node |-> jobs[j].node,
                      token |-> jobs[j].token, reply |-> ScriptReply(j, now)]
      BY <2>4, Zenon
    <3>2. /\ jobs'[j].state = "replied"
          /\ jobs'[j].token = jobs[j].token
          /\ jobs'[j].reply = ScriptReply(j, now)
      BY <3>1, JobFields, Zenon
    <3>3. QED
      BY <1>3, <2>1, <2>4, <3>2, Zenon
  <2>5. QED
    BY <2>3, <2>4, Zenon
<1>4. ASSUME NEW j \in Jobs, NEW now \in Time, ExecuteOOM(j, now) PROVE Goal
  <2>1. jobs[j].state \in {"sent", "orphan"} /\ Answer(j, Error)
    BY <1>4, Zenon DEF ExecuteOOM
  <2>2. jobs'[k] = jobs[k] \/ jobs'[k] = Idle
        \/ (k = j /\ jobs'[k] = [state |-> "replied", node |-> jobs[j].node,
                                 token |-> jobs[j].token, reply |-> Error])
    BY <2>1, AnswerJobs
  <2>3. CASE k = j /\ jobs'[k] = [state |-> "replied", node |-> jobs[j].node,
                                  token |-> jobs[j].token, reply |-> Error]
    <3>1. jobs'[j] = [state |-> "replied", node |-> jobs[j].node,
                      token |-> jobs[j].token, reply |-> Error]
      BY <2>3, Zenon
    <3>2. /\ jobs'[j].state = "replied"
          /\ jobs'[j].token = jobs[j].token
          /\ jobs'[j].reply = Error
      BY <3>1, JobFields, Zenon
    <3>3. QED
      BY <1>4, <2>1, <2>3, <3>2, Zenon
  <2>4. QED
    BY <2>2, <2>3, Zenon
<1>5. ASSUME NEW j \in Jobs, NEW now \in Time, Finish(j, now) PROVE Goal
  BY <1>0, <1>5 DEF Finish, TypeOK
<1>6. ASSUME NEW j \in Jobs, GiveUp(j) \/ Drop(j) PROVE Goal
  <2>1. jobs'[k] = jobs[k] \/ jobs'[k] = Idle
        \/ (jobs[k].state = "sent" /\ jobs'[k] = [jobs[k] EXCEPT !.state = "orphan"])
    BY <1>0, <1>6 DEF GiveUp, Drop, TypeOK
  <2>2. CASE jobs[k].state = "sent" /\ jobs'[k] = [jobs[k] EXCEPT !.state = "orphan"]
    <3>1. jobs'[k] = [state |-> "orphan", node |-> jobs[k].node,
                      token |-> jobs[k].token, reply |-> jobs[k].reply]
      BY <1>0, <2>2, OrphanShape
    <3>2. jobs[k] # Idle
      BY <2>2 DEF Idle
    <3>3. jobs'[k].state = "orphan" /\ jobs'[k].token = jobs[k].token
      BY <3>1, JobFields, Zenon
    <3>4. QED
      BY <3>2, <3>3, Zenon
  <2>3. QED
    BY <2>1, <2>2
<1>7. ASSUME NEW n \in Nodes, Reload(n) PROVE Goal
  <2>1. jobs'[k] = jobs[k] \/ jobs'[k] = Idle
        \/ (jobs[k].state = "sent" /\ jobs'[k] = [jobs[k] EXCEPT !.state = "orphan"])
    BY <1>7 DEF Reload
  <2>2. CASE jobs[k].state = "sent" /\ jobs'[k] = [jobs[k] EXCEPT !.state = "orphan"]
    <3>1. jobs'[k] = [state |-> "orphan", node |-> jobs[k].node,
                      token |-> jobs[k].token, reply |-> jobs[k].reply]
      BY <1>0, <2>2, OrphanShape
    <3>2. jobs[k] # Idle
      BY <2>2 DEF Idle
    <3>3. jobs'[k].state = "orphan" /\ jobs'[k].token = jobs[k].token
      BY <3>1, JobFields, Zenon
    <3>4. QED
      BY <3>2, <3>3
  <2>3. QED
    BY <2>1, <2>2
<1>8. QED
  BY <1>1, <1>2, <1>3, <1>4, <1>5, <1>6, <1>7, Zenon
  DEF Next, Issue, HealthFence, SetTime, Reclaim, LoseEpoch, LoseClock, LoseAll, Export,
      Provision, Rotate, Install

\* Issued tokens keep their epoch and expiry.
LEMMA IssuedStep ==
  ASSUME IndInv, [Next]_vars, NEW t \in Tokens, IsIssued(t)
  PROVE  issued'[t] = issued[t] /\ IsIssued(t)'
<1>0. TypeOK
  BY DEF IndInv
<1>1. CASE UNCHANGED issued
  BY <1>1 DEF IsIssued
<1>2. ASSUME NEW n \in Nodes, NEW u \in Tokens, NEW now \in Time, Issue(n, u, now)
      PROVE  issued'[t] = issued[t] /\ IsIssued(t)'
  BY <1>0, <1>2 DEF Issue, IsIssued, TypeOK
<1>3. QED
  BY <1>1, <1>2
  DEF Next, Send, Execute, ExecuteOOM, Finish, GiveUp, Drop, HealthFence, Reload, SetTime,
      Reclaim, LoseEpoch, LoseClock, LoseAll, Export, Provision, Rotate, Install

LEMMA JobsIssuedStep == IndInv /\ [Next]_vars => JobsAreIssued'
<1> SUFFICES ASSUME IndInv, [Next]_vars, NEW k \in Jobs, jobs'[k] # Idle
             PROVE  issued'[jobs'[k].token].expires > 0
  BY DEF JobsAreIssued, IsIssued
<1>1. TypeOK' /\ jobs'[k] \in JobType
  BY TypeStep DEF TypeOK, JobType
<1>2. jobs'[k].token \in Tokens
  BY <1>1 DEF JobType
<1>3. IsIssued(jobs'[k].token)
  <2>1. jobs[k] # Idle => IsIssued(jobs[k].token)
    BY DEF IndInv, JobsAreIssued
  <2>2. jobs[k].state \in {"sent", "orphan"} => jobs[k] # Idle
    BY DEF Idle
  <2>3. QED
    BY <2>1, <2>2, JobStep
<1>4. issued'[jobs'[k].token] = issued[jobs'[k].token]
  BY <1>2, <1>3, IssuedStep
<1>5. QED
  BY <1>3, <1>4 DEF IsIssued

\* Where a marker, the epoch or the clock goes, an accepted token is retired or
\* past the moment from which TIME stays beyond its expiry.
LEMMA RememberedStep ==
  ASSUME ClockIsSteady, IndInv, [Next]_vars
  PROVE  SpentIsRemembered'
<1> SUFFICES ASSUME NEW u \in Tokens, accepted'[u] > 0
             PROVE  IsIssued(u)' /\ Remembered(u)'
  BY DEF SpentIsRemembered
<1>0. TypeOK /\ ClockBounds /\ SpentIsRemembered /\ EpochsAreUsed
  BY DEF IndInv
<1> USE TimeAssumption, SkewAssumption
<1> DEFINE E == issued[u].expires + MaxBehind
<1>00. issued[u].expires \in Nat
  BY <1>0 DEF TypeOK
<1>01. E \in Int
  BY <1>00, TimeAssumption
<1>1. ASSUME NEW j \in Jobs, NEW now \in Time, Execute(j, now), ScriptReply(j, now) = 1,
             u = jobs[j].token
      PROVE  IsIssued(u)' /\ Remembered(u)'
  <2>1. jobs[j].state \in {"sent", "orphan"}
    BY <1>1 DEF Execute
  <2>2. IsIssued(u)
    BY <1>1, <2>1, JobInFlight
  <2>3. ScriptNow \in Time /\ ScriptNow <= peak
    BY <1>1, <2>1, ScriptFacts
  <2>4. MarkerEnd(u) >= E
    BY <1>0, <2>3 DEF MarkerEnd, ClockIsSteady, ClockBounds, TypeOK, Time
  <2>5. markers'[u] = MarkerEnd(u)
    BY <1>0, <1>1 DEF Execute, TypeOK
  <2>6. issued'[u] = issued[u] /\ IsIssued(u)'
    BY <2>2, IssuedStep, Zenon
  <2>7. QED
    BY <2>4, <2>5, <2>6 DEF Remembered
<1>2. CASE ~(\E j \in Jobs, now \in Time :
               Execute(j, now) /\ ScriptReply(j, now) = 1 /\ u = jobs[j].token)
  <2>1. accepted[u] > 0
    <3>1. ASSUME NEW j \in Jobs, NEW now \in Time, Execute(j, now) PROVE accepted'[u] = accepted[u]
      <4>1. ScriptReply(j, now) # 1 \/ u # jobs[j].token
        BY <1>2, <3>1
      <4>2. accepted' = IF ScriptReply(j, now) = 1 THEN [accepted EXCEPT ![jobs[j].token] = @ + 1]
                        ELSE accepted
        BY <3>1 DEF Execute
      <4>3. QED
        BY <1>0, <4>1, <4>2 DEF TypeOK
    <3>2. QED
      BY <3>1
      DEF Next, Issue, Send, ExecuteOOM, Finish, GiveUp, Drop, HealthFence, Reload, SetTime,
          Reclaim, LoseEpoch, LoseClock, LoseAll, Export, Provision, Rotate, Install
  <2>2. IsIssued(u) /\ Remembered(u)
    BY <1>0, <2>1 DEF SpentIsRemembered
  <2>3. issued'[u] = issued[u] /\ IsIssued(u)'
    BY <2>2, IssuedStep
  <2>4. issued[u].expires \in Nat /\ markers[u] \in Int /\ issued[u].epoch \in Epochs
        /\ issued[u].epoch \in used
    BY <1>0 DEF TypeOK, EpochsAreUsed
  <2>5. CASE UNCHANGED <<epoch, clock, peak, markers>>
    BY <2>2, <2>3, <2>5 DEF Remembered, Retired
  <2>6. ASSUME NEW j \in Jobs, NEW now \in Time, Execute(j, now) \/ ExecuteOOM(j, now)
        PROVE  Remembered(u)'
    <3>1. jobs[j].state \in {"sent", "orphan"} /\ UNCHANGED <<peak, epoch>>
      BY <2>6 DEF Execute, ExecuteOOM
    <3>2. clock' = clock \/ (ScriptReply(j, now) \in {0, 1} /\ clock' = ScriptNow)
      BY <2>6 DEF Execute, ExecuteOOM
    <3>3. ScriptReply(j, now) \in {0, 1} => ~Retired(jobs[j].token)
      BY <3>1, ScriptFacts
    <3>4. clock = Missing => clock' = Missing
      BY <3>2, <3>3 DEF Retired
    <3>5. markers'[u] = markers[u]
      <4>1. CASE ExecuteOOM(j, now)
        BY <4>1 DEF ExecuteOOM
      <4>2. CASE Execute(j, now)
        <5>1. ScriptReply(j, now) # 1 \/ u # jobs[j].token
          BY <1>2, <4>2
        <5>2. markers' = IF ScriptReply(j, now) = 1
                         THEN [markers EXCEPT ![jobs[j].token] = MarkerEnd(jobs[j].token)]
                         ELSE markers
          BY <4>2 DEF Execute
        <5>3. QED
          BY <1>0, <5>1, <5>2 DEF TypeOK
      <4>3. QED
        BY <2>6, <4>1, <4>2
    <3>6. QED
      BY <2>2, <2>3, <3>1, <3>4, <3>5 DEF Remembered, Retired
  <2>7. ASSUME NEW time \in Time, SetTime(time) PROVE Remembered(u)'
    <3>1. peak' >= peak /\ UNCHANGED <<epoch, clock, markers>>
      BY <1>0, <2>7 DEF SetTime, Larger, TypeOK, Time
    <3>2. peak \in Int /\ peak' \in Int
      BY <1>0, <2>7 DEF SetTime, Larger, TypeOK, Time
    <3>3. peak >= E => peak' >= E
      <4> HIDE DEF E
      <4>1. QED
        BY <1>01, <3>1, <3>2
    <3>4. QED
      BY <2>2, <2>3, <3>1, <3>3 DEF Remembered, Retired
  <2>8. ASSUME NEW t \in Tokens, Reclaim(t) PROVE Remembered(u)'
    <3>1. UNCHANGED <<epoch, clock, peak>>
      BY <2>8 DEF Reclaim
    <3>2. u # t => markers'[u] = markers[u]
      BY <1>0, <2>8 DEF Reclaim, TypeOK
    <3>3. rtime \in Int /\ peak \in Int /\ rtime <= peak
      BY <1>0 DEF ClockBounds, TypeOK, Time
    <3>4. u = t /\ markers[u] >= E => peak >= E
      <4>1. u = t => rtime >= markers[u]
        BY <2>8 DEF Reclaim
      <4> HIDE DEF E
      <4>2. QED
        BY <1>01, <2>4, <3>3, <4>1
    <3>5. QED
      BY <2>2, <2>3, <3>1, <3>2, <3>4 DEF Remembered, Retired
  <2>9. CASE LoseEpoch \/ LoseAll
    BY <2>3, <2>4, <2>9, NameAssumption DEF LoseEpoch, LoseAll, Remembered, Retired
  <2>10. CASE LoseClock
    BY <2>3, <2>10 DEF LoseClock, Remembered, Retired
  <2>11. ASSUME NEW e \in Epochs, Install(e) PROVE Remembered(u)'
    BY <2>3, <2>4, <2>11 DEF Install, Remembered, Retired
  <2>12. Remembered(u)'
    BY <2>5, <2>6, <2>7, <2>8, <2>9, <2>10, <2>11
    DEF Next, Issue, Send, Finish, GiveUp, Drop, HealthFence, Reload, Export, Provision, Rotate
  <2>13. QED
    BY <2>3, <2>12
<1>3. QED
  BY <1>1, <1>2

\* The only step that counts an acceptance is an execution that answers 1.
LEMMA AcceptStep ==
  ASSUME IndInv, [Next]_vars
  PROVE  \/ accepted' = accepted
         \/ \E j \in Jobs, now \in Time :
              /\ Execute(j, now)
              /\ ScriptReply(j, now) = 1
              /\ accepted[jobs[j].token] = 0
              /\ accepted' = [accepted EXCEPT ![jobs[j].token] = 1]
<1>0. TypeOK
  BY DEF IndInv
<1>1. ASSUME NEW j \in Jobs, NEW now \in Time, Execute(j, now), ScriptReply(j, now) = 1
      PROVE  /\ accepted[jobs[j].token] = 0
             /\ accepted' = [accepted EXCEPT ![jobs[j].token] = 1]
  <2>1. accepted[jobs[j].token] = 0
    BY <1>1, AcceptsFresh DEF Execute
  <2>2. jobs[j].token \in Tokens
    BY <1>1, JobInFlight DEF Execute
  <2>3. accepted' = [accepted EXCEPT ![jobs[j].token] = @ + 1]
    BY <1>1 DEF Execute
  <2>4. QED
    BY <1>0, <2>1, <2>2, <2>3 DEF TypeOK
<1>2. ASSUME NEW j \in Jobs, NEW now \in Time, Execute(j, now), ScriptReply(j, now) # 1
      PROVE  accepted' = accepted
  BY <1>2 DEF Execute
<1>3. QED
  BY <1>1, <1>2
  DEF Next, Issue, Send, ExecuteOOM, Finish, GiveUp, Drop, HealthFence, Reload, SetTime,
      Reclaim, LoseEpoch, LoseClock, LoseAll, Export, Provision, Rotate, Install

LEMMA AcceptedGrows ==
  ASSUME IndInv, [Next]_vars, NEW t \in Tokens, accepted[t] > 0
  PROVE  accepted'[t] > 0
<1>1. accepted \in [Tokens -> Nat]
  BY DEF IndInv, TypeOK
<1>2. QED
  BY <1>1, AcceptStep

LEMMA AcceptedOnceStep == IndInv /\ [Next]_vars => AcceptedOnce'
<1> SUFFICES ASSUME IndInv, [Next]_vars PROVE AcceptedOnce'
  OBVIOUS
<1>1. AcceptedOnce /\ accepted \in [Tokens -> Nat]
  BY DEF IndInv, TypeOK
<1>2. QED
  BY <1>1, AcceptStep DEF AcceptedOnce

LEMMA MarkersStep == IndInv /\ [Next]_vars => MarkersAreSpent'
<1> SUFFICES ASSUME IndInv, [Next]_vars, NEW t \in Tokens, markers'[t] # Missing
             PROVE  accepted'[t] > 0
  BY DEF MarkersAreSpent
<1>0. TypeOK /\ MarkersAreSpent
  BY DEF IndInv
<1>1. CASE markers[t] # Missing
  BY <1>0, <1>1, AcceptedGrows DEF MarkersAreSpent
<1>2. CASE markers[t] = Missing
  <2>1. PICK j \in Jobs, now \in Time : Execute(j, now) /\ ScriptReply(j, now) = 1 /\ jobs[j].token = t
    <3>1. ASSUME NEW j \in Jobs, NEW now \in Time, Execute(j, now)
          PROVE  ScriptReply(j, now) = 1 /\ jobs[j].token = t
      BY <1>0, <1>2, <3>1 DEF Execute, TypeOK
    <3>2. ASSUME NEW x \in Tokens, Reclaim(x) PROVE FALSE
      BY <1>0, <1>2, <3>2 DEF Reclaim, TypeOK
    <3>3. markers' # markers /\ ~LoseAll
      BY <1>2 DEF LoseAll
    <3>4. QED
      BY <3>1, <3>2, <3>3
      DEF Next, Issue, Send, ExecuteOOM, Finish, GiveUp, Drop, HealthFence, Reload, SetTime,
          LoseEpoch, LoseClock, Export, Provision, Rotate, Install
  <2>2. accepted' = [accepted EXCEPT ![t] = @ + 1]
    BY <2>1 DEF Execute
  <2>3. accepted \in [Tokens -> Nat]
    BY <1>0 DEF TypeOK
  <2>4. QED
    BY <2>2, <2>3
<1>3. QED
  BY <1>1, <1>2

\* A marker stops SET NX only if it exists.
LEMMA RepliesStep == IndInv /\ [Next]_vars => RepliesAreHonest'
<1> SUFFICES ASSUME IndInv, [Next]_vars, NEW k \in Jobs,
                    jobs'[k].state = "replied", jobs'[k].reply = 0
             PROVE  accepted'[jobs'[k].token] > 0
  BY DEF RepliesAreHonest
<1>1. jobs'[k].token \in Tokens
  <2>1. jobs'[k] # Idle
    BY DEF Idle
  <2>2. QED
    BY <2>1, TypeStep DEF TypeOK
<1>2. CASE jobs'[k] = jobs[k]
  <2>1. accepted[jobs[k].token] > 0
    BY <1>2 DEF IndInv, RepliesAreHonest
  <2>2. QED
    BY <1>1, <1>2, <2>1, AcceptedGrows
<1>3. ASSUME NEW now \in Time, Execute(k, now), jobs'[k].reply = ScriptReply(k, now),
             jobs'[k].token = jobs[k].token
      PROVE  accepted'[jobs'[k].token] > 0
  <2>1. Visible(jobs[k].token)
    BY <1>3, ScriptFacts DEF Execute
  <2>2. accepted[jobs[k].token] > 0
    BY <1>1, <1>3, <2>1 DEF Visible, IndInv, MarkersAreSpent
  <2>3. QED
    BY <1>1, <1>3, <2>2, AcceptedGrows
<1>4. QED
  <2>1. jobs'[k] # Idle
    BY DEF Idle
  <2>2. jobs'[k].reply # Error
    BY DEF Error
  <2>3. \/ jobs'[k] = jobs[k]
        \/ /\ jobs'[k].token = jobs[k].token
           /\ \E now \in Time : Execute(k, now) /\ jobs'[k].reply = ScriptReply(k, now)
    BY <2>1, <2>2, JobStep
  <2>4. QED
    BY <1>2, <1>3, <2>3

LEMMA ReusedStep == IndInv /\ [Next]_vars => ReusedIsHonest'
<1> SUFFICES ASSUME IndInv, [Next]_vars, NEW t \in replayed' PROVE accepted'[t] > 0
  BY DEF ReusedIsHonest
<1>0. TypeOK /\ ReusedIsHonest /\ RepliesAreHonest
  BY DEF IndInv
<1>1. CASE t \in replayed
  BY <1>0, <1>1, AcceptedGrows DEF ReusedIsHonest, TypeOK
<1>2. CASE t \notin replayed
  <2>1. PICK j \in Jobs, now \in Time : Finish(j, now)
    BY <1>2
    DEF Next, Issue, Send, Execute, ExecuteOOM, GiveUp, Drop, HealthFence, Reload, SetTime,
        Reclaim, LoseEpoch, LoseClock, LoseAll, Export, Provision, Rotate, Install
  <2>2. jobs[j].state = "replied" /\ jobs[j].reply = 0 /\ jobs[j].token = t /\ accepted' = accepted
    BY <1>2, <2>1 DEF Finish
  <2>3. QED
    BY <1>0, <2>2, Zenon DEF RepliesAreHonest
<1>3. QED
  BY <1>1, <1>2

LEMMA MintedStep == IndInv /\ [Next]_vars => MintedFromAcceptance'
<1> SUFFICES ASSUME IndInv, [Next]_vars, NEW t \in Tokens
             PROVE  /\ minted'[t] <= accepted'[t]
                    /\ \A j \in Jobs : CarriesAcceptance(j, t)' =>
                         /\ minted'[t] < accepted'[t]
                         /\ \A k \in Jobs : CarriesAcceptance(k, t)' => k = j
  BY DEF MintedFromAcceptance
<1>0. /\ TypeOK
      /\ minted[t] <= accepted[t]
      /\ \A j \in Jobs : CarriesAcceptance(j, t) =>
           /\ minted[t] < accepted[t]
           /\ \A k \in Jobs : CarriesAcceptance(k, t) => k = j
  BY DEF IndInv, MintedFromAcceptance
<1>00. minted[t] \in Nat /\ accepted[t] \in Nat
  BY <1>0 DEF TypeOK
<1>1. ASSUME NEW j \in Jobs, NEW now \in Time, Execute(j, now), ScriptReply(j, now) = 1,
             jobs[j].token = t
      PROVE  /\ minted'[t] <= accepted'[t]
             /\ \A i \in Jobs : CarriesAcceptance(i, t)' =>
                  /\ minted'[t] < accepted'[t]
                  /\ \A k \in Jobs : CarriesAcceptance(k, t)' => k = i
  <2>1. accepted[t] = 0
    BY <1>1, AcceptsFresh DEF Execute
  <2>2. minted[t] = 0 /\ \A k \in Jobs : ~CarriesAcceptance(k, t)
    <3>1. minted[t] = 0 /\ ~(minted[t] < accepted[t])
      BY <1>0, <1>00, <2>1
    <3>2. QED
      BY <1>0, <3>1
  <2>3. accepted'[t] = 1 /\ minted'[t] = 0
    <3>1. accepted' = [accepted EXCEPT ![t] = @ + 1] /\ minted' = minted
      BY <1>1 DEF Execute
    <3>2. accepted \in [Tokens -> Nat]
      BY <1>0 DEF TypeOK
    <3>3. QED
      BY <2>1, <2>2, <3>1, <3>2
  <2>4. \A k \in Jobs \ {j} : jobs'[k] = jobs[k]
    <3>1. ScriptReply(j, now) \in Reply \union {Error}
      BY <1>1 DEF Reply
    <3>2. QED
      BY <1>1, <3>1, AnswerJobs, Zenon DEF Execute
  <2>5. \A k \in Jobs \ {j} : ~CarriesAcceptance(k, t)'
    BY <2>2, <2>4 DEF CarriesAcceptance
  <2>6. QED
    BY <2>3, <2>5
<1>2. CASE ~(\E j \in Jobs, now \in Time :
               Execute(j, now) /\ ScriptReply(j, now) = 1 /\ jobs[j].token = t)
  <2>1. accepted'[t] = accepted[t]
    BY <1>0, <1>2, AcceptStep, Zenon DEF TypeOK
  <2>2. \A k \in Jobs : CarriesAcceptance(k, t)' => CarriesAcceptance(k, t)
    <3> SUFFICES ASSUME NEW k \in Jobs, CarriesAcceptance(k, t)' PROVE CarriesAcceptance(k, t)
      OBVIOUS
    <3>1. jobs'[k].state = "replied" /\ jobs'[k].reply = 1 /\ jobs'[k].token = t
      BY DEF CarriesAcceptance
    <3>2. jobs'[k] # Idle /\ jobs'[k].reply # Error
      BY <3>1 DEF Idle, Error
    <3>3. jobs'[k] = jobs[k]
      BY <1>2, <3>1, <3>2, JobStep
    <3>4. QED
      BY <3>1, <3>3, Zenon DEF CarriesAcceptance
  <2>3. CASE minted'[t] = minted[t]
    BY <1>0, <2>1, <2>2, <2>3
  <2>4. CASE minted'[t] # minted[t]
    <3>1. PICK j \in Jobs, now \in Time : Finish(j, now)
      BY <2>4
      DEF Next, Issue, Send, Execute, ExecuteOOM, GiveUp, Drop, HealthFence, Reload, SetTime,
          Reclaim, LoseEpoch, LoseClock, LoseAll, Export, Provision, Rotate, Install
    <3>2. CarriesAcceptance(j, t) /\ minted'[t] = minted[t] + 1
      BY <1>0, <2>4, <3>1 DEF Finish, CarriesAcceptance, TypeOK
    <3>3. \A k \in Jobs : ~CarriesAcceptance(k, t)'
      <4>1. jobs'[j].state = "idle"
        BY <1>0, <3>1 DEF Finish, TypeOK, Idle
      <4>2. ~CarriesAcceptance(j, t)'
        BY <4>1, Zenon DEF CarriesAcceptance
      <4>3. QED
        BY <1>0, <2>2, <3>2, <4>2
    <3>4. minted[t] < accepted[t]
      BY <1>0, <3>2, Zenon
    <3>5. QED
      BY <1>00, <2>1, <3>2, <3>3, <3>4
  <2>5. QED
    BY <2>3, <2>4
<1>3. QED
  BY <1>1, <1>2

LEMMA InductiveStep ==
  ASSUME ClockIsSteady
  PROVE  IndInv /\ [Next]_vars => IndInv'
BY TypeStep, ClockStep, EpochStep, JobsIssuedStep, RememberedStep, MarkersStep, RepliesStep,
   AcceptedOnceStep, MintedStep, ReusedStep, Zenon DEF IndInv

LEMMA Invariance ==
  ASSUME ClockIsSteady
  PROVE  Spec => []IndInv
BY InitInv, InductiveStep, PTL DEF Spec

\* redis.rs, CONSUME: with a steady clock Redis accepts a token at most once,
\* through any number of nodes, late executions, lost keys and rotations.
THEOREM RedisAcceptsOnce ==
  ASSUME ClockIsSteady
  PROVE  Spec => []AcceptedOnce
<1>1. IndInv => AcceptedOnce
  BY DEF IndInv
<1>2. QED
  BY <1>1, Invariance, PTL

\* cluster.rs, complete: with a steady clock every clearance stems from an
\* acceptance of its own.
THEOREM ClearancesAreAccepted ==
  ASSUME ClockIsSteady
  PROVE  Spec => []MintedFromAcceptance
<1>1. IndInv => MintedFromAcceptance
  BY DEF IndInv
<1>2. QED
  BY <1>1, Invariance, PTL

\* redis.rs, CONSUME, and cluster.rs, complete: with a steady clock no token is
\* reported as already used before it was accepted.
THEOREM RedisReplayIsHonest ==
  ASSUME ClockIsSteady
  PROVE  Spec => []ReusedIsHonest
<1>1. IndInv => ReusedIsHonest
  BY DEF IndInv
<1>2. QED
  BY <1>1, Invariance, PTL

\* Closed tokens stay closed: the high-water mark only rises within an epoch,
\* and an epoch that is gone never comes back.
LEMMA ClosedGrows ==
  ASSUME IndInv, [Next]_vars
  PROVE  Closed \subseteq Closed'
<1> SUFFICES ASSUME NEW t \in Closed PROVE t \in Closed'
  OBVIOUS
<1>0. TypeOK /\ EpochsAreUsed /\ t \in Tokens /\ IsIssued(t)
      /\ (Retired(t) \/ clock >= issued[t].expires)
  BY DEF IndInv, Closed
<1>1. issued'[t] = issued[t] /\ IsIssued(t)'
  BY <1>0, IssuedStep
<1>2. issued[t].epoch \in used /\ issued[t].epoch \in Epochs /\ issued[t].expires \in Nat
  BY <1>0, Zenon DEF TypeOK, EpochsAreUsed
<1>3. CASE UNCHANGED <<epoch, clock>>
  BY <1>0, <1>1, <1>3 DEF Closed, Retired
<1>4. ASSUME NEW j \in Jobs, NEW now \in Time, Execute(j, now) \/ ExecuteOOM(j, now)
      PROVE  t \in Closed'
  <2>1. jobs[j].state \in {"sent", "orphan"} /\ epoch' = epoch
    BY <1>4 DEF Execute, ExecuteOOM
  <2>2. clock' = clock \/ (ScriptReply(j, now) \in {0, 1} /\ clock' = ScriptNow)
    BY <1>4 DEF Execute, ExecuteOOM
  <2>3. ScriptReply(j, now) \in {0, 1} =>
          ~Retired(jobs[j].token) /\ ScriptNow \in Time /\ ScriptNow >= clock
    BY <2>1, ScriptFacts
  <2>4. CASE clock' = clock
    BY <1>3, <2>1, <2>4
  <2>5. CASE clock' # clock
    <3>1. clock # Missing /\ clock' \in Time /\ clock' >= clock /\ clock \in Time
      BY <1>0, <2>2, <2>3, <2>5 DEF Retired, TypeOK
    <3>2. clock >= issued[t].expires => clock' >= issued[t].expires
      BY <1>2, <3>1, TimeAssumption DEF Time
    <3>3. QED
      BY <1>0, <1>1, <2>1, <3>1, <3>2 DEF Closed, Retired
  <2>6. QED
    BY <2>4, <2>5
<1>5. CASE LoseEpoch \/ LoseAll
  BY <1>0, <1>1, <1>2, <1>5, NameAssumption DEF LoseEpoch, LoseAll, Closed, Retired
<1>6. CASE LoseClock
  BY <1>0, <1>1, <1>6, Zenon DEF LoseClock, Closed, Retired
<1>7. ASSUME NEW e \in Epochs, Install(e) PROVE t \in Closed'
  BY <1>0, <1>1, <1>2, <1>7, Zenon DEF Install, Closed, Retired
<1>8. QED
  BY <1>3, <1>4, <1>5, <1>6, <1>7
  DEF Next, Issue, Send, Finish, GiveUp, Drop, HealthFence, Reload, SetTime, Reclaim, Export,
      Provision, Rotate

\* With a steady clock Redis implements the abstract one-use store: a step
\* accepts one token that was neither accepted nor closed, or only closes some.
THEOREM RedisImplementsOneUse ==
  ASSUME ClockIsSteady
  PROVE  Spec => ImplementsOneUse
<1>1. Init => Promise!Init
  BY DEF Init, Promise!Init, Closed, IsIssued, Unissued
<1>2. IndInv /\ [Next]_vars => [Promise!Next]_(Promise!vars)
  <2> SUFFICES ASSUME IndInv, [Next]_vars PROVE Promise!Next
    OBVIOUS
  <2>1. TypeOK /\ Closed \subseteq Closed'
    BY ClosedGrows DEF IndInv
  <2>2. CASE accepted' = accepted
    BY <2>1, <2>2 DEF Promise!Next, Promise!Close
  <2>3. CASE accepted' # accepted
    <3>1. PICK j \in Jobs, now \in Time :
            /\ Execute(j, now)
            /\ ScriptReply(j, now) = 1
            /\ accepted[jobs[j].token] = 0
            /\ accepted' = [accepted EXCEPT ![jobs[j].token] = 1]
      BY <2>3, AcceptStep
    <3> DEFINE t == jobs[j].token
    <3>2. t \in Tokens /\ jobs[j].state \in {"sent", "orphan"}
      BY <3>1, JobInFlight DEF Execute
    <3>3. ~Retired(t) /\ ScriptNow \in Time /\ ScriptNow < issued[t].expires
      BY <3>1, <3>2, ScriptFacts
    <3>4. clock' = ScriptNow /\ epoch' = epoch /\ issued' = issued
      BY <3>1 DEF Execute
    <3>5. t \notin Closed'
      <4>1. clock' # Missing
        BY <3>3, <3>4, TimeAssumption DEF Time, Missing
      <4>2. issued[t].expires \in Nat
        BY <2>1, <3>2 DEF TypeOK
      <4>3. ~(clock' >= issued[t].expires)
        BY <3>3, <3>4, <4>2, TimeAssumption DEF Time
      <4>4. issued[t].epoch = epoch
        BY <3>3 DEF Retired
      <4>5. QED
        BY <3>4, <4>1, <4>3, <4>4 DEF Closed, Retired
    <3>6. \E u \in Tokens : Promise!Redeem(u)
      BY <2>1, <3>1, <3>2, <3>5, Zenon DEF Promise!Redeem
    <3>7. QED
      BY <3>6 DEF Promise!Next
  <2>4. QED
    BY <2>2, <2>3
<1>3. QED
  BY <1>1, <1>2, Invariance, PTL DEF Spec, ImplementsOneUse, Promise!Spec
=============================================================================
