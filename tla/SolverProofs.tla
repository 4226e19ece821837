---------------------------- MODULE SolverProofs ----------------------------
(***************************************************************************)
(* What run never does, for any number of attempts, tries, probes and      *)
(* navigations: it does not post a token twice, leave without a verified   *)
(* solution or navigate without end.  And what the clock that it leaves    *)
(* behind is worth, for any durations.                                     *)
(***************************************************************************)
EXTENDS Page, TLAPS

USE DEF fetching, loop, page, history, vars, Ended, Left, Searching, Working

LEMMA InitInv == Init => SolverInv
<1> SUFFICES ASSUME Init PROVE SolverInv
  OBVIOUS
<1> USE DEF Init
<1>1. PostsInv
  BY Zenon DEF PostsInv
<1>2. ~ok /\ ok \in BOOLEAN /\ verified \in BOOLEAN
  BY Zenon
<1>3. LeavesInv
  BY <1>2 DEF LeavesInv
<1>4. MarkerInv
  BY SolverAssumption DEF MarkerInv
<1>5. QED
  BY <1>1, <1>3, <1>4 DEF SolverInv

\* The steps, with the awaits of run apart from what the page and its user do.
LEMMA PostsStep == PostsInv /\ [Next]_vars => PostsInv'
<1> SUFFICES ASSUME PostsInv, [Next]_vars PROVE PostsInv'
  OBVIOUS
<1> USE DEF PostsInv, Failed, Caught, Answered
<1>1. CASE Start \/ Again \/ Navigate \/ SolveSequential
  BY <1>1 DEF Start, Again, Navigate, SolveSequential
<1>2. ASSUME NEW b \in BOOLEAN, GetKeypair(b) \/ SolveParallel(b) \/ Batch(b) \/ Replay(b) PROVE PostsInv'
  BY <1>2 DEF GetKeypair, SolveParallel, Batch, Replay
<1>3. CASE Send
  <2>1. CASE STOPPED
    <3>1. ~sent /\ UNCHANGED <<sent, posts>> /\ pc' \in {"failed", "stopped", "next"}
      BY <1>3, <2>1 DEF Send
    <3>2. QED
      BY <3>1
  <2>2. CASE ~STOPPED
    <3>1. /\ pc \in {"challenge", "verify", "status"} /\ pc' = pc
          /\ posts' = (IF pc = "verify" THEN posts + 1 ELSE posts) /\ ~sent
      BY <1>3, <2>2 DEF Send
    <3>2. sent' = TRUE
      BY <1>3, <2>2 DEF Send
    <3>3. sent' /\ sent' \in BOOLEAN
      BY <3>2, Zenon
    <3>4. QED
      BY <3>1, <3>3
  <2>3. QED
    BY <2>1, <2>2
<1>4. CASE NoAnswer
  BY <1>4, Zenon DEF NoAnswer
<1>5. ASSUME NEW valid \in BOOLEAN, Challenge(valid) PROVE PostsInv'
  BY <1>5, Zenon DEF Challenge
<1>6. ASSUME NEW success \in BOOLEAN, Verify(success) PROVE PostsInv'
  BY <1>6, Zenon DEF Verify
<1>7. ASSUME NEW answer, Status(answer) PROVE PostsInv'
  BY <1>7, Zenon DEF Status
<1>8. CASE ChallengedAgain \/ Open
  BY <1>8, Zenon DEF ChallengedAgain, Open, Load
<1>9. CASE Hide
  BY <1>9 DEF Hide
<1>10. CASE ChallengeExpires \/ Reload \/ MarkerExpires \/ UNCHANGED vars
  BY <1>10 DEF ChallengeExpires, Reload, MarkerExpires
<1>11. QED
  BY <1>1, <1>2, <1>3, <1>4, <1>5, <1>6, <1>7, <1>8, <1>9, <1>10 DEF Next, Steps

LEMMA LeavesStep == SolverInv /\ [Next]_vars => LeavesInv'
<1> SUFFICES ASSUME PostsInv, LeavesInv, [Next]_vars PROVE LeavesInv'
  BY DEF SolverInv
<1> USE DEF LeavesInv, Failed, Caught, Answered
<1>1. CASE Start \/ SolveSequential \/ Send \/ NoAnswer
  BY <1>1 DEF Start, SolveSequential, Send, NoAnswer
<1>2. CASE Again \/ Navigate
  BY <1>2 DEF Again, Navigate
<1>3. ASSUME NEW b \in BOOLEAN, GetKeypair(b) \/ SolveParallel(b) \/ Batch(b) \/ Challenge(b) PROVE LeavesInv'
  BY <1>3 DEF GetKeypair, SolveParallel, Batch, Challenge
<1>4. ASSUME NEW works \in BOOLEAN, Replay(works) PROVE LeavesInv'
  BY <1>4 DEF Replay
<1>5. ASSUME NEW success \in BOOLEAN, Verify(success) PROVE LeavesInv'
  BY <1>5 DEF Verify
<1>6. ASSUME NEW answer, Status(answer) PROVE LeavesInv'
  BY <1>6, Zenon DEF Status
<1>7. CASE ChallengedAgain \/ Open
  BY <1>7, Zenon DEF ChallengedAgain, Open, Load
<1>8. CASE Hide \/ ChallengeExpires \/ Reload \/ MarkerExpires \/ UNCHANGED vars
  BY <1>8 DEF Hide, ChallengeExpires, Reload, MarkerExpires
<1>9. QED
  BY <1>1, <1>2, <1>3, <1>4, <1>5, <1>6, <1>7, <1>8 DEF Next, Steps

LEMMA MarkerStep == SolverInv /\ [Next]_vars => MarkerInv'
<1> SUFFICES ASSUME PostsInv, MarkerInv, [Next]_vars PROVE MarkerInv'
  BY DEF SolverInv
<1>0. MaxReloads \in Nat \ {0}
  BY SolverAssumption
<1> USE <1>0 DEF MarkerInv, Failed, Caught, Answered
<1>1. CASE Start
  BY <1>1 DEF Start
<1>2. CASE SolveSequential \/ Send \/ NoAnswer \/ Again
  BY <1>2 DEF SolveSequential, Send, NoAnswer, Again
<1>3. CASE Navigate
  BY <1>3 DEF Navigate
<1>4. ASSUME NEW b \in BOOLEAN, GetKeypair(b) \/ SolveParallel(b) \/ Batch(b) \/ Challenge(b) PROVE MarkerInv'
  BY <1>4 DEF GetKeypair, SolveParallel, Batch, Challenge
<1>5. ASSUME NEW b \in BOOLEAN, Replay(b) \/ Verify(b) PROVE MarkerInv'
  BY <1>5 DEF Replay, Verify
<1>6. ASSUME NEW answer, Status(answer) PROVE MarkerInv'
  BY <1>6 DEF Status
<1>7. CASE ChallengedAgain \/ Open
  BY <1>7 DEF ChallengedAgain, Open, Load
<1>8. CASE Hide \/ ChallengeExpires \/ Reload
  BY <1>8 DEF Hide, ChallengeExpires, Reload
<1>9. CASE MarkerExpires \/ UNCHANGED vars
  BY <1>9 DEF MarkerExpires
<1>10. QED
  BY <1>1, <1>2, <1>3, <1>4, <1>5, <1>6, <1>7, <1>8, <1>9 DEF Next, Steps

LEMMA Invariance == PageSafety => []SolverInv
<1>1. PageInit => SolverInv
  BY InitInv DEF PageInit
<1>2. SolverInv /\ [PageNext]_pageVars => SolverInv'
  <2>1. [PageNext]_pageVars => [Next]_vars
    BY DEF PageNext, Returned, pageVars
  <2>2. QED
    BY <2>1, PostsStep, LeavesStep, MarkerStep DEF SolverInv
<1>3. QED
  BY <1>1, <1>2, PTL DEF PageSafety

(***************************************************************************)
(* solver.js, attempt and fetchBounded: no token is posted a second time,  *)
(* whatever was lost, late or refused.                                     *)
(***************************************************************************)
THEOREM TokensArePostedOnce == PageSafety => []TokenPostedOnce
<1>1. SolverInv => TokenPostedOnce
  BY DEF SolverInv, PostsInv, TokenPostedOnce
<1>2. QED
  BY <1>1, Invariance, PTL

(***************************************************************************)
(* solver.js, run: the tab leaves for the content only after verify        *)
(* succeeded in this load, and re-issues the captured request once.        *)
(***************************************************************************)
THEOREM LeavesAfterVerify == PageSafety => []LeavesVerified
<1>1. SolverInv => LeavesVerified
  BY DEF SolverInv, LeavesInv, LeavesVerified
<1>2. QED
  BY <1>1, Invariance, PTL

(***************************************************************************)
(* solver.js, navigationCount: automatic navigations in a row stay within  *)
(* the limit, however often the page is challenged again.                  *)
(***************************************************************************)
THEOREM NavigationsEnd == PageSafety => []NavigationsBounded
<1>1. SolverInv => NavigationsBounded
  BY SolverAssumption DEF SolverInv, MarkerInv, NavigationsBounded
<1>2. QED
  BY <1>1, Invariance, PTL

\* Attempts, probes and tries are counted below their limits.
LEMMA BudgetStep == Budget /\ [Next]_vars => Budget'
<1> SUFFICES ASSUME Budget, [Next]_vars PROVE Budget'
  OBVIOUS
<1>0. {RETRIES, FETCHES, PROBES} \subseteq Nat \ {0}
  BY SolverAssumption
<1> USE <1>0 DEF Budget, Answered
<1>1. CASE Start \/ SolveSequential \/ Navigate \/ Reload \/ Hide
  BY <1>1 DEF Start, SolveSequential, Navigate, Reload, Hide
<1>2. CASE Send
  BY <1>2 DEF Send
<1>3. CASE NoAnswer
  BY <1>3 DEF NoAnswer
<1>4. ASSUME NEW b \in BOOLEAN, GetKeypair(b) \/ SolveParallel(b) \/ Batch(b) \/ Replay(b) PROVE Budget'
  BY <1>4 DEF GetKeypair, SolveParallel, Batch, Replay
<1>5. ASSUME NEW b \in BOOLEAN, Challenge(b) \/ Verify(b) PROVE Budget'
  BY <1>5 DEF Challenge, Verify
<1>6. ASSUME NEW answer, Status(answer) PROVE Budget'
  BY <1>6 DEF Status
<1>7. CASE Again
  BY <1>7 DEF Again
<1>8. CASE ChallengedAgain \/ Open
  BY <1>8 DEF ChallengedAgain, Open, Load
<1>9. CASE ChallengeExpires \/ MarkerExpires \/ UNCHANGED vars
  BY <1>9 DEF ChallengeExpires, MarkerExpires
<1>10. QED
  BY <1>1, <1>2, <1>3, <1>4, <1>5, <1>6, <1>7, <1>8, <1>9 DEF Next, Steps

\* The steps of run, one by one: each uses up some of its budget.
LEMMA StepsAdvance ==
  ASSUME Budget, PostsInv, Steps
  PROVE  Closer \/ (pc = "sequential" /\ pc' = "batch" /\ ~expired)
<1>0. {i, k, tries} \subseteq Nat
  BY SolverAssumption DEF Budget
<1> USE DEF Closer, Distance, Failed, Caught, Answered
<1>1. CASE Start
  BY <1>1 DEF Start
<1>2. CASE Send
  <2>1. CASE STOPPED
    BY <1>2, <2>1 DEF Send
  <2>2. CASE ~STOPPED
    <3>1. sent' /\ ~sent
      BY <1>2, <2>2, Zenon DEF Send
    <3>2. UNCHANGED <<pc, i, k, tries>>
      BY <1>2, <2>2 DEF Send
    <3>3. QED
      BY <3>1, <3>2
  <2>3. QED
    BY <2>1, <2>2
<1>3. CASE NoAnswer
  BY <1>0, <1>3 DEF NoAnswer
<1>4. ASSUME NEW b \in BOOLEAN, GetKeypair(b) \/ SolveParallel(b) \/ Batch(b)
      PROVE  Closer
  BY <1>4 DEF GetKeypair, SolveParallel, Batch
<1>5. ASSUME NEW b \in BOOLEAN, Challenge(b) \/ Verify(b)
      PROVE  Closer
  BY <1>5 DEF Challenge, Verify
<1>6. ASSUME NEW answer, Status(answer) PROVE Closer
  BY <1>0, <1>6 DEF Status
<1>7. CASE Again
  BY <1>0, <1>7 DEF Again
<1>8. CASE Navigate
  BY <1>8 DEF Navigate
<1>9. CASE SolveSequential
  BY <1>9 DEF SolveSequential
<1>10. QED
  BY <1>1, <1>2, <1>3, <1>4, <1>5, <1>6, <1>7, <1>8, <1>9, Zenon DEF Steps

(***************************************************************************)
(* solver.js, run, attempt, fetchBounded and clearanceAccepted: every step *)
(* uses up an attempt, a stage, a probe, a try or a request, and no event  *)
(* of the page, the user or the clock gives one back before run has ended. *)
(* With awaits that end and a challenge that expires, this is why RunEnds  *)
(* holds for any number of attempts, probes and tries.                     *)
(***************************************************************************)
THEOREM RunsUpItsBudget == PageSafety => RunAdvances
<1>1. PageInit => Budget
  BY SolverAssumption DEF PageInit, Init, Budget
<1>2. [PageNext]_pageVars => [Next]_vars
  BY DEF PageNext, Returned, pageVars
<1>3. ASSUME SolverInv, Budget, [Next]_vars, pc \in {"load"} \union Working
      PROVE  \/ Steps \/ Closer
             \/ UNCHANGED <<i, k, tries, sent>> /\ Distance' = Distance
  <2> USE <1>3 DEF Distance, Closer
  <2>1. ASSUME NEW b \in BOOLEAN, Replay(b) PROVE FALSE
    BY <2>1 DEF Replay
  <2>2. ~(Reload \/ ChallengedAgain \/ Open)
    BY DEF Reload, ChallengedAgain, Open
  <2>3. CASE Hide
    BY <2>3 DEF Hide
  <2>4. CASE ChallengeExpires \/ MarkerExpires \/ UNCHANGED vars
    BY <2>4 DEF ChallengeExpires, MarkerExpires
  <2>5. QED
    BY <2>1, <2>2, <2>3, <2>4, Zenon DEF Next
<1>4. SolverInv /\ Budget /\ [Next]_vars =>
        [/\ Budget'
         /\ Steps => Closer \/ (pc = "sequential" /\ pc' = "batch" /\ ~expired)
         /\ pc \in {"load"} \union Working =>
              \/ Steps \/ Closer
              \/ UNCHANGED <<i, k, tries, sent>> /\ Distance' = Distance]_vars
  BY <1>3, BudgetStep, StepsAdvance, Zenon DEF SolverInv
<1>5. PageSafety => []Budget
  <2>1. Budget /\ [PageNext]_pageVars => Budget'
    BY <1>2, BudgetStep
  <2>2. QED
    BY <1>1, <2>1, PTL DEF PageSafety
<1>6. QED
  BY <1>2, <1>4, <1>5, Invariance, PTL DEF PageSafety, RunAdvances

-----------------------------------------------------------------------------

\* The anchor that a reply sets, from the ways the request and the reply took.
LEMMA Synced ==
  ASSUME NEW h \in {0, 1}, NEW x \in Exchanges
  PROVE  LET c == SyncClockIn(h, x)
         IN /\ c \in Anchors
            /\ c.error - x.mono + 2 * x.stamp \in 0 .. 2
            /\ c.drift = 0
            /\ c.sound <=> ~x.slept
<1> DEFINE e == 2 - 2 * ((h + x.stamp) % 2) - 2 * x.stamp + x.mono
           c == SyncClockIn(h, x)
<1>1. x.mono \in Int /\ x.stamp \in Int /\ x.slept \in BOOLEAN
  BY DEF Exchanges
<1>2. e \in Int /\ e - x.mono + 2 * x.stamp \in 0 .. 2
  BY <1>1
<1>3. c = [error |-> e, drift |-> 0, old |-> FALSE, sound |-> ~x.slept]
  BY DEF SyncClockIn
<1> HIDE DEF e, c
<1>4. c.error = e /\ c.drift = 0 /\ c.sound = ~x.slept
  BY <1>3, Zenon
<1>5. c \in Anchors
  <2>1. (~x.slept) \in BOOLEAN /\ FALSE \in BOOLEAN /\ 0 \in Int
    OBVIOUS
  <2>2. QED
    BY <1>2, <1>3, <2>1 DEF Anchors
<1>6. c.sound <=> ~x.slept
  BY <1>4, Zenon
<1>7. QED
  BY <1>2, <1>4, <1>5, <1>6 DEF c

\* The whole seconds of a time that is e quarters off.
LEMMA WholeSeconds ==
  ASSUME NEW h \in {0, 1}, NEW e \in Int
  PROVE  LET ts == 2 * ((e - 2 * h) \div 4) + h
         IN ts \in Int /\ 2 * ts \in e - 3 .. e /\ (ts + h) % 2 = 0
<1> DEFINE q == (e - 2 * h) \div 4
<1>1. q \in Int /\ 4 * q <= e - 2 * h /\ e - 2 * h < 4 * q + 4
  OBVIOUS
<1> HIDE DEF q
<1>2. (2 * q + h + h) % 2 = 0
  BY <1>1
<1>3. QED
  BY <1>1, <1>2 DEF q

LEMMA FreshRequest ==
  ASSUME NEW at \in {"none", "idle", "done"}
  PROVE  /\ NoExchange \in Exchanges /\ Fresh(at) \in Requests
         /\ Fresh(at).at = at /\ Fresh(at).since = 0 /\ Fresh(at).attempt = 0
<1>1. NoExchange \in Exchanges
  BY DEF NoExchange, Exchanges, NotStamped
<1>2. QED
  BY <1>1 DEF Fresh, Requests

LEMMA SignedTime ==
  ASSUME NEW r \in Requests, NEW c \in Anchors, half \in {0, 1}
  PROVE  LET t == Signed(r, c)
         IN /\ t \in Requests
            /\ t.at = "signed" /\ t.since = 0
            /\ 2 * t.ts \in c.error - 3 .. c.error /\ (t.ts + half) % 2 = 0
            /\ t.safe = r.safe /\ t.attempt = r.attempt /\ t.skewed = r.skewed /\ t.exchange = r.exchange
<1> DEFINE ts == 2 * ((c.error - 2 * half) \div 4) + half
           t == Signed(r, c)
<1>1. ts \in Int /\ 2 * ts \in c.error - 3 .. c.error /\ (ts + half) % 2 = 0
  BY WholeSeconds DEF Anchors
<1>2. t = [r EXCEPT !.at = "signed", !.since = 0, !.ts = ts]
  BY DEF Signed
<1> HIDE DEF ts, t
<1>3. t \in Requests
  <2>1. t = [at |-> "signed", safe |-> r.safe, attempt |-> r.attempt, ts |-> ts, since |-> 0,
             skewed |-> r.skewed, exchange |-> r.exchange]
    BY <1>2, Zenon DEF Requests
  <2>2. QED
    BY <1>1, <2>1 DEF Requests
<1>4. t.at = "signed" /\ t.since = 0 /\ t.ts = ts
  BY <1>2 DEF Requests
<1>5. t.safe = r.safe /\ t.attempt = r.attempt /\ t.skewed = r.skewed /\ t.exchange = r.exchange
  BY <1>2 DEF Requests
<1>6. QED
  BY <1>1, <1>3, <1>4, <1>5 DEF t

\* Anchors without sleep.
LEMMA AnchorHolds ==
  ASSUME NEW h \in {0, 1}, NEW x \in Exchanges,
         ~x.slept => /\ x.mono - 2 * x.stamp >= -(2 * Leg)
                     /\ x.mono - 2 * x.stamp <= Longest,
         clock' = SyncClockIn(h, x)
  PROVE  AnchorInv'
<1> DEFINE c == SyncClockIn(h, x)
<1>1. /\ c.error \in Int /\ c.error - x.mono + 2 * x.stamp \in 0 .. 2
      /\ c.drift = 0 /\ (c.sound <=> ~x.slept)
  BY Synced DEF Anchors
<1>2. x.mono \in Int /\ x.stamp \in Int
  BY DEF Exchanges
<1>3. Longest \in Int /\ Leg \in Int
  BY ClockAssumption DEF Longest
<1> HIDE DEF c
<1>4. c.sound => c.drift >= 0 /\ c.error + 2 * c.drift \in -(2 * Leg) .. Longest + 2
  BY <1>1, <1>2, <1>3
<1>5. clock' = c /\ UNCHANGED Longest
  BY DEF c, Longest
<1>6. QED
  BY <1>4, <1>5 DEF AnchorInv

LEMMA InitClock == PageInit => ClockInv
<1> SUFFICES ASSUME ClockInit PROVE ClockInv
  BY DEF PageInit
<1>0. Leg \in Nat /\ Lead \in Nat /\ Longest \in Nat
  BY ClockAssumption DEF Longest
<1> DEFINE x == [mono |-> 0, stamp |-> 0, slept |-> FALSE]
<1>1. x \in Exchanges /\ x.mono = 0 /\ x.stamp = 0
  BY DEF Exchanges
<1>2. half \in {0, 1} /\ clock = SyncClockIn(half, x) /\ resyncing = NoExchange /\ request = NoRequest
  BY DEF ClockInit, SyncClock
<1> HIDE DEF x
<1>3. clock \in Anchors /\ clock.error \in 0 .. 2 /\ clock.drift = 0
  BY <1>1, <1>2, Synced DEF Anchors
<1>4. /\ NoExchange \in Exchanges /\ NoRequest \in Requests
      /\ NoRequest.at = "none" /\ NoRequest.since = 0 /\ NoRequest.attempt = 0
  BY FreshRequest DEF NoRequest
<1>6. ClockType
  BY <1>2, <1>3, <1>4 DEF ClockType
<1>7. ResyncWays /\ RequestWays /\ RetryInv
  BY <1>0, <1>2, <1>4 DEF ResyncWays, RequestWays, RetryInv
<1>8. AnchorInv
  BY <1>0, <1>3 DEF AnchorInv
<1>9. QED
  BY <1>6, <1>7, <1>8 DEF ClockInv

\* A request that has not been rejected may be signed with any anchor.
LEMMA FirstSigned ==
  ASSUME NEW r \in Requests, NEW c \in Anchors, half \in {0, 1}, UNCHANGED half,
         r.attempt = 0, request' = Signed(r, c)
  PROVE  request' \in Requests /\ RequestWays' /\ RetryInv'
<1>1. /\ request' \in Requests
      /\ request'.at = "signed" /\ request'.since = 0 /\ request'.attempt = 0
  BY SignedTime
<1>2. Leg \in Nat
  BY ClockAssumption
<1>3. QED
  BY <1>1, <1>2 DEF RequestWays, RetryInv

LEMMA KeptRequest ==
  ASSUME ClockInv, UNCHANGED <<half, request>>
  PROVE  request' \in Requests /\ RequestWays' /\ RetryInv'
BY DEF ClockInv, ClockType, RequestWays, RetryInv

LEMMA KeptAnchor ==
  ASSUME ClockInv, UNCHANGED clock
  PROVE  clock' \in Anchors /\ AnchorInv'
BY DEF ClockInv, ClockType, AnchorInv, Longest

\* A resync that goes out, or goes on.
LEMMA ResyncStarted ==
  ASSUME ClockInv, resyncing' = resyncing \/ resyncing' = Sent \/ resyncing' = NoExchange
  PROVE  resyncing' \in Exchanges /\ ResyncWays'
<1>1. Leg \in Nat
  BY ClockAssumption
<1>2. CASE resyncing' = resyncing
  BY <1>2 DEF ClockInv, ClockType, ResyncWays
<1>3. CASE resyncing' = Sent
  <2>1. resyncing' \in Exchanges /\ resyncing'.mono = 0 /\ resyncing'.stamp = NotStamped
    BY <1>3 DEF Sent, Exchanges, NotStamped
  <2>2. QED
    BY <1>1, <2>1 DEF ResyncWays
<1>4. CASE resyncing' = NoExchange
  BY <1>4, FreshRequest DEF ResyncWays
<1>5. QED
  BY <1>2, <1>3, <1>4

LEMMA FetchClock ==
  ASSUME ClockInv, NEW safe \in BOOLEAN, Fetch(safe)
  PROVE  ClockInv'
<1>1. request.at = "idle" /\ request.attempt = 0 /\ UNCHANGED <<half, clock>> /\ half \in {0, 1}
  <2>1. request.at = "idle" /\ UNCHANGED <<half, clock>>
    BY DEF Fetch
  <2>2. request.attempt \in {0, 1} /\ half \in {0, 1}
    BY DEF ClockInv, ClockType, Requests
  <2>3. QED
    BY <2>1, <2>2 DEF ClockInv, RetryInv
<1>2. resyncing' \in Exchanges /\ ResyncWays'
  <2>1. resyncing' = resyncing \/ resyncing' = Sent
    BY DEF Fetch
  <2>2. QED
    BY <2>1, ResyncStarted
<1>3. request' \in Requests /\ RequestWays' /\ RetryInv'
  <2>1. CASE ClockStale(clock)
    <3>1. request' = [request EXCEPT !.at = "waiting", !.safe = safe]
      BY <2>1 DEF Fetch
    <3>2. request' = [at |-> "waiting", safe |-> safe, attempt |-> request.attempt, ts |-> request.ts,
                      since |-> request.since, skewed |-> request.skewed, exchange |-> request.exchange]
      BY <3>1, Zenon DEF ClockInv, ClockType, Requests
    <3>3. /\ request' \in Requests /\ request'.at = "waiting" /\ request'.since = request.since
          /\ request'.attempt = request.attempt
      BY <3>2 DEF ClockInv, ClockType, Requests
    <3>4. QED
      BY <1>1, <3>3 DEF ClockInv, RequestWays, RetryInv
  <2>2. CASE ~ClockStale(clock)
    <3> DEFINE r == [request EXCEPT !.safe = safe]
    <3>1. r \in Requests /\ r.attempt = 0
      BY <1>1 DEF ClockInv, ClockType, Requests
    <3>2. request' = Signed(r, clock)
      BY <2>2 DEF Fetch
    <3> HIDE DEF r
    <3>3. QED
      BY <1>1, <3>1, <3>2, FirstSigned DEF ClockInv, ClockType
  <2>3. QED
    BY <2>1, <2>2
<1>4. QED
  BY <1>1, <1>2, <1>3, KeptAnchor DEF ClockInv, ClockType

LEMMA VisibleClock ==
  ASSUME ClockInv, Visible \/ Age
  PROVE  ClockInv'
<1>1. resyncing' \in Exchanges /\ ResyncWays'
  BY ResyncStarted DEF Visible, Age
<1>2. clock' \in Anchors /\ AnchorInv'
  <2>1. CASE Visible
    BY <2>1, KeptAnchor DEF Visible
  <2>2. CASE Age
    <3>1. clock' = [clock EXCEPT !.old = TRUE]
      BY <2>2 DEF Age
    <3>2. clock' \in Anchors /\ clock'.error = clock.error /\ clock'.drift = clock.drift
      BY <3>1, Zenon DEF ClockInv, ClockType, Anchors
    <3>3. clock'.sound = clock.sound
      BY <3>1 DEF ClockInv, ClockType, Anchors
    <3>4. QED
      BY <3>2, <3>3 DEF ClockInv, AnchorInv, Longest
  <2>3. QED
    BY <2>1, <2>2
<1>3. request' \in Requests /\ RequestWays' /\ RetryInv' /\ half' \in {0, 1}
  BY KeptRequest DEF Visible, Age, ClockInv, ClockType
<1>4. QED
  BY <1>1, <1>2, <1>3 DEF ClockInv, ClockType

LEMMA StampClock ==
  ASSUME ClockInv, StampResync
  PROVE  ClockInv'
<1>1. resyncing' = [resyncing EXCEPT !.stamp = 0] /\ resyncing # NoExchange /\ UNCHANGED <<half, clock, request>>
  BY DEF StampResync
<1>2. /\ resyncing' \in Exchanges /\ resyncing'.mono = resyncing.mono /\ resyncing'.stamp = 0
      /\ resyncing'.slept = resyncing.slept
  BY <1>1 DEF ClockInv, ClockType, Exchanges
<1>3. ResyncWays'
  BY <1>1, <1>2 DEF ClockInv, ResyncWays
<1>4. QED
  BY <1>1, <1>2, <1>3, KeptRequest, KeptAnchor DEF ClockInv, ClockType

LEMMA SetWallClock ==
  ASSUME ClockInv, NEW d \in Jumps, SetWall(d)
  PROVE  ClockInv'
<1>1. clock' = [clock EXCEPT !.drift = @ - d, !.sound = FALSE] /\ UNCHANGED <<half, resyncing, request>>
  BY DEF SetWall
<1>2. clock' = [error |-> clock.error, drift |-> clock.drift - d, old |-> clock.old, sound |-> FALSE]
  BY <1>1, Zenon DEF ClockInv, ClockType, Anchors
<1>3. clock' \in Anchors /\ ~clock'.sound
  BY <1>2, ClockAssumption DEF ClockInv, ClockType, Anchors
<1>4. QED
  BY <1>1, <1>3, KeptRequest, ResyncStarted DEF ClockInv, ClockType, AnchorInv

LEMMA SendClock ==
  ASSUME ClockInv, SendProof
  PROVE  ClockInv'
<1> DEFINE x == [Sent EXCEPT !.slept = request.exchange.slept]
<1>0. Leg \in Nat
  BY ClockAssumption
<1>1. /\ request.at = "signed" /\ UNCHANGED <<half, clock, resyncing>>
      /\ request' = [request EXCEPT !.at = "sent", !.exchange = x]
  BY DEF SendProof
<1>2. x = [mono |-> 0, stamp |-> NotStamped, slept |-> request.exchange.slept]
  BY DEF Sent
<1>3. x \in Exchanges /\ x.mono = 0 /\ x.slept = request.exchange.slept
  BY <1>2 DEF ClockInv, ClockType, Requests, Exchanges, NotStamped
<1> HIDE DEF x
<1>4. request' = [at |-> "sent", safe |-> request.safe, attempt |-> request.attempt, ts |-> request.ts,
                  since |-> request.since, skewed |-> request.skewed, exchange |-> x]
  BY <1>1, Zenon DEF ClockInv, ClockType, Requests
<1>5. request' \in Requests
  BY <1>3, <1>4 DEF ClockInv, ClockType, Requests
<1>6. /\ request'.at = "sent" /\ request'.safe = request.safe /\ request'.attempt = request.attempt
      /\ request'.ts = request.ts /\ request'.since = request.since /\ request'.exchange = x
  BY <1>4
<1>7. RequestWays'
  BY <1>0, <1>3, <1>6 DEF ClockInv, RequestWays
<1>8. RetryInv'
  BY <1>1, <1>3, <1>6 DEF ClockInv, RetryInv
<1>9. QED
  BY <1>1, <1>5, <1>7, <1>8, KeptAnchor, ResyncStarted DEF ClockInv, ClockType

\* The gate accepts the time of a retry.
LEMMA RetryAccepted ==
  ASSUME LegsAreShort, ClockInv, request.at = "sent", request.attempt = 1, ~request.exchange.slept
  PROVE  ~(Magnitude(request.ts + half) > 2 * PROOF_SKEW)
<1> DEFINE ts == request.ts
           since == request.since
           m == ts + half
<1>1. ts \in Int /\ half \in {0, 1} /\ since \in Int
  BY DEF ClockInv, ClockType, Requests
<1>2. /\ m % 2 = 0 /\ 2 * (ts + since) \in -(Leg + 3) .. Leg + 2
      /\ since \in 0 .. Leg
  BY DEF ClockInv, RetryInv, RequestWays
<1>3. PROOF_SKEW \in Nat /\ Leg \in Nat /\ PROOF_SKEW > 0 /\ 3 * Leg <= 4 * PROOF_SKEW
  BY ClockAssumption DEF LegsAreShort
<1> HIDE DEF ts, since
<1>4. m \in Int /\ 2 * m >= -(4 * PROOF_SKEW + 3) /\ 3 * m <= 2 * PROOF_SKEW + 6
  BY <1>1, <1>2, <1>3
<1> HIDE DEF m
<1>5. PICK q \in Int : m = 2 * q
  BY <1>2, <1>4
<1>6. q >= -PROOF_SKEW
  BY <1>3, <1>4, <1>5
<1>7. q <= PROOF_SKEW
  BY <1>3, <1>4, <1>5
<1>8. QED
  BY <1>3, <1>5, <1>6, <1>7 DEF Magnitude, m, ts

LEMMA HandleClock ==
  ASSUME LegsAreShort, ClockInv, Handle
  PROVE  ClockInv'
<1> DEFINE x == [request.exchange EXCEPT !.stamp = 0]
           skewed == Magnitude(request.ts + half) > 2 * PROOF_SKEW
<1>0. Leg \in Nat
  BY ClockAssumption
<1>1. /\ request.at = "sent" /\ UNCHANGED <<half, clock, resyncing>>
      /\ request' = [request EXCEPT !.at = "answered", !.ts = 0, !.since = 0, !.exchange.stamp = 0, !.skewed = skewed]
  BY DEF Handle
<1>2. /\ x \in Exchanges /\ x.mono = request.exchange.mono /\ x.stamp = 0
      /\ x.slept = request.exchange.slept
  BY DEF ClockInv, ClockType, Requests, Exchanges
<1>3. request.attempt = 1 /\ ~request.exchange.slept => ~skewed
  BY <1>1, RetryAccepted
<1>4. skewed \in BOOLEAN
  OBVIOUS
<1> HIDE DEF skewed
<1>5. request' = [at |-> "answered", safe |-> request.safe, attempt |-> request.attempt, ts |-> 0,
                  since |-> 0, skewed |-> skewed, exchange |-> x]
  BY <1>1, Zenon DEF ClockInv, ClockType, Requests
<1> HIDE DEF x
<1>6. request' \in Requests
  BY <1>2, <1>4, <1>5 DEF ClockInv, ClockType, Requests
<1>7. /\ request'.at = "answered" /\ request'.safe = request.safe /\ request'.attempt = request.attempt
      /\ request'.since = 0 /\ request'.exchange = x
  BY <1>5
<1>8. request'.skewed <=> skewed
  BY <1>5, Zenon
<1>9. RequestWays'
  <2>1. request.since \in 0 .. Leg /\ (~x.slept => x.mono \in 0 .. request.since)
    BY <1>1, <1>2 DEF ClockInv, RequestWays
  <2>2. QED
    BY <1>0, <1>2, <1>7, <2>1 DEF RequestWays
<1>10. RetryInv'
  BY <1>1, <1>2, <1>3, <1>7, <1>8 DEF ClockInv, RetryInv
<1>11. QED
  BY <1>1, <1>6, <1>9, <1>10, KeptAnchor, ResyncStarted DEF ClockInv, ClockType

\* What a reply does to the anchor.
LEMMA AdoptedAnchor ==
  ASSUME ClockInv, request.at = "answered"
  PROVE  /\ Adopted(request) \in Anchors
         /\ clock' = Adopted(request) => AnchorInv'
         /\ request.skewed /\ ~request.exchange.slept => Adopted(request).error \in -Leg .. Leg + 2
<1> DEFINE x == request.exchange
<1>0. Leg \in Nat /\ Longest \in Nat /\ 2 * Leg <= Longest
  BY ClockAssumption DEF Longest
<1>1. x \in Exchanges /\ half \in {0, 1} /\ x.mono \in Int /\ x.stamp \in Int
  BY DEF ClockInv, ClockType, Requests, Exchanges
<1>2. ~x.slept => x.stamp \in 0 .. Leg /\ x.mono \in x.stamp .. x.stamp + Leg
  BY <1>0 DEF ClockInv, RequestWays
<1> HIDE DEF x
<1>3. ~x.slept => x.mono - 2 * x.stamp >= -Leg /\ x.mono - 2 * x.stamp <= Leg
  BY <1>0, <1>1, <1>2
<1>4. CASE request.skewed
  <2>1. Adopted(request) = SyncClockIn(half, x)
    BY <1>4 DEF Adopted, SyncClock, x
  <2>2. SyncClockIn(half, x) \in Anchors /\ SyncClockIn(half, x).error - x.mono + 2 * x.stamp \in 0 .. 2
    BY <1>1, Synced
  <2>3. ~x.slept => SyncClockIn(half, x).error \in -Leg .. Leg + 2
    BY <1>0, <1>1, <1>3, <2>2 DEF Anchors
  <2>4. clock' = SyncClockIn(half, x) => AnchorInv'
    BY <1>0, <1>1, <1>3, AnchorHolds
  <2>5. QED
    BY <2>1, <2>2, <2>3, <2>4 DEF x
<1>5. CASE ~request.skewed
  <2>1. Adopted(request) = clock
    BY <1>5 DEF Adopted
  <2>2. QED
    BY <1>5, <2>1, KeptAnchor DEF ClockInv, ClockType
<1>6. QED
  BY <1>4, <1>5

LEMMA ReplyClock ==
  ASSUME ClockInv, Reply
  PROVE  ClockInv'
<1> DEFINE c == Adopted(request)
           x == [NoExchange EXCEPT !.slept = request.exchange.slept]
<1>0. Leg \in Nat
  BY ClockAssumption
<1>1. request.at = "answered" /\ clock' = c /\ UNCHANGED <<half, resyncing>>
  BY DEF Reply
<1>2. c \in Anchors /\ AnchorInv'
  BY <1>1, AdoptedAnchor
<1>3. x \in Exchanges /\ x.slept = request.exchange.slept
  <2>1. x = [mono |-> -1, stamp |-> NotStamped, slept |-> request.exchange.slept]
    BY DEF NoExchange
  <2>2. QED
    BY <2>1 DEF ClockInv, ClockType, Requests, Exchanges, NotStamped
<1>4. resyncing' \in Exchanges /\ ResyncWays'
  BY <1>1, ResyncStarted
<1>5. request \in Requests /\ half \in {0, 1}
  BY DEF ClockInv, ClockType
<1> HIDE DEF x
<1>6. CASE request.skewed /\ request.attempt = 0 /\ request.safe
  <2> DEFINE no == FALSE
             r == [request EXCEPT !.attempt = 1, !.skewed = no, !.exchange = x]
  <2>1. request' = Signed(r, c)
    BY <1>6 DEF Reply, x
  <2>0. no \in BOOLEAN
    OBVIOUS
  <2> HIDE DEF no
  <2>2. r = [at |-> request.at, safe |-> request.safe, attempt |-> 1, ts |-> request.ts,
             since |-> request.since, skewed |-> no, exchange |-> x]
    <3>1. r = [request EXCEPT !.attempt = 1, !.skewed = no, !.exchange = x]
      OBVIOUS
    <3> HIDE DEF r, c
    <3>2. QED
      BY <1>5, <3>1, Zenon DEF Requests
  <2>3. r \in Requests /\ r.attempt = 1 /\ r.exchange = x /\ r.safe = request.safe
    BY <1>3, <1>5, <2>0, <2>2 DEF Requests
  <2>4. ~request.exchange.slept => c.error \in -Leg .. Leg + 2
    BY <1>1, <1>6, AdoptedAnchor
  <2> HIDE DEF r, c
  <2>5. /\ request' \in Requests
        /\ request'.at = "signed" /\ request'.since = 0
        /\ 2 * request'.ts \in c.error - 3 .. c.error /\ (request'.ts + half) % 2 = 0
        /\ request'.safe = request.safe /\ request'.attempt = 1 /\ request'.exchange = x
    BY <1>2, <1>5, <2>1, <2>3, SignedTime
  <2>6. RequestWays'
    BY <1>0, <2>5 DEF RequestWays
  <2>7. ~x.slept => 2 * (request'.ts + request'.since) \in -(Leg + 3) .. Leg + 2
    BY <1>0, <1>2, <1>3, <2>4, <2>5 DEF Requests, Anchors
  <2>8. RetryInv'
    BY <1>1, <1>6, <2>5, <2>7 DEF RetryInv
  <2>9. QED
    BY <1>1, <1>2, <1>4, <1>5, <2>5, <2>6, <2>8 DEF ClockInv, ClockType
<1>7. CASE ~(request.skewed /\ request.attempt = 0 /\ request.safe)
  <2>1. request' = [request EXCEPT !.at = "done", !.since = 0, !.exchange = x]
    BY <1>7 DEF Reply, x
  <2>2. request' = [at |-> "done", safe |-> request.safe, attempt |-> request.attempt, ts |-> request.ts,
                    since |-> 0, skewed |-> request.skewed, exchange |-> x]
    BY <1>5, <2>1, Zenon DEF Requests
  <2>3. /\ request' \in Requests /\ request'.at = "done" /\ request'.since = 0
        /\ request'.safe = request.safe /\ request'.attempt = request.attempt
        /\ request'.skewed = request.skewed /\ request'.exchange = x
    BY <1>3, <1>5, <2>2 DEF Requests
  <2>4. RequestWays'
    BY <1>0, <2>3 DEF RequestWays
  <2>5. request.attempt \in {0, 1}
    BY <1>5 DEF Requests
  <2>6. RetryInv'
    BY <1>1, <1>3, <1>7, <2>3, <2>5 DEF ClockInv, RetryInv
  <2>7. QED
    BY <1>1, <1>2, <1>4, <1>5, <2>3, <2>4, <2>6 DEF ClockInv, ClockType
<1>8. QED
  BY <1>6, <1>7

LEMMA OtherReplyClock ==
  ASSUME ClockInv, NEW stamp \in 0 .. Leg, NEW mono \in 0 .. 2 * Leg, OtherReply(mono, stamp)
  PROVE  ClockInv'
<1> DEFINE x == [mono |-> mono, stamp |-> stamp, slept |-> FALSE]
<1>0. Leg \in Nat /\ Longest \in Nat /\ 2 * Leg <= Longest
  BY ClockAssumption DEF Longest
<1>1. /\ stamp <= mono /\ mono <= stamp + Leg /\ clock' = SyncClockIn(half, x)
      /\ UNCHANGED <<half, resyncing, request>>
  BY DEF OtherReply, SyncClock
<1>2. x \in Exchanges /\ x.mono = mono /\ x.stamp = stamp
  BY <1>0 DEF Exchanges
<1> HIDE DEF x
<1>3. half \in {0, 1}
  BY DEF ClockInv, ClockType
<1>4. x.mono - 2 * x.stamp >= -(2 * Leg) /\ x.mono - 2 * x.stamp <= Longest
  BY <1>0, <1>1, <1>2
<1>5. clock' \in Anchors /\ AnchorInv'
  BY <1>1, <1>2, <1>3, <1>4, Synced, AnchorHolds
<1>6. QED
  BY <1>1, <1>3, <1>5, KeptRequest, ResyncStarted DEF ClockInv, ClockType

LEMMA LostClock ==
  ASSUME ClockInv, Lost
  PROVE  ClockInv'
<1>0. Leg \in Nat
  BY ClockAssumption
<1>1. /\ request' = [Unsent EXCEPT !.at = "done", !.safe = request.safe, !.attempt = request.attempt]
      /\ UNCHANGED <<half, clock, resyncing>>
  BY DEF Lost
<1>2. request' = [at |-> "done", safe |-> request.safe, attempt |-> request.attempt, ts |-> 0,
                  since |-> 0, skewed |-> FALSE, exchange |-> NoExchange]
  BY <1>1, Zenon DEF Unsent, Fresh
<1>3. /\ request' \in Requests /\ request'.at = "done" /\ request'.since = 0
      /\ request'.safe = request.safe /\ request'.attempt = request.attempt
  BY <1>2, FreshRequest DEF ClockInv, ClockType, Requests
<1>4. ~request'.skewed
  BY <1>2, Zenon
<1>5. RequestWays'
  BY <1>0, <1>3 DEF RequestWays
<1>6. RetryInv'
  BY <1>3, <1>4 DEF ClockInv, RetryInv
<1>7. QED
  BY <1>1, <1>3, <1>5, <1>6, KeptAnchor, ResyncStarted DEF ClockInv, ClockType

LEMMA ResyncClock ==
  ASSUME ClockInv, NEW replied \in BOOLEAN, Resync(replied)
  PROVE  ClockInv'
<1> DEFINE c == IF replied THEN SyncClock(resyncing) ELSE [clock EXCEPT !.sound = FALSE]
<1>0. Leg \in Nat /\ Longest \in Nat /\ 2 * Leg <= Longest
  BY ClockAssumption DEF Longest
<1>1. /\ resyncing # NoExchange /\ (replied => resyncing.stamp # NotStamped)
      /\ clock' = c /\ resyncing' = NoExchange /\ UNCHANGED half
      /\ request' = IF request.at = "waiting" THEN Signed(request, c) ELSE request
  BY DEF Resync
<1>2. half \in {0, 1} /\ resyncing \in Exchanges /\ clock \in Anchors /\ request \in Requests
  BY DEF ClockInv, ClockType
<1>3. c \in Anchors /\ AnchorInv'
  <2>1. CASE replied
    <3>1. c = SyncClockIn(half, resyncing)
      BY <2>1 DEF SyncClock
    <3>2. ~resyncing.slept => /\ resyncing.mono - 2 * resyncing.stamp >= -(2 * Leg)
                              /\ resyncing.mono - 2 * resyncing.stamp <= Longest
      BY <1>0, <1>1, <2>1 DEF ClockInv, ResyncWays
    <3> HIDE DEF c
    <3>3. QED
      BY <1>1, <1>2, <3>1, <3>2, Synced, AnchorHolds
  <2>2. CASE ~replied
    <3>1. c = [clock EXCEPT !.sound = FALSE]
      BY <2>2
    <3> HIDE DEF c
    <3>2. c \in Anchors /\ ~c.sound
      BY <1>2, <3>1, Zenon DEF Anchors
    <3>3. QED
      BY <1>1, <3>2 DEF AnchorInv
  <2>3. QED
    BY <2>1, <2>2
<1> HIDE DEF c
<1>4. request' \in Requests /\ RequestWays' /\ RetryInv'
  <2>1. CASE request.at = "waiting"
    <3>1. request.attempt = 0
      <4>1. request.attempt \in {0, 1}
        BY <1>2 DEF Requests
      <4>2. QED
        BY <2>1, <4>1 DEF ClockInv, RetryInv
    <3>2. QED
      BY <1>1, <1>2, <1>3, <2>1, <3>1, FirstSigned
  <2>2. CASE request.at # "waiting"
    BY <1>1, <2>2, KeptRequest
  <2>3. QED
    BY <2>1, <2>2
<1>5. resyncing' \in Exchanges /\ ResyncWays'
  BY <1>1, ResyncStarted
<1>6. QED
  BY <1>1, <1>2, <1>3, <1>4, <1>5 DEF ClockInv, ClockType

LEMMA AnchorClock ==
  ASSUME ClockInv, NEW n \in 0 .. Lead, NEW h \in {0, 1}, Anchor(n, h)
  PROVE  ClockInv'
<1> DEFINE x == [mono |-> n, stamp |-> 0, slept |-> FALSE]
<1>0. Leg \in Nat /\ Lead \in Nat /\ Longest \in Nat /\ Lead <= Longest
  BY ClockAssumption DEF Longest
<1>1. half' = h /\ clock' = SyncClockIn(h, x) /\ request' = Unsent /\ UNCHANGED resyncing
  BY DEF Anchor
<1>2. x \in Exchanges /\ x.mono = n /\ x.stamp = 0
  BY <1>0 DEF Exchanges
<1> HIDE DEF x
<1>3. x.mono - 2 * x.stamp >= -(2 * Leg) /\ x.mono - 2 * x.stamp <= Longest
  BY <1>0, <1>2
<1>4. clock' \in Anchors /\ AnchorInv'
  BY <1>1, <1>2, <1>3, Synced, AnchorHolds
<1>5. request' \in Requests /\ request'.at = "idle" /\ request'.since = 0 /\ request'.attempt = 0
  BY <1>1, FreshRequest DEF Unsent
<1>6. RequestWays' /\ RetryInv'
  BY <1>0, <1>5 DEF RequestWays, RetryInv
<1>7. QED
  BY <1>1, <1>4, <1>5, <1>6, ResyncStarted DEF ClockInv, ClockType

\* Time that passes, in an exchange and in a request.
LEMMA ExchangeElapsed ==
  ASSUME NEW x \in Exchanges, NEW d \in Nat, NEW runs \in BOOLEAN
  PROVE  LET y == ExchangeAfter(x, d, runs)
         IN /\ y \in Exchanges
            /\ x = NoExchange => y = x
            /\ x # NoExchange =>
                 /\ y.mono = IF runs THEN x.mono + d ELSE x.mono
                 /\ y.stamp = IF x.stamp = NotStamped THEN x.stamp ELSE x.stamp + d
                 /\ y.slept <=> x.slept \/ ~runs
<1> DEFINE y == ExchangeAfter(x, d, runs)
           mono == IF runs THEN x.mono + d ELSE x.mono
           stamp == IF x.stamp = NotStamped THEN x.stamp ELSE x.stamp + d
           slept == x.slept \/ ~runs
<1>1. CASE x = NoExchange
  BY <1>1 DEF ExchangeAfter
<1>2. CASE x # NoExchange
  <2>1. mono \in Int /\ stamp \in Int /\ slept \in BOOLEAN
    BY DEF Exchanges
  <2>2. y = [mono |-> mono, stamp |-> stamp, slept |-> slept]
    BY <1>2 DEF ExchangeAfter
  <2> HIDE DEF y, mono, stamp, slept
  <2>3. y \in Exchanges /\ y.mono = mono /\ y.stamp = stamp
    BY <2>1, <2>2 DEF Exchanges
  <2>4. y.slept <=> slept
    BY <2>2, Zenon
  <2>5. QED
    BY <1>2, <2>3, <2>4 DEF y, mono, stamp, slept
<1>3. QED
  BY <1>1, <1>2

LEMMA RequestElapsed ==
  ASSUME NEW r \in Requests, NEW d \in Nat, NEW runs \in BOOLEAN
  PROVE  LET s == RequestAfter(r, d, runs)
         IN /\ s \in Requests
            /\ s.at = r.at /\ s.safe = r.safe /\ s.attempt = r.attempt /\ s.skewed = r.skewed
            /\ s.ts = IF r.at \in {"signed", "sent"} THEN r.ts - d ELSE r.ts
            /\ s.since = IF runs /\ r.at \in {"signed", "sent", "answered"} THEN r.since + d ELSE r.since
            /\ r.at \in {"sent", "answered"} => s.exchange = ExchangeAfter(r.exchange, d, runs)
            /\ r.at = "signed" => (s.exchange.slept <=> r.exchange.slept \/ ~runs)
            /\ r.at \notin {"signed", "sent", "answered"} => s.exchange = r.exchange
<1> DEFINE s == RequestAfter(r, d, runs)
           ts == IF r.at \in {"signed", "sent"} THEN r.ts - d ELSE r.ts
           since == IF runs /\ r.at \in {"signed", "sent", "answered"} THEN r.since + d ELSE r.since
           slept == r.exchange.slept \/ ~runs
           y == [r.exchange EXCEPT !.slept = slept]
           x == IF r.at \in {"sent", "answered"} THEN ExchangeAfter(r.exchange, d, runs)
                ELSE IF r.at = "signed" THEN y ELSE r.exchange
<1>1. ts \in Int /\ since \in Int /\ r.exchange \in Exchanges
  BY DEF Requests
<1>2. slept \in BOOLEAN
  OBVIOUS
<1>3. s = [r EXCEPT !.ts = ts, !.since = since, !.exchange = x]
  BY DEF RequestAfter, Requests
<1> HIDE DEF slept
<1>4. y \in Exchanges /\ (y.slept <=> slept)
  BY <1>1, <1>2 DEF Exchanges
<1> HIDE DEF y
<1>5. x \in Exchanges
  BY <1>1, <1>4, ExchangeElapsed
<1> HIDE DEF s, ts, since, x
<1>6. s = [at |-> r.at, safe |-> r.safe, attempt |-> r.attempt, ts |-> ts, since |-> since,
           skewed |-> r.skewed, exchange |-> x]
  BY <1>3, Zenon DEF Requests
<1>7. s \in Requests
  BY <1>1, <1>5, <1>6 DEF Requests
<1>8. /\ s.at = r.at /\ s.safe = r.safe /\ s.attempt = r.attempt /\ s.skewed = r.skewed
      /\ s.ts = ts /\ s.since = since /\ s.exchange = x
  BY <1>6
<1>9. /\ r.at \in {"sent", "answered"} => x = ExchangeAfter(r.exchange, d, runs)
      /\ r.at = "signed" => x = y
      /\ r.at \notin {"signed", "sent", "answered"} => x = r.exchange
  BY DEF x
<1>10. r.at = "signed" => (s.exchange.slept <=> r.exchange.slept \/ ~runs)
  BY <1>4, <1>8, <1>9 DEF slept
<1>11. QED
  BY <1>7, <1>8, <1>9, <1>10 DEF s, ts, since

LEMMA LaterClock ==
  ASSUME ClockInv, Later
  PROVE  ClockInv'
<1> DEFINE x == request.exchange
           y == ExchangeAfter(x, 1, TRUE)
<1>0. Leg \in Nat
  BY ClockAssumption
<1>1. /\ request.since < Leg /\ resyncing.mono < 2 * Leg /\ UNCHANGED clock
      /\ half' = (half + 1) % 2
      /\ resyncing' = ExchangeAfter(resyncing, 1, TRUE)
      /\ request' = RequestAfter(request, 1, TRUE)
  BY DEF Later, Elapses
<1>2. /\ half \in {0, 1} /\ resyncing \in Exchanges /\ request \in Requests /\ x \in Exchanges
      /\ x.mono \in Int /\ x.stamp \in Int /\ request.since \in Int /\ request.ts \in Int
  BY DEF ClockInv, ClockType, Requests, Exchanges
<1>3. half' \in {0, 1} /\ \A n \in Int : (n + half) % 2 = 0 => (n - 1 + half') % 2 = 0
  BY <1>1, <1>2
<1>4. resyncing' \in Exchanges /\ ResyncWays'
  <2>1. CASE resyncing = NoExchange
    BY <1>1, <1>2, <2>1, ExchangeElapsed, Zenon DEF ResyncWays
  <2>2. CASE resyncing # NoExchange
    <3>1. /\ resyncing' \in Exchanges /\ resyncing'.mono = resyncing.mono + 1
          /\ resyncing'.stamp = IF resyncing.stamp = NotStamped THEN resyncing.stamp ELSE resyncing.stamp + 1
          /\ resyncing'.slept <=> resyncing.slept
      BY <1>1, <1>2, <2>2, ExchangeElapsed, Zenon
    <3>2. ~resyncing.slept =>
            /\ resyncing.mono \in 0 .. 2 * Leg
            /\ resyncing.stamp \in {NotStamped} \union 0 .. resyncing.mono
      BY <2>2 DEF ClockInv, ResyncWays
    <3>3. ~resyncing.slept =>
            /\ resyncing'.mono \in 0 .. 2 * Leg
            /\ resyncing'.stamp \in {NotStamped} \union 0 .. resyncing'.mono
      <4>1. resyncing.mono < 2 * Leg
        BY <1>1
      <4>2. QED
        BY <1>0, <3>1, <3>2, <4>1 DEF NotStamped
    <3>4. QED
      BY <3>1, <3>3 DEF ResyncWays
  <2>3. QED
    BY <2>1, <2>2
<1>5. /\ request' \in Requests
      /\ request'.at = request.at /\ request'.safe = request.safe /\ request'.attempt = request.attempt
      /\ request'.skewed = request.skewed
      /\ request'.ts = IF request.at \in {"signed", "sent"} THEN request.ts - 1 ELSE request.ts
      /\ request'.since = IF request.at \in {"signed", "sent", "answered"} THEN request.since + 1
                          ELSE request.since
      /\ request.at \in {"sent", "answered"} => request'.exchange = y
      /\ request.at = "signed" => (request'.exchange.slept <=> x.slept)
      /\ request.at \notin {"signed", "sent", "answered"} => request'.exchange = x
  <2> DEFINE s == RequestAfter(request, 1, TRUE)
  <2>1. /\ s \in Requests
        /\ s.at = request.at /\ s.safe = request.safe /\ s.attempt = request.attempt
        /\ s.skewed = request.skewed
        /\ s.ts = IF request.at \in {"signed", "sent"} THEN request.ts - 1 ELSE request.ts
        /\ s.since = IF TRUE /\ request.at \in {"signed", "sent", "answered"} THEN request.since + 1
                     ELSE request.since
        /\ request.at \in {"sent", "answered"} => s.exchange = y
        /\ request.at = "signed" => (s.exchange.slept <=> x.slept \/ ~TRUE)
        /\ request.at \notin {"signed", "sent", "answered"} => s.exchange = x
    <3>1. request \in Requests /\ 1 \in Nat /\ TRUE \in BOOLEAN
      BY <1>2
    <3>2. QED
      BY <3>1, RequestElapsed, ZenonT(40)
  <2> HIDE DEF s, x, y
  <2>2. QED
    BY <1>1, <2>1, Zenon DEF s
<1>6. /\ x # NoExchange => /\ y.mono = x.mono + 1
                           /\ y.stamp = IF x.stamp = NotStamped THEN x.stamp ELSE x.stamp + 1
                           /\ y.slept <=> x.slept
      /\ x = NoExchange => y = x
  BY <1>2, ExchangeElapsed, Zenon
<1> HIDE DEF y
<1>7. (request'.exchange.slept <=> x.slept) /\ request'.since \in 0 .. Leg
  <2>1. request.since \in 0 .. Leg
    BY DEF ClockInv, RequestWays
  <2>2. y.slept <=> x.slept
    BY <1>6
  <2>3. request'.exchange.slept <=> x.slept
    <3>1. CASE request.at \in {"sent", "answered"}
      BY <1>5, <2>2, <3>1
    <3>2. CASE request.at = "signed"
      BY <1>5, <3>2
    <3>3. CASE request.at \notin {"signed", "sent", "answered"}
      BY <1>5, <3>3
    <3>4. QED
      BY <3>1, <3>2, <3>3
  <2>4. request'.since \in 0 .. Leg
    <3>1. request.since < Leg
      BY <1>1
    <3>2. request'.since = request.since + 1 \/ request'.since = request.since
      BY <1>5
    <3>3. QED
      BY <1>0, <2>1, <3>1, <3>2
  <2>5. QED
    BY <2>3, <2>4
<1>8. RequestWays'
  <2>1. ASSUME ~x.slept, request.at = "sent" PROVE y.mono \in 0 .. request'.since
    <3>1. x.mono \in 0 .. request.since
      BY <2>1 DEF ClockInv, RequestWays
    <3>2. x # NoExchange
      BY <3>1 DEF NoExchange
    <3>3. QED
      BY <1>2, <1>5, <1>6, <2>1, <3>1, <3>2
  <2>2. ASSUME ~x.slept, request.at = "answered"
        PROVE  y.stamp \in 0 .. request'.since /\ y.mono \in y.stamp .. y.stamp + Leg
    <3>1. x.stamp \in 0 .. request.since /\ x.mono \in x.stamp .. x.stamp + Leg
      BY <2>2 DEF ClockInv, RequestWays
    <3>2. x # NoExchange /\ x.stamp # NotStamped
      BY <1>2, <3>1 DEF NoExchange, NotStamped
    <3>3. QED
      BY <1>0, <1>2, <1>5, <1>6, <2>2, <3>1, <3>2
  <2>3. QED
    BY <1>5, <1>7, <2>1, <2>2 DEF RequestWays
<1>9. RetryInv'
  <2>1. ASSUME request.at \in {"signed", "sent"}
        PROVE  request'.ts = request.ts - 1 /\ request'.ts + request'.since = request.ts + request.since
    BY <1>2, <1>5, <2>1
  <2>2. QED
    BY <1>2, <1>3, <1>5, <1>7, <2>1, Zenon DEF ClockInv, RetryInv
<1>10. QED
  BY <1>1, <1>3, <1>4, <1>5, <1>8, <1>9, KeptAnchor, Zenon DEF ClockInv, ClockType

LEMMA StandbyClock ==
  ASSUME ClockInv, NEW d \in Pauses, Standby(d), request.at # "done"
  PROVE  ClockInv'
<1> DEFINE x == request.exchange
           y == ExchangeAfter(x, d, FALSE)
<1>0. Leg \in Nat /\ d \in Nat
  BY ClockAssumption
<1>1. /\ ~resyncing.slept /\ ~x.slept
      /\ clock' = [clock EXCEPT !.error = @ - 2 * d, !.drift = @ + d]
      /\ half' = (half + d) % 2
      /\ resyncing' = ExchangeAfter(resyncing, d, FALSE)
      /\ request' = RequestAfter(request, d, FALSE)
  BY DEF Standby, Elapses
<1>2. /\ half \in {0, 1} /\ resyncing \in Exchanges /\ request \in Requests /\ x \in Exchanges
      /\ clock \in Anchors
  BY DEF ClockInv, ClockType, Requests
<1>3. half' \in {0, 1}
  BY <1>0, <1>1, <1>2
<1>4. resyncing' \in Exchanges /\ ResyncWays'
  BY <1>0, <1>1, <1>2, ExchangeElapsed, ZenonT(40) DEF ResyncWays
<1>5. clock' \in Anchors /\ AnchorInv'
  <2>1. clock' = [error |-> clock.error - 2 * d, drift |-> clock.drift + d, old |-> clock.old, sound |-> clock.sound]
    BY <1>1, <1>2, Zenon DEF Anchors
  <2>2. /\ clock' \in Anchors /\ clock'.error = clock.error - 2 * d /\ clock'.drift = clock.drift + d
        /\ clock'.sound = clock.sound /\ clock.error \in Int /\ clock.drift \in Int
    BY <1>0, <1>2, <2>1 DEF Anchors
  <2>3. clock'.error + 2 * clock'.drift = clock.error + 2 * clock.drift
    BY <1>0, <2>2
  <2>4. QED
    BY <1>0, <2>2, <2>3 DEF ClockInv, AnchorInv, Longest
<1>6. /\ request' \in Requests
      /\ request'.at = request.at /\ request'.safe = request.safe /\ request'.attempt = request.attempt
      /\ request'.since = request.since
      /\ request.at \in {"sent", "answered"} => request'.exchange = y
      /\ request.at = "signed" => request'.exchange.slept
      /\ request.at \notin {"signed", "sent", "answered"} => request'.exchange = x
  <2> DEFINE s == RequestAfter(request, d, FALSE)
  <2>1. /\ s \in Requests
        /\ s.at = request.at /\ s.safe = request.safe /\ s.attempt = request.attempt
        /\ s.since = IF FALSE /\ request.at \in {"signed", "sent", "answered"} THEN request.since + d
                     ELSE request.since
        /\ request.at \in {"sent", "answered"} => s.exchange = y
        /\ request.at = "signed" => (s.exchange.slept <=> x.slept \/ ~FALSE)
        /\ request.at \notin {"signed", "sent", "answered"} => s.exchange = x
    <3>1. request \in Requests /\ d \in Nat /\ FALSE \in BOOLEAN
      BY <1>0, <1>2
    <3>2. QED
      BY <3>1, RequestElapsed, ZenonT(40)
  <2> HIDE DEF s, x, y
  <2>2. QED
    BY <1>1, <2>1, Zenon DEF s
<1>7. request.at \in {"sent", "answered"} => y.slept
  <2>1. request.at \in {"sent", "answered"} => x # NoExchange
    BY <1>0, <1>1 DEF ClockInv, RequestWays, NoExchange, NotStamped
  <2>2. QED
    BY <1>0, <1>2, <2>1, ExchangeElapsed, Zenon
<1> HIDE DEF y
<1>8. RequestWays'
  BY <1>6, <1>7 DEF ClockInv, RequestWays
<1>9. RetryInv'
  BY <1>6, <1>7 DEF ClockInv, RetryInv
<1>10. QED
  BY <1>3, <1>4, <1>5, <1>6, <1>8, <1>9 DEF ClockInv, ClockType

LEMMA NextClock == LegsAreShort /\ ClockInv /\ [PageNext]_pageVars => ClockInv'
<1> SUFFICES ASSUME LegsAreShort, ClockInv, [PageNext]_pageVars PROVE ClockInv'
  OBVIOUS
<1>1. CASE UNCHANGED clockVars
  <2>1. UNCHANGED <<half, clock, resyncing, request>>
    BY <1>1 DEF clockVars
  <2>2. QED
    BY <2>1, KeptRequest, KeptAnchor, ResyncStarted DEF ClockInv, ClockType
<1>2. CASE request.at # "done" /\ Following
  BY <1>2, FetchClock, SendClock, HandleClock, ReplyClock, LostClock, OtherReplyClock, VisibleClock,
     StampClock, ResyncClock, LaterClock, StandbyClock, SetWallClock
     DEF Following
<1>3. QED
  BY <1>1, <1>2, AnchorClock DEF PageNext, ClockNext, Returned, pageVars

LEMMA ClockInvariance == LegsAreShort /\ PageSafety => []ClockInv
<1>1. LegsAreShort => []LegsAreShort
  OBVIOUS
<1>2. QED
  BY <1>1, InitClock, NextClock, PTL DEF PageSafety

(***************************************************************************)
(* solver.js, the wrapped fetch: a GET that is rejected for its timestamp  *)
(* is accepted when it is repeated, whatever the anchor was worth, and a   *)
(* POST is not repeated; for all durations that pow_gate_proof_skew leaves *)
(* to the way of a request and half the way of its reply.                  *)
(***************************************************************************)
THEOREM SkewIsRecovered == LegsAreShort /\ PageSafety => []SkewRecovered
<1>1. ClockInv => SkewRecovered
  BY DEF ClockInv, RetryInv, SkewRecovered
<1>2. QED
  BY <1>1, ClockInvariance, PTL

(***************************************************************************)
(* solver.js, clockStale and signProof: what is signed with an anchor that *)
(* does not look stale is off by no more than half of an exchange, the     *)
(* tolerated drift and the second that is cut off.                         *)
(***************************************************************************)
THEOREM ProofsAreOnTime == LegsAreShort /\ PageSafety => []StampedOnTime
<1>1. ClockInv => StampedOnTime
  <2> SUFFICES ASSUME ClockInv, request.at = "idle", clock.sound, ~ClockStale(clock)
               PROVE  2 * Signed(request, clock).ts \in -(2 * Leg + 2 * CLOCK_DRIFT + 3) .. Longest + 2
    BY DEF StampedOnTime
  <2>0. Leg \in Nat /\ Longest \in Nat /\ CLOCK_DRIFT \in Nat
    BY ClockAssumption DEF Longest
  <2>1. half \in {0, 1} /\ clock \in Anchors /\ request \in Requests /\ clock.error \in Int /\ clock.drift \in Int
    BY DEF ClockInv, ClockType, Anchors
  <2>2. clock.drift \in 0 .. CLOCK_DRIFT
    BY <2>0, <2>1 DEF ClockInv, AnchorInv, ClockStale, Magnitude
  <2>3. clock.error + 2 * clock.drift \in -(2 * Leg) .. Longest + 2
    BY DEF ClockInv, AnchorInv
  <2>4. /\ 2 * Signed(request, clock).ts \in clock.error - 3 .. clock.error
        /\ Signed(request, clock).ts \in Int
    BY <2>1, SignedTime DEF Requests
  <2>5. QED
    BY <2>0, <2>1, <2>2, <2>3, <2>4
<1>2. QED
  BY <1>1, ClockInvariance, PTL

=============================================================================
