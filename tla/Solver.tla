------------------------------- MODULE Solver -------------------------------
(***************************************************************************)
(* solver.js in one browser tab: run, from the load of the challenge page  *)
(* to the reload, the replay of the captured request or the error box, and *)
(* over the page loads that follow.                                        *)
(*                                                                         *)
(* The server, the network and the search for a nonce are the environment: *)
(* every request may be answered, fail or time out, the workers may stall, *)
(* the page may be closed at any await, and the page that a navigation     *)
(* finds may be challenged again.  Session storage or window.name works,   *)
(* and the navigations stay on one URL.                                    *)
(***************************************************************************)
EXTENDS Naturals

CONSTANTS
  RETRIES,      \* attempts of run per page load
  FETCHES,      \* tries of a fetchBounded that may retry
  PROBES,       \* rounds of clearanceAccepted
  MaxReloads    \* automatic navigations after which run shows an error

ASSUME SolverAssumption ==
  {RETRIES, FETCHES, PROBES, MaxReloads} \subseteq Nat \ {0}

VARIABLES
  pc,           \* where run stands
  STOPPED,      \* pagehide was seen
  i,            \* attempt of this load, from 0
  sent,         \* the request of fetchBounded is out
  tries,        \* tries of fetchBounded that failed
  k,            \* round of clearanceAccepted
  ok,           \* the variable of run
  expired,      \* nowSec() has reached the expiry of the challenge
  marker,       \* the persisted navigation count, 0 when there is none
  captured,     \* the page carries a captured request
  posts,        \* history: POSTs of the current challenge token
  verified,     \* history: verify answered with success in this load
  confirmed,    \* history: status accepted the clearance in this load
  replays,      \* history: captured requests re-issued in this load
  row           \* history: automatic navigations in a row

fetching == <<sent, tries>>
loop == <<i, k, ok, expired>>
page == <<STOPPED, captured>>
history == <<posts, verified, confirmed, replays, row>>
vars == <<pc, fetching, loop, page, marker, history>>

Ended == {"failed", "stopped", "landed"}
Left == {"navigate", "replay", "reload", "landed"}
Searching == {"solve", "sequential", "batch"}
Working == {"prepare", "challenge", "verify", "status", "next", "navigate"} \union Searching

-----------------------------------------------------------------------------

\* The outer catch of run: the error box, unless the page is going.
Failed == IF STOPPED THEN "stopped" ELSE "failed"

\* The inner catch: the last attempt passes the error on, the others sleep
\* and go round the loop with ok as it is.
Caught == IF STOPPED \/ i = RETRIES - 1 THEN Failed ELSE "next"

\* Faulty variant: the error does not depend on the count.
StartAnyway ==
  /\ pc = "load"
  /\ pc' = "prepare" /\ marker' = marker
  /\ UNCHANGED <<fetching, loop, page, history>>

\* run starts with navigationCount(false): a cycle of navigations ends in the
\* error box, and the marker is cleared so that the user can try again.
Start ==
  /\ pc = "load"
  /\ IF marker >= MaxReloads
     THEN pc' = Failed /\ marker' = 0
     ELSE pc' = "prepare" /\ marker' = marker
  /\ UNCHANGED <<fetching, loop, page, history>>

\* getKeypair: a stored key or a new one; run fails without WebCrypto.
GetKeypair(works) ==
  /\ pc = "prepare"
  /\ pc' = IF works THEN "challenge" ELSE Failed
  /\ UNCHANGED <<fetching, loop, page, marker, history>>

\* The head of the loop of fetchBounded, for the three requests.
Send ==
  /\ pc \in {"challenge", "verify", "status"} /\ ~sent
  /\ IF STOPPED
     THEN pc' = Caught /\ tries' = 0 /\ UNCHANGED <<sent, posts>>
     ELSE /\ sent' = TRUE
          /\ posts' = IF pc = "verify" THEN posts + 1 ELSE posts
          /\ UNCHANGED <<pc, tries>>
  /\ UNCHANGED <<loop, page, marker, verified, confirmed, replays, row>>

\* Faulty variant: a POST is tried again as well.
NoAnswerRetriesAll ==
  /\ pc \in {"challenge", "verify", "status"} /\ sent
  /\ sent' = FALSE
  /\ IF tries < FETCHES - 1
     THEN tries' = tries + 1 /\ UNCHANGED pc
     ELSE tries' = 0 /\ pc' = Caught
  /\ UNCHANGED <<loop, page, marker, history>>

\* Faulty variant: the retries have no limit.
NoAnswerForever ==
  /\ pc \in {"challenge", "verify", "status"} /\ sent
  /\ sent' = FALSE
  /\ IF pc # "verify"
     THEN UNCHANGED <<tries, pc>>
     ELSE tries' = 0 /\ pc' = Caught
  /\ UNCHANGED <<loop, page, marker, history>>

\* A network error, the deadline or, for the GETs, a transient status: the
\* GETs try again, a POST is never repeated.
NoAnswer ==
  /\ pc \in {"challenge", "verify", "status"} /\ sent
  /\ sent' = FALSE
  /\ IF pc # "verify" /\ tries < FETCHES - 1
     THEN tries' = tries + 1 /\ UNCHANGED pc
     ELSE tries' = 0 /\ pc' = Caught
  /\ UNCHANGED <<loop, page, marker, history>>

\* The answer to a request.
Answered(request) == pc = request /\ sent /\ sent' = FALSE /\ tries' = 0

\* attempt gets its challenge; one that is invalid or expired, like the body
\* of any other status, throws.
Challenge(valid) ==
  /\ Answered("challenge")
  /\ IF valid
     THEN pc' = "solve" /\ posts' = 0 /\ expired' = FALSE
     ELSE pc' = Caught /\ UNCHANGED <<posts, expired>>
  /\ UNCHANGED <<i, k, ok, page, marker, verified, confirmed, replays, row>>

\* solveParallel finds a nonce, or rejects (expired, stalled, every worker
\* failed, no workers at all): then the page searches itself.
SolveParallel(found) ==
  /\ pc = "solve"
  /\ pc' = IF found THEN "verify" ELSE "sequential"
  /\ UNCHANGED <<fetching, loop, page, marker, history>>

\* The head of the loop of solveSequential.
SolveSequential ==
  /\ pc = "sequential"
  /\ pc' = IF STOPPED \/ expired THEN Caught ELSE "batch"
  /\ UNCHANGED <<fetching, loop, page, marker, history>>

\* A batch of hashes and the yield after it.
Batch(found) ==
  /\ pc = "batch"
  /\ pc' = IF found THEN "verify" ELSE "sequential"
  /\ UNCHANGED <<fetching, loop, page, marker, history>>

\* The server-anchored clock reaches the expiry of the challenge.
ChallengeExpires ==
  /\ pc \in {"solve", "sequential", "batch"} /\ ~expired
  /\ expired' = TRUE
  /\ UNCHANGED <<pc, fetching, i, k, ok, page, marker, history>>

\* verify answers: attempt returns whether it was a success.
Verify(success) ==
  /\ Answered("verify")
  /\ ok' = success
  /\ verified' = (verified \/ success)
  /\ pc' = IF success THEN "status" ELSE "next"
  /\ UNCHANGED <<i, k, expired, page, marker, posts, confirmed, replays, row>>

\* clearanceAccepted gets its answer: a blamed timestamp is asked about once
\* more with the clock of the server, any other refusal is final.
Status(answer) ==
  /\ Answered("status")
  /\ confirmed' = (confirmed \/ answer = "accepted")
  /\ IF answer = "proof_skew" /\ k < PROBES - 1
     THEN k' = k + 1 /\ UNCHANGED <<pc, ok>>
     ELSE k' = k /\ ok' = (answer = "accepted") /\ pc' = "next"
  /\ UNCHANGED <<i, expired, page, marker, posts, verified, replays, row>>

\* Faulty variant: ok is not looked at after the loop.
AgainUnchecked ==
  /\ pc = "next"
  /\ IF ~ok /\ i < RETRIES - 1
     THEN i' = i + 1 /\ pc' = "challenge"
     ELSE i' = i /\ pc' = "navigate"
  /\ k' = 0
  /\ UNCHANGED <<fetching, ok, expired, page, marker, history>>

\* The end of an attempt: the next one while ok is false, then what follows
\* the loop.
Again ==
  /\ pc = "next"
  /\ IF ~ok /\ i < RETRIES - 1
     THEN i' = i + 1 /\ pc' = "challenge"
     ELSE i' = i /\ pc' = IF ok THEN "navigate" ELSE Failed
  /\ k' = 0
  /\ UNCHANGED <<fetching, ok, expired, page, marker, history>>

\* navigationCount(true), then the captured request or the reload.
Navigate ==
  /\ pc = "navigate"
  /\ marker' = marker + 1
  /\ row' = row + 1
  /\ pc' = IF captured THEN "replay" ELSE "reload"
  /\ UNCHANGED <<fetching, loop, page, posts, verified, confirmed, replays>>

\* A page of the gate is loaded: fresh variables, the marker stays.
Load ==
  /\ pc' = "load"
  /\ sent' = FALSE /\ tries' = 0
  /\ i' = 0 /\ k' = 0 /\ ok' = FALSE /\ expired' = FALSE
  /\ STOPPED' = FALSE
  /\ posts' = 0 /\ verified' = FALSE /\ confirmed' = FALSE /\ replays' = 0
  /\ UNCHANGED marker

\* replay: the form or the redirect of a fetch reaches the content, or the
\* answer of the fetch is written into this window, where a challenge page
\* starts no second run (__POW_STARTED__); a fetch that fails falls back to the
\* reload.
Replay(works) ==
  /\ pc = "replay"
  /\ replays' = replays + 1
  /\ pc' = IF works THEN "landed" ELSE "reload"
  /\ UNCHANGED <<fetching, loop, page, marker, posts, verified, confirmed, row>>

\* location.reload reaches the content.
Reload ==
  /\ pc = "reload"
  /\ pc' = "landed"
  /\ UNCHANGED <<fetching, loop, page, marker, history>>

\* The replayed form, the target of a redirect or the reload is challenged once
\* more, in a new window.
ChallengedAgain ==
  /\ pc \in {"replay", "reload"}
  /\ Load
  /\ UNCHANGED <<captured, row>>

\* The user opens or retries a page that is challenged.
Open ==
  /\ pc \in Ended
  /\ Load
  /\ captured' \in BOOLEAN
  /\ row' = 0

\* pagehide: stopSolve rejects a parallel search that is under way.
Hide ==
  /\ pc \notin Ended \union {"load"}
  /\ ~STOPPED
  /\ STOPPED' = TRUE
  /\ pc' = IF pc = "solve" THEN "sequential" ELSE pc
  /\ UNCHANGED <<fetching, loop, captured, marker, history>>

\* The marker is older than five minutes: the count starts over.
MarkerExpires ==
  /\ marker > 0
  /\ marker' = 0 /\ row' = 0
  /\ UNCHANGED <<pc, fetching, loop, page, posts, verified, confirmed, replays>>

Init ==
  /\ pc = "load"
  /\ STOPPED = FALSE /\ captured \in BOOLEAN
  /\ sent = FALSE /\ tries = 0
  /\ i = 0 /\ k = 0 /\ ok = FALSE /\ expired = FALSE
  /\ marker = 0
  /\ posts = 0 /\ verified = FALSE /\ confirmed = FALSE /\ replays = 0 /\ row = 0

Steps ==
  \/ Start
  \/ \E works \in BOOLEAN : GetKeypair(works)
  \/ Send
  \/ NoAnswer
  \/ \E valid \in BOOLEAN : Challenge(valid)
  \/ \E found \in BOOLEAN : SolveParallel(found)
  \/ SolveSequential
  \/ \E found \in BOOLEAN : Batch(found)
  \/ \E success \in BOOLEAN : Verify(success)
  \/ \E answer \in {"accepted", "proof_skew", "refused"} : Status(answer)
  \/ Again
  \/ Navigate

Next ==
  \/ Steps
  \/ ChallengeExpires
  \/ \E works \in BOOLEAN : Replay(works)
  \/ Reload
  \/ ChallengedAgain
  \/ Open
  \/ Hide
  \/ MarkerExpires

Spec == Init /\ [][Next]_vars

(***************************************************************************)
(* Every await of run ends: a request has a deadline of ten seconds, the   *)
(* workers a watchdog, a batch a fixed number of hashes; and the clock     *)
(* that the solver anchors to the server goes on.                          *)
(***************************************************************************)
FairSpec == Spec /\ WF_vars(Steps) /\ WF_vars(ChallengeExpires)

-----------------------------------------------------------------------------

\* "ambiguous POST verification replies cause a fresh challenge, never reuse of
\* a possibly spent token" (docs/challenge-page.md): whatever is lost, slow or
\* refused, attempt never posts one token twice.
TokenPostedOnce == posts <= 1

\* The tab leaves for the content, by reload or by replay, only in a load whose
\* verify was answered with success, whatever the other attempts of run met,
\* and re-issues the captured request at most once.
LeavesVerified == (pc \in Left => verified) /\ replays <= 1

\* navigationCount: a page that stays challenged is reloaded or replayed at
\* most MaxReloads times within the lifetime of a marker before the user sees
\* an error.
NavigationsBounded == row <= MaxReloads

\* run always comes to an end, with the page closed, an error shown or the
\* navigation started.
RunEnds == (pc = "load") ~> (pc \in Ended \union Left)

\* How far run stands from its end within one attempt.
Distance ==
  CASE pc = "load" -> 10 [] pc = "prepare" -> 9 [] pc = "challenge" -> 8
    [] pc = "solve" -> 7 [] pc = "batch" -> 6 [] pc = "sequential" -> 5
    [] pc = "verify" -> 4 [] pc = "status" -> 3 [] pc = "next" -> 2
    [] pc = "navigate" -> 1 [] OTHER -> 0

\* A later attempt, or a later stage of this one, probe of this stage, try of
\* this probe, or the request of this try.
Closer ==
  \/ i' > i
  \/ i' = i /\ Distance' < Distance
  \/ i' = i /\ Distance' = Distance /\ k' > k
  \/ i' = i /\ Distance' = Distance /\ k' = k /\ tries' > tries
  \/ i' = i /\ Distance' = Distance /\ k' = k /\ tries' = tries /\ sent' /\ ~sent

\* Attempts, probes and tries stay below RETRIES, PROBES and FETCHES.
Budget == i \in 0 .. RETRIES - 1 /\ k \in 0 .. PROBES - 1 /\ tries \in 0 .. FETCHES - 1

\* Why run cannot go on for ever: every step of it uses up some of what is
\* bounded, except that solveSequential searches on while the challenge has not
\* expired; and no event takes it back.
RunAdvances ==
  [][/\ Budget'
     /\ Steps => Closer \/ (pc = "sequential" /\ pc' = "batch" /\ ~expired)
     /\ pc \in {"load"} \union Working =>
          \/ Steps \/ Closer
          \/ UNCHANGED <<i, k, tries, sent>> /\ Distance' = Distance]_vars

\* "The solver confirms server-side cookie acceptance before replaying a
\* captured request or reloading" (docs/challenge-page.md).
LeavesConfirmed == pc \in Left => confirmed

-----------------------------------------------------------------------------
(* What the safety properties rest on.                                     *)

\* A token that is worked on was not posted; the POST that is out was the first.
PostsInv ==
  /\ pc \in {"load", "replay", "reload"} \union Working \union Ended
  /\ sent \in BOOLEAN /\ posts \in {0, 1}
  /\ pc \in Searching => posts = 0
  /\ pc = "verify" => posts = IF sent THEN 1 ELSE 0
  /\ sent => pc \in {"challenge", "verify", "status"}

\* ok is only true in a load that was verified, and replay comes last.
LeavesInv ==
  /\ ok \in BOOLEAN /\ verified \in BOOLEAN /\ replays \in {0, 1}
  /\ ok \/ pc \in Left \union {"status"} => verified
  /\ pc \notin {"reload", "landed"} => replays = 0

\* The marker counts the navigations in a row, and run goes on only below the
\* limit.
MarkerInv ==
  /\ marker \in 0 .. MaxReloads /\ row \in 0 .. MaxReloads
  /\ pc \notin {"failed", "stopped"} => row <= marker
  /\ pc \in Working => marker < MaxReloads

SolverInv == PostsInv /\ LeavesInv /\ MarkerInv

=============================================================================
