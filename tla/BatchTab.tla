------------------------------- MODULE BatchTab -------------------------------
(***************************************************************************)
(* The batch tab of the front end beside the batch service it polls.  The  *)
(* tab submits a job, asks for its status every second, fetches the        *)
(* results once it is completed, and may cancel it.  A callback of the     *)
(* timer does not wait for the one before, and every answer is handled     *)
(* when it comes, whatever the tab is about by then.                       *)
(*                                                                         *)
(* The service is what JobLifecycle promises, which AsyncBatch implements. *)
(***************************************************************************)
EXTENDS Naturals, FiniteSets

CONSTANTS
  Jobs,       \* 1 .. n: those the service makes, in this order
  Deadlines,  \* jobs whose deadline may pass meanwhile
  Regretted,  \* bound: jobs the user may want to cancel
  Slots,      \* bound, 1 .. n: polls under way at once
  AtOnce,     \* bound: of these, polls of each job
  None

BatchTabAssumption ==
  /\ Jobs \subseteq Nat /\ Slots \subseteq Nat /\ Deadlines \subseteq Jobs
  /\ Regretted \subseteq Jobs
  /\ AtOnce \in [Jobs -> Nat \ {0}] /\ None \notin Jobs

VARIABLES
  \* the service
  status, late, results,
  \* the state of the component
  mounted,
  job,         \* the card: [id, status], or None
  shown,       \* the job whose results are displayed, or None
  error,       \* an error is displayed
  pollRef,     \* the job the timer polls, or None when it is cleared
  \* requests under way, answer None until the service gave one
  submission,  \* [id, answer], or None: the button is enabled
  polls,       \* per slot [id, of, answer], or None
  cancelling,  \* [card, answer], or None
  \* history
  latest,      \* the job submitted last
  crossed      \* an answer came that the tab was no longer about

serviceVars == <<status, late, results>>
viewVars == <<mounted, job, shown, error>>
vars ==
  <<serviceVars, viewVars, pollRef, submission, polls, cancelling, latest, crossed>>

\* The results of all batches of j, by their name.
Whole(j) == j
Service == INSTANCE JobLifecycle WITH NoResults <- None, All <- Whole

Statuses == {"none", "pending", "processing", "completed", "failed", "cancelled", "expired"}
Cards == [id : Jobs, status : Statuses]
Submissions == [id : Jobs, answer : {None, "accepted", "error"}]
Polls == [id : Jobs, of : {"status", "results"}, answer : Statuses \union {None, "whole", "error"}]
Cancellations == [card : Cards, answer : {None, "cancelled", "error"}]

\* null is none of the values the tab handles.
NamesAreDifferent ==
  /\ None \notin Statuses \union {"accepted", "whole", "error"}
  /\ None \notin Cards /\ None \notin Submissions /\ None \notin Polls
  /\ None \notin Cancellations

TypeOK ==
  /\ status \in [Jobs -> Statuses] /\ late \subseteq Jobs /\ results \in [Jobs -> Jobs \union {None}]
  /\ mounted \in BOOLEAN /\ error \in BOOLEAN /\ crossed \in BOOLEAN
  /\ job \in Cards \union {None}
  /\ {shown, pollRef, latest} \subseteq Jobs \union {None}
  /\ submission \in Submissions \union {None}
  /\ polls \in [Slots -> Polls \union {None}]
  /\ cancelling \in Cancellations \union {None}

Init ==
  /\ Service!Init
  /\ mounted = TRUE /\ job = None /\ shown = None /\ error = FALSE
  /\ pollRef = None /\ submission = None
  /\ polls = [s \in Slots |-> None]
  /\ cancelling = None
  /\ latest = None /\ crossed = FALSE

-----------------------------------------------------------------------------
(* The service.  Its handlers run when no worker has the event loop, so they *)
(* never meet a job in processing.                                           *)

Listening == \A j \in Jobs : status[j] # "processing"

\* A worker finishes a job it began, or its answers are malformed and the job fails.
Work ==
  /\ \E j \in Jobs :
       \/ Service!Begin(j) \/ Service!Finish(j)
       \/ j \in Deadlines /\ Service!DeadlineReached(j)
       \/ Service!Move(j, {"processing"}, "failed") /\ UNCHANGED results
  /\ UNCHANGED <<viewVars, pollRef, submission, polls, cancelling, latest, crossed>>

\* A round of the clean-up.
Cleanup ==
  /\ Listening
  /\ \E S \in SUBSET late : S # {} /\ Service!Expire(S)
  /\ UNCHANGED <<viewVars, pollRef, submission, polls, cancelling, latest, crossed>>

\* The submission is accepted, refused, or fails on its way; the answer may be lost.
ServeSubmission ==
  /\ submission # None /\ submission.answer = None
  /\ Listening
  /\ \/ /\ Service!Accept(submission.id)
        /\ \E a \in {"accepted", "error"} : submission' = [submission EXCEPT !.answer = a]
     \/ /\ Service!Reject(submission.id) \/ UNCHANGED serviceVars
        /\ submission' = [submission EXCEPT !.answer = "error"]
  /\ UNCHANGED <<viewVars, pollRef, polls, cancelling, latest, crossed>>

\* A look at a job past its deadline may expire it.
Look(j) == \E S \in SUBSET {j} : Service!Expire(S)

\* The answer the service gives to a poll; results only of a completed job, else 404.
Answer(p, st) ==
  IF p.of = "status" THEN st ELSE IF st = "completed" THEN "whole" ELSE "error"

Serve(s) ==
  /\ polls[s] # None /\ polls[s].answer = None
  /\ Listening
  /\ Look(polls[s].id)
  /\ \E a \in {Answer(polls[s], status'[polls[s].id]), "error"} :
       polls' = [polls EXCEPT ![s].answer = a]
  /\ UNCHANGED <<viewVars, pollRef, submission, cancelling, latest, crossed>>

\* cancel_job succeeds for a pending job.
ServeCancel ==
  /\ cancelling # None /\ cancelling.answer = None
  /\ Listening
  /\ \/ /\ Service!Cancel(cancelling.card.id)
        /\ \E a \in {"cancelled", "error"} : cancelling' = [cancelling EXCEPT !.answer = a]
     \/ /\ cancelling' = [cancelling EXCEPT !.answer = "error"]
        /\ UNCHANGED serviceVars
  /\ UNCHANGED <<viewVars, pollRef, submission, polls, latest, crossed>>

-----------------------------------------------------------------------------
(* The tab.  After unmounting, its setters do nothing; its callbacks go on. *)

Display(card, res, err) ==
  IF mounted THEN /\ job' = card /\ shown' = res /\ error' = err
                  /\ UNCHANGED mounted
             ELSE UNCHANGED viewVars

First(S) == CHOOSE n \in S : \A m \in S : n <= m

\* handleSubmit up to its await: the former job's timer and card stay.
Submit ==
  LET new == {j \in Jobs : status[j] = "none"} IN
  /\ mounted /\ submission = None /\ new # {}
  /\ Display(job, None, FALSE)
  /\ submission' = [id |-> First(new), answer |-> None]
  /\ UNCHANGED <<serviceVars, pollRef, polls, cancelling, latest, crossed>>

\* startPolling(j): the one timer there is now polls j.
Submitted ==
  /\ submission # None /\ submission.answer = "accepted"
  /\ Display([id |-> submission.id, status |-> "pending"], shown, error)
  /\ pollRef' = submission.id /\ latest' = submission.id
  /\ submission' = None
  /\ UNCHANGED <<serviceVars, polls, cancelling, crossed>>

SubmitFailed ==
  /\ submission # None /\ submission.answer = "error"
  /\ Display(job, shown, TRUE)
  /\ submission' = None
  /\ UNCHANGED <<serviceVars, pollRef, polls, cancelling, latest, crossed>>

\* The timer goes off.
Fire ==
  LET free == {s \in Slots : polls[s] = None} IN
  /\ pollRef # None /\ free # {}
  /\ Cardinality({s \in Slots : polls[s] # None /\ polls[s].id = pollRef}) < AtOnce[pollRef]
  /\ polls' = [polls EXCEPT ![First(free)] = [id |-> pollRef, of |-> "status", answer |-> None]]
  /\ UNCHANGED <<serviceVars, viewVars, pollRef, submission, cancelling, latest, crossed>>

Answered(s, kind) == polls[s] # None /\ polls[s].of = kind /\ polls[s].answer # None

\* The card says that j ended without results.
Over(j) == job # None /\ job.id = j /\ job.status \in {"cancelled", "expired"}

\* The tab has gone over to another job since, or has shown a later status.
Overtaken(p) == p.id # latest \/ (Over(p.id) /\ p.answer \notin {"cancelled", "expired"})

\* clearInterval(pollRef.current), by a callback of whatever timer.
Cleared == None

\* mutant
NothingMore(p) == None
\* What the callback asks for next.
NextRequest(p) ==
  IF p.answer = "completed" THEN [id |-> p.id, of |-> "results", answer |-> None] ELSE None

\* mutant
OnlySuccess(answer) == answer = "completed"
\* The answers the tab takes for an end; of the others it polls on.
Ends(answer) == answer \in {"completed", "failed"}

\* The answer to a poll of the status that came through.
StatusShown(s) ==
  LET p == polls[s] IN
  /\ Answered(s, "status") /\ p.answer # "error"
  /\ Display([id |-> p.id, status |-> p.answer], shown, error \/ (Ends(p.answer) /\ p.answer # "completed"))
  /\ pollRef' = IF Ends(p.answer) THEN Cleared ELSE pollRef
  /\ polls' = [polls EXCEPT ![s] = NextRequest(p)]
  /\ crossed' = (crossed \/ Overtaken(p))
  /\ UNCHANGED <<serviceVars, submission, cancelling, latest>>

ResultsShown(s) ==
  LET p == polls[s] IN
  /\ Answered(s, "results") /\ p.answer # "error"
  /\ Display(job, p.id, error)
  /\ polls' = [polls EXCEPT ![s] = None]
  /\ crossed' = (crossed \/ Overtaken(p))
  /\ UNCHANGED <<serviceVars, pollRef, submission, cancelling, latest>>

\* Either request of a poll failed.
PollFailed(s) ==
  LET p == polls[s] IN
  /\ p # None /\ p.answer = "error"
  /\ Display(job, shown, TRUE)
  /\ pollRef' = Cleared
  /\ polls' = [polls EXCEPT ![s] = None]
  /\ crossed' = (crossed \/ Overtaken(p))
  /\ UNCHANGED <<serviceVars, submission, cancelling, latest>>

Deliver(s) == StatusShown(s) \/ ResultsShown(s) \/ PollFailed(s)

\* The button is there while the card says so; one click at a time.
CancelClick ==
  /\ mounted /\ job # None /\ job.status \in {"pending", "processing"}
  /\ cancelling = None /\ job.id \in Regretted
  /\ cancelling' = [card |-> job, answer |-> None]
  /\ UNCHANGED <<serviceVars, viewVars, pollRef, submission, polls, latest, crossed>>

\* The card of the click comes back, as cancelled.
Cancelled ==
  /\ cancelling # None /\ cancelling.answer = "cancelled"
  /\ Display([cancelling.card EXCEPT !.status = "cancelled"], shown, error)
  /\ pollRef' = Cleared
  /\ cancelling' = None
  /\ crossed' = (crossed \/ cancelling.card.id # latest)
  /\ UNCHANGED <<serviceVars, submission, polls, latest>>

CancelFailed ==
  /\ cancelling # None /\ cancelling.answer = "error"
  /\ Display(job, shown, TRUE)
  /\ cancelling' = None
  /\ UNCHANGED <<serviceVars, pollRef, submission, polls, latest, crossed>>

\* Another tab is chosen: the effect's clean-up clears the timer.
Leave ==
  /\ mounted
  /\ mounted' = FALSE /\ job' = None /\ shown' = None /\ error' = FALSE
  /\ pollRef' = None
  /\ UNCHANGED <<serviceVars, submission, polls, cancelling, latest, crossed>>

Next ==
  \/ Work \/ Cleanup
  \/ ServeSubmission \/ Submitted \/ SubmitFailed
  \/ ServeCancel \/ CancelClick \/ Cancelled \/ CancelFailed
  \/ Leave \/ Submit \/ Fire
  \/ \E s \in Slots : Serve(s) \/ Deliver(s)

\* The timer goes off, requests are answered, and the service works on what it began.
Fairness ==
  /\ WF_vars(Work) /\ WF_vars(ServeSubmission)
  /\ WF_vars(Submitted \/ SubmitFailed) /\ WF_vars(Fire)
  /\ \A s \in Slots : WF_vars(Serve(s)) /\ WF_vars(Deliver(s))

Spec == Init /\ [][Next]_vars /\ Fairness

-----------------------------------------------------------------------------
(* Properties *)

\* What is displayed was so: results are those of a job that completed, a card never
\* says "cancelled" of a job the service went on with, however late answers come.
WhatIsShownWasSo ==
  /\ shown # None => results[shown] = Whole(shown)
  /\ job # None =>
       /\ job.status = "completed" => results[job.id] = Whole(job.id)
       /\ job.status = "cancelled" => status[job.id] \in {"cancelled", "expired"}

Settled(j) == shown = j \/ error \/ Over(j)

\* While nobody waits for anything about the latest job, the tab has said how it ended:
\* a timer is cleared only by who has something to say (BatchTab.jsx:56-75).
NeverSilent ==
  (/\ mounted /\ latest # None /\ ~crossed
   /\ pollRef = None /\ submission = None
   /\ \A s \in Slots : polls[s] = None \/ polls[s].id # latest)
  => Settled(latest)

\* The tab tells what the service said, and does not stop asking before the end.
TabTellsTheOutcome == WhatIsShownWasSo /\ NeverSilent

\* Who stays on the tab is told how the job ended.
OutcomeIsShown ==
  \A j \in Jobs : (latest = j) ~> (Settled(j) \/ latest # j \/ ~mounted \/ crossed)

\* BatchTab.jsx:93, "Real async job lifecycle": the outcome is shown whatever answers
\* come late.  Refuted: an earlier job's answer clears the timer of the later one.
TimerOutlivesOldAnswers ==
  (/\ mounted /\ latest # None
   /\ pollRef = None /\ submission = None
   /\ \A s \in Slots : polls[s] = None \/ polls[s].id # latest)
  => Settled(latest)

\* The results below the card are the card's (BatchTab.jsx:136).  Refuted: those of an
\* earlier job are displayed when they come.
ResultsMatchCard == shown # None /\ job # None /\ submission = None => shown = job.id

\* BatchTab.jsx:23, the clean-up of the effect: no timer runs once the tab is left.
\* Refuted: a submission under way then starts one, which nobody clears.
TimerEndsWithTab == ~mounted => pollRef = None

==============================================================================
