------------------------------- MODULE Messaging -------------------------------
(***************************************************************************)
(* The components that carry predictions away from the request: the data   *)
(* lake writer, the feedback producer, the shadow mode, the shutdown that  *)
(* stops them, and the batch tab, to which the outcome of a job travels.   *)
(* Each keeps its own state and reads nobody else's, so a behaviour        *)
(* follows one of them (focus) while the others stay where they begin:     *)
(* interleaving them would reach no further state of any.                  *)
(***************************************************************************)
EXTENDS Naturals, FiniteSets

CONSTANTS
  None,
  MayStop,                                        \* the drain stops the services
  Records, BatchSize, Flushers, Failures,         \* DataWriter
  Clients, kafka_enabled, MaxRetries,             \* FeedbackProducer
  Requests, async_dispatch,                       \* ShadowMode
  Signals,                                        \* Shutdown
  Jobs, Deadlines, Regretted, Slots, AtOnce       \* BatchTab

VARIABLES
  focus,
  initialized, buffer, batch_task, writer_pc, data, stopping, stored, failed, written, cut,
  producer, started, feedback_pc, attempts, using, answer, open, acked, stopped,
  enabled, shadow_model, phase, pending_tasks, gathered, shadow_pc, returned, before_stop,
  services_started, present, arrived, shutdown_task, draining, awaited, shutdown_pc, at, stops,
  missed,
  status, job_late, results, mounted, job, shown, error, pollRef, submission, polls,
  cancelling, latest, crossed

writerVars ==
  <<initialized, buffer, batch_task, writer_pc, data, stopping, stored, failed, written, cut>>
feedbackVars ==
  <<producer, started, feedback_pc, attempts, using, answer, open, acked, stopped>>
shadowVars ==
  <<enabled, shadow_model, phase, pending_tasks, gathered, shadow_pc, returned, before_stop>>
stopVars ==
  <<services_started, present, arrived, shutdown_task, draining, awaited, shutdown_pc, at,
    stops, missed>>
tabVars ==
  <<status, job_late, results, mounted, job, shown, error, pollRef, submission, polls,
    cancelling, latest, crossed>>

vars == <<focus, writerVars, feedbackVars, shadowVars, stopVars, tabVars>>

Writer == INSTANCE DataWriter WITH pc <- writer_pc
Feedback == INSTANCE FeedbackProducer WITH pc <- feedback_pc
Shadow == INSTANCE ShadowMode WITH pc <- shadow_pc
Stop == INSTANCE Shutdown WITH started <- services_started, pc <- shutdown_pc
Tab == INSTANCE BatchTab WITH late <- job_late

\* What the components assume of their constants; the process gets finitely many signals.
ASSUME Assumptions ==
  /\ Writer!WriterAssumption /\ Writer!NamesAreDifferent
  /\ Feedback!FeedbackAssumption /\ Feedback!NamesAreDifferent
  /\ Shadow!ShadowAssumption
  /\ IsFiniteSet(Signals) /\ Stop!NamesAreDifferent
  /\ Tab!BatchTabAssumption /\ Tab!NamesAreDifferent

\* Choices of the initial state are made only for the component that is followed.
Init ==
  /\ focus \in {"writer", "feedback", "shadow", "shutdown", "tab"}
  /\ Writer!Init /\ Feedback!Init /\ Shadow!Init /\ Stop!Init
  /\ Tab!Init
  /\ focus # "writer" => initialized
  /\ focus # "feedback" => producer = None
  /\ focus # "shadow" => enabled

Next ==
  /\ UNCHANGED focus
  /\ IF focus = "writer" THEN Writer!Next ELSE UNCHANGED writerVars
  /\ IF focus = "feedback" THEN Feedback!Next ELSE UNCHANGED feedbackVars
  /\ IF focus = "shadow" THEN Shadow!Next ELSE UNCHANGED shadowVars
  /\ IF focus = "shutdown" THEN Stop!Next ELSE UNCHANGED stopVars
  /\ IF focus = "tab" THEN Tab!Next ELSE UNCHANGED tabVars

\* The fairness of the components that promise something in the end.
Fairness ==
  /\ WF_writerVars(focus = "writer" /\ Writer!Start)
  /\ \A t \in Writer!Tasks :
       /\ WF_writerVars(focus = "writer" /\ Writer!Flush(t))
       /\ WF_writerVars(focus = "writer" /\ (Writer!Uploaded(t) \/ Writer!UploadFailed(t)))
  /\ \A s \in Signals : WF_stopVars(focus = "shutdown" /\ Stop!Begin(s))
  /\ \A t \in Stop!Tasks : WF_stopVars(focus = "shutdown" /\ Stop!StopNext(t))
  /\ WF_tabVars(focus = "tab" /\ Tab!Work)
  /\ WF_tabVars(focus = "tab" /\ Tab!ServeSubmission)
  /\ WF_tabVars(focus = "tab" /\ (Tab!Submitted \/ Tab!SubmitFailed))
  /\ WF_tabVars(focus = "tab" /\ Tab!Fire)
  /\ \A s \in Slots :
       /\ WF_tabVars(focus = "tab" /\ Tab!Serve(s))
       /\ WF_tabVars(focus = "tab" /\ Tab!Deliver(s))

Spec == Init /\ [][Next]_vars /\ Fairness

-----------------------------------------------------------------------------
(* Properties, stated and explained in the modules of the components *)

TypeOK ==
  /\ Writer!TypeOK /\ Feedback!TypeOK /\ Shadow!TypeOK /\ Stop!TypeOK
  /\ Tab!TypeOK

\* data_writer.py: accepted records are neither lost nor held twice.
RecordsAreSafe == Writer!RecordsAreSafe

\* data_writer.py: unless stop() is called every accepted record gets to storage.
EventuallyStored == Writer!EventuallyStored

\* feedback_service.py, shadow_mode.py: what is done beside a request is honest and
\* tracked: True means delivered, and stop() sees and ends every shadow prediction.
SideWorkIsTracked == Feedback!FeedbackIsHonest /\ Shadow!ShadowsAreTracked

\* events.py: services are stopped once, in order, before the lifespan ends, but for
\* those a drain begun during the start-up had passed.
ServicesDrain == Stop!ServicesDrain

\* events.py: a signal drains every service that is there when the drain comes to it.
SignalDrains == Stop!SignalDrains

\* BatchTab.jsx: what is displayed was so, and the tab asks until the job has ended.
TabTellsTheOutcome == Tab!TabTellsTheOutcome

\* BatchTab.jsx: who stays is told how the job ended.
OutcomeIsShown == Tab!OutcomeIsShown

==============================================================================
