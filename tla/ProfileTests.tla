---------------------------- MODULE ProfileTests ----------------------------
(* The tests of profiles: the manager with its thread pool                   *)
(* (testing/TestManager.cpp), the TCP test and the test of the real delay    *)
(* with its worker process (testing/TcpPingTester.cpp,                       *)
(* testing/RealDelayTesterWorker.cpp, testing/worker/main.cpp), and the      *)
(* window that starts and cancels batches and takes the results              *)
(* (ui/MainWindow.cpp).  The jobs run beside the GUI thread and report to it *)
(* with queued calls, which arrive in the order in which they were made.     *)
EXTENDS Integers, FiniteSets, SequencesExt

CONSTANTS Profiles,
          Disabled,       \* the profiles that are not enabled
          MaxConcurrent,  \* maxConcurrentTests
          Ports,          \* local ports that the system gives out
          MaxBatches      \* bound: batches that are started

ASSUME ProfilesAssumption == IsFiniteSet(Profiles) /\ Disabled \subseteq Profiles
ASSUME PoolAssumption == MaxConcurrent \in Nat \ {0} /\ MaxBatches \in Nat

VARIABLES pool,       \* the jobs that wait for a thread, in order
          running,    \* the jobs that have one -> how far they are
          workers,    \* the jobs with a worker process -> how far that is
          calls,      \* the queued calls to the GUI thread
          cancelFlag, \* m_cancelRequested
          busy,       \* m_busy
          active,     \* m_activeJobs
          finished,   \* m_finishedProfiles
          total,      \* m_totalProfiles
          testingUi,  \* what setTestingUiBusy was last told
          results,    \* lastTestStatus of the profiles
          batch,      \* history: the number of the last batch
          cancelled,  \* history: the batches that were to be cancelled
          overlapped  \* history: the batch was started over an unfinished one

counters == <<busy, active, finished, total>>
history == <<batch, cancelled, overlapped>>
testsVars == <<pool, running, workers, calls, cancelFlag, counters, testingUi, results, history>>

\* "tested" stands for every result of a test that was not cancelled.
TestStatuses == {"never", "testing", "tested", "canceled"}
Jobs == (1 .. MaxBatches) \X Profiles
Calls == [to : {"show", "finish"}, job : Jobs, status : TestStatuses]

\* The parts of a test that begin with a look at the flag.  "both": the TCP test, and the
\* test of the real delay after it.
Parts == {"both", "tcp", "delay"}

\* A part whose look at the flag is past.
Begun(part) ==
  CASE part = "both" -> "bothRuns" [] part = "tcp" -> "tcpRuns" [] OTHER -> "delayRuns"

Stages == Parts \cup {"bothRuns", "tcpRuns", "delayRuns", "wait", "end"}
\* "via": the job whose worker the probe went through, the probing one before that.
WorkerStages == [port : Ports, step : {"started", "serving", "answered"}, listens : BOOLEAN,
                 available : BOOLEAN, via : Jobs]

TestsTypeOK ==
  /\ pool \in Seq(Jobs)
  /\ DOMAIN running \subseteq Jobs
  /\ \A job \in DOMAIN running : running[job] \in Stages
  /\ Cardinality(DOMAIN running) <= MaxConcurrent
  /\ DOMAIN workers \subseteq Jobs
  /\ \A job \in DOMAIN workers : workers[job] \in WorkerStages
  /\ calls \in Seq(Calls)
  /\ cancelFlag \in BOOLEAN
  /\ busy \in BOOLEAN
  /\ active \in Int
  /\ finished \in Nat
  /\ total \in Nat
  /\ testingUi \in BOOLEAN
  /\ results \in [Profiles -> TestStatuses]
  /\ batch \in 0 .. MaxBatches
  /\ cancelled \subseteq 1 .. MaxBatches
  /\ overlapped \in BOOLEAN

TestsInit ==
  /\ pool = <<>>
  /\ running = <<>>
  /\ workers = <<>>
  /\ calls = <<>>
  /\ cancelFlag = FALSE
  /\ busy = FALSE
  /\ active = 0
  /\ finished = 0
  /\ total = 0
  /\ testingUi = FALSE
  /\ results = [p \in Profiles |-> "never"]
  /\ batch = 0
  /\ cancelled = {}
  /\ overlapped = FALSE

\* Jobs whose end the manager has not heard of.
Unreported ==
  ToSet(pool) \cup DOMAIN running
    \cup {calls[i].job : i \in {k \in DOMAIN calls : calls[k].to = "finish"}}

-----------------------------------------------------------------------------
(* The jobs                                                                  *)

Show(job, status) == [to |-> "show", job |-> job, status |-> status]
Finish(job, status) == [to |-> "finish", job |-> job, status |-> status]

\* Mutant of Reports: no count for a job that was cancelled.
ReportsUncounted(job, status) ==
  IF status = "canceled" THEN <<Show(job, status)>> ELSE <<Show(job, status), Finish(job, status)>>

\* How a job ends: the profile with its result, then onJobFinished.
Reports(job, status) == <<Show(job, status), Finish(job, status)>>

\* What a thread leaves alone.
Elsewhere == UNCHANGED <<cancelFlag, counters, testingUi, results, history>>

\* A thread, or a worker process, for a job.
Given(map, job, how) == [j \in DOMAIN map \cup {job} |-> IF j = job THEN how ELSE map[j]]

\* A thread takes the next job and reads the flag.  The mode of the batch and the setting to
\* skip the TCP test decide what follows.
JobBegins ==
  /\ pool # <<>>
  /\ Cardinality(DOMAIN running) < MaxConcurrent
  /\ pool' = Tail(pool)
  /\ IF cancelFlag
     THEN /\ calls' = calls \o Reports(Head(pool), "canceled")
          /\ UNCHANGED running
     ELSE /\ calls' = Append(calls, Show(Head(pool), "testing"))
          /\ \E part \in Parts : running' = Given(running, Head(pool), part)
  /\ UNCHANGED workers /\ Elsewhere

Ended(job, status) ==
  /\ running' = Restrict(running, DOMAIN running \ {job})
  /\ calls' = calls \o Reports(job, status)

At(job, stage) == job \in DOMAIN running /\ running[job] = stage
Goes(job, stage) == running' = [running EXCEPT ![job] = stage]

\* Mutant of PartBegins: the test of the real delay does not look at the flag.
PartBeginsBlindly(job) ==
  /\ running[job] \in Parts
  /\ cancelFlag => running[job] = "delay"
  /\ Goes(job, Begun(running[job]))
  /\ UNCHANGED <<pool, workers, calls>> /\ Elsewhere

\* Every part of a test begins with a look at the flag.
PartBegins(job) ==
  /\ running[job] \in Parts
  /\ ~cancelFlag
  /\ Goes(job, Begun(running[job]))
  /\ UNCHANGED <<pool, workers, calls>> /\ Elsewhere

Canceled(job) ==
  /\ running[job] \in Parts
  /\ cancelFlag
  /\ Ended(job, "canceled")
  /\ UNCHANGED <<pool, workers>> /\ Elsewhere

\* A refused address, a refused or a late connection, or a success: the real delay is tested
\* all the same.
TcpEnds(job) ==
  /\ At(job, "bothRuns") \/ At(job, "tcpRuns")
  /\ Goes(job, IF At(job, "bothRuns") THEN "delay" ELSE "end")
  /\ UNCHANGED <<pool, workers, calls>> /\ Elsewhere

\* A profile that Xray does not support, no port, no configuration, no worker.
DelayRefused(job) ==
  /\ At(job, "delayRuns")
  /\ Goes(job, "end")
  /\ UNCHANGED <<pool, workers, calls>> /\ Elsewhere

Listening(port) == {job \in DOMAIN workers : workers[job].port = port /\ workers[job].listens}

\* What runProcess hands the new worker; nothing listens yet.
Started(port, job) ==
  [port |-> port, step |-> "started", listens |-> FALSE, available |-> FALSE, via |-> job]

\* The port is one that nobody listens on, and it is free again until the worker does.  A
\* cancel since the look at the flag does not stop the worker from being started.
DelayStarts(job) ==
  /\ At(job, "delayRuns")
  /\ \E port \in Ports :
       /\ Listening(port) = {}
       /\ workers' = Given(workers, job, Started(port, job))
  /\ Goes(job, "wait")
  /\ UNCHANGED <<pool, calls>> /\ Elsewhere

WorkerGone(job) == workers' = Restrict(workers, DOMAIN workers \ {job})

\* The answer of the worker, or none that can be read.
DelayAnswered(job) ==
  /\ At(job, "wait")
  /\ workers[job].step = "answered"
  /\ WorkerGone(job)
  /\ Goes(job, "end")
  /\ UNCHANGED <<pool, calls>> /\ Elsewhere

\* The worker is killed because of the flag, or because it took too long.  A cancelled
\* delay counts as a failed one unless the flag is still up at the end of the job.
WorkerKilled(job) ==
  /\ At(job, "wait")
  /\ WorkerGone(job)
  /\ Goes(job, "end")
  /\ UNCHANGED <<pool, calls>> /\ Elsewhere

\* The flag, read last of all, decides over the result of the test.
JobEnds(job) ==
  /\ At(job, "end")
  /\ Ended(job, IF cancelFlag THEN "canceled" ELSE "tested")
  /\ UNCHANGED <<pool, workers>> /\ Elsewhere

JobSteps(job) ==
  \/ PartBegins(job)
  \/ Canceled(job)
  \/ TcpEnds(job)
  \/ DelayRefused(job)
  \/ DelayStarts(job)
  \/ DelayAnswered(job)
  \/ WorkerKilled(job)
  \/ JobEnds(job)

-----------------------------------------------------------------------------
(* The worker processes                                                      *)

WorkerIs(job, step) == job \in DOMAIN workers /\ workers[job].step = step

WorkerStep(job, worker) ==
  /\ workers' = [workers EXCEPT ![job] = worker]
  /\ UNCHANGED <<pool, running, calls>> /\ Elsewhere

\* Mutant of WorkerServes: it is enough that somebody listens on the port.
WorkerServesAnyhow(job) ==
  /\ WorkerIs(job, "started")
  /\ WorkerStep(job, [workers[job] EXCEPT !.step = "serving",
                                          !.listens = Listening(workers[job].port) = {}])

\* The worker's own Xray listens on the port.
WorkerServes(job) ==
  /\ WorkerIs(job, "started")
  /\ Listening(workers[job].port) = {}
  /\ WorkerStep(job, [workers[job] EXCEPT !.step = "serving", !.listens = TRUE])

\* No library, a configuration that Xray refuses, a port that is taken, or not ready in time.
WorkerFails(job) ==
  /\ WorkerIs(job, "started")
  /\ WorkerStep(job, [workers[job] EXCEPT !.step = "answered"])

\* probeURL: one request through whoever listens on the port.  A refused connection, no
\* answer in time and a status that is neither 2xx nor 3xx all count as unavailable.
Probed(worker, available, other) ==
  [worker EXCEPT !.step = "answered", !.listens = FALSE, !.available = available, !.via = other]

\* The core is stopped before the answer is written.
WorkerProbes(job) ==
  /\ WorkerIs(job, "serving")
  /\ \E available \in BOOLEAN, other \in Listening(workers[job].port) :
       WorkerStep(job, Probed(workers[job], available, other))

WorkerSteps(job) == WorkerServes(job) \/ WorkerFails(job) \/ WorkerProbes(job)

-----------------------------------------------------------------------------
(* The GUI thread                                                            *)

\* onTestStarted and onProfileUpdated.  A profile deleted meanwhile is skipped; that is
\* left out.
ShowCall ==
  /\ calls # <<>>
  /\ Head(calls).to = "show"
  /\ calls' = Tail(calls)
  /\ results' = [results EXCEPT ![Head(calls).job[2]] = Head(calls).status]
  /\ UNCHANGED <<pool, running, workers, cancelFlag, counters, testingUi, history>>

\* Mutant of LastJob: a job that is still to report does not count.
NextToLastJob == active' <= 1

\* checkAllFinished.
LastJob == active' <= 0

\* onJobFinished on the GUI thread; allFinished gives the actions of the window back.
FinishCall ==
  /\ calls # <<>>
  /\ Head(calls).to = "finish"
  /\ calls' = Tail(calls)
  /\ active' = active - 1
  /\ finished' = finished + 1
  /\ busy' = (busy /\ ~LastJob)
  /\ testingUi' = (testingUi /\ ~(busy /\ LastJob))
  /\ UNCHANGED <<pool, running, workers, cancelFlag, total, results, history>>

\* cancel on a batch that runs.
ToBeCancelled == cancelled \cup (IF busy THEN {batch} ELSE {})

\* startTests with profiles of which none is enabled: back at once, the actions of the
\* window taken away, a running batch cancelled.
StartsNothing(chosen) ==
  /\ chosen \subseteq Disabled
  /\ cancelFlag' = (cancelFlag \/ busy)
  /\ cancelled' = ToBeCancelled
  /\ UNCHANGED <<pool, counters, batch, overlapped>>

\* A batch that runs is cancelled, and the flag cleared again for the new one.  A job that
\* reads the flag in between is one that read it before a start that follows a cancel.
StartsBatch(chosen) ==
  LET queue == {<<batch + 1, p>> : p \in chosen \ Disabled} IN
  /\ queue # {}
  /\ batch < MaxBatches
  /\ cancelled' = ToBeCancelled
  /\ cancelFlag' = FALSE
  /\ busy' = TRUE
  /\ total' = Cardinality(queue)
  /\ finished' = 0
  /\ active' = Cardinality(queue)
  /\ pool' = pool \o SetToSeq(queue)
  /\ batch' = batch + 1
  /\ overlapped' = (Unreported # {})

\* startTestsForIds.  The menu and the tray offer it only while no test runs; the button
\* of the status strip and the context menu of a profile offer it at any time.
StartTests ==
  /\ \E chosen \in SUBSET Profiles \ {{}} : StartsNothing(chosen) \/ StartsBatch(chosen)
  /\ testingUi' = TRUE
  /\ UNCHANGED <<running, workers, calls, results>>

\* From the menu or by a quit, which the user may still call off.
CancelTests ==
  /\ busy
  /\ cancelFlag' = TRUE
  /\ cancelled' = ToBeCancelled
  /\ UNCHANGED <<pool, running, workers, calls, counters, testingUi, results, batch, overlapped>>

TestsNext ==
  \/ JobBegins
  \/ \E job \in DOMAIN running : JobSteps(job)
  \/ \E job \in DOMAIN workers : WorkerSteps(job)
  \/ ShowCall
  \/ FinishCall
  \/ StartTests
  \/ CancelTests

\* The pool runs its jobs, every part of a test ends, with the worker or without it (each
\* wait has a time limit), and the event loop delivers the queued calls.
Fairness ==
  /\ WF_testsVars(JobBegins)
  /\ WF_testsVars(\E job \in DOMAIN running : JobSteps(job))
  /\ WF_testsVars(ShowCall)
  /\ WF_testsVars(FinishCall)

TestsSpec == TestsInit /\ [][TestsNext]_testsVars /\ Fairness

-----------------------------------------------------------------------------
(* Properties                                                                *)

\* The three counters, the busy flag and the actions of the window agree with the jobs
\* there are: allFinished comes when the last job has reported and not before, unless
\* the batch was started over another; and no profile is left at "testing" once all its
\* jobs have reported, however batches overlap (startTests, onJobFinished,
\* checkAllFinished, the order of the queued calls of TestRunnable).
CountersAgree ==
  /\ ~overlapped =>
       /\ active = Cardinality(Unreported)
       /\ busy => finished + active = total
       /\ busy <=> Unreported # {}
       /\ busy => testingUi
  /\ \A p \in Profiles :
       results[p] = "testing" => \E job \in Unreported : job[2] = p

\* Two tests at once may be given the same port, yet no delay is measured through the server
\* of another profile; and no worker outlives the wait of its job, whatever ends it
\* (PortAllocator::allocateFreeLocalPort, worker/main.cpp, RealDelayTester::run).
MeasuredOwn ==
  /\ \A job \in DOMAIN workers : At(job, "wait")
  /\ \A job \in DOMAIN workers : workers[job].available => workers[job].via = job

\* After a cancel no job of the batch begins, no part of a test begins, a worker is started
\* only for a job whose look at the flag came before the cancel, and no result counts as a
\* test, unless a new batch was started over it (the flag, which is cleared only by a start;
\* TestRunnable::run, startTests, cancel).
CancelStops ==
  [][~overlapped => \A job \in Jobs : job[1] \in cancelled =>
       /\ job \in ToSet(pool) => job \notin DOMAIN running'
       /\ \A part \in Parts : At(job, part) => ~At(job, Begun(part))'
       /\ job \in DOMAIN workers' \ DOMAIN workers => At(job, "delayRuns")
       /\ Show(job, "tested") \in ToSet(calls') => Show(job, "tested") \in ToSet(calls)
    ]_testsVars

\* Every batch comes to its end or is started over, and the manager with it
\* (checkAllFinished, also for cancelled jobs and for counts spoilt by an overlap).
BatchEnds ==
  \A b \in 1 .. MaxBatches : (batch = b /\ busy) ~> (~busy \/ batch > b)

=============================================================================
