---------------------------- MODULE ProfileProofs ----------------------------
(* Proofs about ProfileTests, for every set of profiles and ports, any number *)
(* of threads and of batches; and about ProfileList, for any subscriptions,   *)
(* servers and files, and handlers nested as deep as one likes.               *)
EXTENDS ProfileTests, ProfileList, ListOpsProofs

\* Jobs whose end is on its way to the manager.
PostedIn(line) == {line[i].job : i \in {k \in DOMAIN line : line[k].to = "finish"}}
Posted == PostedIn(calls)
EndedOnce(line) ==
  \A i, k \in DOMAIN line :
    line[i].to = "finish" /\ line[k].to = "finish" /\ line[i].job = line[k].job => i = k

-----------------------------------------------------------------------------
(* The invariants                                                            *)

\* Every job is in one place: in the pool once, with a thread, or with its end posted once.
JobsInv ==
  /\ \A i, k \in DOMAIN pool : pool[i] = pool[k] => i = k
  /\ ToSet(pool) \cap DOMAIN running = {}
  /\ Posted \cap (ToSet(pool) \cup DOMAIN running) = {}
  /\ EndedOnce(calls)
  /\ \A job \in Unreported : job[1] <= batch

\* Without an overlap only the last batch has jobs, and the flag tells whether it was cancelled.
FlagInv ==
  /\ cancelled \subseteq 1 .. batch
  /\ busy => batch > 0
  /\ ~overlapped =>
       /\ \A job \in Unreported : job[1] = batch
       /\ batch \in cancelled => cancelFlag

\* The result of a job is shown right before its end is counted.
ShownBefore(i) ==
  IF i = 1 THEN results[calls[1].job[2]] # "testing"
  ELSE calls[i - 1] \in {Show(calls[i].job, "tested"), Show(calls[i].job, "canceled")}

\* Who shows "testing" has a thread, or posts its end later.
EndFollows(i) ==
  \/ calls[i].job \in DOMAIN running
  \/ \E k \in DOMAIN calls : k > i /\ calls[k].to = "finish" /\ calls[k].job = calls[i].job

ShownInv ==
  /\ \A i \in DOMAIN calls : calls[i].to = "finish" => ShownBefore(i)
  /\ \A i \in DOMAIN calls : calls[i].to = "show" /\ calls[i].status = "testing" => EndFollows(i)
  /\ \A p \in Profiles :
       results[p] = "testing" => \E job \in DOMAIN running \cup Posted : job[2] = p

\* A worker that serves is the only one that listens on its port.
WorkerInv ==
  /\ MeasuredOwn
  /\ \A job \in DOMAIN workers : workers[job].listens <=> workers[job].step = "serving"
  /\ \A port \in Ports : \A job, other \in Listening(port) : job = other

\* The first half of CountersAgree.
CountInv ==
  ~overlapped =>
    /\ active = Cardinality(Unreported)
    /\ busy => finished + active = total
    /\ busy <=> Unreported # {}
    /\ busy => testingUi

-----------------------------------------------------------------------------
(* Pool and line                                                             *)

LEMMA Finals == {"tested", "canceled"} \subseteq TestStatuses /\ "testing" \in TestStatuses
BY DEF TestStatuses

\* What posting the result and the end of a job does to the line of calls.
LEMMA Reported ==
  ASSUME NEW line \in Seq(Calls), NEW job \in Jobs, NEW status \in TestStatuses
  PROVE  /\ line \o Reports(job, status) \in Seq(Calls)
         /\ Len(line \o Reports(job, status)) = Len(line) + 2
         /\ \A i \in 1 .. Len(line) : (line \o Reports(job, status))[i] = line[i]
         /\ (line \o Reports(job, status))[Len(line) + 1] = Show(job, status)
         /\ (line \o Reports(job, status))[Len(line) + 2] = Finish(job, status)
<1>1. Show(job, status) \in Calls /\ Finish(job, status) \in Calls
  BY DEF Show, Finish, Calls
<1>2. Reports(job, status) \in Seq(Calls) /\ Len(Reports(job, status)) = 2
  BY <1>1 DEF Reports
<1>3. Reports(job, status)[1] = Show(job, status) /\ Reports(job, status)[2] = Finish(job, status)
  BY DEF Reports
<1> DEFINE more == Reports(job, status)
           longer == line \o more
<1>0. more \in Seq(Calls)
  BY <1>2
<1> HIDE DEF more
<1>4. /\ longer \in Seq(Calls) /\ Len(longer) = Len(line) + Len(more)
      /\ \A i \in 1 .. Len(longer) :
           longer[i] = IF i <= Len(line) THEN line[i] ELSE more[i - Len(line)]
  BY <1>0, ConcatProperties
<1>5. Len(line) \in Nat
  BY LenProperties
<1> HIDE DEF longer
<1>6. Len(longer) = Len(line) + 2
  BY <1>2, <1>4 DEF more
<1>7. \A i \in 1 .. Len(line) : longer[i] = line[i]
  BY <1>4, <1>5, <1>6
<1>8. longer[Len(line) + 1] = more[1] /\ longer[Len(line) + 2] = more[2]
  <2>1. Len(line) + 1 - Len(line) = 1 /\ Len(line) + 2 - Len(line) = 2
    BY <1>5
  <2>2. /\ Len(line) + 1 \in 1 .. Len(longer) /\ Len(line) + 2 \in 1 .. Len(longer)
        /\ ~(Len(line) + 1 <= Len(line)) /\ ~(Len(line) + 2 <= Len(line))
    BY <1>5, <1>6
  <2> QED
    BY <1>4, <2>1, <2>2
<1> QED
  BY <1>3, <1>4, <1>6, <1>7, <1>8 DEF more, longer

LEMMA ReportedIsPosted ==
  ASSUME NEW line \in Seq(Calls), NEW job \in Jobs, NEW status \in TestStatuses
  PROVE  /\ PostedIn(line \o Reports(job, status)) = PostedIn(line) \cup {job}
         /\ EndedOnce(line) /\ job \notin PostedIn(line) => EndedOnce(line \o Reports(job, status))
<1> DEFINE longer == line \o Reports(job, status)
<1>1. DOMAIN line = 1 .. Len(line) /\ DOMAIN longer = 1 .. Len(line) + 2 /\ Len(line) \in Nat
  BY Reported, LenProperties
<1>2. /\ longer[Len(line) + 1].to = "show"
      /\ longer[Len(line) + 2].to = "finish" /\ longer[Len(line) + 2].job = job
  <2>1. longer[Len(line) + 1] = Show(job, status) /\ longer[Len(line) + 2] = Finish(job, status)
    BY Reported
  <2> QED
    BY <2>1 DEF Show, Finish
<1>3. \A i \in DOMAIN line : longer[i] = line[i]
  BY Reported, <1>1
<1>4. \A i \in DOMAIN longer : i \in DOMAIN line \/ i = Len(line) + 1 \/ i = Len(line) + 2
  BY <1>1
<1>5. DOMAIN line \subseteq DOMAIN longer /\ Len(line) + 2 \in DOMAIN longer
  BY <1>1
<1>6. Len(line) + 1 \notin DOMAIN line /\ Len(line) + 2 \notin DOMAIN line
  BY <1>1
<1> HIDE DEF longer
<1>7. PostedIn(longer) = PostedIn(line) \cup {job}
  BY <1>2, <1>3, <1>4, <1>5 DEF PostedIn
<1>8. ASSUME EndedOnce(line), job \notin PostedIn(line)
      PROVE  EndedOnce(longer)
  <2>1. \A i \in DOMAIN line : line[i].to = "finish" => line[i].job # job
    BY <1>8 DEF PostedIn
  <2>2. \A i \in DOMAIN longer : longer[i].to = "finish" =>
          (i \in DOMAIN line /\ longer[i] = line[i]) \/ i = Len(line) + 2
    BY <1>2, <1>3, <1>4
  <2> QED
    BY <1>2, <1>8, <2>1, <2>2 DEF EndedOnce
<1> QED
  BY <1>7, <1>8 DEF longer

\* A result alone does not count.
LEMMA ShownIsNotPosted ==
  ASSUME NEW line \in Seq(Calls), NEW job \in Jobs, NEW status \in TestStatuses
  PROVE  /\ Append(line, Show(job, status)) \in Seq(Calls)
         /\ PostedIn(Append(line, Show(job, status))) = PostedIn(line)
         /\ EndedOnce(line) => EndedOnce(Append(line, Show(job, status)))
<1> DEFINE longer == Append(line, Show(job, status))
<1>1. Show(job, status) \in Calls
  BY DEF Show, Calls
<1>2. /\ longer \in Seq(Calls)
      /\ DOMAIN line = 1 .. Len(line) /\ DOMAIN longer = 1 .. Len(line) + 1 /\ Len(line) \in Nat
      /\ \A i \in DOMAIN line : longer[i] = line[i]
      /\ longer[Len(line) + 1] = Show(job, status)
  BY <1>1, AppendProperties, LenProperties
<1>3. longer[Len(line) + 1].to = "show"
  BY <1>2 DEF Show
<1>4. \A i \in DOMAIN longer : i \in DOMAIN line \/ i = Len(line) + 1
  BY <1>2
<1>5. DOMAIN line \subseteq DOMAIN longer
  BY <1>2
<1> HIDE DEF longer
<1> QED
  BY <1>2, <1>3, <1>4, <1>5 DEF PostedIn, EndedOnce, longer

\* The rest of a sequence.
LEMMA Rest ==
  ASSUME NEW S, NEW s \in Seq(S), s # <<>>
  PROVE  /\ Tail(s) \in Seq(S) /\ Head(s) = s[1] /\ 1 \in DOMAIN s
         /\ Len(s) \in Nat \ {0} /\ DOMAIN s = 1 .. Len(s) /\ DOMAIN Tail(s) = 1 .. Len(s) - 1
         /\ \A i \in DOMAIN Tail(s) : i + 1 \in DOMAIN s /\ Tail(s)[i] = s[i + 1]
         /\ \A i \in DOMAIN s : i = 1 \/ (i - 1 \in DOMAIN Tail(s) /\ s[i] = Tail(s)[i - 1])
         /\ Head(s) \in S
<1>1. /\ Len(s) \in Nat /\ Len(s) # 0
      /\ Tail(s) \in Seq(S) /\ Len(Tail(s)) = Len(s) - 1
      /\ \A i \in 1 .. Len(Tail(s)) : Tail(s)[i] = s[i + 1]
      /\ Head(s) = s[1] /\ Head(s) \in S
  BY HeadTailProperties, EmptySeq, LenProperties
<1>2. DOMAIN s = 1 .. Len(s) /\ DOMAIN Tail(s) = 1 .. Len(s) - 1
  BY <1>1, LenProperties
<1>3. \A i \in DOMAIN Tail(s) : i + 1 \in DOMAIN s /\ Tail(s)[i] = s[i + 1]
  BY <1>1, <1>2
<1>4. \A i \in DOMAIN s : i = 1 \/ (i - 1 \in DOMAIN Tail(s) /\ s[i] = Tail(s)[i - 1])
  <2> SUFFICES ASSUME NEW i \in DOMAIN s, i # 1
               PROVE  i - 1 \in DOMAIN Tail(s) /\ s[i] = Tail(s)[i - 1]
    OBVIOUS
  <2>1. i - 1 \in DOMAIN Tail(s) /\ i - 1 + 1 = i
    BY <1>1, <1>2
  <2> QED
    BY <1>3, <2>1
<1>5. Len(s) \in Nat \ {0} /\ 1 \in DOMAIN s
  BY <1>1, <1>2
<1> QED
  BY <1>1, <1>2, <1>3, <1>4, <1>5

\* Taking the first of a sequence without repetitions takes it from the set.
LEMMA Taken ==
  ASSUME NEW S, NEW s \in Seq(S), s # <<>>, \A i, k \in DOMAIN s : s[i] = s[k] => i = k
  PROVE  /\ ToSet(Tail(s)) = ToSet(s) \ {Head(s)} /\ Head(s) \in ToSet(s)
         /\ \A i, k \in DOMAIN Tail(s) : Tail(s)[i] = Tail(s)[k] => i = k
<1>1. \A i \in DOMAIN Tail(s) : i + 1 \in DOMAIN s /\ Tail(s)[i] = s[i + 1] /\ i \in Int /\ i >= 1
  BY Rest
<1>2. \A i \in DOMAIN s : i = 1 \/ (i - 1 \in DOMAIN Tail(s) /\ s[i] = Tail(s)[i - 1])
  BY Rest
<1>3. Head(s) = s[1] /\ 1 \in DOMAIN s
  BY Rest
<1>4. \A i, k \in DOMAIN Tail(s) : Tail(s)[i] = Tail(s)[k] => i = k
  BY <1>1
<1>5. ToSet(Tail(s)) \subseteq ToSet(s) \ {Head(s)}
  BY <1>1, <1>3 DEF ToSet
<1>6. ToSet(s) \ {Head(s)} \subseteq ToSet(Tail(s))
  <2> SUFFICES ASSUME NEW i \in DOMAIN s, s[i] # s[1]
               PROVE  s[i] \in ToSet(Tail(s))
    BY <1>3 DEF ToSet
  <2>1. i - 1 \in DOMAIN Tail(s) /\ s[i] = Tail(s)[i - 1]
    BY <1>2
  <2> QED
    BY <2>1 DEF ToSet
<1> QED
  BY <1>3, <1>4, <1>5, <1>6 DEF ToSet

\* Delivering the first call takes the end from the line, if it is one.
LEMMA Delivered ==
  ASSUME NEW line \in Seq(Calls), line # <<>>, EndedOnce(line)
  PROVE  /\ EndedOnce(Tail(line))
         /\ Head(line).to = "show" => PostedIn(Tail(line)) = PostedIn(line)
         /\ Head(line).to = "finish" =>
              /\ PostedIn(Tail(line)) = PostedIn(line) \ {Head(line).job}
              /\ Head(line).job \in PostedIn(line)
<1>1. \A i \in DOMAIN Tail(line) :
        i + 1 \in DOMAIN line /\ Tail(line)[i] = line[i + 1] /\ i \in Int /\ i >= 1
  BY Rest
<1>2. \A i \in DOMAIN line :
        i = 1 \/ (i - 1 \in DOMAIN Tail(line) /\ line[i] = Tail(line)[i - 1])
  BY Rest
<1>3. Head(line) = line[1] /\ 1 \in DOMAIN line
  BY Rest
<1> DEFINE rest == Tail(line)
<1> HIDE DEF rest
<1>4. EndedOnce(rest)
  BY <1>1 DEF EndedOnce, rest
<1>5. PostedIn(rest) \subseteq PostedIn(line)
  BY <1>1 DEF PostedIn, rest
<1>6. ASSUME NEW i \in DOMAIN line, line[i].to = "finish", i # 1
      PROVE  line[i].job \in PostedIn(rest)
  <2>1. i - 1 \in DOMAIN rest /\ line[i] = rest[i - 1]
    BY <1>2, <1>6 DEF rest
  <2> QED
    BY <1>6, <2>1 DEF PostedIn
<1>7. CASE line[1].to = "show"
  <2>1. PostedIn(line) \subseteq PostedIn(rest)
    BY <1>6, <1>7 DEF PostedIn
  <2> QED
    BY <1>3, <1>4, <1>5, <1>7, <2>1 DEF rest
<1>8. CASE line[1].to = "finish"
  <2>1. PostedIn(line) \ {line[1].job} \subseteq PostedIn(rest)
    BY <1>6 DEF PostedIn
  <2>2. line[1].job \in PostedIn(line)
    BY <1>3, <1>8 DEF PostedIn
  <2>3. line[1].job \notin PostedIn(rest)
    <3> SUFFICES ASSUME NEW i \in DOMAIN rest, rest[i].to = "finish", rest[i].job = line[1].job
                 PROVE  FALSE
      BY DEF PostedIn
    <3>1. i + 1 \in DOMAIN line /\ rest[i] = line[i + 1] /\ i + 1 # 1
      BY <1>1 DEF rest
    <3> QED
      BY <1>3, <1>8, <3>1 DEF EndedOnce
  <2> QED
    BY <1>3, <1>4, <1>5, <1>8, <2>1, <2>2, <2>3 DEF rest
<1> QED
  BY <1>3, <1>4, <1>7, <1>8 DEF rest

LEMMA JobsFinite == IsFiniteSet(Jobs)
<1>1. IsFiniteSet(1 .. MaxBatches)
  BY PoolAssumption, FS_Interval
<1> QED
  BY <1>1, ProfilesAssumption, FS_Product DEF Jobs

\* The order in which the jobs of a batch are queued: each of them once.
LEMMA Queued ==
  ASSUME NEW S, IsFiniteSet(S)
  PROVE  /\ SetToSeq(S) \in Seq(S)
         /\ ToSet(SetToSeq(S)) = S
         /\ \A i, k \in DOMAIN SetToSeq(S) : SetToSeq(S)[i] = SetToSeq(S)[k] => i = k
<1> DEFINE n == Cardinality(S)
           q == SetToSeq(S)
<1>1. n \in Nat /\ ExistsBijection(1 .. n, S)
  BY FS_CardinalityType
<1>2. \E f \in [1 .. n -> S] : IsInjective(f)
  BY <1>1 DEF ExistsBijection, Bijection, Injection
<1>3. q \in [1 .. n -> S] /\ IsInjective(q)
  BY <1>2 DEF SetToSeq
<1>4. IsFiniteSet(1 .. n) /\ Cardinality(1 .. n) = n
  BY <1>1, FS_Interval
<1>5. q \in Surjection(1 .. n, S)
  <2>1. q \in Injection(1 .. n, S)
    BY <1>3 DEF Injection
  <2> QED
    BY <1>4, <2>1, FS_Injection
<1>6. q \in Seq(S)
  BY <1>1, <1>3, SeqDef
<1>7. \A x \in S : \E i \in 1 .. n : q[i] = x
  BY <1>5 DEF Surjection
<1>8. DOMAIN q = 1 .. n
  BY <1>3
<1> HIDE DEF n, q
<1> QED
  BY <1>3, <1>6, <1>7, <1>8 DEF ToSet, IsInjective, q

-----------------------------------------------------------------------------
(* Types                                                                     *)

LEMMA NewWorker ==
  ASSUME NEW job \in Jobs, NEW port \in Ports
  PROVE  Started(port, job) \in WorkerStages
BY DEF Started, WorkerStages

\* A job that has a thread goes on, or is over and has posted its result and its end.
LEMMA JobStepKinds ==
  ASSUME TestsTypeOK, NEW job \in DOMAIN running, JobSteps(job)
  PROVE  /\ pool' = pool
         /\ Elsewhere
         /\ \/ DOMAIN running' = DOMAIN running /\ calls' = calls
            \/ \E status \in {"tested", "canceled"} : Ended(job, status)
BY DEF JobSteps, PartBegins, Canceled, TcpEnds, DelayRefused, DelayStarts, DelayAnswered,
       WorkerKilled, JobEnds, Goes

LEMMA EndedDomain ==
  ASSUME NEW job, NEW status, Ended(job, status)
  PROVE  /\ DOMAIN running' = DOMAIN running \ {job}
         /\ \A other \in DOMAIN running' : running'[other] = running[other]
BY DEF Ended, Restrict

LEMMA GoneDomain ==
  ASSUME NEW job, WorkerGone(job)
  PROVE  /\ DOMAIN workers' = DOMAIN workers \ {job}
         /\ \A other \in DOMAIN workers' : workers'[other] = workers[other]
BY DEF WorkerGone, Restrict

LEMMA StartedDomain ==
  ASSUME NEW job, DelayStarts(job)
  PROVE  \E port \in Ports :
           /\ Listening(port) = {}
           /\ DOMAIN workers' = DOMAIN workers \cup {job}
           /\ workers'[job] = Started(port, job)
           /\ \A other \in DOMAIN workers \ {job} : workers'[other] = workers[other]
<1>1. PICK port \in Ports :
        /\ Listening(port) = {}
        /\ workers' = Given(workers, job, Started(port, job))
  BY DEF DelayStarts
<1> DEFINE given == Given(workers, job, Started(port, job))
<1>2. /\ DOMAIN given = DOMAIN workers \cup {job}
      /\ given[job] = Started(port, job)
      /\ \A other \in DOMAIN workers \ {job} : given[other] = workers[other]
  BY DEF Given
<1> QED
  BY <1>1, <1>2

\* What JobBegins does, with the flag up and down.
LEMMA Begins ==
  ASSUME TestsTypeOK, JobBegins
  PROVE  /\ pool # <<>> /\ Head(pool) \in Jobs /\ pool' = Tail(pool) /\ pool' \in Seq(Jobs)
         /\ Elsewhere /\ workers' = workers
         /\ \/ /\ cancelFlag
               /\ calls' = calls \o Reports(Head(pool), "canceled") /\ running' = running
            \/ /\ ~cancelFlag
               /\ calls' = Append(calls, Show(Head(pool), "testing"))
               /\ DOMAIN running' = DOMAIN running \cup {Head(pool)}
               /\ running'[Head(pool)] \in Parts
               /\ \A other \in DOMAIN running \ {Head(pool)} : running'[other] = running[other]
<1>1. /\ pool # <<>> /\ pool' = Tail(pool) /\ workers' = workers /\ Elsewhere
  BY DEF JobBegins
<1>2. Head(pool) \in Jobs /\ pool' \in Seq(Jobs)
  BY <1>1, Rest DEF TestsTypeOK
<1>3. CASE cancelFlag
  BY <1>1, <1>2, <1>3 DEF JobBegins
<1>4. CASE ~cancelFlag
  <2>1. PICK stage \in Parts : running' = Given(running, Head(pool), stage)
    BY <1>4 DEF JobBegins
  <2>2. calls' = Append(calls, Show(Head(pool), "testing"))
    BY <1>4 DEF JobBegins
  <2> DEFINE given == Given(running, Head(pool), stage)
  <2>3. /\ DOMAIN given = DOMAIN running \cup {Head(pool)}
        /\ given[Head(pool)] = stage
        /\ \A other \in DOMAIN running \ {Head(pool)} : given[other] = running[other]
    BY DEF Given
  <2>4. running' = given
    BY <2>1
  <2> HIDE DEF given
  <2> QED
    BY <1>1, <1>2, <1>4, <2>1, <2>2, <2>3, <2>4
<1> QED
  BY <1>3, <1>4

\* What each kind of step keeps of the types.
LEMMA JobTypes ==
  ASSUME TestsTypeOK, NEW job \in DOMAIN running, JobSteps(job)
  PROVE  TestsTypeOK'
<1>1. job \in Jobs
      /\ {"delay", "wait", "end"} \subseteq Stages
      /\ \A part \in Parts : Begun(part) \in Stages
  BY DEF TestsTypeOK, Stages, Parts, Begun
<1>2. pool' \in Seq(Jobs) /\ UNCHANGED <<cancelFlag, counters, testingUi, results, history>>
  BY JobStepKinds DEF Elsewhere, TestsTypeOK
<1>3. calls' \in Seq(Calls)
  <2>1. CASE calls' = calls
    BY <2>1 DEF TestsTypeOK
  <2>2. ASSUME NEW status \in {"tested", "canceled"}, Ended(job, status)
        PROVE  calls' \in Seq(Calls)
    BY <1>1, <2>2, Reported, Finals DEF Ended, TestsTypeOK
  <2> QED
    BY <2>1, <2>2, JobStepKinds
<1>4. DOMAIN running' \subseteq DOMAIN running
  BY JobStepKinds, EndedDomain
<1>5. \A other \in DOMAIN running' : running'[other] \in Stages
  <2>1. ASSUME NEW status \in {"tested", "canceled"}, Ended(job, status)
        PROVE  \A other \in DOMAIN running' : running'[other] \in Stages
    BY <2>1, EndedDomain DEF TestsTypeOK
  <2>2. ASSUME NEW stage \in Stages, Goes(job, stage)
        PROVE  \A other \in DOMAIN running' : running'[other] \in Stages
    BY <2>2 DEF Goes, TestsTypeOK
  <2>3. \/ \E status \in {"tested", "canceled"} : Ended(job, status)
        \/ \E stage \in Stages : Goes(job, stage)
    BY <1>1 DEF JobSteps, PartBegins, Canceled, TcpEnds, DelayRefused, DelayStarts,
                DelayAnswered, WorkerKilled, JobEnds
  <2> QED
    BY <2>1, <2>2, <2>3
<1>6. Cardinality(DOMAIN running') <= MaxConcurrent
  <2>1. IsFiniteSet(DOMAIN running)
    BY JobsFinite, FS_Subset DEF TestsTypeOK
  <2>2. Cardinality(DOMAIN running') <= Cardinality(DOMAIN running)
    BY <1>4, <2>1, FS_Subset
  <2>3. Cardinality(DOMAIN running) \in Nat /\ Cardinality(DOMAIN running') \in Nat
    BY <1>4, <2>1, FS_Subset, FS_CardinalityType
  <2> QED
    BY <2>2, <2>3, PoolAssumption DEF TestsTypeOK
<1>7. /\ DOMAIN workers' \subseteq Jobs
      /\ \A other \in DOMAIN workers' : workers'[other] \in WorkerStages
  <2>1. CASE workers' = workers
    BY <2>1 DEF TestsTypeOK
  <2>2. CASE WorkerGone(job)
    BY <2>2, GoneDomain DEF TestsTypeOK
  <2>3. CASE DelayStarts(job)
    <3>1. PICK port \in Ports :
            /\ DOMAIN workers' = DOMAIN workers \cup {job}
            /\ workers'[job] = Started(port, job)
            /\ \A other \in DOMAIN workers \ {job} : workers'[other] = workers[other]
      BY <2>3, StartedDomain
    <3>2. workers'[job] \in WorkerStages
      BY <1>1, <3>1, NewWorker
    <3> QED
      BY <1>1, <3>1, <3>2 DEF TestsTypeOK
  <2> QED
    BY <2>1, <2>2, <2>3
       DEF JobSteps, PartBegins, Canceled, TcpEnds, DelayRefused, DelayAnswered, WorkerKilled,
           JobEnds
<1>8. DOMAIN running' \subseteq Jobs
  BY <1>4 DEF TestsTypeOK
<1> QED
  BY <1>2, <1>3, <1>5, <1>6, <1>7, <1>8 DEF TestsTypeOK, counters, history

LEMMA BeginTypes == TestsTypeOK /\ JobBegins => TestsTypeOK'
<1> SUFFICES ASSUME TestsTypeOK, JobBegins
             PROVE  TestsTypeOK'
  OBVIOUS
<1>1. /\ Head(pool) \in Jobs /\ pool' \in Seq(Jobs) /\ workers' = workers
      /\ UNCHANGED <<cancelFlag, counters, testingUi, results, history>>
  BY Begins DEF Elsewhere
<1>2. calls' \in Seq(Calls)
  <2>1. calls \in Seq(Calls)
    BY DEF TestsTypeOK
  <2>2. CASE calls' = calls \o Reports(Head(pool), "canceled")
    BY ONLY <1>1, <2>1, <2>2, Reported, Finals
  <2>3. CASE calls' = Append(calls, Show(Head(pool), "testing"))
    BY ONLY <1>1, <2>1, <2>3, ShownIsNotPosted, Finals
  <2> QED
    BY <2>2, <2>3, Begins
<1>3. DOMAIN running' \subseteq Jobs /\ \A job \in DOMAIN running' : running'[job] \in Stages
  BY <1>1, Begins DEF TestsTypeOK, Stages
<1>4. Cardinality(DOMAIN running') <= MaxConcurrent
  <2>1. IsFiniteSet(DOMAIN running)
    BY JobsFinite, FS_Subset DEF TestsTypeOK
  <2>2. Cardinality(DOMAIN running) \in Nat /\ Cardinality(DOMAIN running) < MaxConcurrent
    BY <2>1, FS_CardinalityType DEF JobBegins
  <2>3. DOMAIN running' = DOMAIN running \/ DOMAIN running' = DOMAIN running \cup {Head(pool)}
    BY Begins
  <2>4. Cardinality(DOMAIN running \cup {Head(pool)}) <= Cardinality(DOMAIN running) + 1
    BY <2>1, <2>2, FS_AddElement
  <2>5. Cardinality(DOMAIN running \cup {Head(pool)}) \in Nat
    BY <2>1, FS_AddElement, FS_CardinalityType
  <2> QED
    BY <2>2, <2>3, <2>4, <2>5, PoolAssumption
<1> QED
  BY <1>1, <1>2, <1>3, <1>4 DEF TestsTypeOK, counters, history

LEMMA WorkerTypes ==
  ASSUME TestsTypeOK, NEW job \in DOMAIN workers, WorkerSteps(job)
  PROVE  /\ TestsTypeOK'
         /\ \E worker \in WorkerStages : WorkerStep(job, worker)
<1>1. workers[job] \in WorkerStages
  BY DEF TestsTypeOK
<1>2. \E worker \in WorkerStages : WorkerStep(job, worker)
  <2>1. CASE WorkerServes(job)
    BY <1>1, <2>1 DEF WorkerServes, WorkerStages
  <2>2. CASE WorkerFails(job)
    BY <1>1, <2>2 DEF WorkerFails, WorkerStages
  <2>3. CASE WorkerProbes(job)
    <3>1. PICK available \in BOOLEAN, other \in Listening(workers[job].port) :
            WorkerStep(job, Probed(workers[job], available, other))
      BY <2>3 DEF WorkerProbes
    <3>2. other \in Jobs
      BY DEF Listening, TestsTypeOK
    <3>3. Probed(workers[job], available, other) \in WorkerStages
      BY <1>1, <3>2 DEF Probed, WorkerStages
    <3> QED
      BY <3>1, <3>3
  <2> QED
    BY <2>1, <2>2, <2>3 DEF WorkerSteps
<1>3. PICK worker \in WorkerStages : WorkerStep(job, worker)
  BY <1>2
<1>4. /\ workers' = [workers EXCEPT ![job] = worker]
      /\ UNCHANGED <<pool, running, calls, cancelFlag, counters, testingUi, results, history>>
  BY <1>3 DEF WorkerStep, Elsewhere
<1>5. /\ DOMAIN workers' \subseteq Jobs
      /\ \A other \in DOMAIN workers' : workers'[other] \in WorkerStages
  BY <1>4 DEF TestsTypeOK
<1> QED
  BY <1>2, <1>4, <1>5 DEF TestsTypeOK, counters, history

LEMMA UnreportedAreJobs == TestsTypeOK => Unreported \subseteq Jobs /\ IsFiniteSet(Unreported)
<1> SUFFICES ASSUME TestsTypeOK
             PROVE  Unreported \subseteq Jobs
  BY JobsFinite, FS_Subset
<1>1. ToSet(pool) \subseteq Jobs
  BY ElementOfSeq, LenProperties DEF ToSet, TestsTypeOK
<1>2. calls \in Seq(Calls) /\ DOMAIN calls = 1 .. Len(calls)
  BY LenProperties DEF TestsTypeOK
<1>3. \A i \in DOMAIN calls : calls[i] \in Calls
  BY <1>2, ElementOfSeq
<1>4. \A i \in DOMAIN calls : calls[i].job \in Jobs
  BY <1>3 DEF Calls
<1> QED
  BY <1>1, <1>4 DEF Unreported, TestsTypeOK

\* What the start of a batch queues.
Queue(chosen) == {<<batch + 1, p>> : p \in chosen \ Disabled}

LEMMA BatchStarts ==
  ASSUME TestsTypeOK, NEW chosen \in SUBSET Profiles, StartsBatch(chosen)
  PROVE  /\ Queue(chosen) \subseteq Jobs /\ Queue(chosen) # {} /\ IsFiniteSet(Queue(chosen))
         /\ \A job \in Queue(chosen) : job[1] = batch + 1
         /\ batch + 1 \in 1 .. MaxBatches /\ batch' = batch + 1 /\ batch \in Nat
         /\ SetToSeq(Queue(chosen)) \in Seq(Jobs) /\ ToSet(SetToSeq(Queue(chosen))) = Queue(chosen)
         /\ pool' = pool \o SetToSeq(Queue(chosen)) /\ pool' \in Seq(Jobs)
         /\ active' = Cardinality(Queue(chosen)) /\ total' = active' /\ active' \in Nat
<1>1. /\ Queue(chosen) # {} /\ batch < MaxBatches /\ batch' = batch + 1
      /\ active' = Cardinality(Queue(chosen)) /\ total' = Cardinality(Queue(chosen))
      /\ pool' = pool \o SetToSeq(Queue(chosen))
  BY DEF StartsBatch, Queue
<1>2. batch + 1 \in 1 .. MaxBatches /\ batch \in Nat
  BY <1>1, PoolAssumption DEF TestsTypeOK
<1>3. Queue(chosen) \subseteq Jobs /\ \A job \in Queue(chosen) : job[1] = batch + 1
  BY <1>2 DEF Queue, Jobs
<1>4. IsFiniteSet(Queue(chosen))
  BY <1>3, JobsFinite, FS_Subset
<1>5. /\ SetToSeq(Queue(chosen)) \in Seq(Queue(chosen))
      /\ ToSet(SetToSeq(Queue(chosen))) = Queue(chosen)
  BY <1>4, Queued
<1>6. SetToSeq(Queue(chosen)) \in Seq(Jobs)
  BY <1>3, <1>5
<1>7. pool' \in Seq(Jobs)
  BY <1>1, <1>6, ConcatProperties DEF TestsTypeOK
<1>8. Cardinality(Queue(chosen)) \in Nat
  BY <1>4, FS_CardinalityType
<1> QED
  BY <1>1, <1>2, <1>3, <1>4, <1>5, <1>6, <1>7, <1>8

LEMMA CancelledType ==
  ASSUME TestsTypeOK, cancelled \subseteq 1 .. batch, busy => batch > 0, cancelled' = ToBeCancelled
  PROVE  cancelled' \subseteq 1 .. batch /\ cancelled' \subseteq 1 .. MaxBatches
BY PoolAssumption DEF TestsTypeOK, ToBeCancelled

LEMMA ShowTypes == TestsTypeOK /\ ShowCall => TestsTypeOK'
<1> SUFFICES ASSUME TestsTypeOK, ShowCall
             PROVE  TestsTypeOK'
  OBVIOUS
<1>1. Head(calls) \in Calls /\ calls' \in Seq(Calls)
  BY Rest DEF TestsTypeOK, ShowCall
<1>2. Head(calls).status \in TestStatuses
  BY <1>1 DEF Calls
<1>3. results' \in [Profiles -> TestStatuses]
  BY <1>2 DEF ShowCall, TestsTypeOK
<1> QED
  BY <1>1, <1>3 DEF ShowCall, TestsTypeOK, counters, history

LEMMA FinishTypes == TestsTypeOK /\ FinishCall => TestsTypeOK'
<1> SUFFICES ASSUME TestsTypeOK, FinishCall
             PROVE  TestsTypeOK'
  OBVIOUS
<1>1. calls' \in Seq(Calls)
  BY Rest DEF TestsTypeOK, FinishCall
<1>2. active' \in Int /\ finished' \in Nat
  BY DEF TestsTypeOK, FinishCall
<1>3. busy' \in BOOLEAN
  BY Zenon DEF FinishCall
<1>4. testingUi' \in BOOLEAN
  BY Zenon DEF FinishCall
<1> QED
  BY <1>1, <1>2, <1>3, <1>4 DEF FinishCall, TestsTypeOK, history

LEMMA StartTypes == TestsTypeOK /\ FlagInv /\ StartTests => TestsTypeOK'
<1> SUFFICES ASSUME TestsTypeOK, FlagInv, NEW chosen \in SUBSET Profiles,
                    StartsNothing(chosen) \/ StartsBatch(chosen),
                    testingUi' = TRUE, UNCHANGED <<running, workers, calls, results>>
             PROVE  TestsTypeOK'
  BY DEF StartTests
<1>1. cancelled' \subseteq 1 .. MaxBatches
  BY CancelledType DEF FlagInv, StartsNothing, StartsBatch
<1>2. CASE StartsNothing(chosen)
  <2>1. cancelFlag' \in BOOLEAN
    BY <1>2, Zenon DEF StartsNothing
  <2> QED
    BY <1>1, <1>2, <2>1 DEF StartsNothing, TestsTypeOK, counters
<1>3. CASE StartsBatch(chosen)
  <2>1. overlapped' \in BOOLEAN
    BY <1>3 DEF StartsBatch
  <2>2. /\ cancelFlag' = FALSE /\ busy' = TRUE /\ finished' = 0
    BY <1>3 DEF StartsBatch
  <2>3. /\ batch' \in 0 .. MaxBatches /\ pool' \in Seq(Jobs)
        /\ active' \in Int /\ total' \in Nat
    BY <1>3, BatchStarts
  <2>4. UNCHANGED <<running, workers, calls, results>> /\ testingUi' = TRUE
    OBVIOUS
  <2> QED
    BY <1>1, <2>1, <2>2, <2>3, <2>4 DEF TestsTypeOK
<1> QED
  BY <1>2, <1>3

LEMMA TypeStep == TestsTypeOK /\ FlagInv /\ [TestsNext]_testsVars => TestsTypeOK'
<1> SUFFICES ASSUME TestsTypeOK, FlagInv, [TestsNext]_testsVars
             PROVE  TestsTypeOK'
  OBVIOUS
<1>1. CASE CancelTests
  <2>1. cancelled' \subseteq 1 .. MaxBatches
    BY <1>1, CancelledType DEF FlagInv, CancelTests
  <2> QED
    BY <1>1, <2>1 DEF CancelTests, TestsTypeOK, counters
<1>2. CASE UNCHANGED testsVars
  BY <1>2 DEF testsVars, TestsTypeOK, counters, history
<1> QED
  BY <1>1, <1>2, BeginTypes, JobTypes, WorkerTypes, ShowTypes, FinishTypes, StartTypes DEF TestsNext

-----------------------------------------------------------------------------
(* Jobs are in one place                                                     *)

\* Until the manager hears of its end, a job only moves from one place to the next.
Passes ==
  /\ \/ pool' = pool
     \/ pool # <<>> /\ pool' = Tail(pool)
  /\ Unreported' = Unreported
  /\ JobsInv'

LEMMA BeginPasses == TestsTypeOK /\ JobsInv /\ JobBegins => Passes
<1> SUFFICES ASSUME TestsTypeOK, JobsInv, JobBegins
             PROVE  Passes
  OBVIOUS
<1> DEFINE h == Head(pool)
<1>1. pool \in Seq(Jobs) /\ calls \in Seq(Calls)
  BY DEF TestsTypeOK
<1>2. pool # <<>> /\ h \in Jobs /\ pool' = Tail(pool) /\ batch' = batch
  BY Begins DEF Elsewhere, history
<1>3. /\ ToSet(pool') = ToSet(pool) \ {h} /\ h \in ToSet(pool)
      /\ \A i, k \in DOMAIN pool' : pool'[i] = pool'[k] => i = k
  BY <1>1, <1>2, Taken DEF JobsInv
<1>4. h \notin DOMAIN running /\ h \notin Posted
  BY <1>3 DEF JobsInv
<1>5. \/ /\ DOMAIN running' = DOMAIN running /\ PostedIn(calls') = Posted \cup {h}
         /\ EndedOnce(calls')
      \/ /\ DOMAIN running' = DOMAIN running \cup {h} /\ PostedIn(calls') = Posted
         /\ EndedOnce(calls')
  <2>1. CASE calls' = calls \o Reports(h, "canceled") /\ running' = running
    BY <1>1, <1>2, <1>4, <2>1, ReportedIsPosted, Finals DEF Posted, JobsInv
  <2>2. CASE calls' = Append(calls, Show(h, "testing")) /\ DOMAIN running' = DOMAIN running \cup {h}
    BY <1>1, <1>2, <1>4, <2>2, ShownIsNotPosted, Finals DEF Posted, JobsInv
  <2> QED
    BY <2>1, <2>2, Begins
<1> HIDE DEF h
<1>6. Unreported = ToSet(pool) \cup DOMAIN running \cup Posted
  BY DEF Unreported, Posted, PostedIn
<1>7. Unreported' = ToSet(pool') \cup DOMAIN running' \cup PostedIn(calls')
  BY DEF Unreported, PostedIn
<1>8. Unreported' = Unreported
  BY <1>3, <1>5, <1>6, <1>7
<1>9. Posted' = PostedIn(calls')
  BY DEF Posted, PostedIn
<1> QED
  BY <1>2, <1>3, <1>4, <1>5, <1>8, <1>9 DEF JobsInv, Passes

LEMMA StepPasses ==
  ASSUME TestsTypeOK, JobsInv, NEW job \in DOMAIN running, JobSteps(job)
  PROVE  Passes
<1>1. pool' = pool /\ batch' = batch /\ job \in Jobs /\ calls \in Seq(Calls)
  BY JobStepKinds DEF Elsewhere, history, TestsTypeOK
<1>2. /\ Unreported = ToSet(pool) \cup DOMAIN running \cup Posted
      /\ Unreported' = ToSet(pool') \cup DOMAIN running' \cup PostedIn(calls')
      /\ Posted' = PostedIn(calls')
  BY DEF Unreported, Posted, PostedIn
<1>3. CASE DOMAIN running' = DOMAIN running /\ calls' = calls
  BY <1>1, <1>2, <1>3 DEF JobsInv, Passes, Posted
<1>4. ASSUME NEW status \in {"tested", "canceled"}, Ended(job, status)
      PROVE  Passes
  <2>1. DOMAIN running' = DOMAIN running \ {job} /\ calls' = calls \o Reports(job, status)
    BY <1>4, EndedDomain DEF Ended
  <2>2. job \notin Posted /\ job \notin ToSet(pool)
    BY DEF JobsInv
  <2>3. PostedIn(calls') = Posted \cup {job} /\ EndedOnce(calls')
    BY <1>1, <2>1, <2>2, ReportedIsPosted, Finals DEF Posted, JobsInv
  <2>4. Unreported' = Unreported
    BY <1>1, <1>2, <2>1, <2>3
  <2> QED
    BY <1>1, <1>2, <2>1, <2>2, <2>3, <2>4 DEF JobsInv, Passes
<1> QED
  BY <1>3, <1>4, JobStepKinds

\* The manager hears of the end of a job.
LEMMA FinishHears ==
  ASSUME TestsTypeOK, JobsInv, FinishCall
  PROVE  /\ Head(calls).job \in Posted /\ Posted' = Posted \ {Head(calls).job}
         /\ Unreported' = Unreported \ {Head(calls).job} /\ Head(calls).job \in Unreported
         /\ JobsInv'
<1>1. /\ calls \in Seq(Calls) /\ calls # <<>> /\ calls' = Tail(calls) /\ Head(calls).to = "finish"
      /\ UNCHANGED <<pool, running, batch>>
  BY DEF FinishCall, TestsTypeOK, history
<1>2. /\ Unreported = ToSet(pool) \cup DOMAIN running \cup Posted
      /\ Unreported' = ToSet(pool) \cup DOMAIN running \cup PostedIn(calls')
      /\ Posted' = PostedIn(calls')
  BY <1>1 DEF Unreported, Posted, PostedIn
<1>3. /\ EndedOnce(calls') /\ PostedIn(calls') = Posted \ {Head(calls).job}
      /\ Head(calls).job \in Posted
  BY <1>1, Delivered DEF JobsInv, Posted
<1>4. Head(calls).job \notin ToSet(pool) \cup DOMAIN running
  BY <1>3 DEF JobsInv
<1>5. Unreported' = Unreported \ {Head(calls).job}
  BY <1>2, <1>3, <1>4
<1> QED
  BY <1>1, <1>2, <1>3, <1>5 DEF JobsInv

LEMMA ShowPasses == TestsTypeOK /\ JobsInv /\ ShowCall => Passes
<1> SUFFICES ASSUME TestsTypeOK, JobsInv, ShowCall
             PROVE  Passes
  OBVIOUS
<1>1. /\ calls \in Seq(Calls) /\ calls # <<>> /\ calls' = Tail(calls) /\ Head(calls).to = "show"
      /\ UNCHANGED <<pool, running, batch>>
  BY DEF ShowCall, TestsTypeOK, history
<1>2. /\ Unreported = ToSet(pool) \cup DOMAIN running \cup Posted
      /\ Unreported' = ToSet(pool) \cup DOMAIN running \cup PostedIn(calls')
      /\ Posted' = PostedIn(calls')
  BY <1>1 DEF Unreported, Posted, PostedIn
<1>3. EndedOnce(calls') /\ PostedIn(calls') = Posted
  BY <1>1, Delivered DEF JobsInv, Posted
<1> QED
  BY <1>1, <1>2, <1>3 DEF JobsInv, Passes

\* The jobs of a new batch are new.
LEMMA BatchQueues ==
  ASSUME TestsTypeOK, JobsInv, NEW chosen \in SUBSET Profiles, StartsBatch(chosen),
         UNCHANGED <<running, calls>>
  PROVE  Unreported' = Unreported \cup Queue(chosen) /\ JobsInv'
<1> DEFINE q == SetToSeq(Queue(chosen))
<1>1. /\ q \in Seq(Jobs) /\ ToSet(q) = Queue(chosen) /\ pool' = pool \o q /\ pool \in Seq(Jobs)
      /\ \A job \in Queue(chosen) : job[1] = batch + 1
      /\ batch' = batch + 1 /\ batch \in Nat
  BY BatchStarts DEF TestsTypeOK
<1>2. \A i, k \in DOMAIN q : q[i] = q[k] => i = k
  BY BatchStarts, Queued
<1>3. \A job \in Unreported : job \notin Queue(chosen) /\ job[1] <= batch + 1
  <2>1. \A job \in Unreported : job[1] \in Int /\ job[1] <= batch
    <3>1. Unreported \subseteq Jobs
      BY UnreportedAreJobs
    <3> QED
      BY <3>1 DEF Jobs, JobsInv
  <2> QED
    BY <1>1, <2>1
<1>4. /\ Unreported = ToSet(pool) \cup DOMAIN running \cup Posted
      /\ Unreported' = ToSet(pool') \cup DOMAIN running \cup Posted
      /\ Posted' = Posted
  BY DEF Unreported, Posted, PostedIn
<1> HIDE DEF q
<1>5. /\ pool' \in Seq(Jobs) /\ Len(pool') = Len(pool) + Len(q) /\ Len(pool) \in Nat /\ Len(q) \in Nat
      /\ \A i \in 1 .. Len(pool') : pool'[i] = IF i <= Len(pool) THEN pool[i] ELSE q[i - Len(pool)]
  BY <1>1, ConcatProperties, LenProperties
<1>6. DOMAIN pool = 1 .. Len(pool) /\ DOMAIN q = 1 .. Len(q) /\ DOMAIN pool' = 1 .. Len(pool')
  BY <1>1, <1>5, LenProperties
<1>7. \A i \in DOMAIN pool' :
        \/ i \in DOMAIN pool /\ pool'[i] = pool[i]
        \/ i - Len(pool) \in DOMAIN q /\ pool'[i] = q[i - Len(pool)] /\ i > Len(pool)
  BY <1>5, <1>6
<1>8. ToSet(pool') = ToSet(pool) \cup Queue(chosen)
  <2>1. ToSet(pool') \subseteq ToSet(pool) \cup ToSet(q)
    BY <1>7 DEF ToSet
  <2>2. ToSet(pool) \subseteq ToSet(pool')
    BY <1>5, <1>6 DEF ToSet
  <2>3. ToSet(q) \subseteq ToSet(pool')
    <3> SUFFICES ASSUME NEW i \in DOMAIN q
                 PROVE  q[i] \in ToSet(pool')
      BY DEF ToSet
    <3>1. /\ i + Len(pool) \in DOMAIN pool' /\ ~(i + Len(pool) <= Len(pool))
          /\ i + Len(pool) - Len(pool) = i
      BY <1>5, <1>6
    <3> QED
      BY <1>5, <1>6, <3>1 DEF ToSet
  <2> QED
    BY <1>1, <2>1, <2>2, <2>3
<1>9. \A i, k \in DOMAIN pool' : pool'[i] = pool'[k] => i = k
  <2> SUFFICES ASSUME NEW i \in DOMAIN pool', NEW k \in DOMAIN pool', pool'[i] = pool'[k]
               PROVE  i = k
    OBVIOUS
  <2>1. \A j \in DOMAIN pool : pool[j] \in Unreported
    BY DEF Unreported, ToSet
  <2>2. \A j \in DOMAIN q : q[j] \in Queue(chosen)
    BY <1>1 DEF ToSet
  <2>3. CASE i \in DOMAIN pool /\ pool'[i] = pool[i] /\ k \in DOMAIN pool /\ pool'[k] = pool[k]
    BY <2>3 DEF JobsInv
  <2>4. CASE /\ i - Len(pool) \in DOMAIN q /\ pool'[i] = q[i - Len(pool)]
             /\ k - Len(pool) \in DOMAIN q /\ pool'[k] = q[k - Len(pool)]
    <3>1. i - Len(pool) = k - Len(pool)
      BY <1>2, <2>4
    <3>2. i \in Int /\ k \in Int
      BY <1>5, <1>6
    <3> QED
      BY <1>5, <3>1, <3>2
  <2> QED
    BY <1>3, <1>7, <2>1, <2>2, <2>3, <2>4
<1> QED
  BY <1>1, <1>3, <1>4, <1>8, <1>9 DEF JobsInv

LEMMA JobsStep == TestsTypeOK /\ JobsInv /\ [TestsNext]_testsVars => JobsInv'
<1> SUFFICES ASSUME TestsTypeOK, JobsInv, [TestsNext]_testsVars
             PROVE  JobsInv'
  OBVIOUS
<1>1. ASSUME UNCHANGED <<pool, running, calls, batch>> PROVE JobsInv'
  BY <1>1 DEF JobsInv, Unreported, Posted, PostedIn
<1>2. ASSUME NEW job \in DOMAIN workers, WorkerSteps(job) PROVE JobsInv'
  BY <1>1, <1>2, WorkerTypes DEF WorkerStep, Elsewhere, history
<1>3. CASE StartTests
  <2>1. PICK chosen \in SUBSET Profiles : StartsNothing(chosen) \/ StartsBatch(chosen)
    BY <1>3 DEF StartTests
  <2>2. UNCHANGED <<running, calls>>
    BY <1>3 DEF StartTests
  <2> QED
    BY <1>1, <2>1, <2>2, BatchQueues DEF StartsNothing
<1>4. CASE CancelTests \/ UNCHANGED testsVars
  BY <1>1, <1>4 DEF CancelTests, testsVars, history
<1> QED
  BY <1>2, <1>3, <1>4, BeginPasses, StepPasses, ShowPasses, FinishHears DEF TestsNext, Passes

-----------------------------------------------------------------------------
(* Flag and counters                                                         *)

\* The steps of threads, workers and the line up to the result leave the manager alone.
ManagerWaits ==
  /\ UNCHANGED <<cancelFlag, counters, history>>
  /\ testingUi' = testingUi
  /\ Unreported' = Unreported

LEMMA StepKinds ==
  ASSUME TestsTypeOK, JobsInv, [TestsNext]_testsVars
  PROVE  ManagerWaits \/ FinishCall \/ StartTests \/ CancelTests
<1>1. ASSUME UNCHANGED <<pool, running, calls>>, UNCHANGED <<cancelFlag, counters, history, testingUi>>
      PROVE  ManagerWaits
  BY <1>1 DEF ManagerWaits, Unreported
<1>2. JobBegins => ManagerWaits
  BY BeginPasses, Begins DEF Passes, ManagerWaits, Elsewhere
<1>3. ASSUME NEW job \in DOMAIN running, JobSteps(job) PROVE ManagerWaits
  BY <1>3, StepPasses, JobStepKinds DEF Passes, ManagerWaits, Elsewhere
<1>4. ASSUME NEW job \in DOMAIN workers, WorkerSteps(job) PROVE ManagerWaits
  BY <1>1, <1>4, WorkerTypes DEF WorkerStep, Elsewhere
<1>5. ShowCall => ManagerWaits
  BY ShowPasses DEF Passes, ManagerWaits, ShowCall
<1>6. UNCHANGED testsVars => ManagerWaits
  BY <1>1 DEF testsVars
<1> QED
  BY <1>2, <1>3, <1>4, <1>5, <1>6 DEF TestsNext

LEMMA FlagStep == TestsTypeOK /\ JobsInv /\ FlagInv /\ [TestsNext]_testsVars => FlagInv'
<1> SUFFICES ASSUME TestsTypeOK, JobsInv, FlagInv, [TestsNext]_testsVars
             PROVE  FlagInv'
  OBVIOUS
<1>1. CASE ManagerWaits
  BY <1>1 DEF ManagerWaits, FlagInv, counters, history
<1>2. CASE FinishCall
  <2>1. Unreported' \subseteq Unreported
    BY <1>2, FinishHears
  <2>2. UNCHANGED <<cancelFlag, batch, cancelled, overlapped>> /\ (busy' => busy)
    BY <1>2 DEF FinishCall, history
  <2> QED
    BY <2>1, <2>2 DEF FlagInv
<1>3. CASE StartTests
  <2>1. PICK chosen \in SUBSET Profiles : StartsNothing(chosen) \/ StartsBatch(chosen)
    BY <1>3 DEF StartTests
  <2>2. UNCHANGED <<running, calls>>
    BY <1>3 DEF StartTests
  <2>3. CASE StartsNothing(chosen)
    <3>1. cancelled' \subseteq 1 .. batch
      BY <2>3, CancelledType DEF StartsNothing, FlagInv
    <3>2. Unreported' = Unreported
      BY <2>2, <2>3 DEF StartsNothing, Unreported
    <3>3. /\ cancelFlag' = (cancelFlag \/ busy) /\ busy' = busy /\ batch' = batch
          /\ overlapped' = overlapped
      BY <2>3 DEF StartsNothing, counters
    <3>4. batch \in cancelled' => busy \/ batch \in cancelled
      BY <2>3 DEF StartsNothing, ToBeCancelled
    <3>5. ~overlapped => (batch \in cancelled' => cancelFlag')
      BY <3>3, <3>4, Zenon DEF FlagInv
    <3> QED
      BY <3>1, <3>2, <3>3, <3>5 DEF FlagInv
  <2>4. CASE StartsBatch(chosen)
    <3>1. cancelled' \subseteq 1 .. batch
      BY <2>4, CancelledType DEF StartsBatch, FlagInv
    <3>2. Unreported' = Unreported \cup Queue(chosen)
      BY <2>2, <2>4, BatchQueues
    <3>3. /\ batch' = batch + 1 /\ batch \in Nat
          /\ \A job \in Queue(chosen) : job[1] = batch + 1
      BY <2>4, BatchStarts
    <3>4. overlapped' = (Unreported # {})
      BY <2>4 DEF StartsBatch
    <3>5. cancelled' \subseteq 1 .. batch' /\ batch' \notin cancelled' /\ batch' > 0
      BY <3>1, <3>3
    <3> QED
      BY <3>2, <3>3, <3>4, <3>5 DEF FlagInv
  <2> QED
    BY <2>1, <2>3, <2>4
<1>4. CASE CancelTests
  <2>1. cancelled' \subseteq 1 .. batch
    BY <1>4, CancelledType DEF CancelTests, FlagInv
  <2>2. /\ UNCHANGED <<busy, batch, overlapped>> /\ Unreported' = Unreported /\ cancelFlag' = TRUE
    BY <1>4 DEF CancelTests, counters, Unreported
  <2> QED
    BY <2>1, <2>2 DEF FlagInv
<1> QED
  BY <1>1, <1>2, <1>3, <1>4, StepKinds

LEMMA CountStep == TestsTypeOK /\ JobsInv /\ CountInv /\ [TestsNext]_testsVars => CountInv'
<1> SUFFICES ASSUME TestsTypeOK, JobsInv, CountInv, [TestsNext]_testsVars
             PROVE  CountInv'
  OBVIOUS
<1>1. CASE ManagerWaits
  BY <1>1 DEF ManagerWaits, CountInv, counters, history
<1>2. CASE FinishCall
  <2> DEFINE job == Head(calls).job
  <2>1. Unreported' = Unreported \ {job} /\ job \in Unreported
    BY <1>2, FinishHears
  <2>2. /\ active' = active - 1 /\ finished' = finished + 1 /\ total' = total
        /\ busy' = (busy /\ ~(active' <= 0)) /\ testingUi' = (testingUi /\ ~(busy /\ active' <= 0))
        /\ overlapped' = overlapped
    BY <1>2 DEF FinishCall, LastJob, history
  <2> HIDE DEF job
  <2> SUFFICES ASSUME ~overlapped
               PROVE  /\ active' = Cardinality(Unreported')
                      /\ busy' => finished' + active' = total'
                      /\ busy' <=> Unreported' # {}
                      /\ busy' => testingUi'
    BY <2>2 DEF CountInv
  <2>3. /\ active = Cardinality(Unreported)
        /\ busy => finished + active = total
        /\ busy <=> Unreported # {}
        /\ busy => testingUi
    BY DEF CountInv
  <2>4. IsFiniteSet(Unreported) /\ IsFiniteSet(Unreported')
    BY <2>1, UnreportedAreJobs, FS_RemoveElement
  <2>5. active' = Cardinality(Unreported')
    BY <2>1, <2>2, <2>3, <2>4, FS_RemoveElement
  <2>6. Cardinality(Unreported') \in Nat /\ (Cardinality(Unreported') = 0 <=> Unreported' = {})
    BY <2>4, FS_CardinalityType, FS_EmptySet
  <2>7. active' <= 0 <=> Unreported' = {}
    BY <2>5, <2>6
  <2>8. busy
    BY <2>1, <2>3
  <2>9. busy' <=> Unreported' # {}
    BY <2>2, <2>7, <2>8
  <2>10. busy' => testingUi'
    BY <2>2, <2>3, <2>8
  <2>11. finished' + active' = total'
    BY <2>2, <2>3, <2>8 DEF TestsTypeOK
  <2> QED
    BY <2>5, <2>9, <2>10, <2>11
<1>3. CASE StartTests
  <2>1. PICK chosen \in SUBSET Profiles : StartsNothing(chosen) \/ StartsBatch(chosen)
    BY <1>3 DEF StartTests
  <2>2. UNCHANGED <<running, calls>> /\ testingUi' = TRUE
    BY <1>3 DEF StartTests
  <2>3. CASE StartsNothing(chosen)
    <3>1. Unreported' = Unreported /\ UNCHANGED <<active, busy, finished, total, overlapped>>
      BY <2>2, <2>3 DEF StartsNothing, Unreported, counters
    <3> QED
      BY <2>2, <3>1 DEF CountInv
  <2>4. CASE StartsBatch(chosen)
    <3>1. Unreported' = Unreported \cup Queue(chosen)
      BY <2>2, <2>4, BatchQueues
    <3>2. overlapped' = (Unreported # {}) /\ finished' = 0 /\ busy' = TRUE
      BY <2>4 DEF StartsBatch
    <3>3. /\ active' = Cardinality(Queue(chosen)) /\ total' = active' /\ active' \in Nat
          /\ Queue(chosen) # {}
      BY <2>4, BatchStarts
    <3>4. ~overlapped' => Unreported' = Queue(chosen)
      BY <3>1, <3>2
    <3> QED
      BY <2>2, <3>2, <3>3, <3>4 DEF CountInv
  <2> QED
    BY <2>1, <2>3, <2>4
<1>4. CASE CancelTests
  BY <1>4 DEF CancelTests, CountInv, counters, Unreported
<1> QED
  BY <1>1, <1>2, <1>3, <1>4, StepKinds

-----------------------------------------------------------------------------
(* Workers                                                                   *)

LEMMA WorkersKept ==
  ASSUME WorkerInv, DOMAIN workers' \subseteq DOMAIN workers,
         \A job \in DOMAIN workers' : workers'[job] = workers[job],
         \A job \in DOMAIN workers' : job \in DOMAIN running' /\ running'[job] = running[job]
  PROVE  WorkerInv'
<1>1. \A job \in DOMAIN workers' : At(job, "wait")'
  BY DEF WorkerInv, MeasuredOwn, At
<1>2. \A port \in Ports : Listening(port)' \subseteq Listening(port)
  BY DEF Listening
<1> QED
  BY <1>1, <1>2 DEF WorkerInv, MeasuredOwn

LEMMA JobWorkers ==
  ASSUME TestsTypeOK, WorkerInv, NEW job \in DOMAIN running, JobSteps(job)
  PROVE  WorkerInv'
<1>1. \A other \in DOMAIN workers : other \in DOMAIN running /\ running[other] = "wait"
  BY DEF WorkerInv, MeasuredOwn, At
<1>2. CASE running[job] # "wait" /\ workers' = workers
  <2>1. job \notin DOMAIN workers
    BY <1>1, <1>2
  <2>2. \A other \in DOMAIN running \ {job} :
          other \in DOMAIN running' /\ running'[other] = running[other]
    <3>1. CASE \E status : Ended(job, status)
      BY <3>1, EndedDomain
    <3>2. CASE \E stage : Goes(job, stage)
      BY <3>2 DEF Goes
    <3> QED
      BY <3>1, <3>2 DEF JobSteps, PartBegins, Canceled, TcpEnds, DelayRefused, DelayStarts,
                        DelayAnswered, WorkerKilled, JobEnds
  <2> QED
    BY <1>1, <1>2, <2>1, <2>2, WorkersKept
<1>3. CASE WorkerGone(job) /\ Goes(job, "end")
  BY <1>1, <1>3, GoneDomain, WorkersKept DEF Goes
<1>4. CASE DelayStarts(job)
  <2>1. PICK port \in Ports :
          /\ DOMAIN workers' = DOMAIN workers \cup {job}
          /\ workers'[job] = Started(port, job)
          /\ \A other \in DOMAIN workers \ {job} : workers'[other] = workers[other]
    BY <1>4, StartedDomain
  <2>2. job \notin DOMAIN workers
    BY <1>1, <1>4 DEF DelayStarts, At
  <2>3. /\ DOMAIN running' = DOMAIN running /\ running'[job] = "wait"
        /\ \A other \in DOMAIN running \ {job} : running'[other] = running[other]
    BY <1>4 DEF DelayStarts, Goes
  <2>4. \A other \in DOMAIN workers' : At(other, "wait")'
    BY <1>1, <2>1, <2>2, <2>3 DEF At
  <2>5. /\ ~workers'[job].listens /\ workers'[job].step # "serving"
        /\ ~workers'[job].available
    BY <2>1 DEF Started
  <2>6. \A p \in Ports : Listening(p)' \subseteq Listening(p)
    BY <2>1, <2>5 DEF Listening
  <2>7. \A other \in DOMAIN workers' : other = job \/ (other \in DOMAIN workers /\ workers'[other] = workers[other])
    BY <2>1, <2>2
  <2> QED
    BY <2>4, <2>5, <2>6, <2>7 DEF WorkerInv, MeasuredOwn
<1>5. CASE PartBegins(job) \/ Canceled(job)
  <2>1. running[job] # "wait" /\ workers' = workers
    BY <1>5 DEF PartBegins, Canceled, Parts
  <2> QED
    BY <1>2, <2>1
<1>6. CASE TcpEnds(job) \/ DelayRefused(job)
  <2>1. running[job] # "wait" /\ workers' = workers
    BY <1>6 DEF TcpEnds, DelayRefused, At
  <2> QED
    BY <1>2, <2>1
<1>7. CASE JobEnds(job)
  <2>1. running[job] # "wait" /\ workers' = workers
    BY <1>7 DEF JobEnds, At
  <2> QED
    BY <1>2, <2>1
<1>8. CASE DelayAnswered(job) \/ WorkerKilled(job)
  BY <1>3, <1>8 DEF DelayAnswered, WorkerKilled
<1> QED
  BY <1>4, <1>5, <1>6, <1>7, <1>8 DEF JobSteps

LEMMA ServedWorkers ==
  ASSUME TestsTypeOK, WorkerInv, NEW job \in DOMAIN workers, WorkerSteps(job)
  PROVE  WorkerInv'
<1>1. /\ workers[job] \in WorkerStages /\ workers[job].port \in Ports
      /\ workers[job].available => workers[job].via = job
      /\ workers[job].listens <=> workers[job].step = "serving"
  BY DEF TestsTypeOK, WorkerStages, WorkerInv, MeasuredOwn
<1>2. PICK worker : WorkerStep(job, worker)
  BY WorkerTypes
<1>3. /\ DOMAIN workers' = DOMAIN workers /\ workers'[job] = worker /\ running' = running
      /\ \A other \in DOMAIN workers \ {job} : workers'[other] = workers[other]
  BY <1>2 DEF WorkerStep
<1>4. \A other \in DOMAIN workers' : At(other, "wait")'
  BY <1>3 DEF At, WorkerInv, MeasuredOwn
<1>5. ASSUME workers'[job].port = workers[job].port,
             workers'[job].listens <=> workers'[job].step = "serving",
             workers'[job].available => workers'[job].via = job,
             workers'[job].listens => Listening(workers[job].port) \subseteq {job}
      PROVE  WorkerInv'
  <2>1. ASSUME NEW port \in Ports, NEW a \in Listening(port)', NEW b \in Listening(port)'
        PROVE  a = b
    <3>1. \A other \in Listening(port)' : other # job => other \in Listening(port)
      BY <1>3 DEF Listening
    <3>2. job \in Listening(port)' => port = workers[job].port /\ workers'[job].listens
      BY <1>5 DEF Listening
    <3> QED
      BY <1>5, <2>1, <3>1, <3>2 DEF WorkerInv
  <2> QED
    BY <1>3, <1>4, <1>5, <2>1 DEF WorkerInv, MeasuredOwn
<1>6. CASE WorkerServes(job)
  <2>1. workers'[job] = [workers[job] EXCEPT !.step = "serving", !.listens = TRUE]
    BY <1>3, <1>6 DEF WorkerServes, WorkerStep
  <2>2. Listening(workers[job].port) = {}
    BY <1>6 DEF WorkerServes
  <2> QED
    BY <1>1, <1>5, <2>1, <2>2 DEF WorkerStages
<1>7. CASE WorkerFails(job)
  <2>1. workers'[job] = [workers[job] EXCEPT !.step = "answered"]
    BY <1>3, <1>7 DEF WorkerFails, WorkerStep
  <2>2. workers[job].step = "started"
    BY <1>7 DEF WorkerFails, WorkerIs
  <2> QED
    BY <1>1, <1>5, <2>1, <2>2 DEF WorkerStages
<1>8. CASE WorkerProbes(job)
  <2>1. PICK available \in BOOLEAN, other \in Listening(workers[job].port) :
          WorkerStep(job, Probed(workers[job], available, other))
    BY <1>8 DEF WorkerProbes
  <2>2. workers'[job] = Probed(workers[job], available, other)
    BY <1>3, <2>1 DEF WorkerStep
  <2>3. job \in Listening(workers[job].port)
    BY <1>1, <1>8 DEF WorkerProbes, WorkerIs, Listening
  <2>4. other = job
    BY <1>1, <2>3 DEF WorkerInv
  <2> QED
    BY <1>1, <1>5, <2>2, <2>4 DEF Probed, WorkerStages
<1> QED
  BY <1>6, <1>7, <1>8 DEF WorkerSteps

LEMMA WorkerInvStep == TestsTypeOK /\ JobsInv /\ WorkerInv /\ [TestsNext]_testsVars => WorkerInv'
<1> SUFFICES ASSUME TestsTypeOK, JobsInv, WorkerInv, [TestsNext]_testsVars
             PROVE  WorkerInv'
  OBVIOUS
<1>1. \A other \in DOMAIN workers : other \in DOMAIN running
  BY DEF WorkerInv, MeasuredOwn, At
<1>2. CASE JobBegins
  <2>1. Head(pool) \notin DOMAIN running
    BY <1>2, Begins, Taken DEF TestsTypeOK, JobsInv
  <2> QED
    BY <1>1, <1>2, <2>1, Begins, WorkersKept
<1>3. CASE UNCHANGED <<workers, running>>
  BY <1>1, <1>3, WorkersKept
<1>4. ShowCall \/ FinishCall \/ StartTests \/ CancelTests \/ UNCHANGED testsVars
        => UNCHANGED <<workers, running>>
  BY DEF ShowCall, FinishCall, StartTests, CancelTests, testsVars
<1> QED
  BY <1>2, <1>3, <1>4, JobWorkers, ServedWorkers DEF TestsNext

-----------------------------------------------------------------------------
(* Results                                                                   *)

LEMMA ResultsAlike ==
  ASSUME ShownInv, calls' = calls, results' = results, DOMAIN running \subseteq DOMAIN running'
  PROVE  ShownInv'
<1>1. Posted' = Posted
  BY DEF Posted, PostedIn
<1>2. \A i : (ShownBefore(i) => ShownBefore(i)') /\ (EndFollows(i) => EndFollows(i)')
  BY DEF ShownBefore, EndFollows
<1>3. \A p \in Profiles :
        results'[p] = "testing" => \E job \in DOMAIN running' \cup Posted' : job[2] = p
  BY <1>1 DEF ShownInv
<1> QED
  BY <1>2, <1>3 DEF ShownInv

LEMMA ResultsReported ==
  ASSUME TestsTypeOK, ShownInv, NEW job \in Jobs, NEW status \in {"tested", "canceled"},
         calls' = calls \o Reports(job, status), results' = results,
         DOMAIN running \ {job} \subseteq DOMAIN running'
  PROVE  ShownInv'
<1> DEFINE n == Len(calls)
<1>1. calls \in Seq(Calls) /\ status \in TestStatuses /\ n \in Nat
  BY Finals, LenProperties DEF TestsTypeOK
<1>2. /\ calls' \in Seq(Calls) /\ Len(calls') = n + 2
      /\ \A i \in 1 .. n : calls'[i] = calls[i]
      /\ calls'[n + 1] = Show(job, status) /\ calls'[n + 2] = Finish(job, status)
  BY <1>1, Reported
<1>3. DOMAIN calls = 1 .. n /\ DOMAIN calls' = 1 .. n + 2
  BY <1>1, <1>2, LenProperties
<1>4. Posted' = Posted \cup {job}
  <2>1. PostedIn(calls') = PostedIn(calls) \cup {job}
    BY <1>1, ReportedIsPosted
  <2> QED
    BY <2>1 DEF Posted, PostedIn
<1> HIDE DEF n
<1>5. /\ calls'[n + 1].to = "show" /\ calls'[n + 1].status = status
      /\ calls'[n + 2].to = "finish" /\ calls'[n + 2].job = job
  BY <1>2 DEF Show, Finish
<1>6. \A i \in DOMAIN calls' : i \in 1 .. n \/ i = n + 1 \/ i = n + 2
  BY <1>1, <1>3
<1>7. ASSUME NEW i \in DOMAIN calls', calls'[i].to = "finish"
      PROVE  ShownBefore(i)'
  <2>1. CASE i \in 1 .. n
    <3>1. ShownBefore(i)
      BY <1>2, <1>3, <1>7, <2>1 DEF ShownInv
    <3>2. CASE i = 1
      BY <1>2, <2>1, <3>1, <3>2 DEF ShownBefore
    <3>3. CASE i # 1
      <4>1. i - 1 \in 1 .. n
        BY <1>1, <2>1, <3>3
      <4> QED
        BY <1>2, <2>1, <3>1, <3>3, <4>1 DEF ShownBefore, Show
    <3> QED
      BY <3>2, <3>3
  <2>2. CASE i = n + 2
    <3>1. i # 1 /\ i - 1 = n + 1
      BY <1>1, <2>2
    <3> QED
      BY <1>2, <1>5, <2>2, <3>1 DEF ShownBefore
  <2> QED
    BY <1>5, <1>6, <1>7, <2>1, <2>2
<1>8. ASSUME NEW i \in DOMAIN calls', calls'[i].to = "show", calls'[i].status = "testing"
      PROVE  EndFollows(i)'
  <2>1. i \in 1 .. n
    BY <1>5, <1>6, <1>8
  <2>2. EndFollows(i) /\ calls'[i] = calls[i]
    BY <1>2, <1>3, <1>8, <2>1 DEF ShownInv
  <2>3. CASE calls[i].job \in DOMAIN running
    <3>1. CASE calls[i].job = job
      <4>1. n + 2 \in DOMAIN calls' /\ n + 2 > i
        BY <1>1, <1>3, <2>1
      <4> QED
        BY <1>5, <2>2, <3>1, <4>1 DEF EndFollows
    <3>2. CASE calls[i].job # job
      BY <2>2, <2>3, <3>2 DEF EndFollows
    <3> QED
      BY <3>1, <3>2
  <2>4. ASSUME NEW k \in DOMAIN calls, k > i, calls[k].to = "finish", calls[k].job = calls[i].job
        PROVE  EndFollows(i)'
    <3>1. k \in DOMAIN calls' /\ calls'[k] = calls[k]
      BY <1>1, <1>2, <1>3
    <3> QED
      BY <2>2, <2>4, <3>1 DEF EndFollows
  <2> QED
    BY <2>2, <2>3, <2>4 DEF EndFollows
<1>9. \A p \in Profiles :
        results'[p] = "testing" => \E other \in DOMAIN running' \cup Posted' : other[2] = p
  BY <1>4 DEF ShownInv
<1> QED
  BY <1>7, <1>8, <1>9 DEF ShownInv

LEMMA ResultsBegun ==
  ASSUME TestsTypeOK, ShownInv, NEW job \in Jobs, calls' = Append(calls, Show(job, "testing")),
         results' = results, DOMAIN running' = DOMAIN running \cup {job}
  PROVE  ShownInv'
<1> DEFINE n == Len(calls)
<1>1. calls \in Seq(Calls) /\ n \in Nat /\ Show(job, "testing") \in Calls
  BY Finals, LenProperties DEF TestsTypeOK, Show, Calls
<1>2. /\ calls' \in Seq(Calls) /\ Len(calls') = n + 1
      /\ \A i \in 1 .. n : calls'[i] = calls[i]
      /\ calls'[n + 1] = Show(job, "testing")
  BY <1>1, AppendProperties
<1>3. DOMAIN calls = 1 .. n /\ DOMAIN calls' = 1 .. n + 1
  BY <1>1, <1>2, LenProperties
<1>4. Posted' = Posted
  <2>1. PostedIn(calls') = PostedIn(calls)
    BY <1>1, ShownIsNotPosted, Finals
  <2> QED
    BY <2>1 DEF Posted, PostedIn
<1> HIDE DEF n
<1>5. calls'[n + 1].to = "show" /\ calls'[n + 1].job = job
  BY <1>2 DEF Show
<1>6. \A i \in DOMAIN calls' : i \in 1 .. n \/ i = n + 1
  BY <1>1, <1>3
<1>7. ASSUME NEW i \in DOMAIN calls', calls'[i].to = "finish"
      PROVE  ShownBefore(i)'
  <2>1. i \in 1 .. n
    BY <1>5, <1>6, <1>7
  <2>2. ShownBefore(i)
    BY <1>2, <1>3, <1>7, <2>1 DEF ShownInv
  <2>3. CASE i = 1
    BY <1>2, <2>1, <2>2, <2>3 DEF ShownBefore
  <2>4. CASE i # 1
    <3>1. i - 1 \in 1 .. n
      BY <1>1, <2>1, <2>4
    <3> QED
      BY <1>2, <2>1, <2>2, <2>4, <3>1 DEF ShownBefore, Show
  <2> QED
    BY <2>3, <2>4
<1>8. ASSUME NEW i \in DOMAIN calls', calls'[i].to = "show", calls'[i].status = "testing"
      PROVE  EndFollows(i)'
  <2>1. CASE i = n + 1
    BY <1>5, <2>1 DEF EndFollows
  <2>2. CASE i \in 1 .. n
    <3>1. EndFollows(i) /\ calls'[i] = calls[i]
      BY <1>2, <1>3, <1>8, <2>2 DEF ShownInv
    <3>2. \A k \in DOMAIN calls : k \in DOMAIN calls' /\ calls'[k] = calls[k]
      BY <1>1, <1>2, <1>3
    <3> QED
      BY <3>1, <3>2 DEF EndFollows
  <2> QED
    BY <1>6, <2>1, <2>2
<1>9. \A p \in Profiles :
        results'[p] = "testing" => \E other \in DOMAIN running' \cup Posted' : other[2] = p
  BY <1>4 DEF ShownInv
<1> QED
  BY <1>7, <1>8, <1>9 DEF ShownInv

\* What the rest of the line keeps when the first call is delivered.
LEMMA LineAdvances ==
  ASSUME TestsTypeOK, ShownInv, calls # <<>>, calls' = Tail(calls), running' = running
  PROVE  /\ \A i \in DOMAIN calls' : i \in Nat \ {0} /\ i + 1 \in DOMAIN calls /\ calls'[i] = calls[i + 1]
         /\ Head(calls) = calls[1] /\ 1 \in DOMAIN calls /\ Head(calls) \in Calls
         /\ \A i \in DOMAIN calls' : calls'[i].to = "show" /\ calls'[i].status = "testing" => EndFollows(i)'
         /\ \A i \in DOMAIN calls' : calls'[i].to = "finish" =>
              /\ calls[i] \in {Show(calls'[i].job, "tested"), Show(calls'[i].job, "canceled")}
              /\ i # 1 => calls'[i - 1] = calls[i]
<1>1. /\ \A i \in DOMAIN calls' : i \in Nat \ {0} /\ i + 1 \in DOMAIN calls /\ calls'[i] = calls[i + 1]
      /\ \A i \in DOMAIN calls : i \in Nat /\ (i = 1 \/ (i - 1 \in DOMAIN calls' /\ calls[i] = calls'[i - 1]))
  BY Rest DEF TestsTypeOK
<1>2. Head(calls) = calls[1] /\ 1 \in DOMAIN calls /\ Head(calls) \in Calls
  BY Rest DEF TestsTypeOK
<1>3. ASSUME NEW i \in DOMAIN calls', calls'[i].to = "show", calls'[i].status = "testing"
      PROVE  EndFollows(i)'
  <2>1. EndFollows(i + 1)
    BY <1>1, <1>3 DEF ShownInv
  <2>2. ASSUME NEW k \in DOMAIN calls, k > i + 1, calls[k].to = "finish",
               calls[k].job = calls[i + 1].job
        PROVE  EndFollows(i)'
    <3>1. i \in Nat /\ k \in Nat /\ k # 1
      BY <1>1, <2>2
    <3>2. k - 1 > i
      BY <2>2, <3>1
    <3>3. k - 1 \in DOMAIN calls' /\ calls[k] = calls'[k - 1]
      BY <1>1, <3>1
    <3> QED
      BY <1>1, <2>2, <3>2, <3>3 DEF EndFollows
  <2> QED
    BY <1>1, <2>1, <2>2 DEF EndFollows
<1>4. ASSUME NEW i \in DOMAIN calls', calls'[i].to = "finish"
      PROVE  /\ calls[i] \in {Show(calls'[i].job, "tested"), Show(calls'[i].job, "canceled")}
             /\ i # 1 => calls'[i - 1] = calls[i]
  <2>1. ShownBefore(i + 1) /\ i + 1 # 1 /\ i + 1 - 1 = i
    BY <1>1, <1>4 DEF ShownInv
  <2>2. i \in DOMAIN calls
    BY <1>1, LenProperties DEF TestsTypeOK
  <2> QED
    BY <1>1, <2>1, <2>2 DEF ShownBefore
<1> QED
  BY <1>1, <1>2, <1>3, <1>4

LEMMA ShowResults == TestsTypeOK /\ JobsInv /\ ShownInv /\ ShowCall => ShownInv'
<1> SUFFICES ASSUME TestsTypeOK, JobsInv, ShownInv, ShowCall
             PROVE  ShownInv'
  OBVIOUS
<1> DEFINE job == Head(calls).job
           status == Head(calls).status
<1>1. /\ calls # <<>> /\ calls' = Tail(calls) /\ running' = running
      /\ results' = [results EXCEPT ![job[2]] = status] /\ Head(calls).to = "show"
  BY DEF ShowCall
<1>2. job[2] \in Profiles /\ results \in [Profiles -> TestStatuses]
  BY <1>1, LineAdvances DEF Calls, Jobs, TestsTypeOK
<1>3. Posted' = Posted
  <2>1. PostedIn(calls') = PostedIn(calls)
    BY <1>1, Delivered DEF TestsTypeOK, JobsInv
  <2> QED
    BY <2>1 DEF Posted, PostedIn
<1>4. ASSUME NEW i \in DOMAIN calls', calls'[i].to = "finish"
      PROVE  ShownBefore(i)'
  <2>1. /\ calls[i] \in {Show(calls'[i].job, "tested"), Show(calls'[i].job, "canceled")}
        /\ i # 1 => calls'[i - 1] = calls[i]
    BY <1>1, <1>4, LineAdvances
  <2>2. CASE i = 1
    <3>1. job = calls'[1].job /\ status # "testing"
      BY <1>1, <2>1, <2>2, LineAdvances DEF Show
    <3> QED
      BY <1>1, <1>2, <2>2, <3>1 DEF ShownBefore
  <2>3. CASE i # 1
    BY <2>1, <2>3 DEF ShownBefore, Show
  <2> QED
    BY <2>2, <2>3
<1>5. ASSUME NEW p \in Profiles, results'[p] = "testing"
      PROVE  \E other \in DOMAIN running \cup Posted : other[2] = p
  <2>1. CASE p = job[2]
    <3>1. status = "testing"
      BY <1>1, <1>2, <1>5, <2>1
    <3>2. EndFollows(1) /\ calls[1].job = job
      BY <1>1, <3>1, LineAdvances DEF ShownInv
    <3>3. job \in DOMAIN running \cup Posted
      BY <3>2 DEF EndFollows, Posted, PostedIn
    <3> QED
      BY <2>1, <3>3
  <2>2. CASE p # job[2]
    BY <1>1, <1>2, <1>5, <2>2 DEF ShownInv
  <2> QED
    BY <2>1, <2>2
<1> QED
  BY <1>1, <1>3, <1>4, <1>5, LineAdvances DEF ShownInv

LEMMA FinishResults == TestsTypeOK /\ JobsInv /\ ShownInv /\ FinishCall => ShownInv'
<1> SUFFICES ASSUME TestsTypeOK, JobsInv, ShownInv, FinishCall
             PROVE  ShownInv'
  OBVIOUS
<1> DEFINE job == Head(calls).job
<1>1. /\ calls # <<>> /\ calls' = Tail(calls) /\ running' = running /\ results' = results
      /\ Head(calls).to = "finish"
  BY DEF FinishCall
<1>2. Posted' = Posted \ {job}
  BY FinishHears
<1>3. calls[1] = Head(calls) /\ results[job[2]] # "testing"
  BY <1>1, LineAdvances DEF ShownInv, ShownBefore
<1>4. ASSUME NEW i \in DOMAIN calls', calls'[i].to = "finish"
      PROVE  ShownBefore(i)'
  <2>1. /\ calls[i] \in {Show(calls'[i].job, "tested"), Show(calls'[i].job, "canceled")}
        /\ i # 1 => calls'[i - 1] = calls[i]
    BY <1>1, <1>4, LineAdvances
  <2>2. calls[i].to = "show"
    BY <2>1 DEF Show
  <2>3. i # 1
    BY <1>1, <1>3, <2>2
  <2> QED
    BY <2>1, <2>3 DEF ShownBefore, Show
<1>5. ASSUME NEW p \in Profiles, results'[p] = "testing"
      PROVE  \E other \in DOMAIN running \cup Posted' : other[2] = p
  <2>1. PICK other \in DOMAIN running \cup Posted : other[2] = p
    BY <1>1, <1>5 DEF ShownInv
  <2>2. other # job
    BY <1>1, <1>3, <1>5, <2>1
  <2> QED
    BY <1>2, <2>1, <2>2
<1> QED
  BY <1>1, <1>4, <1>5, LineAdvances DEF ShownInv

LEMMA ShownStep == TestsTypeOK /\ JobsInv /\ ShownInv /\ [TestsNext]_testsVars => ShownInv'
<1> SUFFICES ASSUME TestsTypeOK, JobsInv, ShownInv, [TestsNext]_testsVars
             PROVE  ShownInv'
  OBVIOUS
<1>1. CASE JobBegins
  <2>1. Head(pool) \in Jobs /\ results' = results
    BY <1>1, Begins DEF Elsewhere
  <2>2. CASE calls' = calls \o Reports(Head(pool), "canceled") /\ running' = running
    BY <2>1, <2>2, ResultsReported
  <2>3. CASE /\ calls' = Append(calls, Show(Head(pool), "testing"))
             /\ DOMAIN running' = DOMAIN running \cup {Head(pool)}
    BY <2>1, <2>3, ResultsBegun
  <2> QED
    BY <1>1, <2>2, <2>3, Begins
<1>2. ASSUME NEW job \in DOMAIN running, JobSteps(job)
      PROVE  ShownInv'
  <2>1. job \in Jobs /\ results' = results
    BY <1>2, JobStepKinds DEF Elsewhere, TestsTypeOK
  <2>2. ASSUME NEW status \in {"tested", "canceled"}, Ended(job, status)
        PROVE  ShownInv'
    <3>1. DOMAIN running' = DOMAIN running \ {job} /\ calls' = calls \o Reports(job, status)
      BY <2>2, EndedDomain DEF Ended
    <3> QED
      BY <2>1, <3>1, ResultsReported
  <2> QED
    BY <1>2, <2>1, <2>2, JobStepKinds, ResultsAlike
<1>3. ASSUME UNCHANGED <<calls, results, running>> PROVE ShownInv'
  BY <1>3, ResultsAlike
<1>4. ASSUME NEW job \in DOMAIN workers, WorkerSteps(job) PROVE ShownInv'
  BY <1>3, <1>4, WorkerTypes DEF WorkerStep, Elsewhere
<1>5. CASE StartTests \/ CancelTests \/ UNCHANGED testsVars
  BY <1>3, <1>5 DEF StartTests, CancelTests, testsVars
<1> QED
  BY <1>1, <1>2, <1>4, <1>5, ShowResults, FinishResults DEF TestsNext

-----------------------------------------------------------------------------
(* Theorems                                                                  *)

TestsInv == TestsTypeOK /\ JobsInv /\ FlagInv /\ ShownInv /\ WorkerInv /\ CountInv

LEMMA TestsInitially == TestsInit => TestsInv
<1> SUFFICES ASSUME TestsInit
             PROVE  TestsInv
  OBVIOUS
<1>1. DOMAIN pool = {} /\ DOMAIN running = {} /\ DOMAIN workers = {} /\ DOMAIN calls = {}
  BY DEF TestsInit
<1>2. Unreported = {} /\ Posted = {}
  BY <1>1 DEF Unreported, Posted, PostedIn, ToSet
<1>3. Cardinality({}) = 0
  BY FS_EmptySet
<1>4. pool \in Seq(Jobs) /\ calls \in Seq(Calls) /\ batch \in 0 .. MaxBatches
  BY PoolAssumption DEF TestsInit
<1>5. TestsTypeOK
  <2>1. results \in [Profiles -> TestStatuses]
    BY DEF TestsInit, TestStatuses
  <2>2. Cardinality(DOMAIN running) <= MaxConcurrent
    BY <1>1, <1>3, PoolAssumption
  <2>3. active \in Int /\ finished \in Nat /\ total \in Nat /\ cancelled = {}
    BY DEF TestsInit
  <2>4. cancelFlag \in BOOLEAN /\ busy \in BOOLEAN /\ testingUi \in BOOLEAN /\ overlapped \in BOOLEAN
    BY DEF TestsInit
  <2> QED
    BY <1>1, <1>4, <2>1, <2>2, <2>3, <2>4 DEF TestsTypeOK
<1>6. JobsInv
  BY <1>1, <1>2 DEF JobsInv, EndedOnce, ToSet
<1>7. FlagInv
  BY <1>2 DEF FlagInv, TestsInit
<1>8. ShownInv
  BY <1>1 DEF ShownInv, TestsInit
<1>9. WorkerInv
  BY <1>1 DEF WorkerInv, MeasuredOwn, Listening
<1>10. CountInv
  BY <1>2, <1>3 DEF CountInv, TestsInit
<1> QED
  BY <1>5, <1>6, <1>7, <1>8, <1>9, <1>10 DEF TestsInv

\* The strengthening of the three properties below: where the jobs are, what the flag, the
\* line of calls, the workers and the counters say of them.
THEOREM TestsAlwaysInv == TestsSpec => []TestsInv
<1>1. TestsInv /\ [TestsNext]_testsVars => TestsInv'
  BY TypeStep, JobsStep, FlagStep, ShownStep, WorkerInvStep, CountStep DEF TestsInv
<1> QED
  BY <1>1, TestsInitially, PTL DEF TestsSpec

\* Pool, threads, workers, line of calls and counters keep their types, and no more jobs
\* have a thread than the pool has (setMaxThreadCount).
THEOREM TestsTypeCorrect == TestsSpec => []TestsTypeOK
<1>1. TestsInv => TestsTypeOK
  BY DEF TestsInv
<1> QED
  BY <1>1, TestsAlwaysInv, PTL

\* With every number of ports, even a single one that all the tests are given: no delay is
\* measured through the server of another profile, and no worker outlives its job
\* (PortAllocator, worker/main.cpp, RealDelayTester::run).
THEOREM MeasuredAlwaysOwn == TestsSpec => []MeasuredOwn
<1>1. TestsInv => MeasuredOwn
  BY DEF TestsInv, WorkerInv
<1> QED
  BY <1>1, TestsAlwaysInv, PTL

\* Counters, busy flag and window agree with the jobs there are, and no profile is left at
\* "testing", for every number of profiles, threads and batches (startTests,
\* onJobFinished, checkAllFinished).
THEOREM CountersAlwaysAgree == TestsSpec => []CountersAgree
<1>1. TestsInv => CountersAgree
  <2> SUFFICES ASSUME TestsInv
               PROVE  CountersAgree
    OBVIOUS
  <2>1. \A p \in Profiles :
          results[p] = "testing" => \E job \in Unreported : job[2] = p
    BY DEF TestsInv, ShownInv, Unreported, Posted, PostedIn
  <2>2. CountInv
    BY DEF TestsInv
  <2> QED
    BY <2>1, <2>2 DEF CountersAgree, CountInv
<1> QED
  BY <1>1, TestsAlwaysInv, PTL

\* Reports of another job, or of one that was cancelled, post no result of this one.
LEMMA NoResultReported ==
  ASSUME TestsTypeOK, NEW job \in Jobs, NEW other \in Jobs, NEW status \in {"tested", "canceled"},
         calls' = calls \o Reports(other, status), status = "canceled" \/ other # job,
         Show(job, "tested") \in ToSet(calls')
  PROVE  Show(job, "tested") \in ToSet(calls)
<1>1. calls \in Seq(Calls)
  BY DEF TestsTypeOK
<1>2. DOMAIN calls = 1 .. Len(calls) /\ Len(calls) \in Nat
  BY <1>1, LenProperties
<1> DEFINE longer == calls \o Reports(other, status)
<1>3. /\ longer \in Seq(Calls) /\ Len(longer) = Len(calls) + 2
      /\ \A i \in 1 .. Len(calls) : longer[i] = calls[i]
      /\ longer[Len(calls) + 1] = Show(other, status)
      /\ longer[Len(calls) + 2] = Finish(other, status)
  BY <1>1, Reported, Finals
<1>4. DOMAIN longer = 1 .. Len(calls) + 2
  BY <1>3, LenProperties
<1>5. longer = calls'
  OBVIOUS
<1> HIDE DEF longer
<1>6. PICK i \in DOMAIN longer : longer[i] = Show(job, "tested")
  BY <1>5 DEF ToSet
<1>7. longer[i].status = "tested" /\ longer[i].job = job /\ longer[i].to = "show"
  BY <1>6 DEF Show
<1>8. i # Len(calls) + 1 /\ i # Len(calls) + 2
  BY <1>3, <1>7 DEF Show, Finish
<1>9. i \in 1 .. Len(calls)
  BY <1>2, <1>4, <1>8
<1> QED
  BY <1>2, <1>3, <1>6, <1>9 DEF ToSet

\* What a thread's step posts: no result while the flag is up, and none of another job.
LEMMA PostedResults ==
  ASSUME TestsTypeOK, NEW job \in Jobs, NEW other \in DOMAIN running, JobSteps(other),
         cancelFlag \/ job # other, Show(job, "tested") \in ToSet(calls')
  PROVE  Show(job, "tested") \in ToSet(calls)
<1>1. CASE calls' = calls
  BY <1>1
<1>2. other \in Jobs
  BY DEF TestsTypeOK
<1>3. CASE Ended(other, "canceled")
  BY <1>2, <1>3, NoResultReported DEF Ended
<1>4. CASE Ended(other, "tested") /\ ~cancelFlag
  BY <1>2, <1>4, NoResultReported DEF Ended
<1> QED
  BY <1>1, <1>3, <1>4 DEF JobSteps, PartBegins, Canceled, TcpEnds, DelayRefused, DelayStarts,
                          DelayAnswered, WorkerKilled, JobEnds

\* A line that lost its first call, or got one that shows no result.
LEMMA NoResultPosted ==
  ASSUME TestsTypeOK, NEW job \in Jobs, Show(job, "tested") \in ToSet(calls'),
         \/ calls # <<>> /\ calls' = Tail(calls)
         \/ \E other \in Jobs : calls' = Append(calls, Show(other, "testing"))
  PROVE  Show(job, "tested") \in ToSet(calls)
<1>1. calls \in Seq(Calls)
  BY DEF TestsTypeOK
<1>2. CASE calls # <<>> /\ calls' = Tail(calls)
  <2>1. \A i \in DOMAIN calls' : i + 1 \in DOMAIN calls /\ calls'[i] = calls[i + 1]
    BY <1>1, <1>2, Rest
  <2> QED
    BY <2>1 DEF ToSet
<1>3. ASSUME NEW other \in Jobs, calls' = Append(calls, Show(other, "testing"))
      PROVE  Show(job, "tested") \in ToSet(calls)
  <2> DEFINE longer == Append(calls, Show(other, "testing"))
  <2>1. Show(other, "testing") \in Calls
    BY Finals DEF Show, Calls
  <2>2. /\ DOMAIN calls = 1 .. Len(calls) /\ DOMAIN longer = 1 .. Len(calls) + 1
        /\ Len(calls) \in Nat
        /\ \A i \in DOMAIN calls : longer[i] = calls[i]
        /\ longer[Len(calls) + 1] = Show(other, "testing")
    BY <1>1, <2>1, AppendProperties, LenProperties
  <2>3. longer = calls'
    BY <1>3
  <2> HIDE DEF longer
  <2>4. PICK i \in DOMAIN longer : longer[i] = Show(job, "tested")
    BY <2>3 DEF ToSet
  <2>5. i # Len(calls) + 1
    BY <2>2, <2>4 DEF Show
  <2>6. i \in DOMAIN calls
    BY <2>2, <2>5
  <2> QED
    BY <2>2, <2>4, <2>6 DEF ToSet
<1> QED
  BY <1>2, <1>3

\* After a cancel no job of the batch begins, no part of a test begins, a worker is started
\* only for a job whose look at the flag came before the cancel, and no result counts as a
\* test, unless a batch was started over another (TestRunnable::run, startTests, cancel).
THEOREM CancelAlwaysStops == TestsSpec => CancelStops
<1> DEFINE Waits(job) == job \in ToSet(pool) => job \notin DOMAIN running'
           NoPart(job) == \A part \in Parts : At(job, part) => ~At(job, Begun(part))'
           NoWorker(job) == job \in DOMAIN workers' \ DOMAIN workers => At(job, "delayRuns")
           NoResult(job) ==
             Show(job, "tested") \in ToSet(calls') => Show(job, "tested") \in ToSet(calls)
           Held(job) == Waits(job) /\ NoPart(job) /\ NoWorker(job) /\ NoResult(job)
<1> DEFINE Stopped == ~overlapped => \A job \in Jobs : job[1] \in cancelled =>
             /\ job \in ToSet(pool) => job \notin DOMAIN running'
             /\ \A part \in Parts : At(job, part) => ~At(job, Begun(part))'
             /\ job \in DOMAIN workers' \ DOMAIN workers => At(job, "delayRuns")
             /\ Show(job, "tested") \in ToSet(calls') => Show(job, "tested") \in ToSet(calls)
<1>1. TestsInv /\ [TestsNext]_testsVars => [Stopped]_testsVars
  <2> SUFFICES ASSUME TestsInv, TestsNext, ~overlapped, NEW job \in Jobs, job[1] \in cancelled
               PROVE  Held(job)
    OBVIOUS
  <2>1. /\ TestsTypeOK /\ JobsInv /\ MeasuredOwn
        /\ \A other \in Unreported : other[1] = batch
        /\ batch \in cancelled => cancelFlag
    BY DEF TestsInv, FlagInv, WorkerInv
  <2>2. /\ ToSet(pool) \cup DOMAIN running \subseteq Unreported
        /\ ToSet(pool) \cap DOMAIN running = {}
    BY <2>1 DEF Unreported, JobsInv
  <2>3. job \in ToSet(pool) \cup DOMAIN running => cancelFlag
    BY <2>1, <2>2
  <2>4. /\ \A part \in Parts : Begun(part) # part /\ Begun(part) \notin Parts
        /\ \A part \in Parts : Begun(part) \notin {"delay", "wait", "end"}
    BY DEF Parts, Begun
  <2>5. running' = running => Waits(job) /\ NoPart(job)
    BY <2>2, <2>4 DEF At
  <2>6. workers' = workers => NoWorker(job)
    OBVIOUS
  <2>7. calls' = calls => NoResult(job)
    OBVIOUS
  <2>8. CASE JobBegins
    <3>1. /\ pool # <<>> /\ Head(pool) \in Jobs /\ workers' = workers
          /\ \/ running' = running
             \/ /\ ~cancelFlag /\ DOMAIN running' = DOMAIN running \cup {Head(pool)}
                /\ calls' = Append(calls, Show(Head(pool), "testing"))
                /\ running'[Head(pool)] \in Parts
                /\ \A other \in DOMAIN running \ {Head(pool)} : running'[other] = running[other]
      BY <2>1, <2>8, Begins
    <3>2. Waits(job) /\ NoPart(job)
      BY <2>3, <2>4, <2>5, <3>1 DEF At
    <3>3. NoResult(job)
      <4>1. CASE ~cancelFlag
        <5>1. calls' = Append(calls, Show(Head(pool), "testing"))
          BY <2>8, <4>1 DEF JobBegins
        <5> QED
          BY <2>1, <3>1, <5>1, NoResultPosted
      <4>2. CASE cancelFlag
        <5>1. calls' = calls \o Reports(Head(pool), "canceled")
          BY <2>8, <4>2 DEF JobBegins
        <5> QED
          BY <2>1, <3>1, <5>1, NoResultReported
      <4> QED
        BY <4>1, <4>2
    <3> QED
      BY <2>6, <3>1, <3>2, <3>3
  <2>9. ASSUME NEW other \in DOMAIN running, JobSteps(other)
        PROVE  Held(job)
    <3>1. Waits(job)
      BY <2>1, <2>2, <2>9, JobStepKinds, EndedDomain
    <3>2. NoPart(job)
      <4>1. CASE job = other
        BY <2>3, <2>4, <2>9, <4>1, EndedDomain
           DEF JobSteps, PartBegins, Canceled, TcpEnds, DelayRefused, DelayStarts, DelayAnswered,
               WorkerKilled, JobEnds, Goes, At
      <4>2. CASE job # other
        <5>1. job \in DOMAIN running' => job \in DOMAIN running /\ running'[job] = running[job]
          BY <2>9, <4>2, EndedDomain
             DEF JobSteps, PartBegins, Canceled, TcpEnds, DelayRefused, DelayStarts,
                 DelayAnswered, WorkerKilled, JobEnds, Goes
        <5> QED
          BY <2>4, <5>1 DEF At
      <4> QED
        BY <4>1, <4>2
    <3>3. NoWorker(job)
      <4>1. CASE DelayStarts(other)
        <5>1. DOMAIN workers' = DOMAIN workers \cup {other} /\ At(other, "delayRuns")
          BY <4>1, StartedDomain DEF DelayStarts
        <5> QED
          BY <5>1
      <4>2. CASE workers' = workers \/ WorkerGone(other)
        BY <4>2, GoneDomain
      <4> QED
        BY <2>9, <4>1, <4>2
           DEF JobSteps, PartBegins, Canceled, TcpEnds, DelayRefused, DelayAnswered,
               WorkerKilled, JobEnds
    <3>4. NoResult(job)
      <4>1. cancelFlag \/ job # other
        BY <2>3
      <4> QED
        BY <2>1, <2>9, <4>1, PostedResults
    <3> QED
      BY <3>1, <3>2, <3>3, <3>4
  <2>10. ASSUME NEW other \in DOMAIN workers, WorkerSteps(other)
         PROVE  Held(job)
    <3>1. running' = running /\ calls' = calls /\ DOMAIN workers' = DOMAIN workers
      BY <2>1, <2>10, WorkerTypes DEF WorkerStep
    <3> QED
      BY <2>5, <2>7, <3>1
  <2>11. CASE ShowCall \/ FinishCall
    <3>1. /\ running' = running /\ workers' = workers
          /\ calls # <<>> /\ calls' = Tail(calls)
      BY <2>11 DEF ShowCall, FinishCall
    <3>2. NoResult(job)
      BY <2>1, <3>1, NoResultPosted
    <3> QED
      BY <2>5, <2>6, <3>1, <3>2
  <2>12. CASE StartTests \/ CancelTests
    BY <2>5, <2>6, <2>7, <2>12 DEF StartTests, CancelTests
  <2> QED
    BY <2>8, <2>9, <2>10, <2>11, <2>12 DEF TestsNext
<1> QED
  BY <1>1, TestsAlwaysInv, PTL DEF TestsSpec, CancelStops

-----------------------------------------------------------------------------
(* The lists of profiles and subscriptions: the merge of a download *)

\* Every profile has an id of its own, one of those given out.
OwnIds(list, given) ==
  /\ \A i, j \in DOMAIN list : i # j => list[i].id # list[j].id
  /\ \A i \in DOMAIN list : list[i].id <= given

\* A subscription has one profile for a server.
OneEach(list) ==
  \A i, j \in DOMAIN list :
    i # j /\ list[i].sub # Manual => ~IsOf(list[j], list[i].sub, list[i].server)

\* The state of a merge, which may go past the bound on ids before it is refused.
WideRecords == [id : Nat, sub : Owners, server : Servers, missing : BOOLEAN]
Merging == [list : Seq(WideRecords), ids : Nat]

\* One link: the profile it replaces, or the one it adds.
LEMMA MergeLinkGives ==
  ASSUME NEW st \in Merging, NEW s \in Subscriptions, NEW server \in Servers
  PROVE /\ MergeLink(st, s, server) \in Merging
        /\ \/ \E at \in DOMAIN st.list :
                /\ IsOf(st.list[at], s, server)
                /\ MergeLink(st, s, server).ids = st.ids
                /\ MergeLink(st, s, server).list
                     = [st.list EXCEPT ![at] = Incoming(s, server, st.list[at].id)]
           \/ /\ \A i \in DOMAIN st.list : ~IsOf(st.list[i], s, server)
              /\ MergeLink(st, s, server).ids = st.ids + 1
              /\ MergeLink(st, s, server).list
                   = Append(st.list, Incoming(s, server, st.ids + 1))
<1> DEFINE known == {i \in DOMAIN st.list : IsOf(st.list[i], s, server)}
           at == LastOf(known)
<1>1. st.list \in Seq(WideRecords) /\ st.ids \in Nat /\ Len(st.list) \in Nat
      /\ DOMAIN st.list = 1 .. Len(st.list)
  BY DEF Merging
<1>2. known \in SUBSET (1 .. Len(st.list))
  BY <1>1
<1>3. \A id \in Nat : Incoming(s, server, id) \in WideRecords
  BY DEF Incoming, WideRecords, Owners
<1>4. CASE known # {}
  <2>1. at \in known
    BY <1>1, <1>2, <1>4, LastIsOne
  <2>2. at \in DOMAIN st.list /\ IsOf(st.list[at], s, server) /\ st.list[at].id \in Nat
    <3>1. at \in DOMAIN st.list /\ IsOf(st.list[at], s, server)
      BY <2>1
    <3> HIDE DEF at
    <3>2. st.list[at] \in WideRecords
      BY <1>1, <3>1
    <3> QED
      BY <3>1, <3>2 DEF WideRecords
  <2>3. MergeLink(st, s, server)
          = [st EXCEPT !.list = [st.list EXCEPT ![at] = Incoming(s, server, st.list[at].id)]]
    BY <1>4 DEF MergeLink
  <2> HIDE DEF known, at
  <2>4. [st.list EXCEPT ![at] = Incoming(s, server, st.list[at].id)] \in Seq(WideRecords)
    BY <1>1, <1>3, <2>2
  <2>5. /\ MergeLink(st, s, server).ids = st.ids
        /\ MergeLink(st, s, server).list
             = [st.list EXCEPT ![at] = Incoming(s, server, st.list[at].id)]
        /\ MergeLink(st, s, server) \in Merging
    BY <1>1, <2>3, <2>4 DEF Merging
  <2> QED
    BY <2>2, <2>5
<1>5. CASE known = {}
  <2>1. MergeLink(st, s, server)
          = [list |-> Append(st.list, Incoming(s, server, st.ids + 1)), ids |-> st.ids + 1]
    BY <1>5 DEF MergeLink
  <2>2. Append(st.list, Incoming(s, server, st.ids + 1)) \in Seq(WideRecords)
    BY <1>1, <1>3
  <2>3. MergeLink(st, s, server) \in Merging
    BY <1>1, <2>1, <2>2 DEF Merging
  <2>4. \A i \in DOMAIN st.list : ~IsOf(st.list[i], s, server)
    BY <1>5
  <2> QED
    BY <2>1, <2>3, <2>4
<1> QED
  BY <1>4, <1>5

\* The merge of the first n links: the profiles that were there keep their place, id, owner
\* and server, and only those of the subscription change; new ones come behind, with new ids;
\* and every link has its profile.
MergedSoFar(st, s, links, n) ==
  /\ st \in Merging
  /\ st.ids >= issued
  /\ Len(st.list) >= Len(profiles)
  /\ \A i \in DOMAIN profiles :
       /\ st.list[i].id = profiles[i].id
       /\ st.list[i].sub = profiles[i].sub
       /\ st.list[i].server = profiles[i].server
       /\ st.list[i] # profiles[i] => profiles[i].sub = s
  /\ \A i \in DOMAIN st.list : i > Len(profiles) => st.list[i].id > issued
  /\ OwnIds(st.list, st.ids)
  /\ OneEach(profiles) => OneEach(st.list)
  /\ \A k \in 1 .. n : \E i \in DOMAIN st.list :
       IsOf(st.list[i], s, links[k]) /\ ~st.list[i].missing

LEMMA MergeReplaces ==
  ASSUME NEW st \in Merging, NEW next \in Merging, NEW s \in Subscriptions, NEW server \in Servers,
         NEW links, NEW n \in Nat, profiles \in Seq(ProfileRecords),
         MergedSoFar(st, s, links, n), links[n + 1] = server,
         NEW at \in DOMAIN st.list, IsOf(st.list[at], s, server), next.ids = st.ids,
         next.list = [st.list EXCEPT ![at] = Incoming(s, server, st.list[at].id)]
  PROVE MergedSoFar(next, s, links, n + 1)
<1>1. /\ st.list \in Seq(WideRecords) /\ next.list \in Seq(WideRecords)
      /\ Len(next.list) = Len(st.list) /\ DOMAIN next.list = DOMAIN st.list
      /\ DOMAIN st.list = 1 .. Len(st.list) /\ Len(st.list) \in Nat /\ Len(profiles) \in Nat
      /\ DOMAIN profiles = 1 .. Len(profiles)
  BY DEF Merging
<1>2. /\ next.list[at] = Incoming(s, server, st.list[at].id)
      /\ \A i \in DOMAIN st.list : i # at => next.list[i] = st.list[i]
  BY <1>1
<1>3. \A i \in DOMAIN st.list : /\ next.list[i].id = st.list[i].id
                                /\ next.list[i].sub = st.list[i].sub
                                /\ next.list[i].server = st.list[i].server
                                /\ next.list[i] # st.list[i] => st.list[i].sub = s
  BY <1>2 DEF Incoming, IsOf
<1>4. DOMAIN profiles \subseteq DOMAIN st.list
  BY <1>1 DEF MergedSoFar
<1>5. \A i \in DOMAIN profiles :
        /\ next.list[i].id = profiles[i].id
        /\ next.list[i].sub = profiles[i].sub
        /\ next.list[i].server = profiles[i].server
        /\ next.list[i] # profiles[i] => profiles[i].sub = s
  BY <1>3, <1>4 DEF MergedSoFar
<1>6. \A i \in DOMAIN next.list : i > Len(profiles) => next.list[i].id > issued
  BY <1>1, <1>3 DEF MergedSoFar
<1>7. OwnIds(next.list, next.ids)
  <2>1. /\ \A i, j \in DOMAIN st.list : i # j => st.list[i].id # st.list[j].id
        /\ \A i \in DOMAIN st.list : st.list[i].id <= st.ids
    BY DEF MergedSoFar, OwnIds
  <2>2. DOMAIN next.list = DOMAIN st.list
    BY <1>1
  <2>3. ASSUME NEW i \in DOMAIN next.list, NEW j \in DOMAIN next.list, i # j
        PROVE next.list[i].id # next.list[j].id
    <3>1. next.list[i].id = st.list[i].id /\ next.list[j].id = st.list[j].id
      BY <1>3, <2>2
    <3>2. st.list[i].id # st.list[j].id
      BY <2>1, <2>2, <2>3
    <3> QED
      BY <3>1, <3>2
  <2>4. \A i \in DOMAIN next.list : next.list[i].id <= next.ids
    BY <1>3, <2>1, <2>2
  <2> QED
    BY <2>3, <2>4 DEF OwnIds
<1>8. OneEach(st.list) => OneEach(next.list)
  <2> SUFFICES ASSUME OneEach(st.list), NEW i \in DOMAIN st.list, NEW j \in DOMAIN st.list,
                      i # j, next.list[i].sub # Manual,
                      IsOf(next.list[j], next.list[i].sub, next.list[i].server)
               PROVE FALSE
    BY <1>1 DEF OneEach
  <2>1. st.list[i].sub # Manual /\ IsOf(st.list[j], st.list[i].sub, st.list[i].server)
    BY <1>3 DEF IsOf
  <2> QED
    BY <2>1 DEF OneEach
<1>9. ASSUME NEW k \in 1 .. n + 1
      PROVE \E i \in DOMAIN next.list : IsOf(next.list[i], s, links[k]) /\ ~next.list[i].missing
  <2>1. IsOf(next.list[at], s, server) /\ ~next.list[at].missing
    BY <1>2 DEF Incoming, IsOf
  <2>2. CASE k = n + 1
    BY <1>1, <2>1, <2>2
  <2>3. CASE k # n + 1
    <3>1. k \in 1 .. n
      BY <2>3
    <3>2. PICK i \in DOMAIN st.list : IsOf(st.list[i], s, links[k]) /\ ~st.list[i].missing
      BY <3>1 DEF MergedSoFar
    <3>3. IsOf(next.list[i], s, links[k]) /\ ~next.list[i].missing
      BY <1>2, <1>3, <2>1, <3>2 DEF IsOf
    <3> QED
      BY <1>1, <3>3
  <2> QED
    BY <2>2, <2>3
<1> QED
  BY <1>1, <1>5, <1>6, <1>7, <1>8, <1>9 DEF MergedSoFar

LEMMA MergeAdds ==
  ASSUME NEW st \in Merging, NEW next \in Merging, NEW s \in Subscriptions, NEW server \in Servers,
         NEW links, NEW n \in Nat, profiles \in Seq(ProfileRecords), issued \in Nat,
         MergedSoFar(st, s, links, n), links[n + 1] = server,
         \A i \in DOMAIN st.list : ~IsOf(st.list[i], s, server), next.ids = st.ids + 1,
         next.list = Append(st.list, Incoming(s, server, st.ids + 1))
  PROVE MergedSoFar(next, s, links, n + 1)
<1> DEFINE at == Len(st.list) + 1
<1>1. /\ st.list \in Seq(WideRecords) /\ next.list \in Seq(WideRecords)
      /\ Len(next.list) = at /\ DOMAIN next.list = 1 .. at
      /\ DOMAIN st.list = 1 .. Len(st.list) /\ Len(st.list) \in Nat /\ Len(profiles) \in Nat
      /\ DOMAIN profiles = 1 .. Len(profiles) /\ st.ids \in Nat
      /\ st.ids >= issued /\ Len(st.list) >= Len(profiles)
  BY DEF Merging, MergedSoFar
<1>2. /\ next.list[at] = Incoming(s, server, st.ids + 1)
      /\ \A i \in DOMAIN st.list : next.list[i] = st.list[i]
  BY <1>1
<1>3. \A i \in DOMAIN next.list : i = at \/ i \in DOMAIN st.list
  BY <1>1
<1>4. DOMAIN profiles \subseteq DOMAIN st.list /\ at \in DOMAIN next.list
  BY <1>1
<1>5. /\ next.list[at].id = st.ids + 1 /\ next.list[at].sub = s /\ next.list[at].server = server
      /\ ~next.list[at].missing
  BY <1>2 DEF Incoming
<1>6. \A i \in DOMAIN st.list : st.list[i].id <= st.ids /\ st.list[i].id \in Nat
  <2>1. \A i \in DOMAIN st.list : st.list[i] \in WideRecords
    BY <1>1
  <2>2. OwnIds(st.list, st.ids)
    BY DEF MergedSoFar
  <2> QED
    BY <2>1, <2>2 DEF OwnIds, WideRecords
<1> HIDE DEF at
<1>7. \A i \in DOMAIN profiles :
        /\ next.list[i].id = profiles[i].id
        /\ next.list[i].sub = profiles[i].sub
        /\ next.list[i].server = profiles[i].server
        /\ next.list[i] # profiles[i] => profiles[i].sub = s
  BY <1>2, <1>4 DEF MergedSoFar
<1>8. \A i \in DOMAIN next.list : i > Len(profiles) => next.list[i].id > issued
  <2>1. next.list[at].id > issued
    BY <1>1, <1>5
  <2> QED
    BY <1>2, <1>3, <2>1 DEF MergedSoFar
<1>9. OwnIds(next.list, next.ids)
  <2>1. \A i \in DOMAIN st.list : next.list[i].id # next.list[at].id
    BY <1>1, <1>2, <1>5, <1>6
  <2>2. \A i, j \in DOMAIN st.list : i # j => next.list[i].id # next.list[j].id
    BY <1>2 DEF MergedSoFar, OwnIds
  <2>3. \A i \in DOMAIN next.list : next.list[i].id <= next.ids
    BY <1>1, <1>2, <1>3, <1>5, <1>6
  <2>4. \A i, j \in DOMAIN next.list : i # j => next.list[i].id # next.list[j].id
    BY <1>3, <2>1, <2>2
  <2> QED
    BY <2>3, <2>4 DEF OwnIds
<1>10. OneEach(st.list) => OneEach(next.list)
  <2> SUFFICES ASSUME OneEach(st.list), NEW i \in DOMAIN next.list, NEW j \in DOMAIN next.list,
                      i # j, next.list[i].sub # Manual,
                      IsOf(next.list[j], next.list[i].sub, next.list[i].server)
               PROVE FALSE
    BY DEF OneEach
  <2>1. CASE i \in DOMAIN st.list /\ j \in DOMAIN st.list
    BY <1>2, <2>1 DEF OneEach
  <2>2. CASE i = at /\ j \in DOMAIN st.list
    BY <1>2, <1>5, <2>2
  <2>3. CASE j = at /\ i \in DOMAIN st.list
    BY <1>2, <1>5, <2>3 DEF IsOf
  <2> QED
    BY <1>3, <2>1, <2>2, <2>3
<1>11. ASSUME NEW k \in 1 .. n + 1
       PROVE \E i \in DOMAIN next.list : IsOf(next.list[i], s, links[k]) /\ ~next.list[i].missing
  <2>1. CASE k = n + 1
    BY <1>4, <1>5, <2>1 DEF IsOf
  <2>2. CASE k # n + 1
    <3>1. k \in 1 .. n
      BY <2>2
    <3>2. PICK i \in DOMAIN st.list : IsOf(st.list[i], s, links[k]) /\ ~st.list[i].missing
      BY <3>1 DEF MergedSoFar
    <3>3. i \in DOMAIN next.list /\ next.list[i] = st.list[i]
      BY <1>1, <1>2 DEF at
    <3> QED
      BY <3>2, <3>3
  <2> QED
    BY <2>1, <2>2
<1>12. next.ids >= issued /\ Len(next.list) >= Len(profiles)
  BY <1>1 DEF at
<1> QED
  BY <1>7, <1>8, <1>9, <1>10, <1>11, <1>12 DEF MergedSoFar

\* The lists after each link are those of the loop.
LEMMA MergedListsRun ==
  ASSUME NEW s \in Subscriptions, NEW links \in Seq(Servers), profiles \in Seq(ProfileRecords),
         issued \in Nat
  PROVE MergedLists(s, links)
          = [k \in 0 .. Len(links) |->
               IF k = 0 THEN [list |-> profiles, ids |-> issued]
               ELSE MergeLink(MergedLists(s, links)[k - 1], s, links[k])]
<1> DEFINE n == Len(links)
           start == [list |-> profiles, ids |-> issued]
           round == [x \in Merging \X (1 .. n) |-> MergeLink(x[1], s, links[x[2]])]
           IsLists(f) == f = [k \in 0 .. n |-> IF k = 0 THEN start ELSE MergeLink(f[k - 1], s, links[k])]
<1>1. n \in Nat /\ \A k \in 1 .. n : links[k] \in Servers
  OBVIOUS
<1>2. start \in Merging
  <2>1. ProfileRecords \subseteq WideRecords
    BY BoundsAssumption DEF ProfileRecords, WideRecords, Ids
  <2>2. profiles \in Seq(WideRecords)
    BY <2>1, SeqMonotonic
  <2> QED
    BY <2>2 DEF Merging
<1> HIDE DEF start
<1>3. round \in [Merging \X (1 .. n) -> Merging]
  BY <1>1, MergeLinkGives
<1> HIDE DEF round
<1>4. PICK run : IsRun(run, Merging, n, round, start)
  BY <1>1, <1>2, <1>3, RunExists
<1>5. /\ run \in [0 .. n -> Merging]
      /\ run[0] = start
      /\ \A k \in 1 .. n : run[k] = round[<<run[k - 1], k>>]
  BY <1>4 DEF IsRun
<1>6. IsLists(run)
  <2>0. \A k \in 1 .. n : k - 1 \in 0 .. n
    BY <1>1
  <2>1. \A k \in 1 .. n : run[k - 1] \in Merging
    BY <1>5, <2>0
  <2>2. \A k \in 1 .. n : run[k] = MergeLink(run[k - 1], s, links[k])
    BY <1>5, <2>1 DEF round
  <2>3. \A k \in 0 .. n : k = 0 \/ k \in 1 .. n
    BY <1>1
  <2> DEFINE merged == [k \in 0 .. n |-> IF k = 0 THEN start ELSE MergeLink(run[k - 1], s, links[k])]
  <2>4. \A k \in 0 .. n : run[k] = merged[k]
    BY <1>5, <2>2, <2>3
  <2> QED
    BY <1>5, <2>4
<1>7. MergedLists(s, links) = CHOOSE f : IsLists(f)
  BY DEF MergedLists, start
<1> HIDE DEF IsLists
<1>8. IsLists(MergedLists(s, links))
  BY <1>6, <1>7, Zenon
<1> QED
  BY <1>8 DEF IsLists, start

LEMMA MergedAll ==
  ASSUME NEW s \in Subscriptions, NEW links \in Seq(Servers), profiles \in Seq(ProfileRecords),
         issued \in Nat, OwnIds(profiles, issued)
  PROVE MergedSoFar(MergedLists(s, links)[Len(links)], s, links, Len(links))
<1> DEFINE n == Len(links)
           lists == MergedLists(s, links)
           start == [list |-> profiles, ids |-> issued]
           T == {k \in Nat : k <= n => MergedSoFar(lists[k], s, links, k)}
<1>1. n \in Nat /\ \A k \in 1 .. n : links[k] \in Servers
  OBVIOUS
<1>2. /\ lists[0] = start
      /\ \A k \in 1 .. n : lists[k] = MergeLink(lists[k - 1], s, links[k])
  <2>1. \A k \in 1 .. n : k \in 0 .. n /\ k # 0
    BY <1>1
  <2>2. 0 \in 0 .. n
    BY <1>1
  <2>3. lists = [k \in 0 .. n |-> IF k = 0 THEN start ELSE MergeLink(lists[k - 1], s, links[k])]
    BY MergedListsRun
  <2> HIDE DEF lists, start, n
  <2> QED
    BY <2>1, <2>2, <2>3
<1>3. MergedSoFar(start, s, links, 0)
  <2>1. ProfileRecords \subseteq WideRecords
    BY BoundsAssumption DEF ProfileRecords, WideRecords, Ids
  <2>2. profiles \in Seq(WideRecords)
    BY <2>1, SeqMonotonic
  <2>3. start \in Merging
    BY <2>2 DEF Merging
  <2> QED
    BY <2>3 DEF MergedSoFar
<1> HIDE DEF lists, start
<1>4. 0 \in T
  BY <1>2, <1>3
<1>5. ASSUME NEW k \in T PROVE k + 1 \in T
  <2>0. k \in Nat /\ (k <= n => MergedSoFar(lists[k], s, links, k))
    BY <1>5
  <2> HIDE DEF T
  <2>1. ASSUME k + 1 <= n PROVE MergedSoFar(lists[k + 1], s, links, k + 1)
    <3>1. k + 1 \in 1 .. n /\ k <= n /\ (k + 1) - 1 = k
      BY <1>1, <2>0, <2>1
    <3>2. MergedSoFar(lists[k], s, links, k) /\ lists[k] \in Merging
      BY <2>0, <3>1 DEF MergedSoFar
    <3>3. lists[k + 1] = MergeLink(lists[k], s, links[k + 1]) /\ links[k + 1] \in Servers
      BY <1>1, <1>2, <3>1
    <3> DEFINE st == lists[k]
               next == lists[k + 1]
               server == links[k + 1]
    <3>4. st \in Merging /\ MergedSoFar(st, s, links, k) /\ next = MergeLink(st, s, server)
          /\ server \in Servers /\ links[k + 1] = server
      BY <3>2, <3>3
    <3> HIDE DEF st, next, server
    <3>5. /\ next \in Merging
          /\ \/ \E at \in DOMAIN st.list :
                  /\ IsOf(st.list[at], s, server)
                  /\ next.ids = st.ids
                  /\ next.list = [st.list EXCEPT ![at] = Incoming(s, server, st.list[at].id)]
             \/ /\ \A i \in DOMAIN st.list : ~IsOf(st.list[i], s, server)
                /\ next.ids = st.ids + 1
                /\ next.list = Append(st.list, Incoming(s, server, st.ids + 1))
      BY <3>4, MergeLinkGives
    <3>6. CASE \E at \in DOMAIN st.list :
                 /\ IsOf(st.list[at], s, server)
                 /\ next.ids = st.ids
                 /\ next.list = [st.list EXCEPT ![at] = Incoming(s, server, st.list[at].id)]
      <4>1. PICK at \in DOMAIN st.list :
                 /\ IsOf(st.list[at], s, server)
                 /\ next.ids = st.ids
                 /\ next.list = [st.list EXCEPT ![at] = Incoming(s, server, st.list[at].id)]
        BY <3>6
      <4>2. MergedSoFar(next, s, links, k + 1)
        BY <2>0, <3>4, <3>5, <4>1, MergeReplaces
      <4> QED
        BY <4>2 DEF next
    <3>7. CASE /\ \A i \in DOMAIN st.list : ~IsOf(st.list[i], s, server)
               /\ next.ids = st.ids + 1
               /\ next.list = Append(st.list, Incoming(s, server, st.ids + 1))
      <4>1. MergedSoFar(next, s, links, k + 1)
        BY <2>0, <3>4, <3>5, <3>7, MergeAdds
      <4> QED
        BY <4>1 DEF next
    <3> QED
      BY <3>5, <3>6, <3>7
  <2> QED
    BY <2>0, <2>1 DEF T
<1>6. T \in SUBSET Nat
  OBVIOUS
<1> HIDE DEF T
<1>7. n \in T
  BY <1>1, <1>4, <1>5, <1>6, AllNumbers
<1> QED
  BY <1>7 DEF T, lists

\* What the end of a download with links leaves: every profile keeps its place, id and server,
\* and only those of the subscription change; new ones come behind, with new ids; and of the
\* subscription's profiles those of the links are there unmarked, and no other.
LEMMA MergeLinksGives ==
  ASSUME NEW s \in Subscriptions, NEW links \in Seq(Servers), profiles \in Seq(ProfileRecords),
         issued \in Nat, OwnIds(profiles, issued), MergeLinks(s, links)
  PROVE /\ profiles' \in Seq(ProfileRecords)
        /\ issued' \in 0 .. MaxIds /\ issued' >= issued
        /\ Len(profiles') >= Len(profiles)
        /\ \A i \in DOMAIN profiles :
             /\ profiles'[i].id = profiles[i].id
             /\ profiles'[i].server = profiles[i].server
             /\ profiles'[i] # profiles[i] => profiles[i].sub = s
        /\ \A i \in DOMAIN profiles' : i > Len(profiles) => profiles'[i].id > issued
        /\ OwnIds(profiles', issued')
        /\ OneEach(profiles) => OneEach(profiles')
        /\ \A k \in DOMAIN links : \E i \in DOMAIN profiles' :
             IsOf(profiles'[i], s, links[k]) /\ ~profiles'[i].missing
        /\ \A i \in DOMAIN profiles' :
             profiles'[i].sub = s /\ ~profiles'[i].missing => profiles'[i].server \in ToSet(links)
<1> DEFINE st == MergedLists(s, links)[Len(links)]
           seen == ToSet(links)
<1>1. MergedSoFar(st, s, links, Len(links))
  BY MergedAll
<1>2. /\ st.ids <= MaxIds
      /\ profiles' = MarkMissing(st.list, s, seen)
      /\ issued' = st.ids
  BY DEF MergeLinks
<1> HIDE DEF st
<1>3. /\ st.list \in Seq(WideRecords) /\ st.ids \in Nat /\ st.ids >= issued
      /\ DOMAIN st.list = 1 .. Len(st.list) /\ Len(st.list) \in Nat
      /\ Len(st.list) >= Len(profiles) /\ Len(profiles) \in Nat
      /\ DOMAIN profiles = 1 .. Len(profiles)
  BY <1>1 DEF MergedSoFar, Merging
<1> DEFINE Marked(p) == IF p.sub = s /\ p.server \notin seen THEN [p EXCEPT !.missing = TRUE] ELSE p
<1>4. profiles' = [i \in DOMAIN st.list |-> Marked(st.list[i])]
  BY <1>2 DEF MarkMissing
<1>5. \A i \in DOMAIN st.list : st.list[i] \in WideRecords
  BY <1>3
<1>6. ASSUME NEW i \in DOMAIN st.list
      PROVE /\ profiles'[i] \in WideRecords
            /\ profiles'[i].id = st.list[i].id
            /\ profiles'[i].sub = st.list[i].sub
            /\ profiles'[i].server = st.list[i].server
            /\ st.list[i].sub # s => profiles'[i] = st.list[i]
            /\ st.list[i].server \in seen => profiles'[i] = st.list[i]
            /\ st.list[i].sub = s /\ st.list[i].server \notin seen => profiles'[i].missing
  BY <1>4, <1>5 DEF WideRecords
<1> HIDE DEF Marked
<1>7. Len(profiles') = Len(st.list) /\ DOMAIN profiles' = DOMAIN st.list
  BY <1>3, <1>4
<1>8. \A i \in DOMAIN st.list : st.list[i].id \in 1 .. MaxIds
  <2> TAKE i \in DOMAIN st.list
  <2>1. st.list[i].id <= st.ids /\ st.list[i].id \in Nat
    <3>1. OwnIds(st.list, st.ids)
      BY <1>1 DEF MergedSoFar
    <3> QED
      BY <1>5, <3>1 DEF OwnIds, WideRecords
  <2>2. st.list[i].id >= 1
    <3>1. CASE i \in DOMAIN profiles
      <4>0. profiles[i] \in ProfileRecords
        BY <3>1
      <4>1. profiles[i].id \in 1 .. MaxIds
        BY <4>0 DEF ProfileRecords, Ids
      <4> QED
        BY <1>1, <3>1, <4>1 DEF MergedSoFar
    <3>2. CASE i \notin DOMAIN profiles
      <4>1. i > Len(profiles)
        BY <1>3, <3>2
      <4>2. st.list[i].id > issued
        BY <1>1, <4>1 DEF MergedSoFar
      <4> QED
        BY <2>1, <4>2
    <3> QED
      BY <3>1, <3>2
  <2> QED
    BY <1>2, <1>3, <2>1, <2>2, BoundsAssumption
<1>9. profiles' \in Seq(ProfileRecords)
  <2>1. \A i \in DOMAIN st.list : profiles'[i] \in ProfileRecords
    BY <1>6, <1>8 DEF WideRecords, ProfileRecords, Ids
  <2>2. profiles' \in [1 .. Len(st.list) -> ProfileRecords]
    BY <1>3, <1>4, <2>1
  <2> QED
    BY <1>3, <2>2, SeqDef
<1>10. issued' \in 0 .. MaxIds /\ issued' >= issued
  BY <1>2, <1>3, BoundsAssumption
<1>11. ASSUME NEW i \in DOMAIN profiles
       PROVE /\ profiles'[i].id = profiles[i].id
             /\ profiles'[i].server = profiles[i].server
             /\ profiles'[i] # profiles[i] => profiles[i].sub = s
  <2>1. i \in DOMAIN st.list
    BY <1>3
  <2> QED
    BY <1>1, <1>6, <2>1 DEF MergedSoFar
<1>12. \A i \in DOMAIN profiles' : i > Len(profiles) => profiles'[i].id > issued
  BY <1>1, <1>6, <1>7 DEF MergedSoFar
<1>13. OwnIds(profiles', issued')
  <2>1. OwnIds(st.list, st.ids)
    BY <1>1 DEF MergedSoFar
  <2>2. ASSUME NEW i \in DOMAIN profiles', NEW j \in DOMAIN profiles', i # j
        PROVE profiles'[i].id # profiles'[j].id
    <3>1. profiles'[i].id = st.list[i].id /\ profiles'[j].id = st.list[j].id
      BY <1>6, <1>7
    <3> QED
      BY <1>7, <2>1, <2>2, <3>1 DEF OwnIds
  <2>3. \A i \in DOMAIN profiles' : profiles'[i].id <= issued'
    BY <1>2, <1>6, <1>7, <2>1 DEF OwnIds
  <2> QED
    BY <2>2, <2>3 DEF OwnIds
<1>14. OneEach(profiles) => OneEach(profiles')
  <2> SUFFICES ASSUME OneEach(st.list), NEW i \in DOMAIN profiles', NEW j \in DOMAIN profiles',
                      i # j, profiles'[i].sub # Manual,
                      IsOf(profiles'[j], profiles'[i].sub, profiles'[i].server)
               PROVE FALSE
    BY <1>1 DEF OneEach, MergedSoFar
  <2>1. IsOf(st.list[j], st.list[i].sub, st.list[i].server) /\ st.list[i].sub # Manual
    BY <1>6, <1>7 DEF IsOf
  <2> QED
    BY <1>7, <2>1 DEF OneEach
<1>15. ASSUME NEW k \in DOMAIN links
       PROVE \E i \in DOMAIN profiles' : IsOf(profiles'[i], s, links[k]) /\ ~profiles'[i].missing
  <2>1. links[k] \in seen
    BY DEF ToSet
  <2>2. k \in 1 .. Len(links)
    OBVIOUS
  <2>3. PICK i \in DOMAIN st.list : IsOf(st.list[i], s, links[k]) /\ ~st.list[i].missing
    BY <1>1, <2>2 DEF MergedSoFar
  <2>4. profiles'[i] = st.list[i]
    BY <1>6, <2>1, <2>3 DEF IsOf
  <2> QED
    BY <1>7, <2>3, <2>4
<1>16. \A i \in DOMAIN profiles' :
         profiles'[i].sub = s /\ ~profiles'[i].missing => profiles'[i].server \in ToSet(links)
  BY <1>6, <1>7
<1>17. Len(profiles') >= Len(profiles)
  BY <1>3, <1>7
<1> QED
  BY <1>9, <1>10, <1>11, <1>12, <1>13, <1>14, <1>15, <1>16, <1>17

-----------------------------------------------------------------------------
(* The lists of profiles and subscriptions: parts of lists *)

LEMMA FrontOf ==
  ASSUME NEW A, NEW list \in Seq(A), list # <<>>
  PROVE /\ Front(list) \in Seq(A)
        /\ Len(Front(list)) = Len(list) - 1 /\ Len(list) >= 1
        /\ \A i \in 1 .. Len(list) - 1 : Front(list)[i] = list[i]
        /\ Last(list) = list[Len(list)] /\ Last(list) \in A
<1>1. Len(list) \in Nat /\ Len(list) >= 1
  BY EmptySeq, LenProperties
<1>2. /\ SubSeq(list, 1, Len(list) - 1) \in Seq(A)
      /\ Len(SubSeq(list, 1, Len(list) - 1)) = Len(list) - 1
      /\ \A i \in 1 .. Len(list) - 1 : SubSeq(list, 1, Len(list) - 1)[i] = list[i]
  <2> DEFINE m == Len(list) - 1
  <2>0. m \in Nat /\ m - 1 + 1 = m /\ \A i \in 1 .. m : i \in 1 .. Len(list) /\ 1 + i - 1 = i
    BY <1>1
  <2>1. m \in Int /\ 1 \in Int /\ \A i \in 1 .. m : list[i] \in A
    BY <2>0
  <2> HIDE DEF m
  <2>2. /\ SubSeq(list, 1, m) \in Seq(A)
        /\ Len(SubSeq(list, 1, m)) = IF 1 <= m THEN m - 1 + 1 ELSE 0
        /\ \A i \in 1 .. m - 1 + 1 : SubSeq(list, 1, m)[i] = list[1 + i - 1]
    BY <2>1, SubSeqProperties
  <2>3. Len(SubSeq(list, 1, m)) = m
    BY <2>0, <2>2
  <2> QED
    BY <2>0, <2>2, <2>3 DEF m
<1>3. list[Len(list)] \in A
  BY <1>1
<1> QED
  BY <1>1, <1>2, <1>3 DEF Front, Last

LEMMA Removed ==
  ASSUME NEW A, NEW list \in Seq(A), NEW row \in 1 .. Len(list)
  PROVE /\ RemoveAt(list, row) \in Seq(A)
        /\ Len(RemoveAt(list, row)) = Len(list) - 1
        /\ \A k \in 1 .. Len(list) - 1 :
             RemoveAt(list, row)[k] = IF k < row THEN list[k] ELSE list[k + 1]
<1> DEFINE n == Len(list)
           before == SubSeq(list, 1, row - 1)
           behind == SubSeq(list, row + 1, n)
<1>1. n \in Nat /\ row \in Nat /\ 1 <= row /\ row <= n
  OBVIOUS
<1>2. /\ before \in Seq(A) /\ Len(before) = row - 1
      /\ \A k \in 1 .. row - 1 : before[k] = list[k]
  BY <1>1, SubSeqProperties
<1>3. /\ behind \in Seq(A) /\ Len(behind) = n - row
      /\ \A k \in 1 .. n - row : behind[k] = list[k + row]
  BY <1>1, SubSeqProperties
<1>4. RemoveAt(list, row) = before \o behind
  BY DEF RemoveAt
<1> HIDE DEF before, behind
<1>5. /\ before \o behind \in Seq(A)
      /\ Len(before \o behind) = Len(before) + Len(behind)
      /\ \A k \in 1 .. Len(before) + Len(behind) :
           (before \o behind)[k] = IF k <= Len(before) THEN before[k] ELSE behind[k - Len(before)]
  BY <1>2, <1>3, ConcatProperties
<1>6. ASSUME NEW k \in 1 .. n - 1
      PROVE (before \o behind)[k] = IF k < row THEN list[k] ELSE list[k + 1]
  <2>1. k \in 1 .. Len(before) + Len(behind)
    BY <1>1, <1>2, <1>3
  <2>2. CASE k < row
    <3>1. k <= Len(before) /\ k \in 1 .. row - 1
      BY <1>1, <1>2, <2>2
    <3> QED
      BY <1>2, <1>5, <2>1, <2>2, <3>1
  <2>3. CASE ~(k < row)
    <3>1. ~(k <= Len(before)) /\ k - Len(before) = k - row + 1 /\ k - row + 1 \in 1 .. n - row
          /\ (k - row + 1) + row = k + 1
      BY <1>1, <1>2, <2>3
    <3> QED
      BY <1>3, <1>5, <2>1, <2>3, <3>1
  <2> QED
    BY <2>2, <2>3
<1> QED
  BY <1>1, <1>2, <1>3, <1>4, <1>5, <1>6

\* Every item of one list is an item of the other, each in its own place.
PartOf(part, list) ==
  \E from \in [DOMAIN part -> DOMAIN list] :
    /\ \A k \in DOMAIN part : part[k] = list[from[k]]
    /\ \A k, m \in DOMAIN part : k # m => from[k] # from[m]

LEMMA RemovedIsPart ==
  ASSUME NEW A, NEW list \in Seq(A), NEW row \in DOMAIN list
  PROVE RemoveAt(list, row) \in Seq(A) /\ PartOf(RemoveAt(list, row), list)
<1> DEFINE part == RemoveAt(list, row)
           from == [k \in DOMAIN part |-> IF k < row THEN k ELSE k + 1]
<1>1. row \in 1 .. Len(list) /\ Len(list) \in Nat /\ DOMAIN list = 1 .. Len(list)
  OBVIOUS
<1>2. /\ part \in Seq(A)
      /\ DOMAIN part = 1 .. Len(list) - 1
      /\ \A k \in 1 .. Len(list) - 1 : part[k] = IF k < row THEN list[k] ELSE list[k + 1]
  BY <1>1, Removed
<1> HIDE DEF part
<1>3. from \in [DOMAIN part -> DOMAIN list]
  BY <1>1, <1>2
<1>4. \A k \in DOMAIN part : part[k] = list[from[k]]
  BY <1>2
<1>5. \A k, m \in DOMAIN part : k # m => from[k] # from[m]
  BY <1>1, <1>2
<1> QED
  BY <1>2, <1>3, <1>4, <1>5 DEF PartOf, part

LEMMA KeptIsPart ==
  ASSUME NEW A, NEW list \in Seq(A), NEW chosen
  PROVE Kept(list, chosen) \in Seq(A) /\ PartOf(Kept(list, chosen), list)
<1> DEFINE part == Kept(list, chosen)
<1>1. part \in Seq(A)
  BY KeptItems
<1>2. PICK from : TakesAll(from, list, chosen)
  BY KeptInOrder
<1>3. /\ from \in [1 .. Len(part) -> DOMAIN list]
      /\ \A k \in 1 .. Len(part) : part[k] = list[from[k]]
      /\ \A k, m \in 1 .. Len(part) : k < m => from[k] < from[m]
  BY <1>2 DEF TakesAll
<1> HIDE DEF part
<1>4. DOMAIN part = 1 .. Len(part) /\ Len(part) \in Nat /\ DOMAIN list = 1 .. Len(list)
  BY <1>1
<1>5. ASSUME NEW k \in DOMAIN part, NEW m \in DOMAIN part, k # m PROVE from[k] # from[m]
  <2>1. from[k] \in Nat /\ from[m] \in Nat
    BY <1>3, <1>4
  <2>2. k < m \/ m < k
    BY <1>4, <1>5
  <2> QED
    BY <1>3, <1>4, <2>1, <2>2
<1> QED
  BY <1>1, <1>3, <1>4, <1>5 DEF PartOf, part

LEMMA PartKeeps ==
  ASSUME NEW part, NEW list, PartOf(part, list)
  PROVE /\ \A given : OwnIds(list, given) => OwnIds(part, given)
        /\ OneEach(list) => OneEach(part)
        /\ \A p \in ToSet(part) : p \in ToSet(list)
<1>1. PICK from \in [DOMAIN part -> DOMAIN list] :
        /\ \A k \in DOMAIN part : part[k] = list[from[k]]
        /\ \A k, m \in DOMAIN part : k # m => from[k] # from[m]
  BY DEF PartOf
<1>2. ASSUME NEW given, OwnIds(list, given) PROVE OwnIds(part, given)
  BY <1>1, <1>2 DEF OwnIds
<1>3. OneEach(list) => OneEach(part)
  BY <1>1 DEF OneEach
<1>4. \A p \in ToSet(part) : p \in ToSet(list)
  BY <1>1 DEF ToSet
<1> QED
  BY <1>2, <1>3, <1>4

-----------------------------------------------------------------------------
(* The lists of profiles and subscriptions: the invariant *)

\* The copies of profiles that tests and an edit work on, and every profile that is held.
Copies ==
  {j.copy : j \in jobs}
    \cup {stack[i].copy : i \in {k \in DOMAIN stack : stack[k].op = "edit"}}
Held == ToSet(profiles) \cup ToSet(saved.profiles) \cup Copies

ListsSound ==
  \A list \in {profiles, saved.profiles} :
    OwnIds(list, issued) /\ (~returned => OneEach(list))

\* A profile keeps its server, in the list, in the file and in every copy.
ServersStay ==
  \A p \in Held : p.id <= issued /\ \A q \in Held : p.id = q.id => p.server = q.server

\* Nothing but results of tests happens while a profile is edited.
EditsLast ==
  \A i \in DOMAIN stack : stack[i].op = "edit" =>
    /\ i = Len(stack)
    /\ ~returned => \A k \in DOMAIN profiles :
         profiles[k].id = stack[i].copy.id => profiles[k].sub = stack[i].copy.sub

ListsInv == ProfileListTypeOK /\ ListsSound /\ ServersStay /\ EditsLast

\* A step may replace the list by the one in the file, or change it without bringing back a
\* profile that left it.
NewOrKept(p) ==
  p.id > issued \/ \E k \in DOMAIN profiles : profiles[k].id = p.id /\ profiles[k].server = p.server
ListFollows ==
  /\ profiles' \in Seq(ProfileRecords)
  /\ OwnIds(profiles', issued')
  /\ ~returned' => OneEach(profiles')
  /\ \/ profiles' = saved.profiles
     \/ \A i \in DOMAIN profiles' : NewOrKept(profiles'[i])
  /\ issued' \in Nat /\ issued' >= issued
  /\ returned => returned'

LEMMA TypesAre ==
  ASSUME ProfileListTypeOK
  PROVE /\ profiles \in Seq(ProfileRecords) /\ saved.profiles \in Seq(ProfileRecords)
        /\ subs \in Seq(SubscriptionRecords) /\ saved.subs \in Seq(SubscriptionRecords)
        /\ issued \in Nat /\ issued <= MaxIds
        /\ \A p \in ToSet(profiles) \cup ToSet(saved.profiles) : p \in ProfileRecords
        /\ \A p \in ProfileRecords :
             p.id \in Nat /\ p.id \in Ids /\ p.sub \in Owners /\ p.server \in Servers
<1>1. MaxIds \in Nat
  BY BoundsAssumption
<1>2. saved \in [profiles : Seq(ProfileRecords), subs : Seq(SubscriptionRecords)]
  BY DEF ProfileListTypeOK
<1>3. saved.profiles \in Seq(ProfileRecords) /\ saved.subs \in Seq(SubscriptionRecords)
  BY <1>2
<1>4. profiles \in Seq(ProfileRecords)
  BY DEF ProfileListTypeOK
<1>5. \A p \in ToSet(profiles) \cup ToSet(saved.profiles) : p \in ProfileRecords
  BY <1>3, <1>4 DEF ToSet
<1>6. \A p \in ProfileRecords : /\ p.id \in Nat /\ p.id \in Ids
                                /\ p.sub \in Owners /\ p.server \in Servers
  BY <1>1 DEF ProfileRecords, Ids
<1> QED
  BY <1>1, <1>3, <1>4, <1>5, <1>6 DEF ProfileListTypeOK

LEMMA CopiesAreRecords ==
  ASSUME ProfileListTypeOK
  PROVE Copies \subseteq ProfileRecords
<1>1. \A j \in jobs : j.copy \in ProfileRecords
  BY DEF ProfileListTypeOK
<1>2. ASSUME NEW i \in DOMAIN stack, stack[i].op = "edit" PROVE stack[i].copy \in ProfileRecords
  <2>1. stack[i] \in Frames
    BY DEF ProfileListTypeOK
  <2> QED
    BY <1>2, <2>1 DEF Frames
<1> QED
  BY <1>1, <1>2 DEF Copies

LEMMA SoundFollows ==
  ASSUME ListsInv, ListFollows, saved'.profiles \in {profiles', saved.profiles}
  PROVE ListsSound'
<1>1. OwnIds(saved.profiles, issued) /\ (~returned => OneEach(saved.profiles))
  BY DEF ListsInv, ListsSound
<1>2. OwnIds(saved.profiles, issued')
  <2>1. \A i \in DOMAIN saved.profiles : saved.profiles[i].id \in Nat
    BY TypesAre DEF ListsInv, ToSet
  <2>2. issued \in Nat /\ issued' \in Nat /\ issued' >= issued
    BY TypesAre DEF ListsInv, ListFollows
  <2>3. \A i \in DOMAIN saved.profiles : saved.profiles[i].id <= issued
    BY <1>1 DEF OwnIds
  <2>4. \A i \in DOMAIN saved.profiles : saved.profiles[i].id <= issued'
    BY <2>1, <2>2, <2>3
  <2> QED
    BY <1>1, <2>4 DEF OwnIds
<1> QED
  BY <1>1, <1>2 DEF ListFollows, ListsSound

LEMMA ServersFollow ==
  ASSUME ListsInv, ListFollows, saved'.profiles \in {profiles', saved.profiles},
         Copies' \subseteq Held
  PROVE ServersStay'
<1> DEFINE Old(p) == p.id <= issued /\ \E q \in Held : q.id = p.id /\ q.server = p.server
           New(p) == p.id > issued /\ p \in ToSet(profiles')
<1>0. issued \in Nat /\ issued' \in Nat /\ issued' >= issued
  BY TypesAre DEF ListsInv, ListFollows
<1>1. \A q \in Held : q.id <= issued /\ q.id \in Nat
  <2>1. Held \subseteq ProfileRecords
    BY TypesAre, CopiesAreRecords DEF ListsInv, Held
  <2> QED
    BY <2>1, TypesAre DEF ListsInv, ServersStay
<1>2. ASSUME NEW p \in Held' PROVE (Old(p) \/ New(p)) /\ p.id \in Nat
  <2>1. CASE p \in Held
    BY <1>1, <2>1
  <2>2. CASE p \in ToSet(profiles')
    <3>1. PICK i \in DOMAIN profiles' : p = profiles'[i]
      BY <2>2 DEF ToSet
    <3>2. p \in ProfileRecords
      BY <3>1 DEF ListFollows
    <3>3. NewOrKept(p) \/ p \in Held
      BY <3>1 DEF ListFollows, Held, ToSet
    <3> QED
      BY <1>1, <2>2, <3>2, <3>3, TypesAre DEF ListsInv, NewOrKept, Held, ToSet
  <2>3. p \in Held \/ p \in ToSet(profiles')
    BY DEF Held, ListFollows
  <2> QED
    BY <2>1, <2>2, <2>3
<1>3. ASSUME NEW p \in Held' PROVE p.id <= issued'
  <2>1. CASE New(p)
    BY <2>1 DEF ListFollows, OwnIds, ToSet
  <2>2. CASE Old(p)
    BY <1>0, <1>2, <1>3, <2>2
  <2> QED
    BY <1>2, <1>3, <2>1, <2>2
<1>4. ASSUME NEW p \in Held', NEW q \in Held', p.id = q.id PROVE p.server = q.server
  <2>1. CASE Old(p) /\ Old(q)
    BY <1>4, <2>1 DEF ListsInv, ServersStay
  <2>2. CASE New(p) /\ New(q)
    <3>1. PICK i \in DOMAIN profiles', j \in DOMAIN profiles' : p = profiles'[i] /\ q = profiles'[j]
      BY <2>2 DEF ToSet
    <3> QED
      BY <1>4, <3>1 DEF ListFollows, OwnIds
  <2>3. p.id \in Nat /\ q.id \in Nat
    BY <1>2, <1>4
  <2> QED
    BY <1>0, <1>2, <1>4, <2>1, <2>2, <2>3
<1> QED
  BY <1>3, <1>4 DEF ServersStay

\* What a handler that waits is, and what is left of it when references go.
UpdateFrames ==
  [op : {"update"}, via : {"window", "dialog"}, ref : Subscriptions \cup {Gone},
   last : Subscriptions, started : Subscriptions, left : Nat]

LEMMA FrameKinds ==
  ASSUME NEW frame \in Frames
  PROVE /\ frame.op \in {"dialog", "edit", "update"}
        /\ frame.op = "update" => frame \in UpdateFrames
        /\ frame.op = "edit" => frame.copy \in ProfileRecords
        /\ UpdateFrames \subseteq Frames
        /\ \A copy \in ProfileRecords : [op |-> "edit", copy |-> copy] \in Frames
        /\ [op |-> "dialog"] \in Frames
  BY DEF Frames, UpdateFrames

\* The same handlers wait.
SameHandlers(other) ==
  /\ other \in Seq(Frames)
  /\ Len(other) = Len(stack)
  /\ \A i \in DOMAIN stack : /\ other[i].op = stack[i].op
                             /\ stack[i].op = "edit" => other[i] = stack[i]

LEMMA WithRefsSame ==
  ASSUME stack \in Seq(Frames), NEW now \in [Refs -> Refs]
  PROVE SameHandlers(WithRefs(now))
<1> DEFINE Now(i) == IF stack[i].op = "update" THEN [stack[i] EXCEPT !.ref = now[stack[i].ref]]
                     ELSE stack[i]
<1>1. ASSUME NEW i \in DOMAIN stack
      PROVE /\ Now(i) \in Frames
            /\ Now(i).op = stack[i].op
            /\ stack[i].op = "edit" => Now(i) = stack[i]
  <2>1. stack[i] \in Frames
    OBVIOUS
  <2>2. CASE stack[i].op = "update"
    <3>1. stack[i] \in UpdateFrames
      BY <2>1, <2>2, FrameKinds
    <3>2. [stack[i] EXCEPT !.ref = now[stack[i].ref]] \in UpdateFrames
      BY <3>1 DEF UpdateFrames, Refs
    <3>3. [stack[i] EXCEPT !.ref = now[stack[i].ref]].op = "update"
      BY <3>2 DEF UpdateFrames
    <3> QED
      BY <2>1, <2>2, <3>2, <3>3, FrameKinds
  <2>3. CASE stack[i].op # "update"
    BY <2>1, <2>3
  <2> QED
    BY <2>2, <2>3
<1>2. WithRefs(now) = [i \in DOMAIN stack |-> Now(i)]
  BY DEF WithRefs
<1> HIDE DEF Now
<1>3. Len(stack) \in Nat /\ DOMAIN stack = 1 .. Len(stack)
  OBVIOUS
<1>4. WithRefs(now) \in [1 .. Len(stack) -> Frames]
  BY <1>1, <1>2, <1>3
<1>5. WithRefs(now) \in Seq(Frames) /\ Len(WithRefs(now)) = Len(stack)
  BY <1>3, <1>4, SeqDef, LenProperties
<1> QED
  BY <1>1, <1>2, <1>5 DEF SameHandlers

LEMMA LostSame ==
  ASSUME stack \in Seq(Frames)
  PROVE SameHandlers(WithRefs(Lost)) /\ SameHandlers(stack)
<1>1. Lost \in [Refs -> Refs]
  BY DEF Lost, Refs
<1>2. SameHandlers(stack)
  BY DEF SameHandlers
<1> QED
  BY <1>1, <1>2, WithRefsSame

LEMMA InPlaceSame ==
  ASSUME stack \in Seq(Frames), InPlaceOrCopied
  PROVE SameHandlers(stack')
  BY LostSame DEF InPlaceOrCopied

\* The place of a subscription is one in the list.
LEMMA PositionIs ==
  ASSUME subs \in Seq(SubscriptionRecords), NEW s
  PROVE /\ PositionOf(s) \in 0 .. Len(subs)
        /\ PositionOf(s) # 0 => PositionOf(s) \in DOMAIN subs /\ subs[PositionOf(s)].id = s
<1> DEFINE places == {i \in DOMAIN subs : subs[i].id = s}
<1>1. places \in SUBSET (1 .. Len(subs)) /\ Len(subs) \in Nat
  OBVIOUS
<1>2. \A i \in places : i \in DOMAIN subs /\ subs[i].id = s
  OBVIOUS
<1> HIDE DEF places
<1>3. /\ FirstOf(places) \in 0 .. Len(subs)
      /\ FirstOf(places) # 0 => FirstOf(places) \in places
  BY <1>1, FirstIsOne
<1> QED
  BY <1>2, <1>3 DEF PositionOf, places

LEMMA PositionOfIdIs ==
  ASSUME profiles \in Seq(ProfileRecords), NEW id
  PROVE /\ PositionOfId(id) \in 0 .. Len(profiles)
        /\ PositionOfId(id) # 0 =>
             PositionOfId(id) \in DOMAIN profiles /\ profiles[PositionOfId(id)].id = id
        /\ PositionOfId(id) = 0 <=> \A i \in DOMAIN profiles : profiles[i].id # id
<1> DEFINE places == {i \in DOMAIN profiles : profiles[i].id = id}
<1>1. places \in SUBSET (1 .. Len(profiles)) /\ Len(profiles) \in Nat
  OBVIOUS
<1>2. /\ \A i \in places : i \in DOMAIN profiles /\ profiles[i].id = id
      /\ places = {} <=> \A i \in DOMAIN profiles : profiles[i].id # id
  OBVIOUS
<1> HIDE DEF places
<1>3. /\ FirstOf(places) \in 0 .. Len(profiles)
      /\ FirstOf(places) # 0 => FirstOf(places) \in places
      /\ places = {} <=> FirstOf(places) = 0
  BY <1>1, FirstIsOne
<1> QED
  BY <1>2, <1>3 DEF PositionOfId, places

LEMMA AfterRemovalSame ==
  ASSUME stack \in Seq(Frames), subs \in Seq(SubscriptionRecords), NEW row \in DOMAIN subs,
         AfterRemoval(row)
  PROVE SameHandlers(stack')
<1> DEFINE next(r) == IF r = Gone \/ PositionOf(r) = Len(subs) THEN Gone
                      ELSE subs[PositionOf(r) + 1].id
           Moved == [r \in Refs |-> IF r # Gone /\ PositionOf(r) >= row THEN next(r) ELSE r]
           Dropped == [r \in Refs |-> IF r = subs[row].id THEN Gone ELSE r]
<1>0. \A i \in DOMAIN subs : subs[i] \in SubscriptionRecords
  OBVIOUS
<1>1. Gone \in Refs /\ \A i \in DOMAIN subs : subs[i].id \in Refs
  BY <1>0 DEF Refs, SubscriptionRecords
<1>2. ASSUME NEW r \in Refs PROVE next(r) \in Refs
  <2>1. CASE r = Gone \/ PositionOf(r) = Len(subs)
    BY <1>1, <2>1
  <2>2. CASE ~(r = Gone \/ PositionOf(r) = Len(subs))
    <3>1. PositionOf(r) \in 0 .. Len(subs) /\ PositionOf(r) # Len(subs) /\ Len(subs) \in Nat
      BY <2>2, PositionIs
    <3>2. PositionOf(r) + 1 \in DOMAIN subs
      BY <3>1
    <3> QED
      BY <1>1, <2>2, <3>2
  <2> QED
    BY <2>1, <2>2
<1> HIDE DEF next
<1>3. Moved \in [Refs -> Refs] /\ Dropped \in [Refs -> Refs]
  BY <1>1, <1>2
<1>4. stack' = WithRefs(Lost) \/ stack' = WithRefs(Moved) \/ stack' = WithRefs(Dropped)
  BY DEF AfterRemoval, next
<1> HIDE DEF Moved, Dropped
<1> QED
  BY <1>3, <1>4, WithRefsSame, LostSame

\* While no profile is edited.
NoEdit == \A i \in DOMAIN stack : stack[i].op # "edit"

LEMMA TopIs ==
  ASSUME stack \in Seq(Frames)
  PROVE /\ Top.op \in {"none", "dialog", "edit", "update"}
        /\ Top.op = "none" <=> stack = <<>>
        /\ stack # <<>> => Top = stack[Len(stack)] /\ Top \in Frames /\ Len(stack) >= 1
<1>1. CASE stack = <<>>
  BY <1>1 DEF Top
<1>2. CASE stack # <<>>
  <2>1. Top = stack[Len(stack)] /\ Top \in Frames /\ Len(stack) >= 1
    BY <1>2, FrontOf DEF Top
  <2>2. Top.op \in {"dialog", "edit", "update"}
    BY <2>1, FrameKinds
  <2> QED
    BY <1>2, <2>1, <2>2
<1> QED
  BY <1>1, <1>2

LEMMA NoEditUnless ==
  ASSUME ListsInv, Top.op # "edit"
  PROVE NoEdit
<1>1. stack \in Seq(Frames)
  BY DEF ListsInv, ProfileListTypeOK
<1> SUFFICES ASSUME NEW i \in DOMAIN stack, stack[i].op = "edit" PROVE FALSE
  BY DEF NoEdit
<1>2. i = Len(stack)
  BY DEF ListsInv, EditsLast
<1>3. stack # <<>>
  BY <1>1
<1> QED
  BY <1>1, <1>2, <1>3, TopIs

LEMMA InputTop ==
  ASSUME stack \in Seq(Frames), InWindow \/ InDialog
  PROVE Top.op # "edit"
<1>1. CASE stack = <<>>
  BY <1>1, TopIs
<1>2. CASE InUpdate("window") \/ Top.op = "dialog" \/ InUpdate("dialog")
  BY <1>2 DEF InUpdate
<1> QED
  BY <1>1, <1>2 DEF InWindow, InDialog

\* The same handlers, one more, or one less: what becomes of edits and their copies.
LEMMA SameCopies ==
  ASSUME stack \in Seq(Frames), SameHandlers(stack'), jobs' = jobs
  PROVE Copies' = Copies /\ (NoEdit => NoEdit') /\ Len(stack') = Len(stack)
<1>1. DOMAIN stack' = DOMAIN stack /\ Len(stack') = Len(stack)
  BY DEF SameHandlers
<1>2. \A i \in DOMAIN stack : /\ stack'[i].op = stack[i].op
                              /\ stack[i].op = "edit" => stack'[i] = stack[i]
  BY DEF SameHandlers
<1>3. {stack'[i].copy : i \in {k \in DOMAIN stack' : stack'[k].op = "edit"}}
        = {stack[i].copy : i \in {k \in DOMAIN stack : stack[k].op = "edit"}}
  BY <1>1, <1>2
<1> QED
  BY <1>1, <1>2, <1>3 DEF Copies, NoEdit

LEMMA Pushed ==
  ASSUME stack \in Seq(Frames), NoEdit, NEW other, SameHandlers(other), NEW frame \in Frames,
         stack' = Append(other, frame), Len(stack) < MaxDepth
  PROVE /\ stack' \in Seq(Frames) /\ Len(stack') <= MaxDepth
        /\ Len(stack') = Len(stack) + 1 /\ stack'[Len(stack')] = frame
        /\ \A i \in DOMAIN stack' : i # Len(stack') => stack'[i].op # "edit"
<1>1. /\ other \in Seq(Frames) /\ Len(other) = Len(stack) /\ Len(stack) \in Nat
      /\ \A i \in 1 .. Len(stack) : other[i].op # "edit"
  BY DEF SameHandlers, NoEdit
<1>2. /\ Append(other, frame) \in Seq(Frames) /\ Len(Append(other, frame)) = Len(stack) + 1
      /\ Append(other, frame)[Len(stack) + 1] = frame
      /\ \A i \in 1 .. Len(stack) : Append(other, frame)[i] = other[i]
  BY <1>1, AppendProperties
<1>3. Len(stack) + 1 <= MaxDepth
  BY <1>1, BoundsAssumption
<1>4. \A i \in 1 .. Len(stack) + 1 : i # Len(stack) + 1 => i \in 1 .. Len(stack)
  BY <1>1
<1> QED
  BY <1>1, <1>2, <1>3, <1>4

LEMMA Popped ==
  ASSUME stack \in Seq(Frames), stack # <<>>, Len(stack) <= MaxDepth, EditsLast,
         stack' = Front(stack)
  PROVE stack' \in Seq(Frames) /\ Len(stack') <= MaxDepth /\ NoEdit'
<1>1. /\ stack' \in Seq(Frames) /\ Len(stack') = Len(stack) - 1 /\ Len(stack) \in Nat
      /\ \A i \in 1 .. Len(stack) - 1 : stack'[i] = stack[i]
  BY FrontOf
<1>2. \A i \in 1 .. Len(stack) - 1 : stack[i].op # "edit"
  BY <1>1 DEF EditsLast
<1>3. DOMAIN stack' = 1 .. Len(stack) - 1
  BY <1>1
<1> QED
  BY <1>1, <1>2, <1>3, BoundsAssumption DEF NoEdit

\* What the files hold after a handler that writes them, or not.
LEMMA SavedIs ==
  ASSUME ProfileListTypeOK, profiles' \in Seq(ProfileRecords), subs' \in Seq(SubscriptionRecords),
         SaveWindow \/ SaveDialog \/ SaveProfiles \/ UNCHANGED saved
  PROVE /\ saved' \in [profiles : Seq(ProfileRecords), subs : Seq(SubscriptionRecords)]
        /\ saved'.profiles \in {profiles', saved.profiles}
<1> DEFINE Files == [profiles : Seq(ProfileRecords), subs : Seq(SubscriptionRecords)]
<1>1. saved \in Files
  BY DEF ProfileListTypeOK
<1>2. saved.profiles \in Seq(ProfileRecords) /\ saved.subs \in Seq(SubscriptionRecords)
  BY <1>1
<1>3. CASE SaveWindow \/ SaveDialog
  <2>1. \E list \in {profiles', saved.profiles}, owners \in {subs', saved.subs} :
          saved' = [profiles |-> list, subs |-> owners]
    BY <1>3 DEF SaveWindow, SaveDialog
  <2> QED
    BY <1>2, <2>1
<1>4. CASE SaveProfiles
  <2>1. saved' = saved \/ saved' = [saved EXCEPT !.profiles = profiles']
    BY <1>4 DEF SaveProfiles
  <2> QED
    BY <1>1, <2>1
<1> QED
  BY <1>1, <1>3, <1>4

\* The whole invariant after a step, from what the step does to each part.
LEMMA StepKeeps ==
  ASSUME ListsInv, ListFollows, Copies' \subseteq Held, EditsLast',
         subs' \in Seq(SubscriptionRecords), stack' \in Seq(Frames), Len(stack') <= MaxDepth,
         jobs' \subseteq [copy : ProfileRecords, begun : BOOLEAN], issued' <= MaxIds,
         UserActs \/ UNCHANGED acts,
         SaveWindow \/ SaveDialog \/ SaveProfiles \/ UNCHANGED saved
  PROVE ListsInv' /\ ListFollows
<1>1. ProfileListTypeOK
  BY DEF ListsInv
<1>2. profiles' \in Seq(ProfileRecords) /\ issued' \in Nat
  BY DEF ListFollows
<1>3. /\ saved' \in [profiles : Seq(ProfileRecords), subs : Seq(SubscriptionRecords)]
      /\ saved'.profiles \in {profiles', saved.profiles}
  BY <1>1, <1>2, SavedIs
<1>4. issued' \in 0 .. MaxIds
  BY <1>2, BoundsAssumption
<1>5. acts' \in 0 .. MaxActs
  <2>1. acts \in 0 .. MaxActs /\ MaxActs \in Nat
    BY <1>1, BoundsAssumption DEF ProfileListTypeOK
  <2> QED
    BY <2>1 DEF UserActs
<1>6. ProfileListTypeOK'
  BY <1>2, <1>3, <1>4, <1>5 DEF ProfileListTypeOK
<1> QED
  BY <1>3, <1>6, SoundFollows, ServersFollow DEF ListsInv

\* Without an edit only tests hold copies.
LEMMA NoEditLeft ==
  ASSUME NoEdit', \A j \in jobs' : j.copy \in Held
  PROVE Copies' \subseteq Held /\ EditsLast'
  BY DEF NoEdit, Copies, EditsLast

LEMMA JobsHeld == \A j \in jobs : j.copy \in Held
  BY DEF Held, Copies

\* The list becomes a part of itself, the one of the file, or empty.
LEMMA PartFollows ==
  ASSUME ListsInv, profiles' \in Seq(ProfileRecords),
         profiles' \in {profiles, saved.profiles, <<>>} \/ PartOf(profiles', profiles),
         issued' = issued, returned' = returned
  PROVE ListFollows
<1>1. issued \in Nat
  BY TypesAre DEF ListsInv
<1>2. /\ OwnIds(profiles, issued) /\ (~returned => OneEach(profiles))
      /\ OwnIds(saved.profiles, issued) /\ (~returned => OneEach(saved.profiles))
  BY DEF ListsInv, ListsSound
<1>3. OwnIds(<<>>, issued) /\ OneEach(<<>>)
  BY DEF OwnIds, OneEach
<1>4. OwnIds(profiles', issued) /\ (~returned => OneEach(profiles'))
  BY <1>2, <1>3, PartKeeps
<1>5. CASE profiles' \in {profiles, <<>>} \/ PartOf(profiles', profiles)
  <2> SUFFICES ASSUME NEW i \in DOMAIN profiles' PROVE NewOrKept(profiles'[i])
    BY <1>1, <1>4 DEF ListFollows
  <2>1. \E k \in DOMAIN profiles : profiles'[i] = profiles[k]
    BY <1>5 DEF PartOf
  <2> QED
    BY <2>1 DEF NewOrKept
<1>6. CASE profiles' = saved.profiles
  BY <1>1, <1>4, <1>6 DEF ListFollows
<1> QED
  BY <1>5, <1>6

LEMMA StaysTyped ==
  ASSUME ListsInv
  PROVE /\ profiles \in Seq(ProfileRecords) /\ saved.profiles \in Seq(ProfileRecords)
        /\ subs \in Seq(SubscriptionRecords) /\ saved.subs \in Seq(SubscriptionRecords)
        /\ <<>> \in Seq(ProfileRecords)
        /\ stack \in Seq(Frames) /\ Len(stack) <= MaxDepth
        /\ jobs \subseteq [copy : ProfileRecords, begun : BOOLEAN]
        /\ issued \in Nat /\ issued <= MaxIds
  BY TypesAre DEF ListsInv, ProfileListTypeOK

\* An act of the user, which leaves the handlers that wait where they are.
LEMMA InputKeeps ==
  ASSUME ListsInv, InWindow \/ InDialog, UserActs, ListFollows,
         subs' \in Seq(SubscriptionRecords), SameHandlers(stack'),
         jobs' \subseteq [copy : ProfileRecords, begun : BOOLEAN], \A j \in jobs' : j.copy \in Held,
         issued' <= MaxIds,
         SaveWindow \/ SaveDialog \/ SaveProfiles \/ UNCHANGED saved
  PROVE ListsInv' /\ ListFollows
<1>1. stack \in Seq(Frames) /\ Len(stack) <= MaxDepth
  BY StaysTyped
<1>2. NoEdit
  BY <1>1, InputTop, NoEditUnless
<1>3. NoEdit' /\ stack' \in Seq(Frames) /\ Len(stack') = Len(stack)
  <2>1. /\ stack' \in Seq(Frames) /\ Len(stack') = Len(stack)
        /\ \A i \in DOMAIN stack : stack'[i].op = stack[i].op
    BY DEF SameHandlers
  <2>2. DOMAIN stack' = DOMAIN stack
    BY <1>1, <2>1
  <2> QED
    BY <1>2, <2>1, <2>2 DEF NoEdit
<1>4. Copies' \subseteq Held /\ EditsLast'
  BY <1>3, NoEditLeft
<1> QED
  BY <1>1, <1>3, <1>4, StepKeeps

-----------------------------------------------------------------------------
(* The lists of profiles and subscriptions: the steps *)

LEMMA SaveAllKeeps == ListsInv /\ SaveAll => ListsInv' /\ ListFollows
<1> SUFFICES ASSUME ListsInv, SaveAll PROVE ListsInv' /\ ListFollows
  OBVIOUS
<1> USE DEF SaveAll
<1>1. SameHandlers(stack')
  BY StaysTyped, LostSame
<1>2. ListFollows
  BY StaysTyped, PartFollows
<1> QED
  BY <1>1, <1>2, StaysTyped, JobsHeld, InputKeeps

LEMMA LoadKeeps == ListsInv /\ LoadProfiles => ListsInv' /\ ListFollows
<1> SUFFICES ASSUME ListsInv, LoadProfiles PROVE ListsInv' /\ ListFollows
  OBVIOUS
<1>1. SameHandlers(stack')
  BY StaysTyped, LostSame DEF LoadProfiles
<1>2. ListFollows
  BY StaysTyped, PartFollows DEF LoadProfiles
<1>3. subs' \in Seq(SubscriptionRecords)
  BY StaysTyped DEF LoadProfiles
<1> QED
  BY <1>1, <1>2, <1>3, StaysTyped, JobsHeld, InputKeeps DEF LoadProfiles

LEMMA DeleteKeeps == ListsInv /\ DeleteProfile => ListsInv' /\ ListFollows
<1> SUFFICES ASSUME ListsInv, DeleteProfile PROVE ListsInv' /\ ListFollows
  OBVIOUS
<1> USE DEF DeleteProfile
<1>1. SameHandlers(stack')
  BY StaysTyped, LostSame
<1>2. profiles' \in Seq(ProfileRecords) /\ PartOf(profiles', profiles)
  BY StaysTyped, RemovedIsPart
<1>3. ListFollows
  BY <1>2, PartFollows
<1> QED
  BY <1>1, <1>3, StaysTyped, JobsHeld, InputKeeps

LEMMA AddKeeps == ListsInv /\ AddProfile => ListsInv' /\ ListFollows
<1> SUFFICES ASSUME ListsInv, AddProfile PROVE ListsInv' /\ ListFollows
  OBVIOUS
<1>0. PICK server \in Servers : profiles' = Append(profiles, Incoming(Manual, server, issued + 1))
  BY DEF AddProfile
<1>1. SameHandlers(stack')
  BY StaysTyped, LostSame DEF AddProfile
<1>2. issued' = issued + 1 /\ issued + 1 <= MaxIds /\ issued \in Nat /\ returned' = returned
  BY StaysTyped, BoundsAssumption DEF AddProfile
<1> DEFINE new == Incoming(Manual, server, issued + 1)
<1>3. /\ new \in ProfileRecords
      /\ new.id = issued + 1 /\ new.sub = Manual
  BY <1>2, BoundsAssumption DEF Incoming, ProfileRecords, Ids, Owners
<1> HIDE DEF new
<1>4. /\ profiles \in Seq(ProfileRecords) /\ Len(profiles) \in Nat
      /\ DOMAIN profiles = 1 .. Len(profiles)
  BY StaysTyped
<1>5. /\ profiles' \in Seq(ProfileRecords)
      /\ DOMAIN profiles' = 1 .. Len(profiles) + 1
      /\ profiles'[Len(profiles) + 1] = new
      /\ \A i \in DOMAIN profiles : profiles'[i] = profiles[i]
      /\ \A i \in DOMAIN profiles' : i \in DOMAIN profiles \/ i = Len(profiles) + 1
  BY <1>0, <1>3, <1>4, AppendProperties DEF new
<1>6. /\ \A i, j \in DOMAIN profiles : i # j => profiles[i].id # profiles[j].id
      /\ \A i \in DOMAIN profiles : profiles[i].id <= issued /\ profiles[i].id \in Nat
      /\ ~returned => OneEach(profiles)
  <2>1. \A i \in DOMAIN profiles : profiles[i] \in ToSet(profiles)
    BY DEF ToSet
  <2>2. \A i \in DOMAIN profiles : profiles[i].id \in Nat
    BY <2>1, TypesAre DEF ListsInv
  <2> QED
    BY <2>2 DEF ListsInv, ListsSound, OwnIds
<1>7. OwnIds(profiles', issued')
  <2>1. \A i \in DOMAIN profiles' : /\ profiles'[i].id <= issued + 1
                                    /\ i # Len(profiles) + 1 => profiles'[i].id # issued + 1
    BY <1>2, <1>3, <1>5, <1>6
  <2>2. ASSUME NEW i \in DOMAIN profiles', NEW j \in DOMAIN profiles', i # j
        PROVE profiles'[i].id # profiles'[j].id
    <3>1. CASE i = Len(profiles) + 1
      BY <1>3, <1>5, <2>1, <2>2, <3>1
    <3>2. CASE j = Len(profiles) + 1
      BY <1>3, <1>5, <2>1, <2>2, <3>2
    <3>3. CASE i \in DOMAIN profiles /\ j \in DOMAIN profiles
      BY <1>5, <1>6, <2>2, <3>3
    <3> QED
      BY <1>5, <3>1, <3>2, <3>3
  <2> QED
    BY <1>2, <2>1, <2>2 DEF OwnIds
<1>8. ~returned' => OneEach(profiles')
  <2> SUFFICES ASSUME OneEach(profiles), NEW i \in DOMAIN profiles', NEW j \in DOMAIN profiles',
                      i # j, profiles'[i].sub # Manual
               PROVE ~IsOf(profiles'[j], profiles'[i].sub, profiles'[i].server)
    BY <1>2, <1>6 DEF OneEach
  <2>1. i \in DOMAIN profiles /\ profiles'[i] = profiles[i]
    BY <1>3, <1>5
  <2>2. CASE j = Len(profiles) + 1
    BY <1>3, <1>5, <2>2 DEF IsOf
  <2>3. CASE j \in DOMAIN profiles
    BY <1>5, <2>1, <2>3 DEF OneEach
  <2> QED
    BY <1>5, <2>2, <2>3
<1>9. ASSUME NEW i \in DOMAIN profiles' PROVE NewOrKept(profiles'[i])
  <2>1. CASE i = Len(profiles) + 1
    BY <1>2, <1>3, <1>5, <2>1 DEF NewOrKept
  <2>2. CASE i \in DOMAIN profiles
    BY <1>5, <2>2 DEF NewOrKept
  <2> QED
    BY <1>5, <2>1, <2>2
<1>10. ListFollows
  BY <1>2, <1>5, <1>7, <1>8, <1>9 DEF ListFollows
<1> QED
  BY <1>1, <1>2, <1>10, StaysTyped, JobsHeld, InputKeeps DEF AddProfile

LEMMA NewSubscriptionKeeps == ListsInv /\ AddSubscription => ListsInv' /\ ListFollows
<1> SUFFICES ASSUME ListsInv, AddSubscription PROVE ListsInv' /\ ListFollows
  OBVIOUS
<1>1. SameHandlers(stack')
  BY StaysTyped, InPlaceSame DEF AddSubscription
<1>2. ListFollows
  BY StaysTyped, PartFollows DEF AddSubscription
<1>3. subs' \in Seq(SubscriptionRecords)
  <2>1. PICK s \in Subscriptions : subs' = Append(subs, [id |-> s, enabled |-> TRUE])
    BY DEF AddSubscription
  <2>2. [id |-> s, enabled |-> TRUE] \in SubscriptionRecords
    BY DEF SubscriptionRecords
  <2> QED
    BY <2>1, <2>2, StaysTyped
<1> QED
  BY <1>1, <1>2, <1>3, StaysTyped, JobsHeld, InputKeeps DEF AddSubscription

LEMMA EditedSubscriptionKeeps == ListsInv /\ EditSubscription => ListsInv' /\ ListFollows
<1> SUFFICES ASSUME ListsInv, EditSubscription PROVE ListsInv' /\ ListFollows
  OBVIOUS
<1>1. SameHandlers(stack')
  BY StaysTyped, InPlaceSame DEF EditSubscription
<1>2. ListFollows
  BY StaysTyped, PartFollows DEF EditSubscription
<1>3. subs' \in Seq(SubscriptionRecords)
  <2>1. PICK row \in DOMAIN subs : subs' = [subs EXCEPT ![row].enabled = ~@]
    BY DEF EditSubscription
  <2>2. subs \in Seq(SubscriptionRecords)
    BY StaysTyped
  <2>3. subs[row] \in SubscriptionRecords
    BY <2>2
  <2>4. [subs[row] EXCEPT !.enabled = ~subs[row].enabled] \in SubscriptionRecords
    BY <2>3 DEF SubscriptionRecords
  <2>5. subs' = [subs EXCEPT ![row] = [subs[row] EXCEPT !.enabled = ~subs[row].enabled]]
    BY <2>1
  <2> QED
    BY <2>2, <2>4, <2>5
<1> QED
  BY <1>1, <1>2, <1>3, StaysTyped, JobsHeld, InputKeeps DEF EditSubscription

\* A list without one subscription, whose profiles become manual ones or go.
LEMMA WithoutFollows ==
  ASSUME ListsInv, NEW s \in Subscriptions, NEW keep \in BOOLEAN,
         profiles' = WithoutSubscription(s, keep), issued' = issued, returned' = returned
  PROVE ListFollows
<1>1. /\ profiles \in Seq(ProfileRecords) /\ issued \in Nat
      /\ Len(profiles) \in Nat /\ DOMAIN profiles = 1 .. Len(profiles)
  BY StaysTyped
<1>2. CASE ~keep
  <2>1. profiles' = Kept(profiles, {p \in ToSet(profiles) : p.sub # s})
    BY <1>2 DEF WithoutSubscription
  <2>2. profiles' \in Seq(ProfileRecords) /\ PartOf(profiles', profiles)
    BY <1>1, <2>1, KeptIsPart
  <2> QED
    BY <2>2, PartFollows
<1>3. CASE keep
  <2> DEFINE Left(p) == IF p.sub = s THEN [p EXCEPT !.sub = Manual, !.missing = FALSE] ELSE p
  <2>1. profiles' = [i \in DOMAIN profiles |-> Left(profiles[i])]
    BY <1>3 DEF WithoutSubscription
  <2>2. ASSUME NEW p \in ProfileRecords
        PROVE /\ Left(p) \in ProfileRecords
              /\ Left(p).id = p.id /\ Left(p).server = p.server
              /\ Left(p).sub = p.sub \/ Left(p).sub = Manual
    BY DEF ProfileRecords, Owners
  <2> HIDE DEF Left
  <2>3. \A i \in DOMAIN profiles : profiles[i] \in ProfileRecords
    BY <1>1
  <2>4. /\ DOMAIN profiles' = DOMAIN profiles
        /\ \A i \in DOMAIN profiles :
             /\ profiles'[i] \in ProfileRecords
             /\ profiles'[i].id = profiles[i].id /\ profiles'[i].server = profiles[i].server
             /\ profiles'[i].sub = profiles[i].sub \/ profiles'[i].sub = Manual
    BY <2>1, <2>2, <2>3
  <2>5. profiles' \in Seq(ProfileRecords)
    <3>1. profiles' \in [1 .. Len(profiles) -> ProfileRecords]
      BY <1>1, <2>1, <2>4
    <3> QED
      BY <1>1, <3>1, SeqDef
  <2>6. OwnIds(profiles, issued) /\ (~returned => OneEach(profiles))
    BY DEF ListsInv, ListsSound
  <2>7. OwnIds(profiles', issued)
    BY <2>4, <2>6 DEF OwnIds
  <2>8. OneEach(profiles) => OneEach(profiles')
    <3> SUFFICES ASSUME OneEach(profiles), NEW i \in DOMAIN profiles, NEW j \in DOMAIN profiles,
                        i # j, profiles'[i].sub # Manual,
                        IsOf(profiles'[j], profiles'[i].sub, profiles'[i].server)
                 PROVE FALSE
      BY <2>4 DEF OneEach
    <3>1. profiles'[j].sub = profiles'[i].sub /\ profiles'[j].server = profiles'[i].server
      BY DEF IsOf
    <3>2. profiles[i].sub = profiles'[i].sub /\ profiles[j].sub = profiles'[j].sub
      BY <2>4, <3>1
    <3>3. IsOf(profiles[j], profiles[i].sub, profiles[i].server)
      BY <2>4, <3>1, <3>2 DEF IsOf
    <3> QED
      BY <3>2, <3>3 DEF OneEach
  <2>9. \A i \in DOMAIN profiles' : NewOrKept(profiles'[i])
    BY <2>4 DEF NewOrKept
  <2> QED
    BY <1>1, <2>5, <2>6, <2>7, <2>8, <2>9 DEF ListFollows
<1> QED
  BY <1>2, <1>3

LEMMA DeletedSubscriptionKeeps == ListsInv /\ DeleteSubscription => ListsInv' /\ ListFollows
<1> SUFFICES ASSUME ListsInv, DeleteSubscription PROVE ListsInv' /\ ListFollows
  OBVIOUS
<1>1. PICK row \in DOMAIN subs, keep \in BOOLEAN :
        /\ profiles' = WithoutSubscription(subs[row].id, keep)
        /\ subs' = RemoveAt(subs, row)
        /\ AfterRemoval(row)
  BY DEF DeleteSubscription
<1>2. subs \in Seq(SubscriptionRecords) /\ stack \in Seq(Frames)
  BY StaysTyped
<1>3. SameHandlers(stack')
  BY <1>1, <1>2, AfterRemovalSame
<1>4. subs' \in Seq(SubscriptionRecords)
  BY <1>1, <1>2, RemovedIsPart
<1>5. subs[row].id \in Subscriptions
  <2>1. subs[row] \in SubscriptionRecords
    BY <1>2
  <2> QED
    BY <2>1 DEF SubscriptionRecords
<1>6. ListFollows
  BY <1>1, <1>5, WithoutFollows DEF DeleteSubscription
<1> QED
  BY <1>3, <1>4, <1>6, StaysTyped, JobsHeld, InputKeeps DEF DeleteSubscription

LEMMA TestsBeginKeeps == ListsInv /\ TestsBegin => ListsInv' /\ ListFollows
<1> SUFFICES ASSUME ListsInv, TestsBegin PROVE ListsInv' /\ ListFollows
  OBVIOUS
<1>1. SameHandlers(stack')
  BY StaysTyped, LostSame DEF TestsBegin
<1>2. ListFollows
  BY StaysTyped, PartFollows DEF TestsBegin
<1>3. /\ jobs' \subseteq [copy : ProfileRecords, begun : BOOLEAN]
      /\ \A j \in jobs' : j.copy \in Held
  <2>1. PICK chosen \in SUBSET (DOMAIN profiles) :
          jobs' = {[copy |-> profiles[i], begun |-> FALSE] : i \in chosen}
    BY DEF TestsBegin
  <2>2. \A i \in DOMAIN profiles : profiles[i] \in ProfileRecords /\ profiles[i] \in Held
    BY StaysTyped DEF Held, ToSet
  <2>3. ASSUME NEW j \in jobs'
        PROVE j \in [copy : ProfileRecords, begun : BOOLEAN] /\ j.copy \in Held
    <3>1. PICK i \in DOMAIN profiles : j = [copy |-> profiles[i], begun |-> FALSE]
      BY <2>1
    <3> QED
      BY <2>2, <3>1
  <2> QED
    BY <2>3
<1> QED
  BY <1>1, <1>2, <1>3, StaysTyped, InputKeeps DEF TestsBegin

\* A new frame of an update, on handlers none of which is an edit.
LEMMA FramePushed ==
  ASSUME stack \in Seq(Frames), NoEdit, Len(stack) < MaxDepth, NEW other, SameHandlers(other),
         NEW frame \in Frames, frame.op # "edit", stack' = Append(other, frame)
  PROVE stack' \in Seq(Frames) /\ Len(stack') <= MaxDepth /\ NoEdit'
<1>1. /\ stack' \in Seq(Frames) /\ Len(stack') <= MaxDepth
      /\ stack'[Len(stack')] = frame
      /\ \A i \in DOMAIN stack' : i # Len(stack') => stack'[i].op # "edit"
  BY Pushed
<1> QED
  BY <1>1 DEF NoEdit

LEMMA FrameTyped ==
  ASSUME subs \in Seq(SubscriptionRecords), NEW via \in {"window", "dialog"},
         NEW position \in DOMAIN subs, NEW left \in Nat
  PROVE UpdateFrame(via, position, left) \in Frames /\ UpdateFrame(via, position, left).op # "edit"
<1>1. subs[position] \in SubscriptionRecords
  OBVIOUS
<1>2. subs[position].id \in Subscriptions
  BY <1>1 DEF SubscriptionRecords
<1>3. UpdateFrame(via, position, left) \in UpdateFrames
  BY <1>2 DEF UpdateFrame, UpdateFrames
<1> QED
  BY <1>3 DEF UpdateFrames, Frames

\* The first enabled element of a stretch, and what is left of the stretch behind it.
LEMMA StretchIs ==
  ASSUME subs \in Seq(SubscriptionRecords), NEW start \in Nat, NEW count \in Nat,
         EnabledFrom(start, count) # {}
  PROVE /\ FirstOf(EnabledFrom(start, count)) \in DOMAIN subs
        /\ count - (FirstOf(EnabledFrom(start, count)) - start) - 1 \in Nat
<1> DEFINE some == EnabledFrom(start, count)
<1>1. /\ Len(subs) \in Nat /\ some \in SUBSET (1 .. Len(subs))
      /\ \A i \in some : i \in start .. (start + count - 1) /\ i \in DOMAIN subs
  BY DEF EnabledFrom
<1> HIDE DEF some
<1>2. FirstOf(some) \in some
  BY <1>1, FirstIsOne DEF some
<1> DEFINE n == FirstOf(some)
<1>3. n \in start .. (start + count - 1) /\ n \in DOMAIN subs
  BY <1>1, <1>2
<1> HIDE DEF n
<1>4. count - (n - start) - 1 \in Nat
  BY <1>3
<1> QED
  BY <1>3, <1>4 DEF n, some

\* updateOne and updateAll begin, whoever calls them.
LEMMA BeginKeeps ==
  ASSUME ListsInv, InWindow \/ InDialog, NEW via \in {"window", "dialog"},
         NEW start \in Nat, NEW count \in Nat, BeginUpdate(via, start, count)
  PROVE ListsInv' /\ ListFollows
<1>1. /\ stack \in Seq(Frames) /\ Len(stack) < MaxDepth /\ NoEdit
      /\ subs \in Seq(SubscriptionRecords)
  BY StaysTyped, InputTop, NoEditUnless DEF BeginUpdate
<1> DEFINE position == FirstOf(EnabledFrom(start, count))
           frame == UpdateFrame(via, position, count - (position - start) - 1)
<1>2. frame \in Frames /\ frame.op # "edit"
  <2>1. EnabledFrom(start, count) # {}
    BY DEF BeginUpdate
  <2>2. position \in DOMAIN subs /\ count - (position - start) - 1 \in Nat
    BY <1>1, <2>1, StretchIs
  <2> HIDE DEF position
  <2> QED
    BY <1>1, <2>2, FrameTyped
<1>3. \E other : SameHandlers(other) /\ stack' = Append(other, frame)
  <2>1. SameHandlers(WithRefs(Lost)) /\ SameHandlers(stack)
    BY <1>1, LostSame
  <2>2. \E copied \in BOOLEAN :
          stack' = Append(IF copied THEN WithRefs(Lost) ELSE stack, frame)
    BY DEF BeginUpdate
  <2> QED
    BY <2>1, <2>2
<1> HIDE DEF frame
<1>4. stack' \in Seq(Frames) /\ Len(stack') <= MaxDepth /\ NoEdit'
  BY <1>1, <1>2, <1>3, FramePushed
<1> USE DEF BeginUpdate
<1>5. Copies' \subseteq Held /\ EditsLast'
  BY <1>4, NoEditLeft, JobsHeld
<1>6. ListFollows
  BY StaysTyped, PartFollows
<1> QED
  BY <1>4, <1>5, <1>6, StaysTyped, StepKeeps

LEMMA UpdatesKeep == ListsInv /\ (WindowUpdates \/ DialogUpdates) => ListsInv' /\ ListFollows
<1> SUFFICES ASSUME ListsInv, WindowUpdates \/ DialogUpdates PROVE ListsInv' /\ ListFollows
  OBVIOUS
<1>1. Len(subs) \in Nat /\ DOMAIN subs \subseteq Nat
  <2>1. subs \in Seq(SubscriptionRecords)
    BY StaysTyped
  <2> QED
    BY <2>1
<1>2. \E via \in {"window", "dialog"}, start \in Nat, count \in Nat :
        BeginUpdate(via, start, count)
  <2>1. 1 \in Nat
    OBVIOUS
  <2> QED
    BY <1>1, <2>1, Zenon DEF WindowUpdates, DialogUpdates
<1>3. InWindow \/ InDialog
  BY DEF WindowUpdates, DialogUpdates
<1> QED
  BY <1>2, <1>3, BeginKeeps

LEMMA OpenKeeps == ListsInv /\ OpenDialog => ListsInv' /\ ListFollows
<1> SUFFICES ASSUME ListsInv, OpenDialog PROVE ListsInv' /\ ListFollows
  OBVIOUS
<1> USE DEF OpenDialog
<1>1. stack \in Seq(Frames) /\ Len(stack) < MaxDepth /\ NoEdit
  BY StaysTyped, InputTop, NoEditUnless
<1>2. SameHandlers(stack) /\ [op |-> "dialog"] \in Frames
  BY <1>1, LostSame DEF Frames
<1>3. stack' \in Seq(Frames) /\ Len(stack') <= MaxDepth /\ NoEdit'
  BY <1>1, <1>2, FramePushed
<1>4. Copies' \subseteq Held /\ EditsLast'
  BY <1>3, NoEditLeft, JobsHeld
<1>5. ListFollows
  BY StaysTyped, PartFollows
<1> QED
  BY <1>3, <1>4, <1>5, StaysTyped, StepKeeps

LEMMA CloseKeeps == ListsInv /\ CloseDialog => ListsInv' /\ ListFollows
<1> SUFFICES ASSUME ListsInv, CloseDialog PROVE ListsInv' /\ ListFollows
  OBVIOUS
<1> USE DEF CloseDialog
<1>1. stack \in Seq(Frames) /\ stack # <<>> /\ Len(stack) <= MaxDepth /\ EditsLast
  BY StaysTyped, TopIs DEF ListsInv
<1>2. stack' \in Seq(Frames) /\ Len(stack') <= MaxDepth /\ NoEdit'
  BY <1>1, Popped
<1>3. Copies' \subseteq Held /\ EditsLast'
  BY <1>2, NoEditLeft, JobsHeld
<1>4. ListFollows
  BY StaysTyped, PartFollows
<1> QED
  BY <1>2, <1>3, <1>4, StaysTyped, StepKeeps

\* An edit begins, with a copy of the profile as the list has it.
LEMMA EditBeginsKeeps == ListsInv /\ EditBegins => ListsInv' /\ ListFollows
<1> SUFFICES ASSUME ListsInv, EditBegins PROVE ListsInv' /\ ListFollows
  OBVIOUS
<1> USE DEF EditBegins
<1>1. /\ stack \in Seq(Frames) /\ Len(stack) < MaxDepth /\ NoEdit
      /\ profiles \in Seq(ProfileRecords)
  BY StaysTyped, InputTop, NoEditUnless
<1>2. PICK at \in DOMAIN profiles : stack' = Append(stack, [op |-> "edit", copy |-> profiles[at]])
  OBVIOUS
<1> DEFINE frame == [op |-> "edit", copy |-> profiles[at]]
<1>3. /\ frame \in Frames /\ frame.copy = profiles[at]
      /\ profiles[at] \in Held
  <2>1. profiles[at] \in ProfileRecords
    BY <1>1
  <2> QED
    BY <2>1 DEF Frames, Held, ToSet
<1> HIDE DEF frame
<1>4. /\ stack' \in Seq(Frames) /\ Len(stack') <= MaxDepth
      /\ stack'[Len(stack')] = frame
      /\ \A i \in DOMAIN stack' : i # Len(stack') => stack'[i].op # "edit"
  BY <1>1, <1>2, <1>3, LostSame, Pushed DEF frame
<1>5. Copies' \subseteq Held
  BY <1>3, <1>4, JobsHeld DEF Copies
<1>6. EditsLast'
  <2>1. \A k \in DOMAIN profiles : profiles[k].id = profiles[at].id => k = at
    BY DEF ListsInv, ListsSound, OwnIds
  <2> QED
    BY <1>3, <1>4, <2>1 DEF EditsLast
<1>7. ListFollows
  BY StaysTyped, PartFollows
<1> QED
  BY <1>4, <1>5, <1>6, <1>7, StaysTyped, StepKeeps

\* A copy takes the place of the profile it was made from.
LEMMA CopyReplaces ==
  ASSUME ListsInv, NEW copy \in Copies, NEW at, at = PositionOfId(copy.id),
         profiles' = IF at = 0 THEN profiles ELSE [profiles EXCEPT ![at] = copy],
         issued' = issued, returned => returned',
         ~returned' /\ at # 0 => copy.sub = profiles[at].sub
  PROVE /\ ListFollows
        /\ DOMAIN profiles' = DOMAIN profiles
        /\ \A k \in DOMAIN profiles :
             profiles'[k].id = profiles[k].id /\ (~returned' => profiles'[k].sub = profiles[k].sub)
<1>1. /\ profiles \in Seq(ProfileRecords) /\ issued \in Nat
      /\ Len(profiles) \in Nat /\ DOMAIN profiles = 1 .. Len(profiles)
  BY StaysTyped
<1>2. copy \in ProfileRecords /\ copy \in Held
  BY CopiesAreRecords DEF ListsInv, Held
<1>3. at # 0 => at \in DOMAIN profiles /\ profiles[at].id = copy.id
  BY <1>1, PositionOfIdIs
<1>4. \A k \in DOMAIN profiles : profiles[k] \in Held
  BY DEF Held, ToSet
<1>5. at # 0 => profiles[at].server = copy.server
  BY <1>2, <1>3, <1>4 DEF ListsInv, ServersStay
<1>6. /\ profiles' \in Seq(ProfileRecords) /\ DOMAIN profiles' = DOMAIN profiles
      /\ \A k \in DOMAIN profiles :
           /\ profiles'[k].id = profiles[k].id /\ profiles'[k].server = profiles[k].server
           /\ profiles'[k] \in Held
           /\ ~returned' => profiles'[k].sub = profiles[k].sub
  <2>1. CASE at = 0
    BY <1>1, <1>4, <2>1
  <2>2. CASE at # 0
    <3>1. at \in DOMAIN profiles /\ profiles' = [profiles EXCEPT ![at] = copy]
      BY <1>3, <2>2
    <3>2. profiles' \in Seq(ProfileRecords) /\ DOMAIN profiles' = DOMAIN profiles
      BY <1>1, <1>2, <3>1
    <3>3. \A k \in DOMAIN profiles : profiles'[k] = IF k = at THEN copy ELSE profiles[k]
      BY <3>1
    <3> QED
      BY <1>2, <1>3, <1>4, <1>5, <2>2, <3>2, <3>3
  <2> QED
    BY <2>1, <2>2
<1>7. OwnIds(profiles, issued) /\ (~returned => OneEach(profiles))
  BY DEF ListsInv, ListsSound
<1>8. OwnIds(profiles', issued')
  BY <1>6, <1>7 DEF OwnIds
<1>9. ~returned' => OneEach(profiles')
  BY <1>6, <1>7 DEF OneEach, IsOf
<1>10. \A k \in DOMAIN profiles' : NewOrKept(profiles'[k])
  BY <1>6 DEF NewOrKept
<1> QED
  BY <1>1, <1>6, <1>8, <1>9, <1>10 DEF ListFollows

LEMMA EditEndsKeeps == ListsInv /\ EditEnds => ListsInv' /\ ListFollows
<1> SUFFICES ASSUME ListsInv, EditEnds PROVE ListsInv' /\ ListFollows
  OBVIOUS
<1>1. /\ stack \in Seq(Frames) /\ stack # <<>> /\ Len(stack) <= MaxDepth /\ EditsLast
      /\ Top = stack[Len(stack)] /\ Top.op = "edit" /\ Len(stack) \in DOMAIN stack
      /\ profiles \in Seq(ProfileRecords)
  <2>1. stack \in Seq(Frames) /\ Top.op = "edit" /\ EditsLast /\ Len(stack) <= MaxDepth
    BY StaysTyped DEF EditEnds, ListsInv
  <2>2. stack # <<>> /\ Top = stack[Len(stack)] /\ Len(stack) >= 1
    BY <2>1, TopIs
  <2>3. Len(stack) \in DOMAIN stack
    BY <2>1, <2>2
  <2> QED
    BY <2>1, <2>2, <2>3, StaysTyped
<1>2. stack' \in Seq(Frames) /\ Len(stack') <= MaxDepth /\ NoEdit'
  BY <1>1, Popped DEF EditEnds
<1>3. Copies' \subseteq Held /\ EditsLast'
  BY <1>2, NoEditLeft, JobsHeld DEF EditEnds
<1>4. ListFollows
  <2>1. CASE profiles' = profiles
    BY <2>1, StaysTyped, PartFollows DEF EditEnds
  <2>2. CASE profiles' # profiles
    <3> DEFINE copy == Top.copy
               at == PositionOfId(copy.id)
    <3>1. copy \in Copies
      BY <1>1 DEF Copies
    <3>2. at # 0 => at \in DOMAIN profiles /\ profiles[at].id = copy.id
      BY <1>1, PositionOfIdIs
    <3>3. profiles' = [profiles EXCEPT ![at] = copy]
      BY <2>2 DEF EditEnds
    <3>4. ~returned /\ at # 0 => copy.sub = profiles[at].sub
      BY <1>1, <3>2 DEF EditsLast
    <3> HIDE DEF at, copy
    <3>5. 0 \notin DOMAIN profiles
      BY <1>1
    <3>6. profiles' = IF at = 0 THEN profiles ELSE [profiles EXCEPT ![at] = copy]
      <4>1. profiles = [k \in DOMAIN profiles |-> profiles[k]]
        BY <1>1
      <4>2. at = 0 => [profiles EXCEPT ![at] = copy] = [k \in DOMAIN profiles |-> profiles[k]]
        BY <3>5
      <4> QED
        BY <3>3, <4>1, <4>2
    <3>7. issued' = issued /\ returned' = returned
      BY DEF EditEnds
    <3>8. at = PositionOfId(copy.id)
      BY DEF at
    <3> QED
      BY <3>1, <3>4, <3>6, <3>7, <3>8, CopyReplaces
  <2> QED
    BY <2>1, <2>2
<1> QED
  BY <1>2, <1>3, <1>4, StaysTyped, StepKeeps DEF EditEnds

LEMMA ShownKeeps == ListsInv /\ TestShown => ListsInv' /\ ListFollows
<1> SUFFICES ASSUME ListsInv, TestShown PROVE ListsInv' /\ ListFollows
  OBVIOUS
<1>1. PICK j \in jobs :
        /\ Recorded(j.copy)
        /\ \/ jobs' = jobs \ {j}
           \/ ~j.begun /\ jobs' = (jobs \ {j}) \cup {[j EXCEPT !.begun = TRUE]}
  BY DEF TestShown
<1> DEFINE copy == j.copy
           at == PositionOfId(copy.id)
<1>2. copy \in Copies /\ at = PositionOfId(copy.id)
  BY DEF Copies
<1>3. /\ profiles' = IF at = 0 THEN profiles ELSE [profiles EXCEPT ![at] = copy]
      /\ returned' = (returned \/ (at # 0 /\ copy.sub # profiles[at].sub))
  BY <1>1 DEF Recorded
<1>4. /\ jobs \subseteq [copy : ProfileRecords, begun : BOOLEAN]
      /\ jobs' \subseteq [copy : ProfileRecords, begun : BOOLEAN]
      /\ \A k \in jobs' : k.copy \in {m.copy : m \in jobs}
  <2>1. jobs \subseteq [copy : ProfileRecords, begun : BOOLEAN]
    BY StaysTyped
  <2>2. /\ [j EXCEPT !.begun = TRUE] \in [copy : ProfileRecords, begun : BOOLEAN]
        /\ [j EXCEPT !.begun = TRUE].copy = j.copy
    BY <2>1
  <2> QED
    BY <1>1, <2>1, <2>2
<1> HIDE DEF at, copy
<1>5. stack' = stack /\ issued' = issued /\ subs' = subs /\ acts' = acts
  BY DEF TestShown
<1>6. /\ ListFollows
      /\ DOMAIN profiles' = DOMAIN profiles
      /\ \A k \in DOMAIN profiles :
           profiles'[k].id = profiles[k].id /\ (~returned' => profiles'[k].sub = profiles[k].sub)
  <2>1. /\ returned => returned'
        /\ ~returned' /\ at # 0 => copy.sub = profiles[at].sub
    BY <1>3
  <2> QED
    BY <1>2, <1>3, <1>5, <2>1, CopyReplaces
<1>7. Copies' \subseteq Held
  BY <1>4, <1>5 DEF Copies, Held
<1>8. EditsLast'
  <2> SUFFICES ASSUME NEW i \in DOMAIN stack, stack[i].op = "edit"
               PROVE /\ i = Len(stack)
                     /\ ~returned' => \A k \in DOMAIN profiles' :
                          profiles'[k].id = stack[i].copy.id => profiles'[k].sub = stack[i].copy.sub
    BY <1>5 DEF EditsLast
  <2>1. /\ i = Len(stack)
        /\ ~returned => \A k \in DOMAIN profiles :
             profiles[k].id = stack[i].copy.id => profiles[k].sub = stack[i].copy.sub
    BY DEF ListsInv, EditsLast
  <2>2. ASSUME ~returned', NEW k \in DOMAIN profiles', profiles'[k].id = stack[i].copy.id
        PROVE profiles'[k].sub = stack[i].copy.sub
    <3>1. ~returned
      BY <1>3, <2>2
    <3>2. /\ k \in DOMAIN profiles
          /\ profiles'[k].id = profiles[k].id /\ profiles'[k].sub = profiles[k].sub
      BY <1>6, <2>2
    <3> QED
      BY <2>1, <2>2, <3>1, <3>2
  <2> QED
    BY <2>1, <2>2
<1> QED
  BY <1>4, <1>5, <1>6, <1>7, <1>8, StaysTyped, StepKeeps DEF TestShown

\* The program ends and starts again with what its files hold.
LEMMA RestartKeeps == ListsInv /\ Restart => ListsInv' /\ ListFollows
<1> SUFFICES ASSUME ListsInv, Restart PROVE ListsInv' /\ ListFollows
  OBVIOUS
<1> USE DEF Restart
<1>1. stack' \in Seq(Frames) /\ Len(stack') = 0 /\ Len(stack') <= MaxDepth
  BY BoundsAssumption
<1>2. NoEdit' /\ \A j \in jobs' : j.copy \in Held
  BY DEF NoEdit
<1>3. Copies' \subseteq Held /\ EditsLast'
  BY <1>2, NoEditLeft
<1>4. ListFollows
  BY StaysTyped, PartFollows
<1>5. subs' \in Seq(SubscriptionRecords)
  BY StaysTyped
<1>6. jobs' \subseteq [copy : ProfileRecords, begun : BOOLEAN]
  OBVIOUS
<1> QED
  BY <1>1, <1>3, <1>4, <1>5, <1>6, StaysTyped, StepKeeps

\* The end of a download: what it did to the list, and the handlers that wait then.
LEMMA DownloadFollows ==
  ASSUME ListsInv, NEW frame \in UpdateFrames, Downloaded(frame), returned' = returned
  PROVE ListFollows /\ issued' <= MaxIds
<1>1. CASE profiles' = profiles /\ issued' = issued
  BY <1>1, StaysTyped, PartFollows
<1>2. CASE \E links \in Links : MergeLinks(ReadThrough(frame), links)
  <2>1. PICK links \in Links : MergeLinks(ReadThrough(frame), links)
    BY <1>2
  <2>2. links \in Seq(Servers)
    BY BoundsAssumption, SeqDef DEF Links
  <2> DEFINE s == ReadThrough(frame)
  <2>3. s \in Subscriptions
    BY DEF ReadThrough, UpdateFrames
  <2>4. /\ profiles \in Seq(ProfileRecords) /\ issued \in Nat
        /\ Len(profiles) \in Nat /\ DOMAIN profiles = 1 .. Len(profiles)
        /\ OwnIds(profiles, issued) /\ (~returned => OneEach(profiles))
    BY StaysTyped DEF ListsInv, ListsSound
  <2> HIDE DEF s
  <2>5. MergeLinks(s, links)
    BY <2>1 DEF s
  <2>6. /\ profiles' \in Seq(ProfileRecords)
        /\ issued' \in 0 .. MaxIds /\ issued' >= issued
        /\ \A i \in DOMAIN profiles :
             profiles'[i].id = profiles[i].id /\ profiles'[i].server = profiles[i].server
        /\ \A i \in DOMAIN profiles' : i > Len(profiles) => profiles'[i].id > issued
        /\ OwnIds(profiles', issued')
        /\ OneEach(profiles) => OneEach(profiles')
    BY <2>2, <2>3, <2>4, <2>5, MergeLinksGives
  <2>7. issued' \in Nat /\ issued' <= MaxIds
    BY <2>6, BoundsAssumption
  <2>8. ASSUME NEW i \in DOMAIN profiles'
        PROVE NewOrKept(profiles'[i])
    <3>1. i \in DOMAIN profiles \/ i > Len(profiles)
      BY <2>4, <2>6
    <3> QED
      BY <2>6, <3>1 DEF NewOrKept
  <2> QED
    BY <2>4, <2>6, <2>7, <2>8 DEF ListFollows
<1> QED
  BY <1>1, <1>2 DEF Downloaded

LEMMA DownloadKeeps == ListsInv /\ DownloadEnds => ListsInv' /\ ListFollows
<1> SUFFICES ASSUME ListsInv, DownloadEnds PROVE ListsInv' /\ ListFollows
  OBVIOUS
<1>1. /\ stack \in Seq(Frames) /\ stack # <<>> /\ Len(stack) <= MaxDepth /\ EditsLast /\ NoEdit
      /\ Top = stack[Len(stack)] /\ Top \in Frames /\ Top.op = "update"
      /\ subs \in Seq(SubscriptionRecords)
  BY StaysTyped, TopIs, NoEditUnless DEF DownloadEnds, ListsInv
<1> DEFINE frame == Top
<1>2. frame \in UpdateFrames
  BY <1>1, FrameKinds
<1>3. /\ Downloaded(frame) /\ subs' = subs /\ jobs' = jobs /\ acts' = acts /\ returned' = returned
      /\ UpdateGoesOn(frame) \/ UpdateReturns(frame)
  BY DEF DownloadEnds
<1> HIDE DEF frame
<1>4. ListFollows /\ issued' <= MaxIds
  BY <1>2, <1>3, DownloadFollows
<1>5. stack' \in Seq(Frames) /\ Len(stack') <= MaxDepth /\ NoEdit'
  <2>0. Len(stack) \in Nat /\ DOMAIN stack = 1 .. Len(stack)
    BY <1>1
  <2>1. /\ Front(stack) \in Seq(Frames) /\ Len(Front(stack)) = Len(stack) - 1 /\ Len(stack) \in Nat
        /\ \A i \in 1 .. Len(stack) - 1 : Front(stack)[i] = stack[i]
    <3>1. stack \in Seq(Frames) /\ stack # <<>>
      BY <1>1
    <3> QED
      BY <2>0, <3>1, FrontOf
  <2>2. CASE UpdateReturns(frame)
    BY <1>1, <2>2, Popped DEF UpdateReturns
  <2>3. CASE UpdateGoesOn(frame)
    <3> DEFINE start == PositionOf(frame.ref) + 1
               next == FirstOf(EnabledFrom(start, frame.left))
               after == UpdateFrame(frame.via, next, frame.left - (next - start) - 1)
    <3>1. EnabledFrom(start, frame.left) # {} /\ stack' = Append(Front(stack), after)
      BY <2>3 DEF UpdateGoesOn
    <3>2. frame.left \in Nat /\ frame.via \in {"window", "dialog"}
      BY <1>2 DEF UpdateFrames
    <3>3. start \in Nat
      BY <1>1, PositionIs
    <3> HIDE DEF start
    <3>4. next \in DOMAIN subs /\ frame.left - (next - start) - 1 \in Nat
      BY <1>1, <3>1, <3>2, <3>3, StretchIs
    <3> HIDE DEF next
    <3>5. after \in Frames /\ after.op # "edit"
      BY <1>1, <3>2, <3>4, FrameTyped
    <3> HIDE DEF after
    <3>6. /\ stack' \in Seq(Frames) /\ Len(stack') = Len(stack)
          /\ stack'[Len(stack)] = after
          /\ \A i \in 1 .. Len(stack) - 1 : stack'[i] = stack[i]
      BY <2>1, <3>1, <3>5, AppendProperties
    <3>7. \A i \in DOMAIN stack' : i = Len(stack) \/ i \in 1 .. Len(stack) - 1
      BY <2>1, <3>6
    <3>8. \A i \in 1 .. Len(stack) - 1 : stack[i].op # "edit"
      <4>1. \A i \in 1 .. Len(stack) - 1 : i \in DOMAIN stack
        BY <2>0
      <4> QED
        BY <1>1, <4>1 DEF NoEdit
    <3>9. NoEdit'
      BY <3>5, <3>6, <3>7, <3>8 DEF NoEdit
    <3> QED
      BY <1>1, <3>6, <3>9
  <2> QED
    BY <1>3, <2>2, <2>3
<1>6. Copies' \subseteq Held /\ EditsLast'
  BY <1>3, <1>5, NoEditLeft, JobsHeld
<1>7. SaveWindow \/ SaveDialog \/ SaveProfiles \/ UNCHANGED saved
  BY <1>3 DEF UpdateGoesOn, UpdateReturns
<1> QED
  BY <1>3, <1>4, <1>5, <1>6, <1>7, StaysTyped, StepKeeps

LEMMA ListsStep == ListsInv /\ [Next]_vars => ListsInv' /\ ListFollows
<1> SUFFICES ASSUME ListsInv, [Next]_vars PROVE ListsInv' /\ ListFollows
  OBVIOUS
<1>1. CASE UNCHANGED vars
  <2> USE <1>1 DEF vars
  <2>1. ListFollows
    BY StaysTyped, PartFollows
  <2>2. Copies' = Copies /\ EditsLast' /\ Copies \subseteq Held
    BY DEF Copies, Held, ListsInv, EditsLast
  <2>3. UNCHANGED acts /\ UNCHANGED saved
    OBVIOUS
  <2> QED
    BY <2>1, <2>2, <2>3, StaysTyped, StepKeeps
<1>2. CASE Next
  BY <1>2, UpdatesKeep, DownloadKeeps, OpenKeeps, CloseKeeps, NewSubscriptionKeeps,
     EditedSubscriptionKeeps, DeletedSubscriptionKeeps, AddKeeps, EditBeginsKeeps,
     EditEndsKeeps, DeleteKeeps, SaveAllKeeps, LoadKeeps, TestsBeginKeeps, ShownKeeps,
     RestartKeeps DEF Next
<1> QED
  BY <1>1, <1>2

LEMMA ListsInitially == ListInit => ListsInv
<1> SUFFICES ASSUME ListInit PROVE ListsInv
  OBVIOUS
<1> USE DEF ListInit
<1>1. /\ saved \in [profiles : Seq(ProfileRecords), subs : Seq(SubscriptionRecords)]
      /\ Len(saved.profiles) <= MaxIds
      /\ \A i, j \in DOMAIN saved.profiles :
           /\ saved.profiles[i].id <= Len(saved.profiles)
           /\ i # j =>
                /\ saved.profiles[i].id # saved.profiles[j].id
                /\ saved.profiles[i].sub = Manual
                   \/ <<saved.profiles[i].sub, saved.profiles[i].server>>
                        # <<saved.profiles[j].sub, saved.profiles[j].server>>
  BY FoundAssumption
<1>2. saved.profiles \in Seq(ProfileRecords) /\ saved.subs \in Seq(SubscriptionRecords)
  BY <1>1
<1>3. issued \in 0 .. MaxIds /\ issued = Len(saved.profiles)
  BY <1>1, <1>2, BoundsAssumption
<1>4. ProfileListTypeOK
  <2>1. /\ stack \in Seq(Frames) /\ Len(stack) <= MaxDepth /\ acts \in 0 .. MaxActs
        /\ jobs \subseteq [copy : ProfileRecords, begun : BOOLEAN]
    BY BoundsAssumption
  <2> QED
    BY <1>1, <1>2, <1>3, <2>1 DEF ProfileListTypeOK
<1>5. OwnIds(saved.profiles, issued) /\ OneEach(saved.profiles)
  BY <1>1, <1>3 DEF OwnIds, OneEach, IsOf
<1>6. Held = ToSet(saved.profiles)
  BY DEF Held, Copies
<1>7. ServersStay
  BY <1>1, <1>3, <1>6 DEF ServersStay, ToSet
<1> QED
  BY <1>4, <1>5, <1>7 DEF ListsInv, ListsSound, EditsLast

\* In every state the lists and files are sound, a profile has the server it was made with in
\* every copy of it, and nothing but results of tests comes while one is edited (MainWindow,
\* SubscriptionManager, SubscriptionManagerDialog).
THEOREM ListsAlwaysInv == ListSpec => []ListsInv
<1>1. ListInit => ListsInv
  BY ListsInitially
<1>2. ListsInv /\ [Next]_vars => ListsInv'
  BY ListsStep
<1> QED
  BY <1>1, <1>2, PTL DEF ListSpec

\* Neither list nor file ever has two profiles with one id, nor, unless a test gave a profile
\* back, two of one subscription for one server (updateSubscription).
THEOREM OneProfileAlways == ListSpec => []OneProfilePerServer
<1>1. ListsInv => OneProfilePerServer
  BY DEF ListsInv, ListsSound, OwnIds, OneEach, OneProfilePerServer
<1> QED
  BY <1>1, ListsAlwaysInv, PTL

\* A profile that left the list comes back only out of the file (onProfileUpdated).
THEOREM DeletedAlwaysStays == ListSpec => DeletedStaysDeleted
<1> DEFINE Stays == \A id \in 1 .. issued :
                      PositionOfId(id) = 0 /\ PositionOfId(id)' # 0 => profiles' = saved.profiles
<1>1. ASSUME ListsInv, ListsInv', [Next]_vars PROVE Stays
  <2> SUFFICES ASSUME NEW id \in 1 .. issued, PositionOfId(id) = 0, PositionOfId(id)' # 0,
                      profiles' # saved.profiles
               PROVE FALSE
    OBVIOUS
  <2>1. profiles \in Seq(ProfileRecords) /\ issued \in Nat
    BY <1>1, StaysTyped
  <2>2. profiles' \in Seq(ProfileRecords)
    BY <1>1 DEF ListsInv, ProfileListTypeOK
  <2>3. \A i \in DOMAIN profiles : profiles[i].id # id
    BY <2>1, PositionOfIdIs
  <2>4. ~ \A i \in DOMAIN profiles' : profiles'[i].id # id
    <3>1. /\ profiles \in Seq(ProfileRecords) =>
               (PositionOfId(id) = 0 <=> \A i \in DOMAIN profiles : profiles[i].id # id)
      BY PositionOfIdIs
    <3>2. (profiles \in Seq(ProfileRecords) =>
               (PositionOfId(id) = 0 <=> \A i \in DOMAIN profiles : profiles[i].id # id))'
      BY PositionOfIdIs, PTL
    <3> QED
      BY <2>2, <3>2
  <2>5. PICK i \in DOMAIN profiles' : profiles'[i].id = id
    BY <2>4
  <2>6. NewOrKept(profiles'[i])
    BY <1>1, ListsStep DEF ListFollows
  <2> QED
    BY <2>1, <2>3, <2>5, <2>6 DEF NewOrKept
<1>2. ListsInv /\ ListsInv' /\ [Next]_vars => [Stays]_vars
  BY <1>1
<1> QED
  BY <1>2, ListsAlwaysInv, PTL DEF ListSpec, DeletedStaysDeleted

\* An update does what it has to and nothing else: the end of one erases no profile, changes
\* only those of one subscription, its own unless the reference the handler holds was
\* disturbed, and, when it failed, none; and it makes the profiles of its
\* subscription that are not marked those of the downloaded list, unless disturbed
\* (updateSubscription).
THEOREM UpdatesAreExact == ListSpec => UpdateIsExact
<1> DEFINE Own ==
             /\ \E s \in Subscriptions :
                  /\ fetched'.undisturbed => s = fetched'.sub
                  /\ \A i \in DOMAIN profiles :
                       /\ profiles'[i].id = profiles[i].id
                       /\ profiles'[i] # profiles[i] => profiles[i].sub = s
             /\ fetched'.servers = {} => profiles' = profiles
           Synced ==
             fetched'.undisturbed =>
               {p.server : p \in {q \in ToSet(profiles') : q.sub = fetched'.sub /\ ~q.missing}}
                 = fetched'.servers
<1>1. ASSUME ListsInv, DownloadEnds PROVE Own /\ Synced
  <2>1. Top \in UpdateFrames /\ Downloaded(Top)
    BY <1>1, StaysTyped, TopIs, FrameKinds DEF DownloadEnds
  <2> DEFINE frame == Top
             s == ReadThrough(frame)
  <2>2. /\ s \in Subscriptions /\ frame.started \in Subscriptions
        /\ frame.ref = frame.started => s = frame.started
    BY <2>1, NamesAssumption DEF ReadThrough, UpdateFrames
  <2>3. Downloaded(frame)
    BY <2>1
  <2> HIDE DEF frame
  <2>4. CASE /\ fetched' = [sub |-> frame.started, servers |-> {}, undisturbed |-> FALSE]
             /\ UNCHANGED <<profiles, issued>>
    BY <2>2, <2>4
  <2>5. CASE \E links \in Links :
               /\ MergeLinks(s, links)
               /\ fetched' = [sub |-> frame.started, servers |-> ToSet(links),
                              undisturbed |-> frame.ref = frame.started]
    <3>1. PICK links \in Links :
            /\ MergeLinks(s, links)
            /\ fetched' = [sub |-> frame.started, servers |-> ToSet(links),
                           undisturbed |-> frame.ref = frame.started]
      BY <2>5
    <3>2. links \in Seq(Servers) /\ ToSet(links) # {}
      <4>1. PICK n \in 1 .. MaxLinks : links \in [1 .. n -> Servers]
        BY DEF Links
      <4>2. n \in Nat /\ 1 \in 1 .. n
        BY BoundsAssumption
      <4>3. links[1] \in ToSet(links)
        BY <4>1, <4>2 DEF ToSet
      <4> QED
        BY <4>1, <4>2, <4>3, SeqDef
    <3>3. profiles \in Seq(ProfileRecords) /\ issued \in Nat /\ OwnIds(profiles, issued)
      BY <1>1, StaysTyped DEF ListsInv, ListsSound
    <3> HIDE DEF s
    <3>4. /\ \A i \in DOMAIN profiles :
               /\ profiles'[i].id = profiles[i].id
               /\ profiles'[i] # profiles[i] => profiles[i].sub = s
          /\ \A k \in DOMAIN links : \E i \in DOMAIN profiles' :
               IsOf(profiles'[i], s, links[k]) /\ ~profiles'[i].missing
          /\ \A i \in DOMAIN profiles' :
               profiles'[i].sub = s /\ ~profiles'[i].missing => profiles'[i].server \in ToSet(links)
      BY <2>2, <3>1, <3>2, <3>3, MergeLinksGives
    <3>5. fetched'.servers = ToSet(links) /\ fetched'.sub = frame.started
          /\ (fetched'.undisturbed => fetched'.sub = s)
      BY <2>2, <3>1
    <3>6. Own
      BY <2>2, <3>2, <3>4, <3>5
    <3>7. ASSUME fetched'.undisturbed
          PROVE {p.server : p \in {q \in ToSet(profiles') : q.sub = fetched'.sub /\ ~q.missing}}
                  = ToSet(links)
      <4>1. ASSUME NEW q \in ToSet(profiles'), q.sub = s, ~q.missing
            PROVE q.server \in ToSet(links)
        BY <3>4, <4>1 DEF ToSet
      <4>2. ASSUME NEW server \in ToSet(links)
            PROVE \E q \in ToSet(profiles') : q.sub = s /\ ~q.missing /\ q.server = server
        <5>1. PICK k \in DOMAIN links : server = links[k]
          BY <4>2 DEF ToSet
        <5>2. PICK i \in DOMAIN profiles' :
                IsOf(profiles'[i], s, links[k]) /\ ~profiles'[i].missing
          BY <3>4
        <5> QED
          BY <5>1, <5>2 DEF IsOf, ToSet
      <4> QED
        BY <3>5, <3>7, <4>1, <4>2
    <3> QED
      BY <3>5, <3>6, <3>7
  <2> QED
    BY <2>3, <2>4, <2>5 DEF Downloaded
<1>2. ListsInv /\ [Next]_vars => [DownloadEnds => Own]_vars
  BY <1>1
<1>3. ListsInv /\ [Next]_vars
        => [DownloadEnds /\ fetched'.undisturbed =>
             {p.server : p \in {q \in ToSet(profiles') : q.sub = fetched'.sub /\ ~q.missing}}
               = fetched'.servers]_vars
  BY <1>1
<1> QED
  BY <1>2, <1>3, ListsAlwaysInv, PTL
     DEF ListSpec, UpdateIsExact, UpdateTouchesOwn, SyncedWithList

=============================================================================
