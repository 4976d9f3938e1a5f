-------------------------- MODULE ServerWork_proofs ---------------------------
(***************************************************************************)
(* The two sorts of work a server polls its tables for: the bootstrap jobs *)
(* of `ghreplica refresh repo` (RefreshJobs), and the change sync workers  *)
(* of a repository (WorkScheduler).                                        *)
(*                                                                         *)
(* JobsInv is an invariant of the bootstrap jobs, for any number of        *)
(* commands, servers and attempts, as long as servers follow each other.   *)
(* With it, a job that waits has an attempt left, and outcomes stand.      *)
(*                                                                         *)
(* RepairInv is an invariant of the workers, for any lists, pages, windows *)
(* and number of workers, whatever changes, fails and crashes.  With it a  *)
(* repair that ends has brought in what did not change under it.           *)
(***************************************************************************)
EXTENDS RefreshJobs, WorkScheduler, FiniteSetTheorems, TLAPS

-----------------------------------------------------------------------------
(* The bootstrap jobs.                                                     *)
JobType == [status : Statuses, source : {"manual", "webhook"},
            attempts : 0..MaxAttempts, due : BOOLEAN, expired : BOOLEAN]
WorkerType == [pc : Phases, job : Jobs \cup {NoJob}, found : SUBSET (Jobs \X (0..MaxAttempts))]

\* TypeOK, with the record types named.
LEMMA JobTypes ==
  JobsTypeOK <=> /\ jobs \in [Jobs -> JobType]
             /\ command \in [Jobs -> {"new", "checking", "inserting", "done"}]
             /\ runner \in [Servers -> WorkerType]
BY DEF JobsTypeOK, JobType, WorkerType

\* A table that holds at most the job of a webhook, and no worker yet.
LEMMA InitJobs == JobsInit => JobsInv
<1> SUFFICES ASSUME JobsInit PROVE JobsInv
  OBVIOUS
<1>1. NoRow \in JobType /\ NoRow.status = "none"
  BY BoundsAssumption DEF NoRow, JobType, Statuses
<1>2. ASSUME NEW first \in WebhookJobs
      PROVE  first \in JobType /\ first.attempts < MaxAttempts
  <2>1. PICK s \in {"pending", "processing", "succeeded", "failed"}, n \in 0..MaxAttempts-1 :
          first = [status |-> s, source |-> "webhook", attempts |-> n,
                   due |-> TRUE, expired |-> FALSE]
    BY DEF WebhookJobs
  <2> QED
    BY <2>1, BoundsAssumption DEF JobType, Statuses
<1>3. PICK first \in WebhookJobs \cup {NoRow} :
        jobs = [j \in Jobs |-> IF j = 1 THEN first ELSE NoRow]
  BY DEF JobsInit
<1>4. jobs \in [Jobs -> JobType] /\ AttemptsRemain
  BY <1>1, <1>2, <1>3 DEF AttemptsRemain
<1>5. command \in [Jobs -> {"new", "checking", "inserting", "done"}] /\ CommandsOK
  BY <1>1 DEF JobsInit, CommandsOK
<1> DEFINE started == [IdleWorker EXCEPT !.pc = "new"]
<1>6. started \in WorkerType /\ started.pc = "new" /\ started.found = {}
  BY DEF IdleWorker, WorkerType, Phases
<1>7. runner = [w \in Servers |-> started]
  BY DEF JobsInit
<1> HIDE DEF started
<1>8. runner \in [Servers -> WorkerType] /\ OneWorker /\ RunnersOK
  BY <1>6, <1>7 DEF OneWorker, RunnersOK, RunnerOK, Busy, Alive
<1> QED
  BY <1>4, <1>5, <1>8, JobTypes DEF JobsInv

\* A row that ends, or goes back to the queue, stays a row of the table.
LEMMA EndedRow ==
  ASSUME JobsTypeOK, NEW j \in Jobs, NEW s \in Statuses
  PROVE  /\ Ended(j, s) \in JobType
         /\ Ended(j, s).status = s
         /\ Ended(j, s).attempts = jobs[j].attempts
         /\ Ended(j, s).source = jobs[j].source
         /\ [Ended(j, s) EXCEPT !.due = TRUE] \in JobType
         /\ [Ended(j, s) EXCEPT !.due = TRUE].status = s
         /\ [Ended(j, s) EXCEPT !.due = TRUE].attempts = jobs[j].attempts
BY JobTypes DEF Ended, JobType

\* What a step of one worker has to keep: the others are not alive.
LEMMA OwnStep ==
  ASSUME JobsInv, NEW w \in Servers, Alive(w),
         runner' \in [Servers -> WorkerType],
         \A v \in Servers \ {w} : runner'[v] = runner[v],
         RunnerOK(w)'
  PROVE  OneWorker' /\ RunnersOK'
<1>1. \A v \in Servers \ {w} : ~Alive(v)
  BY DEF JobsInv, OneWorker
<1>2. OneWorker'
  BY <1>1 DEF OneWorker, Alive
<1>3. ASSUME NEW v \in Servers \ {w} PROVE RunnerOK(v)'
  <2>1. runner'[v] = runner[v] /\ runner[v].pc \in {"new", "down"} /\ RunnerOK(v)
    BY <1>1 DEF JobsInv, RunnersOK, Alive
  <2> QED
    BY <2>1 DEF RunnerOK, Busy
<1> QED
  BY <1>2, <1>3 DEF RunnersOK

\* What a step that leaves the workers alone has to keep: a job in processing.
LEMMA JobsOnlyStep ==
  ASSUME JobsInv, UNCHANGED runner,
         \A j \in Jobs : jobs[j].status = "processing" =>
            jobs'[j].status = "processing" /\ jobs'[j].attempts = jobs[j].attempts
  PROVE  OneWorker' /\ RunnersOK'
<1>1. OneWorker'
  BY DEF JobsInv, OneWorker, Alive
<1>2. ASSUME NEW w \in Servers PROVE RunnerOK(w)'
  <2>1. RunnerOK(w) /\ runner'[w] = runner[w]
    BY DEF JobsInv, RunnersOK
  <2>2. \A row \in runner[w].found : row[1] \in Jobs
    BY JobTypes DEF JobsInv, WorkerType
  <2> QED
    BY <2>1, <2>2 DEF RunnerOK, Busy
<1> QED
  BY <1>1, <1>2 DEF RunnersOK

\* Commands and time: nothing in processing moves.
LEMMA CommandStep ==
  ASSUME JobsInv, NEW c \in Jobs, BeginEnqueue(c) \/ CheckExisting(c) \/ InsertJob(c)
  PROVE  JobsInv'
<1>1. CASE BeginEnqueue(c) \/ CheckExisting(c)
  <2>1. JobsTypeOK' /\ CommandsOK' /\ AttemptsRemain'
    BY <1>1, JobTypes DEF JobsInv, JobsTypeOK, CommandsOK, AttemptsRemain, BeginEnqueue, CheckExisting
  <2>2. OneWorker' /\ RunnersOK'
    BY <1>1, JobsOnlyStep DEF BeginEnqueue, CheckExisting
  <2> QED
    BY <2>1, <2>2 DEF JobsInv
<1>2. CASE InsertJob(c)
  <2> DEFINE inserted == [NoRow EXCEPT !.status = "pending", !.due = TRUE]
  <2>1. inserted \in JobType /\ inserted.attempts = 0
    <3>1. NoRow \in JobType /\ NoRow.attempts = 0
      BY BoundsAssumption DEF NoRow, JobType, Statuses
    <3>2. \A r \in JobType : LET i == [r EXCEPT !.status = "pending", !.due = TRUE]
                            IN  i \in JobType /\ i.attempts = r.attempts
      BY DEF JobType, Statuses
    <3> QED
      BY <3>1, <3>2
  <2> HIDE DEF inserted
  <2>2. /\ command[c] = "inserting" /\ jobs[c].status = "none"
        /\ jobs' = [jobs EXCEPT ![c] = inserted]
        /\ command' = [command EXCEPT ![c] = "done"]
        /\ UNCHANGED runner
    BY <1>2 DEF JobsInv, InsertJob, CommandsOK, inserted
  <2>3. JobsTypeOK'
    BY <2>1, <2>2, JobTypes DEF JobsInv, JobsTypeOK, JobType
  <2>4. AttemptsRemain' /\ CommandsOK'
    BY <2>1, <2>2, JobTypes, BoundsAssumption DEF JobsInv, AttemptsRemain, CommandsOK
  <2>5. OneWorker' /\ RunnersOK'
    BY <2>2, JobTypes, JobsOnlyStep DEF JobsInv
  <2> QED
    BY <2>3, <2>4, <2>5 DEF JobsInv
<1> QED
  BY <1>1, <1>2

LEMMA TimeStep ==
  ASSUME JobsInv, NEW c \in Jobs, LeaseRunsOut(c) \/ BackoffElapses(c)
  PROVE  JobsInv'
<1>1. /\ jobs' \in [Jobs -> JobType]
      /\ \A j \in Jobs : /\ jobs'[j].status = jobs[j].status
                         /\ jobs'[j].attempts = jobs[j].attempts
      /\ UNCHANGED <<command, runner>>
  <2>1. /\ [jobs[c] EXCEPT !.expired = TRUE] \in JobType
        /\ [jobs[c] EXCEPT !.expired = TRUE].status = jobs[c].status
        /\ [jobs[c] EXCEPT !.expired = TRUE].attempts = jobs[c].attempts
    BY JobTypes DEF JobsInv, JobType
  <2>2. /\ [jobs[c] EXCEPT !.due = TRUE] \in JobType
        /\ [jobs[c] EXCEPT !.due = TRUE].status = jobs[c].status
        /\ [jobs[c] EXCEPT !.due = TRUE].attempts = jobs[c].attempts
    BY JobTypes DEF JobsInv, JobType
  <2>3. CASE LeaseRunsOut(c)
    BY <2>1, <2>3, JobTypes DEF JobsInv, LeaseRunsOut
  <2>4. CASE BackoffElapses(c)
    BY <2>2, <2>4, JobTypes DEF JobsInv, BackoffElapses
  <2> QED
    BY <2>3, <2>4
<1>2. JobsTypeOK'
  BY <1>1, JobTypes DEF JobsInv, JobsTypeOK, JobType
<1>3. AttemptsRemain' /\ CommandsOK'
  BY <1>1 DEF JobsInv, AttemptsRemain, CommandsOK
<1>4. OneWorker' /\ RunnersOK'
  BY <1>1, JobsOnlyStep
<1> QED
  BY <1>2, <1>3, <1>4 DEF JobsInv

\* Steps that change no row: what remains to be seen is the worker that takes it.
LEMMA RunnerStep ==
  ASSUME JobsInv, NEW w \in Servers, Alive(w), UNCHANGED <<jobs, command>>,
         runner' \in [Servers -> WorkerType],
         \A v \in Servers \ {w} : runner'[v] = runner[v],
         RunnerOK(w)'
  PROVE  JobsInv'
<1>1. OneWorker' /\ RunnersOK'
  BY OwnStep
<1>2. JobsTypeOK' /\ AttemptsRemain' /\ CommandsOK'
  BY JobTypes DEF JobsInv, JobsTypeOK, WorkerType, AttemptsRemain, CommandsOK
<1> QED
  BY <1>1, <1>2 DEF JobsInv

\* Steps that change the row of one job, after which the worker carries nothing.
LEMMA EndStep ==
  ASSUME JobsInv, NEW w \in Servers, NEW j \in Jobs, NEW s \in Statuses,
         Alive(w),
         jobs[j].status = "processing",
         s = "pending" => jobs[j].attempts < MaxAttempts,
         jobs' = [jobs EXCEPT ![j] = Ended(j, s)],
         runner' = [runner EXCEPT ![w] = IdleWorker],
         UNCHANGED command
  PROVE  JobsInv'
<1>1. Ended(j, s) \in JobType /\ Ended(j, s).status = s /\ Ended(j, s).attempts = jobs[j].attempts
  BY EndedRow DEF JobsInv
<1>2. IdleWorker \in WorkerType /\ IdleWorker.pc = "idle" /\ IdleWorker.found = {}
  BY DEF IdleWorker, WorkerType, Phases
<1>3. JobsTypeOK'
  BY <1>1, <1>2, JobTypes DEF JobsInv, JobsTypeOK, JobType, WorkerType
<1>4. AttemptsRemain'
  BY <1>1, JobTypes DEF JobsInv, AttemptsRemain
<1>5. CommandsOK'
  BY <1>1, JobTypes DEF JobsInv, CommandsOK
<1>6. OneWorker' /\ RunnersOK'
  <2>1. runner' \in [Servers -> WorkerType] /\ runner'[w] = IdleWorker
    BY <1>2, JobTypes DEF JobsInv
  <2>2. RunnerOK(w)'
    BY <1>2, <2>1 DEF RunnerOK, Busy
  <2> QED
    BY <2>1, <2>2, JobTypes, OwnStep DEF JobsInv
<1> QED
  BY <1>3, <1>4, <1>5, <1>6 DEF JobsInv

\* A worker starts when no other is alive, and dies at any time; it carries nothing.
LEMMA StartDies ==
  ASSUME JobsInv, Overlap = FALSE, NEW w \in Servers, Start(w) \/ ServerDies(w)
  PROVE  JobsInv'
<1> DEFINE down == [IdleWorker EXCEPT !.pc = "down"]
<1>1. /\ IdleWorker \in WorkerType /\ IdleWorker.pc = "idle" /\ IdleWorker.found = {}
      /\ down \in WorkerType /\ down.pc = "down" /\ down.found = {}
  BY DEF IdleWorker, WorkerType, Phases
<1>2. CASE ServerDies(w)
  <2>1. runner' = [runner EXCEPT ![w] = down] /\ Alive(w) /\ UNCHANGED <<jobs, command>>
    BY <1>2 DEF ServerDies
  <2> HIDE DEF down
  <2>2. runner' \in [Servers -> WorkerType] /\ RunnerOK(w)'
    BY <1>1, <2>1, JobTypes DEF JobsInv, RunnerOK, Busy
  <2> QED
    BY <2>1, <2>2, JobTypes, RunnerStep DEF JobsInv
<1>3. CASE Start(w)
  <2>1. /\ runner' = [runner EXCEPT ![w] = IdleWorker] /\ UNCHANGED <<jobs, command>>
        /\ \A v \in Servers : ~Alive(v)
    BY <1>3 DEF Start
  <2>2. runner' \in [Servers -> WorkerType]
    BY <1>1, <2>1, JobTypes DEF JobsInv
  <2>3. JobsTypeOK' /\ AttemptsRemain' /\ CommandsOK'
    BY <2>1, <2>2, JobTypes DEF JobsInv, JobsTypeOK, WorkerType, AttemptsRemain, CommandsOK
  <2>4. OneWorker'
    BY <2>1, JobTypes DEF JobsInv, OneWorker, Alive
  <2>5. ASSUME NEW v \in Servers PROVE RunnerOK(v)'
    <3>1. CASE v = w
      BY <1>1, <2>1, <3>1, JobTypes DEF JobsInv, RunnerOK, Busy
    <3>2. CASE v # w
      BY <2>1, <3>2, JobTypes DEF JobsInv, RunnersOK, RunnerOK, Busy
    <3> QED
      BY <3>1, <3>2
  <2> QED
    BY <2>3, <2>4, <2>5 DEF JobsInv, RunnersOK
<1> QED
  BY <1>2, <1>3

\* Before a job is claimed: superseding, recovery, selection and the claim itself.
LEMMA ClaimingStep ==
  ASSUME JobsInv, NEW w \in Servers, FindExpired(w) \/ EndRecovery(w) \/ SelectJob(w)
  PROVE  JobsInv'
<1>1. Alive(w) /\ UNCHANGED <<jobs, command>>
  BY DEF FindExpired, EndRecovery, SelectJob, Moves, Alive
<1>2. runner[w] \in WorkerType /\ RunnerOK(w)
  BY JobTypes DEF JobsInv, RunnersOK
<1>3. CASE FindExpired(w)
  <2> DEFINE pairs == {<<j, jobs[j].attempts>> : j \in {i \in Jobs : Expired(i)}}
             r == [runner[w] EXCEPT !.pc = "recovering", !.found = pairs]
  <2>1. pairs \in SUBSET (Jobs \X (0..MaxAttempts))
    BY JobTypes DEF JobsInv, JobType
  <2>2. \A row \in pairs : jobs[row[1]].status = "processing" /\ jobs[row[1]].attempts = row[2]
    BY DEF Expired
  <2>3. runner' = [runner EXCEPT ![w] = r]
    BY <1>3 DEF FindExpired
  <2> HIDE DEF pairs
  <2>4. r \in WorkerType /\ r.pc = "recovering" /\ r.found = pairs
    BY <1>2, <2>1 DEF WorkerType, Phases
  <2> HIDE DEF r
  <2>5. runner' \in [Servers -> WorkerType] /\ runner'[w] = r
    BY <2>3, <2>4, JobTypes DEF JobsInv
  <2>6. RunnerOK(w)'
    BY <1>1, <2>2, <2>4, <2>5 DEF RunnerOK, Busy
  <2> QED
    BY <1>1, <2>3, <2>5, <2>6, JobTypes, RunnerStep DEF JobsInv
<1>4. CASE EndRecovery(w)
  <2> DEFINE r == [runner[w] EXCEPT !.pc = "looking"]
  <2>1. runner' = [runner EXCEPT ![w] = r] /\ runner[w].found = {}
    BY <1>4 DEF EndRecovery, Moves
  <2>2. r \in WorkerType /\ r.pc = "looking" /\ r.found = {}
    BY <1>2, <2>1 DEF WorkerType, Phases
  <2> HIDE DEF r
  <2>3. runner' \in [Servers -> WorkerType] /\ runner'[w] = r
    BY <2>1, <2>2, JobTypes DEF JobsInv
  <2>4. RunnerOK(w)'
    BY <2>2, <2>3 DEF RunnerOK, Busy
  <2> QED
    BY <1>1, <2>1, <2>3, <2>4, JobTypes, RunnerStep DEF JobsInv
<1>5. CASE SelectJob(w)
  <2>1. runner[w].pc = "looking" /\ runner[w].found = {}
    BY <1>2, <1>5 DEF SelectJob, RunnerOK
  <2>2. CASE runner' = [runner EXCEPT ![w] = IdleWorker]
    <3>1. IdleWorker \in WorkerType /\ IdleWorker.pc = "idle" /\ IdleWorker.found = {}
      BY DEF IdleWorker, WorkerType, Phases
    <3>2. runner' \in [Servers -> WorkerType] /\ RunnerOK(w)'
      BY <2>2, <3>1, JobTypes DEF JobsInv, RunnerOK, Busy
    <3> QED
      BY <1>1, <2>2, <3>2, JobTypes, RunnerStep DEF JobsInv
  <2>3. CASE \E j \in Jobs : runner' = [runner EXCEPT ![w].pc = "claiming", ![w].job = j]
    <3>1. PICK j \in Jobs : runner' = [runner EXCEPT ![w].pc = "claiming", ![w].job = j]
      BY <2>3
    <3> DEFINE r == [runner[w] EXCEPT !.pc = "claiming", !.job = j]
    <3>2. r \in WorkerType /\ r.pc = "claiming" /\ r.job = j /\ r.found = {}
      BY <1>2, <2>1 DEF WorkerType, Phases
    <3>3. runner' = [runner EXCEPT ![w] = r]
      BY <3>1, JobTypes DEF JobsInv
    <3> HIDE DEF r
    <3>4. runner' \in [Servers -> WorkerType] /\ runner'[w] = r
      BY <3>2, <3>3, JobTypes DEF JobsInv
    <3>5. RunnerOK(w)'
      BY <3>2, <3>4 DEF RunnerOK, Busy
    <3> QED
      BY <1>1, <3>3, <3>4, <3>5, JobTypes, RunnerStep DEF JobsInv
  <2> QED
    BY <1>5, <2>2, <2>3 DEF SelectJob
<1> QED
  BY <1>3, <1>4, <1>5

LEMMA SupersedeStep ==
  ASSUME JobsInv, NEW w \in Servers, SupersedeWebhookRefreshJobs(w)
  PROVE  JobsInv'
<1> DEFINE r == [runner[w] EXCEPT !.pc = "finding"]
<1>1. /\ Alive(w) /\ runner' = [runner EXCEPT ![w] = r] /\ UNCHANGED command
      /\ runner[w].found = {}
  BY DEF JobsInv, RunnersOK, RunnerOK, SupersedeWebhookRefreshJobs, Moves, Alive
<1>2. r \in WorkerType /\ r.pc = "finding" /\ r.found = {}
  BY <1>1, JobTypes DEF JobsInv, WorkerType, Phases
<1> HIDE DEF r
<1>3. runner' \in [Servers -> WorkerType] /\ runner'[w] = r
  BY <1>1, <1>2, JobTypes DEF JobsInv
<1>4. RunnerOK(w)'
  BY <1>2, <1>3 DEF RunnerOK, Busy
<1>5. ASSUME NEW j \in Jobs
      PROVE  /\ jobs'[j] \in JobType
             /\ \/ jobs'[j] = jobs[j]
                \/ jobs[j].status # "none" /\ jobs'[j].status = "superseded"
  <2>1. /\ Ended(j, "superseded") \in JobType
        /\ Ended(j, "superseded").status = "superseded"
    BY EndedRow DEF JobsInv, Statuses
  <2> QED
    BY <2>1, JobTypes DEF JobsInv, SupersedeWebhookRefreshJobs
<1>6. JobsTypeOK'
  <2>1. jobs' \in [Jobs -> JobType]
    BY <1>5 DEF SupersedeWebhookRefreshJobs
  <2> QED
    BY <1>1, <1>3, <2>1, JobTypes DEF JobsInv, JobsTypeOK, JobType, WorkerType
<1>7. AttemptsRemain' /\ CommandsOK'
  BY <1>1, <1>5 DEF JobsInv, AttemptsRemain, CommandsOK
<1>8. OneWorker' /\ RunnersOK'
  BY <1>1, <1>3, <1>4, JobTypes, OwnStep DEF JobsInv
<1> QED
  BY <1>6, <1>7, <1>8 DEF JobsInv

\* The rows still to be recovered are those of other jobs.
LEMMA RecoverStep ==
  ASSUME JobsInv, NEW w \in Servers, RecoverJob(w)
  PROVE  JobsInv'
<1>1. PICK row \in runner[w].found :
        /\ runner' = [runner EXCEPT ![w].found = @ \ {row}]
        /\ jobs' = IF jobs[row[1]].status = "processing"
                   THEN [jobs EXCEPT ![row[1]] = Recovered(row[1], row[2])] ELSE jobs
  BY DEF RecoverJob
<1>2. runner[w] \in WorkerType /\ RunnerOK(w) /\ Alive(w) /\ UNCHANGED command
  BY JobTypes DEF JobsInv, RunnersOK, RecoverJob, Alive
<1> DEFINE j == row[1]
           new == Recovered(j, row[2])
           r == [runner[w] EXCEPT !.found = runner[w].found \ {row}]
<1>3. /\ runner[w].pc = "recovering" /\ row = <<j, row[2]>> /\ j \in Jobs
      /\ jobs[j].status = "processing" /\ jobs[j].attempts = row[2]
  BY <1>2 DEF RunnerOK, WorkerType
<1>4. jobs' = [jobs EXCEPT ![j] = new]
  BY <1>1, <1>3
<1>5. /\ new \in JobType /\ new.status \in {"pending", "failed"}
      /\ new.status = "pending" => new.attempts < MaxAttempts
  <2>1. jobs[j] \in JobType
    BY <1>3, JobTypes DEF JobsInv
  <2>2. CASE row[2] < MaxAttempts
    BY <1>3, <2>2, EndedRow, ZenonT(60) DEF JobsInv, Recovered, Statuses
  <2>3. CASE ~(row[2] < MaxAttempts)
    BY <1>3, <2>3, EndedRow DEF JobsInv, Recovered, Statuses
  <2> QED
    BY <2>2, <2>3
<1>6. /\ r \in WorkerType /\ r.pc = "recovering" /\ r.found = runner[w].found \ {row}
      /\ runner' = [runner EXCEPT ![w] = r]
  BY <1>1, <1>2, <1>3, JobTypes DEF JobsInv, WorkerType
<1>7. ASSUME NEW other \in runner[w].found \ {row} PROVE other[1] # j /\ other[1] \in Jobs
  <2>1. other = <<other[1], other[2]>> /\ other[1] \in Jobs
    BY <1>2 DEF WorkerType
  <2>2. jobs[other[1]].attempts = other[2]
    BY <1>2 DEF RunnerOK
  <2> QED
    BY <1>3, <2>1, <2>2
<1> HIDE DEF new, r, j
<1>8. runner' \in [Servers -> WorkerType] /\ runner'[w] = r
  BY <1>6, JobTypes DEF JobsInv
<1>9. RunnerOK(w)'
  <2>1. ASSUME NEW other \in runner[w].found \ {row}
        PROVE  jobs'[other[1]] = jobs[other[1]]
    BY <1>4, <1>7, JobTypes DEF JobsInv
  <2> QED
    BY <1>2, <1>6, <1>8, <2>1 DEF RunnerOK, Busy
<1>10. JobsTypeOK'
  BY <1>2, <1>3, <1>4, <1>5, <1>8, JobTypes DEF JobsInv, JobsTypeOK, JobType, WorkerType
<1>11. AttemptsRemain' /\ CommandsOK'
  BY <1>2, <1>3, <1>4, <1>5, JobTypes DEF JobsInv, AttemptsRemain, CommandsOK
<1>12. OneWorker' /\ RunnersOK'
  BY <1>2, <1>6, <1>8, <1>9, JobTypes, OwnStep DEF JobsInv
<1> QED
  BY <1>10, <1>11, <1>12 DEF JobsInv

\* A job that is claimed was waiting, so it had an attempt left.
LEMMA ClaimStep ==
  ASSUME JobsInv, NEW w \in Servers, ClaimJob(w)
  PROVE  JobsInv'
<1> DEFINE j == runner[w].job
<1>1. /\ runner[w] \in WorkerType /\ runner[w].pc = "claiming" /\ runner[w].found = {}
      /\ j \in Jobs /\ jobs[j] \in JobType /\ Alive(w) /\ UNCHANGED command
  <2>1. runner[w] \in WorkerType /\ runner[w].pc = "claiming" /\ RunnerOK(w)
    BY JobTypes DEF JobsInv, RunnersOK, ClaimJob
  <2> QED
    BY <2>1, JobTypes DEF JobsInv, RunnerOK, ClaimJob, Alive
<1>2. CASE jobs[j].status = "pending"
  <2> DEFINE new == [jobs[j] EXCEPT !.status = "processing", !.attempts = jobs[j].attempts + 1,
                                    !.expired = FALSE]
             r == [runner[w] EXCEPT !.pc = "crawling"]
  <2>1. jobs' = [jobs EXCEPT ![j] = new] /\ runner' = [runner EXCEPT ![w] = r]
    BY <1>2 DEF ClaimJob
  <2>2. jobs[j].attempts + 1 \in 0..MaxAttempts
    BY <1>1, <1>2, BoundsAssumption DEF JobsInv, AttemptsRemain, JobType
  <2>3. new \in JobType /\ new.status = "processing"
    BY <1>1, <2>2 DEF JobType, Statuses
  <2>4. r \in WorkerType /\ r.pc = "crawling" /\ r.job = j /\ r.found = {}
    BY <1>1 DEF WorkerType, Phases
  <2> HIDE DEF new, r
  <2>5. runner' \in [Servers -> WorkerType] /\ runner'[w] = r
    BY <2>1, <2>4, JobTypes DEF JobsInv
  <2>6. JobsTypeOK'
    BY <1>1, <2>1, <2>3, <2>5, JobTypes DEF JobsInv, JobsTypeOK, JobType, WorkerType
  <2>7. AttemptsRemain' /\ CommandsOK'
    BY <1>1, <1>2, <2>1, <2>3, JobTypes DEF JobsInv, AttemptsRemain, CommandsOK
  <2>8. RunnerOK(w)'
    BY <1>1, <2>1, <2>3, <2>4, <2>5, JobTypes DEF JobsInv, RunnerOK, Busy
  <2>9. OneWorker' /\ RunnersOK'
    BY <1>1, <2>1, <2>5, <2>8, JobTypes, OwnStep DEF JobsInv
  <2> QED
    BY <2>6, <2>7, <2>9 DEF JobsInv
<1>3. CASE jobs[j].status # "pending"
  <2>1. runner' = [runner EXCEPT ![w] = IdleWorker] /\ UNCHANGED <<jobs, command>>
    BY <1>3 DEF ClaimJob
  <2>2. IdleWorker \in WorkerType /\ IdleWorker.pc = "idle" /\ IdleWorker.found = {}
    BY DEF IdleWorker, WorkerType, Phases
  <2>3. runner' \in [Servers -> WorkerType] /\ RunnerOK(w)'
    BY <2>1, <2>2, JobTypes DEF JobsInv, RunnerOK, Busy
  <2> QED
    BY <1>1, <2>1, <2>3, JobTypes, RunnerStep DEF JobsInv
<1> QED
  BY <1>2, <1>3

\* A job stays in processing while its worker crawls and makes up its mind.
LEMMA BusyStep ==
  ASSUME JobsInv, NEW w \in Servers,
         BootstrapSucceeds(w) \/ BootstrapFails(w) \/ ReadAttempts(w)
  PROVE  JobsInv'
<1>1. /\ runner[w] \in WorkerType /\ RunnerOK(w) /\ Busy(w) /\ Alive(w)
      /\ UNCHANGED <<jobs, command>>
  BY JobTypes DEF JobsInv, RunnersOK, BootstrapSucceeds, BootstrapFails, ReadAttempts, Moves,
               Busy, Alive
<1>2. PICK next \in {"succeeding", "reading attempts", "retrying", "failing"} :
        /\ runner' = [runner EXCEPT ![w].pc = next]
        /\ next = "retrying" => jobs[runner[w].job].attempts < MaxAttempts
  BY DEF BootstrapSucceeds, BootstrapFails, ReadAttempts, Moves
<1> DEFINE r == [runner[w] EXCEPT !.pc = next]
<1>3. /\ r \in WorkerType /\ r.pc = next /\ r.job = runner[w].job /\ r.found = runner[w].found
      /\ runner' = [runner EXCEPT ![w] = r]
  BY <1>1, <1>2, JobTypes DEF JobsInv, WorkerType, Phases
<1>4. runner[w].found = {}
  BY <1>1 DEF RunnerOK, Busy
<1> HIDE DEF r
<1>5. runner' \in [Servers -> WorkerType] /\ runner'[w] = r
  BY <1>3, JobTypes DEF JobsInv
<1>6. RunnerOK(w)'
  BY <1>1, <1>2, <1>3, <1>4, <1>5 DEF RunnerOK, Busy
<1> QED
  BY <1>1, <1>3, <1>5, <1>6, JobTypes, RunnerStep DEF JobsInv

LEMMA MarkStep ==
  ASSUME JobsInv, NEW w \in Servers, MarkSucceeded(w) \/ MarkRetry(w) \/ MarkFailed(w)
  PROVE  JobsInv'
<1>1. /\ Alive(w) /\ runner[w].job \in Jobs /\ jobs[runner[w].job].status = "processing"
      /\ runner' = [runner EXCEPT ![w] = IdleWorker] /\ UNCHANGED command
  BY DEF JobsInv, RunnersOK, RunnerOK, Busy, Alive, MarkSucceeded, MarkRetry, MarkFailed
<1>2. PICK s \in {"succeeded", "pending", "failed"} :
        /\ jobs' = [jobs EXCEPT ![runner[w].job] = Ended(runner[w].job, s)]
        /\ s = "pending" => runner[w].pc = "retrying"
  BY DEF MarkSucceeded, MarkRetry, MarkFailed
<1>3. s \in Statuses /\ (s = "pending" => jobs[runner[w].job].attempts < MaxAttempts)
  BY <1>2 DEF Statuses, JobsInv, RunnersOK, RunnerOK
<1> QED
  BY <1>1, <1>2, <1>3, EndStep

\* Every step preserves the invariant.
LEMMA NextJobs ==
  ASSUME Overlap = FALSE
  PROVE  JobsInv /\ [JobsNext]_jobsVars => JobsInv'
<1> SUFFICES ASSUME JobsInv, [JobsNext]_jobsVars PROVE JobsInv'
  OBVIOUS
<1>1. ASSUME NEW j \in Jobs, LeaseRunsOut(j) \/ BackoffElapses(j) PROVE JobsInv'
  BY <1>1, TimeStep
<1>2. ASSUME NEW c \in Jobs, BeginEnqueue(c) \/ CheckExisting(c) \/ InsertJob(c) PROVE JobsInv'
  BY <1>2, CommandStep
<1>3. ASSUME NEW w \in Servers, Start(w) \/ ServerDies(w) PROVE JobsInv'
  BY <1>3, StartDies
<1>4. ASSUME NEW w \in Servers, RunOnce(w) PROVE JobsInv'
  BY <1>4, SupersedeStep, RecoverStep, ClaimingStep, ClaimStep, BusyStep, MarkStep DEF RunOnce
<1>5. CASE UNCHANGED jobsVars
  BY <1>5, ZenonT(60) DEF jobsVars, JobsInv, JobsTypeOK, AttemptsRemain, OneWorker, RunnersOK, RunnerOK, CommandsOK,
              Busy, Alive
<1> QED
  BY <1>1, <1>2, <1>3, <1>4, <1>5 DEF JobsNext

\* The rows a step may change are not final.
LEMMA FinalRowsStand ==
  ASSUME JobsInv, JobsNext, NEW j \in Jobs, Final(jobs[j])
  PROVE  jobs'[j] = jobs[j]
<1>1. /\ jobs \in [Jobs -> JobType]
      /\ jobs[j].status \notin {"none", "pending", "processing"}
      /\ ~(jobs[j].source = "webhook" /\ jobs[j].status = "failed")
  BY JobTypes DEF JobsInv, Final
<1>2. ASSUME NEW c \in Jobs,
             \/ LeaseRunsOut(c) \/ BackoffElapses(c)
             \/ BeginEnqueue(c) \/ CheckExisting(c) \/ InsertJob(c)
      PROVE  jobs'[j] = jobs[j]
  BY <1>1, <1>2 DEF JobsInv, CommandsOK, LeaseRunsOut, BackoffElapses, BeginEnqueue,
                    CheckExisting, InsertJob
<1>3. ASSUME NEW w \in Servers, Start(w) \/ ServerDies(w) PROVE jobs'[j] = jobs[j]
  BY <1>3 DEF Start, ServerDies
<1>4. ASSUME NEW w \in Servers, RunOnce(w) PROVE jobs'[j] = jobs[j]
  <2>1. RunnerOK(w)
    BY DEF JobsInv, RunnersOK
  <2>2. CASE SupersedeWebhookRefreshJobs(w)
    BY <1>1, <2>2 DEF SupersedeWebhookRefreshJobs, Final
  <2>3. CASE RecoverJob(w)
    BY <1>1, <2>3 DEF RecoverJob
  <2>4. CASE ClaimJob(w)
    BY <1>1, <2>4 DEF ClaimJob
  <2>5. CASE MarkSucceeded(w) \/ MarkRetry(w) \/ MarkFailed(w)
    BY <1>1, <2>1, <2>5 DEF RunnerOK, Busy, MarkSucceeded, MarkRetry, MarkFailed
  <2>6. CASE \/ FindExpired(w) \/ EndRecovery(w) \/ SelectJob(w)
             \/ BootstrapSucceeds(w) \/ BootstrapFails(w) \/ ReadAttempts(w)
    BY <2>6 DEF FindExpired, EndRecovery, SelectJob, BootstrapSucceeds, BootstrapFails,
                ReadAttempts
  <2> QED
    BY <1>4, <2>2, <2>3, <2>4, <2>5, <2>6 DEF RunOnce
<1> QED
  BY <1>2, <1>3, <1>4 DEF JobsNext

-----------------------------------------------------------------------------
\* While servers follow each other the table and the workers keep their types; in
\* particular no job is attempted more than MaxAttempts times, whatever crashes.
THEOREM JobsTypeCorrect == ASSUME Overlap = FALSE PROVE JobsSpec => []JobsTypeOK
<1>1. JobsInv => JobsTypeOK
  BY DEF JobsInv
<1> QED
  BY <1>1, InitJobs, NextJobs, PTL DEF JobsSpec

\* While servers follow each other a job that waits for a worker has an attempt left.
THEOREM WaitingJobsHaveAttempts == ASSUME Overlap = FALSE PROVE JobsSpec => []AttemptsRemain
<1>1. JobsInv => AttemptsRemain
  BY DEF JobsInv
<1> QED
  BY <1>1, InitJobs, NextJobs, PTL DEF JobsSpec

\* While servers follow each other no statement of a worker or command, however old what
\* it has read, changes a job that has its outcome.
THEOREM OutcomesStand == ASSUME Overlap = FALSE PROVE JobsSpec => OutcomeStands
<1>1. JobsInv /\ [JobsNext]_jobsVars => [\A j \in Jobs : Final(jobs[j]) => jobs'[j] = jobs[j]]_jobsVars
  BY FinalRowsStand
<1> QED
  BY <1>1, InitJobs, NextJobs, PTL DEF JobsSpec, OutcomeStands

-----------------------------------------------------------------------------
(* The repairs.                                                            *)

(* What a repair has to have brought in, and the two parts of a pull       *)
(* request it brings in.                                                   *)
Window(lane) == IF lane = "recent" THEN Pulls \ gh.old ELSE Pulls
PullIn(p) == rows[p].pull = gh.version[p]
IssueIn(p) == rows[p].issue = gh.version[p]

(* The first k of a list, and the entries before a page of it.             *)
First(list, k) == {list[i] : i \in {j \in DOMAIN list : j <= k}}
Before(page) == (page - 1) * PerPage

(* What stands before the page is in, but for what has changed.            *)
Walked(lane, changed, page) ==
    \A p \in Window(lane) \ changed :
        /\ p \in First(gh.pulls, Before(page)) => PullIn(p)
        /\ p \in First(gh.issues, Before(page)) => IssueIn(p)

(* After the page of pull requests, this page's are in or planned; behind  *)
(* the last page, all are.                                                 *)
Planned(me, changed) ==
    \A p \in Window(me.lane) \ changed :
        p \in First(gh.pulls, Before(me.page + 1)) \/ me.done => PullIn(p) \/ p \in me.pulls

Finished(me, changed) == \A p \in Window(me.lane) \ changed : PullIn(p) /\ IssueIn(p)

PassOK(me, changed) ==
    /\ me.pc \in {"acquire", "pulls", "issues"} => Walked(me.lane, changed, me.page)
    /\ me.pc = "issues" => Planned(me, changed)
    /\ me.pc = "complete" =>
          /\ Walked(me.lane, changed, me.page + 1)
          /\ me.done => Finished(me, changed)

PassesOK == \A w \in Workers : PassOK(worker[w], excused[w])

CursorsOK ==
    /\ Walked("recent", excused["recent"], state.cursor)
    /\ Walked("history", excused["history"], state.page)

(* GitHub's lists have every pull request once; what is out of the recent  *)
(* window comes last.                                                      *)
ListOK(list, entries, n) ==
    /\ list \in [1 .. n -> entries]
    /\ \A i, j \in 1 .. n : list[i] = list[j] => i = j
    /\ \A x \in entries : \E i \in 1 .. n : list[i] = x

OldLast(list, n) == \A i, j \in 1 .. n : i < j /\ list[i] \in gh.old => list[j] \in gh.old

ListsOK ==
    /\ ListOK(gh.pulls, Pulls, Len(ListedPulls)) /\ OldLast(gh.pulls, Len(ListedPulls))
    /\ ListOK(gh.issues, Pulls \cup Plain, Len(ListedIssues)) /\ OldLast(gh.issues, Len(ListedIssues))

(* A row is never newer than GitHub's object.                              *)
RowsOK ==
    /\ gh.version \in [Pulls -> Nat] /\ gh.head \in [Pulls -> Nat]
    /\ rows \in [Pulls -> [pull : Nat, issue : Nat, index : Nat]]
    /\ \A p \in Pulls :
          /\ gh.version[p] \in 1 .. used.events + 1 /\ gh.head[p] \in 1 .. used.events + 1
          /\ rows[p].pull <= gh.version[p]
          /\ rows[p].issue <= gh.version[p]
          /\ rows[p].index <= gh.head[p]

Steps == {"idle", "acquire", "pulls", "issues", "complete", "walk on", "pass"}
Lanes == {"recent", "history", "initial", "backfill", "aged", "none"}
Passes == [pc : Steps, lane : Lanes, pending : BOOLEAN, page : Nat, last : Nat, done : BOOLEAN,
           pulls : SUBSET Pulls, issues : SUBSET Pulls]
Entries == Len(ListedIssues)

(* No repair goes more than one page beyond the lists.                     *)
WorkerOK(me) ==
    /\ me.pc \in {"acquire", "pulls", "issues", "complete"} => me.lane \in Repairs
    /\ me.pc \in {"idle", "walk on"} => me.lane = "none"
    /\ me.pc = "pass" => me.lane \in {"initial", "backfill", "aged"}
    /\ me.page \in 1 .. Entries + 1
    /\ me.last <= Entries + RecentPages + HistoryPages
    /\ me.pc \in {"issues", "complete"} /\ ~me.done => me.page <= Entries

StateRecords == [mode : Modes, pending : BOOLEAN, cursor : Nat, recentDue : BOOLEAN,
                 historyDue : BOOLEAN, page : Nat, inventory : {"none", "fresh", "aged"}]

TypesOK ==
    /\ gh = [pulls |-> gh.pulls, issues |-> gh.issues, version |-> gh.version, head |-> gh.head,
             open |-> gh.open, old |-> gh.old]
    /\ gh.open \subseteq Pulls /\ gh.old \subseteq Pulls \cup Plain
    /\ state \in StateRecords /\ state.cursor \in 1 .. Entries + 1 /\ state.page \in 1 .. Entries + 1
    /\ behind \subseteq Pulls /\ wanted \subseteq Pulls
    /\ worker \in [Workers -> Passes] /\ \A w \in Workers : WorkerOK(worker[w])
    /\ used \in [events : 0 .. MaxEvents, failures : 0 .. MaxFailures]
    /\ excused \in [Workers \cup Repairs -> SUBSET Pulls]

ClocksOK == clock \in [Workers \cup {"operator"} -> {"none", "fresh", "late"}]

RepairInv ==
    /\ TypesOK /\ ListsOK /\ RowsOK
    /\ CursorsOK /\ PassesOK
    /\ ClocksOK
-----------------------------------------------------------------------------
(* Pages.                                                                  *)
LEMMA PagesAssumption ==
  /\ PerPage \in Nat \ {0} /\ RecentPages \in Nat \ {0} /\ HistoryPages \in Nat \ {0}
  /\ MaxEvents \in Nat /\ MaxFailures \in Nat
BY SchedulerAssumption

LEMMA ListLengths == Len(ListedPulls) \in Nat /\ Len(ListedIssues) \in Nat
BY SchedulerAssumption

LEMMA BeforePages ==
  /\ Before(1) = 0
  /\ \A page \in Nat \ {0} : /\ Before(page) \in Nat
                             /\ Before(page + 1) = Before(page) + PerPage
                             /\ page - 1 <= Before(page)
<1>1. Before(1) = 0
  BY PagesAssumption DEF Before
<1>2. ASSUME NEW page \in Nat \ {0}
      PROVE  /\ Before(page) \in Nat
             /\ Before(page + 1) = Before(page) + PerPage
             /\ page - 1 <= Before(page)
  <2>1. \A m \in Nat, k \in Nat \ {0} : m * k \in Nat /\ m <= m * k
    OBVIOUS
  <2>2. Before(page) \in Nat /\ page - 1 <= Before(page)
    BY <2>1, PagesAssumption DEF Before
  <2>3. Before(page + 1) = page * PerPage
    BY PagesAssumption DEF Before
  <2>4. \A m \in Nat, k \in Nat : m * k = (m - 1) * k + k
    OBVIOUS
  <2> QED
    BY <2>2, <2>3, <2>4, PagesAssumption DEF Before
<1> QED
  BY <1>1, <1>2

LEMMA PageEntries ==
  ASSUME NEW list, NEW page \in Nat \ {0}
  PROVE  \A x : x \in Page(list, page) <=>
           \E i \in DOMAIN list : Before(page) < i /\ i <= Before(page + 1) /\ x = list[i]
BY DEF Page, Before

(* A page adds its entries to those before it.                             *)
LEMMA PageAdds ==
  ASSUME NEW S, NEW n \in Nat, NEW list \in [1 .. n -> S], NEW page \in Nat \ {0}
  PROVE  First(list, Before(page + 1)) = First(list, Before(page)) \cup Page(list, page)
<1>1. Before(page) \in Nat /\ Before(page + 1) = Before(page) + PerPage /\ PerPage \in Nat
  BY BeforePages, PagesAssumption
<1>2. ASSUME NEW x PROVE x \in First(list, Before(page + 1)) <=>
                         x \in First(list, Before(page)) \/ x \in Page(list, page)
  BY <1>1, PageEntries DEF First
<1> QED
  BY <1>2

LEMMA FirstOfNone ==
  ASSUME NEW S, NEW n \in Nat, NEW list \in [1 .. n -> S]
  PROVE  First(list, Before(1)) = {}
BY BeforePages DEF First

(* Behind an empty page, nothing is left.                                  *)
LEMMA EmptyPage ==
  ASSUME NEW S, NEW n \in Nat, NEW list \in [1 .. n -> S], NEW page \in Nat \ {0},
         Page(list, page) = {}, NEW i \in 1 .. n
  PROVE  list[i] \in First(list, Before(page))
<1>1. Before(page) \in Nat /\ Before(page + 1) = Before(page) + PerPage /\ PerPage \in Nat \ {0}
  BY BeforePages, PagesAssumption
<1>2. SUFFICES ASSUME Before(page) < i PROVE FALSE
  BY <1>1 DEF First
<1>3. Before(page) + 1 \in 1 .. n /\ Before(page) + 1 <= Before(page + 1)
  BY <1>1, <1>2
<1> DEFINE next == Before(page) + 1
<1>4. next \in DOMAIN list /\ Before(page) < next /\ next <= Before(page + 1)
  BY <1>1, <1>3
<1> HIDE DEF next
<1>5. list[next] \in Page(list, page)
  BY <1>4, PageEntries
<1> QED
  BY <1>5

(* A page that is not empty is within the list.                            *)
LEMMA PageWithin ==
  ASSUME NEW S, NEW n \in Nat, NEW list \in [1 .. n -> S], NEW page \in Nat \ {0},
         Page(list, page) # {}
  PROVE  page <= n
<1>1. Before(page) \in Nat /\ page - 1 <= Before(page)
  BY BeforePages
<1>2. PICK j \in 1 .. n : Before(page) < j
  BY PageEntries
<1> QED
  BY <1>1, <1>2

(* Where a repair may stop, what it is to bring in is behind it.           *)
LEMMA DoneIsBehind ==
  ASSUME NEW S, NEW n \in Nat, NEW list, ListOK(list, S, n), OldLast(list, n),
         Pulls \subseteq S, NEW w, NEW page \in Nat \ {0}, Done(w, Page(list, page)),
         NEW p \in Window(worker[w].lane)
  PROVE  p \in First(list, Before(page + 1))
<1>1. PICK i \in 1 .. n : list[i] = p
  BY DEF ListOK, Window
<1>2. list \in [1 .. n -> S]
  BY DEF ListOK
<1>3. CASE Page(list, page) = {}
  BY <1>1, <1>2, <1>3, EmptyPage, PageAdds
<1>4. CASE Page(list, page) # {}
  <2>1. worker[w].lane = "recent" /\ p \notin gh.old /\ Page(list, page) \cap gh.old # {}
    BY <1>4 DEF Done, BeforeCutoff, Window
  <2>2. PICK j \in 1 .. n : j <= Before(page + 1) /\ list[j] \in gh.old
    BY <1>2, <2>1, PageEntries
  <2>3. i < j
    <3>1. i = j \/ j < i \/ i < j
      OBVIOUS
    <3> QED
      BY <1>1, <2>1, <2>2, <3>1 DEF OldLast
  <2>4. Before(page + 1) \in Nat
    BY BeforePages
  <2> QED
    BY <1>1, <1>2, <2>2, <2>3, <2>4 DEF First
<1> QED
  BY <1>3, <1>4

(* An update brings one entry to the front and no other one forward.       *)
Fronted(list, new, k, n) ==
    /\ new[1] = list[k]
    /\ \A i \in 2 .. n : /\ i <= k => new[i] = list[i - 1]
                         /\ i > k => new[i] = list[i]

LEMMA UpdatedEntries ==
  ASSUME NEW S, NEW n \in Nat, NEW list, ListOK(list, S, n), NEW p \in S
  PROVE  /\ Updated(list, p) \in [1 .. n -> S]
         /\ \E k \in 1 .. n : list[k] = p /\ Fronted(list, Updated(list, p), k, n)
<1>1. DOMAIN list = 1 .. n /\ list \in [1 .. n -> S]
  BY DEF ListOK
<1> DEFINE k == CHOOSE i \in DOMAIN list : list[i] = p
<1>2. k \in 1 .. n /\ list[k] = p
  BY <1>1 DEF ListOK
<1>3. Updated(list, p) =
        [i \in 1 .. n |-> IF i = 1 THEN p ELSE IF i <= k THEN list[i - 1] ELSE list[i]]
  BY <1>1 DEF Updated
<1> DEFINE new == Updated(list, p)
<1> HIDE DEF k, new
<1>4. new \in [1 .. n -> S] /\ new[1] = p
  BY <1>1, <1>2, <1>3 DEF new
<1>5. ASSUME NEW i \in 2 .. n PROVE new[i] = IF i <= k THEN list[i - 1] ELSE list[i]
  BY <1>1, <1>2, <1>3 DEF new
<1>6. Fronted(list, new, k, n)
  BY <1>2, <1>4, <1>5 DEF Fronted
<1> QED
  BY <1>2, <1>4, <1>6 DEF new

LEMMA UpdatedList ==
  ASSUME NEW S, NEW n \in Nat, NEW list, ListOK(list, S, n), NEW p \in S
  PROVE  /\ ListOK(Updated(list, p), S, n)
         /\ \A q, k : k \in Nat /\ q # p /\ q \in First(Updated(list, p), k) => q \in First(list, k)
<1>1. PICK k \in 1 .. n : list[k] = p /\ Fronted(list, Updated(list, p), k, n)
  BY UpdatedEntries
<1> DEFINE new == Updated(list, p)
<1>2. list \in [1 .. n -> S] /\ (\A i, j \in 1 .. n : list[i] = list[j] => i = j)
      /\ \A x \in S : \E i \in 1 .. n : list[i] = x
  BY DEF ListOK
<1>3. new \in [1 .. n -> S]
  BY UpdatedEntries
<1>4. /\ new[1] = p
      /\ \A i \in 2 .. n : i <= k => new[i] = list[i - 1]
      /\ \A i \in 2 .. n : i > k => new[i] = list[i]
  <2> HIDE DEF new
  <2>1. list[k] = p /\ Fronted(list, new, k, n)
    BY <1>1 DEF new
  <2> QED
    BY <2>1 DEF Fronted
<1> HIDE DEF new
<1>5. \A i \in 2 .. n : new[i] # p
  BY <1>1, <1>2, <1>4
<1>6. \A i, j \in 1 .. n : new[i] = new[j] => i = j
  <2> SUFFICES ASSUME NEW i \in 1 .. n, NEW j \in 1 .. n, new[i] = new[j], i < j PROVE FALSE
    OBVIOUS
  <2>1. CASE i = 1
    BY <2>1, <1>4, <1>5
  <2>2. CASE i # 1
    BY <2>2, <1>2, <1>4
  <2> QED
    BY <2>1, <2>2
<1>7. \A x \in S : \E i \in 1 .. n : new[i] = x
  <2> SUFFICES ASSUME NEW x \in S PROVE \E i \in 1 .. n : new[i] = x
    OBVIOUS
  <2>1. PICK i \in 1 .. n : list[i] = x
    BY <1>2
  <2>2. CASE x = p
    BY <2>2, <1>4
  <2>3. CASE x # p /\ i < k
    <3>1. i + 1 \in 2 .. n /\ i + 1 <= k
      BY <2>3
    <3> QED
      BY <2>1, <3>1, <1>4
  <2>4. CASE x # p /\ ~(i < k)
    <3>1. i \in 2 .. n /\ i > k
      BY <2>1, <2>4, <1>1
    <3> QED
      BY <2>1, <3>1, <1>4
  <2> QED
    BY <2>2, <2>3, <2>4
<1>8. ASSUME NEW q, NEW m \in Nat, q # p, q \in First(new, m) PROVE q \in First(list, m)
  <2>1. PICK i \in 1 .. n : i <= m /\ new[i] = q
    BY <1>3, <1>8 DEF First
  <2>2. i \in 2 .. n
    BY <2>1, <1>4, <1>8
  <2>3. CASE i <= k
    <3>1. i - 1 \in 1 .. n /\ i - 1 <= m /\ list[i - 1] = q
      BY <2>1, <2>2, <2>3, <1>4
    <3> QED
      BY <3>1, <1>2 DEF First
  <2>4. CASE i > k
    BY <2>1, <2>2, <2>4, <1>2, <1>4 DEF First
  <2> QED
    BY <2>3, <2>4
<1>9. ListOK(new, S, n)
  BY <1>3, <1>6, <1>7 DEF ListOK
<1> QED
  BY <1>8, <1>9 DEF new

LEMMA UpdatedOld ==
  ASSUME NEW S, NEW n \in Nat, NEW list, ListOK(list, S, n), OldLast(list, n), NEW p \in S,
         NEW i \in 1 .. n, NEW j \in 1 .. n, i < j, Updated(list, p)[i] \in gh.old \ {p}
  PROVE  Updated(list, p)[j] \in gh.old \ {p}
<1>1. PICK k \in 1 .. n : list[k] = p /\ Fronted(list, Updated(list, p), k, n)
  BY UpdatedEntries
<1>2. \A l, m \in 1 .. n : list[l] = list[m] => l = m
  BY DEF ListOK
<1> DEFINE new == Updated(list, p)
<1> HIDE DEF new
<1>3. Fronted(list, new, k, n)
  BY <1>1 DEF new
<1>4. ASSUME NEW l \in 2 .. n
      PROVE  \E m \in 1 .. n : /\ new[l] = list[m] /\ m # k
                              /\ m = IF l <= k THEN l - 1 ELSE l
  <2>1. CASE l <= k
    BY <2>1, <1>3 DEF Fronted
  <2>2. CASE l > k
    BY <2>2, <1>3 DEF Fronted
  <2> QED
    BY <2>1, <2>2
<1>5. new[1] = p
  BY <1>1, <1>3 DEF Fronted
<1>6. i \in 2 .. n /\ j \in 2 .. n
  BY <1>5 DEF new
<1>7. PICK a \in 1 .. n : new[i] = list[a] /\ a # k /\ a = IF i <= k THEN i - 1 ELSE i
  BY <1>4, <1>6
<1>8. PICK b \in 1 .. n : new[j] = list[b] /\ b # k /\ b = IF j <= k THEN j - 1 ELSE j
  BY <1>4, <1>6
<1>9. a < b
  BY <1>6, <1>7, <1>8
<1>10. list[b] \in gh.old
  BY <1>7, <1>9 DEF OldLast, new
<1> QED
  BY <1>1, <1>2, <1>8, <1>10 DEF new
-----------------------------------------------------------------------------
(* Steps that leave GitHub as it is.                                       *)

(* What is in stays in.                                                    *)
RowsGrow ==
  /\ gh' = gh
  /\ \A p \in Pulls : /\ PullIn(p) => rows'[p].pull = gh.version[p]
                      /\ IssueIn(p) => rows'[p].issue = gh.version[p]

LEMMA WalkedGrows ==
  ASSUME RowsGrow, NEW lane, NEW changed, NEW page, Walked(lane, changed, page)
  PROVE  Walked(lane, changed, page)'
BY DEF RowsGrow, Walked, Window, PullIn, IssueIn

LEMMA PassGrows ==
  ASSUME RowsGrow, NEW me, NEW changed, PassOK(me, changed)
  PROVE  PassOK(me, changed)'
BY DEF RowsGrow, PassOK, Planned, Finished, Walked, Window, PullIn, IssueIn

(* The pass of a worker, in the new state.                                 *)
LEMMA PassOf ==
  ASSUME NEW w, NEW me, NEW changed, worker'[w] = me, excused'[w] = changed, PassOK(me, changed)'
  PROVE  PassOK(worker[w], excused[w])'
BY DEF PassOK, Planned, Finished, Walked, Window, PullIn, IssueIn

(* A step of one worker.                                                   *)
LEMMA OthersKeep ==
  ASSUME PassesOK, RowsGrow, NEW w \in Workers, NEW me, NEW changed,
         worker'[w] = me, excused'[w] = changed, PassOK(me, changed)',
         \A v \in Workers \ {w} : worker'[v] = worker[v] /\ excused'[v] = excused[v]
  PROVE  PassesOK'
<1>1. ASSUME NEW v \in Workers PROVE PassOK(worker[v], excused[v])'
  <2>1. CASE v = w
    BY <2>1, PassOf
  <2>2. CASE v # w
    <3>1. PICK it, ch : it = worker[v] /\ ch = excused[v]
      OBVIOUS
    <3>2. PassOK(it, ch)'
      BY <3>1, PassGrows DEF PassesOK
    <3> QED
      BY <2>2, <3>1, <3>2, PassOf
  <2> QED
    BY <2>1, <2>2
<1> QED
  BY <1>1 DEF PassesOK

LEMMA NobodyMoves ==
  ASSUME PassesOK, RowsGrow, \A w \in Workers : worker'[w] = worker[w] /\ excused'[w] = excused[w]
  PROVE  PassesOK'
<1>1. ASSUME NEW v \in Workers PROVE PassOK(worker[v], excused[v])'
  <2>1. PICK it, ch : it = worker[v] /\ ch = excused[v]
    OBVIOUS
  <2>2. PassOK(it, ch)'
    BY <2>1, PassGrows DEF PassesOK
  <2> QED
    BY <2>1, <2>2, PassOf
<1> QED
  BY <1>1 DEF PassesOK

(* A pass that has not begun, or is no repair.                             *)
LEMMA NoPass ==
  ASSUME NEW me, NEW changed, me.pc \notin {"acquire", "pulls", "issues", "complete"}
  PROVE  PassOK(me, changed)'
BY DEF PassOK

(* The first page of a repair has nothing before it.                       *)
LEMMA FirstPage ==
  ASSUME ListsOK, NEW lane, NEW changed
  PROVE  Walked(lane, changed, 1)
BY FirstOfNone, ListLengths DEF Walked, ListsOK, ListOK

LEMMA FirstPageNext ==
  ASSUME ListsOK', NEW lane, NEW changed
  PROVE  Walked(lane, changed, 1)'
BY FirstOfNone, ListLengths DEF Walked, ListsOK, ListOK

LEMMA CursorsOf ==
  ASSUME NEW before, NEW cursor, NEW changed, NEW page,
         excused'["recent"] = before, state'.cursor = cursor, Walked("recent", before, cursor)',
         excused'["history"] = changed, state'.page = page, Walked("history", changed, page)'
  PROVE  CursorsOK'
BY DEF CursorsOK, Walked, Window, PullIn, IssueIn

LEMMA CursorsStay ==
  ASSUME CursorsOK, RowsGrow, state'.cursor = state.cursor, state'.page = state.page,
         excused'["recent"] = excused["recent"], excused'["history"] = excused["history"]
  PROVE  CursorsOK'
<1>1. PICK before, cursor, changed, page :
        /\ before = excused["recent"] /\ cursor = state.cursor
        /\ changed = excused["history"] /\ page = state.page
  OBVIOUS
<1>2. Walked("recent", before, cursor)' /\ Walked("history", changed, page)'
  BY <1>1, WalkedGrows DEF CursorsOK
<1> QED
  BY <1>1, <1>2, CursorsOf

(* The recent repair is to start anew.                                     *)
LEMMA CursorReset ==
  ASSUME CursorsOK, ListsOK, RowsGrow, state'.cursor = 1, state'.page = state.page,
         excused'["history"] = excused["history"]
  PROVE  CursorsOK'
<1>1. PICK before, changed, page :
        before = excused'["recent"] /\ changed = excused["history"] /\ page = state.page
  OBVIOUS
<1>2. Walked("recent", before, 1)' /\ Walked("history", changed, page)'
  BY <1>1, FirstPage, WalkedGrows DEF CursorsOK
<1> QED
  BY <1>1, <1>2, CursorsOf
-----------------------------------------------------------------------------
(* Rows.                                                                   *)
LEMMA RowsStay ==
  ASSUME RowsOK, gh' = gh, rows' = rows, used'.events \in Nat, used.events \in Nat,
         used'.events >= used.events
  PROVE  RowsOK' /\ RowsGrow
BY DEF RowsOK, RowsGrow, PullIn, IssueIn

LEMMA IndexedRows ==
  ASSUME RowsOK, NEW ps, gh' = gh, rows' = Indexed(ps), used' = used
  PROVE  RowsOK' /\ RowsGrow
BY DEF RowsOK, RowsGrow, PullIn, IssueIn, Indexed

LEMMA FetchedRows ==
  ASSUME RowsOK, NEW pulls, NEW issues, gh' = gh, rows' = Fetched(pulls, issues),
         used'.events = used.events
  PROVE  /\ RowsOK' /\ RowsGrow
         /\ \A p \in Pulls : /\ p \in pulls => rows'[p].pull = gh.version[p]
                             /\ p \in pulls \cup issues => rows'[p].issue = gh.version[p]
<1>1. \A p \in Pulls :
        /\ rows'[p] \in [pull : Nat, issue : Nat, index : Nat]
        /\ rows'[p].pull = IF p \in pulls THEN gh.version[p] ELSE rows[p].pull
        /\ rows'[p].issue = IF p \in pulls \cup issues THEN gh.version[p] ELSE rows[p].issue
        /\ rows'[p].index = rows[p].index
  BY DEF Fetched, RowsOK
<1>2. rows' \in [Pulls -> [pull : Nat, issue : Nat, index : Nat]]
  BY <1>1 DEF Fetched
<1> QED
  BY <1>1, <1>2 DEF RowsOK, RowsGrow, PullIn, IssueIn

LEMMA ListsStay ==
  ASSUME ListsOK, gh' = gh
  PROVE  ListsOK'
BY DEF ListsOK, OldLast

(* What is left alone keeps its type.                                      *)
LEMMA TypesStay ==
  ASSUME TypesOK, gh' = gh, NEW w \in Workers, NEW me \in Passes, WorkerOK(me),
         worker' = [worker EXCEPT ![w] = me], state' \in StateRecords,
         state'.cursor \in 1 .. Entries + 1, state'.page \in 1 .. Entries + 1,
         behind' \subseteq Pulls, wanted' \subseteq Pulls,
         used' \in [events : 0 .. MaxEvents, failures : 0 .. MaxFailures],
         excused' \in [Workers \cup Repairs -> SUBSET Pulls]
  PROVE  TypesOK'
<1>1. worker' \in [Workers -> Passes]
  BY DEF TypesOK
<1>2. \A v \in Workers : WorkerOK(worker'[v])
  BY DEF TypesOK
<1> QED
  BY <1>1, <1>2 DEF TypesOK

(* What a worker's step shows of it and of the others.                     *)
LEMMA WorkerStep ==
  ASSUME TypesOK, NEW w \in Workers, NEW me, worker' = [worker EXCEPT ![w] = me]
  PROVE  worker'[w] = me /\ \A v \in Workers \ {w} : worker'[v] = worker[v]
BY DEF TypesOK

LEMMA ExcusedStep ==
  ASSUME TypesOK, NEW w \in Workers, NEW changed, excused' = [excused EXCEPT ![w] = changed]
  PROVE  /\ excused'[w] = changed
         /\ \A x \in (Workers \cup Repairs) \ {w} : excused'[x] = excused[x]
         /\ excused'["recent"] = excused["recent"]
         /\ excused'["history"] = excused["history"]
         /\ changed \subseteq Pulls => excused' \in [Workers \cup Repairs -> SUBSET Pulls]
BY SchedulerAssumption DEF TypesOK, Repairs

LEMMA PageNumbers ==
  ASSUME NEW me \in Passes, WorkerOK(me)
  PROVE  me.page \in Nat \ {0} /\ me.page + 1 \in Nat \ {0}
<1>1. me.page \in 1 .. Entries + 1 /\ me.page \in Nat
  BY DEF WorkerOK, Passes
<1> QED
  BY <1>1

LEMMA IdleOK == Idle \in Passes /\ WorkerOK(Idle) /\ Idle.pc = "idle"
BY ListLengths, PagesAssumption DEF Idle, Passes, WorkerOK, Steps, Lanes, Entries
-----------------------------------------------------------------------------
(* Nobody works.                                                           *)
LEMMA InitInv == Init => RepairInv
<1> SUFFICES ASSUME Init PROVE RepairInv
  OBVIOUS
<1>1. ListsOK
  <2>1. /\ ListedPulls \in [1 .. Len(ListedPulls) -> Pulls]
        /\ ListedIssues \in [1 .. Len(ListedIssues) -> Pulls \cup Plain]
    BY SchedulerAssumption
  <2>2. \A x \in Pulls : \E i \in 1 .. Len(ListedPulls) : ListedPulls[i] = x
    BY <2>1, SchedulerAssumption DEF ToSet
  <2>3. \A x \in Pulls \cup Plain : \E i \in 1 .. Len(ListedIssues) : ListedIssues[i] = x
    BY <2>1, SchedulerAssumption DEF ToSet
  <2>4. /\ \A i, j \in 1 .. Len(ListedPulls) : ListedPulls[i] = ListedPulls[j] => i = j
        /\ \A i, j \in 1 .. Len(ListedIssues) : ListedIssues[i] = ListedIssues[j] => i = j
    BY <2>1, SchedulerAssumption DEF IsInjective
  <2>5. \A i, j \in 1 .. Len(ListedIssues) :
          i < j /\ ListedIssues[i] \in Old => ListedIssues[j] \in Old
    BY <2>1, SchedulerAssumption
  <2>6. \A k, l \in 1 .. Len(ListedIssues), i, j \in 1 .. Len(ListedPulls) :
           l < k /\ ListedPulls[j] = ListedIssues[l] /\ ListedPulls[i] = ListedIssues[k] => j < i
    <3>1. DOMAIN ListedIssues = 1 .. Len(ListedIssues) /\ DOMAIN ListedPulls = 1 .. Len(ListedPulls)
      BY <2>1
    <3> QED
      BY <3>1, SchedulerAssumption
  <2>7. ASSUME NEW i \in 1 .. Len(ListedPulls), NEW j \in 1 .. Len(ListedPulls),
               i < j, ListedPulls[i] \in Old
        PROVE  ListedPulls[j] \in Old
    <3>1. PICK k \in 1 .. Len(ListedIssues) : ListedIssues[k] = ListedPulls[i]
      BY <2>1, <2>3
    <3>2. PICK l \in 1 .. Len(ListedIssues) : ListedIssues[l] = ListedPulls[j]
      BY <2>1, <2>3
    <3>3. ~(l < k)
      BY <2>7, <2>6, <3>1, <3>2
    <3>4. k # l
      BY <2>4, <2>7, <3>1, <3>2
    <3> QED
      BY <2>5, <2>7, <3>1, <3>2, <3>3, <3>4
  <2>8. gh.pulls = ListedPulls /\ gh.issues = ListedIssues /\ gh.old = Old
    BY DEF Init
  <2>9. ListOK(gh.pulls, Pulls, Len(ListedPulls))
    BY <2>1, <2>2, <2>4, <2>8 DEF ListOK
  <2>10. ListOK(gh.issues, Pulls \cup Plain, Len(ListedIssues))
    BY <2>1, <2>3, <2>4, <2>8 DEF ListOK
  <2>11. OldLast(gh.pulls, Len(ListedPulls))
    BY <2>7, <2>8 DEF OldLast
  <2>12. OldLast(gh.issues, Len(ListedIssues))
    BY <2>5, <2>8 DEF OldLast
  <2> QED
    BY <2>9, <2>10, <2>11, <2>12 DEF ListsOK
<1>2. RowsOK
  BY PagesAssumption DEF Init, RowsOK
<1>3. TypesOK
  <2>1. worker \in [Workers -> Passes] /\ \A w \in Workers : WorkerOK(worker[w])
    BY IdleOK DEF Init
  <2>2. state \in StateRecords /\ state.cursor = 1 /\ state.page = 1
    BY DEF Init, StateRecords
  <2>3. gh = [pulls |-> gh.pulls, issues |-> gh.issues, version |-> gh.version, head |-> gh.head,
              open |-> gh.open, old |-> gh.old]
        /\ gh.open \subseteq Pulls /\ gh.old \subseteq Pulls \cup Plain
    BY SchedulerAssumption DEF Init
  <2>4. used \in [events : 0 .. MaxEvents, failures : 0 .. MaxFailures]
    BY PagesAssumption DEF Init
  <2>5. behind \subseteq Pulls /\ wanted \subseteq Pulls
        /\ excused \in [Workers \cup Repairs -> SUBSET Pulls]
    BY DEF Init
  <2>6. Entries \in Nat
    BY ListLengths DEF Entries
  <2> QED
    BY <2>1, <2>2, <2>3, <2>4, <2>5, <2>6 DEF TypesOK
<1>4. CursorsOK
  BY <1>1, FirstPage DEF Init, CursorsOK
<1>5. PassesOK
  BY DEF Init, PassesOK, PassOK, Idle
<1>6. ClocksOK
  BY DEF Init, ClocksOK
<1> QED
  BY <1>1, <1>2, <1>3, <1>4, <1>5, <1>6 DEF RepairInv
-----------------------------------------------------------------------------
(* GitHub, time and the operators.                                         *)
LEMMA Counted ==
  ASSUME TypesOK
  PROVE  /\ used.events \in Nat
         /\ Happens => /\ used' \in [events : 0 .. MaxEvents, failures : 0 .. MaxFailures]
                       /\ used'.events = used.events + 1
         /\ Fails => /\ used' \in [events : 0 .. MaxEvents, failures : 0 .. MaxFailures]
                     /\ used'.events = used.events
BY PagesAssumption DEF TypesOK, Happens, Fails

LEMMA ChangeIs ==
  ASSUME TypesOK, NEW p \in Pulls, Change(p)
  PROVE  /\ gh'.pulls = Updated(gh.pulls, p) /\ gh'.issues = Updated(gh.issues, p)
         /\ gh'.version = [gh.version EXCEPT ![p] = @ + 1] /\ gh'.old = gh.old \ {p}
         /\ gh'.head \in {gh.head, [gh.head EXCEPT ![p] = @ + 1]} /\ gh'.open \subseteq Pulls
         /\ gh' = [pulls |-> gh'.pulls, issues |-> gh'.issues, version |-> gh'.version, head |-> gh'.head,
                   open |-> gh'.open, old |-> gh'.old]
<1> DEFINE to == [gh EXCEPT !.pulls = Updated(@, p), !.issues = Updated(@, p),
                            !.version[p] = @ + 1, !.old = @ \ {p}]
<1>1. to = [pulls |-> Updated(gh.pulls, p), issues |-> Updated(gh.issues, p),
            version |-> [gh.version EXCEPT ![p] = @ + 1], head |-> gh.head, open |-> gh.open,
            old |-> gh.old \ {p}]
  <2>1. PICK pulls, issues, version, open, head, old :
          gh = [pulls |-> pulls, issues |-> issues, version |-> version, head |-> head,
                open |-> open, old |-> old]
    BY DEF TypesOK
  <2>2. to = [gh EXCEPT !.pulls = Updated(pulls, p), !.issues = Updated(issues, p),
                        !.version = [version EXCEPT ![p] = @ + 1], !.old = old \ {p}]
    BY <2>1
  <2> HIDE DEF to
  <2>3. /\ gh.pulls = pulls /\ gh.issues = issues /\ gh.version = version
        /\ gh.head = head /\ gh.open = open /\ gh.old = old
    BY <2>1
  <2>4. to = [pulls |-> Updated(pulls, p), issues |-> Updated(issues, p),
              version |-> [version EXCEPT ![p] = @ + 1], head |-> head, open |-> open, old |-> old \ {p}]
    BY <2>1, <2>2
  <2> QED
    BY <2>3, <2>4
<1>2. \/ gh' = [to EXCEPT !.head[p] = @ + 1]
      \/ gh' = to
      \/ gh' = [to EXCEPT !.open = IF p \in @ THEN @ \ {p} ELSE @ \cup {p}]
  BY DEF Change
<1>3. gh.open \subseteq Pulls
  BY DEF TypesOK
<1> HIDE DEF to
<1>4. CASE gh' = [to EXCEPT !.head[p] = @ + 1]
  BY <1>1, <1>3, <1>4
<1>5. CASE gh' = to
  BY <1>1, <1>3, <1>5
<1>6. CASE gh' = [to EXCEPT !.open = IF p \in @ THEN @ \ {p} ELSE @ \cup {p}]
  BY <1>1, <1>3, <1>6
<1> QED
  BY <1>2, <1>4, <1>5, <1>6

LEMMA ChangedLists ==
  ASSUME TypesOK, ListsOK, NEW p \in Pulls, Change(p)
  PROVE  ListsOK'
<1>0. p \in Pulls \cup Plain
  OBVIOUS
<1>1. /\ gh'.pulls = Updated(gh.pulls, p) /\ gh'.issues = Updated(gh.issues, p)
      /\ gh'.old = gh.old \ {p}
  BY ChangeIs
<1>2. ListOK(Updated(gh.pulls, p), Pulls, Len(ListedPulls))
  BY <1>0, ListLengths, UpdatedList DEF ListsOK
<1>3. ListOK(Updated(gh.issues, p), Pulls \cup Plain, Len(ListedIssues))
  BY <1>0, ListLengths, UpdatedList DEF ListsOK
<1>4. \A i, j \in 1 .. Len(ListedPulls) :
        i < j /\ Updated(gh.pulls, p)[i] \in gh.old \ {p} => Updated(gh.pulls, p)[j] \in gh.old \ {p}
  BY <1>0, ListLengths, UpdatedOld DEF ListsOK
<1>5. \A i, j \in 1 .. Len(ListedIssues) :
        i < j /\ Updated(gh.issues, p)[i] \in gh.old \ {p} => Updated(gh.issues, p)[j] \in gh.old \ {p}
  BY <1>0, ListLengths, UpdatedOld DEF ListsOK
<1>6. OldLast(gh.pulls, Len(ListedPulls))' /\ OldLast(gh.issues, Len(ListedIssues))'
  BY <1>1, <1>4, <1>5 DEF OldLast
<1>7. ListOK(gh'.pulls, Pulls, Len(ListedPulls)) /\ ListOK(gh'.issues, Pulls \cup Plain, Len(ListedIssues))
  BY <1>1, <1>2, <1>3
<1> QED
  BY <1>6, <1>7 DEF ListsOK, ListOK

(* Who does not change does not come forward.                              *)
LEMMA Unchanged ==
  ASSUME TypesOK, ListsOK, RowsOK, NEW p \in Pulls, Change(p)
  PROVE  /\ \A lane : Window(lane)' \ {p} \subseteq Window(lane)
         /\ \A q \in Pulls \ {p} :
              /\ gh'.version[q] = gh.version[q] /\ rows'[q] = rows[q]
              /\ \A k \in Nat : /\ q \in First(gh'.pulls, k) => q \in First(gh.pulls, k)
                                /\ q \in First(gh'.issues, k) => q \in First(gh.issues, k)
<1>0. p \in Pulls \cup Plain
  OBVIOUS
<1>1. /\ gh'.pulls = Updated(gh.pulls, p) /\ gh'.issues = Updated(gh.issues, p)
      /\ gh'.old = gh.old \ {p} /\ rows' = rows /\ gh'.version = [gh.version EXCEPT ![p] = @ + 1]
  BY ChangeIs DEF Change
<1>2. \A q, k : k \in Nat /\ q # p /\ q \in First(Updated(gh.pulls, p), k) => q \in First(gh.pulls, k)
  BY <1>0, ListLengths, UpdatedList DEF ListsOK
<1>3. \A q, k : k \in Nat /\ q # p /\ q \in First(Updated(gh.issues, p), k) => q \in First(gh.issues, k)
  BY <1>0, ListLengths, UpdatedList DEF ListsOK
<1> QED
  BY <1>1, <1>2, <1>3 DEF Window, RowsOK

LEMMA ChangedWalk ==
  ASSUME TypesOK, ListsOK, RowsOK, NEW p \in Pulls, Change(p), NEW lane, NEW changed,
         NEW page \in Nat \ {0}, Walked(lane, changed, page)
  PROVE  Walked(lane, changed \cup {p}, page)'
<1> SUFFICES ASSUME NEW q \in Window(lane)' \ (changed \cup {p})
             PROVE  /\ q \in First(gh'.pulls, Before(page)) => PullIn(q)'
                    /\ q \in First(gh'.issues, Before(page)) => IssueIn(q)'
  BY DEF Walked
<1>1. q \in Window(lane) \ changed /\ q \in Pulls \ {p}
  BY Unchanged DEF Window
<1>2. Before(page) \in Nat
  BY BeforePages
<1> QED
  BY <1>1, <1>2, Unchanged DEF Walked, PullIn, IssueIn

LEMMA ChangedPass ==
  ASSUME TypesOK, ListsOK, RowsOK, NEW p \in Pulls, Change(p), NEW me \in Passes, WorkerOK(me), NEW changed,
         PassOK(me, changed)
  PROVE  PassOK(me, changed \cup {p})'
<1>1. me.page \in Nat \ {0} /\ me.page + 1 \in Nat \ {0}
  BY PageNumbers
<1>2. \A page \in Nat \ {0} : Walked(me.lane, changed, page) => Walked(me.lane, changed \cup {p}, page)'
  BY ChangedWalk
<1>3. ASSUME NEW q \in Window(me.lane)' \ (changed \cup {p})
      PROVE  /\ q \in Window(me.lane) \ changed /\ PullIn(q)' = PullIn(q) /\ IssueIn(q)' = IssueIn(q)
             /\ q \in First(gh'.pulls, Before(me.page + 1)) => q \in First(gh.pulls, Before(me.page + 1))
  <2>1. q \in Window(me.lane) \ changed /\ q \in Pulls \ {p}
    BY Unchanged DEF Window
  <2>2. Before(me.page + 1) \in Nat
    BY <1>1, BeforePages
  <2> QED
    BY <2>1, <2>2, Unchanged DEF PullIn, IssueIn
<1>4. Planned(me, changed) => Planned(me, changed \cup {p})'
  BY <1>3 DEF Planned
<1>5. Finished(me, changed) => Finished(me, changed \cup {p})'
  BY <1>3 DEF Finished
<1> QED
  BY <1>1, <1>2, <1>4, <1>5 DEF PassOK

LEMMA ChangeKeeps ==
  ASSUME RepairInv, NEW p \in Pulls, Change(p)
  PROVE  RepairInv'
<1>0. TypesOK /\ ListsOK /\ RowsOK /\ CursorsOK /\ PassesOK
  BY DEF RepairInv
<1>1. ListsOK'
  BY <1>0, ChangedLists
<1>2. RowsOK'
  <2>1. rows' = rows /\ gh'.version = [gh.version EXCEPT ![p] = @ + 1] /\ used'.events = used.events + 1
        /\ gh'.head \in {gh.head, [gh.head EXCEPT ![p] = @ + 1]}
    BY <1>0, Counted, ChangeIs DEF Change
  <2>2. used.events \in Nat
    BY <1>0, Counted
  <2> QED
    BY <1>0, <2>1, <2>2 DEF RowsOK
<1>3. /\ \A w \in Workers : excused'[w] = IF worker[w].lane \in Repairs THEN excused[w] \cup {p} ELSE {}
      /\ excused'["recent"] = IF state.cursor > 1 THEN excused["recent"] \cup {p} ELSE {}
      /\ excused'["history"] = IF state.page > 1 THEN excused["history"] \cup {p} ELSE {}
      /\ excused' \in [Workers \cup Repairs -> SUBSET Pulls]
  <2>1. excused \in [Workers \cup Repairs -> SUBSET Pulls]
    BY <1>0 DEF TypesOK
  <2>2. excused' = [x \in Workers \cup Repairs |-> IF Underway(x) THEN excused[x] \cup {p} ELSE {}]
    BY <2>1 DEF Change
  <2>3. \A w \in Workers : w # "recent" /\ w # "history"
    BY SchedulerAssumption
  <2>4. \A w \in Workers : Underway(w) = (worker[w].lane \in Repairs)
    BY <2>3 DEF Underway
  <2>5. Underway("recent") = (state.cursor > 1) /\ Underway("history") = (state.page > 1)
    BY DEF Underway
  <2> QED
    BY <2>1, <2>2, <2>4, <2>5 DEF Repairs
<1>4. TypesOK'
  <2>1. gh' = [pulls |-> gh'.pulls, issues |-> gh'.issues, version |-> gh'.version, head |-> gh'.head,
               open |-> gh'.open, old |-> gh'.old]
        /\ gh'.open \subseteq Pulls /\ gh'.old = gh.old \ {p}
    BY <1>0, ChangeIs
  <2>2. used' \in [events : 0 .. MaxEvents, failures : 0 .. MaxFailures]
    BY <1>0, Counted DEF Change
  <2> QED
    BY <1>0, <1>3, <2>1, <2>2 DEF TypesOK, Change
<1>5. CursorsOK'
  <2>1. state.cursor \in Nat \ {0} /\ state.page \in Nat \ {0}
    BY <1>0, ListLengths DEF TypesOK, Entries
  <2>2. PICK before, cursor, changed, page :
          before = excused["recent"] /\ cursor = state.cursor /\ changed = excused["history"] /\ page = state.page
    OBVIOUS
  <2>3. PICK before2, changed2 : before2 = excused'["recent"] /\ changed2 = excused'["history"]
    OBVIOUS
  <2>4. state' = state
    BY DEF Change
  <2>5. Walked("recent", before2, cursor)'
    <3>1. CASE cursor > 1
      <4>1. before2 = before \cup {p}
        BY <1>3, <2>2, <2>3, <3>1
      <4> QED
        BY <1>0, <2>1, <2>2, <4>1, ChangedWalk DEF CursorsOK
    <3>2. CASE cursor = 1
      BY <1>1, <3>2, FirstPageNext
    <3> QED
      BY <2>1, <2>2, <3>1, <3>2
  <2>6. Walked("history", changed2, page)'
    <3>1. CASE page > 1
      <4>1. changed2 = changed \cup {p}
        BY <1>3, <2>2, <2>3, <3>1
      <4> QED
        BY <1>0, <2>1, <2>2, <4>1, ChangedWalk DEF CursorsOK
    <3>2. CASE page = 1
      BY <1>1, <3>2, FirstPageNext
    <3> QED
      BY <2>1, <2>2, <3>1, <3>2
  <2> QED
    BY <2>2, <2>3, <2>4, <2>5, <2>6, CursorsOf
<1>6. PassesOK'
  <2>1. ASSUME NEW w \in Workers PROVE PassOK(worker[w], excused[w])'
    <3>1. PICK me, changed : me = worker[w] /\ changed = excused[w]
      OBVIOUS
    <3>2. me \in Passes /\ WorkerOK(me) /\ PassOK(me, changed) /\ worker'[w] = me
      BY <1>0, <3>1 DEF TypesOK, PassesOK, Change
    <3>3. CASE me.lane \in Repairs
      <4>1. excused'[w] = changed \cup {p}
        BY <1>3, <3>1, <3>3
      <4>2. PassOK(me, changed \cup {p})'
        BY <1>0, <3>2, ChangedPass
      <4> QED
        BY <3>2, <4>1, <4>2, PassOf
    <3>4. CASE me.lane \notin Repairs
      <4>1. me.pc \notin {"acquire", "pulls", "issues", "complete"}
        BY <3>2, <3>4 DEF WorkerOK
      <4>2. PassOK(me, {})'
        BY <4>1, NoPass
      <4>3. excused'[w] = {}
        BY <1>3, <3>1, <3>4
      <4> QED
        BY <3>2, <4>2, <4>3, PassOf
    <3> QED
      BY <3>3, <3>4
  <2> QED
    BY <2>1 DEF PassesOK
<1>7. ClocksOK'
  BY DEF RepairInv, ClocksOK, Change
<1> QED
  BY <1>1, <1>2, <1>4, <1>5, <1>6, <1>7 DEF RepairInv

(* A step that moves no worker and no cursor forward.                      *)
LEMMA TableStep ==
  ASSUME RepairInv, gh' = gh, rows' = rows, worker' = worker, excused' = excused,
         state' \in StateRecords, state'.page = state.page,
         state'.cursor = state.cursor \/ state'.cursor = 1,
         behind' = behind, wanted' = wanted,
         used' = used \/ Happens, ClocksOK'
  PROVE  RepairInv'
<1>0. TypesOK /\ ListsOK /\ RowsOK /\ CursorsOK /\ PassesOK
  BY DEF RepairInv
<1>1. used' \in [events : 0 .. MaxEvents, failures : 0 .. MaxFailures]
      /\ used'.events \in Nat /\ used.events \in Nat /\ used'.events >= used.events
  BY <1>0, Counted, PagesAssumption DEF TypesOK
<1>2. ListsOK' /\ RowsOK' /\ RowsGrow
  BY <1>0, <1>1, ListsStay, RowsStay
<1>3. TypesOK'
  <2>1. state'.cursor \in 1 .. Entries + 1 /\ state'.page \in 1 .. Entries + 1
    BY <1>0, ListLengths DEF TypesOK, Entries
  <2> QED
    BY <1>0, <1>1, <2>1 DEF TypesOK
<1>4. PassesOK'
  BY <1>0, <1>2, NobodyMoves
<1>5. CursorsOK'
  BY <1>0, <1>2, CursorsStay, CursorReset
<1> QED
  BY <1>2, <1>3, <1>4, <1>5 DEF RepairInv

LEMMA OutsideKeeps ==
  ASSUME RepairInv, TimePasses \/ AskForRecentPRRepair \/ RequestRecentPRRepair
                    \/ \E m \in Modes : ConfigureRepoBackfill(m)
  PROVE  RepairInv'
<1>0. state \in StateRecords /\ ClocksOK
  BY DEF RepairInv, TypesOK
<1>1. ASSUME NEW field \in {"recentDue", "historyDue"}, FallsDue(field), used' = used \/ Happens
      PROVE  RepairInv'
  <2>1. state' \in StateRecords /\ state'.page = state.page /\ state'.cursor = state.cursor
    BY <1>0, <1>1 DEF FallsDue, StateRecords
  <2> QED
    BY <1>0, <1>1, <2>1, TableStep DEF FallsDue, aside, ClocksOK
<1>2. CASE InventoryAges
  <2>1. state' \in StateRecords /\ state'.page = state.page /\ state'.cursor = state.cursor
    BY <1>0, <1>2 DEF InventoryAges, StateRecords
  <2> QED
    BY <1>0, <1>2, <2>1, TableStep DEF InventoryAges, aside, ClocksOK
<1>3. CASE RequestRecentPRRepair
  <2>1. state' \in StateRecords /\ state'.page = state.page /\ state'.cursor = 1
    BY <1>0, <1>3 DEF RequestRecentPRRepair, StateRecords
  <2>2. ClocksOK'
    BY <1>0, <1>3 DEF RequestRecentPRRepair, ClocksOK
  <2> QED
    BY <1>0, <1>3, <2>1, <2>2, TableStep DEF RequestRecentPRRepair
<1>4. CASE AskForRecentPRRepair
  <2>1. ClocksOK'
    BY <1>0, <1>4 DEF AskForRecentPRRepair, ClocksOK
  <2> QED
    BY <1>0, <1>4, <2>1, TableStep DEF AskForRecentPRRepair
<1>5. ASSUME NEW m \in Modes, ConfigureRepoBackfill(m) PROVE RepairInv'
  <2>1. state' \in StateRecords /\ state'.page = state.page /\ state'.cursor = state.cursor
    BY <1>0, <1>5 DEF ConfigureRepoBackfill, StateRecords
  <2> QED
    BY <1>0, <1>5, <2>1, TableStep DEF ConfigureRepoBackfill, aside, ClocksOK
<1>6. CASE RecentFallsDue \/ HistoryFallsDue
  BY <1>1, <1>6 DEF RecentFallsDue, HistoryFallsDue
<1> QED
  BY <1>2, <1>3, <1>4, <1>5, <1>6 DEF TimePasses
-----------------------------------------------------------------------------
(* The workers.                                                            *)

(* What has to be shown of a worker's step.                                *)
LEMMA StepKeeps ==
  ASSUME RepairInv, NEW w \in Workers, NEW me \in Passes, WorkerOK(me), NEW changed,
         worker' = [worker EXCEPT ![w] = me], PassOK(me, changed)',
         excused'[w] = changed, \A v \in Workers \ {w} : excused'[v] = excused[v],
         excused' \in [Workers \cup Repairs -> SUBSET Pulls],
         RowsGrow, RowsOK', CursorsOK',
         state' \in StateRecords, state'.cursor \in 1 .. Entries + 1, state'.page \in 1 .. Entries + 1,
         behind' \subseteq Pulls, wanted' = wanted,
         used' \in [events : 0 .. MaxEvents, failures : 0 .. MaxFailures],
         ClocksOK'
  PROVE  RepairInv'
<1>0. TypesOK /\ ListsOK /\ PassesOK /\ gh' = gh
  BY DEF RepairInv, RowsGrow
<1>1. ListsOK'
  BY <1>0, ListsStay
<1>2. TypesOK'
  BY <1>0, TypesStay DEF TypesOK
<1>3. worker'[w] = me /\ \A v \in Workers \ {w} : worker'[v] = worker[v]
  BY <1>0, WorkerStep
<1>4. PassesOK'
  BY <1>0, <1>3, OthersKeep
<1> QED
  BY <1>1, <1>2, <1>4 DEF RepairInv

(* Of a step that leaves the repository's cursors alone.                   *)
LEMMA StepAside ==
  ASSUME RepairInv, NEW w \in Workers, NEW me \in Passes, WorkerOK(me), NEW changed \in SUBSET Pulls,
         worker' = [worker EXCEPT ![w] = me], PassOK(me, changed)',
         excused' = [excused EXCEPT ![w] = changed],
         RowsGrow, RowsOK',
         state' \in StateRecords, state'.cursor = state.cursor, state'.page = state.page,
         behind' \subseteq Pulls, wanted' = wanted,
         used' \in [events : 0 .. MaxEvents, failures : 0 .. MaxFailures],
         ClocksOK'
  PROVE  RepairInv'
<1>0. TypesOK /\ CursorsOK
  BY DEF RepairInv
<1>1. /\ excused'[w] = changed
      /\ \A v \in Workers \ {w} : excused'[v] = excused[v]
      /\ excused'["recent"] = excused["recent"]
      /\ excused'["history"] = excused["history"]
      /\ excused' \in [Workers \cup Repairs -> SUBSET Pulls]
  BY <1>0, ExcusedStep
<1>2. CursorsOK'
  BY <1>0, <1>1, CursorsStay
<1>3. state'.cursor \in 1 .. Entries + 1 /\ state'.page \in 1 .. Entries + 1
  BY <1>0 DEF TypesOK
<1> QED
  BY <1>1, <1>2, <1>3, StepKeeps

(* A step that writes no row and nothing of the repository.                *)
LEMMA QuietStep ==
  ASSUME RepairInv, NEW w \in Workers, NEW me \in Passes, WorkerOK(me), NEW changed \in SUBSET Pulls,
         worker' = [worker EXCEPT ![w] = me], RowsGrow => PassOK(me, changed)',
         excused' = [excused EXCEPT ![w] = changed],
         UNCHANGED <<gh, rows, behind, wanted>>, used' = used \/ Fails, ClocksOK',
         state' \in StateRecords, state'.cursor = state.cursor, state'.page = state.page
  PROVE  RepairInv'
<1>0. TypesOK /\ RowsOK
  BY DEF RepairInv
<1>1. /\ used' \in [events : 0 .. MaxEvents, failures : 0 .. MaxFailures]
      /\ used.events \in Nat /\ used'.events = used.events
  BY <1>0, Counted DEF TypesOK
<1>2. RowsOK' /\ RowsGrow
  BY <1>0, <1>1, RowsStay
<1>3. behind' \subseteq Pulls /\ wanted' = wanted
  BY <1>0 DEF TypesOK
<1> QED
  BY <1>1, <1>2, <1>3, StepAside

(* Excused as before.                                                      *)
LEMMA SameExcused ==
  ASSUME TypesOK, NEW w \in Workers
  PROVE  excused[w] \in SUBSET Pulls /\ excused = [excused EXCEPT ![w] = excused[w]]
BY DEF TypesOK

LEMMA Same ==
  ASSUME TypesOK
  PROVE  state \in StateRecords /\ \A w \in Workers : worker[w] \in Passes /\ WorkerOK(worker[w])
BY DEF TypesOK

(* A worker that gives up.                                                 *)
LEMMA GivesUp ==
  ASSUME RepairInv, NEW w \in Workers, Goes(w, Idle), excused' = [excused EXCEPT ![w] = {}],
         UNCHANGED <<gh, rows, state, behind, wanted>>, used' = used \/ Fails,
         ClocksOK'
  PROVE  RepairInv'
<1>1. PassOK(Idle, {})'
  BY IdleOK, NoPass
<1>2. state \in StateRecords
  BY DEF RepairInv, TypesOK
<1> QED
  BY <1>1, <1>2, IdleOK, QuietStep DEF Goes

LEMMA RefreshKeeps ==
  ASSUME RepairInv, NEW w \in Workers, NEW p \in Pulls, ProcessTargetedRefresh(w, p)
  PROVE  RepairInv'
<1>0. TypesOK /\ ListsOK /\ RowsOK /\ CursorsOK /\ PassesOK /\ ClocksOK
  BY DEF RepairInv
<1>1. rows' = Indexed({p}) /\ gh' = gh /\ used' = used /\ UNCHANGED <<state, worker, excused, clock>>
  BY DEF ProcessTargetedRefresh, aside
<1>2. ListsOK' /\ RowsOK' /\ RowsGrow
  BY <1>0, <1>1, ListsStay, IndexedRows
<1>3. TypesOK'
  BY <1>0, <1>1 DEF TypesOK, ProcessTargetedRefresh
<1>4. CursorsOK' /\ PassesOK'
  BY <1>0, <1>1, <1>2, CursorsStay, NobodyMoves
<1>5. ClocksOK'
  BY <1>0, <1>1 DEF ClocksOK
<1> QED
  BY <1>2, <1>3, <1>4, <1>5 DEF RepairInv

(* The clock, read, used or overtaken.                                     *)
LEMMA ClockStep ==
  ASSUME ClocksOK, NEW w \in Workers,
         \/ clock' = clock
         \/ clock' = [clock EXCEPT ![w] = "none"]
         \/ clock' = [clock EXCEPT ![w] = "fresh"]
         \/ PassEnds
  PROVE  ClocksOK'
BY DEF ClocksOK, PassEnds

LEMMA PickedKeeps ==
  ASSUME RepairInv, NEW w \in Workers, NEW lane \in Lanes \ {"none"}, Picked(w, lane),
         UNCHANGED <<gh, rows, state, behind, wanted, used>>
  PROVE  RepairInv'
<1>0. TypesOK /\ ListsOK /\ CursorsOK
  BY DEF RepairInv
<1>7. ClocksOK'
  BY ClockStep DEF RepairInv, Picked
<1> DEFINE me == [Idle EXCEPT !.pc = IF lane \in Repairs THEN "acquire" ELSE "pass",
                              !.lane = lane, !.pending = lane = "recent" /\ state.pending,
                              !.page = CASE lane = "history" -> state.page
                                         [] lane = "recent" -> state.cursor
                                         [] OTHER -> 1]
<1>1. me \in Passes
  BY <1>0 DEF TypesOK, Idle, Passes, Steps, Lanes, StateRecords
<1>2. WorkerOK(me)
  <2>1. /\ me.lane = lane /\ me.last = 0
        /\ me.pc = IF lane \in Repairs THEN "acquire" ELSE "pass"
        /\ me.page \in {1, state.page, state.cursor}
    BY DEF Idle
  <2>2. Entries \in Nat /\ state.page \in 1 .. Entries + 1 /\ state.cursor \in 1 .. Entries + 1
    BY <1>0, ListLengths DEF TypesOK, Entries
  <2> HIDE DEF me
  <2>3. me.page \in 1 .. Entries + 1
    BY <2>1, <2>2
  <2>4. me.last <= Entries + RecentPages + HistoryPages
    BY <2>1, <2>2, PagesAssumption
  <2> QED
    BY <2>1, <2>3, <2>4 DEF WorkerOK, Repairs, Lanes
<1>3. worker' = [worker EXCEPT ![w] = me]
  BY DEF Picked, Goes
<1>4. state \in StateRecords
  BY <1>0 DEF TypesOK
<1>5. CASE lane \in Repairs
  <2>1. PICK changed : changed = excused[lane]
    OBVIOUS
  <2>2. changed \in SUBSET Pulls
    BY <1>0, <1>5, <2>1 DEF TypesOK
  <2>3. excused' = [excused EXCEPT ![w] = changed]
    BY <1>5, <2>1 DEF Picked
  <2>4. PICK page : page = me.page
    OBVIOUS
  <2>5. me.lane = lane /\ me.pc = "acquire" /\ Walked(lane, changed, page)
    BY <1>0, <1>5, <2>1, <2>4 DEF CursorsOK, Repairs, Idle
  <2>6. RowsGrow => Walked(lane, changed, page)'
    BY <2>5, WalkedGrows
  <2>7. PICK it : it = me
    OBVIOUS
  <2>8. RowsGrow => PassOK(it, changed)'
    BY <2>4, <2>5, <2>6, <2>7 DEF PassOK
  <2> HIDE DEF me
  <2> QED
    BY <1>1, <1>2, <1>3, <1>4, <1>7, <2>2, <2>3, <2>7, <2>8, QuietStep
<1>6. CASE lane \notin Repairs
  <2>1. excused' = excused /\ me.pc = "pass"
    BY <1>6 DEF Picked, Idle
  <2>2. PICK changed, it : changed = excused[w] /\ it = me
    OBVIOUS
  <2>3. changed \in SUBSET Pulls /\ excused' = [excused EXCEPT ![w] = changed]
    BY <1>0, <2>1, <2>2, SameExcused
  <2>4. PassOK(it, changed)'
    BY <2>1, <2>2, NoPass
  <2> HIDE DEF me
  <2> QED
    BY <1>1, <1>2, <1>3, <1>4, <1>7, <2>2, <2>3, <2>4, QuietStep
<1> QED
  BY <1>5, <1>6

LEMMA LanesPicked == ToSet(repoWorkPickers) = Lanes \ {"none"}
BY DEF ToSet, repoWorkPickers, Lanes

LEMMA PickKeeps ==
  ASSUME RepairInv, NEW w \in Workers, Pick(w)
  PROVE  RepairInv'
<1>1. PICK lane \in Lanes \ {"none"} : Picked(w, lane)
  BY LanesPicked DEF Pick, nextRepoWork
<1> QED
  BY <1>1, PickedKeeps DEF Pick

LEMMA WalkOnKeeps ==
  ASSUME RepairInv, NEW w \in Workers, WalkOn(w)
  PROVE  RepairInv'
<1>1. CASE Picked(w, "history")
  <2>1. "history" \in Lanes \ {"none"}
    BY DEF Lanes
  <2> QED
    BY <1>1, <2>1, PickedKeeps DEF WalkOn
<1>2. CASE Goes(w, Idle) /\ UNCHANGED aside
  <2>0. excused' = excused /\ ClocksOK'
    BY <1>2, ClockStep DEF aside, RepairInv
  <2>1. PICK changed : changed = excused[w]
    OBVIOUS
  <2>2. changed \in SUBSET Pulls /\ excused' = [excused EXCEPT ![w] = changed] /\ state \in StateRecords
    BY <2>0, <2>1, SameExcused, Same DEF RepairInv
  <2>3. PassOK(Idle, changed)'
    BY IdleOK, NoPass
  <2> QED
    BY <1>2, <2>0, <2>2, <2>3, IdleOK, QuietStep DEF WalkOn, Goes
<1> QED
  BY <1>1, <1>2 DEF WalkOn
(* There are no more pull requests than issues.                            *)
LEMMA Interval ==
  ASSUME NEW n \in Nat
  PROVE  IsFiniteSet(1 .. n) /\ Cardinality(1 .. n) = n
<1>1. IsFiniteSet(1 .. n) /\ Cardinality(1 .. n) = IF 1 > n THEN 0 ELSE n - 1 + 1
  BY FS_Interval
<1> QED
  BY <1>1

LEMMA ShorterList == Len(ListedPulls) <= Entries
<1>1. /\ ListedPulls \in [1 .. Len(ListedPulls) -> Pulls]
      /\ ListedIssues \in [1 .. Len(ListedIssues) -> Pulls \cup Plain]
  BY SchedulerAssumption
<1>2. /\ \A i, j \in 1 .. Len(ListedPulls) : ListedPulls[i] = ListedPulls[j] => i = j
      /\ \A x \in Pulls : \E j \in 1 .. Len(ListedIssues) : ListedIssues[j] = x
  BY <1>1, SchedulerAssumption DEF ToSet, IsInjective
<1>3. ListedPulls \in [1 .. Len(ListedPulls) -> Pulls \cup Plain]
      /\ \A i \in 1 .. Len(ListedPulls) : \E j \in 1 .. Len(ListedIssues) : ListedIssues[j] = ListedPulls[i]
  BY <1>1, <1>2
<1>4. PICK m, n, f, g, S :
        /\ m = Len(ListedPulls) /\ n = Len(ListedIssues) /\ S = Pulls \cup Plain
        /\ f = ListedPulls /\ g = ListedIssues
  OBVIOUS
<1>5. /\ m \in Nat /\ n \in Nat /\ f \in [1 .. m -> S] /\ g \in [1 .. n -> S]
      /\ \A i, j \in 1 .. m : f[i] = f[j] => i = j
      /\ \A i \in 1 .. m : \E j \in 1 .. n : g[j] = f[i]
  BY <1>1, <1>2, <1>3, <1>4, ListLengths
<1>6. SUFFICES ASSUME n < m PROVE FALSE
  BY <1>4, <1>5 DEF Entries
<1>7. PICK A, B, h : /\ A = 1 .. m /\ B = 1 .. n
                     /\ h = [i \in 1 .. m |-> CHOOSE j \in 1 .. n : g[j] = f[i]]
  OBVIOUS
<1>8. h \in [A -> B] /\ \A i \in A : g[h[i]] = f[i]
  BY <1>5, <1>7
<1>9. IsFiniteSet(A) /\ IsFiniteSet(B) /\ Cardinality(B) < Cardinality(A)
  BY <1>5, <1>6, <1>7, Interval
<1>10. \E i, j \in A : i # j /\ h[i] = h[j]
  BY <1>8, <1>9, FS_PigeonHole
<1> QED
  BY <1>5, <1>7, <1>8, <1>10

LEMMA MissedKeeps ==
  ASSUME RepairInv, NEW w \in Workers, Missed(w)
  PROVE  RepairInv'
<1>1. ClocksOK'
  BY ClockStep DEF RepairInv, Missed
<1> QED
  BY <1>1, GivesUp DEF Missed

LEMMA CrashKeeps ==
  ASSUME RepairInv, NEW w \in Workers, Crash(w)
  PROVE  RepairInv'
<1>1. ClocksOK'
  BY ClockStep DEF RepairInv, Crash
<1> QED
  BY <1>1, GivesUp DEF Crash

(* A pass begins.                                                          *)
LEMMA RepairingIs ==
  ASSUME RepairInv, NEW w \in Workers, worker[w].pc = "acquire", NEW page \in 1 .. Entries + 1,
         NEW me, me = Repairing(w, page)
  PROVE  /\ me \in Passes /\ WorkerOK(me)
         /\ me.pc = "pulls" /\ me.page = page /\ me.lane = worker[w].lane
<1>1. worker[w] \in Passes /\ WorkerOK(worker[w]) /\ Entries \in Nat
  BY Same, ListLengths DEF RepairInv, Entries
<1> DEFINE last == page + (IF worker[w].lane = "recent" THEN RecentPages ELSE HistoryPages) - 1
<1>2. last \in Nat /\ last <= Entries + RecentPages + HistoryPages
  BY <1>1, PagesAssumption
<1>3. me = [worker[w] EXCEPT !.pc = "pulls", !.pending = FALSE, !.page = page, !.last = last]
  BY DEF Repairing
<1> HIDE DEF last
<1>4. me.pc = "pulls" /\ me.page = page /\ me.last = last /\ me.lane = worker[w].lane
  BY <1>1, <1>3 DEF Passes
<1>5. me \in Passes
  <2>1. page \in Nat
    BY <1>1
  <2> QED
    BY <1>1, <1>2, <1>3, <2>1 DEF Passes, Steps
<1>6. me.lane \in Repairs
  BY <1>1, <1>4 DEF WorkerOK
<1> QED
  BY <1>2, <1>4, <1>5, <1>6 DEF WorkerOK

LEMMA BeginsKeeps ==
  ASSUME RepairInv, NEW w \in Workers, worker[w].pc = "acquire", NEW page, page \in {1, worker[w].page},
         Begins(w, page), UNCHANGED <<gh, rows, state, behind, wanted, used>>, ClocksOK'
  PROVE  RepairInv'
<1>0. TypesOK /\ ListsOK /\ PassesOK /\ worker[w] \in Passes /\ WorkerOK(worker[w]) /\ Entries \in Nat
      /\ state \in StateRecords
  BY Same, ListLengths DEF RepairInv, Entries
<1>1. page \in 1 .. Entries + 1
  BY <1>0 DEF WorkerOK
<1>2. PICK me : me = Repairing(w, page)
  OBVIOUS
<1>3. /\ me \in Passes /\ WorkerOK(me) /\ me.pc = "pulls" /\ me.page = page /\ me.lane = worker[w].lane
      /\ worker' = [worker EXCEPT ![w] = me]
  BY <1>1, <1>2, RepairingIs DEF Begins, Goes
<1>4. PICK lane, changed, before : lane = worker[w].lane /\ changed = (IF page = 1 THEN {} ELSE excused[w])
                                   /\ before = excused[w]
  OBVIOUS
<1>5. excused' = [excused EXCEPT ![w] = changed] /\ changed \in SUBSET Pulls
  BY <1>0, <1>4, SameExcused DEF Begins
<1>6. RowsGrow => Walked(lane, changed, page)'
  <2>1. CASE page = 1
    BY <2>1, <1>0, ListsStay, FirstPageNext
  <2>2. CASE page # 1
    <3>1. Walked(lane, changed, page)
      BY <2>2, <1>0, <1>4 DEF PassesOK, PassOK
    <3> QED
      BY <3>1, WalkedGrows
  <2> QED
    BY <2>1, <2>2
<1>7. RowsGrow => PassOK(me, changed)'
  BY <1>3, <1>4, <1>6 DEF PassOK
<1> QED
  BY <1>0, <1>3, <1>5, <1>7, QuietStep

LEMMA StartHistoryKeeps ==
  ASSUME RepairInv, NEW w \in Workers, StartFullHistoryRepair(w)
  PROVE  RepairInv'
<1>1. ClocksOK'
  BY ClockStep DEF RepairInv, StartFullHistoryRepair
<1> QED
  BY <1>1, BeginsKeeps DEF StartFullHistoryRepair

LEMMA StartRecentKeeps ==
  ASSUME RepairInv, NEW w \in Workers, StartRecentPRRepair(w)
  PROVE  RepairInv'
<1>0. ClocksOK'
  BY ClockStep DEF RepairInv, StartRecentPRRepair
<1>1. CASE worker[w].pending
  BY <1>0, <1>1, BeginsKeeps DEF StartRecentPRRepair
<1>2. CASE ~worker[w].pending
  <2>0. TypesOK /\ ListsOK /\ RowsOK /\ CursorsOK /\ state \in StateRecords /\ Entries \in Nat
        /\ used.events \in Nat
    BY Same, Counted, ListLengths DEF RepairInv, Entries
  <2>1. Begins(w, 1) /\ (\E asks \in BOOLEAN : state' = [state EXCEPT !.pending = asks, !.cursor = 1])
        /\ UNCHANGED <<gh, rows, behind, wanted, used>> /\ worker[w].pc = "acquire"
    BY <1>2 DEF StartRecentPRRepair
  <2>2. PICK me : me = Repairing(w, 1)
    OBVIOUS
  <2>3. /\ me \in Passes /\ WorkerOK(me) /\ me.pc = "pulls" /\ me.page = 1
        /\ worker' = [worker EXCEPT ![w] = me]
    BY <2>0, <2>1, <2>2, RepairingIs DEF Begins, Goes
  <2>4. excused' = [excused EXCEPT ![w] = {}]
    BY <2>1 DEF Begins
  <2>5. /\ excused'[w] = {} /\ \A v \in Workers \ {w} : excused'[v] = excused[v]
        /\ excused'["history"] = excused["history"]
        /\ excused' \in [Workers \cup Repairs -> SUBSET Pulls]
    BY <2>0, <2>4, ExcusedStep
  <2>6. RowsOK' /\ RowsGrow /\ ListsOK'
    BY <2>0, <2>1, RowsStay, ListsStay
  <2>7. PICK lane : lane = me.lane
    OBVIOUS
  <2>8. Walked(lane, {}, 1)'
    BY <2>6, FirstPageNext
  <2>9. PassOK(me, {})'
    BY <2>3, <2>7, <2>8 DEF PassOK
  <2>10. /\ state' \in StateRecords /\ state'.cursor = 1 /\ state'.page = state.page
    <3>1. PICK asks \in BOOLEAN : state' = [state EXCEPT !.pending = asks, !.cursor = 1]
      BY <2>1
    <3> QED
      BY <2>0, <3>1 DEF StateRecords
  <2>11. CursorsOK'
    BY <2>0, <2>5, <2>6, <2>10, CursorReset
  <2>12. state'.cursor \in 1 .. Entries + 1 /\ state'.page \in 1 .. Entries + 1
         /\ behind' \subseteq Pulls /\ wanted' = wanted
         /\ used' \in [events : 0 .. MaxEvents, failures : 0 .. MaxFailures]
    BY <2>0, <2>1, <2>10 DEF TypesOK
  <2> QED
    BY <2>3, <2>5, <2>6, <2>9, <2>10, <2>11, <2>12, <1>0, StepKeeps
<1> QED
  BY <1>1, <1>2
(* What a worker has before it reads a page.                               *)
LEMMA AtWork ==
  ASSUME RepairInv, NEW w \in Workers, NEW me, me = worker[w], NEW changed, changed = excused[w]
  PROVE  /\ me \in Passes /\ WorkerOK(me) /\ PassOK(me, changed) /\ changed \in SUBSET Pulls
         /\ me.page \in Nat \ {0} /\ me.page \in 1 .. Entries + 1 /\ Entries \in Nat
<1>1. me \in Passes /\ WorkerOK(me) /\ PassOK(me, changed) /\ changed \in SUBSET Pulls
  BY DEF RepairInv, TypesOK, PassesOK
<1> QED
  BY <1>1, PageNumbers, ListLengths DEF WorkerOK, Entries

(* The page of pull requests has been read.                                *)
LEMMA ReadPulls ==
  ASSUME RepairInv, NEW w \in Workers, BuildRepairPullPlan(w),
         NEW p \in Window(worker[w].lane) \ excused[w],
         p \in First(gh.pulls, Before(worker[w].page + 1)) \/ Done(w, Page(gh.pulls, worker[w].page))
  PROVE  PullIn(p) \/ p \in worker'[w].pulls
<1>1. PICK me, changed : me = worker[w] /\ changed = excused[w]
  OBVIOUS
<1>2. /\ me \in Passes /\ PassOK(me, changed) /\ me.page \in Nat \ {0} /\ me.pc = "pulls"
      /\ p \in Window(me.lane) \ changed /\ p \in Pulls
  BY <1>1, AtWork DEF BuildRepairPullPlan, Window
<1>3. PICK page : page = Page(gh.pulls, me.page)
  OBVIOUS
<1>4. ListOK(gh.pulls, Pulls, Len(ListedPulls)) /\ OldLast(gh.pulls, Len(ListedPulls))
      /\ gh.pulls \in [1 .. Len(ListedPulls) -> Pulls]
  BY DEF RepairInv, ListsOK, ListOK
<1>5. p \in First(gh.pulls, Before(me.page + 1))
  BY <1>1, <1>2, <1>4, ListLengths, DoneIsBehind
<1>6. p \in First(gh.pulls, Before(me.page)) \/ p \in page
  <2>1. First(gh.pulls, Before(me.page + 1)) = First(gh.pulls, Before(me.page)) \cup Page(gh.pulls, me.page)
    BY <1>2, <1>4, ListLengths, PageAdds
  <2> QED
    BY <1>3, <1>5, <2>1
<1>7. CASE p \in First(gh.pulls, Before(me.page))
  BY <1>2, <1>7 DEF PassOK, Walked
<1>8. CASE p \in page
  <2>1. p \notin BeforeCutoff(w, page)
    BY <1>1, <1>2 DEF BeforeCutoff, Window
  <2>2. worker'[w].pulls = StalePulls(page \ BeforeCutoff(w, page))
    <3>1. PICK it : it = [me EXCEPT !.pc = "issues", !.done = Done(w, page),
                                    !.pulls = StalePulls(page \ BeforeCutoff(w, page)),
                                    !.issues = MissingIssues(page \ BeforeCutoff(w, page))]
      OBVIOUS
    <3>2. it.pulls = StalePulls(page \ BeforeCutoff(w, page))
      BY <1>2, <3>1 DEF Passes
    <3>3. worker' = [worker EXCEPT ![w] = it]
      BY <1>1, <1>3, <3>1 DEF BuildRepairPullPlan, Goes
    <3> QED
      BY <3>2, <3>3, WorkerStep DEF RepairInv
  <2>3. rows[p].pull < gh.version[p] \/ PullIn(p)
    <3>1. rows[p].pull \in Nat /\ gh.version[p] \in Nat /\ rows[p].pull <= gh.version[p]
      BY <1>2 DEF RepairInv, RowsOK
    <3> QED
      BY <3>1 DEF PullIn
  <2> QED
    BY <1>8, <2>1, <2>2, <2>3 DEF StalePulls
<1> QED
  BY <1>6, <1>7, <1>8

LEMMA PullPlanKeeps ==
  ASSUME RepairInv, NEW w \in Workers, BuildRepairPullPlan(w)
  PROVE  RepairInv'
<1>1. PICK me, changed : me = worker[w] /\ changed = excused[w]
  OBVIOUS
<1>2. /\ me \in Passes /\ WorkerOK(me) /\ PassOK(me, changed) /\ changed \in SUBSET Pulls
      /\ me.page \in Nat \ {0} /\ me.page \in 1 .. Entries + 1 /\ Entries \in Nat
      /\ me.pc = "pulls"
  BY <1>1, AtWork DEF BuildRepairPullPlan
<1>3. PICK page, done : page = Page(gh.pulls, me.page) /\ done = Done(w, page)
  OBVIOUS
<1>4. PICK pulls, issues : /\ pulls = StalePulls(page \ BeforeCutoff(w, page))
                           /\ issues = MissingIssues(page \ BeforeCutoff(w, page))
  OBVIOUS
<1>5. gh.pulls \in [1 .. Len(ListedPulls) -> Pulls]
  BY DEF RepairInv, ListsOK, ListOK
<1>6. pulls \in SUBSET Pulls /\ issues \in SUBSET Pulls /\ done \in BOOLEAN
  BY <1>2, <1>3, <1>4, <1>5, PageEntries DEF StalePulls, MissingIssues, Done
<1>7. PICK it : it = [me EXCEPT !.pc = "issues", !.done = done, !.pulls = pulls, !.issues = issues]
  OBVIOUS
<1>8. /\ it \in Passes /\ it.pc = "issues" /\ it.done = done /\ it.pulls = pulls
      /\ it.page = me.page /\ it.lane = me.lane /\ it.last = me.last
  BY <1>2, <1>6, <1>7 DEF Passes, Steps
<1>9. worker' = [worker EXCEPT ![w] = it]
  BY <1>1, <1>3, <1>4, <1>7 DEF BuildRepairPullPlan, Goes
<1>10. worker'[w] = it
  BY <1>9, WorkerStep DEF RepairInv
<1>11. WorkerOK(it)
  <2>1. ~done => me.page <= Entries
    <3>1. ~done => page # {}
      BY <1>3 DEF Done
    <3>2. ~done => me.page <= Len(ListedPulls)
      BY <1>2, <1>3, <1>5, <3>1, ListLengths, PageWithin
    <3> QED
      BY <1>2, <3>2, ListLengths, ShorterList
  <2> QED
    BY <1>2, <1>8, <2>1 DEF WorkerOK
<1>12. UNCHANGED <<gh, rows, state, behind, wanted, used, excused>> /\ ClocksOK'
  BY ClockStep DEF BuildRepairPullPlan, aside, RepairInv
<1>13. ASSUME RowsGrow PROVE PassOK(it, changed)'
  <2>1. Walked(me.lane, changed, me.page)'
    BY <1>2, <1>13, WalkedGrows DEF PassOK
  <2>2. Planned(it, changed)
    BY <1>1, <1>3, <1>8, <1>10, ReadPulls DEF Planned
  <2>3. Planned(it, changed)'
    BY <1>12, <2>2 DEF Planned, Window, PullIn
  <2> QED
    BY <1>8, <2>1, <2>3 DEF PassOK
<1>14. excused' = [excused EXCEPT ![w] = changed] /\ state \in StateRecords
  BY <1>1, <1>12, Same, SameExcused DEF RepairInv
<1> QED
  BY <1>2, <1>8, <1>9, <1>11, <1>12, <1>13, <1>14, QuietStep

(* The page of issues has been read, and all of it written.                *)
LEMMA WrittenPage ==
  ASSUME RepairInv, NEW w \in Workers, ApplyRepairPlan(w),
         NEW me, me = worker[w], NEW changed, changed = excused[w]
  PROVE  /\ RowsOK' /\ RowsGrow
         /\ Walked(me.lane, changed, me.page + 1)'
         /\ me.done /\ Done(w, IssuePage(w)) => Finished(me, changed)'
<1>1. /\ me \in Passes /\ PassOK(me, changed) /\ me.page \in Nat \ {0} /\ me.pc = "issues"
  BY AtWork DEF ApplyRepairPlan
<1>2. PICK page, issues : page = IssuePage(w) /\ issues = PlannedIssues(w)
  OBVIOUS
<1>3. RowsOK /\ gh' = gh /\ rows' = Fetched(me.pulls, issues) /\ used'.events = used.events
  BY <1>2 DEF ApplyRepairPlan, RepairInv
<1>4. /\ RowsOK' /\ RowsGrow
      /\ \A p \in Pulls : /\ p \in me.pulls => rows'[p].pull = gh.version[p]
                          /\ p \in issues => rows'[p].issue = gh.version[p]
  BY <1>3, FetchedRows
<1>5. ListOK(gh.issues, Pulls \cup Plain, Entries) /\ OldLast(gh.issues, Entries)
      /\ gh.issues \in [1 .. Entries -> Pulls \cup Plain] /\ Entries \in Nat
  BY ListLengths DEF RepairInv, ListsOK, ListOK, Entries
<1>6. First(gh.issues, Before(me.page + 1)) = First(gh.issues, Before(me.page)) \cup page
  <2>1. PICK S, list, n, at : S = Pulls \cup Plain /\ list = gh.issues /\ n = Entries /\ at = me.page
    OBVIOUS
  <2>2. n \in Nat /\ list \in [1 .. n -> S] /\ at \in Nat \ {0}
    BY <1>1, <1>5, <2>1
  <2>3. First(list, Before(at + 1)) = First(list, Before(at)) \cup Page(list, at)
    BY <2>2, PageAdds
  <2> QED
    BY <1>1, <1>2, <2>1, <2>3 DEF IssuePage
<1>7. PICK before, behindIt : before = Before(me.page) /\ behindIt = Before(me.page + 1)
  OBVIOUS
<1>8. ASSUME NEW p \in Window(me.lane) \ changed
      PROVE  /\ p \in First(gh.pulls, behindIt) \/ me.done => PullIn(p)'
             /\ p \in First(gh.issues, behindIt) => IssueIn(p)'
  <2>1. p \in Pulls
    BY DEF Window
  <2>2. ASSUME p \in First(gh.pulls, behindIt) \/ me.done PROVE PullIn(p)'
    <3>1. PullIn(p) \/ p \in me.pulls
      BY <1>1, <1>7, <2>2 DEF PassOK, Planned
    <3> QED
      BY <1>3, <1>4, <2>1, <3>1 DEF RowsGrow, PullIn
  <2>3. ASSUME p \in First(gh.issues, behindIt) PROVE IssueIn(p)'
    <3>1. CASE p \in First(gh.issues, before)
      BY <1>1, <1>3, <1>4, <1>7, <2>1, <3>1 DEF PassOK, Walked, RowsGrow, IssueIn
    <3>2. CASE p \in page
      <4>1. p \notin BeforeCutoff(w, page)
        BY DEF BeforeCutoff, Window
      <4>2. IssueIn(p) \/ rows[p].issue < gh.version[p]
        <5>1. rows[p].issue \in Nat /\ gh.version[p] \in Nat /\ rows[p].issue <= gh.version[p]
          BY <2>1 DEF RepairInv, RowsOK
        <5> QED
          BY <5>1 DEF IssueIn
      <4>3. IssueIn(p) \/ p \in issues
        BY <1>2, <2>1, <3>2, <4>1, <4>2 DEF PlannedIssues, StaleIssues
      <4> QED
        BY <1>3, <1>4, <2>1, <4>3 DEF RowsGrow, IssueIn
    <3> QED
      BY <1>6, <1>7, <2>3, <3>1, <3>2
  <2> QED
    BY <2>2, <2>3
<1>9. Window(me.lane)' = Window(me.lane)
  BY <1>3 DEF Window
<1>10. Walked(me.lane, changed, me.page + 1)'
  BY <1>3, <1>7, <1>8, <1>9 DEF Walked
<1>11. ASSUME me.done, Done(w, IssuePage(w)), NEW p \in Window(me.lane) \ changed
       PROVE  PullIn(p)' /\ IssueIn(p)'
  <2>1. p \in First(gh.issues, behindIt)
    BY <1>1, <1>5, <1>7, <1>11, DoneIsBehind DEF IssuePage
  <2> QED
    BY <1>8, <1>11, <2>1
<1>12. me.done /\ Done(w, IssuePage(w)) => Finished(me, changed)'
  BY <1>9, <1>11 DEF Finished
<1> QED
  BY <1>4, <1>10, <1>12

LEMMA ApplyKeeps ==
  ASSUME RepairInv, NEW w \in Workers, ApplyRepairPlan(w)
  PROVE  RepairInv'
<1>1. PICK me, changed, done :
        me = worker[w] /\ changed = excused[w] /\ done = (me.done /\ Done(w, IssuePage(w)))
  OBVIOUS
<1>2. /\ me \in Passes /\ WorkerOK(me) /\ PassOK(me, changed) /\ changed \in SUBSET Pulls
      /\ me.page \in Nat \ {0} /\ me.page \in 1 .. Entries + 1 /\ Entries \in Nat
      /\ me.pc = "issues" /\ done \in BOOLEAN
  BY <1>1, AtWork DEF ApplyRepairPlan, Done, Passes
<1>3. /\ RowsOK' /\ RowsGrow
      /\ Walked(me.lane, changed, me.page + 1)'
      /\ done => Finished(me, changed)'
  BY <1>1, WrittenPage
<1>4. ~done => me.page <= Entries
  <2>1. CASE ~me.done
    BY <1>2, <2>1 DEF WorkerOK
  <2>2. CASE me.done
    <3>1. gh.issues \in [1 .. Entries -> Pulls \cup Plain]
      BY DEF RepairInv, ListsOK, ListOK, Entries
    <3>2. ~done => Page(gh.issues, me.page) # {}
      BY <1>1, <2>2 DEF Done, IssuePage
    <3> QED
      BY <1>2, <3>1, <3>2, PageWithin
  <2> QED
    BY <2>1, <2>2
<1>5. PICK empty : empty = [me EXCEPT !.pulls = {}, !.issues = {}]
  OBVIOUS
<1>6. /\ empty \in Passes /\ empty.page = me.page /\ empty.lane = me.lane /\ empty.last = me.last
      /\ empty.done = me.done
  BY <1>2, <1>5 DEF Passes
<1>7. PICK it : it = IF done \/ me.page = me.last THEN [empty EXCEPT !.pc = "complete", !.done = done]
                     ELSE [empty EXCEPT !.pc = "pulls", !.page = @ + 1, !.done = FALSE]
  OBVIOUS
<1>8. worker' = [worker EXCEPT ![w] = it]
  BY <1>1, <1>5, <1>6, <1>7 DEF ApplyRepairPlan, Goes
<1>9. /\ it \in Passes /\ it.lane = me.lane /\ it.last = me.last
      /\ \/ it.pc = "complete" /\ it.done = done /\ it.page = me.page
         \/ it.pc = "pulls" /\ ~done /\ it.page = me.page + 1
  <2>1. CASE done \/ me.page = me.last
    <3>1. it = [empty EXCEPT !.pc = "complete", !.done = done]
      BY <1>7, <2>1
    <3> QED
      BY <1>2, <1>6, <3>1 DEF Passes, Steps
  <2>2. CASE ~(done \/ me.page = me.last)
    <3>1. PICK page : page = empty.page + 1
      OBVIOUS
    <3>2. it = [empty EXCEPT !.pc = "pulls", !.page = page, !.done = FALSE]
      BY <1>6, <1>7, <2>2, <3>1
    <3>3. page \in Nat /\ page = me.page + 1
      BY <1>2, <1>6, <3>1
    <3> QED
      BY <1>2, <1>6, <2>2, <3>2, <3>3 DEF Passes, Steps
  <2> QED
    BY <2>1, <2>2
<1>10. WorkerOK(it)
  <2>1. it.lane \in Repairs /\ it.last <= Entries + RecentPages + HistoryPages
    BY <1>2, <1>9 DEF WorkerOK
  <2>2. it.page \in 1 .. Entries + 1 /\ (it.pc = "complete" /\ ~it.done => it.page <= Entries)
    BY <1>2, <1>4, <1>9
  <2> QED
    BY <1>9, <2>1, <2>2 DEF WorkerOK
<1>11. PassOK(it, changed)'
  <2>1. done => Finished(it, changed)'
    BY <1>3, <1>9 DEF Finished, Window
  <2>2. PICK page : page = me.page + 1
    OBVIOUS
  <2>3. Walked(it.lane, changed, page)'
    BY <1>3, <1>9, <2>2
  <2> QED
    BY <1>9, <2>1, <2>2, <2>3 DEF PassOK
<1>12. UNCHANGED <<gh, state, behind, wanted, used, excused>> /\ ClocksOK'
  BY ClockStep DEF ApplyRepairPlan, aside, RepairInv
<1>13. /\ excused' = [excused EXCEPT ![w] = changed] /\ state' \in StateRecords
       /\ behind' \subseteq Pulls
       /\ used' \in [events : 0 .. MaxEvents, failures : 0 .. MaxFailures]
  BY <1>1, <1>12, SameExcused DEF RepairInv, TypesOK
<1> QED
  BY <1>2, <1>3, <1>8, <1>9, <1>10, <1>11, <1>12, <1>13, StepAside
(* A repair's pass comes to its end.                                       *)
LEMMA RecentEndKeeps ==
  ASSUME RepairInv, NEW w \in Workers, CompleteRecentPRRepair(w)
  PROVE  RepairInv'
<1>1. PICK me, changed : me = worker[w] /\ changed = excused[w]
  OBVIOUS
<1>2. /\ me \in Passes /\ WorkerOK(me) /\ PassOK(me, changed) /\ changed \in SUBSET Pulls
      /\ me.page \in Nat \ {0} /\ me.page \in 1 .. Entries + 1 /\ Entries \in Nat
      /\ me.pc = "complete" /\ me.lane = "recent" /\ me.done \in BOOLEAN
  <2>1. /\ me \in Passes /\ WorkerOK(me) /\ PassOK(me, changed) /\ changed \in SUBSET Pulls
        /\ me.page \in Nat \ {0} /\ me.page \in 1 .. Entries + 1 /\ Entries \in Nat
    BY <1>1, AtWork
  <2> QED
    BY <1>1, <2>1 DEF CompleteRecentPRRepair, Passes
<1>3. /\ UNCHANGED <<gh, rows, behind, wanted, used>> /\ ClocksOK'
      /\ TypesOK /\ ListsOK /\ RowsOK /\ CursorsOK /\ state \in StateRecords
      /\ state.page \in 1 .. Entries + 1
  BY <1>1, ClockStep DEF CompleteRecentPRRepair, RepairInv, TypesOK
<1>4. RowsOK' /\ RowsGrow /\ ListsOK'
  BY <1>3, Counted, RowsStay, ListsStay
<1>5. PICK it : /\ it = Idle \/ it = [Idle EXCEPT !.pc = "walk on"]
                /\ worker' = [worker EXCEPT ![w] = it]
  BY DEF CompleteRecentPRRepair, Goes
<1>6. it \in Passes /\ WorkerOK(it) /\ PassOK(it, {})'
  <2>1. it \in Passes /\ WorkerOK(it) /\ it.pc \in {"idle", "walk on"}
    <3>1. CASE it = Idle
      BY <3>1, IdleOK
    <3>2. CASE it = [Idle EXCEPT !.pc = "walk on"]
      <4>1. it \in Passes /\ it.pc = "walk on" /\ it.lane = Idle.lane /\ it.page = Idle.page
            /\ it.last = Idle.last
        BY <3>2, IdleOK DEF Passes, Steps
      <4> QED
        BY <4>1, IdleOK DEF WorkerOK
    <3> QED
      BY <1>5, <3>1, <3>2
  <2> QED
    BY <2>1, NoPass
<1>7. PICK before : before = IF me.done THEN {} ELSE changed
  OBVIOUS
<1>8. before \in SUBSET Pulls /\ excused' = [excused EXCEPT !["recent"] = before, ![w] = {}]
  BY <1>1, <1>2, <1>7 DEF CompleteRecentPRRepair
<1>9. /\ excused'[w] = {} /\ excused'["recent"] = before /\ excused'["history"] = excused["history"]
      /\ \A v \in Workers \ {w} : excused'[v] = excused[v]
      /\ excused' \in [Workers \cup Repairs -> SUBSET Pulls]
  <2>1. excused \in [Workers \cup Repairs -> SUBSET Pulls] /\ \A v \in Workers : v \notin Repairs
    BY <1>3, SchedulerAssumption DEF TypesOK, Repairs
  <2> QED
    BY <1>8, <2>1 DEF Repairs
<1>10. PICK cursor : cursor = IF me.done THEN 1 ELSE me.page + 1
  OBVIOUS
<1>11. cursor \in 1 .. Entries + 1
  BY <1>2, <1>10 DEF WorkerOK
<1>12. /\ state' \in StateRecords /\ state'.cursor = cursor /\ state'.page = state.page
  <2>1. CASE me.done
    <3>1. state' = [state EXCEPT !.pending = FALSE, !.recentDue = FALSE, !.cursor = 1]
      BY <1>1, <2>1 DEF CompleteRecentPRRepair, AfterRecent
    <3> QED
      BY <1>2, <1>3, <1>10, <2>1, <3>1 DEF StateRecords
  <2>2. CASE ~me.done
    <3>1. state' = [state EXCEPT !.pending = TRUE, !.cursor = cursor]
      BY <1>1, <1>10, <2>2 DEF CompleteRecentPRRepair, AfterRecent
    <3>2. cursor \in Nat
      BY <1>2, <1>11
    <3> QED
      BY <1>2, <1>3, <1>10, <2>2, <3>1, <3>2 DEF StateRecords
  <2> QED
    BY <1>2, <2>1, <2>2
<1>13. CursorsOK'
  <2>1. PICK others, page : others = excused["history"] /\ page = state.page
    OBVIOUS
  <2>2. Walked("history", others, page)'
    BY <1>3, <1>4, <2>1, WalkedGrows DEF CursorsOK
  <2>3. Walked("recent", before, cursor)'
    <3>1. CASE me.done
      BY <1>4, <1>10, <3>1, FirstPageNext
    <3>2. CASE ~me.done
      BY <1>2, <1>4, <1>7, <1>10, <3>2, WalkedGrows DEF PassOK
    <3> QED
      BY <3>1, <3>2
  <2> QED
    BY <1>9, <1>12, <2>1, <2>2, <2>3, CursorsOf
<1>14. state'.cursor \in 1 .. Entries + 1 /\ state'.page \in 1 .. Entries + 1
       /\ behind' \subseteq Pulls /\ wanted' = wanted
       /\ used' \in [events : 0 .. MaxEvents, failures : 0 .. MaxFailures]
  BY <1>3, <1>11, <1>12 DEF TypesOK
<1> QED
  BY <1>3, <1>4, <1>5, <1>6, <1>9, <1>12, <1>13, <1>14, StepKeeps

LEMMA HistoryEndKeeps ==
  ASSUME RepairInv, NEW w \in Workers, CompleteFullHistoryRepair(w)
  PROVE  RepairInv'
<1>1. PICK me, changed : me = worker[w] /\ changed = excused[w]
  OBVIOUS
<1>2. /\ me \in Passes /\ WorkerOK(me) /\ PassOK(me, changed) /\ changed \in SUBSET Pulls
      /\ me.page \in Nat \ {0} /\ me.page \in 1 .. Entries + 1 /\ Entries \in Nat
      /\ me.pc = "complete" /\ me.lane = "history" /\ me.done \in BOOLEAN
  BY <1>1, AtWork DEF CompleteFullHistoryRepair, Passes
<1>3. /\ UNCHANGED <<gh, rows, behind, wanted, used>> /\ ClocksOK'
      /\ TypesOK /\ ListsOK /\ RowsOK /\ CursorsOK /\ state \in StateRecords
      /\ state.cursor \in 1 .. Entries + 1
  BY <1>1, ClockStep DEF CompleteFullHistoryRepair, RepairInv, TypesOK
<1>4. RowsOK' /\ RowsGrow /\ ListsOK'
  BY <1>3, Counted, RowsStay, ListsStay
<1>5. worker' = [worker EXCEPT ![w] = Idle] /\ PassOK(Idle, {})'
  BY IdleOK, NoPass DEF CompleteFullHistoryRepair, Goes
<1>6. PICK before, page : /\ before = IF me.done THEN {} ELSE changed
                          /\ page = IF me.done THEN 1 ELSE me.page + 1
  OBVIOUS
<1>7. before \in SUBSET Pulls /\ excused' = [excused EXCEPT !["history"] = before, ![w] = {}]
  BY <1>1, <1>2, <1>6 DEF CompleteFullHistoryRepair
<1>8. /\ excused'[w] = {} /\ excused'["history"] = before /\ excused'["recent"] = excused["recent"]
      /\ \A v \in Workers \ {w} : excused'[v] = excused[v]
      /\ excused' \in [Workers \cup Repairs -> SUBSET Pulls]
  <2>1. excused \in [Workers \cup Repairs -> SUBSET Pulls] /\ \A v \in Workers : v \notin Repairs
    BY <1>3, SchedulerAssumption DEF TypesOK, Repairs
  <2> QED
    BY <1>7, <2>1 DEF Repairs
<1>9. page \in 1 .. Entries + 1 /\ page \in Nat
  BY <1>2, <1>6 DEF WorkerOK
<1>10. /\ state' \in StateRecords /\ state'.page = page /\ state'.cursor = state.cursor
  <2>1. state' = [state EXCEPT !.historyDue = FALSE, !.page = page]
    BY <1>1, <1>6 DEF CompleteFullHistoryRepair
  <2> QED
    BY <1>3, <1>9, <2>1 DEF StateRecords
<1>11. CursorsOK'
  <2>1. PICK others, cursor : others = excused["recent"] /\ cursor = state.cursor
    OBVIOUS
  <2>2. Walked("recent", others, cursor)'
    BY <1>3, <1>4, <2>1, WalkedGrows DEF CursorsOK
  <2>3. Walked("history", before, page)'
    <3>1. CASE me.done
      BY <1>4, <1>6, <3>1, FirstPageNext
    <3>2. CASE ~me.done
      BY <1>2, <1>4, <1>6, <3>2, WalkedGrows DEF PassOK
    <3> QED
      BY <3>1, <3>2
  <2> QED
    BY <1>8, <1>10, <2>1, <2>2, <2>3, CursorsOf
<1>12. state'.cursor \in 1 .. Entries + 1 /\ state'.page \in 1 .. Entries + 1
       /\ behind' \subseteq Pulls /\ wanted' = wanted
       /\ used' \in [events : 0 .. MaxEvents, failures : 0 .. MaxFailures]
  BY <1>3, <1>9, <1>10 DEF TypesOK
<1> QED
  BY <1>3, <1>4, <1>5, <1>8, <1>10, <1>11, <1>12, IdleOK, StepKeeps
(* The other lanes, and a pass that fails.                                 *)
LEMMA FetchKeeps ==
  ASSUME RepairInv, NEW w \in Workers, RunFetchPass(w)
  PROVE  RepairInv'
<1>1. /\ UNCHANGED <<gh, rows, wanted, used, excused>> /\ TypesOK /\ RowsOK /\ ClocksOK'
      /\ state \in StateRecords /\ state' = [state EXCEPT !.inventory = "fresh"]
      /\ worker' = [worker EXCEPT ![w] = Idle]
  BY Same, ClockStep DEF RunFetchPass, RepairInv, aside, Goes
<1>2. RowsOK' /\ RowsGrow
  BY <1>1, Counted, RowsStay
<1>3. /\ state' \in StateRecords /\ state'.cursor = state.cursor /\ state'.page = state.page
  BY <1>1 DEF StateRecords
<1>4. behind' \subseteq Pulls
  BY <1>1 DEF RunFetchPass, TypesOK
<1>5. PICK changed : changed = excused[w]
  OBVIOUS
<1>6. changed \in SUBSET Pulls /\ excused' = [excused EXCEPT ![w] = changed] /\ PassOK(Idle, changed)'
  BY <1>1, <1>5, SameExcused, IdleOK, NoPass
<1>7. wanted' = wanted /\ used' \in [events : 0 .. MaxEvents, failures : 0 .. MaxFailures]
  BY <1>1, <1>3 DEF TypesOK
<1> QED
  BY <1>1, <1>2, <1>3, <1>4, <1>6, <1>7, IdleOK, StepAside

LEMMA BackfillKeeps ==
  ASSUME RepairInv, NEW w \in Workers, RunBackfillPass(w)
  PROVE  RepairInv'
<1>1. /\ UNCHANGED <<gh, state, wanted, used, excused>> /\ TypesOK /\ RowsOK /\ ClocksOK'
      /\ state \in StateRecords /\ rows' = Indexed(behind \ Bad)
      /\ worker' = [worker EXCEPT ![w] = Idle]
  BY Same, ClockStep DEF RunBackfillPass, RepairInv, aside, Goes
<1>2. RowsOK' /\ RowsGrow
  BY <1>1, IndexedRows
<1>3. behind' \subseteq Pulls
  BY <1>1 DEF RunBackfillPass, TypesOK
<1>4. PICK changed : changed = excused[w]
  OBVIOUS
<1>5. changed \in SUBSET Pulls /\ excused' = [excused EXCEPT ![w] = changed] /\ PassOK(Idle, changed)'
  BY <1>1, <1>4, SameExcused, IdleOK, NoPass
<1>6. state' \in StateRecords /\ state'.cursor = state.cursor /\ state'.page = state.page
      /\ wanted' = wanted
      /\ used' \in [events : 0 .. MaxEvents, failures : 0 .. MaxFailures]
  BY <1>1 DEF TypesOK
<1> QED
  BY <1>1, <1>2, <1>3, <1>5, <1>6, IdleOK, StepAside

LEMMA FailureKeeps ==
  ASSUME RepairInv, NEW w \in Workers, PassFails(w)
  PROVE  RepairInv'
<1>1. /\ UNCHANGED <<gh, behind, wanted>> /\ TypesOK /\ RowsOK /\ ClocksOK'
      /\ state \in StateRecords /\ worker' = [worker EXCEPT ![w] = Idle]
      /\ excused' = [excused EXCEPT ![w] = {}]
      /\ used' = used \/ Fails
  BY Same, ClockStep DEF PassFails, RepairInv, Goes
<1>2. /\ used' \in [events : 0 .. MaxEvents, failures : 0 .. MaxFailures]
      /\ used.events \in Nat /\ used'.events = used.events
  BY <1>1, Counted DEF TypesOK
<1>3. RowsOK' /\ RowsGrow
  <2>1. CASE rows' = rows
    BY <1>1, <1>2, <2>1, RowsStay
  <2>2. ASSUME NEW pulls, NEW issues, rows' = Fetched(pulls, issues) PROVE RowsOK' /\ RowsGrow
    BY <1>1, <1>2, <2>2, FetchedRows
  <2> QED
    BY <2>1, <2>2 DEF PassFails
<1>4. PICK lane : lane = worker[w].lane
  OBVIOUS
<1>5. state' = IF lane = "recent" THEN [state EXCEPT !.pending = FALSE] ELSE state
  BY <1>4 DEF PassFails
<1>6. state' \in StateRecords /\ state'.cursor = state.cursor /\ state'.page = state.page
  BY <1>1, <1>5 DEF StateRecords
<1>7. behind' \subseteq Pulls /\ wanted' = wanted
  BY <1>1 DEF TypesOK
<1>8. PassOK(Idle, {})'
  BY IdleOK, NoPass
<1> QED
  BY <1>1, <1>2, <1>3, <1>6, <1>7, <1>8, IdleOK, StepAside

LEMMA StutterKeeps ==
  ASSUME RepairInv, UNCHANGED vars
  PROVE  RepairInv'
<1>1. /\ UNCHANGED <<gh, rows, state, worker, excused, behind, wanted, used, clock>>
      /\ state \in StateRecords /\ ClocksOK
  BY DEF vars, RepairInv, TypesOK
<1>2. ClocksOK'
  BY <1>1 DEF ClocksOK
<1> QED
  BY <1>1, <1>2, TableStep

LEMMA NextKeeps == RepairInv /\ [Next]_vars => RepairInv'
<1> SUFFICES ASSUME RepairInv, [Next]_vars PROVE RepairInv'
  OBVIOUS
<1>1. ASSUME NEW p \in Pulls, Change(p) PROVE RepairInv'
  BY <1>1, ChangeKeeps
<1>2. CASE TimePasses \/ AskForRecentPRRepair \/ RequestRecentPRRepair \/ \E m \in Modes : ConfigureRepoBackfill(m)
  BY <1>2, OutsideKeeps
<1>3. ASSUME NEW w \in Workers, NEW p \in Pulls, ProcessTargetedRefresh(w, p) PROVE RepairInv'
  BY <1>3, RefreshKeeps
<1>4. ASSUME NEW w \in Workers, Work(w) PROVE RepairInv'
  BY <1>4, PickKeeps, MissedKeeps, StartRecentKeeps, StartHistoryKeeps, PullPlanKeeps, ApplyKeeps,
     RecentEndKeeps, WalkOnKeeps, HistoryEndKeeps, FetchKeeps, BackfillKeeps DEF Work
<1>5. ASSUME NEW w \in Workers, PassFails(w) \/ Crash(w) PROVE RepairInv'
  BY <1>5, FailureKeeps, CrashKeeps
<1>6. CASE UNCHANGED vars
  BY <1>6, StutterKeeps
<1> QED
  BY <1>1, <1>2, <1>3, <1>4, <1>5, <1>6 DEF Next
-----------------------------------------------------------------------------
(* Whatever changes on GitHub, is asked for, fails and crashes, and however *)
(* the workers interleave: what stands before a repair's page is in.       *)
THEOREM RepairInvariant == Spec => []RepairInv
<1>1. Init => RepairInv
  BY InitInv
<1>2. RepairInv /\ [Next]_vars => RepairInv'
  BY NextKeeps
<1> QED
  BY <1>1, <1>2, PTL DEF Spec

LEMMA InvTypes == RepairInv => TypeOK
<1> SUFFICES ASSUME RepairInv PROVE TypeOK
  OBVIOUS
<1>0. TypesOK /\ ListsOK /\ RowsOK
  BY DEF RepairInv
<1>1. Entries \in Nat /\ LastPage \in Nat /\ Entries + 1 <= LastPage /\ Entries + RecentPages + HistoryPages = LastPage
  BY ListLengths, PagesAssumption DEF Entries, LastPage
<1>2. gh.pulls \in [DOMAIN ListedPulls -> Pulls] /\ IsInjective(gh.pulls)
  <2>1. DOMAIN ListedPulls = 1 .. Len(ListedPulls)
    BY SchedulerAssumption
  <2>2. PICK list : list = gh.pulls
    OBVIOUS
  <2>3. list \in [1 .. Len(ListedPulls) -> Pulls]
        /\ \A i, j \in 1 .. Len(ListedPulls) : list[i] = list[j] => i = j
    BY <1>0, <2>2 DEF ListsOK, ListOK
  <2>4. IsInjective(list)
    BY <2>3 DEF IsInjective
  <2> QED
    BY <2>1, <2>2, <2>3, <2>4
<1>3. gh.issues \in [DOMAIN ListedIssues -> Pulls \cup Plain] /\ IsInjective(gh.issues)
  <2>1. DOMAIN ListedIssues = 1 .. Len(ListedIssues)
    BY SchedulerAssumption
  <2>2. PICK list : list = gh.issues
    OBVIOUS
  <2>3. list \in [1 .. Len(ListedIssues) -> Pulls \cup Plain]
        /\ \A i, j \in 1 .. Len(ListedIssues) : list[i] = list[j] => i = j
    BY <1>0, <2>2 DEF ListsOK, ListOK
  <2>4. IsInjective(list)
    BY <2>3 DEF IsInjective
  <2> QED
    BY <2>1, <2>2, <2>3, <2>4
<1>4. gh.version \in [Pulls -> 1 .. MaxEvents + 1] /\ gh.head \in [Pulls -> 1 .. MaxEvents + 1]
      /\ gh.open \subseteq Pulls /\ gh.old \subseteq Pulls \cup Plain
      /\ rows \in [Pulls -> [pull : 0 .. MaxEvents + 1, issue : 0 .. MaxEvents + 1, index : 0 .. MaxEvents + 1]]
  <2>1. used.events \in 0 .. MaxEvents
    BY <1>0 DEF TypesOK
  <2>2. \A p \in Pulls : /\ gh.version[p] \in 1 .. MaxEvents + 1 /\ gh.head[p] \in 1 .. MaxEvents + 1
                         /\ rows[p] \in [pull : 0 .. MaxEvents + 1, issue : 0 .. MaxEvents + 1, index : 0 .. MaxEvents + 1]
    BY <1>0, <2>1, PagesAssumption DEF RowsOK
  <2> QED
    BY <1>0, <2>2 DEF RowsOK, TypesOK
<1>5. state \in [mode : Modes, pending : BOOLEAN, cursor : 1 .. LastPage, recentDue : BOOLEAN,
                 historyDue : BOOLEAN, page : 1 .. LastPage, inventory : {"none", "fresh", "aged"}]
  BY <1>0, <1>1 DEF TypesOK, StateRecords
<1>6. worker \in [Workers -> [pc : {"idle", "acquire", "pulls", "issues", "complete", "walk on", "pass"},
                              lane : ToSet(repoWorkPickers) \cup {"none"}, pending : BOOLEAN, page : 1 .. LastPage,
                              last : 0 .. 2 * LastPage, done : BOOLEAN, pulls : SUBSET Pulls, issues : SUBSET Pulls]]
  <2>1. ToSet(repoWorkPickers) \cup {"none"} = Lanes
    BY LanesPicked DEF Lanes
  <2>2. \A w \in Workers : worker[w] \in Passes /\ worker[w].page \in 1 .. LastPage /\ worker[w].last \in 0 .. 2 * LastPage
    <3> SUFFICES ASSUME NEW w \in Workers
                 PROVE  /\ worker[w] \in Passes /\ worker[w].page \in 1 .. LastPage
                        /\ worker[w].last \in 0 .. 2 * LastPage
      OBVIOUS
    <3>1. PICK me : me = worker[w]
      OBVIOUS
    <3>2. me \in Passes /\ me.page \in 1 .. Entries + 1 /\ me.last \in Nat
          /\ me.last <= Entries + RecentPages + HistoryPages
      BY <1>0, <3>1 DEF TypesOK, WorkerOK, Passes
    <3> QED
      BY <1>1, <3>1, <3>2
  <2> QED
    BY <1>0, <2>1, <2>2 DEF TypesOK, Passes, Steps
<1>7. behind \subseteq Pulls /\ wanted \subseteq Pulls
      /\ excused \in [Workers \cup Repairs -> SUBSET Pulls]
      /\ clock \in [Workers \cup {"operator"} -> {"none", "fresh", "late"}]
  BY <1>0 DEF TypesOK, RepairInv, ClocksOK
<1> QED
  BY <1>2, <1>3, <1>4, <1>5, <1>6, <1>7 DEF TypeOK

(* Rows are never newer than GitHub's objects, cursors never more than one *)
(* page beyond its lists, whose entries are never lost or doubled.         *)
THEOREM SchedulerTypeCorrect == Spec => []TypeOK
BY RepairInvariant, InvTypes, PTL

(* A repair that says it is done has brought in what it is for, but for    *)
(* what changed under it: over any number of passes, pages, workers,       *)
(* failures and repeats, and whatever moves in GitHub's lists between two  *)
(* of its pages.                                                           *)
THEOREM RepairsCover == Spec => RepairCovers
<1>1. ASSUME RepairInv, NEW w \in Workers, Ends(w), NEW p \in Covered(w)
      PROVE  Kept(p)
  <2>1. PICK me, changed : me = worker[w] /\ changed = excused[w]
    OBVIOUS
  <2>2. PassOK(me, changed) /\ WorkerOK(me) /\ me.pc = "complete" /\ me.done
    BY <1>1, <2>1, AtWork DEF Ends
  <2>3. p \in Window(me.lane) \ changed
    BY <1>1, <2>1 DEF Covered, Window
  <2> QED
    BY <2>2, <2>3 DEF PassOK, Finished, PullIn, IssueIn, Kept
<1>2. RepairInv => [\A w \in Workers : Ends(w) => \A p \in Covered(w) : Kept(p)]_vars
  BY <1>1
<1> QED
  BY <1>2, RepairInvariant, PTL DEF RepairCovers
=============================================================================
