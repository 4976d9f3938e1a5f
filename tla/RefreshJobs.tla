------------------------------ MODULE RefreshJobs ------------------------------
(***************************************************************************)
(* Bootstrap jobs of one repository (internal/refresh/service.go): the     *)
(* rows of repository_refresh_jobs, and who inserts, claims, finishes and  *)
(* recovers them.                                                          *)
(*                                                                         *)
(* `ghreplica refresh repo` inserts a job unless it sees one; the refresh  *)
(* worker of a server claims the oldest one that is due under a lease of   *)
(* five minutes, which nothing renews, crawls the repository and records   *)
(* the outcome by the job's id alone.  A worker looks for expired leases   *)
(* before each claim.                                                      *)
(*                                                                         *)
(* Only the table of jobs is here, not the rows of tracked_repositories    *)
(* that BootstrapRepository and markSucceeded write as well.               *)
(*                                                                         *)
(* Commands are numbered in the order in which they read the clock, so     *)
(* that job c, that of command c, has the c-th smallest requested_at.      *)
(* `due` is next_attempt_at <= now, `expired` is lease_expires_at <= now.  *)
(***************************************************************************)
EXTENDS Integers

CONSTANTS
  MaxJobs,      \* bound: `refresh repo` commands, each with at most one job
  Servers,      \* starts of the server process, each with one refresh worker
  NoJob,        \* no job
  Overlap,      \* whether a server may start before the last one is gone
  MaxAttempts   \* MaxAttempts of a new job (3)

Jobs == 1..MaxJobs

ASSUME NamesAssumption == NoJob \notin Jobs /\ Overlap \in BOOLEAN
ASSUME BoundsAssumption == MaxJobs \in Nat /\ MaxAttempts \in Nat \ {0}

VARIABLES
  jobs,          \* repository_refresh_jobs, by command
  command,       \* where each `refresh repo` command is
  runner         \* the refresh worker of each server

jobsVars == <<jobs, command, runner>>

Statuses == {"none", "pending", "processing", "succeeded", "failed", "superseded"}
Phases == {"new", "idle", "finding", "recovering", "looking", "claiming", "crawling",
           "succeeding", "reading attempts", "retrying", "failing", "down"}
NoRow == [status |-> "none", source |-> "manual", attempts |-> 0, due |-> FALSE, expired |-> FALSE]
IdleWorker == [pc |-> "idle", job |-> NoJob, found |-> {}]

-----------------------------------------------------------------------------
(* The job table may start with a job an earlier release inserted for a webhook. *)
WebhookJobs ==
  { [status |-> s, source |-> "webhook", attempts |-> n, due |-> TRUE, expired |-> FALSE] :
    s \in {"pending", "processing", "succeeded", "failed"}, n \in 0..MaxAttempts-1 }

JobsInit ==
  /\ \E first \in WebhookJobs \cup {NoRow} :
       jobs = [j \in Jobs |-> IF j = 1 THEN first ELSE NoRow]
  /\ command = [c \in Jobs |-> IF jobs[c] = NoRow THEN "new" ELSE "done"]
  /\ runner = [w \in Servers |-> [IdleWorker EXCEPT !.pc = "new"]]

-----------------------------------------------------------------------------
(* Time *)

LeaseRunsOut(j) ==
  /\ jobs[j].status = "processing" /\ ~jobs[j].expired
  /\ jobs' = [jobs EXCEPT ![j].expired = TRUE]
  /\ UNCHANGED <<command, runner>>

BackoffElapses(j) ==
  /\ jobs[j].status = "pending" /\ ~jobs[j].due
  /\ jobs' = [jobs EXCEPT ![j].due = TRUE]
  /\ UNCHANGED <<command, runner>>

-----------------------------------------------------------------------------
(* `ghreplica refresh repo`: EnqueueRepositoryRefresh *)

\* The job refreshJobExists finds; one whose lease has run out does not count.
RefreshJobExists ==
  \E j \in Jobs : \/ jobs[j].status = "pending"
                  \/ jobs[j].status = "processing" /\ ~jobs[j].expired

BeginEnqueue(c) ==
  /\ command[c] = "new"
  /\ \A d \in Jobs : d < c => command[d] # "new"
  /\ command' = [command EXCEPT ![c] = "checking"]
  /\ UNCHANGED <<jobs, runner>>

CheckExisting(c) ==
  /\ command[c] = "checking"
  /\ command' = [command EXCEPT ![c] = IF RefreshJobExists THEN "done" ELSE "inserting"]
  /\ UNCHANGED <<jobs, runner>>

\* buildRepositoryRefreshJob; there is no unique index.
InsertJob(c) ==
  /\ command[c] = "inserting"
  /\ jobs' = [jobs EXCEPT ![c] = [NoRow EXCEPT !.status = "pending", !.due = TRUE]]
  /\ command' = [command EXCEPT ![c] = "done"]
  /\ UNCHANGED runner

-----------------------------------------------------------------------------
(* The refresh worker: RunOnce, one statement at a time *)

Alive(w) == runner[w].pc \notin {"new", "down"}

Start(w) ==
  /\ runner[w].pc = "new"
  /\ ~Overlap => \A v \in Servers : ~Alive(v)
  /\ runner' = [runner EXCEPT ![w] = IdleWorker]
  /\ UNCHANGED <<jobs, command>>

Moves(w, from, to) == runner[w].pc = from /\ runner' = [runner EXCEPT ![w].pc = to]

Ended(j, status) == [jobs[j] EXCEPT !.status = status, !.due = FALSE, !.expired = FALSE]

\* Mutant of SupersedeWebhookRefreshJobs: whatever its status.
SupersedeAllWebhookJobs(w) ==
  /\ Moves(w, "idle", "finding")
  /\ jobs' = [j \in Jobs |->
       IF jobs[j].source = "webhook" THEN Ended(j, "superseded") ELSE jobs[j]]
  /\ UNCHANGED command

SupersedeWebhookRefreshJobs(w) ==
  /\ Moves(w, "idle", "finding")
  /\ jobs' = [j \in Jobs |->
       IF jobs[j].source = "webhook" /\ jobs[j].status \in {"pending", "processing", "failed"}
       THEN Ended(j, "superseded") ELSE jobs[j]]
  /\ UNCHANGED command

Expired(j) == jobs[j].status = "processing" /\ jobs[j].expired

\* recoverExpiredLeases reads the expired jobs ...
FindExpired(w) ==
  /\ runner[w].pc = "finding"
  /\ runner' = [runner EXCEPT ![w] = [@ EXCEPT !.pc = "recovering",
       !.found = {<<j, jobs[j].attempts>> : j \in {i \in Jobs : Expired(i)}}]]
  /\ UNCHANGED <<jobs, command>>

\* Mutant of Recovered: a job is left in processing when it has had enough attempts.
RecoveredIfAttemptsRemain(j, attempts) ==
  IF attempts < MaxAttempts THEN [Ended(j, "pending") EXCEPT !.due = TRUE] ELSE jobs[j]

\* What becomes of an expired job, by the attempts read with it
Recovered(j, attempts) ==
  IF attempts < MaxAttempts THEN [Ended(j, "pending") EXCEPT !.due = TRUE] ELSE Ended(j, "failed")

\* ... and updates each of them if it is still processing.
RecoverJob(w) ==
  /\ runner[w].pc = "recovering"
  /\ \E row \in runner[w].found :
       /\ runner' = [runner EXCEPT ![w].found = @ \ {row}]
       /\ jobs' = IF jobs[row[1]].status = "processing"
                  THEN [jobs EXCEPT ![row[1]] = Recovered(row[1], row[2])] ELSE jobs
  /\ UNCHANGED command

EndRecovery(w) ==
  /\ runner[w].found = {}
  /\ Moves(w, "recovering", "looking")
  /\ UNCHANGED <<jobs, command>>

Claimable(j) == jobs[j].status = "pending" /\ jobs[j].due

\* claimNextJob: the SELECT ...
SelectJob(w) ==
  /\ runner[w].pc = "looking"
  /\ \/ /\ ~\E j \in Jobs : Claimable(j)
        /\ runner' = [runner EXCEPT ![w] = IdleWorker]
     \/ \E j \in Jobs :
          /\ Claimable(j) /\ \A i \in Jobs : i < j => ~Claimable(i)
          /\ runner' = [runner EXCEPT ![w].pc = "claiming", ![w].job = j]
  /\ UNCHANGED <<jobs, command>>

\* ... and the UPDATE, if the job is still pending.
ClaimJob(w) ==
  LET j == runner[w].job
  IN  /\ runner[w].pc = "claiming"
      /\ IF jobs[j].status = "pending"
         THEN /\ jobs' = [jobs EXCEPT ![j] = [jobs[j] EXCEPT !.status = "processing",
                            !.attempts = jobs[j].attempts + 1, !.expired = FALSE]]
              /\ runner' = [runner EXCEPT ![w].pc = "crawling"]
         ELSE runner' = [runner EXCEPT ![w] = IdleWorker] /\ UNCHANGED jobs
      /\ UNCHANGED command

BootstrapSucceeds(w) ==
  /\ Moves(w, "crawling", "succeeding")
  /\ UNCHANGED <<jobs, command>>

\* GitHub or the database fails, for now (Temporary) or for good; so does a job whose
\* repository cannot be found.
BootstrapFails(w) ==
  /\ runner[w].pc = "crawling"
  /\ \E next \in {"reading attempts", "failing"} : runner' = [runner EXCEPT ![w].pc = next]
  /\ UNCHANGED <<jobs, command>>

MarkSucceeded(w) ==
  /\ runner[w].pc = "succeeding"
  /\ jobs' = [jobs EXCEPT ![runner[w].job] = Ended(runner[w].job, "succeeded")]
  /\ runner' = [runner EXCEPT ![w] = IdleWorker]
  /\ UNCHANGED command

\* Mutant of ReadAttempts: one attempt too many.
ReadAttemptsOffByOne(w) ==
  /\ runner[w].pc = "reading attempts"
  /\ runner' = [runner EXCEPT ![w].pc =
       IF jobs[runner[w].job].attempts <= MaxAttempts THEN "retrying" ELSE "failing"]
  /\ UNCHANGED <<jobs, command>>

\* markFailed of a temporary error reads the job's attempts ...
ReadAttempts(w) ==
  /\ runner[w].pc = "reading attempts"
  /\ runner' = [runner EXCEPT ![w].pc =
       IF jobs[runner[w].job].attempts < MaxAttempts THEN "retrying" ELSE "failing"]
  /\ UNCHANGED <<jobs, command>>

\* ... and puts the job back;
MarkRetry(w) ==
  /\ runner[w].pc = "retrying"
  /\ jobs' = [jobs EXCEPT ![runner[w].job] = Ended(runner[w].job, "pending")]
  /\ runner' = [runner EXCEPT ![w] = IdleWorker]
  /\ UNCHANGED command

\* of any other error, or the last attempt, ends it.
MarkFailed(w) ==
  /\ runner[w].pc = "failing"
  /\ jobs' = [jobs EXCEPT ![runner[w].job] = Ended(runner[w].job, "failed")]
  /\ runner' = [runner EXCEPT ![w] = IdleWorker]
  /\ UNCHANGED command

\* The process dies, or a statement fails and RunOnce returns the error.
ServerDies(w) ==
  /\ Alive(w)
  /\ runner' = [runner EXCEPT ![w] = [IdleWorker EXCEPT !.pc = "down"]]
  /\ UNCHANGED <<jobs, command>>
-----------------------------------------------------------------------------
RunOnce(w) ==
  \/ SupersedeWebhookRefreshJobs(w) \/ FindExpired(w) \/ RecoverJob(w) \/ EndRecovery(w)
  \/ SelectJob(w) \/ ClaimJob(w) \/ BootstrapSucceeds(w) \/ BootstrapFails(w)
  \/ MarkSucceeded(w) \/ ReadAttempts(w) \/ MarkRetry(w) \/ MarkFailed(w)

JobsNext ==
  \/ \E j \in Jobs : LeaseRunsOut(j) \/ BackoffElapses(j)
  \/ \E c \in Jobs : BeginEnqueue(c) \/ CheckExisting(c) \/ InsertJob(c)
  \/ \E w \in Servers : Start(w) \/ RunOnce(w) \/ ServerDies(w)

JobsSpec == JobsInit /\ [][JobsNext]_jobsVars

(***************************************************************************)
(* A worker that lives polls, and what it calls answers or fails; time     *)
(* passes. A crawl ends: it lists a finite repository.                     *)
(***************************************************************************)
FairJobsSpec ==
  /\ JobsSpec
  /\ \A w \in Servers : WF_jobsVars(RunOnce(w))
  /\ \A j \in Jobs : WF_jobsVars(LeaseRunsOut(j)) /\ WF_jobsVars(BackoffElapses(j))

-----------------------------------------------------------------------------
(* Properties *)

JobsTypeOK ==
  /\ jobs \in [Jobs -> [status : Statuses, source : {"manual", "webhook"},
                       attempts : 0..MaxAttempts, due : BOOLEAN, expired : BOOLEAN]]
  /\ command \in [Jobs -> {"new", "checking", "inserting", "done"}]
  /\ runner \in [Servers -> [pc : Phases, job : Jobs \cup {NoJob},
                             found : SUBSET (Jobs \X (0..MaxAttempts))]]

\* A job that waits for a worker always has an attempt left: crashes, expired leases
\* and temporary errors put it back by statements that each look at a count read
\* earlier, and none of them puts it back once too often.
AttemptsRemain == \A j \in Jobs : jobs[j].status = "pending" => jobs[j].attempts < MaxAttempts

\* The outcome of a job stands: no worker that completes, retries, recovers or
\* supersedes jobs by what it has read of them earlier turns it into anything else. Only
\* failed jobs of webhooks are superseded.
Final(row) ==
  \/ row.status \in {"succeeded", "superseded"}
  \/ row.status = "failed" /\ row.source = "manual"

OutcomeStands == [][\A j \in Jobs : Final(jobs[j]) => jobs'[j] = jobs[j]]_jobsVars

\* No job stays pending or in processing while a server is up: abandoned rows are
\* reclaimed, and attempts run out.
Active(j) == jobs[j].status \in {"pending", "processing"}

JobsEnd ==
  (\E w \in Servers : <>[]Alive(w)) => \A j \in Jobs : Active(j) ~> ~Active(j)

-----------------------------------------------------------------------------
(***************************************************************************)
(* The inductive invariant, while servers do not overlap: one worker is    *)
(* alive; what it carries of a job is still so in the table; the job of a  *)
(* command that has not inserted it is not there.                          *)
(***************************************************************************)
OneWorker == \A v, w \in Servers : Alive(v) /\ Alive(w) => v = w

Busy(w) ==
  runner[w].pc \in {"crawling", "succeeding", "reading attempts", "retrying", "failing"}

RunnerOK(w) ==
  /\ runner[w].pc = "claiming" => runner[w].job \in Jobs
  /\ Busy(w) => runner[w].job \in Jobs /\ jobs[runner[w].job].status = "processing"
  /\ runner[w].pc = "retrying" => jobs[runner[w].job].attempts < MaxAttempts
  /\ \A row \in runner[w].found :
       /\ runner[w].pc = "recovering"
       /\ jobs[row[1]].status = "processing"
       /\ jobs[row[1]].attempts = row[2]

RunnersOK == \A w \in Servers : RunnerOK(w)

CommandsOK == \A c \in Jobs : command[c] # "done" => jobs[c].status = "none"

JobsInv == JobsTypeOK /\ AttemptsRemain /\ OneWorker /\ RunnersOK /\ CommandsOK
=============================================================================
