--------------------------- MODULE TargetedRefresh ---------------------------
(***************************************************************************)
(* The queue of targeted pull request refreshes of one repository: the     *)
(* rows of repo_targeted_pull_refreshes and the flag                       *)
(* targeted_refresh_pending of the repository's state                      *)
(* (internal/githubsync/change_sync.go, internal/webhooks).                *)
(*                                                                         *)
(* A delivery asks for a refresh twice: in the acceptor's transaction, and *)
(* when the processor handles it.  A worker picks a row in one statement,  *)
(* leases it in a second one, shows that in the repository's state in a    *)
(* third, asks GitHub, builds the index and records the outcome: it reads  *)
(* the clock, and in one transaction updates the row, counts what is still *)
(* pending and writes that to the state.  The isolation is READ COMMITTED: *)
(* nobody sees the row before the commit, the count sees what others have  *)
(* committed, and only the row is locked in between.  No heartbeat renews  *)
(* a row's lease: it runs out while the worker is at it.                   *)
(*                                                                         *)
(* Time: requested_at, last_completed_at and next_attempt_at are compared  *)
(* with each other only.  `served` is last_completed_at >= requested_at;   *)
(* a delivery that has read the clock knows whether it did so after the    *)
(* last completion (`after`); a worker that has read it for its completion *)
(* knows whose reading is later (`later`), and whether the row's is        *)
(* (`newer`); `due` is next_attempt_at <= now.  The state columns          *)
(* targeted_refresh_lease_* are shown to users and decide nothing.         *)
(***************************************************************************)
EXTENDS Integers, FiniteSets

CONSTANTS
  PRs,          \* pull request numbers
  Servers,      \* starts of the server process, each with one worker
  NoOne,        \* no owner, no pull request
  Overlap,      \* whether a server may start before the last one is gone
  MaxAttempts,  \* attempts before a row is parked (5)
  MaxChanges,   \* bound: changes of a pull request
  Deliveries    \* bound: webhook deliveries in flight, by slot

ASSUME NamesAssumption == NoOne \notin PRs \cup Servers /\ Overlap \in BOOLEAN
ASSUME AttemptsAssumption == MaxAttempts \in Nat \ {0} /\ MaxChanges \in Nat

VARIABLES
  github,    \* the revision of each pull request at GitHub
  indexed,   \* the revision its latest refresh put into the index
  row,       \* repo_targeted_pull_refreshes
  flag,      \* targeted_refresh_pending
  requests,  \* deliveries in flight
  repairs,   \* whether a repair of the repository is due, which goes first
  worker,    \* the worker of each server
  crossed    \* a row began to wait while a completion that had counted none was
             \* not committed, and the flag has not been set since (history)

vars == <<github, indexed, row, flag, requests, repairs, worker, crossed>>

NoRequest == [stage |-> "none", pr |-> NoOne, after |-> FALSE]
Stages == {"none", "sent", "accepting", "queued", "processing"}
Phases == {"new", "idle", "picked", "leased", "asking", "indexing", "ending", "counted", "down"}
IdleWorker == [pc |-> "idle", pr |-> NoOne, attempts |-> 0, rev |-> 0, ok |-> FALSE,
               later |-> {}, newer |-> FALSE, pending |-> FALSE]
NoRow == [asked |-> FALSE, served |-> FALSE, attempts |-> 0, due |-> TRUE, parked |-> FALSE,
          owner |-> NoOne, quiet |-> FALSE]

-----------------------------------------------------------------------------
Init ==
  /\ github = [p \in PRs |-> 0]
  /\ indexed = [p \in PRs |-> 0]
  /\ row = [p \in PRs |-> NoRow]
  /\ flag = FALSE
  /\ requests = [d \in Deliveries |-> NoRequest]
  /\ repairs \in BOOLEAN
  /\ worker = [w \in Servers |-> [IdleWorker EXCEPT !.pc = "new"]]
  /\ crossed = FALSE

\* A row targetedRefreshPendingExists counts
Waits(r) == r.asked /\ ~r.served /\ ~r.parked
Pending(p) == Waits(row[p])

\* Mutant of Available: a lease has to be released.
AvailableWhenReleased(p) == row[p].owner = NoOne

Available(p) == row[p].owner = NoOne \/ row[p].quiet

\* The rows acquireNextTargetedRefresh may pick, and the ones it prefers
Eligible == {p \in PRs :
  /\ Pending(p)
  /\ row[p].attempts = 0 \/ row[p].due
  /\ Available(p)
  /\ ~repairs}
NeverAttempted == {p \in Eligible : row[p].attempts = 0}
Preferred == IF NeverAttempted # {} THEN NeverAttempted ELSE Eligible

-----------------------------------------------------------------------------
(* GitHub, time, and the repairs *)

Change(p) ==
  /\ github[p] < MaxChanges
  /\ github' = [github EXCEPT ![p] = @ + 1]
  /\ \E d \in Deliveries :
       /\ requests[d] = NoRequest
       /\ requests' = [requests EXCEPT ![d] = [stage |-> "sent", pr |-> p, after |-> FALSE]]
  /\ UNCHANGED <<indexed, row, flag, repairs, worker, crossed>>

\* staleAfter has passed since the lease was taken.
LeaseRunsOut(p) ==
  /\ row[p].owner # NoOne /\ ~row[p].quiet
  /\ row' = [row EXCEPT ![p].quiet = TRUE]
  /\ UNCHANGED <<github, indexed, flag, requests, repairs, worker, crossed>>

BackoffElapses(p) ==
  /\ ~row[p].due
  /\ row' = [row EXCEPT ![p].due = TRUE]
  /\ UNCHANGED <<github, indexed, flag, requests, repairs, worker, crossed>>

RepairFallsDue ==
  /\ ~repairs
  /\ repairs' = TRUE
  /\ UNCHANGED <<github, indexed, row, flag, requests, worker, crossed>>

RepairEnds ==
  /\ repairs
  /\ repairs' = FALSE
  /\ UNCHANGED <<github, indexed, row, flag, requests, worker, crossed>>

-----------------------------------------------------------------------------
(* Requests *)

\* A completion has read the clock, and committed nothing.
Ending(w) == worker[w].pc \in {"ending", "counted"}

\* It has counted no pending row.
CountedNone(w) == worker[w].pc = "counted" /\ ~worker[w].pending

\* It has updated the row, and holds its lock.
Locked(p) == \E w \in Servers : worker[w].pc = "counted" /\ worker[w].pr = p /\ row[p].owner = w

\* The acceptor, then the processor, reads the clock for its follow-up ...
ReadClock(d) ==
  /\ \/ requests[d].stage = "sent" /\ requests' = [requests EXCEPT
          ![d].stage = "accepting", ![d].after = TRUE]
     \/ requests[d].stage = "queued" /\ requests' = [requests EXCEPT
          ![d].stage = "processing", ![d].after = TRUE]
  /\ worker' = [w \in Servers |->
       IF Ending(w) /\ worker[w].pr = requests[d].pr
       THEN [worker[w] EXCEPT !.later = @ \cup {d}] ELSE worker[w]]
  /\ UNCHANGED <<github, indexed, row, flag, repairs, crossed>>

\* ... and enqueues the refresh in a transaction: the row starts over, its lease stays.
EnqueuePullRequestRefresh(d) ==
  /\ requests[d].stage \in {"accepting", "processing"}
  /\ ~Locked(requests[d].pr)
  /\ row' = [row EXCEPT ![requests[d].pr] =
       [@ EXCEPT !.asked = TRUE, !.served = ~requests[d].after,
                 !.attempts = 0, !.due = TRUE, !.parked = FALSE]]
  /\ flag' = TRUE
  /\ crossed' = \E w \in Servers : CountedNone(w)
  /\ requests' = [requests EXCEPT ![d] =
       IF @.stage = "accepting" THEN [@ EXCEPT !.stage = "queued", !.after = FALSE]
       ELSE NoRequest]
  /\ worker' = [w \in Servers |->
       IF Ending(w) /\ worker[w].pr = requests[d].pr
       THEN [worker[w] EXCEPT !.newer = d \in worker[w].later,
                               !.later = @ \ {d}] ELSE worker[w]]
  /\ UNCHANGED <<github, indexed, repairs>>

\* The transaction fails, also as the victim of a deadlock with a completion, which
\* locks the row before the state: the delivery has to be sent again, or the
\* processor's job is tried again.
EnqueueFails(d) ==
  /\ \/ requests[d].stage = "accepting" /\ requests' = [requests EXCEPT
          ![d].stage = "sent", ![d].after = FALSE]
     \/ requests[d].stage = "processing" /\ requests' = [requests EXCEPT
          ![d].stage = "queued", ![d].after = FALSE]
  /\ worker' = [w \in Servers |-> [worker[w] EXCEPT !.later = @ \ {d}]]
  /\ UNCHANGED <<github, indexed, row, flag, repairs, crossed>>

-----------------------------------------------------------------------------
(* The worker *)

Alive(w) == worker[w].pc \notin {"new", "down"}

Start(w) ==
  /\ worker[w].pc = "new"
  /\ ~Overlap => \A v \in Servers : ~Alive(v)
  /\ worker' = [worker EXCEPT ![w] = IdleWorker]
  /\ UNCHANGED <<github, indexed, row, flag, requests, repairs, crossed>>

\* acquireNextTargetedRefresh: the SELECT, which copies the row ...
Pick(w) ==
  /\ worker[w].pc = "idle"
  /\ \E p \in Preferred : worker' = [worker EXCEPT ![w] =
       [IdleWorker EXCEPT !.pc = "picked", !.pr = p, !.attempts = row[p].attempts]]
  /\ UNCHANGED <<github, indexed, row, flag, requests, repairs, crossed>>

\* ... the UPDATE, which asks for nothing but a lease that is free ...
Acquire(w) ==
  /\ worker[w].pc = "picked"
  /\ Available(worker[w].pr) /\ ~Locked(worker[w].pr)
  /\ row' = [row EXCEPT ![worker[w].pr].owner = w, ![worker[w].pr].quiet = FALSE]
  /\ worker' = [worker EXCEPT ![w].pc = "leased"]
  /\ UNCHANGED <<github, indexed, flag, requests, repairs, crossed>>

AcquireMisses(w) ==
  /\ worker[w].pc = "picked"
  /\ ~Available(worker[w].pr)
  /\ worker' = [worker EXCEPT ![w] = IdleWorker]
  /\ UNCHANGED <<github, indexed, row, flag, requests, repairs, crossed>>

\* ... and the UPDATE of the repository's state.
ShowRefresh(w) ==
  /\ worker[w].pc = "leased"
  /\ flag' = TRUE
  /\ crossed' = (crossed /\ \E v \in Servers : CountedNone(v))
  /\ worker' = [worker EXCEPT ![w].pc = "asking"]
  /\ UNCHANGED <<github, indexed, row, requests, repairs>>

\* syncPullRequestCore
FetchPull(w) ==
  /\ worker[w].pc = "asking"
  /\ worker' = [worker EXCEPT ![w].pc = "indexing", ![w].rev = github[worker[w].pr]]
  /\ UNCHANGED <<github, indexed, row, flag, requests, repairs, crossed>>

\* SyncPullRequestIndex and reconcileTargetedRefresh: the stored pull request is
\* indexed, which a webhook may have made newer than the one fetched.  Then
\* finishTargetedRefresh reads the clock, also of a refresh that fails.
IndexPull(w) ==
  LET p == worker[w].pr
  IN  /\ worker[w].pc = "indexing"
      /\ \E r \in worker[w].rev..github[p] :
           r >= indexed[p] /\ indexed' = [indexed EXCEPT ![p] = r]
      /\ worker' = [worker EXCEPT ![w].pc = "ending", ![w].ok = TRUE]
      /\ UNCHANGED <<github, row, flag, requests, repairs, crossed>>

RefreshFails(w) ==
  /\ worker[w].pc \in {"asking", "indexing"}
  /\ worker' = [worker EXCEPT ![w].pc = "ending"]
  /\ UNCHANGED <<github, indexed, row, flag, requests, repairs, crossed>>

\* What the row becomes, of the attempts counted at the pick; nothing is written when
\* the lease is another's.
Recorded(w, limit) ==
  LET old == row[worker[w].pr]
      free == [old EXCEPT !.owner = NoOne, !.quiet = FALSE]
      failures == worker[w].attempts + 1
  IN  IF old.owner # w THEN old
      ELSE IF worker[w].ok
           THEN [free EXCEPT !.served = ~worker[w].newer, !.attempts = 0, !.due = TRUE,
                             !.parked = FALSE]
           ELSE [free EXCEPT !.attempts = failures, !.due = FALSE,
                             !.parked = failures >= limit]

\* Mutant of Outcome: rows are parked one attempt late.
ParkedLate(w) == Recorded(w, MaxAttempts + 1)

Outcome(w) == Recorded(w, MaxAttempts)

\* Mutant of CountPending: the refresh has ended, whoever has the row by now.
CountUnlessDone(w) ==
  /\ worker[w].pc = "ending"
  /\ worker' = [worker EXCEPT ![w].pc = "counted", ![w].pending =
       (~worker[w].ok /\ Waits(Outcome(w))) \/ \E q \in PRs \ {worker[w].pr} : Pending(q)]
  /\ UNCHANGED <<github, indexed, row, flag, requests, repairs, crossed>>

\* finishTargetedRefresh's transaction updates the row and counts what waits ...
CountPending(w) ==
  /\ worker[w].pc = "ending"
  /\ worker' = [worker EXCEPT ![w].pc = "counted", ![w].pending =
       Waits(Outcome(w)) \/ \E q \in PRs \ {worker[w].pr} : Pending(q)]
  /\ UNCHANGED <<github, indexed, row, flag, requests, repairs, crossed>>

\* Whoever read the clock before has an earlier time than this completion.
Earlier(w) == [d \in Deliveries |->
  IF requests[d].pr = worker[w].pr
  THEN [requests[d] EXCEPT !.after = @ /\ d \in worker[w].later] ELSE requests[d]]

\* ... and writes that to the repository's state, and commits.
Finish(w) ==
  LET p == worker[w].pr
      others == \E v \in Servers \ {w} : CountedNone(v)
  IN  /\ worker[w].pc = "counted"
      /\ row' = [row EXCEPT ![p] = Outcome(w)]
      /\ flag' = worker[w].pending
      /\ crossed' = \/ crossed /\ (others \/ ~worker[w].pending)
                    \/ others /\ Waits(Outcome(w))
      /\ requests' = IF row[p].owner = w /\ worker[w].ok THEN Earlier(w) ELSE requests
      /\ worker' = [worker EXCEPT ![w] = IdleWorker]
      /\ UNCHANGED <<github, indexed, repairs>>

\* The process dies, or a statement fails: the worker returns the error.
Crash(w) ==
  /\ Alive(w)
  /\ worker' = [worker EXCEPT ![w] = [IdleWorker EXCEPT !.pc = "down"]]
  /\ UNCHANGED <<github, indexed, row, flag, requests, repairs, crossed>>

-----------------------------------------------------------------------------
Work(w) ==
  \/ Acquire(w) \/ AcquireMisses(w) \/ ShowRefresh(w)
  \/ FetchPull(w) \/ IndexPull(w) \/ RefreshFails(w)
  \/ CountPending(w) \/ Finish(w)

Next ==
  \/ \E p \in PRs : Change(p) \/ LeaseRunsOut(p) \/ BackoffElapses(p)
  \/ RepairFallsDue \/ RepairEnds
  \/ \E d \in Deliveries : ReadClock(d) \/ EnqueuePullRequestRefresh(d) \/ EnqueueFails(d)
  \/ \E w \in Servers : Start(w) \/ Pick(w) \/ Work(w) \/ Crash(w)

Spec == Init /\ [][Next]_vars

(***************************************************************************)
(* A worker that lives goes on, GitHub answers or fails, time passes and a *)
(* repair ends.  Picking is fair to every pull request: newer requests go  *)
(* first, and there are only so many of them.                              *)
(***************************************************************************)
PickIt(w, p) == Pick(w) /\ worker'[w].pr = p

FairSpec ==
  /\ Spec
  /\ \A w \in Servers : WF_vars(Work(w)) /\ \A p \in PRs : SF_vars(PickIt(w, p))
  /\ \A p \in PRs : WF_vars(LeaseRunsOut(p)) /\ WF_vars(BackoffElapses(p))
  /\ WF_vars(RepairEnds)

-----------------------------------------------------------------------------
(* Properties *)

\* The types of the tables, of what deliveries and workers carry and of the history: no
\* row is attempted more than MaxAttempts times, however often it is asked for again.
TypeOK ==
  /\ github \in [PRs -> 0..MaxChanges]
  /\ indexed \in [PRs -> 0..MaxChanges]
  /\ row \in [PRs -> [asked : BOOLEAN, served : BOOLEAN, attempts : 0..MaxAttempts, due : BOOLEAN,
                       parked : BOOLEAN, owner : Servers \cup {NoOne}, quiet : BOOLEAN]]
  /\ flag \in BOOLEAN
  /\ requests \in [Deliveries -> [stage : Stages, pr : PRs \cup {NoOne}, after : BOOLEAN]]
  /\ repairs \in BOOLEAN
  /\ worker \in [Servers -> [pc : Phases, pr : PRs \cup {NoOne}, attempts : 0..MaxAttempts,
                             rev : 0..MaxChanges, ok : BOOLEAN, later : SUBSET Deliveries,
                             newer : BOOLEAN, pending : BOOLEAN]]
  /\ crossed \in BOOLEAN

\* The repository's state shows targeted_refresh_pending whenever a row waits for a
\* refresh, although requests, workers of two servers and their crashes set and clear
\* the flag and the rows in transactions of their own; unless that row began to wait
\* between the count of a completion and its commit, which clears the flag.
WorkIsShown == ~crossed => \A p \in PRs : Pending(p) => flag

\* WorkIsShown without its exception, as the status surface is documented: false of this
\* code.  A request that commits between the count of another row's completion and that
\* completion's commit waits without being shown.
PendingShown == \A p \in PRs : Pending(p) => flag

\* A row is parked by the failure of its last attempt, counted from the last request.
\* False of this code: a request that arrives while the last attempt of an earlier one
\* runs is parked with it, for the count is the one copied at the pick.
ParkedAfterAttempts ==
  [][\A p \in PRs : ~row[p].parked /\ row'[p].parked => row[p].attempts = MaxAttempts - 1]_vars

\* Once one server is up and stays up alone, a pending refresh is settled: it succeeds,
\* or it is parked after its last attempt, whichever workers died in the middle of it or
\* took it from each other before.
Alone(w) == Alive(w) /\ \A v \in Servers \ {w} : ~Alive(v)

Settled ==
  \A p \in PRs : (\E w \in Servers : <>[]Alone(w)) => (Pending(p) ~> ~Pending(p))

Quiet ==
  /\ \A d \in Deliveries : requests[d] = NoRequest
  /\ \A w \in Servers : worker[w].pc \in {"new", "idle", "down"}

\* When nothing is in flight, a pull request that waits for no refresh and is not
\* parked has been indexed at the revision GitHub has.  This does not hold of this code
\* (README, Known divergences): added to the invariants of MCTargetedRefresh.cfg, with
\* MaxChanges = 2, it shows how.
ChangesIndexed ==
  Quiet => \A p \in PRs : Pending(p) \/ row[p].parked \/ indexed[p] = github[p]

(***************************************************************************)
(* The inductive invariant behind TypeOK and WorkIsShown                   *)
(* (TargetedRefresh_proofs): a worker that has picked a row, and a request *)
(* on its way, name a pull request; no worker has copied the count of a    *)
(* row that had no attempt left, for such a row is parked; and while a     *)
(* completion that has counted none is under way, none waits, its own row  *)
(* after the update included, or the two have crossed.                     *)
(***************************************************************************)
Busy == {"picked", "leased", "asking", "indexing", "ending", "counted"}

WorkersOK ==
  \A w \in Servers :
    /\ worker[w].attempts < MaxAttempts
    /\ worker[w].pc \in Busy => worker[w].pr \in PRs

RequestsOK == \A d \in Deliveries : requests[d].stage # "none" => requests[d].pr \in PRs

SpentAreParked == \A p \in PRs : row[p].parked <=> row[p].attempts >= MaxAttempts

CountsOK ==
  \A w \in Servers : CountedNone(w) =>
    /\ row[worker[w].pr].owner = w => ~Waits(Outcome(w))
    /\ ~crossed => \A p \in PRs : Pending(p) => p = worker[w].pr /\ row[p].owner = w

IInv == TypeOK /\ WorkersOK /\ RequestsOK /\ SpentAreParked /\ CountsOK /\ WorkIsShown
=============================================================================
