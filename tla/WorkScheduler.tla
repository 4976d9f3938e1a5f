---------------------------- MODULE WorkScheduler ----------------------------
(***************************************************************************)
(* The change sync workers over one repository: how they choose between    *)
(* targeted refreshes and the five lanes of repository work, and the       *)
(* repair of recent and of all pull requests, page by page, while GitHub's *)
(* lists move under it.                                                    *)
(*                                                                         *)
(* A worker holds the lane's lease while it works, and a worker whose pass *)
(* fails takes its process down, which is started again.  The inventory    *)
(* scan, the backfill and the targeted refresh are single steps here;      *)
(* InventorySync and TargetedRefresh have their inside.                    *)
(***************************************************************************)
EXTENDS Naturals, FiniteSets, Sequences, SequencesExt

CONSTANTS
    Pulls,       \* pull requests, each with its issue
    Plain,       \* issues that are no pull requests
    ListedPulls, \* GitHub's pull requests at first, the last updated first
    ListedIssues, \* its issues, pull requests included, likewise
    Old,         \* of them, those out of the recent window
    Closed,      \* pull requests closed at first
    Stored,      \* pull requests the mirror knows at first
    Bad,         \* pull requests that GitHub lists and fails to return
    Workers,     \* server processes
    Modes,       \* backfill modes the repository may start with
    PerPage,
    RecentPages, \* pages of a pass
    HistoryPages,
    MaxEvents,   \* bound: changes, requests and repairs falling due, together
    MaxFailures  \* bound: failed passes and crashes

ASSUME SchedulerAssumption ==
    /\ Pulls \cap Plain = {} /\ Bad \cup Stored \cup Closed \subseteq Pulls /\ Old \subseteq Pulls \cup Plain
    /\ ListedPulls \in Seq(Pulls) /\ IsInjective(ListedPulls) /\ Pulls \subseteq ToSet(ListedPulls)
    /\ ListedIssues \in Seq(Pulls \cup Plain) /\ IsInjective(ListedIssues)
    /\ Pulls \cup Plain \subseteq ToSet(ListedIssues)
    /\ \A i, j \in DOMAIN ListedIssues : i < j =>
          /\ ListedIssues[i] \in Old => ListedIssues[j] \in Old
          /\ \A k, l \in DOMAIN ListedPulls :
                ListedPulls[k] = ListedIssues[i] /\ ListedPulls[l] = ListedIssues[j] => k < l
    /\ Workers \cap {"recent", "history", "operator"} = {}
    /\ Modes \subseteq {"off", "open_only", "open_and_recent", "full_history"}
    /\ {PerPage, RecentPages, HistoryPages} \subseteq Nat \ {0}
    /\ {MaxEvents, MaxFailures} \subseteq Nat

VARIABLES
    gh,      \* GitHub: its lists, the pull requests' versions and heads, what is open, what is
             \* out of the recent window
    rows,    \* the mirror: version of each pull request's row and of its issue's row, indexed head
    state,   \* the repository's row of repo_change_sync_states
    behind,  \* pull requests whose index is not current, as the counters have it
    wanted,  \* pull requests with a targeted refresh pending
    worker,
    used,    \* how much of each bound is used
    clock,   \* what each has read of the clock to ask for a repair: "late" if a pass ended since
    excused  \* pull requests changed since each worker's and each lane's repair began (history)

vars == <<gh, rows, state, behind, wanted, worker, used, clock, excused>>

aside == <<clock, excused>>

Repairs == {"recent", "history"}
Idle == [pc |-> "idle", lane |-> "none", pending |-> FALSE, page |-> 1, last |-> 0,
         done |-> FALSE, pulls |-> {}, issues |-> {}]

Init ==
    /\ gh = [pulls |-> ListedPulls, issues |-> ListedIssues, version |-> [p \in Pulls |-> 1],
             head |-> [p \in Pulls |-> 1], open |-> Pulls \ Closed, old |-> Old]
    /\ rows = [p \in Pulls |-> LET v == IF p \in Stored THEN 1 ELSE 0 IN [pull |-> v, issue |-> v, index |-> 0]]
    /\ \E m \in Modes : state = [mode |-> m, pending |-> FALSE, cursor |-> 1,
                                 recentDue |-> TRUE, historyDue |-> TRUE, page |-> 1, inventory |-> "none"]
    /\ behind = {} /\ wanted = {}
    /\ worker = [w \in Workers |-> Idle]
    /\ used = [events |-> 0, failures |-> 0]
    /\ clock = [x \in Workers \cup {"operator"} |-> "none"]
    /\ excused = [x \in Workers \cup Repairs |-> {}]

Happens == used.events < MaxEvents /\ used' = [used EXCEPT !.events = @ + 1]
Fails == used.failures < MaxFailures /\ used' = [used EXCEPT !.failures = @ + 1]
Goes(w, r) == worker' = [worker EXCEPT ![w] = r]
-----------------------------------------------------------------------------
(* GitHub, time and the operators.                                         *)

(* A repair underway: at work, or between two of its passes.               *)
Underway(x) == CASE x = "recent" -> state.cursor > 1
                 [] x = "history" -> state.page > 1
                 [] OTHER -> worker[x].lane \in Repairs

(* What was updated last comes first.                                      *)
Updated(list, p) ==
    LET k == CHOOSE i \in DOMAIN list : list[i] = p
    IN  [i \in DOMAIN list |-> IF i = 1 THEN p ELSE IF i <= k THEN list[i - 1] ELSE list[i]]

(* A pull request is pushed to, edited, closed or opened again and comes   *)
(* to the front; a webhook asks for its refresh, or is lost.               *)
Change(p) ==
    LET to == [gh EXCEPT !.pulls = Updated(@, p), !.issues = Updated(@, p),
                         !.version[p] = @ + 1, !.old = @ \ {p}] IN
    /\ Happens
    /\ \/ p \in gh.open /\ gh' = [to EXCEPT !.head[p] = @ + 1]
       \/ gh' = to
       \/ gh' = [to EXCEPT !.open = IF p \in @ THEN @ \ {p} ELSE @ \cup {p}]
    /\ wanted' \in {wanted, wanted \cup {p}}
    /\ excused' = [x \in DOMAIN excused |-> IF Underway(x) THEN excused[x] \cup {p} ELSE {}]
    /\ UNCHANGED <<rows, state, behind, worker, clock>>

FallsDue(field) ==
    /\ ~state[field] /\ state' = [state EXCEPT ![field] = TRUE]
    /\ UNCHANGED <<gh, rows, behind, wanted, worker, aside>>

InventoryAges ==
    /\ state.inventory = "fresh" /\ state' = [state EXCEPT !.inventory = "aged"]
    /\ UNCHANGED <<gh, rows, behind, wanted, worker, used, aside>>

(* RequestRecentPRRepair reads the clock, and stores what it read: a       *)
(* request from before the end of the latest pass is taken for answered.   *)
AskForRecentPRRepair ==
    /\ Happens
    /\ clock["operator"] = "none" /\ clock' = [clock EXCEPT !["operator"] = "fresh"]
    /\ UNCHANGED <<gh, rows, state, behind, wanted, worker, excused>>

RequestRecentPRRepair ==
    /\ clock["operator"] # "none" /\ clock' = [clock EXCEPT !["operator"] = "none"]
    /\ state' = [state EXCEPT !.pending = clock["operator"] = "fresh", !.cursor = 1]
    /\ UNCHANGED <<gh, rows, behind, wanted, worker, used, excused>>

ConfigureRepoBackfill(mode) ==
    /\ Happens
    /\ mode # state.mode
    /\ state' = [state EXCEPT !.mode = mode]
    /\ UNCHANGED <<gh, rows, behind, wanted, worker, aside>>
-----------------------------------------------------------------------------
(* What there is to do.                                                    *)

Kind(lane) == IF lane \in {"initial", "aged"} THEN "fetch" ELSE lane
Leased(kind) == \E w \in Workers : worker[w].pc \notin {"idle", "acquire"} /\ Kind(worker[w].lane) = kind
NoneLeased(kinds) == \A k \in kinds : ~Leased(k)

RecentDue == state.pending \/ (state.mode \in {"open_and_recent", "full_history"} /\ state.recentDue)
HistoryDue == state.mode = "full_history" /\ state.historyDue
BackfillDue == state.mode # "off" /\ state.inventory # "none" /\ behind # {}

(* repoWorkPickers, the first that finds work.                             *)
Available ==
    [recent   |-> RecentDue /\ NoneLeased({"recent", "backfill", "fetch"}),
     history  |-> HistoryDue /\ NoneLeased({"history", "recent", "backfill", "fetch"}),
     initial  |-> state.mode # "off" /\ state.inventory = "none" /\ NoneLeased({"fetch", "backfill"}),
     backfill |-> BackfillDue /\ NoneLeased({"backfill", "fetch"}),
     aged     |-> state.mode # "off" /\ state.inventory = "aged" /\ NoneLeased({"fetch", "backfill"})]

repoWorkPickers == <<"recent", "history", "initial", "backfill", "aged">>

nextRepoWork ==
    {lane \in ToSet(repoWorkPickers) :
        /\ Available[lane]
        /\ \A i, j \in DOMAIN repoWorkPickers :
              repoWorkPickers[i] = lane /\ Available[repoWorkPickers[j]] => i <= j}
-----------------------------------------------------------------------------
(* A worker's round: targeted refreshes, then one lane.                    *)

Indexed(ps) ==
    [p \in Pulls |-> IF p \in ps THEN [pull |-> gh.version[p], issue |-> gh.version[p], index |-> gh.head[p]]
                      ELSE rows[p]]

(* Refreshes wait while a repair is due.                                   *)
ProcessTargetedRefresh(w, p) ==
    /\ worker[w] = Idle /\ p \in wanted \ Bad
    /\ ~RecentDue /\ ~HistoryDue
    /\ rows' = Indexed({p})
    /\ wanted' = wanted \ {p} /\ behind' = behind \ {p}
    /\ UNCHANGED <<gh, state, worker, used, aside>>

(* The state row is read for the lane, and a repair's cursor with it, then *)
(* the clock; the lease is taken later, of a scan or a backfill at once.   *)
Picked(w, lane) ==
    /\ Goes(w, [Idle EXCEPT !.pc = IF lane \in Repairs THEN "acquire" ELSE "pass",
                            !.lane = lane, !.pending = lane = "recent" /\ state.pending,
                            !.page = CASE lane = "history" -> state.page
                                       [] lane = "recent" -> state.cursor
                                       [] OTHER -> 1])
    /\ clock' = [clock EXCEPT ![w] = IF lane = "recent" THEN "fresh" ELSE "none"]
    /\ excused' = IF lane \in Repairs THEN [excused EXCEPT ![w] = excused[lane]] ELSE excused

Pick(w) ==
    /\ worker[w] = Idle
    /\ \E lane \in nextRepoWork : Picked(w, lane)
    /\ UNCHANGED <<gh, rows, state, behind, wanted, used>>

Missed(w) ==
    /\ worker[w].pc = "acquire" /\ Leased(Kind(worker[w].lane))
    /\ Goes(w, Idle) /\ excused' = [excused EXCEPT ![w] = {}]
    /\ clock' = [clock EXCEPT ![w] = "none"]
    /\ UNCHANGED <<gh, rows, state, behind, wanted, used>>

Repairing(w, page) ==
    [worker[w] EXCEPT !.pc = "pulls", !.pending = FALSE, !.page = page,
                      !.last = page + (IF worker[w].lane = "recent" THEN RecentPages ELSE HistoryPages) - 1]

Begins(w, page) ==
    /\ Goes(w, Repairing(w, page))
    /\ excused' = IF page = 1 THEN [excused EXCEPT ![w] = {}] ELSE excused

(* startRecentPRRepairLease: a repair nobody has asked for starts anew,    *)
(* and asks for itself with a clock read before the lease was taken.       *)
StartRecentPRRepair(w) ==
    /\ worker[w].pc = "acquire" /\ worker[w].lane = "recent" /\ ~Leased("recent")
    /\ IF worker[w].pending THEN Begins(w, worker[w].page) /\ UNCHANGED state
       ELSE /\ Begins(w, 1)
            /\ \E asked \in {clock[w], "fresh"} :
                  state' = [state EXCEPT !.pending = asked = "fresh", !.cursor = 1]
    /\ clock' = [clock EXCEPT ![w] = "none"]
    /\ UNCHANGED <<gh, rows, behind, wanted, used>>

StartFullHistoryRepair(w) ==
    /\ worker[w].pc = "acquire" /\ worker[w].lane = "history" /\ ~Leased("history")
    /\ Begins(w, worker[w].page)
    /\ UNCHANGED <<gh, rows, state, behind, wanted, used, clock>>
-----------------------------------------------------------------------------
(* One page of a repair: runPullRequestRepairPage.                         *)

Page(list, n) == {list[i] : i \in {j \in DOMAIN list : (n - 1) * PerPage < j /\ j <= n * PerPage}}
BeforeCutoff(w, page) == IF worker[w].lane = "recent" THEN page \cap gh.old ELSE {}
Done(w, page) == page = {} \/ BeforeCutoff(w, page) # {}

(* Mutant of StalePulls: a pull request that is stored is left alone.      *)
MissingPulls(ps) == {p \in ps : rows[p].pull = 0}

(* detectStalePulls, detectStaleIssues.                                    *)
StalePulls(ps) == {p \in ps : rows[p].pull < gh.version[p]}
StaleIssues(ps) == {p \in ps : rows[p].issue < gh.version[p]}
MissingIssues(ps) == {p \in ps : rows[p].issue = 0}

BuildRepairPullPlan(w) ==
    LET page == Page(gh.pulls, worker[w].page)
        current == page \ BeforeCutoff(w, page) IN
    /\ worker[w].pc = "pulls"
    /\ Goes(w, [worker[w] EXCEPT !.pc = "issues", !.done = Done(w, page),
                                 !.pulls = StalePulls(current), !.issues = MissingIssues(current)])
    /\ UNCHANGED <<gh, rows, state, behind, wanted, used, aside>>

(* A stored pull request brings its issue along.                           *)
Fetched(pulls, issues) ==
    [p \in Pulls |-> [pull  |-> IF p \in pulls THEN gh.version[p] ELSE rows[p].pull,
                      issue |-> IF p \in pulls \cup issues THEN gh.version[p] ELSE rows[p].issue,
                      index |-> rows[p].index]]

(* mergeRepairPlans: what the page of issues adds.                         *)
IssuePage(w) == Page(gh.issues, worker[w].page)
PlannedIssues(w) == worker[w].issues \cup StaleIssues((IssuePage(w) \ BeforeCutoff(w, IssuePage(w))) \cap Pulls)
Blocked(w) == worker[w].pc = "issues" /\ (worker[w].pulls \cup PlannedIssues(w)) \cap Bad # {}

(* buildRepairIssuePlan, and then applyRepairPlan.                         *)
ApplyRepairPlan(w) ==
    LET me == [worker[w] EXCEPT !.pulls = {}, !.issues = {}]
        done == me.done /\ Done(w, IssuePage(w)) IN
    /\ me.pc = "issues" /\ ~Blocked(w)
    /\ rows' = Fetched(worker[w].pulls, PlannedIssues(w))
    /\ Goes(w, IF done \/ me.page = me.last THEN [me EXCEPT !.pc = "complete", !.done = done]
                ELSE [me EXCEPT !.pc = "pulls", !.page = @ + 1, !.done = FALSE])
    /\ UNCHANGED <<gh, state, behind, wanted, used, aside>>

(* Mutant of AfterRecent: the cursor is left unset.                        *)
AfterRecentUnset(w) ==
    IF worker[w].done
    THEN [state EXCEPT !.pending = FALSE, !.recentDue = FALSE, !.cursor = 0]
    ELSE [state EXCEPT !.pending = TRUE, !.cursor = worker[w].page + 1]

(* A request that came meanwhile is taken for answered.                    *)
AfterRecent(w) ==
    IF worker[w].done
    THEN [state EXCEPT !.pending = FALSE, !.recentDue = FALSE, !.cursor = 1]
    ELSE [state EXCEPT !.pending = TRUE, !.cursor = worker[w].page + 1]

PassEnds == clock' = [x \in DOMAIN clock |-> IF clock[x] = "fresh" THEN "late" ELSE clock[x]]

CompleteRecentPRRepair(w) ==
    /\ worker[w].pc = "complete" /\ worker[w].lane = "recent"
    /\ state' = AfterRecent(w)
    /\ excused' = [excused EXCEPT !["recent"] = IF worker[w].done THEN {} ELSE excused[w], ![w] = {}]
    /\ PassEnds
    /\ Goes(w, IF state.mode = "full_history" /\ ~worker[w].done THEN [Idle EXCEPT !.pc = "walk on"] ELSE Idle)
    /\ UNCHANGED <<gh, rows, behind, wanted, used>>

(* After a pass that was not the last one, full history has its turn.      *)
WalkOn(w) ==
    /\ worker[w].pc = "walk on"
    /\ IF Available.history THEN Picked(w, "history") ELSE Goes(w, Idle) /\ UNCHANGED aside
    /\ UNCHANGED <<gh, rows, state, behind, wanted, used>>

CompleteFullHistoryRepair(w) ==
    /\ worker[w].pc = "complete" /\ worker[w].lane = "history"
    /\ state' = [state EXCEPT !.historyDue = FALSE, !.page = IF worker[w].done THEN 1 ELSE worker[w].page + 1]
    /\ excused' = [excused EXCEPT !["history"] = IF worker[w].done THEN {} ELSE excused[w], ![w] = {}]
    /\ Goes(w, Idle)
    /\ UNCHANGED <<gh, rows, behind, wanted, used, clock>>
-----------------------------------------------------------------------------
(* The other lanes.                                                        *)

(* syncOpenPullInventory: what is open, and whether its head is indexed.   *)
RunFetchPass(w) ==
    /\ worker[w].pc = "pass" /\ worker[w].lane \in {"initial", "aged"}
    /\ state' = [state EXCEPT !.inventory = "fresh"]
    /\ behind' = {p \in gh.open : rows[p].index < gh.head[p]}
    /\ Goes(w, Idle)
    /\ UNCHANGED <<gh, rows, wanted, used, aside>>

(* What cannot be synchronised is counted and left behind.                 *)
RunBackfillPass(w) ==
    /\ worker[w].pc = "pass" /\ worker[w].lane = "backfill"
    /\ rows' = Indexed(behind \ Bad)
    /\ behind' = behind \cap Bad
    /\ Goes(w, Idle)
    /\ UNCHANGED <<gh, state, wanted, used, aside>>

(* A pass fails, part of its plan carried out; the process stops with it.  *)
(* finishRecentPRRepairWithError takes a request for finished.             *)
PassFails(w) ==
    LET me == worker[w] IN
    /\ me.pc \in {"pulls", "issues", "pass"}
    /\ IF Blocked(w) THEN UNCHANGED used ELSE Fails
    /\ IF me.pc # "issues" THEN UNCHANGED rows
       ELSE \E pulls \in SUBSET (me.pulls \ Bad), issues \in SUBSET (PlannedIssues(w) \ Bad) :
              /\ pulls = {} \/ issues = PlannedIssues(w)
              /\ rows' = Fetched(pulls, issues)
    /\ state' = IF me.lane = "recent" THEN [state EXCEPT !.pending = FALSE] ELSE state
    /\ IF me.lane = "recent" THEN PassEnds ELSE UNCHANGED clock
    /\ Goes(w, Idle) /\ excused' = [excused EXCEPT ![w] = {}]
    /\ UNCHANGED <<gh, behind, wanted>>

(* A process is killed; its leases go stale and its successor starts.      *)
Crash(w) ==
    /\ Fails
    /\ worker[w].pc # "idle" /\ Goes(w, Idle) /\ excused' = [excused EXCEPT ![w] = {}]
    /\ clock' = [clock EXCEPT ![w] = "none"]
    /\ UNCHANGED <<gh, rows, state, behind, wanted>>
-----------------------------------------------------------------------------
Work(w) ==
    \/ Pick(w) \/ Missed(w) \/ StartRecentPRRepair(w) \/ StartFullHistoryRepair(w)
    \/ BuildRepairPullPlan(w) \/ ApplyRepairPlan(w)
    \/ CompleteRecentPRRepair(w) \/ WalkOn(w) \/ CompleteFullHistoryRepair(w)
    \/ RunFetchPass(w) \/ RunBackfillPass(w)

(* The intervals are longer than the work: a repair falls due again when   *)
(* the workers have nothing left to do, or, within bounds, before.         *)
Quiet == (\A w \in Workers : worker[w] = Idle) /\ nextRepoWork = {} /\ wanted = {}
RecentFallsDue == FallsDue("recentDue") /\ IF Quiet THEN UNCHANGED used ELSE Happens
HistoryFallsDue == FallsDue("historyDue") /\ IF Quiet THEN UNCHANGED used ELSE Happens
TimePasses == RecentFallsDue \/ HistoryFallsDue \/ InventoryAges

Next ==
    \/ \E p \in Pulls : Change(p)
    \/ TimePasses \/ AskForRecentPRRepair \/ RequestRecentPRRepair
    \/ \E m \in Modes : ConfigureRepoBackfill(m)
    \/ \E w \in Workers : \/ \E p \in Pulls : ProcessTargetedRefresh(w, p)
                           \/ Work(w) \/ PassFails(w) \/ Crash(w)

(* The workers go round and round, each round begins with the refreshes,   *)
(* an inventory grows old, and the repairs fall due again and again.       *)
Spec == Init /\ [][Next]_vars
        /\ (\A w \in Workers : WF_vars(Work(w) \/ PassFails(w)))
        /\ SF_vars(\E w \in Workers, p \in Pulls : ProcessTargetedRefresh(w, p))
        /\ WF_vars(InventoryAges)
        /\ SF_vars(RecentFallsDue /\ Quiet) /\ SF_vars(HistoryFallsDue /\ Quiet)
-----------------------------------------------------------------------------
LastPage == Len(ListedIssues) + RecentPages + HistoryPages

TypeOK ==
    /\ gh.pulls \in [DOMAIN ListedPulls -> Pulls] /\ IsInjective(gh.pulls)
    /\ gh.issues \in [DOMAIN ListedIssues -> Pulls \cup Plain] /\ IsInjective(gh.issues)
    /\ gh.version \in [Pulls -> 1 .. MaxEvents + 1] /\ gh.head \in [Pulls -> 1 .. MaxEvents + 1]
    /\ gh.open \subseteq Pulls /\ gh.old \subseteq Pulls \cup Plain
    /\ rows \in [Pulls -> [pull : 0 .. MaxEvents + 1, issue : 0 .. MaxEvents + 1, index : 0 .. MaxEvents + 1]]
    /\ state \in [mode : Modes, pending : BOOLEAN, cursor : 1 .. LastPage, recentDue : BOOLEAN,
                   historyDue : BOOLEAN, page : 1 .. LastPage, inventory : {"none", "fresh", "aged"}]
    /\ behind \subseteq Pulls /\ wanted \subseteq Pulls
    /\ worker \in [Workers -> [pc : {"idle", "acquire", "pulls", "issues", "complete", "walk on", "pass"},
                               lane : ToSet(repoWorkPickers) \cup {"none"}, pending : BOOLEAN, page : 1 .. LastPage,
                               last : 0 .. 2 * LastPage, done : BOOLEAN, pulls : SUBSET Pulls, issues : SUBSET Pulls]]
    /\ clock \in [Workers \cup {"operator"} -> {"none", "fresh", "late"}]
    /\ excused \in [Workers \cup Repairs -> SUBSET Pulls]

(* A repair that says it is done has brought in every pull request that    *)
(* did not change under it: over however many passes, workers, crashes and *)
(* repeats it took, no pull request slips between two of its pages.  The   *)
(* recent one may stop at the first pull request before its window         *)
(* (runPullRequestRepairPass, completeRecentPRRepairPass).                 *)
Ends(w) == worker[w].pc = "complete" /\ worker[w].done /\ worker'[w] # worker[w] /\ used' = used
Covered(w) == Pulls \ (excused[w] \cup (IF worker[w].lane = "recent" THEN gh.old ELSE {}))
Kept(p) == rows[p].pull = gh.version[p] /\ rows[p].issue = gh.version[p]
RepairCovers == [][\A w \in Workers : Ends(w) => \A p \in Covered(w) : Kept(p)]_vars

(* After a request that is stored while no repair runs a repair is due, or *)
(* there is nothing to repair: the operator is not to wait for the next    *)
(* day.  It does not hold, where a pass that did not see a change ended    *)
(* after the request had read the clock (RequestRecentPRRepair,            *)
(* recentPRRepairPendingState; MCRequestLate.cfg).                         *)
RunningRecent == \E w \in Workers : worker[w].lane = "recent"
RequestIsHeard ==
    [][RequestRecentPRRepair /\ ~RunningRecent =>
         RecentDue' \/ \A p \in Pulls \ gh.old : Kept(p)]_vars

(* A pull request whose refresh is wanted is refreshed in the end: repairs *)
(* hold refreshes back (acquireNextTargetedRefresh), and are not to for    *)
(* ever.  This does not hold where GitHub lists a pull request it never    *)
(* returns (MCOneBadPull.cfg).                                             *)
RefreshesHappen == \A p \in Pulls \ Bad : p \in wanted ~> p \notin wanted

(* Every change comes to be in the mirror, also one whose webhook was      *)
(* lost, as far as the repository's mode promises and whatever lanes are   *)
(* due beside: a full history keeps every pull request and its issue, the  *)
(* recent repair those in its window, and an inventory keeps the heads of  *)
(* the open ones indexed (repoWorkPickers, runPullRequestRepairPage,       *)
(* syncOpenPullInventory).                                                 *)
Stays(modes) == <>[](state.mode \in modes)
ChangesArrive ==
    /\ Stays({"full_history"}) => <>[](\A p \in Pulls : Kept(p))
    /\ Stays({"open_and_recent", "full_history"}) => <>[](\A p \in Pulls \ gh.old : Kept(p))
    /\ Stays(Modes \ {"off"}) => <>[](\A p \in gh.open : rows[p].index = gh.head[p])
=============================================================================
