------------------------------ MODULE GitIndex ------------------------------
(***************************************************************************)
(* The git change index of one repository: a bare mirror directory kept    *)
(* apart by a file lock, and for every pull request a snapshot of its      *)
(* changes with the commits it brings.                                     *)
(*                                                                         *)
(* A targeted refresh, a backfill, a bootstrap or an operator's sync       *)
(* stores the row of a pull request, reads the row back and indexes what   *)
(* it read; several do so at once.  A repair stores the row and leaves it  *)
(* at that.  A caller whose indexing ends with an error may try again or   *)
(* give up; an error of git ends in a failed snapshot and no error.        *)
(***************************************************************************)
EXTENDS ChangeDetail

CONSTANTS
    Pulls,      \* pull requests
    Indexers,   \* indexings at once
    CommitsOf,  \* CommitsOf[p][h]: the commits of head h of p over its base (bound: the heads)
    Parents,    \* the number of parents of each commit
    Diffs,      \* what a commit or a pull request may change
    MaxFailures \* bound: failures, timeouts and crashes

Free == "free"
Commits == UNION {UNION ToSet(CommitsOf[p]) : p \in Pulls}

ASSUME IndexAssumption ==
    /\ MaxFailures \in Nat
    /\ \A p \in Pulls : Len(CommitsOf[p]) \in Nat \ {0} /\ DOMAIN CommitsOf[p] = 1 .. Len(CommitsOf[p])
    /\ Free \notin Indexers
    /\ Parents \in [Commits -> Nat]
    /\ Diffs \subseteq Seq(DiffFiles)

VARIABLES
    head,      \* GitHub: the head of each pull request
    pull,      \* pull_requests: the head stored, 0 before
    diff,      \* what the commits and pull requests change, and what is to be kept of it
    snapshot,  \* pull_request_change_snapshots, with their file rows
    commits,   \* git_commits, with the rows of each parent
    refs,      \* git_refs: the head of each pull request
    mirror,    \* the mirror directory
    lock,      \* the indexer that has the file lock
    indexer,   \* the indexings under way
    want,      \* pull requests some caller is going to index
    failures,
    crossed,   \* history: pull requests stored last while they were indexed
    served     \* history: those whose row stored last was indexed and no error returned

history == <<crossed, served>>
vars == <<head, pull, diff, snapshot, commits, refs, mirror, lock, indexer, want, failures, history>>
tables == <<snapshot, commits>>
callers == <<head, pull, want>>

Idle == [pc |-> "idle", p |-> 0, h |-> 0, tip |-> 0]
NoSnapshot == [h |-> 0, as |-> "none", fresh |-> "none", rows |-> <<>>]
NoCommit == [stored |-> FALSE, parents |-> <<>>]

(* What is made of a diff, wherever it is read.                            *)
Read(d) == [files |-> d, pull |-> PullIndex(d), commit |-> ParentIndex(d, FALSE), merge |-> ParentIndex(d, TRUE)]

(* A commit may have been stored without its parents.                      *)
Init ==
    /\ head = [p \in Pulls |-> 1] /\ pull = [p \in Pulls |-> 0]
    /\ \E d \in Diffs : diff = Read(d)
    /\ snapshot = [p \in Pulls |-> NoSnapshot]
    /\ \E old \in {{}, Commits} : commits = [c \in Commits |-> [NoCommit EXCEPT !.stored = c \in old]]
    /\ refs = [p \in Pulls |-> 0]
    /\ mirror = [dir |-> "absent", origin |-> FALSE, objects |-> {}]
    /\ lock = Free
    /\ indexer = [i \in Indexers |-> Idle]
    /\ want = {} /\ failures = 0 /\ crossed = {} /\ served = {}

Goes(i, pc) == indexer' = [indexer EXCEPT ![i].pc = pc]
Busy(p) == \E i \in Indexers : indexer[i].pc # "idle" /\ indexer[i].p = p
-----------------------------------------------------------------------------
(* The callers.                                                            *)
Push(p) ==
    /\ head[p] < Len(CommitsOf[p]) /\ head' = [head EXCEPT ![p] = @ + 1]
    /\ UNCHANGED <<pull, diff, tables, refs, mirror, lock, indexer, want, failures, history>>

(* Repairs do not go on to index what they store.                          *)
StorePull(p) ==
    /\ pull[p] < head[p] /\ pull' = [pull EXCEPT ![p] = head[p]]
    /\ want' \in {want, want \cup {p}}
    /\ crossed' = IF Busy(p) THEN crossed \cup {p} ELSE crossed \ {p}
    /\ served' = served \ {p}
    /\ UNCHANGED <<head, diff, tables, refs, mirror, lock, indexer, failures>>

(* SyncPullRequestIndex: the row is read before the lock is asked for.     *)
SyncPullRequestIndex(i, p) ==
    /\ indexer[i] = Idle /\ p \in want
    /\ want' = want \ {p}
    /\ indexer' = [indexer EXCEPT ![i] = [Idle EXCEPT !.pc = "wait", !.p = p, !.h = pull[p]]]
    /\ UNCHANGED <<head, pull, diff, tables, refs, mirror, lock, failures, history>>
-----------------------------------------------------------------------------
(* Mutant of Locked: nobody waits for the lock.                            *)
AlwaysLocked(i) == TRUE

Locked(i) == lock = Free

withRepoLock(i) ==
    /\ indexer[i].pc = "wait" /\ Locked(i)
    /\ lock' = i
    /\ Goes(i, "init")
    /\ UNCHANGED <<callers, diff, tables, refs, mirror, failures, history>>

(* The mirror directory is made once; a directory that is there is taken   *)
(* for a mirror.                                                           *)
InitMirror(i) ==
    /\ indexer[i].pc = "init"
    /\ mirror' = IF mirror.dir = "absent" THEN [mirror EXCEPT !.dir = "mirror"] ELSE mirror
    /\ Goes(i, "remove")
    /\ UNCHANGED <<callers, diff, tables, refs, lock, failures, history>>

RemoveOrigin(i) ==
    /\ indexer[i].pc = "remove" /\ mirror.dir = "mirror"
    /\ mirror' = [mirror EXCEPT !.origin = FALSE]
    /\ Goes(i, "add")
    /\ UNCHANGED <<callers, diff, tables, refs, lock, failures, history>>

AddOrigin(i) ==
    /\ indexer[i].pc = "add" /\ ~mirror.origin
    /\ mirror' = [mirror EXCEPT !.origin = TRUE]
    /\ Goes(i, "fetch")
    /\ UNCHANGED <<callers, diff, tables, refs, lock, failures, history>>

(* The pull request's ref is fetched as it is now, and listed.             *)
Fetch(i) ==
    LET p == indexer[i].p IN
    /\ indexer[i].pc = "fetch" /\ mirror.origin
    /\ mirror' = [mirror EXCEPT !.objects = @ \cup CommitsOf[p][head[p]]]
    /\ indexer' = [indexer EXCEPT ![i].pc = "refs", ![i].tip = head[p]]
    /\ UNCHANGED <<callers, diff, tables, refs, lock, failures, history>>

StoreRefs(i) ==
    /\ indexer[i].pc = "refs"
    /\ refs' = [refs EXCEPT ![indexer[i].p] = indexer[i].tip]
    /\ Goes(i, "build")
    /\ UNCHANGED <<callers, diff, tables, mirror, lock, failures, history>>

Reachable(i) == CommitsOf[indexer[i].p][indexer[i].h] \subseteq mirror.objects

BuildPullRequestIndexResult(i) ==
    /\ indexer[i].pc = "build" /\ Reachable(i)
    /\ Goes(i, "write")
    /\ UNCHANGED <<callers, diff, tables, refs, mirror, lock, failures, history>>

(* Git refuses: there is no such object, or no mirror in the directory.    *)
Refused(i) ==
    \/ indexer[i].pc = "remove" /\ mirror.dir = "broken"
    \/ indexer[i].pc = "add" /\ mirror.origin
    \/ indexer[i].pc = "fetch" /\ ~mirror.origin
    \/ indexer[i].pc = "build" /\ ~Reachable(i)

AtGit == {"init", "remove", "add", "fetch", "refs", "build"}

GitFails(i) ==
    /\ indexer[i].pc \in AtGit
    /\ IF Refused(i) THEN UNCHANGED failures
       ELSE failures < MaxFailures /\ failures' = failures + 1
    /\ Goes(i, "failed")
    /\ UNCHANGED <<callers, diff, tables, refs, mirror, lock, history>>
-----------------------------------------------------------------------------
(* Mutant of Ends: the file stays open, and locked.                        *)
EndsLocked(i) == indexer' = [indexer EXCEPT ![i] = Idle] /\ lock' = lock

(* The indexing ends, and with it the lock.                                *)
Ends(i) ==
    /\ indexer' = [indexer EXCEPT ![i] = Idle]
    /\ lock' = IF lock = i THEN Free ELSE lock

(* Mutant of shouldRewriteCommitBundle: a commit that is there is complete.*)
rewriteUnlessStored(commit, parents) == ~commit.stored

shouldRewriteCommitBundle(commit, parents) ==
    ~commit.stored \/ (parents # 0 /\ Len(commit.parents) # parents)

CommitBundle(c) ==
    [stored |-> TRUE, parents |-> [k \in 1 .. Parents[c] |-> IF Parents[c] > 1 THEN diff.merge ELSE diff.commit]]

(* Mutant of IndexedHead: the head fetched is indexed, not the one stored. *)
TipOf(i) == indexer[i].tip

IndexedHead(i) == indexer[i].h

(* The caller is told that all is well.                                    *)
Serves(i) ==
    served' = IF indexer[i].h = pull[indexer[i].p] THEN served \cup {indexer[i].p} ELSE served

(* writePullRequestIndex, one transaction.                                 *)
WritePullRequestIndex(i) ==
    LET p == indexer[i].p h == IndexedHead(i) index == diff.pull IN
    /\ indexer[i].pc = "write"
    /\ snapshot' = [snapshot EXCEPT ![p] = [h |-> h, as |-> index.as, fresh |-> "current", rows |-> index.rows]]
    /\ commits' = [c \in Commits |->
                     IF c \in CommitsOf[p][h] /\ shouldRewriteCommitBundle(commits[c], Parents[c])
                     THEN CommitBundle(c) ELSE commits[c]]
    /\ Ends(i) /\ Serves(i)
    /\ UNCHANGED <<callers, diff, refs, mirror, failures, crossed>>

(* markSnapshotFailed: so is a caller whose indexing git refused.          *)
MarkSnapshotFailed(i) ==
    LET p == indexer[i].p IN
    /\ indexer[i].pc = "failed"
    /\ snapshot' = [snapshot EXCEPT ![p] = [h |-> indexer[i].h, as |-> "failed", fresh |-> "failed", rows |-> <<>>]]
    /\ Ends(i) /\ Serves(i)
    /\ UNCHANGED <<callers, diff, commits, refs, mirror, failures, crossed>>

(* The deadline passes, the database fails or the process dies: git is     *)
(* killed where it is and nothing is marked.  The caller tries again, or   *)
(* this was its last attempt.                                              *)
Aborts(i) ==
    /\ indexer[i].pc # "idle" /\ failures < MaxFailures /\ failures' = failures + 1
    /\ mirror' \in IF indexer[i].pc = "init" /\ mirror.dir = "absent"
                   THEN {mirror, [mirror EXCEPT !.dir = "broken"]} ELSE {mirror}
    /\ want' \in {want, want \cup {indexer[i].p}}
    /\ Ends(i)
    /\ UNCHANGED <<head, pull, diff, tables, refs, history>>
-----------------------------------------------------------------------------
Steps(i) ==
    \/ \E p \in Pulls : SyncPullRequestIndex(i, p)
    \/ withRepoLock(i) \/ InitMirror(i) \/ RemoveOrigin(i) \/ AddOrigin(i)
    \/ Fetch(i) \/ StoreRefs(i) \/ BuildPullRequestIndexResult(i)
    \/ WritePullRequestIndex(i) \/ MarkSnapshotFailed(i)
    \/ (Refused(i) /\ GitFails(i))

Next ==
    \/ \E p \in Pulls : Push(p) \/ StorePull(p)
    \/ \E i \in Indexers : \/ \E p \in Pulls : SyncPullRequestIndex(i, p)
                           \/ withRepoLock(i) \/ InitMirror(i) \/ RemoveOrigin(i) \/ AddOrigin(i)
                           \/ Fetch(i) \/ StoreRefs(i) \/ BuildPullRequestIndexResult(i)
                           \/ WritePullRequestIndex(i) \/ MarkSnapshotFailed(i)
                           \/ GitFails(i) \/ Aborts(i)

(* As long as some caller or indexing can go on, one does.                 *)
Spec == Init /\ [][Next]_vars /\ WF_vars(\E i \in Indexers : Steps(i))
-----------------------------------------------------------------------------
Phases == {"idle", "wait", "init", "remove", "add", "fetch", "refs", "build", "write", "failed"}

TypeOK ==
    /\ \A p \in Pulls : head[p] \in DOMAIN CommitsOf[p] /\ pull[p] \in 0 .. head[p] /\ refs[p] \in 0 .. head[p]
    /\ \A p \in Pulls : snapshot[p].h \in 0 .. pull[p]
    /\ mirror.dir \in {"absent", "broken", "mirror"} /\ mirror.objects \subseteq Commits
    /\ mirror.dir # "mirror" => ~mirror.origin /\ mirror.objects = {}
    /\ lock \in Indexers \cup {Free}
    /\ \A i \in Indexers : indexer[i].pc \notin {"idle", "wait"} => lock = i
    /\ want \subseteq Pulls
    /\ indexer \in [Indexers -> [pc : Phases, p : Pulls \cup {0}, h : Nat, tip : Nat]]

(* A snapshot that is not marked failed comes with every commit of its     *)
(* head, each with the rows of all its parents, even where an older        *)
(* version of the program or another pull request stored the commit.       *)
SnapshotsHaveCommits ==
    \A p \in Pulls : snapshot[p].as \notin {"none", "failed"} =>
        \A c \in CommitsOf[p][snapshot[p].h] : commits[c].stored /\ Len(commits[c].parents) = Parents[c]

(* An indexing that returns no error shows what was stored: from then on   *)
(* the pull request shows the head of its row, or its failure, whatever    *)
(* GitHub has by then, unless the row was stored while an older one was    *)
(* being indexed.                                                          *)
ServedIsShown == \A p \in served \ crossed : snapshot[p].h = pull[p]

(* What the plan of the index asks for (README, Known divergences): once   *)
(* nobody indexes a pull request or is going to, its snapshot is current   *)
(* only if it is of the head stored.                                       *)
CurrentIsLatest ==
    \A p \in Pulls \ want : ~Busy(p) /\ snapshot[p].fresh = "current" => snapshot[p].h = pull[p]

(* What is stored of a commit against a parent is within the budgets of    *)
(* its kind, in files, lines and bytes, whatever the order in which they   *)
(* are found to be too many.                                               *)
DetailWithinBudget ==
    LET count == Count(mergeFileMetadata(diff.files))
        lines == Lines(mergeFileMetadata(diff.files)) IN
    \A c \in Commits : \A k \in DOMAIN commits[c].parents :
        LET row == commits[c].parents[k]
            budget == IF Parents[c] > 1 THEN Merge ELSE Commit IN
        /\ row.as = "full" => /\ count <= budget.fullFiles /\ lines <= budget.fullLines
                              /\ Bytes(row.rows) <= budget.fullBytes
                              /\ \A p \in DOMAIN row.rows : row.rows[p].as = "full"
        /\ row.as = "paths_only" => Bytes(row.rows) = 0 /\ Hunks(row.rows) = 0
        /\ row.as = "skipped" <=> count > budget.pathFiles \/ lines > budget.pathLines

RemovedUnderB == \E i \in DOMAIN diff.files : diff.files[i].status = "removed" /\ Head(diff.files[i].path) = "b"

(* A patch is filed under the path of its own file, renamed or not, and no *)
(* file is made up, but for files removed below a directory named b.       *)
PatchesUnderTheirFiles ==
    ~RemovedUnderB => \A p \in Pulls :
        /\ \A q \in DOMAIN snapshot[p].rows : snapshot[p].rows[q].patchOf \in {<<>>, q}
        /\ snapshot[p].as \notin {"none", "failed"} => DOMAIN snapshot[p].rows = {diff.files[i].path : i \in DOMAIN diff.files}

(* The stored refs of a pull request never go back to an older head.       *)
RefsAdvance == [][\A p \in Pulls : refs'[p] >= refs[p]]_vars

(* The inductive invariant: an indexing is of the row stored last unless   *)
(* another was stored meanwhile, and one that is about to store a ref has  *)
(* a head no older than the ref that is there.                             *)
IndexerOK(i) ==
    LET me == indexer[i] IN
    me.pc # "idle" => /\ me.p \in Pulls /\ me.h \in 1 .. pull[me.p]
                      /\ me.p \notin crossed => me.h = pull[me.p]
                      /\ me.pc = "add" => mirror.dir = "mirror"
                      /\ me.pc = "refs" => me.tip \in refs[me.p] .. head[me.p]

Shapes ==
    /\ {head, pull, refs} \subseteq [Pulls -> Nat] /\ DOMAIN snapshot = Pulls /\ failures \in Nat
    /\ mirror \in [dir : {"absent", "broken", "mirror"}, origin : BOOLEAN, objects : SUBSET Commits]

IInv ==
    /\ Shapes /\ TypeOK
    /\ \A i \in Indexers : IndexerOK(i)
    /\ \A p \in want : pull[p] >= 1
    /\ \A p \in Pulls : snapshot[p].as \notin {"none", "failed"} => snapshot[p].h >= 1
    /\ \A c \in Commits : Parents[c] = 0 => Len(commits[c].parents) = 0
    /\ SnapshotsHaveCommits /\ ServedIsShown

(* Every indexing ends: whoever waits for the lock gets it and whatever    *)
(* was asked for is done or given up, once no more failures come.          *)
IndexingEnds == <>[](want = {} /\ \A i \in Indexers : indexer[i] = Idle)
=============================================================================
