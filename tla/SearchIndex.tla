----------------------------- MODULE SearchIndex -----------------------------
(***************************************************************************)
(* The text index of one repository: search documents beside the mirrored  *)
(* rows, and the row of repo_text_search_states that tells readers how far *)
(* to trust them.                                                          *)
(*                                                                         *)
(* Webhook workers project deliveries and index the row they find stored;  *)
(* the acceptor has stored it before, without indexing.  An operator's     *)
(* search-index command rebuilds all documents.  The state row is read,    *)
(* changed in memory and written back whole by all of them.                *)
(***************************************************************************)
EXTENDS Naturals

CONSTANTS
    Issues,      \* issues and pull requests: a newer row is kept
    Comments,    \* comments and reviews: the last write stays
    Parent,      \* the issue of each comment
    Workers,     \* webhook workers
    Rebuilders,  \* search-index commands
    MaxVersion,  \* bound: versions of an object
    MaxEvents,   \* bound: deliveries GitHub sends
    MaxFailures, \* bound: failed or crashed attempts
    MaxRebuilds  \* bound: rebuilds

Objects == Issues \cup Comments
Versions == 1 .. MaxVersion

ASSUME ConstantsAssumption ==
    /\ Parent \in [Comments -> Issues] /\ Issues \cap Comments = {}
    /\ Workers \cap Rebuilders = {}
    /\ MaxVersion \in Nat \ {0} /\ MaxFailures \in Nat /\ MaxRebuilds \in Nat /\ MaxEvents \in Nat

VARIABLES
    gh,       \* GitHub: the version of each object; 0 before it exists, Gone after
    rows,     \* the mirror: the stored version, 0 for no row
    docs,     \* search_documents: the version each was built from, 0 for none
    state,    \* the row of repo_text_search_states
    todo,     \* webhook jobs: what a delivery says of an object and of its issue
    proc,     \* workers and rebuilders
    sent,
    failures,
    rebuilds,
    raced,    \* two writers crossed on an object or a rebuild (history)
    orphans   \* comments whose rows went with their issue's (history)

vars == <<gh, rows, docs, state, todo, proc, sent, failures, rebuilds, raced, orphans>>
bounds == <<sent, failures, rebuilds>>
history == <<raced, orphans>>

Gone == MaxVersion + 1
NoState == [status |-> "missing", fresh |-> "unknown", cover |-> "empty", stamped |-> FALSE]
NoJob == [o |-> 0, v |-> 0, of |-> 0]
Idle == [pc |-> "idle", job |-> NoJob, o |-> 0, seen |-> 0, change |-> "none", old |-> NoState,
         image |-> [o \in Objects |-> 0], disturbed |-> FALSE]
Writers == Workers \cup Rebuilders

(* Rows may have been there before documents were kept of them.            *)
Init ==
    /\ gh \in [Objects -> {0, 1}]
    /\ \A c \in Comments : gh[c] = 1 => gh[Parent[c]] = 1
    /\ rows = gh
    /\ docs = [o \in Objects |-> 0] /\ state = NoState
    /\ todo = {} /\ proc = [w \in Writers |-> Idle]
    /\ sent = 0 /\ failures = 0 /\ rebuilds = 0 /\ raced = FALSE /\ orphans = {}

Goes(w, p) == proc' = [proc EXCEPT ![w] = p]
-----------------------------------------------------------------------------
(* GitHub and the acceptor, whose projector does not index.                *)

Children(o) == {c \in Comments : Parent[c] = o}

(* upsertIssue keeps a newer row, the comment upserts do not.              *)
Stored(o, v) == IF o \in Issues /\ rows[o] > v THEN rows[o] ELSE v

(* ON DELETE CASCADE.                                                      *)
Without(o) == [p \in Objects |-> IF p = o \/ p \in Children(o) THEN 0 ELSE rows[p]]
Left(o) == {c \in Children(o) : rows[c] # 0}

(* An event about a comment carries the issue as well.                     *)
Event(o, v) == [o |-> o, v |-> v, of |-> IF o \in Comments THEN gh[Parent[o]] ELSE 0]

(* The rows once the issue in the event is stored.                         *)
WithIssue(j) == IF j.o \in Comments THEN [rows EXCEPT ![Parent[j.o]] = Stored(Parent[j.o], j.of)] ELSE rows

Change(o) ==
    /\ sent < MaxEvents /\ sent' = sent + 1
    /\ gh[o] < MaxVersion
    /\ o \in Comments => gh[Parent[o]] \in Versions
    /\ gh' = [gh EXCEPT ![o] = @ + 1]
    /\ rows' = [WithIssue(Event(o, 0)) EXCEPT ![o] = Stored(o, gh[o] + 1)]
    /\ todo' = todo \cup {Event(o, gh[o] + 1)}
    /\ UNCHANGED <<docs, state, proc, failures, rebuilds, history>>

(* GitHub announces the deletion of an issue, not of its comments.         *)
Remove(o) ==
    /\ sent < MaxEvents /\ sent' = sent + 1
    /\ gh[o] \in Versions
    /\ gh' = [p \in Objects |-> IF p = o \/ (p \in Children(o) /\ gh[p] # 0) THEN Gone ELSE gh[p]]
    /\ rows' = [p \in Objects |-> IF p \in {o} \cup Children(o) THEN 0 ELSE WithIssue(Event(o, Gone))[p]]
    /\ orphans' = orphans \cup Left(o)
    /\ todo' = todo \cup {Event(o, Gone)}
    /\ UNCHANGED <<docs, state, proc, failures, rebuilds, raced>>
-----------------------------------------------------------------------------
(* The state row: upsertRepoTextSearchState with each of its changes.      *)

coverageOrDefault(current, fallback) == IF current = "empty" THEN fallback ELSE current

deriveFreshness(s) == IF s.stamped THEN "current" ELSE "unknown"

(* Mutant of touched: a document that is indexed completes the index.      *)
touchedComplete(s) == [status |-> "ready", fresh |-> "current", cover |-> "complete", stamped |-> TRUE]

touched(s) == [status |-> "ready", fresh |-> "current", cover |-> coverageOrDefault(s.cover, "partial"), stamped |-> TRUE]

Changed(change, s) ==
    CASE change = "started"   -> [s EXCEPT !.status = "building"]
      [] change = "succeeded" -> [status |-> "ready", fresh |-> "current", cover |-> "complete", stamped |-> TRUE]
      [] change = "failed"    -> [s EXCEPT !.status = "failed", !.fresh = deriveFreshness(s)]
      [] change = "touched"   -> touched(s)

(* The row is read, and written back later.                                *)
Marking(p, change) == [p EXCEPT !.pc = "mark", !.change = change, !.old = state]

UpsertRepoTextSearchState(w) ==
    LET p == proc[w] IN
    /\ p.pc = "mark"
    /\ state' = Changed(p.change, p.old)
    /\ Goes(w, CASE p.change = "started"  -> [Idle EXCEPT !.pc = "issues"]
                 [] p.o # p.job.o          -> [Idle EXCEPT !.pc = "project", !.job = p.job]
                 [] OTHER                  -> Idle)
    /\ UNCHANGED <<gh, rows, docs, todo, bounds, history>>
-----------------------------------------------------------------------------
(* The webhook workers.                                                    *)

(* Somebody else works on an object that the job touches.                  *)
Touches(j) == IF j.o \in Comments THEN {j.o, Parent[j.o]} ELSE {j.o} \cup Children(j.o)
Crosses(w, j) == \E u \in Workers \ {w} : proc[u].job # NoJob /\ Touches(proc[u].job) \cap Touches(j) # {}

(* A job is run; the issue of a comment comes first.                       *)
StartJob(w, j) ==
    /\ proc[w] = Idle /\ j \in todo
    /\ todo' = todo \ {j}
    /\ raced' = (raced \/ Crosses(w, j))
    /\ IF j.o \in Comments
       THEN /\ rows' = WithIssue(j)
            /\ Goes(w, [Idle EXCEPT !.pc = "read", !.job = j, !.o = Parent[j.o]])
       ELSE rows' = rows /\ Goes(w, [Idle EXCEPT !.pc = "project", !.job = j])
    /\ UNCHANGED <<gh, docs, state, bounds, orphans>>

(* The row is written or deleted once more.                                *)
Project(w) ==
    LET p == proc[w] j == p.job IN
    /\ p.pc = "project"
    /\ IF j.v = Gone
       THEN /\ rows' = Without(j.o) /\ orphans' = orphans \cup Left(j.o)
            /\ Goes(w, [p EXCEPT !.pc = "delete", !.o = j.o])
       ELSE /\ j.o \in Comments => rows[Parent[j.o]] # 0
            /\ rows' = [rows EXCEPT ![j.o] = Stored(j.o, j.v)] /\ orphans' = orphans \ {j.o}
            /\ Goes(w, [p EXCEPT !.pc = "read", !.o = j.o])
    /\ UNCHANGED <<gh, docs, state, todo, bounds, raced>>

(* Mutant of Shown: the document is made from the delivery.                *)
ShownPayload(p) == IF p.o = p.job.o THEN p.job.v ELSE p.job.of

(* The stored row is read back for its document.                           *)
Shown(p) == rows[p.o]

ReadStored(w) ==
    LET p == proc[w] IN
    /\ p.pc = "read" /\ rows[p.o] # 0
    /\ Goes(w, [p EXCEPT !.pc = "write", !.seen = Shown(p)])
    /\ UNCHANGED <<gh, rows, docs, state, todo, bounds, history>>

(* A rebuild that has begun to load does not see what is written now.      *)
Rebuilding(u) == u \in Rebuilders /\ proc[u].pc \in {"issues", "comments", "replace"}
WhileRebuilding(w, p) ==
    proc' = [u \in Writers |-> IF u = w THEN p ELSE IF Rebuilding(u) THEN [proc[u] EXCEPT !.disturbed = TRUE] ELSE proc[u]]

(* upsertDocument: nothing guards against an older document.               *)
UpsertDocument(w) ==
    LET p == proc[w] IN
    /\ p.pc = "write"
    /\ docs' = [docs EXCEPT ![p.o] = p.seen]
    /\ WhileRebuilding(w, Marking(p, "touched"))
    /\ UNCHANGED <<gh, rows, state, todo, bounds, history>>

(* DeleteByGitHubID.                                                       *)
DeleteDocument(w) ==
    LET p == proc[w] IN
    /\ p.pc = "delete"
    /\ docs' = [docs EXCEPT ![p.o] = 0]
    /\ WhileRebuilding(w, IF docs[p.o] # 0 THEN Marking(p, "touched") ELSE Idle)
    /\ UNCHANGED <<gh, rows, state, todo, bounds, history>>

RowGone(p) ==
    \/ p.pc = "read" /\ rows[p.o] = 0
    \/ p.pc = "project" /\ p.job.v # Gone /\ p.job.o \in Comments /\ rows[Parent[p.job.o]] = 0

(* The database fails, the process dies or the row is gone: River runs the *)
(* job again.                                                              *)
JobFails(w) ==
    LET p == proc[w] IN
    /\ w \in Workers /\ p.pc # "idle"
    /\ IF RowGone(p) THEN UNCHANGED failures
       ELSE failures < MaxFailures /\ failures' = failures + 1
    /\ todo' = todo \cup {p.job}
    /\ Goes(w, Idle)
    /\ UNCHANGED <<gh, rows, docs, state, sent, rebuilds, history>>

-----------------------------------------------------------------------------
(* RebuildRepositoryByID.                                                  *)
Start(r) ==
    /\ proc[r] = Idle /\ rebuilds < MaxRebuilds /\ rebuilds' = rebuilds + 1
    /\ Goes(r, Marking(Idle, "started"))
    /\ UNCHANGED <<gh, rows, docs, state, todo, sent, failures, history>>

(* The tables are loaded one after the other.                              *)
Load(r, table, members, next) ==
    /\ proc[r].pc = table
    /\ Goes(r, [proc[r] EXCEPT !.pc = next, !.image = [o \in Objects |-> IF o \in members THEN rows[o] ELSE @[o]]])
    /\ UNCHANGED <<gh, rows, docs, state, todo, bounds, history>>

LoadRebuildIssues(r) == Load(r, "issues", Issues, "comments")
LoadRebuildComments(r) == Load(r, "comments", Comments, "replace")

(* Mutant of Replaced: the transaction is cut after its first statement.   *)
ReplacedInParts(r) == [o \in Objects |-> 0]

(* replaceRepositoryDocuments, one transaction.                            *)
Replaced(r) == proc[r].image

ReplaceRepositoryDocuments(r) ==
    /\ proc[r].pc = "replace"
    /\ docs' = Replaced(r)
    /\ raced' = (raced \/ proc[r].disturbed)
    /\ WhileRebuilding(r, Marking(proc[r], "succeeded"))
    /\ UNCHANGED <<gh, rows, state, todo, bounds, orphans>>

RebuildFails(r) ==
    /\ Rebuilding(r) /\ failures < MaxFailures /\ failures' = failures + 1
    /\ Goes(r, Marking(Idle, "failed"))
    /\ UNCHANGED <<gh, rows, docs, state, todo, sent, rebuilds, history>>

(* The command is killed.                                                  *)
RebuildDies(r) ==
    /\ r \in Rebuilders /\ proc[r] # Idle /\ failures < MaxFailures /\ failures' = failures + 1
    /\ Goes(r, Idle)
    /\ UNCHANGED <<gh, rows, docs, state, todo, sent, rebuilds, history>>
-----------------------------------------------------------------------------
Next ==
    \/ \E o \in Objects : Change(o) \/ Remove(o)
    \/ \E w \in Workers : \/ \E j \in todo : StartJob(w, j)
                          \/ Project(w) \/ ReadStored(w) \/ UpsertDocument(w) \/ DeleteDocument(w) \/ JobFails(w)
    \/ \E w \in Writers : UpsertRepoTextSearchState(w)
    \/ \E r \in Rebuilders : \/ Start(r) \/ LoadRebuildIssues(r) \/ LoadRebuildComments(r)
                             \/ ReplaceRepositoryDocuments(r) \/ RebuildFails(r) \/ RebuildDies(r)

Spec == Init /\ [][Next]_vars
-----------------------------------------------------------------------------
(* GetRepoStatus: what a reader is told of the coverage.                   *)
Coverage == IF \A o \in Objects : docs[o] = 0 THEN "empty" ELSE state.cover

Pending(o) == \/ \E j \in todo : o \in Touches(j)
              \/ \E w \in Workers : proc[w].job # NoJob /\ o \in Touches(proc[w].job)

Jobs == {j \in [o : Objects, v : 1 .. Gone, of : 0 .. MaxVersion] : j.o \in Comments => j.of \in Versions}
Images == [Objects -> 0 .. MaxVersion]
States ==
    {s \in [status : {"missing", "building", "ready", "failed"}, fresh : {"unknown", "current"},
            cover : {"empty", "partial", "complete"}, stamped : BOOLEAN] : s.fresh = "current" => s.stamped}

(* Rows and documents are of versions an object had, a job that concerns a *)
(* comment brings an issue along, and an index that is called current has  *)
(* a time at which it was made.                                            *)
TypeOK == rows \in Images /\ docs \in Images /\ state \in States /\ todo \subseteq Jobs

(* The inductive invariant (SearchIndex_proofs): what a writer has read or *)
(* is about to write is as well-formed as the tables.                      *)
Phases == {"idle", "mark", "project", "read", "write", "delete", "issues", "comments", "replace"}
Changes == {"none", "started", "succeeded", "failed", "touched"}

HasJob(p) ==
    /\ p.pc \in {"project", "read", "write", "delete", "mark"} /\ p.job \in Jobs
    /\ p.pc \in {"read", "write", "delete"} => p.o \in Objects
    /\ p.pc = "mark" => p.change = "touched"

Rebuilds(p) ==
    /\ p.pc \in {"mark", "issues", "comments", "replace"} /\ p.job = NoJob /\ p.o = 0
    /\ p.pc = "mark" => p.change \in {"started", "succeeded", "failed"}

ProcOK(w, p) == p.pc = "idle" \/ (w \in Workers /\ HasJob(p)) \/ (w \in Rebuilders /\ Rebuilds(p))

ProcTypes == [pc : Phases, job : Jobs \cup {NoJob}, o : Objects \cup {0}, seen : 0 .. MaxVersion,
              change : Changes, old : States, image : Images, disturbed : BOOLEAN]

IInv ==
    /\ TypeOK
    /\ gh \in [Objects -> 0 .. Gone]
    /\ \A c \in Comments : gh[c] \in Versions => gh[Parent[c]] \in Versions
    /\ proc \in [Writers -> ProcTypes]
    /\ \A w \in Writers : ProcOK(w, proc[w])

(* What was accepted is indexed: once an object's deliveries are worked    *)
(* off, in any order and however often they failed, its document, if it    *)
(* has one, says what its row says, as long as no two writers cross.  A    *)
(* comment that went with its issue leaves its document behind.            *)
DocumentsFollowRows ==
    ~raced => \A o \in Objects \ orphans : ~Pending(o) /\ docs[o] # 0 => docs[o] = rows[o]

(* Where readers are told that the index is complete, every row has its    *)
(* document once its deliveries are worked off, unless two writers crossed.*)
CompleteCoversRows ==
    ~raced /\ Coverage = "complete" => \A o \in Objects : ~Pending(o) /\ rows[o] # 0 => docs[o] # 0

(* A search never misses, in the middle of a rebuild or after it, what the *)
(* index held before and neither GitHub nor the mirror has deleted, unless *)
(* two writers crossed.                                                    *)
NothingVanishes ==
    [][~raced' => \A o \in Objects : docs[o] # 0 /\ rows[o] # 0 /\ gh[o] # Gone => docs'[o] # 0]_vars
=============================================================================
