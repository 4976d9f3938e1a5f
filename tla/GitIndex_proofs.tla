--------------------------- MODULE GitIndex_proofs ---------------------------
(***************************************************************************)
(* GitIndex!IInv is an invariant of the git index, for any pull requests,  *)
(* commits, diffs and number of indexers and failures.  With it, indexers  *)
(* are apart in the mirror, snapshots have their commits, what was indexed *)
(* stays shown, and stored refs advance.  What is stored is made of the    *)
(* diff (Made), and for every diff keeps within the budgets and has its    *)
(* patches under the paths of their files.                                 *)
(***************************************************************************)
EXTENDS GitIndex, FiniteSetTheorems, WellFoundedInduction, TLAPS

IndexerType == [pc : Phases, p : Pulls \cup {0}, h : Nat, tip : Nat]

\* The commits of a head are commits.
LEMMA HeadCommits ==
  ASSUME NEW p \in Pulls, NEW h \in DOMAIN CommitsOf[p]
  PROVE  CommitsOf[p][h] \subseteq Commits
<1>1. CommitsOf[p][h] \in ToSet(CommitsOf[p])
  BY DEF ToSet
<1> QED
  BY <1>1 DEF Commits

LEMMA InitIInv == Init => IInv
<1> SUFFICES ASSUME Init PROVE IInv
  OBVIOUS
<1>1. Idle \in IndexerType /\ Idle.pc = "idle"
  BY DEF Idle, IndexerType, Phases
<1>2. TypeOK
  BY <1>1, IndexAssumption DEF Init, TypeOK, IndexerType, NoSnapshot
<1>3. Shapes
  BY IndexAssumption DEF Init, Shapes
<1>4. PICK old \in {{}, Commits} : commits = [c \in Commits |-> [NoCommit EXCEPT !.stored = c \in old]]
  BY DEF Init
<1>5. \A c \in Commits : commits[c].parents = <<>>
  BY <1>4 DEF NoCommit
<1>6. \A p \in Pulls : snapshot[p].as = "none" /\ snapshot[p].h = 0 /\ pull[p] = 0
  BY DEF Init, NoSnapshot
<1>7. (\A i \in Indexers : IndexerOK(i)) /\ want = {} /\ served = {}
  BY <1>1 DEF Init, IndexerOK
<1> QED
  BY <1>2, <1>3, <1>5, <1>6, <1>7 DEF IInv, SnapshotsHaveCommits, ServedIsShown

\* A step of indexer i that leaves its row, the callers and the tables of
\* snapshots and commits alone: what is left to show of it.
LEMMA MovesOn ==
  ASSUME IInv, NEW i \in Indexers, NEW r \in IndexerType,
         indexer' = [indexer EXCEPT ![i] = r],
         indexer[i].pc # "idle", r.pc # "idle", r.p = indexer[i].p, r.h = indexer[i].h,
         UNCHANGED <<callers, tables, history>>,
         Shapes',
         \A p \in Pulls : refs'[p] \in 0 .. head[p],
         mirror'.dir # "mirror" => ~mirror'.origin /\ mirror'.objects = {},
         lock' \in Indexers \cup {Free}, r.pc # "wait" => lock' = i,
         lock' # lock => lock = Free /\ lock' = i,
         mirror.dir = "mirror" => mirror'.dir = "mirror",
         r.pc = "add" => mirror'.dir = "mirror",
         r.pc = "refs" => r.tip \in refs'[r.p] .. head[r.p],
         \A p \in Pulls : refs'[p] # refs[p] => indexer[i].pc = "refs"
  PROVE  IInv'
<1>1. indexer' \in [Indexers -> IndexerType] /\ \A j \in Indexers : indexer'[j] = IF j = i THEN r ELSE indexer[j]
  BY DEF IInv, TypeOK, IndexerType
<1>2. \A j \in Indexers : indexer'[j].pc \notin {"idle", "wait"} => lock' = j
  BY <1>1, IndexAssumption DEF IInv, TypeOK
<1>3. TypeOK'
  BY <1>1, <1>2 DEF IInv, TypeOK, IndexerType, callers, tables, Shapes
<1>4. ASSUME NEW j \in Indexers PROVE IndexerOK(j)'
  <2>1. IndexerOK(j) /\ IndexerOK(i)
    BY DEF IInv
  <2>2. CASE j = i
    BY <1>1, <2>1, <2>2 DEF IndexerOK, callers, history
  <2>3. CASE j # i
    <3>1. indexer[j].pc = "refs" => refs' = refs
      <4>1. indexer[j].pc = "refs" => indexer[i].pc # "refs"
        BY <2>3 DEF IInv, TypeOK
      <4> QED
        BY <4>1 DEF Shapes, IInv
    <3> QED
      BY <1>1, <2>1, <2>3, <3>1 DEF IndexerOK, callers, history
  <2> QED
    BY <2>2, <2>3
<1>5. \A p \in Pulls : Busy(p)' <=> Busy(p)
  BY <1>1 DEF Busy
<1>6. ServedIsShown' /\ SnapshotsHaveCommits'
  BY <1>5 DEF IInv, ServedIsShown, SnapshotsHaveCommits, callers, tables, history
<1> QED
  BY <1>3, <1>4, <1>6 DEF IInv, callers, tables

\* The steps that only take an indexer further.
LEMMA WaitsAndInits ==
  ASSUME IInv, NEW i \in Indexers, withRepoLock(i) \/ InitMirror(i) \/ RemoveOrigin(i) \/ AddOrigin(i)
  PROVE  IInv'
<1> DEFINE At(pc) == [indexer[i] EXCEPT !.pc = pc]
<1>1. \A pc \in Phases : At(pc) \in IndexerType /\ At(pc).pc = pc /\ At(pc).p = indexer[i].p /\ At(pc).h = indexer[i].h
  BY DEF IInv, TypeOK, IndexerType
<1>2. \A pc : Goes(i, pc) => indexer' = [indexer EXCEPT ![i] = At(pc)]
  BY DEF Goes
<1> HIDE DEF At
<1>3. Shapes /\ \A p \in Pulls : refs[p] \in 0 .. head[p]
  BY DEF IInv, TypeOK
<1>4. CASE withRepoLock(i)
  <2>1. Shapes' /\ UNCHANGED <<callers, tables, history, refs, mirror>>
    BY <1>3, <1>4 DEF withRepoLock, Shapes, callers, tables
  <2> QED
    BY <1>1, <1>2, <1>3, <1>4, <2>1, MovesOn, ZenonT(60) DEF withRepoLock, Phases, Locked, IInv, TypeOK, callers, history
<1>5. CASE InitMirror(i)
  <2>1. Shapes' /\ UNCHANGED <<callers, tables, history, refs, lock>> /\ lock = i
    BY <1>3, <1>5 DEF InitMirror, Shapes, callers, tables, IInv, TypeOK
  <2>2. /\ mirror'.dir # "mirror" => ~mirror'.origin /\ mirror'.objects = {}
        /\ mirror.dir = "mirror" => mirror'.dir = "mirror"
    BY <1>3, <1>5 DEF InitMirror, Shapes, IInv, TypeOK
  <2> QED
    BY <1>1, <1>2, <1>3, <1>5, <2>1, <2>2, MovesOn DEF InitMirror, Phases, callers
<1>6. CASE RemoveOrigin(i) \/ AddOrigin(i)
  <2>0. UNCHANGED <<callers, tables, history, refs, lock, failures>> /\ lock = i
    BY <1>6 DEF RemoveOrigin, AddOrigin, IInv, TypeOK
  <2>3. mirror' \in [dir : {"absent", "broken", "mirror"}, origin : BOOLEAN, objects : SUBSET Commits]
    BY <1>3, <1>6 DEF RemoveOrigin, AddOrigin, Shapes
  <2>1. Shapes'
    BY <1>3, <2>0, <2>3 DEF Shapes, callers, tables
  <2>2. mirror.dir = "mirror" /\ mirror'.dir = "mirror"
    <3>1. indexer[i].pc = "add" => mirror.dir = "mirror"
      BY DEF IInv, IndexerOK
    <3> QED
      BY <1>3, <1>6, <3>1 DEF RemoveOrigin, AddOrigin, Shapes
  <2> QED
    BY <1>1, <1>2, <1>3, <1>6, <2>0, <2>1, <2>2, MovesOn DEF RemoveOrigin, AddOrigin, Phases, callers
<1> QED
  BY <1>4, <1>5, <1>6

LEMMA FetchesAndBuilds ==
  ASSUME IInv, NEW i \in Indexers,
         Fetch(i) \/ StoreRefs(i) \/ BuildPullRequestIndexResult(i) \/ GitFails(i)
  PROVE  IInv'
<1> DEFINE At(pc) == [indexer[i] EXCEPT !.pc = pc]
<1>1. \A pc \in Phases : At(pc) \in IndexerType /\ At(pc).pc = pc /\ At(pc).p = indexer[i].p /\ At(pc).h = indexer[i].h
  BY DEF IInv, TypeOK, IndexerType
<1>2. \A pc : Goes(i, pc) => indexer' = [indexer EXCEPT ![i] = At(pc)]
  BY DEF Goes
<1> HIDE DEF At
<1>3. Shapes /\ \A p \in Pulls : refs[p] \in 0 .. head[p]
  BY DEF IInv, TypeOK
<1>4. indexer[i].pc # "idle" /\ indexer[i].p \in Pulls /\ lock = i /\ lock \in Indexers
  BY DEF IInv, IndexerOK, TypeOK, Fetch, StoreRefs, BuildPullRequestIndexResult, GitFails, AtGit
<1>5. CASE Fetch(i)
  <2> DEFINE p == indexer[i].p
             r == [indexer[i] EXCEPT !.pc = "refs", !.tip = head[p]]
  <2>1. indexer' = [indexer EXCEPT ![i] = r]
    BY <1>5 DEF Fetch
  <2>2. head[p] \in Nat
    BY <1>3, <1>4 DEF Shapes
  <2>3. r \in IndexerType /\ r.pc = "refs" /\ r.p = p /\ r.h = indexer[i].h /\ r.tip = head[p]
    BY <2>2 DEF IInv, TypeOK, IndexerType, Phases
  <2>4. CommitsOf[p][head[p]] \subseteq Commits
    BY <1>4, HeadCommits DEF IInv, TypeOK
  <2>5. mirror.dir = "mirror" /\ mirror'.dir = "mirror"
    BY <1>3, <1>5 DEF Fetch, IInv, TypeOK, Shapes
  <2>6. Shapes' /\ UNCHANGED <<callers, tables, history, refs, lock>>
    BY <1>3, <1>5, <2>4 DEF Fetch, Shapes, callers, tables
  <2>7. refs[p] \in Nat /\ refs[p] <= head[p]
    BY <1>3, <1>4 DEF Shapes
  <2>8. r.tip \in refs'[r.p] .. head[r.p]
    BY <2>2, <2>3, <2>6, <2>7
  <2> HIDE DEF r
  <2>9. refs' = refs /\ lock' = lock /\ UNCHANGED <<callers, tables, history>>
    BY <2>6
  <2> QED
    BY <1>3, <1>4, <2>1, <2>3, <2>5, <2>6, <2>8, <2>9, MovesOn
<1>6. CASE StoreRefs(i)
  <2> DEFINE p == indexer[i].p
  <2>1. indexer[i].tip \in refs[p] .. head[p] /\ refs' = [refs EXCEPT ![p] = indexer[i].tip]
    BY <1>6 DEF StoreRefs, IInv, IndexerOK
  <2>2. indexer[i].tip \in Nat /\ head[p] \in Nat /\ refs[p] \in Nat
    BY <1>3, <1>4 DEF Shapes, IInv, TypeOK, IndexerType
  <2>3. Shapes' /\ UNCHANGED <<callers, tables, history, mirror, lock>>
    BY <1>3, <1>4, <1>6, <2>2 DEF StoreRefs, Shapes, callers, tables
  <2>4. \A q \in Pulls : refs'[q] \in 0 .. head[q]
    BY <1>3, <2>1, <2>2 DEF Shapes
  <2>5. /\ indexer' = [indexer EXCEPT ![i] = At("build")]
        /\ At("build") \in IndexerType /\ At("build").pc = "build" /\ At("build").p = p /\ At("build").h = indexer[i].h
    BY <1>1, <1>2, <1>6 DEF StoreRefs, Phases
  <2>6. indexer[i].pc = "refs" /\ mirror' = mirror /\ lock' = lock
    BY <1>6, <2>3 DEF StoreRefs
  <2>7. mirror'.dir # "mirror" => ~mirror'.origin /\ mirror'.objects = {}
    BY <2>6 DEF IInv, TypeOK
  <2> QED
    BY <1>4, <2>3, <2>4, <2>5, <2>6, <2>7, MovesOn
<1>7. CASE BuildPullRequestIndexResult(i) \/ GitFails(i)
  <2>1. Shapes' /\ UNCHANGED <<callers, tables, history, refs, mirror, lock>>
    BY <1>3, <1>7 DEF BuildPullRequestIndexResult, GitFails, Shapes, callers, tables
  <2>2. PICK pc \in {"write", "failed"} : Goes(i, pc)
    BY <1>7 DEF BuildPullRequestIndexResult, GitFails
  <2>3. /\ indexer' = [indexer EXCEPT ![i] = At(pc)]
        /\ At(pc) \in IndexerType /\ At(pc).pc = pc /\ At(pc).p = indexer[i].p /\ At(pc).h = indexer[i].h
    BY <1>1, <1>2, <2>2 DEF Phases
  <2>4. mirror' = mirror /\ lock' = lock /\ refs' = refs
    BY <2>1
  <2>5. mirror'.dir # "mirror" => ~mirror'.origin /\ mirror'.objects = {}
    BY <2>4 DEF IInv, TypeOK
  <2> QED
    BY <1>3, <1>4, <2>1, <2>3, <2>4, <2>5, MovesOn
<1> QED
  BY <1>5, <1>6, <1>7

\* The callers' steps.
LEMMA CallerStep ==
  ASSUME IInv, NEW p \in Pulls, Push(p) \/ StorePull(p)
  PROVE  IInv'
<1>1. head[p] \in Nat /\ pull[p] \in Nat /\ head[p] \in 1 .. Len(CommitsOf[p]) /\ Len(CommitsOf[p]) \in Nat
  BY IndexAssumption DEF IInv, Shapes, TypeOK
<1>2. CASE Push(p)
  <2>1. /\ head' = [head EXCEPT ![p] = head[p] + 1] /\ head[p] < Len(CommitsOf[p])
        /\ UNCHANGED <<pull, tables, refs, mirror, lock, indexer, want, failures, history>>
    BY <1>2 DEF Push
  <2>2. head' \in [Pulls -> Nat] /\ \A q \in Pulls : head'[q] \in DOMAIN CommitsOf[q] /\ head'[q] >= head[q]
    BY <1>1, <2>1, IndexAssumption, SMTT(30) DEF IInv, Shapes, TypeOK
  <2>3. Shapes'
    BY <2>1, <2>2 DEF IInv, Shapes, tables
  <2>4. TypeOK'
    <3>1. \A q \in Pulls : pull[q] \in 0 .. head'[q] /\ refs[q] \in 0 .. head'[q]
      BY <2>2 DEF IInv, Shapes, TypeOK
    <3> QED
      BY <2>1, <2>2, <3>1 DEF IInv, TypeOK, tables
  <2>5. ASSUME NEW i \in Indexers PROVE IndexerOK(i)'
    <3>1. IndexerOK(i) /\ indexer[i].tip \in Nat
      BY DEF IInv, TypeOK
    <3>2. indexer[i].pc = "refs" => indexer[i].tip \in refs[indexer[i].p] .. head'[indexer[i].p]
      BY <2>2, <3>1 DEF IndexerOK, IInv, Shapes
    <3> QED
      BY <2>1, <3>1, <3>2 DEF IndexerOK, history
  <2>6. SnapshotsHaveCommits' /\ ServedIsShown'
    BY <2>1 DEF IInv, SnapshotsHaveCommits, ServedIsShown, history, tables
  <2> QED
    BY <2>1, <2>3, <2>4, <2>5, <2>6 DEF IInv, tables
<1>3. CASE StorePull(p)
  <2>1. /\ pull' = [pull EXCEPT ![p] = head[p]] /\ pull[p] < head[p]
        /\ want' \in {want, want \cup {p}} /\ served' = served \ {p}
        /\ crossed' = IF Busy(p) THEN crossed \cup {p} ELSE crossed \ {p}
        /\ UNCHANGED <<head, tables, refs, mirror, lock, indexer, failures>>
    BY <1>3 DEF StorePull
  <2>2. pull' \in [Pulls -> Nat] /\ \A q \in Pulls : pull'[q] >= pull[q] /\ pull'[q] \in 0 .. head[q]
    BY <1>1, <2>1 DEF IInv, Shapes, TypeOK
  <2>3. Shapes'
    BY <2>1, <2>2 DEF IInv, Shapes, tables
  <2>4. TypeOK'
    <3>1. \A q \in Pulls : snapshot[q].h \in 0 .. pull'[q]
      BY <2>2 DEF IInv, Shapes, TypeOK
    <3> QED
      BY <2>1, <2>2, <3>1 DEF IInv, TypeOK, tables
  <2>5. ASSUME NEW i \in Indexers PROVE IndexerOK(i)'
    <3> DEFINE q == indexer[i].p
    <3>1. IndexerOK(i) /\ indexer[i].h \in Nat
      BY DEF IInv, TypeOK
    <3>2. SUFFICES ASSUME indexer[i].pc # "idle" PROVE IndexerOK(i)'
      BY <2>1 DEF IndexerOK
    <3>3. q \in Pulls /\ indexer[i].h \in 1 .. pull'[q]
      BY <2>2, <3>1, <3>2 DEF IndexerOK, IInv, Shapes
    <3>4. q \notin crossed' => indexer[i].h = pull'[q]
      <4>1. CASE q = p
        BY <2>1, <3>2, <4>1 DEF Busy
      <4>2. CASE q # p
        BY <2>1, <3>1, <3>2, <3>3, <4>2 DEF IndexerOK, IInv, Shapes
      <4> QED
        BY <4>1, <4>2
    <3> QED
      BY <2>1, <3>1, <3>2, <3>3, <3>4 DEF IndexerOK
  <2>6. ServedIsShown'
    BY <2>1 DEF IInv, ServedIsShown, Shapes, tables
  <2>7. SnapshotsHaveCommits' /\ \A q \in want' : pull'[q] >= 1
    BY <1>1, <2>1, <2>2 DEF IInv, SnapshotsHaveCommits, Shapes, TypeOK, tables
  <2> QED
    BY <2>1, <2>3, <2>4, <2>5, <2>6, <2>7 DEF IInv, tables
<1> QED
  BY <1>2, <1>3

LEMMA SyncStep ==
  ASSUME IInv, NEW i \in Indexers, NEW p \in Pulls, SyncPullRequestIndex(i, p)
  PROVE  IInv'
<1> DEFINE r == [Idle EXCEPT !.pc = "wait", !.p = p, !.h = pull[p]]
<1>1. /\ want' = want \ {p} /\ indexer' = [indexer EXCEPT ![i] = r] /\ p \in want /\ indexer[i] = Idle
      /\ UNCHANGED <<head, pull, tables, refs, mirror, lock, failures, history>>
  BY DEF SyncPullRequestIndex
<1>2. pull[p] \in Nat /\ pull[p] >= 1
  BY <1>1 DEF IInv, Shapes
<1>3. r \in IndexerType /\ r.pc = "wait" /\ r.p = p /\ r.h = pull[p]
  BY <1>2 DEF Idle, IndexerType, Phases
<1> HIDE DEF r
<1>4. indexer' \in [Indexers -> IndexerType] /\ \A j \in Indexers : indexer'[j] = IF j = i THEN r ELSE indexer[j]
  BY <1>1, <1>3 DEF IInv, TypeOK, IndexerType
<1>5. TypeOK' /\ Shapes'
  BY <1>1, <1>3, <1>4 DEF IInv, TypeOK, IndexerType, Shapes, tables
<1>6. ASSUME NEW j \in Indexers PROVE IndexerOK(j)'
  BY <1>1, <1>2, <1>3, <1>4 DEF IInv, IndexerOK, history
<1>7. \A q \in Pulls : Busy(q)' <=> Busy(q) \/ q = p
  BY <1>1, <1>3, <1>4 DEF Busy, Idle
<1>8. ServedIsShown' /\ SnapshotsHaveCommits'
  BY <1>1, <1>7 DEF IInv, ServedIsShown, SnapshotsHaveCommits, history, tables
<1> QED
  BY <1>1, <1>5, <1>6, <1>8 DEF IInv, tables

\* An indexing that ends: the others are as they were.
LEMMA EndsStep ==
  ASSUME IInv, NEW i \in Indexers, Ends(i), UNCHANGED <<head, pull, refs, crossed>>,
         Shapes', mirror.dir = "mirror" => mirror'.dir = "mirror"
  PROVE  /\ indexer' \in [Indexers -> IndexerType]
         /\ lock' \in Indexers \cup {Free}
         /\ \A j \in Indexers : indexer'[j].pc \notin {"idle", "wait"} => lock' = j
         /\ \A j \in Indexers : IndexerOK(j)'
         /\ \A p \in Pulls : Busy(p) => Busy(p)' \/ indexer[i].p = p
         /\ \A p \in Pulls : Busy(p)' => Busy(p)
<1>1. Idle \in IndexerType /\ Idle.pc = "idle"
  BY DEF Idle, IndexerType, Phases
<1>2. indexer' \in [Indexers -> IndexerType] /\ \A j \in Indexers : indexer'[j] = IF j = i THEN Idle ELSE indexer[j]
  BY <1>1 DEF Ends, IInv, TypeOK, IndexerType
<1>3. lock' \in Indexers \cup {Free} /\ \A j \in Indexers : indexer'[j].pc \notin {"idle", "wait"} => lock' = j
  BY <1>1, <1>2 DEF Ends, IInv, TypeOK
<1>4. ASSUME NEW j \in Indexers PROVE IndexerOK(j)'
  BY <1>1, <1>2 DEF IInv, IndexerOK
<1> QED
  BY <1>1, <1>2, <1>3, <1>4 DEF Busy

LEMMA WriteStep ==
  ASSUME IInv, NEW i \in Indexers, WritePullRequestIndex(i)
  PROVE  IInv'
<1> DEFINE p == indexer[i].p
           h == indexer[i].h
           row == [h |-> h, as |-> diff.pull.as, fresh |-> "current", rows |-> diff.pull.rows]
<1>1. /\ indexer[i].pc = "write" /\ Ends(i) /\ snapshot' = [snapshot EXCEPT ![p] = row]
      /\ commits' = [c \in Commits |->
                       IF c \in CommitsOf[p][h] /\ shouldRewriteCommitBundle(commits[c], Parents[c])
                       THEN CommitBundle(c) ELSE commits[c]]
      /\ Serves(i) /\ UNCHANGED <<head, pull, want, refs, mirror, failures, crossed>>
  BY DEF WritePullRequestIndex, IndexedHead, callers
<1>2. p \in Pulls /\ h \in 1 .. pull[p] /\ pull[p] \in Nat /\ (p \notin crossed => h = pull[p])
  BY <1>1 DEF IInv, IndexerOK, Shapes
<1>3. Shapes'
  BY <1>1 DEF IInv, Shapes
<1>4. /\ indexer' \in [Indexers -> IndexerType] /\ lock' \in Indexers \cup {Free}
      /\ \A j \in Indexers : indexer'[j].pc \notin {"idle", "wait"} => lock' = j
      /\ \A j \in Indexers : IndexerOK(j)'
      /\ \A q \in Pulls : Busy(q) => Busy(q)' \/ p = q
  BY <1>1, <1>3, EndsStep
<1>5. snapshot'[p].h = h /\ snapshot'[p].as = diff.pull.as /\ \A q \in Pulls \ {p} : snapshot'[q] = snapshot[q]
  BY <1>1, <1>2 DEF IInv, Shapes
<1>6. TypeOK'
  BY <1>1, <1>2, <1>4, <1>5, SMTT(30) DEF IInv, TypeOK, IndexerType
<1>7. ServedIsShown'
  BY <1>1, <1>2, <1>5 DEF IInv, ServedIsShown, Serves
<1>8. h \in DOMAIN CommitsOf[p] /\ CommitsOf[p][h] \subseteq Commits
  <2>1. h \in DOMAIN CommitsOf[p]
    BY <1>2, IndexAssumption DEF IInv, TypeOK, Shapes
  <2> QED
    BY <1>2, <2>1, HeadCommits
<1>9. ASSUME NEW c \in Commits
      PROVE  /\ Parents[c] \in Nat /\ CommitBundle(c).stored /\ Len(CommitBundle(c).parents) = Parents[c]
             /\ ~shouldRewriteCommitBundle(commits[c], Parents[c]) =>
                   commits[c].stored /\ Len(commits[c].parents) = Parents[c]
  <2>1. Parents[c] \in Nat
    BY IndexAssumption
  <2>2. CommitBundle(c).stored
    BY DEF CommitBundle
  <2>3. Len(CommitBundle(c).parents) = Parents[c]
    <3> DEFINE e == IF Parents[c] > 1 THEN diff.merge ELSE diff.commit
               n == Parents[c]
    <3>1. CommitBundle(c).parents = [k \in 1 .. n |-> e]
      BY DEF CommitBundle
    <3> HIDE DEF e
    <3>2. [k \in 1 .. n |-> e] \in Seq({e}) /\ DOMAIN [k \in 1 .. n |-> e] = 1 .. n
      BY <2>1
    <3>3. Len([k \in 1 .. n |-> e]) = n
      BY <2>1, <3>2
    <3> QED
      BY <3>1, <3>3
  <2> QED
    BY <2>1, <2>2, <2>3 DEF shouldRewriteCommitBundle, IInv
<1>10. ASSUME NEW c \in Commits
       PROVE  /\ commits[c].stored /\ Len(commits[c].parents) = Parents[c] =>
                    commits'[c].stored /\ Len(commits'[c].parents) = Parents[c]
              /\ c \in CommitsOf[p][h] => commits'[c].stored /\ Len(commits'[c].parents) = Parents[c]
              /\ Parents[c] = 0 => Len(commits'[c].parents) = 0
  BY <1>1, <1>9 DEF IInv
<1>11. SnapshotsHaveCommits'
  <2> SUFFICES ASSUME NEW q \in Pulls, snapshot'[q].as \notin {"none", "failed"},
                      NEW c \in CommitsOf[q][snapshot'[q].h]
               PROVE  commits'[c].stored /\ Len(commits'[c].parents) = Parents[c]
    BY DEF SnapshotsHaveCommits
  <2>1. CASE q = p
    BY <1>5, <1>8, <1>10, <2>1
  <2>2. CASE q # p
    <3>1. snapshot'[q] = snapshot[q] /\ snapshot[q].h \in DOMAIN CommitsOf[q]
      BY <1>5, <2>2, IndexAssumption DEF IInv, TypeOK, Shapes
    <3>2. c \in Commits
      BY <3>1, HeadCommits
    <3>3. commits[c].stored /\ Len(commits[c].parents) = Parents[c]
      BY <3>1 DEF IInv, SnapshotsHaveCommits
    <3> QED
      BY <1>10, <3>2, <3>3
  <2> QED
    BY <2>1, <2>2
<1>12. \A q \in Pulls : snapshot'[q].as \notin {"none", "failed"} => snapshot'[q].h >= 1
  BY <1>2, <1>5 DEF IInv
<1> QED
  BY <1>1, <1>3, <1>4, <1>6, <1>7, <1>10, <1>11, <1>12 DEF IInv

LEMMA FailedStep ==
  ASSUME IInv, NEW i \in Indexers, MarkSnapshotFailed(i)
  PROVE  IInv'
<1> DEFINE p == indexer[i].p
           row == [h |-> indexer[i].h, as |-> "failed", fresh |-> "failed", rows |-> <<>>]
<1>1. /\ indexer[i].pc = "failed" /\ Ends(i) /\ snapshot' = [snapshot EXCEPT ![p] = row]
      /\ Serves(i) /\ UNCHANGED <<head, pull, want, commits, refs, mirror, failures, crossed>>
  BY DEF MarkSnapshotFailed, callers
<1>2. p \in Pulls /\ indexer[i].h \in 1 .. pull[p] /\ pull[p] \in Nat /\ (p \notin crossed => indexer[i].h = pull[p])
  BY <1>1 DEF IInv, IndexerOK, Shapes
<1>3. Shapes'
  BY <1>1 DEF IInv, Shapes
<1>4. /\ indexer' \in [Indexers -> IndexerType] /\ lock' \in Indexers \cup {Free}
      /\ \A j \in Indexers : indexer'[j].pc \notin {"idle", "wait"} => lock' = j
      /\ \A j \in Indexers : IndexerOK(j)'
      /\ \A q \in Pulls : Busy(q) => Busy(q)' \/ p = q
  BY <1>1, <1>3, EndsStep
<1>5. snapshot'[p].h = indexer[i].h /\ snapshot'[p].as = "failed" /\ \A q \in Pulls \ {p} : snapshot'[q] = snapshot[q]
  BY <1>1, <1>2 DEF IInv, Shapes
<1>6. TypeOK'
  BY <1>1, <1>2, <1>4, <1>5, SMTT(30) DEF IInv, TypeOK, IndexerType
<1>7. ServedIsShown'
  BY <1>1, <1>2, <1>5 DEF IInv, ServedIsShown, Serves
<1>8. SnapshotsHaveCommits' /\ \A q \in Pulls : snapshot'[q].as \notin {"none", "failed"} => snapshot'[q].h >= 1
  BY <1>1, <1>5 DEF IInv, SnapshotsHaveCommits
<1> QED
  BY <1>1, <1>3, <1>4, <1>6, <1>7, <1>8 DEF IInv

\* An indexing that is cut short is asked for again, or given up.
LEMMA AbortStep ==
  ASSUME IInv, NEW i \in Indexers, Aborts(i)
  PROVE  IInv'
<1>1. /\ indexer[i].pc # "idle" /\ Ends(i) /\ want' \in {want, want \cup {indexer[i].p}} /\ failures' = failures + 1
      /\ UNCHANGED <<head, pull, tables, refs, history>>
      /\ mirror' = mirror \/ (mirror.dir = "absent" /\ mirror' = [mirror EXCEPT !.dir = "broken"])
  BY DEF Aborts
<1>2. indexer[i].p \in Pulls /\ pull[indexer[i].p] >= 1
  <2>1. IndexerOK(i) /\ pull \in [Pulls -> Nat]
    BY DEF IInv, Shapes
  <2>2. indexer[i].p \in Pulls /\ indexer[i].h \in 1 .. pull[indexer[i].p]
    BY <1>1, <2>1 DEF IndexerOK
  <2> QED
    BY <2>1, <2>2
<1>3. Shapes' /\ (mirror.dir = "mirror" => mirror'.dir = "mirror")
  <2>1. mirror' \in [dir : {"absent", "broken", "mirror"}, origin : BOOLEAN, objects : SUBSET Commits]
    BY <1>1 DEF IInv, Shapes
  <2> QED
    BY <1>1, <2>1 DEF IInv, Shapes, tables
<1>4. /\ indexer' \in [Indexers -> IndexerType] /\ lock' \in Indexers \cup {Free}
      /\ \A j \in Indexers : indexer'[j].pc \notin {"idle", "wait"} => lock' = j
      /\ \A j \in Indexers : IndexerOK(j)'
      /\ \A q \in Pulls : Busy(q) => Busy(q)' \/ indexer[i].p = q
  BY <1>1, <1>3, EndsStep DEF history
<1>5. /\ mirror'.dir \in {"absent", "broken", "mirror"} /\ mirror'.objects \subseteq Commits
      /\ mirror'.dir # "mirror" => ~mirror'.origin /\ mirror'.objects = {}
  BY <1>1, <1>3 DEF IInv, TypeOK, Shapes
<1>6. TypeOK'
  BY <1>1, <1>2, <1>4, <1>5 DEF IInv, TypeOK, IndexerType, tables
<1>7. ServedIsShown'
  BY <1>1 DEF IInv, ServedIsShown, history, tables
<1>8. SnapshotsHaveCommits'
  BY <1>1 DEF IInv, SnapshotsHaveCommits, tables
<1> QED
  BY <1>1, <1>2, <1>3, <1>4, <1>6, <1>7, <1>8 DEF IInv, tables

LEMMA NextIInv == IInv /\ [Next]_vars => IInv'
<1> SUFFICES ASSUME IInv, [Next]_vars PROVE IInv'
  OBVIOUS
<1>1. CASE UNCHANGED vars
  BY <1>1 DEF vars, tables, IInv, Shapes, TypeOK, IndexerOK, SnapshotsHaveCommits, ServedIsShown, history
<1>2. ASSUME NEW p \in Pulls, Push(p) \/ StorePull(p) PROVE IInv'
  BY <1>2, CallerStep
<1>3. ASSUME NEW i \in Indexers, NEW p \in Pulls, SyncPullRequestIndex(i, p) PROVE IInv'
  BY <1>3, SyncStep
<1>4. ASSUME NEW i \in Indexers, withRepoLock(i) \/ InitMirror(i) \/ RemoveOrigin(i) \/ AddOrigin(i) PROVE IInv'
  BY <1>4, WaitsAndInits
<1>5. ASSUME NEW i \in Indexers, Fetch(i) \/ StoreRefs(i) \/ BuildPullRequestIndexResult(i) \/ GitFails(i) PROVE IInv'
  BY <1>5, FetchesAndBuilds
<1>6. ASSUME NEW i \in Indexers, WritePullRequestIndex(i) \/ MarkSnapshotFailed(i) \/ Aborts(i) PROVE IInv'
  BY <1>6, WriteStep, FailedStep, AbortStep
<1> QED
  BY <1>1, <1>2, <1>3, <1>4, <1>5, <1>6 DEF Next

\* The inductive invariant holds in every behaviour.
THEOREM Invariance == Spec => []IInv
BY InitIInv, NextIInv, PTL DEF Spec

\* Types, the order of stored and known heads, and the mutual exclusion of
\* the indexers that work in the mirror (withRepoLock, ensureMirror).
THEOREM TypeCorrect == Spec => []TypeOK
<1>1. IInv => TypeOK
  BY DEF IInv
<1> QED
  BY <1>1, Invariance, PTL

\* However many pull requests share a commit and whatever was stored of it
\* before, a snapshot has all its commits with all their parents
\* (writePullRequestIndex, shouldRewriteCommitBundle).
THEOREM SnapshotsComplete == Spec => []SnapshotsHaveCommits
<1>1. IInv => SnapshotsHaveCommits
  BY DEF IInv
<1> QED
  BY <1>1, Invariance, PTL

\* What an indexing returned no error for stays shown until the row is
\* stored again, whatever is pushed, fails, times out or dies meanwhile
\* (SyncPullRequestIndex, markSnapshotFailed).
THEOREM ServedStaysShown == Spec => []ServedIsShown
<1>1. IInv => ServedIsShown
  BY DEF IInv
<1> QED
  BY <1>1, Invariance, PTL

\* Only the indexer at its refs stores one, and it has a head no older.
LEMMA RefStep == IInv /\ [Next]_vars => [\A p \in Pulls : refs'[p] >= refs[p]]_vars
<1> SUFFICES ASSUME IInv, Next PROVE \A p \in Pulls : refs'[p] >= refs[p]
  BY DEF vars
<1>1. refs \in [Pulls -> Nat]
  BY DEF IInv, Shapes
<1>2. CASE UNCHANGED refs
  BY <1>1, <1>2
<1>3. ASSUME NEW i \in Indexers, StoreRefs(i) PROVE \A p \in Pulls : refs'[p] >= refs[p]
  <2>1. indexer[i].p \in Pulls /\ indexer[i].tip \in refs[indexer[i].p] .. head[indexer[i].p]
    BY <1>3 DEF StoreRefs, IInv, IndexerOK
  <2>2. refs' = [refs EXCEPT ![indexer[i].p] = indexer[i].tip]
    BY <1>3 DEF StoreRefs
  <2> QED
    BY <1>1, <2>1, <2>2 DEF IInv, Shapes
<1>4. UNCHANGED refs \/ \E i \in Indexers : StoreRefs(i)
  BY DEF Next, Push, StorePull, SyncPullRequestIndex, withRepoLock, InitMirror, RemoveOrigin, AddOrigin,
         Fetch, BuildPullRequestIndexResult, WritePullRequestIndex, MarkSnapshotFailed, GitFails, Aborts
<1> QED
  BY <1>2, <1>3, <1>4

\* Stored refs never go back, although every indexer fetches for itself:
\* the lock makes a fetch and the write of its refs one (syncRefs).
THEOREM RefsNeverGoBack == Spec => RefsAdvance
BY RefStep, Invariance, PTL DEF Spec, RefsAdvance
-----------------------------------------------------------------------------
(* Folds.  Induction over naturals and over finite sets is had from the    *)
(* least element of a set; the function that a fold is computed with is    *)
(* had from functions that are right for ever larger sets.                 *)
Less == {ss \in Nat \X Nat : ss[1] < ss[2]}

\* A set of natural numbers that is not empty has a least element.
LEMMA LeastOf ==
  ASSUME NEW S \in SUBSET Nat, S # {}
  PROVE  \E x \in S : \A y \in S : x <= y
<1>1. IsWellFoundedOn(Less, Nat)
  <2>1. OpToRel(<, Nat) = Less
    BY Zenon DEF OpToRel, Less
  <2> QED
    BY <2>1, NatLessThanWellFounded, Zenon
<1>2. PICK x \in S : \A y \in S : ~(<<y, x>> \in Less)
  BY <1>1, WFMin
<1>3. ASSUME NEW y \in S PROVE x <= y
  <2>1. <<y, x>> \in Nat \X Nat => ~(y < x)
    BY <1>2 DEF Less
  <2> QED
    BY <2>1
<1> QED
  BY <1>3

\* Induction, with a set in place of a predicate.
LEMMA NatSet ==
  ASSUME NEW Q, 0 \in Q, \A n \in Nat : n \in Q => n + 1 \in Q
  PROVE  Nat \subseteq Q
<1> SUFFICES ASSUME NEW m \in Nat, m \notin Q PROVE FALSE
  OBVIOUS
<1> DEFINE R == {n \in Nat : n \notin Q}
<1>1. PICK x \in R : \A y \in R : x <= y
  <2> R # {} /\ R \in SUBSET Nat
    OBVIOUS
  <2> HIDE DEF R
  <2> QED
    BY LeastOf
<1>2. x # 0 /\ x - 1 \in Nat /\ x - 1 + 1 = x
  BY <1>1
<1>3. x - 1 \in Q
  BY <1>1, <1>2
<1> QED
  BY <1>1, <1>2, <1>3

\* The same for the subsets of a finite set, taken apart by one element
\* at a time: c is which.
TakesApart(c, S) == IsFiniteSet(S) /\ \A s \in SUBSET S : s # {} => c[s] \in s

LEMMA SubsetsOneByOne ==
  ASSUME NEW S, NEW c, TakesApart(c, S), NEW Q, {} \in Q,
         \A s \in SUBSET S : s # {} /\ s \ {c[s]} \in Q => s \in Q
  PROVE  SUBSET S \subseteq Q
<1> USE DEF TakesApart
<1> DEFINE N == {n \in Nat : \A s \in SUBSET S : Cardinality(s) = n => s \in Q}
<1>1. \A s \in SUBSET S : IsFiniteSet(s) /\ Cardinality(s) \in Nat
  BY FS_Subset, FS_CardinalityType
<1>2. 0 \in N
  <2>1. \A s \in SUBSET S : Cardinality(s) = 0 => s = {}
    BY <1>1, FS_EmptySet
  <2> QED
    BY <2>1
<1>3. ASSUME NEW n \in Nat, n \in N PROVE n + 1 \in N
  <2>1. ASSUME NEW s \in SUBSET S, Cardinality(s) = n + 1 PROVE s \in Q
    <3>1. s # {} /\ c[s] \in s
      BY <2>1, FS_EmptySet
    <3>2. Cardinality(s \ {c[s]}) = Cardinality(s) - 1
      BY <3>1, <1>1, FS_RemoveElement
    <3>3. s \ {c[s]} \in Q
      BY <3>2, <2>1, <1>3
    <3> QED
      BY <3>1, <3>3
  <2> QED
    BY <2>1
<1>4. Nat \subseteq N
  <2> HIDE DEF N
  <2> QED
    BY <1>2, <1>3, NatSet
<1> QED
  BY <1>1, <1>4

\* A fold of a finite set S takes it apart by c; G[s][v] is what becomes of
\* the value v of the rest of s.
Foldable(S, c, V, base, G) ==
    /\ TakesApart(c, S) /\ base \in V
    /\ \A s \in SUBSET S : \A v \in V : s # {} => G[s][v] \in V

FoldIs(g, S, c, base, G) == \A s \in SUBSET S : g[s] = IF s = {} THEN base ELSE G[s][g[s \ {c[s]}]]

\* A function that does that exists.
LEMMA FoldExists ==
  ASSUME NEW S, NEW c, NEW V, NEW base, NEW G, Foldable(S, c, V, base, G)
  PROVE  \E g \in [SUBSET S -> V] : FoldIs(g, S, c, base, G)
<1> USE DEF TakesApart, Foldable, FoldIs
<1> DEFINE Up(n) == {s \in SUBSET S : Cardinality(s) <= n}
           Folds(g, n) == \A s \in Up(n) : g[s] = IF s = {} THEN base ELSE G[s][g[s \ {c[s]}]]
           N == {n \in Nat : \E g \in [SUBSET S -> V] : Folds(g, n)}
<1>1. \A s \in SUBSET S : IsFiniteSet(s) /\ Cardinality(s) \in Nat
  BY FS_Subset, FS_CardinalityType
<1>2. 0 \in N
  <2> DEFINE g == [s \in SUBSET S |-> base]
  <2>1. \A s \in Up(0) : s = {}
    BY <1>1, FS_EmptySet
  <2>2. g \in [SUBSET S -> V] /\ Folds(g, 0)
    BY <2>1
  <2> QED
    BY <2>2
<1>3. ASSUME NEW n \in Nat, n \in N PROVE n + 1 \in N
  <2>1. PICK g \in [SUBSET S -> V] : Folds(g, n)
    BY <1>3
  <2> DEFINE h == [s \in SUBSET S |-> IF s = {} THEN base ELSE G[s][g[s \ {c[s]}]]]
  <2>2. h \in [SUBSET S -> V]
    <3> SUFFICES ASSUME NEW s \in SUBSET S PROVE (IF s = {} THEN base ELSE G[s][g[s \ {c[s]}]]) \in V
      OBVIOUS
    <3>1. s \ {c[s]} \in SUBSET S
      OBVIOUS
    <3>2. g[s \ {c[s]}] \in V
      BY <3>1
    <3> QED
      BY <3>2
  <2>3. ASSUME NEW s \in Up(n) PROVE h[s] = g[s]
    BY <2>1
  <2>4. ASSUME NEW s \in Up(n + 1), s # {} PROVE s \ {c[s]} \in Up(n)
    <3>1. c[s] \in s
      BY <2>4
    <3>2. Cardinality(s \ {c[s]}) = Cardinality(s) - 1
      BY <3>1, <1>1, FS_RemoveElement
    <3> QED
      BY <3>2, <1>1
  <2>5. Folds(h, n + 1)
    <3> SUFFICES ASSUME NEW s \in Up(n + 1), s # {} PROVE h[s] = G[s][h[s \ {c[s]}]]
      OBVIOUS
    <3>1. h[s] = G[s][g[s \ {c[s]}]]
      OBVIOUS
    <3>2. h[s \ {c[s]}] = g[s \ {c[s]}]
      <4> HIDE DEF h, Up
      <4> QED
        BY <2>3, <2>4
    <3> HIDE DEF h
    <3> QED
      BY <3>1, <3>2
  <2> HIDE DEF h, Folds
  <2> QED
    BY <2>2, <2>5
<1>4. Nat \subseteq N
  <2> HIDE DEF N
  <2> QED
    BY <1>2, <1>3, NatSet
<1>5. Cardinality(S) \in Nat /\ \A s \in SUBSET S : Cardinality(s) <= Cardinality(S)
  BY FS_Subset, FS_CardinalityType
<1>6. PICK g \in [SUBSET S -> V] : Folds(g, Cardinality(S))
  BY <1>4, <1>5
<1>7. Up(Cardinality(S)) = SUBSET S
  BY <1>5
<1> QED
  BY <1>6, <1>7

\* The sums of ChangeDetail: of naturals a natural, of zeros zero.
LEMMA SumIsNat ==
  ASSUME NEW F, IsFiniteSet(DOMAIN F), \A x \in DOMAIN F : F[x] \in Nat
  PROVE  /\ FoldFunction(+, 0, F) \in Nat
         /\ (\A x \in DOMAIN F : F[x] = 0) => FoldFunction(+, 0, F) = 0
<1> DEFINE S == DOMAIN F
           c == [s \in SUBSET S |-> CHOOSE x \in s : TRUE]
           G == [s \in SUBSET S |-> [v \in Nat |-> F[c[s]] + v]]
           Eq(g) == g = [s \in SUBSET S |-> IF s = {} THEN 0
                                            ELSE F[CHOOSE x \in s : TRUE] + g[s \ {CHOOSE x \in s : TRUE}]]
           iter == CHOOSE g : Eq(g)
<1>1. FoldFunction(+, 0, F) = iter[S]
  BY DEF FoldFunction, FoldFunctionOnSet, MapThenFoldSet
<1>2. \A s \in SUBSET S : s # {} => c[s] \in s
  OBVIOUS
<1>3. TakesApart(c, S)
  BY <1>2 DEF TakesApart
<1>4. \A s \in SUBSET S : \A v \in Nat : s # {} => G[s][v] = F[c[s]] + v /\ G[s][v] \in Nat
  BY <1>2
<1>5. PICK g \in [SUBSET S -> Nat] : \A s \in SUBSET S : g[s] = IF s = {} THEN 0 ELSE G[s][g[s \ {c[s]}]]
  <2>1. Foldable(S, c, Nat, 0, G)
    BY <1>3, <1>4 DEF Foldable
  <2>2. PICK g \in [SUBSET S -> Nat] : FoldIs(g, S, c, 0, G)
    <3> HIDE DEF S, c, G
    <3> QED
      BY <2>1, FoldExists
  <2> HIDE DEF c, G, S
  <2> QED
    BY <2>2 DEF FoldIs
<1>6. Eq(g)
  <2>1. ASSUME NEW s \in SUBSET S, s # {} PROVE g[s] = F[CHOOSE x \in s : TRUE] + g[s \ {CHOOSE x \in s : TRUE}]
    <3>1. s \ {c[s]} \in SUBSET S /\ c[s] = CHOOSE x \in s : TRUE
      OBVIOUS
    <3>2. g[s \ {c[s]}] \in Nat
      BY <3>1
    <3>3. g[s] = F[c[s]] + g[s \ {c[s]}]
      <4> HIDE DEF c, G
      <4> QED
        BY <1>4, <1>5, <2>1, <3>2
    <3> QED
      BY <3>1, <3>3
  <2>2. \A s \in SUBSET S : s = {} => g[s] = 0
    BY <1>5
  <2> HIDE DEF c, G
  <2> QED
    BY <2>1, <2>2
<1>7. Eq(iter)
  <2> HIDE DEF Eq
  <2> QED
    BY <1>6, Zenon
<1>8. \A s \in SUBSET S : iter[s] = IF s = {} THEN 0 ELSE F[c[s]] + iter[s \ {c[s]}]
  <2> SUFFICES ASSUME NEW s \in SUBSET S PROVE iter[s] = IF s = {} THEN 0 ELSE F[c[s]] + iter[s \ {c[s]}]
    OBVIOUS
  <2>1. c[s] = CHOOSE x \in s : TRUE
    OBVIOUS
  <2> HIDE DEF c, iter
  <2> QED
    BY <1>7, <2>1
<1> HIDE DEF iter, c, G, Eq
<1> DEFINE Q == {s \in SUBSET S : iter[s] \in Nat /\ ((\A x \in s : F[x] = 0) => iter[s] = 0)}
<1>9. {} \in Q
  <2>1. {} \in SUBSET S
    OBVIOUS
  <2>2. iter[{}] = 0
    BY <1>8, <2>1
  <2> QED
    BY <2>1, <2>2
<1>10. ASSUME NEW s \in SUBSET S, s # {}, s \ {c[s]} \in Q PROVE s \in Q
  BY <1>2, <1>8, <1>10
<1>11. SUBSET S \subseteq Q
  <2>1. \A s \in SUBSET S : s # {} /\ s \ {c[s]} \in Q => s \in Q
    BY <1>10
  <2> HIDE DEF Q, S
  <2> QED
    BY <1>3, <1>9, <2>1, SubsetsOneByOne
<1> QED
  BY <1>1, <1>11

\* A set of naturals up to n that is not empty has a greatest element.
LEMMA MaxOf ==
  ASSUME NEW n \in Nat, NEW s \in SUBSET (1 .. n), s # {}
  PROVE  Max(s) \in s
<1> DEFINE R == {k \in Nat : \E x \in s : k = n - x}
<1>1. R # {}
  <2>1. PICK x \in s : x \in 1 .. n
    OBVIOUS
  <2>2. n - x \in R
    BY <2>1
  <2> QED
    BY <2>2
<1>2. PICK k \in R : \A m \in R : k <= m
  <2> R \in SUBSET Nat
    OBVIOUS
  <2> HIDE DEF R
  <2> QED
    BY <1>1, LeastOf
<1>3. PICK x \in s : k = n - x
  BY <1>2
<1>4. ASSUME NEW y \in s PROVE x >= y
  <2>1. x \in 1 .. n /\ y \in 1 .. n /\ n - y \in R
    OBVIOUS
  <2>2. n - x <= n - y
    <3> HIDE DEF R
    <3> QED
      BY <1>2, <1>3, <2>1
  <2> QED
    BY <2>1, <2>2
<1> QED
  BY <1>3, <1>4 DEF Max

\* What one file's patch makes of the files.
PatchOne(fs, f) ==
    [p \in DOMAIN fs \cup {PatchPath(f)} |->
        IF p = PatchPath(f)
        THEN applyFileDiffDetails(IF PatchPath(f) \in DOMAIN fs THEN fs[PatchPath(f)] ELSE Blank, f)
        ELSE fs[p]]

\* What each patch of a diff preserves, the fold over the diff preserves.
LEMMA PatchesPreserve ==
  ASSUME NEW d, NEW n \in Nat, DOMAIN d = 1 .. n, NEW W, NEW files \in W,
         \A fs \in W : \A i \in DOMAIN d : PatchOne(fs, d[i]) \in W
  PROVE  applyPatchDetails(files, d) \in W
<1> DEFINE S == DOMAIN d
           c == [s \in SUBSET S |-> Max(s)]
           G == [s \in SUBSET S |-> [v \in W |-> PatchOne(v, d[c[s]])]]
           Eq(g) == g = [s \in SUBSET S |-> IF s = {} THEN files ELSE PatchOne(g[s \ {Max(s)}], d[Max(s)])]
           iter == CHOOSE g : Eq(g)
<1>1. applyPatchDetails(files, d) = iter[S]
  BY DEF applyPatchDetails, FoldLeft, MapThenFoldSet, PatchOne
<1>2. \A s \in SUBSET S : s # {} => c[s] \in s
  BY MaxOf
<1>3. \A s \in SUBSET S : \A v \in W : s # {} => G[s][v] = PatchOne(v, d[c[s]]) /\ G[s][v] \in W
  <2> HIDE DEF c
  <2> QED
    BY <1>2
<1>4. TakesApart(c, S)
  <2>1. IsFiniteSet(S)
    BY FS_Interval
  <2> HIDE DEF c, S
  <2> QED
    BY <1>2, <2>1 DEF TakesApart
<1>5. PICK g \in [SUBSET S -> W] : \A s \in SUBSET S : g[s] = IF s = {} THEN files ELSE G[s][g[s \ {c[s]}]]
  <2>1. Foldable(S, c, W, files, G)
    BY <1>3, <1>4 DEF Foldable
  <2>2. PICK g \in [SUBSET S -> W] : FoldIs(g, S, c, files, G)
    <3> HIDE DEF S, c, G
    <3> QED
      BY <2>1, FoldExists
  <2> HIDE DEF c, G, S
  <2> QED
    BY <2>2 DEF FoldIs
<1>6. Eq(g)
  <2>1. ASSUME NEW s \in SUBSET S, s # {} PROVE g[s] = PatchOne(g[s \ {Max(s)}], d[Max(s)])
    <3>1. s \ {c[s]} \in SUBSET S /\ c[s] = Max(s)
      OBVIOUS
    <3>2. g[s \ {c[s]}] \in W
      BY <3>1
    <3>3. g[s] = PatchOne(g[s \ {c[s]}], d[c[s]])
      <4> HIDE DEF c, G
      <4> QED
        BY <1>3, <1>5, <2>1, <3>2
    <3> QED
      BY <3>1, <3>3
  <2>2. \A s \in SUBSET S : s = {} => g[s] = files
    BY <1>5
  <2> HIDE DEF c, G
  <2> QED
    BY <2>1, <2>2
<1>7. Eq(iter)
  <2> HIDE DEF Eq
  <2> QED
    BY <1>6, Zenon
<1>8. \A s \in SUBSET S : iter[s] = IF s = {} THEN files ELSE PatchOne(iter[s \ {c[s]}], d[c[s]])
  <2> SUFFICES ASSUME NEW s \in SUBSET S
               PROVE iter[s] = IF s = {} THEN files ELSE PatchOne(iter[s \ {c[s]}], d[c[s]])
    OBVIOUS
  <2>1. c[s] = Max(s)
    OBVIOUS
  <2> HIDE DEF c, iter
  <2> QED
    BY <1>7, <2>1
<1> HIDE DEF iter, c, G, Eq
<1> DEFINE Q == {s \in SUBSET S : iter[s] \in W}
<1>9. {} \in Q
  <2>1. {} \in SUBSET S
    OBVIOUS
  <2>2. iter[{}] = files
    BY <1>8, <2>1
  <2> QED
    BY <2>1, <2>2
<1>10. ASSUME NEW s \in SUBSET S, s # {}, s \ {c[s]} \in Q PROVE s \in Q
  <2>1. iter[s \ {c[s]}] \in W /\ c[s] \in S
    BY <1>2, <1>10
  <2> QED
    BY <1>8, <1>10, <2>1
<1>11. SUBSET S \subseteq Q
  <2>1. \A s \in SUBSET S : s # {} /\ s \ {c[s]} \in Q => s \in Q
    BY <1>10
  <2> HIDE DEF Q, S
  <2> QED
    BY <1>4, <1>9, <2>1, SubsetsOneByOne
<1> QED
  BY <1>1, <1>11
-----------------------------------------------------------------------------
(* The files of a diff and what patches make of them.                      *)
Details == [lines : Nat, as : {"", "full", "paths_only"}, bytes : Nat, hunks : Nat, patchOf : Seq(STRING)]
PathsOf(d) == {d[i].path : i \in DOMAIN d}
Places(d) == PathsOf(d) \cup {PatchPath(d[i]) : i \in DOMAIN d}
FilesIn(d) == UNION {[D -> Details] : D \in SUBSET Places(d)}

LEMMA DiffFile ==
  ASSUME NEW d \in Seq(DiffFiles), NEW i \in DOMAIN d
  PROVE  /\ d[i] \in DiffFiles /\ d[i].lines \in Nat /\ d[i].bytes \in Nat /\ d[i].hunks \in Nat
         /\ d[i].path \in Seq(STRING) /\ d[i].path # <<>> /\ d[i].path # DevNull
         /\ d[i].status = "removed" => d[i].prev = <<>>
<1>1. d[i] \in DiffFiles
  OBVIOUS
<1>2. ASSUME NEW f \in DiffFiles
      PROVE  /\ f.lines \in Nat /\ f.bytes \in Nat /\ f.hunks \in Nat
             /\ f.path \in Seq(STRING) /\ f.path # <<>> /\ f.path # DevNull
             /\ f.status = "removed" => f.prev = <<>>
  BY DEF DiffFiles
<1> QED
  BY <1>1, <1>2

\* There are finitely many places.
LEMMA FinitePlaces ==
  ASSUME NEW d \in Seq(DiffFiles), NEW D \in SUBSET Places(d)
  PROVE  IsFiniteSet(D)
<1> DEFINE f == [i \in DOMAIN d |-> d[i].path]
           g == [i \in DOMAIN d |-> PatchPath(d[i])]
<1>1. IsFiniteSet(DOMAIN d)
  <2>1. PICK n \in Nat : DOMAIN d = 1 .. n
    OBVIOUS
  <2> QED
    BY <2>1, FS_Interval
<1>2. f \in Surjection(DOMAIN d, PathsOf(d)) /\ g \in Surjection(DOMAIN d, {PatchPath(d[i]) : i \in DOMAIN d})
  BY DEF Surjection, PathsOf
<1>3. IsFiniteSet(PathsOf(d)) /\ IsFiniteSet({PatchPath(d[i]) : i \in DOMAIN d})
  <2> HIDE DEF f, g
  <2> QED
    BY <1>1, <1>2, FS_Surjection
<1>4. IsFiniteSet(Places(d))
  BY <1>3, FS_Union DEF Places
<1> QED
  BY <1>4, FS_Subset

\* A file with its patch is a file.
LEMMA PatchedDetails ==
  ASSUME NEW file \in Details, NEW f, f.bytes \in Nat, f.hunks \in Nat, f.path \in Seq(STRING)
  PROVE  /\ applyFileDiffDetails(file, f) \in Details
         /\ applyFileDiffDetails(file, f).patchOf = f.path
  BY DEF Details, applyFileDiffDetails

LEMMA MetadataDetails ==
  ASSUME NEW d \in Seq(DiffFiles)
  PROVE  /\ mergeFileMetadata(d) \in [PathsOf(d) -> Details]
         /\ \A p \in PathsOf(d) : LET file == mergeFileMetadata(d)[p] IN
              file.as = "" /\ file.bytes = 0 /\ file.hunks = 0 /\ file.patchOf = <<>>
<1> DEFINE l(p) == (CHOOSE f \in ToSet(d) : f.path = p).lines
<1>1. ASSUME NEW p \in PathsOf(d) PROVE l(p) \in Nat
  <2>1. PICK i \in DOMAIN d : d[i].path = p
    BY DEF PathsOf
  <2>2. d[i] \in ToSet(d)
    BY DEF ToSet
  <2>3. (CHOOSE f \in ToSet(d) : f.path = p) \in ToSet(d)
    BY <2>1, <2>2
  <2> QED
    BY <2>3, DiffFile DEF ToSet
<1>2. mergeFileMetadata(d) = [p \in PathsOf(d) |-> [Blank EXCEPT !.lines = l(p)]]
  BY DEF mergeFileMetadata, PathsOf
<1>3. mergeFileMetadata(d) = [p \in PathsOf(d) |-> [lines |-> l(p), as |-> "", bytes |-> 0, hunks |-> 0, patchOf |-> <<>>]]
  BY <1>2 DEF Blank
<1> HIDE DEF l
<1>4. \A p \in PathsOf(d) : mergeFileMetadata(d)[p] = [lines |-> l(p), as |-> "", bytes |-> 0, hunks |-> 0, patchOf |-> <<>>]
  BY <1>3, Zenon
<1>5. <<>> \in Seq(STRING)
  OBVIOUS
<1>6. ASSUME NEW p \in PathsOf(d)
      PROVE  LET file == mergeFileMetadata(d)[p] IN
             file \in Details /\ file.as = "" /\ file.bytes = 0 /\ file.hunks = 0 /\ file.patchOf = <<>>
  <2> DEFINE n == l(p)
             file == [lines |-> n, as |-> "", bytes |-> 0, hunks |-> 0, patchOf |-> <<>>]
  <2>1. n \in Nat /\ mergeFileMetadata(d)[p] = file
    BY <1>1, <1>4
  <2>2. file \in Details /\ file.as = "" /\ file.bytes = 0 /\ file.hunks = 0 /\ file.patchOf = <<>>
    <3> HIDE DEF n
    <3> QED
      BY <1>5, <2>1 DEF Details
  <2> HIDE DEF file
  <2> QED
    BY <2>1, <2>2
<1>7. mergeFileMetadata(d) \in [PathsOf(d) -> Details]
  BY <1>3, <1>6
<1> QED
  BY <1>6, <1>7

LEMMA BlankDetails == Blank \in Details
<1>1. <<>> \in Seq(STRING)
  OBVIOUS
<1> QED
  BY <1>1 DEF Details, Blank

LEMMA PatchedFiles ==
  ASSUME NEW d \in Seq(DiffFiles)
  PROVE  applyPatchDetails(mergeFileMetadata(d), d) \in FilesIn(d)
<1>1. PICK n \in Nat : DOMAIN d = 1 .. n
  OBVIOUS
<1>2. mergeFileMetadata(d) \in FilesIn(d)
  <2>1. PathsOf(d) \in SUBSET Places(d)
    BY DEF Places
  <2> QED
    BY <2>1, MetadataDetails DEF FilesIn
<1>3. ASSUME NEW fs \in FilesIn(d), NEW i \in DOMAIN d PROVE PatchOne(fs, d[i]) \in FilesIn(d)
  <2> DEFINE q == PatchPath(d[i])
             old == IF q \in DOMAIN fs THEN fs[q] ELSE Blank
  <2>1. PICK D \in SUBSET Places(d) : fs \in [D -> Details]
    BY DEF FilesIn
  <2>2. q \in Places(d)
    BY DEF Places
  <2>3. old \in Details
    <3>1. q \in DOMAIN fs => fs[q] \in Details
      BY <2>1
    <3> QED
      BY <3>1, BlankDetails
  <2>4. applyFileDiffDetails(old, d[i]) \in Details
    <3> HIDE DEF old
    <3> QED
      BY <2>3, DiffFile, PatchedDetails
  <2>5. PatchOne(fs, d[i]) = [p \in D \cup {q} |-> IF p = q THEN applyFileDiffDetails(old, d[i]) ELSE fs[p]]
    BY <2>1 DEF PatchOne
  <2>6. PatchOne(fs, d[i]) \in [D \cup {q} -> Details]
    <3> HIDE DEF q, old
    <3> QED
      BY <2>1, <2>4, <2>5
  <2>7. D \cup {q} \in SUBSET Places(d)
    BY <2>2
  <2> HIDE DEF q
  <2> QED
    BY <2>6, <2>7 DEF FilesIn
<1> QED
  BY <1>1, <1>2, <1>3, PatchesPreserve

\* Both prefixes are cut off, and the name of a file is what is left.
LEMMA PatchPathIsPath ==
  ASSUME NEW d \in Seq(DiffFiles), NEW i \in DOMAIN d, d[i].status = "removed" => Head(d[i].path) # "b"
  PROVE  PatchPath(d[i]) = d[i].path
<1> DEFINE f == d[i]
           path == f.path
<1>1. path \in Seq(STRING) /\ path # <<>> /\ path # DevNull
  BY DiffFile
<1> HIDE DEF path
<1>2. /\ Len(<<"a">> \o path) > 1 /\ Head(<<"a">> \o path) = "a" /\ Tail(<<"a">> \o path) = path
      /\ Len(<<"b">> \o path) > 1 /\ Head(<<"b">> \o path) = "b" /\ Tail(<<"b">> \o path) = path
  BY <1>1
<1>3. TrimPrefix(<<"a">> \o path, "a") = path /\ TrimPrefix(<<"b">> \o path, "b") = path
  BY <1>2, Zenon DEF TrimPrefix
<1>4. TrimPrefix(<<"b">> \o path, "a") = <<"b">> \o path
  <2>1. "b" # "a"
    OBVIOUS
  <2> QED
    BY <1>2, <2>1, Zenon DEF TrimPrefix
<1>5. CASE f.status # "removed"
  <2>1. NewName(f) = <<"b">> \o path
    BY <1>5 DEF NewName, path
  <2>2. normalizePatchPath(NewName(f)) = path
    BY <1>3, <1>4, <2>1, Zenon DEF normalizePatchPath
  <2> QED
    BY <1>1, <2>2 DEF PatchPath, path
<1>6. CASE f.status = "removed"
  <2>1. NewName(f) = DevNull /\ OrigName(f) = <<"a">> \o path
    BY <1>6, DiffFile DEF NewName, OrigName, path
  <2>2. normalizePatchPath(DevNull) = DevNull
    BY DEF normalizePatchPath, TrimPrefix, DevNull
  <2>3. TrimPrefix(path, "b") = path
    BY <1>6 DEF TrimPrefix, path
  <2>4. normalizePatchPath(OrigName(f)) = path
    BY <1>3, <2>1, <2>3, Zenon DEF normalizePatchPath
  <2> QED
    BY <2>1, <2>2, <2>4 DEF PatchPath, path
<1> QED
  BY <1>5, <1>6

\* Where every patch has the path of its file, no file is made up and each
\* file has its own patch or none.
LEMMA PatchedUnderPaths ==
  ASSUME NEW d \in Seq(DiffFiles), \A i \in DOMAIN d : d[i].status = "removed" => Head(d[i].path) # "b"
  PROVE  /\ applyPatchDetails(mergeFileMetadata(d), d) \in [PathsOf(d) -> Details]
         /\ \A q \in PathsOf(d) : applyPatchDetails(mergeFileMetadata(d), d)[q].patchOf \in {<<>>, q}
<1> DEFINE W == {fs \in [PathsOf(d) -> Details] : \A q \in PathsOf(d) : fs[q].patchOf \in {<<>>, q}}
<1>1. PICK n \in Nat : DOMAIN d = 1 .. n
  OBVIOUS
<1>2. mergeFileMetadata(d) \in W
  BY MetadataDetails
<1>3. ASSUME NEW fs \in W, NEW i \in DOMAIN d PROVE PatchOne(fs, d[i]) \in W
  <2> DEFINE q == d[i].path
             new == applyFileDiffDetails(fs[q], d[i])
  <2>1. PatchPath(d[i]) = q
    BY PatchPathIsPath
  <2>2. q \in PathsOf(d) /\ fs \in [PathsOf(d) -> Details]
    BY DEF PathsOf
  <2>3. new \in Details /\ new.patchOf = q
    <3>1. fs[q] \in Details
      BY <2>2
    <3> QED
      BY <3>1, DiffFile, PatchedDetails
  <2>4. PatchOne(fs, d[i]) = [p \in PathsOf(d) |-> IF p = q THEN new ELSE fs[p]]
    <3>1. DOMAIN fs \cup {q} = PathsOf(d) /\ q \in DOMAIN fs
      BY <2>2
    <3> QED
      BY <2>1, <3>1 DEF PatchOne
  <2> HIDE DEF q, new
  <2> QED
    BY <2>2, <2>3, <2>4
<1> HIDE DEF W
<1>4. applyPatchDetails(mergeFileMetadata(d), d) \in W
  BY <1>1, <1>2, <1>3, PatchesPreserve
<1> QED
  BY <1>4 DEF W
-----------------------------------------------------------------------------
(* The indexes made of a diff.                                             *)
LEMMA Sums ==
  ASSUME NEW files, IsFiniteSet(DOMAIN files),
         \A p \in DOMAIN files : files[p].bytes \in Nat /\ files[p].hunks \in Nat
  PROVE  /\ Bytes(files) \in Nat /\ Hunks(files) \in Nat
         /\ (\A p \in DOMAIN files : files[p].bytes = 0) => Bytes(files) = 0
         /\ (\A p \in DOMAIN files : files[p].hunks = 0) => Hunks(files) = 0
<1> DEFINE B == [p \in DOMAIN files |-> files[p].bytes]
           H == [p \in DOMAIN files |-> files[p].hunks]
<1>1. DOMAIN B = DOMAIN files /\ \A p \in DOMAIN files : B[p] = files[p].bytes
  OBVIOUS
<1>2. DOMAIN H = DOMAIN files /\ \A p \in DOMAIN files : H[p] = files[p].hunks
  OBVIOUS
<1>3. Bytes(files) = FoldFunction(+, 0, B) /\ Hunks(files) = FoldFunction(+, 0, H)
  BY DEF Bytes, Hunks
<1> HIDE DEF B, H
<1>4. /\ FoldFunction(+, 0, B) \in Nat
      /\ (\A x \in DOMAIN B : B[x] = 0) => FoldFunction(+, 0, B) = 0
  BY <1>1, SumIsNat
<1>5. /\ FoldFunction(+, 0, H) \in Nat
      /\ (\A x \in DOMAIN H : H[x] = 0) => FoldFunction(+, 0, H) = 0
  BY <1>2, SumIsNat
<1> QED
  BY <1>1, <1>2, <1>3, <1>4, <1>5

LEMMA LinesAreNat ==
  ASSUME NEW files, IsFiniteSet(DOMAIN files), \A p \in DOMAIN files : files[p].lines \in Nat
  PROVE  Lines(files) \in Nat
<1> DEFINE L == [p \in DOMAIN files |-> files[p].lines]
<1>1. DOMAIN L = DOMAIN files /\ \A p \in DOMAIN files : L[p] = files[p].lines
  OBVIOUS
<1>2. Lines(files) = FoldFunction(+, 0, L)
  BY DEF Lines
<1> HIDE DEF L
<1> QED
  BY <1>1, <1>2, SumIsNat

LEMMA RowsDomain ==
  ASSUME NEW files, NEW default
  PROVE  DOMAIN Rows(files, default) = DOMAIN files
  BY DEF Rows

\* A row has the bytes of its file, and hunks only where detail is full.
LEMMA RowOf ==
  ASSUME NEW files, NEW default, NEW p \in DOMAIN files, files[p] \in Details
  PROVE  /\ Rows(files, default)[p].bytes = files[p].bytes
         /\ Rows(files, default)[p].patchOf = files[p].patchOf
         /\ Rows(files, default)[p].hunks \in Nat
         /\ Rows(files, default)[p].as = IF files[p].as = "" THEN default ELSE files[p].as
         /\ Rows(files, default)[p].as # "full" => Rows(files, default)[p].hunks = 0
<1>1. Rows(files, default)[p] = FileRow(files[p], default)
  BY DEF Rows
<1>2. ASSUME NEW file \in Details
      PROVE  /\ FileRow(file, default).bytes = file.bytes /\ FileRow(file, default).patchOf = file.patchOf
             /\ FileRow(file, default).hunks \in Nat
             /\ FileRow(file, default).as = IF file.as = "" THEN default ELSE file.as
             /\ FileRow(file, default).as # "full" => FileRow(file, default).hunks = 0
  BY DEF Details, FileRow
<1> QED
  BY <1>1, <1>2

\* Rows that show paths only have no bytes and no hunks.
LEMMA PathsOnlyRows ==
  ASSUME NEW files, IsFiniteSet(DOMAIN files),
         \A p \in DOMAIN files : files[p] \in Details /\ files[p].as \in {"", "paths_only"} /\ files[p].bytes = 0
  PROVE  Bytes(Rows(files, "paths_only")) = 0 /\ Hunks(Rows(files, "paths_only")) = 0
<1> DEFINE rows == Rows(files, "paths_only")
<1>1. DOMAIN rows = DOMAIN files
  BY RowsDomain
<1>2. ASSUME NEW p \in DOMAIN files PROVE rows[p].bytes = 0 /\ rows[p].hunks = 0
  <2>1. files[p] \in Details /\ files[p].as \in {"", "paths_only"} /\ files[p].bytes = 0
    OBVIOUS
  <2>2. rows[p].bytes = files[p].bytes /\ rows[p].as = IF files[p].as = "" THEN "paths_only" ELSE files[p].as
    BY <2>1, RowOf, Zenon
  <2>3. rows[p].as # "full" => rows[p].hunks = 0
    BY <2>1, RowOf, Zenon
  <2> HIDE DEF rows
  <2>4. rows[p].as = "paths_only"
    BY <2>1, <2>2
  <2> QED
    BY <2>1, <2>2, <2>3, <2>4
<1> HIDE DEF rows
<1>3. \A p \in DOMAIN rows : rows[p].bytes \in Nat /\ rows[p].hunks \in Nat
  <2> SUFFICES ASSUME NEW p \in DOMAIN files PROVE rows[p].bytes \in Nat /\ rows[p].hunks \in Nat
    BY <1>1
  <2>1. rows[p].bytes = 0 /\ rows[p].hunks = 0
    BY <1>2, Zenon
  <2>2. 0 \in Nat
    OBVIOUS
  <2> QED
    BY <2>1, <2>2, Zenon
<1>4. Bytes(rows) = 0 /\ Hunks(rows) = 0
  BY <1>1, <1>2, <1>3, Sums
<1> QED
  BY <1>4 DEF rows

Within(row, budget, count, lines) ==
    /\ row.as = "full" => /\ count <= budget.fullFiles /\ lines <= budget.fullLines
                          /\ Bytes(row.rows) <= budget.fullBytes
                          /\ \A p \in DOMAIN row.rows : row.rows[p].as = "full"
    /\ row.as = "paths_only" => Bytes(row.rows) = 0 /\ Hunks(row.rows) = 0
    /\ row.as = "skipped" <=> count > budget.pathFiles \/ lines > budget.pathLines

LEMMA ParentWithin ==
  ASSUME NEW d \in Seq(DiffFiles), NEW merge \in BOOLEAN
  PROVE  Within(ParentIndex(d, merge), IF merge THEN Merge ELSE Commit,
                Count(mergeFileMetadata(d)), Lines(mergeFileMetadata(d)))
<1> DEFINE budget == IF merge THEN Merge ELSE Commit
           files == mergeFileMetadata(d)
           patched == applyPatchDetails(files, d)
           down == downgradeCommitFilesToPathsOnly(patched)
           level == decideCommitDetailLevel(Count(files), Lines(files), budget)
           row == ParentIndex(d, merge)
<1>1. budget.fullFiles \in Nat /\ budget.fullLines \in Nat /\ budget.fullBytes \in Nat
      /\ budget.pathFiles \in Nat /\ budget.pathLines \in Nat
      /\ budget.fullFiles <= budget.pathFiles /\ budget.fullLines <= budget.pathLines
  BY BudgetsAssumption DEF Budgets
<1>2. /\ IsFiniteSet(DOMAIN files)
      /\ \A p \in DOMAIN files : files[p] \in Details /\ files[p].as = "" /\ files[p].bytes = 0 /\ files[p].lines \in Nat
  <2>1. PathsOf(d) \in SUBSET Places(d)
    BY DEF Places
  <2>2. files \in [PathsOf(d) -> Details]
    BY MetadataDetails
  <2>3. ASSUME NEW p \in PathsOf(d) PROVE files[p] \in Details /\ files[p].as = "" /\ files[p].bytes = 0
    BY MetadataDetails
  <2>4. \A x \in Details : x.lines \in Nat
    BY DEF Details
  <2> HIDE DEF files
  <2> QED
    BY <2>1, <2>2, <2>3, <2>4, FinitePlaces
<1>3. Count(files) \in Nat /\ Lines(files) \in Nat
  <2> HIDE DEF files
  <2> QED
    BY <1>2, LinesAreNat, FS_CardinalityType DEF Count
<1>4. IsFiniteSet(DOMAIN patched) /\ \A p \in DOMAIN patched : patched[p] \in Details
  <2>1. PICK D \in SUBSET Places(d) : patched \in [D -> Details]
    BY PatchedFiles DEF FilesIn
  <2> HIDE DEF patched
  <2> QED
    BY <2>1, FinitePlaces
<1>5. /\ level \in {"full", "paths_only", "skipped"}
      /\ level = "full" => Count(files) <= budget.fullFiles /\ Lines(files) <= budget.fullLines
      /\ level = "skipped" <=> Count(files) > budget.pathFiles \/ Lines(files) > budget.pathLines
  <2> HIDE DEF files, budget
  <2> QED
    BY <1>1, <1>3 DEF decideCommitDetailLevel
<1>6. row = CASE level = "skipped" -> [as |-> "skipped", count |-> Count(files), rows |-> <<>>]
              [] level = "paths_only" -> [as |-> "paths_only", count |-> Count(files), rows |-> Rows(files, "paths_only")]
              [] level = "full" ->
                   IF commitPatchBytesExceedBudget(Bytes(patched), budget) \/ Reduced(patched)
                   THEN [as |-> "paths_only", count |-> Count(files), rows |-> Rows(down, "paths_only")]
                   ELSE [as |-> "full", count |-> Count(files), rows |-> Rows(patched, "full")]
  BY DEF ParentIndex
<1> HIDE DEF row, level, budget, files, patched
<1>7. CASE level = "skipped"
  <2>1. row.as = "skipped" /\ row.count = Count(files)
    BY <1>6, <1>7
  <2> QED
    BY <2>1, <1>5, <1>7 DEF Within, row, budget, files
<1>8. CASE level = "paths_only"
  <2>1. row.as = "paths_only" /\ row.count = Count(files) /\ row.rows = Rows(files, "paths_only")
    BY <1>6, <1>8
  <2>2. Bytes(row.rows) = 0 /\ Hunks(row.rows) = 0
    BY <1>2, <2>1, PathsOnlyRows
  <2> QED
    BY <2>1, <2>2, <1>5, <1>8 DEF Within, row, budget, files
<1>9. CASE level = "full" /\ (commitPatchBytesExceedBudget(Bytes(patched), budget) \/ Reduced(patched))
  <2>1. row.as = "paths_only" /\ row.count = Count(files) /\ row.rows = Rows(down, "paths_only")
    BY <1>6, <1>9
  <2>2. DOMAIN down = DOMAIN patched
    BY DEF downgradeCommitFilesToPathsOnly
  <2>3. ASSUME NEW p \in DOMAIN patched
        PROVE  down[p] \in Details /\ down[p].as \in {"", "paths_only"} /\ down[p].bytes = 0
    <3>1. patched[p] \in Details
      BY <1>4
    <3>2. <<>> \in Seq(STRING)
      OBVIOUS
    <3>3. down[p] = [patched[p] EXCEPT !.as = "paths_only", !.bytes = 0, !.hunks = 0, !.patchOf = <<>>]
      BY DEF downgradeCommitFilesToPathsOnly
    <3> HIDE DEF down
    <3>4. ASSUME NEW x \in Details
          PROVE  LET y == [x EXCEPT !.as = "paths_only", !.bytes = 0, !.hunks = 0, !.patchOf = <<>>] IN
                 y \in Details /\ y.as = "paths_only" /\ y.bytes = 0
      BY <3>2 DEF Details
    <3> QED
      BY <3>1, <3>3, <3>4
  <2>4. Bytes(row.rows) = 0 /\ Hunks(row.rows) = 0
    <3> HIDE DEF down
    <3> QED
      BY <1>4, <2>1, <2>2, <2>3, PathsOnlyRows
  <2> QED
    BY <2>1, <2>4, <1>5, <1>9 DEF Within, row, budget, files
<1>10. CASE level = "full" /\ ~commitPatchBytesExceedBudget(Bytes(patched), budget) /\ ~Reduced(patched)
  <2>1. row.as = "full" /\ row.count = Count(files) /\ row.rows = Rows(patched, "full")
    BY <1>6, <1>10
  <2>2. DOMAIN row.rows = DOMAIN patched
    BY <2>1, RowsDomain
  <2>3. ASSUME NEW p \in DOMAIN patched
        PROVE  row.rows[p].as = "full" /\ row.rows[p].bytes = patched[p].bytes
    <3>1. patched[p].as \in {"", "full"}
      BY <1>10 DEF Reduced
    <3>2. patched[p] \in Details
      BY <1>4
    <3>3. Rows(patched, "full")[p].as = IF patched[p].as = "" THEN "full" ELSE patched[p].as
      BY <3>2, RowOf, Zenon
    <3>4. Rows(patched, "full")[p].bytes = patched[p].bytes
      BY <3>2, RowOf, Zenon
    <3> QED
      BY <2>1, <3>1, <3>3, <3>4
  <2>4. Bytes(row.rows) = Bytes(patched)
    <3>1. [p \in DOMAIN row.rows |-> row.rows[p].bytes] = [p \in DOMAIN patched |-> patched[p].bytes]
      BY <2>2, <2>3
    <3> QED
      BY <3>1, Zenon DEF Bytes
  <2>5. Bytes(patched) \in Nat
    <3>1. \A x \in Details : x.bytes \in Nat /\ x.hunks \in Nat
      BY DEF Details
    <3> QED
      BY <1>4, <3>1, Sums
  <2>6. Bytes(row.rows) <= budget.fullBytes
    BY <1>1, <1>10, <2>4, <2>5 DEF commitPatchBytesExceedBudget
  <2> QED
    BY <2>1, <2>2, <2>3, <2>6, <1>5, <1>10 DEF Within, row, budget, files
<1> QED
  BY <1>5, <1>7, <1>8, <1>9, <1>10

LEMMA PullUnderPaths ==
  ASSUME NEW d \in Seq(DiffFiles), \A i \in DOMAIN d : d[i].status = "removed" => Head(d[i].path) # "b"
  PROVE  /\ DOMAIN PullIndex(d).rows = PathsOf(d)
         /\ \A q \in PathsOf(d) : PullIndex(d).rows[q].patchOf \in {<<>>, q}
<1> DEFINE files == mergeFileMetadata(d)
           patched == applyPatchDetails(files, d)
           rows == PullIndex(d).rows
<1>1. rows = Rows(files, "paths_only") \/ rows = Rows(patched, "full")
  BY DEF PullIndex
<1>2. files \in [PathsOf(d) -> Details] /\ \A q \in PathsOf(d) : files[q].patchOf = <<>>
  BY MetadataDetails
<1>3. patched \in [PathsOf(d) -> Details] /\ \A q \in PathsOf(d) : patched[q].patchOf \in {<<>>, q}
  BY PatchedUnderPaths
<1> HIDE DEF files, patched, rows
<1>4. CASE rows = Rows(files, "paths_only")
  <2>1. DOMAIN files = PathsOf(d) /\ \A q \in DOMAIN files : files[q] \in Details
    BY <1>2
  <2>2. DOMAIN rows = PathsOf(d) /\ \A q \in PathsOf(d) : rows[q].patchOf = files[q].patchOf
    <3>1. DOMAIN rows = PathsOf(d)
      BY <1>4, <2>1, RowsDomain
    <3>2. ASSUME NEW q \in PathsOf(d) PROVE rows[q].patchOf = files[q].patchOf
      <4>1. q \in DOMAIN files /\ files[q] \in Details
        BY <2>1
      <4> QED
        BY <1>4, <4>1, RowOf
    <3> QED
      BY <3>1, <3>2
  <2> QED
    BY <1>2, <2>2 DEF rows
<1>5. CASE rows = Rows(patched, "full")
  <2>1. DOMAIN patched = PathsOf(d) /\ \A q \in DOMAIN patched : patched[q] \in Details
    BY <1>3
  <2>2. DOMAIN rows = PathsOf(d) /\ \A q \in PathsOf(d) : rows[q].patchOf = patched[q].patchOf
    <3>1. DOMAIN rows = PathsOf(d)
      BY <1>5, <2>1, RowsDomain
    <3>2. ASSUME NEW q \in PathsOf(d) PROVE rows[q].patchOf = patched[q].patchOf
      <4>1. q \in DOMAIN patched /\ patched[q] \in Details
        BY <2>1
      <4> QED
        BY <1>5, <4>1, RowOf
    <3> QED
      BY <3>1, <3>2
  <2> QED
    BY <1>3, <2>2 DEF rows
<1> QED
  BY <1>1, <1>4, <1>5
-----------------------------------------------------------------------------
(* What is stored is made of the diff, the rows of a commit with the       *)
(* budget of its kind.                                                     *)
CommitRow(c) == IF Parents[c] > 1 THEN diff.merge ELSE diff.commit

SnapshotMade(s) ==
    \/ s.as \in {"none", "failed"} /\ s.rows = <<>>
    \/ s.rows = diff.pull.rows

Made ==
    /\ \E d \in Diffs : diff = Read(d)
    /\ \A c \in Commits : \A k \in DOMAIN commits[c].parents : commits[c].parents[k] = CommitRow(c)
    /\ \A p \in Pulls : SnapshotMade(snapshot[p])

LEMMA InitMade == Init => Made
<1> SUFFICES ASSUME Init PROVE Made
  OBVIOUS
<1>1. \A p \in Pulls : snapshot[p].as = "none" /\ snapshot[p].rows = <<>>
  BY DEF Init, NoSnapshot
<1>2. PICK old \in {{}, Commits} : commits = [c \in Commits |-> [NoCommit EXCEPT !.stored = c \in old]]
  BY DEF Init
<1>3. \A c \in Commits : DOMAIN commits[c].parents = {}
  BY <1>2 DEF NoCommit
<1>4. \E d \in Diffs : diff = Read(d)
  BY Zenon DEF Init
<1> QED
  BY <1>1, <1>3, <1>4 DEF Made, SnapshotMade

\* The bundle of a commit has that commit's rows.
LEMMA BundleMade ==
  ASSUME NEW c \in Commits
  PROVE  \A k \in DOMAIN CommitBundle(c).parents : CommitBundle(c).parents[k] = CommitRow(c)
  BY DEF CommitBundle, CommitRow

LEMMA WriteMade ==
  ASSUME IInv, Made, NEW i \in Indexers, WritePullRequestIndex(i)
  PROVE  Made'
<1> DEFINE q == indexer[i].p
<1>1. diff' = diff
  BY DEF WritePullRequestIndex
<1>2. ASSUME NEW c \in Commits, NEW k \in DOMAIN commits'[c].parents
      PROVE  commits'[c].parents[k] = CommitRow(c)
  <2>1. commits'[c] = CommitBundle(c) \/ commits'[c] = commits[c]
    BY DEF WritePullRequestIndex
  <2> QED
    BY <1>2, <2>1, BundleMade DEF Made
<1>3. ASSUME NEW p \in Pulls
      PROVE  snapshot'[p] = snapshot[p] \/ snapshot'[p].rows = diff.pull.rows
  <2>1. snapshot' = [snapshot EXCEPT ![q] = [h |-> indexer[i].h, as |-> diff.pull.as, fresh |-> "current", rows |-> diff.pull.rows]]
    BY DEF WritePullRequestIndex, IndexedHead
  <2>2. DOMAIN snapshot = Pulls
    BY DEF IInv, Shapes
  <2> HIDE DEF q
  <2> QED
    BY <2>1, <2>2
<1>4. \A c \in Commits : CommitRow(c)' = CommitRow(c)
  BY <1>1 DEF CommitRow
<1>5. \A p \in Pulls : SnapshotMade(snapshot[p])' 
  BY <1>1, <1>3 DEF Made, SnapshotMade
<1> QED
  BY <1>1, <1>2, <1>4, <1>5 DEF Made

LEMMA FailedMade ==
  ASSUME IInv, Made, NEW i \in Indexers, MarkSnapshotFailed(i)
  PROVE  Made'
<1> DEFINE q == indexer[i].p
<1>1. diff' = diff /\ commits' = commits
  BY DEF MarkSnapshotFailed
<1>2. ASSUME NEW p \in Pulls
      PROVE  snapshot'[p] = snapshot[p] \/ (snapshot'[p].as = "failed" /\ snapshot'[p].rows = <<>>)
  <2>1. snapshot' = [snapshot EXCEPT ![q] = [h |-> indexer[i].h, as |-> "failed", fresh |-> "failed", rows |-> <<>>]]
    BY DEF MarkSnapshotFailed
  <2>2. DOMAIN snapshot = Pulls
    BY DEF IInv, Shapes
  <2> HIDE DEF q
  <2> QED
    BY <2>1, <2>2
<1>3. \A p \in Pulls : SnapshotMade(snapshot[p])'
  BY <1>1, <1>2 DEF Made, SnapshotMade
<1> QED
  BY <1>1, <1>3 DEF Made, CommitRow

LEMMA NextMade == IInv /\ Made /\ [Next]_vars => Made'
<1> SUFFICES ASSUME IInv, Made, [Next]_vars PROVE Made'
  OBVIOUS
<1>1. ASSUME UNCHANGED <<diff, commits, snapshot>> PROVE Made'
  BY <1>1 DEF Made, CommitRow, SnapshotMade
<1>2. CASE UNCHANGED vars
  BY <1>1, <1>2 DEF vars
<1>3. ASSUME NEW p \in Pulls, Push(p) \/ StorePull(p) PROVE Made'
  BY <1>1, <1>3 DEF Push, StorePull, tables
<1>4. ASSUME NEW i \in Indexers, NEW p \in Pulls, SyncPullRequestIndex(i, p) PROVE Made'
  BY <1>1, <1>4 DEF SyncPullRequestIndex, tables
<1>5. ASSUME NEW i \in Indexers,
             \/ withRepoLock(i) \/ InitMirror(i) \/ RemoveOrigin(i) \/ AddOrigin(i)
             \/ Fetch(i) \/ StoreRefs(i) \/ BuildPullRequestIndexResult(i) \/ GitFails(i) \/ Aborts(i)
      PROVE  Made'
  BY <1>1, <1>5 DEF withRepoLock, InitMirror, RemoveOrigin, AddOrigin, Fetch, StoreRefs,
                    BuildPullRequestIndexResult, GitFails, Aborts, tables
<1>6. ASSUME NEW i \in Indexers, WritePullRequestIndex(i) PROVE Made'
  BY <1>6, WriteMade
<1>7. ASSUME NEW i \in Indexers, MarkSnapshotFailed(i) PROVE Made'
  BY <1>7, FailedMade
<1> QED
  BY <1>2, <1>3, <1>4, <1>5, <1>6, <1>7 DEF Next

\* Every budget holds for what is stored of a commit, for any diff, any
\* budgets and whichever indexing stored it (DetailWithinBudget).
LEMMA MadeWithinBudget == Made => DetailWithinBudget
<1> SUFFICES ASSUME Made, NEW c \in Commits, NEW k \in DOMAIN commits[c].parents
             PROVE  Within(commits[c].parents[k], IF Parents[c] > 1 THEN Merge ELSE Commit,
                           Count(mergeFileMetadata(diff.files)), Lines(mergeFileMetadata(diff.files)))
  BY DEF DetailWithinBudget, Within
<1>1. PICK d \in Diffs : diff = Read(d)
  BY DEF Made
<1>2. d \in Seq(DiffFiles)
  BY IndexAssumption
<1>3. diff.files = d /\ diff.commit = ParentIndex(d, FALSE) /\ diff.merge = ParentIndex(d, TRUE)
  BY <1>1 DEF Read
<1>4. commits[c].parents[k] = CommitRow(c)
  BY DEF Made
<1>5. CASE Parents[c] > 1
  <2>1. Within(ParentIndex(d, TRUE), Merge, Count(mergeFileMetadata(d)), Lines(mergeFileMetadata(d)))
    BY <1>2, ParentWithin
  <2> QED
    BY <1>3, <1>4, <1>5, <2>1 DEF CommitRow
<1>6. CASE ~(Parents[c] > 1)
  <2>1. Within(ParentIndex(d, FALSE), Commit, Count(mergeFileMetadata(d)), Lines(mergeFileMetadata(d)))
    BY <1>2, ParentWithin
  <2> QED
    BY <1>3, <1>4, <1>6, <2>1 DEF CommitRow
<1> QED
  BY <1>5, <1>6

LEMMA MadeUnderFiles == Made => PatchesUnderTheirFiles
<1> SUFFICES ASSUME Made, ~RemovedUnderB, NEW p \in Pulls
             PROVE  /\ \A q \in DOMAIN snapshot[p].rows : snapshot[p].rows[q].patchOf \in {<<>>, q}
                    /\ snapshot[p].as \notin {"none", "failed"} =>
                         DOMAIN snapshot[p].rows = {diff.files[i].path : i \in DOMAIN diff.files}
  BY DEF PatchesUnderTheirFiles
<1>1. PICK d \in Diffs : diff = Read(d)
  BY DEF Made
<1>2. d \in Seq(DiffFiles)
  BY IndexAssumption
<1>3. diff.files = d /\ diff.pull = PullIndex(d)
  BY <1>1 DEF Read
<1>4. /\ DOMAIN PullIndex(d).rows = PathsOf(d)
      /\ \A q \in PathsOf(d) : PullIndex(d).rows[q].patchOf \in {<<>>, q}
  BY <1>2, <1>3, PullUnderPaths DEF RemovedUnderB
<1>5. SnapshotMade(snapshot[p])
  BY DEF Made
<1>6. PathsOf(d) = {diff.files[i].path : i \in DOMAIN diff.files}
  BY <1>3 DEF PathsOf
<1> QED
  BY <1>3, <1>4, <1>5, <1>6 DEF SnapshotMade

LEMMA MadeAlways == Spec => []Made
  BY InitMade, NextMade, Invariance, PTL DEF Spec

\* What is stored of a commit keeps within the budgets of its kind: files,
\* lines and bytes, whichever is found to be exceeded first, for every diff
\* and all budgets (DetailWithinBudget).
THEOREM BudgetsHold == Spec => []DetailWithinBudget
  BY MadeAlways, MadeWithinBudget, PTL

\* A patch is stored under the path of its own file, and no file is made up,
\* for every diff without a file removed below a directory b
\* (PatchesUnderTheirFiles).
THEOREM PatchesAreUnderFiles == Spec => []PatchesUnderTheirFiles
  BY MadeAlways, MadeUnderFiles, PTL
=============================================================================
