---------------------- MODULE RepositoryIdentity_proofs ----------------------
(***************************************************************************)
(* A name leads to one repository.  For any number of repositories, names, *)
(* webhook workers, renames, deliveries, jobs and syncs, as long as nobody *)
(* takes a name that is still known as another's: a repository that an     *)
(* operator turned off while nobody was at work on it stays off until a    *)
(* bootstrap turns it on (PolicyKept), and a refresh job fetches the       *)
(* repository it was requested for (JobsFollowRenames).  With one worker,  *)
(* every repository that has sent a delivery ends up with its one row and  *)
(* its name (NamesSettle).                                                 *)
(*                                                                         *)
(* There are four invariants, one upon the other.  IInv holds whatever     *)
(* is renamed: tables have the unique names and the foreign keys of the    *)
(* schema, and what an actor carries is of rows there have been.  The next *)
(* two hold until a name is crossed.  FollowInv: a name is known as        *)
(* that of one repository only, and actors and jobs are at rows of their   *)
(* own repository.  OffInv: a repository that is turned off has exactly    *)
(* one row, nothing is merged into it, and no actor that is on its way to  *)
(* it carries a policy that would turn it on.  NInv, of one worker and of  *)
(* histories without failures and readers, crossed names included: whom a  *)
(* delivery of the present name has announced is settled, or its last      *)
(* delivery is still to be worked off and nothing after it disturbs it.    *)
(*                                                                         *)
(* The effect of a step is stated first, as an operator on the record its  *)
(* actor had and the one it goes on with (Resolves, Merges, Takes, Writes, *)
(* ...); the three invariants are preserved by these effects.              *)
(***************************************************************************)
EXTENDS RepositoryIdentity, SequenceTheorems, WellFoundedInduction, TLAPS

FullNames == Names \cup Released
Refs == Repos \cup {NoOne}
Events == {"issues", "push"}
RowRecords == [name : FullNames \cup {NoOne}, repo : Refs, enabled : BOOLEAN, done : Completeness]
JobRecords == [for : Repos, row : {0} \cup RowIds, repo : Repos, name : FullNames]
Deliveries == [g : Repos, n : Names, event : Events]
WorkerSteps == {"idle", "resolve", "merge", "upsert", "project", "state", "gone"}
ReaderSteps == {"idle", "claim", "resolve", "merge", "policy", "upsert", "succeed", "state", "gone"}
ProcRecords ==
    [pc : WorkerSteps \cup ReaderSteps, g : Refs, n : FullNames \cup {NoOne}, event : Events,
     known : Refs, then : {"idle", "upsert", "policy", "state"},
     row : {0} \cup RowIds, copy : RowRecords, nameId : {0} \cup RowIds, byName : RowRecords,
     policy : BOOLEAN, job : JobRecords \cup {NoOne}]

Types ==
    /\ name \in [Repos -> Names]
    /\ repo \in [Repos -> FullNames \cup {NoOne}]
    /\ tracked \in [RowIds -> RowRecords]
    /\ nextRow \in 1 .. MaxRows + 1
    /\ jobs \subseteq JobRecords
    /\ inbox \in Seq(Deliveries)
    /\ off \subseteq Repos
    /\ crossed \in BOOLEAN
    /\ proc \in [Actors -> ProcRecords]

(* GitHub knows the repository's row.                                      *)
Stored(g) == repo[g] # NoOne

(* A full name stands for one repository, and what a repository gave up is *)
(* remembered by its own row only.                                         *)
ReposOK ==
    \A g, h \in Repos :
        /\ repo[g] = repo[h] /\ Stored(g) => g = h
        /\ repo[g] \in Released => repo[g].released = g

RowsOK ==
    \A t \in Live :
        /\ t < nextRow /\ tracked[t].name # NoOne
        /\ tracked[t].repo # NoOne => Stored(tracked[t].repo)
        /\ \A u \in Live : tracked[t].name = tracked[u].name => t = u

JobsOK == \A j \in jobs : j.row \in {0} \cup Live /\ Stored(j.repo)

ProcOK(a, p) ==
    /\ p.pc \in IF a = Reader THEN ReaderSteps ELSE WorkerSteps
    /\ IF p.pc = "idle" THEN p = Idle ELSE p.g \in Repos /\ p.n \in FullNames
    /\ p.then = "state" => a = Reader /\ p.pc \in {"resolve", "merge", "state", "gone"}
    /\ p.then = "policy" => a = Reader
    /\ p.pc \in {"resolve", "merge", "gone"} => p.then # "idle"
    /\ p.pc # "idle" /\ p.then # "state" => p.n \in Names
    /\ p.row < nextRow /\ p.nameId < nextRow
    /\ p.pc = "merge" => /\ p.row # 0 /\ p.nameId # 0 /\ p.nameId # p.row
                         /\ p.known \in Repos /\ p.copy.repo = p.known /\ p.byName.name = p.n
    /\ p.pc = "succeed" => p.job # NoOne
    /\ p.known # NoOne => Stored(p.known)
    /\ p.copy.repo # NoOne => Stored(p.copy.repo)
    /\ p.job # NoOne => Stored(p.job.repo)
    /\ p.pc = "state" \/ (a = Reader /\ p.pc \notin {"idle", "claim"}) => Stored(p.g)

ProcsOK == \A a \in Actors : ProcOK(a, proc[a])

IInv == Types /\ ReposOK /\ RowsOK /\ JobsOK /\ ProcsOK
-----------------------------------------------------------------------------
Less == {ss \in Nat \X Nat : ss[1] < ss[2]}

LEMMA FirstOf ==
  ASSUME NEW S \in SUBSET Nat, S # {}
  PROVE  First(S) \in S
<1>1. IsWellFoundedOn(Less, Nat)
  <2>1. OpToRel(<, Nat) = Less
    BY Zenon DEF OpToRel, Less
  <2> QED
    BY <2>1, NatLessThanWellFounded, Zenon
<1>2. PICK x \in S : \A y \in S : ~(<<y, x>> \in Less)
  BY <1>1, WFMin
<1>3. ASSUME NEW y \in S PROVE x <= y
  <2>1. <<y, x>> \in Nat \X Nat => ~(y < x)
    BY <1>2 DEF Less
  <2> QED
    BY <2>1
<1> QED
  BY <1>3, Zenon DEF First

LEMMA RowIdsFacts ==
  RowIds \subseteq Nat /\ 0 \notin RowIds /\ Live \subseteq RowIds /\ \A t \in {0} \cup RowIds : t \in Nat
  BY ConstantsAssumption DEF RowIds, Live

LEMMA FoundByName ==
  ASSUME NEW n, NEW t, t = RowByName(n)
  PROVE  \/ t = 0 /\ \A u \in Live : tracked[u].name # n
         \/ t \in Live /\ t \in RowIds /\ t # 0 /\ tracked[t].name = n
<1> DEFINE S == {u \in Live : tracked[u].name = n}
<1>1. t = First(S)
  BY Zenon DEF RowByName
<1>2. CASE S = {}
  BY <1>1, <1>2 DEF First
<1>3. CASE S # {}
  <2>1. S \in SUBSET Nat
    BY RowIdsFacts
  <2>2. First(S) \in S
    BY <1>3, <2>1, FirstOf
  <2> QED
    BY <1>1, <2>2, RowIdsFacts
<1> QED
  BY <1>2, <1>3

LEMMA FoundByRepo ==
  ASSUME NEW g, NEW t, t = RowByRepo(g)
  PROVE  \/ t = 0 /\ (g # NoOne => \A u \in Live : tracked[u].repo # g)
         \/ t \in Live /\ t \in RowIds /\ t # 0 /\ g # NoOne /\ tracked[t].repo = g
<1> DEFINE S == {u \in Live : g # NoOne /\ tracked[u].repo = g}
<1>1. t = First(S)
  BY Zenon DEF RowByRepo
<1>2. CASE S = {}
  BY <1>1, <1>2 DEF First
<1>3. CASE S # {}
  <2>1. S \in SUBSET Nat
    BY RowIdsFacts
  <2>2. First(S) \in S
    BY <1>3, <2>1, FirstOf
  <2> QED
    BY <1>1, <2>2, RowIdsFacts
<1> QED
  BY <1>2, <1>3

LEMMA RecordFacts ==
  /\ Absent \in RowRecords /\ Absent.name = NoOne /\ Absent.repo = NoOne /\ Idle \in ProcRecords
  /\ Idle.pc = "idle" /\ Idle.known = NoOne /\ Idle.job = NoOne /\ Idle.row = 0 /\ Idle.nameId = 0
  /\ Idle.then = "idle" /\ Idle.copy = Absent /\ Idle.g = NoOne /\ Idle.n = NoOne
  /\ Idle.byName = Absent /\ Idle.policy = TRUE /\ Idle.event = "issues"
  /\ NoOne \notin Repos /\ NoOne \notin FullNames /\ NoOne \notin Names /\ Names \subseteq FullNames
  BY ConstantsAssumption DEF Absent, Idle, RowRecords, ProcRecords, Completeness, Refs, FullNames, Events,
     WorkerSteps, ReaderSteps

LEMMA RowValue ==
  ASSUME Types, NEW t \in {0} \cup RowIds
  PROVE  /\ Row(t) \in RowRecords
         /\ t \in Live => Row(t) = tracked[t] /\ t \in RowIds /\ t # 0 /\ tracked[t] # Absent
  BY RecordFacts, RowIdsFacts DEF Types, Row, Live
-----------------------------------------------------------------------------
(* What a step may do to one part of the state.                            *)

LEMMA ReposKept == ASSUME ReposOK, UNCHANGED repo PROVE ReposOK'
  BY DEF ReposOK, Stored

LEMMA StoredKept == ASSUME UNCHANGED repo PROVE \A g \in Repos : Stored(g) => Stored(g)'
  BY DEF Stored

LEMMA ClaimKeeps ==
  ASSUME Types, ReposOK, NEW g \in Repos, NEW n \in Names, repo' = Claimed(g, n)
  PROVE  /\ repo' \in [Repos -> FullNames \cup {NoOne}] /\ ReposOK'
         /\ \A h \in Repos : Stored(h) => Stored(h)'
         /\ Stored(g)'
<1>0. /\ \A h \in Repos : [released |-> h, was |-> n] \in Released /\ [released |-> h, was |-> n].released = h
      /\ NoOne \notin Released /\ NoOne \notin Names /\ Names \cap Released = {}
  BY ConstantsAssumption DEF Released
<1>1. \A h \in Repos : repo'[h] = IF h = g THEN n ELSE IF repo[h] = n THEN [released |-> h, was |-> n] ELSE repo[h]
  BY DEF Claimed
<1>2. repo' \in [Repos -> FullNames \cup {NoOne}]
  <2>1. repo' = [h \in Repos |-> repo'[h]]
    BY DEF Claimed
  <2> QED
    BY <1>0, <1>1, <2>1 DEF FullNames, Types
<1>3. \A h \in Repos : (Stored(h) => Stored(h)') /\ Stored(g)'
  <2>1. \A h \in Repos : [released |-> h, was |-> n] # NoOne
    BY <1>0
  <2>2. n # NoOne
    BY <1>0
  <2>3. \A h \in Repos : repo[h] # NoOne => repo'[h] # NoOne
    BY <2>1, <2>2, <1>1
  <2>4. repo'[g] # NoOne
    BY <2>2, <1>1
  <2> QED
    BY <2>3, <2>4 DEF Stored
<1>4. \A h \in Repos : repo'[h] \in Released => repo'[h].released = h
  BY <1>0, <1>1 DEF ReposOK
<1>5. ASSUME NEW h \in Repos, NEW k \in Repos, repo'[h] = repo'[k], repo'[h] # NoOne PROVE h = k
  <2>1. CASE repo'[h] \in Released
    BY <1>4, <1>5, <2>1
  <2>2. CASE repo'[h] \notin Released
    <3>1. (h = g /\ repo'[h] = n) \/ (h # g /\ repo'[h] = repo[h] /\ repo[h] # n)
      BY <1>0, <1>1, <2>2
    <3>0. repo'[k] \notin Released
      BY <1>5, <2>2
    <3>2. (k = g /\ repo'[k] = n) \/ (k # g /\ repo'[k] = repo[k] /\ repo[k] # n)
      BY <1>0, <1>1, <3>0
    <3>3. h = k \/ (repo[h] = repo[k] /\ repo[h] # NoOne)
      BY <3>1, <3>2, <1>5
    <3> QED
      BY <3>3 DEF ReposOK, Stored
  <2> QED
    BY <2>1, <2>2
<1>6. ReposOK'
  BY <1>4, <1>5 DEF ReposOK, Stored
<1> QED
  BY <1>2, <1>3, <1>6

LEMMA JobsKept ==
  ASSUME JobsOK, Types, jobs' \subseteq jobs, \A t \in Live : t \in Live',
         \A g \in Repos : Stored(g) => Stored(g)'
  PROVE  JobsOK' /\ jobs' \subseteq JobRecords
<1>1. ASSUME NEW j \in jobs' PROVE j.row \in {0} \cup Live' /\ Stored(j.repo)'
  <2>1. j \in JobRecords /\ j.row \in {0} \cup Live /\ Stored(j.repo) /\ j.repo \in Repos
    BY DEF JobsOK, Types, JobRecords
  <2> QED
    BY <2>1
<1> QED
  BY <1>1 DEF JobsOK, Types

LEMMA LiveKept == ASSUME UNCHANGED tracked PROVE Live' = Live
  BY DEF Live

LEMMA RowsKept ==
  ASSUME Types, RowsOK, UNCHANGED <<tracked, nextRow>>, \A g \in Repos : Stored(g) => Stored(g)'
  PROVE  RowsOK'
<1>1. Live' = Live
  BY LiveKept
<1>2. \A t \in Live : tracked[t].repo # NoOne => tracked[t].repo \in Repos
  BY RowIdsFacts DEF Types, RowRecords, Refs
<1> QED
  BY <1>1, <1>2 DEF RowsOK

(* One row is written, or added.                                           *)
LEMMA RowWritten ==
  ASSUME Types, RowsOK, UNCHANGED repo, NEW t \in RowIds, NEW r \in RowRecords,
         tracked' = [tracked EXCEPT ![t] = r], r.name # NoOne, r.repo # NoOne => Stored(r.repo),
         nextRow' \in 1 .. MaxRows + 1, nextRow <= nextRow', t < nextRow',
         \A u \in Live \ {t} : tracked[u].name # r.name
  PROVE  /\ tracked' \in [RowIds -> RowRecords] /\ RowsOK'
         /\ Live' = Live \cup {t} /\ tracked'[t] = r /\ \A u \in RowIds \ {t} : tracked'[u] = tracked[u]
<1>1. /\ tracked' \in [RowIds -> RowRecords]
      /\ tracked'[t] = r /\ \A u \in RowIds \ {t} : tracked'[u] = tracked[u]
  BY Zenon DEF Types
<1>2. r # Absent
  BY RecordFacts
<1>3. Live' = Live \cup {t}
  BY <1>1, <1>2 DEF Live
<1>4. nextRow \in Nat /\ nextRow' \in Nat /\ \A u \in RowIds : u \in Nat
  BY ConstantsAssumption, RowIdsFacts DEF Types
<1>5. ASSUME NEW u \in Live'
      PROVE  /\ u < nextRow' /\ tracked'[u].name # NoOne
             /\ tracked'[u].repo # NoOne => repo'[tracked'[u].repo] # NoOne
             /\ \A v \in Live' : tracked'[u].name = tracked'[v].name => u = v
  <2>1. CASE u = t
    BY <1>1, <1>3, <2>1, RowIdsFacts DEF Stored
  <2>2. CASE u # t
    <3>1. u \in Live /\ u \in RowIds /\ tracked'[u] = tracked[u] /\ tracked[u].name # r.name
      BY <1>1, <1>3, <1>5, <2>2, RowIdsFacts
    <3>2. u < nextRow /\ tracked[u].name # NoOne /\ (tracked[u].repo # NoOne => Stored(tracked[u].repo))
          /\ \A v \in Live : tracked[u].name = tracked[v].name => u = v
      BY <3>1 DEF RowsOK
    <3>3. u < nextRow'
      BY <1>4, <3>1, <3>2
    <3>4. \A v \in Live' : tracked'[u].name = tracked'[v].name => u = v
      BY <1>1, <1>3, <3>1, <3>2, RowIdsFacts
    <3> QED
      BY <3>1, <3>2, <3>3, <3>4 DEF Stored
  <2> QED
    BY <2>1, <2>2
<1> QED
  BY <1>1, <1>3, <1>5 DEF RowsOK, Stored

LEMMA ProcStays ==
  ASSUME NEW a \in Actors, NEW p \in ProcRecords, ProcOK(a, p), nextRow \in Nat, nextRow' \in Nat,
         nextRow <= nextRow', \A g \in Repos : Stored(g) => Stored(g)'
  PROVE  ProcOK(a, p)'
<1>1. /\ p.known # NoOne => p.known \in Repos
      /\ p.copy.repo # NoOne => p.copy.repo \in Repos
      /\ p.job # NoOne => p.job.repo \in Repos
      /\ p.pc # "idle" => p.g \in Repos
  BY DEF ProcRecords, RowRecords, JobRecords, Refs, ProcOK
<1>2. p.row \in Nat /\ p.nameId \in Nat
  <2>1. p.row \in {0} \cup RowIds /\ p.nameId \in {0} \cup RowIds
    BY DEF ProcRecords
  <2> QED
    BY <2>1, RowIdsFacts
<1>3. p.row < nextRow' /\ p.nameId < nextRow'
  BY <1>2 DEF ProcOK
<1>4. p.pc = "state" \/ (a = Reader /\ p.pc \notin {"idle", "claim"}) => Stored(p.g)'
  BY <1>1, RecordFacts DEF ProcOK
<1> QED
  BY <1>1, <1>3, <1>4 DEF ProcOK

LEMMA ProcsKept ==
  ASSUME Types, ProcsOK, UNCHANGED proc, nextRow' \in Nat,
         nextRow <= nextRow', \A g \in Repos : Stored(g) => Stored(g)'
  PROVE  ProcsOK'
<1>1. nextRow \in Nat
  BY ConstantsAssumption DEF Types
<1>2. ASSUME NEW a \in Actors PROVE ProcOK(a, proc[a])'
  <2>1. PICK p \in ProcRecords : p = proc[a]
    BY DEF Types
  <2>2. ProcOK(a, p)
    BY <2>1 DEF ProcsOK
  <2>3. ProcOK(a, p)'
    BY <1>1, <2>2, ProcStays
  <2> QED
    BY <2>1, <2>3
<1> QED
  BY <1>2 DEF ProcsOK

(* One actor goes on.                                                      *)
LEMMA ActorGoes ==
  ASSUME Types, ProcsOK, NEW a \in Actors, NEW new \in ProcRecords, Goes(a, new), nextRow' \in Nat,
         nextRow <= nextRow', \A g \in Repos : Stored(g) => Stored(g)', ProcOK(a, new)'
  PROVE  /\ ProcsOK' /\ proc' \in [Actors -> ProcRecords]
         /\ proc'[a] = new /\ \A b \in Actors \ {a} : proc'[b] = proc[b]
<1>0. nextRow \in Nat
  BY ConstantsAssumption DEF Types
<1>1. /\ proc' \in [Actors -> ProcRecords]
      /\ proc'[a] = new /\ \A b \in Actors \ {a} : proc'[b] = proc[b]
  BY DEF Goes, Types
<1>2. ASSUME NEW b \in Actors PROVE ProcOK(b, proc[b])'
  <2>1. CASE b = a
    BY <1>1, <2>1
  <2>2. CASE b # a
    <3>1. PICK p \in ProcRecords : p = proc[b]
      BY DEF Types
    <3>2. ProcOK(b, p)
      BY <3>1 DEF ProcsOK
    <3>3. ProcOK(b, p)'
      BY <1>0, <3>2, ProcStays
    <3> QED
      BY <1>1, <2>2, <3>1, <3>3
  <2> QED
    BY <2>1, <2>2
<1> QED
  BY <1>1, <1>2 DEF ProcsOK
-----------------------------------------------------------------------------
(* Steps of one actor that leave the tables alone.                         *)
LEMMA ActorOnly ==
  ASSUME IInv, NEW a \in Actors, NEW new \in ProcRecords, Goes(a, new), ProcOK(a, new),
         UNCHANGED <<name, repo, tracked, nextRow, crossed>>, off' \subseteq off,
         jobs' \subseteq jobs, inbox' \in Seq(Deliveries)
  PROVE  IInv'
<1>0. Types /\ ReposOK /\ RowsOK /\ JobsOK /\ ProcsOK
  BY DEF IInv
<1>1. nextRow \in Nat /\ nextRow' \in Nat /\ nextRow <= nextRow'
  BY <1>0, ConstantsAssumption DEF Types
<1>2. \A g \in Repos : Stored(g) => Stored(g)'
  BY StoredKept
<1>3. ProcOK(a, new)'
  BY <1>1, <1>2, ProcStays
<1>4. ProcsOK' /\ proc' \in [Actors -> ProcRecords]
  BY <1>0, <1>1, <1>2, <1>3, ActorGoes
<1>5. ReposOK' /\ RowsOK'
  BY <1>0, <1>2, ReposKept, RowsKept
<1>6. Live' = Live
  BY LiveKept
<1>7. JobsOK' /\ jobs' \subseteq JobRecords
  BY <1>0, <1>2, <1>6, JobsKept
<1>8. Types'
  BY <1>0, <1>4, <1>7 DEF Types
<1> QED
  BY <1>4, <1>5, <1>7, <1>8 DEF IInv

(* Steps of one actor that write or add one row.                           *)
LEMMA ActorWrites ==
  ASSUME IInv, NEW a \in Actors, NEW new \in ProcRecords, Goes(a, new), ProcOK(a, new)',
         UNCHANGED <<name, repo, inbox, jobs, crossed>>, off' \subseteq off,
         NEW t \in RowIds, NEW r \in RowRecords,
         tracked' = [tracked EXCEPT ![t] = r], r.name # NoOne, r.repo # NoOne => Stored(r.repo),
         nextRow' \in 1 .. MaxRows + 1, nextRow <= nextRow', t < nextRow',
         \A u \in Live \ {t} : tracked[u].name # r.name
  PROVE  IInv'
<1>0. Types /\ ReposOK /\ RowsOK /\ JobsOK /\ ProcsOK
  BY DEF IInv
<1>1. nextRow' \in Nat
  BY ConstantsAssumption
<1>2. \A g \in Repos : Stored(g) => Stored(g)'
  BY StoredKept
<1>3. tracked' \in [RowIds -> RowRecords] /\ RowsOK' /\ Live' = Live \cup {t}
  BY <1>0, RowWritten
<1>4. ProcsOK' /\ proc' \in [Actors -> ProcRecords]
  BY <1>0, <1>1, <1>2, ActorGoes
<1>5. ReposOK'
  BY <1>0, ReposKept
<1>7. JobsOK' /\ jobs' \subseteq JobRecords
  BY <1>0, <1>2, <1>3, JobsKept
<1>8. Types'
  BY <1>0, <1>3, <1>4, <1>7 DEF Types
<1> QED
  BY <1>3, <1>4, <1>5, <1>7, <1>8 DEF IInv

(* Steps of one actor that claim its name.                                 *)
LEMMA ActorClaims ==
  ASSUME IInv, NEW a \in Actors, NEW new \in ProcRecords, Goes(a, new), Stored(new.g)' => ProcOK(a, new)',
         NEW n \in Names, new.g \in Repos, repo' = Claimed(new.g, n),
         UNCHANGED <<name, tracked, nextRow, inbox, jobs, off, crossed>>
  PROVE  IInv'
<1>0. Types /\ ReposOK /\ RowsOK /\ JobsOK /\ ProcsOK
  BY DEF IInv
<1>1. nextRow' \in Nat /\ nextRow <= nextRow'
  BY <1>0, ConstantsAssumption DEF Types
<1>2. /\ repo' \in [Repos -> FullNames \cup {NoOne}] /\ ReposOK'
      /\ \A g \in Repos : Stored(g) => Stored(g)'
      /\ Stored(new.g)'
  BY <1>0, ClaimKeeps
<1>4. ProcsOK' /\ proc' \in [Actors -> ProcRecords]
  BY <1>0, <1>1, <1>2, ActorGoes
<1>5. RowsOK'
  BY <1>0, <1>2, RowsKept
<1>6. Live' = Live
  BY LiveKept
<1>7. JobsOK' /\ jobs' \subseteq JobRecords
  BY <1>0, <1>2, <1>6, JobsKept
<1>8. Types'
  BY <1>0, <1>2, <1>4, <1>7 DEF Types
<1> QED
  BY <1>2, <1>4, <1>5, <1>7, <1>8 DEF IInv

(* An actor that waits may always be put to rest.                          *)
LEMMA IdleOK ==
  ASSUME NEW a \in Actors, Types
  PROVE  ProcOK(a, Idle)
<1>1. nextRow \in Nat /\ 0 < nextRow
  BY ConstantsAssumption DEF Types
<1> QED
  BY <1>1, RecordFacts DEF ProcOK, WorkerSteps, ReaderSteps
-----------------------------------------------------------------------------
LEMMA RenameKeeps ==
  ASSUME IInv, NEW g \in Repos, NEW n \in Names, Rename(g, n)
  PROVE  IInv'
<1>0. Types /\ ReposOK /\ RowsOK /\ JobsOK /\ ProcsOK
  BY DEF IInv
<1>1. UNCHANGED <<repo, tracked, nextRow, jobs, inbox, proc, off>>
  BY DEF Rename, rows, history
<1>2. name' \in [Repos -> Names] /\ crossed' \in BOOLEAN
  BY <1>0, Zenon DEF Rename, Types, StillKnown
<1>3. \A h \in Repos : Stored(h) => Stored(h)'
  BY <1>1, StoredKept
<1>4. nextRow' \in Nat /\ nextRow <= nextRow' /\ Live' = Live
  BY <1>0, <1>1, LiveKept, ConstantsAssumption DEF Types
<1>5. ReposOK' /\ RowsOK' /\ JobsOK' /\ ProcsOK'
  BY <1>0, <1>1, <1>3, <1>4, ReposKept, RowsKept, JobsKept, ProcsKept
<1>6. Types'
  BY <1>0, <1>1, <1>2 DEF Types
<1> QED
  BY <1>5, <1>6 DEF IInv

LEMMA HandleWebhookKeeps ==
  ASSUME IInv, NEW g \in Repos, NEW event \in Events, HandleWebhook(g, event)
  PROVE  IInv'
<1>0. Types /\ ReposOK /\ RowsOK /\ JobsOK /\ ProcsOK
  BY DEF IInv
<1>1. UNCHANGED <<name, tracked, nextRow, jobs, proc, off, crossed>>
  BY DEF HandleWebhook, rows, history
<1>2. name[g] \in Names
  BY <1>0 DEF Types
<1>3. /\ repo' \in [Repos -> FullNames \cup {NoOne}] /\ ReposOK'
      /\ \A h \in Repos : Stored(h) => Stored(h)'
  <2>1. CASE event = "issues"
    <3>1. PICK n \in Names : n = name[g]
      BY <1>2
    <3>2. repo' = Claimed(g, n)
      BY <2>1, <3>1, Zenon DEF HandleWebhook
    <3> QED
      BY <1>0, <3>2, ClaimKeeps
  <2>2. CASE event # "issues"
    <3>1. UNCHANGED repo
      BY <2>2 DEF HandleWebhook
    <3> QED
      BY <1>0, <3>1, ReposKept, StoredKept DEF Types
  <2> QED
    BY <2>1, <2>2
<1>4. inbox' \in Seq(Deliveries)
  <2>1. [g |-> g, n |-> name[g], event |-> event] \in Deliveries
    BY <1>2 DEF Deliveries
  <2>2. inbox' = Append(inbox, [g |-> g, n |-> name[g], event |-> event])
    BY Zenon DEF HandleWebhook
  <2> QED
    BY <1>0, <2>1, <2>2, AppendProperties DEF Types
<1>5. nextRow' \in Nat /\ nextRow <= nextRow' /\ Live' = Live
  BY <1>0, <1>1, LiveKept, ConstantsAssumption DEF Types
<1>6. RowsOK' /\ JobsOK' /\ ProcsOK'
  BY <1>0, <1>1, <1>3, <1>5, RowsKept, JobsKept, ProcsKept
<1>7. Types'
  BY <1>0, <1>1, <1>3, <1>4 DEF Types
<1> QED
  BY <1>3, <1>6, <1>7 DEF IInv

(* What repositoryIDByRef and the job's repository may be.                 *)
LEMMA HolderFacts ==
  ASSUME NEW n, Holders(n) # {}
  PROVE  (CHOOSE h \in Holders(n) : TRUE) \in Repos /\ repo[CHOOSE h \in Holders(n) : TRUE] = n
BY DEF Holders

LEMMA EnqueueKeeps ==
  ASSUME IInv, NEW g \in Repos, EnqueueRepositoryRefresh(g)
  PROVE  IInv'
<1>0. Types /\ ReposOK /\ RowsOK /\ JobsOK /\ ProcsOK
  BY DEF IInv
<1>1. UNCHANGED <<name, repo, tracked, nextRow, inbox, proc, off, crossed>>
  BY DEF EnqueueRepositoryRefresh, outside
<1>2. PICK n \in Names : n = name[g]
  BY <1>0 DEF Types
<1>3. PICK t : t = RowByName(n)
  OBVIOUS
<1>4. PICK r : r = IF Holders(n) # {} THEN CHOOSE h \in Holders(n) : TRUE ELSE Row(t).repo
  OBVIOUS
<1>5. r # NoOne /\ jobs' = jobs \cup {[for |-> g, row |-> t, repo |-> r, name |-> n]}
  BY <1>2, <1>3, <1>4, Zenon DEF EnqueueRepositoryRefresh
<1>6. t \in {0} \cup Live /\ t \in {0} \cup RowIds
  BY <1>3, FoundByName
<1>7. r \in Repos /\ Stored(r)
  <2>1. CASE Holders(n) # {}
    BY <1>4, <2>1, HolderFacts, RecordFacts DEF Stored
  <2>2. CASE Holders(n) = {}
    <3>1. r = Row(t).repo
      BY <1>4, <2>2
    <3>2. t \in Live
      BY <1>5, <1>6, <3>1, RecordFacts DEF Row
    <3>3. r = tracked[t].repo /\ r \in Refs
      BY <1>0, <1>6, <3>1, <3>2, RowValue DEF RowRecords
    <3>4. Stored(r)
      BY <1>0, <1>5, <3>2, <3>3 DEF RowsOK
    <3> QED
      BY <1>5, <3>3, <3>4 DEF Refs
  <2> QED
    BY <2>1, <2>2
<1>8. [for |-> g, row |-> t, repo |-> r, name |-> n] \in JobRecords
  BY <1>6, <1>7, RecordFacts DEF JobRecords
<1>9. \A h \in Repos : Stored(h) => Stored(h)'
  BY <1>1, StoredKept
<1>10. nextRow' \in Nat /\ nextRow <= nextRow' /\ Live' = Live
  BY <1>0, <1>1, LiveKept, ConstantsAssumption DEF Types
<1>11. ReposOK' /\ RowsOK' /\ ProcsOK'
  BY <1>0, <1>1, <1>9, <1>10, ReposKept, RowsKept, ProcsKept
<1>12. JobsOK'
  <2>1. ASSUME NEW j \in jobs' PROVE j.row \in {0} \cup Live' /\ Stored(j.repo)'
    <3>1. CASE j \in jobs
      BY <1>0, <1>1, <1>10, <3>1 DEF JobsOK, Stored
    <3>2. CASE j \notin jobs
      <4>1. j.row = t /\ j.repo = r
        BY <1>5, <3>2
      <4> QED
        BY <1>6, <1>7, <1>9, <1>10, <4>1
    <3> QED
      BY <3>1, <3>2
  <2> QED
    BY <2>1 DEF JobsOK
<1>13. Types'
  BY <1>0, <1>1, <1>5, <1>8 DEF Types
<1> QED
  BY <1>11, <1>12, <1>13 DEF IInv
-----------------------------------------------------------------------------
LEMMA ActorRecord ==
  ASSUME IInv, NEW a \in Actors
  PROVE  proc[a] \in ProcRecords /\ ProcOK(a, proc[a])
BY DEF IInv, Types, ProcsOK

(* What an actor knows when it has read both matches: s is the row of the  *)
(* repository, t the row that has the name.                                *)
Resolves(a, p, new, s, t) ==
    /\ p = proc[a] /\ ProcOK(a, p) /\ p.pc = "resolve" /\ Goes(a, new)
    /\ UNCHANGED <<name, repo, tracked, nextRow, off, crossed, jobs, inbox, served>>
    /\ s # 0 => s \in Live /\ p.known # NoOne /\ tracked[s].repo = p.known
    /\ s = 0 /\ p.known # NoOne => \A u \in Live : tracked[u].repo # p.known
    /\ t # 0 => t \in Live /\ tracked[t].name = p.n
    /\ new.g = p.g /\ new.n = p.n /\ new.known = p.known /\ new.then = p.then
    /\ new.job = p.job /\ new.policy = p.policy
    /\ new.row = IF s # 0 THEN s ELSE t
    /\ new.copy = Row(new.row)
    /\ new.copy.repo # NoOne => Stored(new.copy.repo)
    /\ new.row < nextRow /\ new.nameId < nextRow
    /\ \/ /\ new.pc = "merge" /\ s # 0 /\ t # 0 /\ s # t
          /\ new.nameId = t /\ new.byName = tracked[t]
       \/ new.pc = p.then /\ ~(s # 0 /\ t # 0 /\ s # t)

LEMMA Resolved ==
  ASSUME IInv, NEW a \in Actors, ResolveTrackedRepository(a)
  PROVE  \E p, new \in ProcRecords, s, t \in {0} \cup RowIds : Resolves(a, p, new, s, t)
<1>0. Types /\ RowsOK
  BY DEF IInv
<1>1. PICK p \in ProcRecords : p = proc[a] /\ ProcOK(a, p)
  BY ActorRecord
<1>2. PICK s : s = RowByRepo(p.known)
  OBVIOUS
<1>3. PICK t : t = RowByName(p.n)
  OBVIOUS
<1>4. PICK row : row = IF s # 0 THEN s ELSE t
  OBVIOUS
<1>5. PICK copy : copy = Row(row)
  OBVIOUS
<1>6. /\ s # 0 => s \in Live /\ s \in RowIds /\ p.known # NoOne /\ tracked[s].repo = p.known
      /\ t # 0 => t \in Live /\ t \in RowIds /\ tracked[t].name = p.n
      /\ s = 0 /\ p.known # NoOne => \A u \in Live : tracked[u].repo # p.known
  BY <1>2, <1>3, FoundByRepo, FoundByName
<1>7. /\ row \in {0} \cup RowIds /\ row < nextRow /\ t \in {0} \cup RowIds /\ t < nextRow
      /\ copy \in RowRecords /\ (copy.repo # NoOne => Stored(copy.repo))
  <2>1. 0 < nextRow
    BY <1>0, ConstantsAssumption DEF Types
  <2>2. row \in {0} \cup Live /\ row \in {0} \cup RowIds /\ t \in {0} \cup RowIds
    BY <1>4, <1>6
  <2>3. copy \in RowRecords
    BY <1>0, <1>5, <2>2, RowValue
  <2>4. CASE row = 0
    <3>1. copy = Absent
      BY <1>5, <2>4 DEF Row
    <3> QED
      BY <1>0, <1>6, <2>1, <2>2, <2>3, <2>4, <3>1, RecordFacts DEF RowsOK
  <2>5. CASE row \in Live
    <3>1. copy = tracked[row]
      BY <1>0, <1>5, <2>2, <2>5, RowValue
    <3> QED
      BY <1>0, <1>6, <2>1, <2>2, <2>3, <2>5, <3>1 DEF RowsOK
  <2> QED
    BY <2>2, <2>4, <2>5
<1>8. PICK byName : byName = Row(t)
  OBVIOUS
<1>9. byName \in RowRecords /\ (t # 0 => byName.name = p.n)
  BY <1>0, <1>6, <1>7, <1>8, RowValue
<1>10. PICK new : new = IF s # 0 /\ t # 0 /\ s # t
                        THEN [p EXCEPT !.row = row, !.copy = copy, !.pc = "merge", !.nameId = t, !.byName = byName]
                        ELSE [p EXCEPT !.row = row, !.copy = copy, !.pc = p.then]
  OBVIOUS
<1>11. p.pc = "resolve" /\ Goes(a, new)
       /\ UNCHANGED <<name, repo, tracked, nextRow, off, crossed, jobs, inbox, served>>
  <2>1. Row(row) = IF s # 0 THEN Row(s) ELSE Row(t)
    BY <1>4
  <2>2. p.pc = "resolve" /\ UNCHANGED <<name, repo, tracked, nextRow, off, crossed, jobs, inbox, served>>
    BY <1>1 DEF ResolveTrackedRepository, outside, rows, history
  <2>3. Goes(a, LET q == [p EXCEPT !.row = IF s # 0 THEN s ELSE t, !.copy = IF s # 0 THEN Row(s) ELSE Row(t)]
                IN  IF s # 0 /\ t # 0 /\ s # t
                    THEN [q EXCEPT !.pc = "merge", !.nameId = t, !.byName = Row(t)]
                    ELSE [q EXCEPT !.pc = p.then])
    BY <1>1, <1>2, <1>3, Zenon DEF ResolveTrackedRepository
  <2>4. Goes(a, LET q == [p EXCEPT !.row = row, !.copy = copy]
                IN  IF s # 0 /\ t # 0 /\ s # t
                    THEN [q EXCEPT !.pc = "merge", !.nameId = t, !.byName = byName]
                    ELSE [q EXCEPT !.pc = p.then])
    BY <2>3, <2>1, <1>4, <1>5, <1>8, Zenon
  <2> QED
    BY <2>2, <2>4, <1>10
<1>12. /\ new \in ProcRecords /\ new.g = p.g /\ new.n = p.n /\ new.known = p.known /\ new.then = p.then
       /\ new.row = row /\ new.copy = copy /\ new.job = p.job /\ new.policy = p.policy
       /\ \/ new.pc = "merge" /\ s # 0 /\ t # 0 /\ s # t /\ new.nameId = t /\ new.byName = byName
          \/ new.pc = p.then /\ new.nameId = p.nameId /\ ~(s # 0 /\ t # 0 /\ s # t)
  <2>1. CASE s # 0 /\ t # 0 /\ s # t
    <3>1. new = [p EXCEPT !.row = row, !.copy = copy, !.pc = "merge", !.nameId = t, !.byName = byName]
      BY <1>10, <2>1
    <3> QED
      BY <1>7, <1>9, <2>1, <3>1 DEF ProcRecords, WorkerSteps, ReaderSteps
  <2>2. CASE ~(s # 0 /\ t # 0 /\ s # t)
    <3>1. new = [p EXCEPT !.row = row, !.copy = copy, !.pc = p.then]
      BY <1>10, <2>2
    <3>2. p.then \in WorkerSteps \cup ReaderSteps
      BY DEF ProcRecords, WorkerSteps, ReaderSteps
    <3> QED
      BY <1>7, <2>2, <3>1, <3>2 DEF ProcRecords
  <2> QED
    BY <2>1, <2>2
<1>13. p.nameId < nextRow
  BY <1>1 DEF ProcOK
<1>14. t # 0 => byName = tracked[t]
  BY <1>0, <1>6, <1>8, RowValue
<1>15. s \in {0} \cup RowIds
  BY <1>6
<1>16. /\ new.copy = Row(new.row) /\ new.row < nextRow /\ new.nameId < nextRow
       /\ new.copy.repo # NoOne => Stored(new.copy.repo)
       /\ new.row = IF s # 0 THEN s ELSE t
  BY <1>4, <1>5, <1>7, <1>12, <1>13
<1>17. \/ /\ new.pc = "merge" /\ s # 0 /\ t # 0 /\ s # t
          /\ new.nameId = t /\ new.byName = tracked[t]
       \/ new.pc = p.then /\ ~(s # 0 /\ t # 0 /\ s # t)
  BY <1>12, <1>14
<1> QED
  BY <1>1, <1>6, <1>7, <1>11, <1>12, <1>15, <1>16, <1>17 DEF Resolves

LEMMA ResolveKeeps ==
  ASSUME IInv, NEW a \in Actors, ResolveTrackedRepository(a)
  PROVE  IInv'
<1>0. Types
  BY DEF IInv
<1>1. PICK p, new \in ProcRecords, s, t \in {0} \cup RowIds : Resolves(a, p, new, s, t)
  BY Resolved
<1>2. ProcOK(a, new)
  <2>1. p.then \in {"upsert", "policy", "state"}
    BY <1>1 DEF Resolves, ProcOK, ProcRecords
  <2>2. CASE new.pc = "merge"
    <3>1. s # 0 /\ t # 0 /\ s # t /\ new.nameId = t /\ new.byName = tracked[t]
      BY <1>1, <2>1, <2>2 DEF Resolves
    <3>2. new.row = s /\ s \in Live /\ p.known # NoOne /\ tracked[s].repo = p.known /\ tracked[t].name = p.n
      BY <1>1, <3>1 DEF Resolves
    <3>3. new.copy = tracked[s]
      BY <1>0, <1>1, <3>2, RowValue DEF Resolves
    <3>4. p.known \in Repos
      BY <3>2 DEF ProcRecords, Refs
    <3> QED
      BY <1>1, <2>1, <2>2, <3>1, <3>2, <3>3, <3>4 DEF Resolves, ProcOK, WorkerSteps, ReaderSteps
  <2>3. CASE new.pc = p.then
    BY <1>1, <2>1, <2>3 DEF Resolves, ProcOK, WorkerSteps, ReaderSteps
  <2> QED
    BY <1>1, <2>2, <2>3 DEF Resolves
<1>3. inbox' \in Seq(Deliveries)
  BY <1>0, <1>1 DEF Resolves, Types
<1> QED
  BY <1>1, <1>2, <1>3, ActorOnly DEF Resolves
-----------------------------------------------------------------------------
(* What a merge leaves: the row found by name is gone, the other one, if   *)
(* it is still there, is the repository's under the name.                  *)
Merges(a, p, new, r) ==
    /\ p = proc[a] /\ ProcOK(a, p) /\ p.pc = "merge" /\ Goes(a, new)
    /\ UNCHANGED <<name, repo, nextRow, off, crossed, inbox, served>>
    /\ r.name = p.n /\ r.repo = p.known /\ r.enabled = p.copy.enabled
    /\ tracked' \in [RowIds -> RowRecords]
    /\ \A t \in RowIds : tracked'[t] = IF t = p.nameId THEN Absent
                                       ELSE IF t = p.row /\ p.row \in Live THEN r ELSE tracked[t]
    /\ Live' = Live \ {p.nameId}
    /\ \A t \in Live \ {p.row, p.nameId} : tracked[t].name # p.n
    /\ p.row \in Live \/ \A j \in jobs : j.row # p.nameId
    /\ jobs' = {IF j.row \in {p.nameId, p.row}
                THEN [j EXCEPT !.row = p.row, !.repo = p.known, !.name = p.n] ELSE j : j \in jobs}
    /\ new.g = p.g /\ new.n = p.n /\ new.known = p.known /\ new.then = p.then
    /\ new.job = p.job /\ new.policy = p.policy /\ new.row = p.row /\ new.nameId = 0
    /\ new.copy = tracked'[p.row]
    /\ new.pc = IF p.row \in Live THEN p.then ELSE "gone"

LEMMA Merged ==
  ASSUME IInv, NEW a \in Actors, MergeTrackedRepositoryMatches(a)
  PROVE  \E p, new \in ProcRecords, r \in RowRecords : Merges(a, p, new, r)
<1>0. Types
  BY DEF IInv
<1>1. PICK p \in ProcRecords : p = proc[a] /\ ProcOK(a, p)
  BY ActorRecord
<1>2. PICK new : new = [p EXCEPT !.pc = IF p.row \in Live THEN p.then ELSE "gone", !.copy = tracked'[p.row],
                                 !.nameId = 0, !.byName = Absent]
  OBVIOUS
<1>3. PICK r : r = MergedRow(p.copy, p.byName)
  OBVIOUS
<1>4. /\ p.pc = "merge" /\ CanMerge(p) /\ jobs' = Moved(p) /\ Goes(a, new)
      /\ UNCHANGED <<name, repo, nextRow, off, crossed, inbox, served>>
      /\ tracked' = [tracked EXCEPT ![p.nameId] = Absent, ![p.row] = IF p.row \in Live THEN r ELSE Absent]
  <2>1. /\ p.pc = "merge" /\ CanMerge(p) /\ jobs' = Moved(p)
        /\ tracked' = [tracked EXCEPT ![p.nameId] = Absent, ![p.row] = IF p.row \in Live THEN r ELSE Absent]
    BY <1>1, <1>3, Zenon DEF MergeTrackedRepositoryMatches, Present
  <2>2. Goes(a, new)
    BY <1>1, <1>2, Zenon DEF MergeTrackedRepositoryMatches, Present
  <2> QED
    BY <2>1, <2>2 DEF MergeTrackedRepositoryMatches, outside, history
<1>5. /\ p.row \in RowIds /\ p.nameId \in RowIds /\ p.nameId # p.row /\ p.known \in Repos /\ p.n \in FullNames
      /\ p.copy.repo = p.known /\ p.byName.name = p.n /\ p.copy \in RowRecords /\ p.byName \in RowRecords
      /\ p.then \in {"upsert", "policy", "state"}
  BY <1>1, <1>4 DEF ProcOK, ProcRecords
<1>6. r \in RowRecords /\ r.name = p.n /\ r.repo = p.known /\ r.enabled = p.copy.enabled /\ r # Absent
  BY <1>3, <1>5, RecordFacts DEF MergedRow, RowRecords, Refs
<1>7. /\ tracked' \in [RowIds -> RowRecords]
      /\ \A t \in RowIds : tracked'[t] = IF t = p.nameId THEN Absent
                                         ELSE IF t = p.row /\ p.row \in Live THEN r ELSE tracked[t]
  <2>1. CASE p.row \in Live
    <3>1. tracked' = [tracked EXCEPT ![p.nameId] = Absent, ![p.row] = r]
      BY <1>4, <2>1
    <3> QED
      BY <1>0, <1>5, <1>6, <2>1, <3>1, RecordFacts DEF Types
  <2>2. CASE p.row \notin Live
    <3>1. tracked' = [tracked EXCEPT ![p.nameId] = Absent, ![p.row] = Absent]
      BY <1>4, <2>2
    <3>2. tracked[p.row] = Absent
      BY <1>5, <2>2 DEF Live
    <3> QED
      BY <1>0, <1>5, <2>2, <3>1, <3>2, RecordFacts DEF Types
  <2> QED
    BY <2>1, <2>2
<1>8. Live' = Live \ {p.nameId}
  BY <1>5, <1>6, <1>7 DEF Live
<1>9. jobs' = {IF j.row \in {p.nameId, p.row}
               THEN [j EXCEPT !.row = p.row, !.repo = p.known, !.name = p.n] ELSE j : j \in jobs}
  BY <1>4, <1>5, Zenon DEF Moved
<1>10. /\ \A t \in Live \ {p.row, p.nameId} : tracked[t].name # p.n
       /\ p.row \in Live \/ \A j \in jobs : j.row # p.nameId
  BY <1>4, <1>5, Zenon DEF CanMerge, Present
<1>11. /\ new \in ProcRecords
       /\ new.g = p.g /\ new.n = p.n /\ new.known = p.known /\ new.then = p.then
       /\ new.job = p.job /\ new.policy = p.policy /\ new.row = p.row /\ new.nameId = 0
       /\ new.copy = tracked'[p.row]
       /\ new.pc = IF p.row \in Live THEN p.then ELSE "gone"
  <2>1. PICK pc : pc = IF p.row \in Live THEN p.then ELSE "gone"
    OBVIOUS
  <2>2. PICK copy \in RowRecords : copy = tracked'[p.row]
    BY <1>5, <1>7
  <2>3. new = [p EXCEPT !.pc = pc, !.copy = copy, !.nameId = 0, !.byName = Absent]
    BY <1>2, <2>1, <2>2
  <2>4. pc \in WorkerSteps \cup ReaderSteps
    BY <1>5, <2>1 DEF WorkerSteps, ReaderSteps
  <2> QED
    BY <2>1, <2>2, <2>3, <2>4, RecordFacts, ZenonT(60) DEF ProcRecords
<1>12. Merges(a, p, new, r)
  BY <1>1, <1>4, <1>6, <1>7, <1>8, <1>9, <1>10, <1>11, ZenonT(60) DEF Merges
<1> QED
  BY <1>6, <1>11, <1>12

LEMMA MergeKeeps ==
  ASSUME IInv, NEW a \in Actors, MergeTrackedRepositoryMatches(a)
  PROVE  IInv'
<1>0. Types /\ ReposOK /\ RowsOK /\ JobsOK /\ ProcsOK
  BY DEF IInv
<1>1. PICK p, new \in ProcRecords, r \in RowRecords : Merges(a, p, new, r)
  BY Merged
<1>2. /\ p.row \in RowIds /\ p.nameId \in RowIds /\ p.nameId # p.row /\ p.known \in Repos /\ p.n \in FullNames
      /\ p.then \in {"upsert", "policy", "state"} /\ Stored(p.known) /\ p.known # NoOne /\ p.n # NoOne
  <2>1. ProcOK(a, p) /\ p.pc = "merge"
    BY <1>1 DEF Merges
  <2>2. p.row \in RowIds /\ p.nameId \in RowIds /\ p.nameId # p.row /\ p.known \in Repos /\ p.n \in FullNames
    BY <2>1 DEF ProcOK, ProcRecords
  <2>3. p.then \in {"upsert", "policy", "state"} /\ Stored(p.known)
    BY <2>1, <2>2, RecordFacts DEF ProcOK, ProcRecords
  <2> QED
    BY <2>2, <2>3, RecordFacts
<1>3. /\ nextRow \in Nat /\ nextRow' \in Nat /\ nextRow <= nextRow' /\ nextRow' = nextRow
      /\ \A g \in Repos : Stored(g) => Stored(g)'
      /\ UNCHANGED repo
  <2>1. UNCHANGED <<repo, nextRow>>
    BY <1>1 DEF Merges
  <2> QED
    BY <1>0, <2>1, ConstantsAssumption, StoredKept DEF Types
<1>4. /\ tracked' \in [RowIds -> RowRecords]
      /\ \A t \in RowIds : tracked'[t] = IF t = p.nameId THEN Absent
                                         ELSE IF t = p.row /\ p.row \in Live THEN r ELSE tracked[t]
      /\ Live' = Live \ {p.nameId} /\ r.name = p.n /\ r.repo = p.known
      /\ \A t \in Live \ {p.row, p.nameId} : tracked[t].name # p.n
  BY <1>1, Zenon DEF Merges
<1>5. RowsOK'
  <2>1. ASSUME NEW t \in Live'
        PROVE  /\ t < nextRow' /\ tracked'[t].name # NoOne
               /\ tracked'[t].repo # NoOne => repo'[tracked'[t].repo] # NoOne
               /\ \A u \in Live' : tracked'[t].name = tracked'[u].name => t = u
    <3>0. t \in Live /\ t \in RowIds /\ t # p.nameId
      BY <1>4, RowIdsFacts
    <3>1. CASE t = p.row
      <4>1. tracked'[t] = r
        BY <1>4, <3>0, <3>1
      <4>2. \A u \in Live' : u # p.row => tracked'[u] = tracked[u] /\ tracked[u].name # p.n
        BY <1>4, RowIdsFacts
      <4>3. t < nextRow
        BY <1>0, <3>0 DEF RowsOK
      <4> QED
        BY <1>2, <1>3, <1>4, <3>1, <4>1, <4>2, <4>3 DEF Stored
    <3>2. CASE t # p.row
      <4>1. tracked'[t] = tracked[t] /\ tracked[t].name # p.n
        BY <1>4, <3>0, <3>2
      <4>2. /\ t < nextRow /\ tracked[t].name # NoOne /\ (tracked[t].repo # NoOne => repo[tracked[t].repo] # NoOne)
            /\ \A u \in Live : tracked[t].name = tracked[u].name => t = u
        BY <1>0, <3>0 DEF RowsOK, Stored
      <4>3. ASSUME NEW u \in Live', tracked'[t].name = tracked'[u].name PROVE t = u
        <5>1. u \in Live /\ u \in RowIds /\ u # p.nameId
          BY <1>4, RowIdsFacts
        <5>2. u # p.row
          BY <1>4, <4>1, <4>3, <5>1
        <5>3. tracked'[u] = tracked[u]
          BY <1>4, <5>1, <5>2
        <5> QED
          BY <4>1, <4>2, <4>3, <5>1, <5>3
      <4> QED
        BY <1>3, <4>1, <4>2, <4>3
    <3> QED
      BY <3>1, <3>2
  <2> QED
    BY <2>1 DEF RowsOK, Stored
<1>6. jobs' \subseteq JobRecords /\ JobsOK'
  <2>1. ASSUME NEW k \in jobs' PROVE k \in JobRecords /\ k.row \in {0} \cup Live' /\ Stored(k.repo)'
    <3>1. PICK j \in jobs :
            k = IF j.row \in {p.nameId, p.row} THEN [j EXCEPT !.row = p.row, !.repo = p.known, !.name = p.n] ELSE j
      BY <1>1 DEF Merges
    <3>2. j \in JobRecords /\ j.row \in {0} \cup Live /\ Stored(j.repo) /\ j.repo \in Repos
      BY <1>0 DEF JobsOK, Types, JobRecords
    <3>3. CASE j.row \in {p.nameId, p.row}
      <4>1. k = [j EXCEPT !.row = p.row, !.repo = p.known, !.name = p.n]
        BY <3>1, <3>3
      <4>2. k \in JobRecords /\ k.row = p.row /\ k.repo = p.known
        BY <1>2, <3>2, <4>1 DEF JobRecords
      <4>3. p.row \in Live'
        <5>1. p.row \in Live \/ j.row # p.nameId
          BY <1>1 DEF Merges
        <5>2. p.row \in Live
          BY <1>2, <3>2, <3>3, <5>1, RowIdsFacts
        <5> QED
          BY <1>2, <1>4, <5>2
      <4> QED
        BY <1>2, <1>3, <4>2, <4>3
    <3>4. CASE j.row \notin {p.nameId, p.row}
      BY <1>3, <1>4, <3>1, <3>2, <3>4
    <3> QED
      BY <3>3, <3>4
  <2> QED
    BY <2>1 DEF JobsOK
<1>7. ProcOK(a, new)'
  <2>1. /\ new.copy.repo # NoOne => repo'[new.copy.repo] # NoOne
        /\ new.row < nextRow' /\ new.nameId < nextRow'
    <3>1. new.copy = tracked'[p.row] /\ new.row = p.row /\ new.nameId = 0 /\ p.row < nextRow
      BY <1>1 DEF Merges, ProcOK
    <3>2. CASE p.row \in Live
      <4>1. new.copy = r
        BY <1>2, <1>4, <3>1, <3>2
      <4> QED
        BY <1>0, <1>2, <1>3, <1>4, <3>1, <4>1, ConstantsAssumption DEF Stored, Types
    <3>3. CASE p.row \notin Live
      <4>1. tracked[p.row] = Absent
        BY <1>2, <3>3 DEF Live
      <4>2. new.copy = Absent
        BY <1>2, <1>4, <3>1, <3>3, <4>1
      <4> QED
        BY <1>0, <1>2, <1>3, <1>4, <3>1, <4>2, ConstantsAssumption, RecordFacts DEF Types
    <3> QED
      BY <3>2, <3>3
  <2>2. ProcOK(a, p)'
    BY <1>1, <1>3, ProcStays DEF Merges
  <2>3. /\ new.g = p.g /\ new.n = p.n /\ new.known = p.known /\ new.then = p.then /\ p.pc = "merge"
        /\ new.job = p.job /\ new.pc \in {p.then, "gone"}
    BY <1>1 DEF Merges
  <2> QED
    BY <1>2, <2>1, <2>2, <2>3 DEF ProcOK, Stored, WorkerSteps, ReaderSteps
<1>8. ProcsOK' /\ proc' \in [Actors -> ProcRecords]
  <2>1. Goes(a, new)
    BY <1>1 DEF Merges
  <2> QED
    BY <1>0, <1>3, <1>7, <2>1, ActorGoes
<1>9. ReposOK'
  BY <1>0, <1>3, ReposKept
<1>10. Types'
  BY <1>0, <1>1, <1>4, <1>6, <1>8 DEF Merges, Types
<1> QED
  BY <1>5, <1>6, <1>8, <1>9, <1>10 DEF IInv
-----------------------------------------------------------------------------
(* What a worker knows of the delivery it takes.                           *)
Takes(w, d, new) ==
    /\ proc[w] = Idle /\ Goes(w, new) /\ inbox' \in Seq(Deliveries)
    /\ inbox # <<>> /\ d = Head(inbox) /\ inbox' = Tail(inbox)
    /\ \E i \in DOMAIN inbox : d = inbox[i]
    /\ \A i \in DOMAIN inbox' : \E k \in DOMAIN inbox : inbox'[i] = inbox[k]
    /\ UNCHANGED <<name, repo, tracked, nextRow, off, crossed, jobs, served>>
    /\ new.pc = "resolve" /\ new.then = "upsert" /\ new.g = d.g /\ new.n = d.n /\ new.job = NoOne
    /\ new.row = 0 /\ new.nameId = 0 /\ new.copy = Absent
    /\ Stored(d.g) => new.known = d.g
    /\ new.known \in {NoOne, d.g} \/ repo[new.known] = d.n
    /\ new.known # NoOne => Stored(new.known)

LEMMA InboxTaken ==
  ASSUME NEW s \in Seq(Deliveries), s # <<>>
  PROVE  /\ Head(s) \in Deliveries /\ Tail(s) \in Seq(Deliveries)
         /\ \E i \in DOMAIN s : Head(s) = s[i]
         /\ \A i \in DOMAIN Tail(s) : \E k \in DOMAIN s : Tail(s)[i] = s[k]
<1>1. /\ Head(s) \in Deliveries /\ Tail(s) \in Seq(Deliveries)
      /\ Len(Tail(s)) = Len(s) - 1
      /\ \A i \in 1 .. Len(Tail(s)) : Tail(s)[i] = s[i + 1]
  BY HeadTailProperties
<1>2. Len(s) \in Nat /\ Len(s) > 0 /\ DOMAIN s = 1 .. Len(s) /\ DOMAIN Tail(s) = 1 .. Len(Tail(s))
  BY <1>1, LenProperties, EmptySeq
<1>3. Head(s) = s[1] /\ 1 \in DOMAIN s
  BY <1>2
<1>4. \A i \in DOMAIN Tail(s) : i + 1 \in DOMAIN s /\ Tail(s)[i] = s[i + 1]
  BY <1>1, <1>2
<1> QED
  BY <1>1, <1>3, <1>4

LEMMA Taken ==
  ASSUME IInv, NEW w \in Workers, ProcessWebhookDelivery(w)
  PROVE  \E d \in Deliveries, new \in ProcRecords : Takes(w, d, new)
<1>0. Types
  BY DEF IInv
<1>1. proc[w] = Idle /\ inbox # <<>> /\ inbox' = Tail(inbox)
      /\ UNCHANGED <<name, repo, tracked, nextRow, off, crossed, jobs, served>>
  BY DEF ProcessWebhookDelivery, outside, rows, history
<1>2. /\ Head(inbox) \in Deliveries /\ inbox' \in Seq(Deliveries)
      /\ \E i \in DOMAIN inbox : Head(inbox) = inbox[i]
      /\ \A i \in DOMAIN inbox' : \E k \in DOMAIN inbox : inbox'[i] = inbox[k]
  BY <1>0, <1>1, InboxTaken DEF Types
<1>3. PICK d \in Deliveries : d = Head(inbox)
  BY <1>2
<1>4. PICK k : k = Lookup(d.g, d.n)
  OBVIOUS
<1>5. d.g \in Repos /\ d.n \in Names /\ d.event \in Events /\ d.n # NoOne /\ d.g # NoOne
  BY RecordFacts DEF Deliveries
<1>6. /\ k \in Refs /\ (Stored(d.g) => k = d.g)
      /\ k \in {NoOne, d.g} \/ repo[k] = d.n
      /\ k # NoOne => Stored(k)
  <2>1. CASE repo[d.g] # NoOne
    BY <1>4, <1>5, <2>1 DEF Lookup, Stored, Refs
  <2>2. CASE repo[d.g] = NoOne /\ Holders(d.n) # {}
    <3>1. k = CHOOSE h \in Holders(d.n) : TRUE
      BY <1>4, <2>2 DEF Lookup
    <3>2. k \in Repos /\ repo[k] = d.n
      BY <2>2, <3>1, HolderFacts
    <3> QED
      BY <1>5, <2>2, <3>2 DEF Stored, Refs
  <2>3. CASE repo[d.g] = NoOne /\ Holders(d.n) = {}
    BY <1>4, <2>3 DEF Lookup, Stored, Refs
  <2> QED
    BY <2>1, <2>2, <2>3
<1>7. PICK new : new = [Idle EXCEPT !.g = d.g, !.event = d.event, !.pc = "resolve", !.known = k,
                                    !.n = d.n, !.then = "upsert"]
  OBVIOUS
<1>8. Goes(w, new)
  <2>1. Goes(w, Resolving([Idle EXCEPT !.g = d.g, !.event = d.event], k, d.n, "upsert"))
    BY <1>2, <1>3, <1>4, Zenon DEF ProcessWebhookDelivery
  <2>2. Resolving([Idle EXCEPT !.g = d.g, !.event = d.event], k, d.n, "upsert")
          = [Idle EXCEPT !.g = d.g, !.event = d.event, !.pc = "resolve", !.known = k, !.n = d.n, !.then = "upsert"]
    BY DEF Resolving
  <2> QED
    BY <1>7, <2>1, <2>2
<1>9. /\ new \in ProcRecords
      /\ new.pc = "resolve" /\ new.then = "upsert" /\ new.g = d.g /\ new.n = d.n /\ new.job = NoOne
      /\ new.row = 0 /\ new.nameId = 0 /\ new.copy = Absent /\ new.known = k
  <2>1. new.row = 0 /\ new.nameId = 0 /\ new.copy = Absent /\ new.job = NoOne
    BY <1>7 DEF Idle
  <2>2. new \in ProcRecords
    BY <1>5, <1>6, <1>7, RecordFacts DEF ProcRecords, WorkerSteps, Refs
  <2> QED
    BY <1>7, <2>1, <2>2 DEF Idle
<1>10. Takes(w, d, new)
  BY <1>1, <1>2, <1>3, <1>6, <1>8, <1>9 DEF Takes
<1> QED
  BY <1>9, <1>10

LEMMA TakeKeeps ==
  ASSUME IInv, NEW w \in Workers, ProcessWebhookDelivery(w)
  PROVE  IInv'
<1>0. Types
  BY DEF IInv
<1>1. PICK d \in Deliveries, new \in ProcRecords : Takes(w, d, new)
  BY Taken
<1>2. ProcOK(w, new)
  <2>1. d.g \in Repos /\ d.n \in Names /\ w # Reader /\ 0 < nextRow
    BY <1>0, ConstantsAssumption DEF Deliveries, Types
  <2> QED
    BY <1>1, <2>1, RecordFacts DEF Takes, ProcOK, WorkerSteps
<1>3. inbox' \in Seq(Deliveries)
  BY <1>1 DEF Takes
<1> QED
  BY <1>1, <1>2, <1>3, ActorOnly DEF Takes, Actors

(* What is common to the steps that write a row, or add one.               *)
Writes(a, p, new, t, r) ==
    /\ p = proc[a] /\ ProcOK(a, p) /\ Goes(a, new)
    /\ UNCHANGED <<name, repo, inbox, jobs, crossed, served>>
    /\ tracked' = [tracked EXCEPT ![t] = r] /\ r.name = p.n
    /\ \A u \in Live \ {t} : tracked[u].name # p.n
    /\ \/ t \in Live /\ nextRow' = nextRow
       \/ t = nextRow /\ nextRow' = nextRow + 1

LEMMA WriteKeeps ==
  ASSUME IInv, NEW a \in Actors, NEW p \in ProcRecords, NEW new \in ProcRecords,
         NEW t \in RowIds, NEW r \in RowRecords,
         Writes(a, p, new, t, r), p.pc # "idle", r.repo # NoOne => Stored(r.repo), off' \subseteq off,
         t < nextRow' => ProcOK(a, new)'
  PROVE  IInv'
<1>0. Types /\ RowsOK
  BY DEF IInv
<1>1. p.n # NoOne
  BY RecordFacts DEF Writes, ProcOK
<1>2. nextRow' \in 1 .. MaxRows + 1 /\ nextRow <= nextRow' /\ t < nextRow'
  <2>0. nextRow \in 1 .. MaxRows + 1 /\ MaxRows \in Nat
    BY <1>0, ConstantsAssumption DEF Types
  <2>1. CASE t \in Live /\ nextRow' = nextRow
    BY <1>0, <2>0, <2>1 DEF RowsOK
  <2>2. CASE t = nextRow /\ nextRow' = nextRow + 1
    <3>1. t \in 1 .. MaxRows
      BY DEF RowIds
    <3> QED
      BY <2>0, <2>2, <3>1
  <2> QED
    BY <2>1, <2>2 DEF Writes
<1> QED
  BY <1>1, <1>2, ActorWrites DEF Writes

(* UpsertTracked writes what the worker knows to the row it found.         *)
LEMMA UpsertTrackedWrites ==
  ASSUME IInv, NEW w \in Workers, UpsertTracked(w)
  PROVE  \E p, new \in ProcRecords, t \in RowIds, r \in RowRecords :
           /\ Writes(w, p, new, t, r) /\ p.pc = "upsert" /\ t \in Live /\ UNCHANGED off
           /\ p.row # 0 => t = p.row
           /\ p.row = 0 => tracked[t].name = p.n
           /\ r.repo = (IF p.known = NoOne THEN tracked[t].repo ELSE p.known) /\ r.enabled = tracked[t].enabled
           /\ new.pc = "project" /\ new.row = t /\ new.copy = r /\ new.g = p.g /\ new.n = p.n
           /\ new.known = p.known /\ new.then = p.then /\ new.job = p.job /\ new.nameId = p.nameId
<1>0. Types
  BY DEF IInv
<1>1. PICK p \in ProcRecords : p = proc[w] /\ ProcOK(w, p)
  BY ActorRecord DEF Actors
<1>2. PICK t : t = IF p.row # 0 THEN p.row ELSE RowByName(p.n)
  OBVIOUS
<1>3. PICK r : r = Named(tracked[t], p.n, p.known)
  OBVIOUS
<1>4. p.pc = "upsert" /\ t \in Live /\ (\A u \in Live \ {t} : tracked[u].name # p.n)
      /\ tracked' = [tracked EXCEPT ![t] = r]
  BY <1>1, <1>2, <1>3, Zenon DEF UpsertTracked, Present, NameFree
<1>5. UNCHANGED <<name, repo, inbox, jobs, crossed, served, off, nextRow>>
  BY DEF UpsertTracked, outside, history
<1>6. t \in RowIds /\ (p.row = 0 => tracked[t].name = p.n) /\ tracked[t] \in RowRecords
  <2>1. t \in RowIds
    BY <1>4, RowIdsFacts
  <2>2. p.row = 0 => tracked[t].name = p.n
    BY <1>2, <2>1, FoundByName, RowIdsFacts
  <2> QED
    BY <1>0, <2>1, <2>2 DEF Types
<1>7. /\ r \in RowRecords /\ r.name = p.n /\ r.enabled = tracked[t].enabled
      /\ r.repo = (IF p.known = NoOne THEN tracked[t].repo ELSE p.known)
  BY <1>3, <1>6 DEF Named, RowRecords, ProcRecords
<1>8. PICK new : new = [p EXCEPT !.pc = "project", !.row = t, !.copy = r]
  OBVIOUS
<1>9. Goes(w, new)
  <2>1. tracked'[t] = r
    BY <1>0, <1>4, <1>6 DEF Types
  <2>2. Goes(w, [p EXCEPT !.pc = "project", !.row = t, !.copy = tracked'[t]])
    BY <1>1, <1>2, Zenon DEF UpsertTracked
  <2> QED
    BY <1>8, <2>1, <2>2
<1>10. /\ new \in ProcRecords /\ new.pc = "project" /\ new.row = t /\ new.copy = r /\ new.g = p.g /\ new.n = p.n
       /\ new.known = p.known /\ new.then = p.then /\ new.job = p.job /\ new.nameId = p.nameId
  BY <1>6, <1>7, <1>8 DEF ProcRecords, WorkerSteps
<1>11. Writes(w, p, new, t, r)
  BY <1>1, <1>4, <1>5, <1>7, <1>9 DEF Writes
<1> QED
  BY <1>2, <1>4, <1>5, <1>6, <1>7, <1>10, <1>11

LEMMA UpsertTrackedKeeps ==
  ASSUME IInv, NEW w \in Workers, UpsertTracked(w)
  PROVE  IInv'
<1>0. Types /\ RowsOK
  BY DEF IInv
<1>1. PICK p, new \in ProcRecords, t \in RowIds, r \in RowRecords :
           /\ Writes(w, p, new, t, r) /\ p.pc = "upsert" /\ t \in Live /\ UNCHANGED off
           /\ r.repo = (IF p.known = NoOne THEN tracked[t].repo ELSE p.known)
           /\ new.pc = "project" /\ new.row = t /\ new.copy = r /\ new.g = p.g /\ new.n = p.n
           /\ new.known = p.known /\ new.then = p.then /\ new.job = p.job /\ new.nameId = p.nameId
  BY UpsertTrackedWrites
<1>2. ProcOK(w, p) /\ w \in Actors /\ w # Reader
  BY <1>1, ConstantsAssumption DEF Writes, Actors
<1>3. r.repo # NoOne => Stored(r.repo)
  BY <1>0, <1>1, <1>2 DEF RowsOK, ProcOK
<1>4. ASSUME t < nextRow' PROVE ProcOK(w, new)'
  <2>1. nextRow \in Nat /\ nextRow' = nextRow /\ UNCHANGED repo
    BY <1>0, <1>1, ConstantsAssumption, RowIdsFacts DEF Types, Writes, RowsOK
  <2>2. ProcOK(w, p)'
    BY <1>2, <2>1, ProcStays, StoredKept
  <2> QED
    BY <1>1, <1>2, <1>3, <1>4, <2>1, <2>2 DEF ProcOK, Stored, WorkerSteps
<1> QED
  BY <1>1, <1>2, <1>3, <1>4, WriteKeeps
(* InsertTracked adds a row with what the worker knows.                    *)
LEMMA InsertTrackedWrites ==
  ASSUME IInv, NEW w \in Workers, InsertTracked(w)
  PROVE  \E p, new \in ProcRecords, r \in RowRecords :
           /\ nextRow \in RowIds /\ Writes(w, p, new, nextRow, r) /\ p.pc = "upsert" /\ UNCHANGED off
           /\ p.row = 0 /\ nextRow' = nextRow + 1
           /\ r.repo = p.known /\ r.enabled
           /\ new.pc = "project" /\ new.row = nextRow /\ new.copy = r /\ new.g = p.g /\ new.n = p.n
           /\ new.known = p.known /\ new.then = p.then /\ new.job = p.job /\ new.nameId = p.nameId
<1>0. Types
  BY DEF IInv
<1>1. PICK p \in ProcRecords : p = proc[w] /\ ProcOK(w, p)
  BY ActorRecord DEF Actors
<1>3. PICK r : r = [name |-> p.n, repo |-> p.known, enabled |-> TRUE, done |-> "empty"]
  OBVIOUS
<1>4. p.pc = "upsert" /\ p.row = 0 /\ nextRow \in RowIds /\ RowByName(p.n) = 0 /\ nextRow' = nextRow + 1
      /\ tracked' = [tracked EXCEPT ![nextRow] = r]
  BY <1>1, <1>3, Zenon DEF InsertTracked
<1>5. UNCHANGED <<name, repo, inbox, jobs, crossed, served, off>>
  BY DEF InsertTracked, outside, history
<1>6. \A u \in Live \ {nextRow} : tracked[u].name # p.n
  <2>1. PICK t : t = RowByName(p.n)
    OBVIOUS
  <2> QED
    BY <1>4, <2>1, FoundByName
<1>7. r \in RowRecords /\ r.name = p.n /\ r.repo = p.known /\ r.enabled
  BY <1>3 DEF RowRecords, ProcRecords, Completeness
<1>8. PICK new : new = [p EXCEPT !.pc = "project", !.row = nextRow, !.copy = r]
  OBVIOUS
<1>9. Goes(w, new)
  <2>1. tracked'[nextRow] = r
    BY <1>0, <1>4 DEF Types
  <2>2. Goes(w, [p EXCEPT !.pc = "project", !.row = nextRow, !.copy = tracked'[nextRow]])
    BY <1>1, Zenon DEF InsertTracked
  <2> QED
    BY <1>8, <2>1, <2>2
<1>10. /\ new \in ProcRecords /\ new.pc = "project" /\ new.row = nextRow /\ new.copy = r /\ new.g = p.g /\ new.n = p.n
       /\ new.known = p.known /\ new.then = p.then /\ new.job = p.job /\ new.nameId = p.nameId
  BY <1>4, <1>7, <1>8 DEF ProcRecords, WorkerSteps
<1>11. Writes(w, p, new, nextRow, r)
  BY <1>1, <1>4, <1>5, <1>6, <1>7, <1>9 DEF Writes
<1> QED
  BY <1>4, <1>5, <1>7, <1>10, <1>11

LEMMA InsertTrackedKeeps ==
  ASSUME IInv, NEW w \in Workers, InsertTracked(w)
  PROVE  IInv'
<1>0. Types /\ RowsOK
  BY DEF IInv
<1>1. PICK p, new \in ProcRecords, r \in RowRecords :
           /\ nextRow \in RowIds /\ Writes(w, p, new, nextRow, r) /\ p.pc = "upsert" /\ UNCHANGED off
           /\ nextRow' = nextRow + 1
           /\ r.repo = p.known
           /\ new.pc = "project" /\ new.row = nextRow /\ new.copy = r /\ new.g = p.g /\ new.n = p.n
           /\ new.known = p.known /\ new.then = p.then /\ new.job = p.job /\ new.nameId = p.nameId
  BY InsertTrackedWrites
<1>2. ProcOK(w, p) /\ w \in Actors /\ w # Reader
  BY <1>1, ConstantsAssumption DEF Writes, Actors
<1>3. r.repo # NoOne => Stored(r.repo)
  BY <1>1, <1>2 DEF ProcOK
<1>4. PICK t \in RowIds : t = nextRow
  BY <1>1
<1>5. ASSUME t < nextRow' PROVE ProcOK(w, new)'
  <2>1. nextRow \in Nat /\ nextRow' \in Nat /\ nextRow <= nextRow' /\ UNCHANGED repo
    BY <1>0, <1>1, ConstantsAssumption DEF Types, Writes
  <2>2. ProcOK(w, p)'
    BY <1>2, <2>1, ProcStays, StoredKept
  <2> QED
    BY <1>1, <1>2, <1>3, <1>4, <1>5, <2>1, <2>2 DEF ProcOK, Stored, WorkerSteps
<1>6. Writes(w, p, new, t, r)
  BY <1>1, <1>4
<1> QED
  BY <1>1, <1>2, <1>3, <1>5, <1>6, WriteKeeps

(* What the projection does.                                               *)
Projects(w, p, new) ==
    /\ p = proc[w] /\ ProcOK(w, p) /\ p.pc = "project" /\ Goes(w, new)
    /\ UNCHANGED <<name, tracked, nextRow, inbox, jobs, off, crossed, served>>
    /\ \/ /\ ~p.copy.enabled /\ repo' = repo /\ new = Idle
       \/ /\ p.copy.enabled /\ repo' = Claimed(p.g, p.n)
          /\ new.pc = "state" /\ new.row = p.row /\ new.g = p.g /\ new.n = p.n /\ new.copy = p.copy
          /\ new.known = p.known /\ new.then = p.then /\ new.job = p.job /\ new.nameId = p.nameId

LEMMA Projected ==
  ASSUME IInv, NEW w \in Workers, ProjectRepository(w)
  PROVE  \E p, new \in ProcRecords : Projects(w, p, new)
<1>1. PICK p \in ProcRecords : p = proc[w] /\ ProcOK(w, p)
  BY ActorRecord DEF Actors
<1>2. p.pc = "project" /\ UNCHANGED <<name, tracked, nextRow, inbox, jobs, off, crossed, served>>
  BY <1>1 DEF ProjectRepository, outside, rows, history
<1>3. CASE ~p.copy.enabled
  <2>1. repo' = repo /\ Goes(w, Idle)
    BY <1>1, <1>3, Zenon DEF ProjectRepository
  <2> QED
    BY <1>1, <1>2, <1>3, <2>1, RecordFacts DEF Projects
<1>4. CASE p.copy.enabled
  <2>1. PICK new : new = [p EXCEPT !.pc = "state"]
    OBVIOUS
  <2>2. repo' = Claimed(p.g, p.n) /\ Goes(w, new)
    BY <1>1, <1>4, <2>1, Zenon DEF ProjectRepository
  <2>3. /\ new \in ProcRecords /\ new.pc = "state" /\ new.row = p.row /\ new.g = p.g /\ new.n = p.n
        /\ new.copy = p.copy /\ new.known = p.known /\ new.then = p.then /\ new.job = p.job /\ new.nameId = p.nameId
    BY <2>1 DEF ProcRecords, WorkerSteps
  <2> QED
    BY <1>1, <1>2, <1>4, <2>2, <2>3 DEF Projects
<1> QED
  BY <1>3, <1>4

LEMMA ProjectKeeps ==
  ASSUME IInv, NEW w \in Workers, ProjectRepository(w)
  PROVE  IInv'
<1>0. Types /\ ReposOK
  BY DEF IInv
<1>1. PICK p, new \in ProcRecords : Projects(w, p, new)
  BY Projected
<1>2. ProcOK(w, p) /\ w \in Actors /\ w # Reader /\ p.g \in Repos /\ p.n \in Names
  BY <1>1, ConstantsAssumption DEF Projects, Actors, ProcOK
<1>3. CASE new = Idle /\ repo' = repo
  <2>1. ProcOK(w, Idle)
    BY <1>0, <1>2, IdleOK
  <2>2. inbox' \in Seq(Deliveries) /\ jobs' \subseteq jobs
    BY <1>0, <1>1 DEF Projects, Types
  <2> QED
    BY <1>1, <1>2, <1>3, <2>1, <2>2, ActorOnly DEF Projects
<1>4. CASE /\ repo' = Claimed(p.g, p.n)
           /\ new.pc = "state" /\ new.row = p.row /\ new.g = p.g /\ new.n = p.n /\ new.copy = p.copy
           /\ new.known = p.known /\ new.then = p.then /\ new.job = p.job /\ new.nameId = p.nameId
  <2>1. /\ nextRow \in Nat /\ nextRow' \in Nat /\ nextRow <= nextRow'
        /\ \A h \in Repos : Stored(h) => Stored(h)'
    BY <1>0, <1>1, <1>2, <1>4, ClaimKeeps, ConstantsAssumption DEF Projects, Types
  <2>2. ProcOK(w, p)'
    BY <1>2, <2>1, ProcStays
  <2>3. p.pc = "project"
    BY <1>1 DEF Projects
  <2>4. Stored(p.g)' => ProcOK(w, new)'
    BY <1>2, <1>4, <2>2, <2>3 DEF ProcOK, Stored, WorkerSteps
  <2>5. PICK n \in Names : n = p.n
    BY <1>2
  <2>6. repo' = Claimed(new.g, n) /\ new.g \in Repos /\ (Stored(new.g)' => ProcOK(w, new)')
    BY <1>2, <1>4, <2>4, <2>5 DEF Stored
  <2> QED
    BY <1>1, <1>2, <2>6, ActorClaims DEF Projects
<1> QED
  BY <1>1, <1>3, <1>4 DEF Projects

(* The projection state is written to the row that was found, if it is     *)
(* still there.                                                            *)
LEMMA UpdateProjectionStateWrites ==
  ASSUME IInv, NEW w \in Workers, UpdateProjectionState(w)
  PROVE  \E p \in ProcRecords :
           /\ p = proc[w] /\ ProcOK(w, p) /\ p.pc = "state" /\ Goes(w, Idle) /\ UNCHANGED off
           /\ \/ p.row \notin Live /\ UNCHANGED <<name, repo, tracked, nextRow, inbox, jobs, crossed, served>>
              \/ \E r \in RowRecords :
                    /\ Writes(w, p, Idle, p.row, r) /\ p.row \in Live /\ p.row \in RowIds
                    /\ r.repo \in {p.g, tracked[p.row].repo} /\ (p.copy.repo # p.g => r.repo = p.g)
                    /\ r.enabled = tracked[p.row].enabled
<1>0. Types
  BY DEF IInv
<1>1. PICK p \in ProcRecords : p = proc[w] /\ ProcOK(w, p)
  BY ActorRecord DEF Actors
<1>2. /\ p.pc = "state" /\ (p.row \in Live => \A u \in Live \ {p.row} : tracked[u].name # p.n) /\ Goes(w, Idle)
      /\ tracked' = IF p.row \in Live THEN [tracked EXCEPT ![p.row] = StateWritten(p)] ELSE tracked
  BY <1>1, Zenon DEF UpdateProjectionState, Present, NameFree
<1>3. UNCHANGED <<name, repo, inbox, jobs, crossed, served, off, nextRow>>
  BY DEF UpdateProjectionState, outside, history
<1>4. CASE p.row \notin Live
  <2>1. UNCHANGED tracked
    BY <1>2, <1>4
  <2> QED
    BY <1>1, <1>2, <1>3, <1>4, <2>1
<1>5. CASE p.row \in Live
  <2>1. PICK r : r = StateWritten(p)
    OBVIOUS
  <2>2. p.row \in RowIds /\ tracked[p.row] \in RowRecords /\ p.g \in Repos /\ p.n \in FullNames
    BY <1>0, <1>1, <1>2, <1>5, RowIdsFacts DEF Types, ProcOK
  <2>3. /\ r \in RowRecords /\ r.name = p.n /\ r.enabled = tracked[p.row].enabled
        /\ r.repo \in {p.g, tracked[p.row].repo} /\ (p.copy.repo # p.g => r.repo = p.g)
    BY <2>1, <2>2 DEF StateWritten, RowRecords, Completeness, Refs
  <2>4. Writes(w, p, Idle, p.row, r)
    BY <1>1, <1>2, <1>3, <1>5, <2>1, <2>3 DEF Writes
  <2> QED
    BY <1>1, <1>2, <1>3, <1>5, <2>2, <2>3, <2>4
<1> QED
  BY <1>4, <1>5

LEMMA UpdateProjectionStateKeeps ==
  ASSUME IInv, NEW w \in Workers, UpdateProjectionState(w)
  PROVE  IInv'
<1>0. Types /\ RowsOK
  BY DEF IInv
<1>1. PICK p \in ProcRecords :
           /\ p = proc[w] /\ ProcOK(w, p) /\ p.pc = "state" /\ Goes(w, Idle) /\ UNCHANGED off
           /\ \/ UNCHANGED <<name, repo, tracked, nextRow, inbox, jobs, crossed, served>>
              \/ \E r \in RowRecords :
                    /\ Writes(w, p, Idle, p.row, r) /\ p.row \in Live /\ p.row \in RowIds
                    /\ r.repo \in {p.g, tracked[p.row].repo}
  BY UpdateProjectionStateWrites
<1>2. w \in Actors /\ ProcOK(w, Idle) /\ Idle \in ProcRecords
  BY <1>0, IdleOK, RecordFacts DEF Actors
<1>3. CASE UNCHANGED <<name, repo, tracked, nextRow, inbox, jobs, crossed, served>>
  BY <1>0, <1>1, <1>2, <1>3, ActorOnly DEF Types
<1>4. ASSUME NEW r \in RowRecords, Writes(w, p, Idle, p.row, r), p.row \in Live, p.row \in RowIds,
             r.repo \in {p.g, tracked[p.row].repo}
      PROVE  IInv'
  <2>1. r.repo # NoOne => Stored(r.repo)
    BY <1>0, <1>1, <1>4 DEF RowsOK, ProcOK
  <2>2. PICK t \in RowIds : t = p.row
    BY <1>4
  <2>3. ASSUME t < nextRow' PROVE ProcOK(w, Idle)'
    <3>1. nextRow \in Nat /\ nextRow' \in Nat /\ nextRow <= nextRow' /\ UNCHANGED repo
      BY <1>0, <1>4, ConstantsAssumption DEF Types, Writes
    <3> QED
      BY <1>2, <3>1, ProcStays, StoredKept
  <2>4. Writes(w, p, Idle, t, r)
    BY <1>4, <2>2
  <2> QED
    BY <1>1, <1>2, <2>1, <2>3, <2>4, WriteKeeps
<1> QED
  BY <1>1, <1>3, <1>4

(* A failed delivery waits again.                                          *)
LEMMA Failed ==
  ASSUME IInv, NEW w \in Workers, DeliveryFails(w)
  PROVE  \E p \in ProcRecords, d \in Deliveries :
           /\ p = proc[w] /\ ProcOK(w, p) /\ p.pc # "idle" /\ Goes(w, Idle) /\ inbox' = Append(inbox, d)
           /\ d.g = p.g /\ d.n = p.n
           /\ UNCHANGED <<name, repo, tracked, nextRow, off, crossed, jobs, served>>
<1>1. PICK p \in ProcRecords : p = proc[w] /\ ProcOK(w, p)
  BY ActorRecord DEF Actors
<1>2. Blocked(p) /\ Goes(w, Idle) /\ inbox' = Append(inbox, [g |-> p.g, n |-> p.n, event |-> p.event])
      /\ UNCHANGED <<name, repo, tracked, nextRow, off, crossed, jobs, served>>
  BY <1>1 DEF DeliveryFails, outside, rows
<1>3. p.pc # "idle" /\ w # Reader
  BY <1>2, ConstantsAssumption DEF Blocked
<1>4. PICK d : d = [g |-> p.g, n |-> p.n, event |-> p.event]
  OBVIOUS
<1>5. d \in Deliveries /\ d.g = p.g /\ d.n = p.n
  BY <1>1, <1>3, <1>4 DEF ProcOK, Deliveries, ProcRecords
<1> QED
  BY <1>1, <1>2, <1>3, <1>4, <1>5

LEMMA FailKeeps ==
  ASSUME IInv, NEW w \in Workers, DeliveryFails(w)
  PROVE  IInv'
<1>0. Types
  BY DEF IInv
<1>1. PICK p \in ProcRecords, d \in Deliveries :
           /\ Goes(w, Idle) /\ inbox' = Append(inbox, d)
           /\ UNCHANGED <<name, repo, tracked, nextRow, off, crossed, jobs, served>>
  BY Failed
<1>2. w \in Actors /\ ProcOK(w, Idle) /\ Idle \in ProcRecords
  BY <1>0, IdleOK, RecordFacts DEF Actors
<1>3. inbox' \in Seq(Deliveries)
  BY <1>0, <1>1, AppendProperties DEF Types
<1> QED
  BY <1>1, <1>2, <1>3, ActorOnly
-----------------------------------------------------------------------------
(* The reader starts with what GitHub answers.                             *)
LEMMA ReaderActs == Reader \in Actors /\ Reader \notin Workers
  BY ConstantsAssumption DEF Actors

(* RepositoryForJob finds a repository that GitHub's id is known of.       *)
LEMMA JobRepository ==
  ASSUME NEW j \in JobRecords, Stored(j.repo), NEW g, g = RepositoryForJob(j)
  PROVE  g \in Repos /\ Stored(g) /\ (repo[g] = j.name \/ g = j.repo)
<1>1. j.repo \in Repos /\ j.name # NoOne
  BY RecordFacts DEF JobRecords
<1>2. CASE Holders(j.name) # {}
  <2>1. g \in Repos /\ repo[g] = j.name
    BY <1>2, HolderFacts DEF RepositoryForJob
  <2> QED
    BY <1>1, <2>1 DEF Stored
<1>3. CASE Holders(j.name) = {}
  BY <1>1, <1>3 DEF RepositoryForJob
<1> QED
  BY <1>2, <1>3

LEMMA FetchedFacts ==
  ASSUME NEW g \in Repos, NEW f, f = Fetched(g)
  PROVE  f \in Repos /\ (f = g \/ name[f] = Locator(g))
<1>1. CASE \E h \in Repos : name[h] = Locator(g)
  BY <1>1 DEF Fetched
<1>2. CASE ~\E h \in Repos : name[h] = Locator(g)
  BY <1>2 DEF Fetched
<1> QED
  BY <1>1, <1>2

Starts(new) ==
    /\ proc[Reader] = Idle /\ Goes(Reader, new)
    /\ UNCHANGED <<name, repo, tracked, nextRow, off, crossed, inbox>>
    /\ new.pc = "claim" /\ new.then = "idle" /\ new.g \in Repos /\ new.n = name[new.g] /\ new.known = NoOne
    /\ new.row = 0 /\ new.nameId = 0 /\ new.copy = Absent

LEMMA JobStarted ==
  ASSUME IInv, NEW j \in jobs, StartJob(j)
  PROVE  \E new \in ProcRecords, h \in Repos :
           /\ Starts(new) /\ jobs' = jobs \ {j} /\ new.job = j /\ j \in JobRecords /\ Stored(j.repo)
           /\ (repo[h] = j.name \/ h = j.repo) /\ Stored(h)
           /\ new.g = h \/ name[new.g] = Locator(h)
           /\ served' = served \cup {[for |-> j.for, fetched |-> new.g]}
<1>0. Types /\ JobsOK
  BY DEF IInv
<1>1. j \in JobRecords /\ Stored(j.repo)
  BY <1>0 DEF Types, JobsOK
<1>2. PICK h : h = RepositoryForJob(j)
  OBVIOUS
<1>3. h \in Repos /\ (repo[h] = j.name \/ h = j.repo) /\ Stored(h)
  BY <1>1, <1>2, JobRepository
<1>4. PICK g : g = Fetched(h)
  OBVIOUS
<1>5. g \in Repos /\ (g = h \/ name[g] = Locator(h))
  BY <1>3, <1>4, FetchedFacts
<1>6. PICK new : new = [Idle EXCEPT !.pc = "claim", !.g = g, !.n = name[g], !.job = j]
  OBVIOUS
<1>7. /\ proc[Reader] = Idle /\ Goes(Reader, new) /\ jobs' = jobs \ {j}
      /\ served' = served \cup {[for |-> j.for, fetched |-> g]}
  BY <1>2, <1>4, <1>6, Zenon DEF StartJob
<1>8. UNCHANGED <<name, repo, tracked, nextRow, off, crossed, inbox>>
  BY DEF StartJob, outside
<1>9. /\ new.pc = "claim" /\ new.then = "idle" /\ new.g = g /\ new.n = name[g] /\ new.known = NoOne
      /\ new.row = 0 /\ new.nameId = 0 /\ new.copy = Absent /\ new.job = j
  BY <1>6 DEF Idle
<1>10. new \in ProcRecords
  <2>1. name[g] \in Names
    BY <1>0, <1>5 DEF Types
  <2> QED
    BY <1>1, <1>5, <1>6, <2>1, RecordFacts DEF ProcRecords, Refs, ReaderSteps
<1>11. Starts(new)
  BY <1>5, <1>7, <1>8, <1>9 DEF Starts
<1> QED
  BY <1>1, <1>3, <1>5, <1>7, <1>9, <1>10, <1>11

LEMMA SyncStarted ==
  ASSUME IInv, NEW g \in Repos, StartSync(g)
  PROVE  \E new \in ProcRecords : Starts(new) /\ UNCHANGED <<jobs, served>> /\ new.job = NoOne
<1>0. Types
  BY DEF IInv
<1>6. PICK new : new = [Idle EXCEPT !.pc = "claim", !.g = g, !.n = name[g]]
  OBVIOUS
<1>7. proc[Reader] = Idle /\ Goes(Reader, new)
  BY <1>6, Zenon DEF StartSync
<1>8. UNCHANGED <<name, repo, tracked, nextRow, off, crossed, inbox, jobs, served>>
  BY DEF StartSync, outside, rows
<1>9. /\ new.pc = "claim" /\ new.then = "idle" /\ new.g = g /\ new.n = name[g] /\ new.known = NoOne
      /\ new.row = 0 /\ new.nameId = 0 /\ new.copy = Absent /\ new.job = NoOne
  BY <1>6 DEF Idle
<1>10. new \in ProcRecords
  <2>1. name[g] \in Names
    BY <1>0 DEF Types
  <2> QED
    BY <1>6, <2>1, RecordFacts DEF ProcRecords, Refs, ReaderSteps
<1>11. Starts(new)
  BY <1>7, <1>8, <1>9 DEF Starts
<1> QED
  BY <1>8, <1>9, <1>10, <1>11

LEMMA StartKeeps ==
  ASSUME IInv, NEW new \in ProcRecords, Starts(new), jobs' \subseteq jobs,
         new.job # NoOne => Stored(new.job.repo)
  PROVE  IInv'
<1>0. Types
  BY DEF IInv
<1>1. ProcOK(Reader, new)
  <2>1. new.n \in Names /\ 0 < nextRow
    BY <1>0, ConstantsAssumption DEF Starts, Types
  <2> QED
    BY <2>1, RecordFacts DEF Starts, ProcOK, ReaderSteps
<1>2. inbox' \in Seq(Deliveries)
  BY <1>0 DEF Starts, Types
<1> QED
  BY <1>1, <1>2, ReaderActs, ActorOnly DEF Starts

LEMMA StartJobKeeps ==
  ASSUME IInv, NEW j \in jobs, StartJob(j)
  PROVE  IInv'
<1>1. PICK new \in ProcRecords : Starts(new) /\ jobs' = jobs \ {j} /\ new.job = j /\ Stored(j.repo)
  BY JobStarted
<1>2. jobs' \subseteq jobs /\ (new.job # NoOne => Stored(new.job.repo))
  BY <1>1
<1> QED
  BY <1>1, <1>2, StartKeeps

LEMMA StartSyncKeeps ==
  ASSUME IInv, NEW g \in Repos, StartSync(g)
  PROVE  IInv'
<1>1. PICK new \in ProcRecords : Starts(new) /\ UNCHANGED <<jobs, served>> /\ new.job = NoOne
  BY SyncStarted
<1>2. jobs' \subseteq jobs
  BY <1>1
<1> QED
  BY <1>1, <1>2, StartKeeps

(* The reader goes on to resolve the tracked row.                          *)
GoesToResolve(p, new) ==
    /\ p = proc[Reader] /\ ProcOK(Reader, p) /\ Goes(Reader, new)
    /\ UNCHANGED <<name, tracked, nextRow, off, crossed, inbox, jobs, served>>
    /\ new.pc = "resolve" /\ new.known = new.g
    /\ new.row = p.row /\ new.nameId = p.nameId /\ new.copy = p.copy /\ new.job = p.job

LEMMA RepositoryUpserted ==
  ASSUME IInv, UpsertRepository
  PROVE  \E p, new \in ProcRecords :
           /\ GoesToResolve(p, new) /\ p.pc = "claim" /\ repo' = Claimed(p.g, p.n)
           /\ new.g = p.g /\ new.n = p.n /\ new.then = "policy"
<1>1. PICK p \in ProcRecords : p = proc[Reader] /\ ProcOK(Reader, p)
  BY ActorRecord, ReaderActs
<1>2. PICK new : new = [p EXCEPT !.pc = "resolve", !.known = p.g, !.n = p.n, !.then = "policy"]
  OBVIOUS
<1>3. p.pc = "claim" /\ repo' = Claimed(p.g, p.n) /\ Goes(Reader, new)
  <2>1. p.pc = "claim" /\ repo' = Claimed(p.g, p.n) /\ Goes(Reader, Resolving(p, p.g, p.n, "policy"))
    BY <1>1, Zenon DEF UpsertRepository
  <2> QED
    BY <1>2, <2>1, Zenon DEF Resolving
<1>4. UNCHANGED <<name, tracked, nextRow, off, crossed, inbox, jobs, served>>
  BY DEF UpsertRepository, outside, rows, history
<1>5. /\ new \in ProcRecords /\ new.pc = "resolve" /\ new.known = p.g /\ new.n = p.n /\ new.then = "policy"
      /\ new.row = p.row /\ new.nameId = p.nameId /\ new.copy = p.copy /\ new.job = p.job /\ new.g = p.g
  BY <1>2 DEF ProcRecords, ReaderSteps
<1> QED
  BY <1>1, <1>3, <1>4, <1>5 DEF GoesToResolve

LEMMA UpsertRepositoryKeeps ==
  ASSUME IInv, UpsertRepository
  PROVE  IInv'
<1>0. Types /\ ReposOK
  BY DEF IInv
<1>1. PICK p, new \in ProcRecords :
           /\ GoesToResolve(p, new) /\ p.pc = "claim" /\ repo' = Claimed(p.g, p.n)
           /\ new.g = p.g /\ new.n = p.n /\ new.then = "policy"
  BY RepositoryUpserted
<1>2. ProcOK(Reader, p) /\ p.g \in Repos /\ p.n \in Names
  BY <1>1 DEF GoesToResolve, ProcOK
<1>3. /\ nextRow \in Nat /\ nextRow' \in Nat /\ nextRow <= nextRow'
      /\ \A h \in Repos : Stored(h) => Stored(h)'
  BY <1>0, <1>1, <1>2, ClaimKeeps, ConstantsAssumption DEF GoesToResolve, Types
<1>4. ProcOK(Reader, p)'
  BY <1>2, <1>3, ReaderActs, ProcStays
<1>5. Stored(new.g)' => ProcOK(Reader, new)'
  BY <1>1, <1>2, <1>4 DEF GoesToResolve, ProcOK, Stored, ReaderSteps
<1>6. PICK n \in Names : n = p.n
  BY <1>2
<1>7. repo' = Claimed(new.g, n) /\ new.g \in Repos
  BY <1>1, <1>2, <1>6
<1> QED
  BY <1>1, <1>5, <1>7, ReaderActs, ActorClaims DEF GoesToResolve

LEMMA PolicyKeeps ==
  ASSUME IInv, KeepPolicy
  PROVE  \E p, new \in ProcRecords :
           /\ GoesToResolve(p, new) /\ p.pc = "policy" /\ UNCHANGED repo
           /\ new.g = p.g /\ new.n = p.n /\ new.then = "upsert"
           /\ new.policy = KeptPolicy(p)
<1>1. PICK p \in ProcRecords : p = proc[Reader] /\ ProcOK(Reader, p)
  BY ActorRecord, ReaderActs
<1>2. PICK k : k = KeptPolicy(p)
  OBVIOUS
<1>3. k \in BOOLEAN
  BY <1>2 DEF KeptPolicy, ProcRecords, RowRecords
<1>4. PICK new : new = [p EXCEPT !.policy = k, !.pc = "resolve", !.known = p.g, !.n = p.n, !.then = "upsert"]
  OBVIOUS
<1>5. p.pc = "policy" /\ Goes(Reader, new)
  <2>1. p.pc = "policy" /\ Goes(Reader, Resolving([p EXCEPT !.policy = k], p.g, p.n, "upsert"))
    BY <1>1, <1>2, Zenon DEF KeepPolicy
  <2>2. Resolving([p EXCEPT !.policy = k], p.g, p.n, "upsert") = new
    BY <1>4 DEF Resolving
  <2> QED
    BY <2>1, <2>2
<1>6. UNCHANGED <<name, repo, tracked, nextRow, off, crossed, inbox, jobs, served>>
  BY DEF KeepPolicy, outside, rows, history
<1>7. /\ new \in ProcRecords /\ new.pc = "resolve" /\ new.known = p.g /\ new.n = p.n /\ new.then = "upsert"
      /\ new.row = p.row /\ new.nameId = p.nameId /\ new.copy = p.copy /\ new.job = p.job /\ new.g = p.g
      /\ new.policy = k
  BY <1>3, <1>4 DEF ProcRecords, ReaderSteps
<1> QED
  BY <1>1, <1>2, <1>5, <1>6, <1>7 DEF GoesToResolve

LEMMA KeepPolicyKeeps ==
  ASSUME IInv, KeepPolicy
  PROVE  IInv'
<1>0. Types
  BY DEF IInv
<1>1. PICK p, new \in ProcRecords :
           /\ GoesToResolve(p, new) /\ p.pc = "policy" /\ UNCHANGED repo
           /\ new.g = p.g /\ new.n = p.n /\ new.then = "upsert"
  BY PolicyKeeps
<1>2. ProcOK(Reader, new)
  BY <1>1 DEF GoesToResolve, ProcOK, ReaderSteps
<1>3. inbox' \in Seq(Deliveries) /\ jobs' \subseteq jobs
  BY <1>0, <1>1 DEF GoesToResolve, Types
<1> QED
  BY <1>1, <1>2, <1>3, ReaderActs, ActorOnly DEF GoesToResolve

LEMMA JobSucceeded ==
  ASSUME IInv, MarkJobSucceeded
  PROVE  \E p, new \in ProcRecords :
           /\ GoesToResolve(p, new) /\ p.pc = "succeed" /\ UNCHANGED repo /\ p.job \in JobRecords
           /\ new.g \in Repos /\ Stored(new.g) /\ (repo[new.g] = p.job.name \/ new.g = p.job.repo)
           /\ new.n = repo[new.g] /\ new.then = "state"
<1>0. Types
  BY DEF IInv
<1>1. PICK p \in ProcRecords : p = proc[Reader] /\ ProcOK(Reader, p)
  BY ActorRecord, ReaderActs
<1>2. PICK g : g = RepositoryForJob(p.job)
  OBVIOUS
<1>3. PICK new : new = [p EXCEPT !.g = g, !.pc = "resolve", !.known = g, !.n = repo[g], !.then = "state"]
  OBVIOUS
<1>4. p.pc = "succeed" /\ Goes(Reader, new)
  <2>1. p.pc = "succeed" /\ Goes(Reader, Resolving([p EXCEPT !.g = g], g, repo[g], "state"))
    BY <1>1, <1>2, Zenon DEF MarkJobSucceeded
  <2>2. Resolving([p EXCEPT !.g = g], g, repo[g], "state") = new
    BY <1>3 DEF Resolving
  <2> QED
    BY <2>1, <2>2
<1>5. p.job \in JobRecords /\ Stored(p.job.repo)
  BY <1>1, <1>4 DEF ProcOK, ProcRecords
<1>6. g \in Repos /\ Stored(g) /\ (repo[g] = p.job.name \/ g = p.job.repo) /\ repo[g] \in FullNames \cup {NoOne}
  BY <1>0, <1>2, <1>5, JobRepository DEF Types
<1>7. UNCHANGED <<name, repo, tracked, nextRow, off, crossed, inbox, jobs, served>>
  BY DEF MarkJobSucceeded, outside, rows, history
<1>8. /\ new \in ProcRecords /\ new.pc = "resolve" /\ new.known = g /\ new.n = repo[g] /\ new.then = "state"
      /\ new.row = p.row /\ new.nameId = p.nameId /\ new.copy = p.copy /\ new.job = p.job /\ new.g = g
  BY <1>3, <1>6 DEF ProcRecords, ReaderSteps, Refs
<1> QED
  BY <1>1, <1>4, <1>5, <1>6, <1>7, <1>8 DEF GoesToResolve

LEMMA MarkJobSucceededKeeps ==
  ASSUME IInv, MarkJobSucceeded
  PROVE  IInv'
<1>0. Types
  BY DEF IInv
<1>1. PICK p, new \in ProcRecords :
           /\ GoesToResolve(p, new) /\ p.pc = "succeed" /\ UNCHANGED repo
           /\ new.g \in Repos /\ Stored(new.g)
           /\ new.n = repo[new.g] /\ new.then = "state"
  BY JobSucceeded
<1>2. new.n \in FullNames
  BY <1>0, <1>1 DEF Stored, Types
<1>3. ProcOK(Reader, new)
  BY <1>1, <1>2, RecordFacts DEF GoesToResolve, ProcOK, ReaderSteps
<1>4. inbox' \in Seq(Deliveries) /\ jobs' \subseteq jobs
  BY <1>0, <1>1 DEF GoesToResolve, Types
<1> QED
  BY <1>1, <1>3, <1>4, ReaderActs, ActorOnly DEF GoesToResolve
(* The reader writes the row it found, unless that is gone, or adds one.   *)
TrackedUpserted(p, new) ==
    /\ p = proc[Reader] /\ ProcOK(Reader, p) /\ p.pc = "upsert" /\ Goes(Reader, new)
    /\ UNCHANGED <<name, repo, inbox, jobs, crossed, served>>
    /\ off' = IF p.job # NoOne THEN off \ {p.g} ELSE off
    /\ \/ p.job = NoOne /\ new = Idle
       \/ /\ p.job # NoOne /\ new.pc = "succeed" /\ new.row = p.row /\ new.g = p.g /\ new.n = p.n
          /\ new.copy = p.copy /\ new.known = p.known /\ new.then = p.then /\ new.job = p.job /\ new.nameId = p.nameId
    /\ \/ p.row # 0 /\ UNCHANGED <<tracked, nextRow>>
       \/ \E t \in RowIds, r \in RowRecords :
             /\ Writes(Reader, p, new, t, r) /\ r.repo = p.g /\ r.enabled = p.policy
             /\ p.row # 0 => t = p.row /\ t \in Live
             /\ p.row = 0 => t = nextRow \/ tracked[t].name = p.n
             /\ t \notin Live => t = nextRow /\ nextRow' = nextRow + 1

LEMMA UpsertTrackedRepositoryWrites ==
  ASSUME IInv, UpsertTrackedRepository
  PROVE  \E p, new \in ProcRecords : TrackedUpserted(p, new)
<1>0. Types /\ RowsOK
  BY DEF IInv
<1>1. PICK p \in ProcRecords : p = proc[Reader] /\ ProcOK(Reader, p)
  BY ActorRecord, ReaderActs
<1>2. PICK t : t = IF p.row # 0 THEN p.row ELSE RowByName(p.n)
  OBVIOUS
<1>3. PICK r : r = [name |-> p.n, repo |-> p.g, enabled |-> p.policy,
                    done |-> IF p.job # NoOne THEN "backfilled" ELSE "sparse"]
  OBVIOUS
<1>4. PICK new : new = IF p.job # NoOne THEN [p EXCEPT !.pc = "succeed"] ELSE Idle
  OBVIOUS
<1>5. /\ p.pc = "upsert"
      /\ \/ t \in Live /\ NameFree(t, p.n) /\ tracked' = [tracked EXCEPT ![t] = r] /\ UNCHANGED nextRow
         \/ t # 0 /\ t \notin Live /\ UNCHANGED <<tracked, nextRow>>
         \/ t = 0 /\ nextRow \in RowIds /\ tracked' = [tracked EXCEPT ![nextRow] = r] /\ nextRow' = nextRow + 1
  BY <1>1, <1>2, <1>3, Zenon DEF UpsertTrackedRepository, Present
<1>6. off' = (IF p.job # NoOne THEN off \ {p.g} ELSE off) /\ Goes(Reader, new)
  BY <1>1, <1>4, Zenon DEF UpsertTrackedRepository
<1>7. UNCHANGED <<name, repo, inbox, jobs, crossed, served>>
  BY DEF UpsertTrackedRepository, outside
<1>8. /\ new \in ProcRecords
      /\ \/ p.job = NoOne /\ new = Idle
         \/ /\ p.job # NoOne /\ new.pc = "succeed" /\ new.row = p.row /\ new.g = p.g /\ new.n = p.n
            /\ new.copy = p.copy
            /\ new.known = p.known /\ new.then = p.then /\ new.job = p.job /\ new.nameId = p.nameId
  <2>1. CASE p.job = NoOne
    BY <1>4, <2>1, RecordFacts
  <2>2. CASE p.job # NoOne
    <3>1. new = [p EXCEPT !.pc = "succeed"]
      BY <1>4, <2>2
    <3> QED
      BY <2>2, <3>1 DEF ProcRecords, ReaderSteps
  <2> QED
    BY <2>1, <2>2
<1>9. r \in RowRecords /\ r.name = p.n /\ r.repo = p.g /\ r.enabled = p.policy
  <2>1. p.g \in Refs /\ p.n \in FullNames \cup {NoOne} /\ p.policy \in BOOLEAN
    BY DEF ProcRecords
  <2> QED
    BY <1>3, <2>1 DEF RowRecords, Completeness
<1>10. \/ p.row # 0 /\ UNCHANGED <<tracked, nextRow>>
       \/ \E u \in RowIds :
             /\ Writes(Reader, p, new, u, r)
             /\ p.row # 0 => u = p.row /\ u \in Live
             /\ p.row = 0 => u = nextRow \/ tracked[u].name = p.n
             /\ u \notin Live => u = nextRow /\ nextRow' = nextRow + 1
  <2>1. CASE t \in Live /\ NameFree(t, p.n) /\ tracked' = [tracked EXCEPT ![t] = r] /\ UNCHANGED nextRow
    <3>1. Writes(Reader, p, new, t, r)
      BY <1>1, <1>6, <1>7, <1>9, <2>1 DEF Writes, NameFree
    <3>2. p.row = 0 => tracked[t].name = p.n
      BY <1>2, <2>1, FoundByName, RowIdsFacts
    <3> QED
      BY <1>2, <2>1, <3>1, <3>2, RowIdsFacts
  <2>2. CASE t # 0 /\ t \notin Live /\ UNCHANGED <<tracked, nextRow>>
    <3>1. p.row # 0
      BY <1>2, <2>2, FoundByName
    <3> QED
      BY <2>2, <3>1
  <2>3. CASE t = 0 /\ nextRow \in RowIds /\ tracked' = [tracked EXCEPT ![nextRow] = r] /\ nextRow' = nextRow + 1
    <3>1. p.row = 0 /\ \A u \in Live : tracked[u].name # p.n
      BY <1>2, <2>3, FoundByName, RowIdsFacts
    <3>2. Writes(Reader, p, new, nextRow, r)
      BY <1>1, <1>6, <1>7, <1>9, <2>3, <3>1 DEF Writes
    <3> QED
      BY <2>3, <3>1, <3>2
  <2> QED
    BY <1>5, <2>1, <2>2, <2>3
<1>11. TrackedUpserted(p, new)
  BY <1>1, <1>5, <1>6, <1>7, <1>8, <1>9, <1>10 DEF TrackedUpserted
<1> QED
  BY <1>8, <1>11

LEMMA UpsertTrackedRepositoryKeeps ==
  ASSUME IInv, UpsertTrackedRepository
  PROVE  IInv'
<1>0. Types /\ RowsOK
  BY DEF IInv
<1>1. PICK p, new \in ProcRecords : TrackedUpserted(p, new)
  BY UpsertTrackedRepositoryWrites
<1>2. /\ ProcOK(Reader, p) /\ p.pc = "upsert" /\ Goes(Reader, new)
      /\ UNCHANGED <<name, repo, inbox, jobs, crossed, served>> /\ off' \subseteq off
      /\ \A g \in Repos : Stored(g) => Stored(g)'
      /\ p.g \in Repos /\ Stored(p.g)
  BY <1>1, StoredKept DEF TrackedUpserted, ProcOK
<1>3. ProcOK(Reader, new)
  <2>1. CASE new = Idle
    BY <1>0, <2>1, ReaderActs, IdleOK
  <2>2. CASE new # Idle
    BY <1>1, <1>2, <2>2 DEF TrackedUpserted, ProcOK, ReaderSteps
  <2> QED
    BY <2>1, <2>2
<1>4. CASE UNCHANGED <<tracked, nextRow>>
  <2>1. inbox' \in Seq(Deliveries) /\ jobs' \subseteq jobs
    BY <1>0, <1>2 DEF Types
  <2> QED
    BY <1>2, <1>3, <1>4, <2>1, ReaderActs, ActorOnly
<1>5. ASSUME NEW t \in RowIds, NEW r \in RowRecords, Writes(Reader, p, new, t, r), r.repo = p.g
      PROVE  IInv'
  <2>1. r.repo # NoOne => Stored(r.repo)
    BY <1>2, <1>5
  <2>2. nextRow \in Nat /\ nextRow' \in Nat /\ nextRow <= nextRow'
    BY <1>0, <1>5, ConstantsAssumption DEF Types, Writes
  <2>3. ProcOK(Reader, new)'
    BY <1>2, <1>3, <2>2, ReaderActs, ProcStays
  <2> QED
    BY <1>2, <1>5, <2>1, <2>3, ReaderActs, WriteKeeps
<1> QED
  BY <1>1, <1>4, <1>5 DEF TrackedUpserted

LEMMA MarkBackfilledWrites ==
  ASSUME IInv, MarkBackfilled
  PROVE  \E p \in ProcRecords :
           /\ p = proc[Reader] /\ ProcOK(Reader, p) /\ p.pc = "state" /\ Goes(Reader, Idle) /\ off' = off \ {p.g}
           /\ \/ UNCHANGED <<name, repo, tracked, nextRow, inbox, jobs, crossed, served>>
              \/ \E r \in RowRecords :
                    /\ Writes(Reader, p, Idle, p.row, r) /\ p.row \in Live /\ p.row \in RowIds
                    /\ r.repo = p.g
<1>0. Types
  BY DEF IInv
<1>1. PICK p \in ProcRecords : p = proc[Reader] /\ ProcOK(Reader, p)
  BY ActorRecord, ReaderActs
<1>a. PICK r : r = [name |-> p.n, repo |-> p.g, enabled |-> TRUE, done |-> "backfilled"]
  OBVIOUS
<1>2. /\ p.pc = "state" /\ (p.row \in Live => \A u \in Live \ {p.row} : tracked[u].name # p.n) /\ Goes(Reader, Idle)
      /\ tracked' = IF p.row \in Live THEN [tracked EXCEPT ![p.row] = r] ELSE tracked
  BY <1>1, <1>a, Zenon DEF MarkBackfilled, Present, NameFree
<1>3. UNCHANGED <<name, repo, inbox, jobs, crossed, served, nextRow>> /\ off' = off \ {p.g}
  BY <1>1, Zenon DEF MarkBackfilled, outside
<1>4. CASE p.row \notin Live
  <2>1. UNCHANGED tracked
    BY <1>2, <1>4
  <2> QED
    BY <1>1, <1>2, <1>3, <2>1
<1>5. CASE p.row \in Live
  <2>2. p.row \in RowIds /\ tracked[p.row] \in RowRecords /\ p.g \in Repos /\ p.n \in FullNames
    BY <1>0, <1>1, <1>2, <1>5, RowIdsFacts DEF Types, ProcOK
  <2>3. r \in RowRecords /\ r.name = p.n /\ r.repo = p.g
    BY <1>a, <2>2 DEF RowRecords, Completeness, Refs
  <2>4. Writes(Reader, p, Idle, p.row, r)
    BY <1>1, <1>2, <1>3, <1>5, <2>3 DEF Writes
  <2> QED
    BY <1>1, <1>2, <1>3, <1>5, <2>2, <2>3, <2>4
<1> QED
  BY <1>4, <1>5

LEMMA MarkBackfilledKeeps ==
  ASSUME IInv, MarkBackfilled
  PROVE  IInv'
<1>0. Types /\ RowsOK
  BY DEF IInv
<1>1. PICK p \in ProcRecords :
           /\ p = proc[Reader] /\ ProcOK(Reader, p) /\ p.pc = "state" /\ Goes(Reader, Idle) /\ off' = off \ {p.g}
           /\ \/ UNCHANGED <<name, repo, tracked, nextRow, inbox, jobs, crossed, served>>
              \/ \E r \in RowRecords :
                    /\ Writes(Reader, p, Idle, p.row, r) /\ p.row \in Live /\ p.row \in RowIds
                    /\ r.repo = p.g
  BY MarkBackfilledWrites
<1>2. ProcOK(Reader, Idle) /\ Idle \in ProcRecords
  BY <1>0, ReaderActs, IdleOK, RecordFacts
<1>3. CASE UNCHANGED <<name, repo, tracked, nextRow, inbox, jobs, crossed, served>>
  BY <1>0, <1>1, <1>2, <1>3, ReaderActs, ActorOnly DEF Types
<1>4. ASSUME NEW r \in RowRecords, Writes(Reader, p, Idle, p.row, r), p.row \in Live, p.row \in RowIds,
             r.repo = p.g
      PROVE  IInv'
  <2>1. r.repo # NoOne => Stored(r.repo)
    BY <1>1, <1>4 DEF ProcOK
  <2>2. PICK t \in RowIds : t = p.row
    BY <1>4
  <2>3. ProcOK(Reader, Idle)'
    <3>1. nextRow \in Nat /\ nextRow' \in Nat /\ nextRow <= nextRow' /\ UNCHANGED repo
      BY <1>0, <1>4, ConstantsAssumption DEF Types, Writes
    <3> QED
      BY <1>2, <3>1, ReaderActs, ProcStays, StoredKept
  <2>4. Writes(Reader, p, Idle, t, r)
    BY <1>4, <2>2
  <2> QED
    BY <1>1, <1>2, <2>1, <2>3, <2>4, ReaderActs, WriteKeeps
<1> QED
  BY <1>1, <1>3, <1>4

(* What an operator's switch does to the rows.                             *)
LEMMA TurnedOff ==
  ASSUME IInv, NEW g \in Repos, TurnOff(g)
  PROVE  /\ UNCHANGED <<name, repo, nextRow, jobs, inbox, proc, served, crossed>>
         /\ tracked' \in [RowIds -> RowRecords] /\ Live' = Live
         /\ \A t \in RowIds : /\ tracked'[t].name = tracked[t].name /\ tracked'[t].repo = tracked[t].repo
                              /\ tracked'[t].enabled => tracked[t].enabled
                              /\ t \in Live /\ tracked[t].repo = g => ~tracked'[t].enabled
                              /\ tracked[t] = Absent <=> tracked'[t] = Absent
         /\ \E t \in Live : tracked[t].repo = g
         /\ off' = (IF AtWork(g) THEN off ELSE off \cup {g})
<1>0. Types /\ RowsOK
  BY DEF IInv
<1>1. /\ UNCHANGED <<name, repo, nextRow, jobs, inbox, proc, served, crossed>>
      /\ \E t \in Live : tracked[t].repo = g
      /\ off' = (IF AtWork(g) THEN off ELSE off \cup {g})
      /\ tracked' = [t \in RowIds |-> IF t \in Live /\ tracked[t].repo = g
                                      THEN [tracked[t] EXCEPT !.enabled = FALSE] ELSE tracked[t]]
  BY DEF TurnOff, outside
<1>2. ASSUME NEW t \in RowIds
      PROVE  /\ tracked'[t] \in RowRecords
             /\ tracked'[t].name = tracked[t].name /\ tracked'[t].repo = tracked[t].repo
             /\ tracked'[t].enabled => tracked[t].enabled
             /\ t \in Live /\ tracked[t].repo = g => ~tracked'[t].enabled
             /\ tracked[t] = Absent <=> tracked'[t] = Absent
  <2>1. PICK x \in RowRecords : x = tracked[t]
    BY <1>0 DEF Types
  <2>2. CASE t \in Live /\ x.repo = g
    <3>1. tracked'[t] = [x EXCEPT !.enabled = FALSE]
      BY <1>1, <2>1, <2>2
    <3>2. /\ tracked'[t] \in RowRecords /\ tracked'[t].name = x.name /\ tracked'[t].repo = x.repo
          /\ ~tracked'[t].enabled
      BY <3>1 DEF RowRecords
    <3>3. x # Absent /\ x.name # NoOne
      BY <1>0, <2>1, <2>2 DEF Live, RowsOK
    <3> QED
      BY <2>1, <3>2, <3>3, RecordFacts
  <2>3. CASE ~(t \in Live /\ x.repo = g)
    <3>1. tracked'[t] = x
      BY <1>1, <2>1, <2>3
    <3> QED
      BY <2>1, <2>3, <3>1
  <2> QED
    BY <2>2, <2>3
<1>3. tracked' \in [RowIds -> RowRecords]
  <2>1. tracked' = [t \in RowIds |-> tracked'[t]]
    BY <1>1
  <2> QED
    BY <1>2, <2>1
<1>4. Live' = Live
  BY <1>2 DEF Live
<1> QED
  BY <1>1, <1>2, <1>3, <1>4

LEMMA TurnOffKeeps ==
  ASSUME IInv, NEW g \in Repos, TurnOff(g)
  PROVE  IInv'
<1>0. Types /\ ReposOK /\ RowsOK /\ JobsOK /\ ProcsOK
  BY DEF IInv
<1>1. /\ UNCHANGED <<name, repo, nextRow, jobs, inbox, proc, crossed>>
      /\ tracked' \in [RowIds -> RowRecords] /\ Live' = Live /\ off' \subseteq Repos
      /\ \A t \in RowIds : tracked'[t].name = tracked[t].name /\ tracked'[t].repo = tracked[t].repo
  BY <1>0, TurnedOff DEF Types
<1>2. \A h \in Repos : Stored(h) => Stored(h)'
  BY <1>1, StoredKept
<1>3. nextRow' \in Nat /\ nextRow <= nextRow'
  BY <1>0, <1>1, ConstantsAssumption DEF Types
<1>4. ReposOK' /\ JobsOK' /\ ProcsOK'
  BY <1>0, <1>1, <1>2, <1>3, ReposKept, JobsKept, ProcsKept
<1>5. RowsOK'
  BY <1>0, <1>1, RowIdsFacts DEF RowsOK, Stored
<1>6. Types'
  BY <1>0, <1>1 DEF Types
<1> QED
  BY <1>4, <1>5, <1>6 DEF IInv

LEMMA ReadFailsKeeps ==
  ASSUME IInv, ReadFails
  PROVE  IInv'
<1>0. Types
  BY DEF IInv
<1>1. Goes(Reader, Idle) /\ UNCHANGED <<name, repo, tracked, nextRow, off, crossed, jobs, inbox>>
  BY DEF ReadFails, outside, rows, history
<1>2. ProcOK(Reader, Idle) /\ Idle \in ProcRecords
  BY <1>0, ReaderActs, IdleOK, RecordFacts
<1>3. inbox' \in Seq(Deliveries) /\ jobs' \subseteq jobs /\ off' \subseteq off
  BY <1>0, <1>1 DEF Types
<1> QED
  BY <1>1, <1>2, <1>3, ReaderActs, ActorOnly
-----------------------------------------------------------------------------
(* What the tables hold at first: f says which row a known repository has. *)
LEMMA InitTables ==
  ASSUME Init
  PROVE  \E f \in [Repos -> {0} \cup RowIds], k \in {0} \cup RowIds :
           /\ off \subseteq {g \in Repos : f[g] # 0} /\ nextRow = k + 1
           /\ \A g \in Repos : repo[g] = IF f[g] # 0 THEN name[g] ELSE NoOne
           /\ repo \in [Repos -> FullNames \cup {NoOne}] /\ tracked \in [RowIds -> RowRecords]
           /\ \A g \in Repos : f[g] # 0 =>
                 f[g] \in Live /\ tracked[f[g]].name = name[g] /\ tracked[f[g]].repo = g
                 /\ (tracked[f[g]].enabled <=> g \notin off)
           /\ \A t \in Live : \E g \in Repos : f[g] = t /\ t \in 1 .. k
<1>1. PICK f \in [Repos -> {0} \cup RowIds], k \in {0} \cup RowIds :
        LET known == {g \in Repos : f[g] # 0} IN
        /\ {f[g] : g \in known} = 1 .. k /\ \A g, h \in known : f[g] = f[h] => g = h
        /\ off \in SUBSET known
        /\ repo = [g \in Repos |-> IF g \in known THEN name[g] ELSE NoOne]
        /\ tracked = [t \in RowIds |->
               IF \E g \in known : f[g] = t
               THEN LET g == CHOOSE h \in known : f[h] = t
                    IN  [name |-> name[g], repo |-> g, enabled |-> g \notin off, done |-> "sparse"]
               ELSE Absent]
        /\ nextRow = k + 1
  BY Zenon DEF Init
<1>2. PICK known : known = {g \in Repos : f[g] # 0}
  OBVIOUS
<1>3. /\ {f[g] : g \in known} = 1 .. k /\ \A g, h \in known : f[g] = f[h] => g = h
      /\ off \subseteq known /\ nextRow = k + 1
      /\ repo = [g \in Repos |-> IF g \in known THEN name[g] ELSE NoOne]
      /\ tracked = [t \in RowIds |->
               IF \E g \in known : f[g] = t
               THEN LET g == CHOOSE h \in known : f[h] = t
                    IN  [name |-> name[g], repo |-> g, enabled |-> g \notin off, done |-> "sparse"]
               ELSE Absent]
  BY <1>1, <1>2, Zenon
<1>4. name \in [Repos -> Names] /\ known \subseteq Repos /\ \A g \in known : f[g] \in RowIds /\ name[g] \in Names
  BY <1>2 DEF Init
<1> DEFINE first(g) == [name |-> name[g], repo |-> g, enabled |-> g \notin off, done |-> "sparse"]
<1>5. \A t \in RowIds : \/ tracked[t] = Absent /\ \A g \in known : f[g] # t
                        \/ \E g \in known : f[g] = t /\ tracked[t] = first(g)
  <2>1. ASSUME NEW t \in RowIds
        PROVE  \/ tracked[t] = Absent /\ \A g \in known : f[g] # t
               \/ \E g \in known : f[g] = t /\ tracked[t] = first(g)
    <3>1. CASE \E g \in known : f[g] = t
      <4>1. PICK g : g = CHOOSE h \in known : f[h] = t
        OBVIOUS
      <4>2. g \in known /\ f[g] = t
        BY <3>1, <4>1, Zenon
      <4>3. tracked[t] = first(g)
        BY <1>3, <3>1, <4>1, Zenon
      <4> QED
        BY <4>2, <4>3, Zenon
    <3>2. CASE ~\E g \in known : f[g] = t
      <4>1. tracked[t] = Absent
        BY <1>3, <3>2
      <4> QED
        BY <3>2, <4>1, Zenon
    <3> QED
      BY <3>1, <3>2
  <2> QED
    BY <2>1, Zenon
<1>6. \A g \in known : /\ first(g) \in RowRecords /\ first(g).name = name[g] /\ first(g).repo = g
                       /\ first(g).enabled <=> g \notin off
                       /\ first(g) # Absent
  <2>1. ASSUME NEW g \in known
        PROVE  /\ first(g) \in RowRecords /\ first(g).name = name[g] /\ first(g).repo = g
               /\ first(g).enabled <=> g \notin off
               /\ first(g) # Absent
    <3>1. g \in Repos /\ name[g] \in Names /\ (g \notin off) \in BOOLEAN
      BY <1>4
    <3>2. first(g) \in RowRecords
      BY <3>1 DEF RowRecords, Refs, Completeness, FullNames
    <3>3. first(g).name = name[g] /\ first(g).repo = g
      OBVIOUS
    <3>4. first(g).enabled <=> g \notin off
      BY Zenon
    <3>5. first(g) # Absent
      BY <3>1, <3>3, RecordFacts
    <3> QED
      BY <3>2, <3>3, <3>4, <3>5
  <2> QED
    BY <2>1, Zenon
<1>7. tracked = [t \in RowIds |-> tracked[t]]
  BY <1>3
<1> HIDE DEF first
<1>8. tracked \in [RowIds -> RowRecords]
  <2>1. \A t \in RowIds : tracked[t] \in RowRecords
    BY <1>5, <1>6, RecordFacts
  <2> QED
    BY <1>7, <2>1
<1>9. \A g \in Repos : f[g] # 0 =>
        f[g] \in Live /\ tracked[f[g]].name = name[g] /\ tracked[f[g]].repo = g
        /\ (tracked[f[g]].enabled <=> g \notin off)
  <2>1. ASSUME NEW g \in known
        PROVE  f[g] \in Live /\ tracked[f[g]].name = name[g] /\ tracked[f[g]].repo = g
               /\ (tracked[f[g]].enabled <=> g \notin off)
    <3>0. f[g] \in RowIds /\ \A h \in known : f[h] = f[g] => h = g
      BY <1>3, <1>4
    <3>1. tracked[f[g]] = first(g)
      BY <1>5, <3>0
    <3>2. f[g] \in Live
      BY <1>6, <3>0, <3>1 DEF Live
    <3> QED
      BY <1>6, <3>1, <3>2
  <2> QED
    BY <1>2, <2>1
<1>10. \A t \in Live : \E g \in Repos : f[g] = t /\ t \in 1 .. k
  <2>1. ASSUME NEW t \in Live PROVE \E g \in Repos : f[g] = t /\ t \in 1 .. k
    <3>1. t \in RowIds /\ tracked[t] # Absent
      BY DEF Live
    <3>2. PICK g \in known : f[g] = t
      BY <1>5, <3>1
    <3>3. f[g] \in 1 .. k
      BY <1>3
    <3> QED
      BY <1>4, <3>2, <3>3
  <2> QED
    BY <2>1
<1>11. repo \in [Repos -> FullNames \cup {NoOne}] /\ \A g \in Repos : repo[g] = IF f[g] # 0 THEN name[g] ELSE NoOne
  BY <1>2, <1>3, <1>4, RecordFacts
<1> QED
  BY <1>2, <1>3, <1>8, <1>9, <1>10, <1>11, ZenonT(60)

LEMMA InitIInv == Init => IInv
<1> SUFFICES ASSUME Init PROVE IInv
  OBVIOUS
<1>1. PICK f \in [Repos -> {0} \cup RowIds], k \in {0} \cup RowIds :
           /\ off \subseteq {g \in Repos : f[g] # 0} /\ nextRow = k + 1
           /\ \A g \in Repos : repo[g] = IF f[g] # 0 THEN name[g] ELSE NoOne
           /\ repo \in [Repos -> FullNames \cup {NoOne}] /\ tracked \in [RowIds -> RowRecords]
           /\ \A g \in Repos : f[g] # 0 =>
                 f[g] \in Live /\ tracked[f[g]].name = name[g] /\ tracked[f[g]].repo = g
                 /\ (tracked[f[g]].enabled <=> g \notin off)
           /\ \A t \in Live : \E g \in Repos : f[g] = t /\ t \in 1 .. k
  BY InitTables
<1>2. /\ name \in [Repos -> Names] /\ \A g, h \in Repos : name[g] = name[h] => g = h
      /\ inbox = <<>> /\ jobs = {} /\ proc = [a \in Actors |-> Idle] /\ crossed = FALSE
  <2>1. name \in [Repos -> Names] /\ \A g, h \in Repos : name[g] = name[h] => g = h
    BY ZenonT(60) DEF Init
  <2>2. inbox = <<>> /\ jobs = {} /\ proc = [a \in Actors |-> Idle] /\ crossed = FALSE
    BY ZenonT(60) DEF Init
  <2> QED
    BY <2>1, <2>2
<1>3. \A g \in Repos : name[g] \in Names /\ name[g] # NoOne /\ name[g] \notin Released /\ g # NoOne
  <2>1. \A g \in Repos : name[g] \in Names
    BY <1>2
  <2> QED
    BY <2>1, RecordFacts, ConstantsAssumption
<1>4. k \in Nat /\ k <= MaxRows /\ MaxRows \in Nat
  BY ConstantsAssumption DEF RowIds
<1>5. Types
  <2>1. nextRow \in 1 .. MaxRows + 1
    BY <1>1, <1>4
  <2>2. inbox \in Seq(Deliveries)
    BY <1>2
  <2>3. proc \in [Actors -> ProcRecords]
    BY <1>2, RecordFacts
  <2>4. off \subseteq Repos /\ jobs \subseteq JobRecords /\ crossed \in BOOLEAN
    BY <1>1, <1>2
  <2> QED
    BY <1>1, <1>2, <2>1, <2>2, <2>3, <2>4 DEF Types
<1>6. ReposOK
  <2>1. \A g \in Repos : (repo[g] = name[g] /\ repo[g] # NoOne) \/ repo[g] = NoOne
    BY <1>1, <1>3
  <2>2. \A g \in Repos : repo[g] \notin Released
    BY <1>3, <2>1, ConstantsAssumption
  <2> QED
    BY <1>2, <2>1, <2>2 DEF ReposOK, Stored
<1>7. RowsOK
  <2>1. ASSUME NEW t \in Live
        PROVE  /\ t < nextRow /\ tracked[t].name # NoOne
               /\ tracked[t].repo # NoOne => Stored(tracked[t].repo)
               /\ \A u \in Live : tracked[t].name = tracked[u].name => t = u
    <3>1. PICK g \in Repos : f[g] = t /\ t \in 1 .. k
      BY <1>1
    <3>2. f[g] # 0 /\ tracked[t].name = name[g] /\ tracked[t].repo = g /\ repo[g] = name[g]
      BY <1>1, <1>4, <3>1
    <3>3. t < nextRow
      BY <1>1, <1>4, <3>1
    <3>4. ASSUME NEW u \in Live, tracked[t].name = tracked[u].name PROVE t = u
      <4>1. PICK h \in Repos : f[h] = u /\ u \in 1 .. k
        BY <1>1
      <4>2. f[h] # 0 /\ tracked[u].name = name[h]
        BY <1>1, <1>4, <4>1
      <4> QED
        BY <1>2, <3>1, <3>2, <3>4, <4>1, <4>2
    <3> QED
      BY <1>3, <3>2, <3>3, <3>4 DEF Stored
  <2> QED
    BY <2>1 DEF RowsOK
<1>8. JobsOK
  BY <1>2 DEF JobsOK
<1>9. ProcsOK
  BY <1>2, <1>5, IdleOK DEF ProcsOK
<1> QED
  BY <1>5, <1>6, <1>7, <1>8, <1>9 DEF IInv

LEMMA NextIInv == IInv /\ [Next]_vars => IInv'
<1> SUFFICES ASSUME IInv, [Next]_vars PROVE IInv'
  OBVIOUS
<1>1. ASSUME NEW g \in Repos, NEW n \in Names, Rename(g, n) PROVE IInv'
  BY <1>1, RenameKeeps
<1>2. ASSUME NEW g \in Repos, NEW event \in {"issues", "push"}, HandleWebhook(g, event) PROVE IInv'
  BY <1>2, HandleWebhookKeeps DEF Events
<1>3. ASSUME NEW g \in Repos, EnqueueRepositoryRefresh(g) \/ StartSync(g) \/ TurnOff(g) PROVE IInv'
  BY <1>3, EnqueueKeeps, StartSyncKeeps, TurnOffKeeps
<1>4. ASSUME NEW a \in Actors, ResolveTrackedRepository(a) \/ MergeTrackedRepositoryMatches(a) PROVE IInv'
  BY <1>4, ResolveKeeps, MergeKeeps
<1>5. ASSUME NEW w \in Workers,
             \/ ProcessWebhookDelivery(w) \/ UpsertTracked(w) \/ InsertTracked(w)
             \/ ProjectRepository(w) \/ UpdateProjectionState(w) \/ DeliveryFails(w)
      PROVE  IInv'
  BY <1>5, TakeKeeps, UpsertTrackedKeeps, InsertTrackedKeeps, ProjectKeeps, UpdateProjectionStateKeeps, FailKeeps
<1>6. ASSUME NEW j \in jobs, StartJob(j) PROVE IInv'
  BY <1>6, StartJobKeeps
<1>7. CASE \/ UpsertRepository \/ KeepPolicy \/ UpsertTrackedRepository
           \/ MarkJobSucceeded \/ MarkBackfilled \/ ReadFails
  BY <1>7, UpsertRepositoryKeeps, KeepPolicyKeeps, UpsertTrackedRepositoryKeeps, MarkJobSucceededKeeps,
     MarkBackfilledKeeps, ReadFailsKeeps
<1>8. CASE UNCHANGED vars
  <2>1. UNCHANGED <<name, repo, tracked, nextRow, jobs, inbox, proc, off, crossed>>
    BY <1>8 DEF vars
  <2> QED
    BY <2>1 DEF IInv, Types, ReposOK, RowsOK, JobsOK, ProcsOK, ProcOK, Live, Stored
<1> QED
  BY <1>1, <1>2, <1>3, <1>4, <1>5, <1>6, <1>7, <1>8, Zenon DEF Next

(* Each table, and whatever an actor carries from one statement to the     *)
(* next, is such that every statement of the code leaves it so.            *)
THEOREM Invariant == Spec => []IInv
  BY InitIInv, NextIInv, PTL DEF Spec

(* TypeOK: beside the types, a full name stands for one repository and one *)
(* tracked row, and a refresh job points to a row that is there, whatever  *)
(* is merged under it.                                                     *)
THEOREM TypeCorrect == Spec => []TypeOK
<1>1. IInv => TypeOK
  <2> SUFFICES ASSUME IInv PROVE TypeOK
    OBVIOUS
  <2>1. \A j \in jobs : /\ j.for \in Repos /\ j.repo \in Repos
                        /\ j.name \in Names \cup Released /\ j.row \in {0} \cup Live
    BY DEF IInv, Types, JobsOK, JobRecords, FullNames
  <2> QED
    BY <2>1 DEF IInv, TypeOK, Types, ReposOK, RowsOK, RowRecords, Refs, FullNames, Stored
<1> QED
  BY <1>1, Invariant, PTL
-----------------------------------------------------------------------------
(* While nobody takes a name that is still known as another's, a name      *)
(* stands for one repository everywhere: at GitHub, in both tables, in the *)
(* jobs and the deliveries, and with the actors.                           *)
Knows(n, g) ==
    \/ name[g] = n
    \/ repo[g] = n
    \/ \E t \in Live : tracked[t].name = n /\ tracked[t].repo = g
    \/ \E j \in jobs : j.name = n /\ j.for = g
    \/ \E i \in DOMAIN inbox : inbox[i].n = n /\ inbox[i].g = g
    \/ \E a \in Actors : \/ proc[a].n = n /\ proc[a].g = g
                         \/ proc[a].job # NoOne /\ proc[a].job.name = n /\ proc[a].job.for = g

OneOwner == \A n \in FullNames, g, h \in Repos : Knows(n, g) /\ Knows(n, h) => g = h
NoneReleased == \A g \in Repos : repo[g] \notin Released

(* The row is the repository's, or nobody's under a name of the            *)
(* repository, or gone.                                                    *)
RowOf(t, g, n) ==
    t # 0 => \/ tracked[t] = Absent
             \/ tracked[t].repo = g
             \/ tracked[t].repo = NoOne /\ tracked[t].name = n

Matched == {"merge", "policy", "upsert", "project", "state"}

ProcFollows(p) ==
    /\ p.known \in {NoOne, p.g}
    /\ p.job # NoOne => p.job.repo = p.job.for /\ p.job.for = p.g
    /\ p.pc \in Matched => RowOf(p.row, p.g, p.n)
    /\ p.pc = "merge" => RowOf(p.nameId, p.g, p.n)

ProcsFollow == \A a \in Actors : ProcFollows(proc[a])
JobsFollow == \A j \in jobs : j.repo = j.for /\ RowOf(j.row, j.for, j.name)
ServedOK == \A s \in served : s.fetched = s.for

FollowInv == OneOwner /\ NoneReleased /\ ProcsFollow /\ JobsFollow /\ ServedOK

LEMMA KnownNow ==
  /\ \A h \in Repos : Knows(name[h], h) /\ Knows(repo[h], h)
  /\ \A t \in Live : Knows(tracked[t].name, tracked[t].repo)
  /\ \A j \in jobs : Knows(j.name, j.for)
  /\ \A i \in DOMAIN inbox : Knows(inbox[i].n, inbox[i].g)
  /\ \A a \in Actors : /\ Knows(proc[a].n, proc[a].g)
                       /\ proc[a].job # NoOne => Knows(proc[a].job.name, proc[a].job.for)
BY DEF Knows

(* What is known in the tables and the queue after a step was known        *)
(* before it.                                                              *)
ReposKnown == \A h \in Repos : repo'[h] \in FullNames => Knows(repo'[h], h)
RowsKnown == \A t \in Live' : tracked'[t].repo \in Repos => Knows(tracked'[t].name, tracked'[t].repo)
JobsKnown == \A j \in jobs' : Knows(j.name, j.for)
InboxKnown == \A i \in DOMAIN inbox' : Knows(inbox'[i].n, inbox'[i].g)
ProcKnown(p) == /\ p.g \in Repos => Knows(p.n, p.g)
                /\ p.job # NoOne => Knows(p.job.name, p.job.for)
ProcsKnown == \A a \in Actors : ProcKnown(proc'[a])

(* What is said of rows that were there still holds.                       *)
RowsStable == \A t \in RowIds, g \in Repos, n \in FullNames :
                  t < nextRow /\ Knows(n, g) /\ RowOf(t, g, n) => RowOf(t, g, n)'

LEMMA OwnersKept ==
  ASSUME OneOwner, UNCHANGED name, ReposKnown, RowsKnown, JobsKnown, InboxKnown, ProcsKnown
  PROVE  OneOwner' /\ \A n \in FullNames, g \in Repos : Knows(n, g)' => Knows(n, g)
<1>1. ASSUME NEW n \in FullNames, NEW g \in Repos, Knows(n, g)' PROVE Knows(n, g)
  <2>1. CASE name'[g] = n
    BY <2>1, KnownNow
  <2>2. CASE repo'[g] = n
    BY <2>2 DEF ReposKnown
  <2>3. CASE \E t \in Live' : tracked'[t].name = n /\ tracked'[t].repo = g
    BY <2>3 DEF RowsKnown
  <2>4. CASE \E j \in jobs' : j.name = n /\ j.for = g
    BY <2>4 DEF JobsKnown
  <2>5. CASE \E i \in DOMAIN inbox' : inbox'[i].n = n /\ inbox'[i].g = g
    BY <2>5 DEF InboxKnown
  <2>6. CASE \E a \in Actors : \/ proc'[a].n = n /\ proc'[a].g = g
                               \/ proc'[a].job # NoOne /\ proc'[a].job.name = n /\ proc'[a].job.for = g
    BY <2>6 DEF ProcsKnown, ProcKnown
  <2> QED
    BY <1>1, <2>1, <2>2, <2>3, <2>4, <2>5, <2>6 DEF Knows
<1> QED
  BY <1>1 DEF OneOwner

LEMMA AppendedFrom ==
  ASSUME NEW s \in Seq(Deliveries), NEW d \in Deliveries, NEW q, q = Append(s, d)
  PROVE  \A i \in DOMAIN q : q[i] = d \/ \E k \in DOMAIN s : q[i] = s[k]
<1>1. /\ q \in Seq(Deliveries) /\ Len(q) = Len(s) + 1
      /\ \A i \in 1 .. Len(s) : q[i] = s[i]
      /\ q[Len(s) + 1] = d
  BY AppendProperties
<1>2. Len(s) \in Nat /\ DOMAIN s = 1 .. Len(s) /\ DOMAIN q = 1 .. Len(q)
  BY <1>1, LenProperties
<1>3. \A i \in DOMAIN q : i \in 1 .. Len(s) \/ i = Len(s) + 1
  BY <1>1, <1>2
<1> QED
  BY <1>1, <1>2, <1>3

LEMMA ReposKnownKept == ASSUME UNCHANGED repo PROVE ReposKnown
  BY KnownNow DEF ReposKnown
LEMMA RowsKnownKept == ASSUME UNCHANGED tracked PROVE RowsKnown
  BY KnownNow, LiveKept DEF RowsKnown
LEMMA JobsKnownKept == ASSUME jobs' \subseteq jobs PROVE JobsKnown
  BY KnownNow DEF JobsKnown
LEMMA InboxKnownKept == ASSUME UNCHANGED inbox PROVE InboxKnown
  BY KnownNow DEF InboxKnown
LEMMA ProcsKnownKept == ASSUME UNCHANGED proc PROVE ProcsKnown
  BY KnownNow DEF ProcsKnown, ProcKnown

LEMMA RowsStableKept == ASSUME UNCHANGED tracked PROVE RowsStable
  BY DEF RowsStable, RowOf

(* An actor that is not the one that goes on keeps what it knows.          *)
LEMMA ProcFollowsStays ==
  ASSUME IInv, RowsStable, NEW a \in Actors, NEW p \in ProcRecords, p = proc[a], ProcFollows(p)
  PROVE  ProcFollows(p)'
<1>0. ProcOK(a, p)
  BY DEF IInv, ProcsOK
<1>1. p.row \in {0} \cup RowIds /\ p.nameId \in {0} \cup RowIds
  BY DEF ProcRecords
<1>2. CASE p.pc = "idle"
  BY <1>2 DEF ProcFollows, Matched
<1>3. CASE p.pc # "idle"
  <2>1. p.g \in Repos /\ p.n \in FullNames /\ p.row < nextRow /\ p.nameId < nextRow
    BY <1>0, <1>3 DEF ProcOK
  <2>2. Knows(p.n, p.g)
    BY KnownNow
  <2>3. RowOf(p.row, p.g, p.n) => RowOf(p.row, p.g, p.n)'
    <3>1. CASE p.row = 0
      BY <3>1 DEF RowOf
    <3>2. CASE p.row \in RowIds
      BY <2>1, <2>2, <3>2 DEF RowsStable
    <3> QED
      BY <1>1, <3>1, <3>2
  <2>4. RowOf(p.nameId, p.g, p.n) => RowOf(p.nameId, p.g, p.n)'
    <3>1. CASE p.nameId = 0
      BY <3>1 DEF RowOf
    <3>2. CASE p.nameId \in RowIds
      BY <2>1, <2>2, <3>2 DEF RowsStable
    <3> QED
      BY <1>1, <3>1, <3>2
  <2> QED
    BY <2>3, <2>4 DEF ProcFollows
<1> QED
  BY <1>2, <1>3

LEMMA ProcsFollowKept ==
  ASSUME IInv, ProcsFollow, RowsStable, UNCHANGED proc
  PROVE  ProcsFollow'
<1>1. ASSUME NEW a \in Actors PROVE ProcFollows(proc[a])'
  <2>1. PICK p \in ProcRecords : p = proc[a]
    BY ActorRecord
  <2>2. ProcFollows(p)
    BY <2>1 DEF ProcsFollow
  <2>3. ProcFollows(p)'
    BY <2>1, <2>2, ProcFollowsStays
  <2> QED
    BY <2>1, <2>3
<1> QED
  BY <1>1 DEF ProcsFollow

LEMMA JobsFollowKept ==
  ASSUME IInv, JobsFollow, RowsStable, jobs' \subseteq jobs
  PROVE  JobsFollow'
<1>1. ASSUME NEW j \in jobs PROVE RowOf(j.row, j.for, j.name)'
  <2>1. j \in JobRecords /\ j.row \in {0} \cup Live /\ RowOf(j.row, j.for, j.name) /\ Knows(j.name, j.for)
    BY KnownNow DEF IInv, Types, JobsOK, JobsFollow
  <2>2. j.for \in Repos /\ j.name \in FullNames
    BY <2>1 DEF JobRecords
  <2>3. CASE j.row = 0
    BY <2>3 DEF RowOf
  <2>4. CASE j.row \in Live
    <3>1. j.row \in RowIds /\ j.row < nextRow
      BY <2>4, RowIdsFacts DEF IInv, RowsOK
    <3> QED
      BY <2>1, <2>2, <3>1 DEF RowsStable
  <2> QED
    BY <2>1, <2>3, <2>4
<1> QED
  BY <1>1 DEF JobsFollow

(* One actor goes on, and the rest of the state keeps to its owners.       *)
LEMMA FollowStep ==
  ASSUME IInv, FollowInv, NEW a \in Actors, NEW new \in ProcRecords, Goes(a, new),
         UNCHANGED name, RowsStable, ReposKnown, RowsKnown, JobsKnown, InboxKnown, ProcKnown(new),
         ProcFollows(new)', NoneReleased', JobsFollow', ServedOK'
  PROVE  FollowInv' /\ \A n \in FullNames, g \in Repos : Knows(n, g)' => Knows(n, g)
<1>1. proc'[a] = new /\ \A b \in Actors \ {a} : proc'[b] = proc[b]
  BY DEF IInv, Types, Goes
<1>2. ProcsKnown
  BY <1>1, KnownNow DEF ProcsKnown, ProcKnown
<1>3. ProcsFollow'
  <2>1. ASSUME NEW b \in Actors PROVE ProcFollows(proc[b])'
    <3>1. CASE b = a
      BY <1>1, <3>1
    <3>2. CASE b # a
      <4>1. PICK p \in ProcRecords : p = proc[b]
        BY ActorRecord
      <4>2. ProcFollows(p)
        BY <4>1 DEF FollowInv, ProcsFollow
      <4>3. ProcFollows(p)'
        BY <4>1, <4>2, ProcFollowsStays
      <4> QED
        BY <1>1, <3>2, <4>1, <4>3
    <3> QED
      BY <3>1, <3>2
  <2> QED
    BY <2>1 DEF ProcsFollow
<1>4. OneOwner' /\ \A n \in FullNames, g \in Repos : Knows(n, g)' => Knows(n, g)
  BY <1>2, OwnersKept DEF FollowInv
<1> QED
  BY <1>3, <1>4 DEF FollowInv

LEMMA ClaimFollows ==
  ASSUME OneOwner, NoneReleased, NEW g \in Repos, NEW n \in Names, Knows(n, g), repo' = Claimed(g, n)
  PROVE  /\ \A h \in Repos : repo'[h] = IF h = g THEN n ELSE repo[h]
         /\ NoneReleased' /\ ReposKnown
<1>1. \A h \in Repos : repo[h] = n => h = g
  BY KnownNow, RecordFacts DEF OneOwner
<1>2. \A h \in Repos : repo'[h] = IF h = g THEN n ELSE repo[h]
  BY <1>1 DEF Claimed
<1>3. NoneReleased'
  BY <1>2, ConstantsAssumption DEF NoneReleased
<1>4. ReposKnown
  BY <1>2, KnownNow DEF ReposKnown
<1> QED
  BY <1>2, <1>3, <1>4

(* A row that the writer may take for its own is written.                  *)
LEMMA WriteStable ==
  ASSUME IInv, OneOwner, NEW t0 \in RowIds, NEW r, NEW g0 \in Repos, NEW n0 \in FullNames, Knows(n0, g0),
         tracked' = [tracked EXCEPT ![t0] = r], r.name = n0, r.repo \in {NoOne, g0},
         \/ t0 \in Live /\ RowOf(t0, g0, n0) /\ (tracked[t0].repo # NoOne => r.repo # NoOne)
         \/ t0 = nextRow
  PROVE  RowsStable /\ RowsKnown
<1>0. Types
  BY DEF IInv
<1>1. tracked'[t0] = r /\ \A t \in RowIds \ {t0} : tracked'[t] = tracked[t]
  BY <1>0, Zenon DEF Types
<1>2. ASSUME NEW t \in RowIds, NEW g \in Repos, NEW n \in FullNames, t < nextRow, Knows(n, g), RowOf(t, g, n)
      PROVE  RowOf(t, g, n)'
  <2>1. CASE t # t0
    BY <1>1, <1>2, <2>1 DEF RowOf
  <2>2. CASE t = t0
    <3>1. nextRow \in Nat /\ t0 # 0
      BY <1>0, ConstantsAssumption, RowIdsFacts DEF Types
    <3>2. t0 \in Live /\ RowOf(t0, g0, n0) /\ (tracked[t0].repo # NoOne => r.repo # NoOne)
      BY <1>2, <2>2, <3>1
    <3>3. tracked[t0] # Absent
      BY <3>2 DEF Live
    <3>4. CASE tracked[t0].repo = g
      <4>1. g = g0 /\ r.repo = g0
        BY <3>1, <3>2, <3>3, <3>4, RecordFacts DEF RowOf
      <4> QED
        BY <1>1, <2>2, <4>1 DEF RowOf
    <3>5. CASE tracked[t0].repo = NoOne /\ tracked[t0].name = n
      <4>1. n = n0
        BY <3>1, <3>2, <3>3, <3>5, RecordFacts DEF RowOf
      <4>2. g = g0
        BY <1>2, <4>1 DEF OneOwner
      <4> QED
        BY <1>1, <2>2, <4>1, <4>2 DEF RowOf
    <3> QED
      BY <1>2, <2>2, <3>1, <3>3, <3>4, <3>5 DEF RowOf
  <2> QED
    BY <2>1, <2>2
<1>3. RowsKnown
  <2>1. ASSUME NEW t \in Live', tracked'[t].repo \in Repos
        PROVE  Knows(tracked'[t].name, tracked'[t].repo)
    <3>1. t \in RowIds /\ tracked'[t] # Absent
      BY DEF Live
    <3>2. CASE t = t0
      BY <1>1, <2>1, <3>2, RecordFacts
    <3>3. CASE t # t0
      <4>1. t \in Live /\ tracked'[t] = tracked[t]
        BY <1>1, <3>1, <3>3 DEF Live
      <4> QED
        BY <4>1, KnownNow
    <3> QED
      BY <3>2, <3>3
  <2> QED
    BY <2>1 DEF RowsKnown
<1> QED
  BY <1>2, <1>3 DEF RowsStable
-----------------------------------------------------------------------------
NothingLearnt == \A n \in FullNames, g \in Repos : Knows(n, g)' => Knows(n, g)

(* A rename of nobody's name.                                              *)
LEMMA RenameFollows ==
  ASSUME IInv, FollowInv, NEW g \in Repos, NEW n \in Names, Rename(g, n), ~crossed'
  PROVE  FollowInv' /\ \A m \in FullNames, h \in Repos : Knows(m, h)' => Knows(m, h) \/ (m = n /\ h = g)
<1>1. UNCHANGED <<repo, tracked, nextRow, jobs, inbox, proc, served>>
  BY DEF Rename, rows, history
<1>2. /\ \A h \in Repos : name'[h] = IF h = g THEN n ELSE name[h]
      /\ \A h \in Repos : name[h] # n
      /\ ~StillKnown(n, g)
  <2>1. name' = [name EXCEPT ![g] = n] /\ (\A h \in Repos : name[h] # n) /\ ~StillKnown(n, g)
    BY DEF Rename
  <2> QED
    BY <2>1 DEF IInv, Types
<1>3. Live' = Live
  BY <1>1, LiveKept
<1>4. ASSUME NEW m \in FullNames, NEW h \in Repos, Knows(m, h)' PROVE Knows(m, h) \/ (m = n /\ h = g)
  BY <1>1, <1>2, <1>3, <1>4 DEF Knows
<1>5. ASSUME NEW h \in Repos, Knows(n, h) PROVE h = g
  BY <1>2, <1>5 DEF Knows, StillKnown
<1>6. OneOwner'
  <2>1. n \in FullNames
    BY RecordFacts
  <2>2. ASSUME NEW m \in FullNames, NEW h \in Repos, NEW k \in Repos, Knows(m, h)', Knows(m, k)' PROVE h = k
    <3>1. (Knows(m, h) \/ (m = n /\ h = g)) /\ (Knows(m, k) \/ (m = n /\ k = g))
      BY <1>4, <2>2
    <3> QED
      BY <1>5, <3>1 DEF FollowInv, OneOwner
  <2> QED
    BY <2>2 DEF OneOwner
<1>7. ProcsFollow' /\ JobsFollow'
  <2>1. RowsStable /\ jobs' \subseteq jobs
    BY <1>1, RowsStableKept
  <2> QED
    BY <1>1, <2>1, ProcsFollowKept, JobsFollowKept DEF FollowInv
<1>8. NoneReleased' /\ ServedOK'
  BY <1>1 DEF FollowInv, NoneReleased, ServedOK
<1> QED
  BY <1>4, <1>6, <1>7, <1>8 DEF FollowInv

LEMMA HandleWebhookFollows ==
  ASSUME IInv, FollowInv, NEW g \in Repos, NEW event \in Events, HandleWebhook(g, event)
  PROVE  FollowInv' /\ NothingLearnt
<1>1. UNCHANGED <<name, tracked, nextRow, jobs, proc, served>>
  BY DEF HandleWebhook, rows, history
<1>2. PICK n \in Names : n = name[g]
  BY DEF IInv, Types
<1>3. Knows(n, g)
  BY <1>2, KnownNow
<1>4. ReposKnown /\ NoneReleased'
  <2>1. CASE event = "issues"
    <3>1. repo' = Claimed(g, n)
      BY <1>2, <2>1, Zenon DEF HandleWebhook
    <3> QED
      BY <1>3, <3>1, ClaimFollows DEF FollowInv
  <2>2. CASE event # "issues"
    <3>1. UNCHANGED repo
      BY <2>2 DEF HandleWebhook
    <3> QED
      BY <3>1, ReposKnownKept DEF FollowInv, NoneReleased
  <2> QED
    BY <2>1, <2>2
<1>5. InboxKnown
  <2>1. PICK d : d = [g |-> g, n |-> n, event |-> event]
    OBVIOUS
  <2>2. inbox' = Append(inbox, d) /\ inbox \in Seq(Deliveries)
    BY <1>2, <2>1, Zenon DEF HandleWebhook, IInv, Types
  <2>3. d \in Deliveries /\ d.g = g /\ d.n = n
    BY <2>1 DEF Deliveries
  <2>4. \A i \in DOMAIN inbox' : inbox'[i] = d \/ \E k \in DOMAIN inbox : inbox'[i] = inbox[k]
    BY <2>2, <2>3, AppendedFrom
  <2> QED
    BY <1>3, <2>3, <2>4, KnownNow DEF InboxKnown
<1>6. RowsStable /\ RowsKnown /\ JobsKnown /\ ProcsKnown /\ jobs' \subseteq jobs
  BY <1>1, RowsStableKept, RowsKnownKept, JobsKnownKept, ProcsKnownKept
<1>7. OneOwner' /\ NothingLearnt
  BY <1>1, <1>4, <1>5, <1>6, OwnersKept DEF FollowInv, NothingLearnt
<1>8. ProcsFollow' /\ JobsFollow'
  BY <1>1, <1>6, ProcsFollowKept, JobsFollowKept DEF FollowInv
<1>9. ServedOK'
  BY <1>1 DEF FollowInv, ServedOK
<1> QED
  BY <1>4, <1>7, <1>8, <1>9 DEF FollowInv

LEMMA EnqueueFollows ==
  ASSUME IInv, FollowInv, NEW g \in Repos, EnqueueRepositoryRefresh(g)
  PROVE  FollowInv' /\ NothingLearnt
<1>1. UNCHANGED <<name, repo, tracked, nextRow, inbox, proc, served>>
  BY DEF EnqueueRepositoryRefresh, outside
<1>2. PICK n \in Names : n = name[g]
  BY DEF IInv, Types
<1>3. PICK t : t = RowByName(n)
  OBVIOUS
<1>4. PICK r : r = IF Holders(n) # {} THEN CHOOSE h \in Holders(n) : TRUE ELSE Row(t).repo
  OBVIOUS
<1>5. PICK k : k = [for |-> g, row |-> t, repo |-> r, name |-> n]
  OBVIOUS
<1>6. r # NoOne /\ jobs' = jobs \cup {k}
  BY <1>2, <1>3, <1>4, <1>5, Zenon DEF EnqueueRepositoryRefresh
<1>7. k.for = g /\ k.row = t /\ k.repo = r /\ k.name = n /\ Knows(n, g) /\ n \in FullNames
  BY <1>2, <1>5, KnownNow, RecordFacts
<1>8. t = 0 \/ (t \in Live /\ t \in RowIds /\ tracked[t].name = n /\ tracked[t].repo \in {NoOne, g})
  <2>1. t = 0 \/ (t \in Live /\ t \in RowIds /\ t # 0 /\ tracked[t].name = n)
    BY <1>3, FoundByName
  <2>2. CASE t \in Live /\ t \in RowIds /\ tracked[t].name = n /\ tracked[t].repo # NoOne
    <3>1. tracked[t].repo \in Repos /\ Knows(n, tracked[t].repo)
      BY <2>2, KnownNow DEF IInv, Types, RowRecords, Refs
    <3> QED
      BY <1>7, <2>2, <3>1 DEF FollowInv, OneOwner
  <2> QED
    BY <2>1, <2>2
<1>9. r = g
  <2>1. CASE Holders(n) # {}
    <3>1. r \in Repos /\ Knows(n, r)
      BY <1>4, <2>1, HolderFacts, KnownNow
    <3> QED
      BY <1>7, <3>1 DEF FollowInv, OneOwner
  <2>2. CASE Holders(n) = {}
    <3>1. r = Row(t).repo
      BY <1>4, <2>2
    <3> QED
      BY <1>6, <1>8, <3>1, RecordFacts, RowIdsFacts DEF Row
  <2> QED
    BY <2>1, <2>2
<1>10. RowOf(k.row, k.for, k.name)
  BY <1>7, <1>8 DEF RowOf
<1>11. JobsFollow'
  <2>1. ASSUME NEW j \in jobs' PROVE j.repo = j.for /\ RowOf(j.row, j.for, j.name)
    BY <1>6, <1>7, <1>9, <1>10 DEF FollowInv, JobsFollow
  <2>2. ASSUME NEW j \in jobs' PROVE RowOf(j.row, j.for, j.name)'
    BY <1>1, <2>1 DEF RowOf
  <2> QED
    BY <2>1, <2>2 DEF JobsFollow
<1>12. JobsKnown
  BY <1>6, <1>7, KnownNow DEF JobsKnown
<1>13. RowsStable /\ RowsKnown /\ ReposKnown /\ InboxKnown /\ ProcsKnown
  BY <1>1, RowsStableKept, RowsKnownKept, ReposKnownKept, InboxKnownKept, ProcsKnownKept
<1>14. OneOwner' /\ NothingLearnt
  BY <1>1, <1>12, <1>13, OwnersKept DEF FollowInv, NothingLearnt
<1>15. ProcsFollow'
  BY <1>1, <1>13, ProcsFollowKept DEF FollowInv
<1>16. NoneReleased' /\ ServedOK'
  BY <1>1 DEF FollowInv, NoneReleased, ServedOK
<1> QED
  BY <1>11, <1>14, <1>15, <1>16 DEF FollowInv

(* Steps of one actor that leave the rows alone.                           *)
LEMMA FollowOnly ==
  ASSUME IInv, FollowInv, NEW a \in Actors, NEW new \in ProcRecords, Goes(a, new),
         UNCHANGED <<name, tracked>>, jobs' \subseteq jobs,
         ReposKnown, NoneReleased', InboxKnown, ProcKnown(new), ProcFollows(new), ServedOK'
  PROVE  FollowInv' /\ NothingLearnt
<1>1. RowsStable /\ RowsKnown /\ JobsKnown
  BY RowsStableKept, RowsKnownKept, JobsKnownKept
<1>2. JobsFollow'
  BY <1>1, JobsFollowKept DEF FollowInv
<1>3. ProcFollows(new)'
  BY DEF ProcFollows, RowOf
<1> QED
  BY <1>1, <1>2, <1>3, FollowStep DEF NothingLearnt

(* An actor that goes on for the same repository and name knows no more.   *)
LEMMA SameKnown ==
  ASSUME NEW a \in Actors, NEW p \in ProcRecords, p = proc[a], NEW new \in ProcRecords,
         new.g = p.g, new.n = p.n, new.job = p.job
  PROVE  ProcKnown(new)
BY KnownNow DEF ProcKnown

LEMMA IdleFollows == ProcKnown(Idle) /\ ProcFollows(Idle)
  BY RecordFacts DEF ProcKnown, ProcFollows, Matched

LEMMA ResolveFollows ==
  ASSUME IInv, FollowInv, NEW a \in Actors, ResolveTrackedRepository(a)
  PROVE  FollowInv' /\ NothingLearnt
<1>1. PICK p, new \in ProcRecords, s, t \in {0} \cup RowIds : Resolves(a, p, new, s, t)
  BY Resolved
<1>2. /\ p = proc[a] /\ p.pc = "resolve" /\ ProcFollows(p) /\ p.g \in Repos /\ p.n \in FullNames /\ Goes(a, new)
      /\ UNCHANGED <<name, repo, tracked, jobs, inbox, served>>
      /\ new.g = p.g /\ new.n = p.n /\ new.known = p.known /\ new.job = p.job
      /\ s # 0 => s \in Live /\ p.known # NoOne /\ tracked[s].repo = p.known
      /\ t # 0 => t \in Live /\ tracked[t].name = p.n
      /\ new.row \in {s, t} /\ (new.pc = "merge" => new.nameId = t \/ p.then = "merge")
      /\ p.then # "merge"
  BY <1>1 DEF Resolves, FollowInv, ProcsFollow, ProcOK, ProcRecords
<1>3. RowOf(s, p.g, p.n)
  BY <1>2 DEF RowOf, ProcFollows
<1>4. RowOf(t, p.g, p.n)
  <2>1. CASE t # 0 /\ tracked[t].repo # NoOne
    <3>1. tracked[t].repo \in Repos /\ Knows(p.n, tracked[t].repo) /\ Knows(p.n, p.g)
      BY <1>2, <2>1, KnownNow DEF IInv, Types, RowRecords, Refs
    <3> QED
      BY <1>2, <2>1, <3>1 DEF RowOf, FollowInv, OneOwner
  <2>2. CASE t = 0 \/ tracked[t].repo = NoOne
    BY <1>2, <2>2 DEF RowOf
  <2> QED
    BY <2>1, <2>2
<1>5. ProcFollows(new)
  BY <1>2, <1>3, <1>4 DEF ProcFollows
<1>6. ProcKnown(new) /\ ReposKnown /\ InboxKnown
  BY <1>2, SameKnown, ReposKnownKept, InboxKnownKept
<1>7. NoneReleased' /\ ServedOK' /\ jobs' \subseteq jobs
  BY <1>2 DEF FollowInv, NoneReleased, ServedOK
<1> QED
  BY <1>2, <1>5, <1>6, <1>7, FollowOnly
-----------------------------------------------------------------------------
(* A row that is there is of one repository only.                          *)
LEMMA SameOwner ==
  ASSUME OneOwner, NEW t \in Live, NEW g \in Repos, NEW h \in Repos, NEW n \in FullNames, NEW m \in FullNames,
         RowOf(t, g, n), RowOf(t, h, m), Knows(n, g), Knows(m, h)
  PROVE  g = h
<1>1. t # 0 /\ tracked[t] # Absent /\ g # NoOne /\ h # NoOne
  BY RowIdsFacts, RecordFacts DEF Live
<1>2. CASE tracked[t].repo = NoOne
  <2>1. n = m
    BY <1>1, <1>2 DEF RowOf
  <2> QED
    BY <2>1 DEF OneOwner
<1>3. CASE tracked[t].repo # NoOne
  BY <1>1, <1>3 DEF RowOf
<1> QED
  BY <1>2, <1>3

(* The row found by a name that is known as the repository's.              *)
LEMMA NamedRowOf ==
  ASSUME IInv, OneOwner, NEW t \in Live, NEW g \in Repos, NEW n \in FullNames, tracked[t].name = n, Knows(n, g)
  PROVE  RowOf(t, g, n) /\ tracked[t].repo \in {NoOne, g}
<1>1. t \in RowIds
  BY RowIdsFacts
<1>2. CASE tracked[t].repo # NoOne
  <2>1. tracked[t].repo \in Repos /\ Knows(n, tracked[t].repo)
    BY <1>1, <1>2, KnownNow DEF IInv, Types, RowRecords, Refs
  <2> QED
    BY <2>1 DEF RowOf, OneOwner
<1>3. CASE tracked[t].repo = NoOne
  BY <1>3 DEF RowOf
<1> QED
  BY <1>2, <1>3

LEMMA MergeFollows ==
  ASSUME IInv, FollowInv, NEW a \in Actors, MergeTrackedRepositoryMatches(a)
  PROVE  FollowInv' /\ NothingLearnt
<1>0. OneOwner /\ Types /\ RowsOK
  BY DEF FollowInv, IInv
<1>1. PICK p, new \in ProcRecords, r \in RowRecords : Merges(a, p, new, r)
  BY Merged
<1>2. /\ p = proc[a] /\ ProcFollows(p) /\ p.pc = "merge" /\ p.g \in Repos /\ p.n \in FullNames /\ Goes(a, new)
      /\ p.row \in RowIds /\ p.nameId \in RowIds /\ p.nameId # p.row /\ p.row < nextRow /\ p.known \in Repos
      /\ UNCHANGED <<name, repo, inbox, served>>
  BY <1>1 DEF Merges, FollowInv, ProcsFollow, ProcOK, ProcRecords
<1>3. p.known = p.g /\ RowOf(p.row, p.g, p.n) /\ RowOf(p.nameId, p.g, p.n) /\ Knows(p.n, p.g) /\ p.g # NoOne
  BY <1>2, KnownNow, RecordFacts DEF ProcFollows, Matched
<1>4. /\ \A t \in RowIds : tracked'[t] = IF t = p.nameId THEN Absent
                                         ELSE IF t = p.row /\ p.row \in Live THEN r ELSE tracked[t]
      /\ Live' = Live \ {p.nameId} /\ r.name = p.n /\ r.repo = p.g
  BY <1>1, <1>3, Zenon DEF Merges
<1>5. RowsStable
  <2>1. ASSUME NEW t \in RowIds, NEW g \in Repos, NEW n \in FullNames, t < nextRow, Knows(n, g), RowOf(t, g, n)
        PROVE  RowOf(t, g, n)'
    <3>1. CASE t = p.nameId
      BY <1>4, <3>1 DEF RowOf
    <3>2. CASE t # p.nameId /\ ~(t = p.row /\ p.row \in Live)
      BY <1>4, <2>1, <3>2 DEF RowOf
    <3>3. CASE t # p.nameId /\ t = p.row /\ p.row \in Live
      <4>1. g = p.g
        BY <1>0, <1>2, <1>3, <2>1, <3>3, SameOwner
      <4>2. tracked'[t].repo = g
        BY <1>4, <3>3, <4>1
      <4> QED
        BY <4>2 DEF RowOf
    <3> QED
      BY <3>1, <3>2, <3>3
  <2> QED
    BY <2>1 DEF RowsStable
<1>6. RowsKnown
  <2>1. ASSUME NEW t \in Live' PROVE Knows(tracked'[t].name, tracked'[t].repo)
    <3>1. t \in Live /\ t \in RowIds /\ t # p.nameId
      BY <1>4, RowIdsFacts
    <3>2. CASE t = p.row
      BY <1>3, <1>4, <3>1, <3>2
    <3>3. CASE t # p.row
      <4>1. tracked'[t] = tracked[t]
        BY <1>4, <3>1, <3>3
      <4> QED
        BY <3>1, <4>1, KnownNow
    <3> QED
      BY <3>2, <3>3
  <2> QED
    BY <2>1 DEF RowsKnown
<1>7. RowOf(p.row, p.g, p.n)'
  BY <1>2, <1>3, <1>5 DEF RowsStable
<1>8. ASSUME NEW k \in jobs' PROVE Knows(k.name, k.for) /\ k.repo = k.for /\ RowOf(k.row, k.for, k.name)'
  <2>1. PICK j \in jobs :
          k = IF j.row \in {p.nameId, p.row} THEN [j EXCEPT !.row = p.row, !.repo = p.known, !.name = p.n] ELSE j
    BY <1>1 DEF Merges
  <2>2. /\ j \in JobRecords /\ j.row \in {0} \cup Live /\ j.repo = j.for /\ RowOf(j.row, j.for, j.name)
        /\ Knows(j.name, j.for) /\ j.for \in Repos /\ j.name \in FullNames
    BY KnownNow DEF IInv, Types, JobsOK, JobRecords, FollowInv, JobsFollow
  <2>3. CASE j.row \in {p.nameId, p.row}
    <3>1. j.row \in Live
      BY <1>2, <2>2, <2>3, RowIdsFacts
    <3>2. RowOf(j.row, p.g, p.n)
      BY <1>3, <2>3
    <3>3. j.for = p.g
      BY <1>0, <1>2, <1>3, <2>2, <3>1, <3>2, SameOwner
    <3>4. k.row = p.row /\ k.repo = p.known /\ k.name = p.n /\ k.for = j.for
      BY <2>1, <2>2, <2>3 DEF JobRecords
    <3> QED
      BY <1>3, <1>7, <3>3, <3>4
  <2>4. CASE j.row \notin {p.nameId, p.row}
    <3>1. k = j
      BY <2>1, <2>4
    <3>2. RowOf(j.row, j.for, j.name)'
      <4>1. CASE j.row = 0
        BY <4>1 DEF RowOf
      <4>2. CASE j.row \in Live
        <5>1. j.row \in RowIds /\ j.row < nextRow
          BY <1>0, <4>2, RowIdsFacts DEF RowsOK
        <5> QED
          BY <1>5, <2>2, <5>1 DEF RowsStable
      <4> QED
        BY <2>2, <4>1, <4>2
    <3> QED
      BY <2>2, <3>1, <3>2
  <2> QED
    BY <2>3, <2>4
<1>9. JobsKnown /\ JobsFollow'
  BY <1>8 DEF JobsKnown, JobsFollow
<1>10. /\ new.g = p.g /\ new.n = p.n /\ new.known = p.known /\ new.job = p.job /\ new.row = p.row
       /\ new.pc # "merge"
  BY <1>1 DEF Merges, ProcOK, ProcRecords
<1>11. ProcFollows(new)'
  BY <1>2, <1>7, <1>10 DEF ProcFollows
<1>12. ProcKnown(new) /\ ReposKnown /\ InboxKnown
  BY <1>2, <1>10, SameKnown, ReposKnownKept, InboxKnownKept
<1>13. NoneReleased' /\ ServedOK'
  BY <1>2 DEF FollowInv, NoneReleased, ServedOK
<1> QED
  BY <1>2, <1>5, <1>6, <1>9, <1>11, <1>12, <1>13, FollowStep DEF NothingLearnt

LEMMA TakeFollows ==
  ASSUME IInv, FollowInv, NEW w \in Workers, ProcessWebhookDelivery(w)
  PROVE  FollowInv' /\ NothingLearnt
<1>1. PICK d \in Deliveries, new \in ProcRecords : Takes(w, d, new)
  BY Taken
<1>2. d.g \in Repos /\ d.n \in FullNames /\ w \in Actors
  BY RecordFacts DEF Deliveries, Actors
<1>3. Knows(d.n, d.g)
  BY <1>1, KnownNow DEF Takes
<1>4. new.known \in {NoOne, d.g}
  <2>1. ASSUME new.known # NoOne, repo[new.known] = d.n PROVE new.known = d.g
    <3>1. new.known \in Repos
      BY <2>1 DEF ProcRecords, Refs
    <3>2. Knows(d.n, new.known)
      BY <2>1, <3>1, KnownNow
    <3> QED
      BY <1>2, <1>3, <3>1, <3>2 DEF FollowInv, OneOwner
  <2> QED
    BY <1>1, <2>1 DEF Takes
<1>5. ProcFollows(new) /\ ProcKnown(new)
  BY <1>1, <1>3, <1>4 DEF Takes, ProcFollows, ProcKnown, Matched
<1>6. InboxKnown
  BY <1>1, KnownNow DEF Takes, InboxKnown
<1>7. UNCHANGED <<name, repo, tracked, jobs, served>> /\ Goes(w, new)
  BY <1>1 DEF Takes
<1>8. ReposKnown /\ NoneReleased' /\ ServedOK' /\ jobs' \subseteq jobs
  BY <1>7, ReposKnownKept DEF FollowInv, NoneReleased, ServedOK
<1> QED
  BY <1>2, <1>5, <1>6, <1>7, <1>8, FollowOnly

(* Steps that write a row the actor may take for its repository's.         *)
LEMMA WriterFollows ==
  ASSUME IInv, FollowInv, NEW a \in Actors, NEW p \in ProcRecords, NEW new \in ProcRecords,
         NEW t \in RowIds, NEW r \in RowRecords, Writes(a, p, new, t, r), p.pc # "idle",
         r.repo \in {NoOne, p.g},
         \/ t \in Live /\ RowOf(t, p.g, p.n) /\ (tracked[t].repo # NoOne => r.repo # NoOne)
         \/ t = nextRow,
         \/ new = Idle
         \/ /\ new.g = p.g /\ new.n = p.n /\ new.known = p.known /\ new.job = p.job
            /\ new.pc # "merge" /\ (new.pc \in Matched => new.row = t)
  PROVE  FollowInv' /\ NothingLearnt
<1>1. /\ p = proc[a] /\ ProcFollows(p) /\ Goes(a, new) /\ r.name = p.n
      /\ UNCHANGED <<name, repo, inbox, jobs, served>> /\ tracked' = [tracked EXCEPT ![t] = r]
      /\ p.g \in Repos /\ p.n \in FullNames
  BY DEF Writes, FollowInv, ProcsFollow, ProcOK
<1>2. Knows(p.n, p.g)
  BY <1>1, KnownNow
<1>3. RowsStable /\ RowsKnown
  BY <1>1, <1>2, WriteStable DEF FollowInv
<1>4. tracked'[t] = r
  BY <1>1 DEF IInv, Types
<1>5. RowOf(t, p.g, p.n)'
  BY <1>1, <1>4 DEF RowOf
<1>6. ProcFollows(new)' /\ ProcKnown(new)
  <2>1. CASE new = Idle
    BY <2>1, IdleFollows, RecordFacts DEF ProcFollows, Matched
  <2>2. CASE new # Idle
    <3>1. ProcKnown(new)
      BY <1>1, <2>2, SameKnown
    <3>2. ProcFollows(new)'
      BY <1>1, <1>5, <2>2 DEF ProcFollows
    <3> QED
      BY <3>1, <3>2
  <2> QED
    BY <2>1, <2>2
<1>7. ReposKnown /\ InboxKnown /\ JobsKnown /\ jobs' \subseteq jobs
  BY <1>1, ReposKnownKept, InboxKnownKept, JobsKnownKept
<1>8. JobsFollow' /\ NoneReleased' /\ ServedOK'
  BY <1>1, <1>3, <1>7, JobsFollowKept DEF FollowInv, NoneReleased, ServedOK
<1> QED
  BY <1>1, <1>3, <1>6, <1>7, <1>8, FollowStep DEF NothingLearnt
LEMMA UpsertTrackedFollows ==
  ASSUME IInv, FollowInv, NEW w \in Workers, UpsertTracked(w)
  PROVE  FollowInv' /\ NothingLearnt
<1>1. PICK p, new \in ProcRecords, t \in RowIds, r \in RowRecords :
           /\ Writes(w, p, new, t, r) /\ p.pc = "upsert" /\ t \in Live
           /\ p.row # 0 => t = p.row
           /\ p.row = 0 => tracked[t].name = p.n
           /\ r.repo = (IF p.known = NoOne THEN tracked[t].repo ELSE p.known)
           /\ new.pc = "project" /\ new.row = t /\ new.g = p.g /\ new.n = p.n
           /\ new.known = p.known /\ new.job = p.job
  BY UpsertTrackedWrites
<1>2. p = proc[w] /\ ProcFollows(p) /\ w \in Actors /\ p.g \in Repos /\ p.n \in FullNames /\ Knows(p.n, p.g)
  BY <1>1, KnownNow DEF Writes, ProcOK, FollowInv, ProcsFollow, Actors
<1>3. RowOf(t, p.g, p.n)
  <2>1. CASE p.row # 0
    BY <1>1, <1>2, <2>1 DEF ProcFollows, Matched
  <2>2. CASE p.row = 0
    BY <1>1, <1>2, <2>2, NamedRowOf DEF FollowInv
  <2> QED
    BY <2>1, <2>2
<1>4. tracked[t].repo \in {NoOne, p.g}
  BY <1>1, <1>3, RowIdsFacts DEF RowOf, Live
<1>5. r.repo \in {NoOne, p.g} /\ (tracked[t].repo # NoOne => r.repo # NoOne)
  BY <1>1, <1>2, <1>4 DEF ProcFollows
<1> QED
  BY <1>1, <1>2, <1>3, <1>5, WriterFollows

LEMMA InsertTrackedFollows ==
  ASSUME IInv, FollowInv, NEW w \in Workers, InsertTracked(w)
  PROVE  FollowInv' /\ NothingLearnt
<1>1. PICK p, new \in ProcRecords, r \in RowRecords :
           /\ nextRow \in RowIds /\ Writes(w, p, new, nextRow, r) /\ p.pc = "upsert"
           /\ r.repo = p.known
           /\ new.pc = "project" /\ new.row = nextRow /\ new.g = p.g /\ new.n = p.n
           /\ new.known = p.known /\ new.job = p.job
  BY InsertTrackedWrites
<1>2. p = proc[w] /\ ProcFollows(p) /\ w \in Actors
  BY <1>1 DEF Writes, FollowInv, ProcsFollow, Actors
<1>3. r.repo \in {NoOne, p.g}
  BY <1>1, <1>2 DEF ProcFollows
<1>4. PICK t \in RowIds : t = nextRow
  BY <1>1
<1>5. Writes(w, p, new, t, r) /\ new.row = t /\ new.pc # "merge" /\ p.pc # "idle"
  BY <1>1, <1>4
<1> QED
  BY <1>1, <1>2, <1>3, <1>4, <1>5, WriterFollows

LEMMA ProjectFollows ==
  ASSUME IInv, FollowInv, NEW w \in Workers, ProjectRepository(w)
  PROVE  FollowInv' /\ NothingLearnt
<1>1. PICK p, new \in ProcRecords : Projects(w, p, new)
  BY Projected
<1>2. /\ p = proc[w] /\ ProcOK(w, p) /\ p.pc = "project" /\ ProcFollows(p) /\ w \in Actors /\ w # Reader
      /\ Goes(w, new) /\ UNCHANGED <<name, tracked, inbox, jobs, served>>
  BY <1>1, ConstantsAssumption DEF Projects, FollowInv, ProcsFollow, Actors
<1>3. p.g \in Repos /\ p.n \in Names /\ Knows(p.n, p.g)
  BY <1>2, KnownNow DEF ProcOK
<1>4. ReposKnown /\ NoneReleased' /\ ProcKnown(new) /\ ProcFollows(new)
  <2>1. CASE repo' = repo /\ new = Idle
    BY <2>1, ReposKnownKept, IdleFollows DEF FollowInv, NoneReleased
  <2>2. CASE /\ repo' = Claimed(p.g, p.n)
             /\ new.pc = "state" /\ new.row = p.row /\ new.g = p.g /\ new.n = p.n
             /\ new.known = p.known /\ new.job = p.job
    <3>1. ReposKnown /\ NoneReleased'
      BY <1>3, <2>2, ClaimFollows DEF FollowInv
    <3>2. ProcKnown(new)
      BY <1>2, <2>2, SameKnown
    <3>3. ProcFollows(new)
      BY <1>2, <2>2 DEF ProcFollows, Matched
    <3> QED
      BY <3>1, <3>2, <3>3
  <2> QED
    BY <1>1, <2>1, <2>2 DEF Projects
<1>5. InboxKnown /\ ServedOK' /\ jobs' \subseteq jobs
  BY <1>2, InboxKnownKept DEF FollowInv, ServedOK
<1> QED
  BY <1>2, <1>4, <1>5, FollowOnly

LEMMA UpdateProjectionStateFollows ==
  ASSUME IInv, FollowInv, NEW w \in Workers, UpdateProjectionState(w)
  PROVE  FollowInv' /\ NothingLearnt
<1>1. PICK p \in ProcRecords :
           /\ p = proc[w] /\ p.pc = "state" /\ Goes(w, Idle)
           /\ \/ UNCHANGED <<name, repo, tracked, nextRow, inbox, jobs, crossed, served>>
              \/ \E r \in RowRecords :
                    /\ Writes(w, p, Idle, p.row, r) /\ p.row \in Live /\ p.row \in RowIds
                    /\ r.repo \in {p.g, tracked[p.row].repo}
  BY UpdateProjectionStateWrites
<1>2. w \in Actors /\ Idle \in ProcRecords /\ ProcFollows(p) /\ p.pc # "idle"
  BY <1>1, RecordFacts DEF Actors, FollowInv, ProcsFollow
<1>3. CASE UNCHANGED <<name, repo, tracked, nextRow, inbox, jobs, crossed, served>>
  <2>1. ReposKnown /\ InboxKnown /\ NoneReleased' /\ ServedOK' /\ jobs' \subseteq jobs
    BY <1>3, ReposKnownKept, InboxKnownKept DEF FollowInv, NoneReleased, ServedOK
  <2> QED
    BY <1>1, <1>2, <1>3, <2>1, IdleFollows, FollowOnly
<1>4. ASSUME NEW r \in RowRecords, Writes(w, p, Idle, p.row, r), p.row \in Live, p.row \in RowIds,
             r.repo \in {p.g, tracked[p.row].repo}
      PROVE  FollowInv' /\ NothingLearnt
  <2>1. RowOf(p.row, p.g, p.n) /\ p.g # NoOne
    BY <1>1, <1>2, <1>4, RecordFacts DEF ProcFollows, Matched, Writes, ProcOK
  <2>2. tracked[p.row].repo \in {NoOne, p.g}
    BY <1>4, <2>1, RowIdsFacts DEF RowOf, Live
  <2>3. r.repo \in {NoOne, p.g} /\ (tracked[p.row].repo # NoOne => r.repo # NoOne)
    BY <1>4, <2>1, <2>2
  <2>4. PICK t \in RowIds : t = p.row
    BY <1>4
  <2>5. Writes(w, p, Idle, t, r) /\ t \in Live /\ RowOf(t, p.g, p.n) /\ (tracked[t].repo # NoOne => r.repo # NoOne)
    BY <1>4, <2>1, <2>3, <2>4
  <2> QED
    BY <1>1, <1>2, <2>3, <2>5, WriterFollows
<1> QED
  BY <1>1, <1>3, <1>4

LEMMA FailFollows ==
  ASSUME IInv, FollowInv, NEW w \in Workers, DeliveryFails(w)
  PROVE  FollowInv' /\ NothingLearnt
<1>1. PICK p \in ProcRecords, d \in Deliveries :
           /\ p = proc[w] /\ Goes(w, Idle) /\ inbox' = Append(inbox, d)
           /\ d.g = p.g /\ d.n = p.n
           /\ UNCHANGED <<name, repo, tracked, nextRow, off, crossed, jobs, served>>
  BY Failed
<1>2. w \in Actors /\ Idle \in ProcRecords
  BY RecordFacts DEF Actors
<1>3. InboxKnown
  <2>1. Knows(d.n, d.g)
    BY <1>1, <1>2, KnownNow
  <2>2. \A i \in DOMAIN inbox' : inbox'[i] = d \/ \E k \in DOMAIN inbox : inbox'[i] = inbox[k]
    BY <1>1, AppendedFrom DEF IInv, Types
  <2> QED
    BY <2>1, <2>2, KnownNow DEF InboxKnown
<1>4. ReposKnown /\ NoneReleased' /\ ServedOK' /\ jobs' \subseteq jobs
  BY <1>1, ReposKnownKept DEF FollowInv, NoneReleased, ServedOK
<1> QED
  BY <1>1, <1>2, <1>3, <1>4, IdleFollows, FollowOnly
(* The repository of a job is the one it was requested for.                *)
LEMMA JobsOwner ==
  ASSUME IInv, FollowInv, NEW j \in JobRecords, Knows(j.name, j.for), j.repo = j.for,
         NEW h \in Repos, repo[h] = j.name \/ h = j.repo
  PROVE  h = j.for
<1>1. j.for \in Repos /\ j.name \in FullNames
  BY DEF JobRecords
<1>2. repo[h] = j.name => Knows(j.name, h)
  BY KnownNow
<1> QED
  BY <1>1, <1>2 DEF FollowInv, OneOwner

LEMMA StartFollows ==
  ASSUME IInv, FollowInv, NEW new \in ProcRecords, Starts(new), jobs' \subseteq jobs, ServedOK',
         new.job # NoOne => new.job.repo = new.job.for /\ new.job.for = new.g /\ Knows(new.job.name, new.job.for)
  PROVE  FollowInv' /\ NothingLearnt
<1>1. /\ Goes(Reader, new) /\ UNCHANGED <<name, repo, tracked, inbox>>
      /\ new.pc = "claim" /\ new.known = NoOne /\ new.g \in Repos /\ new.n = name[new.g]
  BY DEF Starts
<1>2. ProcKnown(new) /\ ProcFollows(new)
  BY <1>1, KnownNow DEF ProcKnown, ProcFollows, Matched
<1>3. ReposKnown /\ NoneReleased' /\ InboxKnown
  BY <1>1, ReposKnownKept, InboxKnownKept DEF FollowInv, NoneReleased
<1> QED
  BY <1>1, <1>2, <1>3, ReaderActs, FollowOnly

LEMMA StartJobFollows ==
  ASSUME IInv, FollowInv, NEW j \in jobs, StartJob(j)
  PROVE  FollowInv' /\ NothingLearnt
<1>1. PICK new \in ProcRecords, h \in Repos :
           /\ Starts(new) /\ jobs' = jobs \ {j} /\ new.job = j /\ j \in JobRecords
           /\ (repo[h] = j.name \/ h = j.repo) /\ Stored(h)
           /\ new.g = h \/ name[new.g] = Locator(h)
           /\ served' = served \cup {[for |-> j.for, fetched |-> new.g]}
  BY JobStarted
<1>2. j.repo = j.for /\ Knows(j.name, j.for)
  BY KnownNow DEF FollowInv, JobsFollow
<1>3. h = j.for
  BY <1>1, <1>2, JobsOwner
<1>4. new.g = h
  <2>1. repo[h] \in Names
    BY <1>1 DEF IInv, Types, FollowInv, NoneReleased, Stored, FullNames
  <2>2. Locator(h) = repo[h]
    BY <2>1 DEF Locator
  <2>3. new.g \in Repos
    BY <1>1 DEF Starts
  <2>4. name[new.g] = repo[h] => Knows(repo[h], new.g) /\ Knows(repo[h], h)
    BY <2>3, KnownNow
  <2> QED
    BY <1>1, <2>1, <2>2, <2>3, <2>4, RecordFacts DEF FollowInv, OneOwner
<1>5. ServedOK'
  BY <1>1, <1>3, <1>4 DEF FollowInv, ServedOK
<1>6. /\ jobs' \subseteq jobs
      /\ new.job.repo = new.job.for /\ new.job.for = new.g /\ Knows(new.job.name, new.job.for)
  BY <1>1, <1>2, <1>3, <1>4
<1> QED
  BY <1>1, <1>5, <1>6, StartFollows

LEMMA StartSyncFollows ==
  ASSUME IInv, FollowInv, NEW g \in Repos, StartSync(g)
  PROVE  FollowInv' /\ NothingLearnt
<1>1. PICK new \in ProcRecords : Starts(new) /\ UNCHANGED <<jobs, served>> /\ new.job = NoOne
  BY SyncStarted
<1>2. jobs' \subseteq jobs /\ ServedOK'
  BY <1>1 DEF FollowInv, ServedOK
<1> QED
  BY <1>1, <1>2, StartFollows

LEMMA GoesToResolveFollows ==
  ASSUME IInv, FollowInv, NEW p \in ProcRecords, NEW new \in ProcRecords, GoesToResolve(p, new),
         ReposKnown, NoneReleased', new.g = p.g, new.g \in Repos => Knows(new.n, new.g)
  PROVE  FollowInv' /\ NothingLearnt
<1>1. /\ p = proc[Reader] /\ ProcFollows(p) /\ Goes(Reader, new)
      /\ UNCHANGED <<name, tracked, inbox, jobs, served>>
      /\ new.pc = "resolve" /\ new.known = new.g /\ new.job = p.job
  BY ReaderActs DEF GoesToResolve, FollowInv, ProcsFollow
<1>2. ProcKnown(new) /\ ProcFollows(new)
  BY <1>1, KnownNow, ReaderActs DEF ProcKnown, ProcFollows, Matched
<1>3. InboxKnown /\ ServedOK' /\ jobs' \subseteq jobs
  BY <1>1, InboxKnownKept DEF FollowInv, ServedOK
<1> QED
  BY <1>1, <1>2, <1>3, ReaderActs, FollowOnly

LEMMA UpsertRepositoryFollows ==
  ASSUME IInv, FollowInv, UpsertRepository
  PROVE  FollowInv' /\ NothingLearnt
<1>1. PICK p, new \in ProcRecords :
           /\ GoesToResolve(p, new) /\ p.pc = "claim" /\ repo' = Claimed(p.g, p.n)
           /\ new.g = p.g /\ new.n = p.n
  BY RepositoryUpserted
<1>2. p.g \in Repos /\ p.n \in Names /\ Knows(p.n, p.g)
  BY <1>1, KnownNow, ReaderActs DEF GoesToResolve, ProcOK
<1>3. ReposKnown /\ NoneReleased'
  BY <1>1, <1>2, ClaimFollows DEF FollowInv
<1> QED
  BY <1>1, <1>2, <1>3, GoesToResolveFollows

LEMMA KeepPolicyFollows ==
  ASSUME IInv, FollowInv, KeepPolicy
  PROVE  FollowInv' /\ NothingLearnt
<1>1. PICK p, new \in ProcRecords :
           GoesToResolve(p, new) /\ UNCHANGED repo /\ new.g = p.g /\ new.n = p.n
  BY PolicyKeeps
<1>2. Knows(p.n, p.g)
  BY <1>1, KnownNow, ReaderActs DEF GoesToResolve
<1>3. ReposKnown /\ NoneReleased'
  BY <1>1, ReposKnownKept DEF FollowInv, NoneReleased
<1> QED
  BY <1>1, <1>2, <1>3, GoesToResolveFollows

LEMMA MarkJobSucceededFollows ==
  ASSUME IInv, FollowInv, MarkJobSucceeded
  PROVE  FollowInv' /\ NothingLearnt
<1>1. PICK p, new \in ProcRecords :
           /\ GoesToResolve(p, new) /\ p.pc = "succeed" /\ UNCHANGED repo /\ p.job \in JobRecords
           /\ new.g \in Repos /\ (repo[new.g] = p.job.name \/ new.g = p.job.repo)
           /\ new.n = repo[new.g]
  BY JobSucceeded
<1>2. p.job # NoOne /\ ProcFollows(p) /\ (p.job # NoOne => Knows(p.job.name, p.job.for))
  BY <1>1, KnownNow, ReaderActs DEF GoesToResolve, ProcOK, FollowInv, ProcsFollow
<1>3. p.job.repo = p.job.for /\ p.job.for = p.g
  BY <1>2 DEF ProcFollows
<1>4. new.g = p.g
  BY <1>1, <1>2, <1>3, JobsOwner
<1>5. ReposKnown /\ NoneReleased' /\ Knows(new.n, new.g)
  BY <1>1, ReposKnownKept, KnownNow DEF FollowInv, NoneReleased
<1> QED
  BY <1>1, <1>4, <1>5, GoesToResolveFollows

LEMMA UpsertTrackedRepositoryFollows ==
  ASSUME IInv, FollowInv, UpsertTrackedRepository
  PROVE  FollowInv' /\ NothingLearnt
<1>1. PICK p, new \in ProcRecords : TrackedUpserted(p, new)
  BY UpsertTrackedRepositoryWrites
<1>2. /\ p = proc[Reader] /\ ProcOK(Reader, p) /\ ProcFollows(p) /\ p.pc = "upsert" /\ Goes(Reader, new)
      /\ p.g \in Repos /\ p.n \in FullNames /\ Knows(p.n, p.g)
      /\ UNCHANGED <<name, repo, inbox, jobs, served>>
  BY <1>1, KnownNow, ReaderActs DEF TrackedUpserted, ProcOK, FollowInv, ProcsFollow
<1>3. \/ new = Idle
      \/ /\ new.pc = "succeed" /\ new.g = p.g /\ new.n = p.n /\ new.known = p.known /\ new.job = p.job
  BY <1>1 DEF TrackedUpserted
<1>4. ProcKnown(new) /\ ProcFollows(new)
  <2>1. CASE new = Idle
    BY <2>1, IdleFollows
  <2>2. CASE new # Idle
    BY <1>2, <1>3, <2>2, ReaderActs, SameKnown DEF ProcFollows, Matched
  <2> QED
    BY <2>1, <2>2
<1>5. CASE UNCHANGED <<tracked, nextRow>>
  <2>1. ReposKnown /\ NoneReleased' /\ InboxKnown /\ ServedOK' /\ jobs' \subseteq jobs
    BY <1>2, ReposKnownKept, InboxKnownKept DEF FollowInv, NoneReleased, ServedOK
  <2> QED
    BY <1>2, <1>4, <1>5, <2>1, ReaderActs, FollowOnly
<1>6. ASSUME NEW t \in RowIds, NEW r \in RowRecords,
             /\ Writes(Reader, p, new, t, r) /\ r.repo = p.g
             /\ p.row # 0 => t = p.row /\ t \in Live
             /\ p.row = 0 => t = nextRow \/ tracked[t].name = p.n
             /\ t \notin Live => t = nextRow /\ nextRow' = nextRow + 1
      PROVE  FollowInv' /\ NothingLearnt
  <2>1. CASE t \in Live
    <3>1. RowOf(t, p.g, p.n)
      <4>1. CASE p.row # 0
        BY <1>2, <1>6, <4>1 DEF ProcFollows, Matched
      <4>2. CASE p.row = 0
        <5>1. t # nextRow
          BY <2>1, ConstantsAssumption DEF IInv, RowsOK, Types
        <5> QED
          BY <1>2, <1>6, <2>1, <4>2, <5>1, NamedRowOf DEF FollowInv
      <4> QED
        BY <4>1, <4>2
    <3>2. r.repo # NoOne
      BY <1>2, <1>6, RecordFacts
    <3> QED
      BY <1>2, <1>3, <1>6, <2>1, <3>1, <3>2, ReaderActs, WriterFollows DEF Matched
  <2>2. CASE t \notin Live
    BY <1>2, <1>3, <1>6, <2>2, ReaderActs, WriterFollows DEF Matched
  <2> QED
    BY <2>1, <2>2
<1> QED
  BY <1>1, <1>5, <1>6 DEF TrackedUpserted

LEMMA MarkBackfilledFollows ==
  ASSUME IInv, FollowInv, MarkBackfilled
  PROVE  FollowInv' /\ NothingLearnt
<1>1. PICK p \in ProcRecords :
           /\ p = proc[Reader] /\ ProcOK(Reader, p) /\ p.pc = "state" /\ Goes(Reader, Idle)
           /\ \/ UNCHANGED <<name, repo, tracked, nextRow, inbox, jobs, crossed, served>>
              \/ \E r \in RowRecords :
                    /\ Writes(Reader, p, Idle, p.row, r) /\ p.row \in Live /\ p.row \in RowIds
                    /\ r.repo = p.g
  BY MarkBackfilledWrites
<1>2. Idle \in ProcRecords /\ ProcFollows(p) /\ p.pc # "idle" /\ p.g \in Repos /\ p.g # NoOne
  BY <1>1, RecordFacts, ReaderActs DEF FollowInv, ProcsFollow, ProcOK
<1>3. CASE UNCHANGED <<name, repo, tracked, nextRow, inbox, jobs, crossed, served>>
  <2>1. ReposKnown /\ InboxKnown /\ NoneReleased' /\ ServedOK' /\ jobs' \subseteq jobs
    BY <1>3, ReposKnownKept, InboxKnownKept DEF FollowInv, NoneReleased, ServedOK
  <2> QED
    BY <1>1, <1>2, <1>3, <2>1, ReaderActs, IdleFollows, FollowOnly
<1>4. ASSUME NEW r \in RowRecords, Writes(Reader, p, Idle, p.row, r), p.row \in Live, p.row \in RowIds,
             r.repo = p.g
      PROVE  FollowInv' /\ NothingLearnt
  <2>1. RowOf(p.row, p.g, p.n)
    BY <1>1, <1>2 DEF ProcFollows, Matched
  <2>2. PICK t \in RowIds : t = p.row
    BY <1>4
  <2>3. /\ Writes(Reader, p, Idle, t, r) /\ t \in Live /\ RowOf(t, p.g, p.n)
        /\ tracked[t].repo # NoOne => r.repo # NoOne
    BY <1>2, <1>4, <2>1, <2>2
  <2> QED
    BY <1>2, <1>4, <2>3, ReaderActs, WriterFollows
<1> QED
  BY <1>1, <1>3, <1>4

LEMMA ReadFailsFollows ==
  ASSUME IInv, FollowInv, ReadFails
  PROVE  FollowInv' /\ NothingLearnt
<1>1. Goes(Reader, Idle) /\ UNCHANGED <<name, repo, tracked, nextRow, off, crossed, jobs, inbox, served>>
  BY DEF ReadFails, outside, rows, history
<1>2. ReposKnown /\ NoneReleased' /\ InboxKnown /\ ServedOK' /\ jobs' \subseteq jobs /\ Idle \in ProcRecords
  BY <1>1, RecordFacts, ReposKnownKept, InboxKnownKept DEF FollowInv, NoneReleased, ServedOK
<1> QED
  BY <1>1, <1>2, IdleFollows, ReaderActs, FollowOnly

(* The switch leaves names and repositories of the rows alone.             *)
LEMMA TurnOffFollows ==
  ASSUME IInv, FollowInv, NEW g \in Repos, TurnOff(g)
  PROVE  FollowInv' /\ NothingLearnt
<1>1. /\ UNCHANGED <<name, repo, jobs, inbox, proc, served>> /\ Live' = Live
      /\ \A t \in RowIds : /\ tracked'[t].name = tracked[t].name /\ tracked'[t].repo = tracked[t].repo
                           /\ tracked[t] = Absent <=> tracked'[t] = Absent
  BY TurnedOff
<1>2. RowsStable
  BY <1>1 DEF RowsStable, RowOf
<1>3. RowsKnown
  BY <1>1, KnownNow, RowIdsFacts DEF RowsKnown
<1>4. ReposKnown /\ JobsKnown /\ InboxKnown /\ ProcsKnown
  BY <1>1, ReposKnownKept, JobsKnownKept, InboxKnownKept, ProcsKnownKept
<1>5. OneOwner' /\ NothingLearnt
  BY <1>1, <1>3, <1>4, OwnersKept DEF FollowInv, NothingLearnt
<1>6. ProcsFollow' /\ JobsFollow'
  BY <1>1, <1>2, ProcsFollowKept, JobsFollowKept DEF FollowInv
<1>7. NoneReleased' /\ ServedOK'
  BY <1>1 DEF FollowInv, NoneReleased, ServedOK
<1> QED
  BY <1>5, <1>6, <1>7 DEF FollowInv
-----------------------------------------------------------------------------
LEMMA InitOwners ==
  ASSUME Init
  PROVE  /\ \A n \in FullNames, g \in Repos : Knows(n, g) => n = name[g]
         /\ \A g, h \in Repos : name[g] = name[h] => g = h
         /\ jobs = {} /\ served = {} /\ proc = [a \in Actors |-> Idle] /\ crossed = FALSE
<1>1. /\ \A g, h \in Repos : name[g] = name[h] => g = h
      /\ jobs = {} /\ served = {} /\ proc = [a \in Actors |-> Idle] /\ crossed = FALSE /\ inbox = <<>>
  BY Zenon DEF Init
<1>2. /\ \A g \in Repos : repo[g] = name[g] \/ repo[g] = NoOne
      /\ \A t \in Live : \E g \in Repos : tracked[t].name = name[g] /\ tracked[t].repo = g
  BY InitTables
<1>3. ASSUME NEW n \in FullNames, NEW g \in Repos, Knows(n, g) PROVE n = name[g]
  <2>1. n # NoOne
    BY RecordFacts
  <2>2. \A i \in DOMAIN inbox : FALSE
    BY <1>1
  <2>3. \A a \in Actors : proc[a] = Idle
    BY <1>1
  <2>4. \A a \in Actors : proc[a].n # n /\ proc[a].job = NoOne
    BY <2>1, <2>3, RecordFacts
  <2> QED
    BY <1>1, <1>2, <1>3, <2>1, <2>2, <2>4 DEF Knows
<1> QED
  BY <1>1, <1>3

LEMMA InitFollowInv == Init => FollowInv
<1> SUFFICES ASSUME Init PROVE FollowInv
  OBVIOUS
<1>1. OneOwner
  BY InitOwners DEF OneOwner
<1>2. NoneReleased
  <2>1. \A g \in Repos : repo[g] = name[g] \/ repo[g] = NoOne
    BY InitTables
  <2>2. Types
    BY InitIInv DEF IInv
  <2> QED
    BY <2>1, <2>2, ConstantsAssumption DEF NoneReleased, Types
<1>3. ProcsFollow
  <2>1. \A a \in Actors : proc[a] = Idle
    BY InitOwners
  <2> QED
    BY <2>1, IdleFollows DEF ProcsFollow
<1>4. JobsFollow /\ ServedOK
  BY InitOwners DEF JobsFollow, ServedOK
<1> QED
  BY <1>1, <1>2, <1>3, <1>4 DEF FollowInv

LEMMA StutterFollows ==
  ASSUME FollowInv, UNCHANGED vars
  PROVE  FollowInv' /\ NothingLearnt
<1>1. UNCHANGED <<name, repo, tracked, jobs, inbox, proc, served>>
  BY DEF vars
<1>2. Live' = Live
  BY <1>1, LiveKept
<1>3. NothingLearnt
  BY <1>1, <1>2 DEF NothingLearnt, Knows
<1>4. OneOwner'
  BY <1>3 DEF FollowInv, OneOwner, NothingLearnt
<1>5. NoneReleased' /\ ProcsFollow' /\ JobsFollow' /\ ServedOK'
  BY <1>1 DEF FollowInv, NoneReleased, ProcsFollow, ProcFollows, Matched, JobsFollow, ServedOK, RowOf
<1> QED
  BY <1>4, <1>5, <1>3 DEF FollowInv

(* A rename that crosses ends what is promised.                            *)
LEMMA CrossedStays ==
  ASSUME IInv, [Next]_vars, ~crossed'
  PROVE  ~crossed
<1>0. crossed \in BOOLEAN
  BY DEF IInv, Types
<1>1. ASSUME NEW g \in Repos, NEW n \in Names, Rename(g, n) PROVE ~crossed
  BY <1>0, <1>1, Zenon DEF Rename
<1>2. ASSUME UNCHANGED crossed PROVE ~crossed
  BY <1>2
<1>3. CASE UNCHANGED vars
  BY <1>3, <1>2 DEF vars
<1>4. CASE Next
  BY <1>1, <1>2, <1>4, ZenonT(60)
     DEF Next, HandleWebhook, EnqueueRepositoryRefresh, StartSync, ResolveTrackedRepository,
         MergeTrackedRepositoryMatches, ProcessWebhookDelivery, UpsertTracked, InsertTracked,
         ProjectRepository, UpdateProjectionState, DeliveryFails, StartJob, UpsertRepository, KeepPolicy,
         UpsertTrackedRepository, MarkJobSucceeded, MarkBackfilled, ReadFails, TurnOff, outside
<1> QED
  BY <1>3, <1>4

LEMMA NextFollowInv ==
  ASSUME IInv, FollowInv, [Next]_vars, ~crossed'
  PROVE  FollowInv'
<1>1. CASE UNCHANGED vars
  BY <1>1, StutterFollows
<1>2. ASSUME NEW g \in Repos, NEW n \in Names, Rename(g, n) PROVE FollowInv'
  BY <1>2, RenameFollows
<1>3. ASSUME NEW g \in Repos, NEW event \in Events, HandleWebhook(g, event) PROVE FollowInv'
  BY <1>3, HandleWebhookFollows
<1>4. ASSUME NEW g \in Repos, EnqueueRepositoryRefresh(g) \/ StartSync(g) \/ TurnOff(g) PROVE FollowInv'
  BY <1>4, EnqueueFollows, StartSyncFollows, TurnOffFollows
<1>5. ASSUME NEW a \in Actors, ResolveTrackedRepository(a) \/ MergeTrackedRepositoryMatches(a) PROVE FollowInv'
  BY <1>5, ResolveFollows, MergeFollows
<1>6. ASSUME NEW w \in Workers,
             \/ ProcessWebhookDelivery(w) \/ UpsertTracked(w) \/ InsertTracked(w)
             \/ ProjectRepository(w) \/ UpdateProjectionState(w) \/ DeliveryFails(w)
      PROVE  FollowInv'
  BY <1>6, TakeFollows, UpsertTrackedFollows, InsertTrackedFollows, ProjectFollows,
     UpdateProjectionStateFollows, FailFollows
<1>7. ASSUME NEW j \in jobs, StartJob(j) PROVE FollowInv'
  BY <1>7, StartJobFollows
<1>8. ASSUME \/ UpsertRepository \/ KeepPolicy \/ UpsertTrackedRepository
             \/ MarkJobSucceeded \/ MarkBackfilled \/ ReadFails
      PROVE  FollowInv'
  BY <1>8, UpsertRepositoryFollows, KeepPolicyFollows, UpsertTrackedRepositoryFollows,
     MarkJobSucceededFollows, MarkBackfilledFollows, ReadFailsFollows
<1> QED
  BY <1>1, <1>2, <1>3, <1>4, <1>5, <1>6, <1>7, <1>8, Zenon DEF Next, Events

(* As long as nobody takes a name that is still known as another's, a      *)
(* name stands for one repository wherever the code keeps one, and an      *)
(* actor works on rows of its own repository.                              *)
THEOREM Followed == Spec => [](~crossed => FollowInv)
<1>1. Init => (~crossed => FollowInv)
  BY InitFollowInv
<1>2. IInv /\ (~crossed => FollowInv) /\ [Next]_vars => (~crossed => FollowInv)'
  <2> SUFFICES ASSUME IInv, ~crossed => FollowInv, [Next]_vars, ~crossed' PROVE FollowInv'
    OBVIOUS
  <2>1. ~crossed
    BY CrossedStays
  <2> QED
    BY <2>1, NextFollowInv
<1> QED
  BY <1>1, <1>2, Invariant, PTL DEF Spec

(* JobsFollowRenames: resolveRepositoryForJob leads every refresh job to   *)
(* the repository it was requested for, and no merge of tracked rows gives *)
(* a waiting job to another one.                                           *)
THEOREM JobsFollowed == Spec => []JobsFollowRenames
<1>1. (~crossed => FollowInv) => JobsFollowRenames
  BY DEF FollowInv, ServedOK, JobsFollow, JobsFollowRenames
<1> QED
  BY <1>1, Followed, PTL
-----------------------------------------------------------------------------
(* A repository that is turned off has one row, which is off, no nameless  *)
(* row has one of its names, and nobody is about to turn it on.            *)
OffRow(t, g) == t \in Live /\ tracked[t].repo = g /\ ~tracked[t].enabled

OffKept ==
    \A g \in off :
        /\ \E t \in Live : OffRow(t, g) /\ \A u \in Live : tracked[u].repo = g => u = t
        /\ \A t \in Live, n \in FullNames : tracked[t].repo = NoOne /\ tracked[t].name = n => ~Knows(n, g)

LeavesOff(a, p) ==
    p.g \in off =>
        /\ p.pc \notin {"idle", "claim"} => p.known = p.g
        /\ p.pc \notin {"merge", "gone"}
        /\ p.pc \in Matched => OffRow(p.row, p.g)
        /\ p.pc \in {"policy", "project"} => ~p.copy.enabled
        /\ a = Reader /\ (p.pc = "upsert" \/ p.then = "upsert") => p.job # NoOne \/ ~p.policy
        /\ a # Reader => p.pc # "state"

OffInv == OffKept /\ \A a \in Actors : LeavesOff(a, proc[a])

(* What a step does to the rows of the repositories that stay off.         *)
OffRowsKept ==
    \A g \in off' :
        /\ \A t \in RowIds : OffRow(t, g) => OffRow(t, g)'
        /\ \A t \in Live' : tracked'[t].repo = g => t \in Live /\ tracked[t].repo = g
        /\ \A t \in Live', n \in FullNames :
               tracked'[t].repo = NoOne /\ tracked'[t].name = n => ~Knows(n, g)

LEMMA OffRowsSame ==
  ASSUME OffKept, off' \subseteq off, UNCHANGED tracked
  PROVE  OffRowsKept
<1>1. Live' = Live
  BY LiveKept
<1> QED
  BY <1>1 DEF OffKept, OffRowsKept, OffRow

LEMMA OffStep ==
  ASSUME IInv, OffInv, NothingLearnt, NEW a \in Actors, NEW new \in ProcRecords, Goes(a, new),
         off' \subseteq off, OffRowsKept, LeavesOff(a, new)'
  PROVE  OffInv'
<1>0. proc'[a] = new /\ \A b \in Actors \ {a} : proc'[b] = proc[b]
  BY DEF IInv, Types, Goes
<1>1. /\ \A t \in RowIds, g \in off' : OffRow(t, g) => OffRow(t, g)'
      /\ \A t \in Live', g \in off' : tracked'[t].repo = g => t \in Live /\ tracked[t].repo = g
      /\ \A t \in Live', g \in off', n \in FullNames :
             tracked'[t].repo = NoOne /\ tracked'[t].name = n => ~Knows(n, g)
  BY Zenon DEF OffRowsKept
<1>2. ASSUME NEW g \in off'
      PROVE  \E t \in Live' : OffRow(t, g)' /\ \A u \in Live' : tracked'[u].repo = g => u = t
  <2>1. PICK t \in Live : OffRow(t, g) /\ \A u \in Live : tracked[u].repo = g => u = t
    BY DEF OffInv, OffKept
  <2>2. OffRow(t, g)'
    BY <1>1, <2>1, RowIdsFacts
  <2>3. t \in Live'
    BY <2>2 DEF OffRow
  <2>4. \A u \in Live' : tracked'[u].repo = g => u = t
    BY <1>1, <2>1
  <2> QED
    BY <2>2, <2>3, <2>4
<1>3. ASSUME NEW g \in off', NEW t \in Live', NEW n \in FullNames,
             tracked'[t].repo = NoOne, tracked'[t].name = n
      PROVE  ~Knows(n, g)'
  <2>1. g \in Repos /\ ~Knows(n, g)
    BY <1>1, <1>3 DEF IInv, Types
  <2> QED
    BY <2>1 DEF NothingLearnt
<1>4. OffKept'
  BY <1>2, <1>3 DEF OffKept
<1>5. ASSUME NEW b \in Actors PROVE LeavesOff(b, proc[b])'
  <2>1. CASE b = a
    BY <1>0, <2>1
  <2>2. CASE b # a
    <3>1. PICK p \in ProcRecords : p = proc[b]
      BY ActorRecord
    <3>2. LeavesOff(b, p) /\ p.row \in {0} \cup RowIds
      BY <3>1 DEF OffInv, ProcRecords
    <3>3. p.g \in off' => (OffRow(p.row, p.g) => OffRow(p.row, p.g)')
      BY <1>1, <3>2, RowIdsFacts DEF OffRow
    <3>4. LeavesOff(b, p)'
      BY <3>2, <3>3 DEF LeavesOff
    <3> QED
      BY <1>0, <2>2, <3>1, <3>4
  <2> QED
    BY <2>1, <2>2
<1> QED
  BY <1>4, <1>5 DEF OffInv

(* The tables stay as they are, or one actor writes a row.                 *)
LEMMA OffOnly ==
  ASSUME IInv, OffInv, NothingLearnt, NEW a \in Actors, NEW new \in ProcRecords, Goes(a, new),
         UNCHANGED <<tracked, off>>, LeavesOff(a, new)
  PROVE  OffInv'
<1>1. OffRowsKept /\ off' \subseteq off
  BY OffRowsSame DEF OffInv
<1>2. LeavesOff(a, new)'
  BY DEF LeavesOff, OffRow, Live
<1> QED
  BY <1>1, <1>2, OffStep

LEMMA IdleLeavesOff == \A a \in Actors : LeavesOff(a, Idle) /\ LeavesOff(a, Idle)'
  BY RecordFacts DEF LeavesOff, Matched
LEMMA RenameOff ==
  ASSUME IInv, FollowInv, OffInv, NEW g \in Repos, NEW n \in Names, Rename(g, n), ~crossed'
  PROVE  OffInv'
<1>1. UNCHANGED <<tracked, proc, off>>
  BY DEF Rename, rows, history
<1>2. ~StillKnown(n, g)
  BY Zenon DEF Rename, StillKnown
<1>3. \A m \in FullNames, h \in Repos : Knows(m, h)' => Knows(m, h) \/ (m = n /\ h = g)
  BY RenameFollows
<1>4. ASSUME NEW t \in Live, tracked[t].name = n PROVE tracked[t].repo = g
  BY <1>2, <1>4 DEF StillKnown
<1>5. Live' = Live /\ g # NoOne
  BY <1>1, LiveKept, RecordFacts
<1>6. ASSUME NEW h \in off, NEW t \in Live, NEW m \in FullNames, tracked[t].repo = NoOne, tracked[t].name = m
      PROVE  ~Knows(m, h)'
  <2>1. h \in Repos /\ ~Knows(m, h)
    BY <1>6 DEF OffInv, OffKept, IInv, Types
  <2>2. m # n
    BY <1>4, <1>5, <1>6
  <2> QED
    BY <1>3, <2>1, <2>2
<1>7. OffKept'
  <2>1. \A h \in off : \E t \in Live : OffRow(t, h) /\ \A u \in Live : tracked[u].repo = h => u = t
    BY DEF OffInv, OffKept
  <2>2. \A h \in off' : \E t \in Live' : OffRow(t, h)' /\ \A u \in Live' : tracked'[u].repo = h => u = t
    BY <1>1, <1>5, <2>1 DEF OffRow
  <2>3. \A h \in off', t \in Live', m \in FullNames :
          tracked'[t].repo = NoOne /\ tracked'[t].name = m => ~Knows(m, h)'
    BY <1>1, <1>5, <1>6
  <2> QED
    BY <2>2, <2>3 DEF OffKept
<1>8. \A a \in Actors : LeavesOff(a, proc[a])'
  BY <1>1, <1>5 DEF OffInv, LeavesOff, OffRow
<1> QED
  BY <1>7, <1>8 DEF OffInv

(* Nobody goes on, and nothing is learnt.                                  *)
LEMMA OffQuiet ==
  ASSUME IInv, OffInv, NothingLearnt, UNCHANGED <<tracked, proc, off>>
  PROVE  OffInv'
<1>1. Live' = Live
  BY LiveKept
<1>2. \A h \in off : h \in Repos
  BY DEF IInv, Types
<1>3. OffKept'
  <2>1. \A h \in off : \E t \in Live : OffRow(t, h) /\ \A u \in Live : tracked[u].repo = h => u = t
    BY DEF OffInv, OffKept
  <2>2. \A h \in off' : \E t \in Live' : OffRow(t, h)' /\ \A u \in Live' : tracked'[u].repo = h => u = t
    BY <1>1, <2>1 DEF OffRow
  <2>3. \A h \in off', t \in Live', m \in FullNames :
          tracked'[t].repo = NoOne /\ tracked'[t].name = m => ~Knows(m, h)'
    BY <1>1, <1>2 DEF OffInv, OffKept, NothingLearnt
  <2> QED
    BY <2>2, <2>3 DEF OffKept
<1>4. \A a \in Actors : LeavesOff(a, proc[a])'
  BY <1>1 DEF OffInv, LeavesOff, OffRow
<1> QED
  BY <1>3, <1>4 DEF OffInv

LEMMA HandleWebhookOff ==
  ASSUME IInv, FollowInv, OffInv, NEW g \in Repos, NEW event \in Events, HandleWebhook(g, event)
  PROVE  OffInv'
<1>1. UNCHANGED <<tracked, proc, off>>
  BY DEF HandleWebhook, rows, history
<1> QED
  BY <1>1, HandleWebhookFollows, OffQuiet

LEMMA EnqueueOff ==
  ASSUME IInv, FollowInv, OffInv, NEW g \in Repos, EnqueueRepositoryRefresh(g)
  PROVE  OffInv'
<1>1. UNCHANGED <<tracked, proc, off>>
  BY DEF EnqueueRepositoryRefresh
<1> QED
  BY <1>1, EnqueueFollows, OffQuiet

LEMMA ResolveOff ==
  ASSUME IInv, FollowInv, OffInv, NEW a \in Actors, ResolveTrackedRepository(a)
  PROVE  OffInv'
<1>1. PICK p, new \in ProcRecords, s, t \in {0} \cup RowIds : Resolves(a, p, new, s, t)
  BY Resolved
<1>2. p = proc[a] /\ ProcOK(a, p) /\ p.pc = "resolve" /\ Goes(a, new) /\ UNCHANGED <<tracked, off>> /\ LeavesOff(a, p)
  BY <1>1 DEF Resolves, OffInv
<1>3. LeavesOff(a, new)
  <2> SUFFICES ASSUME p.g \in off PROVE LeavesOff(a, new)
    BY <1>1 DEF Resolves, LeavesOff
  <2>1. p.known = p.g /\ p.g \in Repos /\ p.n \in FullNames /\ p.g # NoOne
    BY <1>2, RecordFacts DEF LeavesOff, ProcOK
  <2>2. PICK u \in Live : OffRow(u, p.g) /\ \A v \in Live : tracked[v].repo = p.g => v = u
    BY DEF OffInv, OffKept
  <2>3. s = u
    <3>1. s # 0
      BY <1>1, <2>1, <2>2 DEF Resolves, OffRow
    <3> QED
      BY <1>1, <2>1, <2>2, <3>1 DEF Resolves
  <2>4. t # 0 => t = s
    <3> SUFFICES ASSUME t # 0 PROVE t = s
      OBVIOUS
    <3>1. t \in Live /\ tracked[t].name = p.n
      BY <1>1 DEF Resolves
    <3>2. tracked[t].repo \in {NoOne, p.g}
      BY <1>2, <2>1, <3>1, KnownNow, NamedRowOf DEF FollowInv
    <3>3. tracked[t].repo # NoOne
      BY <1>2, <2>1, <3>1, KnownNow DEF OffInv, OffKept
    <3> QED
      BY <2>2, <2>3, <3>1, <3>2, <3>3
  <2>5. new.pc = p.then /\ new.row = u /\ new.copy = Row(new.row) /\ u # 0
    BY <1>1, <2>2, <2>3, <2>4, RowIdsFacts DEF Resolves
  <2>6. new.copy = tracked[u]
    BY <2>5, RowValue, RowIdsFacts DEF IInv
  <2>7. /\ new.g = p.g /\ new.known = p.known /\ new.then = p.then /\ new.job = p.job /\ new.policy = p.policy
        /\ p.then \in {"upsert", "policy", "state"} /\ (a # Reader => p.then # "state")
    BY <1>1, <1>2 DEF Resolves, ProcOK, ProcRecords
  <2>8. OffRow(new.row, new.g) /\ ~new.copy.enabled
    BY <2>2, <2>5, <2>6, <2>7 DEF OffRow
  <2>9. a = Reader /\ (new.pc = "upsert" \/ new.then = "upsert") => new.job # NoOne \/ ~new.policy
    BY <1>2, <2>5, <2>7 DEF LeavesOff
  <2> QED
    BY <2>1, <2>5, <2>7, <2>8, <2>9 DEF LeavesOff
<1> QED
  BY <1>2, <1>3, ResolveFollows, OffOnly

LEMMA MergeOff ==
  ASSUME IInv, FollowInv, OffInv, NEW a \in Actors, MergeTrackedRepositoryMatches(a)
  PROVE  OffInv'
<1>1. PICK p, new \in ProcRecords, r \in RowRecords : Merges(a, p, new, r)
  BY Merged
<1>2. /\ p = proc[a] /\ ProcOK(a, p) /\ p.pc = "merge" /\ Goes(a, new) /\ UNCHANGED off /\ new.g = p.g
      /\ p.g \notin off /\ ProcFollows(p)
  BY <1>1 DEF Merges, OffInv, LeavesOff, FollowInv, ProcsFollow
<1>3. LeavesOff(a, new)'
  BY <1>2 DEF LeavesOff
<1>4. /\ p.known = p.g /\ p.known \in Repos /\ p.g # NoOne /\ p.row \in RowIds /\ p.nameId \in RowIds
      /\ RowOf(p.row, p.g, p.n) /\ RowOf(p.nameId, p.g, p.n) /\ p.row # 0 /\ p.nameId # 0
  BY <1>2, RecordFacts DEF ProcFollows, ProcOK, ProcRecords, Matched
<1>5. tracked[p.row].repo \in {NoOne, p.g} /\ tracked[p.nameId].repo \in {NoOne, p.g}
  BY <1>4, RecordFacts DEF RowOf
<1>6. OffRowsKept
  <2>0. ASSUME NEW g \in off' PROVE g # p.g /\ g # NoOne
    BY <1>2, RecordFacts DEF IInv, Types
  <2>1. /\ r.repo = p.g
        /\ \A t \in RowIds : tracked'[t] = IF t = p.nameId THEN Absent
                                           ELSE IF t = p.row /\ p.row \in Live THEN r ELSE tracked[t]
        /\ Live' = Live \ {p.nameId}
    BY <1>1, <1>4 DEF Merges
  <2>2. ASSUME NEW g \in off', NEW t \in RowIds, OffRow(t, g) PROVE OffRow(t, g)'
    <3>1. t # p.row /\ t # p.nameId
      BY <1>5, <2>0, <2>2 DEF OffRow
    <3>2. t \in Live' /\ tracked'[t] = tracked[t]
      BY <2>1, <2>2, <3>1 DEF OffRow
    <3> QED
      BY <2>2, <3>2 DEF OffRow
  <2>3. ASSUME NEW g \in off', NEW t \in Live', tracked'[t].repo = g PROVE t \in Live /\ tracked[t].repo = g
    BY <2>0, <2>1, <2>3, RowIdsFacts
  <2>4. ASSUME NEW g \in off', NEW t \in Live', NEW n \in FullNames, tracked'[t].repo = NoOne, tracked'[t].name = n
        PROVE  ~Knows(n, g)
    <3>1. t \in Live /\ tracked'[t] = tracked[t]
      BY <1>4, <2>1, <2>4, RowIdsFacts
    <3> QED
      BY <1>2, <2>4, <3>1 DEF OffInv, OffKept
  <2> QED
    BY <2>2, <2>3, <2>4, Zenon DEF OffRowsKept
<1> QED
  BY <1>2, <1>3, <1>6, MergeFollows, OffStep
LEMMA TakeOff ==
  ASSUME IInv, FollowInv, OffInv, NEW w \in Workers, ProcessWebhookDelivery(w)
  PROVE  OffInv'
<1>1. PICK d \in Deliveries, new \in ProcRecords : Takes(w, d, new)
  BY Taken
<1>2. w \in Actors /\ w # Reader /\ Goes(w, new) /\ UNCHANGED <<tracked, off>>
  BY <1>1, ConstantsAssumption DEF Takes, Actors
<1>3. LeavesOff(w, new)
  <2>1. ASSUME d.g \in off PROVE Stored(d.g)
    <3>1. PICK t \in Live : tracked[t].repo = d.g
      BY <2>1 DEF OffInv, OffKept, OffRow
    <3>2. d.g # NoOne
      BY <2>1, RecordFacts DEF IInv, Types
    <3> QED
      BY <3>1, <3>2 DEF IInv, RowsOK
  <2> QED
    BY <1>1, <1>2, <2>1 DEF Takes, LeavesOff, Matched
<1> QED
  BY <1>2, <1>3, TakeFollows, OffOnly

(* A row is written that the actor may take for its repository's; that of  *)
(* a repository that is turned off stays off.                              *)
LEMMA WriterLeavesOff ==
  ASSUME IInv, FollowInv, OffInv, off' \subseteq off,
         NEW a \in Actors, NEW p \in ProcRecords, NEW new \in ProcRecords,
         NEW t \in RowIds, NEW r \in RowRecords, Writes(a, p, new, t, r), p.pc # "idle",
         r.repo \in {NoOne, p.g},
         (t \in Live /\ RowOf(t, p.g, p.n)) \/ t = nextRow,
         p.g \in off' => t \in Live /\ tracked[t].repo = p.g /\ r.repo = p.g /\ ~r.enabled
  PROVE  OffRowsKept
<1>1. /\ p = proc[a] /\ r.name = p.n /\ p.g \in Repos /\ p.n \in FullNames
      /\ tracked' = [tracked EXCEPT ![t] = r]
  BY DEF Writes, ProcOK
<1>2. Knows(p.n, p.g)
  BY <1>1, KnownNow
<1>3. /\ tracked'[t] = r /\ \A u \in RowIds \ {t} : tracked'[u] = tracked[u]
      /\ \A g \in off' : g \in Repos /\ g # NoOne
  BY <1>1, RecordFacts DEF IInv, Types
<1>4. r # Absent
  BY <1>1, RecordFacts
<1>5. \A u \in Live' : u = t \/ (u # t /\ u \in Live /\ tracked'[u] = tracked[u])
  BY <1>3 DEF Live
<1>6. tracked[t].repo \in {NoOne, p.g} \/ t \notin Live
  <2>1. CASE t \in Live /\ RowOf(t, p.g, p.n)
    BY <2>1, RowIdsFacts DEF RowOf, Live
  <2>2. CASE t = nextRow
    BY <2>2, ConstantsAssumption DEF IInv, Types, RowsOK
  <2> QED
    BY <2>1, <2>2
<1>7. ASSUME NEW g \in off', NEW u \in RowIds, OffRow(u, g) PROVE OffRow(u, g)'
  <2>1. CASE u # t
    BY <1>3, <1>7, <2>1 DEF OffRow, Live
  <2>2. CASE u = t
    <3>1. g = p.g
      BY <1>3, <1>6, <1>7, <2>2 DEF OffRow
    <3>2. t \in Live'
      BY <1>3, <1>4 DEF Live
    <3> QED
      BY <1>3, <2>2, <3>1, <3>2 DEF OffRow
  <2> QED
    BY <2>1, <2>2
<1>8. ASSUME NEW g \in off', NEW u \in Live', tracked'[u].repo = g PROVE u \in Live /\ tracked[u].repo = g
  <2>1. CASE u # t
    BY <1>5, <1>8, <2>1
  <2>2. CASE u = t
    BY <1>3, <1>8, <2>2
  <2> QED
    BY <2>1, <2>2
<1>9. ASSUME NEW g \in off', NEW u \in Live', NEW n \in FullNames, tracked'[u].repo = NoOne, tracked'[u].name = n
      PROVE  ~Knows(n, g)
  <2>1. CASE u # t
    BY <1>5, <1>9, <2>1 DEF OffInv, OffKept
  <2>2. CASE u = t
    <3>1. n = p.n /\ g # p.g
      BY <1>1, <1>3, <1>9, <2>2
    <3> QED
      BY <1>1, <1>2, <1>3, <3>1 DEF FollowInv, OneOwner
  <2> QED
    BY <2>1, <2>2
<1> QED
  BY <1>7, <1>8, <1>9, Zenon DEF OffRowsKept

LEMMA UpsertTrackedOff ==
  ASSUME IInv, FollowInv, OffInv, NEW w \in Workers, UpsertTracked(w)
  PROVE  OffInv'
<1>1. PICK p, new \in ProcRecords, t \in RowIds, r \in RowRecords :
           /\ Writes(w, p, new, t, r) /\ p.pc = "upsert" /\ t \in Live /\ UNCHANGED off
           /\ p.row # 0 => t = p.row
           /\ p.row = 0 => tracked[t].name = p.n
           /\ r.repo = (IF p.known = NoOne THEN tracked[t].repo ELSE p.known) /\ r.enabled = tracked[t].enabled
           /\ new.pc = "project" /\ new.row = t /\ new.copy = r /\ new.g = p.g /\ new.n = p.n
           /\ new.known = p.known
  BY UpsertTrackedWrites
<1>2. /\ p = proc[w] /\ ProcFollows(p) /\ LeavesOff(w, p) /\ w \in Actors /\ w # Reader /\ p.g \in Repos
      /\ p.n \in FullNames /\ Goes(w, new) /\ Knows(p.n, p.g) /\ tracked' = [tracked EXCEPT ![t] = r] /\ p.g # NoOne
  BY <1>1, KnownNow, ConstantsAssumption DEF Writes, ProcOK, FollowInv, ProcsFollow, OffInv, Actors
<1>3. RowOf(t, p.g, p.n)
  <2>1. CASE p.row # 0
    BY <1>1, <1>2, <2>1 DEF ProcFollows, Matched
  <2>2. CASE p.row = 0
    BY <1>1, <1>2, <2>2, NamedRowOf DEF FollowInv
  <2> QED
    BY <2>1, <2>2
<1>4. tracked[t].repo \in {NoOne, p.g}
  BY <1>1, <1>3, RowIdsFacts DEF RowOf, Live
<1>5. r.repo \in {NoOne, p.g}
  BY <1>1, <1>2, <1>4 DEF ProcFollows
<1>6. p.g \in off => t \in Live /\ tracked[t].repo = p.g /\ r.repo = p.g /\ ~r.enabled /\ p.known = p.g
  BY <1>1, <1>2, RowIdsFacts DEF LeavesOff, Matched, OffRow
<1>7. OffRowsKept
  BY <1>1, <1>2, <1>3, <1>5, <1>6, WriterLeavesOff
<1>8. LeavesOff(w, new)'
  <2>1. tracked'[t] = r /\ (r.repo = p.g => t \in Live')
    BY <1>2, RecordFacts DEF IInv, Types, Live
  <2> QED
    BY <1>1, <1>2, <1>6, <2>1 DEF LeavesOff, OffRow
<1> QED
  BY <1>1, <1>2, <1>7, <1>8, UpsertTrackedFollows, OffStep

LEMMA InsertTrackedOff ==
  ASSUME IInv, FollowInv, OffInv, NEW w \in Workers, InsertTracked(w)
  PROVE  OffInv'
<1>1. PICK p, new \in ProcRecords, r \in RowRecords :
           /\ nextRow \in RowIds /\ Writes(w, p, new, nextRow, r) /\ p.pc = "upsert" /\ UNCHANGED off
           /\ p.row = 0 /\ r.repo = p.known /\ new.g = p.g
  BY InsertTrackedWrites
<1>2. p = proc[w] /\ ProcFollows(p) /\ LeavesOff(w, p) /\ w \in Actors /\ Goes(w, new)
  BY <1>1 DEF Writes, FollowInv, ProcsFollow, OffInv, Actors
<1>3. r.repo \in {NoOne, p.g}
  BY <1>1, <1>2 DEF ProcFollows
<1>4. p.g \notin off
  BY <1>1, <1>2, RowIdsFacts DEF LeavesOff, Matched, OffRow
<1>5. PICK t \in RowIds : t = nextRow
  BY <1>1
<1>6. Writes(w, p, new, t, r) /\ p.pc # "idle"
  BY <1>1, <1>5
<1>7. OffRowsKept
  BY <1>1, <1>2, <1>3, <1>4, <1>5, <1>6, WriterLeavesOff
<1>8. LeavesOff(w, new)'
  BY <1>1, <1>4 DEF LeavesOff
<1> QED
  BY <1>1, <1>2, <1>7, <1>8, InsertTrackedFollows, OffStep

LEMMA ProjectOff ==
  ASSUME IInv, FollowInv, OffInv, NEW w \in Workers, ProjectRepository(w)
  PROVE  OffInv'
<1>1. PICK p, new \in ProcRecords : Projects(w, p, new)
  BY Projected
<1>2. /\ p = proc[w] /\ p.pc = "project" /\ LeavesOff(w, p) /\ w \in Actors /\ Goes(w, new) /\ UNCHANGED <<tracked, off>>
      /\ new = Idle \/ (p.copy.enabled /\ new.g = p.g)
  BY <1>1 DEF Projects, OffInv, Actors
<1>3. LeavesOff(w, new)
  BY <1>2, IdleLeavesOff DEF LeavesOff
<1> QED
  BY <1>2, <1>3, ProjectFollows, OffOnly

LEMMA UpdateProjectionStateOff ==
  ASSUME IInv, FollowInv, OffInv, NEW w \in Workers, UpdateProjectionState(w)
  PROVE  OffInv'
<1>1. PICK p \in ProcRecords :
           /\ p = proc[w] /\ ProcOK(w, p) /\ p.pc = "state" /\ Goes(w, Idle) /\ UNCHANGED off
           /\ \/ UNCHANGED <<name, repo, tracked, nextRow, inbox, jobs, crossed, served>>
              \/ \E r \in RowRecords :
                    /\ Writes(w, p, Idle, p.row, r) /\ p.row \in Live /\ p.row \in RowIds
                    /\ r.repo \in {p.g, tracked[p.row].repo}
  BY UpdateProjectionStateWrites
<1>2. Idle \in ProcRecords /\ ProcFollows(p) /\ LeavesOff(w, p) /\ w \in Actors /\ w # Reader
  BY <1>1, RecordFacts, ConstantsAssumption DEF FollowInv, ProcsFollow, OffInv, Actors
<1>3. p.g \notin off
  BY <1>1, <1>2 DEF LeavesOff
<1>4. CASE UNCHANGED tracked
  BY <1>1, <1>2, <1>4, IdleLeavesOff, UpdateProjectionStateFollows, OffOnly
<1>5. ASSUME NEW r \in RowRecords, Writes(w, p, Idle, p.row, r), p.row \in Live, p.row \in RowIds,
             r.repo \in {p.g, tracked[p.row].repo}
      PROVE  OffInv'
  <2>1. RowOf(p.row, p.g, p.n)
    BY <1>1, <1>2 DEF ProcFollows, Matched
  <2>2. tracked[p.row].repo \in {NoOne, p.g}
    BY <1>5, <2>1, RowIdsFacts DEF RowOf, Live
  <2>3. PICK t \in RowIds : t = p.row
    BY <1>5
  <2>4. Writes(w, p, Idle, t, r) /\ t \in Live /\ RowOf(t, p.g, p.n) /\ r.repo \in {NoOne, p.g} /\ p.pc # "idle"
    BY <1>1, <1>5, <2>1, <2>2, <2>3
  <2>5. OffRowsKept
    BY <1>1, <1>2, <1>3, <2>4, WriterLeavesOff
  <2> QED
    BY <1>1, <1>2, <2>5, IdleLeavesOff, UpdateProjectionStateFollows, OffStep
<1> QED
  BY <1>1, <1>4, <1>5

LEMMA FailOff ==
  ASSUME IInv, FollowInv, OffInv, NEW w \in Workers, DeliveryFails(w)
  PROVE  OffInv'
<1>1. Goes(w, Idle) /\ UNCHANGED <<tracked, off>> /\ w \in Actors /\ Idle \in ProcRecords
  BY RecordFacts DEF DeliveryFails, rows, Actors
<1> QED
  BY <1>1, IdleLeavesOff, FailFollows, OffOnly
-----------------------------------------------------------------------------
LEMMA StartOff ==
  ASSUME IInv, OffInv, NothingLearnt, NEW new \in ProcRecords, Starts(new)
  PROVE  OffInv'
<1>1. Goes(Reader, new) /\ UNCHANGED <<tracked, off>> /\ Reader \in Actors
  BY ReaderActs DEF Starts
<1>2. LeavesOff(Reader, new)
  BY DEF Starts, LeavesOff, Matched
<1> QED
  BY <1>1, <1>2, OffOnly

LEMMA StartJobOff ==
  ASSUME IInv, FollowInv, OffInv, NEW j \in jobs, StartJob(j)
  PROVE  OffInv'
  BY JobStarted, StartJobFollows, StartOff

LEMMA StartSyncOff ==
  ASSUME IInv, FollowInv, OffInv, NEW g \in Repos, StartSync(g)
  PROVE  OffInv'
  BY SyncStarted, StartSyncFollows, StartOff

LEMMA GoesToResolveOff ==
  ASSUME IInv, OffInv, NothingLearnt, NEW p \in ProcRecords, NEW new \in ProcRecords, GoesToResolve(p, new),
         new.g \in off /\ new.then = "upsert" => new.job # NoOne \/ ~new.policy
  PROVE  OffInv'
<1>1. Goes(Reader, new) /\ UNCHANGED <<tracked, off>> /\ Reader \in Actors
  BY ReaderActs DEF GoesToResolve
<1>2. LeavesOff(Reader, new)
  BY DEF GoesToResolve, LeavesOff, Matched
<1> QED
  BY <1>1, <1>2, OffOnly

LEMMA UpsertRepositoryOff == ASSUME IInv, FollowInv, OffInv, UpsertRepository PROVE OffInv'
<1>1. PICK p, new \in ProcRecords : GoesToResolve(p, new) /\ new.then = "policy"
  BY RepositoryUpserted
<1> QED
  BY <1>1, UpsertRepositoryFollows, GoesToResolveOff

LEMMA MarkJobSucceededOff == ASSUME IInv, FollowInv, OffInv, MarkJobSucceeded PROVE OffInv'
<1>1. PICK p, new \in ProcRecords : GoesToResolve(p, new) /\ new.then = "state"
  BY JobSucceeded
<1> QED
  BY <1>1, MarkJobSucceededFollows, GoesToResolveOff

(* A sync keeps the policy it read.                                        *)
LEMMA KeepPolicyOff ==
  ASSUME IInv, FollowInv, OffInv, KeepPolicy
  PROVE  OffInv'
<1>1. PICK p, new \in ProcRecords :
           /\ GoesToResolve(p, new) /\ p.pc = "policy" /\ new.g = p.g /\ new.policy = KeptPolicy(p)
  BY PolicyKeeps
<1>2. LeavesOff(Reader, p) /\ new.job = p.job
  BY <1>1, ReaderActs DEF GoesToResolve, OffInv
<1>3. p.g \in off => p.row # 0 /\ ~p.copy.enabled
  BY <1>1, <1>2, RowIdsFacts DEF LeavesOff, Matched, OffRow
<1>4. new.g \in off => new.job # NoOne \/ ~new.policy
  BY <1>1, <1>2, <1>3 DEF KeptPolicy
<1> QED
  BY <1>1, <1>4, KeepPolicyFollows, GoesToResolveOff

LEMMA UpsertTrackedRepositoryOff ==
  ASSUME IInv, FollowInv, OffInv, UpsertTrackedRepository
  PROVE  OffInv'
<1>1. PICK p, new \in ProcRecords : TrackedUpserted(p, new)
  BY UpsertTrackedRepositoryWrites
<1>2. /\ p = proc[Reader] /\ ProcOK(Reader, p) /\ ProcFollows(p) /\ LeavesOff(Reader, p) /\ p.pc = "upsert"
      /\ Goes(Reader, new) /\ p.g \in Repos /\ p.n \in FullNames /\ Knows(p.n, p.g)
      /\ off' = IF p.job # NoOne THEN off \ {p.g} ELSE off
      /\ new = Idle \/ (p.job # NoOne /\ new.g = p.g)
  BY <1>1, KnownNow, ReaderActs DEF TrackedUpserted, ProcOK, FollowInv, ProcsFollow, OffInv
<1>3. off' \subseteq off /\ (p.job # NoOne => p.g \notin off')
  BY <1>2
<1>4. LeavesOff(Reader, new)'
  <2>1. CASE new = Idle
    BY <2>1, ReaderActs, IdleLeavesOff
  <2>2. CASE new.g \notin off'
    BY <2>2 DEF LeavesOff
  <2> QED
    BY <1>2, <1>3, <2>1, <2>2
<1>5. p.g \in off' => OffRow(p.row, p.g) /\ ~p.policy /\ p.row # 0
  BY <1>2, <1>3, RowIdsFacts DEF LeavesOff, Matched, OffRow
<1>6. OffRowsKept
  <2>1. CASE UNCHANGED <<tracked, nextRow>>
    BY <1>3, <2>1, OffRowsSame DEF OffInv
  <2>2. ASSUME NEW t \in RowIds, NEW r \in RowRecords,
               /\ Writes(Reader, p, new, t, r) /\ r.repo = p.g /\ r.enabled = p.policy
               /\ p.row # 0 => t = p.row /\ t \in Live
               /\ p.row = 0 => t = nextRow \/ tracked[t].name = p.n
               /\ t \notin Live => t = nextRow /\ nextRow' = nextRow + 1
        PROVE  OffRowsKept
    <3>1. (t \in Live /\ RowOf(t, p.g, p.n)) \/ t = nextRow
      <4>1. CASE p.row # 0
        BY <1>2, <2>2, <4>1 DEF ProcFollows, Matched
      <4>2. CASE p.row = 0 /\ t \in Live /\ t # nextRow
        BY <1>2, <2>2, <4>2, NamedRowOf DEF FollowInv
      <4> QED
        BY <2>2, <4>1, <4>2
    <3>2. p.g \in off' => t \in Live /\ tracked[t].repo = p.g /\ r.repo = p.g /\ ~r.enabled
      BY <1>5, <2>2 DEF OffRow
    <3> QED
      BY <1>2, <1>3, <2>2, <3>1, <3>2, ReaderActs, WriterLeavesOff
  <2> QED
    BY <1>1, <2>1, <2>2 DEF TrackedUpserted
<1> QED
  BY <1>2, <1>3, <1>4, <1>6, ReaderActs, UpsertTrackedRepositoryFollows, OffStep

LEMMA MarkBackfilledOff ==
  ASSUME IInv, FollowInv, OffInv, MarkBackfilled
  PROVE  OffInv'
<1>1. PICK p \in ProcRecords :
           /\ p = proc[Reader] /\ ProcOK(Reader, p) /\ p.pc = "state" /\ Goes(Reader, Idle) /\ off' = off \ {p.g}
           /\ \/ UNCHANGED <<name, repo, tracked, nextRow, inbox, jobs, crossed, served>>
              \/ \E r \in RowRecords :
                    /\ Writes(Reader, p, Idle, p.row, r) /\ p.row \in Live /\ p.row \in RowIds
                    /\ r.repo = p.g
  BY MarkBackfilledWrites
<1>2. Idle \in ProcRecords /\ ProcFollows(p) /\ Reader \in Actors /\ off' \subseteq off /\ p.g \notin off'
  BY <1>1, RecordFacts, ReaderActs DEF FollowInv, ProcsFollow
<1>3. CASE UNCHANGED tracked
  <2>1. OffRowsKept
    BY <1>2, <1>3, OffRowsSame DEF OffInv
  <2> QED
    BY <1>1, <1>2, <2>1, IdleLeavesOff, MarkBackfilledFollows, OffStep
<1>4. ASSUME NEW r \in RowRecords, Writes(Reader, p, Idle, p.row, r), p.row \in Live, p.row \in RowIds,
             r.repo = p.g
      PROVE  OffInv'
  <2>1. RowOf(p.row, p.g, p.n)
    BY <1>1, <1>2 DEF ProcFollows, Matched
  <2>2. PICK t \in RowIds : t = p.row
    BY <1>4
  <2>3. Writes(Reader, p, Idle, t, r) /\ t \in Live /\ RowOf(t, p.g, p.n) /\ r.repo \in {NoOne, p.g} /\ p.pc # "idle"
    BY <1>1, <1>4, <2>1, <2>2
  <2>4. OffRowsKept
    BY <1>1, <1>2, <2>3, WriterLeavesOff
  <2> QED
    BY <1>1, <1>2, <2>4, IdleLeavesOff, MarkBackfilledFollows, OffStep
<1> QED
  BY <1>1, <1>3, <1>4

LEMMA ReadFailsOff == ASSUME IInv, FollowInv, OffInv, ReadFails PROVE OffInv'
<1>1. Goes(Reader, Idle) /\ UNCHANGED <<tracked, off>> /\ Reader \in Actors /\ Idle \in ProcRecords
  BY RecordFacts, ReaderActs DEF ReadFails, rows, history
<1> QED
  BY <1>1, IdleLeavesOff, ReadFailsFollows, OffOnly

(* A repository that is turned off while nobody is at work on it is off,   *)
(* and those that were stay so.                                            *)
LEMMA TurnOffOff ==
  ASSUME IInv, FollowInv, OffInv, NEW g \in Repos, TurnOff(g)
  PROVE  OffInv'
<1>1. /\ UNCHANGED proc /\ Live' = Live /\ (\E t \in Live : tracked[t].repo = g)
      /\ \A t \in RowIds : /\ tracked'[t].name = tracked[t].name /\ tracked'[t].repo = tracked[t].repo
                           /\ tracked'[t].enabled => tracked[t].enabled
                           /\ t \in Live /\ tracked[t].repo = g => ~tracked'[t].enabled
      /\ off' = (IF AtWork(g) THEN off ELSE off \cup {g}) /\ NothingLearnt /\ off \subseteq Repos
  BY TurnedOff, TurnOffFollows DEF IInv, Types
<1>2. \A t \in RowIds, h \in Repos : OffRow(t, h) => OffRow(t, h)'
  BY <1>1 DEF OffRow
<1>3. ASSUME NEW h \in off
      PROVE  /\ \E t \in Live' : OffRow(t, h)' /\ \A u \in Live' : tracked'[u].repo = h => u = t
             /\ \A t \in Live', n \in FullNames :
                    tracked'[t].repo = NoOne /\ tracked'[t].name = n => ~Knows(n, h)'
  <2>1. PICK t \in Live : OffRow(t, h) /\ \A u \in Live : tracked[u].repo = h => u = t
    BY DEF OffInv, OffKept
  <2>2. OffRow(t, h)' /\ \A u \in Live' : tracked'[u].repo = h => u = t
    BY <1>1, <1>2, <2>1, RowIdsFacts
  <2>3. \A u \in Live, n \in FullNames : tracked[u].repo = NoOne /\ tracked[u].name = n => ~Knows(n, h)
    BY DEF OffInv, OffKept
  <2>4. \A n \in FullNames : ~Knows(n, h) => ~Knows(n, h)'
    BY <1>1 DEF NothingLearnt
  <2> QED
    BY <1>1, <2>2, <2>3, <2>4, RowIdsFacts
<1>4. ASSUME ~AtWork(g)
      PROVE  /\ \E t \in Live' : OffRow(t, g)' /\ \A u \in Live' : tracked'[u].repo = g => u = t
             /\ \A t \in Live' : tracked'[t].repo # NoOne
             /\ \A a \in Actors : proc[a].g # g
  <2>1. /\ \A a \in Actors : proc[a].g # g
        /\ \A t \in Live : tracked[t].repo # NoOne
        /\ \A t, u \in Live : tracked[t].repo = g /\ tracked[u].repo = g => t = u
    BY <1>4 DEF AtWork
  <2>2. PICK t \in Live : tracked[t].repo = g
    BY <1>1
  <2>3. OffRow(t, g)' /\ \A u \in Live' : tracked'[u].repo = g => u = t
    BY <1>1, <2>1, <2>2, RowIdsFacts DEF OffRow
  <2> QED
    BY <1>1, <2>1, <2>3, RowIdsFacts
<1>5. OffKept'
  BY <1>1, <1>3, <1>4 DEF OffKept
<1>6. ASSUME NEW a \in Actors PROVE LeavesOff(a, proc[a])'
  <2>1. PICK p \in ProcRecords : p = proc[a]
    BY ActorRecord
  <2>2. LeavesOff(a, p) /\ p.row \in {0} \cup RowIds
    BY <2>1 DEF OffInv, ProcRecords
  <2>3. p.g \in off' => p.g \in off /\ p.g \in Repos
    BY <1>1, <1>4, <2>1
  <2>4. p.g \in off => (OffRow(p.row, p.g) => OffRow(p.row, p.g)')
    <3>1. OffRow(p.row, p.g) => p.row \in RowIds
      BY RowIdsFacts DEF OffRow
    <3> QED
      BY <1>1, <1>2, <3>1
  <2>5. LeavesOff(a, p)'
    BY <2>2, <2>3, <2>4 DEF LeavesOff
  <2> QED
    BY <1>1, <2>1, <2>5
<1> QED
  BY <1>5, <1>6 DEF OffInv
-----------------------------------------------------------------------------
LEMMA InitOffInv == Init => OffInv
<1> SUFFICES ASSUME Init PROVE OffInv
  OBVIOUS
<1>1. PICK f \in [Repos -> {0} \cup RowIds] :
           /\ off \subseteq {g \in Repos : f[g] # 0}
           /\ \A g \in Repos : f[g] # 0 =>
                 f[g] \in Live /\ tracked[f[g]].repo = g /\ (tracked[f[g]].enabled <=> g \notin off)
           /\ \A t \in Live : \E g \in Repos : f[g] = t
  BY InitTables
<1>2. \A t \in Live : tracked[t].repo # NoOne /\ f[tracked[t].repo] = t
  BY <1>1, RowIdsFacts, RecordFacts
<1>3. OffKept
  <2>1. ASSUME NEW g \in off
        PROVE  \E t \in Live : OffRow(t, g) /\ \A u \in Live : tracked[u].repo = g => u = t
    <3>1. OffRow(f[g], g) /\ f[g] \in Live
      BY <1>1 DEF OffRow
    <3>2. \A u \in Live : tracked[u].repo = g => u = f[g]
      BY <1>2
    <3> QED
      BY <3>1, <3>2
  <2> QED
    BY <1>2, <2>1 DEF OffKept
<1>4. \A a \in Actors : proc[a] = Idle
  BY InitOwners
<1> QED
  BY <1>3, <1>4, IdleLeavesOff DEF OffInv

LEMMA NextOffInv ==
  ASSUME IInv, FollowInv, OffInv, [Next]_vars, ~crossed'
  PROVE  OffInv'
<1>1. CASE UNCHANGED vars
  <2>1. UNCHANGED <<tracked, proc, off>>
    BY <1>1 DEF vars
  <2> QED
    BY <1>1, <2>1, StutterFollows, OffQuiet
<1>2. ASSUME NEW g \in Repos, NEW n \in Names, Rename(g, n) PROVE OffInv'
  BY <1>2, RenameOff
<1>3. ASSUME NEW g \in Repos, NEW event \in Events, HandleWebhook(g, event) PROVE OffInv'
  BY <1>3, HandleWebhookOff
<1>4. ASSUME NEW g \in Repos, EnqueueRepositoryRefresh(g) \/ StartSync(g) \/ TurnOff(g) PROVE OffInv'
  BY <1>4, EnqueueOff, StartSyncOff, TurnOffOff
<1>5. ASSUME NEW a \in Actors, ResolveTrackedRepository(a) \/ MergeTrackedRepositoryMatches(a) PROVE OffInv'
  BY <1>5, ResolveOff, MergeOff
<1>6. ASSUME NEW w \in Workers,
             \/ ProcessWebhookDelivery(w) \/ UpsertTracked(w) \/ InsertTracked(w)
             \/ ProjectRepository(w) \/ UpdateProjectionState(w) \/ DeliveryFails(w)
      PROVE  OffInv'
  BY <1>6, TakeOff, UpsertTrackedOff, InsertTrackedOff, ProjectOff, UpdateProjectionStateOff, FailOff
<1>7. ASSUME NEW j \in jobs, StartJob(j) PROVE OffInv'
  BY <1>7, StartJobOff
<1>8. ASSUME \/ UpsertRepository \/ KeepPolicy \/ UpsertTrackedRepository
             \/ MarkJobSucceeded \/ MarkBackfilled \/ ReadFails
      PROVE  OffInv'
  BY <1>8, UpsertRepositoryOff, KeepPolicyOff, UpsertTrackedRepositoryOff,
     MarkJobSucceededOff, MarkBackfilledOff, ReadFailsOff
<1> QED
  BY <1>1, <1>2, <1>3, <1>4, <1>5, <1>6, <1>7, <1>8, Zenon DEF Next, Events

(* PolicyKept: once an operator has turned a repository off with nobody at *)
(* work on it, no delivery, rename, merge or sync that comes later turns   *)
(* it on, however these interleave; a bootstrap that was asked for does.   *)
THEOREM PolicyStays == Spec => []PolicyKept
<1>1. Init => (~crossed => OffInv)
  BY InitOffInv
<1>2. IInv /\ (~crossed => FollowInv) /\ (~crossed => OffInv) /\ [Next]_vars => (~crossed => OffInv)'
  <2> SUFFICES ASSUME IInv, ~crossed => FollowInv, ~crossed => OffInv, [Next]_vars, ~crossed' PROVE OffInv'
    OBVIOUS
  <2>1. ~crossed
    BY CrossedStays
  <2> QED
    BY <2>1, NextOffInv
<1>3. (~crossed => OffInv) => PolicyKept
  BY DEF OffInv, OffKept, OffRow, PolicyKept
<1> QED
  BY <1>1, <1>2, <1>3, Invariant, Followed, PTL DEF Spec
-----------------------------------------------------------------------------
(* With one worker, deliveries are worked off in the order they came in,   *)
(* and each leaves the repository with its row and its name.  A            *)
(* repository that has sent a delivery under its present name is told: its *)
(* last such delivery waits with nothing behind it that is of the          *)
(* repository or under the name, or the worker has it, or it is done and   *)
(* nothing that follows touches the repository's row and name.             *)
SingleWorker == \A v, w \in Workers : v = w

OneRowEach == \A t, u \in Live : tracked[t].repo = tracked[u].repo /\ tracked[t].repo # NoOne => t = u
SwitchedOff == \A t \in Live : ~tracked[t].enabled => tracked[t].repo # NoOne /\ off # {}
RowsTidy == OneRowEach /\ SwitchedOff

(* A delivery is of a repository without a row, unless it is known to be   *)
(* the row's.                                                              *)
NotYetOf(p) == p.known # p.g => \A t \in Live : tracked[t].repo # p.g

(* What the worker carries is what the tables say, and the row it is at is *)
(* the only one that is the repository's.                                  *)
WorkOK(p) ==
    /\ p.pc # "gone" /\ (p.pc \in {"resolve", "merge"} => p.then = "upsert")
    /\ p.pc \in {"resolve", "merge", "upsert"} => NotYetOf(p)
    /\ p.pc = "merge" => /\ p.row \in Live /\ p.copy = tracked[p.row]
                         /\ p.nameId \in Live /\ p.byName = tracked[p.nameId]
    /\ p.pc = "upsert" => /\ p.row # 0 => p.row \in Live
                          /\ p.known # NoOne => \A t \in Live : tracked[t].repo = p.known => t = p.row
    /\ p.pc \in {"project", "state"} =>
          /\ p.row \in Live /\ p.copy = tracked[p.row] /\ p.copy.name = p.n
          /\ \A t \in Live : tracked[t].repo = p.g => t = p.row
    /\ p.pc = "project" /\ ~p.copy.enabled => p.copy.repo = p.g
    /\ p.pc = "state" => p.copy.enabled

SettledAs(g) ==
    \E t \in Live :
        /\ tracked[t].name = name[g] /\ tracked[t].repo = g
        /\ tracked[t].enabled => repo[g] = name[g]
        /\ \A u \in Live : tracked[u].repo = g => u = t

Elsewhere(d, g) == d.g # g /\ d.n # name[g]
Clear(g) == \A i \in DOMAIN inbox : Elsewhere(inbox[i], g)
Announced(g) ==
    \E i \in DOMAIN inbox :
        /\ inbox[i].g = g /\ inbox[i].n = name[g]
        /\ \A k \in DOMAIN inbox : i < k => Elsewhere(inbox[k], g)
Handled(p, g) == p.g = g /\ p.n = name[g] /\ (p.pc = "state" => repo[g] = name[g])
RowAside(t, g) == t \in Live => tracked[t].repo # g
Aside(p, g) ==
    /\ Elsewhere(p, g) /\ p.known # g
    /\ RowAside(p.row, g) /\ (p.pc = "merge" => RowAside(p.nameId, g))
Told(g) ==
    \/ Announced(g)
    \/ Clear(g) /\ \E w \in Workers : Handled(proc[w], g)
    \/ Clear(g) /\ (\A w \in Workers : Aside(proc[w], g)) /\ SettledAs(g)

Distinct == \A g, h \in Repos : name[g] = name[h] => g = h
WorkersTidy == \A w \in Workers : WorkOK(proc[w])
AllTold == \A g \in told : Told(g)
Excused == crossed /\ off # {}
NInv ==
    /\ Distinct /\ told \subseteq Repos
    /\ steady => /\ jobs = {} /\ proc[Reader] = Idle
                 /\ Excused \/ (RowsTidy /\ WorkersTidy /\ AllTold)

(* The rows of a repository that a step leaves alone.                      *)
RowsSame(g) == \A t \in RowIds : tracked[t].repo = g \/ tracked'[t].repo = g => tracked'[t] = tracked[t]

LEMMA SettledStays ==
  ASSUME NEW g \in Repos, SettledAs(g), UNCHANGED name, repo[g] = name[g] => repo'[g] = name[g], RowsSame(g)
  PROVE  SettledAs(g)'
<1>1. PICK t \in Live : /\ tracked[t].name = name[g] /\ tracked[t].repo = g
                        /\ tracked[t].enabled => repo[g] = name[g]
                        /\ \A u \in Live : tracked[u].repo = g => u = t
  BY DEF SettledAs
<1>2. t \in RowIds /\ tracked'[t] = tracked[t] /\ tracked'[t] # Absent
  BY <1>1 DEF RowsSame, Live
<1>3. ASSUME NEW u \in RowIds, tracked'[u] # Absent, tracked'[u].repo = g PROVE u = t
  BY <1>1, <1>3 DEF RowsSame, Live
<1> QED
  BY <1>1, <1>2, <1>3 DEF SettledAs, Live

LEMMA RowAsideStays ==
  ASSUME NEW g \in Repos, NEW t, RowAside(t, g), RowsSame(g)
  PROVE  RowAside(t, g)'
<1>1. ASSUME t \in RowIds, tracked'[t] # Absent, tracked'[t].repo = g PROVE FALSE
  BY <1>1 DEF RowsSame, RowAside, Live
<1> QED
  BY <1>1 DEF RowAside, Live

LEMMA IdleAside == ASSUME IInv, NEW g \in Repos PROVE Aside(Idle, g)
<1>1. name[g] \in Names
  BY DEF IInv, Types
<1> QED
  BY <1>1, RecordFacts, RowIdsFacts DEF Aside, Elsewhere, RowAside

(* One step of the only worker: a delivery that is being handled goes on   *)
(* or is done, and a repository that it does not concern is left alone.    *)
LEMMA WorkerTold ==
  ASSUME SingleWorker, IInv, NEW w \in Workers, NEW p \in ProcRecords, p = proc[w], NEW new \in ProcRecords,
         Goes(w, new), UNCHANGED <<name, inbox>>, NEW g \in Repos, Told(g),
         Handled(p, g) => Handled(new, g)' \/ (new = Idle /\ SettledAs(g)'),
         Aside(p, g) /\ SettledAs(g) =>
            /\ RowsSame(g) /\ (repo[g] = name[g] => repo'[g] = name[g])
            /\ new = Idle \/ Aside(new, g)'
  PROVE  Told(g)'
<1>1. proc'[w] = new /\ \A v \in Workers : v = w
  BY DEF SingleWorker, Goes, IInv, Types, Actors
<1>2. Clear(g) => Clear(g)'
  BY DEF Clear, Elsewhere
<1>3. Aside(Idle, g)'
  <2>1. Aside(Idle, g)
    BY IdleAside
  <2> QED
    BY <2>1, RecordFacts, RowIdsFacts DEF Aside, Elsewhere, RowAside, Live
<1>4. CASE Announced(g)
  BY <1>4 DEF Announced, Elsewhere, Told
<1>5. CASE Clear(g) /\ \E v \in Workers : Handled(proc[v], g)
  <2>1. Handled(p, g)
    BY <1>1, <1>5
  <2>2. CASE Handled(new, g)'
    <3>1. \E v \in Workers : Handled(proc[v], g)'
      BY <1>1, <2>2 DEF Handled
    <3> QED
      BY <1>2, <1>5, <3>1 DEF Told
  <2>3. CASE new = Idle /\ SettledAs(g)'
    <3>1. \A v \in Workers : Aside(proc[v], g)'
      BY <1>1, <1>3, <2>3 DEF Aside, Elsewhere, RowAside
    <3> QED
      BY <1>2, <1>5, <2>3, <3>1 DEF Told
  <2> QED
    BY <2>1, <2>2, <2>3
<1>6. CASE Clear(g) /\ (\A v \in Workers : Aside(proc[v], g)) /\ SettledAs(g)
  <2>1. Aside(p, g)
    BY <1>6
  <2>2. Aside(new, g)'
    BY <1>3, <1>6, <2>1 DEF Aside, Elsewhere, RowAside
  <2>3. \A v \in Workers : Aside(proc[v], g)'
    BY <1>1, <2>2 DEF Aside, Elsewhere, RowAside
  <2>4. SettledAs(g)'
    BY <1>6, <2>1, SettledStays
  <2> QED
    BY <1>2, <1>6, <2>3, <2>4 DEF Told
<1> QED
  BY <1>4, <1>5, <1>6 DEF Told

LEMMA WorkersTidyAfter ==
  ASSUME SingleWorker, IInv, NEW w \in Workers, NEW new \in ProcRecords, Goes(w, new), WorkOK(new)'
  PROVE  WorkersTidy'
<1>1. proc'[w] = new /\ \A v \in Workers : v = w
  BY DEF SingleWorker, Goes, IInv, Types, Actors
<1> QED
  BY <1>1 DEF WorkersTidy, WorkOK, NotYetOf

LEMMA IdleTidy == WorkOK(Idle) /\ WorkOK(Idle)'
  BY RecordFacts DEF WorkOK

(* Rows that go, or keep their repository and policy, stay tidy.           *)
LEMMA TidyKept ==
  ASSUME RowsTidy, UNCHANGED off,
         \A t \in Live' : t \in Live /\ tracked'[t].repo = tracked[t].repo /\ tracked'[t].enabled = tracked[t].enabled
  PROVE  RowsTidy'
  BY DEF RowsTidy, OneRowEach, SwitchedOff
-----------------------------------------------------------------------------
Orderly == RowsTidy /\ WorkersTidy /\ AllTold

LEMMA WorkerKnows ==
  ASSUME WorkersTidy, NEW w \in Workers, NEW p, p = proc[w]
  PROVE  WorkOK(p)
  BY DEF WorkersTidy

(* A row of the repository that has the name, or of none.                  *)
LEMMA NamedAside ==
  ASSUME NEW g \in Repos, SettledAs(g), NEW t \in Live, tracked[t].name # name[g]
  PROVE  tracked[t].repo # g
  BY DEF SettledAs

LEMMA ResolveTidy ==
  ASSUME SingleWorker, IInv, NInv, Orderly, NEW w \in Workers, ResolveTrackedRepository(w)
  PROVE  Orderly'
<1>0. Types /\ RowsTidy /\ WorkersTidy /\ AllTold /\ told \subseteq Repos /\ w \in Actors
  BY DEF IInv, Orderly, NInv, Actors
<1>1. PICK p, new \in ProcRecords, s, t \in {0} \cup RowIds : Resolves(w, p, new, s, t)
  BY <1>0, Resolved
<1>2. /\ p = proc[w] /\ ProcOK(w, p) /\ p.pc = "resolve" /\ Goes(w, new)
      /\ UNCHANGED <<name, repo, tracked, off, inbox>>
      /\ s # 0 => s \in Live /\ p.known # NoOne /\ tracked[s].repo = p.known
      /\ s = 0 /\ p.known # NoOne => \A u \in Live : tracked[u].repo # p.known
      /\ t # 0 => t \in Live /\ tracked[t].name = p.n
      /\ new.g = p.g /\ new.n = p.n /\ new.known = p.known /\ new.then = p.then
      /\ new.row = (IF s # 0 THEN s ELSE t) /\ new.copy = Row(new.row)
      /\ \/ /\ new.pc = "merge" /\ s # 0 /\ t # 0 /\ s # t
            /\ new.nameId = t /\ new.byName = tracked[t]
         \/ new.pc = p.then /\ ~(s # 0 /\ t # 0 /\ s # t)
  BY <1>1 DEF Resolves
<1>3. WorkOK(p)
  BY <1>0, <1>2, WorkerKnows
<1>4. p.then = "upsert" /\ NotYetOf(new)
  BY <1>2, <1>3 DEF WorkOK, NotYetOf
<1>5. ASSUME new.pc = "merge"
      PROVE  WorkOK(new) /\ new.pc # "state" /\ \A g \in Repos : Aside(p, g) /\ SettledAs(g) => Aside(new, g)
  <2>1. new.row = s /\ s \in Live /\ new.nameId = t /\ t \in Live /\ new.byName = tracked[t]
    BY <1>2, <1>4, <1>5
  <2>2. new.copy = tracked[s]
    BY <1>0, <1>2, <2>1, RowValue
  <2>3. WorkOK(new)
    BY <1>2, <1>4, <1>5, <2>1, <2>2 DEF WorkOK
  <2>4. ASSUME NEW g \in Repos, Aside(p, g), SettledAs(g) PROVE Aside(new, g)
    <3>1. tracked[t].name # name[g] /\ p.known # g /\ s # 0 /\ t # 0
      BY <1>2, <1>4, <1>5, <2>4 DEF Aside, Elsewhere
    <3>2. tracked[t].repo # g
      BY <2>1, <2>4, <3>1, NamedAside
    <3>3. tracked[s].repo # g
      BY <1>2, <3>1
    <3> QED
      BY <1>2, <2>1, <2>4, <3>2, <3>3 DEF Aside, Elsewhere, RowAside
  <2> QED
    BY <1>5, <2>3, <2>4
<1>6. ASSUME new.pc = "upsert"
      PROVE  WorkOK(new) /\ new.pc # "state" /\ \A g \in Repos : Aside(p, g) /\ SettledAs(g) => Aside(new, g)
  <2>1. new.row # 0 => new.row \in Live
    BY <1>2
  <2>2. ASSUME new.known # NoOne, NEW u \in Live, tracked[u].repo = new.known PROVE u = new.row
    <3>1. s # 0 /\ s \in Live /\ tracked[s].repo = p.known
      BY <1>2, <2>2
    <3> QED
      BY <1>0, <1>2, <2>2, <3>1 DEF RowsTidy, OneRowEach
  <2>3. WorkOK(new)
    BY <1>2, <1>4, <1>6, <2>1, <2>2 DEF WorkOK
  <2>4. ASSUME NEW g \in Repos, Aside(p, g), SettledAs(g) PROVE Aside(new, g)
    <3>1. RowAside(new.row, g)
      <4>1. CASE s # 0
        BY <1>2, <2>4, <4>1 DEF Aside, RowAside
      <4>2. CASE s = 0
        <5>1. new.row = t /\ (t \in Live => tracked[t].name # name[g])
          BY <1>2, <2>4, <4>2, RowIdsFacts DEF Aside, Elsewhere
        <5> QED
          BY <2>4, <5>1, NamedAside DEF RowAside
      <4> QED
        BY <4>1, <4>2
    <3> QED
      BY <1>2, <1>6, <2>4, <3>1 DEF Aside, Elsewhere
  <2> QED
    BY <1>6, <2>3, <2>4
<1>7. WorkOK(new) /\ new.pc # "state" /\ \A g \in Repos : Aside(p, g) /\ SettledAs(g) => Aside(new, g)
  BY <1>2, <1>4, <1>5, <1>6
<1>8. WorkersTidy'
  <2>1. WorkOK(new)'
    BY <1>2, <1>7 DEF WorkOK, NotYetOf, Live
  <2> QED
    BY <1>2, <2>1, WorkersTidyAfter
<1>9. RowsTidy'
  BY <1>0, <1>2, TidyKept DEF Live
<1>10. ASSUME NEW g \in Repos, Told(g) PROVE Told(g)'
  <2>1. Handled(p, g) => Handled(new, g)'
    BY <1>2, <1>7 DEF Handled
  <2>2. Aside(p, g) /\ SettledAs(g) => RowsSame(g) /\ Aside(new, g)'
    BY <1>2, <1>7 DEF Aside, Elsewhere, RowAside, RowsSame, Live
  <2> QED
    BY <1>2, <1>10, <2>1, <2>2, WorkerTold
<1>11. UNCHANGED told
  BY DEF ResolveTrackedRepository, outside
<1> QED
  BY <1>0, <1>8, <1>9, <1>10, <1>11 DEF Orderly, AllTold

LEMMA MergeTidy ==
  ASSUME SingleWorker, IInv, NInv, Orderly, NEW w \in Workers, MergeTrackedRepositoryMatches(w)
  PROVE  Orderly'
<1>0. Types /\ RowsTidy /\ WorkersTidy /\ AllTold /\ told \subseteq Repos /\ w \in Actors
  BY DEF IInv, Orderly, NInv, Actors
<1>1. PICK p, new \in ProcRecords, r \in RowRecords : Merges(w, p, new, r)
  BY <1>0, Merged
<1>2. /\ p = proc[w] /\ ProcOK(w, p) /\ p.pc = "merge" /\ Goes(w, new)
      /\ UNCHANGED <<name, repo, off, inbox>>
      /\ r.name = p.n /\ r.repo = p.known /\ r.enabled = p.copy.enabled
      /\ \A t \in RowIds : tracked'[t] = IF t = p.nameId THEN Absent
                                         ELSE IF t = p.row /\ p.row \in Live THEN r ELSE tracked[t]
      /\ Live' = Live \ {p.nameId}
      /\ new.g = p.g /\ new.n = p.n /\ new.known = p.known /\ new.then = p.then /\ new.row = p.row
      /\ new.pc = IF p.row \in Live THEN p.then ELSE "gone"
  BY <1>1, Zenon DEF Merges
<1>3. WorkOK(p)
  BY <1>0, <1>2, WorkerKnows
<1>4. /\ p.row \in Live /\ p.copy = tracked[p.row] /\ p.nameId \in Live /\ NotYetOf(p) /\ new.pc = "upsert"
      /\ p.row \in RowIds /\ p.nameId \in RowIds /\ p.row # p.nameId
      /\ p.copy.repo = p.known /\ p.known # NoOne
  BY <1>2, <1>3, RowIdsFacts, RecordFacts DEF WorkOK, ProcOK
<1>5. /\ tracked'[p.row] = r /\ tracked'[p.nameId] = Absent
      /\ \A t \in RowIds \ {p.row, p.nameId} : tracked'[t] = tracked[t]
  BY <1>2, <1>4
<1>6. \A t \in Live' : t \in Live /\ tracked'[t].repo = tracked[t].repo /\ tracked'[t].enabled = tracked[t].enabled
  BY <1>2, <1>4, <1>5, RowIdsFacts
<1>7. RowsTidy'
  BY <1>0, <1>2, <1>6, TidyKept
<1>8. WorkersTidy'
  <2>1. NotYetOf(new)'
    BY <1>2, <1>4, <1>6 DEF NotYetOf
  <2>2. \A t \in Live' : tracked'[t].repo = p.known => t = p.row
    BY <1>0, <1>4, <1>6 DEF RowsTidy, OneRowEach
  <2>3. p.row \in Live'
    BY <1>2, <1>4
  <2>4. WorkOK(new)'
    BY <1>2, <1>4, <2>1, <2>2, <2>3 DEF WorkOK
  <2> QED
    BY <1>2, <2>4, WorkersTidyAfter
<1>9. ASSUME NEW g \in Repos, Told(g) PROVE Told(g)'
  <2>1. Handled(p, g) => Handled(new, g)'
    BY <1>2, <1>4 DEF Handled
  <2>2. ASSUME Aside(p, g) PROVE RowsSame(g) /\ Aside(new, g)'
    <3>1. tracked[p.row].repo # g /\ tracked[p.nameId].repo # g /\ p.known # g
      BY <1>2, <1>4, <2>2 DEF Aside, RowAside
    <3>2. Absent.repo # g
      BY RecordFacts
    <3>3. RowsSame(g)
      BY <1>2, <1>5, <3>1, <3>2 DEF RowsSame
    <3>4. RowAside(p.row, g)'
      BY <2>2, <3>3, RowAsideStays DEF Aside
    <3> QED
      BY <1>2, <1>4, <2>2, <3>3, <3>4 DEF Aside, Elsewhere
  <2> QED
    BY <1>2, <1>9, <2>1, <2>2, WorkerTold
<1>10. UNCHANGED told
  BY DEF MergeTrackedRepositoryMatches, outside
<1> QED
  BY <1>0, <1>7, <1>8, <1>9, <1>10 DEF Orderly, AllTold
-----------------------------------------------------------------------------
(* A row is written, or added, for the delivery the worker has.            *)
LEMMA WriterTidy ==
  ASSUME SingleWorker, IInv, NInv, Orderly, NEW w \in Workers, NEW p \in ProcRecords, NEW new \in ProcRecords,
         NEW t \in RowIds, NEW r \in RowRecords,
         Writes(w, p, new, t, r), UNCHANGED <<off, told>>, p.pc = "upsert", new.pc = "project",
         p.row # 0 => t = p.row,
         p.row = 0 /\ t \in Live => tracked[t].name = p.n,
         r.repo = (IF p.known = NoOne THEN tracked[t].repo ELSE p.known),
         r.enabled \/ (t \in Live /\ r.enabled = tracked[t].enabled),
         ~r.enabled => r.repo = p.g,
         new.row = t, new.copy = r, new.g = p.g, new.n = p.n, new.known = p.known
  PROVE  Orderly'
<1>0. Types /\ RowsTidy /\ WorkersTidy /\ AllTold /\ told \subseteq Repos /\ w \in Actors
  BY DEF IInv, Orderly, NInv, Actors
<1>2. /\ p = proc[w] /\ ProcOK(w, p) /\ Goes(w, new) /\ UNCHANGED <<name, repo, inbox>>
      /\ tracked' = [tracked EXCEPT ![t] = r] /\ r.name = p.n
  BY DEF Writes
<1>3. WorkOK(p)
  BY <1>0, <1>2, WorkerKnows
<1>4. /\ NotYetOf(p) /\ p.g \in Repos /\ p.n # NoOne
      /\ p.known # NoOne => \A u \in Live : tracked[u].repo = p.known => u = t
  <2>1. p.g \in Repos /\ p.n # NoOne
    BY <1>2, RecordFacts DEF ProcOK
  <2>2. NotYetOf(p) /\ (p.known # NoOne => \A u \in Live : tracked[u].repo = p.known => u = p.row)
    BY <1>3 DEF WorkOK
  <2>3. ASSUME p.known # NoOne, NEW u \in Live, tracked[u].repo = p.known PROVE u = t
    BY <2>2, <2>3, RowIdsFacts
  <2> QED
    BY <2>1, <2>2, <2>3
<1>5. /\ tracked'[t] = r /\ (\A u \in RowIds \ {t} : tracked'[u] = tracked[u])
      /\ Live' = Live \cup {t} /\ (t \notin Live => tracked[t].repo = NoOne)
  <2>1. tracked'[t] = r /\ (\A u \in RowIds \ {t} : tracked'[u] = tracked[u])
    BY <1>0, <1>2 DEF Types
  <2>2. r # Absent
    BY <1>2, <1>4, RecordFacts
  <2>3. t \notin Live => tracked[t].repo = NoOne
    BY RecordFacts DEF Live
  <2> QED
    BY <2>1, <2>2, <2>3 DEF Live
<1>6. NoOne \notin Repos /\ \A u \in Live : u \in RowIds
  BY RecordFacts, RowIdsFacts
<1>7. RowsTidy'
  <2>1. ASSUME NEW u \in Live', u # t, r.repo # NoOne, tracked'[u].repo = r.repo PROVE FALSE
    <3>1. u \in Live /\ tracked'[u] = tracked[u]
      BY <1>5, <1>6, <2>1
    <3>2. CASE p.known # NoOne
      BY <1>4, <2>1, <3>1, <3>2
    <3>3. CASE p.known = NoOne
      BY <1>0, <1>5, <2>1, <3>1, <3>3 DEF RowsTidy, OneRowEach
    <3> QED
      BY <3>2, <3>3
  <2>2. OneRowEach'
    BY <1>0, <1>5, <1>6, <2>1 DEF RowsTidy, OneRowEach
  <2>3. SwitchedOff'
    BY <1>0, <1>4, <1>5, <1>6 DEF RowsTidy, SwitchedOff
  <2> QED
    BY <2>2, <2>3 DEF RowsTidy
<1>8. \A u \in Live' : tracked'[u].repo = p.g => u = t
  <2>1. ASSUME NEW u \in Live', tracked'[u].repo = p.g, u # t PROVE FALSE
    <3>1. u \in Live /\ tracked[u].repo = p.g
      BY <1>5, <1>6, <2>1
    <3> QED
      BY <1>4, <1>6, <2>1, <3>1 DEF NotYetOf
  <2> QED
    BY <2>1
<1>9. WorkersTidy'
  <2>1. WorkOK(new)'
    BY <1>2, <1>5, <1>8 DEF WorkOK
  <2> QED
    BY <1>2, <2>1, WorkersTidyAfter
<1>10. ASSUME NEW g \in Repos, Told(g) PROVE Told(g)'
  <2>1. Handled(p, g) => Handled(new, g)'
    BY <1>2 DEF Handled
  <2>2. ASSUME Aside(p, g), SettledAs(g)
        PROVE  RowsSame(g) /\ Aside(new, g)'
    <3>1. tracked[t].repo # g
      <4>1. CASE t \notin Live
        BY <1>5, <1>6, <4>1
      <4>2. CASE t \in Live /\ p.row # 0
        BY <2>2, <4>2 DEF Aside, RowAside
      <4>3. CASE t \in Live /\ p.row = 0
        BY <2>2, <4>3, NamedAside DEF Aside, Elsewhere
      <4> QED
        BY <4>1, <4>2, <4>3
    <3>2. r.repo # g
      BY <2>2, <3>1 DEF Aside
    <3>3. RowsSame(g)
      BY <1>5, <3>1, <3>2 DEF RowsSame
    <3>4. RowAside(new.row, g)'
      BY <1>5, <3>2 DEF RowAside
    <3> QED
      BY <1>2, <2>2, <3>3, <3>4 DEF Aside, Elsewhere
  <2> QED
    BY <1>2, <1>10, <2>1, <2>2, WorkerTold
<1> QED
  BY <1>0, <1>7, <1>9, <1>10 DEF Orderly, AllTold

LEMMA UpsertTidy ==
  ASSUME SingleWorker, IInv, NInv, Orderly, ~crossed => FollowInv, ~Excused,
         NEW w \in Workers, UpsertTracked(w)
  PROVE  Orderly'
<1>0. Types /\ RowsTidy /\ w \in Actors
  BY DEF IInv, Orderly, Actors
<1>1. PICK p, new \in ProcRecords, t \in RowIds, r \in RowRecords :
           /\ Writes(w, p, new, t, r) /\ p.pc = "upsert" /\ t \in Live /\ UNCHANGED off
           /\ p.row # 0 => t = p.row
           /\ p.row = 0 => tracked[t].name = p.n
           /\ r.repo = (IF p.known = NoOne THEN tracked[t].repo ELSE p.known) /\ r.enabled = tracked[t].enabled
           /\ new.pc = "project" /\ new.row = t /\ new.copy = r /\ new.g = p.g /\ new.n = p.n
           /\ new.known = p.known
  BY UpsertTrackedWrites
<1>2. p = proc[w] /\ ProcOK(w, p)
  BY <1>1 DEF Writes
<1>3. p.g \in Repos /\ p.n \in FullNames
  BY <1>1, <1>2 DEF ProcOK
<1>4. ASSUME ~r.enabled PROVE r.repo = p.g
  <2>1. tracked[t].repo # NoOne /\ off # {}
    BY <1>0, <1>1, <1>4 DEF RowsTidy, SwitchedOff
  <2>2. FollowInv
    BY <2>1 DEF Excused
  <2>3. ProcFollows(p) /\ OneOwner /\ Knows(p.n, p.g)
    BY <1>0, <1>2, <2>2, KnownNow DEF FollowInv, ProcsFollow
  <2>4. CASE p.known # NoOne
    BY <1>1, <2>3, <2>4 DEF ProcFollows
  <2>5. CASE p.known = NoOne /\ p.row # 0
    <3>1. RowOf(t, p.g, p.n)
      BY <1>1, <2>3, <2>5 DEF ProcFollows, Matched
    <3>2. t # 0 /\ tracked[t] # Absent
      BY <1>1, RowIdsFacts DEF Live
    <3> QED
      BY <1>1, <2>1, <2>5, <3>1, <3>2 DEF RowOf
  <2>6. CASE p.known = NoOne /\ p.row = 0
    <3>1. tracked[t].repo \in {NoOne, p.g}
      BY <1>1, <1>3, <2>3, <2>6, NamedRowOf
    <3> QED
      BY <1>1, <2>1, <2>6, <3>1
  <2> QED
    BY <2>4, <2>5, <2>6
<1>5. UNCHANGED told
  BY DEF UpsertTracked, outside
<1> QED
  BY <1>1, <1>4, <1>5, WriterTidy

LEMMA InsertTidy ==
  ASSUME SingleWorker, IInv, NInv, Orderly, NEW w \in Workers, InsertTracked(w)
  PROVE  Orderly'
<1>1. PICK p, new \in ProcRecords, r \in RowRecords :
           /\ nextRow \in RowIds /\ Writes(w, p, new, nextRow, r) /\ p.pc = "upsert" /\ UNCHANGED off
           /\ p.row = 0 /\ r.repo = p.known /\ r.enabled
           /\ new.pc = "project" /\ new.row = nextRow /\ new.copy = r /\ new.g = p.g /\ new.n = p.n
           /\ new.known = p.known
  BY InsertTrackedWrites
<1>2. PICK t \in RowIds : t = nextRow
  BY <1>1
<1>3. t \notin Live
  BY <1>2, RowIdsFacts DEF IInv, RowsOK
<1>4. tracked[t].repo = NoOne
  BY <1>3, RecordFacts DEF Live
<1>5. UNCHANGED told
  BY DEF InsertTracked, outside
<1>6. Writes(w, p, new, t, r) /\ new.row = t
  BY <1>1, <1>2
<1> QED
  BY <1>1, <1>3, <1>4, <1>5, <1>6, WriterTidy

LEMMA ProjectTidy ==
  ASSUME SingleWorker, IInv, NInv, Orderly, NEW w \in Workers, ProjectRepository(w)
  PROVE  Orderly'
<1>0. Types /\ RowsTidy /\ WorkersTidy /\ AllTold /\ told \subseteq Repos /\ w \in Actors
  BY DEF IInv, Orderly, NInv, Actors
<1>1. PICK p, new \in ProcRecords : Projects(w, p, new)
  BY Projected
<1>2. /\ p = proc[w] /\ ProcOK(w, p) /\ p.pc = "project" /\ Goes(w, new)
      /\ UNCHANGED <<name, tracked, inbox, off>>
  BY <1>1 DEF Projects
<1>3. WorkOK(p)
  BY <1>0, <1>2, WorkerKnows
<1>4. /\ p.row \in Live /\ p.copy = tracked[p.row] /\ p.copy.name = p.n
      /\ \A t \in Live : tracked[t].repo = p.g => t = p.row
      /\ ~p.copy.enabled => p.copy.repo = p.g
  BY <1>2, <1>3 DEF WorkOK
<1>5. RowsTidy'
  BY <1>0, <1>2, TidyKept DEF Live
<1>6. UNCHANGED told
  BY DEF ProjectRepository, outside
<1>7. \A g \in Repos : RowsSame(g)
  BY <1>2 DEF RowsSame
<1>8. CASE ~p.copy.enabled /\ repo' = repo /\ new = Idle
  <2>1. WorkersTidy'
    BY <1>2, <1>8, IdleTidy, WorkersTidyAfter
  <2>2. ASSUME NEW g \in Repos, Told(g) PROVE Told(g)'
    <3>1. ASSUME Handled(p, g) PROVE SettledAs(g)'
      <4>1. SettledAs(g)
        BY <1>4, <1>8, <3>1 DEF SettledAs, Handled
      <4> QED
        BY <1>2, <1>7, <1>8, <4>1, SettledStays
    <3> QED
      BY <1>2, <1>7, <1>8, <2>2, <3>1, WorkerTold
  <2> QED
    BY <1>0, <1>5, <1>6, <2>1, <2>2 DEF Orderly, AllTold
<1>9. CASE /\ p.copy.enabled /\ repo' = Claimed(p.g, p.n)
           /\ new.pc = "state" /\ new.row = p.row /\ new.g = p.g /\ new.n = p.n /\ new.copy = p.copy
           /\ new.known = p.known
  <2>1. WorkersTidy'
    <3>1. WorkOK(new)'
      BY <1>2, <1>4, <1>9 DEF WorkOK, Live
    <3> QED
      BY <1>2, <3>1, WorkersTidyAfter
  <2>2. \A g \in Repos : repo'[g] = IF g = p.g THEN p.n
                                    ELSE IF repo[g] = p.n THEN [released |-> g, was |-> p.n] ELSE repo[g]
    BY <1>9 DEF Claimed
  <2>3. ASSUME NEW g \in Repos, Told(g) PROVE Told(g)'
    <3>1. Handled(p, g) => Handled(new, g)'
      BY <1>2, <1>9, <2>2 DEF Handled
    <3>2. ASSUME Aside(p, g) PROVE (repo[g] = name[g] => repo'[g] = name[g]) /\ Aside(new, g)'
      <4>1. repo[g] = name[g] => repo'[g] = name[g]
        BY <2>2, <3>2 DEF Aside, Elsewhere
      <4> QED
        BY <1>2, <1>9, <3>2, <4>1 DEF Aside, Elsewhere, RowAside, Live
    <3> QED
      BY <1>2, <1>7, <2>3, <3>1, <3>2, WorkerTold
  <2> QED
    BY <1>0, <1>5, <1>6, <2>1, <2>3 DEF Orderly, AllTold
<1> QED
  BY <1>1, <1>8, <1>9 DEF Projects

LEMMA StateTidy ==
  ASSUME SingleWorker, IInv, NInv, Orderly, NEW w \in Workers, UpdateProjectionState(w)
  PROVE  Orderly'
<1>0. Types /\ RowsTidy /\ WorkersTidy /\ AllTold /\ told \subseteq Repos /\ w \in Actors
  BY DEF IInv, Orderly, NInv, Actors
<1>1. PICK p \in ProcRecords :
           /\ p = proc[w] /\ ProcOK(w, p) /\ p.pc = "state" /\ Goes(w, Idle) /\ UNCHANGED off
           /\ \/ p.row \notin Live
              \/ \E r \in RowRecords :
                    /\ Writes(w, p, Idle, p.row, r) /\ p.row \in Live /\ p.row \in RowIds
                    /\ r.repo \in {p.g, tracked[p.row].repo} /\ (p.copy.repo # p.g => r.repo = p.g)
                    /\ r.enabled = tracked[p.row].enabled
  BY UpdateProjectionStateWrites
<1>2. WorkOK(p)
  BY <1>0, <1>1, WorkerKnows
<1>3. /\ p.row \in Live /\ p.copy = tracked[p.row] /\ p.copy.enabled
      /\ \A t \in Live : tracked[t].repo = p.g => t = p.row
  BY <1>1, <1>2 DEF WorkOK
<1>4. PICK r \in RowRecords :
        /\ Writes(w, p, Idle, p.row, r) /\ p.row \in RowIds
        /\ r.repo = p.g /\ r.enabled
  BY <1>1, <1>3
<1>5. UNCHANGED <<name, repo, inbox>> /\ tracked' = [tracked EXCEPT ![p.row] = r] /\ r.name = p.n
  BY <1>4 DEF Writes
<1>6. p.g \in Repos /\ p.n # NoOne
  BY <1>1, RecordFacts DEF ProcOK
<1>7. /\ tracked'[p.row] = r /\ (\A u \in RowIds \ {p.row} : tracked'[u] = tracked[u])
      /\ Live' = Live
  <2>1. tracked'[p.row] = r /\ (\A u \in RowIds \ {p.row} : tracked'[u] = tracked[u])
    BY <1>0, <1>4, <1>5 DEF Types
  <2>2. r # Absent
    BY <1>5, <1>6, RecordFacts
  <2> QED
    BY <1>3, <2>1, <2>2 DEF Live
<1>8. \A u \in Live : u \in RowIds
  BY RowIdsFacts
<1>9. \A u \in Live' : tracked'[u].repo = p.g => u = p.row
  BY <1>3, <1>7, <1>8
<1>10. RowsTidy'
  <2>1. OneRowEach'
    BY <1>0, <1>4, <1>7, <1>8, <1>9 DEF RowsTidy, OneRowEach
  <2>2. SwitchedOff'
    BY <1>0, <1>1, <1>4, <1>7, <1>8 DEF RowsTidy, SwitchedOff
  <2> QED
    BY <2>1, <2>2 DEF RowsTidy
<1>11. WorkersTidy'
  BY <1>1, RecordFacts, IdleTidy, WorkersTidyAfter
<1>12. ASSUME NEW g \in Repos, Told(g) PROVE Told(g)'
  <2>1. ASSUME Handled(p, g) PROVE SettledAs(g)'
    <3>1. p.g = g /\ p.n = name[g] /\ repo[g] = name[g]
      BY <1>1, <2>1 DEF Handled
    <3> QED
      BY <1>3, <1>4, <1>5, <1>7, <1>9, <3>1 DEF SettledAs
  <2>2. ASSUME Aside(p, g) PROVE RowsSame(g)
    BY <1>3, <1>4, <1>7, <2>2 DEF Aside, Elsewhere, RowAside, RowsSame
  <2> QED
    BY <1>1, <1>5, <1>12, <2>1, <2>2, RecordFacts, WorkerTold
<1>13. UNCHANGED told
  BY DEF UpdateProjectionState, outside
<1> QED
  BY <1>0, <1>10, <1>11, <1>12, <1>13 DEF Orderly, AllTold
-----------------------------------------------------------------------------
(* The first of the deliveries is taken: one that was announced moves up   *)
(* or is the one the worker has now.                                       *)
LEMMA TakeTidy ==
  ASSUME SingleWorker, IInv, NInv, Orderly, ~crossed => FollowInv, ~Excused,
         NEW w \in Workers, ProcessWebhookDelivery(w)
  PROVE  Orderly'
<1>0. Types /\ RowsOK /\ RowsTidy /\ WorkersTidy /\ AllTold /\ told \subseteq Repos /\ w \in Actors
  BY DEF IInv, Orderly, NInv, Actors
<1>1. PICK d \in Deliveries, new \in ProcRecords : Takes(w, d, new)
  BY Taken
<1>2. /\ proc[w] = Idle /\ Goes(w, new)
      /\ inbox # <<>> /\ d = Head(inbox) /\ inbox' = Tail(inbox)
      /\ UNCHANGED <<name, repo, tracked, off>>
      /\ new.pc = "resolve" /\ new.then = "upsert" /\ new.g = d.g /\ new.n = d.n /\ new.row = 0
      /\ Stored(d.g) => new.known = d.g
      /\ new.known \in {NoOne, d.g} \/ repo[new.known] = d.n
  BY <1>1 DEF Takes
<1>3. d.g \in Repos /\ d.n \in Names /\ d.g # NoOne
  BY RecordFacts DEF Deliveries
<1>4. /\ 1 \in DOMAIN inbox /\ inbox[1] = d /\ DOMAIN inbox \subseteq Nat
      /\ \A k \in DOMAIN inbox' : k + 1 \in DOMAIN inbox /\ inbox'[k] = inbox[k + 1]
      /\ \A i \in DOMAIN inbox : i # 1 => i - 1 \in DOMAIN inbox' /\ inbox'[i - 1] = inbox[i]
  <2>1. inbox \in Seq(Deliveries)
    BY <1>0 DEF Types
  <2>2. /\ Len(Tail(inbox)) = Len(inbox) - 1 /\ Tail(inbox) \in Seq(Deliveries) /\ Head(inbox) = inbox[1]
        /\ \A i \in 1 .. Len(Tail(inbox)) : Tail(inbox)[i] = inbox[i + 1]
    BY <1>2, <2>1, HeadTailProperties
  <2>3. Len(inbox) \in Nat /\ Len(inbox) > 0 /\ DOMAIN inbox = 1 .. Len(inbox)
        /\ DOMAIN inbox' = 1 .. Len(inbox')
    BY <1>2, <2>1, <2>2, LenProperties, EmptySeq
  <2> QED
    BY <1>2, <2>2, <2>3
<1>5. proc'[w] = new /\ \A v \in Workers : v = w
  BY <1>0, <1>2 DEF SingleWorker, Goes, Types
<1>6. RowsTidy'
  BY <1>0, <1>2, TidyKept DEF Live
<1>7. WorkersTidy'
  <2>1. NotYetOf(new)
    BY <1>0, <1>2, <1>3 DEF NotYetOf, RowsOK
  <2>2. WorkOK(new)'
    BY <1>2, <2>1 DEF WorkOK, NotYetOf, Live
  <2> QED
    BY <1>2, <2>2, WorkersTidyAfter
<1>8. ASSUME NEW g \in Repos, Told(g) PROVE Told(g)'
  <2>1. ASSUME Clear(g) PROVE Elsewhere(d, g) /\ Clear(g)'
    BY <1>2, <1>4, <2>1 DEF Clear, Elsewhere
  <2>2. CASE Announced(g)
    <3>1. PICK i \in DOMAIN inbox : /\ inbox[i].g = g /\ inbox[i].n = name[g]
                                    /\ \A k \in DOMAIN inbox : i < k => Elsewhere(inbox[k], g)
      BY <2>2 DEF Announced
    <3>2. CASE i = 1
      <4>1. Handled(new, g)'
        BY <1>2, <1>4, <3>1, <3>2 DEF Handled
      <4>2. Clear(g)'
        <5>1. ASSUME NEW k \in DOMAIN inbox' PROVE inbox'[k].g # g /\ inbox'[k].n # name'[g]
          <6>1. k + 1 \in DOMAIN inbox /\ inbox'[k] = inbox[k + 1] /\ k + 1 # 1
            <7>1. k \in Nat /\ k # 0
              <8>1. inbox' \in Seq(Deliveries)
                BY <1>1 DEF Takes
              <8> QED
                BY <8>1, LenProperties
            <7> QED
              BY <1>4, <7>1
          <6>2. 1 < k + 1
            BY <1>4, <6>1, <1>0, LenProperties DEF Types
          <6> QED
            BY <1>2, <3>1, <3>2, <6>1, <6>2 DEF Elsewhere
        <5> QED
          BY <5>1 DEF Clear, Elsewhere
      <4> QED
        BY <1>5, <4>1, <4>2 DEF Told, Handled
    <3>3. CASE i # 1
      <4>1. i - 1 \in DOMAIN inbox' /\ inbox'[i - 1] = inbox[i] /\ i \in Nat
        BY <1>4, <3>3
      <4>2. ASSUME NEW k \in DOMAIN inbox', i - 1 < k PROVE inbox'[k].g # g /\ inbox'[k].n # name'[g]
        <5>1. k + 1 \in DOMAIN inbox /\ inbox'[k] = inbox[k + 1] /\ i < k + 1
          <6>1. k \in Nat
            BY <1>1, LenProperties DEF Takes
          <6> QED
            BY <1>4, <4>1, <4>2, <6>1
        <5> QED
          BY <1>2, <3>1, <5>1 DEF Elsewhere
      <4>3. PICK m \in DOMAIN inbox' : m = i - 1
        BY <4>1
      <4>4. /\ inbox'[m].g = g /\ inbox'[m].n = name'[g]
            /\ \A k \in DOMAIN inbox' : m < k => inbox'[k].g # g /\ inbox'[k].n # name'[g]
        BY <1>2, <3>1, <4>1, <4>2, <4>3
      <4> QED
        BY <4>4 DEF Told, Announced, Elsewhere
    <3> QED
      BY <3>2, <3>3
  <2>3. CASE Clear(g) /\ \E v \in Workers : Handled(proc[v], g)
    <3>1. Idle.g = g
      BY <1>2, <1>5, <2>3 DEF Handled
    <3> QED
      BY <3>1, RecordFacts
  <2>4. CASE Clear(g) /\ (\A v \in Workers : Aside(proc[v], g)) /\ SettledAs(g)
    <3>1. g # d.g /\ name[g] # d.n
      BY <2>1, <2>4 DEF Elsewhere
    <3>2. ASSUME new.known = g PROVE FALSE
      <4>1. repo[g] = d.n /\ repo[g] # name[g]
        BY <1>2, <3>1, <3>2, RecordFacts
      <4>2. off # {}
        BY <1>0, <2>4, <4>1 DEF SettledAs, RowsTidy, SwitchedOff
      <4>3. OneOwner
        BY <4>2 DEF Excused, FollowInv
      <4>4. Knows(d.n, d.g) /\ Knows(d.n, g)
        BY <1>4, <4>1, KnownNow
      <4> QED
        BY <1>3, <3>1, <4>3, <4>4, RecordFacts DEF OneOwner
    <3>3. Aside(new, g)'
      BY <1>2, <3>1, <3>2, RowIdsFacts DEF Aside, Elsewhere, RowAside, Live
    <3>4. \A v \in Workers : Aside(proc[v], g)'
      BY <1>5, <3>3 DEF Aside, Elsewhere, RowAside
    <3>5. SettledAs(g)'
      BY <1>2, <2>4, SettledStays DEF RowsSame
    <3> QED
      BY <2>1, <2>4, <3>4, <3>5 DEF Told
  <2> QED
    BY <1>8, <2>2, <2>3, <2>4 DEF Told
<1>9. UNCHANGED told
  BY DEF ProcessWebhookDelivery, outside
<1> QED
  BY <1>0, <1>6, <1>7, <1>8, <1>9 DEF Orderly, AllTold

(* What GitHub does leaves the rows and the workers as they are.           *)
LEMMA WorkersUntouched ==
  ASSUME WorkersTidy, UNCHANGED <<proc, tracked>>
  PROVE  WorkersTidy'
  BY DEF WorkersTidy, WorkOK, NotYetOf, Live

LEMMA AsideUntouched ==
  ASSUME NEW g \in Repos, \A w \in Workers : Aside(proc[w], g), UNCHANGED <<proc, tracked>>, name'[g] = name[g]
  PROVE  \A w \in Workers : Aside(proc[w], g)'
  BY DEF Aside, Elsewhere, RowAside, Live

LEMMA HandleWebhookTidy ==
  ASSUME IInv, NInv, Orderly, NEW h \in Repos, NEW event \in Events, HandleWebhook(h, event)
  PROVE  Orderly'
<1>0. Types /\ RowsTidy /\ WorkersTidy /\ AllTold /\ told \subseteq Repos /\ Distinct
  BY DEF IInv, Orderly, NInv
<1>1. PICK n \in Names : n = name[h]
  BY <1>0 DEF Types
<1>2. PICK d : d = [g |-> h, n |-> n, event |-> event]
  OBVIOUS
<1>3. /\ told' = told \cup {h} /\ UNCHANGED <<name, tracked, proc, off>>
      /\ repo' = (IF event = "issues" THEN Claimed(h, n) ELSE repo)
      /\ inbox' = Append(inbox, d)
  BY <1>1, <1>2 DEF HandleWebhook, rows, history
<1>4. d \in Deliveries /\ d.g = h /\ d.n = n
  BY <1>1, <1>2 DEF Deliveries
<1>5. PICK last \in Nat : last = Len(inbox) + 1
  BY <1>0, LenProperties DEF Types
<1>6. /\ DOMAIN inbox' = DOMAIN inbox \cup {last} /\ inbox'[last] = d
      /\ \A k \in DOMAIN inbox : k \in Nat /\ k < last /\ inbox'[k] = inbox[k]
  <2>1. inbox \in Seq(Deliveries)
    BY <1>0 DEF Types
  <2>2. /\ Append(inbox, d) \in Seq(Deliveries) /\ Len(Append(inbox, d)) = Len(inbox) + 1
        /\ \A i \in 1 .. Len(inbox) : Append(inbox, d)[i] = inbox[i]
        /\ Append(inbox, d)[Len(inbox) + 1] = d
    BY <1>4, <2>1, AppendProperties
  <2>3. Len(inbox) \in Nat /\ DOMAIN inbox = 1 .. Len(inbox) /\ DOMAIN inbox' = 1 .. Len(inbox')
    BY <1>3, <2>1, <2>2, LenProperties
  <2> QED
    BY <1>3, <1>5, <2>2, <2>3
<1>7. RowsTidy' /\ WorkersTidy'
  BY <1>0, <1>3, TidyKept, WorkersUntouched DEF Live
<1>8. Told(h)'
  <2>1. \A k \in DOMAIN inbox' : ~(last < k)
    BY <1>5, <1>6
  <2>2. last \in DOMAIN inbox' /\ inbox'[last].g = h /\ inbox'[last].n = name'[h]
    BY <1>1, <1>3, <1>4, <1>6
  <2> QED
    BY <2>1, <2>2 DEF Told, Announced
<1>9. ASSUME NEW g \in Repos, g # h, Told(g) PROVE Told(g)'
  <2>1. name[g] # n /\ name'[g] = name[g]
    BY <1>0, <1>1, <1>3, <1>9 DEF Distinct
  <2>2. repo[g] = name[g] => repo'[g] = name[g]
    BY <1>3, <1>9, <2>1 DEF Claimed
  <2>3. Elsewhere(d, g)
    BY <1>4, <1>9, <2>1 DEF Elsewhere
  <2>4. CASE Announced(g)
    <3>1. PICK i \in DOMAIN inbox : /\ inbox[i].g = g /\ inbox[i].n = name[g]
                                    /\ \A k \in DOMAIN inbox : i < k => Elsewhere(inbox[k], g)
      BY <2>4 DEF Announced
    <3>2. /\ i \in DOMAIN inbox' /\ inbox'[i].g = g /\ inbox'[i].n = name'[g]
          /\ \A k \in DOMAIN inbox' : i < k => inbox'[k].g # g /\ inbox'[k].n # name'[g]
      BY <1>6, <2>1, <2>3, <3>1 DEF Elsewhere
    <3> QED
      BY <3>2 DEF Told, Announced, Elsewhere
  <2>5. ASSUME Clear(g) PROVE Clear(g)'
    BY <1>6, <2>1, <2>3, <2>5 DEF Clear, Elsewhere
  <2>6. CASE Clear(g) /\ \E w \in Workers : Handled(proc[w], g)
    <3>1. PICK w \in Workers : Handled(proc[w], g)
      BY <2>6
    <3>2. Handled(proc[w], g)'
      BY <1>3, <2>1, <2>2, <3>1 DEF Handled
    <3> QED
      BY <2>5, <2>6, <3>2 DEF Told
  <2>7. CASE Clear(g) /\ (\A w \in Workers : Aside(proc[w], g)) /\ SettledAs(g)
    <3>1. SettledAs(g)'
      BY <1>3, <2>2, <2>7, SettledStays DEF RowsSame
    <3>2. \A w \in Workers : Aside(proc[w], g)'
      BY <1>3, <2>1, <2>7, AsideUntouched
    <3> QED
      BY <2>5, <2>7, <3>1, <3>2 DEF Told
  <2> QED
    BY <1>9, <2>4, <2>6, <2>7 DEF Told
<1> QED
  BY <1>0, <1>3, <1>7, <1>8, <1>9 DEF Orderly, AllTold

LEMMA RenameTidy ==
  ASSUME IInv, NInv, Orderly, NEW h \in Repos, NEW n \in Names, Rename(h, n)
  PROVE  Orderly'
<1>0. Types /\ RowsTidy /\ WorkersTidy /\ AllTold /\ told \subseteq Repos /\ Distinct
  BY DEF IInv, Orderly, NInv
<1>1. told' = told \ {h} /\ name' = [name EXCEPT ![h] = n] /\ UNCHANGED <<repo, tracked, proc, off, inbox>>
  BY DEF Rename, rows, history
<1>2. RowsTidy' /\ WorkersTidy'
  BY <1>0, <1>1, TidyKept, WorkersUntouched DEF Live
<1>3. ASSUME NEW g \in Repos, g # h, Told(g) PROVE Told(g)'
  <2>1. name'[g] = name[g]
    BY <1>0, <1>1, <1>3 DEF Types
  <2>2. Announced(g) => Announced(g)'
    BY <1>1, <2>1 DEF Announced, Elsewhere
  <2>3. Clear(g) => Clear(g)'
    BY <1>1, <2>1 DEF Clear, Elsewhere
  <2>4. ASSUME NEW w \in Workers, Handled(proc[w], g) PROVE Handled(proc[w], g)'
    BY <1>1, <2>1, <2>4 DEF Handled
  <2>5. SettledAs(g) => SettledAs(g)'
    BY <1>1, <2>1 DEF SettledAs, Live
  <2>6. (\A w \in Workers : Aside(proc[w], g)) => \A w \in Workers : Aside(proc[w], g)'
    BY <1>1, <2>1, AsideUntouched
  <2> QED
    BY <1>3, <2>2, <2>3, <2>4, <2>5, <2>6 DEF Told
<1> QED
  BY <1>0, <1>1, <1>2, <1>3 DEF Orderly, AllTold
-----------------------------------------------------------------------------
GitHub ==
    \E g \in Repos : \/ \E n \in Names : Rename(g, n)
                     \/ \E event \in {"issues", "push"} : HandleWebhook(g, event)
Worker ==
    \E w \in Workers : \/ ResolveTrackedRepository(w) \/ MergeTrackedRepositoryMatches(w)
                       \/ ProcessWebhookDelivery(w) \/ UpsertTracked(w) \/ InsertTracked(w)
                       \/ ProjectRepository(w) \/ UpdateProjectionState(w)

(* A history that stays steady is one of GitHub and the workers alone.     *)
LEMMA SteadySteps ==
  ASSUME IInv, NInv, Next, steady'
  PROVE  steady /\ (GitHub \/ Worker)
<1>1. CASE \E g \in Repos : EnqueueRepositoryRefresh(g) \/ StartSync(g) \/ TurnOff(g)
  BY <1>1 DEF EnqueueRepositoryRefresh, StartSync, TurnOff
<1>2. CASE \E w \in Workers : DeliveryFails(w)
  BY <1>2 DEF DeliveryFails
<1>3. CASE GitHub
  BY <1>3 DEF GitHub, Rename, HandleWebhook, history
<1>4. CASE Worker
  BY <1>4 DEF Worker, ResolveTrackedRepository, MergeTrackedRepositoryMatches, ProcessWebhookDelivery,
     UpsertTracked, InsertTracked, ProjectRepository, UpdateProjectionState, history
<1>5. ASSUME \/ \E j \in jobs : StartJob(j)
             \/ UpsertRepository \/ KeepPolicy \/ UpsertTrackedRepository
             \/ MarkJobSucceeded \/ MarkBackfilled \/ ReadFails
             \/ ResolveTrackedRepository(Reader) \/ MergeTrackedRepositoryMatches(Reader)
      PROVE  FALSE
  <2>1. steady
    BY <1>5 DEF StartJob, UpsertRepository, KeepPolicy, UpsertTrackedRepository, MarkJobSucceeded,
       MarkBackfilled, ReadFails, ResolveTrackedRepository, MergeTrackedRepositoryMatches, history
  <2>2. jobs = {} /\ proc[Reader].pc = "idle"
    BY <2>1, RecordFacts DEF NInv
  <2> QED
    BY <1>5, <2>2 DEF UpsertRepository, KeepPolicy, UpsertTrackedRepository, MarkJobSucceeded,
       MarkBackfilled, ReadFails, ResolveTrackedRepository, MergeTrackedRepositoryMatches, Blocked
<1> QED
  BY <1>1, <1>2, <1>3, <1>4, <1>5, Zenon DEF Next, GitHub, Worker, Actors

LEMMA InitNInv == Init => NInv
<1> SUFFICES ASSUME Init PROVE NInv
  OBVIOUS
<1>1. /\ Distinct /\ told = {} /\ jobs = {} /\ proc = [a \in Actors |-> Idle] /\ inbox = <<>>
  BY DEF Init, Distinct
<1>2. PICK f \in [Repos -> {0} \cup RowIds], k \in {0} \cup RowIds :
           /\ \A g \in Repos : f[g] # 0 =>
                 f[g] \in Live /\ tracked[f[g]].repo = g
                 /\ (tracked[f[g]].enabled <=> g \notin off)
           /\ \A t \in Live : \E g \in Repos : f[g] = t /\ t \in 1 .. k
  BY InitTables
<1>3. \A t \in Live : \E g \in Repos : f[g] = t /\ tracked[t].repo = g /\ (tracked[t].enabled <=> g \notin off)
  BY <1>2, RowIdsFacts
<1>4. OneRowEach
  BY <1>3 DEF OneRowEach
<1>5. SwitchedOff
  BY <1>3, RecordFacts DEF SwitchedOff
<1>6. WorkersTidy
  BY <1>1, IdleTidy DEF WorkersTidy, Actors
<1> QED
  BY <1>1, <1>4, <1>5, <1>6, ReaderActs DEF NInv, RowsTidy, AllTold

LEMMA NextNInv ==
  ASSUME SingleWorker, IInv, ~crossed => FollowInv, NInv, [Next]_vars
  PROVE  NInv'
<1>0. Types /\ Distinct /\ told \subseteq Repos
  BY DEF IInv, NInv
<1>1. CASE UNCHANGED vars
  <2>1. UNCHANGED <<name, told, inbox, repo, tracked, jobs, proc, off, crossed, steady>>
    BY <1>1 DEF vars
  <2>2. Distinct' /\ (RowsTidy => RowsTidy') /\ (WorkersTidy => WorkersTidy')
    BY <1>0, <2>1, TidyKept, WorkersUntouched DEF Distinct, Live
  <2>3. ASSUME NEW g \in Repos, Told(g) PROVE Told(g)'
    <3>1. /\ Announced(g) => Announced(g)'
          /\ Clear(g) => Clear(g)'
          /\ SettledAs(g) => SettledAs(g)'
      BY <2>1 DEF Announced, Clear, Elsewhere, SettledAs, Live
    <3>2. ASSUME NEW w \in Workers, Handled(proc[w], g) PROVE Handled(proc[w], g)'
      BY <2>1, <3>2 DEF Handled
    <3>3. (\A w \in Workers : Aside(proc[w], g)) => \A w \in Workers : Aside(proc[w], g)'
      BY <2>1, AsideUntouched
    <3> QED
      BY <2>3, <3>1, <3>2, <3>3 DEF Told
  <2>4. AllTold => AllTold'
    BY <1>0, <2>1, <2>3 DEF AllTold
  <2> QED
    BY <2>1, <2>2, <2>4 DEF NInv, Excused
<1>2. ASSUME Next PROVE Distinct' /\ told' \subseteq Repos
  <2>1. CASE \E g \in Repos, n \in Names : Rename(g, n)
    <3>1. PICK g \in Repos, n \in Names : Rename(g, n)
      BY <2>1
    <3>2. told' = told \ {g} /\ name' = [name EXCEPT ![g] = n] /\ \A h \in Repos : name[h] # n
      BY <3>1 DEF Rename
    <3> QED
      BY <1>0, <3>2 DEF Distinct, Types
  <2>2. CASE \E g \in Repos, event \in {"issues", "push"} : HandleWebhook(g, event)
    BY <1>0, <2>2 DEF HandleWebhook, Distinct
  <2>3. ASSUME UNCHANGED <<name, told>> PROVE Distinct' /\ told' \subseteq Repos
    BY <1>0, <2>3 DEF Distinct
  <2>4. CASE \E g \in Repos : EnqueueRepositoryRefresh(g) \/ StartSync(g) \/ TurnOff(g)
    BY <2>3, <2>4 DEF EnqueueRepositoryRefresh, StartSync, TurnOff, outside
  <2>5. CASE \E a \in Actors : ResolveTrackedRepository(a) \/ MergeTrackedRepositoryMatches(a)
    BY <2>3, <2>5 DEF ResolveTrackedRepository, MergeTrackedRepositoryMatches, outside
  <2>6. CASE \E w \in Workers : \/ ProcessWebhookDelivery(w) \/ UpsertTracked(w) \/ InsertTracked(w)
                                \/ ProjectRepository(w) \/ UpdateProjectionState(w) \/ DeliveryFails(w)
    BY <2>3, <2>6 DEF ProcessWebhookDelivery, UpsertTracked, InsertTracked, ProjectRepository,
       UpdateProjectionState, DeliveryFails, outside
  <2>7. CASE \/ (\E j \in jobs : StartJob(j)) \/ UpsertRepository \/ KeepPolicy \/ UpsertTrackedRepository
             \/ MarkJobSucceeded \/ MarkBackfilled \/ ReadFails
    BY <2>3, <2>7 DEF StartJob, UpsertRepository, KeepPolicy, UpsertTrackedRepository, MarkJobSucceeded,
       MarkBackfilled, ReadFails, outside
  <2> QED
    BY <1>2, <2>1, <2>2, <2>4, <2>5, <2>6, <2>7, Zenon DEF Next
<1>3. ASSUME Next, steady'
      PROVE  /\ jobs' = {} /\ proc'[Reader] = Idle
             /\ Excused' \/ (RowsTidy' /\ WorkersTidy' /\ AllTold')
  <2>1. steady /\ (GitHub \/ Worker)
    BY <1>3, SteadySteps
  <2>2. jobs = {} /\ proc[Reader] = Idle
    BY <2>1 DEF NInv
  <2>3. jobs' = {} /\ proc'[Reader] = Idle /\ UNCHANGED off /\ (crossed => crossed')
    <3>1. CASE GitHub
      <4>1. PICK g \in Repos : \/ \E n \in Names : Rename(g, n)
                               \/ \E event \in {"issues", "push"} : HandleWebhook(g, event)
        BY <3>1 DEF GitHub
      <4>2. CASE \E n \in Names : Rename(g, n)
        BY <2>2, <4>2 DEF Rename, rows, history
      <4>3. CASE \E event \in {"issues", "push"} : HandleWebhook(g, event)
        <5>1. UNCHANGED <<jobs, proc, off, crossed>>
          BY <4>3 DEF HandleWebhook, rows, history
        <5> QED
          BY <2>2, <5>1
      <4> QED
        BY <4>1, <4>2, <4>3
    <3>2. CASE Worker
      <4>1. PICK w \in Workers :
              \/ ResolveTrackedRepository(w) \/ MergeTrackedRepositoryMatches(w)
              \/ ProcessWebhookDelivery(w) \/ UpsertTracked(w) \/ InsertTracked(w)
              \/ ProjectRepository(w) \/ UpdateProjectionState(w)
        BY <3>2 DEF Worker
      <4>2. \A new : Goes(w, new) => proc'[Reader] = proc[Reader]
        BY <1>0, ReaderActs DEF Goes, Types
      <4>3. \E new : Goes(w, new)
        BY <4>1, Zenon DEF ResolveTrackedRepository, MergeTrackedRepositoryMatches, ProcessWebhookDelivery,
           UpsertTracked, InsertTracked, ProjectRepository, UpdateProjectionState
      <4>4. UNCHANGED <<off, crossed>>
        BY <4>1 DEF ResolveTrackedRepository, MergeTrackedRepositoryMatches, ProcessWebhookDelivery,
           UpsertTracked, InsertTracked, ProjectRepository, UpdateProjectionState, outside, history
      <4>5. jobs' = {}
        <5>1. Moved(proc[w]) = {}
          BY <2>2, Zenon DEF Moved
        <5> QED
          BY <2>2, <4>1, <5>1 DEF ResolveTrackedRepository, MergeTrackedRepositoryMatches,
             ProcessWebhookDelivery, UpsertTracked, InsertTracked, ProjectRepository, UpdateProjectionState, rows
      <4> QED
        BY <2>2, <4>2, <4>3, <4>4, <4>5
    <3> QED
      BY <2>1, <3>1, <3>2
  <2>4. ASSUME ~Excused' PROVE Orderly'
    <3>1. ~Excused
      BY <2>3, <2>4 DEF Excused
    <3>2. Orderly
      BY <2>1, <3>1 DEF NInv, Orderly
    <3>3. CASE GitHub
      BY <3>2, <3>3, RenameTidy, HandleWebhookTidy DEF GitHub, Events
    <3>4. CASE Worker
      BY <3>1, <3>2, <3>4, ResolveTidy, MergeTidy, TakeTidy, UpsertTidy, InsertTidy, ProjectTidy, StateTidy
         DEF Worker
    <3> QED
      BY <2>1, <3>3, <3>4
  <2> QED
    BY <2>3, <2>4 DEF Orderly
<1> QED
  BY <1>1, <1>2, <1>3 DEF NInv

(* NamesSettle: with one webhook worker, when the deliveries are worked    *)
(* off, a repository that has sent one under its present name has exactly  *)
(* one tracked row, under that name, and holds the name in `repositories`, *)
(* whatever the names were before and whoever had them, for any number of  *)
(* repositories, names, renames and deliveries.                            *)
THEOREM NamesAreSettled ==
  ASSUME SingleWorker
  PROVE  Spec => []NamesSettle
<1>1. IInv /\ NInv => NamesSettle
  <2> SUFFICES ASSUME IInv, NInv, Quiet, steady, crossed => off = {}, NEW g \in told
               PROVE  SettledAs(g)
    BY DEF NamesSettle, SettledAs
  <2>1. g \in Repos /\ Told(g)
    BY DEF NInv, Excused, AllTold
  <2>2. ~Announced(g)
    BY DEF Quiet, Announced
  <2>3. ASSUME NEW w \in Workers PROVE ~Handled(proc[w], g)
    BY <2>1, RecordFacts DEF Quiet, Handled, Actors
  <2> QED
    BY <2>1, <2>2, <2>3 DEF Told
<1>2. Init => NInv
  BY InitNInv
<1>3. IInv /\ (~crossed => FollowInv) /\ NInv /\ [Next]_vars => NInv'
  BY NextNInv
<1> QED
  BY <1>1, <1>2, <1>3, Invariant, Followed, PTL DEF Spec
=============================================================================
