-------------------------- MODULE SearchIndex_proofs --------------------------
(***************************************************************************)
(* SearchIndex keeps its types, and its three properties hold, for any     *)
(* issues, comments, workers, rebuilds and bounds.                         *)
(*                                                                         *)
(* IInv (in SearchIndex) says that what a writer has read and not yet      *)
(* written is as well-formed as the tables.  Known adds what stays true    *)
(* whoever crosses: rows, documents and a rebuild's image only lose what   *)
(* GitHub deleted.  Ordered holds as long as no two writers have crossed:  *)
(* each document, each value read back and each image loaded is that of    *)
(* its row, or of an orphan, or its object is still due.  OInv is the      *)
(* three together.                                                         *)
(***************************************************************************)
EXTENDS SearchIndex, TLAPS

(* The part of the invariant about the writers.                            *)
ProcsOK == proc \in [Writers -> ProcTypes] /\ \A w \in Writers : ProcOK(w, proc[w])

USE DEF Versions, Gone

(* An idle writer holds nothing.                                           *)
LEMMA IdleType == Idle \in ProcTypes /\ (\A w : ProcOK(w, Idle)) /\ NoState \in States
<1>1. MaxVersion \in Nat \ {0}
  BY ConstantsAssumption
<1>2. NoState \in States
  BY DEF NoState, States
<1>3. [o \in Objects |-> 0] \in Images
  BY <1>1 DEF Images
<1>4. Idle \in ProcTypes
  BY <1>1, <1>2, <1>3 DEF Idle, ProcTypes, Phases, Changes
<1> QED
  BY <1>2, <1>4 DEF Idle, ProcOK, NoJob

(* One writer goes on with a well-formed record.                           *)
LEMMA GoesOn ==
    ASSUME ProcsOK, NEW w \in Writers, NEW p \in ProcTypes, ProcOK(w, p), Goes(w, p)
    PROVE  ProcsOK'
BY DEF ProcsOK, Goes, ProcOK

(* One writer goes on while rebuilds are told that they were disturbed.    *)
LEMMA GoesOnWhileRebuilding ==
    ASSUME ProcsOK, NEW w \in Writers, NEW p \in ProcTypes, ProcOK(w, p), WhileRebuilding(w, p)
    PROVE  ProcsOK'
<1>1. \A u \in Writers : proc[u] \in ProcTypes /\ ProcOK(u, proc[u])
  BY DEF ProcsOK
<1>2. \A u \in Writers : [proc[u] EXCEPT !.disturbed = TRUE] \in ProcTypes
                            /\ ProcOK(u, [proc[u] EXCEPT !.disturbed = TRUE])
  BY <1>1, ZenonT(60) DEF ProcTypes, ProcOK, HasJob, Rebuilds
<1>3. \A u \in Writers : proc'[u] \in ProcTypes /\ ProcOK(u, proc'[u])
  BY <1>1, <1>2 DEF WhileRebuilding
<1>4. proc' \in [Writers -> ProcTypes]
  BY <1>3 DEF WhileRebuilding
<1> QED
  BY <1>3, <1>4 DEF ProcsOK, ProcOK

(* A writer that has read the state row may write it back.                 *)
LEMMA MarkingType ==
    ASSUME state \in States, NEW p \in ProcTypes, NEW change \in Changes
    PROVE  Marking(p, change) \in ProcTypes
BY DEF Marking, ProcTypes, Phases

(* A worker marks the document it has written or deleted.                  *)
LEMMA Touched ==
    ASSUME state \in States, NEW w \in Workers, NEW p \in ProcTypes, p.job \in Jobs
    PROVE  Marking(p, "touched") \in ProcTypes /\ ProcOK(w, Marking(p, "touched"))
<1>1. Marking(p, "touched") \in ProcTypes
  BY MarkingType DEF Changes
<1> QED
  BY <1>1 DEF Marking, ProcTypes, ProcOK, HasJob

(* Every change makes a state row of a state row.                          *)
LEMMA ChangedType ==
    ASSUME NEW s \in States, NEW change \in Changes \ {"none"}
    PROVE  Changed(change, s) \in States
BY DEF Changed, touched, coverageOrDefault, deriveFreshness, States, Changes

(* The version stored is the one given or the one that was there.          *)
LEMMA StoredType ==
    ASSUME rows \in Images, NEW o \in Objects, NEW v \in 0 .. MaxVersion
    PROVE  Stored(o, v) \in 0 .. MaxVersion
BY DEF Stored, Images, Objects

(* Storing the issue of a delivery leaves versions in the table.           *)
LEMMA WithIssueType ==
    ASSUME rows \in Images, NEW j \in Jobs
    PROVE  WithIssue(j) \in Images
<1>1. CASE j.o \in Comments
  <2>1. Parent[j.o] \in Objects
    BY <1>1, ConstantsAssumption DEF Objects
  <2>2. Stored(Parent[j.o], j.of) \in 0 .. MaxVersion
    BY <2>1, StoredType, ConstantsAssumption DEF Jobs
  <2> QED
    BY <1>1, <2>1, <2>2 DEF WithIssue, Images
<1>2. CASE j.o \notin Comments
  BY <1>2 DEF WithIssue
<1> QED
  BY <1>1, <1>2

(* What GitHub says of an object it has.                                   *)
LEMMA EventType ==
    ASSUME gh \in [Objects -> 0 .. Gone], NEW o \in Objects, NEW v \in 1 .. Gone,
           o \in Comments => gh[Parent[o]] \in Versions
    PROVE  Event(o, v) \in Jobs
<1>1. MaxVersion \in Nat \ {0}
  BY ConstantsAssumption
<1> QED
  BY <1>1 DEF Event, Jobs
-----------------------------------------------------------------------------
(* The initial states: no writer holds anything, and the mirror is GitHub's.*)
LEMMA Initially == Init => IInv
<1> SUFFICES ASSUME Init PROVE IInv
  OBVIOUS
<1>1. MaxVersion \in Nat \ {0} /\ Parent \in [Comments -> Issues]
  BY ConstantsAssumption
<1>2. TypeOK
  BY <1>1, IdleType DEF Init, TypeOK, Images
<1>3. gh \in [Objects -> 0 .. Gone] /\ (\A c \in Comments : gh[c] \in Versions => gh[Parent[c]] \in Versions)
  <2>1. gh \in [Objects -> 0 .. Gone]
    BY <1>1 DEF Init
  <2>2. ASSUME NEW c \in Comments, gh[c] \in Versions PROVE gh[Parent[c]] \in Versions
    <3>1. gh[c] = 1
      BY <2>2, <1>1 DEF Init, Objects
    <3> QED
      BY <3>1, <1>1 DEF Init
  <2> QED
    BY <2>1, <2>2
<1>4. proc \in [Writers -> ProcTypes] /\ \A w \in Writers : ProcOK(w, proc[w])
  BY IdleType DEF Init
<1> QED
  BY <1>2, <1>3, <1>4 DEF IInv
-----------------------------------------------------------------------------
(* What a writer's own step leaves alone.                                  *)
LEMMA WriterStep ==
    ASSUME IInv, UNCHANGED gh, TypeOK', ProcsOK'
    PROVE  IInv'
<1>1. (\A w \in Writers : ProcOK(w, proc[w]))'
  BY DEF ProcsOK
<1> QED
  BY <1>1 DEF IInv, ProcsOK

(* Every step preserves the invariant.                                     *)
LEMMA Inductive == IInv /\ [Next]_vars => IInv'
<1> SUFFICES ASSUME IInv, [Next]_vars PROVE IInv'
  OBVIOUS
<1>m. MaxVersion \in Nat \ {0} /\ Parent \in [Comments -> Issues] /\ Issues \cap Comments = {}
      /\ Workers \cap Rebuilders = {}
  BY ConstantsAssumption
<1>i. /\ rows \in Images /\ docs \in Images /\ state \in States /\ todo \subseteq Jobs
      /\ gh \in [Objects -> 0 .. Gone]
      /\ \A c \in Comments : gh[c] \in Versions => gh[Parent[c]] \in Versions
      /\ ProcsOK
      /\ \A w \in Writers : proc[w] \in ProcTypes /\ ProcOK(w, proc[w])
  BY DEF IInv, TypeOK, ProcsOK
<1>w. Workers \subseteq Writers /\ Rebuilders \subseteq Writers
  BY DEF Writers
<1>1. ASSUME NEW o \in Objects, Change(o) PROVE IInv'
  <2>1. gh[o] + 1 \in Versions /\ gh' = [gh EXCEPT ![o] = gh[o] + 1]
    BY <1>1, <1>i, <1>m DEF Change
  <2>2. gh' \in [Objects -> 0 .. Gone]
    BY <2>1, <1>i, <1>m
  <2>3. o \in Comments => gh[Parent[o]] \in Versions
    BY <1>1 DEF Change
  <2>4. ASSUME NEW c \in Comments, gh'[c] \in Versions PROVE gh'[Parent[c]] \in Versions
    <3>1. c \in Objects /\ Parent[c] \in Objects /\ Parent[c] \in Issues
      BY <1>m DEF Objects
    <3>2. gh[Parent[c]] \in Versions \/ Parent[c] = o
      BY <2>4, <2>1, <2>3, <3>1, <1>i
    <3> QED
      BY <3>1, <3>2, <2>1, <1>i
  <2>5. Event(o, gh[o] + 1) \in Jobs
    BY <2>1, <2>3, <1>i, <1>m, EventType
  <2>6. rows' \in Images
    <3>1. WithIssue(Event(o, 0)) = WithIssue(Event(o, gh[o] + 1))
      BY DEF WithIssue, Event
    <3>2. WithIssue(Event(o, 0)) \in Images
      BY <3>1, <2>5, <1>i, WithIssueType
    <3>3. Stored(o, gh[o] + 1) \in 0 .. MaxVersion
      BY <2>1, <1>i, <1>m, StoredType
    <3> QED
      BY <1>1, <3>2, <3>3 DEF Change, Images
  <2>7. UNCHANGED <<docs, state, proc>> /\ todo' \subseteq Jobs
    BY <1>1, <2>5, <1>i DEF Change
  <2> QED
    BY <2>2, <2>4, <2>6, <2>7, <1>i DEF IInv, TypeOK
<1>2. ASSUME NEW o \in Objects, Remove(o) PROVE IInv'
  <2>1. gh' = [p \in Objects |-> IF p = o \/ (p \in Children(o) /\ gh[p] # 0) THEN Gone ELSE gh[p]]
    BY <1>2 DEF Remove
  <2>2. gh' \in [Objects -> 0 .. Gone]
    BY <2>1, <1>i, <1>m
  <2>3. ASSUME NEW c \in Comments, gh'[c] \in Versions PROVE gh'[Parent[c]] \in Versions
    <3>1. c \in Objects /\ Parent[c] \in Objects /\ Parent[c] \in Issues
      BY <1>m DEF Objects
    <3>2. gh'[c] = gh[c] /\ gh[c] # 0 /\ c \notin Children(o)
      BY <2>1, <2>3, <3>1, <1>m
    <3>3. Parent[c] # o /\ Parent[c] \notin Children(o)
      BY <3>1, <3>2, <1>m DEF Children
    <3> QED
      BY <2>1, <2>3, <3>1, <3>2, <3>3, <1>i
  <2>4. Event(o, Gone) \in Jobs
    <3>1. o \in Comments => gh[Parent[o]] \in Versions
      BY <1>2, <1>i DEF Remove
    <3> QED
      BY <3>1, <1>i, <1>m, EventType
  <2>5. rows' \in Images
    <3>1. WithIssue(Event(o, Gone)) \in Images
      BY <2>4, <1>i, WithIssueType
    <3> QED
      BY <1>2, <3>1, <1>m DEF Remove, Images
  <2>6. UNCHANGED <<docs, state, proc>> /\ todo' \subseteq Jobs
    BY <1>2, <2>4, <1>i DEF Remove
  <2> QED
    BY <2>2, <2>3, <2>5, <2>6, <1>i DEF IInv, TypeOK
<1>3. ASSUME NEW w \in Workers, NEW j \in todo, StartJob(w, j) PROVE IInv'
  <2>1. j \in Jobs
    BY <1>i
  <2>2. rows' \in Images
    BY <1>3, <2>1, <1>i, WithIssueType DEF StartJob
  <2>3. ProcsOK'
    <3>1. CASE j.o \in Comments
      <4> DEFINE p == [Idle EXCEPT !.pc = "read", !.job = j, !.o = Parent[j.o]]
      <4>1. p \in ProcTypes /\ ProcOK(w, p)
        BY <2>1, <3>1, <1>m, IdleType DEF ProcTypes, ProcOK, HasJob, Phases, Objects
      <4> QED
        BY <1>3, <3>1, <4>1, <1>i, <1>w, GoesOn DEF StartJob
    <3>2. CASE j.o \notin Comments
      <4> DEFINE p == [Idle EXCEPT !.pc = "project", !.job = j]
      <4>1. p \in ProcTypes /\ ProcOK(w, p)
        BY <2>1, <1>m, IdleType DEF ProcTypes, ProcOK, HasJob, Phases
      <4> QED
        BY <1>3, <3>2, <4>1, <1>i, <1>w, GoesOn DEF StartJob
    <3> QED
      BY <3>1, <3>2
  <2>4. UNCHANGED <<gh, docs, state>> /\ todo' \subseteq Jobs
    BY <1>3, <1>i DEF StartJob
  <2> QED
    BY <2>2, <2>3, <2>4, <1>i, WriterStep DEF TypeOK
<1>4. ASSUME NEW w \in Workers, Project(w) PROVE IInv'
  <2> DEFINE p == proc[w]
  <2>1. p \in ProcTypes /\ ProcOK(w, p) /\ p.pc = "project" /\ p.job \in Jobs /\ p.job.o \in Objects
    BY <1>4, <1>i, <1>w DEF Project, ProcOK, HasJob, Rebuilds, Jobs
  <2>2. rows' \in Images
    <3>1. CASE p.job.v = Gone
      BY <1>4, <3>1, <2>1, <1>i, <1>m DEF Project, Without, Images
    <3>2. CASE p.job.v # Gone
      <4>1. p.job.v \in 0 .. MaxVersion
        BY <3>2, <2>1, <1>m DEF Jobs
      <4>2. Stored(p.job.o, p.job.v) \in 0 .. MaxVersion
        BY <4>1, <2>1, <1>i, StoredType
      <4> QED
        BY <1>4, <3>2, <4>2, <1>i DEF Project, Images
    <3> QED
      BY <3>1, <3>2
  <2>3. ProcsOK'
    <3> DEFINE to(pc) == [p EXCEPT !.pc = pc, !.o = p.job.o]
    <3>1. ASSUME NEW pc \in {"read", "delete"} PROVE to(pc) \in ProcTypes /\ ProcOK(w, to(pc))
      BY <2>1 DEF ProcTypes, ProcOK, HasJob, Phases
    <3>2. Goes(w, to("delete")) \/ Goes(w, to("read"))
      BY <1>4 DEF Project
    <3> QED
      BY <3>1, <3>2, <1>i, <1>w, GoesOn
  <2>4. UNCHANGED <<gh, docs, state, todo>>
    BY <1>4 DEF Project
  <2> QED
    BY <2>2, <2>3, <2>4, <1>i, WriterStep DEF TypeOK
<1>5. ASSUME NEW w \in Workers, ReadStored(w) PROVE IInv'
  <2> DEFINE p == [proc[w] EXCEPT !.pc = "write", !.seen = Shown(proc[w])]
  <2>1. proc[w] \in ProcTypes /\ proc[w].o \in Objects /\ proc[w].job \in Jobs
    BY <1>5, <1>i, <1>w DEF ReadStored, ProcOK, HasJob, Rebuilds
  <2>2. p \in ProcTypes /\ ProcOK(w, p)
    BY <2>1, <1>i DEF Shown, Images, ProcTypes, ProcOK, HasJob, Phases
  <2>3. ProcsOK'
    BY <1>5, <2>2, <1>i, <1>w, GoesOn DEF ReadStored
  <2>4. UNCHANGED <<gh, rows, docs, state, todo>>
    BY <1>5 DEF ReadStored
  <2> QED
    BY <2>3, <2>4, <1>i, WriterStep DEF TypeOK
<1>6. ASSUME NEW w \in Workers, UpsertDocument(w) PROVE IInv'
  <2>1. proc[w] \in ProcTypes /\ proc[w].o \in Objects /\ proc[w].job \in Jobs
    BY <1>6, <1>i, <1>w DEF UpsertDocument, ProcOK, HasJob, Rebuilds
  <2>2. docs' \in Images
    BY <1>6, <2>1, <1>i DEF UpsertDocument, Images, ProcTypes
  <2>3. Marking(proc[w], "touched") \in ProcTypes /\ ProcOK(w, Marking(proc[w], "touched"))
    BY <2>1, <1>i, Touched
  <2>4. ProcsOK'
    BY <1>6, <2>3, <1>i, <1>w, GoesOnWhileRebuilding DEF UpsertDocument
  <2>5. UNCHANGED <<gh, rows, state, todo>>
    BY <1>6 DEF UpsertDocument
  <2> QED
    BY <2>2, <2>4, <2>5, <1>i, WriterStep DEF TypeOK
<1>7. ASSUME NEW w \in Workers, DeleteDocument(w) PROVE IInv'
  <2>1. proc[w] \in ProcTypes /\ proc[w].o \in Objects /\ proc[w].job \in Jobs
    BY <1>7, <1>i, <1>w DEF DeleteDocument, ProcOK, HasJob, Rebuilds
  <2>2. docs' \in Images
    BY <1>7, <2>1, <1>i, <1>m DEF DeleteDocument, Images
  <2>3. Marking(proc[w], "touched") \in ProcTypes /\ ProcOK(w, Marking(proc[w], "touched"))
    BY <2>1, <1>i, Touched
  <2>4. ProcsOK'
    BY <1>7, <2>3, <1>i, <1>w, IdleType, GoesOnWhileRebuilding DEF DeleteDocument
  <2>5. UNCHANGED <<gh, rows, state, todo>>
    BY <1>7 DEF DeleteDocument
  <2> QED
    BY <2>2, <2>4, <2>5, <1>i, WriterStep DEF TypeOK
<1>8. ASSUME NEW w \in Workers, JobFails(w) PROVE IInv'
  <2>1. proc[w].job \in Jobs
    BY <1>8, <1>i, <1>m, <1>w DEF JobFails, ProcOK, HasJob
  <2>2. ProcsOK'
    BY <1>8, <1>i, <1>w, IdleType, GoesOn DEF JobFails
  <2>3. UNCHANGED <<gh, rows, docs, state>> /\ todo' \subseteq Jobs
    BY <1>8, <2>1, <1>i DEF JobFails
  <2> QED
    BY <2>2, <2>3, <1>i, WriterStep DEF TypeOK
<1>9. ASSUME NEW w \in Writers, UpsertRepoTextSearchState(w) PROVE IInv'
  <2> DEFINE p == proc[w]
  <2>1. p \in ProcTypes /\ ProcOK(w, p) /\ p.pc = "mark"
    BY <1>9, <1>i DEF UpsertRepoTextSearchState
  <2>2. state' \in States
    <3>1. p.change \in Changes \ {"none"} /\ p.old \in States
      BY <2>1 DEF ProcTypes, ProcOK, HasJob, Rebuilds, Changes
    <3> QED
      BY <1>9, <3>1, ChangedType DEF UpsertRepoTextSearchState
  <2>3. ProcsOK'
    <3>1. CASE p.change = "started"
      <4> DEFINE q == [Idle EXCEPT !.pc = "issues"]
      <4>1. w \in Rebuilders /\ p.o = p.job.o
        BY <2>1, <3>1 DEF ProcOK, HasJob, Rebuilds, NoJob
      <4>2. q \in ProcTypes /\ ProcOK(w, q)
        BY <4>1, IdleType DEF Idle, ProcTypes, ProcOK, Rebuilds, Phases
      <4>3. Goes(w, q)
        BY <1>9, <3>1, <4>1 DEF UpsertRepoTextSearchState
      <4> QED
        BY <4>2, <4>3, <1>i, GoesOn
    <3>2. CASE p.change # "started" /\ p.o # p.job.o
      <4> DEFINE q == [Idle EXCEPT !.pc = "project", !.job = p.job]
      <4>1. w \in Workers /\ p.job \in Jobs
        BY <2>1, <3>2 DEF ProcOK, HasJob, Rebuilds, NoJob
      <4>2. q \in ProcTypes /\ ProcOK(w, q)
        BY <4>1, IdleType DEF ProcTypes, ProcOK, HasJob, Phases
      <4> QED
        BY <1>9, <3>2, <4>2, <1>i, GoesOn DEF UpsertRepoTextSearchState
    <3>3. CASE p.change # "started" /\ p.o = p.job.o
      <4>1. Goes(w, Idle)
        BY <1>9, <3>3 DEF UpsertRepoTextSearchState
      <4> QED
        BY <4>1, <1>i, IdleType, GoesOn
    <3> QED
      BY <3>1, <3>2, <3>3
  <2>4. UNCHANGED <<gh, rows, docs, todo>>
    BY <1>9 DEF UpsertRepoTextSearchState
  <2> QED
    BY <2>2, <2>3, <2>4, <1>i, WriterStep DEF TypeOK
<1>10. ASSUME NEW r \in Rebuilders, Start(r) \/ RebuildFails(r) PROVE IInv'
  <2>1. ASSUME NEW change \in {"started", "failed"}
        PROVE  Marking(Idle, change) \in ProcTypes /\ ProcOK(r, Marking(Idle, change))
    BY <1>i, IdleType, MarkingType DEF Changes, Marking, Idle, ProcOK, Rebuilds
  <2>2. ProcsOK'
    BY <1>10, <2>1, <1>i, <1>w, GoesOn DEF Start, RebuildFails
  <2>3. UNCHANGED <<gh, rows, docs, state, todo>>
    BY <1>10 DEF Start, RebuildFails
  <2> QED
    BY <2>2, <2>3, <1>i, WriterStep DEF TypeOK
<1>11. ASSUME NEW r \in Rebuilders, LoadRebuildIssues(r) \/ LoadRebuildComments(r) PROVE IInv'
  <2>1. PICK table \in {"issues", "comments"}, members \in {Issues, Comments}, next \in {"comments", "replace"} :
            Load(r, table, members, next)
    BY <1>11 DEF LoadRebuildIssues, LoadRebuildComments
  <2> DEFINE image == [o \in Objects |-> IF o \in members THEN rows[o] ELSE proc[r].image[o]]
             q == [proc[r] EXCEPT !.pc = next, !.image = image]
  <2>2. proc[r] \in ProcTypes /\ proc[r].pc = table /\ Rebuilds(proc[r])
    BY <2>1, <1>i, <1>w DEF Load, ProcOK, HasJob
  <2>3. image \in Images
    BY <2>2, <1>i DEF ProcTypes, Images
  <2>4. q \in ProcTypes /\ ProcOK(r, q)
    BY <2>2, <2>3 DEF ProcTypes, ProcOK, Rebuilds, Phases
  <2>5. Goes(r, q)
    BY <2>1, <2>2 DEF Load, ProcTypes
  <2>6. ProcsOK'
    BY <2>4, <2>5, <1>i, <1>w, GoesOn
  <2>7. UNCHANGED <<gh, rows, docs, state, todo>>
    BY <2>1 DEF Load
  <2> QED
    BY <2>6, <2>7, <1>i, WriterStep DEF TypeOK
<1>12. ASSUME NEW r \in Rebuilders, ReplaceRepositoryDocuments(r) PROVE IInv'
  <2>1. proc[r] \in ProcTypes /\ Rebuilds(proc[r])
    BY <1>12, <1>i, <1>w DEF ReplaceRepositoryDocuments, ProcOK, HasJob
  <2>2. Marking(proc[r], "succeeded") \in ProcTypes /\ ProcOK(r, Marking(proc[r], "succeeded"))
    <3>1. Marking(proc[r], "succeeded") \in ProcTypes
      BY <2>1, <1>i, MarkingType DEF Changes
    <3> QED
      BY <2>1, <3>1 DEF Marking, ProcTypes, ProcOK, Rebuilds
  <2>3. ProcsOK'
    BY <1>12, <2>2, <1>i, <1>w, GoesOnWhileRebuilding DEF ReplaceRepositoryDocuments
  <2>4. docs' \in Images
    BY <1>12, <2>1 DEF ReplaceRepositoryDocuments, Replaced, ProcTypes
  <2>5. UNCHANGED <<gh, rows, state, todo>>
    BY <1>12 DEF ReplaceRepositoryDocuments
  <2> QED
    BY <2>3, <2>4, <2>5, <1>i, WriterStep DEF TypeOK
<1>13. ASSUME NEW r \in Rebuilders, RebuildDies(r) PROVE IInv'
  <2>1. ProcsOK'
    BY <1>13, <1>i, <1>w, IdleType, GoesOn DEF RebuildDies
  <2>2. UNCHANGED <<gh, rows, docs, state, todo>>
    BY <1>13 DEF RebuildDies
  <2> QED
    BY <2>1, <2>2, <1>i, WriterStep DEF TypeOK
<1>14. CASE UNCHANGED vars
  BY <1>14, <1>i DEF vars, IInv, TypeOK
<1> QED
  BY <1>1, <1>2, <1>3, <1>4, <1>5, <1>6, <1>7, <1>8, <1>9, <1>10, <1>11, <1>12, <1>13, <1>14 DEF Next
-----------------------------------------------------------------------------
(* Rows, documents, jobs and the state row keep their types: nothing is    *)
(* indexed, stored or queued in a version the object never had, and an     *)
(* index that is called current has been made at some time.                *)
THEOREM TypeCorrect == Spec => []TypeOK
<1>1. Init => IInv
  BY Initially
<1>2. IInv /\ [Next]_vars => IInv'
  BY Inductive
<1>3. IInv => TypeOK
  BY DEF IInv
<1> QED
  BY <1>1, <1>2, <1>3, PTL DEF Spec
-----------------------------------------------------------------------------
(* The properties need more: what is still due, and what a worker has read *)
(* or a rebuild has loaded, related to the tables.                         *)

(* The objects a job's documents are made or deleted for.                  *)
Affects(j) == IF j.o \in Comments THEN {j.o, Parent[j.o]} ELSE {j.o}

(* Those a worker has yet to write or delete.                              *)
Ahead(p) ==
    {o \in Affects(p.job) : \/ o = p.o /\ p.pc \in {"read", "write", "delete"}
                            \/ o = p.job.o /\ (p.pc = "project" \/ p.o # p.job.o)}

Waiting(o) == \E j \in todo : o \in Affects(j)
Due(o) == Waiting(o) \/ \E w \in Workers : o \in Ahead(proc[w])

(* What a rebuild has loaded.                                              *)
Loaded(p) == IF p.pc = "comments" THEN Issues ELSE IF p.pc = "replace" THEN Objects ELSE {}

(* Known: whatever crosses, only what GitHub deleted goes away.            *)
JobKnown(j) ==
    gh[j.o] # 0 /\ (j.v = Gone => gh[j.o] = Gone) /\ (j.o \in Comments => gh[Parent[j.o]] # 0)

Live(o, n) == n # 0 /\ gh[o] # Gone => rows[o] # 0

WorkerKnown(p) ==
    /\ p.pc = "idle" => p.o = p.job.o
    /\ p.job # NoJob => JobKnown(p.job)
    /\ p.pc \in {"read", "write", "delete"} => p.o \in Affects(p.job)
    /\ p.pc = "write" => p.seen # 0 /\ Live(p.o, p.seen)
    /\ p.pc = "delete" => p.o = p.job.o /\ p.job.v = Gone

RebuildKnown(p) ==
    \A o \in Loaded(p) : /\ Live(o, p.image[o])
                         /\ ~p.disturbed /\ docs[o] # 0 /\ gh[o] # Gone => p.image[o] # 0

Known ==
    /\ \A j \in todo : JobKnown(j)
    /\ \A o \in Objects : (rows[o] # 0 => gh[o] # 0) /\ Live(o, docs[o])
    /\ \A w \in Workers : WorkerKnown(proc[w])
    /\ \A r \in Rebuilders : RebuildKnown(proc[r])

(* In order: as long as no two writers have crossed.                       *)
Follows(o, n) == n # 0 /\ o \notin orphans => n = rows[o] \/ Due(o)
Covers(o, n) == rows[o] # 0 => n # 0 \/ Due(o)

Apart ==
    \A u, w \in Workers : u # w /\ proc[u].job # NoJob /\ proc[w].job # NoJob =>
        Touches(proc[u].job) \cap Touches(proc[w].job) = {}

WorkerFollows(p) ==
    /\ p.pc = "write" => p.seen = rows[p.o] \/ p.o \in orphans \/ Waiting(p.o)
    /\ p.pc = "delete" => rows[p.o] = 0 \/ Waiting(p.o)

RebuildFollows(p) ==
    ~p.disturbed => \A o \in Loaded(p) : Follows(o, p.image[o]) /\ Covers(o, p.image[o])

Complete ==
    \/ state.cover = "complete"
    \/ \E w \in Writers : proc[w].pc = "mark" /\ (proc[w].change = "succeeded" \/ proc[w].old.cover = "complete")

Ordered ==
    /\ Apart
    /\ \A o \in Objects : Follows(o, docs[o]) /\ (Complete => Covers(o, docs[o]))
    /\ \A w \in Workers : WorkerFollows(proc[w])
    /\ \A r \in Rebuilders : RebuildFollows(proc[r])

OInv == IInv /\ Known /\ (~raced => Ordered)
-----------------------------------------------------------------------------
(* What the proofs below use of the types.                                 *)
LEMMA Constants ==
    /\ MaxVersion \in Nat \ {0} /\ Parent \in [Comments -> Issues] /\ Issues \cap Comments = {}
    /\ Workers \cap Rebuilders = {} /\ Workers \subseteq Writers /\ Rebuilders \subseteq Writers
    /\ Issues \subseteq Objects /\ Comments \subseteq Objects
    /\ \A c \in Comments : Parent[c] \in Issues /\ Parent[c] \notin Comments
BY ConstantsAssumption DEF Writers, Objects

LEMMA Held ==
    ASSUME IInv
    PROVE  /\ rows \in Images /\ docs \in Images /\ gh \in [Objects -> 0 .. Gone] /\ todo \subseteq Jobs
           /\ \A c \in Comments : gh[c] \in Versions => gh[Parent[c]] \in Versions
           /\ \A w \in Writers : proc[w] \in ProcTypes
           /\ \A w \in Workers : proc[w].pc = "idle" \/ HasJob(proc[w])
           /\ \A r \in Rebuilders : proc[r].pc = "idle" \/ Rebuilds(proc[r])
<1>1. proc \in [Writers -> ProcTypes] /\ \A w \in Writers : ProcOK(w, proc[w])
  BY DEF IInv
<1>2. (\A w \in Workers : proc[w].pc = "idle" \/ HasJob(proc[w]))
      /\ (\A r \in Rebuilders : proc[r].pc = "idle" \/ Rebuilds(proc[r]))
  BY <1>1, Constants DEF ProcOK
<1> QED
  BY <1>1, <1>2 DEF IInv, TypeOK

(* Issues have no parent, and comments no children.                        *)
LEMMA Families ==
    /\ \A o \in Objects : Children(o) \subseteq Comments /\ o \notin Children(o)
    /\ \A c \in Comments : Children(c) = {}
    /\ \A o \in Objects : o \in Comments \/ o \in Issues
BY Constants DEF Children, Objects

LEMMA JobShape ==
    ASSUME NEW j \in Jobs
    PROVE  /\ j.o \in Objects /\ j.v \in 1 .. Gone /\ j.of \in 0 .. MaxVersion /\ j # NoJob
           /\ j.o \in Comments => j.of # 0 /\ Parent[j.o] \in Issues
           /\ j.o \in Affects(j) /\ Affects(j) \subseteq Objects /\ Affects(j) \subseteq Touches(j)
           /\ Children(j.o) \subseteq Touches(j)
<1>1. j.o \in Objects /\ j.v \in 1 .. Gone /\ j.of \in 0 .. MaxVersion /\ (j.o \in Comments => j.of \in 1 .. MaxVersion)
  BY DEF Jobs
<1>2. j # NoJob
  BY <1>1, Constants DEF NoJob
<1>3. j.o \in Comments => j.of # 0 /\ Parent[j.o] \in Issues
  BY <1>1, Constants
<1> QED
  BY <1>1, <1>2, <1>3, Constants, Families DEF Affects, Touches

(* Storing an issue changes its row alone, and leaves one.                 *)
LEMMA WithIssueRows ==
    ASSUME rows \in Images, NEW j, j.o \in Comments => j.of \in 1 .. MaxVersion, j.o \in Objects
    PROVE  /\ WithIssue(j) \in [Objects -> 0 .. MaxVersion]
           /\ \A q \in Objects : q \notin Affects(j) \/ q = j.o => WithIssue(j)[q] = rows[q]
           /\ \A q \in Objects : rows[q] # 0 => WithIssue(j)[q] # 0
           /\ \A q \in Objects : WithIssue(j)[q] # 0 => rows[q] # 0 \/ (j.o \in Comments /\ q = Parent[j.o])
<1>1. CASE j.o \in Comments
  <2> DEFINE q == Parent[j.o]
             n == Stored(q, j.of)
  <2>1. q \in Objects /\ q # j.o
    BY <1>1, Constants
  <2>2. n \in 1 .. MaxVersion
    BY <1>1, <2>1, Constants DEF Stored, Images
  <2>3. WithIssue(j) = [rows EXCEPT ![q] = n]
    BY <1>1 DEF WithIssue
  <2>4. Affects(j) = {j.o, q}
    BY <1>1 DEF Affects
  <2> HIDE DEF n, q
  <2>5. WithIssue(j) \in [Objects -> 0 .. MaxVersion] /\ \A p \in Objects : WithIssue(j)[p] = IF p = q THEN n ELSE rows[p]
    BY <2>1, <2>2, <2>3, Constants DEF Images
  <2>6. \A p \in Objects : p \notin Affects(j) \/ p = j.o => p # q
    BY <2>1, <2>4
  <2> QED
    BY <1>1, <2>2, <2>5, <2>6 DEF q
<1>2. CASE j.o \notin Comments
  BY <1>2 DEF WithIssue, Images
<1> QED
  BY <1>1, <1>2

(* A step by one writer.                                                   *)
LEMMA Moved ==
    ASSUME IInv, NEW w \in Writers, NEW p, Goes(w, p)
    PROVE  proc'[w] = p /\ \A u \in Writers : u # w => proc'[u] = proc[u]
BY DEF IInv, Goes

LEMMA MovedWhileRebuilding ==
    ASSUME IInv, NEW w \in Writers, NEW p, WhileRebuilding(w, p)
    PROVE  /\ proc'[w] = p
           /\ \A u \in Workers : u # w => proc'[u] = proc[u]
           /\ \A r \in Rebuilders : r # w => \/ proc'[r] = proc[r] /\ Loaded(proc[r]) = {}
                                             \/ proc'[r] = [proc[r] EXCEPT !.disturbed = TRUE]
BY Constants DEF WhileRebuilding, Rebuilding, Loaded
-----------------------------------------------------------------------------
(* Whatever crosses.  GitHub's objects do not come back once they are gone,*)
(* and rows that are there stay until then.                                *)
Onward == \A o \in Objects : /\ gh[o] # 0 => gh'[o] # 0
                             /\ gh[o] = Gone => gh'[o] = Gone
                             /\ rows[o] # 0 => rows'[o] # 0 \/ gh'[o] = Gone

LEMMA KnownKept ==
    ASSUME IInv, Known, Onward
    PROVE  /\ \A j \in Jobs : JobKnown(j) => JobKnown(j)'
           /\ docs' = docs => \A o \in Objects : Live(o, docs[o])'
           /\ \A w \in Workers : proc'[w] = proc[w] => WorkerKnown(proc[w])'
           /\ \A r \in Rebuilders :
                \/ proc'[r] = proc[r] /\ (docs' = docs \/ Loaded(proc[r]) = {})
                \/ proc'[r] = [proc[r] EXCEPT !.disturbed = TRUE]
                => RebuildKnown(proc[r])'
<1>1. ASSUME NEW j \in Jobs, JobKnown(j) PROVE JobKnown(j)'
  <2>1. j.o \in Objects /\ (j.o \in Comments => Parent[j.o] \in Objects)
    BY JobShape, Constants
  <2> QED
    BY <1>1, <2>1 DEF JobKnown, Onward
<1>2. ASSUME docs' = docs, NEW o \in Objects PROVE Live(o, docs[o])'
  BY <1>2 DEF Known, Live, Onward
<1>3. ASSUME NEW w \in Workers, proc'[w] = proc[w] PROVE WorkerKnown(proc[w])'
  <2> DEFINE p == proc[w]
  <2>1. WorkerKnown(p) /\ p \in ProcTypes /\ (p.pc = "idle" \/ HasJob(p))
    BY Held, Constants DEF Known
  <2>2. p.job # NoJob => p.job \in Jobs
    BY <2>1 DEF ProcTypes
  <2>3. p.pc = "write" => p.o \in Objects
    BY <2>1 DEF HasJob
  <2>4. p.job # NoJob => JobKnown(p.job)'
    <3> HIDE DEF p
    <3>1. ASSUME p.job # NoJob PROVE JobKnown(p.job)'
      <4>1. p.job \in Jobs /\ JobKnown(p.job)
        BY <2>1, <2>2, <3>1 DEF WorkerKnown
      <4>2. p.job.o \in Objects /\ (p.job.o \in Comments => Parent[p.job.o] \in Objects)
        BY <4>1, JobShape, Constants
      <4>3. p' = p
        BY <1>3 DEF p
      <4> QED
        BY <4>1, <4>2, <4>3 DEF JobKnown, Onward
    <3> QED
      BY <3>1
  <2> QED
    BY <1>3, <2>1, <2>3, <2>4 DEF WorkerKnown, Live, Onward, Affects
<1>4. ASSUME NEW r \in Rebuilders,
             \/ proc'[r] = proc[r] /\ (docs' = docs \/ Loaded(proc[r]) = {})
             \/ proc'[r] = [proc[r] EXCEPT !.disturbed = TRUE]
      PROVE  RebuildKnown(proc[r])'
  <2>1. RebuildKnown(proc[r]) /\ proc[r] \in ProcTypes
    BY Held, Constants DEF Known
  <2>2. Loaded(proc[r]) \subseteq Objects
    BY Constants DEF Loaded
  <2>3. CASE proc'[r] = proc[r] /\ (docs' = docs \/ Loaded(proc[r]) = {})
    BY <2>1, <2>2, <2>3 DEF RebuildKnown, Live, Onward, Loaded
  <2>4. CASE proc'[r] = [proc[r] EXCEPT !.disturbed = TRUE]
    <3>1. proc'[r].disturbed /\ proc'[r].pc = proc[r].pc /\ proc'[r].image = proc[r].image
      BY <2>1, <2>4 DEF ProcTypes
    <3> QED
      BY <2>1, <2>2, <3>1 DEF RebuildKnown, Live, Onward, Loaded
  <2> QED
    BY <1>4, <2>3, <2>4
<1> QED
  BY <1>1, <1>2, <1>3, <1>4

(* GitHub changes an object.                                               *)
LEMMA ChangeRows ==
    ASSUME IInv, Known, NEW o \in Objects, Change(o)
    PROVE  /\ Onward /\ Event(o, gh[o] + 1) \in Jobs
           /\ \A j \in Jobs : j = Event(o, gh[o] + 1) => JobKnown(j)'
           /\ \A q \in Objects : rows'[q] # 0 => gh'[q] # 0
           /\ \A q \in Objects : rows'[q] = rows[q] \/ q \in Affects(Event(o, gh[o] + 1))
<1> DEFINE e == Event(o, gh[o] + 1)
           e0 == Event(o, 0)
<1>h. rows \in Images /\ gh \in [Objects -> 0 .. Gone] /\ MaxVersion \in Nat \ {0}
  BY Held, Constants
<1>1. /\ gh[o] < MaxVersion /\ (o \in Comments => gh[Parent[o]] \in Versions)
      /\ gh' = [gh EXCEPT ![o] = @ + 1]
      /\ rows' = [WithIssue(e0) EXCEPT ![o] = Stored(o, gh[o] + 1)]
  BY DEF Change
<1>2. gh[o] \in 0 .. MaxVersion - 1
  BY <1>1, <1>h
<1>3. e \in Jobs
  BY <1>1, <1>2, <1>h, EventType
<1>4. e.o = o /\ e.v = gh[o] + 1 /\ e0.o = o /\ (o \in Comments => e0.of \in 1 .. MaxVersion) /\ Affects(e0) = Affects(e)
      /\ o \in Affects(e)
  BY <1>1 DEF Event, Affects
<1>5. Stored(o, gh[o] + 1) # 0
  BY <1>2, <1>h DEF Stored, Images
<1> HIDE DEF e, e0
<1>6. /\ WithIssue(e0) \in [Objects -> 0 .. MaxVersion]
      /\ \A q \in Objects : q \notin Affects(e) => WithIssue(e0)[q] = rows[q]
      /\ \A q \in Objects : rows[q] # 0 => WithIssue(e0)[q] # 0
      /\ \A q \in Objects : WithIssue(e0)[q] # 0 => rows[q] # 0 \/ (o \in Comments /\ q = Parent[o])
  BY <1>4, <1>h, WithIssueRows
<1>7. /\ rows'[o] # 0
      /\ \A q \in Objects : q # o => rows'[q] = WithIssue(e0)[q]
  BY <1>1, <1>5, <1>6
<1>8. \A q \in Objects : gh'[q] = IF q = o THEN gh[o] + 1 ELSE gh[q]
  BY <1>1, <1>h
<1>9. \A q \in Objects : (gh[q] # 0 => gh'[q] # 0) /\ (gh[q] = Gone => gh'[q] = Gone)
  BY <1>2, <1>8, <1>h
<1>10. Onward
  BY <1>6, <1>7, <1>9 DEF Onward
<1>11. o \in Comments => Parent[o] # o /\ Parent[o] \in Objects
  BY Constants
<1>12. \A q \in Objects : rows'[q] # 0 => gh'[q] # 0
  BY <1>1, <1>2, <1>6, <1>7, <1>8, <1>11, <1>h DEF Known
<1>13. ASSUME NEW j \in Jobs, j = e PROVE JobKnown(j)'
  <2>1. gh'[o] # 0 /\ gh'[o] # Gone /\ (o \in Comments => gh'[Parent[o]] # 0)
    BY <1>1, <1>2, <1>8, <1>11, <1>h
  <2>2. j.v # Gone /\ j.o = o
    BY <1>2, <1>4, <1>13, <1>h
  <2> QED
    BY <2>1, <2>2 DEF JobKnown
<1> QED
  BY <1>3, <1>4, <1>6, <1>7, <1>10, <1>12, <1>13 DEF e

(* GitHub deletes an object; the comments that go with it are orphans.     *)
LEMMA RemoveRows ==
    ASSUME IInv, Known, NEW o \in Objects, Remove(o)
    PROVE  /\ Onward /\ Event(o, Gone) \in Jobs
           /\ \A j \in Jobs : j = Event(o, Gone) => JobKnown(j)'
           /\ \A q \in Objects : rows'[q] # 0 => gh'[q] # 0
           /\ \A q \in Objects : \/ rows'[q] = rows[q] \/ q \in Affects(Event(o, Gone))
                                 \/ rows'[q] = 0 /\ q \in orphans'
<1> DEFINE e == Event(o, Gone)
<1>h. rows \in Images /\ gh \in [Objects -> 0 .. Gone] /\ MaxVersion \in Nat \ {0}
      /\ \A c \in Comments : gh[c] \in Versions => gh[Parent[c]] \in Versions
  BY Held, Constants
<1>1. /\ gh[o] \in Versions
      /\ gh' = [p \in Objects |-> IF p = o \/ (p \in Children(o) /\ gh[p] # 0) THEN Gone ELSE gh[p]]
      /\ rows' = [p \in Objects |-> IF p \in {o} \cup Children(o) THEN 0 ELSE WithIssue(e)[p]]
      /\ orphans' = orphans \cup Left(o)
  BY DEF Remove
<1>2. o \in Comments => gh[Parent[o]] \in Versions /\ Parent[o] \in Objects /\ Parent[o] # o /\ Children(o) = {}
  BY <1>1, <1>h, Constants, Families
<1>3. e \in Jobs
  BY <1>2, <1>h, EventType
<1>4. e.o = o /\ e.v = Gone /\ (o \in Comments => e.of \in 1 .. MaxVersion) /\ o \in Affects(e)
  BY <1>2 DEF Event, Affects
<1> HIDE DEF e
<1>5. /\ \A q \in Objects : q \notin Affects(e) => WithIssue(e)[q] = rows[q]
      /\ \A q \in Objects : rows[q] # 0 => WithIssue(e)[q] # 0
      /\ \A q \in Objects : WithIssue(e)[q] # 0 => rows[q] # 0 \/ (o \in Comments /\ q = Parent[o])
  BY <1>4, <1>h, WithIssueRows
<1>6. \A q \in Objects : gh'[q] = IF q = o \/ (q \in Children(o) /\ gh[q] # 0) THEN Gone ELSE gh[q]
  BY <1>1
<1>7. \A q \in Objects : rows'[q] = IF q = o \/ q \in Children(o) THEN 0 ELSE WithIssue(e)[q]
  BY <1>1
<1>8. \A q \in Objects : (gh[q] # 0 => gh'[q] # 0) /\ (gh[q] = Gone => gh'[q] = Gone)
  BY <1>6, <1>h
<1>9. Onward
  BY <1>5, <1>6, <1>7, <1>8 DEF Onward, Known
<1>10. \A q \in Objects : rows'[q] # 0 => gh'[q] # 0
  BY <1>2, <1>5, <1>7, <1>8, <1>h DEF Known
<1>11. \A q \in Objects : rows'[q] = rows[q] \/ q \in Affects(e) \/ (rows'[q] = 0 /\ q \in orphans')
  BY <1>1, <1>4, <1>5, <1>7 DEF Left
<1>12. ASSUME NEW j \in Jobs, j = e PROVE JobKnown(j)'
  <2>1. gh'[o] = Gone /\ gh'[o] # 0 /\ (o \in Comments => gh'[Parent[o]] # 0)
    BY <1>2, <1>6, <1>8, <1>h
  <2>2. j.o = o
    BY <1>4, <1>12
  <2> QED
    BY <2>1, <2>2 DEF JobKnown
<1> QED
  BY <1>3, <1>9, <1>10, <1>11, <1>12 DEF e

(* What both have in common: the event they leave explains the rows.       *)
LEMMA GitHubRows ==
    ASSUME IInv, Known, NEW o \in Objects, Change(o) \/ Remove(o)
    PROVE  /\ Onward /\ orphans \subseteq orphans' /\ UNCHANGED <<docs, state, proc, raced>>
           /\ \A q \in Objects : rows'[q] # 0 => gh'[q] # 0
           /\ \E e \in Jobs : /\ todo' = todo \cup {e} /\ JobKnown(e)'
                              /\ \A q \in Objects : \/ rows'[q] = rows[q] \/ q \in Affects(e)
                                                    \/ rows'[q] = 0 /\ q \in orphans'
<1>1. CASE Change(o)
  <2>1. todo' = todo \cup {Event(o, gh[o] + 1)} /\ UNCHANGED <<docs, state, proc, raced, orphans>>
    BY <1>1 DEF Change, history
  <2> DEFINE e == Event(o, gh[o] + 1)
  <2>2. e \in Jobs /\ todo' = todo \cup {e} /\ (\A j \in Jobs : j = e => JobKnown(j)')
        /\ \A q \in Objects : rows'[q] = rows[q] \/ q \in Affects(e)
    BY <1>1, <2>1, ChangeRows
  <2> HIDE DEF e
  <2> QED
    BY <1>1, <2>1, <2>2, ChangeRows
<1>2. CASE Remove(o)
  <2>1. todo' = todo \cup {Event(o, Gone)} /\ UNCHANGED <<docs, state, proc, raced>> /\ orphans \subseteq orphans'
    BY <1>2 DEF Remove
  <2> DEFINE e == Event(o, Gone)
  <2>2. e \in Jobs /\ todo' = todo \cup {e} /\ (\A j \in Jobs : j = e => JobKnown(j)')
        /\ \A q \in Objects : rows'[q] = rows[q] \/ q \in Affects(e) \/ (rows'[q] = 0 /\ q \in orphans')
    BY <1>2, <2>1, RemoveRows
  <2> HIDE DEF e
  <2> QED
    BY <1>2, <2>1, <2>2, RemoveRows
<1> QED
  BY <1>1, <1>2

(* A job that starts stores the issue it brings.                           *)
LEMMA StartRows ==
    ASSUME IInv, Known, NEW w \in Workers, NEW j \in todo, StartJob(w, j)
    PROVE  /\ j \in Jobs /\ Onward /\ UNCHANGED <<gh, docs, state, orphans>>
           /\ \A q \in Objects : rows'[q] # 0 => gh'[q] # 0
           /\ \A q \in Objects : rows'[q] = rows[q] \/ q \in Affects(j)
<1>h. rows \in Images /\ gh \in [Objects -> 0 .. Gone] /\ todo \subseteq Jobs /\ JobKnown(j)
  BY Held DEF Known
<1>1. j \in Jobs /\ j.o \in Objects /\ (j.o \in Comments => j.of \in 1 .. MaxVersion)
  BY <1>h, JobShape DEF Jobs
<1>2. /\ \A q \in Objects : q \notin Affects(j) => WithIssue(j)[q] = rows[q]
      /\ \A q \in Objects : rows[q] # 0 => WithIssue(j)[q] # 0
      /\ \A q \in Objects : WithIssue(j)[q] # 0 => rows[q] # 0 \/ (j.o \in Comments /\ q = Parent[j.o])
  BY <1>1, <1>h, WithIssueRows
<1>3. UNCHANGED <<gh, docs, state, orphans>> /\ rows' \in {rows, WithIssue(j)}
  BY DEF StartJob
<1> QED
  BY <1>1, <1>2, <1>3, <1>h DEF Onward, JobKnown, Known

(* A job stores or deletes its row.                                        *)
LEMMA ProjectRows ==
    ASSUME IInv, Known, NEW w \in Workers, Project(w)
    PROVE  /\ Onward /\ UNCHANGED <<gh, docs, state, todo, raced>>
           /\ orphans \subseteq orphans' \cup {proc[w].job.o}
           /\ \A q \in Objects : rows'[q] # 0 => gh'[q] # 0
           /\ \A q \in Objects : \/ rows'[q] = rows[q] \/ q = proc[w].job.o
                                 \/ rows'[q] = 0 /\ q \in orphans' /\ q \in Children(proc[w].job.o)
           /\ proc[w].job \in Jobs /\ proc[w].pc = "project"
           /\ proc[w].job.v = Gone => rows'[proc[w].job.o] = 0
<1> DEFINE j == proc[w].job
<1>h. /\ rows \in Images /\ gh \in [Objects -> 0 .. Gone] /\ MaxVersion \in Nat \ {0}
      /\ \A c \in Comments : gh[c] \in Versions => gh[Parent[c]] \in Versions
      /\ proc[w].pc = "idle" \/ HasJob(proc[w])
  BY Held, Constants
<1>1. proc[w].pc = "project" /\ UNCHANGED <<gh, docs, state, todo, raced>>
  BY DEF Project
<1>2. j \in Jobs /\ j # NoJob /\ j.o \in Objects /\ JobKnown(j)
  <2>1. j \in Jobs
    BY <1>1, <1>h DEF HasJob
  <2>2. WorkerKnown(proc[w])
    BY DEF Known
  <2> QED
    BY <2>1, <2>2, JobShape DEF WorkerKnown
<1>3. CASE j.v = Gone
  <2>1. rows' = Without(j.o) /\ orphans' = orphans \cup Left(j.o)
    BY <1>3 DEF Project
  <2> HIDE DEF j
  <2>2. gh[j.o] = Gone /\ gh[j.o] \notin Versions
    BY <1>2, <1>3, <1>h DEF JobKnown
  <2>3. \A q \in Objects : rows'[q] = IF q = j.o \/ q \in Children(j.o) THEN 0 ELSE rows[q]
    BY <2>1 DEF Without
  <2>4. \A q \in Children(j.o) : rows[q] # 0 => gh[q] = Gone /\ q \in Left(j.o)
    <3> SUFFICES ASSUME NEW q \in Children(j.o), rows[q] # 0 PROVE gh[q] = Gone /\ q \in Left(j.o)
      OBVIOUS
    <3>1. q \in Comments /\ Parent[q] = j.o /\ q \in Objects
      BY Constants DEF Children
    <3>2. gh[q] # 0 /\ gh[q] \notin Versions
      BY <3>1, <2>2, <1>h DEF Known
    <3> QED
      BY <3>1, <3>2, <1>h DEF Left
  <2>5. Onward
    BY <2>2, <2>3, <2>4, <1>1 DEF Onward
  <2>6. \A q \in Objects : rows'[q] # 0 => gh'[q] # 0
    BY <2>3, <1>1 DEF Known
  <2>7. \A q \in Objects : rows'[q] = rows[q] \/ q = j.o \/ (rows'[q] = 0 /\ q \in orphans' /\ q \in Children(j.o))
    BY <2>1, <2>3, <2>4
  <2> QED
    BY <1>1, <1>2, <2>1, <2>3, <2>5, <2>6, <2>7 DEF j
<1>4. CASE j.v # Gone
  <2>1. rows' = [rows EXCEPT ![j.o] = Stored(j.o, j.v)] /\ orphans' = orphans \ {j.o}
    BY <1>4 DEF Project
  <2> HIDE DEF j
  <2>2. j.v \in 1 .. MaxVersion
    BY <1>2, <1>4, <1>h, JobShape
  <2>3. Stored(j.o, j.v) # 0
    BY <1>2, <2>2, <1>h DEF Stored, Images
  <2>4. \A q \in Objects : q # j.o => rows'[q] = rows[q]
    BY <2>1, <1>h DEF Images
  <2>5. rows'[j.o] # 0 /\ gh[j.o] # 0
    BY <1>2, <2>1, <2>3, <1>h DEF Images, JobKnown
  <2> QED
    BY <1>1, <1>2, <1>4, <2>1, <2>4, <2>5 DEF Onward, Known, j
<1> QED
  BY <1>3, <1>4
-----------------------------------------------------------------------------
LEMMA KnownInit == Init => Known
<1> SUFFICES ASSUME Init PROVE Known
  OBVIOUS
<1>1. \A w \in Writers : proc[w] = Idle
  BY DEF Init
<1>2. Idle.job = NoJob /\ Idle.pc = "idle" /\ Loaded(Idle) = {} /\ Idle.o = NoJob.o
  BY DEF Idle, NoJob, Loaded
<1>3. \A w \in Workers : WorkerKnown(proc[w])
  BY <1>1, <1>2, Constants DEF WorkerKnown
<1>4. \A r \in Rebuilders : RebuildKnown(proc[r])
  BY <1>1, <1>2, Constants DEF RebuildKnown
<1> QED
  BY <1>3, <1>4 DEF Init, Known, Live

(* A step that leaves the documents alone and moves one writer.            *)
LEMMA OneMoves ==
    ASSUME IInv, Known, Onward, docs' = docs, NEW w \in Writers,
           \A u \in Writers : u # w => proc'[u] = proc[u],
           \A j \in todo' : j \in Jobs /\ JobKnown(j),
           \A q \in Objects : rows'[q] # 0 => gh'[q] # 0,
           w \in Workers => WorkerKnown(proc[w])',
           w \in Rebuilders => RebuildKnown(proc[w])'
    PROVE  Known'
<1>1. \A j \in todo' : JobKnown(j)'
  BY KnownKept
<1>2. \A o \in Objects : Live(o, docs[o])'
  BY KnownKept
<1>3. ASSUME NEW u \in Workers PROVE WorkerKnown(proc[u])'
  BY KnownKept, Constants
<1>4. ASSUME NEW r \in Rebuilders PROVE RebuildKnown(proc[r])'
  BY KnownKept, Constants
<1> QED
  BY <1>1, <1>2, <1>3, <1>4 DEF Known

(* A record with nothing read, and a job that is known.                    *)
LEMMA PlainWorker ==
    ASSUME NEW w \in Workers, proc'[w].pc \notin {"read", "write", "delete"},
           proc'[w].pc = "idle" => proc'[w] = Idle,
           proc'[w].job # NoJob => gh' = gh /\ JobKnown(proc'[w].job)
    PROVE  WorkerKnown(proc[w])'
BY DEF WorkerKnown, JobKnown, Idle, NoJob

LEMMA PlainRebuild ==
    ASSUME NEW r \in Rebuilders, proc'[r].pc \notin {"comments", "replace"}
    PROVE  RebuildKnown(proc[r])'
BY DEF RebuildKnown, Loaded

LEMMA GitHubKnown ==
    ASSUME IInv, Known, NEW o \in Objects, Change(o) \/ Remove(o)
    PROVE  Known'
<1>1. /\ Onward /\ docs' = docs /\ proc' = proc
      /\ \A q \in Objects : rows'[q] # 0 => gh'[q] # 0
  BY GitHubRows
<1>2. PICK e \in Jobs : todo' = todo \cup {e} /\ JobKnown(e)'
  BY GitHubRows
<1>3. \A j \in todo' : JobKnown(j)'
  BY <1>1, <1>2, KnownKept, Held DEF Known
<1>4. (\A p \in Objects : Live(p, docs[p])') /\ (\A w \in Workers : WorkerKnown(proc[w])')
      /\ (\A r \in Rebuilders : RebuildKnown(proc[r])')
  BY <1>1, KnownKept
<1> QED
  BY <1>1, <1>3, <1>4 DEF Known

LEMMA StartJobKnown ==
    ASSUME IInv, Known, NEW w \in Workers, NEW j \in todo, StartJob(w, j)
    PROVE  Known'
<1>1. /\ j \in Jobs /\ Onward /\ gh' = gh /\ docs' = docs
      /\ \A q \in Objects : rows'[q] # 0 => gh'[q] # 0
  BY StartRows
<1> DEFINE p == IF j.o \in Comments THEN [Idle EXCEPT !.pc = "read", !.job = j, !.o = Parent[j.o]]
                                    ELSE [Idle EXCEPT !.pc = "project", !.job = j]
<1>2. Goes(w, p) /\ todo' = todo \ {j}
  BY DEF StartJob
<1>3. p.job = j /\ p.pc \in {"read", "project"} /\ (p.pc = "read" => j.o \in Comments /\ p.o = Parent[j.o])
  BY DEF Idle
<1> HIDE DEF p
<1>4. proc'[w] = p /\ (\A u \in Writers : u # w => proc'[u] = proc[u]) /\ w \in Writers
  BY <1>2, Moved, Constants
<1>5. JobKnown(j) /\ \A k \in todo' : k \in Jobs /\ JobKnown(k)
  BY <1>2, Held DEF Known
<1>6. WorkerKnown(proc[w])'
  <2>1. gh[j.o] # 0 /\ (j.v = Gone => gh[j.o] = Gone) /\ (j.o \in Comments => gh[Parent[j.o]] # 0)
    BY <1>5 DEF JobKnown
  <2>2. JobKnown(proc[w].job)'
    BY <1>1, <1>3, <1>4, <2>1 DEF JobKnown
  <2>3. p.pc = "read" => p.o \in Affects(j)
    BY <1>3 DEF Affects
  <2>4. p.pc # "write" /\ p.pc # "delete"
    BY <1>3
  <2> QED
    BY <1>3, <1>4, <2>2, <2>3, <2>4 DEF WorkerKnown, Affects
<1> QED
  BY <1>1, <1>4, <1>5, <1>6, OneMoves, Constants

LEMMA ProjectKnown ==
    ASSUME IInv, Known, NEW w \in Workers, Project(w)
    PROVE  Known'
<1> DEFINE j == proc[w].job
           p == [proc[w] EXCEPT !.pc = IF j.v = Gone THEN "delete" ELSE "read", !.o = j.o]
<1>1. /\ j \in Jobs /\ Onward /\ gh' = gh /\ docs' = docs /\ todo' = todo
      /\ \A q \in Objects : rows'[q] # 0 => gh'[q] # 0
  BY ProjectRows
<1>2. Goes(w, p)
  BY DEF Project
<1>3. proc[w] \in ProcTypes /\ w \in Writers /\ WorkerKnown(proc[w]) /\ j # NoJob /\ j.o \in Affects(j)
  BY <1>1, Held, Constants, JobShape DEF Known
<1>4. p.job = j /\ p.o = j.o /\ p.pc = (IF j.v = Gone THEN "delete" ELSE "read")
  BY <1>3 DEF ProcTypes
<1>5. JobKnown(j) /\ \A k \in todo' : k \in Jobs /\ JobKnown(k)
  BY <1>1, <1>3, Held DEF Known, WorkerKnown
<1> HIDE DEF p
<1>6. proc'[w] = p /\ \A u \in Writers : u # w => proc'[u] = proc[u]
  BY <1>2, <1>3, Moved
<1>7. WorkerKnown(proc[w])'
  <2>1. JobKnown(proc[w].job)'
    BY <1>1, <1>4, <1>5, <1>6 DEF JobKnown
  <2>2. p.o \in Affects(p.job) /\ p.pc # "write" /\ p.pc # "idle" /\ (p.pc = "delete" => p.o = p.job.o /\ p.job.v = Gone)
    BY <1>3, <1>4
  <2> QED
    BY <1>6, <2>1, <2>2 DEF WorkerKnown, Affects
<1> QED
  BY <1>1, <1>3, <1>5, <1>6, <1>7, OneMoves, Constants

LEMMA ReadKnown ==
    ASSUME IInv, Known, NEW w \in Workers, ReadStored(w)
    PROVE  Known'
<1> DEFINE p == [proc[w] EXCEPT !.pc = "write", !.seen = Shown(proc[w])]
<1>1. /\ proc[w].pc = "read" /\ rows[proc[w].o] # 0 /\ Goes(w, p)
      /\ UNCHANGED <<gh, rows, docs, state, todo>>
  BY DEF ReadStored
<1>2. proc[w] \in ProcTypes /\ w \in Writers /\ WorkerKnown(proc[w])
  BY Held, Constants DEF Known
<1>3. p.job = proc[w].job /\ p.o = proc[w].o /\ p.pc = "write" /\ p.seen = rows[p.o]
  BY <1>2 DEF ProcTypes, Shown
<1> HIDE DEF p
<1>4. proc'[w] = p /\ \A u \in Writers : u # w => proc'[u] = proc[u]
  BY <1>1, <1>2, Moved
<1>5. WorkerKnown(proc[w])'
  BY <1>1, <1>2, <1>3, <1>4 DEF WorkerKnown, JobKnown, Affects, Live
<1>6. Onward /\ (\A q \in Objects : rows'[q] # 0 => gh'[q] # 0) /\ \A k \in todo' : k \in Jobs /\ JobKnown(k)
  BY <1>1, Held DEF Onward, Known
<1> QED
  BY <1>1, <1>2, <1>4, <1>5, <1>6, OneMoves, Constants

LEMMA UpsertKnown ==
    ASSUME IInv, Known, NEW w \in Workers, UpsertDocument(w)
    PROVE  Known'
<1> DEFINE p == proc[w]
           q == Marking(p, "touched")
<1>1. /\ p.pc = "write" /\ docs' = [docs EXCEPT ![p.o] = p.seen] /\ WhileRebuilding(w, q)
      /\ UNCHANGED <<gh, rows, todo>>
  BY DEF UpsertDocument
<1>2. w \in Writers /\ p \in ProcTypes /\ WorkerKnown(p) /\ p.o \in Objects /\ docs \in Images
  BY <1>1, Held, Constants DEF Known, HasJob
<1>3. q.pc = "mark" /\ q.job = p.job
  BY <1>2 DEF Marking, ProcTypes
<1> HIDE DEF p, q
<1>4. /\ proc'[w] = q
      /\ \A u \in Workers : u # w => proc'[u] = proc[u]
      /\ \A r \in Rebuilders : r # w => \/ proc'[r] = proc[r] /\ Loaded(proc[r]) = {}
                                        \/ proc'[r] = [proc[r] EXCEPT !.disturbed = TRUE]
  BY <1>1, <1>2, MovedWhileRebuilding
<1>5. Onward
  BY <1>1 DEF Onward
<1>6. WorkerKnown(proc[w])'
  BY <1>1, <1>2, <1>3, <1>4, PlainWorker DEF WorkerKnown
<1>7. \A u \in Workers : WorkerKnown(proc[u])'
  BY <1>4, <1>5, <1>6, KnownKept
<1>8. \A r \in Rebuilders : RebuildKnown(proc[r])'
  BY <1>4, <1>5, KnownKept, Constants
<1>9. \A o \in Objects : docs'[o] = IF o = p.o THEN p.seen ELSE docs[o]
  BY <1>1, <1>2 DEF Images
<1>10. \A o \in Objects : Live(o, docs[o])'
  BY <1>1, <1>2, <1>9 DEF Live, WorkerKnown, Known
<1>11. \A j \in todo' : JobKnown(j)'
  BY <1>1 DEF Known, JobKnown
<1>12. \A o \in Objects : rows'[o] # 0 => gh'[o] # 0
  BY <1>1 DEF Known
<1> QED
  BY <1>7, <1>8, <1>10, <1>11, <1>12 DEF Known

LEMMA DeleteKnown ==
    ASSUME IInv, Known, NEW w \in Workers, DeleteDocument(w)
    PROVE  Known'
<1> DEFINE p == proc[w]
           q == IF docs[p.o] # 0 THEN Marking(p, "touched") ELSE Idle
<1>1. /\ p.pc = "delete" /\ docs' = [docs EXCEPT ![p.o] = 0] /\ WhileRebuilding(w, q)
      /\ UNCHANGED <<gh, rows, todo>>
  BY DEF DeleteDocument
<1>2. w \in Writers /\ p \in ProcTypes /\ WorkerKnown(p) /\ p.o \in Objects /\ docs \in Images
  BY <1>1, Held, Constants DEF Known, HasJob
<1>3. q.pc \in {"mark", "idle"} /\ q.job \in {p.job, NoJob} /\ (q.pc = "idle" => q = Idle)
  BY <1>2 DEF Marking, ProcTypes, Idle
<1> HIDE DEF p, q
<1>4. /\ proc'[w] = q
      /\ \A u \in Workers : u # w => proc'[u] = proc[u]
      /\ \A r \in Rebuilders : r # w => \/ proc'[r] = proc[r] /\ Loaded(proc[r]) = {}
                                        \/ proc'[r] = [proc[r] EXCEPT !.disturbed = TRUE]
  BY <1>1, <1>2, MovedWhileRebuilding
<1>5. Onward
  BY <1>1 DEF Onward
<1>6. WorkerKnown(proc[w])'
  BY <1>1, <1>2, <1>3, <1>4, PlainWorker DEF WorkerKnown
<1>7. \A u \in Workers : WorkerKnown(proc[u])'
  BY <1>4, <1>5, <1>6, KnownKept
<1>8. \A r \in Rebuilders : RebuildKnown(proc[r])'
  BY <1>4, <1>5, KnownKept, Constants
<1>9. \A o \in Objects : docs'[o] = IF o = p.o THEN 0 ELSE docs[o]
  BY <1>1, <1>2 DEF Images
<1>10. \A o \in Objects : Live(o, docs[o])'
  BY <1>1, <1>9 DEF Live, Known
<1>11. \A j \in todo' : JobKnown(j)'
  BY <1>1 DEF Known, JobKnown
<1>12. \A o \in Objects : rows'[o] # 0 => gh'[o] # 0
  BY <1>1 DEF Known
<1> QED
  BY <1>7, <1>8, <1>10, <1>11, <1>12 DEF Known

LEMMA JobFailsKnown ==
    ASSUME IInv, Known, NEW w \in Workers, JobFails(w)
    PROVE  Known'
<1>1. /\ proc[w].pc # "idle" /\ todo' = todo \cup {proc[w].job} /\ Goes(w, Idle)
      /\ UNCHANGED <<gh, rows, docs>>
  BY DEF JobFails
<1>2. w \in Writers /\ proc[w].job \in Jobs /\ WorkerKnown(proc[w])
  BY <1>1, Held, Constants DEF Known, HasJob
<1>3. proc'[w] = Idle /\ \A u \in Writers : u # w => proc'[u] = proc[u]
  BY <1>1, <1>2, Moved
<1>4. Onward /\ (\A q \in Objects : rows'[q] # 0 => gh'[q] # 0) /\ \A k \in todo' : k \in Jobs /\ JobKnown(k)
  BY <1>1, <1>2, Held, JobShape DEF Onward, Known, WorkerKnown
<1>5. WorkerKnown(proc[w])'
  <2>1. Idle.pc = "idle" /\ Idle.job = NoJob
    BY DEF Idle
  <2> QED
    BY <1>3, <2>1, PlainWorker
<1> QED
  BY <1>1, <1>2, <1>3, <1>4, <1>5, OneMoves, Constants

LEMMA MarkKnown ==
    ASSUME IInv, Known, NEW w \in Writers, UpsertRepoTextSearchState(w)
    PROVE  Known'
<1> DEFINE p == proc[w]
           q == CASE p.change = "started"  -> [Idle EXCEPT !.pc = "issues"]
                  [] p.o # p.job.o          -> [Idle EXCEPT !.pc = "project", !.job = p.job]
                  [] OTHER                  -> Idle
<1>1. p.pc = "mark" /\ Goes(w, q) /\ UNCHANGED <<gh, rows, docs, todo>>
  BY DEF UpsertRepoTextSearchState
<1>2. w \in Workers => WorkerKnown(p) /\ HasJob(p)
  BY <1>1, Held DEF Known
<1>3. w \in Rebuilders => Rebuilds(p)
  BY <1>1, Held
<1>4. q.pc \in {"issues", "project", "idle"} /\ q.job \in {p.job, NoJob} /\ (q.pc = "idle" => q = Idle)
  <2>1. CASE p.change = "started"
    BY <2>1 DEF Idle
  <2>2. CASE p.change # "started" /\ p.o # p.job.o
    BY <2>2 DEF Idle
  <2>3. CASE p.change # "started" /\ p.o = p.job.o
    <3>1. q = Idle
      BY <2>3
    <3> QED
      BY <3>1 DEF Idle
  <2> QED
    BY <2>1, <2>2, <2>3
<1> HIDE DEF q
<1>5. proc'[w] = q /\ \A u \in Writers : u # w => proc'[u] = proc[u]
  BY <1>1, Moved
<1>6. Onward /\ (\A o \in Objects : rows'[o] # 0 => gh'[o] # 0) /\ \A k \in todo' : k \in Jobs /\ JobKnown(k)
  BY <1>1, Held DEF Onward, Known
<1>7. w \in Workers => WorkerKnown(proc[w])'
  BY <1>1, <1>2, <1>4, <1>5, PlainWorker DEF WorkerKnown
<1>8. w \in Rebuilders => RebuildKnown(proc[w])'
  BY <1>4, <1>5, PlainRebuild
<1> QED
  BY <1>1, <1>5, <1>6, <1>7, <1>8, OneMoves

(* A rebuild begins, fails or dies, and holds nothing.                     *)
LEMMA RebuildEndsKnown ==
    ASSUME IInv, Known, NEW r \in Rebuilders, Start(r) \/ RebuildFails(r) \/ RebuildDies(r)
    PROVE  Known'
<1>1. UNCHANGED <<gh, rows, docs, todo>> /\ \E p : Goes(r, p) /\ p.pc \in {"mark", "idle"}
  <2>1. Idle.pc = "idle" /\ \A change : Marking(Idle, change).pc = "mark"
    BY DEF Idle, Marking
  <2> QED
    BY <2>1 DEF Start, RebuildFails, RebuildDies
<1>2. proc'[r].pc \in {"mark", "idle"} /\ r \in Writers /\ \A u \in Writers : u # r => proc'[u] = proc[u]
  BY <1>1, Moved, Constants
<1>3. Onward /\ (\A o \in Objects : rows'[o] # 0 => gh'[o] # 0) /\ \A k \in todo' : k \in Jobs /\ JobKnown(k)
  BY <1>1, Held DEF Onward, Known
<1>4. RebuildKnown(proc[r])'
  BY <1>2, PlainRebuild
<1> QED
  BY <1>1, <1>2, <1>3, <1>4, OneMoves, Constants

(* The rows a rebuild loads are those that are there.                      *)
LEMMA LoadShape ==
    ASSUME IInv, NEW r \in Rebuilders, LoadRebuildIssues(r) \/ LoadRebuildComments(r)
    PROVE  /\ r \in Writers /\ \A u \in Writers : u # r => proc'[u] = proc[u]
           /\ UNCHANGED <<gh, rows, docs, state, todo, raced, orphans>>
           /\ proc'[r].disturbed = proc[r].disturbed /\ proc'[r].pc \in {"comments", "replace"}
           /\ \A o \in Loaded(proc'[r]) : /\ o \in Objects
                                          /\ \/ proc'[r].image[o] = rows[o]
                                             \/ o \in Loaded(proc[r]) /\ proc'[r].image[o] = proc[r].image[o]
<1>1. PICK table \in {"issues", "comments"} :
          \E members \in {Issues, Comments} : \E next \in {"comments", "replace"} :
             /\ Load(r, table, members, next)
             /\ \/ table = "issues" /\ members = Issues /\ next = "comments"
                \/ table = "comments" /\ members = Comments /\ next = "replace"
  BY DEF LoadRebuildIssues, LoadRebuildComments
<1>2. PICK members, next :
         /\ Load(r, table, members, next)
         /\ \/ table = "issues" /\ members = Issues /\ next = "comments"
            \/ table = "comments" /\ members = Comments /\ next = "replace"
  BY <1>1
<1> DEFINE image == [o \in Objects |-> IF o \in members THEN rows[o] ELSE proc[r].image[o]]
           q == [proc[r] EXCEPT !.pc = next, !.image = image]
<1>3. r \in Writers /\ proc[r] \in ProcTypes /\ proc[r].pc = table
  BY <1>2, Held, Constants DEF Load
<1>4. Goes(r, q) /\ UNCHANGED <<gh, rows, docs, state, todo, raced, orphans>>
  BY <1>2, <1>3 DEF Load, ProcTypes, history
<1>5. q.pc = next /\ q.image = image /\ q.disturbed = proc[r].disturbed
  BY <1>3 DEF ProcTypes
<1>6. \A o \in Objects : image[o] = IF o \in members THEN rows[o] ELSE proc[r].image[o]
  OBVIOUS
<1> HIDE DEF image, q
<1>7. proc'[r] = q /\ \A u \in Writers : u # r => proc'[u] = proc[u]
  BY <1>3, <1>4, Moved
<1>8. \A o \in Loaded(q) : o \in Objects /\ (o \in members \/ o \in Loaded(proc[r]))
  BY <1>2, <1>3, <1>5, Constants, Families DEF Loaded
<1> QED
  BY <1>2, <1>3, <1>4, <1>5, <1>6, <1>7, <1>8

LEMMA LoadKnown ==
    ASSUME IInv, Known, NEW r \in Rebuilders, LoadRebuildIssues(r) \/ LoadRebuildComments(r)
    PROVE  Known'
<1>1. Onward /\ (\A o \in Objects : rows'[o] # 0 => gh'[o] # 0) /\ \A k \in todo' : k \in Jobs /\ JobKnown(k)
  BY LoadShape, Held DEF Onward, Known
<1>2. RebuildKnown(proc[r])'
  <2>1. RebuildKnown(proc[r])
    BY DEF Known
  <2>2. ASSUME NEW o \in Loaded(proc'[r])
        PROVE  Live(o, proc[r].image[o])' /\ (~proc'[r].disturbed /\ docs'[o] # 0 /\ gh'[o] # Gone => proc'[r].image[o] # 0)
    <3>1. o \in Objects /\ UNCHANGED <<gh, rows, docs>> /\ proc'[r].disturbed = proc[r].disturbed
      BY <2>2, LoadShape
    <3>2. CASE proc'[r].image[o] = rows[o]
      BY <3>1, <3>2 DEF Live, Known
    <3>3. CASE o \in Loaded(proc[r]) /\ proc'[r].image[o] = proc[r].image[o]
      BY <2>1, <3>1, <3>3 DEF RebuildKnown, Live
    <3> QED
      BY <2>2, <3>2, <3>3, LoadShape
  <2> QED
    BY <2>2 DEF RebuildKnown, Loaded
<1> QED
  BY <1>1, <1>2, LoadShape, OneMoves, Constants

LEMMA ReplaceKnown ==
    ASSUME IInv, Known, NEW r \in Rebuilders, ReplaceRepositoryDocuments(r)
    PROVE  Known'
<1> DEFINE p == proc[r]
           q == Marking(p, "succeeded")
<1>1. p.pc = "replace" /\ docs' = p.image /\ WhileRebuilding(r, q) /\ UNCHANGED <<gh, rows, todo>>
  BY DEF ReplaceRepositoryDocuments, Replaced
<1>2. r \in Writers /\ p \in ProcTypes /\ RebuildKnown(p) /\ Loaded(p) = Objects
  BY <1>1, Held, Constants DEF Known, Loaded
<1>3. q.pc = "mark"
  BY <1>2 DEF Marking, ProcTypes
<1> HIDE DEF p, q
<1>4. /\ proc'[r] = q
      /\ \A u \in Workers : proc'[u] = proc[u]
      /\ \A s \in Rebuilders : s # r => \/ proc'[s] = proc[s] /\ Loaded(proc[s]) = {}
                                        \/ proc'[s] = [proc[s] EXCEPT !.disturbed = TRUE]
  BY <1>1, <1>2, MovedWhileRebuilding, Constants
<1>5. Onward
  BY <1>1 DEF Onward
<1>6. \A u \in Workers : WorkerKnown(proc[u])'
  BY <1>4, <1>5, KnownKept
<1>7. RebuildKnown(proc[r])'
  BY <1>3, <1>4, PlainRebuild
<1>8. \A s \in Rebuilders : RebuildKnown(proc[s])'
  BY <1>4, <1>5, <1>7, KnownKept
<1>9. \A o \in Objects : Live(o, docs[o])'
  BY <1>1, <1>2 DEF Live, RebuildKnown
<1>10. \A j \in todo' : JobKnown(j)'
  BY <1>1 DEF Known, JobKnown
<1>11. \A o \in Objects : rows'[o] # 0 => gh'[o] # 0
  BY <1>1 DEF Known
<1> QED
  BY <1>6, <1>8, <1>9, <1>10, <1>11 DEF Known

LEMMA NextKnown ==
    ASSUME IInv, Known, [Next]_vars
    PROVE  Known'
<1>1. CASE UNCHANGED vars
  BY <1>1 DEF vars, Known, JobKnown, Live, WorkerKnown, Affects, RebuildKnown, Loaded
<1> QED
  BY <1>1, GitHubKnown, StartJobKnown, ProjectKnown, ReadKnown, UpsertKnown, DeleteKnown, JobFailsKnown,
     MarkKnown, RebuildEndsKnown, LoadKnown, ReplaceKnown DEF Next
-----------------------------------------------------------------------------
(* While no two writers cross.  A row that changes is explained by what is *)
(* due, or by the deletion that made an orphan of it.                      *)
Explained ==
    \A o \in Objects : /\ rows'[o] = rows[o] \/ Due(o)' \/ (rows'[o] = 0 /\ o \in orphans')
                       /\ Due(o) => Due(o)'
                       /\ o \in orphans => o \in orphans' \/ Due(o)'

LEMMA FollowsKept ==
    ASSUME IInv, Explained
    PROVE  /\ \A o \in Objects : docs'[o] = docs[o] =>
                /\ Follows(o, docs[o]) => Follows(o, docs[o])'
                /\ Covers(o, docs[o]) => Covers(o, docs[o])'
           /\ \A r \in Rebuilders :
                /\ RebuildFollows(proc[r])
                /\ proc'[r] = proc[r] \/ proc'[r] = [proc[r] EXCEPT !.disturbed = TRUE]
                => RebuildFollows(proc[r])'
<1>1. ASSUME NEW o \in Objects, docs'[o] = docs[o]
      PROVE  (Follows(o, docs[o]) => Follows(o, docs[o])') /\ (Covers(o, docs[o]) => Covers(o, docs[o])')
  BY <1>1 DEF Explained, Follows, Covers
<1>2. ASSUME NEW r \in Rebuilders, RebuildFollows(proc[r]), proc'[r] = proc[r]
      PROVE  RebuildFollows(proc[r])'
  <2> DEFINE p == proc[r]
  <2>1. Loaded(p) \subseteq Objects
    BY Constants DEF Loaded
  <2>2. Loaded(p') = Loaded(p)
    BY <1>2 DEF Loaded
  <2>3. ASSUME ~p.disturbed, NEW o \in Loaded(p)
        PROVE  (Follows(o, p.image[o]) /\ Covers(o, p.image[o]))'
    BY <1>2, <2>1, <2>3 DEF RebuildFollows, Follows, Covers, Explained
  <2>4. ASSUME ~p'.disturbed, NEW o \in Loaded(p')
        PROVE  (Follows(o, p.image[o]) /\ Covers(o, p.image[o]))'
    BY <1>2, <2>2, <2>3, <2>4
  <2> QED
    BY <1>2, <2>4 DEF RebuildFollows, Loaded
<1>3. ASSUME NEW r \in Rebuilders, proc'[r] = [proc[r] EXCEPT !.disturbed = TRUE]
      PROVE  RebuildFollows(proc[r])'
  <2>1. proc[r] \in ProcTypes
    BY Held, Constants
  <2>2. proc'[r].disturbed
    BY <1>3, <2>1 DEF ProcTypes
  <2> QED
    BY <2>2 DEF RebuildFollows
<1> QED
  BY <1>1, <1>2, <1>3

(* What is due stays due while workers go on.                              *)
LEMMA DueKept ==
    ASSUME NEW o,
           Waiting(o) => Waiting(o)' \/ \E u \in Workers : o \in Ahead(proc'[u]),
           \A u \in Workers : o \in Ahead(proc[u]) => Waiting(o)' \/ o \in Ahead(proc'[u])
    PROVE  Due(o) => Due(o)'
<1>1. \A u \in Workers : o \in Ahead(proc'[u]) => o \in Ahead(proc[u])'
  BY DEF Ahead, Affects
<1> QED
  BY <1>1 DEF Due

(* What is ahead of a worker is what its job affects.                      *)
LEMMA AheadShape ==
    ASSUME NEW p
    PROVE  /\ Ahead(p) \subseteq Affects(p.job)
           /\ p.pc \in {"read", "write", "delete"} =>
                Ahead(p) = Affects(p.job) \cap ({p.o} \cup (IF p.o # p.job.o THEN {p.job.o} ELSE {}))
           /\ p.pc = "project" => Ahead(p) = {p.job.o}
           /\ p.pc \notin {"read", "write", "delete", "project"} =>
                Ahead(p) = IF p.o # p.job.o THEN {p.job.o} ELSE {}
BY DEF Ahead, Affects

LEMMA ApartKept ==
    ASSUME Apart, \A u \in Workers : proc'[u].job \in {proc[u].job, NoJob}
    PROVE  Apart'
BY DEF Apart, Touches, Children

(* Nothing is called complete that was not about to be.                    *)
LEMMA CompleteKept ==
    ASSUME NEW w \in Writers, \A u \in Writers : u # w => proc'[u] = proc[u], state' = state,
           proc'[w].pc = "mark" => proc'[w].change # "succeeded" /\ proc'[w].old = state
    PROVE  Complete' => Complete
BY DEF Complete

(* A step that leaves the documents alone and moves one writer.            *)
LEMMA OneOrdered ==
    ASSUME IInv, Ordered, Explained, docs' = docs, NEW w \in Writers,
           \A u \in Writers : u # w => proc'[u] = proc[u],
           Apart', Complete' => Complete,
           \A u \in Workers : WorkerFollows(proc[u])',
           w \in Rebuilders => RebuildFollows(proc[w])'
    PROVE  Ordered'
<1>1. \A o \in Objects : Follows(o, docs[o])' /\ (Complete' => Covers(o, docs[o])')
  BY FollowsKept DEF Ordered
<1>2. ASSUME NEW r \in Rebuilders PROVE RebuildFollows(proc[r])'
  BY FollowsKept, Constants DEF Ordered
<1> QED
  BY <1>1, <1>2 DEF Ordered

LEMMA OrderedInit == Init => Ordered
<1> SUFFICES ASSUME Init PROVE Ordered
  OBVIOUS
<1>1. \A w \in Writers : proc[w] = Idle
  BY DEF Init
<1>2. Idle.job = NoJob /\ Idle.pc = "idle" /\ Loaded(Idle) = {}
  BY DEF Idle, Loaded
<1>3. Apart /\ ~Complete
  BY <1>1, <1>2, Constants DEF Apart, Complete, Init, NoState
<1>4. \A w \in Workers : WorkerFollows(proc[w])
  BY <1>1, <1>2, Constants DEF WorkerFollows
<1>5. \A r \in Rebuilders : RebuildFollows(proc[r])
  BY <1>1, <1>2, Constants DEF RebuildFollows
<1> QED
  BY <1>3, <1>4, <1>5 DEF Init, Ordered, Follows

LEMMA GitHubOrdered ==
    ASSUME IInv, Known, Ordered, NEW o \in Objects, Change(o) \/ Remove(o)
    PROVE  Ordered'
<1>1. orphans \subseteq orphans' /\ UNCHANGED <<docs, state, proc>>
  BY GitHubRows
<1>2. PICK e \in Jobs : /\ todo' = todo \cup {e}
                        /\ \A q \in Objects : \/ rows'[q] = rows[q] \/ q \in Affects(e)
                                              \/ rows'[q] = 0 /\ q \in orphans'
  BY GitHubRows
<1>3. \A q : (Waiting(q) => Waiting(q)') /\ (q \in Affects(e) => Waiting(q)')
  BY <1>2 DEF Waiting, Affects
<1>4. \A q : (Due(q) => Due(q)') /\ (Waiting(q)' => Due(q)')
  BY <1>1, <1>3 DEF Due, Ahead, Affects
<1>5. Explained
  BY <1>1, <1>2, <1>3, <1>4 DEF Explained
<1>6. Apart' /\ (Complete' => Complete)
  BY <1>1 DEF Ordered, Apart, Touches, Children, Complete
<1>7. ASSUME NEW w \in Workers PROVE WorkerFollows(proc[w])'
  <2> DEFINE p == proc[w]
  <2>1. WorkerFollows(p) /\ (p.pc \in {"write", "delete"} => p.o \in Objects) /\ p' = p
    BY <1>1, Held, Constants DEF Ordered, HasJob
  <2>2. p.pc = "write" => p.seen = rows'[p.o] \/ p.o \in orphans' \/ Waiting(p.o)'
    BY <1>1, <1>2, <1>3, <2>1 DEF WorkerFollows
  <2>3. p.pc = "delete" => rows'[p.o] = 0 \/ Waiting(p.o)'
    BY <1>1, <1>2, <1>3, <2>1 DEF WorkerFollows
  <2> HIDE DEF p
  <2>4. WorkerFollows(p)'
    BY <2>1, <2>2, <2>3 DEF WorkerFollows, Waiting
  <2> QED
    BY <2>4 DEF p
<1>8. (\A q \in Objects : Follows(q, docs[q])' /\ (Complete' => Covers(q, docs[q])'))
      /\ \A r \in Rebuilders : RebuildFollows(proc[r])'
  BY <1>1, <1>5, <1>6, FollowsKept DEF Ordered
<1> QED
  BY <1>6, <1>7, <1>8 DEF Ordered

(* Somebody else's step on rows of its own job.                            *)
LEMMA OthersFollow ==
    ASSUME IInv, Known, Ordered, NEW w \in Workers, NEW j \in Jobs,
           \A u \in Workers : u # w => proc'[u] = proc[u],
           \A u \in Workers : u # w /\ proc[u].job # NoJob => Touches(proc[u].job) \cap Touches(j) = {},
           \A q \in Objects : q \notin Touches(j) => rows'[q] = rows[q],
           orphans \subseteq orphans' \cup {j.o},
           \A k \in todo : k = j \/ k \in todo',
           NEW u \in Workers, u # w
    PROVE  WorkerFollows(proc[u])'
<1> DEFINE p == proc[u]
<1>1. /\ WorkerFollows(p) /\ WorkerKnown(p) /\ (p.pc = "idle" \/ HasJob(p)) /\ p' = p
  BY Held DEF Ordered, Known
<1>2. ASSUME p.pc \in {"write", "delete"}
      PROVE  p.o \in Objects /\ p.o \notin Touches(j) /\ p.job \in Jobs
  <2>1. p.job \in Jobs /\ p.o \in Objects /\ p.o \in Affects(p.job)
    BY <1>1, <1>2 DEF HasJob, WorkerKnown
  <2>2. p.o \in Touches(p.job) /\ p.job # NoJob
    BY <2>1, JobShape
  <2> QED
    BY <2>1, <2>2
<1>3. j.o \in Affects(j) /\ Affects(j) \subseteq Touches(j) /\ j.o \in Touches(j)
  BY JobShape
<1> HIDE DEF p
<1>4. \A q : Waiting(q) /\ q \notin Affects(j) => Waiting(q)'
  BY DEF Waiting, Affects
<1>5. p.pc = "write" => p.seen = rows'[p.o] \/ p.o \in orphans' \/ Waiting(p.o)'
  BY <1>1, <1>2, <1>3, <1>4 DEF WorkerFollows, Waiting
<1>6. p.pc = "delete" => rows'[p.o] = 0 \/ Waiting(p.o)'
  BY <1>1, <1>2, <1>3, <1>4 DEF WorkerFollows, Waiting
<1>7. WorkerFollows(p)'
  BY <1>1, <1>5, <1>6 DEF WorkerFollows, Waiting
<1> QED
  BY <1>7 DEF p

LEMMA StartJobOrdered ==
    ASSUME IInv, Known, Ordered, NEW w \in Workers, NEW j \in todo, StartJob(w, j), ~Crosses(w, j)
    PROVE  Ordered'
<1>1. /\ j \in Jobs /\ docs' = docs /\ state' = state /\ orphans' = orphans
      /\ \A q \in Objects : rows'[q] = rows[q] \/ q \in Affects(j)
  BY StartRows
<1> DEFINE p == IF j.o \in Comments THEN [Idle EXCEPT !.pc = "read", !.job = j, !.o = Parent[j.o]]
                                    ELSE [Idle EXCEPT !.pc = "project", !.job = j]
<1>2. Goes(w, p) /\ todo' = todo \ {j} /\ proc[w] = Idle
  BY DEF StartJob
<1>3. p.job = j /\ IF j.o \in Comments THEN p.pc = "read" /\ p.o = Parent[j.o] ELSE p.pc = "project"
  BY DEF Idle
<1> HIDE DEF p
<1>4. proc'[w] = p /\ (\A u \in Writers : u # w => proc'[u] = proc[u]) /\ w \in Writers
  BY <1>2, Moved, Constants
<1>5. Ahead(p) = Affects(j)
  <2>1. CASE j.o \in Comments
    <3>1. Parent[j.o] # j.o
      BY <2>1, Constants
    <3>2. Affects(j) = {j.o, Parent[j.o]}
      BY <2>1 DEF Affects
    <3>3. Ahead(p) = Affects(p.job) \cap ({p.o} \cup (IF p.o # p.job.o THEN {p.job.o} ELSE {}))
      BY <1>3, <2>1, AheadShape
    <3> QED
      BY <1>3, <2>1, <3>1, <3>2, <3>3
  <2>2. CASE j.o \notin Comments
    BY <1>3, <2>2, AheadShape DEF Affects
  <2> QED
    BY <2>1, <2>2
<1>6. Ahead(Idle) = {}
  BY DEF Idle, NoJob, Ahead
<1>7. ASSUME NEW q PROVE (Due(q) => Due(q)') /\ (q \in Affects(j) => Due(q)')
  <2>1. q \in Affects(j) => q \in Ahead(proc'[w])
    BY <1>4, <1>5
  <2>2. Waiting(q) => Waiting(q)' \/ \E u \in Workers : q \in Ahead(proc'[u])
    BY <1>2, <2>1 DEF Waiting, Affects
  <2>3. \A u \in Workers : q \in Ahead(proc[u]) => Waiting(q)' \/ q \in Ahead(proc'[u])
    BY <1>2, <1>4, <1>6, Constants
  <2>4. q \in Affects(j) => Due(q)'
    BY <2>1 DEF Due, Ahead, Affects
  <2> QED
    BY <2>2, <2>3, <2>4, DueKept
<1>8. Explained
  BY <1>1, <1>7 DEF Explained
<1>9. \A u \in Workers : u # w /\ proc[u].job # NoJob => Touches(proc[u].job) \cap Touches(j) = {}
  BY DEF Crosses
<1>10. Apart'
  BY <1>3, <1>4, <1>9, Constants DEF Ordered, Apart, Touches, Children
<1>11. Complete' => Complete
  BY <1>1, <1>3, <1>4, CompleteKept
<1>12. ASSUME NEW u \in Workers PROVE WorkerFollows(proc[u])'
  <2>1. CASE u = w
    BY <1>3, <1>4, <2>1 DEF WorkerFollows
  <2>2. CASE u # w
    <3>1. \A q \in Objects : q \notin Touches(j) => rows'[q] = rows[q]
      BY <1>1, JobShape
    <3>2. \A k \in todo : k = j \/ k \in todo'
      BY <1>2
    <3> QED
      BY <1>1, <1>4, <1>9, <2>2, <3>1, <3>2, OthersFollow, Constants
  <2> QED
    BY <2>1, <2>2
<1> QED
  BY <1>1, <1>4, <1>8, <1>10, <1>11, <1>12, OneOrdered, Constants

LEMMA ProjectOrdered ==
    ASSUME IInv, Known, Ordered, NEW w \in Workers, Project(w)
    PROVE  Ordered'
<1> DEFINE j == proc[w].job
           p == [proc[w] EXCEPT !.pc = IF j.v = Gone THEN "delete" ELSE "read", !.o = j.o]
<1>1. /\ UNCHANGED <<docs, state, todo>> /\ orphans \subseteq orphans' \cup {j.o}
      /\ \A q \in Objects : \/ rows'[q] = rows[q] \/ q = j.o
                            \/ rows'[q] = 0 /\ q \in orphans' /\ q \in Children(j.o)
      /\ j \in Jobs /\ proc[w].pc = "project"
      /\ j.v = Gone => rows'[j.o] = 0
  BY ProjectRows
<1>2. Goes(w, p)
  BY DEF Project
<1>3. proc[w] \in ProcTypes /\ w \in Writers /\ j # NoJob /\ j.o \in Affects(j)
      /\ Affects(j) \subseteq Touches(j) /\ Children(j.o) \subseteq Touches(j)
  BY <1>1, Held, Constants, JobShape
<1>4. p.job = j /\ p.o = j.o /\ p.pc = (IF j.v = Gone THEN "delete" ELSE "read")
  BY <1>3 DEF ProcTypes
<1> HIDE DEF p
<1>5. proc'[w] = p /\ \A u \in Writers : u # w => proc'[u] = proc[u]
  BY <1>2, <1>3, Moved
<1>6. Ahead(proc[w]) = {j.o} /\ Ahead(p) = {j.o}
  BY <1>1, <1>3, <1>4, AheadShape
<1>7. ASSUME NEW q PROVE (Due(q) => Due(q)') /\ (q = j.o => Due(q)')
  <2>1. Waiting(q) => Waiting(q)'
    BY <1>1 DEF Waiting, Affects
  <2>2. \A u \in Workers : q \in Ahead(proc[u]) => q \in Ahead(proc'[u])
    BY <1>5, <1>6, Constants
  <2>3. ASSUME q = j.o PROVE Due(q)'
    <3>1. q \in Ahead(proc'[w])
      BY <1>5, <1>6, <2>3
    <3> QED
      BY <3>1 DEF Due, Ahead, Affects
  <2> QED
    BY <2>1, <2>2, <2>3, DueKept
<1>8. Explained
  BY <1>1, <1>7 DEF Explained
<1>9. \A u \in Workers : u # w /\ proc[u].job # NoJob => Touches(proc[u].job) \cap Touches(j) = {}
  BY <1>3 DEF Ordered, Apart
<1>10. Apart'
  BY <1>4, <1>5, ApartKept, Constants DEF Ordered
<1>11. Complete' => Complete
  BY <1>1, <1>3, <1>4, <1>5, CompleteKept
<1>12. ASSUME NEW u \in Workers PROVE WorkerFollows(proc[u])'
  <2>1. CASE u = w
    BY <1>1, <1>4, <1>5, <2>1 DEF WorkerFollows
  <2>2. CASE u # w
    <3>1. \A q \in Objects : q \notin Touches(j) => rows'[q] = rows[q]
      BY <1>1, <1>3
    <3> HIDE DEF j
    <3> QED
      BY <1>1, <1>5, <1>9, <2>2, <3>1, OthersFollow, Constants
  <2> QED
    BY <2>1, <2>2
<1> QED
  BY <1>1, <1>3, <1>5, <1>8, <1>10, <1>11, <1>12, OneOrdered, Constants

(* A step that leaves rows and orphans alone.                              *)
LEMMA RowsStay ==
    ASSUME UNCHANGED <<rows, orphans>>, todo \subseteq todo',
           \A q \in Objects : \A u \in Workers : q \in Ahead(proc[u]) => Waiting(q)' \/ q \in Ahead(proc'[u])
    PROVE  Explained
<1>1. \A q : Waiting(q) => Waiting(q)'
  BY DEF Waiting, Affects
<1>2. \A q \in Objects : Due(q) => Due(q)'
  BY <1>1, DueKept
<1> QED
  BY <1>2 DEF Explained

LEMMA OthersStay ==
    ASSUME Ordered, UNCHANGED <<rows, orphans>>, todo \subseteq todo', NEW u \in Workers, proc'[u] = proc[u]
    PROVE  WorkerFollows(proc[u])'
<1>1. \A q : Waiting(q) => Waiting(q)'
  BY DEF Waiting, Affects
<1>2. WorkerFollows(proc[u])
  BY DEF Ordered
<1> QED
  BY <1>1, <1>2 DEF WorkerFollows, Waiting

LEMMA ReadOrdered ==
    ASSUME IInv, Known, Ordered, NEW w \in Workers, ReadStored(w)
    PROVE  Ordered'
<1> DEFINE p == [proc[w] EXCEPT !.pc = "write", !.seen = Shown(proc[w])]
<1>1. /\ proc[w].pc = "read" /\ Goes(w, p)
      /\ UNCHANGED <<rows, docs, state, todo, orphans>>
  BY DEF ReadStored, history
<1>2. proc[w] \in ProcTypes /\ w \in Writers
  BY Held, Constants
<1>3. p.job = proc[w].job /\ p.o = proc[w].o /\ p.pc = "write" /\ p.seen = rows[p.o]
  BY <1>2 DEF ProcTypes, Shown
<1> HIDE DEF p
<1>4. proc'[w] = p /\ \A u \in Writers : u # w => proc'[u] = proc[u]
  BY <1>1, <1>2, Moved
<1>5. Ahead(p) = Ahead(proc[w])
  BY <1>1, <1>3 DEF Ahead
<1>6. Explained
  <2>1. \A q \in Objects : \A u \in Workers : q \in Ahead(proc[u]) => q \in Ahead(proc'[u])
    BY <1>4, <1>5, Constants
  <2> QED
    BY <1>1, <2>1, RowsStay
<1>7. Apart'
  BY <1>3, <1>4, ApartKept, Constants DEF Ordered
<1>8. Complete' => Complete
  BY <1>1, <1>2, <1>3, <1>4, CompleteKept
<1>9. ASSUME NEW u \in Workers PROVE WorkerFollows(proc[u])'
  <2>1. CASE u = w
    BY <1>1, <1>3, <1>4, <2>1 DEF WorkerFollows
  <2>2. CASE u # w
    BY <1>1, <1>4, <2>2, OthersStay, Constants
  <2> QED
    BY <2>1, <2>2
<1> QED
  BY <1>1, <1>2, <1>4, <1>6, <1>7, <1>8, <1>9, OneOrdered, Constants

LEMMA JobFailsOrdered ==
    ASSUME IInv, Known, Ordered, NEW w \in Workers, JobFails(w)
    PROVE  Ordered'
<1>1. /\ proc[w].pc # "idle" /\ todo' = todo \cup {proc[w].job} /\ Goes(w, Idle)
      /\ UNCHANGED <<rows, docs, state, orphans>>
  BY DEF JobFails, history
<1>2. w \in Writers
  BY Constants
<1>3. proc'[w] = Idle /\ \A u \in Writers : u # w => proc'[u] = proc[u]
  BY <1>1, <1>2, Moved
<1>4. Explained
  <2>1. \A q : q \in Affects(proc[w].job) => Waiting(q)'
    BY <1>1 DEF Waiting, Affects
  <2>2. \A q \in Objects : \A u \in Workers : q \in Ahead(proc[u]) => Waiting(q)' \/ q \in Ahead(proc'[u])
    BY <1>3, <2>1, AheadShape, Constants
  <2> QED
    BY <1>1, <2>2, RowsStay
<1>5. Idle.pc = "idle" /\ Idle.job = NoJob
  BY DEF Idle
<1>6. Apart'
  BY <1>3, <1>5, ApartKept, Constants DEF Ordered
<1>7. Complete' => Complete
  BY <1>1, <1>2, <1>3, <1>5, CompleteKept
<1>8. ASSUME NEW u \in Workers PROVE WorkerFollows(proc[u])'
  <2>1. CASE u = w
    BY <1>3, <1>5, <2>1 DEF WorkerFollows
  <2>2. CASE u # w
    BY <1>1, <1>3, <2>2, OthersStay, Constants
  <2> QED
    BY <2>1, <2>2
<1> QED
  BY <1>1, <1>2, <1>3, <1>4, <1>6, <1>7, <1>8, OneOrdered, Constants

(* A worker marks; rebuilds that are under way are disturbed.              *)
LEMMA WriterMarks ==
    ASSUME IInv, NEW w \in Workers, state' = state,
           \A u \in Workers : u # w => proc'[u] = proc[u],
           \A r \in Rebuilders : \/ proc'[r] = proc[r] /\ Loaded(proc[r]) = {}
                                 \/ proc'[r] = [proc[r] EXCEPT !.disturbed = TRUE],
           proc'[w].pc = "mark" => proc'[w].change = "touched" /\ proc'[w].old = state
    PROVE  /\ Complete' => Complete
           /\ \A r \in Rebuilders : RebuildFollows(proc[r])'
<1>1. ASSUME NEW u \in Writers, proc'[u].pc = "mark", proc'[u].change = "succeeded" \/ proc'[u].old.cover = "complete"
      PROVE  Complete
  <2>1. CASE u = w
    BY <1>1, <2>1 DEF Complete
  <2>2. CASE u # w /\ u \in Workers
    BY <1>1, <2>2 DEF Complete
  <2>3. CASE u \in Rebuilders
    <3>1. proc[u] \in ProcTypes
      BY <2>3, Held, Constants
    <3>2. proc'[u].pc = proc[u].pc /\ proc'[u].change = proc[u].change /\ proc'[u].old = proc[u].old
      BY <2>3, <3>1 DEF ProcTypes
    <3> QED
      BY <1>1, <3>2 DEF Complete
  <2> QED
    BY <2>1, <2>2, <2>3 DEF Writers
<1>2. ASSUME NEW r \in Rebuilders PROVE RebuildFollows(proc[r])'
  <2>1. CASE proc'[r] = proc[r] /\ Loaded(proc[r]) = {}
    BY <2>1 DEF RebuildFollows, Loaded
  <2>2. CASE proc'[r] = [proc[r] EXCEPT !.disturbed = TRUE]
    BY <2>2, Held, Constants DEF RebuildFollows, ProcTypes
  <2> QED
    BY <2>1, <2>2
<1> QED
  BY <1>1, <1>2 DEF Complete

LEMMA UpsertOrdered ==
    ASSUME IInv, Known, Ordered, NEW w \in Workers, UpsertDocument(w)
    PROVE  Ordered'
<1> DEFINE p == proc[w]
           q == Marking(p, "touched")
<1>1. /\ p.pc = "write" /\ docs' = [docs EXCEPT ![p.o] = p.seen] /\ WhileRebuilding(w, q)
      /\ UNCHANGED <<rows, todo, state, orphans>>
  BY DEF UpsertDocument, history
<1>2. w \in Writers /\ p \in ProcTypes /\ WorkerKnown(p) /\ WorkerFollows(p) /\ p.o \in Objects /\ docs \in Images
  BY <1>1, Held, Constants DEF Known, Ordered, HasJob
<1>3. q.pc = "mark" /\ q.job = p.job /\ q.o = p.o /\ q.change = "touched" /\ q.old = state
  BY <1>2 DEF Marking, ProcTypes
<1> HIDE DEF p, q
<1>4. /\ proc'[w] = q
      /\ \A u \in Workers : u # w => proc'[u] = proc[u]
      /\ \A r \in Rebuilders : r # w => \/ proc'[r] = proc[r] /\ Loaded(proc[r]) = {}
                                        \/ proc'[r] = [proc[r] EXCEPT !.disturbed = TRUE]
  BY <1>1, <1>2, MovedWhileRebuilding
<1>5. \A o : o \in Ahead(p) /\ o # p.o => o \in Ahead(q)
  BY <1>1, <1>3 DEF Ahead
<1>6. \A o : Waiting(o) => Waiting(o)' /\ Due(o)'
  BY <1>1 DEF Waiting, Due, Affects
<1>7. \A o \in Objects : o # p.o /\ Due(o) => Due(o)'
  BY <1>4, <1>5, <1>6, DueKept DEF p
<1>8. \A o \in Objects : docs'[o] = IF o = p.o THEN p.seen ELSE docs[o]
  BY <1>1, <1>2 DEF Images
<1>9. (Complete' => Complete) /\ \A r \in Rebuilders : RebuildFollows(proc[r])'
  BY <1>1, <1>3, <1>4, WriterMarks, Constants
<1>10. ASSUME NEW o \in Objects PROVE Follows(o, docs[o])' /\ (Complete' => Covers(o, docs[o])')
  <2>1. CASE o = p.o
    BY <1>1, <1>2, <1>6, <1>8, <2>1 DEF Follows, Covers, WorkerKnown, WorkerFollows
  <2>2. CASE o # p.o
    BY <1>1, <1>7, <1>8, <1>9, <2>2 DEF Follows, Covers, Ordered
  <2> QED
    BY <2>1, <2>2
<1>11. ASSUME NEW u \in Workers PROVE WorkerFollows(proc[u])'
  <2>1. CASE u = w
    BY <1>3, <1>4, <2>1 DEF WorkerFollows
  <2>2. CASE u # w
    BY <1>1, <1>4, <2>2, OthersStay
  <2> QED
    BY <2>1, <2>2
<1>12. Apart'
  BY <1>3, <1>4, ApartKept DEF Ordered, p
<1> QED
  BY <1>9, <1>10, <1>11, <1>12 DEF Ordered

LEMMA DeleteOrdered ==
    ASSUME IInv, Known, Ordered, NEW w \in Workers, DeleteDocument(w)
    PROVE  Ordered'
<1> DEFINE p == proc[w]
           q == IF docs[p.o] # 0 THEN Marking(p, "touched") ELSE Idle
<1>1. /\ p.pc = "delete" /\ docs' = [docs EXCEPT ![p.o] = 0] /\ WhileRebuilding(w, q)
      /\ UNCHANGED <<rows, todo, state, orphans>>
  BY DEF DeleteDocument, history
<1>2. w \in Writers /\ p \in ProcTypes /\ WorkerKnown(p) /\ WorkerFollows(p) /\ p.o \in Objects /\ docs \in Images
      /\ p.o = p.job.o
  BY <1>1, Held, Constants DEF Known, Ordered, HasJob, WorkerKnown
<1>3. q.pc \in {"mark", "idle"} /\ q.job \in {p.job, NoJob} /\ (q.pc = "mark" => q.change = "touched" /\ q.old = state)
  BY <1>2 DEF Marking, ProcTypes, Idle
<1> HIDE DEF p, q
<1>4. /\ proc'[w] = q
      /\ \A u \in Workers : u # w => proc'[u] = proc[u]
      /\ \A r \in Rebuilders : r # w => \/ proc'[r] = proc[r] /\ Loaded(proc[r]) = {}
                                        \/ proc'[r] = [proc[r] EXCEPT !.disturbed = TRUE]
  BY <1>1, <1>2, MovedWhileRebuilding
<1>5. \A o : o \in Ahead(p) => o = p.o
  BY <1>1, <1>2 DEF Ahead
<1>6. \A o : Waiting(o) => Waiting(o)' /\ Due(o)'
  BY <1>1 DEF Waiting, Due, Affects
<1>7. \A o \in Objects : o # p.o /\ Due(o) => Due(o)'
  BY <1>4, <1>5, <1>6, DueKept DEF p
<1>8. \A o \in Objects : docs'[o] = IF o = p.o THEN 0 ELSE docs[o]
  BY <1>1, <1>2 DEF Images
<1>9. (Complete' => Complete) /\ \A r \in Rebuilders : RebuildFollows(proc[r])'
  BY <1>1, <1>3, <1>4, WriterMarks, Constants
<1>10. ASSUME NEW o \in Objects PROVE Follows(o, docs[o])' /\ (Complete' => Covers(o, docs[o])')
  <2>1. CASE o = p.o
    BY <1>1, <1>2, <1>6, <1>8, <2>1 DEF Follows, Covers, WorkerFollows
  <2>2. CASE o # p.o
    BY <1>1, <1>7, <1>8, <1>9, <2>2 DEF Follows, Covers, Ordered
  <2> QED
    BY <2>1, <2>2
<1>11. ASSUME NEW u \in Workers PROVE WorkerFollows(proc[u])'
  <2>1. CASE u = w
    BY <1>3, <1>4, <2>1 DEF WorkerFollows
  <2>2. CASE u # w
    BY <1>1, <1>4, <2>2, OthersStay
  <2> QED
    BY <2>1, <2>2
<1>12. Apart'
  BY <1>3, <1>4, ApartKept DEF Ordered, p
<1> QED
  BY <1>9, <1>10, <1>11, <1>12 DEF Ordered

LEMMA MarkOrdered ==
    ASSUME IInv, Known, Ordered, NEW w \in Writers, UpsertRepoTextSearchState(w)
    PROVE  Ordered'
<1> DEFINE p == proc[w]
           q == CASE p.change = "started"  -> [Idle EXCEPT !.pc = "issues"]
                  [] p.o # p.job.o          -> [Idle EXCEPT !.pc = "project", !.job = p.job]
                  [] OTHER                  -> Idle
<1>1. p.pc = "mark" /\ Goes(w, q) /\ UNCHANGED <<rows, docs, todo, orphans>> /\ state' = Changed(p.change, p.old)
  BY DEF UpsertRepoTextSearchState, history
<1>2. p \in ProcTypes /\ ((w \in Workers /\ HasJob(p)) \/ (w \in Rebuilders /\ Rebuilds(p)))
  BY <1>1, Held DEF Writers
<1>3. p.change \in {"started", "succeeded", "failed", "touched"} /\ p.old \in States
  BY <1>1, <1>2 DEF HasJob, Rebuilds, ProcTypes
<1>4. /\ q.pc \in {"issues", "project", "idle"} /\ q.job \in {p.job, NoJob}
      /\ w \in Workers /\ p.o # p.job.o => q.pc = "project" /\ q.job = p.job
  <2>1. CASE p.change = "started"
    BY <1>1, <1>2, <2>1, Constants DEF Idle, HasJob
  <2>2. CASE p.change # "started" /\ p.o # p.job.o
    BY <2>2 DEF Idle
  <2>3. CASE p.change # "started" /\ p.o = p.job.o
    <3>1. q = Idle
      BY <2>3
    <3> QED
      BY <2>3, <3>1 DEF Idle
  <2> QED
    BY <2>1, <2>2, <2>3
<1>5. state'.cover = "complete" => p.change = "succeeded" \/ p.old.cover = "complete"
  BY <1>1, <1>3 DEF Changed, touched, coverageOrDefault, States
<1> HIDE DEF p, q
<1>6. proc'[w] = q /\ \A u \in Writers : u # w => proc'[u] = proc[u]
  BY <1>1, Moved
<1>7. Complete' => Complete
  <2>1. state'.cover = "complete" => Complete
    BY <1>1, <1>5 DEF Complete, p
  <2> QED
    BY <1>4, <1>6, <2>1 DEF Complete
<1>8. Explained
  <2>1. w \in Workers => Ahead(p) \subseteq Ahead(q)
    BY <1>1, <1>4, AheadShape
  <2>2. \A o \in Objects : \A u \in Workers : o \in Ahead(proc[u]) => o \in Ahead(proc'[u])
    BY <1>6, <2>1, Constants DEF p
  <2> QED
    BY <1>1, <2>2, RowsStay
<1>9. Apart'
  <2>1. \A u \in Workers : proc'[u].job \in {proc[u].job, NoJob}
    BY <1>4, <1>6, Constants DEF p
  <2> QED
    BY <2>1, ApartKept DEF Ordered
<1>10. ASSUME NEW u \in Workers PROVE WorkerFollows(proc[u])'
  <2>1. CASE u = w
    BY <1>4, <1>6, <2>1 DEF WorkerFollows
  <2>2. CASE u # w
    BY <1>1, <1>6, <2>2, OthersStay, Constants
  <2> QED
    BY <2>1, <2>2
<1>11. w \in Rebuilders => RebuildFollows(proc[w])'
  BY <1>4, <1>6 DEF RebuildFollows, Loaded
<1> QED
  BY <1>1, <1>6, <1>7, <1>8, <1>9, <1>10, <1>11, OneOrdered

(* What a rebuilder does to its own record changes nothing for workers.    *)
LEMMA RebuilderMoves ==
    ASSUME IInv, Ordered, NEW r \in Rebuilders, \A u \in Writers : u # r => proc'[u] = proc[u],
           UNCHANGED <<rows, docs, todo, state, orphans>>,
           proc'[r].pc = "mark" => proc'[r].change # "succeeded" /\ proc'[r].old = state,
           RebuildFollows(proc[r])'
    PROVE  Ordered'
<1>1. r \in Writers /\ \A u \in Workers : proc'[u] = proc[u]
  BY Constants
<1>2. Explained
  BY <1>1, RowsStay
<1>3. Apart' /\ \A u \in Workers : WorkerFollows(proc[u])'
  BY <1>1, ApartKept, OthersStay DEF Ordered
<1>4. Complete' => Complete
  BY <1>1, CompleteKept
<1> QED
  BY <1>1, <1>2, <1>3, <1>4, OneOrdered

LEMMA RebuildEndsOrdered ==
    ASSUME IInv, Ordered, NEW r \in Rebuilders, Start(r) \/ RebuildFails(r) \/ RebuildDies(r)
    PROVE  Ordered'
<1>1. /\ UNCHANGED <<rows, docs, todo, state, orphans>>
      /\ \E p : /\ Goes(r, p) /\ p.pc \in {"mark", "idle"}
                /\ p.pc = "mark" => p.change # "succeeded" /\ p.old = state
  <2>1. Idle.pc = "idle"
    BY DEF Idle
  <2>2. ASSUME NEW change
        PROVE  Marking(Idle, change).pc = "mark" /\ Marking(Idle, change).change = change /\ Marking(Idle, change).old = state
    BY DEF Idle, Marking
  <2> QED
    BY <2>1, <2>2 DEF Start, RebuildFails, RebuildDies, history
<1>2. /\ proc'[r].pc \in {"mark", "idle"} /\ \A u \in Writers : u # r => proc'[u] = proc[u]
      /\ proc'[r].pc = "mark" => proc'[r].change # "succeeded" /\ proc'[r].old = state
  BY <1>1, Moved, Constants
<1>3. RebuildFollows(proc[r])'
  BY <1>2 DEF RebuildFollows, Loaded
<1> QED
  BY <1>1, <1>2, <1>3, RebuilderMoves

LEMMA LoadOrdered ==
    ASSUME IInv, Ordered, NEW r \in Rebuilders, LoadRebuildIssues(r) \/ LoadRebuildComments(r)
    PROVE  Ordered'
<1>1. /\ UNCHANGED <<rows, docs, todo, state, orphans>> /\ \A u \in Writers : u # r => proc'[u] = proc[u]
      /\ proc'[r].disturbed = proc[r].disturbed /\ proc'[r].pc # "mark"
  BY LoadShape
<1>2. \A o : Due(o) => Due(o)'
  <2>1. \A u \in Workers : proc'[u] = proc[u]
    BY <1>1, Constants
  <2> QED
    BY <1>1, <2>1, DueKept DEF Waiting, Affects
<1>3. RebuildFollows(proc[r])'
  <2>1. RebuildFollows(proc[r])
    BY DEF Ordered
  <2> SUFFICES ASSUME ~proc'[r].disturbed, NEW o \in Loaded(proc'[r])
               PROVE  (Follows(o, proc[r].image[o]) /\ Covers(o, proc[r].image[o]))'
    BY DEF RebuildFollows, Loaded
  <2>2. CASE proc'[r].image[o] = rows[o]
    BY <1>1, <2>2 DEF Follows, Covers
  <2>3. CASE o \in Loaded(proc[r]) /\ proc'[r].image[o] = proc[r].image[o]
    BY <1>1, <1>2, <2>1, <2>3 DEF RebuildFollows, Follows, Covers
  <2> QED
    BY <2>2, <2>3, LoadShape
<1> QED
  BY <1>1, <1>3, RebuilderMoves

LEMMA ReplaceOrdered ==
    ASSUME IInv, Known, Ordered, NEW r \in Rebuilders, ReplaceRepositoryDocuments(r), ~proc[r].disturbed
    PROVE  Ordered'
<1> DEFINE p == proc[r]
           q == Marking(p, "succeeded")
<1>1. p.pc = "replace" /\ docs' = p.image /\ WhileRebuilding(r, q) /\ UNCHANGED <<rows, todo, state, orphans>>
  BY DEF ReplaceRepositoryDocuments, Replaced
<1>2. r \in Writers /\ p \in ProcTypes /\ RebuildFollows(p) /\ Loaded(p) = Objects /\ ~p.disturbed
  BY <1>1, Held, Constants DEF Ordered, Loaded
<1>3. q.pc = "mark"
  BY <1>2 DEF Marking, ProcTypes
<1> HIDE DEF p, q
<1>4. /\ proc'[r] = q
      /\ \A u \in Workers : proc'[u] = proc[u]
      /\ \A s \in Rebuilders : s # r => \/ proc'[s] = proc[s] /\ Loaded(proc[s]) = {}
                                        \/ proc'[s] = [proc[s] EXCEPT !.disturbed = TRUE]
  BY <1>1, <1>2, MovedWhileRebuilding, Constants
<1>5. \A o : Due(o) => Due(o)'
  BY <1>1, <1>4, DueKept DEF Waiting, Affects
<1>6. \A o \in Objects : Follows(o, docs[o])' /\ Covers(o, docs[o])'
  BY <1>1, <1>2, <1>5 DEF RebuildFollows, Follows, Covers
<1>7. Apart' /\ \A u \in Workers : WorkerFollows(proc[u])'
  BY <1>1, <1>4, ApartKept, OthersStay DEF Ordered
<1>8. ASSUME NEW s \in Rebuilders PROVE RebuildFollows(proc[s])'
  <2>1. CASE s = r
    BY <1>3, <1>4, <2>1 DEF RebuildFollows, Loaded
  <2>2. CASE proc'[s] = proc[s] /\ Loaded(proc[s]) = {}
    BY <2>2 DEF RebuildFollows, Loaded
  <2>3. CASE proc'[s] = [proc[s] EXCEPT !.disturbed = TRUE]
    BY <2>3, Held, Constants DEF RebuildFollows, ProcTypes
  <2> QED
    BY <1>4, <2>1, <2>2, <2>3
<1> QED
  BY <1>6, <1>7, <1>8 DEF Ordered

(* A step that leaves all as it is.                                        *)
LEMMA NothingOrdered ==
    ASSUME IInv, Ordered, UNCHANGED vars
    PROVE  Ordered'
<1>1. proc' = proc /\ UNCHANGED <<rows, docs, todo, state, orphans>>
  BY DEF vars
<1>2. Explained
  BY <1>1, RowsStay, Constants
<1>3. Apart' /\ \A u \in Workers : WorkerFollows(proc[u])'
  BY <1>1, ApartKept, OthersStay DEF Ordered
<1>4. Complete' => Complete
  BY <1>1 DEF Complete
<1>5. \A r \in Rebuilders : RebuildFollows(proc[r])'
  BY <1>1, <1>2, FollowsKept DEF Ordered
<1>6. \A o \in Objects : Follows(o, docs[o])' /\ (Complete' => Covers(o, docs[o])')
  BY <1>1, <1>2, <1>4, FollowsKept DEF Ordered
<1> QED
  BY <1>3, <1>5, <1>6 DEF Ordered

LEMMA NextOrdered ==
    ASSUME IInv, Known, Ordered, [Next]_vars, ~raced'
    PROVE  Ordered'
<1>1. CASE UNCHANGED vars
  BY <1>1, NothingOrdered
<1>2. ASSUME NEW w \in Workers, NEW j \in todo, StartJob(w, j) PROVE Ordered'
  BY <1>2, StartJobOrdered DEF StartJob
<1>3. ASSUME NEW r \in Rebuilders, ReplaceRepositoryDocuments(r) PROVE Ordered'
  BY <1>3, ReplaceOrdered DEF ReplaceRepositoryDocuments
<1> QED
  BY <1>1, <1>2, <1>3, GitHubOrdered, ProjectOrdered, ReadOrdered, UpsertOrdered, DeleteOrdered, JobFailsOrdered,
     MarkOrdered, RebuildEndsOrdered, LoadOrdered DEF Next
-----------------------------------------------------------------------------
(* Once two writers have crossed, they have.                               *)
LEMMA RacedStays == [Next]_vars /\ raced => raced'
BY DEF Next, vars, bounds, history, Change, Remove, StartJob, Project, ReadStored, UpsertDocument, DeleteDocument, JobFails,
       UpsertRepoTextSearchState, Start, LoadRebuildIssues, LoadRebuildComments, Load, ReplaceRepositoryDocuments,
       RebuildFails, RebuildDies

(* The inductive invariant of the properties, for every instance.          *)
THEOREM Invariance == Spec => []OInv
<1>1. Init => OInv
  BY Initially, KnownInit, OrderedInit DEF OInv
<1>2. OInv /\ [Next]_vars => OInv'
  <2> SUFFICES ASSUME OInv, [Next]_vars PROVE OInv'
    OBVIOUS
  <2>1. IInv' /\ Known'
    BY Inductive, NextKnown DEF OInv
  <2>2. ASSUME ~raced' PROVE Ordered'
    BY <2>2, RacedStays, NextOrdered DEF OInv
  <2> QED
    BY <2>1, <2>2 DEF OInv
<1> QED
  BY <1>1, <1>2, PTL DEF Spec
-----------------------------------------------------------------------------
(* What is due is pending.                                                 *)
LEMMA DueIsPending ==
    ASSUME IInv, Known, NEW o, Due(o)
    PROVE  Pending(o)
<1>1. CASE Waiting(o)
  <2>1. PICK j \in todo : o \in Affects(j)
    BY <1>1 DEF Waiting
  <2>2. o \in Touches(j)
    BY <2>1, Held, JobShape
  <2> QED
    BY <2>2 DEF Pending
<1>2. ASSUME NEW w \in Workers, o \in Ahead(proc[w]) PROVE Pending(o)
  <2> DEFINE p == proc[w]
  <2>1. o \in Affects(p.job)
    BY <1>2, AheadShape
  <2>2. p \in ProcTypes /\ (p.pc = "idle" \/ HasJob(p))
    BY Held, Constants
  <2>3. p.job \in Jobs
    <3>1. CASE p.pc = "idle"
      <4>1. p.o = p.job.o
        BY <3>1 DEF Known, WorkerKnown
      <4> QED
        BY <1>2, <3>1, <4>1, AheadShape
    <3> QED
      BY <2>2, <3>1 DEF HasJob
  <2>4. p.job # NoJob /\ o \in Touches(p.job)
    BY <2>1, <2>3, JobShape
  <2> QED
    BY <2>4 DEF Pending
<1> QED
  BY <1>1, <1>2 DEF Due

(* An object whose deliveries are worked off, in any order and however     *)
(* often they failed, has a document of its row or none, unless two        *)
(* writers crossed or its issue took its row along.                        *)
THEOREM DocumentsFollow == Spec => []DocumentsFollowRows
<1>1. OInv => DocumentsFollowRows
  BY DueIsPending DEF OInv, Ordered, Follows, DocumentsFollowRows
<1> QED
  BY <1>1, Invariance, PTL

(* An index that readers are told is complete has a document for every row *)
(* whose deliveries are worked off, unless two writers crossed.            *)
THEOREM CompleteCovers == Spec => []CompleteCoversRows
<1>1. OInv => CompleteCoversRows
  <2> SUFFICES ASSUME OInv, ~raced, Coverage = "complete", NEW o \in Objects, ~Pending(o), rows[o] # 0
               PROVE  docs[o] # 0
    BY DEF CompleteCoversRows
  <2>1. Complete
    BY DEF Coverage, Complete
  <2> QED
    BY <2>1, DueIsPending DEF OInv, Ordered, Covers
<1> QED
  BY <1>1, Invariance, PTL
-----------------------------------------------------------------------------
LEMMA NothingLost ==
    ASSUME OInv, [Next]_vars, ~raced', NEW o \in Objects, docs[o] # 0, rows[o] # 0, gh[o] # Gone
    PROVE  docs'[o] # 0
<1>1. CASE docs' = docs
  BY <1>1
<1>2. ASSUME NEW w \in Workers, UpsertDocument(w) PROVE docs'[o] # 0
  <2>1. proc[w].pc = "write" /\ docs' = [docs EXCEPT ![proc[w].o] = proc[w].seen]
    BY <1>2 DEF UpsertDocument
  <2>2. proc[w].seen # 0
    BY <2>1 DEF OInv, Known, WorkerKnown
  <2> QED
    BY <2>1, <2>2, Held DEF OInv, Images
<1>3. ASSUME NEW w \in Workers, DeleteDocument(w) PROVE docs'[o] # 0
  <2> DEFINE p == proc[w]
  <2>1. p.pc = "delete" /\ docs' = [docs EXCEPT ![p.o] = 0]
    BY <1>3 DEF DeleteDocument
  <2>2. p.job \in Jobs
    BY <2>1, Held DEF OInv, HasJob
  <2>3. p.job # NoJob
    BY <2>2, JobShape
  <2>4. gh[p.o] = Gone
    BY <2>1, <2>3 DEF OInv, Known, WorkerKnown, JobKnown
  <2> QED
    BY <2>1, <2>4, Held DEF OInv, Images
<1>4. ASSUME NEW r \in Rebuilders, ReplaceRepositoryDocuments(r) PROVE docs'[o] # 0
  <2>1. proc[r].pc = "replace" /\ docs' = proc[r].image /\ ~proc[r].disturbed
    BY <1>4 DEF ReplaceRepositoryDocuments, Replaced
  <2>2. RebuildKnown(proc[r]) /\ Loaded(proc[r]) = Objects
    BY <2>1 DEF OInv, Known, Loaded
  <2> QED
    BY <2>1, <2>2 DEF RebuildKnown
<1>5. docs' = docs \/ (\E w \in Workers : UpsertDocument(w) \/ DeleteDocument(w))
      \/ \E r \in Rebuilders : ReplaceRepositoryDocuments(r)
  BY DEF Next, vars, Change, Remove, StartJob, Project, ReadStored, JobFails, UpsertRepoTextSearchState,
         Start, LoadRebuildIssues, LoadRebuildComments, Load, RebuildFails, RebuildDies
<1> QED
  BY <1>1, <1>2, <1>3, <1>4, <1>5

(* No step takes away the document of a row that GitHub has not deleted,   *)
(* unless two writers crossed.                                             *)
THEOREM NothingIsLost == Spec => NothingVanishes
<1> DEFINE Kept == ~raced' => \A o \in Objects : docs[o] # 0 /\ rows[o] # 0 /\ gh[o] # Gone => docs'[o] # 0
<1>1. OInv /\ [Next]_vars => [Kept]_vars
  BY NothingLost
<1> QED
  BY <1>1, Invariance, PTL DEF Spec, NothingVanishes
=============================================================================
